--------------------------- MODULE MCPeripherals ----------------------------
(***************************************************************************)
(* The virtqueue and the virtio keyboard, xHCI and its clients, the block   *)
(* layer and blkfs, the consoles, and the programs that edit text. They     *)
(* share no state here, so a behaviour is one of theirs: part says whose,   *)
(* and v1, v2, ... are the variables of that part. The ports and the rings  *)
(* of xHCI have variables of their own, which stand still in the others.    *)
(* The disk of blkfs has three sectors of two cells for the tree.           *)
(***************************************************************************)
EXTENDS UsbProofs, SequencesExt, TLC

CONSTANT Parts       \* the parts looked at

CONSTANTS None,
          EVENTQ_BUFFERS, MaxTyped,
          MAX_KEYBOARDS, QUEUE,
          MaxTimeouts,
          sector_count, max_sectors, CHUNK, SPEED, DETECT, Word,
          SECTOR_SIZE, capacity,
          cols, rows, MAX_PARAMS, MaxBatch,
          AVAIL, COLUMNS, LIST_ROWS, MaxArgs, MAX,
          MaxTracks, IN_BYTES, CHUNK_BYTES, FRAME_BYTES, DECODED, FMT

\* What the proofs ask of the constants.
ASSUME UsbConstants ==
  /\ PortsConstants
  /\ RingConstants

Events ==
  {[kind |-> "key", code |-> "KeyShift", value |-> v] : v \in {0, 1}}
    \cup {[kind |-> "key", code |-> "KeyA", value |-> v] : v \in {0, 1}}
    \cup {[kind |-> "key", code |-> "KeyUp", value |-> 2], [kind |-> "syn", code |-> "none", value |-> 0]}

ReportsSent ==
  {[shift |-> FALSE, keys |-> <<>>], [shift |-> FALSE, keys |-> <<"KeyA">>],
   [shift |-> TRUE, keys |-> <<"KeyUp", "KeyCaps">>]}

MCWord == 0 .. 15

\* Trees of one to seven cells: the last does not fit.
Text(s) == <<[type |-> "text", name |-> s, n |-> 0]>>
File(name, content) == [name |-> name, dir |-> FALSE, kids |-> <<>>, content |-> content]
Dir(name, kids) == [name |-> name, dir |-> TRUE, kids |-> kids, content |-> <<>>]
TreesSaved == {
  <<>>,
  <<File("a", Text("x"))>>,
  <<File("b", Text("y")), Dir("d", <<File("c", <<>>), File("a", <<>>)>>)>>,
  <<File("a", Text("x")), File("b", Text("x")), File("c", Text("x"))>>}

AlphabetsUsed ==
  {{"A", "LF", "ESC", "[", "J", "m", "n7"},
   {"A", "CR", "BS", "ESC", "[", "?", "C", "K", "n25", "l"},
   {"A", "two", "three", "cont", "ESC", "[", ";", "H", "n1", "n2"}}

\* MP3s of one to four frames of either rate, some of which do not decode, and ones
\* with a tag that has frames in it, or is cut short, and junk before the music.
\* WAVs with odd chunks, with more or less data than they say, and damaged ones.
Units(k, size) == <<[k |-> k, n |-> size]>>
Mp3Frame(k) == Units(k, 0) \o Units("c", 0)
Music(ks) == FlattenSeq([i \in DOMAIN ks |-> Mp3Frame(ks[i])])
Many(k, count) == [i \in 1 .. count |-> [k |-> k, n |-> 0]]
Tag(size) == Units("ID3", size) \o Music(<<"F">>) \o Units("F", 0)
Mp3s == {Music(<<k>> \o s) : k \in {"F", "X", "B"}, s \in UNION {[1 .. n -> {"F", "X", "B"}] : n \in 0 .. 3}}
          \cup {Tag(3) \o Many("j", n) \o Music(<<"F", "X", "F">>) : n \in 0 .. 6} \cup {Tag(9)}
Fmt(k, size) == Units(k, size) \o Many("d", size + (size % 2))
Data(size, real) == Units("data", size) \o Many("d", real)
Wavs == {Units("RIFF", 0) \o s :
           s \in {Fmt("fmt", 2) \o Data(5, 5), Fmt("fmt", 2) \o Data(9, 7), Fmt("fmt", 3) \o Data(6, 9),
                  Fmt("LIST", 3) \o Fmt("fmt", 3) \o Fmt("LIST", 1) \o Data(9, 9),
                  Fmt("fmt24", 2) \o Data(4, 4), Fmt("fmt", 1) \o Data(4, 4), Data(4, 4), <<>>}}
          \cup {<<>>, Many("d", 4)}

KeptBefore == {<<<<"a", "a">>, <<"a", " ">>>>}

VARIABLES part, v1, v2, v3, v4, v5, v6, v7, v8, v9, v10, v11, v12, v13, v14, v15, v16, v17

Q == INSTANCE VirtioQueue WITH Size <- 2, IdxMod <- 4, MaxSize <- 8,
  Request <- {<<"a">>, <<"b">>, <<"c1", "c2">>}, q <- v1
I == INSTANCE VirtioInput WITH Size <- 3, IdxMod <- 6, MaxSize <- 8, Event <- Events, q <- v1,
  events <- v2, mods <- v3, pending <- v4, typed <- v5, got <- v6
E == INSTANCE UsbEnumerate WITH kinds <- v1, pc <- v2, pending <- v3, events <- v4, buf <- v5,
  read <- v6
K == INSTANCE UsbKbd WITH Reports <- ReportsSent, dev <- v1, last <- v2, caps_lock <- v3,
  repeat_kb <- v4, repeat_usage <- v5, repeat_mods <- v6, due <- v7, queue <- v8, head <- v9,
  tail <- v10, typed <- v11
D == INSTANCE UsbStorage WITH Lbas <- {0, 1}, Values <- {"x"}, Blank <- "o", Tags <- 0 .. 1,
  disk <- v1, call <- v2, reply <- v3, pc <- v4, tag <- v5, cbw <- v6, bounce <- v7, csw <- v8,
  ring <- v9, halted <- v10, events <- v11, at <- v12, cmd <- v13, stalls <- v14, clean <- v15,
  timeouts <- v16, doubtful <- v17
L == INSTANCE BlockLayer WITH disk <- v1, writes_allowed <- v2, pc <- v3, io <- v4,
  calls <- v5, saved <- v6, ok <- v7, at <- v8, result <- v9, failed <- v10, before <- v11
F == INSTANCE Blkfs WITH Trees <- TreesSaved, tree <- v1, sb <- v2, data <- v3, saving <- v4,
  saved <- v5
G == INSTANCE FbConsole WITH Bytes <- {"A", "LF", "ESC", "[", "J", "n2"}, con <- v1,
  batching <- v2, batch_dirty <- v3, batched <- v4
V == INSTANCE Terminals WITH Alphabets <- AlphabetsUsed, vcols <- cols, vrows <- rows,
  VT_PARAMS <- MAX_PARAMS, con <- v1, vt <- v2, alphabet <- v3
T == INSTANCE Scarf WITH Paths <- {"f"}, BadPaths <- {"bad"},
  Contents <- {<<"a", "_", "LF", "a">>}, Typed <- {"a"}, MaxLines <- 2, MaxLen <- 2,
  lines <- v1, filename <- v2, dirty <- v3, cx <- v4, cy <- v5, mode <- v6, focus <- v7,
  pending <- v8, cmd <- v9, quit <- v10, files <- v11
S == INSTANCE Shell WITH Typed <- {"a", " "}, Words <- <<<<"a">>, <<"a", "a">>>>,
  Kept <- KeptBefore, MaxLen <- 3, ed <- v1, items <- v2, file <- v3, at <- v4, left <- v5,
  changed <- v6
Y == INSTANCE Play WITH Tracks <- Mp3s \cup Wavs, track <- v1, left <- v2, pc <- v3, pos <- v4,
  at <- v5, eof <- v6, rate <- v7, start <- v8, pcm <- v9, format <- v10, data <- v11,
  remaining <- v12, paused <- v13, played <- v14

ports_vars == <<plugged, plugs, moves, csc, enabled, events, port_changed, port_devices,
                devices, pc, port, booting, failed>>
ring_vars == <<trbs, enqueue, cycle, link, trb_events, event_dequeue, event_cycle, at, ccs,
               halted, event_enqueue, pcs, erdp, next, due>>
MCVars == <<part, ports_vars, ring_vars, v1, v2, v3, v4, v5, v6, v7, v8, v9, v10, v11, v12,
            v13, v14, v15, v16, v17>>

\* The variables from the k-th on, which a part with fewer has no use for.
From15 == v15 = 0 /\ v16 = 0 /\ v17 = 0
From12 == v12 = 0 /\ v13 = 0 /\ v14 = 0 /\ From15
From7 == v7 = 0 /\ v8 = 0 /\ v9 = 0 /\ v10 = 0 /\ v11 = 0 /\ From12
From6 == v6 = 0 /\ From7
From5 == v5 = 0 /\ From6
From4 == v4 = 0 /\ From5
From2 == v2 = 0 /\ v3 = 0 /\ From4

MCInit ==
  /\ part \in Parts
  /\ P!Init
  /\ part # "ports" => \A i \in Ports : plugged[i] = 0
  /\ R!Init
  /\ \/ part = "queue" /\ Q!Init /\ From2
     \/ part = "input" /\ I!Init /\ From7
     \/ part \in {"ring", "ports"} /\ v1 = 0 /\ From2
     \/ part = "enum" /\ E!Init /\ From7
     \/ part = "kbd" /\ K!Init /\ From12
     \/ part = "storage" /\ D!Init
     \/ part = "layer" /\ L!Init /\ From12
     \/ part = "blkfs" /\ F!Init /\ From6
     \/ part = "fbcon" /\ G!Init /\ From5
     \/ part = "terms" /\ V!Init /\ From4
     \/ part = "scarf" /\ T!Init /\ From12
     \/ part = "shell" /\ S!Init /\ From7
     \/ part = "play" /\ Y!Init /\ From15

MCNext ==
  /\ UNCHANGED part
  /\ IF part = "ports" THEN P!Next ELSE UNCHANGED ports_vars
  /\ IF part = "ring" THEN R!Next ELSE UNCHANGED ring_vars
  /\ \/ part = "queue" /\ Q!Next /\ UNCHANGED <<v2, v3, v4, v5, v6, v7, v8, v9, v10, v11, v12,
          v13, v14, v15, v16, v17>>
     \/ part = "input" /\ I!Next /\ UNCHANGED <<v7, v8, v9, v10, v11, v12, v13, v14, v15, v16,
          v17>>
     \/ part \in {"ring", "ports"} /\ UNCHANGED <<v1, v2, v3, v4, v5, v6, v7, v8, v9, v10, v11,
          v12, v13, v14, v15, v16, v17>>
     \/ part = "enum" /\ E!Next /\ UNCHANGED <<v7, v8, v9, v10, v11, v12, v13, v14, v15, v16,
          v17>>
     \/ part = "kbd" /\ K!Next /\ UNCHANGED <<v12, v13, v14, v15, v16, v17>>
     \/ part = "storage" /\ D!Next
     \/ part = "layer" /\ L!Next /\ UNCHANGED <<v12, v13, v14, v15, v16, v17>>
     \/ part = "blkfs" /\ F!Next /\ UNCHANGED <<v6, v7, v8, v9, v10, v11, v12, v13, v14, v15,
          v16, v17>>
     \/ part = "fbcon" /\ G!Next /\ UNCHANGED <<v5, v6, v7, v8, v9, v10, v11, v12, v13, v14,
          v15, v16, v17>>
     \/ part = "terms" /\ V!Next /\ UNCHANGED <<v4, v5, v6, v7, v8, v9, v10, v11, v12, v13,
          v14, v15, v16, v17>>
     \/ part = "scarf" /\ T!Next /\ UNCHANGED <<v12, v13, v14, v15, v16, v17>>
     \/ part = "shell" /\ S!Next /\ UNCHANGED <<v7, v8, v9, v10, v11, v12, v13, v14, v15, v16,
          v17>>
     \/ part = "play" /\ Y!Next /\ UNCHANGED <<v15, v16, v17>>

MCSpec == MCInit /\ [][MCNext]_MCVars

-----------------------------------------------------------------------------
(* The properties of the parts, under the names the run reports them by.     *)

\* Requests reach the device whole and are answered once each, in whatever order and
\* wherever the indices wrap, and no descriptor is lost or shared on the way
\* (virtio/mod.rs:307-380).
RequestsServed ==
  /\ part = "queue" => Q!Promise!Init
  /\ [][part = "queue" => [Q!Promise!Next]_(Q!Promise!vars)]_MCVars
  /\ [](part = "queue" => Q!DescriptorsSharedOut)

\* Every byte typed on the virtio keyboard is returned once, in order, under the
\* modifiers held then, though an event is found by the descriptor it came back on
\* (input.rs:74-77, 124-157).
HeardAsTyped == part = "input" => I!SlotIsDescriptor /\ I!HeardAsTyped

\* "Just handled them all" (usb/mod.rs:1059), of the changes during the scan too.
JustHandledThemAll == part = "ports" => P!JustHandledThemAll

\* Every descriptor looked at answers the request made for it
\* (usb/mod.rs:505-554, 794-848).
AnswerIsOwn == part = "enum" => E!AnswerIsOwn

\* The key that repeats is held on a keyboard of the table, whichever keyboards come
\* and go, and the queue holds what was typed, in order (kbd.rs:82-128).
KeysTyped == part = "kbd" => K!RepeatIsHeld /\ K!QueueIsTyped

\* A USB disk's success is real, and no sector changes but the one written
\* (storage.rs:92-140).
AnswersAreReal == [][part = "storage" => D!RealAnswer]_MCVars

\* No driver call is empty, too long or past the disk (block.rs:20-22), and a disk test
\* that succeeds has restored what it overwrote (disktest.rs:58-89).
DiskLayerSound == part = "layer" => L!DriverContract /\ L!TestRestores

\* However the tree was edited, saved, refused for its size and loaded again, the disk
\* gives back the last tree saved; a save cut off after its superblock has lost nothing
\* if the tree did not get smaller (blkfs.rs:66-330).
TreeSurvives == part = "blkfs" => F!LoadsLastSave /\ F!SafeToGrow



\* What scarf does not count as changed is in a file, and its cursor is in the text
\* (scarf/src/buffer.rs:19, 66-84, scarf/src/editor.rs:130-166, 290-420).
TextKept == part = "scarf" => T!CursorInText /\ T!NoSilentLoss

\* sh: a walk up the history shows the entry it is at, the completion list replaces what
\* it filled in, and cursor and choice are on the screen (sh/src/editor.rs:200-437).
LineSound == part = "shell" => S!WalkShowsEntry /\ S!ListFillsWord /\ S!CursorInView


=============================================================================
