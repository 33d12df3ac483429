----------------------------- MODULE UsbStorage -----------------------------
(***************************************************************************)
(* A USB disk: SCSI over Bulk-Only Transport (drivers/usb/storage.rs) on    *)
(* the controller driver's bulk and control transfers (drivers/usb/mod.rs). *)
(* Each pipe is a ring of transfer blocks, named for the memory they move:  *)
(* the command (31 bytes), the data (a sector), the status (13 bytes).  A   *)
(* transfer that timed out stays in its ring, ahead of the ones after it,   *)
(* and a completion event is taken for the transfer that is waited for.     *)
(* The disk answers when it likes, or never, or refuses.                    *)
(***************************************************************************)
EXTENDS Naturals, Sequences, FiniteSets

CONSTANTS Lbas, Values, Blank, None,
          Tags,         \* 0 .. n - 1; the driver's tag wraps at n (2^32)
          MaxTimeouts   \* (a bound)

VARIABLES disk, call, reply,
          pc, tag,
          cbw, bounce, csw,         \* DMA memory: [tag, op, lba]; a sector; [tag, ok]
          ring, halted,             \* by pipe: queued blocks, stopped at an error
          events,                   \* completions: [pipe, cc]
          at, cmd,                  \* the disk: what it expects, the command it is at
          stalls,                   \* pipes it refuses until told otherwise
          clean,                    \* nothing was left over when the call began
          timeouts,
          doubtful                  \* sectors of writes that were reported failed

memory == <<cbw, bounce, csw>>
host == <<ring, halted, events>>
device == <<at, cmd, stalls>>
vars == <<disk, call, reply, pc, tag, memory, host, device, clean, timeouts, doubtful>>

Pipe == {"in", "out"}
Junk == "junk"                      \* a status read into the sector
NoCsw == [tag |-> None, ok |-> FALSE]

Init ==
  /\ disk = [l \in Lbas |-> Blank]
  /\ call = None /\ reply = None /\ pc = "idle" /\ tag = 0
  /\ cbw = None /\ bounce = Blank /\ csw = NoCsw
  /\ ring = [p \in Pipe |-> <<>>] /\ halted = {} /\ events = <<>>
  /\ at = "idle" /\ cmd = None /\ stalls = {} /\ clean = TRUE /\ timeouts = 0 /\ doubtful = {}

-----------------------------------------------------------------------------
(* The disk takes the first block of a ring. *)

Took(p, cc) ==
  /\ ring[p] # <<>> /\ p \notin halted
  /\ ring' = [ring EXCEPT ![p] = Tail(@)]
  /\ events' = Append(events, [pipe |-> p, cc |-> cc])
  /\ halted' = IF cc \in {"ok", "short"} THEN halted ELSE halted \cup {p}

\* A refusal: the block stays until the ring is moved past it.
Stall(p) ==
  /\ ring[p] # <<>> /\ p \notin halted
  /\ p \in stalls \/ (p = "in" /\ at \in {"read", "status"}) \/ (p = "out" /\ at = "write")
  /\ events' = Append(events, [pipe |-> p, cc |-> "stall"])
  /\ halted' = halted \cup {p}
  /\ stalls' = stalls \cup {p}
  /\ at' = IF at \in {"read", "write"} THEN "status" ELSE at
  /\ cmd' = IF at \in {"read", "write"} THEN [cmd EXCEPT !.ok = FALSE] ELSE cmd
  /\ UNCHANGED <<disk, call, reply, pc, tag, memory, ring, clean, timeouts, doubtful>>

\* A command, or what is not one: then it refuses everything until it is reset.
DevCommand ==
  /\ at = "idle" /\ "out" \notin stalls
  /\ Took("out", IF Head(ring["out"]) = "cbw" THEN "ok" ELSE "stall")
  /\ IF Head(ring["out"]) = "cbw"
     THEN /\ cmd' = [tag |-> cbw.tag, op |-> cbw.op, lba |-> cbw.lba, ok |-> TRUE]
          /\ at' = cbw.op /\ UNCHANGED stalls
     ELSE at' = "invalid" /\ stalls' = Pipe /\ UNCHANGED cmd
  /\ UNCHANGED <<disk, call, reply, pc, tag, memory, clean, timeouts, doubtful>>

\* Data out; a block of another size is not the data.
DevWrite ==
  /\ at = "write" /\ "out" \notin stalls
  /\ Took("out", "ok")
  /\ at' = "status"
  /\ IF Head(ring["out"]) = "data"
     THEN disk' = [disk EXCEPT ![cmd.lba] = bounce] /\ UNCHANGED cmd
     ELSE cmd' = [cmd EXCEPT !.ok = FALSE] /\ UNCHANGED disk
  /\ UNCHANGED <<call, reply, pc, tag, memory, stalls, clean, timeouts, doubtful>>

\* Data in; it does not fit the block of a status.
DevRead ==
  /\ at = "read" /\ "in" \notin stalls
  /\ Took("in", IF Head(ring["in"]) = "data" THEN "ok" ELSE "babble")
  /\ bounce' = IF Head(ring["in"]) = "data" THEN disk[cmd.lba] ELSE bounce
  /\ at' = "status"
  /\ UNCHANGED <<disk, call, reply, pc, tag, cbw, csw, cmd, stalls, clean, timeouts, doubtful>>

DevStatus ==
  /\ at = "status" /\ "in" \notin stalls
  /\ Took("in", IF Head(ring["in"]) = "data" THEN "short" ELSE "ok")
  /\ IF Head(ring["in"]) = "data" THEN bounce' = Junk /\ UNCHANGED csw
     ELSE csw' = [tag |-> cmd.tag, ok |-> cmd.ok] /\ UNCHANGED bounce
  /\ at' = "idle" /\ cmd' = None
  /\ UNCHANGED <<disk, call, reply, pc, tag, cbw, stalls, clean, timeouts, doubtful>>

-----------------------------------------------------------------------------
(* The controller driver. *)

\* bulk(): a block is queued and its completion waited for.
bulk(p, what) == ring' = [ring EXCEPT ![p] = Append(@, what)]

\* handle_event() for every event that is there: the first of the pipe that is
\* waited for ends the transfer, whichever block it is about.
Waiting == pc \in {"cbw", "data", "csw", "csw2"}
Pipe_of(where) == IF where = "cbw" \/ (where = "data" /\ call.op = "write") THEN "out" ELSE "in"
Mine == SelectSeq(events, LAMBDA e : e.pipe = Pipe_of(pc))

\* recover_endpoint(): the ring is moved past what is queued.
Recovered(p) == /\ ring' = [ring EXCEPT ![p] = <<>>]
                /\ halted' = halted \ {p}
NotRecovered == UNCHANGED <<ring, halted>>

-----------------------------------------------------------------------------
(* storage.rs *)

\* read() or write(), rw() and scsi() up to the wait for the command to be sent.
scsi(op, lba, val) ==
  /\ pc = "idle"
  /\ call' = [op |-> op, lba |-> lba, val |-> val]
  /\ reply' = None
  /\ tag' = (tag + 1) % (Cardinality(Tags))
  /\ cbw' = [tag |-> tag', op |-> op, lba |-> lba]
  /\ bounce' = IF op = "write" THEN val ELSE bounce
  /\ bulk("out", "cbw")
  /\ pc' = "cbw"
  /\ clean' = (ring = [p \in Pipe |-> <<>>] /\ at = "idle" /\ events = <<>>)
  /\ UNCHANGED <<disk, csw, halted, events, device, timeouts, doubtful>>

Return(ok) ==
  /\ reply' = [ok |-> ok, val |-> IF ok /\ call.op = "read" THEN bounce ELSE Blank]
  /\ doubtful' = IF ~ok /\ call.op = "write" THEN doubtful \cup {call.lba} ELSE doubtful
  /\ call' = None /\ pc' = "idle"

Recover == pc' = "recovery" /\ UNCHANGED <<call, reply, doubtful>>

\* The status, once its transfer is over: a tag that is not this command's, or no
\* status at all, and the disk is reset.
CheckStatusAnyTag == IF csw.tag # None THEN Return(csw.ok) ELSE Recover
CheckStatus == IF csw.tag = tag THEN Return(csw.ok) ELSE Recover

\* The next stage after one that went well.
DataStage == /\ bulk(Pipe_of("data"), "data") /\ pc' = "data" /\ UNCHANGED csw
StatusStage(where) == /\ bulk("in", "csw") /\ pc' = where /\ csw' = NoCsw

Went(cc) ==
  /\ cc \in {"ok", "short"}
  /\ CASE pc = "cbw" /\ cc = "ok" -> DataStage /\ UNCHANGED <<call, reply, doubtful>>
       [] pc = "cbw" /\ cc # "ok" -> Recover /\ UNCHANGED <<ring, csw>>
       [] pc = "data" -> StatusStage("csw") /\ UNCHANGED <<call, reply, doubtful>>
       [] OTHER -> CheckStatus /\ UNCHANGED <<ring, csw>>
  /\ UNCHANGED halted

\* A refusal is cleared on the controller's side, then on the disk's.
Stalled ==
  /\ \/ Recovered(Pipe_of(pc)) \/ NotRecovered
  /\ pc' = CASE pc = "cbw" -> "recovery" [] pc = "csw2" -> "recovery"
             [] OTHER -> pc \o "_halt"
  /\ UNCHANGED <<call, reply, csw, doubtful>>

\* Any other error: the controller's side stays stopped.
Broke ==
  /\ Recover
  /\ UNCHANGED <<ring, halted, csw>>

Handle ==
  /\ Waiting /\ events # <<>>
  /\ events' = <<>>
  /\ IF Mine = <<>> THEN UNCHANGED <<call, reply, pc, csw, ring, halted, doubtful>>
     ELSE LET cc == Head(Mine).cc
          IN  \/ Went(cc)
              \/ cc = "stall" /\ Stalled
              \/ cc = "babble" /\ Broke
  /\ UNCHANGED <<disk, tag, cbw, bounce, device, clean, timeouts>>

TimeOut ==
  /\ Waiting /\ Mine = <<>>
  /\ timeouts < MaxTimeouts /\ timeouts' = timeouts + 1
  /\ events' = <<>>
  /\ Recover
  /\ UNCHANGED <<disk, tag, memory, ring, halted, device, clean>>

\* clear_halt() in a control transfer, which the disk may not answer; then the
\* status, asked for again after its own refusal.
ClearHalt(done) ==
  /\ pc \in {"data_halt", "csw_halt"}
  /\ stalls' = IF done /\ at # "invalid"
               THEN stalls \ {IF pc = "data_halt" THEN Pipe_of("data") ELSE "in"} ELSE stalls
  /\ StatusStage(IF pc = "data_halt" THEN "csw" ELSE "csw2")
  /\ events' = <<>>
  /\ UNCHANGED <<disk, call, reply, tag, cbw, bounce, halted, at, cmd, clean, timeouts, doubtful>>

\* reset_recovery(): its three control transfers, answered or not.
reset_recovery(done) ==
  /\ pc = "recovery"
  /\ IF done THEN at' = "idle" /\ cmd' = None /\ stalls' = {} ELSE UNCHANGED device
  /\ events' = <<>>
  /\ Return(FALSE)
  /\ UNCHANGED <<disk, tag, memory, ring, halted, clean, timeouts>>

Spin == (pc = "idle" \/ (Waiting /\ Mine = <<>>)) /\ UNCHANGED vars

Next ==
  \/ \E l \in Lbas : scsi("read", l, Blank) \/ \E v \in Values : scsi("write", l, v)
  \/ Handle \/ TimeOut \/ Spin
  \/ \E done \in BOOLEAN : ClearHalt(done) \/ reset_recovery(done)
  \/ DevCommand \/ DevWrite \/ DevRead \/ DevStatus
  \/ \E p \in Pipe : Stall(p)

Spec == Init /\ [][Next]_vars

-----------------------------------------------------------------------------
(* Properties. *)

\* A call that begins with nothing left over and succeeds moved its own sector,
\* and a read does in any case; and no sector changes but the one being written,
\* or one whose write was reported failed.  Whatever calls that timed out left in
\* the rings, and whichever events were taken for others, the status has to carry
\* the command's tag (storage.rs:92-140, mod.rs:359-373).
RealAnswer ==
  /\ reply' # reply /\ reply' # None /\ reply'.ok =>
       IF call.op = "read" THEN disk[call.lba] = reply'.val
       ELSE clean => disk[call.lba] = call.val
  /\ \A l \in Lbas : disk'[l] # disk[l] =>
       l \in doubtful \/ (call # None /\ call.op = "write" /\ call.lba = l)
AnswersAreReal == [][RealAnswer]_vars
=============================================================================
