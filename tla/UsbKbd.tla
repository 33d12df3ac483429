------------------------------- MODULE UsbKbd -------------------------------
(***************************************************************************)
(* USB keyboards (drivers/usb/kbd.rs): reports of the keys held, turned     *)
(* into bytes in one queue, and key repeat made by the kernel.  Keyboards   *)
(* come and go; a place in the table is used again once its keyboard is     *)
(* gone.  A report is [shift, keys], keys in the order they are listed, or  *)
(* Rollover when too many are held.                                         *)
(***************************************************************************)
EXTENDS Keymap, Naturals, Sequences, SequencesExt

CONSTANTS MAX_KEYBOARDS,
          Reports,
          QUEUE           \* slots of the queue, one of them kept empty

VARIABLES dev,            \* of each place: "none", "live", "stopped", "gone"
          last,           \* the previous report: what is held
          caps_lock,
          repeat_kb, repeat_usage, repeat_mods,
          due,            \* repeat_at_ms has come
          queue, head, tail,
          typed           \* bytes that should be in the queue

vars == <<dev, last, caps_lock, repeat_kb, repeat_usage, repeat_mods, due, queue, head, tail, typed>>

Keyboard == 1 .. MAX_KEYBOARDS
Nobody == 0                       \* usize::MAX
NoKey == "none"
Rollover == [shift |-> FALSE, keys |-> <<"rollover">>]
NoKeys == [shift |-> FALSE, keys |-> <<>>]

Init ==
  /\ dev = [k \in Keyboard |-> "none"] /\ last = [k \in Keyboard |-> NoKeys]
  /\ caps_lock = FALSE
  /\ repeat_kb = Nobody /\ repeat_usage = NoKey /\ repeat_mods = FALSE /\ due = FALSE
  /\ queue = [i \in 0 .. QUEUE - 1 |-> NoKey] /\ head = 0 /\ tail = 0 /\ typed = <<>>

-----------------------------------------------------------------------------
(* The queue. *)

Room == ((tail + QUEUE - head) + QUEUE - 1) % QUEUE

push_bytes(bs) ==
  LET n == IF Len(bs) < Room THEN Len(bs) ELSE Room
  IN  /\ queue' = [i \in 0 .. QUEUE - 1 |->
                     LET k == (i + QUEUE - head) % QUEUE IN IF k < n THEN bs[k + 1] ELSE queue[i]]
      /\ head' = (head + n) % QUEUE

\* What the queue's reader is owed: the rest of what does not fit is dropped.
Upto(bs, n) == SubSeq(bs, 1, IF Len(bs) < n THEN Len(bs) ELSE n)
Owe(bs) == typed' = typed \o Upto(bs, QUEUE - 1 - Len(typed))

type_key(usage, shift, caps) ==
  IF usage \in Codes THEN bytes(usage, (IF shift THEN {"shift"} ELSE {}) \cup (IF caps THEN {"caps"} ELSE {}))
  ELSE <<>>

-----------------------------------------------------------------------------
(* Reports. *)

New(kb, r) == SelectSeq(r.keys, LAMBDA u : ~Contains(last[kb].keys, u))

\* The keys of a report that were not held before, in order: the bytes they type
\* and caps lock after them.
Pressed(kb, r) ==
  LET new == New(kb, r)
      after[n \in 0 .. Len(new)] ==
        IF n = 0 THEN [out |-> <<>>, caps |-> caps_lock]
        ELSE IF new[n] = "KeyCaps" THEN [after[n - 1] EXCEPT !.caps = ~@]
        ELSE [after[n - 1] EXCEPT !.out = @ \o type_key(new[n], r.shift, after[n - 1].caps)]
  IN  after[Len(new)]

\* handle_report() for keyboard kb, and the buffer is queued again.
handle_report(kb, r) ==
  LET keys == SelectSeq(New(kb, r), LAMBDA u : u # "KeyCaps")
      kb1 == IF keys = <<>> THEN repeat_kb ELSE kb
      usage1 == IF keys = <<>> THEN repeat_usage ELSE Last(keys)
  IN  /\ dev[kb] = "live" /\ r # Rollover
      /\ \E p \in {Pressed(kb, r)} :
           push_bytes(p.out) /\ Owe(p.out) /\ caps_lock' = p.caps
      /\ due' = (due /\ keys = <<>>)
      /\ repeat_kb' = kb1
      /\ repeat_usage' = IF kb1 = kb /\ ~Contains(r.keys, usage1) THEN NoKey ELSE usage1
      /\ repeat_mods' = IF kb1 = kb THEN r.shift ELSE repeat_mods
      /\ last' = [last EXCEPT ![kb] = r]
      /\ UNCHANGED <<dev, tail>>

\* on_report() with a failed transfer: the buffer is not queued again.
ReportFails(kb) ==
  /\ dev[kb] = "live"
  /\ dev' = [dev EXCEPT ![kb] = "stopped"]
  /\ repeat_usage' = IF repeat_kb = kb THEN NoKey ELSE repeat_usage
  /\ UNCHANGED <<last, caps_lock, repeat_kb, repeat_mods, due, queue, head, tail, typed>>

-----------------------------------------------------------------------------
(* Coming and going. *)

Unplug(kb) ==
  /\ dev[kb] \in {"live", "stopped"}
  /\ dev' = [dev EXCEPT ![kb] = "gone"]
  /\ UNCHANGED <<last, caps_lock, repeat_kb, repeat_usage, repeat_mods, due, queue, head, tail, typed>>

\* Mutant: what was held is forgotten, that it was repeating is not.
KeepRepeat(kb) == UNCHANGED <<repeat_kb, repeat_usage>>
Forget(kb) ==
  IF repeat_kb = kb THEN repeat_kb' = Nobody /\ repeat_usage' = NoKey
  ELSE UNCHANGED <<repeat_kb, repeat_usage>>

\* The first place that is free or whose keyboard is gone is made new; one of the
\* requests to the keyboard may fail.
probe(kb, ok) ==
  /\ dev[kb] \in {"none", "gone"}
  /\ \A k \in Keyboard : k < kb => dev[k] \notin {"none", "gone"}
  /\ Forget(kb)
  /\ last' = [last EXCEPT ![kb] = NoKeys]
  /\ dev' = [dev EXCEPT ![kb] = IF ok THEN "live" ELSE "none"]
  /\ UNCHANGED <<caps_lock, repeat_mods, due, queue, head, tail, typed>>

-----------------------------------------------------------------------------
(* poll_char() *)

Tick == ~due /\ repeat_usage # NoKey /\ due' = TRUE
        /\ UNCHANGED <<dev, last, caps_lock, repeat_kb, repeat_usage, repeat_mods, queue, head, tail, typed>>

RepeatLost == repeat_usage # NoKey /\ dev[repeat_kb] \in {"none", "gone"}

\* The byte's slot is cleared, which only keeps states few: it is written before
\* it is read again.
PollByte ==
  /\ head # tail
  /\ tail' = (tail + 1) % QUEUE /\ queue' = [queue EXCEPT ![tail] = NoKey]
  /\ typed' = Tail(typed)
  /\ repeat_usage' = IF RepeatLost THEN NoKey ELSE repeat_usage
  /\ UNCHANGED <<dev, last, caps_lock, repeat_kb, repeat_mods, due, head>>

\* An empty queue: a repeat that is due is typed first, and its first byte read.
PollRepeat ==
  LET bs == type_key(repeat_usage, repeat_mods, caps_lock)
  IN  /\ head = tail /\ repeat_usage # NoKey /\ ~RepeatLost /\ due
      /\ push_bytes(bs)
      /\ due' = FALSE
      /\ tail' = IF bs = <<>> THEN tail ELSE (tail + 1) % QUEUE
      /\ typed' = IF bs = <<>> THEN typed ELSE Tail(Upto(bs, QUEUE - 1))
      /\ UNCHANGED <<dev, last, caps_lock, repeat_kb, repeat_usage, repeat_mods>>

PollNone ==
  /\ head = tail /\ (RepeatLost \/ repeat_usage = NoKey \/ ~due)
  /\ repeat_usage' = IF RepeatLost THEN NoKey ELSE repeat_usage
  /\ UNCHANGED <<dev, last, caps_lock, repeat_kb, repeat_mods, due, queue, head, tail, typed>>

Next ==
  \/ \E kb \in Keyboard :
       \/ \E r \in Reports : handle_report(kb, r)
       \/ ReportFails(kb) \/ Unplug(kb)
       \/ \E ok \in BOOLEAN : probe(kb, ok)
  \/ Tick \/ PollByte \/ PollRepeat \/ PollNone

Spec == Init /\ [][Next]_vars

-----------------------------------------------------------------------------
(* Properties. *)

\* The key being repeated is held on a keyboard of the table, or that keyboard is
\* gone and the next poll will notice: no key repeats for ever because it was let
\* go on a keyboard that was unplugged, replaced or in a place used again
\* (kbd.rs:103-128, 190-194, 235-237).  It is also what keeps the table from
\* being indexed with Nobody.
RepeatIsHeld ==
  repeat_usage # NoKey =>
    /\ repeat_kb \in Keyboard
    /\ dev[repeat_kb] = "live" => Contains(last[repeat_kb].keys, repeat_usage)
    /\ dev[repeat_kb] # "stopped"

\* The queue holds what was typed, in order and up to its room, however far its
\* indices have wrapped (kbd.rs:82-91, 245-250).
QueueIsTyped ==
  /\ Len(typed) = (head + QUEUE - tail) % QUEUE
  /\ \A k \in 1 .. Len(typed) : typed[k] = queue[(tail + k - 1) % QUEUE]
=============================================================================
