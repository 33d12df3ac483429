---------------------------- MODULE UsbEnumerate ----------------------------
(***************************************************************************)
(* Getting to know a USB device (drivers/usb/mod.rs): the control transfers *)
(* that enumerate_port() and the class drivers' probes (kbd.rs, storage.rs) *)
(* make.  A completion on endpoint 0 is not matched to its request, and a   *)
(* request that timed out stays queued, its answer still going to the       *)
(* device's one control buffer: what keeps a late answer from being read as *)
(* another's is the order in which requests are made and given up.          *)
(***************************************************************************)
EXTENDS Sequences, SequencesExt

CONSTANT None

VARIABLES kinds,      \* what the device's descriptors say it is
          pc,         \* the request that is waited for, or how it ended
          pending,    \* requests queued on endpoint 0
          events,     \* completions not yet processed
          buf,        \* whose answer the control buffer holds
          read        \* the answer last used: [of, was]

vars == <<kinds, pc, pending, events, buf, read>>

Data == {"desc8", "desc", "conf9", "conf"}
Ended == {"nothing", "keyboard", "disk"}

Init ==
  /\ kinds \in SUBSET {"hub", "kbd", "disk"}
  /\ pc = "desc8" /\ pending = <<"desc8">>
  /\ events = <<>> /\ buf = None /\ read = None

-----------------------------------------------------------------------------
(* The device answers the oldest request, or refuses it. *)

Answer ==
  /\ pending # <<>> /\ ~Contains(events, "stall")
  /\ pending' = Tail(pending)
  /\ buf' = IF Head(pending) \in Data THEN Head(pending) ELSE buf
  /\ events' = Append(events, "ok")
  /\ UNCHANGED <<kinds, pc, read>>

Stall ==
  /\ pending # <<>> /\ ~Contains(events, "stall")
  /\ events' = Append(events, "stall")
  /\ UNCHANGED <<kinds, pc, pending, buf, read>>

-----------------------------------------------------------------------------
(* The driver. *)

\* storage::probe() up to its first request.
ProbeStorage == IF "disk" \in kinds THEN "disk_config" ELSE "nothing"

\* What can follow a request that was answered; fix_mps0(), add_interrupt_in(),
\* add_bulk(), start() and the allocations on the way may fail.
AfterAnswer(request) ==
  CASE request = "desc8" -> {"desc", "nothing"}
    [] request = "desc" -> {IF "hub" \in kinds THEN "nothing" ELSE "conf9"}
    [] request = "conf9" -> {"conf"}
    [] request = "conf" -> {IF "kbd" \in kinds THEN "kbd_config" ELSE ProbeStorage}
    [] request = "kbd_config" -> {"kbd_protocol"}
    [] request = "kbd_protocol" -> {"kbd_idle"}
    [] request = "kbd_idle" -> {"keyboard", ProbeStorage}
    [] request = "disk_config" -> {"disk", "nothing"}

\* What can follow one that failed: nothing, unless a class driver's probe gives
\* up and the next one's is tried, or the request was optional.  The mutant asks
\* for the whole descriptor anyway.
AskAnyway(request) ==
  CASE request = "desc8" -> {"desc"}
    [] request \in {"kbd_config", "kbd_protocol"} -> {ProbeStorage}
    [] request = "kbd_idle" -> {"keyboard", ProbeStorage}
    [] OTHER -> {"nothing"}
AfterFailure(request) ==
  CASE request \in Data \cup {"disk_config"} -> {"nothing"}
    [] request \in {"kbd_config", "kbd_protocol"} -> {ProbeStorage}
    [] request = "kbd_idle" -> {"keyboard", ProbeStorage}

\* control() queues a request behind what is there.
Go(requests, queued) ==
  \E r \in requests :
    /\ pc' = r
    /\ pending' = IF r \in Ended THEN queued ELSE Append(queued, r)

\* handle_event(): any completion on endpoint 0 ends the wait, the last that is
\* there says how.  After a refusal recover_endpoint() drops what is queued.
Completed ==
  /\ pc \notin Ended /\ events # <<>>
  /\ events' = <<>>
  /\ IF Last(events) = "ok"
     THEN /\ Go(AfterAnswer(pc), pending)
          /\ read' = IF pc \in Data THEN [of |-> pc, was |-> buf] ELSE read
     ELSE Go(AfterFailure(pc), <<>>) /\ UNCHANGED read
  /\ UNCHANGED <<kinds, buf>>

\* The completions that come after the last request are processed and dropped.
Dropped ==
  /\ pc \in Ended /\ events # <<>>
  /\ events' = <<>>
  /\ UNCHANGED <<kinds, pc, pending, buf, read>>

TimeOut ==
  /\ pc \notin Ended /\ events = <<>>
  /\ Go(AfterFailure(pc), pending)
  /\ UNCHANGED <<kinds, events, buf, read>>

Rest == pc \in Ended /\ UNCHANGED vars

Next == Answer \/ Stall \/ Completed \/ Dropped \/ TimeOut \/ Rest

Spec == Init /\ [][Next]_vars

-----------------------------------------------------------------------------
(* Properties. *)

\* Every descriptor that is looked at is the answer to the request made for it,
\* though completions are not matched to requests and those of requests given up
\* may still come (mod.rs:354-358, 505-554, 794-848).
AnswerIsOwn == read # None => read.was = read.of
=============================================================================
