-------------------------------- MODULE Nvme --------------------------------
(***************************************************************************)
(* An NVMe disk (drivers/nvme.rs): one I/O queue pair, one command at a     *)
(* time, its completion polled with a timeout.  The controller fetches      *)
(* commands in order and carries them out in any order, slowly or never; a  *)
(* command the driver gave up on still owns the bounce buffer as much as    *)
(* the next one does.                                                       *)
(***************************************************************************)
EXTENDS Naturals, FiniteSets

CONSTANTS QUEUE_ENTRIES,
          Ids,            \* command ids: 0 .. n - 1, next_id wraps at n (2^16)
          MaxAbandoned,   \* commands given up and still with the controller (a bound)
          Lbas, Values, Blank, None

VARIABLES disk, bounce, call, reply,
          sq, sq_tail,              \* entries are commands [id, op, lba], or None
          cq, cq_head, phase,       \* entries are [id, status, phase]
          next_id,
          sq_head, cq_tail, dev_phase,    \* its own places in the queues
          running,        \* commands it has fetched
          moved,          \* those whose data it has moved
          clean           \* it had none but the current call's when that began

drv == <<sq, sq_tail, cq_head, phase, next_id>>
dev == <<cq, sq_head, cq_tail, dev_phase, running, moved>>
vars == <<disk, bounce, call, reply, clean, drv, dev>>

Slot == 0 .. QUEUE_ENTRIES - 1
IdCount == Cardinality(Ids)
Succ(i) == (i + 1) % QUEUE_ENTRIES

Init ==
  /\ disk = [l \in Lbas |-> Blank] /\ bounce = Blank
  /\ call = None /\ reply = None /\ clean = TRUE
  /\ sq = [i \in Slot |-> None] /\ sq_tail = 0
  /\ cq = [i \in Slot |-> [id |-> 0, status |-> 0, phase |-> 0]] /\ cq_head = 0 /\ phase = 1
  /\ next_id = 0
  /\ sq_head = 0 /\ cq_tail = 0 /\ dev_phase = 1
  /\ running = {} /\ moved = {}

-----------------------------------------------------------------------------
(* The controller.  What either side has read from a queue is forgotten, but *)
(* for the phase of a completion entry.                                      *)

\* Commands rung in and not fetched.
Waiting == {sq[(sq_head + k) % QUEUE_ENTRIES] :
              k \in 0 .. ((sq_tail + QUEUE_ENTRIES - sq_head) % QUEUE_ENTRIES) - 1}
Unfinished == Waiting \cup running
CurrentId == (next_id + IdCount - 1) % IdCount
Late == {c \in Unfinished : call = None \/ c.id # CurrentId}

Fetch ==
  /\ sq_head # sq_tail
  /\ running' = running \cup {sq[sq_head]}
  /\ sq' = [sq EXCEPT ![sq_head] = None]
  /\ sq_head' = Succ(sq_head)
  /\ UNCHANGED <<disk, bounce, call, reply, clean, sq_tail, cq_head, phase, next_id, cq, cq_tail, dev_phase, moved>>

\* The data of a command moves, through whatever the bounce buffer holds now.
Dma(c) ==
  /\ c \in running \ moved
  /\ moved' = moved \cup {c}
  /\ IF c.op = "read" THEN bounce' = disk[c.lba] /\ UNCHANGED disk
     ELSE disk' = [disk EXCEPT ![c.lba] = bounce] /\ UNCHANGED bounce
  /\ UNCHANGED <<call, reply, clean, drv, cq, sq_head, cq_tail, dev_phase, running>>

\* A command is completed, with success only once its data has moved; not while
\* the completion queue is full.
Complete(c, status) ==
  /\ c \in running
  /\ Succ(cq_tail) # cq_head
  /\ status = 0 => c \in moved
  /\ cq' = [cq EXCEPT ![cq_tail] = [id |-> c.id, status |-> status, phase |-> dev_phase]]
  /\ cq_tail' = Succ(cq_tail)
  /\ dev_phase' = IF cq_tail' = 0 THEN 1 - dev_phase ELSE dev_phase
  /\ running' = running \ {c}
  /\ moved' = moved \ {c}
  /\ UNCHANGED <<disk, bounce, call, reply, clean, drv, sq_head>>

-----------------------------------------------------------------------------
(* The driver. *)

\* No more commands are given up than fit the queue: a bound.
Room == Succ(sq_tail) # sq_head /\ Cardinality(Unfinished) <= MaxAbandoned

\* No command outlives a wrap of the ids (65,536 commands): a bound.
IdFree ==
  LET unread == {cq[(cq_head + k) % QUEUE_ENTRIES] :
                   k \in 0 .. ((cq_tail + QUEUE_ENTRIES - cq_head) % QUEUE_ENTRIES) - 1}
  IN  next_id \notin {c.id : c \in Unfinished} \cup {e.id : e \in unread}

\* What the caller's buffer holds afterwards.
Got(ok) == IF ok /\ call.op = "read" THEN bounce ELSE Blank

\* read() or write(), io() and submit() up to the doorbell.
submit(op, lba, val) ==
  /\ call = None
  /\ Room /\ IdFree
  /\ call' = [op |-> op, lba |-> lba, val |-> val]
  /\ clean' = (Unfinished = {})
  /\ bounce' = IF op = "write" THEN val ELSE bounce
  /\ sq' = [sq EXCEPT ![sq_tail] = [id |-> next_id, op |-> op, lba |-> lba]]
  /\ sq_tail' = Succ(sq_tail)
  /\ next_id' = (next_id + 1) % IdCount
  /\ reply' = None
  /\ UNCHANGED <<disk, cq_head, phase, dev>>

Ready == cq[cq_head].phase = phase

\* Moving on to the next completion entry.
Read == cq' = [cq EXCEPT ![cq_head] = [id |-> 0, status |-> 0, phase |-> @.phase]]
AdvanceKeepsPhase ==
  /\ Read
  /\ cq_head' = Succ(cq_head)
  /\ phase' = phase
Advance ==
  /\ Read
  /\ cq_head' = Succ(cq_head)
  /\ phase' = IF cq_head' = 0 THEN 1 - phase ELSE phase

Own(id) == id = CurrentId

Polled ==
  /\ call # None /\ Ready
  /\ Advance
  /\ IF Own(cq[cq_head].id)
     THEN /\ \E ok \in {cq[cq_head].status = 0} : reply' = [ok |-> ok, val |-> Got(ok)]
          /\ call' = None
     ELSE UNCHANGED <<reply, call>>
  /\ UNCHANGED <<disk, bounce, clean, sq, sq_tail, next_id, sq_head, cq_tail, dev_phase, running, moved>>

TimeOut ==
  /\ call # None /\ ~Ready
  /\ reply' = [ok |-> FALSE, val |-> Blank]
  /\ call' = None
  /\ UNCHANGED <<disk, bounce, clean, drv, dev>>

\* Nothing is asked for, or nothing has come yet.
Idle == (call = None \/ ~Ready) /\ UNCHANGED vars

Next ==
  \/ \E l \in Lbas : submit("read", l, Blank) \/ \E v \in Values : submit("write", l, v)
  \/ Polled \/ TimeOut \/ Idle
  \/ Fetch
  \/ \E c \in running : Dma(c) \/ \E status \in {0, 1} : Complete(c, status)

\* The driver polls and its clock ticks; the controller may do nothing.
Fairness == WF_vars(Polled) /\ WF_vars(TimeOut)

Spec == Init /\ [][Next]_vars /\ Fairness

-----------------------------------------------------------------------------
(* Properties. *)

\* With no abandoned command left in the controller a call that succeeds moved
\* its sector, and a command given up can still change no sector but its own:
\* its late completion is told from the next command's by its id, across the
\* wrap of both queues (nvme.rs:131-165).
Promise == INSTANCE DiskPromise WITH late <- Late
ImplementsDisk == Promise!Init /\ [][Promise!Next(Ids)]_(Promise!vars)
=============================================================================
