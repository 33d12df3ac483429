------------------------------ MODULE XhciRing ------------------------------
(***************************************************************************)
(* A transfer ring and the event ring of an xHCI controller                 *)
(* (drivers/usb/mod.rs).  Neither side tells the other how far it has come  *)
(* but by the cycle bit of each entry; a transfer ring's last entry links   *)
(* back to its first, the event ring just wraps.  A transfer that fails     *)
(* halts the ring until the driver moves the controller past it.            *)
(***************************************************************************)
EXTENDS Naturals, Sequences

CONSTANTS RING_TRBS, EVENT_TRBS,
          Outstanding,    \* transfers a driver has queued at once
          Names           \* of transfers: 0 .. n - 1, in turn

VARIABLES trbs, enqueue, cycle,             \* the transfer ring: [name, cycle]
          link,                             \* the cycle bit of its link entry
          events, event_dequeue, event_cycle,
          at, ccs, halted,                  \* the controller's place in the ring
          event_enqueue, pcs, erdp,         \* and in the event ring
          next,                             \* the next name
          due                               \* names queued and not answered, in order

ring == <<trbs, enqueue, cycle, link>>
vars == <<ring, events, event_dequeue, event_cycle, at, ccs, halted,
          event_enqueue, pcs, erdp, next, due>>

Slot == 0 .. RING_TRBS - 2
EventSlot == 0 .. EVENT_TRBS - 1
Flip(bit) == 1 - bit

Init ==
  /\ trbs = [i \in Slot |-> [name |-> 0, cycle |-> 0]] /\ enqueue = 0 /\ cycle = 1 /\ link = 0
  /\ events = [i \in EventSlot |-> [name |-> 0, ok |-> TRUE, cycle |-> 0]]
  /\ event_dequeue = 0 /\ event_cycle = 1
  /\ at = 0 /\ ccs = 1 /\ halted = FALSE
  /\ event_enqueue = 0 /\ pcs = 1 /\ erdp = 0
  /\ next = 0 /\ due = <<>>

-----------------------------------------------------------------------------
(* The driver. *)

push(name) ==
  /\ trbs' = [trbs EXCEPT ![enqueue] = [name |-> name, cycle |-> cycle]]
  /\ enqueue' = (enqueue + 1) % (RING_TRBS - 1)
  /\ link' = IF enqueue' = 0 THEN cycle ELSE link
  /\ cycle' = IF enqueue' = 0 THEN Flip(cycle) ELSE cycle

queue_in ==
  /\ Len(due) < Outstanding
  /\ push(next)
  /\ due' = Append(due, next)
  /\ next' = (next + 1) % Names
  /\ UNCHANGED <<events, event_dequeue, event_cycle, at, ccs, halted, event_enqueue, pcs, erdp>>

\* recover_endpoint(): the controller resumes at dequeue_after(), past all that
\* is queued.
Resumed ==
  /\ at' = enqueue
  /\ ccs' = cycle
  /\ halted' = FALSE

\* Mutant: the cycle that marks a new event is the same in every lap.
SameCycle(dequeue) == event_cycle
EventCycle(dequeue) == IF dequeue = 0 THEN Flip(event_cycle) ELSE event_cycle

\* process_events(): one event of the batch; the controller learns how far the
\* driver has come when the batch is over.  A failure is recovered from.
process_events ==
  LET e == events[event_dequeue]
  IN  /\ e.cycle = event_cycle
      /\ event_dequeue' = (event_dequeue + 1) % EVENT_TRBS
      /\ event_cycle' = EventCycle(event_dequeue')
      /\ IF e.ok THEN due' = Tail(due) /\ UNCHANGED <<at, ccs, halted>>
         ELSE due' = <<>> /\ Resumed
      /\ erdp' = IF events[event_dequeue'].cycle = event_cycle' THEN erdp ELSE event_dequeue'
      /\ UNCHANGED <<ring, events, event_enqueue, pcs, next>>

-----------------------------------------------------------------------------
(* The controller. *)

EventRoom == (event_enqueue + 1) % EVENT_TRBS # erdp

\* It carries out the entry it is at, if that is its own, and answers it.
Transfer(ok) ==
  /\ ~halted /\ at \in Slot /\ trbs[at].cycle = ccs /\ EventRoom
  /\ events' = [events EXCEPT ![event_enqueue] = [name |-> trbs[at].name, ok |-> ok, cycle |-> pcs]]
  /\ event_enqueue' = (event_enqueue + 1) % EVENT_TRBS
  /\ pcs' = IF event_enqueue' = 0 THEN Flip(pcs) ELSE pcs
  /\ halted' = ~ok
  /\ at' = at + 1
  /\ UNCHANGED <<ring, ccs, event_dequeue, event_cycle, erdp, next, due>>

FollowLink ==
  /\ ~halted /\ at = RING_TRBS - 1 /\ link = ccs
  /\ at' = 0 /\ ccs' = Flip(ccs)
  /\ UNCHANGED <<ring, events, event_dequeue, event_cycle, halted, event_enqueue, pcs, erdp, next, due>>

Idle == due = <<>> /\ UNCHANGED vars

Next ==
  \/ queue_in \/ process_events
  \/ \E ok \in BOOLEAN : Transfer(ok)
  \/ FollowLink \/ Idle

Spec == Init /\ [][Next]_vars

-----------------------------------------------------------------------------
(* Properties. *)

\* The driver sees each transfer answered once and in order, across the wraps of
\* both rings and through recovery: the event it looks at next is the oldest
\* transfer's (mod.rs:193-216, 387-408).
AnsweredInOrder ==
  events[event_dequeue].cycle = event_cycle
    => due # <<>> /\ events[event_dequeue].name = Head(due)
=============================================================================
