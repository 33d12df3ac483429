----------------------------- MODULE VirtioInput -----------------------------
(***************************************************************************)
(* The virtio keyboard (drivers/virtio/input.rs): event buffers posted to   *)
(* the device, which fills one per event, and polled for the next byte.     *)
(* The driver finds an event by the index of the descriptor it came back    *)
(* on; nothing but the order of posting makes that the buffer's own index.  *)
(***************************************************************************)
EXTENDS Keymap, Naturals, Sequences

CONSTANTS Size, IdxMod, MaxSize,
          EVENTQ_BUFFERS,
          Event,        \* [kind, code, value] the device may report
          MaxTyped      \* how many it does (a bound)

VARIABLES q,
          events,       \* the buffers
          mods,         \* shift_held and ctrl_held
          pending,      \* the rest of an escape sequence
          typed,        \* what the device has reported
          got           \* the bytes poll_char() has returned

V == INSTANCE VirtioQueue WITH Request <- {}

vars == <<q, events, mods, pending, typed, got>>

Min(a, b) == IF a < b THEN a ELSE b
Count == Min(EVENTQ_BUFFERS, Size)
NoEvent == [kind |-> "none", code |-> "none", value |-> 0]

post(queue, index) == V!submit_chain(queue, << index >>)

PostAll ==
  LET p[i \in 0 .. Count] == IF i = 0 THEN V!NewQueue ELSE post(p[i - 1], i - 1)
  IN  p[Count]

Init ==
  /\ q = PostAll
  /\ events = [i \in 0 .. Count - 1 |-> NoEvent]
  /\ mods = {}
  /\ pending = <<>>
  /\ typed = <<>>
  /\ got = <<>>

\* The device fills the next posted buffer; with none posted it drops the event.
Report(ev) ==
  /\ Len(typed) < MaxTyped
  /\ V!HasAvail(q)
  /\ \E h \in {q.avail[q.dev_idx % Size]} :
       /\ events' = [events EXCEPT ![V!Buffers(q, h)[1]] = ev]
       /\ q' = V!DevUse(V!DevTake(q), h)
  /\ typed' = Append(typed, ev)
  /\ UNCHANGED <<mods, pending, got>>

\* What one event does to the modifiers, and the bytes it types.
Mods(ev, m) ==
  LET held(x) == IF ev.value # 0 THEN m \cup {x} ELSE m \ {x}
  IN  CASE ev.kind = "key" /\ ev.code = "KeyShift" -> held("shift")
        [] ev.kind = "key" /\ ev.code = "KeyCtrl" -> held("ctrl")
        [] OTHER -> m
Typed(ev, m) ==
  IF ev.kind = "key" /\ ev.code \in Codes /\ ev.value \in {1, 2} THEN bytes(ev.code, m) ELSE <<>>

\* Mutant: the rest of the sequence goes with its first byte.
PollPendingOnce ==
  /\ pending # <<>>
  /\ got' = Append(got, Head(pending))
  /\ pending' = <<>>
  /\ UNCHANGED <<q, events, mods, typed>>
PollPending ==
  /\ pending # <<>>
  /\ got' = Append(got, Head(pending))
  /\ pending' = Tail(pending)
  /\ UNCHANGED <<q, events, mods, typed>>

\* The slot the device just filled is posted again at once.
Repost(queue) == post(V!try_wait(queue), V!UsedId(queue))

\* One turn of poll_char()'s loop: an event that types nothing is followed by
\* another turn.
PollEvent ==
  /\ pending = <<>>
  /\ V!HasUsed(q)
  /\ \E ev \in {events[V!UsedId(q)]} : \E b \in {Typed(ev, mods)} :
       /\ mods' = Mods(ev, mods)
       /\ got' = IF b = <<>> THEN got ELSE Append(got, Head(b))
       /\ pending' = IF b = <<>> THEN <<>> ELSE Tail(b)
  /\ q' = Repost(q)
  /\ UNCHANGED <<events, typed>>

PollNone == pending = <<>> /\ ~V!HasUsed(q) /\ UNCHANGED vars

Next == (\E ev \in Event : Report(ev)) \/ PollPending \/ PollEvent \/ PollNone

Spec == Init /\ [][Next]_vars

-----------------------------------------------------------------------------
(* Properties. *)

\* The buffer at index i hangs on descriptor i, whatever was posted and
\* reclaimed since: reading events[id] for the descriptor id try_wait() returns
\* reads what the device wrote (input.rs:74-77, 130-133).  The queue's free
\* list has to give back the descriptor reclaimed last.
SlotIsDescriptor ==
  /\ V!Held(q) = 0 .. Count - 1
  /\ \A h \in V!Held(q) : V!Buffers(q, h) = << h >>

\* The bytes the events of evs type, starting with modifiers m.
Meaning(evs) ==
  LET at[k \in 0 .. Len(evs)] ==
        IF k = 0 THEN [mods |-> {}, out |-> <<>>]
        ELSE [mods |-> Mods(evs[k], at[k - 1].mods),
              out |-> at[k - 1].out \o Typed(evs[k], at[k - 1].mods)]
  IN  at[Len(evs)].out

\* Every byte typed is returned once, in order, an escape sequence whole, under
\* the modifiers held when the key went down, even if it is polled for after
\* they were released (input.rs:124-157).
HeardAsTyped ==
  got \o pending = Meaning(SubSeq(typed, 1, Len(typed) - Len(V!Answered(q))))
=============================================================================
