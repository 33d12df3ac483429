------------------------------ MODULE Requests ------------------------------
(* What a virtqueue promises its driver: the device gets every request it    *)
(* accepted whole, with the buffers it was submitted with, and the driver    *)
(* hears of each once, in the order in which the device answered.            *)
EXTENDS Sequences

CONSTANT Request

VARIABLES pending,     \* submitted, not answered
          answered     \* answered, not yet heard of

vars == <<pending, answered>>

Init == pending = {} /\ answered = <<>>

Submit(r) == pending' = pending \cup {r} /\ UNCHANGED answered
Answer(r) == pending' = pending \ {r} /\ answered' = Append(answered, r)
Hear == answered # <<>> /\ answered' = Tail(answered) /\ UNCHANGED pending

Next ==
  \/ \E r \in Request \ pending : Submit(r)
  \/ \E r \in pending : Answer(r)
  \/ Hear

Spec == Init /\ [][Next]_vars
=============================================================================
