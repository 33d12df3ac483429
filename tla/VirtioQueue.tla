----------------------------- MODULE VirtioQueue -----------------------------
(***************************************************************************)
(* A split virtqueue (drivers/virtio/mod.rs) as a record: the descriptor    *)
(* table with its free list, the rings the driver and the device share, and *)
(* what each side keeps; then the queue under any client: requests of       *)
(* several buffers submitted while others are still with the device.        *)
(***************************************************************************)
EXTENDS Naturals, Sequences, FiniteSets

CONSTANTS Size,       \* the queue's size
          IdxMod,     \* ring indices wrap here (2^16), a multiple of Size
          MaxSize,    \* longest chain submit_chain() takes (8)
          Request     \* sequences of buffers; no buffer is in two of them

VARIABLE q
vars == q

Slots == 0 .. Size - 1

\* queue(): every descriptor on the free list, in order.
NewQueue ==
  [desc |-> [i \in Slots |-> [buf |-> <<>>, more |-> FALSE, next |-> i + 1]],
   avail |-> [i \in Slots |-> 0], avail_idx |-> 0,
   used |-> [i \in Slots |-> 0], used_idx |-> 0,
   free_head |-> 0, num_free |-> Size, last_used_idx |-> 0,
   dev_idx |-> 0,        \* the device's place in the avail ring
   taken |-> {}]         \* the heads it has taken and not yet used

\* The n descriptors that follow each other's next, from start.
Walk(vq, start, n) ==
  LET at[i \in 1 .. n] == IF i = 1 THEN start ELSE vq.desc[at[i - 1]].next
  IN  at

\* The descriptors of the chain that starts at head.
Chain(vq, head) ==
  LET last(n) == ~vq.desc[Walk(vq, head, n)[n]].more
      n == CHOOSE n \in 1 .. Size : last(n) /\ \A m \in 1 .. n - 1 : ~last(m)
  IN  Walk(vq, head, n)
Buffers(vq, head) == LET c == Chain(vq, head) IN [k \in DOMAIN c |-> vq.desc[c[k]].buf]

\* Each descriptor of the chain goes to the front of the free list in turn.
free_chain(vq, head) ==
  LET c == Chain(vq, head)
  IN  [vq EXCEPT !.desc = [i \in Slots |->
                  IF \E k \in DOMAIN c : c[k] = i
                  THEN LET k == CHOOSE k \in DOMAIN c : c[k] = i
                       IN  [@[i] EXCEPT !.next = IF k = 1 THEN vq.free_head ELSE c[k - 1]]
                  ELSE @[i]],
                 !.free_head = c[Len(c)],
                 !.num_free = @ + Len(c)]

Accepts(vq, buffers) == Len(buffers) \in 1 .. MaxSize /\ Len(buffers) <= vq.num_free

\* The head of the chain the next submit_chain() makes is free_head.
submit_chain(vq, buffers) ==
  LET n == Len(buffers)
      c == Walk(vq, vq.free_head, n)
  IN  IF ~Accepts(vq, buffers) THEN vq
      ELSE [vq EXCEPT !.desc = [i \in Slots |->
                       IF \E k \in 1 .. n : c[k] = i
                       THEN LET k == CHOOSE k \in 1 .. n : c[k] = i
                            IN  [buf |-> buffers[k], more |-> k < n,
                                 next |-> IF k < n THEN c[k + 1] ELSE 0]
                       ELSE @[i]],
                      !.free_head = vq.desc[c[n]].next,
                      !.num_free = @ - n,
                      !.avail[vq.avail_idx % Size] = c[1],
                      !.avail_idx = (@ + 1) % IdxMod]

\* try_wait(): whether the used ring has advanced, the chain it names, and
\* the queue with that chain reclaimed.
HasUsed(vq) == vq.used_idx # vq.last_used_idx
\* Mutant: the element after the one that is due.
UsedIdNext(vq) == vq.used[(vq.last_used_idx + 1) % Size]
UsedId(vq) == vq.used[vq.last_used_idx % Size]
try_wait(vq) == free_chain([vq EXCEPT !.last_used_idx = (@ + 1) % IdxMod], UsedId(vq))

-----------------------------------------------------------------------------
(* The device: it takes chains in order and uses them in any order. *)

HasAvail(vq) == vq.dev_idx # vq.avail_idx
DevTake(vq) ==
  [vq EXCEPT !.taken = @ \cup {vq.avail[vq.dev_idx % Size]}, !.dev_idx = (@ + 1) % IdxMod]
DevUse(vq, head) ==
  [vq EXCEPT !.taken = @ \ {head}, !.used[vq.used_idx % Size] = head,
             !.used_idx = (@ + 1) % IdxMod]

-----------------------------------------------------------------------------
(* What is in the queue, by the ring positions between two indices. *)

Between(from, to) == (to + IdxMod - from) % IdxMod
Offered(vq) == [k \in 1 .. Between(vq.dev_idx, vq.avail_idx) |-> vq.avail[(vq.dev_idx + k - 1) % Size]]
Answered(vq) == [k \in 1 .. Between(vq.last_used_idx, vq.used_idx) |->
                  vq.used[(vq.last_used_idx + k - 1) % Size]]
Held(vq) == {Offered(vq)[k] : k \in DOMAIN Offered(vq)} \cup vq.taken
             \cup {Answered(vq)[k] : k \in DOMAIN Answered(vq)}

-----------------------------------------------------------------------------
(* The queue under any client. *)

Init == q = NewQueue

InFlight == {Buffers(q, h) : h \in Held(q)}

Submit(r) ==
  /\ r \notin InFlight
  /\ q' = submit_chain(q, r)

Take == HasAvail(q) /\ q' = DevTake(q)
Use(h) == h \in q.taken /\ q' = DevUse(q, h)
Poll == HasUsed(q) /\ q' = try_wait(q)

Next ==
  \/ \E r \in Request : Submit(r)
  \/ Take
  \/ \E h \in Slots : Use(h)
  \/ Poll

Spec == Init /\ [][Next]_vars

-----------------------------------------------------------------------------
(* Properties. *)

\* The free list and the chains in use share out the descriptors: from
\* free_head, num_free descriptors follow each other and none is on a chain the
\* device may still read; and no two chains overlap.  A leak would make
\* submit_chain() drop requests for good, an overlap would have the device
\* write into another request's buffer (virtio/mod.rs:307-340).
DescriptorsSharedOut ==
  LET free == Walk(q, q.free_head, q.num_free)
      used == {Chain(q, h) : h \in Held(q)}
      all == {free} \cup used
      at(c) == {c[k] : k \in DOMAIN c}
  IN  /\ UNION {at(c) : c \in all} = Slots
      /\ \A c \in all : Cardinality(at(c)) = Len(c)
      /\ \A c, d \in all : c # d => at(c) \cap at(d) = {}
      /\ Cardinality(used) = Len(Offered(q)) + Cardinality(q.taken) + Len(Answered(q))

\* Requests reach the device whole and are answered once each, however the
\* answers are ordered and wherever the 16-bit indices wrap
\* (virtio/mod.rs:350-380).
Promise == INSTANCE Requests WITH
  pending <- {Buffers(q, h) : h \in Held(q) \ {Answered(q)[k] : k \in DOMAIN Answered(q)}},
  answered <- [k \in DOMAIN Answered(q) |-> Buffers(q, Answered(q)[k])]
ImplementsRequests == Promise!Spec
=============================================================================
