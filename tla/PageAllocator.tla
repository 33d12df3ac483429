--------------------------- MODULE PageAllocator ---------------------------
(***************************************************************************)
(* What the physical page allocator promises: it hands out pages that are  *)
(* free, single or in contiguous runs, never page 0, and it says "out of   *)
(* memory" only when no free page, or no free run, is left.  Pmm is shown  *)
(* to implement it.                                                        *)
(***************************************************************************)
EXTENDS Naturals

CONSTANTS total_pages, MaxRun

VARIABLES free,        \* the pages that may be handed out
          result       \* the page the last call returned, 0 for none

vars == <<free, result>>

Pages == 0 .. total_pages - 1
Run(start, count) == start .. start + count - 1

Init == free \in SUBSET (Pages \ {0}) /\ result = 0

Alloc ==
  \/ \E p \in free : result' = p /\ free' = free \ {p}
  \/ free = {} /\ result' = 0 /\ UNCHANGED free

AllocRun(count) ==
  \/ \E p \in free : /\ Run(p, count) \subseteq free
                     /\ result' = p
                     /\ free' = free \ Run(p, count)
  \/ /\ ~\E p \in free : Run(p, count) \subseteq free
     /\ result' = 0
     /\ UNCHANGED free

Free(p) ==
  /\ free' = free \cup {p}
  /\ UNCHANGED result

Next ==
  \/ Alloc
  \/ \E count \in 1 .. MaxRun : AllocRun(count)
  \/ \E p \in Pages \ {0} : Free(p)

Spec == Init /\ [][Next]_vars
=============================================================================
