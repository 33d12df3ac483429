------------------------------ MODULE UserHeap ------------------------------
(***************************************************************************)
(* A program's heap (userland anssos/src/heap.rs): the kernel heap's list   *)
(* of blocks (Heap), grown with brk() instead of pages from the PMM.  brk() *)
(* maps page after page, and may run out of frames with some of them mapped *)
(* and the program told nothing.  Addresses and sizes are in units of 8     *)
(* bytes.                                                                   *)
(***************************************************************************)
EXTENDS Naturals, FiniteSets

CONSTANTS GROW_CHUNK,       \* the kernel's page, too
          HEADER, HEAP_ALIGN,
          Base,             \* the page the kernel starts the heap at
          HEAP_MAX,         \* pages it may have
          Sizes, Aligns

VARIABLES header, head, tail, live, stash,   \* as in Heap
          brk,                               \* 0 until the first grow()
          heap_end                           \* the kernel's idea of it

vars == <<header, head, tail, live, stash, brk, heap_end>>

Pages == Base .. Base + HEAP_MAX - 1

\* The kernel heap that this one mirrors: its pages are those below brk.
H == INSTANCE Heap WITH PAGE_SIZE <- GROW_CHUNK, PageNumbers <- Pages,
                        owned <- {p \in Pages : p * GROW_CHUNK < brk}

Start == Base * GROW_CHUNK

Init ==
  /\ header = <<>> /\ head = H!Null /\ tail = H!Null /\ live = {} /\ stash = <<>>
  /\ brk = 0 /\ heap_end = Start

-----------------------------------------------------------------------------
\* sys_brk() with a new end: what heap_end may become, as frames run out or not.
sys_brk(new_end) ==
  IF new_end <= heap_end \/ new_end - Start > HEAP_MAX * GROW_CHUNK THEN {heap_end}
  ELSE {p \in heap_end .. new_end : (p - heap_end) % GROW_CHUNK = 0}

\* The brk grow() starts from; asked of the kernel the first time.  Mutant: every time.
AskedBrk == heap_end
OldBrk == IF brk = 0 THEN H!AlignUp(Start, HEAP_ALIGN) ELSE brk

\* grow() believes in the new end if the kernel answered with it.
NewBrk(end, new_end) == IF end = new_end THEN new_end ELSE OldBrk

\* malloc(): first fit, or a block of new pages, or nothing.
malloc(n, size, align) ==
  \/ /\ H!Fits(n) # {}
     /\ \E block \in {H!Chain[H!First(H!Fits(n))]} :
          H!SetList(H!Use(H!List, block, n)) /\ H!HandOut(block, size, align)
     /\ UNCHANGED <<brk, heap_end>>
  \/ /\ H!Fits(n) = {}
     /\ \E new_end \in {OldBrk + H!AlignUp(HEADER + n, GROW_CHUNK)} :
        \E end \in sys_brk(new_end) :
          /\ heap_end' = end /\ brk' = NewBrk(end, new_end)
          /\ IF end # new_end THEN UNCHANGED <<header, head, tail, live, stash>>
             ELSE LET grown == H!Grow(H!List, OldBrk \div GROW_CHUNK, (new_end - OldBrk) \div GROW_CHUNK)
                  IN  H!SetList(H!Use(grown, OldBrk, n)) /\ H!HandOut(OldBrk, size, align)

alloc(size, align) == malloc(H!Asked(size, align), size, align)

dealloc(a) == UNCHANGED <<brk, heap_end>> /\ H!dealloc(a)

Next ==
  \/ \E size \in Sizes, align \in Aligns : alloc(size, align)
  \/ \E a \in live : dealloc(a)

Spec == Init /\ [][Next]_vars

-----------------------------------------------------------------------------
(* Properties. *)

\* "deliberately mirroring kernel/src/mm/heap.rs's design" (heap.rs:3-5): every step is
\* one the kernel heap could take, or hands out nothing.
MirrorsKernelHeap == H!Init /\ [][H!Next]_(H!vars)

\* The next block is always adjacent, so that free() can join it, "since brk() only ever
\* extends the heap upward" (heap.rs:122-125), up to the brk; all of it is mapped, however
\* many calls of brk() failed half way.
AdjacentToBrk ==
  /\ \A b \in DOMAIN header :
       b + HEADER + header[b].size = (IF b = tail THEN brk ELSE header[b].next)
  /\ brk <= heap_end
=============================================================================
