------------------------------ MODULE MCMemory ------------------------------
(***************************************************************************)
(* Address spaces, the kernel heap and the heap of a program. They share no *)
(* state here, so a behaviour is one of theirs: part says whose, and the    *)
(* others stand still. Address spaces have two-entry tables, so 8 user pages*)
(* under 4 levels; pages 0-2 hold page 0, the boot PML4 and one kernel      *)
(* table; the program has two segments that meet inside page 0 and its stack*)
(* in page 7; growing its heap into page 2 needs a new page table. The heaps*)
(* have pages of 16 units: a page holds one small and one larger block, or a*)
(* small over-aligned one and a remainder that may be too small to split. A *)
(* program may ask for all of its three pages at once, so that brk() can    *)
(* fail with two of them mapped.                                            *)
(***************************************************************************)
EXTENDS AddressSpaces, TLC

CONSTANT Parts       \* the parts looked at

CONSTANTS P1, P2

MCReserved == 0 .. 2
MCKernelTables == {2}
SharedPage == << [vaddr |-> 0, data |-> <<4>>], [vaddr |-> 1, data |-> <<5, Zero>>] >>
MCImages == {SharedPage}
MCData == {6}
MCWritten == {2}
Symmetric == Permutations({P1, P2})
BeforeFatal == ~mm.fatal

VARIABLES part, header, head, tail, owned, live, stash,
          user_header, user_head, user_tail, user_live, user_stash, brk, heap_end

H == INSTANCE Heap WITH PAGE_SIZE <- 16, HEADER <- 4, HEAP_ALIGN <- 2, PageNumbers <- 1 .. 3,
  Sizes <- {0, 14}, Aligns <- {1, 8}

U == INSTANCE UserHeap WITH GROW_CHUNK <- 16, HEADER <- 4, HEAP_ALIGN <- 2, Base <- 1,
  HEAP_MAX <- 3, Sizes <- {3, 7, 40}, Aligns <- {1, 8}, header <- user_header,
  head <- user_head, tail <- user_tail, live <- user_live, stash <- user_stash

heap_vars == <<header, head, tail, owned, live, stash>>
user_vars == <<user_header, user_head, user_tail, user_live, user_stash, brk, heap_end>>

MCInit ==
  /\ part \in Parts
  /\ Init
  /\ H!Init
  /\ U!Init

MCNext ==
  /\ UNCHANGED part
  /\ IF part = "spaces" THEN Next ELSE UNCHANGED vars
  /\ IF part = "heap" THEN H!Next ELSE UNCHANGED heap_vars
  /\ IF part = "user" THEN U!Next ELSE UNCHANGED user_vars

MCVars == <<part, vars, heap_vars, user_vars>>

MCSpec == MCInit /\ [][MCNext]_MCVars

-----------------------------------------------------------------------------
ASSUME SaneHeap == H!HeapConstants

\* Every page of the address spaces has one owner, their upper halves are the kernel's,
\* and its tables stay allocated, whichever fork(), execve() or brk() fails half way
\* (vmm.rs:54-197, process.rs:196-240, syscall.rs:408-440).
SpacesSound == TypeOK /\ OneOwner /\ KernelHalfShared

\* The kernel heap: the list reaches every block, the blocks tile the pages the heap
\* owns, and every allocation is aligned and has a used block of its own that holds its
\* payload and the pointer stashed below an over-aligned one (heap.rs:57-153).
HeapSound ==
  part = "heap" => H!TypeOK /\ H!ListReachesAll /\ H!BlocksTileHeap /\ H!PayloadsInBlocks

\* A program's heap does only what the kernel's could, which it mirrors; its next block
\* is always adjacent, and all of it is mapped up to the brk, however many calls of
\* brk() failed half way (anssos heap.rs:3-5, 55-135).
UserHeapSound == U!MirrorsKernelHeap /\ [](part = "user" => U!AdjacentToBrk)
=============================================================================
