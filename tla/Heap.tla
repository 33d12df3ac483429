-------------------------------- MODULE Heap --------------------------------
(***************************************************************************)
(* The kernel heap (mm/heap.rs): a linked list of blocks, first fit, split *)
(* on allocation, joined with the next block on free, grown by runs of     *)
(* pages from the PMM.  Addresses and sizes are in units of 8 bytes.  The  *)
(* PMM may give any run of pages the heap does not own, or none: the rest  *)
(* of the kernel holds and frees pages as it likes.                        *)
(***************************************************************************)
EXTENDS Naturals, FiniteSets

CONSTANTS PAGE_SIZE, HEADER, HEAP_ALIGN,
          PageNumbers,      \* the pages of the machine; 0 is never handed out
          Sizes, Aligns     \* what callers ask for

Null == 0

VARIABLES header,     \* block address -> [next, size, free]
          head, tail,
          owned,      \* the pages the heap has had from the PMM
          live,       \* allocations not yet freed: [ptr, size, align]
          stash       \* where an over-aligned payload keeps its block's start

vars == <<header, head, tail, owned, live, stash>>

\* What the constants are taken to be.
HeapConstants ==
  /\ PAGE_SIZE \in Nat /\ HEADER \in Nat /\ HEAP_ALIGN \in Nat \ {0}
  /\ HEADER % HEAP_ALIGN = 0 /\ PAGE_SIZE % HEAP_ALIGN = 0
  /\ HEADER + HEAP_ALIGN <= PAGE_SIZE
  /\ PageNumbers \subseteq Nat \ {0}
  /\ Sizes \subseteq Nat /\ Aligns \subseteq Nat \ {0}

Block == [next : Nat, size : Nat, free : BOOLEAN]
Blocks == DOMAIN header

Init ==
  /\ header = <<>>
  /\ head = Null
  /\ tail = Null
  /\ owned = {}
  /\ live = {}
  /\ stash = <<>>

-----------------------------------------------------------------------------
(* Operators on the list, a record h of header, head and tail. *)

AlignUp(n, align) == ((n + align - 1) \div align) * align
AtLeast1(n) == IF n = 0 THEN 1 ELSE n
With(f, a, block) == [x \in DOMAIN f \cup {a} |-> IF x = a THEN block ELSE f[x]]
Without(f, a) == [x \in DOMAIN f \ {a} |-> f[x]]

\* The k-th block on the list.
Chain[k \in Nat] ==
  IF k = 0 THEN head
  ELSE IF Chain[k - 1] \in Blocks THEN header[Chain[k - 1]].next ELSE Null
Fits(size) == {k \in 0 .. Cardinality(Blocks) - 1 :
                 header[Chain[k]].free /\ header[Chain[k]].size >= size}
First(K) == CHOOSE k \in K : \A j \in K : k <= j

PagesFor(min_size) == (HEADER + min_size + PAGE_SIZE - 1) \div PAGE_SIZE
Run(start, count) == start .. start + count - 1

\* grow(): one free block over the run, appended at the tail.
Grow(h, start, count) ==
  LET block == start * PAGE_SIZE
      new == [next |-> Null, size |-> count * PAGE_SIZE - HEADER, free |-> TRUE]
      grown == With(h.header, block, new)
  IN  IF h.tail = Null THEN [header |-> grown, head |-> block, tail |-> block]
      ELSE [h EXCEPT !.header = [grown EXCEPT ![h.tail].next = block], !.tail = block]

\* split(): the remainder becomes a free block if a header and a unit fit.
Split(h, block, size) ==
  LET b == h.header[block]
      rest == block + HEADER + size
      left == [next |-> b.next, size |-> b.size - size - HEADER, free |-> TRUE]
  IN  IF b.size < size + HEADER + HEAP_ALIGN THEN h
      ELSE [h EXCEPT !.header = With([@ EXCEPT ![block].size = size, ![block].next = rest],
                                     rest, left),
                     !.tail = IF @ = block THEN rest ELSE @]

Use(h, block, size) ==
  LET s == Split(h, block, size)
  IN  [s EXCEPT !.header[block].free = FALSE]

List == [header |-> header, head |-> head, tail |-> tail]
SetList(h) == header' = h.header /\ head' = h.head /\ tail' = h.tail

-----------------------------------------------------------------------------
(* The allocator. *)

PayloadUnaligned(block, align) ==
  IF align <= HEAP_ALIGN THEN block + HEADER ELSE block + HEADER + 1

\* Where the payload of an allocation of the block starts.
Payload(block, align) ==
  IF align <= HEAP_ALIGN THEN block + HEADER ELSE AlignUp(block + HEADER + 1, align)

\* What alloc() hands out: an over-aligned payload keeps the raw pointer in
\* the 8 bytes below it.
HandOut(block, size, align) ==
  LET ptr == Payload(block, align)
  IN  /\ live' = live \cup {[ptr |-> ptr, size |-> size, align |-> align]}
      /\ stash' = IF align <= HEAP_ALIGN THEN stash
                  ELSE With(stash, ptr - 1, block + HEADER)

Asked(size, align) ==
  AlignUp(AtLeast1(IF align <= HEAP_ALIGN THEN size ELSE size + align), HEAP_ALIGN)

alloc(size, align) ==
  LET n == Asked(size, align)
  IN  \/ /\ Fits(n) # {}
         /\ \E block \in {Chain[First(Fits(n))]} :
              SetList(Use(List, block, n)) /\ HandOut(block, size, align)
         /\ UNCHANGED owned
      \/ /\ Fits(n) = {}
         /\ \E start \in PageNumbers :
              /\ Run(start, PagesFor(n)) \subseteq PageNumbers \ owned
              /\ SetList(Use(Grow(List, start, PagesFor(n)), start * PAGE_SIZE, n))
              /\ HandOut(start * PAGE_SIZE, size, align)
              /\ owned' = owned \cup Run(start, PagesFor(n))

\* free(): joined with the next block on the list if that is free and right
\* behind it in memory.
JoinKeepsTail(h, block) ==
  LET next == h.header[block].next
      b == h.header[block]
  IN  IF next = Null \/ ~h.header[next].free \/ next # block + HEADER + b.size THEN h
      ELSE [h EXCEPT !.header = Without([@ EXCEPT ![block].size = b.size + HEADER + h.header[next].size,
                                                  ![block].next = h.header[next].next], next)]

Join(h, block) ==
  LET next == h.header[block].next
      b == h.header[block]
  IN  IF next = Null \/ ~h.header[next].free \/ next # block + HEADER + b.size THEN h
      ELSE [h EXCEPT !.header = Without([@ EXCEPT ![block].size = b.size + HEADER + h.header[next].size,
                                                  ![block].next = h.header[next].next], next),
                     !.tail = IF @ = next THEN block ELSE @]

\* The block dealloc() frees, found again from the pointer and its layout.
BlockOf(a) == (IF a.align <= HEAP_ALIGN THEN a.ptr ELSE stash[a.ptr - 1]) - HEADER

dealloc(a) ==
  /\ a \in live
  /\ SetList(Join([List EXCEPT !.header[BlockOf(a)].free = TRUE], BlockOf(a)))
  /\ live' = live \ {a}
  /\ stash' = IF a.align <= HEAP_ALIGN THEN stash ELSE Without(stash, a.ptr - 1)
  /\ UNCHANGED owned

Next ==
  \/ \E size \in Sizes, align \in Aligns : alloc(size, align)
  \/ \E a \in live : dealloc(a)

Spec == Init /\ [][Next]_vars

-----------------------------------------------------------------------------
(* Properties. *)

Units(a, n) == a .. a + n - 1
Extent(b) == Units(b, HEADER + header[b].size)
Body(b) == Units(b + HEADER, header[b].size)

TypeOK ==
  /\ \A b \in Blocks : header[b] \in Block
  /\ \A a \in live : a.size \in Sizes /\ a.align \in Aligns /\ a.ptr % a.align = 0
  /\ owned \subseteq PageNumbers

\* The list from head visits every block once and ends at tail, whichever
\* blocks were split, joined or appended: no block falls off the list, which
\* would lose its memory for good (heap.rs:57-62, 77-81, 111-118).
ListReachesAll ==
  IF Blocks = {} THEN head = Null /\ tail = Null
  ELSE LET n == Cardinality(Blocks)
       IN  /\ {Chain[k] : k \in 0 .. n - 1} = Blocks
           /\ Chain[n - 1] = tail
           /\ Chain[n] = Null

\* The blocks tile the pages the heap owns: no two overlap, and every unit
\* belongs to one (heap.rs:66-82, 101-119).
BlocksTileHeap ==
  /\ UNION {Extent(b) : b \in Blocks} = UNION {Units(p * PAGE_SIZE, PAGE_SIZE) : p \in owned}
  /\ \A b, c \in Blocks : b # c => Extent(b) \cap Extent(c) = {}

\* Every allocation has a used block of its own that holds its payload and,
\* below an over-aligned one, the pointer dealloc() reads back: no payload can
\* overwrite another, a header or a stashed pointer (heap.rs:128-153).
PayloadsInBlocks ==
  /\ \A a, c \in live : a # c => BlockOf(a) # BlockOf(c)
  /\ {b \in Blocks : ~header[b].free} = {BlockOf(a) : a \in live}
  /\ \A a \in live :
       /\ Units(a.ptr, a.size) \subseteq Body(BlockOf(a))
       /\ a.align > HEAP_ALIGN => a.ptr - 1 \in Body(BlockOf(a))

=============================================================================
