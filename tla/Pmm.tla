--------------------------------- MODULE Pmm ---------------------------------
(***************************************************************************)
(* The bitmap physical page allocator (mm/pmm.rs).  The bitmap is the set  *)
(* of pages whose bit is set; an address is its page number, and 0 is what *)
(* the allocators return for "out of memory".  Callers free the pages they *)
(* hold, each once.                                                        *)
(***************************************************************************)
EXTENDS Naturals, FiniteSets, FiniteSetTheorems, TLAPS

CONSTANTS total_pages,    \* pages up to the highest usable address
          Usable,         \* the pages of the memory map's usable regions
          BitmapPages,    \* the pages init() parks the bitmap in
          MaxRun          \* the longest run asked for (a bound)

Pages == 0 .. total_pages - 1
Run(start, count) == start .. start + count - 1

\* How init() finds those in a memory map, a sequence of regions in page
\* units; one page of bitmap has bits for bits_per_page pages.
TotalOf(mm) ==
  LET tops == {mm[i].base + mm[i].length :
                 i \in {j \in DOMAIN mm : mm[j].kind \in {"usable", "reclaimable"}}}
  IN  CHOOSE t \in tops : \A u \in tops : u <= t
UsableOf(mm) ==
  UNION {Run(mm[i].base, mm[i].length) : i \in {j \in DOMAIN mm : mm[j].kind = "usable"}}
BitmapOf(mm, bits_per_page) ==
  LET length == (TotalOf(mm) + bits_per_page - 1) \div bits_per_page
      fits == {i \in DOMAIN mm : mm[i].kind = "usable" /\ mm[i].length >= length}
  IN  Run(mm[CHOOSE i \in fits : \A j \in fits : i <= j].base, length)

ASSUME PmmConstants ==
  /\ total_pages \in Nat \ {0}
  /\ Usable \subseteq Pages
  /\ BitmapPages \subseteq Usable
  /\ MaxRun \in Nat

VARIABLES bitmap, free_pages, cursor,
          held,           \* the pages callers were given and have not freed
          result          \* the page the last call returned, 0 for none

vars == <<bitmap, free_pages, cursor, held, result>>

\* Pages nobody may be given: not usable, or the bitmap's own, or page 0.
Reserved == (Pages \ Usable) \cup BitmapPages \cup {0}

TypeOK ==
  /\ bitmap \subseteq Pages
  /\ free_pages \in Nat
  /\ cursor \in 0 .. total_pages
  /\ held \subseteq Pages
  /\ result \in Pages

\* init(): everything used, the usable regions freed, the bitmap's pages and
\* page 0 claimed back.
init ==
  /\ bitmap = Reserved
  /\ free_pages = Cardinality(Pages \ Reserved)
  /\ cursor = 0
  /\ held = {}
  /\ result = 0

-----------------------------------------------------------------------------

Clear(start, end) == {p \in start .. end - 1 : p \notin bitmap}
IsFirst(p, S) == p \in S /\ \A q \in S : p <= q

\* What try_alloc_from() does with the first clear page it finds.
Take(p) ==
  /\ bitmap' = bitmap \cup {p}
  /\ free_pages' = free_pages - 1
  /\ cursor' = p + 1
  /\ held' = held \cup {p}
  /\ result' = p

AllocPageNeverWraps ==
  \/ \E p \in Pages : IsFirst(p, Clear(cursor, total_pages)) /\ Take(p)
  \/ /\ Clear(cursor, total_pages) = {}
     /\ result' = 0
     /\ UNCHANGED <<bitmap, free_pages, cursor, held>>

\* From the cursor to the end, then from the start to the cursor.
alloc_page ==
  \/ \E p \in Pages : IsFirst(p, Clear(cursor, total_pages)) /\ Take(p)
  \/ /\ Clear(cursor, total_pages) = {}
     /\ \/ \E p \in Pages : IsFirst(p, Clear(0, cursor)) /\ Take(p)
        \/ /\ Clear(0, cursor) = {}
           /\ result' = 0
           /\ UNCHANGED <<bitmap, free_pages, cursor, held>>

\* The starts of the clear runs of count pages.
RunStarts(count) ==
  {p \in Pages : p + count <= total_pages /\ Run(p, count) \cap bitmap = {}}

AllocRunCountsOne(count) ==
  \E p \in Pages :
    /\ IsFirst(p, RunStarts(count))
    /\ bitmap' = bitmap \cup Run(p, count)
    /\ free_pages' = free_pages - 1
    /\ held' = held \cup Run(p, count)
    /\ result' = p
    /\ UNCHANGED cursor

\* The first run long enough, searched from page 0; the cursor stays.
alloc_pages(count) ==
  \/ \E p \in Pages :
       /\ IsFirst(p, RunStarts(count))
       /\ bitmap' = bitmap \cup Run(p, count)
       /\ free_pages' = free_pages - count
       /\ held' = held \cup Run(p, count)
       /\ result' = p
       /\ UNCHANGED cursor
  \/ /\ RunStarts(count) = {}
     /\ result' = 0
     /\ UNCHANGED <<bitmap, free_pages, cursor, held>>

\* A caller gives back a page it holds.  (Freeing a page whose bit is clear,
\* or one out of range, changes nothing.)
free_page(p) ==
  /\ p \in held
  /\ p \in bitmap
  /\ bitmap' = bitmap \ {p}
  /\ free_pages' = free_pages + 1
  /\ held' = held \ {p}
  /\ UNCHANGED <<cursor, result>>

Next ==
  \/ alloc_page
  \/ \E count \in 1 .. MaxRun : alloc_pages(count)
  \/ \E p \in Pages : free_page(p)

Spec == init /\ [][Next]_vars

-----------------------------------------------------------------------------
(* Properties. *)

\* Every page is reserved, held by one caller, or free, and the bitmap says
\* which: no allocation, single or run, wherever the cursor stands, hands
\* out a page that is reserved or still held (pmm.rs:36-46, 139-159).
BitmapIsExact == bitmap = Reserved \cup held /\ Reserved \cap held = {}

\* free_page_count() is the number of clear bits after any sequence of
\* calls, so the count the self-test (main.rs:63-79) compares returns to its
\* baseline, and free_pages -= count never wraps below zero.
FreeCountExact == free_pages = Cardinality(Pages \ bitmap)

\* Both, with the types: inductive as it stands, since the count follows the bitmap,
\* and the bitmap what callers hold (pmm.rs:80-159).
PmmInv == TypeOK /\ BitmapIsExact /\ FreeCountExact

\* Whatever has been freed behind the cursor, the allocator reports "out of
\* memory" only when no page, or no long enough run, is free, and page 0 is
\* never a valid allocation (pmm.rs:113-124).
Allocator == INSTANCE PageAllocator WITH free <- Pages \ bitmap
ImplementsAllocator == Allocator!Spec

-----------------------------------------------------------------------------
(* Proofs: the bitmap, the count and the cursor for every memory map and     *)
(* every sequence of calls, and that this implements PageAllocator.          *)

USE PmmConstants

(* Sets of pages are finite. *)
LEMMA PagesFinite ==
  ASSUME NEW S \in SUBSET Pages
  PROVE  IsFiniteSet(S) /\ Cardinality(S) \in Nat
<1>1. IsFiniteSet(Pages)
  <2>1. 0 \in Int /\ total_pages - 1 \in Int
    OBVIOUS
  <2> QED BY <2>1, FS_Interval DEF Pages
<1> QED BY <1>1, FS_Subset, FS_CardinalityType

(* What init() keeps back (pmm.rs:79-107). *)
LEMMA ReservedPages == Reserved \subseteq Pages /\ 0 \in Reserved
BY DEF Reserved, Pages

(* The length of a run. *)
LEMMA RunLength ==
  ASSUME NEW p \in Nat, NEW n \in Nat
  PROVE  IsFiniteSet(Run(p, n)) /\ Cardinality(Run(p, n)) = n
<1>1. p \in Int /\ p + n - 1 \in Int
  OBVIOUS
<1>2. IsFiniteSet(Run(p, n)) /\ Cardinality(Run(p, n)) =
        IF p > p + n - 1 THEN 0 ELSE (p + n - 1) - p + 1
  BY <1>1, FS_Interval DEF Run
<1> QED BY <1>2

(* The free pages after some were taken, all of which were free. *)
LEMMA Taken ==
  ASSUME NEW B \in SUBSET Pages, NEW R \in SUBSET (Pages \ B)
  PROVE  /\ Cardinality(Pages \ (B \cup R)) = Cardinality(Pages \ B) - Cardinality(R)
         /\ Cardinality(Pages \ (B \cup R)) \in Nat
<1> DEFINE F == Pages \ B
<1>1. Pages \ (B \cup R) = F \ R /\ F \cap R = R
  OBVIOUS
<1>2. IsFiniteSet(F) /\ IsFiniteSet(F \ R) /\ Cardinality(F \ R) \in Nat
  BY PagesFinite
<1>3. Cardinality(F \ R) = Cardinality(F) - Cardinality(F \cap R)
  BY <1>2, FS_Difference
<1> QED BY <1>1, <1>2, <1>3

(* The free pages after one was given back. *)
LEMMA GivenBack ==
  ASSUME NEW B \in SUBSET Pages, NEW p \in B
  PROVE  Cardinality(Pages \ (B \ {p})) = Cardinality(Pages \ B) + 1
<1> DEFINE F == Pages \ B
<1>1. Pages \ (B \ {p}) = F \cup {p} /\ p \notin F
  OBVIOUS
<1>2. IsFiniteSet(F)
  BY PagesFinite
<1> QED BY Zenon, <1>1, <1>2, FS_AddElement

(* init() establishes the invariant. *)
LEMMA InitInv == init => PmmInv
BY ReservedPages, PagesFinite DEF init, PmmInv, TypeOK, BitmapIsExact, FreeCountExact, Pages

(* Taking a set of clear pages. *)
LEMMA TakeInv ==
  ASSUME PmmInv, NEW R \in SUBSET (Pages \ bitmap),
         bitmap' = bitmap \cup R, free_pages' = free_pages - Cardinality(R),
         held' = held \cup R, cursor' \in 0 .. total_pages, result' \in Pages
  PROVE  PmmInv'
<1>1. bitmap \in SUBSET Pages /\ free_pages = Cardinality(Pages \ bitmap)
  BY DEF PmmInv, TypeOK, FreeCountExact
<1>2. free_pages' = Cardinality(Pages \ (bitmap \cup R)) /\ free_pages' \in Nat
  BY Zenon, <1>1, Taken
<1>3. BitmapIsExact'
  BY ReservedPages DEF PmmInv, BitmapIsExact
<1> QED BY <1>1, <1>2, <1>3 DEF PmmInv, TypeOK, FreeCountExact

(* Every call preserves it. *)
LEMMA NextInv == PmmInv /\ [Next]_vars => PmmInv'
<1> SUFFICES ASSUME PmmInv, [Next]_vars PROVE PmmInv'
  OBVIOUS
<1> USE DEF Pages
<1>1. ASSUME NEW p \in Pages, p \notin bitmap, Take(p)
      PROVE  PmmInv'
  <2>1. {p} \in SUBSET (Pages \ bitmap) /\ Cardinality({p}) = 1
    BY <1>1, FS_Singleton
  <2>2. p + 1 \in 0 .. total_pages
    OBVIOUS
  <2> QED BY <1>1, <2>1, <2>2, TakeInv DEF Take
<1>2. CASE alloc_page
  <2>1. CASE \E p \in Pages : p \notin bitmap /\ Take(p)
    BY <1>1, <2>1
  <2>2. CASE result' = 0 /\ UNCHANGED <<bitmap, free_pages, cursor, held>>
    BY <2>2 DEF PmmInv, TypeOK, BitmapIsExact, FreeCountExact
  <2> QED BY <1>2, <2>1, <2>2 DEF alloc_page, IsFirst, Clear
<1>3. ASSUME NEW n \in 1 .. MaxRun, alloc_pages(n)
      PROVE  PmmInv'
  <2>1. CASE result' = 0 /\ UNCHANGED <<bitmap, free_pages, cursor, held>>
    BY <2>1 DEF PmmInv, TypeOK, BitmapIsExact, FreeCountExact
  <2>2. ASSUME NEW p \in Pages, IsFirst(p, RunStarts(n)),
               bitmap' = bitmap \cup Run(p, n), free_pages' = free_pages - n,
               held' = held \cup Run(p, n), result' = p, UNCHANGED cursor
        PROVE  PmmInv'
    <3>1. Run(p, n) \in SUBSET (Pages \ bitmap)
      BY <2>2 DEF IsFirst, RunStarts, Run
    <3>2. Cardinality(Run(p, n)) = n
      BY RunLength
    <3>3. cursor' \in 0 .. total_pages /\ result' \in Pages
      BY <2>2 DEF PmmInv, TypeOK
    <3> QED BY <2>2, <3>1, <3>2, <3>3, TakeInv
  <2> QED BY <1>3, <2>1, <2>2 DEF alloc_pages
<1>4. ASSUME NEW p \in Pages, free_page(p)
      PROVE  PmmInv'
  <2>1. /\ p \in bitmap /\ p \in held /\ bitmap' = bitmap \ {p}
        /\ held' = held \ {p} /\ free_pages' = free_pages + 1
        /\ UNCHANGED <<cursor, result>>
    BY <1>4 DEF free_page
  <2>2. Cardinality(Pages \ (bitmap \ {p})) = Cardinality(Pages \ bitmap) + 1
    BY <2>1, GivenBack DEF PmmInv, TypeOK
  <2>3. BitmapIsExact'
    BY <2>1 DEF PmmInv, BitmapIsExact
  <2> QED BY <2>1, <2>2, <2>3 DEF PmmInv, TypeOK, FreeCountExact
<1>5. CASE UNCHANGED vars
  BY <1>5 DEF vars, PmmInv, TypeOK, BitmapIsExact, FreeCountExact
<1> QED BY <1>2, <1>3, <1>4, <1>5 DEF Next

(* The allocator's invariant for every memory map. *)
THEOREM PmmInvariant == Spec => []PmmInv
BY InitInv, NextInv, PTL DEF Spec

(* No page is handed out while it is reserved or held, and the bitmap says
   exactly which pages those are (pmm.rs:36-46, 126-159). *)
THEOREM NeverHandedOutTwice == Spec => []BitmapIsExact
<1>1. PmmInv => BitmapIsExact
  BY DEF PmmInv
<1> QED BY <1>1, PmmInvariant, PTL

(* free_page_count() is exact (pmm.rs:40, 106, 133, 154). *)
THEOREM CountIsExact == Spec => []FreeCountExact
<1>1. PmmInv => FreeCountExact
  BY DEF PmmInv
<1> QED BY <1>1, PmmInvariant, PTL

(* The allocator keeps its promise: "out of memory" only when there is none
   left, wherever the cursor stands, and never page 0 (pmm.rs:113-159). *)
THEOREM PmmImplementsAllocator == Spec => ImplementsAllocator
<1> USE DEF Allocator!Pages, Pages
<1>1. init => Allocator!Init
  BY ReservedPages DEF init, Allocator!Init
<1>2. PmmInv /\ [Next]_vars => [Allocator!Next]_(Allocator!vars)
  <2> SUFFICES ASSUME PmmInv, [Next]_vars
               PROVE  Allocator!Next \/ UNCHANGED Allocator!vars
    OBVIOUS
  <2>1. ASSUME NEW p \in Pages, p \notin bitmap, Take(p) PROVE Allocator!Next
    BY <2>1 DEF Take, Allocator!Next, Allocator!Alloc
  <2>2. CASE alloc_page
    <3>1. CASE \E p \in Pages : p \notin bitmap /\ Take(p)
      BY <2>1, <3>1
    <3>2. CASE /\ Clear(cursor, total_pages) = {} /\ Clear(0, cursor) = {}
               /\ result' = 0 /\ UNCHANGED <<bitmap, free_pages, cursor, held>>
      <4>1. Pages \ bitmap = {}
        BY <3>2 DEF Clear, PmmInv, TypeOK
      <4> QED BY <3>2, <4>1 DEF Allocator!Next, Allocator!Alloc
    <3> QED BY <2>2, <3>1, <3>2 DEF alloc_page, IsFirst, Clear
  <2>3. ASSUME NEW n \in 1 .. MaxRun, alloc_pages(n) PROVE Allocator!Next
    <3>1. \A p \in Pages : p \in RunStarts(n) <=>
                           p \in Pages \ bitmap /\ Run(p, n) \subseteq Pages \ bitmap
      BY DEF RunStarts, Run
    <3>2. \A p : Run(p, n) = Allocator!Run(p, n)
      BY DEF Run, Allocator!Run
    <3>3. CASE RunStarts(n) = {} /\ result' = 0 /\ UNCHANGED bitmap
      <4>1. ~\E p \in Pages \ bitmap : Run(p, n) \subseteq Pages \ bitmap
        BY <3>1, <3>3
      <4> QED BY <3>2, <3>3, <4>1 DEF Allocator!Next, Allocator!AllocRun
    <3>4. CASE \E p \in RunStarts(n) : bitmap' = bitmap \cup Run(p, n) /\ result' = p
      <4>1. PICK p \in RunStarts(n) : bitmap' = bitmap \cup Run(p, n) /\ result' = p
        BY <3>4
      <4>2. p \in Pages \ bitmap /\ Run(p, n) \subseteq Pages \ bitmap
        BY <3>1, <4>1 DEF RunStarts
      <4>3. Pages \ bitmap' = (Pages \ bitmap) \ Run(p, n)
        BY <4>1
      <4> QED BY <3>2, <4>1, <4>2, <4>3 DEF Allocator!Next, Allocator!AllocRun
    <3> QED BY <2>3, <3>3, <3>4 DEF alloc_pages, IsFirst
  <2>4. ASSUME NEW p \in Pages, free_page(p) PROVE Allocator!Next
    <3>1. p # 0
      BY <2>4, ReservedPages DEF free_page, PmmInv, BitmapIsExact
    <3>2. Pages \ bitmap' = (Pages \ bitmap) \cup {p} /\ result' = result
      BY <2>4 DEF free_page
    <3> QED BY <3>1, <3>2 DEF Allocator!Next, Allocator!Free
  <2>5. CASE UNCHANGED vars
    BY <2>5 DEF vars, Allocator!vars
  <2> QED BY <2>2, <2>3, <2>4, <2>5 DEF Next
<1> QED BY <1>1, <1>2, PmmInvariant, PTL DEF Spec, ImplementsAllocator, Allocator!Spec
=============================================================================
