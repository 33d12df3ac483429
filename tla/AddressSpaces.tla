---------------------------- MODULE AddressSpaces ----------------------------
(***************************************************************************)
(* Page tables in physical memory (mm/vmm.rs) and what builds and discards *)
(* them: the ELF loader (exec/elf.rs), fork(), execve() and reaping        *)
(* (exec/process.rs) and brk() (exec/syscall.rs).                          *)
(*                                                                         *)
(* A page is ENTRIES words.  A word is a number: as a table entry, Zero is *)
(* "not present" and any other word the page it refers to.  Flag bits are  *)
(* left out, and so are the addresses of the higher half, of which only    *)
(* the top-level entries matter.  The machine's memory is the record mm,   *)
(* which the operators below take and return; got is the page the last     *)
(* call returned, as pmm.rs does, 0 for "out of memory".                   *)
(***************************************************************************)
EXTENDS Integers, FiniteSets, Sequences, SequencesExt

CONSTANTS Proc,
          total_pages, Reserved,        \* see Pmm
          Boot,                         \* the PML4 the kernel booted with
          KernelTables,                 \* the tables its higher half refers to
          ENTRIES,
          Images,                       \* programs: sequences of segments
          USER_STACK_TOP, USER_STACK_PAGES, HEAP_MAX, MAX_LOAD_SEGMENTS,
          Data, Written,                \* the words programs store, and in which pages
          MaxLaunches                   \* spawns, forks and execs in a behaviour (a bound)

Pages == 0 .. total_pages - 1
Entries == 0 .. ENTRIES - 1
UserHalf == 0 .. (ENTRIES \div 2) - 1
UserPages == 0 .. (ENTRIES \div 2) * ENTRIES ^ 3 - 1     \* virtual pages
Zero == -1
Words == Pages \cup {Zero}
Blank == [i \in Entries |-> Zero]
None == -2

VARIABLES mm,           \* [bitmap, cursor, mem, got, fatal]
          task,         \* slot -> [aspace, heap_start, heap_end]
          pending,      \* slot -> the address space execve() left to free
          lost,         \* pages failed loads never gave back
          launches      \* counts towards MaxLaunches

vars == <<mm, task, pending, lost, launches>>

PhysMem == [Pages -> [Entries -> Words]]
Machine == [bitmap : SUBSET Pages, cursor : 0 .. total_pages,
            mem : PhysMem, got : Pages, fatal : BOOLEAN]

NoTask == [aspace |-> None, heap_start |-> 0, heap_end |-> 0]

ASSUME AddressSpacesConstants ==
  /\ ENTRIES % 2 = 0
  /\ {0, Boot} \cup KernelTables \subseteq Reserved
  /\ Reserved \subseteq Pages
  /\ Data \subseteq Words

TypeOK ==
  /\ mm \in Machine
  /\ mm.got = 0
  /\ task \in [Proc -> [aspace : Pages \cup {None},
                        heap_start : UserPages, heap_end : UserPages]]
  /\ \A p \in Proc : task[p].heap_end - task[p].heap_start \in 0 .. HEAP_MAX
  /\ pending \in [Proc -> Pages \cup {None}]
  /\ lost \subseteq Pages
  /\ launches \in 0 .. MaxLaunches

Init ==
  /\ mm = [bitmap |-> Reserved, cursor |-> 0, got |-> 0, fatal |-> FALSE,
           mem |-> [p \in Pages |-> IF p = Boot
                      THEN [i \in Entries |-> IF i \in UserHalf THEN Zero
                                              ELSE CHOOSE t \in KernelTables : TRUE]
                      ELSE Blank]]
  /\ task = [p \in Proc |-> NoTask]
  /\ pending = [p \in Proc |-> None]
  /\ lost = {}
  /\ launches = 0

-----------------------------------------------------------------------------
(* The page allocator (see Pmm). *)

Least(S) == CHOOSE p \in S : \A q \in S : p <= q

Take(m, page) == [m EXCEPT !.bitmap = @ \cup {page}, !.cursor = page + 1, !.got = page]

alloc_page[m \in Machine] ==
  LET clear == Pages \ m.bitmap
      ahead == {p \in clear : p >= m.cursor}
  IN  IF clear = {} THEN [m EXCEPT !.got = 0]
      ELSE Take(m, Least(IF ahead # {} THEN ahead ELSE clear))

alloc_pages[m \in Machine, count \in Pages] ==
  LET starts == {p \in Pages : /\ p + count <= total_pages
                               /\ (p .. p + count - 1) \cap m.bitmap = {}}
      first == Least(starts)
  IN  IF starts = {} THEN [m EXCEPT !.got = 0]
      ELSE [m EXCEPT !.bitmap = @ \cup (first .. first + count - 1), !.got = first]

free_pages(m, S) == [m EXCEPT !.bitmap = @ \ S]
At(m, page) == [m EXCEPT !.got = page]

-----------------------------------------------------------------------------
(* Page tables. *)

\* The level's index bits of a virtual page: level 0 is the page table.
Index(virt, level) == (virt \div ENTRIES ^ level) % ENTRIES

\* Nothing looks at whether there was a page left: a table allocation that
\* returns 0 makes page 0 the table.  fatal records that it happened.
LinkUnfilled(m, parent, index) ==
  [m EXCEPT !.mem[parent][index] = m.got, !.fatal = @ \/ m.got = 0]
Link(m, parent, index) ==
  [m EXCEPT !.mem[m.got] = Blank, !.mem[parent][index] = m.got, !.fatal = @ \/ m.got = 0]

\* From the table got to the one its entry refers to.
get_or_create[m \in Machine, index \in Entries] ==
  IF m.mem[m.got][index] # Zero THEN At(m, m.mem[m.got][index])
  ELSE Link(alloc_page[m], m.got, index)

walk_create(m, pml4, virt) ==
  get_or_create[get_or_create[get_or_create[
    At(m, pml4), Index(virt, 3)], Index(virt, 2)], Index(virt, 1)]

map[m \in Machine, pml4 \in Pages, virt \in UserPages, phys \in Pages] ==
  LET pt == walk_create(m, pml4, virt)
  IN  [pt EXCEPT !.mem[pt.got][Index(virt, 0)] = phys]

HigherHalf(m, current) ==
  [i \in Entries |-> IF i \in UserHalf THEN Zero ELSE m.mem[current][i]]

new_address_space(m, current) ==
  LET a == alloc_page[m]
  IN  [a EXCEPT !.mem[a.got] = HigherHalf(m, current), !.fatal = @ \/ a.got = 0]

\* The page behind a virtual page, as the CPU's walk finds it; None if some
\* level has no entry.
Step(mem, table, index) ==
  IF table = None \/ mem[table][index] = Zero THEN None ELSE mem[table][index]
Lookup[mem \in PhysMem, pml4 \in Pages, virt \in UserPages] ==
  LET pd == Step(mem, Step(mem, pml4, Index(virt, 3)), Index(virt, 2))
  IN  Step(mem, Step(mem, pd, Index(virt, 1)), Index(virt, 0))

\* The tables of a user half, level by level, and the pages they map.
Targets(mem, T, I) == {mem[t][i] : t \in T, i \in I} \ {Zero}
Tables(mem, pml4) ==
  LET pdpts == Targets(mem, {pml4}, UserHalf)
      pds == Targets(mem, pdpts, Entries)
  IN  pdpts \cup pds \cup Targets(mem, pds, Entries)
Mapped(mem, pml4) == {v \in UserPages : Lookup[mem, pml4, v] # None}
Leaves(mem, pml4) == {Lookup[mem, pml4, v] : v \in Mapped(mem, pml4)}

\* clone_user_pages(): every present leaf of src, in address order; ok is
\* FALSE once a page could not be had.
Outcome == [m : Machine, ok : BOOLEAN]
CloneLeaf[s \in Outcome, dst \in Pages, src \in Pages, virt \in UserPages] ==
  LET leaf == Lookup[s.m.mem, src, virt]
      a == alloc_page[s.m]
  IN  IF ~s.ok \/ leaf = None THEN s
      ELSE IF a.got = 0 THEN [m |-> a, ok |-> FALSE]
      ELSE [s EXCEPT !.m = map[[a EXCEPT !.mem[a.got] = a.mem[leaf]], dst, virt, a.got]]
clone_user_pages(m, dst, src) ==
  FoldLeft(LAMBDA s, k : CloneLeaf[s, dst, src, k - 1],
           [m |-> m, ok |-> TRUE], [k \in 1 .. Cardinality(UserPages) |-> k])

free_user_pages(m, pml4) ==
  free_pages(m, {pml4} \cup Tables(m.mem, pml4) \cup Leaves(m.mem, pml4))

-----------------------------------------------------------------------------
(* The loader.  A segment is [vaddr, data]: its words from the word address  *)
(* vaddr on, the zeroes of .bss included.                                    *)

SegStart(seg) == seg.vaddr \div ENTRIES
SegPages(seg) ==
  (seg.vaddr + Len(seg.data) - SegStart(seg) * ENTRIES + ENTRIES - 1) \div ENTRIES

\* The page's words with the segment's own bytes over them.
Overlay(words, seg, vpage) ==
  [i \in Entries |->
     LET k == vpage * ENTRIES + i - seg.vaddr + 1
     IN  IF k \in DOMAIN seg.data THEN seg.data[k] ELSE words[i]]

Segments == UNION {{image[k] : k \in DOMAIN image} : image \in Images}
Loading == [m : Machine, pml4 : Pages, ok : BOOLEAN, heap : UserPages,
            loaded : Seq([start : UserPages, pages : Pages, base : Pages])]

\* The segments loaded so far that cover a page.
Covers(s, vpage) ==
  {k \in DOMAIN s.loaded : vpage - s.loaded[k].start \in 0 .. s.loaded[k].pages - 1}

\* One page of a segment: mapped, or, if an earlier segment has mapped it,
\* copied into that page and given back.
PageOfSegment[s \in Loading, seg \in Segments, phys \in Pages, vpage \in UserPages] ==
  LET first == s.loaded[Least(Covers(s, vpage))]
      shared == first.base + vpage - first.start
      filled == [s.m EXCEPT !.mem[phys] = Overlay(Blank, seg, vpage)]
  IN  [s EXCEPT !.m =
         IF Covers(s, vpage) = {} THEN map[filled, s.pml4, vpage, phys]
         ELSE free_pages([filled EXCEPT !.mem[shared] = Overlay(@, seg, vpage)], {phys})]

Place[s \in Loading, seg \in Segments] ==
  LET start == SegStart(seg)
      base == s.m.got
      end == start + SegPages(seg)
      placed == FoldLeft(LAMBDA t, k : PageOfSegment[t, seg, base + k - 1, start + k - 1],
                         s, [k \in 1 .. SegPages(seg) |-> k])
  IN  IF base = 0 THEN [s EXCEPT !.ok = FALSE]
      ELSE [placed EXCEPT
              !.loaded = IF Len(@) = MAX_LOAD_SEGMENTS THEN @
                         ELSE Append(@, [start |-> start, pages |-> SegPages(seg), base |-> base]),
              !.heap = IF end > @ THEN end ELSE @]

LoadSegment(s, seg) ==
  IF s.ok THEN Place[[s EXCEPT !.m = alloc_pages[s.m, SegPages(seg)]], seg] ELSE s

PlaceStack[s \in Loading] ==
  IF s.m.got = 0 THEN [s EXCEPT !.ok = FALSE]
  ELSE [s EXCEPT !.m =
          FoldLeft(LAMBDA t, k :
            map[[t EXCEPT !.mem[s.m.got + k - 1] = Blank], s.pml4,
                USER_STACK_TOP - USER_STACK_PAGES + k - 1, s.m.got + k - 1],
            s.m, [k \in 1 .. USER_STACK_PAGES |-> k])]
LoadStack(s) ==
  IF s.ok THEN PlaceStack[[s EXCEPT !.m = alloc_pages[s.m, USER_STACK_PAGES]]] ELSE s

\* load(): a fresh address space, the segments, the user stack.  Every
\* failure returns without freeing what was allocated.
load(m, current, image) ==
  LET new == new_address_space(m, current)
  IN  LoadStack(FoldLeft(LoadSegment, [m |-> new, pml4 |-> new.got, loaded |-> <<>>,
                                       heap |-> 0, ok |-> TRUE], image))
Loaded(s) == [aspace |-> s.pml4, heap_start |-> s.heap, heap_end |-> s.heap]

-----------------------------------------------------------------------------
(* Operations of a process.  A process runs only when free_pending() has     *)
(* freed what its last execve() left (process.rs:359).                       *)

Live(p) == task[p].aspace # None
Runs(p) == Live(p) /\ pending[p] = None
Launch == launches < MaxLaunches /\ launches' = launches + 1
Commit(m) == mm' = [m EXCEPT !.got = 0]

\* A failed load keeps what it took.
Forgets(m) == lost' = lost \cup (m.bitmap \ mm.bitmap)

\* rest says whether, last of all, the kernel stack could be had and the
\* arguments fitted.
spawn(p, image, rest) ==
  /\ ~Live(p)
  /\ Launch
  /\ \E s \in {load(mm, Boot, image)} :
       /\ Commit(s.m)
       /\ IF s.ok /\ rest
          THEN task' = [task EXCEPT ![p] = Loaded(s)] /\ UNCHANGED lost
          ELSE Forgets(s.m) /\ UNCHANGED task
  /\ UNCHANGED pending

exec(p, image, rest) ==
  /\ Runs(p)
  /\ Launch
  /\ \E s \in {load(mm, task[p].aspace, image)} :
       /\ Commit(s.m)
       /\ IF s.ok /\ rest
          THEN /\ task' = [task EXCEPT ![p] = Loaded(s)]
               /\ pending' = [pending EXCEPT ![p] = task[p].aspace]
               /\ UNCHANGED lost
          ELSE Forgets(s.m) /\ UNCHANGED <<task, pending>>

free_pending(p) ==
  /\ pending[p] # None
  /\ Commit(free_user_pages(mm, pending[p]))
  /\ pending' = [pending EXCEPT ![p] = None]
  /\ UNCHANGED <<task, lost, launches>>

\* stack says whether the kernel stack could be had.
fork(p, c, stack) ==
  /\ Runs(p)
  /\ ~Live(c)
  /\ Launch
  /\ \E new \in {new_address_space(mm, task[p].aspace)} :
     \E s \in {clone_user_pages(new, new.got, task[p].aspace)} :
       IF s.ok /\ stack
       THEN /\ Commit(s.m)
            /\ task' = [task EXCEPT ![c] = [task[p] EXCEPT !.aspace = new.got]]
       ELSE /\ Commit(free_user_pages(s.m, new.got))
            /\ UNCHANGED task
  /\ UNCHANGED <<pending, lost>>

\* One turn of sys_brk()'s loop; what it has mapped when memory runs out it
\* keeps.
ZeroedNot(m) == m
Zeroed(m) == [m EXCEPT !.mem[m.got] = Blank]
GrowHeap[m \in Machine, aspace \in Pages, heap_end \in UserPages, n \in Pages] ==
  LET a == alloc_page[m]
  IN  IF n = 0 \/ a.got = 0 THEN [m |-> IF n = 0 THEN m ELSE a, heap_end |-> heap_end]
      ELSE GrowHeap[map[Zeroed(a), aspace, heap_end, a.got], aspace, heap_end + 1, n - 1]

sys_brk(p, new_end) ==
  /\ Runs(p)
  /\ new_end > task[p].heap_end
  /\ new_end - task[p].heap_start <= HEAP_MAX
  /\ \E r \in {GrowHeap[mm, task[p].aspace, task[p].heap_end, new_end - task[p].heap_end]} :
       /\ Commit(r.m)
       /\ task' = [task EXCEPT ![p].heap_end = r.heap_end]
  /\ UNCHANGED <<pending, lost, launches>>

\* An instruction of the program writes a word of its memory.
Store(p, virt, word) ==
  /\ Runs(p)
  /\ virt \in Mapped(mm.mem, task[p].aspace)
  /\ mm' = [mm EXCEPT !.mem[Lookup[mm.mem, task[p].aspace, virt]][0] = word]
  /\ UNCHANGED <<task, pending, lost, launches>>

\* A zombie is reaped.
reap(p) ==
  /\ Live(p)
  /\ LET m == IF pending[p] = None THEN mm ELSE free_user_pages(mm, pending[p])
     IN  Commit(free_user_pages(m, task[p].aspace))
  /\ task' = [task EXCEPT ![p] = NoTask]
  /\ pending' = [pending EXCEPT ![p] = None]
  /\ UNCHANGED <<lost, launches>>

Next ==
  \E p \in Proc :
    \/ \E image \in Images, rest \in BOOLEAN : spawn(p, image, rest) \/ exec(p, image, rest)
    \/ \E c \in Proc, stack \in BOOLEAN : fork(p, c, stack)
    \/ \E new_end \in UserPages : sys_brk(p, new_end)
    \/ \E virt \in Written, word \in Data : Store(p, virt, word)
    \/ free_pending(p)
    \/ reap(p)

Spec == Init /\ [][Next]_vars

-----------------------------------------------------------------------------
(* Properties.  They hold until a table allocation fails. *)

Tops == ({task[p].aspace : p \in Proc} \cup {pending[p] : p \in Proc}) \ {None}
Owned(pml4) == {pml4} \cup Tables(mm.mem, pml4) \cup Leaves(mm.mem, pml4)

\* Every used page is reserved, lost by a failed load, or belongs to one
\* address space, where exactly one entry refers to it: fork()'s failure paths
\* ("Don't leak the partial clone", process.rs:215), the deferred free of
\* execve(), pages shared by segments and reaping leak nothing and free
\* nothing that is still mapped.
OneOwner ==
  mm.fatal \/
    /\ mm.bitmap = Reserved \cup lost \cup UNION {Owned(t) : t \in Tops}
    /\ \A t \in Tops :
         /\ Owned(t) \cap (Reserved \cup lost) = {}
         /\ \A u \in Tops \ {t} : Owned(t) \cap Owned(u) = {}
         /\ Cardinality(Owned(t)) =
              1 + Cardinality(Mapped(mm.mem, t))
                + Cardinality(Tables(mm.mem, t))

\* Every address space maps the kernel as the boot one does, through however
\* many generations of fork() and execve() its higher half was copied
\* (vmm.rs:77-83), and the kernel's own tables stay allocated.
KernelHalfShared ==
  mm.fatal \/
    /\ \A t \in Tops : \A i \in Entries \ UserHalf : mm.mem[t][i] = mm.mem[Boot][i]
    /\ KernelTables \subseteq mm.bitmap

MemoryOf(p) ==
  [v \in Mapped(mm.mem, task[p].aspace) |-> mm.mem[Lookup[mm.mem, task[p].aspace, v]]]
ImageMemory(image) ==
  LET touched == UNION {SegStart(image[k]) .. SegStart(image[k]) + SegPages(image[k]) - 1 :
                          k \in DOMAIN image}
      stack == USER_STACK_TOP - USER_STACK_PAGES .. USER_STACK_TOP - 1
      offset(k, w) == w - image[k].vaddr + 1
      owners(w) == {k \in DOMAIN image : offset(k, w) \in DOMAIN image[k].data}
      last(w) == CHOOSE k \in owners(w) : \A j \in owners(w) : j <= k
      word(w) == IF owners(w) = {} THEN Zero ELSE image[last(w)].data[offset(last(w), w)]
  IN  [v \in touched \cup stack |-> [i \in Entries |-> word(v * ENTRIES + i)]]
Memory == [p \in Proc |-> IF mm.fatal \/ ~Live(p) THEN <<>> ELSE MemoryOf(p)]
M == INSTANCE Memories WITH
       memory <- Memory,
       Fresh <- {ImageMemory(image) : image \in Images},
       NoMemory <- <<>>,
       ZeroPage <- Blank
\* Processes see private memories: what one stores, or a page that belonged
\* to another before, never shows in a third; fork() copies every word, brk()
\* adds zeroes, and a program starts with its segments over each other in
\* order, pages shared by two of them included (elf.rs:114-122).
PrivateMemories == [][M!Next \/ mm'.fatal]_Memory

=============================================================================
