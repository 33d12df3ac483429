-------------------------------- MODULE Blkfs --------------------------------
(***************************************************************************)
(* Saving the filesystem to the disk and loading it at boot (fs/blkfs.rs), *)
(* on a machine that can lose power between the two writes of a save and   *)
(* in the middle of one.  A vnode is [name, dir, kids, content] with its   *)
(* children in list order; content is a sequence of text cells.  The byte  *)
(* stream is a sequence of cells too, each a record's header or a piece of *)
(* content: text read as a header has a name too long and is refused, and  *)
(* zeroes read as one are an empty directory without a name.               *)
(***************************************************************************)
EXTENDS Integers, Sequences, SequencesExt

CONSTANTS Trees,          \* what may be in memory: sequences of the root's children
          SECTOR_SIZE,    \* in cells
          capacity        \* sectors, the superblock's included

VARIABLES tree,       \* the root's children in memory
          sb,         \* total_size in the superblock, NoMagic on a blank disk
          data,       \* the cells from sector 1 on
          saving,     \* a save has written its superblock and not its data
          saved       \* what the disk should hold: the last tree saved, Torn once
                      \* a save stopped after its superblock

vars == <<tree, sb, data, saving, saved>>

NoMagic == -1
Cell(type, name, n) == [type |-> type, name |-> name, n |-> n]
Zero == Cell("dir", "", 0)
Vnode(name, dir, kids, content) == [name |-> name, dir |-> dir, kids |-> kids, content |-> content]
Torn == <<Vnode("", FALSE, <<>>, <<>>)>>      \* no tree: a file without a name
Sectors(size) == (size + SECTOR_SIZE - 1) \div SECTOR_SIZE

-----------------------------------------------------------------------------
(* The stream: what save() writes. *)

RECURSIVE Records(_)

serialize(v) ==
  IF v.dir THEN <<Cell("dir", v.name, Len(v.kids))>> \o Records(v.kids)
  ELSE <<Cell("file", v.name, Len(v.content))>> \o v.content
Records(kids) == IF kids = <<>> THEN <<>> ELSE serialize(Head(kids)) \o Records(Tail(kids))

Image(kids) == serialize(Vnode("", TRUE, kids, <<>>))

-----------------------------------------------------------------------------
(* The reader: what load() makes of it.  A result is [ok, pos, kids]: whether *)
(* the record was read, where the cursor is, and the children created so far, *)
(* which stay when it was not.                                                *)

Taken(kids, name) == \E k \in DOMAIN kids : kids[k].name = name

RECURSIVE Nodes(_, _, _, _)

\* Reader::node() for a record that is not the root's.
node(buf, pos, kids) ==
  LET c == buf[pos]
      Created(v) == <<v>> \o kids
      inner == Nodes(buf, pos + 1, c.n, <<>>)
  IN  IF pos > Len(buf) THEN [ok |-> FALSE, pos |-> pos, kids |-> kids]
      ELSE IF c.type = "text" \/ c.name = "" \/ Taken(kids, c.name)
      THEN [ok |-> FALSE, pos |-> pos, kids |-> kids]
      ELSE IF c.type = "dir"
      THEN [inner EXCEPT !.kids = Created(Vnode(c.name, TRUE, @, <<>>))]
      ELSE IF pos + c.n > Len(buf)
      THEN [ok |-> FALSE, pos |-> pos, kids |-> Created(Vnode(c.name, FALSE, <<>>, <<>>))]
      ELSE [ok |-> TRUE, pos |-> pos + 1 + c.n,
            kids |-> Created(Vnode(c.name, FALSE, <<>>, SubSeq(buf, pos + 1, pos + c.n)))]
Nodes(buf, pos, count, kids) ==
  IF count = 0 THEN [ok |-> TRUE, pos |-> pos, kids |-> kids]
  ELSE LET r == node(buf, pos, kids)
       IN  IF r.ok THEN Nodes(buf, r.pos, count - 1, r.kids) ELSE r

Root(buf) ==
  IF buf[1].type = "dir" THEN Nodes(buf, 2, buf[1].n, <<>>)
  ELSE [ok |-> FALSE, pos |-> 1, kids |-> <<>>]

\* Mutant of load: a stream that goes on after the root's record is corrupt.
LoadStrict(size, cells) ==
  LET r == Root(SubSeq(cells, 1, size))
  IN  IF size \in {NoMagic, 0} THEN [ok |-> TRUE, kids |-> <<>>]
      ELSE [ok |-> r.ok /\ r.pos = size + 1, kids |-> r.kids]

\* load() from a superblock that says size: [ok, kids].
load(size, cells) ==
  LET r == Root(SubSeq(cells, 1, size))
  IN  IF size \in {NoMagic, 0} THEN [ok |-> TRUE, kids |-> <<>>]
      ELSE [ok |-> r.ok, kids |-> r.kids]

-----------------------------------------------------------------------------
Init ==
  /\ tree = <<>>
  /\ sb = NoMagic
  /\ data = [k \in 1 .. (capacity - 1) * SECTOR_SIZE |-> Zero]
  /\ saving = FALSE
  /\ saved = <<>>

\* Programs and shells change the tree; none runs while the kernel is in save().
Edit(t) ==
  /\ ~saving
  /\ tree' = t
  /\ UNCHANGED <<sb, data, saving, saved>>

\* save() up to its first write; a tree too large for the disk, or a failed
\* write of the superblock, ends it there with nothing changed.
SaveSuperblock ==
  /\ ~saving
  /\ 1 + Sectors(Len(Image(tree))) <= capacity
  /\ sb' = Len(Image(tree))
  /\ saving' = TRUE
  /\ UNCHANGED <<tree, data, saved>>

\* The first n sectors of the image, its last sector filled up with zeroes.
Written(n) ==
  LET image == Image(tree)
  IN  [k \in DOMAIN data |->
         IF k > n * SECTOR_SIZE THEN data[k]
         ELSE IF k <= Len(image) THEN image[k] ELSE Zero]

SaveData ==
  /\ saving
  /\ data' = Written(Sectors(Len(Image(tree))))
  /\ saving' = FALSE
  /\ saved' = tree
  /\ UNCHANGED <<tree, sb>>

\* The write fails part of the way; save() reports it and the system goes on.
SaveDataFails(n) ==
  /\ saving
  /\ n < Sectors(Len(Image(tree)))
  /\ data' = Written(n)
  /\ saving' = FALSE
  /\ saved' = Torn
  /\ UNCHANGED <<tree, sb>>

\* The power goes and comes back, and kmain() loads what there is: during a
\* save the device has written n sectors of the data.  A load that gives up at a
\* bad record leaves what it has created so far.
Boot(n) ==
  LET cells == IF saving THEN Written(n) ELSE data
  IN  /\ n < Sectors(Len(Image(tree))) /\ (saving \/ n = 0)
      /\ data' = cells
      /\ tree' = load(sb, cells).kids
      /\ saved' = IF saving THEN Torn ELSE saved
      /\ saving' = FALSE
      /\ UNCHANGED sb

\* The same, and the disk cannot be read.
BootUnreadable ==
  /\ ~saving
  /\ tree' = <<>>
  /\ UNCHANGED <<sb, data, saving, saved>>

Next ==
  \/ \E t \in Trees : Edit(t)
  \/ SaveSuperblock
  \/ SaveData
  \/ \E n \in 0 .. capacity - 2 : SaveDataFails(n) \/ Boot(n)
  \/ BootUnreadable

Spec == Init /\ [][Next]_vars

-----------------------------------------------------------------------------
(* Properties. *)

\* What a load makes of a saved tree: each child is put in front of those
\* before it, so every directory's order is turned round.
RECURSIVE Mirror(_)
Mirror(kids) == Reverse([k \in DOMAIN kids |-> [kids[k] EXCEPT !.kids = Mirror(@)]])

\* However the tree was edited, saved, refused for its size and loaded again
\* before, the disk gives back the last tree whose save succeeded, whole, unless
\* a save has been cut off since.
LoadsLastSave ==
  ~saving /\ saved # Torn => load(sb, data) = [ok |-> TRUE, kids |-> Mirror(saved)]

\* A save that was cut off right after its superblock has lost nothing if the
\* tree did not get smaller: the reader stops where the old tree ends.
SafeToGrow ==
  saving /\ saved # Torn /\ sb >= Len(Image(saved))
    => load(sb, data) = [ok |-> TRUE, kids |-> Mirror(saved)]

=============================================================================
