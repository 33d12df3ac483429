------------------------------ MODULE FileTree ------------------------------
(***************************************************************************)
(* What the filesystem promises: a set of paths closed under taking the    *)
(* parent, each a directory or a file with its content.  Creating adds one *)
(* path, removing takes a path and all below it, copying and moving carry  *)
(* whole subtrees, and nothing else ever changes.  Vfs is shown to         *)
(* implement it.                                                           *)
(***************************************************************************)
EXTENDS Naturals, Sequences, SequencesExt

CONSTANTS Names, Contents, Directory

VARIABLE fs        \* path -> Directory or a content

IsDir(p) == p \in DOMAIN fs /\ fs[p] = Directory
Below(p) == {q \in DOMAIN fs : IsPrefix(p, q)}
Rebased(q, from, to) == to \o SubSeq(q, Len(from) + 1, Len(q))
\* A place where something may appear.
Vacant(p) == p # <<>> /\ p \notin DOMAIN fs /\ IsDir(Front(p))

Init == fs = [p \in {<<>>} |-> Directory]

Create(p, c) ==
  /\ Vacant(p)
  /\ fs' = [q \in DOMAIN fs \cup {p} |-> IF q = p THEN c ELSE fs[q]]

Write(p, c) ==
  /\ p \in DOMAIN fs /\ ~IsDir(p)
  /\ fs' = [fs EXCEPT ![p] = c]

Delete(p) ==
  /\ p \in DOMAIN fs \ {<<>>}
  /\ fs' = [q \in DOMAIN fs \ Below(p) |-> fs[q]]

Copy(p, to) ==
  /\ p \in DOMAIN fs
  /\ Vacant(to) /\ ~IsPrefix(p, to)
  /\ fs' = [q \in DOMAIN fs \cup {Rebased(r, p, to) : r \in Below(p)} |->
              IF IsPrefix(to, q) THEN fs[Rebased(q, to, p)] ELSE fs[q]]

Move(p, to) ==
  /\ p \in DOMAIN fs \ {<<>>}
  /\ Vacant(to) /\ ~IsPrefix(p, to)
  /\ fs' = [q \in (DOMAIN fs \ Below(p)) \cup {Rebased(r, p, to) : r \in Below(p)} |->
              IF IsPrefix(to, q) THEN fs[Rebased(q, to, p)] ELSE fs[q]]

\* The paths one step away from those that exist.
Places == {Append(p, n) : p \in DOMAIN fs, n \in Names}

Next ==
  \/ \E p \in Places, c \in Contents \cup {Directory} : Create(p, c)
  \/ \E p \in DOMAIN fs, c \in Contents : Write(p, c)
  \/ \E p \in DOMAIN fs : Delete(p)
  \/ \E p \in DOMAIN fs, to \in Places : Copy(p, to) \/ Move(p, to)

Spec == Init /\ [][Next]_fs
=============================================================================
