--------------------------------- MODULE Vfs ---------------------------------
(***************************************************************************)
(* The in-memory filesystem (fs/vfs.rs), a tree of vnodes linked by        *)
(* pointers, and who points into it: the kernel shell's directory, and     *)
(* every process's directory and open file (exec/syscall.rs).  A path is   *)
(* whether it starts at the root and its components.  Content is a value;  *)
(* file offsets are left out, and a process has one descriptor.  A pointer *)
(* whose vnode is freed becomes Gone: using it is undefined, and its       *)
(* holder takes no step that would.  Saving to disk, with which every      *)
(* changing command of the kernel shell ends, reads the tree only (Blkfs). *)
(***************************************************************************)
EXTENDS Naturals, FiniteSets, Sequences, SequencesExt, Functions

CONSTANTS Node, Root,        \* vnodes there is memory for
          Contents, NoData,  \* what a file holds; a new file holds NoData
          Paths,             \* [abs, comps]: the paths callers use
          Proc, Nil,
          Gone               \* a pointer to a vnode that has been freed

VARIABLES node,        \* vnode -> [name, dir, parent, children, data]
          shell,       \* the kernel shell's working directory
          cwd,         \* process -> its working directory, Nil if unused
          file         \* process -> [vnode, writable], or Nil

vars == <<node, shell, cwd, file>>

Free == [name |-> Nil, dir |-> FALSE, parent |-> Nil, children |-> <<>>, data |-> Nil]
NewNode(name, dir, data) ==
  [name |-> name, dir |-> dir, parent |-> Nil, children |-> <<>>, data |-> data]
Alive(n) == n \in Node /\ node[n] # Free
Live(p) == cwd[p] # Nil

ASSUME VfsConstants ==
  Root \in Node /\ NoData \in Contents /\ Nil # Gone /\ {Nil, Gone} \cap (Node \cup Contents) = {}

Init ==
  /\ node = [n \in Node |-> IF n = Root THEN NewNode("", TRUE, Nil) ELSE Free]
  /\ shell = Root
  /\ cwd = [p \in Proc |-> Nil]
  /\ file = [p \in Proc |-> Nil]

-----------------------------------------------------------------------------
(* Links and paths. *)

link_child(t, parent, child) ==
  [t EXCEPT ![child].parent = parent, ![parent].children = <<child>> \o @]

unlink_child(t, parent, child) ==
  [t EXCEPT ![parent].children = SelectSeq(@, LAMBDA c : c # child), ![child].parent = Nil]

Children(n) == {node[n].children[k] : k \in DOMAIN node[n].children}
FindChild(n, name) == {c \in Children(n) : node[c].name = name}

\* The nodes at most k links above n, itself included; k is enough when it is
\* the number of vnodes.
Above[n \in Node, k \in Nat] ==
  IF k = 0 \/ node[n].parent = Nil THEN {n} ELSE {n} \cup Above[node[n].parent, k - 1]
is_ancestor_or_self(ancestor, n) == ancestor \in Above[n, Cardinality(Node)]
Subtree(n) == {m \in Node : Alive(m) /\ is_ancestor_or_self(n, m)}

\* One component of resolve(); Nil once a component was not there.
Walk(cur, component) ==
  IF cur = Nil \/ component = "." THEN cur
  ELSE IF component = ".." THEN IF node[cur].parent = Nil THEN cur ELSE node[cur].parent
  ELSE IF node[cur].dir /\ FindChild(cur, component) # {}
       THEN CHOOSE c \in FindChild(cur, component) : TRUE
  ELSE Nil
WalkAll[cur \in Node \cup {Nil}, comps \in Seq(STRING)] ==
  IF comps = <<>> THEN cur ELSE WalkAll[Walk(cur, Head(comps)), Tail(comps)]
resolve(base, path) == WalkAll[IF path.abs THEN Root ELSE base, path.comps]

\* resolve_parent_and_leaf(): [parent, leaf], parent Nil if there is none.
resolve_parent_and_leaf(base, path) ==
  IF path.comps = <<>> THEN [parent |-> Nil, leaf |-> Nil]
  ELSE [parent |-> resolve(base, [path EXCEPT !.comps = Front(@)]), leaf |-> Last(path.comps)]

resolve_target(base, dest, src) ==
  LET there == resolve(base, dest)
      at == resolve_parent_and_leaf(base, dest)
  IN  IF there # Nil /\ node[there].dir THEN [parent |-> there, leaf |-> node[src].name]
      ELSE IF at.parent # Nil /\ node[at.parent].dir THEN at
      ELSE [parent |-> Nil, leaf |-> Nil]

-----------------------------------------------------------------------------
(* Memory for vnodes.  Which address it is at makes no difference; an       *)
(* allocation for which there is none would halt the kernel, and is left    *)
(* out.                                                                     *)

Unused == {n \in Node : ~Alive(n)}
alloc_vnode == CHOOSE n \in Unused : TRUE

-----------------------------------------------------------------------------
(* The operations, on behalf of a caller whose directory is base. *)

\* mkdir() and create_file(): a free vnode linked under an existing directory.
CanCreate(base, path) ==
  LET at == resolve_parent_and_leaf(base, path)
  IN  /\ at.parent # Nil
      /\ node[at.parent].dir
      /\ FindChild(at.parent, at.leaf) = {}
create_leaf(base, path, dir) ==
  LET at == resolve_parent_and_leaf(base, path)
  IN  /\ CanCreate(base, path)
      /\ Unused # {}
      /\ node' = link_child([node EXCEPT ![alloc_vnode] =
                               NewNode(at.leaf, dir, IF dir THEN Nil ELSE NoData)],
                            at.parent, alloc_vnode)

\* remove(): unlinked, then every vnode of the subtree freed.
remove(base, path, here) ==
  \E n \in {resolve(base, path)} \ {Nil, Root} :
      /\ ~is_ancestor_or_self(n, here)
      /\ node' = [m \in Node |-> IF m \in Subtree(n) THEN Free ELSE unlink_child(node, node[n].parent, n)[m]]

\* Mutant of CopyOf: directories are copied, the files in them come out empty.
CopyForgetsData(m, top, leaf, to) ==
  [node[m] EXCEPT !.name = IF m = top THEN leaf ELSE @,
                  !.parent = IF m = top THEN Nil ELSE to[@],
                  !.children = LET kids == @ IN Reverse([k \in DOMAIN kids |-> to[kids[k]]]),
                  !.data = IF @ = Nil THEN Nil ELSE NoData]
\* copy_recursive(): the copy of m in to[m].  Each child is put in front of those
\* copied before it, so the copies are in reverse order.
CopyOf(m, top, leaf, to) ==
  [node[m] EXCEPT !.name = IF m = top THEN leaf ELSE @,
                  !.parent = IF m = top THEN Nil ELSE to[@],
                  !.children = LET kids == @ IN Reverse([k \in DOMAIN kids |-> to[kids[k]]])]

copy(base, src, dest) ==
  \E s \in {resolve(base, src)} \ {Nil} : \E at \in {resolve_target(base, dest, s)} :
      /\ at.parent # Nil
      /\ at.leaf # ""
      /\ FindChild(at.parent, at.leaf) = {}
      /\ ~(node[s].dir /\ is_ancestor_or_self(s, at.parent))
      /\ Cardinality(Subtree(s)) <= Cardinality(Unused)
      /\ \E to \in {CHOOSE f \in Injection(Subtree(s), Unused) : TRUE} :
           LET copied == [n \in Node |->
                 IF \E m \in Subtree(s) : to[m] = n
                 THEN CopyOf(CHOOSE m \in Subtree(s) : to[m] = n, s, at.leaf, to)
                 ELSE node[n]]
           IN  node' = link_child(copied, at.parent, to[s])

\* Mutant of move_node: a directory may be moved below itself.
MoveAnywhere(base, src, dest) ==
  \E s \in {resolve(base, src)} \ {Nil} : \E at \in {resolve_target(base, dest, s)} :
      /\ s # Root
      /\ at.parent # Nil
      /\ FindChild(at.parent, at.leaf) \subseteq {s}
      /\ node' = link_child([unlink_child(node, node[s].parent, s) EXCEPT ![s].name = at.leaf],
                            at.parent, s)

move_node(base, src, dest) ==
  \E s \in {resolve(base, src)} \ {Nil} : \E at \in {resolve_target(base, dest, s)} :
      /\ s # Root
      /\ at.parent # Nil
      /\ FindChild(at.parent, at.leaf) \subseteq {s}
      /\ ~(node[s].dir /\ is_ancestor_or_self(s, at.parent))
      /\ node' = link_child([unlink_child(node, node[s].parent, s) EXCEPT ![s].name = at.leaf],
                            at.parent, s)

\* write_bytes(): the file is created first if nothing is there.
write_bytes(base, path, data) ==
  LET there == resolve(base, path)
      at == resolve_parent_and_leaf(base, path)
  IN  \/ /\ there # Nil
         /\ ~node[there].dir
         /\ node' = [node EXCEPT ![there].data = data]
      \/ /\ there = Nil
         /\ CanCreate(base, path)
         /\ Unused # {}
         /\ node' = link_child([node EXCEPT ![alloc_vnode] = NewNode(at.leaf, FALSE, data)],
                               at.parent, alloc_vnode)

-----------------------------------------------------------------------------
(* System calls, one per process step. *)

\* cwd_within() follows the parents of every process's directory.
cwd_within(dir) == \E p \in Proc : Live(p) /\ is_ancestor_or_self(dir, cwd[p])

\* The kernel shell waits in run_until() while any process is left.
ShellRuns == shell # Gone /\ \A p \in Proc : ~Live(p)

sys_mkdir(p, path) ==
  /\ Live(p)
  /\ create_leaf(cwd[p], path, TRUE)
  /\ UNCHANGED <<shell, cwd, file>>

\* sys_open(): the file is created or truncated before a slot is looked for,
\* so a caller with no slot left has still changed the tree.
sys_open(p, path, write, creat, trunc) ==
  LET there == resolve(cwd[p], path)
      Slot(v) == IF file[p] = Nil THEN [vnode |-> v, writable |-> write] ELSE file[p]
  IN  /\ Live(p)
      /\ \/ /\ there # Nil
            /\ node[there].dir => ~write /\ ~creat /\ ~trunc
            /\ node' = IF trunc /\ write THEN [node EXCEPT ![there].data = NoData] ELSE node
            /\ file' = [file EXCEPT ![p] = Slot(there)]
         \/ /\ there = Nil /\ creat
            /\ create_leaf(cwd[p], path, FALSE)
            /\ file' = [file EXCEPT ![p] = Slot(alloc_vnode)]
      /\ UNCHANGED <<shell, cwd>>

sys_close(p) ==
  /\ Live(p) /\ file[p] # Nil
  /\ file' = [file EXCEPT ![p] = Nil]
  /\ UNCHANGED <<node, shell, cwd>>

sys_write(p, data) ==
  /\ Live(p) /\ file[p] # Nil
  /\ file[p].vnode # Gone /\ file[p].writable
  /\ node' = [node EXCEPT ![file[p].vnode].data = data]
  /\ UNCHANGED <<shell, cwd, file>>

sys_chdir(p, path) ==
  LET there == resolve(cwd[p], path)
  IN  /\ Live(p)
      /\ there # Nil /\ node[there].dir
      /\ cwd' = [cwd EXCEPT ![p] = there]
      /\ UNCHANGED <<node, shell, file>>

\* What a pointer is once the step has freed what it freed.
After(v) == IF v \in Node /\ node'[v] = Free THEN Gone ELSE v
Dangle ==
  /\ shell' = After(shell)
  /\ cwd' = [p \in Proc |-> After(cwd[p])]
  /\ file' = [p \in Proc |-> IF file[p] = Nil THEN Nil
                             ELSE [file[p] EXCEPT !.vnode = After(@)]]

\* Mutant of sys_unlink: only the caller's own directory is protected.
UnlinkOwnCwdOnly(p, path) ==
  /\ Live(p)
  /\ remove(cwd[p], path, cwd[p])
  /\ Dangle

sys_unlink(p, path) ==
  /\ Live(p)
  /\ resolve(cwd[p], path) # Nil
  /\ ~cwd_within(resolve(cwd[p], path))
  /\ remove(cwd[p], path, cwd[p])
  /\ Dangle

sys_rename(p, src, dest) ==
  /\ Live(p)
  /\ move_node(cwd[p], src, dest)
  /\ UNCHANGED <<shell, cwd, file>>

sys_copy(p, src, dest) ==
  /\ Live(p)
  /\ copy(cwd[p], src, dest)
  /\ UNCHANGED <<shell, cwd, file>>

\* A child starts with its parent's directory and open file.
fork(p, child) ==
  /\ Live(p) /\ ~Live(child)
  /\ cwd' = [cwd EXCEPT ![child] = cwd[p]]
  /\ file' = [file EXCEPT ![child] = file[p]]
  /\ UNCHANGED <<node, shell>>

\* An exit with its reap: the slot is unused again.
exit(p) ==
  /\ Live(p)
  /\ cwd' = [cwd EXCEPT ![p] = Nil]
  /\ file' = [file EXCEPT ![p] = Nil]
  /\ UNCHANGED <<node, shell>>

-----------------------------------------------------------------------------
(* Kernel shell commands. *)

cmd_run(p) ==
  /\ ShellRuns
  /\ cwd' = [cwd EXCEPT ![p] = shell]
  /\ UNCHANGED <<node, shell, file>>

cmd_create(path, dir) ==
  /\ ShellRuns
  /\ create_leaf(shell, path, dir)
  /\ UNCHANGED <<shell, cwd, file>>

cmd_write(path, data) ==
  /\ ShellRuns
  /\ write_bytes(shell, path, data)
  /\ UNCHANGED <<shell, cwd, file>>

cmd_delete(path) ==
  /\ ShellRuns
  /\ remove(shell, path, shell)
  /\ Dangle

cmd_copy(src, dest) ==
  /\ ShellRuns
  /\ copy(shell, src, dest)
  /\ UNCHANGED <<shell, cwd, file>>

cmd_move(src, dest) ==
  /\ ShellRuns
  /\ move_node(shell, src, dest)
  /\ UNCHANGED <<shell, cwd, file>>

cmd_cd(path) ==
  /\ ShellRuns
  /\ resolve(shell, path) # Nil
  /\ node[resolve(shell, path)].dir
  /\ shell' = resolve(shell, path)
  /\ UNCHANGED <<node, cwd, file>>


Next ==
  \/ \E p \in Proc :
       \/ \E path \in Paths :
            \/ sys_mkdir(p, path)
            \/ \E write, creat, trunc \in BOOLEAN :
                 sys_open(p, path, write, creat, trunc)
            \/ sys_chdir(p, path)
            \/ sys_unlink(p, path)
            \/ \E dest \in Paths : sys_rename(p, path, dest) \/ sys_copy(p, path, dest)
       \/ sys_close(p)
       \/ \E data \in Contents : sys_write(p, data)
       \/ \E child \in Proc : fork(p, child)
       \/ exit(p)
       \/ cmd_run(p)
  \/ \E path \in Paths :
       \/ \E dir \in BOOLEAN : cmd_create(path, dir)
       \/ \E data \in Contents : cmd_write(path, data)
       \/ cmd_delete(path)
       \/ \E dest \in Paths : cmd_copy(path, dest) \/ cmd_move(path, dest)
       \/ cmd_cd(path)

Spec == Init /\ [][Next]_vars

-----------------------------------------------------------------------------
(* Properties. *)

\* path(): the names from the root down to n.
PathFrom[n \in Node, k \in Nat] ==
  IF k = 0 \/ node[n].parent = Nil THEN <<>>
  ELSE Append(PathFrom[node[n].parent, k - 1], node[n].name)
path(n) == PathFrom[n, Cardinality(Node)]

\* The pointers are a tree whatever was created, moved, copied or removed:
\* every vnode in use is reached from the root, is on its parent's list exactly
\* once and on no other list, only directories have children, and no two
\* children of a directory share a name.
TreeOK ==
  /\ node[Root].parent = Nil
  /\ \A n \in Node : Alive(n) =>
       /\ is_ancestor_or_self(Root, n)
       /\ node[n].children # <<>> => node[n].dir
       /\ \A m \in Node : Cardinality({k \in DOMAIN node[m].children : node[m].children[k] = n})
                          = IF m = node[n].parent THEN 1 ELSE 0
       /\ \A c, d \in Children(n) : Alive(c) /\ (node[c].name = node[d].name => c = d)

\* No process is left with a freed vnode as its directory, whoever removes or
\* moves what: sys_unlink() asks cwd_within() about every process.
CwdsLive == \A p \in Proc : Live(p) => Alive(cwd[p]) /\ node[cwd[p]].dir

\* The abstract filesystem a tree of vnodes stands for: path -> Nil for a
\* directory, the content for a file.
Tree == {n \in Node : is_ancestor_or_self(Root, n)}
Labelled[at \in [Tree -> Seq(STRING)]] ==
  [q \in {at[n] : n \in Tree} |->
     LET n == CHOOSE m \in Tree : at[m] = q IN IF node[n].dir THEN Nil ELSE node[n].data]
PathMap == Labelled[[n \in Tree |-> path(n)]]

\* "whether removing `dir` would leave a process holding a freed vnode" is
\* answered by cwd_within() from the working directories alone: a process's open
\* file may be the one that is freed.
NoFreedVnodeHeld ==
  \A p \in Proc : Live(p) => cwd[p] # Gone /\ (file[p] # Nil => file[p].vnode # Gone)

=============================================================================
