------------------------------ MODULE MCFiles -------------------------------
(***************************************************************************)
(* The tree against FileTree, the file system it promises; the same code    *)
(* with fewer vnodes and two processes whose working directories it must    *)
(* respect. They share no state here, so a behaviour is one of theirs: part *)
(* says whose, and the other stands still.                                  *)
(***************************************************************************)
EXTENDS Vfs, TLC

CONSTANT Parts       \* the parts looked at

CONSTANTS n0, n1, n2, n3, n4, c0, c1, c2, p1, p2, empty, full

Rel(c) == [abs |-> FALSE, comps |-> c]
Abs(c) == [abs |-> TRUE, comps |-> c]

FewPaths == {Rel(<<"a">>), Rel(<<"b">>), Rel(<<"..">>)}
ManyPaths == {Rel(<<"a">>), Rel(<<"b">>), Rel(<<"a", "b">>), Rel(<<".">>),
              Abs(<<>>), Abs(<<"a">>)}

MCSymmetry == Permutations(Node \ {n0}) \cup Permutations({c1, c2}) \cup Permutations({p1, p2})

VARIABLES part, fs, cwds_node, cwds_shell, cwds_cwd, cwds_file

C == INSTANCE Vfs WITH Node <- {c0, c1, c2}, Root <- c0, Contents <- {empty},
  Paths <- FewPaths, Proc <- {p1, p2}, node <- cwds_node, shell <- cwds_shell, cwd <- cwds_cwd,
  file <- cwds_file

cwds_vars == <<cwds_node, cwds_shell, cwds_cwd, cwds_file>>

MCInit ==
  /\ part \in Parts
  /\ Init
  /\ C!Init
  /\ fs = PathMap

MCNext ==
  /\ UNCHANGED part
  /\ IF part = "tree" THEN Next ELSE UNCHANGED vars
  /\ IF part = "cwds" THEN C!Next ELSE UNCHANGED cwds_vars
  /\ fs' = IF part = "tree" THEN PathMap' ELSE fs

MCVars == <<part, fs, vars, cwds_vars>>

MCSpec == MCInit /\ [][MCNext]_MCVars

-----------------------------------------------------------------------------
\* fs is PathMap, evaluated once in each state.
Promised == INSTANCE FileTree WITH
  Directory <- Nil, Names <- UNION {{q.comps[k] : k \in DOMAIN q.comps} : q \in Paths}

\* Every operation does to the paths what it says and nothing else: one path
\* appears, one file's content changes, or one subtree goes, is duplicated or is
\* carried elsewhere, whole (vfs.rs:151-419).
KeepsPromise == Promised!Spec

\* No process is left with a freed vnode as its directory, whoever removes or moves
\* what: sys_unlink() asks cwd_within() about every process (syscall.rs:205-232).
CwdsStayLive == part = "cwds" => C!CwdsLive

\* "whether removing `dir` would leave a process holding a freed vnode" is answered by
\* cwd_within() from the working directories alone (process.rs:106-119): a process's
\* open file may be the one that is freed.
NothingFreedIsHeld == part = "cwds" => C!NoFreedVnodeHeld
=============================================================================
