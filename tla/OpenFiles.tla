------------------------------ MODULE OpenFiles ------------------------------
(***************************************************************************)
(* Who refers to which end of which pipe: the open_files and the stdio     *)
(* pipes of every process, the reference counts fork(), close(),           *)
(* use_as_stdio() and exit() keep, and the pipe objects that are freed     *)
(* when both counts are zero (exec/syscall.rs, exec/process.rs,            *)
(* exec/pipe.rs).  Any live process may make the next call: the tick may   *)
(* switch processes between any two system calls, never inside one.  A     *)
(* pipe's bytes are counted here and modelled in Pipe.  exec() carries     *)
(* every entry over unchanged, so it is a stuttering step.                 *)
(***************************************************************************)
EXTENDS Naturals, FiniteSets
LOCAL INSTANCE TLC

CONSTANTS Slots,            \* entries of the process table
          MAX_OPEN_FILES,   \* open files per process (8 in the code)
          Pipes,            \* the addresses a pipe may be allocated at
          BUF_SIZE,         \* bytes a pipe holds
          MaxRefs           \* references to one end (a bound on forks)

ASSUME OpenFilesConstants ==
  /\ MAX_OPEN_FILES \in Nat
  /\ BUF_SIZE \in Nat
  /\ MaxRefs \in Nat
  /\ IsFiniteSet(Slots)

VARIABLES state,       \* slot -> "unused", "live" or "zombie"
          files,       \* slot -> descriptor -> what it refers to
          refs,        \* pipe end -> its count (read_refs, write_refs)
          allocated,   \* the pipes not yet freed
          count        \* pipe -> bytes buffered

vars == <<state, files, refs, allocated, count>>

\* Descriptors: 0 is stdin_pipe, 1 is stdout_pipe, 3 + i is open_files[i].
Stdin == 0
Stdout == 1
Fds == 3 .. MAX_OPEN_FILES + 2
Descriptors == {Stdin, Stdout} \cup Fds

Ends == [pipe : Pipes, write_end : BOOLEAN]
End(p, w) == [pipe |-> p, write_end |-> w]
Free == [kind |-> "free"]      \* OpenFile::Free; a null stdio pipe
File == [kind |-> "file"]      \* an open vnode

\* Standard input is a read end, standard output a write end.
StdioEnds ==
  \A s \in Slots, p \in Pipes : /\ files[s][Stdin] # End(p, TRUE)
                                /\ files[s][Stdout] # End(p, FALSE)

TypeOK ==
  /\ state \in [Slots -> {"unused", "live", "zombie"}]
  /\ files \in [Slots -> [Descriptors -> Ends \cup {Free, File}]]
  /\ refs \in [Ends -> Nat]
  /\ allocated \in SUBSET Pipes
  /\ count \in [Pipes -> 0 .. BUF_SIZE]
  /\ StdioEnds

Nothing == [d \in Descriptors |-> Free]

\* One program, started by the kernel with no file open (Usertask::EMPTY).
Init ==
  /\ \E s \in Slots : state = [x \in Slots |-> IF x = s THEN "live" ELSE "unused"]
  /\ files = [s \in Slots |-> Nothing]
  /\ refs = [e \in Ends |-> 0]
  /\ allocated = {}
  /\ count = [p \in Pipes |-> 0]

-----------------------------------------------------------------------------
(* Helpers. *)

Unused(s) == {d \in Fds : files[s][d] = Free}

\* free_slot(): the lowest free descriptor.
free_slot(s, d) == d \in Unused(s) /\ \A x \in Unused(s) : d <= x

\* close_read() and close_write() on a set of distinct ends, with
\* free_if_unused() after each.
CloseFreesWithReader(es) ==
  /\ refs' = [e \in Ends |-> IF e \in es THEN refs[e] - 1 ELSE refs[e]]
  /\ allocated' = allocated \ {p \in Pipes : /\ \E e \in es : e.pipe = p
                                             /\ refs'[End(p, TRUE)] = 0}

Close(es) ==
  /\ refs' = [e \in Ends |-> IF e \in es THEN refs[e] - 1 ELSE refs[e]]
  /\ allocated' = allocated \ {p \in Pipes : /\ \E e \in es : e.pipe = p
                                             /\ refs'[End(p, TRUE)] = 0
                                             /\ refs'[End(p, FALSE)] = 0}

-----------------------------------------------------------------------------
(* System calls of a live process. *)

\* open(): a file takes the lowest free descriptor.
sys_open(s) ==
  /\ state[s] = "live"
  /\ \E d \in Fds :
       /\ free_slot(s, d)
       /\ files' = [files EXCEPT ![s][d] = File]
  /\ UNCHANGED <<state, refs, allocated, count>>

\* pipe(): the two lowest free descriptors, and a pipe with one reference
\* at each end; nothing is allocated when fewer than two are free.
sys_pipe(s) ==
  /\ state[s] = "live"
  /\ \E r, w \in Fds, p \in Pipes \ allocated :
       /\ free_slot(s, r)
       /\ w \in Unused(s) \ {r} /\ \A x \in Unused(s) \ {r} : w <= x
       /\ files' = [files EXCEPT ![s][r] = End(p, FALSE), ![s][w] = End(p, TRUE)]
       /\ refs' = [refs EXCEPT ![End(p, FALSE)] = 1, ![End(p, TRUE)] = 1]
       /\ allocated' = allocated \cup {p}
       /\ count' = [count EXCEPT ![p] = 0]
  /\ UNCHANGED state

CloseForgetsCount(s) ==
  /\ state[s] = "live"
  /\ \E d \in Fds :
       /\ files[s][d] # Free
       /\ files' = [files EXCEPT ![s][d] = Free]
  /\ UNCHANGED <<state, refs, allocated, count>>

sys_close(s) ==
  /\ state[s] = "live"
  /\ \E d \in Fds :
       /\ files[s][d] # Free
       /\ Close({files[s][d]} \cap Ends)
       /\ files' = [files EXCEPT ![s][d] = Free]
  /\ UNCHANGED <<state, count>>

\* use_as_stdio(): the two entries move to stdin and stdout.  What those
\* referred to before is overwritten, its reference not dropped.
sys_use_as_stdio(s) ==
  /\ state[s] = "live"
  /\ \E i, o \in Fds : \E p, q \in Pipes :
       /\ files[s][i] = End(p, FALSE) /\ files[s][o] = End(q, TRUE)
       /\ files' = [files EXCEPT ![s][Stdin] = End(p, FALSE),
                                 ![s][Stdout] = End(q, TRUE),
                                 ![s][i] = Free, ![s][o] = Free]
  /\ UNCHANGED <<state, refs, allocated, count>>

\* The counts fork() leaves: one more for each entry of s.
Copies(s, e) == {d \in Descriptors : files[s][d] = e}
Bumped(s) == [e \in Ends |-> refs[e] + Cardinality(Copies(s, e))]

\* fork(): the child's copies are counted before its memory is allocated.
fork(s) ==
  /\ state[s] = "live"
  /\ \E t \in Slots :
       /\ state[t] = "unused"
       /\ state' = [state EXCEPT ![t] = "live"]
       /\ files' = [files EXCEPT ![t] = files[s]]
  /\ \A e \in Ends : Bumped(s)[e] <= MaxRefs
  /\ refs' = Bumped(s)
  /\ UNCHANGED <<allocated, count>>

\* The same when the child's pages or kernel stack cannot be had: the
\* counts stay bumped.
fork_fails(s) ==
  /\ state[s] = "live"
  /\ \E t \in Slots : state[t] = "unused"
  /\ \A e \in Ends : Bumped(s)[e] <= MaxRefs
  /\ refs' = Bumped(s)
  /\ UNCHANGED <<state, files, allocated, count>>

WriteToEitherEnd(s) ==
  /\ state[s] = "live"
  /\ \E d \in Descriptors, p \in Pipes :
       /\ files[s][d] \in {End(p, FALSE), End(p, TRUE)}
       /\ count[p] < BUF_SIZE
       /\ count' = [count EXCEPT ![p] = @ + 1]
  /\ UNCHANGED <<state, files, refs, allocated>>

\* write() on a pipe, through stdout or a descriptor: None without readers,
\* else as much as fits.
sys_write(s) ==
  /\ state[s] = "live"
  /\ \E d \in Descriptors, p \in Pipes, n \in 1 .. BUF_SIZE :
       /\ files[s][d] = End(p, TRUE)
       /\ refs[End(p, FALSE)] # 0
       /\ n <= BUF_SIZE - count[p]
       /\ count' = [count EXCEPT ![p] = @ + n]
  /\ UNCHANGED <<state, files, refs, allocated>>

\* read() on a pipe, through stdin or a descriptor, when it is not empty.
sys_read(s) ==
  /\ state[s] = "live"
  /\ \E d \in Descriptors, p \in Pipes, n \in 1 .. BUF_SIZE :
       /\ files[s][d] = End(p, FALSE)
       /\ n <= count[p]
       /\ count' = [count EXCEPT ![p] = @ - n]
  /\ UNCHANGED <<state, files, refs, allocated>>

-----------------------------------------------------------------------------
(* The end of a process, and the next one in its slot. *)

\* exit() or a crash: close_stdio_pipes() closes the two stdio pipes.  The
\* open_files are not closed; nothing reads them again, so they are
\* forgotten here with the process.
Exit(s) ==
  /\ state[s] = "live"
  /\ Close({files[s][Stdin], files[s][Stdout]} \cap Ends)
  /\ files' = [files EXCEPT ![s] = Nothing]
  /\ state' = [state EXCEPT ![s] = "zombie"]
  /\ UNCHANGED count

\* The run loop or wait4() reaps a zombie: its slot is free for reuse.
reap(s) ==
  /\ state[s] = "zombie"
  /\ state' = [state EXCEPT ![s] = "unused"]
  /\ UNCHANGED <<files, refs, allocated, count>>

\* With no process left the kernel shell starts the next program, with no
\* file open (the slot's files are Nothing since its last Exit).
spawn(s) ==
  /\ \A t \in Slots : state[t] = "unused"
  /\ state' = [state EXCEPT ![s] = "live"]
  /\ UNCHANGED <<files, refs, allocated, count>>

Next ==
  \E s \in Slots :
    \/ sys_open(s) \/ sys_pipe(s) \/ sys_close(s) \/ sys_use_as_stdio(s)
    \/ fork(s) \/ fork_fails(s) \/ sys_write(s) \/ sys_read(s)
    \/ Exit(s) \/ reap(s) \/ spawn(s)

Spec == Init /\ [][Next]_vars

\* For TLC: processes are interchangeable, and so are the addresses of pipes.
Symmetry == Permutations(Slots) \cup Permutations(Pipes)

-----------------------------------------------------------------------------
(* Properties. *)

\* The entries of live processes that refer to an end.
HoldersIn(st, fs, e) ==
  {h \in Slots \X Descriptors : st[h[1]] = "live" /\ fs[h[1]][h[2]] = e}
Holders(e) == HoldersIn(state, files, e)

\* No call ever reaches a freed pipe: every end a live process refers to is
\* of an allocated pipe, however forks, closes, moves to stdio and exits of
\* several processes interleave (the pointers dereferenced at
\* syscall.rs:315 and 348, process.rs:163-172, pipe.rs:81-89).
NoDanglingPipe ==
  \A e \in Ends : Holders(e) # {} => e.pipe \in allocated

\* A count is never less than the entries it stands for, so no close() of
\* one process closes an end under another that still uses it, the failure
\* pipe.rs:19-28 tells of.
CountsCoverHolders ==
  \A e \in Ends : Cardinality(Holders(e)) <= refs[e]

\* End of file is final: a pipe that is empty and has no writer stays so
\* until it is freed, whatever the processes do; a reader that was told
\* None never misses bytes written later (pipe.rs:54-68).
EndOfFile(p) == count[p] = 0 /\ refs[End(p, TRUE)] = 0
EndOfFileIsFinal ==
  [][\A p \in allocated : EndOfFile(p) => p \notin allocated' \/ EndOfFile(p)']_vars

\* References no entry stands for any more.
Excess(e) == refs[e] - Cardinality(Holders(e))

\* References are lost in three places only: a process that exits with pipe
\* descriptors open, use_as_stdio() over stdio pipes already set, and a
\* failed fork().  Every other call keeps the counts in step with the
\* entries.
LostOnlyAt ==
  [][\A e \in Ends :
       \/ Excess(e)' = Excess(e)
       \/ \E s \in Slots : /\ state[s] = "live" /\ state'[s] = "zombie"
                           /\ \E d \in Fds : files[s][d] = e
       \/ \E s \in Slots : /\ state'[s] = "live"
                           /\ \E d \in {Stdin, Stdout} :
                                files[s][d] = e /\ files'[s][d] # e
       \/ \E s \in Slots : fork_fails(s)]_vars

=============================================================================
