------------------------------ MODULE Memories ------------------------------
(***************************************************************************)
(* What address spaces promise their processes: every process has a memory *)
(* of its own, a function from the pages it may touch to what they hold.   *)
(* A store changes one page of one process, fork() copies, execve() starts *)
(* afresh and brk() adds zeroed pages.  AddressSpaces is shown to          *)
(* implement it.                                                           *)
(***************************************************************************)
EXTENDS Naturals

CONSTANTS Proc,
          Fresh,      \* the memories a program may start with
          ZeroPage,   \* what brk() adds
          NoMemory    \* the memory of an unused slot

VARIABLE memory

Init == memory = [p \in Proc |-> NoMemory]

Start(p) ==
  /\ memory[p] = NoMemory
  /\ \E m \in Fresh : memory' = [memory EXCEPT ![p] = m]

Fork(p, c) ==
  /\ memory[p] # NoMemory
  /\ memory[c] = NoMemory
  /\ memory' = [memory EXCEPT ![c] = memory[p]]

Exec(p) ==
  /\ memory[p] # NoMemory
  /\ \E m \in Fresh : memory' = [memory EXCEPT ![p] = m]

\* What was mapped stays mapped and keeps its value; what is new is zero.
Grow(p) ==
  /\ memory[p] # NoMemory
  /\ DOMAIN memory[p] \subseteq DOMAIN memory'[p]
  /\ memory' = [memory EXCEPT ![p] =
       [v \in DOMAIN memory'[p] |-> IF v \in DOMAIN memory[p] THEN memory[p][v] ELSE ZeroPage]]

Store(p) ==
  /\ memory[p] # NoMemory
  /\ \E v \in DOMAIN memory[p] :
       /\ DOMAIN memory'[p] = DOMAIN memory[p]
       /\ memory' = [memory EXCEPT ![p][v] = memory'[p][v]]

End(p) == memory' = [memory EXCEPT ![p] = NoMemory]

Next ==
  \E p \in Proc :
    \/ Start(p) \/ Exec(p) \/ Grow(p) \/ Store(p) \/ End(p)
    \/ \E c \in Proc : Fork(p, c)

Spec == Init /\ [][Next]_memory
=============================================================================
