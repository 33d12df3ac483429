-------------------------------- MODULE Fifo --------------------------------
(***************************************************************************)
(* What one pipe promises its readers and writers: a bounded first-in      *)
(* first-out queue of bytes that never blocks, accepts a prefix of what is *)
(* written, and tells the reader "try again" (an empty answer while a      *)
(* writer is left) apart from "end of file".  Pipe is shown to implement   *)
(* it.                                                                     *)
(***************************************************************************)
EXTENDS Naturals, Sequences

CONSTANTS Byte,        \* what a byte may be
          Capacity,    \* bytes the pipe can hold
          MaxLen       \* the longest buffer a caller passes

VARIABLES queue,       \* the bytes written and not yet read, oldest first
          readers,     \* references to the read end
          writers,     \* references to the write end
          result       \* what the last call returned

vars == <<queue, readers, writers, result>>

None == [some |-> FALSE]
Wrote(n) == [some |-> TRUE, n |-> n]
Got(bytes) == [some |-> TRUE, bytes |-> bytes]

Init ==
  /\ queue = <<>>
  /\ readers = 1 /\ writers = 1
  /\ result = None

\* A prefix of data is accepted: all of it, or as much as fills the pipe.
Write(data) ==
  /\ writers > 0
  /\ UNCHANGED <<readers, writers>>
  /\ \/ readers = 0 /\ result' = None /\ UNCHANGED queue
     \/ /\ readers > 0
        /\ \E n \in 0 .. Len(data) :
             /\ queue' = queue \o SubSeq(data, 1, n)
             /\ Len(queue') <= Capacity
             /\ n = Len(data) \/ Len(queue') = Capacity
             /\ result' = Wrote(n)

\* The oldest bytes, at most len of them; end of file only once the queue is
\* empty and nobody can write any more.
Read(len) ==
  /\ readers > 0
  /\ UNCHANGED <<readers, writers>>
  /\ \/ queue = <<>> /\ writers = 0 /\ result' = None /\ UNCHANGED queue
     \/ \E n \in 0 .. Len(queue) :
          /\ queue # <<>> \/ writers > 0
          /\ n = len \/ (n < len /\ n = Len(queue))
          /\ result' = Got(SubSeq(queue, 1, n))
          /\ queue' = SubSeq(queue, n + 1, Len(queue))

\* Ends gain references only from ends still held, and lose them one by one.
Ends ==
  /\ \/ /\ \/ readers > 0 /\ readers' \in {readers - 1, readers + 1}
           \/ readers' = readers
        /\ \/ writers > 0 /\ writers' \in {writers - 1, writers + 1}
           \/ writers' = writers
  /\ UNCHANGED <<queue, result>>

Next ==
  \/ \E n \in 0 .. MaxLen : \E data \in [1 .. n -> Byte] : Write(data)
  \/ \E len \in 0 .. MaxLen : Read(len)
  \/ Ends

Spec == Init /\ [][Next]_vars
=============================================================================
