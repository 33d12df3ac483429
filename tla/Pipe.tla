-------------------------------- MODULE Pipe --------------------------------
(***************************************************************************)
(* The byte ring under pipe() and use_as_stdio() (exec/pipe.rs): a circular *)
(* buffer, the index of the next byte to read, the number of bytes held,   *)
(* and one reference count per end.  Who holds the references is           *)
(* OpenFiles' business; here any holder may call.                          *)
(***************************************************************************)
EXTENDS Naturals, Sequences

CONSTANTS Byte,        \* what a byte may be; holds 0, the buffer's first content
          BUF_SIZE,    \* the ring's size (4096 in the code)
          MaxLen,      \* the longest buffer a caller passes (a bound)
          MaxRefs      \* references to one end (a bound: fork() adds them)

ASSUME PipeConstants ==
  /\ BUF_SIZE \in Nat \ {0}
  /\ MaxLen \in Nat
  /\ MaxRefs \in Nat \ {0}
  /\ 0 \in Byte

VARIABLES buf, head, count, read_refs, write_refs,
          result       \* what the last write or read returned

ring == <<buf, head, count>>
vars == <<buf, head, count, read_refs, write_refs, result>>

None == [some |-> FALSE]
Wrote(n) == [some |-> TRUE, n |-> n]
Got(bytes) == [some |-> TRUE, bytes |-> bytes]

Index == 0 .. BUF_SIZE - 1
Least(m, n) == IF m <= n THEN m ELSE n

TypeOK ==
  /\ buf \in [Index -> Byte]
  /\ head \in Index
  /\ count \in 0 .. BUF_SIZE
  /\ read_refs \in Nat
  /\ write_refs \in Nat

create ==
  /\ buf = [i \in Index |-> 0]
  /\ head = 0
  /\ count = 0
  /\ read_refs = 1
  /\ write_refs = 1
  /\ result = None

-----------------------------------------------------------------------------
(* The loop of write(): n bytes of data stored from the tail on, wrapping. *)

\* The slot at a ring position, and the distance of a slot from the tail.
SlotNoWrap(from, i) == Least(from + i, BUF_SIZE - 1)
Slot(from, i) == (from + i) % BUF_SIZE
Distance(from, k) == (k + BUF_SIZE - from) % BUF_SIZE

Stored(data, n) ==
  LET tail == Slot(head, count)
  IN  [k \in Index |->
         IF Distance(tail, k) < n THEN data[Distance(tail, k) + 1] ELSE buf[k]]

\* The bytes read() copies out.
Copied(n) == [i \in 1 .. n |-> buf[Slot(head, i - 1)]]

\* A writer calls: a short write at most, and None with no reader left.
Write(data) ==
  /\ write_refs > 0
  /\ \/ /\ read_refs = 0
        /\ result' = None
        /\ UNCHANGED ring
     \/ /\ read_refs # 0
        /\ LET n == Least(Len(data), BUF_SIZE - count)
           IN  /\ buf' = Stored(data, n)
               /\ count' = count + n
               /\ result' = Wrote(n)
        /\ UNCHANGED head
  /\ UNCHANGED <<read_refs, write_refs>>

\* A reader calls: what is buffered, up to len bytes; an empty answer is
\* "try again later" while a write end is referenced, None is end of file.
Read(len) ==
  /\ read_refs > 0
  /\ \/ /\ count = 0
        /\ result' = IF write_refs > 0 THEN Got(<<>>) ELSE None
        /\ UNCHANGED ring
     \/ /\ count # 0
        /\ LET n == Least(len, count)
           IN  /\ result' = Got(Copied(n))
               /\ head' = Slot(head, n)
               /\ count' = count - n
        /\ UNCHANGED buf
  /\ UNCHANGED <<read_refs, write_refs>>

-----------------------------------------------------------------------------
(* References.  fork() adds one for each entry it copies; close() and the  *)
(* exit of a process drop one.  With none left at either end the pipe is   *)
(* freed: no guard of this module is true any more.                        *)

\* A process holding the named ends (one entry of each at most) forks.
fork(reads, writes) ==
  /\ reads + writes > 0
  /\ read_refs >= reads /\ write_refs >= writes
  /\ read_refs + reads <= MaxRefs /\ write_refs + writes <= MaxRefs
  /\ read_refs' = read_refs + reads
  /\ write_refs' = write_refs + writes
  /\ UNCHANGED <<ring, result>>

close_read ==
  /\ read_refs > 0
  /\ read_refs' = read_refs - 1
  /\ UNCHANGED <<ring, write_refs, result>>

close_write ==
  /\ write_refs > 0
  /\ write_refs' = write_refs - 1
  /\ UNCHANGED <<ring, read_refs, result>>

Next ==
  \/ \E n \in 0 .. MaxLen : \E data \in [1 .. n -> Byte] : Write(data)
  \/ \E len \in 0 .. MaxLen : Read(len)
  \/ \E reads, writes \in 0 .. 1 : fork(reads, writes)
  \/ close_read
  \/ close_write

Spec == create /\ [][Next]_vars

-----------------------------------------------------------------------------
(* Properties. *)

\* The bytes buffered, oldest first: what the ring stands for.
Contents == Copied(count)

Abstract ==
  INSTANCE Fifo WITH queue <- Contents, Capacity <- BUF_SIZE,
                     readers <- read_refs, writers <- write_refs

\* The ring is a bounded first-in first-out queue: whatever the position of
\* the head, a write that wraps past the end of buf stores no byte over one
\* still unread, every byte comes out once and in the order it went in, a
\* short write reports exactly what it took, and None from read() means that
\* nothing is buffered and no writer is left (pipe.rs:38-68).
ImplementsFifo == Abstract!Spec
=============================================================================
