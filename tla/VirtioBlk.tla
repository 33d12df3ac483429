------------------------------ MODULE VirtioBlk ------------------------------
(***************************************************************************)
(* The virtio disk (drivers/virtio/blk.rs): one synchronous request of three *)
(* buffers at a time.  The device reaches them through the chain alone; it  *)
(* may refuse a request, or return it without having written a status.      *)
(***************************************************************************)
EXTENDS Naturals

CONSTANTS Size, IdxMod, MaxSize, Lbas, Values, Blank, None

VARIABLES q, disk,
          mem,       \* header, status and the caller's buffer
          call,      \* the request in progress, or None
          reply

V == INSTANCE VirtioQueue WITH Request <- {}

vars == <<q, disk, mem, call, reply>>

T_IN == "read"
T_OUT == "write"
Buffer(addr, writable) == [addr |-> addr, device_writable |-> writable]

Init ==
  /\ q = V!NewQueue
  /\ disk = [l \in Lbas |-> Blank]
  /\ mem = [header |-> [kind |-> T_IN, sector |-> 0], data |-> Blank, status |-> 0]
  /\ call = None
  /\ reply = None

Prepared(kind, sector, v) ==
  [mem EXCEPT !.header = [kind |-> kind, sector |-> sector],
              !.data = IF kind = T_OUT THEN v ELSE @,
              !.status = 255]

RequestChain(kind) ==
  << Buffer("header", FALSE), Buffer("data", kind = T_IN), Buffer("status", TRUE) >>

\* request(), up to wait().
request(kind, sector, v) ==
  /\ call = None
  /\ call' = [op |-> kind, lba |-> sector, val |-> v]
  /\ mem' = Prepared(kind, sector, v)
  /\ q' = V!submit_chain(q, RequestChain(kind))
  /\ reply' = None
  /\ UNCHANGED disk

Take == V!HasAvail(q) /\ q' = V!DevTake(q) /\ UNCHANGED <<disk, mem, call, reply>>

\* The device writes only to the buffers marked for it.
Put(b, v) == IF b.device_writable THEN [mem EXCEPT ![b.addr] = v] ELSE mem

\* The device moves the data of the chain at h.
Move(h) ==
  /\ h \in q.taken
  /\ \E b \in {V!Buffers(q, h)} : \E hdr \in {mem[b[1].addr]} :
       IF hdr.kind = T_IN THEN mem' = Put(b[2], disk[hdr.sector]) /\ UNCHANGED disk
       ELSE disk' = [disk EXCEPT ![hdr.sector] = mem[b[2].addr]] /\ UNCHANGED mem
  /\ UNCHANGED <<q, call, reply>>

Moved(h) ==
  LET b == V!Buffers(q, h)
      hdr == mem[b[1].addr]
  IN  mem[b[2].addr] = disk[hdr.sector]

\* ... and ends it: done, refused, or without a status.
Finish(h, status) ==
  /\ h \in q.taken
  /\ status = 0 => Moved(h)
  /\ mem' = IF status = 255 THEN mem ELSE Put(V!Buffers(q, h)[3], status)
  /\ q' = V!DevUse(q, h)
  /\ UNCHANGED <<disk, call, reply>>

\* wait() ends: request() returns whether the status reads 0.
Return ==
  /\ call # None
  /\ V!HasUsed(q)
  /\ q' = V!try_wait(q)
  /\ reply' = [ok |-> mem.status = 0, val |-> mem.data]
  /\ call' = None
  /\ UNCHANGED <<disk, mem>>

Spin == call # None /\ ~V!HasUsed(q) /\ UNCHANGED vars

Next ==
  \/ \E l \in Lbas : request(T_IN, l, Blank) \/ \E v \in Values : request(T_OUT, l, v)
  \/ Take
  \/ \E h \in V!Slots : Move(h) \/ \E status \in {0, 1, 255} : Finish(h, status)
  \/ Return \/ Spin

\* The device ends what it takes; the driver polls until it does.
Fairness ==
  /\ WF_vars(Take) /\ WF_vars(Return)
  /\ \A h \in V!Slots : WF_vars(\E status \in {0, 1, 255} : Finish(h, status))

Spec == Init /\ [][Next]_vars /\ Fairness

-----------------------------------------------------------------------------
(* Properties. *)

\* A request that reports success moved its sector: the status and the data are
\* this request's own and were written before the chain came back
\* (blk.rs:78-98).
Promise == INSTANCE DiskPromise WITH clean <- TRUE, late <- {}
ImplementsDisk == Promise!Init /\ [][Promise!Next({})]_(Promise!vars)
=============================================================================
