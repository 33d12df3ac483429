----------------------------- MODULE NvmeProofs -----------------------------
(***************************************************************************)
(* A proof that the NVMe driver implements DiskPromise, for every size of   *)
(* its queues, every number of command ids, every set of sectors and every  *)
(* sequence of calls, timeouts and late completions.                        *)
(***************************************************************************)
EXTENDS Integers, TLAPS

CONSTANTS QUEUE_ENTRIES, Ids, MaxAbandoned, Lbas, Values, Blank, None

VARIABLES disk, bounce, call, reply, sq, sq_tail, cq, cq_head, phase, next_id, sq_head, cq_tail,
          dev_phase, running, moved, clean

N == INSTANCE Nvme

Calls == [op : {"read", "write"}, lba : Lbas, val : Values]
NvmeCommands == [id : Ids, op : {"read", "write"}, lba : Lbas]

NvmeConstants ==
  /\ QUEUE_ENTRIES \in Nat \ {0}
  /\ N!IdCount \in Nat \ {0} /\ Ids = 0 .. N!IdCount - 1
  /\ Blank \in Values /\ None \notin Calls /\ None \notin NvmeCommands

\* The places of a ring from h up to t.
Filled(h, t) == {i \in N!Slot : IF h <= t THEN h <= i /\ i < t ELSE h <= i \/ i < t}
Queued == Filled(sq_head, sq_tail)
Unread == Filled(cq_head, cq_tail)

NvmeType ==
  /\ disk \in [Lbas -> Values] /\ bounce \in Values /\ call \in Calls \cup {None}
  /\ sq \in [N!Slot -> NvmeCommands \cup {None}] /\ \A i \in Queued : sq[i] \in NvmeCommands
  /\ cq \in [N!Slot -> [id : Ids, status : {0, 1}, phase : {0, 1}]]
  /\ sq_head \in N!Slot /\ sq_tail \in N!Slot /\ cq_head \in N!Slot /\ cq_tail \in N!Slot
  /\ phase \in {0, 1} /\ dev_phase \in {0, 1} /\ next_id \in Ids /\ clean \in BOOLEAN
  /\ running \subseteq NvmeCommands /\ moved \subseteq running

\* The phase bits tell the entries the controller wrote on this turn.
Phases ==
  /\ \A i \in N!Slot : cq[i].phase = IF i < cq_tail THEN dev_phase ELSE 1 - dev_phase
  /\ phase = IF cq_head <= cq_tail THEN dev_phase ELSE 1 - dev_phase

\* Nothing else has the id of a command the controller is not done with.
OneId ==
  /\ \A i, j \in Queued : sq[i].id = sq[j].id => i = j
  /\ \A c, d \in running : c.id = d.id => c = d
  /\ \A i \in Queued, c \in running : sq[i].id # c.id
  /\ \A e \in Unread, i \in Queued : cq[e].id # sq[i].id
  /\ \A e \in Unread, c \in running : cq[e].id # c.id

\* The command of the call in progress, and its data moved.
NvmeCommand == [id |-> N!CurrentId, op |-> call.op, lba |-> call.lba]
NvmeMoved == disk[call.lba] = IF call.op = "write" THEN call.val ELSE bounce

\* What has the id of the call in progress is its command.
Its == call # None => \A c \in N!Unfinished : c.id = N!CurrentId => c = NvmeCommand

\* A call that began with nothing left over meets no command but its own.
NvmeAlone ==
  clean /\ call # None =>
    /\ call.op = "write" => bounce = call.val
    /\ \A c \in N!Unfinished : c.id = N!CurrentId
    /\ \A c \in moved : NvmeMoved
    /\ \A e \in Unread : cq[e].id = N!CurrentId /\ cq[e].status = 0 => NvmeMoved

NvmeInv == NvmeType /\ Phases /\ OneId /\ Its /\ NvmeAlone

(* Reduction modulo n of a number less than n, and of one n past it. *)
LEMMA Wraps ==
  ASSUME NEW n \in Nat \ {0}, NEW d \in 0 .. n - 1
  PROVE  d % n = d /\ (n + d) % n = d
  OBVIOUS

(* The next place of a queue, without the remainder. *)
LEMMA SuccIs ==
  ASSUME QUEUE_ENTRIES \in Nat \ {0}, NEW i \in N!Slot
  PROVE  N!Succ(i) = (IF i + 1 < QUEUE_ENTRIES THEN i + 1 ELSE 0) /\ N!Succ(i) \in N!Slot
<1>1. CASE i + 1 < QUEUE_ENTRIES
  BY <1>1 DEF N!Succ, N!Slot
<1>2. CASE i + 1 = QUEUE_ENTRIES
  BY <1>2 DEF N!Succ, N!Slot
<1> QED
  BY <1>1, <1>2 DEF N!Slot

(* The places a count of entries walks from h are those from h up to t. *)
LEMMA FilledIs ==
  ASSUME QUEUE_ENTRIES \in Nat \ {0}, NEW h \in N!Slot, NEW t \in N!Slot
  PROVE  {(h + k) % QUEUE_ENTRIES : k \in 0 .. ((t + QUEUE_ENTRIES - h) % QUEUE_ENTRIES) - 1}
           = Filled(h, t)
<1> DEFINE len == (t + QUEUE_ENTRIES - h) % QUEUE_ENTRIES
           at(k) == (h + k) % QUEUE_ENTRIES
<1>1. len = IF h <= t THEN t - h ELSE t + QUEUE_ENTRIES - h
  <2>1. CASE h <= t
    <3>1. t - h \in 0 .. QUEUE_ENTRIES - 1 /\ t + QUEUE_ENTRIES - h = QUEUE_ENTRIES + (t - h)
      BY <2>1 DEF N!Slot
    <3>2. (QUEUE_ENTRIES + (t - h)) % QUEUE_ENTRIES = t - h
      BY Zenon, <3>1, Wraps
    <3> QED
      BY Zenon, <2>1, <3>1, <3>2
  <2>2. CASE t < h
    <3>1. t + QUEUE_ENTRIES - h \in 0 .. QUEUE_ENTRIES - 1
      BY <2>2 DEF N!Slot
    <3>2. (t + QUEUE_ENTRIES - h) % QUEUE_ENTRIES = t + QUEUE_ENTRIES - h
      BY Zenon, <3>1, Wraps
    <3>3. ~(h <= t)
      BY <2>2 DEF N!Slot
    <3> QED
      BY Zenon, <3>2, <3>3
  <2> QED
    BY <2>1, <2>2 DEF N!Slot
<1>2. ASSUME NEW k \in 0 .. QUEUE_ENTRIES - 1
      PROVE  at(k) = IF h + k < QUEUE_ENTRIES THEN h + k ELSE h + k - QUEUE_ENTRIES
  <2>1. CASE h + k < QUEUE_ENTRIES
    BY <2>1 DEF N!Slot
  <2>2. CASE h + k >= QUEUE_ENTRIES
    <3>1. h + k - QUEUE_ENTRIES \in 0 .. QUEUE_ENTRIES - 1
      BY <2>2 DEF N!Slot
    <3> QED
      BY <2>2, <3>1 DEF N!Slot
  <2> QED
    BY <2>1, <2>2 DEF N!Slot
<1> HIDE DEF len, at
<1>3. ASSUME NEW k \in 0 .. len - 1 PROVE at(k) \in Filled(h, t)
  <2>1. k \in 0 .. QUEUE_ENTRIES - 1
    BY <1>1 DEF N!Slot
  <2> QED
    BY <1>1, <1>2, <2>1 DEF Filled, N!Slot
<1>4. ASSUME NEW i \in Filled(h, t) PROVE \E k \in 0 .. len - 1 : at(k) = i
  <2> DEFINE k == IF h <= i THEN i - h ELSE i + QUEUE_ENTRIES - h
  <2>1. k \in 0 .. len - 1 /\ k \in 0 .. QUEUE_ENTRIES - 1
    BY <1>1 DEF Filled, N!Slot
  <2>2. at(k) = i
    BY <1>2, <2>1 DEF Filled, N!Slot
  <2> QED
    BY <2>1, <2>2
<1>5. {at(k) : k \in 0 .. len - 1} = Filled(h, t)
  BY <1>3, <1>4
<1> QED
  BY <1>5 DEF len, at

(* An entry more at the tail of a queue that is not full. *)
LEMMA Pushed ==
  ASSUME QUEUE_ENTRIES \in Nat \ {0}, NEW h \in N!Slot, NEW t \in N!Slot, N!Succ(t) # h
  PROVE  Filled(h, N!Succ(t)) = Filled(h, t) \cup {t} /\ t \notin Filled(h, t)
  BY SuccIs DEF Filled, N!Slot

(* An entry less at the head of a queue that is not empty. *)
LEMMA Popped ==
  ASSUME QUEUE_ENTRIES \in Nat \ {0}, NEW h \in N!Slot, NEW t \in N!Slot, h # t
  PROVE  h \in Filled(h, t) /\ Filled(N!Succ(h), t) = Filled(h, t) \ {h}
  BY SuccIs DEF Filled, N!Slot

(* The commands rung in, by their places. *)
LEMMA WaitingIs ==
  ASSUME NvmeConstants, sq_head \in N!Slot, sq_tail \in N!Slot
  PROVE  N!Waiting = {sq[i] : i \in Queued}
<1>1. {(sq_head + k) % QUEUE_ENTRIES :
         k \in 0 .. ((sq_tail + QUEUE_ENTRIES - sq_head) % QUEUE_ENTRIES) - 1} = Queued
  BY FilledIs DEF NvmeConstants, Queued
<1> QED
  BY <1>1 DEF N!Waiting

(* The completions posted and not read, by their places. *)
LEMMA UnreadIs ==
  ASSUME NvmeConstants, cq_head \in N!Slot, cq_tail \in N!Slot
  PROVE  {cq[(cq_head + k) % QUEUE_ENTRIES] :
            k \in 0 .. ((cq_tail + QUEUE_ENTRIES - cq_head) % QUEUE_ENTRIES) - 1}
           = {cq[i] : i \in Unread}
<1>1. {(cq_head + k) % QUEUE_ENTRIES :
         k \in 0 .. ((cq_tail + QUEUE_ENTRIES - cq_head) % QUEUE_ENTRIES) - 1} = Unread
  BY FilledIs DEF NvmeConstants, Unread
<1> QED
  BY <1>1

(* The id before the next one, across the wrap of the ids: that of submit()'s command. *)
LEMMA CurrentIs ==
  ASSUME NvmeConstants, NEW x \in Ids
  PROVE  /\ (x + 1) % N!IdCount \in Ids
         /\ (((x + 1) % N!IdCount) + N!IdCount - 1) % N!IdCount = x
         /\ (x + N!IdCount - 1) % N!IdCount \in Ids
<1> DEFINE n == N!IdCount
<1>1. n \in Nat \ {0} /\ x \in 0 .. n - 1 /\ Ids = 0 .. n - 1
  BY DEF NvmeConstants
<1> HIDE DEF n
<1>2. (x + 1) % n \in 0 .. n - 1 /\ (x + n - 1) % n \in 0 .. n - 1
  BY <1>1
<1>3. CASE x + 1 < n
  <2>1. (x + 1) % n = x + 1
    BY <1>1, <1>3
  <2>2. (x + 1 + n - 1) % n = x
    <3>1. x + 1 + n - 1 = n + x
      BY <1>1
    <3> QED
      BY <1>1, <3>1
  <2> QED
    BY <1>1, <1>2, <2>1, <2>2 DEF n
<1>4. CASE x + 1 = n
  <2>1. (x + 1) % n = 0
    BY <1>1, <1>4
  <2>2. (0 + n - 1) % n = x
    BY <1>1, <1>4
  <2> QED
    BY <1>1, <1>2, <2>1, <2>2 DEF n
<1> QED
  BY <1>1, <1>3, <1>4

(* No command was ever given. *)
LEMMA NvmeInitially == ASSUME NvmeConstants PROVE N!Init => NvmeInv
<1> SUFFICES ASSUME N!Init PROVE NvmeInv
  OBVIOUS
<1>1. 0 \in N!Slot /\ 0 \in Ids
  BY DEF NvmeConstants, N!Slot
<1>2. Queued = {} /\ Unread = {}
  BY <1>1 DEF N!Init, Queued, Unread, Filled, N!Slot
<1>3. NvmeType
  <2>1. cq \in [N!Slot -> [id : Ids, status : {0, 1}, phase : {0, 1}]]
    BY <1>1 DEF N!Init
  <2> QED
    BY <1>1, <1>2, <2>1 DEF N!Init, NvmeType, NvmeConstants
<1>4. Phases
  BY <1>1 DEF N!Init, Phases, N!Slot
<1>5. OneId
  BY <1>2 DEF N!Init, OneId
<1> QED
  BY <1>3, <1>4, <1>5 DEF N!Init, NvmeInv, Its, NvmeAlone

(* The next completion is looked at only if there is one. *)
LEMMA ReadyIs ==
  ASSUME NvmeConstants, NvmeType, Phases
  PROVE  N!Ready <=> cq_head # cq_tail
  BY DEF NvmeConstants, NvmeType, Phases, N!Ready, N!Slot

(* A call rings in a command whose id nothing else has. *)
LEMMA NvmeSubmit ==
  ASSUME NvmeConstants, NvmeInv, NEW op \in {"read", "write"}, NEW l \in Lbas, NEW v \in Values,
         N!submit(op, l, v)
  PROVE  NvmeInv' /\ N!Promise!Begin
<1> DEFINE new == [id |-> next_id, op |-> op, lba |-> l]
<1>0. NvmeType /\ QUEUE_ENTRIES \in Nat \ {0} /\ next_id \in Ids
  BY DEF NvmeInv, NvmeType, NvmeConstants
<1>1. /\ UNCHANGED <<disk, cq_head, phase, cq, sq_head, cq_tail, dev_phase, running, moved>>
      /\ call = None /\ call' = [op |-> op, lba |-> l, val |-> v] /\ reply' = None
      /\ clean' = (N!Unfinished = {}) /\ bounce' = (IF op = "write" THEN v ELSE bounce)
      /\ sq' = [sq EXCEPT ![sq_tail] = new] /\ sq_tail' = N!Succ(sq_tail)
      /\ next_id' = (next_id + 1) % N!IdCount
      /\ N!Succ(sq_tail) # sq_head /\ N!IdFree
  <2>1. UNCHANGED <<disk, cq_head, phase, cq, sq_head, cq_tail, dev_phase, running, moved>>
    BY DEF N!submit, N!dev
  <2>2. call = None /\ N!Succ(sq_tail) # sq_head /\ N!IdFree
    BY DEF N!submit, N!Room
  <2>3. /\ call' = [op |-> op, lba |-> l, val |-> v] /\ reply' = None
        /\ clean' = (N!Unfinished = {}) /\ bounce' = (IF op = "write" THEN v ELSE bounce)
    BY Zenon DEF N!submit
  <2>4. sq_tail' = N!Succ(sq_tail) /\ next_id' = (next_id + 1) % N!IdCount
    BY Zenon DEF N!submit
  <2>5. sq' = [sq EXCEPT ![sq_tail] = new]
    BY DEF N!submit
  <2> HIDE DEF new
  <2> QED
    BY Zenon, <2>1, <2>2, <2>3, <2>4, <2>5
<1>2. call' \in Calls /\ call' # None /\ new \in NvmeCommands /\ new.id = next_id
  BY <1>0, <1>1 DEF Calls, NvmeCommands, NvmeConstants
<1> HIDE DEF new
<1>3. Queued' = Queued \cup {sq_tail} /\ sq_tail \notin Queued /\ sq_tail \in N!Slot
  BY <1>0, <1>1, Pushed DEF Queued, NvmeType
<1>4. sq_tail' \in N!Slot /\ Queued \subseteq N!Slot
  BY <1>0, <1>1, SuccIs DEF NvmeType, Queued, Filled
<1>5. sq'[sq_tail] = new /\ \A i \in Queued : sq'[i] = sq[i] /\ sq[i] \in NvmeCommands
  BY <1>0, <1>1, <1>3, <1>4 DEF NvmeType
<1>6. Unread' = Unread
  BY <1>1 DEF Unread
<1>7. N!Waiting' = N!Waiting \cup {new} /\ N!Waiting = {sq[i] : i \in Queued}
  <2>1. N!Waiting = {sq[i] : i \in Queued}
    BY <1>0, WaitingIs DEF NvmeType
  <2>2. N!Waiting' = {sq'[i] : i \in Queued'}
    <3>1. sq_head' \in N!Slot /\ sq_tail' \in N!Slot
      BY <1>0, <1>1, <1>4 DEF NvmeType
    <3>2. {(sq_head' + k) % QUEUE_ENTRIES :
             k \in 0 .. ((sq_tail' + QUEUE_ENTRIES - sq_head') % QUEUE_ENTRIES) - 1} = Queued'
      BY <1>0, <3>1, FilledIs DEF Queued
    <3> QED
      BY <3>2 DEF N!Waiting
  <2> QED
    BY <1>3, <1>5, <2>1, <2>2
<1>8. N!Unfinished' = N!Unfinished \cup {new}
  BY <1>1, <1>7 DEF N!Unfinished
<1>9. /\ \A i \in Queued : sq[i].id # next_id
      /\ \A c \in running : c.id # next_id
      /\ \A e \in Unread : cq[e].id # next_id
      /\ \A c \in N!Unfinished : c.id # next_id
  <2>1. next_id \notin {c.id : c \in N!Unfinished} \cup {e.id : e \in {cq[i] : i \in Unread}}
    <3>1. {cq[(cq_head + k) % QUEUE_ENTRIES] :
             k \in 0 .. ((cq_tail + QUEUE_ENTRIES - cq_head) % QUEUE_ENTRIES) - 1}
            = {cq[i] : i \in Unread}
      BY Zenon, <1>0, UnreadIs DEF NvmeType
    <3> QED
      BY Zenon, <1>1, <3>1 DEF N!IdFree
  <2> QED
    BY <1>7, <2>1 DEF N!Unfinished
<1>10. N!CurrentId' = next_id /\ next_id' \in Ids
  <2>1. /\ (next_id + 1) % N!IdCount \in Ids
        /\ (((next_id + 1) % N!IdCount) + N!IdCount - 1) % N!IdCount = next_id
    BY <1>0, CurrentIs
  <2> QED
    BY Zenon, <1>1, <2>1 DEF N!CurrentId
<1>11. NvmeType'
  <2>1. sq' \in [N!Slot -> NvmeCommands \cup {None}]
    BY <1>0, <1>1, <1>2 DEF NvmeType
  <2>2. \A i \in Queued' : sq'[i] \in NvmeCommands
    BY <1>2, <1>3, <1>5
  <2>3. bounce' \in Values /\ clean' \in BOOLEAN
    BY <1>0, <1>1 DEF NvmeType
  <2> QED
    BY SMTT(30), <1>0, <1>1, <1>2, <1>4, <1>10, <2>1, <2>2, <2>3 DEF NvmeType
<1>12. Phases'
  BY <1>1 DEF NvmeInv, Phases
<1>13. OneId'
  BY <1>1, <1>2, <1>3, <1>5, <1>6, <1>9 DEF NvmeInv, OneId
<1>14. NvmeCommand' = new
  BY <1>1, <1>10 DEF NvmeCommand, new
<1>15. Its'
  BY <1>8, <1>9, <1>10, <1>14 DEF Its
<1>16. NvmeAlone'
  <2> SUFFICES ASSUME clean' PROVE NvmeAlone'
    BY DEF NvmeAlone
  <2>1. N!Unfinished = {} /\ moved = {}
    BY Zenon, <1>0, <1>1 DEF N!Unfinished, NvmeType
  <2>2. call'.op = "write" => bounce' = call'.val
    BY <1>1
  <2> QED
    BY <1>1, <1>2, <1>6, <1>8, <1>9, <1>10, <2>1, <2>2 DEF NvmeAlone
<1>17. N!Late = N!Unfinished /\ N!Late' = N!Unfinished
  BY <1>1, <1>2, <1>8, <1>9, <1>10 DEF N!Late
<1>18. N!Promise!Begin
  BY <1>1, <1>2, <1>17 DEF N!Promise!Begin, Calls
<1> QED
  BY <1>11, <1>12, <1>13, <1>15, <1>16, <1>18 DEF NvmeInv

(* The controller fetches a command: it is unfinished before and after. *)
LEMMA NvmeFetch ==
  ASSUME NvmeConstants, NvmeInv, N!Fetch
  PROVE  NvmeInv' /\ UNCHANGED N!Promise!vars
<1> DEFINE c == sq[sq_head]
<1>0. NvmeType /\ QUEUE_ENTRIES \in Nat \ {0}
  BY DEF NvmeInv, NvmeConstants
<1>1. /\ UNCHANGED <<disk, bounce, call, reply, clean, sq_tail, cq_head, phase, next_id, cq>>
      /\ UNCHANGED <<cq_tail, dev_phase, moved>>
      /\ sq_head # sq_tail /\ running' = running \cup {c}
      /\ sq' = [sq EXCEPT ![sq_head] = None] /\ sq_head' = N!Succ(sq_head)
  BY DEF N!Fetch
<1>2. Queued' = Queued \ {sq_head} /\ sq_head \in Queued /\ sq_head' \in N!Slot
  BY <1>0, <1>1, Popped, SuccIs DEF Queued, NvmeType
<1>3. c \in NvmeCommands /\ \A i \in Queued' : sq'[i] = sq[i]
  BY <1>0, <1>1, <1>2 DEF NvmeType, Queued, Filled
<1>4. Unread' = Unread
  BY <1>1 DEF Unread
<1>5. N!Waiting = {sq[i] : i \in Queued}
  BY <1>0, WaitingIs DEF NvmeType
<1>6. N!Waiting' = {sq'[i] : i \in Queued'}
  <2>1. {(sq_head' + k) % QUEUE_ENTRIES :
           k \in 0 .. ((sq_tail' + QUEUE_ENTRIES - sq_head') % QUEUE_ENTRIES) - 1} = Queued'
    <3>1. sq_head' \in N!Slot /\ sq_tail' \in N!Slot
      BY <1>0, <1>1, <1>2 DEF NvmeType
    <3> QED
      BY <1>0, <3>1, FilledIs DEF Queued
  <2> QED
    BY <2>1 DEF N!Waiting
<1>7. N!Unfinished' = N!Unfinished
  BY <1>1, <1>2, <1>3, <1>5, <1>6 DEF N!Unfinished
<1>8. N!CurrentId' = N!CurrentId
  BY <1>1 DEF N!CurrentId
<1>9. NvmeType'
  <2>1. sq' \in [N!Slot -> NvmeCommands \cup {None}]
    BY <1>0, <1>1 DEF NvmeType
  <2>2. \A i \in Queued' : sq'[i] \in NvmeCommands
    BY <1>0, <1>2, <1>3 DEF NvmeType
  <2>3. running' \subseteq NvmeCommands /\ moved' \subseteq running'
    BY <1>0, <1>1, <1>3 DEF NvmeType
  <2> QED
    BY <1>0, <1>1, <1>2, <2>1, <2>2, <2>3 DEF NvmeType
<1>10. Phases'
  BY <1>1 DEF NvmeInv, Phases
<1>11. OneId'
  BY <1>1, <1>2, <1>3, <1>4 DEF NvmeInv, OneId
<1>12. Its'
  <2>1. NvmeCommand' = NvmeCommand
    BY <1>1, <1>8 DEF NvmeCommand
  <2> QED
    BY <1>1, <1>7, <1>8, <2>1 DEF NvmeInv, Its
<1>13. NvmeAlone'
  <2>1. NvmeMoved' = NvmeMoved
    BY <1>1 DEF NvmeMoved
  <2> QED
    BY <1>1, <1>4, <1>7, <1>8, <2>1 DEF NvmeInv, NvmeAlone
<1>14. N!Late' = N!Late
  BY <1>1, <1>7, <1>8 DEF N!Late
<1> QED
  BY <1>1, <1>9, <1>10, <1>11, <1>12, <1>13, <1>14 DEF NvmeInv, N!Promise!vars

(* Data moves: that of the call's own command, or that of a late one. *)
LEMMA NvmeDma ==
  ASSUME NvmeConstants, NvmeInv, NEW c \in running, N!Dma(c)
  PROVE  NvmeInv' /\ (N!Promise!Next(Ids) \/ UNCHANGED N!Promise!vars)
<1>0. NvmeType /\ c \in NvmeCommands
  BY DEF NvmeInv, NvmeType
<1>1. /\ UNCHANGED <<call, reply, clean, sq, sq_tail, cq_head, phase, next_id>>
      /\ UNCHANGED <<cq, sq_head, cq_tail, dev_phase, running>>
      /\ moved' = moved \cup {c}
  BY DEF N!Dma, N!drv
<1>2. \/ c.op = "read" /\ bounce' = disk[c.lba] /\ disk' = disk
      \/ c.op = "write" /\ disk' = [disk EXCEPT ![c.lba] = bounce] /\ bounce' = bounce
  BY <1>0 DEF N!Dma, NvmeCommands
<1>3. Queued' = Queued /\ Unread' = Unread /\ N!Unfinished' = N!Unfinished
  BY <1>1 DEF Queued, Unread, N!Unfinished, N!Waiting
<1>4. N!CurrentId' = N!CurrentId /\ N!Late' = N!Late
  BY <1>1, <1>3 DEF N!CurrentId, N!Late
<1>5. c \in N!Unfinished
  BY DEF N!Unfinished
<1>6. disk' \in [Lbas -> Values] /\ bounce' \in Values
  BY <1>0, <1>2 DEF NvmeType, NvmeCommands
<1>7. NvmeType'
  <2>1. moved' \subseteq running'
    BY SMTT(30), <1>0, <1>1 DEF NvmeType
  <2> QED
    BY <1>0, <1>1, <1>3, <1>6, <2>1 DEF NvmeType
<1>8. Phases' /\ OneId'
  BY <1>1, <1>3 DEF NvmeInv, Phases, OneId
<1>9. Its'
  BY <1>1, <1>3, <1>4 DEF NvmeInv, Its, NvmeCommand
<1>10. NvmeAlone'
  <2> SUFFICES ASSUME clean, call # None PROVE NvmeAlone'
    BY <1>1 DEF NvmeAlone
  <2>1. c = NvmeCommand /\ (call.op = "write" => bounce = call.val)
    BY <1>5 DEF NvmeInv, Its, NvmeAlone
  <2>2. c.op = call.op /\ c.lba = call.lba /\ call.lba \in Lbas
    BY <1>0, <2>1 DEF NvmeCommand, NvmeCommands
  <2>3. NvmeMoved' /\ (call'.op = "write" => bounce' = call'.val)
    <3>1. call' = call /\ disk \in [Lbas -> Values]
      BY <1>0, <1>1 DEF NvmeType
    <3>2. CASE c.op = "read" /\ bounce' = disk[c.lba] /\ disk' = disk
      BY <2>2, <3>1, <3>2 DEF NvmeMoved
    <3>3. CASE c.op = "write" /\ disk' = [disk EXCEPT ![c.lba] = bounce] /\ bounce' = bounce
      <4>1. disk'[call.lba] = bounce
        BY <2>2, <3>1, <3>3
      <4> QED
        BY <2>1, <2>2, <3>1, <3>3, <4>1 DEF NvmeMoved
    <3> QED
      BY <1>2, <3>2, <3>3
  <2>4. \A d \in N!Unfinished' : d.id = N!CurrentId'
    BY <1>3, <1>4 DEF NvmeInv, NvmeAlone
  <2> QED
    BY SMTT(30), <2>3, <2>4 DEF NvmeAlone
<1>11. N!Promise!Next(Ids) \/ UNCHANGED N!Promise!vars
  <2>1. CASE c.op = "read" /\ disk' = disk
    BY <1>1, <1>4, <2>1 DEF N!Promise!vars
  <2>2. CASE /\ c.op = "write" /\ disk' = [disk EXCEPT ![c.lba] = bounce]
              /\ call # None /\ c.id = N!CurrentId
    <3>1. c = NvmeCommand
      BY <1>5, <2>2 DEF NvmeInv, Its
    <3>2. call.op = "write" /\ call.lba = c.lba
      BY <2>2, <3>1 DEF NvmeCommand
    <3>3. bounce \in IF clean THEN {call.val} ELSE Values
      BY <1>0, <2>2, <3>2 DEF NvmeInv, NvmeAlone, NvmeType
    <3>4. N!Promise!Land
      BY Zenon, <1>1, <1>4, <2>2, <3>2, <3>3 DEF N!Promise!Land
    <3> QED
      BY <3>4 DEF N!Promise!Next
  <2>3. CASE /\ c.op = "write" /\ disk' = [disk EXCEPT ![c.lba] = bounce]
              /\ ~(call # None /\ c.id = N!CurrentId)
    <3>1. c \in N!Late
      BY <1>5, <2>3 DEF N!Late
    <3>2. N!Promise!LateLand(c)
      BY Zenon, <1>0, <1>1, <1>4, <2>3 DEF N!Promise!LateLand, NvmeType
    <3> QED
      BY <3>1, <3>2 DEF N!Promise!Next
  <2> QED
    BY <1>2, <2>1, <2>2, <2>3
<1> QED
  BY <1>7, <1>8, <1>9, <1>10, <1>11 DEF NvmeInv

(* A command is completed: its entry has this turn's phase, and its id is free. *)
LEMMA NvmeComplete ==
  ASSUME NvmeConstants, NvmeInv, NEW c \in running, NEW status \in {0, 1}, N!Complete(c, status)
  PROVE  NvmeInv' /\ N!Promise!LateEnd
<1> DEFINE e == [id |-> c.id, status |-> status, phase |-> dev_phase]
<1>0. NvmeType /\ QUEUE_ENTRIES \in Nat \ {0} /\ c \in NvmeCommands
  BY DEF NvmeInv, NvmeConstants, NvmeType
<1>1. /\ UNCHANGED <<disk, bounce, call, reply, clean, sq, sq_tail, cq_head, phase, next_id>>
      /\ UNCHANGED sq_head
      /\ N!Succ(cq_tail) # cq_head /\ (status = 0 => c \in moved)
      /\ cq' = [cq EXCEPT ![cq_tail] = e] /\ cq_tail' = N!Succ(cq_tail)
      /\ dev_phase' = (IF cq_tail' = 0 THEN 1 - dev_phase ELSE dev_phase)
      /\ running' = running \ {c} /\ moved' = moved \ {c}
  BY SMTT(30) DEF N!Complete, N!drv
<1>2. Unread' = Unread \cup {cq_tail} /\ cq_tail \notin Unread /\ cq_tail' \in N!Slot
  BY <1>0, <1>1, Pushed, SuccIs DEF Unread, NvmeType
<1>3. /\ cq'[cq_tail].id = c.id /\ cq'[cq_tail].status = status /\ cq'[cq_tail].phase = dev_phase
      /\ \A i \in N!Slot \ {cq_tail} : cq'[i] = cq[i]
      /\ cq_tail \in N!Slot /\ Unread \subseteq N!Slot
  BY <1>0, <1>1 DEF NvmeType, Unread, Filled
<1>4. e \in [id : Ids, status : {0, 1}, phase : {0, 1}]
  BY SMTT(30), <1>0 DEF NvmeType, NvmeCommands
<1> HIDE DEF e
<1>5. Queued' = Queued /\ N!Waiting' = N!Waiting /\ N!CurrentId' = N!CurrentId
  BY <1>1 DEF Queued, N!Waiting, N!CurrentId
<1>6. N!Unfinished' \subseteq N!Unfinished
  BY <1>1, <1>5 DEF N!Unfinished
<1>7. NvmeType'
  <2>1. dev_phase' \in {0, 1}
    BY <1>0, <1>1 DEF NvmeType
  <2>2. cq' \in [N!Slot -> [id : Ids, status : {0, 1}, phase : {0, 1}]]
    BY <1>0, <1>1, <1>4 DEF NvmeType
  <2>3. running' \subseteq NvmeCommands /\ moved' \subseteq running'
    BY <1>0, <1>1 DEF NvmeType
  <2> QED
    BY <1>0, <1>1, <1>2, <1>5, <2>1, <2>2, <2>3 DEF NvmeType
<1>8. Phases'
  <2>1. /\ cq_tail' = IF cq_tail + 1 < QUEUE_ENTRIES THEN cq_tail + 1 ELSE 0
        /\ cq_tail \in 0 .. QUEUE_ENTRIES - 1 /\ cq_head \in 0 .. QUEUE_ENTRIES - 1
        /\ dev_phase \in {0, 1}
    BY SMTT(30), <1>0, <1>1, SuccIs DEF NvmeType, N!Slot
  <2>2. ASSUME NEW i \in N!Slot
        PROVE  cq'[i].phase = IF i < cq_tail' THEN dev_phase' ELSE 1 - dev_phase'
    <3>1. cq[i].phase = IF i < cq_tail THEN dev_phase ELSE 1 - dev_phase
      BY DEF NvmeInv, Phases
    <3>2. cq'[i].phase = IF i = cq_tail THEN dev_phase ELSE cq[i].phase
      BY <1>3
    <3> QED
      BY <1>0, <1>1, <2>1, <3>1, <3>2 DEF N!Slot
  <2>3. phase' = IF cq_head' <= cq_tail' THEN dev_phase' ELSE 1 - dev_phase'
    BY <1>0, <1>1, <2>1 DEF NvmeInv, Phases
  <2> QED
    BY <2>2, <2>3 DEF Phases
<1>9. OneId'
  <2>1. ASSUME NEW d \in running' PROVE d \in running /\ d.id # c.id
    BY <1>1 DEF NvmeInv, OneId
  <2>2. ASSUME NEW i \in Unread' PROVE (i \in Unread /\ cq'[i] = cq[i]) \/ cq'[i].id = c.id
    BY <1>2, <1>3
  <2> QED
    BY SMTT(30), <1>1, <1>5, <2>1, <2>2 DEF NvmeInv, OneId
<1>10. Its'
  BY <1>1, <1>5, <1>6 DEF NvmeInv, Its, NvmeCommand
<1>11. NvmeAlone'
  <2> SUFFICES ASSUME clean, call # None PROVE NvmeAlone'
    BY SMTT(30), <1>1 DEF NvmeAlone
  <2>1. NvmeMoved' = NvmeMoved
    BY <1>1 DEF NvmeMoved
  <2>2. \A d \in N!Unfinished' : d.id = N!CurrentId'
    BY <1>5, <1>6 DEF NvmeInv, NvmeAlone
  <2>3. \A d \in moved' : NvmeMoved'
    BY SMTT(30), <1>1, <2>1 DEF NvmeInv, NvmeAlone
  <2>4. ASSUME NEW i \in Unread', cq'[i].status = 0, cq'[i].id = N!CurrentId PROVE NvmeMoved'
    BY <1>1, <1>2, <1>3, <2>1, <2>4 DEF NvmeInv, NvmeAlone
  <2> QED
    BY SMTT(30), <1>1, <1>5, <2>2, <2>3, <2>4 DEF NvmeInv, NvmeAlone
<1>12. N!Promise!LateEnd
  BY <1>1, <1>5, <1>6 DEF N!Promise!LateEnd, N!Late
<1> QED
  BY <1>7, <1>8, <1>9, <1>10, <1>11, <1>12 DEF NvmeInv

(* The driver reads a completion entry: it ends the call if it has its id. *)
LEMMA NvmePolled ==
  ASSUME NvmeConstants, NvmeInv, N!Polled
  PROVE  NvmeInv' /\ (N!Promise!Next(Ids) \/ UNCHANGED N!Promise!vars)
<1> DEFINE e == cq[cq_head]
<1>0. NvmeType /\ QUEUE_ENTRIES \in Nat \ {0} /\ cq_head # cq_tail
  BY ReadyIs DEF NvmeInv, NvmeConstants, N!Polled
<1>1. /\ UNCHANGED <<disk, bounce, clean, sq, sq_tail, next_id, sq_head, cq_tail, dev_phase>>
      /\ UNCHANGED <<running, moved>>
      /\ call # None /\ cq_head' = N!Succ(cq_head)
      /\ cq' = [cq EXCEPT ![cq_head] = [id |-> 0, status |-> 0, phase |-> @.phase]]
      /\ phase' = (IF cq_head' = 0 THEN 1 - phase ELSE phase)
  BY DEF N!Polled, N!Advance, N!Read
<1>2. \/ /\ e.id = N!CurrentId /\ call' = None
         /\ reply' = [ok |-> (e.status = 0), val |-> N!Got(e.status = 0)]
      \/ e.id # N!CurrentId /\ UNCHANGED <<reply, call>>
  BY SMTT(30) DEF N!Polled, N!Own
<1>3. Unread' = Unread \ {cq_head} /\ cq_head \in Unread /\ cq_head' \in N!Slot
  BY <1>0, <1>1, Popped, SuccIs DEF Unread, NvmeType
<1>4. Queued' = Queued /\ N!Unfinished' = N!Unfinished /\ N!CurrentId' = N!CurrentId
  BY SMTT(30), <1>1 DEF Queued, N!Unfinished, N!Waiting, N!CurrentId
<1>5. /\ \A i \in N!Slot : cq'[i].phase = cq[i].phase
      /\ \A i \in Unread' : cq'[i] = cq[i]
  BY <1>0, <1>1, <1>3 DEF NvmeType, Unread, Filled
<1>6. call' \in Calls \cup {None} /\ (call' # None => call' = call)
  BY SMTT(30), <1>0, <1>2 DEF NvmeType
<1>7. NvmeType'
  <2>1. cq' \in [N!Slot -> [id : Ids, status : {0, 1}, phase : {0, 1}]]
    <3>1. 0 \in Ids /\ e.phase \in {0, 1}
      BY SMTT(30), <1>0 DEF NvmeConstants, NvmeType
    <3> QED
      BY <1>0, <1>1, <3>1 DEF NvmeType
  <2>2. phase' \in {0, 1}
    BY <1>0, <1>1 DEF NvmeType
  <2> QED
    BY <1>0, <1>1, <1>3, <1>4, <1>6, <2>1, <2>2 DEF NvmeType
<1>8. Phases'
  <2>1. /\ cq_head' = IF cq_head + 1 < QUEUE_ENTRIES THEN cq_head + 1 ELSE 0
        /\ cq_tail \in 0 .. QUEUE_ENTRIES - 1 /\ cq_head \in 0 .. QUEUE_ENTRIES - 1
        /\ dev_phase \in {0, 1}
    BY Zenon, <1>0, <1>1, SuccIs DEF NvmeType, N!Slot
  <2>2. phase' = IF cq_head' <= cq_tail' THEN dev_phase' ELSE 1 - dev_phase'
    BY <1>0, <1>1, <2>1 DEF NvmeInv, Phases
  <2> QED
    BY <1>1, <1>5, <2>2 DEF NvmeInv, Phases
<1>9. OneId'
  BY <1>1, <1>3, <1>4, <1>5 DEF NvmeInv, OneId
<1>10. Its'
  BY <1>4, <1>6 DEF NvmeInv, Its, NvmeCommand
<1>11. NvmeAlone'
  <2> SUFFICES ASSUME clean', call' # None PROVE NvmeAlone'
    BY DEF NvmeAlone
  <2>1. clean /\ call # None /\ call' = call
    BY <1>1, <1>6
  <2>2. NvmeMoved' = NvmeMoved
    BY SMTT(30), <1>1, <2>1 DEF NvmeMoved
  <2> QED
    BY <1>1, <1>3, <1>4, <1>5, <2>1, <2>2 DEF NvmeInv, NvmeAlone
<1>12. N!Promise!Next(Ids) \/ UNCHANGED N!Promise!vars
  <2>1. CASE e.id # N!CurrentId /\ UNCHANGED <<reply, call>>
    BY <1>1, <1>4, <2>1 DEF N!Promise!vars, N!Late
  <2>2. CASE /\ e.id = N!CurrentId /\ call' = None
             /\ reply' = [ok |-> (e.status = 0), val |-> N!Got(e.status = 0)]
    <3>1. \A c \in N!Unfinished : c.id # N!CurrentId
      <4>1. N!Waiting = {sq[i] : i \in Queued}
        BY SMTT(30), <1>0, WaitingIs DEF NvmeType
      <4> QED
        BY SMTT(30), <1>3, <2>2, <4>1 DEF NvmeInv, OneId, N!Unfinished
    <3>2. N!Late' = N!Late
      BY <1>4, <2>2, <3>1 DEF N!Late
    <3>3. CASE e.status = 0
      <4>1. reply' = [ok |-> TRUE, val |-> IF call.op = "read" THEN bounce ELSE Blank]
        BY Zenon, <2>2, <3>3 DEF N!Got
      <4>2. reply' \in [ok : {TRUE}, val : Values]
        BY <1>0, <4>1 DEF NvmeType, NvmeConstants
      <4>3. clean => NvmeMoved
        BY SMTT(30), <1>1, <1>3, <2>2, <3>3 DEF NvmeInv, NvmeAlone
      <4>4. call.op \in {"read", "write"}
        BY <1>0, <1>1 DEF NvmeType, Calls
      <4>5. clean => disk[call.lba] = IF call.op = "write" THEN call.val ELSE reply'.val
        BY <4>1, <4>3, <4>4 DEF NvmeMoved
      <4>6. N!Promise!Succeed
        BY Zenon, <1>1, <2>2, <3>2, <4>2, <4>5 DEF N!Promise!Succeed
      <4> QED
        BY <4>6 DEF N!Promise!Next
    <3>4. CASE e.status # 0
      <4>1. reply' = [ok |-> FALSE, val |-> Blank]
        BY Zenon, <2>2, <3>4 DEF N!Got
      <4>2. reply' \in [ok : {FALSE}, val : Values]
        BY <4>1 DEF NvmeConstants
      <4>3. N!Promise!Fail
        BY Zenon, <1>1, <2>2, <3>2, <4>2 DEF N!Promise!Fail
      <4> QED
        BY <4>3 DEF N!Promise!Next
    <3> QED
      BY SMTT(30), <3>3, <3>4
  <2> QED
    BY <1>2, <2>1, <2>2
<1> QED
  BY <1>7, <1>8, <1>9, <1>10, <1>11, <1>12 DEF NvmeInv

(* The driver gives up: a command still with the controller is late from now on. *)
LEMMA NvmeTimeOut ==
  ASSUME NvmeConstants, NvmeInv, N!TimeOut
  PROVE  NvmeInv' /\ N!Promise!Next(Ids)
<1>0. NvmeType /\ QUEUE_ENTRIES \in Nat \ {0} /\ N!CurrentId \in Ids
  <2>1. NvmeType /\ QUEUE_ENTRIES \in Nat \ {0} /\ next_id \in Ids
    BY DEF NvmeInv, NvmeConstants, NvmeType
  <2> QED
    BY <2>1, CurrentIs DEF N!CurrentId
<1>1. /\ UNCHANGED <<disk, bounce, clean, sq, sq_tail, cq_head, phase, next_id>>
      /\ UNCHANGED <<cq, sq_head, cq_tail, dev_phase, running, moved>>
      /\ call # None /\ call' = None /\ reply' = [ok |-> FALSE, val |-> Blank]
  BY DEF N!TimeOut, N!drv, N!dev
<1>2. Queued' = Queued /\ Unread' = Unread /\ N!Unfinished' = N!Unfinished
  BY SMTT(30), <1>1 DEF Queued, Unread, N!Unfinished, N!Waiting
<1>3. NvmeType'
  BY SMTT(30), <1>0, <1>1, <1>2 DEF NvmeType
<1>4. Phases' /\ OneId'
  BY SMTT(30), <1>1, <1>2 DEF NvmeInv, Phases, OneId
<1>5. Its' /\ NvmeAlone'
  BY <1>1 DEF Its, NvmeAlone
<1>6. N!Late' = N!Unfinished /\ reply' \in [ok : {FALSE}, val : Values]
  BY <1>1, <1>2 DEF N!Late, NvmeConstants
<1>7. N!Promise!Next(Ids)
  <2>1. CASE \E c \in N!Unfinished : c.id = N!CurrentId
    <3>1. NvmeCommand \in N!Unfinished
      BY <1>1, <2>1 DEF NvmeInv, Its
    <3>2. N!Unfinished = N!Late \cup {NvmeCommand}
      BY SMTT(30), <1>1, <3>1 DEF NvmeInv, Its, N!Late
    <3>3. N!Promise!GiveUp(N!CurrentId)
      BY <1>1, <1>6, <3>2 DEF N!Promise!GiveUp, NvmeCommand
    <3> QED
      BY <1>0, <3>3 DEF N!Promise!Next
  <2>2. CASE \A c \in N!Unfinished : c.id # N!CurrentId
    <3>1. N!Late = N!Unfinished
      BY SMTT(30), <2>2 DEF N!Late
    <3>2. N!Promise!Fail
      BY <1>1, <1>6, <3>1 DEF N!Promise!Fail
    <3> QED
      BY <3>2 DEF N!Promise!Next
  <2> QED
    BY <2>1, <2>2
<1> QED
  BY <1>3, <1>4, <1>5, <1>7 DEF NvmeInv

(* Every step of the driver and the controller is a step the promise allows. *)
LEMMA NvmeStep ==
  ASSUME NvmeConstants, NvmeInv, [N!Next]_(N!vars)
  PROVE  NvmeInv' /\ [N!Promise!Next(Ids)]_(N!Promise!vars)
<1>1. CASE UNCHANGED N!vars
  <2>1. /\ UNCHANGED <<disk, bounce, call, reply, clean, sq, sq_tail, cq_head, phase, next_id>>
        /\ UNCHANGED <<cq, sq_head, cq_tail, dev_phase, running, moved>>
    BY <1>1 DEF N!vars, N!drv, N!dev
  <2>2. /\ Queued' = Queued /\ Unread' = Unread /\ N!Unfinished' = N!Unfinished
        /\ N!CurrentId' = N!CurrentId
    BY SMTT(30), <2>1 DEF Queued, Unread, N!Unfinished, N!Waiting, N!CurrentId
  <2>3. NvmeType' /\ Phases' /\ OneId'
    BY SMTT(30), <2>1, <2>2 DEF NvmeInv, NvmeType, Phases, OneId
  <2>4. Its' /\ NvmeAlone'
    BY <2>1, <2>2 DEF NvmeInv, Its, NvmeAlone, NvmeCommand, NvmeMoved
  <2> QED
    BY <2>1, <2>2, <2>3, <2>4 DEF NvmeInv, N!Promise!vars, N!Late
<1>2. ASSUME NEW op \in {"read", "write"}, NEW l \in Lbas, NEW v \in Values, N!submit(op, l, v)
      PROVE  NvmeInv' /\ [N!Promise!Next(Ids)]_(N!Promise!vars)
  BY <1>2, NvmeSubmit DEF N!Promise!Next
<1>3. CASE N!Polled
  BY <1>3, NvmePolled
<1>4. CASE N!TimeOut
  BY <1>4, NvmeTimeOut
<1>5. CASE N!Fetch
  BY <1>5, NvmeFetch
<1>6. ASSUME NEW c \in running, N!Dma(c) \/ \E status \in {0, 1} : N!Complete(c, status)
      PROVE  NvmeInv' /\ [N!Promise!Next(Ids)]_(N!Promise!vars)
  BY <1>6, NvmeDma, NvmeComplete DEF N!Promise!Next
<1> QED
  BY <1>1, <1>2, <1>3, <1>4, <1>5, <1>6 DEF N!Next, N!Idle, NvmeConstants

(* Whatever the controller does with commands the driver gave up on, and wherever the
   queues and the ids wrap, every step is one of DiskPromise's or changes nothing of it: a
   call that succeeds with no late command left moved its sector, and no sector changes but
   those some unfinished write addresses (nvme.rs:131-165). *)
THEOREM NvmeImplementsDisk ==
  ASSUME NvmeConstants
  PROVE  N!Spec => N!ImplementsDisk
<1>1. N!Init => NvmeInv /\ N!Promise!Init
  <2> SUFFICES ASSUME N!Init PROVE NvmeInv /\ N!Promise!Init
    OBVIOUS
  <2>1. NvmeInv
    BY NvmeInitially
  <2>2. N!Late = {}
    <3>1. N!Waiting = {sq[i] : i \in Queued}
      BY <2>1, WaitingIs DEF NvmeInv, NvmeType
    <3>2. Queued = {}
      BY DEF N!Init, Queued, Filled, N!Slot
    <3> QED
      BY SMTT(30), <3>1, <3>2 DEF N!Init, N!Late, N!Unfinished
  <2> QED
    BY <2>1, <2>2 DEF N!Init, N!Promise!Init
<1>2. NvmeInv /\ [N!Next]_(N!vars) => NvmeInv' /\ [N!Promise!Next(Ids)]_(N!Promise!vars)
  BY NvmeStep
<1> QED
  BY <1>1, <1>2, PTL DEF N!Spec, N!ImplementsDisk
=============================================================================
