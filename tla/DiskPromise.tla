----------------------------- MODULE DiskPromise -----------------------------
(***************************************************************************)
(* What a disk driver promises its callers, one call at a time: a call that *)
(* succeeds moved the sector's data.  A driver that gives up on a command   *)
(* leaves it with the disk, which may still carry it out: until the disk is *)
(* done with every such late command, only this much is promised, that no   *)
(* sector changes but those that some unfinished write addresses.           *)
(***************************************************************************)
CONSTANTS Lbas, Values, Blank, None

VARIABLES disk,     \* the medium
          call,     \* the call in progress: [op, lba, val], or None
          clean,    \* no late command was left when it began
          late,     \* commands given up: [id, op, lba]
          reply     \* what the last call returned: [ok, val]

vars == <<disk, call, clean, late, reply>>

Init ==
  /\ disk = [l \in Lbas |-> Blank]
  /\ call = None
  /\ clean = TRUE
  /\ late = {}
  /\ reply = None

Begin ==
  /\ call = None
  /\ call' \in [op : {"read", "write"}, lba : Lbas, val : Values]
  /\ clean' = (late = {})
  /\ reply' = None
  /\ UNCHANGED <<disk, late>>

\* The data of the write in progress reaches the medium.
Land ==
  /\ call # None
  /\ call.op = "write"
  /\ \E v \in IF clean THEN {call.val} ELSE Values : disk' = [disk EXCEPT ![call.lba] = v]
  /\ UNCHANGED <<call, clean, late, reply>>

Succeed ==
  /\ call # None
  /\ reply' \in [ok : {TRUE}, val : Values]
  /\ clean => disk[call.lba] = IF call.op = "write" THEN call.val ELSE reply'.val
  /\ call' = None
  /\ UNCHANGED <<disk, clean, late>>

\* The disk refused the command, or was found busy.
Fail ==
  /\ call # None
  /\ reply' \in [ok : {FALSE}, val : Values]
  /\ call' = None
  /\ UNCHANGED <<disk, clean, late>>

GiveUp(id) ==
  /\ call # None
  /\ reply' \in [ok : {FALSE}, val : Values]
  /\ late' = late \cup {[id |-> id, op |-> call.op, lba |-> call.lba]}
  /\ call' = None
  /\ UNCHANGED <<disk, clean>>

LateLand(c) ==
  /\ c.op = "write"
  /\ \E v \in Values : disk' = [disk EXCEPT ![c.lba] = v]
  /\ UNCHANGED <<call, clean, late, reply>>

\* The disk is done with late commands, or lost them.
LateEnd ==
  /\ late' \in SUBSET late
  /\ UNCHANGED <<disk, call, clean, reply>>

Next(Ids) ==
  \/ Begin \/ Land \/ Succeed \/ Fail
  \/ \E id \in Ids : GiveUp(id)
  \/ \E c \in late : LateLand(c)
  \/ LateEnd
=============================================================================
