-------------------------------- MODULE Ahci --------------------------------
(***************************************************************************)
(* A SATA disk behind AHCI (drivers/ahci.rs): one command slot, polled with *)
(* a timeout.  A command that timed out stays issued: the next one is built *)
(* over it, in the same table and the same bounce buffer.                   *)
(***************************************************************************)
EXTENDS Naturals

CONSTANTS Lbas, Values, Blank, None

VARIABLES disk, bounce, call, reply, clean,
          pc,             \* where run() is: "check", "build", "issue", "poll", "idle"
          id,             \* of the current or the last command: 0 or 1
          table,          \* the command table: [id, op, lba]
          ci, tfes, err,  \* PX_CI bit 0, PX_IS task file error, PX_TFD error
          busy,           \* the command the drive is at (PX_TFD busy), or None
          moved,          \* its data has moved
          halted          \* the controller stopped at an error and takes nothing more

caller == <<call, reply, clean, pc, id>>
port == <<table, ci, tfes, err, busy, moved, halted>>
vars == <<disk, bounce, caller, port>>

CommandIds == {0, 1}

Init ==
  /\ disk = [l \in Lbas |-> Blank] /\ bounce = Blank
  /\ call = None /\ reply = None /\ clean = TRUE
  /\ pc = "idle" /\ id = 0 /\ table = None
  /\ ci = FALSE /\ tfes = FALSE /\ err = FALSE
  /\ busy = None /\ moved = FALSE /\ halted = FALSE

-----------------------------------------------------------------------------
(* The controller and the drive. *)

Unfinished == ({busy} \ {None}) \cup IF ci /\ ~halted THEN {table} ELSE {}
Late == {c \in Unfinished : call = None \/ pc \in {"check", "build"} \/ c.id # id}

Fetch ==
  /\ ci /\ busy = None /\ ~halted
  /\ busy' = table /\ moved' = FALSE /\ err' = FALSE
  /\ UNCHANGED <<disk, bounce, caller, table, ci, tfes, halted>>

Dma ==
  /\ busy # None /\ ~moved
  /\ moved' = TRUE
  /\ IF busy.op = "read" THEN bounce' = disk[busy.lba] /\ UNCHANGED disk
     ELSE disk' = [disk EXCEPT ![busy.lba] = bounce] /\ UNCHANGED bounce
  /\ UNCHANGED <<caller, table, ci, tfes, err, busy, halted>>

Finish ==
  /\ moved /\ busy # None
  /\ busy' = None /\ ci' = FALSE /\ moved' = FALSE
  /\ UNCHANGED <<disk, bounce, caller, table, tfes, err, halted>>

\* A task file error: the command is over, and some controllers take no other
\* before their engine is restarted, which run() does not do.
TaskError(stop) ==
  /\ busy # None
  /\ busy' = None /\ moved' = FALSE /\ tfes' = TRUE /\ err' = TRUE
  /\ halted' = stop /\ ci' = stop
  /\ UNCHANGED <<disk, bounce, caller, table>>

-----------------------------------------------------------------------------
(* The driver. *)

\* read() or write() up to run(): the bounce buffer is filled first.
Begin(op, lba, val) ==
  /\ pc = "idle"
  /\ call' = [op |-> op, lba |-> lba, val |-> val]
  /\ reply' = None /\ pc' = "check"
  /\ clean' = (Unfinished = {})
  /\ bounce' = IF op = "write" THEN val ELSE bounce
  /\ UNCHANGED <<disk, id, port>>

Return(ok) ==
  /\ reply' = [ok |-> ok, val |-> IF ok /\ call.op = "read" THEN bounce ELSE Blank]
  /\ call' = None /\ pc' = "idle"
  /\ UNCHANGED <<disk, bounce, clean, id, port>>

WaitClear ==
  /\ pc = "check" /\ busy = None
  /\ pc' = "build"
  /\ UNCHANGED <<disk, bounce, call, reply, clean, id, port>>
StaysBusy == pc = "check" /\ busy # None /\ Return(FALSE)

Build ==
  /\ pc = "build"
  /\ id' = 1 - id
  /\ table' = [id |-> id', op |-> call.op, lba |-> call.lba]
  /\ pc' = "issue"
  /\ UNCHANGED <<disk, bounce, call, reply, clean, ci, tfes, err, busy, moved, halted>>

\* PX_IS is cleared and PX_CI set.
Issue ==
  /\ pc = "issue"
  /\ tfes' = FALSE /\ ci' = TRUE /\ pc' = "poll"
  /\ UNCHANGED <<disk, bounce, call, reply, clean, id, table, err, busy, moved, halted>>

\* Mutant: the clock is not looked at.
NoDeadline == FALSE

Polled == pc = "poll" /\ (tfes \/ ~ci) /\ Return(~tfes /\ ~err)
TimeOut == pc = "poll" /\ ~tfes /\ ci /\ Return(FALSE)
Spin == pc = "poll" /\ ~tfes /\ ci /\ UNCHANGED vars

Next ==
  \/ \E l \in Lbas : Begin("read", l, Blank) \/ \E v \in Values : Begin("write", l, v)
  \/ WaitClear \/ StaysBusy \/ Build \/ Issue \/ Polled \/ TimeOut \/ Spin
  \/ Fetch \/ Dma \/ Finish \/ \E stop \in BOOLEAN : TaskError(stop)

\* The driver's polls and its clock go on; the controller may do nothing.
Fairness == WF_vars(WaitClear \/ StaysBusy) /\ WF_vars(Build) /\ WF_vars(Issue)
            /\ WF_vars(Polled \/ TimeOut)

Spec == Init /\ [][Next]_vars /\ Fairness

-----------------------------------------------------------------------------
(* Properties. *)

\* With nothing left over from a call that gave up, a call that succeeds moved
\* its sector; what is left over can change no sector but its own, though its
\* table and its buffer are rebuilt under it (ahci.rs:108-175).
Promise == INSTANCE DiskPromise WITH late <- Late
ImplementsDisk == Promise!Init /\ [][Promise!Next(CommandIds)]_(Promise!vars)
=============================================================================
