----------------------------- MODULE MCDrivers ------------------------------
(***************************************************************************)
(* Physical pages, and the disk and sound drivers over their devices. They  *)
(* share no state here, so a behaviour is one of theirs: part says whose,   *)
(* and the rest stand still. The PMM has nine pages: page 0 usable, as on a *)
(* real PC, in a region too short for the two pages of bitmap; a page the   *)
(* boot loader keeps; the bitmap, then five free pages, in the second usable*)
(* region.                                                                  *)
(***************************************************************************)
EXTENDS Pmm, DriverProofs

CONSTANT Parts       \* the parts looked at

CONSTANTS Size, IdxMod, MaxSize, QUEUE_ENTRIES, Ids, MaxAbandoned

\* What the proofs ask of the constants.
ASSUME DriverConstants ==
  /\ HdaConstants
  /\ DiskConstants
  /\ QUEUE_ENTRIES \in Nat \ {0} /\ Ids # {} /\ Ids = 0 .. Cardinality(Ids) - 1
  /\ None \notin [id : Ids, op : {"read", "write"}, lba : Lbas]

MemoryMap == << [kind |-> "usable", base |-> 0, length |-> 1],
                [kind |-> "reclaimable", base |-> 1, length |-> 1],
                [kind |-> "usable", base |-> 2, length |-> 7] >>
MCTotal == TotalOf(MemoryMap)
MCUsable == UsableOf(MemoryMap)
MCBitmapPages == BitmapOf(MemoryMap, 6)

VARIABLES part, q, blk_disk, mem, blk_call, blk_reply, nvme_disk, nvme_bounce, nvme_call,
          nvme_reply, sq, sq_tail, cq, cq_head, phase, next_id, sq_head, cq_tail, dev_phase,
          nvme_running, nvme_moved, nvme_clean

B == INSTANCE VirtioBlk WITH disk <- blk_disk, call <- blk_call, reply <- blk_reply
N == INSTANCE Nvme WITH disk <- nvme_disk, bounce <- nvme_bounce, call <- nvme_call,
  reply <- nvme_reply, running <- nvme_running, moved <- nvme_moved, clean <- nvme_clean

blk_vars == <<q, blk_disk, mem, blk_call, blk_reply>>
nvme_vars == <<nvme_disk, nvme_bounce, nvme_call, nvme_reply, sq, sq_tail, cq, cq_head, phase,
               next_id, sq_head, cq_tail, dev_phase, nvme_running, nvme_moved, nvme_clean>>
ahci_vars == <<disk, bounce, call, reply, clean, id, table, ci, tfes, err, busy, moved, halted,
               ahci_pc>>
hda_vars == <<ring, written, played, last_lpib, running, open, lpib, hung, hda_pc, todo,
              closing, samples, heard, ticks, away, underrun>>

MCInit ==
  /\ part \in Parts
  /\ init
  /\ B!Init
  /\ N!Init
  /\ A!Init
  /\ H!Init

MCNext ==
  /\ UNCHANGED part
  /\ IF part = "pmm" THEN Next ELSE UNCHANGED vars
  /\ IF part = "blk" THEN B!Next ELSE UNCHANGED blk_vars
  /\ IF part = "nvme" THEN N!Next ELSE UNCHANGED nvme_vars
  /\ IF part = "ahci" THEN A!Next ELSE UNCHANGED ahci_vars
  /\ IF part = "hda" THEN H!Next ELSE UNCHANGED hda_vars

MCVars == <<part, vars, blk_vars, nvme_vars, ahci_vars, hda_vars>>

Fairness ==
  /\ WF_blk_vars(part = "blk" /\ B!Take)
  /\ WF_blk_vars(part = "blk" /\ B!Return)
  /\ \A h \in B!V!Slots : WF_blk_vars(part = "blk" /\ \E status \in {0, 1, 255} : B!Finish(h, status))
  /\ WF_nvme_vars(part = "nvme" /\ N!Polled)
  /\ WF_nvme_vars(part = "nvme" /\ N!TimeOut)
  /\ WF_ahci_vars(part = "ahci" /\ (A!WaitClear \/ A!StaysBusy))
  /\ WF_ahci_vars(part = "ahci" /\ A!Build)
  /\ WF_ahci_vars(part = "ahci" /\ A!Issue)
  /\ WF_ahci_vars(part = "ahci" /\ (A!Polled \/ A!TimeOut))
  /\ WF_hda_vars(part = "hda" /\ (H!Tick \/ H!Hang))
  /\ WF_hda_vars(part = "hda" /\ (H!Update \/ H!Put \/ H!Drain))
  /\ SF_hda_vars(part = "hda" /\ H!Stall)
  /\ WF_hda_vars(part = "hda" /\ H!DrainTimeout)

MCSpec == MCInit /\ [][MCNext]_MCVars /\ Fairness

-----------------------------------------------------------------------------
(* The properties of the parts, under the names the run reports them by.     *)

\* The disk drivers keep the promise of every disk: a call that succeeds moved its
\* sector. virtio-blk has no command but the one waited for (blk.rs:78-98); the late
\* completion of an NVMe command given up is nobody else's (nvme.rs:131-165); an AHCI
\* command that timed out keeps slot, table and buffer (ahci.rs:108-175).
DisksKeepPromise ==
  /\ B!Promise!Init /\ [][B!Promise!Next({})]_(B!Promise!vars)
  /\ N!Promise!Init /\ [][N!Promise!Next(Ids)]_(N!Promise!vars)
  /\ A!Promise!Init /\ [][A!Promise!Next(A!CommandIds)]_(A!Promise!vars)

\* Every call of a disk driver or of the sound driver returns: virtio-blk's when the
\* device ends what it takes (virtio/mod.rs:384-391); NVMe's, AHCI's and HDA's also
\* when the device never answers, by their deadlines (nvme.rs:143-163,
\* ahci.rs:110-154, hda.rs:753-797).
InCall == blk_call # None \/ nvme_call # None \/ call # None \/ hda_pc # "idle"
CallsReturn == InCall ~> ~InCall

\* A writer that falls behind is heard as silence, not as old sound (hda.rs:628-630).
NoReplay == H!NoReplay
=============================================================================
