--------------------------- MODULE ProcessProofs ---------------------------
(***************************************************************************)
(* Proofs about Process, for every number of slots, pids and images: the   *)
(* steps of the program on the CPU and of the kernel shell, then the loop  *)
(* of run_until(), keep SchedulerInv, so SchedulerInv is an invariant, and *)
(* the safety properties follow from it.                                   *)
(***************************************************************************)
EXTENDS Process, TLAPS

USE DEF Slots, OnCpu, Accounted

----------------------------------------------------------------------------
(* The stack of activations.                                               *)

\* The innermost activation, outside the kernel shell.
LEMMA TopFacts ==
    ASSUME SchedulerInv, mode # "kernel"
    PROVE  /\ Len(frames) \in Nat \ {0}
           /\ Top \in FrameRecord
           /\ \A k \in 1 .. Len(frames) : frames[k] \in FrameRecord
<1>1. frames \in Seq(FrameRecord)
  BY DEF SchedulerInv, TypeOK
<1>2. Len(frames) \in Nat \ {0}
  BY <1>1 DEF SchedulerInv, StackInv
<1>. QED
  BY <1>1, <1>2 DEF Top

\* Replacing the last element of a sequence.
LEMMA ReplaceLast ==
    ASSUME NEW S, NEW s \in Seq(S), Len(s) # 0, NEW e \in S
    PROVE  /\ [s EXCEPT ![Len(s)] = e] \in Seq(S)
           /\ Len([s EXCEPT ![Len(s)] = e]) = Len(s)
           /\ \A k \in 1 .. Len(s) :
                [s EXCEPT ![Len(s)] = e][k] = IF k = Len(s) THEN e ELSE s[k]
<1>1. Len(s) \in 1 .. Len(s)
  OBVIOUS
<1>. QED
  BY <1>1

\* A prefix of a sequence.
LEMMA PrefixFacts ==
    ASSUME NEW S, NEW s \in Seq(S), NEW n \in 0 .. Len(s)
    PROVE  /\ SubSeq(s, 1, n) \in Seq(S)
           /\ Len(SubSeq(s, 1, n)) = n
           /\ \A k \in 1 .. n : SubSeq(s, 1, n)[k] = s[k]
           /\ n = Len(s) => SubSeq(s, 1, n) = s
<1>1. \A k \in 1 .. n : s[k] \in S
  OBVIOUS
<1>2. n \in Int /\ n >= 0
  OBVIOUS
<1>3. /\ SubSeq(s, 1, n) \in Seq(S)
      /\ Len(SubSeq(s, 1, n)) = n
      /\ \A k \in 1 .. n : SubSeq(s, 1, n)[k] = s[k]
  BY <1>1, <1>2
<1>4. n = Len(s) => SubSeq(s, 1, n) = s
  BY <1>3
<1>. QED
  BY <1>3, <1>4

\* return_to_kernel() unwinds to the innermost activation, never further.
LEMMA ReturnFacts ==
    ASSUME SchedulerInv, mode = "user", ReturnToKernel
    PROVE  /\ frames' \in Seq(FrameRecord)
           /\ Len(frames') = Len(frames)
           /\ \A k \in 1 .. Len(frames) :
                /\ frames'[k].wait_pid = frames[k].wait_pid
                /\ frames'[k].outer = frames[k].outer
                /\ frames'[k].stack = frames[k].stack
           /\ \A k \in 1 .. Len(frames) : k < Len(frames) => frames'[k] = frames[k]
           /\ cr3' = Top.stack
           /\ current_task' = Top.outer
           /\ mode' = "loop"
           /\ UNCHANGED <<next_pid, current, last_picked, rsp0>>
<1> DEFINE n == Len(frames)
           f == frames[n]
           g == RunUntil(f.wait_pid, f.outer, f.stack)
<1>1. n \in Nat \ {0} /\ f \in FrameRecord /\ frames \in Seq(FrameRecord)
      /\ \A k \in 1 .. n : frames[k] \in FrameRecord
  BY TopFacts DEF Top, SchedulerInv, TypeOK
<1>2. processes[current_task].kernel_resume = n
  BY DEF SchedulerInv, CpuInv
<1>3. SubSeq(frames, 1, n) = frames
  BY <1>1, PrefixFacts
<1>4. g \in FrameRecord
  BY <1>1 DEF FrameRecord, RunUntil, Slot
<1>5. frames' = [frames EXCEPT ![n] = g]
  BY Zenon, <1>2, <1>3 DEF ReturnToKernel
<1>6. /\ frames' \in Seq(FrameRecord)
      /\ Len(frames') = n
      /\ \A k \in 1 .. n : frames'[k] = IF k = n THEN g ELSE frames[k]
  <2>. HIDE DEF g
  <2>. QED
    BY <1>1, <1>4, <1>5, ReplaceLast
<1>7. f.caller_as = f.stack /\ f.caller_task = f.outer
  BY <1>1 DEF SchedulerInv, StackInv
<1>8. cr3' = f.caller_as /\ current_task' = f.caller_task /\ mode' = "loop"
      /\ UNCHANGED <<next_pid, current, last_picked, rsp0>>
  BY <1>2 DEF ReturnToKernel
<1>. QED
  BY <1>1, <1>6, <1>7, <1>8 DEF RunUntil, Top

----------------------------------------------------------------------------
(* Steps that end a dispatch: execve(), exit(), a crash, a tick, a yield.  *)

\* A waiting process is not the one on the CPU, and no two activations have the
\* same host: the resume points tell them apart.
LEMMA HostsApart ==
    ASSUME SchedulerInv
    PROVE  /\ \A k \in 2 .. Len(frames) : mode = "user" => frames[k].outer # current
           /\ \A k, l \in 2 .. Len(frames) : frames[k].outer = frames[l].outer => k = l
<1>1. Len(frames) \in Nat
  BY DEF SchedulerInv, TypeOK
<1>2. \A k \in 2 .. Len(frames) : /\ k \in 1 .. Len(frames) /\ k > 1
                                  /\ processes[frames[k].outer].kernel_resume = k - 1
  BY <1>1 DEF SchedulerInv, StackInv
<1>3. mode = "user" => processes[current].kernel_resume = Len(frames)
  BY DEF SchedulerInv, CpuInv
<1>4. ASSUME NEW k \in 2 .. Len(frames), mode = "user", frames[k].outer = current
      PROVE  FALSE
  BY <1>1, <1>2, <1>3, <1>4
<1>5. ASSUME NEW k \in 2 .. Len(frames), NEW l \in 2 .. Len(frames),
             frames[k].outer = frames[l].outer
      PROVE  k = l
  <2>1. k - 1 = l - 1
    BY <1>2, <1>5
  <2>. QED
    BY <1>1, <2>1
<1>. QED
  BY <1>4, <1>5

\* Such a step changes the process on the CPU only, and takes it off the CPU.
LEMMA StopFacts ==
    ASSUME SchedulerInv, mode = "user", ReturnToKernel,
           \A i \in Slots : i # current => processes'[i] = processes[i],
           processes'[current].pid = processes[current].pid,
           processes'[current].parent_pid = processes[current].parent_pid,
           processes'[current].state \in {"Runnable", "Zombie"}
    PROVE  StackInv' /\ CpuInv' /\ PidInv' /\ WaitTargetStays'
<1> DEFINE n == Len(frames)
<1>1. /\ Len(frames') = n
      /\ \A k \in 1 .. n :
                /\ frames'[k].wait_pid = frames[k].wait_pid
                /\ frames'[k].outer = frames[k].outer
                /\ frames'[k].stack = frames[k].stack
      /\ \A k \in 1 .. n : k < n => frames'[k] = frames[k]
      /\ cr3' = frames[n].stack
      /\ current_task' = frames[n].outer
      /\ mode' = "loop"
      /\ next_pid' = next_pid
  BY ReturnFacts DEF Top
<1>2. n \in Nat \ {0}
  BY TopFacts
<1>3. current \in Slots /\ processes[current].state = "Running"
  BY DEF SchedulerInv, CpuInv
<1>4. \A k \in 2 .. n : k \in 1 .. n /\ frames[k].outer # current /\ frames[k].outer \in Slots
  BY <1>2, HostsApart DEF SchedulerInv, StackInv
<1>5. StackInv'
  BY SMTT(30), <1>1, <1>2, <1>4 DEF SchedulerInv, StackInv
<1>6. CpuInv'
  BY <1>1, <1>2, <1>3, <1>4 DEF SchedulerInv, CpuInv, Top
<1>7. PidInv'
  BY <1>1, <1>3 DEF SchedulerInv, PidInv, Live
<1>8. WaitTargetStays'
  <2>. SUFFICES ASSUME NEW k \in 2 .. n
                PROVE  \E i \in Slots :
                          /\ Live(processes', i)
                          /\ processes'[i].pid = frames'[k].wait_pid
                          /\ processes'[i].parent_pid = processes'[frames'[k].outer].pid
    BY <1>1 DEF WaitTargetStays, Live
  <2>1. PICK i \in Slots : /\ Live(processes, i)
                           /\ processes[i].pid = frames[k].wait_pid
                           /\ processes[i].parent_pid = processes[frames[k].outer].pid
    BY DEF SchedulerInv, WaitTargetStays
  <2>2. /\ Live(processes', i)
        /\ processes'[i].pid = processes[i].pid
        /\ processes'[i].parent_pid = processes[i].parent_pid
    BY <2>1, <1>3 DEF Live
  <2>. QED
    BY SMTT(30), <1>1, <1>4, <2>1, <2>2
<1>. QED
  BY <1>5, <1>6, <1>7, <1>8

\* What a process holds is in use.
LEMMA HeldUsed ==
    ASSUME SchedulerInv, NEW i \in Slots
    PROVE  Held(processes[i]) \subseteq used
<1>1. HoldsImages(processes[i], used)
  BY DEF SchedulerInv, MemoryInv
<1>. QED
  BY <1>1 DEF HoldsImages, Held, EmptySlot

\* execve(): the new image is held by nobody else, the old one waits.
LEMMA ExecInv ==
    ASSUME SchedulerInv, Exec
    PROVE  SchedulerInv'
<1>1. PICK m \in Images \ used :
        /\ processes' = [processes EXCEPT
               ![current].pending_free = processes[current].image,
               ![current].image = m,
               ![current].has_run = FALSE,
               ![current].state = "Runnable"]
        /\ used' = used \cup {m}
  BY Zenon DEF Exec
<1>2. mode = "user" /\ ReturnToKernel
  BY DEF Exec
<1>3. /\ current \in Slots /\ processes[current].state = "Running"
      /\ processes \in [Slots -> ProcessRecord]
      /\ used \subseteq Images
  BY <1>2 DEF SchedulerInv, CpuInv, TypeOK
<1>4. /\ processes[current].image \in used
      /\ processes[current].pending_free = None
  BY <1>3 DEF SchedulerInv, MemoryInv, HoldsImages
<1>5. /\ \A i \in Slots : i # current => processes'[i] = processes[i]
      /\ processes'[current] = [processes[current] EXCEPT
               !.pending_free = processes[current].image, !.image = m,
               !.has_run = FALSE, !.state = "Runnable"]
  BY <1>1, <1>3
<1>6. processes[current] \in ProcessRecord
  BY <1>3
<1>7. /\ processes'[current].pending_free = processes[current].image
      /\ processes'[current].image = m
      /\ processes'[current].has_run = FALSE
      /\ processes'[current].state = "Runnable"
      /\ processes'[current].pid = processes[current].pid
      /\ processes'[current].parent_pid = processes[current].parent_pid
  BY <1>5, <1>6 DEF ProcessRecord
<1>8. StackInv' /\ CpuInv' /\ PidInv' /\ WaitTargetStays'
  BY <1>2, <1>5, <1>7, StopFacts
<1>9. TypeOK'
  <2>1. processes'[current] \in ProcessRecord
    BY Zenon, <1>3, <1>4, <1>5, <1>6 DEF ProcessRecord, Image
  <2>2. processes' \in [Slots -> ProcessRecord]
    BY <1>1, <1>3, <2>1
  <2>3. cr3' \in Stack /\ current_task' \in Slot
    BY <1>2, ReturnFacts, TopFacts DEF FrameRecord
  <2>. QED
    BY <1>1, <1>2, <1>3, <2>2, <2>3, ReturnFacts DEF SchedulerInv, TypeOK
<1>10. MemoryInv'
  <2>1. Held(processes'[current]) = Held(processes[current]) \cup {m}
    BY <1>4, <1>7, ProcessAssumption, <1>3 DEF Held
  <2>2. \A i \in Slots : i # current => Held(processes'[i]) = Held(processes[i])
    BY <1>5
  <2>3. \A i \in Slots : m \notin Held(processes[i])
    BY HeldUsed
  <2>4. \A i, j \in Slots : i # j =>
            \A x \in Images : ~(x \in Held(processes'[i]) /\ x \in Held(processes'[j]))
    BY <2>1, <2>2, <2>3 DEF SchedulerInv, MemoryInv
  <2>5. \A x \in used' : \E i \in Slots : x \in Held(processes'[i])
    BY <1>1, <1>3, <2>1, <2>2 DEF SchedulerInv, MemoryInv
  <2>6. ASSUME NEW i \in Slots
        PROVE  HoldsImages(processes'[i], used')
    <3>1. CASE i = current
      BY <3>1, <1>1, <1>4, <1>7, ProcessAssumption DEF HoldsImages
    <3>2. CASE i # current
      <4>1. processes'[i] = processes[i] /\ HoldsImages(processes[i], used)
        BY <3>2, <1>5 DEF SchedulerInv, MemoryInv
      <4>. QED
        BY <4>1, <1>1 DEF HoldsImages
    <3>. QED
      BY <3>1, <3>2
  <2>. QED
    BY <2>4, <2>5, <2>6 DEF MemoryInv
<1>. QED
  BY <1>8, <1>9, <1>10 DEF SchedulerInv

\* A process that leaves the CPU without touching memory: a zombie, or runnable
\* with its frame on the stack RSP0 names.
LEMMA LeaveCpuInv ==
    ASSUME SchedulerInv, mode = "user", ReturnToKernel, used' = used,
           NEW p \in ProcessRecord,
           processes' = [processes EXCEPT ![current] = p],
           p.pid = processes[current].pid,
           p.parent_pid = processes[current].parent_pid,
           p.image = processes[current].image,
           p.pending_free = processes[current].pending_free,
           p.state = "Zombie" \/ (p.state = "Runnable" /\ p.saved_rsp = rsp0)
    PROVE  SchedulerInv'
<1>1. /\ current \in Slots /\ processes[current].state = "Running"
      /\ processes[current].image = rsp0
      /\ processes \in [Slots -> ProcessRecord]
  BY DEF SchedulerInv, CpuInv, TypeOK
<1>2. /\ \A i \in Slots : i # current => processes'[i] = processes[i]
      /\ processes'[current] = p
  BY <1>1
<1>3. StackInv' /\ CpuInv' /\ PidInv' /\ WaitTargetStays'
  BY <1>2, StopFacts
<1>4. TypeOK'
  <2>1. processes' \in [Slots -> ProcessRecord]
    BY <1>1
  <2>2. cr3' \in Stack /\ current_task' \in Slot
    BY ReturnFacts, TopFacts DEF FrameRecord
  <2>. QED
    BY <2>1, <2>2, ReturnFacts DEF SchedulerInv, TypeOK
<1>5. MemoryInv'
  <2>1. \A i \in Slots : Held(processes'[i]) = Held(processes[i])
    BY <1>2 DEF Held
  <2>2. ASSUME NEW i \in Slots
        PROVE  HoldsImages(processes'[i], used')
    <3>1. HoldsImages(processes[i], used)
      BY DEF SchedulerInv, MemoryInv
    <3>2. CASE i = current
      BY <3>1, <3>2, <1>1, <1>2 DEF HoldsImages
    <3>3. CASE i # current
      BY <3>1, <3>3, <1>2
    <3>. QED
      BY <3>2, <3>3
  <2>. QED
    BY <2>1, <2>2 DEF SchedulerInv, MemoryInv
<1>. QED
  BY <1>3, <1>4, <1>5 DEF SchedulerInv

\* exit() and a crash.
LEMMA BecomeZombieInv ==
    ASSUME SchedulerInv, NEW code \in Codes \cup {-1}, BecomeZombie(code)
    PROVE  SchedulerInv'
<1> DEFINE p == [processes[current] EXCEPT !.state = "Zombie", !.exit_status = code]
<1>1. mode = "user" /\ ReturnToKernel /\ used' = used
  BY DEF BecomeZombie
<1>2. processes[current] \in ProcessRecord /\ current \in Slots
      /\ processes \in [Slots -> ProcessRecord]
  BY <1>1 DEF SchedulerInv, CpuInv, TypeOK
<1>3. /\ p \in ProcessRecord
      /\ p.pid = processes[current].pid
      /\ p.parent_pid = processes[current].parent_pid
      /\ p.image = processes[current].image
      /\ p.pending_free = processes[current].pending_free
      /\ p.state = "Zombie"
  BY Zenon, <1>2 DEF ProcessRecord
<1>4. processes' = [processes EXCEPT ![current] = p]
  BY Zenon, <1>2 DEF BecomeZombie
<1>. QED
  <2>. HIDE DEF p
  <2>. QED
    BY Zenon, <1>1, <1>3, <1>4, LeaveCpuInv

\* The tick and sched_yield().
LEMMA SuspendInv ==
    ASSUME SchedulerInv, Suspend
    PROVE  SchedulerInv'
<1> DEFINE p == [processes[current] EXCEPT !.saved_rsp = rsp0, !.state = "Runnable"]
<1>1. mode = "user" /\ ReturnToKernel /\ used' = used
  BY DEF Suspend
<1>2. processes[current] \in ProcessRecord /\ current \in Slots
      /\ processes \in [Slots -> ProcessRecord] /\ rsp0 \in Stack
  BY <1>1 DEF SchedulerInv, CpuInv, TypeOK
<1>3. /\ p \in ProcessRecord
      /\ p.pid = processes[current].pid
      /\ p.parent_pid = processes[current].parent_pid
      /\ p.image = processes[current].image
      /\ p.pending_free = processes[current].pending_free
      /\ p.state = "Runnable" /\ p.saved_rsp = rsp0
  BY Zenon, <1>2 DEF ProcessRecord
<1>4. processes' = [processes EXCEPT ![current] = p]
  BY Zenon, <1>2 DEF Suspend
<1>. QED
  <2>. HIDE DEF p
  <2>. QED
    BY Zenon, <1>1, <1>3, <1>4, LeaveCpuInv

----------------------------------------------------------------------------
(* New processes.                                                          *)

\* A new process in a free slot, with an image and a pid nobody has.
LEMMA NewProcessFacts ==
    ASSUME SchedulerInv, NEW i \in Slots, ~Live(processes, i),
           NEW m \in Images \ used, NEW parent \in Int, NEW h \in BOOLEAN,
           NEW saved \in Image, h => saved = m,
           processes' = NewProcess(i, parent, h, saved, m),
           used' = used \cup {m}, next_pid' = next_pid + 1
    PROVE  /\ MemoryInv'
           /\ PidInv'
           /\ processes' \in [Slots -> ProcessRecord]
           /\ used' \subseteq Images
           /\ next_pid' \in Nat \ {0}
           /\ \A j \in Slots : j # i => processes'[j] = processes[j]
           /\ processes'[i].state = "Runnable"
<1> DEFINE p == [EmptySlot EXCEPT !.pid = next_pid, !.parent_pid = parent,
                    !.state = "Runnable", !.has_run = h, !.saved_rsp = saved, !.image = m]
<1>1. processes \in [Slots -> ProcessRecord] /\ used \subseteq Images /\ next_pid \in Nat \ {0}
  BY DEF SchedulerInv, TypeOK
<1>2. p \in ProcessRecord
  BY Zenon, <1>1 DEF ProcessRecord, EmptySlot, Image, Stack, Codes
<1>3. /\ p.pid = next_pid /\ p.state = "Runnable" /\ p.image = m /\ p.pending_free = None
      /\ p.has_run = h /\ p.saved_rsp = saved
  BY DEF EmptySlot
<1>4. processes' = [processes EXCEPT ![i] = p]
  BY DEF NewProcess
<1> HIDE DEF p
<1>5. /\ processes' \in [Slots -> ProcessRecord]
      /\ \A j \in Slots : j # i => processes'[j] = processes[j]
      /\ processes'[i] = p
  BY <1>1, <1>2, <1>4
<1>6. PidInv'
  <2>1. \A j \in Slots : j # i /\ Live(processes', j) =>
            /\ 0 < processes[j].pid /\ processes[j].pid < next_pid
            /\ processes[j].pid \in Nat
            /\ processes'[j].pid = processes[j].pid /\ Live(processes, j)
    <3>1. \A j \in Slots : processes[j].pid \in Nat
      BY <1>1 DEF ProcessRecord
    <3>. QED
      BY <3>1, <1>5 DEF SchedulerInv, PidInv, Live
  <2>2. processes'[i].pid = next_pid
    BY <1>3, <1>5
  <2>3. \A j \in Slots : Live(processes', j) =>
            0 < processes'[j].pid /\ processes'[j].pid < next_pid'
    BY <2>1, <2>2, <1>1
  <2>4. ASSUME NEW j \in Slots, NEW l \in Slots, Live(processes', j), Live(processes', l),
               processes'[j].pid = processes'[l].pid
        PROVE  j = l
    <3>1. CASE j # i /\ l # i
      BY <3>1, <2>1, <2>4 DEF SchedulerInv, PidInv
    <3>2. CASE j = i /\ l # i
      BY <3>2, <2>1, <2>2, <2>4, <1>1
    <3>3. CASE j # i /\ l = i
      BY <3>3, <2>1, <2>2, <2>4, <1>1
    <3>. QED
      BY <3>1, <3>2, <3>3
  <2>. QED
    BY <2>3, <2>4 DEF PidInv, Live
<1>7. MemoryInv'
  <2>1. Held(processes'[i]) = {m}
    BY <1>3, <1>5, ProcessAssumption DEF Held
  <2>2. \A j \in Slots : j # i => Held(processes'[j]) = Held(processes[j])
    BY <1>5
  <2>3. \A j \in Slots : m \notin Held(processes[j])
    BY HeldUsed
  <2>4. Held(processes[i]) = {}
    <3>1. processes[i] = EmptySlot
      BY DEF SchedulerInv, MemoryInv, HoldsImages, Live
    <3>. QED
      BY <3>1 DEF Held, EmptySlot
  <2>5. \A x \in used' : \E j \in Slots : x \in Held(processes'[j])
    BY <2>1, <2>2, <2>4 DEF SchedulerInv, MemoryInv
  <2>6. ASSUME NEW j \in Slots
        PROVE  HoldsImages(processes'[j], used')
    <3>1. CASE j = i
      BY <3>1, <1>3, <1>5, ProcessAssumption DEF HoldsImages
    <3>2. CASE j # i
      <4>1. processes'[j] = processes[j] /\ HoldsImages(processes[j], used)
        BY <3>2, <1>5 DEF SchedulerInv, MemoryInv
      <4>. QED
        BY <4>1 DEF HoldsImages
    <3>. QED
      BY <3>1, <3>2
  <2>7. \A j, l \in Slots : j # l =>
            \A x \in Images : ~(x \in Held(processes'[j]) /\ x \in Held(processes'[l]))
    BY <2>1, <2>2, <2>3 DEF SchedulerInv, MemoryInv
  <2>. QED
    BY <2>5, <2>6, <2>7 DEF MemoryInv
<1>. QED
  BY <1>1, <1>3, <1>5, <1>6, <1>7

\* fork(): the child is nobody's host and nobody's wait target.
LEMMA ForkInv ==
    ASSUME SchedulerInv, Fork
    PROVE  SchedulerInv'
<1>1. PICK i \in alloc_slot, m \in Images \ used :
        /\ processes' = NewProcess(i, processes[current].pid, TRUE, m, m)
        /\ used' = used \cup {m}
  BY Zenon DEF Fork
<1>2. /\ mode = "user" /\ next_pid' = next_pid + 1
      /\ UNCHANGED <<current, last_picked, frames, mode, cr3, rsp0, current_task>>
  BY DEF Fork
<1>3. i \in Slots /\ ~Live(processes, i)
  BY DEF alloc_slot
<1>4. current \in Slots /\ processes[current].state = "Running"
      /\ processes[current].pid \in Int
  BY <1>2 DEF SchedulerInv, CpuInv, TypeOK, ProcessRecord
<1>5. /\ MemoryInv' /\ PidInv'
      /\ processes' \in [Slots -> ProcessRecord]
      /\ used' \subseteq Images
      /\ next_pid' \in Nat \ {0}
      /\ \A j \in Slots : j # i => processes'[j] = processes[j]
      /\ processes'[i].state = "Runnable"
  BY Zenon, <1>1, <1>2, <1>3, <1>4, NewProcessFacts DEF Image
<1>6. TypeOK'
  BY <1>2, <1>5 DEF SchedulerInv, TypeOK
<1>7. \A j \in Slots : Live(processes, j) => j # i
  BY <1>3
<1>8. \A k \in 2 .. Len(frames) : frames[k].outer \in Slots /\ frames[k].outer # i
  BY <1>3, TopFacts, <1>2 DEF SchedulerInv, StackInv, Live
<1>9. StackInv'
  BY SMTT(30), <1>2, <1>5, <1>8, TopFacts DEF SchedulerInv, StackInv
<1>10. CpuInv'
  BY <1>2, <1>4, <1>5, <1>3 DEF SchedulerInv, CpuInv, Live
<1>11. WaitTargetStays'
  <2>. SUFFICES ASSUME NEW k \in 2 .. Len(frames)
                PROVE  \E j \in Slots :
                          /\ Live(processes', j)
                          /\ processes'[j].pid = frames[k].wait_pid
                          /\ processes'[j].parent_pid = processes'[frames[k].outer].pid
    BY <1>2 DEF WaitTargetStays, Live
  <2>1. PICK j \in Slots : /\ Live(processes, j)
                           /\ processes[j].pid = frames[k].wait_pid
                           /\ processes[j].parent_pid = processes[frames[k].outer].pid
    BY DEF SchedulerInv, WaitTargetStays
  <2>2. processes'[j] = processes[j] /\ processes'[frames[k].outer] = processes[frames[k].outer]
    BY <1>5, <1>7, <1>8, <2>1
  <2>. QED
    BY <2>1, <2>2 DEF Live
<1>. QED
  BY <1>5, <1>6, <1>9, <1>10, <1>11 DEF SchedulerInv

\* The kernel shell launching a program: the first activation.
LEMMA LaunchInv ==
    ASSUME SchedulerInv, Launch
    PROVE  SchedulerInv'
<1>1. PICK i \in alloc_slot, m \in Images \ used :
        /\ processes' = NewProcess(i, KERNEL_PARENT_PID, FALSE, None, m)
        /\ used' = used \cup {m}
  BY Zenon DEF Launch
<1>2. /\ mode = "kernel" /\ next_pid' = next_pid + 1
      /\ frames' = <<RunUntil(None, current, Kernel)>>
      /\ mode' = "loop"
      /\ UNCHANGED <<current, last_picked, cr3, rsp0, current_task>>
  BY DEF Launch
<1>3. i \in Slots /\ ~Live(processes, i)
  BY DEF alloc_slot
<1>4. cr3 = Kernel /\ current = None /\ current_task = None
      /\ \A j \in Slots : ~Live(processes, j)
  BY <1>2 DEF SchedulerInv, CpuInv
<1>5. /\ MemoryInv' /\ PidInv'
      /\ processes' \in [Slots -> ProcessRecord]
      /\ used' \subseteq Images
      /\ next_pid' \in Nat \ {0}
      /\ \A j \in Slots : j # i => processes'[j] = processes[j]
      /\ processes'[i].state = "Runnable"
  <2>1. KERNEL_PARENT_PID \in Int /\ None \in Image
    BY DEF KERNEL_PARENT_PID, Image
  <2>. QED
    BY Zenon, <2>1, <1>1, <1>2, <1>3, NewProcessFacts
<1>6. RunUntil(None, None, Kernel) \in FrameRecord
  BY DEF RunUntil, FrameRecord, Slot, Stack
<1>7. /\ frames' \in Seq(FrameRecord)
      /\ Len(frames') = 1
      /\ frames'[1] = RunUntil(None, None, Kernel)
  BY <1>2, <1>4, <1>6
<1>8. TypeOK'
  BY <1>2, <1>5, <1>7 DEF SchedulerInv, TypeOK
<1>9. StackInv'
  BY <1>2, <1>7 DEF StackInv, RunUntil
<1>10. CpuInv'
  BY <1>2, <1>4, <1>5, <1>7 DEF CpuInv, Live, Top, RunUntil
<1>11. WaitTargetStays'
  BY <1>7 DEF WaitTargetStays
<1>. QED
  BY <1>5, <1>8, <1>9, <1>10, <1>11 DEF SchedulerInv

----------------------------------------------------------------------------
(* wait() and the console read.                                            *)

\* find_child() finds a live child of the caller.
LEMMA FindChildFacts ==
    ASSUME NEW parent, NEW pid, NEW t \in find_child(parent, pid)
    PROVE  t \in Slots /\ Live(processes, t) /\ processes[t].parent_pid = parent
BY DEF find_child

\* wait(): the caller becomes the host of a new innermost activation.
LEMMA WaitInv ==
    ASSUME SchedulerInv, NEW pid, Wait(pid)
    PROVE  SchedulerInv'
<1> DEFINE n == Len(frames)
<1>1. PICK t \in find_child(processes[current].pid, pid) :
        frames' = Append(frames, RunUntil(processes[t].pid, current, rsp0))
  BY DEF Wait
<1>2. /\ mode = "user" /\ mode' = "loop"
      /\ UNCHANGED <<processes, next_pid, current, last_picked, cr3, rsp0, current_task, used>>
  BY DEF Wait
<1>3. t \in Slots /\ Live(processes, t) /\ processes[t].parent_pid = processes[current].pid
  BY FindChildFacts
<1>4. /\ current \in Slots /\ current_task = current
      /\ processes[current].state = "Running"
      /\ processes[current].kernel_resume = n
      /\ cr3 = processes[current].image
      /\ rsp0 = processes[current].image
  BY <1>2 DEF SchedulerInv, CpuInv
<1>5. processes[t].pid \in Nat /\ rsp0 \in Stack /\ frames \in Seq(FrameRecord)
  BY SMTT(30), <1>3 DEF SchedulerInv, TypeOK, ProcessRecord
<1> DEFINE g == RunUntil(processes[t].pid, current, rsp0)
<1>6. /\ g \in FrameRecord
      /\ g.wait_pid = processes[t].pid /\ g.outer = current /\ g.stack = rsp0
  BY <1>4, <1>5 DEF RunUntil, FrameRecord, Slot
<1>7. frames' = Append(frames, g)
  BY <1>1
<1> HIDE DEF g
<1>8. /\ frames' \in Seq(FrameRecord)
      /\ Len(frames') = n + 1
      /\ \A k \in 1 .. n : frames'[k] = frames[k]
      /\ frames'[n + 1] = g
  BY <1>5, <1>6, <1>7
<1>9. n \in Nat \ {0}
  BY <1>2, TopFacts
<1>10. TypeOK'
  BY <1>2, <1>8 DEF SchedulerInv, TypeOK
<1>11. StackInv'
  <2>1. processes[t].pid # None
    BY <1>5, ProcessAssumption
  <2>2. ASSUME NEW k \in 1 .. n + 1
        PROVE  /\ k = 1 => /\ frames'[k].wait_pid = None
                           /\ frames'[k].outer = None
                           /\ frames'[k].stack = Kernel
               /\ k > 1 => /\ frames'[k].wait_pid # None
                           /\ frames'[k].outer \in Slots
                           /\ processes[frames'[k].outer].state = "Running"
                           /\ processes[frames'[k].outer].kernel_resume = k - 1
                           /\ frames'[k].stack = processes[frames'[k].outer].image
               /\ k < n + 1 => /\ frames'[k].caller_as = frames'[k].stack
                               /\ frames'[k].caller_task = frames'[k].outer
    <3>1. CASE k = n + 1
      BY SMTT(30), <3>1, <2>1, <1>4, <1>6, <1>8, <1>9
    <3>2. CASE k # n + 1
      <4>1. k \in 1 .. n
        BY <3>2, <1>9
      <4>. QED
        BY SMTT(30), <4>1, <1>2, <1>8 DEF SchedulerInv, StackInv
    <3>. QED
      BY <3>1, <3>2
  <2>. QED
    BY <2>2, <1>2, <1>8, <1>9 DEF StackInv
<1>12. CpuInv'
  <2>1. \A i \in Slots : processes[i].state = "Running" =>
            \E k \in 2 .. n + 1 : frames'[k].outer = i
    <3>. SUFFICES ASSUME NEW i \in Slots, processes[i].state = "Running"
                  PROVE  \E k \in 2 .. n + 1 : frames'[k].outer = i
      OBVIOUS
    <3>1. CASE i = current
      BY <3>1, <1>6, <1>8, <1>9
    <3>2. CASE i # current
      <4>1. PICK k \in 2 .. n : frames[k].outer = i
        BY <3>2 DEF SchedulerInv, CpuInv
      <4>. QED
        BY <4>1, <1>8, <1>9
    <3>. QED
      BY <3>1, <3>2
  <2>. QED
    BY <2>1, <1>2, <1>4, <1>6, <1>8 DEF CpuInv, Top
<1>13. WaitTargetStays'
  <2>1. \A k \in 2 .. n + 1 : k = n + 1 \/ (k \in 2 .. n /\ k \in 1 .. n)
    BY <1>9
  <2>2. \A k \in 2 .. n + 1 : \E i \in Slots :
            /\ Live(processes, i)
            /\ processes[i].pid = frames'[k].wait_pid
            /\ processes[i].parent_pid = processes[frames'[k].outer].pid
    BY <2>1, <1>3, <1>6, <1>8 DEF SchedulerInv, WaitTargetStays
  <2>. QED
    BY <2>2, <1>2, <1>8 DEF WaitTargetStays, Live
<1>. QED
  BY <1>2, <1>10, <1>11, <1>12, <1>13 DEF SchedulerInv, MemoryInv, PidInv, Live

\* A console read keeps everything but where the CPU is.
LEMMA ConsoleInv ==
    ASSUME SchedulerInv, ReadConsole \/ KeyPressed
    PROVE  SchedulerInv'
<1>1. /\ mode \in {"user", "reading"} /\ mode' \in {"user", "reading"}
      /\ UNCHANGED <<processes, next_pid, current, last_picked, frames, cr3, rsp0,
                     current_task, used>>
  BY DEF ReadConsole, KeyPressed
<1>2. TypeOK'
  BY <1>1 DEF SchedulerInv, TypeOK
<1>3. StackInv'
  BY <1>1 DEF SchedulerInv, StackInv
<1>4. CpuInv'
  BY SMTT(30), <1>1 DEF SchedulerInv, CpuInv
<1>5. MemoryInv' /\ PidInv' /\ WaitTargetStays'
  BY <1>1 DEF SchedulerInv, MemoryInv, PidInv, WaitTargetStays, Live
<1>. QED
  BY <1>2, <1>3, <1>4, <1>5 DEF SchedulerInv

----------------------------------------------------------------------------
(* The loop of run_until().                                                *)

\* Reaping the zombies of `dead' keeps the others, and gives back exactly what
\* the dead held.
LEMMA ReapFacts ==
    ASSUME SchedulerInv, NEW dead \in SUBSET Slots,
           \A i \in dead : processes[i].state = "Zombie",
           NEW ps, ps = AfterReap(dead), NEW u, u = used \ FreedBy(dead)
    PROVE  /\ ps \in [Slots -> ProcessRecord]
           /\ u \subseteq Images
           /\ \A i \in Slots \ dead : ps[i] = processes[i]
           /\ \A i \in dead : ps[i] = EmptySlot
           /\ \A i \in Slots : HoldsImages(ps[i], u)
           /\ \A i, j \in Slots : i # j =>
                \A m \in Images : ~(m \in Held(ps[i]) /\ m \in Held(ps[j]))
           /\ \A m \in u : \E i \in Slots : m \in Held(ps[i])
<1>1. processes \in [Slots -> ProcessRecord] /\ used \subseteq Images
  BY DEF SchedulerInv, TypeOK
<1>2. EmptySlot \in ProcessRecord
  BY DEF EmptySlot, ProcessRecord, Codes, Image, Stack
<1>3. /\ ps \in [Slots -> ProcessRecord]
      /\ \A i \in Slots \ dead : ps[i] = processes[i]
      /\ \A i \in dead : ps[i] = EmptySlot
  BY <1>1, <1>2 DEF AfterReap
<1>4. Held(EmptySlot) = {}
  BY DEF Held, EmptySlot
<1>5. /\ \A i, j \in Slots : i # j =>
            \A m \in Images : ~(m \in Held(processes[i]) /\ m \in Held(processes[j]))
      /\ \A m \in used : \E i \in Slots : m \in Held(processes[i])
      /\ \A i \in Slots : HoldsImages(processes[i], used)
  BY DEF SchedulerInv, MemoryInv
<1>6. \A m : m \in FreedBy(dead) <=> \E i \in dead : m \in Held(processes[i])
  BY DEF FreedBy
<1>7. ASSUME NEW m \in u
      PROVE  \E i \in Slots : m \in Held(ps[i])
  <2>1. m \in used /\ m \notin FreedBy(dead)
    OBVIOUS
  <2>2. PICK i \in Slots : m \in Held(processes[i])
    BY <2>1, <1>5
  <2>3. i \notin dead
    BY <2>1, <2>2, <1>6
  <2>. QED
    BY <2>2, <2>3, <1>3
<1>8. ASSUME NEW i \in Slots
      PROVE  HoldsImages(ps[i], u)
  <2>1. CASE i \in dead
    BY <2>1, <1>3 DEF HoldsImages, EmptySlot
  <2>2. CASE i \notin dead
    <3>1. \A m \in Held(processes[i]) : m \in u
      <4>1. SUFFICES ASSUME NEW m \in Held(processes[i]), m \in FreedBy(dead)
                     PROVE  FALSE
        BY HeldUsed
      <4>2. PICK j \in dead : m \in Held(processes[j])
        BY <4>1, <1>6
      <4>3. m \in Images /\ j \in Slots
        BY <1>1, HeldUsed
      <4>. QED
        BY <4>2, <4>3, <2>2, <1>5
    <3>2. ps[i] = processes[i] /\ HoldsImages(processes[i], used)
      BY <2>2, <1>3, <1>5
    <3>. QED
      BY <3>1, <3>2, <1>1, ProcessAssumption DEF HoldsImages, Held
  <2>. QED
    BY <2>1, <2>2
<1>9. \A i, j \in Slots : i # j =>
        \A m \in Images : ~(m \in Held(ps[i]) /\ m \in Held(ps[j]))
  BY SMTT(30), <1>3, <1>4, <1>5
<1>. QED
  BY Zenon, <1>1, <1>3, <1>7, <1>8, <1>9

\* Reaping zombies disturbs no waiting process and no pid.
LEMMA ReapPids ==
    ASSUME SchedulerInv, NEW dead \in SUBSET Slots,
           \A i \in dead : processes[i].state = "Zombie",
           NEW ps, \A i \in Slots \ dead : ps[i] = processes[i],
           \A i \in dead : ps[i] = EmptySlot
    PROVE  /\ \A i \in Slots : Live(ps, i) => 0 < ps[i].pid /\ ps[i].pid < next_pid
           /\ \A i, j \in Slots : Live(ps, i) /\ Live(ps, j) /\ ps[i].pid = ps[j].pid => i = j
           /\ \A i \in Slots : ps[i].state = "Running" <=> processes[i].state = "Running"
           /\ \A i \in Slots : processes[i].state = "Running" => ps[i] = processes[i]
<1>1. \A i \in Slots : Live(ps, i) => i \notin dead /\ ps[i] = processes[i] /\ Live(processes, i)
  BY DEF Live, EmptySlot
<1>2. PidInv
  BY DEF SchedulerInv
<1>. QED
  BY SMTT(30), <1>1, <1>2 DEF PidInv, Live, EmptySlot

\* The activations below the innermost wait for processes it does not reap: two
\* waiting parents have different pids, so they wait for different children.
LEMMA TargetsApart ==
    ASSUME SchedulerInv, Len(frames) > 1, NEW k \in 2 .. Len(frames) - 1,
           NEW i \in Slots, Live(processes, i),
           processes[i].pid = frames[k].wait_pid,
           processes[i].parent_pid = processes[frames[k].outer].pid
    PROVE  i \notin Target
<1> DEFINE n == Len(frames)
<1>1. n \in Nat /\ n \in 2 .. n /\ k \in 2 .. n /\ k # n
  BY DEF SchedulerInv, TypeOK
<1>2. PICK t \in Slots : /\ Live(processes, t)
                         /\ processes[t].pid = frames[n].wait_pid
                         /\ processes[t].parent_pid = processes[frames[n].outer].pid
  BY <1>1 DEF SchedulerInv, WaitTargetStays
<1>3. \A l \in 2 .. n : frames[l].outer \in Slots /\ Live(processes, frames[l].outer)
  BY SMTT(30), <1>1 DEF SchedulerInv, StackInv, Live
<1>4. SUFFICES ASSUME i \in Target PROVE FALSE
  OBVIOUS
<1>5. processes[i].pid = frames[n].wait_pid
  BY <1>4 DEF Target, Top
<1>6. \A a, b \in Slots :
        Live(processes, a) /\ Live(processes, b) /\ processes[a].pid = processes[b].pid => a = b
  BY DEF SchedulerInv, PidInv
<1>7. i = t
  BY <1>2, <1>5, <1>6
<1>8. frames[k].outer = frames[n].outer
  BY SMTT(30), <1>1, <1>2, <1>3, <1>6, <1>7
<1>. QED
  BY <1>1, <1>8, HostsApart

\* The end of a wait(): the waiter has the CPU again, with its own context.
LEMMA WaitReturnInv ==
    ASSUME SchedulerInv, WaitReturn
    PROVE  SchedulerInv'
<1> DEFINE n == Len(frames)
<1>1. /\ mode = "loop" /\ mode' = "user"
      /\ Top.wait_pid # None
      /\ \A i \in Target : processes[i].state = "Zombie"
      /\ processes' = AfterReap(Target)
      /\ used' = used \ FreedBy(Target)
      /\ current' = frames[n].outer
      /\ rsp0' = processes[frames[n].outer].image
      /\ frames' = SubSeq(frames, 1, n - 1)
      /\ UNCHANGED <<next_pid, last_picked, cr3, current_task>>
  BY DEF WaitReturn, WaitOver, Top
<1>2. n \in Nat \ {0} /\ frames \in Seq(FrameRecord)
  BY <1>1, TopFacts DEF SchedulerInv, TypeOK
<1>3. n > 1 /\ n - 1 \in 0 .. n
  <2>1. n # 1
    BY <1>1, <1>2 DEF SchedulerInv, StackInv, Top
  <2>2. n \in Nat \ {0}
    BY <1>2
  <2>. HIDE DEF n
  <2>. QED
    BY <2>1, <2>2
<1>4. /\ frames' \in Seq(FrameRecord)
      /\ Len(frames') = n - 1
      /\ \A k \in 1 .. n - 1 : frames'[k] = frames[k]
  BY <1>1, <1>2, <1>3, PrefixFacts
<1>5. Target \in SUBSET Slots
  BY DEF Target
<1>6. /\ processes' \in [Slots -> ProcessRecord]
      /\ used' \subseteq Images
      /\ \A i \in Slots \ Target : processes'[i] = processes[i]
      /\ \A i \in Target : processes'[i] = EmptySlot
      /\ MemoryInv'
  <2>. DEFINE ps == AfterReap(Target)
              u == used \ FreedBy(Target)
  <2>1. /\ ps \in [Slots -> ProcessRecord]
        /\ u \subseteq Images
        /\ \A i \in Slots \ Target : ps[i] = processes[i]
        /\ \A i \in Target : ps[i] = EmptySlot
        /\ \A i \in Slots : HoldsImages(ps[i], u)
        /\ \A i, j \in Slots : i # j =>
              \A m \in Images : ~(m \in Held(ps[i]) /\ m \in Held(ps[j]))
        /\ \A m \in u : \E i \in Slots : m \in Held(ps[i])
    BY Zenon, <1>1, <1>5, ReapFacts
  <2>2. processes' = ps /\ used' = u
    BY <1>1
  <2>. HIDE DEF ps, u
  <2>. QED
    BY <2>1, <2>2 DEF MemoryInv
<1>7. /\ PidInv'
      /\ \A i \in Slots : processes'[i].state = "Running" <=> processes[i].state = "Running"
      /\ \A i \in Slots : processes[i].state = "Running" => processes'[i] = processes[i]
  <2>. DEFINE ps == processes'
  <2>1. /\ \A i \in Slots : Live(ps, i) => 0 < ps[i].pid /\ ps[i].pid < next_pid
        /\ \A i, j \in Slots : Live(ps, i) /\ Live(ps, j) /\ ps[i].pid = ps[j].pid => i = j
        /\ \A i \in Slots : ps[i].state = "Running" <=> processes[i].state = "Running"
        /\ \A i \in Slots : processes[i].state = "Running" => ps[i] = processes[i]
    <3>. HIDE DEF ps
    <3>1. (\A i \in Slots \ Target : ps[i] = processes[i]) /\ (\A i \in Target : ps[i] = EmptySlot)
      BY <1>6 DEF ps
    <3>. QED
      BY Zenon, <1>1, <1>5, <3>1, ReapPids
  <2>. QED
    BY <2>1, <1>1 DEF PidInv, Live
<1>8. \A k \in 2 .. n : /\ k \in 1 .. n
                        /\ frames[k].outer \in Slots
                        /\ processes[frames[k].outer].state = "Running"
                        /\ processes[frames[k].outer].kernel_resume = k - 1
                        /\ frames[k].stack = processes[frames[k].outer].image
                        /\ processes'[frames[k].outer] = processes[frames[k].outer]
  BY <1>2, <1>7 DEF SchedulerInv, StackInv
<1>9. TypeOK'
  BY SMTT(30), <1>1, <1>2, <1>3, <1>4, <1>6, <1>8
     DEF SchedulerInv, TypeOK, Slot, Stack, ProcessRecord, MemoryInv, HoldsImages
<1>10. StackInv'
  <2>1. ASSUME NEW k \in 1 .. n - 1
        PROVE  /\ k \in 1 .. n /\ k < n /\ frames'[k] = frames[k]
               /\ k > 1 => k \in 2 .. n
    BY <1>2, <1>4
  <2>2. ASSUME NEW k \in 1 .. n - 1
        PROVE  /\ k = 1 => /\ frames[k].wait_pid = None
                           /\ frames[k].outer = None
                           /\ frames[k].stack = Kernel
               /\ k > 1 => frames[k].wait_pid # None
               /\ frames[k].caller_as = frames[k].stack
               /\ frames[k].caller_task = frames[k].outer
    BY <2>1 DEF SchedulerInv, StackInv
  <2>3. ASSUME NEW k \in 1 .. n - 1, k > 1
        PROVE  /\ frames'[k].outer \in Slots
               /\ processes'[frames'[k].outer].state = "Running"
               /\ processes'[frames'[k].outer].kernel_resume = k - 1
               /\ frames'[k].stack = processes'[frames'[k].outer].image
    BY <1>8, <2>1, <2>3
  <2>4. mode' # "kernel" /\ Len(frames') # 0
    <3>1. \A l : l > 1 => l - 1 # 0
      OBVIOUS
    <3>. QED
      BY <1>1, <1>3, <1>4, <3>1
  <2>5. ASSUME NEW k \in 1 .. Len(frames')
        PROVE  /\ k = 1 => /\ frames'[k].wait_pid = None
                           /\ frames'[k].outer = None
                           /\ frames'[k].stack = Kernel
               /\ k > 1 => /\ frames'[k].wait_pid # None
                           /\ frames'[k].outer \in Slots
                           /\ processes'[frames'[k].outer].state = "Running"
                           /\ processes'[frames'[k].outer].kernel_resume = k - 1
                           /\ frames'[k].stack = processes'[frames'[k].outer].image
               /\ frames'[k].caller_as = frames'[k].stack
               /\ frames'[k].caller_task = frames'[k].outer
    <3>1. k \in 1 .. n - 1 /\ frames'[k] = frames[k]
      BY <1>4
    <3>. QED
      BY SMTT(30), <3>1, <2>2, <2>3
  <2>. QED
    BY <2>4, <2>5 DEF StackInv
<1>11. CpuInv'
  <2>1. cr3 = frames[n].stack /\ current_task = frames[n].outer
    BY <1>1 DEF SchedulerInv, CpuInv, Top
  <2>2. n \in 2 .. n
    BY <1>2, <1>3
  <2>3. ASSUME NEW i \in Slots, processes'[i].state = "Running"
        PROVE  i = current' \/ \E k \in 2 .. Len(frames') : frames'[k].outer = i
    <3>1. PICK k \in 2 .. n : frames[k].outer = i
      BY <1>1, <1>7, <2>3 DEF SchedulerInv, CpuInv
    <3>2. CASE k = n
      BY <3>1, <3>2, <1>1
    <3>3. CASE k # n
      BY SMTT(30), <3>1, <3>3, <1>2, <1>4
    <3>. QED
      BY <3>2, <3>3
  <2>4. /\ current' \in Slots
        /\ current_task' = current'
        /\ processes'[current'].state = "Running"
        /\ processes'[current'].kernel_resume = Len(frames')
        /\ cr3' = processes'[current'].image
        /\ rsp0' = processes'[current'].image
    BY SMTT(30), <1>1, <1>4, <1>8, <2>1, <2>2
  <2>. QED
    BY SMTT(30), <1>1, <2>3, <2>4 DEF CpuInv
<1>12. WaitTargetStays'
  <2>. SUFFICES ASSUME NEW k \in 2 .. n - 1
                PROVE  \E i \in Slots :
                          /\ Live(processes', i)
                          /\ processes'[i].pid = frames'[k].wait_pid
                          /\ processes'[i].parent_pid = processes'[frames'[k].outer].pid
    BY <1>4 DEF WaitTargetStays, Live
  <2>1. k \in 2 .. n /\ frames'[k] = frames[k]
    BY <1>2, <1>4
  <2>2. PICK i \in Slots : /\ Live(processes, i)
                           /\ processes[i].pid = frames[k].wait_pid
                           /\ processes[i].parent_pid = processes[frames[k].outer].pid
    BY <2>1 DEF SchedulerInv, WaitTargetStays
  <2>3. i \notin Target
    BY <1>3, <2>2, TargetsApart
  <2>. QED
    BY <1>6, <1>8, <2>1, <2>2, <2>3 DEF Live
<1>. QED
  BY <1>6, <1>7, <1>9, <1>10, <1>11, <1>12 DEF SchedulerInv

\* The end of a launch: the table is empty, and so is memory.
LEMMA LaunchReturnInv ==
    ASSUME SchedulerInv, LaunchReturn
    PROVE  SchedulerInv'
<1> DEFINE n == Len(frames)
           dead == WithState(processes, "Zombie")
           ps == AfterReap(dead)
           u == used \ FreedBy(dead)
<1>1. /\ mode = "loop" /\ mode' = "kernel"
      /\ Top.wait_pid = None
      /\ \A i \in Slots : processes[i].state \in {"Unused", "Zombie"}
      /\ processes' = ps
      /\ used' = u
      /\ current' = frames[n].outer
      /\ frames' = SubSeq(frames, 1, n - 1)
      /\ UNCHANGED <<next_pid, last_picked, cr3, rsp0, current_task>>
  BY DEF LaunchReturn, ReapedHere, Top
<1>2. n \in Nat \ {0} /\ frames \in Seq(FrameRecord)
  BY <1>1, TopFacts DEF SchedulerInv, TypeOK
<1>3. n = 1
  <2>1. n \in 1 .. n
    BY <1>2
  <2>2. n > 1 => frames[n].wait_pid # None
    BY <2>1 DEF SchedulerInv, StackInv
  <2>3. frames[n].wait_pid = None
    BY <1>1 DEF Top
  <2>4. n \in Nat \ {0} /\ ~(n > 1)
    BY <1>2, <2>2, <2>3
  <2>. HIDE DEF n
  <2>. QED
    BY <2>4
<1>4. frames' \in Seq(FrameRecord) /\ Len(frames') = 0
  BY <1>1, <1>2, <1>3, PrefixFacts
<1>5. /\ dead \in SUBSET Slots
      /\ \A i \in dead : processes[i].state = "Zombie"
      /\ \A i \in Slots \ dead : processes[i].state = "Unused"
  BY <1>1 DEF WithState
<1>. HIDE DEF dead
<1>6. /\ ps \in [Slots -> ProcessRecord]
      /\ u \subseteq Images
      /\ \A i \in Slots \ dead : ps[i] = processes[i]
      /\ \A i \in dead : ps[i] = EmptySlot
      /\ \A i \in Slots : HoldsImages(ps[i], u)
      /\ \A i, j \in Slots : i # j =>
            \A m \in Images : ~(m \in Held(ps[i]) /\ m \in Held(ps[j]))
      /\ \A m \in u : \E i \in Slots : m \in Held(ps[i])
  BY Zenon, <1>5, ReapFacts
<1>7. \A i \in Slots : processes'[i].state = "Unused"
  BY SMTT(30), <1>1, <1>5, <1>6 DEF EmptySlot
<1>8. /\ frames[1].outer = None /\ frames[1].stack = Kernel
      /\ cr3 = frames[1].stack /\ current_task = frames[1].outer
  BY SMTT(30), <1>1, <1>2, <1>3 DEF SchedulerInv, StackInv, CpuInv, Top
<1>. HIDE DEF ps, u
<1>9. MemoryInv'
  BY SMTT(30), <1>1, <1>6 DEF MemoryInv
<1>10. TypeOK'
  BY SMTT(30), <1>1, <1>3, <1>4, <1>6, <1>8 DEF SchedulerInv, TypeOK, Slot
<1>11. StackInv'
  BY <1>1, <1>4 DEF StackInv
<1>12. CpuInv'
  BY <1>1, <1>3, <1>7, <1>8 DEF CpuInv, Live
<1>13. PidInv' /\ WaitTargetStays'
  BY <1>4, <1>7 DEF PidInv, WaitTargetStays, Live
<1>. QED
  BY SMTT(30), <1>9, <1>10, <1>11, <1>12, <1>13 DEF SchedulerInv

\* One process of the table replaced by one that holds no more and is itself
\* free of what is pending: what free_pending() and the dispatch do to it.
LEMMA DispatchMemory ==
    ASSUME NEW ps \in [Slots -> ProcessRecord], NEW u \in SUBSET Images, Accounted(ps, u),
           NEW next \in Slots, ps[next].state = "Runnable",
           NEW p \in ProcessRecord, p.image = ps[next].image, p.pending_free = None,
           p.state = "Running"
    PROVE  Accounted([ps EXCEPT ![next] = p], u \ Pending(ps[next]))
<1> DEFINE qs == [ps EXCEPT ![next] = p]
           v == u \ Pending(ps[next])
<1>1. qs[next] = p /\ \A i \in Slots : i # next => qs[i] = ps[i]
  OBVIOUS
<1>2. HoldsImages(ps[next], u)
  OBVIOUS
<1>3. /\ ps[next].image \in u
      /\ ps[next].pending_free \in u \cup {None}
      /\ ps[next].image # ps[next].pending_free
      /\ None \notin u
  BY SMTT(30), <1>2, ProcessAssumption DEF HoldsImages
<1>4. /\ Held(p) = {ps[next].image}
      /\ \A m \in u : m \in Held(ps[next]) <=> m = ps[next].image \/ m = ps[next].pending_free
      /\ \A m : m \in v <=> m \in u /\ m # ps[next].pending_free
  BY <1>3 DEF Held, Pending
<1>5. \A i, j \in Slots : i # j =>
        \A m \in Images : ~(m \in Held(qs[i]) /\ m \in Held(qs[j]))
  BY <1>1, <1>3, <1>4
<1>6. ASSUME NEW m \in v
      PROVE  \E i \in Slots : m \in Held(qs[i])
  <2>1. m \in u /\ m # ps[next].pending_free
    BY <1>4
  <2>2. PICK i \in Slots : m \in Held(ps[i])
    BY SMTT(30), <2>1
  <2>3. CASE i = next
    BY <2>1, <2>2, <2>3, <1>1, <1>4
  <2>4. CASE i # next
    BY <2>2, <2>4, <1>1
  <2>. QED
    BY SMTT(30), <2>3, <2>4
<1>7. ASSUME NEW i \in Slots
      PROVE  HoldsImages(qs[i], v)
  <2>1. CASE i = next
    BY SMTT(30), <2>1, <1>1, <1>3, <1>4 DEF HoldsImages
  <2>2. CASE i # next
    <3>1. qs[i] = ps[i] /\ HoldsImages(ps[i], u)
      BY SMTT(30), <2>2, <1>1
    <3>2. \A m \in Held(ps[i]) : m \in u => m # ps[next].pending_free
      BY SMTT(30), <2>2, <1>3, <1>4
    <3>. QED
      BY <3>1, <3>2, <1>3, <1>4 DEF HoldsImages, Held
  <2>. QED
    BY SMTT(30), <2>1, <2>2
<1>. QED
  BY Zenon, <1>5, <1>6, <1>7

\* The activations while the innermost one dispatches: only the locals of its
\* dispatch() change.
LEMMA DispatchFrames ==
    ASSUME SchedulerInv, mode = "loop", frames' = DispatchLocals
    PROVE  /\ frames' \in Seq(FrameRecord)
           /\ Len(frames') = Len(frames)
           /\ \A k \in 1 .. Len(frames) :
                /\ frames'[k].wait_pid = frames[k].wait_pid
                /\ frames'[k].outer = frames[k].outer
                /\ frames'[k].stack = frames[k].stack
                /\ frames'[k].caller_as = frames[k].stack
                /\ frames'[k].caller_task = frames[k].outer
<1> DEFINE n == Len(frames)
           f == frames[n]
           g == [f EXCEPT !.caller_as = cr3, !.caller_task = current_task]
<1>1. n \in Nat \ {0} /\ f \in FrameRecord /\ frames \in Seq(FrameRecord)
      /\ \A k \in 1 .. n : frames[k] \in FrameRecord
  BY TopFacts DEF Top, SchedulerInv, TypeOK
<1>2. cr3 \in Stack /\ current_task \in Slot
  BY DEF SchedulerInv, TypeOK
<1>3. g \in FrameRecord
  BY Zenon, <1>1, <1>2 DEF FrameRecord
<1>4. frames' = [frames EXCEPT ![n] = g]
  BY Zenon DEF DispatchLocals
<1>5. /\ frames' \in Seq(FrameRecord)
      /\ Len(frames') = n
      /\ \A k \in 1 .. n : frames'[k] = IF k = n THEN g ELSE frames[k]
  <2>. HIDE DEF g
  <2>. QED
    BY <1>1, <1>3, <1>4, ReplaceLast
<1>6. /\ g.wait_pid = f.wait_pid /\ g.outer = f.outer /\ g.stack = f.stack
      /\ g.caller_as = cr3 /\ g.caller_task = current_task
  BY <1>1 DEF FrameRecord
<1>7. cr3 = f.stack /\ current_task = f.outer
  BY DEF SchedulerInv, CpuInv, Top
<1>8. \A k \in 1 .. n : k # n =>
        frames[k].caller_as = frames[k].stack /\ frames[k].caller_task = frames[k].outer
  BY <1>1 DEF SchedulerInv, StackInv
<1>. HIDE DEF g
<1>. QED
  BY <1>5, <1>6, <1>7, <1>8

\* A dispatch: the process picked has the CPU and its context, the loop that
\* picked it becomes its resume point, and nobody who waits is disturbed.
LEMMA DispatchInv ==
    ASSUME SchedulerInv, Dispatch
    PROVE  SchedulerInv'
<1> DEFINE n == Len(frames)
           dead == ReapedHere
           ps == AfterReap(dead)
           u == used \ FreedBy(dead)
<1>1. PICK next \in pick_next_runnable :
        /\ processes' = [ps EXCEPT
               ![next].pending_free = None,
               ![next].state = "Running",
               ![next].has_run = TRUE,
               ![next].kernel_resume = n]
        /\ used' = used \ (FreedBy(dead) \cup Pending(processes[next]))
        /\ last_picked' = next
        /\ current' = next
        /\ rsp0' = processes[next].image
        /\ cr3' = processes[next].image
        /\ current_task' = next
  BY Zenon DEF Dispatch
<1>2. mode = "loop" /\ mode' = "user" /\ frames' = DispatchLocals /\ next_pid' = next_pid
  BY DEF Dispatch
<1>3. next \in Slots /\ processes[next].state = "Runnable"
  BY DEF pick_next_runnable, WithState
<1>4. /\ dead \in SUBSET Slots
      /\ \A i \in dead : processes[i].state = "Zombie"
      /\ Len(frames) > 1 => dead = {}
  <2>1. Len(frames) > 1 => Top.wait_pid # None
    BY <1>2, TopFacts DEF SchedulerInv, StackInv, Top
  <2>. QED
    BY SMTT(30), <2>1 DEF ReapedHere, WithState
<1>. HIDE DEF dead
<1>5. /\ ps \in [Slots -> ProcessRecord]
      /\ u \subseteq Images
      /\ \A i \in Slots \ dead : ps[i] = processes[i]
      /\ \A i \in dead : ps[i] = EmptySlot
      /\ \A i \in Slots : HoldsImages(ps[i], u)
      /\ \A i, j \in Slots : i # j =>
            \A m \in Images : ~(m \in Held(ps[i]) /\ m \in Held(ps[j]))
      /\ \A m \in u : \E i \in Slots : m \in Held(ps[i])
  BY Zenon, <1>4, ReapFacts
<1>6. used' = u \ Pending(processes[next])
  BY <1>1
<1>. HIDE DEF ps, u
<1>7. /\ \A i \in Slots : Live(ps, i) => 0 < ps[i].pid /\ ps[i].pid < next_pid
      /\ \A i, j \in Slots : Live(ps, i) /\ Live(ps, j) /\ ps[i].pid = ps[j].pid => i = j
      /\ \A i \in Slots : ps[i].state = "Running" <=> processes[i].state = "Running"
      /\ \A i \in Slots : processes[i].state = "Running" => ps[i] = processes[i]
  BY Zenon, <1>4, <1>5, ReapPids
<1>8. ps[next] = processes[next] /\ ps[next] \in ProcessRecord
  BY <1>3, <1>4, <1>5
<1> DEFINE p == [ps[next] EXCEPT !.pending_free = None, !.state = "Running",
                                 !.has_run = TRUE, !.kernel_resume = n]
<1>9. n \in Nat \ {0}
  BY <1>2, TopFacts
<1>10. /\ p \in ProcessRecord /\ p.image = processes[next].image
       /\ p.pending_free = None /\ p.state = "Running" /\ p.kernel_resume = n
       /\ p.pid = processes[next].pid /\ p.parent_pid = processes[next].parent_pid
  BY Zenon, <1>8, <1>9 DEF ProcessRecord, Image
<1>11. processes' = [ps EXCEPT ![next] = p]
  BY Zenon, <1>1, <1>3, <1>5
<1>. HIDE DEF p
<1>12. processes'[next] = p /\ \A i \in Slots : i # next => processes'[i] = ps[i]
  BY <1>3, <1>5, <1>11
<1>13. MemoryInv'
  <2>1. Accounted(ps, u)
    BY SMTT(30), <1>5
  <2>2. u \in SUBSET Images /\ ps[next].state = "Runnable" /\ p.image = ps[next].image
    BY <1>3, <1>5, <1>8, <1>10
  <2>. HIDE DEF Accounted
  <2>3. Accounted([ps EXCEPT ![next] = p], u \ Pending(ps[next]))
    BY Zenon, <2>1, <2>2, <1>3, <1>5, <1>10, DispatchMemory
  <2>. QED
    BY <2>3, <1>6, <1>8, <1>11 DEF MemoryInv
<1>14. /\ frames' \in Seq(FrameRecord)
       /\ Len(frames') = n
       /\ \A k \in 1 .. n :
            /\ frames'[k].wait_pid = frames[k].wait_pid
            /\ frames'[k].outer = frames[k].outer
            /\ frames'[k].stack = frames[k].stack
            /\ frames'[k].caller_as = frames[k].stack
            /\ frames'[k].caller_task = frames[k].outer
  BY SMTT(30), <1>2, DispatchFrames
<1>15. \A k \in 2 .. n : /\ k \in 1 .. n
                         /\ frames[k].outer \in Slots
                         /\ processes[frames[k].outer].state = "Running"
                         /\ processes[frames[k].outer].kernel_resume = k - 1
                         /\ frames[k].stack = processes[frames[k].outer].image
                         /\ processes'[frames[k].outer] = processes[frames[k].outer]
  <2>1. ASSUME NEW k \in 2 .. n
        PROVE  /\ k \in 1 .. n
               /\ frames[k].outer \in Slots
               /\ processes[frames[k].outer].state = "Running"
               /\ processes[frames[k].outer].kernel_resume = k - 1
               /\ frames[k].stack = processes[frames[k].outer].image
    BY <1>9 DEF SchedulerInv, StackInv
  <2>. QED
    BY SMTT(30), <1>3, <1>7, <1>12, <2>1
<1>16. TypeOK'
  <2>1. processes[next].image \in Images
    <3>1. HoldsImages(processes[next], used) /\ used \subseteq Images
      BY <1>3 DEF SchedulerInv, MemoryInv, TypeOK
    <3>. QED
      BY <3>1, <1>3 DEF HoldsImages
  <2>2. processes' \in [Slots -> ProcessRecord]
    BY <1>3, <1>5, <1>10, <1>11
  <2>3. used' \in SUBSET Images
    BY SMTT(30), <1>5, <1>6
  <2>. QED
    BY SMTT(30), <1>1, <1>2, <1>3, <1>14, <2>1, <2>2, <2>3 DEF SchedulerInv, TypeOK, Slot, Stack
<1>17. StackInv'
  <2>1. ASSUME NEW k \in 1 .. n
        PROVE  /\ k = 1 => /\ frames[k].wait_pid = None
                           /\ frames[k].outer = None
                           /\ frames[k].stack = Kernel
               /\ k > 1 => frames[k].wait_pid # None /\ k \in 2 .. n
    BY <1>9 DEF SchedulerInv, StackInv
  <2>2. mode' # "kernel" /\ Len(frames') # 0
    BY SMTT(30), <1>2, <1>9, <1>14
  <2>. QED
    BY SMTT(30), <1>14, <1>15, <2>1, <2>2 DEF StackInv
<1>18. CpuInv'
  <2>1. ASSUME NEW i \in Slots, processes'[i].state = "Running", i # next
        PROVE  \E k \in 2 .. n : frames'[k].outer = i
    <3>1. PICK k \in 2 .. n : frames[k].outer = i
      BY <1>2, <1>7, <1>12, <2>1 DEF SchedulerInv, CpuInv
    <3>. QED
      BY SMTT(30), <3>1, <1>14, <1>15
  <2>2. /\ current' \in Slots
        /\ current_task' = current'
        /\ processes'[current'].state = "Running"
        /\ processes'[current'].kernel_resume = Len(frames')
        /\ cr3' = processes'[current'].image
        /\ rsp0' = processes'[current'].image
    BY Zenon, <1>1, <1>3, <1>10, <1>12, <1>14
  <2>3. \A i \in Slots : processes'[i].state = "Running" =>
            i = current' \/ \E k \in 2 .. Len(frames') : frames'[k].outer = i
    BY <1>1, <1>14, <2>1
  <2>. QED
    BY SMTT(30), <1>2, <2>2, <2>3 DEF CpuInv
<1>19. PidInv'
  <2>1. \A i \in Slots : processes'[i].pid = ps[i].pid /\ (Live(processes', i) <=> Live(ps, i))
    BY SMTT(30), <1>3, <1>8, <1>10, <1>12 DEF Live
  <2>. QED
    BY <1>2, <1>7, <2>1 DEF PidInv, Live
<1>20. WaitTargetStays'
  <2>. SUFFICES ASSUME NEW k \in 2 .. n
                PROVE  \E i \in Slots :
                          /\ Live(processes', i)
                          /\ processes'[i].pid = frames'[k].wait_pid
                          /\ processes'[i].parent_pid = processes'[frames'[k].outer].pid
    BY <1>14 DEF WaitTargetStays, Live
  <2>1. PICK i \in Slots : /\ Live(processes, i)
                           /\ processes[i].pid = frames[k].wait_pid
                           /\ processes[i].parent_pid = processes[frames[k].outer].pid
    BY DEF SchedulerInv, WaitTargetStays
  <2>2. i \notin dead
    BY SMTT(30), <1>4, <1>9
  <2>3. /\ Live(processes', i)
        /\ processes'[i].pid = processes[i].pid
        /\ processes'[i].parent_pid = processes[i].parent_pid
    BY <1>5, <1>10, <1>12, <2>1, <2>2 DEF Live
  <2>. QED
    BY <1>14, <1>15, <2>1, <2>3
<1>. QED
  BY <1>13, <1>16, <1>17, <1>18, <1>19, <1>20 DEF SchedulerInv

----------------------------------------------------------------------------
(* The invariant, and the properties that follow from it.                  *)

\* The machine at boot.
LEMMA InitInv == Init => SchedulerInv
<1>. SUFFICES ASSUME Init PROVE SchedulerInv
  OBVIOUS
<1>1. EmptySlot \in ProcessRecord
  BY DEF EmptySlot, ProcessRecord, Codes, Image, Stack
<1>2. \A i \in Slots : processes[i] = EmptySlot /\ processes[i].state = "Unused"
  BY DEF Init, EmptySlot
<1>3. Len(frames) = 0 /\ frames \in Seq(FrameRecord)
  BY DEF Init
<1>4. TypeOK
  BY SMTT(30), <1>1, <1>3, ProcessAssumption DEF Init, TypeOK, Slot, Stack
<1>5. StackInv /\ CpuInv /\ PidInv /\ WaitTargetStays
  BY SMTT(30), <1>2, <1>3 DEF Init, StackInv, CpuInv, PidInv, WaitTargetStays, Live
<1>6. MemoryInv
  BY <1>2 DEF Init, MemoryInv, HoldsImages, Held, EmptySlot
<1>. QED
  BY <1>4, <1>5, <1>6 DEF SchedulerInv

\* Every step of the kernel keeps the invariant.
LEMMA NextInv == SchedulerInv /\ [Next]_vars => SchedulerInv'
<1>. SUFFICES ASSUME SchedulerInv, [Next]_vars PROVE SchedulerInv'
  OBVIOUS
<1>1. CASE UNCHANGED vars
  <2>1. UNCHANGED <<processes, next_pid, current, last_picked, frames, mode, cr3, rsp0,
                    current_task, used>>
    BY SMTT(30), <1>1 DEF vars
  <2>2. TypeOK' /\ StackInv' /\ CpuInv'
    BY <2>1 DEF SchedulerInv, TypeOK, StackInv, CpuInv, Live, Top
  <2>3. MemoryInv' /\ PidInv' /\ WaitTargetStays'
    BY Zenon, <2>1 DEF SchedulerInv, MemoryInv, PidInv, WaitTargetStays, Live
  <2>. QED
    BY <2>2, <2>3 DEF SchedulerInv
<1>2. CASE Launch
  BY <1>2, LaunchInv
<1>3. CASE ShellCommand
  BY <1>1, <1>3 DEF ShellCommand
<1>4. CASE Fork
  BY <1>4, ForkInv
<1>5. CASE Exec
  BY <1>5, ExecInv
<1>6. CASE Exit \/ Crash
  BY <1>6, BecomeZombieInv DEF Exit, Crash
<1>7. CASE Tick \/ Yield
  BY <1>7, SuspendInv DEF Tick, Yield
<1>8. CASE \E pid \in 1 .. MaxPid \cup {None} : Wait(pid)
  BY <1>8, WaitInv
<1>9. CASE ReadConsole \/ KeyPressed
  BY <1>9, ConsoleInv
<1>10. CASE WaitReturn
  BY <1>10, WaitReturnInv
<1>11. CASE LaunchReturn
  BY <1>11, LaunchReturnInv
<1>12. CASE Dispatch
  BY <1>12, DispatchInv
<1>13. CASE Idle
  BY <1>1, <1>13 DEF Idle
<1>. QED
  BY <1>1, <1>2, <1>3, <1>4, <1>5, <1>6, <1>7, <1>8, <1>9, <1>10, <1>11, <1>12, <1>13
     DEF Next, UserStep, LoopStep

\* The scheduler's invariant holds in every reachable state.
THEOREM SchedulerInvariant == Spec => []SchedulerInv
<1>. QED
  BY InitInv, NextInv, PTL DEF Spec

\* Every variable of the scheduler always holds a value of its type.
THEOREM TypeCorrect == Spec => []TypeOK
<1>1. SchedulerInv => TypeOK
  BY DEF SchedulerInv
<1>. QED
  BY <1>1, SchedulerInvariant, PTL

\* Whatever nest of waits and dispatches came before, the process on the CPU
\* runs with its own address space, kernel stack, task and resume point.
THEOREM ContextIsCurrents == Spec => []CpuContextIsCurrents
<1>1. SchedulerInv => CpuContextIsCurrents
  <2>. SUFFICES ASSUME SchedulerInv, OnCpu PROVE CpuContextIsCurrents
    BY DEF CpuContextIsCurrents
  <2>1. Len(frames) \in Nat
    BY DEF SchedulerInv, TypeOK
  <2>2. \A k \in 2 .. Len(frames) :
            /\ frames[k].outer \in Slots
            /\ processes[frames[k].outer].state = "Running"
            /\ processes[frames[k].outer].kernel_resume # Len(frames)
    <3>1. \A n \in Nat : \A k \in 2 .. n : k \in 1 .. n /\ k > 1 /\ k - 1 # n
      OBVIOUS
    <3>2. \A k \in 1 .. Len(frames) : k > 1 =>
            /\ frames[k].outer \in Slots
            /\ processes[frames[k].outer].state = "Running"
            /\ processes[frames[k].outer].kernel_resume = k - 1
      BY Zenon DEF SchedulerInv, StackInv
    <3>. QED
      BY <2>1, <3>1, <3>2
  <2>3. /\ current \in Slots
        /\ current_task = current
        /\ processes[current].state = "Running"
        /\ processes[current].kernel_resume = Len(frames)
        /\ cr3 = processes[current].image
        /\ rsp0 = processes[current].image
    BY DEF SchedulerInv, CpuInv
  <2>4. \A i \in Slots : processes[i].state = "Running" =>
            i = current \/ \E k \in 2 .. Len(frames) : frames[k].outer = i
    BY DEF SchedulerInv, CpuInv
  <2>5. current \notin Hosts
    BY <2>2, <2>3 DEF Hosts
  <2>6. WithState(processes, "Running") = Hosts \cup {current}
    BY <2>2, <2>3, <2>4 DEF Hosts, WithState
  <2>7. current # None
    BY SMTT(30), <2>3, ProcessAssumption
  <2>. QED
    BY <2>3, <2>5, <2>6, <2>7 DEF CpuContextIsCurrents
<1>. QED
  BY <1>1, SchedulerInvariant, PTL

\* No address space or kernel stack the CPU stands on, now or when an activation
\* of run_until() returns, is ever given back to memory.
THEOREM NoUseAfterFree == Spec => []NothingInUseIsFreed
<1>1. SchedulerInv => NothingInUseIsFreed
  <2>. SUFFICES ASSUME SchedulerInv PROVE NothingInUseIsFreed
    BY SMTT(30)
  <2>1. Len(frames) \in Nat
    BY DEF SchedulerInv, TypeOK
  <2>2. \A i \in Slots : processes[i].state = "Running" => processes[i].image \in used
    BY SMTT(30) DEF SchedulerInv, MemoryInv, HoldsImages
  <2>3. \A k \in 2 .. Len(frames) : frames[k].stack = processes[frames[k].outer].image
                                    /\ frames[k].stack \in used
    BY <2>1, <2>2 DEF SchedulerInv, StackInv
  <2>4. OnCpu => rsp0 \in used /\ cr3 \in used
    BY <2>2 DEF SchedulerInv, CpuInv
  <2>5. mode = "loop" => cr3 \in used \cup {Kernel}
    <3>1. SUFFICES ASSUME mode = "loop" PROVE frames[Len(frames)].stack \in used \cup {Kernel}
      BY SMTT(30) DEF SchedulerInv, CpuInv, Top
    <3>2. Len(frames) \in 1 .. Len(frames)
      BY SMTT(30), <3>1, <2>1 DEF SchedulerInv, StackInv
    <3>3. CASE Len(frames) = 1
      BY <3>2, <3>3 DEF SchedulerInv, StackInv
    <3>4. CASE Len(frames) # 1
      <4>1. \A n \in Nat : n \in 1 .. n /\ n # 1 => n \in 2 .. n
        OBVIOUS
      <4>2. Len(frames) \in 2 .. Len(frames)
        BY Zenon, <3>2, <3>4, <2>1, <4>1
      <4>. QED
        BY <4>2, <2>3
    <3>. QED
      BY <3>3, <3>4
  <2>6. mode = "kernel" => cr3 = Kernel
    BY DEF SchedulerInv, CpuInv
  <2>7. mode \in {"kernel", "loop", "user", "reading"}
    BY SMTT(30) DEF SchedulerInv, TypeOK
  <2>. QED
    BY <2>3, <2>4, <2>5, <2>6, <2>7 DEF NothingInUseIsFreed
<1>. QED
  BY <1>1, SchedulerInvariant, PTL

\* A preempted or forked process always resumes from a frame on its own stack.
THEOREM ResumesFromOwnStack == Spec => []ResumeFrameIsLive
<1>1. SchedulerInv => ResumeFrameIsLive
  BY SMTT(30) DEF SchedulerInv, MemoryInv, HoldsImages, ResumeFrameIsLive, WithState
<1>. QED
  BY <1>1, SchedulerInvariant, PTL

\* fork(), execve(), exit and reap neither leak an image nor share one.
THEOREM NoLeak == Spec => []ImagesAccountedFor
<1>1. SchedulerInv => ImagesAccountedFor
  <2>. SUFFICES ASSUME SchedulerInv PROVE ImagesAccountedFor
    OBVIOUS
  <2>1. \A i \in Slots : HoldsImages(processes[i], used)
    BY DEF SchedulerInv, MemoryInv
  <2>2. used \subseteq Images
    BY DEF SchedulerInv, TypeOK
  <2>3. \A i \in Slots : Held(processes[i]) \subseteq used
    BY SMTT(30), HeldUsed
  <2>4. \A i \in Slots : ~Live(processes, i) => Held(processes[i]) = {}
    BY <2>1 DEF HoldsImages, Live, Held, EmptySlot
  <2>5. used = UNION {Held(processes[i]) : i \in {j \in Slots : Live(processes, j)}}
    <3>1. ASSUME NEW m \in used
          PROVE  \E i \in Slots : Live(processes, i) /\ m \in Held(processes[i])
      BY <2>4 DEF SchedulerInv, MemoryInv
    <3>. QED
      BY <3>1, <2>3
  <2>6. \A i \in Slots : Live(processes, i) => processes[i].image # processes[i].pending_free
    BY <2>1 DEF HoldsImages, Live
  <2>7. \A i, j \in Slots : i # j => Held(processes[i]) \cap Held(processes[j]) = {}
    BY <2>2, <2>3 DEF SchedulerInv, MemoryInv
  <2>. QED
    BY <2>5, <2>6, <2>7 DEF ImagesAccountedFor
<1>. QED
  BY <1>1, SchedulerInvariant, PTL

\* The child a wait() chose stays in the table, as the waiter's child, until that
\* very wait() reaps it.
THEOREM TargetStays == Spec => []WaitTargetStays
<1>1. SchedulerInv => WaitTargetStays
  BY DEF SchedulerInv
<1>. QED
  BY <1>1, SchedulerInvariant, PTL

\* A launch leaves no process and no image behind.
THEOREM EmptyTableInShell == Spec => []KernelShellSeesEmptyTable
<1>1. SchedulerInv => KernelShellSeesEmptyTable
  <2>. SUFFICES ASSUME SchedulerInv, mode = "kernel"
                PROVE  (\A i \in Slots : ~Live(processes, i)) /\ used = {} /\ cr3 = Kernel
    BY DEF KernelShellSeesEmptyTable
  <2>1. (\A i \in Slots : ~Live(processes, i)) /\ cr3 = Kernel
    BY SMTT(30) DEF SchedulerInv, CpuInv
  <2>2. \A i \in Slots : Held(processes[i]) = {}
    BY <2>1 DEF SchedulerInv, MemoryInv, HoldsImages, Live, Held, EmptySlot
  <2>3. used = {}
    BY <2>2 DEF SchedulerInv, MemoryInv
  <2>. QED
    BY <2>1, <2>3
<1>. QED
  BY <1>1, SchedulerInvariant, PTL

\* Round robin: no dispatch lets a process that stays runnable fall behind.
THEOREM RoundRobin == Spec => DispatchBringsNearer
<1>1. SchedulerInv /\ [Next]_vars =>
        [\A i \in Slots :
           /\ processes[i].state = "Runnable"
           /\ processes'[i].state = "Runnable"
           /\ mode = "loop" /\ mode' = "user" /\ Len(frames') = Len(frames)
           => PickDistance(i)' < PickDistance(i)]_vars
  <2>. SUFFICES ASSUME SchedulerInv, Next, NEW i \in Slots,
                       processes[i].state = "Runnable", processes'[i].state = "Runnable",
                       mode = "loop", mode' = "user", Len(frames') = Len(frames)
                PROVE  PickDistance(i)' < PickDistance(i)
    OBVIOUS
  <2>1. Len(frames) \in Nat \ {0}
    BY TopFacts
  <2>2. ~WaitReturn
    <3>1. SUFFICES ASSUME frames' = SubSeq(frames, 1, Len(frames) - 1) PROVE FALSE
      BY DEF WaitReturn
    <3>2. Len(frames') = Len(frames) - 1
      BY <2>1, <3>1, PrefixFacts DEF SchedulerInv, TypeOK
    <3>. QED
      BY <2>1, <3>2
  <2>3. Dispatch
    BY <2>2 DEF Next, UserStep, LoopStep, Launch, ShellCommand, Fork, Exec, Exit, Crash,
       BecomeZombie, Tick, Yield, Suspend, Wait, ReadConsole, KeyPressed, LaunchReturn, Idle, vars
  <2>4. PICK next \in pick_next_runnable : last_picked' = next /\ processes'[next].state = "Running"
    <3>1. ReapedHere \subseteq Slots /\ AfterReap(ReapedHere) \in [Slots -> ProcessRecord]
      <4>1. ReapedHere \in SUBSET Slots /\ \A j \in ReapedHere : processes[j].state = "Zombie"
        BY DEF ReapedHere, WithState
      <4>. QED
        BY Zenon, <4>1, ReapFacts
    <3>. QED
      BY <2>3, <3>1 DEF Dispatch, pick_next_runnable, WithState, ProcessRecord
  <2>5. /\ next \in Slots /\ i # next
        /\ PickDistance(next) <= PickDistance(i)
        /\ last_picked \in Slots /\ MAX_PROCESSES \in Nat \ {0}
    BY <2>4, ProcessAssumption DEF pick_next_runnable, WithState, SchedulerInv, TypeOK
  <2>. QED
    BY <2>4, <2>5 DEF PickDistance
<1>. QED
  BY <1>1, SchedulerInvariant, PTL DEF Spec, DispatchBringsNearer

=============================================================================
