------------------------------ MODULE Process ------------------------------
(***************************************************************************)
(* The process table and the round-robin scheduler of the AnssOS kernel:   *)
(* kernel/src/exec/process.rs, the process system calls of                 *)
(* kernel/src/exec/syscall.rs, dispatch() of arch/x86_64/usermode.rs and   *)
(* the two interrupt paths of arch/x86_64/idt.rs that end a time slice.    *)
(*                                                                         *)
(* There is one CPU and ring 0 is never preempted, so a system call and    *)
(* one iteration of the scheduler loop are each one atomic step.  What     *)
(* makes the scheduler hard is that wait() calls run_until() RECURSIVELY   *)
(* on the waiting process's own kernel stack: `frames' is the stack of     *)
(* run_until() activations, the innermost one last, and everything that a  *)
(* nested dispatch saves and restores (CR3, TSS.RSP0, the current task,    *)
(* the resume point) is state here.                                        *)
(*                                                                         *)
(* An IMAGE stands for an address space together with the kernel stack     *)
(* allocated with it: elf::load() and fork() allocate the two together,    *)
(* exec() retires them together, reap() and free_pending() free them       *)
(* together.                                                               *)
(***************************************************************************)
EXTENDS Integers, Sequences, FiniteSets
LOCAL INSTANCE TLC

CONSTANTS
    MAX_PROCESSES,  \* slots of the process table
    MaxPid,         \* bound: the model stops creating processes after this pid
    Images,         \* what memory can hold: pairs (address space, kernel stack)
    Kernel,         \* the boot address space and the boot stack
    None            \* Option::None, a null pointer

ASSUME ProcessAssumption ==
    /\ MAX_PROCESSES \in Nat \ {0}
    /\ MaxPid \in Nat
    /\ Kernel \notin Images
    /\ None \notin Images \cup Int \cup {Kernel}

\* Images are interchangeable: memory may return any free one.
ImageSymmetry == Permutations(Images)

Slots == 0 .. MAX_PROCESSES - 1
KERNEL_PARENT_PID == -1

\* The statuses programs exit with (a crash gives -1).
Codes == {0}

VARIABLES
    processes,    \* TABLE.processes
    next_pid,     \* TABLE.next_pid
    current,      \* TABLE.current
    last_picked,  \* TABLE.last_picked
    frames,       \* the activations of run_until(), outermost first
    mode,         \* where the CPU is: "kernel" shell, "loop" of the innermost
                  \* run_until(), ring 3 ("user"), or a console read ("reading")
    cr3,          \* the active address space
    rsp0,         \* TSS.RSP0: the stack the next ring-3 interrupt lands on
    current_task, \* CURRENT_TASK
    used          \* the images allocated from memory

vars == <<processes, next_pid, current, last_picked, frames, mode, cr3, rsp0,
          current_task, used>>

\* A slot that holds no process.  reap() only sets the state; the other fields
\* are never read in that state and are overwritten whole by the next process.
EmptySlot == [pid |-> 0, parent_pid |-> 0, state |-> "Unused", exit_status |-> 0,
              has_run |-> FALSE, saved_rsp |-> None, image |-> None,
              pending_free |-> None, kernel_resume |-> 0]

Live(ps, i) == ps[i].state # "Unused"

WithState(ps, s) == {i \in Slots : ps[i].state = s}

Top == frames[Len(frames)]

Init ==
    /\ processes = [i \in Slots |-> EmptySlot]
    /\ next_pid = 1
    /\ current = None
    /\ last_picked = MAX_PROCESSES - 1
    /\ frames = <<>>
    /\ mode = "kernel"
    /\ cr3 = Kernel
    /\ rsp0 = Kernel
    /\ current_task = None
    /\ used = {}

----------------------------------------------------------------------------
(* Pieces of the code the actions share.                                   *)

\* alloc_slot(): the first unused slot, as a set of at most one.
alloc_slot ==
    {i \in Slots : ~Live(processes, i) /\ \A j \in 0 .. i - 1 : Live(processes, j)}

\* A new activation of run_until(wait), called with `current' as it is, running
\* on kernel stack `stack'.  The last two fields are the locals of a dispatch()
\* in progress.
RunUntil(wait, outer, stack) ==
    [wait_pid |-> wait, outer |-> outer, stack |-> stack,
     caller_as |-> None, caller_task |-> None]

\* What reap() and free_pending() give back to memory.
Held(p) == {p.image, p.pending_free} \ {None}

\* return_to_kernel() and the second half of dispatch(): unwind to the
\* activation of run_until() that dispatched the current task, restore the
\* current task and the address space its dispatch() saved, and go round the
\* loop.  RSP0 and `current' are left as they are.
ReturnToKernel ==
    LET depth == processes[current_task].kernel_resume
        f == frames[depth]
    IN  /\ frames' = [SubSeq(frames, 1, depth) EXCEPT
                         ![depth] = RunUntil(f.wait_pid, f.outer, f.stack)]
        /\ current_task' = f.caller_task
        /\ cr3' = f.caller_as
        /\ mode' = "loop"
        /\ UNCHANGED <<next_pid, current, last_picked, rsp0>>

\* A process the new slot i holds; m is the image loaded or cloned for it.
NewProcess(i, parent, has_run, saved, m) ==
    [processes EXCEPT ![i] =
        [EmptySlot EXCEPT !.pid = next_pid, !.parent_pid = parent, !.state = "Runnable",
                          !.has_run = has_run, !.saved_rsp = saved, !.image = m]]

----------------------------------------------------------------------------
(* The kernel launching a program: kmain booting sh, the shell's `run'.    *)

\* spawn() followed by run_until(None).
Launch ==
    /\ mode = "kernel"
    /\ next_pid <= MaxPid
    /\ \E i \in alloc_slot, m \in Images \ used :
        /\ processes' = NewProcess(i, KERNEL_PARENT_PID, FALSE, None, m)
        /\ used' = used \cup {m}
    /\ next_pid' = next_pid + 1
    /\ frames' = <<RunUntil(None, current, Kernel)>>
    /\ mode' = "loop"
    /\ UNCHANGED <<current, last_picked, cr3, rsp0, current_task>>

\* The kernel shell reading a line or running one of its own commands.
ShellCommand ==
    /\ mode = "kernel"
    /\ UNCHANGED vars

----------------------------------------------------------------------------
(* System calls and interrupts of the process running in ring 3.           *)

\* fork(): the child resumes from a frame at the top of its own kernel stack.
Fork ==
    /\ mode = "user"
    /\ next_pid <= MaxPid
    /\ \E i \in alloc_slot, m \in Images \ used :
        /\ processes' = NewProcess(i, processes[current].pid, TRUE, m, m)
        /\ used' = used \cup {m}
    /\ next_pid' = next_pid + 1
    /\ UNCHANGED <<current, last_picked, frames, mode, cr3, rsp0, current_task>>

\* execve(): the old image cannot be freed yet (the call runs on it), so it
\* waits in pending_free for free_pending(); the resume point of the dispatch
\* in progress is carried over.
Exec ==
    /\ mode = "user"
    /\ \E m \in Images \ used :
        /\ processes' = [processes EXCEPT
               ![current].pending_free = processes[current].image,
               ![current].image = m,
               ![current].has_run = FALSE,
               ![current].state = "Runnable"]
        /\ used' = used \cup {m}
    /\ ReturnToKernel

\* A process that will not run again becomes a zombie, until someone reaps it.
BecomeZombie(code) ==
    /\ mode = "user"
    /\ processes' = [processes EXCEPT ![current].state = "Zombie",
                                      ![current].exit_status = code]
    /\ ReturnToKernel
    /\ UNCHANGED used

\* exit(code).
Exit == \E code \in Codes : BecomeZombie(code)

\* A fault taken in ring 3 (isr_handler) ends the process with status -1.
Crash == BecomeZombie(-1)

\* The process goes back to the queue; the frame to resume it from is where the
\* CPU pushed it, on the stack RSP0 names.
Suspend ==
    /\ mode = "user"
    /\ processes' = [processes EXCEPT ![current].saved_rsp = rsp0,
                                      ![current].state = "Runnable"]
    /\ ReturnToKernel
    /\ UNCHANGED used

\* The tick interrupting ring 3 (irq_handler).
Tick == Suspend

\* sched_yield().
Yield == Suspend

\* find_child(): the child named, or any -- an exited one first, in table order.
find_child(parent, pid) ==
    LET child(i) == Live(processes, i) /\ processes[i].parent_pid = parent
        zombie(i) == child(i) /\ processes[i].state = "Zombie"
        first(P(_)) == {i \in Slots : P(i) /\ \A j \in 0 .. i - 1 : ~P(j)}
    IN  IF pid # None
        THEN {i \in Slots : child(i) /\ processes[i].pid = pid}
        ELSE IF \E i \in Slots : zombie(i) THEN first(zombie) ELSE first(child)

\* sys_wait(): a recursive call of run_until() on the caller's kernel stack.
Wait(pid) ==
    /\ mode = "user"
    /\ \E t \in find_child(processes[current].pid, pid) :
        frames' = Append(frames, RunUntil(processes[t].pid, current, rsp0))
    /\ mode' = "loop"
    /\ UNCHANGED <<processes, next_pid, current, last_picked, cr3, rsp0,
                   current_task, used>>

\* sys_read() of the console: it waits for a key inside the system call, where
\* no tick preempts it.
ReadConsole ==
    /\ mode = "user"
    /\ mode' = "reading"
    /\ UNCHANGED <<processes, next_pid, current, last_picked, frames, cr3, rsp0,
                   current_task, used>>

KeyPressed ==
    /\ mode = "reading"
    /\ mode' = "user"
    /\ UNCHANGED <<processes, next_pid, current, last_picked, frames, cr3, rsp0,
                   current_task, used>>

----------------------------------------------------------------------------
(* One iteration of the loop of the innermost run_until().                 *)

\* The slot of the process the innermost activation waits for.
Target ==
    {i \in Slots : Live(processes, i) /\ processes[i].pid = Top.wait_pid}

\* The check at the top of the loop that ends a wait: the target is gone, or it
\* is a zombie and is reaped.
WaitOver ==
    /\ Top.wait_pid # None
    /\ \A i \in Target : processes[i].state = "Zombie"

\* The top-level loop reaps every zombie it meets.
ReapedHere ==
    IF Top.wait_pid = None THEN WithState(processes, "Zombie") ELSE {}

AfterReap(dead) ==
    [i \in Slots |-> IF i \in dead THEN EmptySlot ELSE processes[i]]

FreedBy(dead) == UNION {Held(processes[i]) : i \in dead}

\* Mutant of WaitReturn: RSP0 stays at whichever process ran last.
WaitReturnLeavesRsp0 ==
    /\ mode = "loop"
    /\ WaitOver
    /\ processes' = AfterReap(Target)
    /\ used' = used \ FreedBy(Target)
    /\ current' = Top.outer
    /\ frames' = SubSeq(frames, 1, Len(frames) - 1)
    /\ mode' = "user"
    /\ UNCHANGED <<next_pid, last_picked, cr3, rsp0, current_task>>

\* run_until(Some(pid)) returns into the system call of `outer': the target is
\* reaped, `current' and RSP0 are put back, and wait() returns to ring 3.
WaitReturn ==
    /\ mode = "loop"
    /\ WaitOver
    /\ processes' = AfterReap(Target)
    /\ used' = used \ FreedBy(Target)
    /\ current' = Top.outer
    /\ rsp0' = processes[Top.outer].image
    /\ frames' = SubSeq(frames, 1, Len(frames) - 1)
    /\ mode' = "user"
    /\ UNCHANGED <<next_pid, last_picked, cr3, current_task>>

\* run_until(None) returns to the kernel shell: nobody is left.
LaunchReturn ==
    /\ mode = "loop"
    /\ Top.wait_pid = None
    /\ \A i \in Slots : processes[i].state \in {"Unused", "Zombie"}
    /\ processes' = AfterReap(ReapedHere)
    /\ used' = used \ FreedBy(ReapedHere)
    /\ current' = Top.outer
    /\ frames' = SubSeq(frames, 1, Len(frames) - 1)
    /\ mode' = "kernel"
    /\ UNCHANGED <<next_pid, last_picked, cr3, rsp0, current_task>>

\* The distance pick_next_runnable() walks from last_picked to reach slot i.
PickDistance(i) ==
    IF i > last_picked THEN i - last_picked ELSE i + MAX_PROCESSES - last_picked

\* Mutant of pick_next_runnable: the search always starts at slot 0.
PickFromSlotZero ==
    {i \in WithState(processes, "Runnable") :
        \A j \in WithState(processes, "Runnable") : i <= j}

pick_next_runnable ==
    {i \in WithState(processes, "Runnable") :
        \A j \in WithState(processes, "Runnable") : PickDistance(i) <= PickDistance(j)}

\* Mutant of Pending: free_pending() frees the image exec() has just loaded.
PendingIsNewImage(p) == IF p.pending_free = None THEN {} ELSE {p.image}

\* Mutant of Pending: free_pending() forgets what it takes.
PendingForgotten(p) == {}

\* What free_pending() frees.
Pending(p) == {p.pending_free} \ {None}

\* The locals of dispatch() the unwinding restores the caller from.
DispatchLocals ==
    [frames EXCEPT ![Len(frames)].caller_as = cr3,
                   ![Len(frames)].caller_task = current_task]

\* The rest of the iteration: free_pending(), mark the process picked as
\* running, and dispatch() it -- park what the unwinding has to restore, load
\* RSP0, CR3 and the current task, and enter or resume ring 3.
Dispatch ==
    /\ mode = "loop"
    /\ ~WaitOver
    /\ \E next \in pick_next_runnable :
        /\ processes' = [AfterReap(ReapedHere) EXCEPT
               ![next].pending_free = None,
               ![next].state = "Running",
               ![next].has_run = TRUE,
               ![next].kernel_resume = Len(frames)]
        /\ used' = used \ (FreedBy(ReapedHere) \cup Pending(processes[next]))
        /\ last_picked' = next
        /\ current' = next
        /\ rsp0' = processes[next].image
        /\ cr3' = processes[next].image
        /\ current_task' = next
    /\ frames' = DispatchLocals
    /\ mode' = "user"
    /\ UNCHANGED next_pid

\* Nothing is runnable: wait for an interrupt and go round again.
Idle ==
    /\ mode = "loop"
    /\ ~WaitOver
    /\ WithState(processes, "Runnable") = {}
    /\ WithState(processes, "Running") # {}
    /\ UNCHANGED vars

----------------------------------------------------------------------------

UserStep ==
    \/ Fork
    \/ Exec
    \/ Exit
    \/ Crash
    \/ Tick
    \/ Yield
    \/ \E pid \in 1 .. MaxPid \cup {None} : Wait(pid)
    \/ ReadConsole
    \/ KeyPressed

LoopStep == WaitReturn \/ LaunchReturn \/ Dispatch \/ Idle

Next == Launch \/ ShellCommand \/ UserStep \/ LoopStep

Spec == Init /\ [][Next]_vars

\* The loop of run_until() never stops by itself, and the timer keeps ticking,
\* so a process that stays in ring 3 is interrupted.  Nothing obliges a program
\* to make a system call, to exit, or a user to press a key.
Fairness ==
    /\ WF_vars(WaitReturn \/ LaunchReturn \/ Dispatch)
    /\ WF_vars(Tick)

----------------------------------------------------------------------------
(* Properties.                                                             *)

Slot == Slots \cup {None}
Image == Images \cup {None}
Stack == Images \cup {Kernel}

ProcessRecord ==
    [pid : Nat, parent_pid : Int, state : {"Unused", "Runnable", "Running", "Zombie"},
     exit_status : Codes \cup {-1}, has_run : BOOLEAN, saved_rsp : Image \cup Stack,
     image : Image, pending_free : Image, kernel_resume : Nat]

FrameRecord ==
    [wait_pid : Nat \cup {None}, outer : Slot, stack : Stack,
     caller_as : Stack \cup {None}, caller_task : Slot]

\* Every variable holds a value of its type.
TypeOK ==
    /\ processes \in [Slots -> ProcessRecord]
    /\ next_pid \in Nat \ {0}
    /\ current \in Slot
    /\ last_picked \in Slots
    /\ frames \in Seq(FrameRecord)
    /\ mode \in {"kernel", "loop", "user", "reading"}
    /\ cr3 \in Stack
    /\ rsp0 \in Stack
    /\ current_task \in Slot
    /\ used \in SUBSET Images

\* The processes whose wait() is on the stack of activations.
Hosts == {frames[k].outer : k \in 2 .. Len(frames)}

OnCpu == mode \in {"user", "reading"}

\* While a process runs in ring 3 or in a system call, `current' and
\* CURRENT_TASK name the same process, it is the Running one that no wait() has
\* parked, CR3 and TSS.RSP0 are its own image, and its resume point is the
\* innermost activation of run_until() -- whatever nest of dispatches ran before
\* (dispatch() and the end of run_until() restore all of these).
CpuContextIsCurrents ==
    OnCpu =>
        /\ current # None
        /\ current_task = current
        /\ current \notin Hosts
        /\ WithState(processes, "Running") = Hosts \cup {current}
        /\ cr3 = processes[current].image
        /\ rsp0 = processes[current].image
        /\ processes[current].kernel_resume = Len(frames)

\* Memory is never freed under the CPU: the active address space, the stack
\* every activation of run_until() runs on and the one RSP0 names (while a
\* process is on the CPU) are allocated, and each stack belongs to the process
\* that called wait() (what reap()'s and exec()'s comments promise).
NothingInUseIsFreed ==
    /\ cr3 \in used \cup {Kernel}
    /\ OnCpu => rsp0 \in used
    /\ \A k \in 2 .. Len(frames) :
        /\ frames[k].stack \in used
        /\ frames[k].stack = processes[frames[k].outer].image

\* A process about to be resumed has its frame on its own, live kernel stack:
\* exec() and preemption never leave a stale saved_rsp that is used.
ResumeFrameIsLive ==
    \A i \in WithState(processes, "Runnable") :
        processes[i].has_run => /\ processes[i].saved_rsp = processes[i].image
                                /\ processes[i].saved_rsp \in used

\* Every allocated image is held by exactly one process, as its image or as
\* what an earlier exec() left to free, and nothing else is allocated: no leak
\* and no double use (fork, exec, free_pending and reap together).
ImagesAccountedFor ==
    /\ used = UNION {Held(processes[i]) : i \in {j \in Slots : Live(processes, j)}}
    /\ \A i \in Slots : Live(processes, i) => processes[i].image # processes[i].pending_free
    /\ \A i, j \in Slots :
        i # j => Held(processes[i]) \cap Held(processes[j]) = {}

\* A process that waits is waiting for a live child of its own, until its own
\* run_until() reaps it: nobody else takes the status away, so a wait() that
\* found its child never returns run_until()'s "no such process" -1.
WaitTargetStays ==
    \A k \in 2 .. Len(frames) :
        \E i \in Slots :
            /\ Live(processes, i)
            /\ processes[i].pid = frames[k].wait_pid
            /\ processes[i].parent_pid = processes[frames[k].outer].pid

\* When the kernel shell has the CPU every slot is free and every image is back
\* in memory: run_until(None) leaves nothing behind.
KernelShellSeesEmptyTable ==
    mode = "kernel" => /\ \A i \in Slots : ~Live(processes, i)
                       /\ used = {}
                       /\ cr3 = Kernel

\* Round robin: every dispatch of another process brings a process that stays
\* runnable strictly nearer to the head of pick_next_runnable()'s search, in
\* whichever activation of run_until() it happens.  So nobody is overtaken more
\* than MAX_PROCESSES times.
DispatchBringsNearer ==
    [][\A i \in Slots :
         /\ processes[i].state = "Runnable"
         /\ processes'[i].state = "Runnable"
         /\ mode = "loop" /\ mode' = "user" /\ Len(frames') = Len(frames)
         => PickDistance(i)' < PickDistance(i)]_vars

\* A runnable process gets the CPU, however the nested loops interleave, unless
\* a process sits in a console read (which holds the CPU in ring 0).
RunnableIsDispatched ==
    \A i \in Slots :
        processes[i].state = "Runnable"
            ~> (processes[i].state = "Running" \/ mode = "reading")

\* The scheduler can go on: a loop that has nothing runnable is only there for
\* the moment it takes to see that its wait is over.
Stuck ==
    /\ mode = "loop"
    /\ ~WaitOver
    /\ WithState(processes, "Runnable") = {}
    /\ WithState(processes, "Running") # {}

\* "Blocks by running other processes (the target among them) ... until it
\* exits" (sys_wait): while a wait() lasts there is some process to run.
WaitRunsOthers == ~Stuck

----------------------------------------------------------------------------
(* The inductive invariant behind the safety properties.                   *)

\* The activations of run_until(): the kernel's own at the bottom, then one per
\* waiting process, on that process's stack; below the innermost one each has a
\* dispatch in progress that saved its own context.
StackInv ==
    /\ mode = "kernel" <=> Len(frames) = 0
    /\ \A k \in 1 .. Len(frames) :
        /\ k = 1 => /\ frames[k].wait_pid = None
                    /\ frames[k].outer = None
                    /\ frames[k].stack = Kernel
        /\ k > 1 => /\ frames[k].wait_pid # None
                    /\ frames[k].outer \in Slots
                    /\ processes[frames[k].outer].state = "Running"
                    /\ processes[frames[k].outer].kernel_resume = k - 1
                    /\ frames[k].stack = processes[frames[k].outer].image
        /\ (k < Len(frames) \/ OnCpu) =>
                    /\ frames[k].caller_as = frames[k].stack
                    /\ frames[k].caller_task = frames[k].outer

\* What the CPU holds, by where it is; and a Running process is the one on the
\* CPU or one that waits.
CpuInv ==
    /\ mode = "kernel" => /\ cr3 = Kernel
                          /\ current = None
                          /\ current_task = None
                          /\ \A i \in Slots : ~Live(processes, i)
    /\ mode = "loop" => cr3 = Top.stack /\ current_task = Top.outer
    /\ OnCpu => /\ current \in Slots
                /\ current_task = current
                /\ processes[current].state = "Running"
                /\ processes[current].kernel_resume = Len(frames)
                /\ cr3 = processes[current].image
                /\ rsp0 = processes[current].image
    /\ \A i \in Slots : processes[i].state = "Running" =>
            \/ OnCpu /\ i = current
            \/ \E k \in 2 .. Len(frames) : frames[k].outer = i

\* One process and the images `u' in use: only a process that exec()ed and has
\* not been dispatched since has something pending, and a process that will be
\* resumed has its frame on its own stack.
HoldsImages(p, u) ==
    /\ p.state = "Unused" => p = EmptySlot
    /\ p.state # "Unused" =>
        /\ p.image \in u
        /\ p.pending_free \in u \cup {None}
        /\ p.image # p.pending_free
        /\ p.pending_free # None => p.state = "Runnable"
        /\ p.state = "Runnable" /\ p.has_run => p.saved_rsp = p.image

\* The table ps and the images u in use: no image is held by two processes, and
\* none by nobody.
Accounted(ps, u) ==
    /\ \A i \in Slots : HoldsImages(ps[i], u)
    /\ \A i, j \in Slots : i # j =>
            \A m \in Images : ~(m \in Held(ps[i]) /\ m \in Held(ps[j]))
    /\ \A m \in u : \E i \in Slots : m \in Held(ps[i])

MemoryInv == Accounted(processes, used)

\* Pids are never reused.
PidInv ==
    /\ \A i \in Slots : Live(processes, i) => 0 < processes[i].pid /\ processes[i].pid < next_pid
    /\ \A i, j \in Slots :
        Live(processes, i) /\ Live(processes, j) /\ processes[i].pid = processes[j].pid => i = j

SchedulerInv == TypeOK /\ StackInv /\ CpuInv /\ MemoryInv /\ PidInv /\ WaitTargetStays

=============================================================================
