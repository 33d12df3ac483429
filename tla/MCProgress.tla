----------------------------- MODULE MCProgress -----------------------------
(***************************************************************************)
(* Programs that wait for each other: the pipe, the scheduler, tile with its*)
(* panes, and the kernel waiting for its tick. They share no state here, so *)
(* a behaviour is one of theirs: part says whose, and the rest stand still. *)
(* The pipe has three slots, so that writes of up to four bytes are cut     *)
(* short, and wrap from every position of the head.                         *)
(***************************************************************************)
EXTENDS ProgressProofs

CONSTANT Parts       \* the parts looked at

CONSTANTS MAX_PROCESSES, MaxPid, Images, Kernel, Nobody

\* What the proofs ask of it.
ASSUME EnoughTicks == ENOUGH \in Nat \ {0}

VARIABLES part, processes, next_pid, current, last_picked, frames, mode, cr3, rsp0,
          current_task, used

P == INSTANCE Process WITH None <- Nobody

sched_vars == <<processes, next_pid, current, last_picked, frames, mode, cr3, rsp0,
                current_task, used>>
tile_vars == <<tile_pc, pane, focused, prefix, quitting, alive, in, out, inW, inR, outW, outR,
               prog, keys, output>>
timer_vars == <<works, measured, always_running, timer_pc, source, armed, latched, service,
                since, target>>

MCInit ==
  /\ part \in Parts
  /\ create
  /\ P!Init
  /\ T!Init
  /\ C!Init
  /\ part # "timer" => works = {} /\ ~measured /\ ~always_running

MCNext ==
  /\ UNCHANGED part
  /\ IF part = "pipe" THEN Next ELSE UNCHANGED vars
  /\ IF part = "sched" THEN P!Next ELSE UNCHANGED sched_vars
  /\ IF part = "tile" THEN T!Next ELSE UNCHANGED tile_vars
  /\ IF part = "timer" THEN C!Next ELSE UNCHANGED timer_vars

MCVars == <<part, vars, sched_vars, tile_vars, timer_vars>>

Fairness ==
  /\ WF_sched_vars(part = "sched" /\ (P!WaitReturn \/ P!LaunchReturn \/ P!Dispatch))
  /\ WF_sched_vars(part = "sched" /\ P!Tick)
  /\ WF_tile_vars(part = "tile" /\ T!Tiles)
  /\ \A i \in T!Pane : WF_tile_vars(part = "tile" /\ T!Program(i))
  /\ WF_timer_vars(part = "timer" /\ C!CpuStep)
  /\ \A s \in C!Sources : WF_timer_vars(part = "timer" /\ C!Fire(s))
  /\ \A s \in C!Sources : WF_timer_vars(part = "timer" /\ C!irq_handler(s))

MCSpec == MCInit /\ [][MCNext]_MCVars /\ Fairness

-----------------------------------------------------------------------------
\* A process that stays runnable gets the CPU, in whichever nested loop the picking
\* happens (process.rs:308-360).
RunnableIsDispatched == P!RunnableIsDispatched

\* Ctrl-b q ends tile, whatever the panes are doing (pane.rs:98-103).
QuitEnds == T!QuitEnds

\* A sleep and a busy wait that count ticks end (timer.rs:192-222).
WaitsEnd == C!WaitsEnd

\* "Nothing here blocks: pipes never do, and keys are polled." (tile/src/lib.rs:25)
NothingBlocks == T!NothingBlocks
=============================================================================
