--------------------------- MODULE ProgressProofs ---------------------------
(***************************************************************************)
(* Proofs about what programs wait for: the kernel's tick, tile's panes,    *)
(* and the pipe.  The tick's invariant says what each stage of check()      *)
(* knows; tile's, that whoever may still write to a pane holds its end.     *)
(* The ring implements the queue for every buffer size: TypeOK is inductive,*)
(* and under it every step of the ring is a step of Fifo on the contents,   *)
(* or leaves them alone.                                                    *)
(***************************************************************************)
EXTENDS Pipe, SequenceTheorems, TLAPS

CONSTANTS Panes, CAPACITY, MaxKeys, MaxOutput, ENOUGH

VARIABLES tile_pc, pane, focused, prefix, quitting, alive, in, out, inW, inR, outW, outR,
          prog, keys, output, works, measured, always_running, timer_pc, source, armed,
          latched, service, since, target

T == INSTANCE Tile WITH count <- Panes, pc <- tile_pc
C == INSTANCE Timer WITH pc <- timer_pc

-----------------------------------------------------------------------------
(* The tick. *)

\* check() leaves the kernel with a source whose ticks arrive, and gives up only if
\* none could, or a tick that came between its steps was never acknowledged
\* (timer.rs:121-174, idt.rs:221-225).
TickSource == C!TickSource

\* What a stage of check() knows of the sources, from the interrupts it saw or missed.
Untried == source = "None" /\ armed = {} /\ latched = {} /\ service = {}
Trying ==
  /\ source = (IF measured THEN "Lapic" ELSE "Pit")
  /\ armed = {source} /\ latched \subseteq armed /\ service = {}
  /\ since > 0 => source \in works
Stepping ==
  /\ measured /\ source = "Lapic" /\ "Lapic" \notin works
  /\ armed = (IF timer_pc = "mask" THEN {"Lapic"} ELSE IF timer_pc = "pit" THEN {} ELSE {"Pit"})
  /\ timer_pc # "source" => service = {} /\ latched = {}
Retrying ==
  /\ measured /\ source = "Pit" /\ "Lapic" \notin works /\ armed = {"Pit"}
  /\ since > 0 => service = {} /\ "Pit" \in works
Failing ==
  /\ source = "Pit" /\ armed = {"Pit"} /\ "Lapic" \notin latched
  /\ works \cap (IF measured THEN C!Sources ELSE {"Pit"}) = {} \/ "Pit" \in service
Settled == C!TickSource /\ latched \subseteq (IF source = "None" THEN {"Pit"} ELSE armed)

Running == {"ready", "sleeping", "pause", "halted", "polling", "busy", "window"}

TimerType ==
  /\ works \subseteq C!Sources /\ latched \subseteq works /\ service \subseteq works
  /\ measured \in BOOLEAN /\ since \in Nat

Stages ==
  \/ timer_pc = "boot" /\ Untried
  \/ timer_pc = "check" /\ Trying
  \/ timer_pc \in {"mask", "pit", "source"} /\ Stepping
  \/ timer_pc = "recheck" /\ Retrying
  \/ timer_pc = "give up" /\ Failing
  \/ timer_pc \in Running /\ Settled

TimerInv == TimerType /\ Stages

(* Nothing is armed before init(). *)
LEMMA TimerInitially == C!Init => TimerInv
  BY DEF C!Init, TimerInv, TimerType, Stages, Untried

(* Only a source whose interrupts reach the CPU is ever latched or in service. *)
LEMMA TimerTypeKept ==
  ASSUME ENOUGH \in Nat \ {0}, TimerType, [C!Next]_(C!vars)
  PROVE TimerType'
<1>1. ASSUME NEW s \in C!Sources, C!Fire(s) PROVE TimerType'
  BY <1>1 DEF TimerType, C!Sources, C!Fire, C!Counts, C!machine
<1>2. ASSUME NEW s \in C!Sources, C!irq_handler(s) PROVE TimerType'
  BY <1>2 DEF TimerType, C!Sources, C!irq_handler, C!Deliverable, C!machine
<1>3. CASE UNCHANGED <<C!machine, latched, service>> /\ since' \in {0, since}
  BY <1>3 DEF TimerType, C!Sources, C!machine
<1>4. CASE \/ C!CpuStep \/ UNCHANGED C!vars
           \/ \E n \in 1 .. ENOUGH - 1 : C!sleep_ms(n) \/ C!BusyWait(n)
  BY Zenon, <1>3, <1>4
     DEF C!CpuStep, C!init, C!check, C!Arrive, C!Expire, C!MaskLapic, C!StartPit, C!SetSource,
         C!GiveUp, C!poll_wait_ms, C!Sleep, C!idle, C!sleep_ms, C!BusyWait, C!vars
<1> QED
  BY <1>1, <1>2, <1>4 DEF C!Next

(* Every stage of init() and check() hands the next what that one starts from, with
   interrupts of either source between any two of its steps. *)
LEMMA TimerStagesKept ==
  ASSUME ENOUGH \in Nat \ {0}, TimerInv, C!Next
  PROVE Stages'
<1>0. TimerType /\ TimerType' /\ Stages
  BY TimerTypeKept DEF TimerInv
<1>1. CASE timer_pc = "boot" /\ Untried
  <2>1. C!init
    BY <1>1 DEF Untried, C!Next, C!Fire, C!Counts, C!irq_handler, C!CpuStep, C!check, C!Arrive,
       C!Expire, C!MaskLapic, C!StartPit, C!SetSource, C!GiveUp, C!poll_wait_ms, C!Sleep, C!idle,
       C!sleep_ms, C!BusyWait
  <2> QED
    BY <1>1, <2>1 DEF Untried, C!init, C!start_pit, C!machine, Stages, Trying
<1>2. CASE timer_pc = "check" /\ Trying
  <2>1. (\E s \in C!Sources : C!Fire(s) \/ C!irq_handler(s)) \/ C!Arrive \/ C!Expire
    BY <1>2 DEF C!Next, C!init, C!CpuStep, C!check, C!MaskLapic, C!StartPit, C!SetSource,
       C!GiveUp, C!poll_wait_ms, C!Sleep, C!idle, C!sleep_ms, C!BusyWait
  <2>2. ASSUME NEW s \in C!Sources, C!Fire(s) PROVE Stages'
    BY <1>2, <2>2 DEF Trying, C!Fire, C!Counts, C!machine, Stages
  <2>3. ASSUME NEW s \in C!Sources, C!irq_handler(s) PROVE Stages'
    <3>1. /\ s = source /\ source' = source /\ timer_pc' = timer_pc /\ armed' = armed
          /\ latched' = latched \ {s} /\ s \in works
      BY <1>0, <1>2, <2>3 DEF Trying, C!irq_handler, C!Deliverable, TimerType
    <3>2. service' = {}
      BY <1>2, <2>3, <3>1 DEF Trying, C!irq_handler, C!uses_lapic
    <3> QED
      BY <1>2, <2>3, <3>1, <3>2 DEF Trying, C!irq_handler, C!machine, Stages
  <2>4. CASE C!Arrive
    BY <1>0, <1>2, <2>4 DEF Trying, C!Arrive, C!machine, Stages, Settled, Running, C!TickSource
  <2>5. CASE C!Expire
    BY Zenon, <1>0, <1>2, <2>5
       DEF Trying, C!Expire, C!Ticking, C!Counts, C!Deliverable, C!machine, Stages, Stepping,
           Failing, TimerType, C!Sources
  <2> QED
    BY <2>1, <2>2, <2>3, <2>4, <2>5
<1>3. CASE timer_pc \in {"mask", "pit", "source"} /\ Stepping
  <2>1. \/ \E s \in C!Sources : C!Fire(s) \/ C!irq_handler(s)
        \/ C!MaskLapic \/ C!StartPit \/ C!SetSource
    BY Zenon, <1>3
       DEF C!Next, C!init, C!CpuStep, C!check, C!Arrive, C!Expire, C!GiveUp, C!poll_wait_ms,
           C!Sleep, C!idle, C!sleep_ms, C!BusyWait
  <2>2. ASSUME NEW s \in C!Sources, C!Fire(s) PROVE Stages'
    BY Zenon, <1>3, <2>2 DEF Stepping, C!Fire, C!Counts, C!machine, Stages
  <2>3. ASSUME NEW s \in C!Sources, C!irq_handler(s) PROVE Stages'
    BY Zenon, <1>3, <2>3 DEF Stepping, C!irq_handler, C!Deliverable, C!machine, Stages
  <2>4. CASE C!MaskLapic
    BY <1>3, <2>4 DEF Stepping, C!MaskLapic, C!machine, Stages
  <2>5. CASE C!StartPit
    BY <1>3, <2>5 DEF Stepping, C!StartPit, C!start_pit, C!machine, Stages
  <2>6. CASE C!SetSource
    BY SMTT(30), <1>3, <2>6 DEF Stepping, C!SetSource, C!machine, Stages, Retrying
  <2> QED
    BY <2>1, <2>2, <2>3, <2>4, <2>5, <2>6
<1>4. CASE timer_pc = "recheck" /\ Retrying
  <2>1. (\E s \in C!Sources : C!Fire(s) \/ C!irq_handler(s)) \/ C!Arrive \/ C!Expire
    BY <1>4 DEF C!Next, C!init, C!CpuStep, C!check, C!MaskLapic, C!StartPit, C!SetSource,
       C!GiveUp, C!poll_wait_ms, C!Sleep, C!idle, C!sleep_ms, C!BusyWait
  <2>2. ASSUME NEW s \in C!Sources, C!Fire(s) PROVE Stages'
    BY <1>4, <2>2 DEF Retrying, C!Fire, C!machine, Stages
  <2>3. ASSUME NEW s \in C!Sources, C!irq_handler(s) PROVE Stages'
    <3>1. s = "Pit" /\ source' = source /\ timer_pc' = timer_pc /\ armed' = armed /\ s \in works
      BY <1>0, <1>4, <2>3 DEF Retrying, C!irq_handler, C!Deliverable, TimerType, C!Sources
    <3>2. service' = {}
      BY <1>0, <1>4, <2>3, <3>1 DEF Retrying, C!irq_handler, C!Deliverable, C!uses_lapic,
         TimerType, C!Sources
    <3> QED
      BY <1>4, <2>3, <3>1, <3>2 DEF Retrying, C!irq_handler, C!machine, Stages
  <2>4. CASE C!Arrive
    BY <1>0, <1>4, <2>4 DEF Retrying, C!Arrive, C!machine, Stages, Settled, Running,
       C!TickSource, TimerType, C!Sources
  <2>5. CASE C!Expire
    BY Zenon, <1>0, <1>4, <2>5
       DEF Retrying, C!Expire, C!Ticking, C!Counts, C!machine, Stages, Failing, TimerType,
           C!Sources
  <2> QED
    BY <2>1, <2>2, <2>3, <2>4, <2>5
<1>5. CASE timer_pc = "give up" /\ Failing
  <2>1. (\E s \in C!Sources : C!Fire(s) \/ C!irq_handler(s)) \/ C!GiveUp
    BY Zenon, <1>5
       DEF C!Next, C!init, C!CpuStep, C!check, C!Arrive, C!Expire, C!MaskLapic, C!StartPit,
           C!SetSource, C!poll_wait_ms, C!Sleep, C!idle, C!sleep_ms, C!BusyWait
  <2>2. ASSUME NEW s \in C!Sources, C!Fire(s) PROVE Stages'
    BY Zenon, <1>5, <2>2 DEF Failing, C!Fire, C!Counts, C!machine, Stages
  <2>3. ASSUME NEW s \in C!Sources, C!irq_handler(s) PROVE Stages'
    BY Zenon, <1>0, <1>5, <2>3 DEF Failing, C!irq_handler, C!Deliverable, C!Sources, TimerType
  <2>4. CASE C!GiveUp
    BY Zenon, <1>0, <1>5, <2>4
       DEF Failing, C!GiveUp, C!machine, Stages, Settled, Running, C!TickSource, TimerType,
           C!Sources
  <2> QED
    BY <2>1, <2>2, <2>3, <2>4
<1>6. CASE timer_pc \in Running /\ Settled
  <2>1. \/ \E s \in C!Sources : C!Fire(s) \/ C!irq_handler(s)
        \/ UNCHANGED <<C!machine, source, armed, latched, service>> /\ timer_pc' \in Running
    BY Zenon, <1>6
       DEF Running, C!Next, C!init, C!CpuStep, C!check, C!Arrive, C!Expire, C!MaskLapic,
           C!StartPit, C!SetSource, C!GiveUp, C!poll_wait_ms, C!Sleep, C!idle, C!sleep_ms,
           C!BusyWait
  <2>2. ASSUME NEW s \in C!Sources, C!Fire(s) PROVE Stages'
    BY Zenon, <1>6, <2>2
       DEF Settled, C!TickSource, C!Booted, Running, C!Fire, C!Counts, C!machine, Stages
  <2>3. ASSUME NEW s \in C!Sources, C!irq_handler(s) PROVE Stages'
    <3>1. C!Booted
      BY Zenon, <1>6 DEF Running, C!Booted
    <3>2. source # "None"
      BY <1>6, <2>3, <3>1 DEF Settled, C!TickSource, C!irq_handler, C!Deliverable
    <3>3. /\ source \in works /\ armed = {source} /\ source \notin service
          /\ latched \subseteq {source}
      BY <1>6, <3>1, <3>2 DEF Settled, C!TickSource
    <3>4. s = source /\ source \in {"Lapic", "Pit"}
      BY <1>0, <2>3, <3>3 DEF C!irq_handler, C!Deliverable, TimerType, C!Sources
    <3>5. source' = source /\ armed' = armed /\ works' = works /\ latched' \subseteq {source}
      BY <2>3, <3>3 DEF C!irq_handler, C!machine
    <3>6. source' \notin service'
      BY <2>3, <3>3, <3>4, <3>5 DEF C!irq_handler, C!uses_lapic
    <3>7. timer_pc' \in Running
      BY <1>6, <2>3 DEF C!irq_handler, Running
    <3>8. Settled'
      BY <3>2, <3>3, <3>5, <3>6 DEF Settled, C!TickSource
    <3> QED
      BY Zenon, <3>7, <3>8 DEF Stages
  <2>4. CASE UNCHANGED <<C!machine, source, armed, latched, service>> /\ timer_pc' \in Running
    BY Zenon, <1>6, <2>4 DEF Settled, C!TickSource, C!Booted, Running, C!machine, Stages
  <2> QED
    BY <2>1, <2>2, <2>3, <2>4
<1> QED
  BY Zenon, <1>0, <1>1, <1>2, <1>3, <1>4, <1>5, <1>6 DEF Stages

(* check() settles on a source whose ticks arrive and are acknowledged, and on none only
   if no source it could try works, or if a tick of the PIT came between its steps and was
   acknowledged to the Local APIC (timer.rs:121-174, idt.rs:221-225). *)
THEOREM TimerTickSource ==
  ASSUME ENOUGH \in Nat \ {0} PROVE C!Spec => []TickSource
<1>1. TimerInv /\ UNCHANGED C!vars => TimerInv'
  <2> SUFFICES ASSUME TimerInv, UNCHANGED C!vars PROVE TimerInv'
    OBVIOUS
  <2>1. TimerType'
    BY DEF TimerInv, TimerType, C!vars, C!machine
  <2>2. /\ Untried' = Untried /\ Trying' = Trying /\ Stepping' = Stepping
        /\ Retrying' = Retrying /\ Failing' = Failing /\ Settled' = Settled
    BY Zenon DEF Untried, Trying, Stepping, Retrying, Failing, Settled, C!TickSource, C!Booted,
       C!vars, C!machine
  <2> QED
    BY Zenon, <2>1, <2>2 DEF TimerInv, Stages, C!vars
<1>2. TimerInv /\ [C!Next]_(C!vars) => TimerInv'
  BY <1>1, TimerTypeKept, TimerStagesKept DEF TimerInv
<1>3. TimerInv => TickSource
  BY Zenon DEF TimerInv, Stages, Settled, Running, TickSource, C!TickSource, C!Booted
<1> QED
  BY TimerInitially, <1>2, <1>3, PTL DEF C!Spec

-----------------------------------------------------------------------------
(* tile. *)

\* What a program prints before it exits is read before its pane is given up
\* (pane.rs:65-93).
OutputComplete == T!OutputComplete

\* A process that may still write holds the end it writes to.
TileType ==
  /\ alive \in [T!Pane -> BOOLEAN] /\ out \in [T!Pane -> Nat] /\ outW \in [T!Pane -> SUBSET Nat]
  /\ prog \in [T!Pane -> {"none", "forked", "idle", "writing", "exited"}]
  /\ pane \in Nat
Writers == \A i \in T!Pane : prog[i] \in {"forked", "idle", "writing"} => i \in outW[i]

TileInv == TileType /\ Writers /\ T!OutputComplete

(* Before a pane has a program there is nothing to lose. *)
LEMMA TileInitially == T!Init => TileInv
  BY DEF T!Init, TileInv, TileType, Writers, T!OutputComplete

(* spawn(): the child alone keeps the end that its program writes to. *)
LEMMA TileSpawnKeeps == ASSUME TileInv, T!spawn PROVE TileInv'
<1>1. /\ prog' = [prog EXCEPT ![pane] = "forked"] /\ alive' = [alive EXCEPT ![pane] = TRUE]
      /\ outW' = [outW EXCEPT ![pane] = {pane}] /\ out' = out /\ pane' \in {pane + 1, 1}
      /\ tile_pc = "spawn"
  BY DEF T!spawn, T!ChildWrites
<1>2. TileType'
  <2>1. pane \in Nat /\ pane' \in Nat
    BY <1>1 DEF TileInv, TileType
  <2>2. outW' \in [T!Pane -> SUBSET Nat]
    BY Zenon, <1>1, <2>1 DEF TileInv, TileType
  <2>3. alive' \in [T!Pane -> BOOLEAN] /\ out' \in [T!Pane -> Nat]
    BY Zenon, <1>1 DEF TileInv, TileType
  <2>4. prog' \in [T!Pane -> {"none", "forked", "idle", "writing", "exited"}]
    BY Zenon, <1>1 DEF TileInv, TileType
  <2> QED
    BY <2>1, <2>2, <2>3, <2>4 DEF TileType
<1>3. Writers'
  BY <1>1 DEF TileInv, TileType, Writers
<1>4. T!OutputComplete'
  BY <1>1 DEF TileInv, TileType, T!OutputComplete
<1> QED
  BY <1>2, <1>3, <1>4 DEF TileInv

(* A process that ends takes its ends along. *)
LEMMA TileExitKeeps == ASSUME NEW i \in T!Pane, TileInv, T!Exits(i) PROVE TileInv'
<1>1. /\ prog' = [prog EXCEPT ![i] = "exited"] /\ outW' = [j \in T!Pane |-> outW[j] \ {i}]
      /\ UNCHANGED <<alive, out, pane, tile_pc>>
  BY DEF T!Exits, T!Leave, T!Without, T!tile
<1>2. TileType'
  BY <1>1 DEF TileInv, TileType
<1>3. Writers'
  BY <1>1 DEF TileInv, TileType, Writers
<1>4. T!OutputComplete'
  <2> SUFFICES ASSUME NEW j \in T!Pane, prog'[j] # "none", ~alive'[j]
               PROVE  outW'[j] = {} /\ (tile_pc' # "done" => out'[j] = 0)
    BY DEF T!OutputComplete
  <2>1. prog[j] # "none"
    <3>1. CASE j = i
      BY <3>1 DEF T!Exits
    <3>2. CASE j # i
      BY <1>1, <3>2 DEF TileInv, TileType
    <3> QED
      BY <3>1, <3>2
  <2>2. outW[j] = {} /\ (tile_pc # "done" => out[j] = 0)
    BY <1>1, <2>1 DEF TileInv, T!OutputComplete
  <2> QED
    BY <1>1, <2>2
<1> QED
  BY <1>2, <1>3, <1>4 DEF TileInv

(* When tile itself ends, its panes keep theirs. *)
LEMMA TileQuitKeeps ==
  ASSUME TileInv, tile_pc' = "done", T!Leave(T!Tile), UNCHANGED <<alive, out, prog, pane>>
  PROVE TileInv'
<1>1. outW' = [j \in T!Pane |-> outW[j] \ {0}]
  BY DEF T!Leave, T!Without, T!Tile
<1>2. TileType'
  BY <1>1 DEF TileInv, TileType
<1>3. Writers'
  BY <1>1 DEF TileInv, TileType, Writers, T!Pane
<1>4. T!OutputComplete'
  BY <1>1 DEF TileInv, TileType, T!OutputComplete
<1> QED
  BY <1>2, <1>3, <1>4 DEF TileInv

(* A program that writes still holds its end, so its pane is not given up. *)
LEMMA TileWriteKeeps == ASSUME NEW i \in T!Pane, TileInv, T!Writes(i) PROVE TileInv'
<1>1. /\ prog[i] = "writing" /\ prog' = [prog EXCEPT ![i] = "idle"]
      /\ UNCHANGED <<alive, outW, pane, tile_pc>>
      /\ out' = out \/ out' = [out EXCEPT ![i] = @ + 1]
  BY DEF T!Writes, T!tile
<1>2. TileType'
  BY <1>1 DEF TileInv, TileType
<1>3. Writers'
  BY <1>1 DEF TileInv, TileType, Writers
<1>4. T!OutputComplete'
  BY <1>1 DEF TileInv, TileType, Writers, T!OutputComplete
<1> QED
  BY <1>2, <1>3, <1>4 DEF TileInv

(* pump() gives a pane up only when nobody holds the end and it has read everything. *)
LEMMA TilePumpKeeps == ASSUME TileInv, T!pump PROVE TileInv'
<1>1. /\ UNCHANGED <<outW, prog>> /\ tile_pc = "pump" /\ tile_pc' # "done"
      /\ pane' \in {pane, pane + 1, 1}
      /\ out' = out \/ out' = [out EXCEPT ![pane] = 0]
      /\ \/ alive' = alive
         \/ /\ alive' = [alive EXCEPT ![pane] = FALSE]
            /\ outW[pane] = {} /\ out[pane] = 0 /\ out' = out
  BY DEF T!pump, T!Pumped, T!Drained, T!tile, T!pipes
<1>2. TileType'
  <2>1. pane' \in Nat
    BY <1>1 DEF TileInv, TileType
  <2>2. alive' \in [T!Pane -> BOOLEAN]
    BY Zenon, <1>1 DEF TileInv, TileType
  <2>3. out' \in [T!Pane -> Nat]
    BY <1>1 DEF TileInv, TileType
  <2> QED
    BY <1>1, <2>1, <2>2, <2>3 DEF TileInv, TileType
<1>3. Writers'
  BY <1>1 DEF TileInv, Writers
<1>4. T!OutputComplete'
  BY <1>1 DEF TileInv, TileType, T!OutputComplete
<1> QED
  BY <1>2, <1>3, <1>4 DEF TileInv

(* One step of tile, of a pane's program or of the kernel ending one. *)
LEMMA TileStep == ASSUME TileInv, [T!Next]_(T!vars) PROVE TileInv'
<1>1. ASSUME NEW i \in T!Pane, T!Exec(i) \/ T!StartsWriting(i) PROVE TileInv'
  <2>1. /\ UNCHANGED <<alive, outW, pane, tile_pc, out>>
        /\ \/ prog[i] = "forked" /\ prog' = [prog EXCEPT ![i] = "idle"]
           \/ prog[i] = "idle" /\ prog' = [prog EXCEPT ![i] = "writing"]
    BY <1>1 DEF T!Exec, T!StartsWriting, T!tile, T!pipes
  <2> QED
    BY <2>1 DEF TileInv, TileType, Writers, T!OutputComplete
<1>2. CASE /\ UNCHANGED <<alive, out, outW, prog>> /\ pane' \in {1, pane}
           /\ tile_pc # "done" /\ tile_pc' # "done"
  BY <1>2 DEF TileInv, TileType, Writers, T!OutputComplete
<1>3. CASE UNCHANGED <<alive, out, outW, prog, tile_pc, pane>>
  BY <1>3 DEF TileInv, TileType, Writers, T!OutputComplete
<1>4. CASE T!SpawnFails \/ T!Loop
  BY <1>2, <1>4, TileQuitKeeps DEF T!SpawnFails, T!Loop
<1>5. CASE T!send \/ T!NoKey \/ \E k \in {"char", "prefix", "o", "q"} : T!Key(k)
  BY <1>2, <1>5 DEF T!send, T!NoKey, T!Key, T!pipes
<1>6. CASE T!Spin \/ UNCHANGED T!vars \/ \E i \in T!Pane : T!ReadKey(i)
  BY <1>3, <1>6 DEF T!Spin, T!vars, T!tile, T!pipes, T!ReadKey
<1> QED
  BY <1>1, <1>4, <1>5, <1>6, TileSpawnKeeps, TileExitKeeps, TileWriteKeeps, TilePumpKeeps
     DEF T!Next, T!Tiles, T!Program, T!InputEnds

(* A pane is given up only once nobody can write to it and all that was written has been
   read, for any number of panes and any capacity of their pipes (pane.rs:65-93). *)
THEOREM TileOutputComplete == T!Spec => []OutputComplete
<1>1. TileInv => OutputComplete
  BY DEF TileInv, OutputComplete
<1> QED
  BY TileInitially, TileStep, <1>1, PTL DEF T!Spec

-----------------------------------------------------------------------------
(* The pipe. *)

USE PipeConstants

(* Reduction modulo n of a number less than twice n. *)
LEMMA ModBelowTwice ==
  ASSUME NEW n \in Nat \ {0}, NEW x \in Nat, x < 2 * n
  PROVE  x % n = IF x < n THEN x ELSE x - n
<1>1. CASE x < n
  BY <1>1
<1>2. CASE n <= x
  BY <1>2
<1> QED BY <1>1, <1>2

(* A position less than twice the ring's size wraps at most once. *)
LEMMA SlotValue ==
  ASSUME NEW h \in Index, NEW i \in 0 .. BUF_SIZE
  PROVE  Slot(h, i) = IF h + i < BUF_SIZE THEN h + i ELSE h + i - BUF_SIZE
<1> DEFINE x == h + i
<1>1. x \in Nat /\ x < 2 * BUF_SIZE
  BY DEF Index
<1> HIDE DEF x
<1>2. x % BUF_SIZE = IF x < BUF_SIZE THEN x ELSE x - BUF_SIZE
  BY Zenon, <1>1, ModBelowTwice
<1> QED BY <1>2 DEF Slot, Index, x

(* Every position names a slot. *)
LEMMA SlotIndex ==
  ASSUME NEW h \in Index, NEW i \in 0 .. BUF_SIZE
  PROVE  Slot(h, i) \in Index
<1> DEFINE s == Slot(h, i)
<1>1. s = IF h + i < BUF_SIZE THEN h + i ELSE h + i - BUF_SIZE
  BY SlotValue
<1> HIDE DEF s
<1>2. s \in Index
  BY <1>1 DEF Index
<1> QED BY <1>2 DEF s

(* The distance from the tail inverts the walk from the tail. *)
LEMMA DistanceValue ==
  ASSUME NEW h \in Index, NEW k \in Index
  PROVE  Distance(h, k) = IF k < h THEN k + BUF_SIZE - h ELSE k - h
<1> DEFINE x == k + BUF_SIZE - h
<1>1. x \in Nat /\ x < 2 * BUF_SIZE
  BY DEF Index
<1> HIDE DEF x
<1>2. x % BUF_SIZE = IF x < BUF_SIZE THEN x ELSE x - BUF_SIZE
  BY Zenon, <1>1, ModBelowTwice
<1> QED BY <1>2 DEF Distance, Index, x

(* The slot i places past the head lies, seen from the tail, i - count
   places past it once the i-th place is free, and further than the free
   space when the i-th byte is still unread. *)
LEMMA FromTheTail ==
  ASSUME NEW h \in Index, NEW c \in 0 .. BUF_SIZE, NEW i \in 0 .. BUF_SIZE - 1
  PROVE  LET d == Distance(Slot(h, c), Slot(h, i))
         IN  /\ i >= c => d = i - c
             /\ i < c => d = BUF_SIZE - c + i
<1> DEFINE t == Slot(h, c)
           s == Slot(h, i)
<1>1. /\ t = IF h + c < BUF_SIZE THEN h + c ELSE h + c - BUF_SIZE
      /\ s = IF h + i < BUF_SIZE THEN h + i ELSE h + i - BUF_SIZE
  BY SlotValue
<1> HIDE DEF t, s
<1>2. t \in Index /\ s \in Index
  BY <1>1 DEF Index
<1>3. Distance(t, s) = IF s < t THEN s + BUF_SIZE - t ELSE s - t
  BY <1>2, DistanceValue
<1> QED BY <1>1, <1>3 DEF Index, t, s

-----------------------------------------------------------------------------
(* Where a step of the ring leaves its contents. *)

(* A stored byte goes to the slot its distance from the tail names, and the
   bytes still unread keep theirs. *)
LEMMA StoredByte ==
  ASSUME TypeOK, NEW data \in Seq(Byte), NEW n \in 0 .. Len(data),
         n <= BUF_SIZE - count, NEW i \in 0 .. count + n - 1
  PROVE  Stored(data, n)[Slot(head, i)] =
           IF i < count THEN buf[Slot(head, i)] ELSE data[i - count + 1]
<1> DEFINE s == Slot(head, i)
           d == Distance(Slot(head, count), s)
<1>1. i \in 0 .. BUF_SIZE - 1 /\ count \in 0 .. BUF_SIZE /\ head \in Index
  BY DEF TypeOK
<1>2. /\ i >= count => d = i - count
      /\ i < count => d = BUF_SIZE - count + i
  BY <1>1, FromTheTail
<1>3. s \in Index
  BY <1>1, SlotIndex
<1>4. Stored(data, n)[s] = IF d < n THEN data[d + 1] ELSE buf[s]
  BY <1>3 DEF Stored
<1> HIDE DEF s, d
<1>5. CASE i < count
  <2>1. ~(d < n)
    BY <1>1, <1>2, <1>5
  <2> QED BY <2>1, <1>4, <1>5 DEF s
<1>6. CASE i >= count
  <2>1. d < n /\ d + 1 = i - count + 1
    BY <1>1, <1>2, <1>6
  <2> QED BY <2>1, <1>4, <1>6, <1>1 DEF s
<1> QED BY <1>1, <1>5, <1>6

(* What is stored keeps the buffer's type. *)
LEMMA StoredType ==
  ASSUME TypeOK, NEW data \in Seq(Byte), NEW n \in 0 .. Len(data)
  PROVE  Stored(data, n) \in [Index -> Byte]
<1> SUFFICES ASSUME NEW k \in Index
             PROVE  (IF Distance(Slot(head, count), k) < n
                       THEN data[Distance(Slot(head, count), k) + 1]
                       ELSE buf[k]) \in Byte
  BY DEF Stored
<1> DEFINE t == Slot(head, count)
           d == Distance(t, k)
<1>1. t \in Index
  BY SlotIndex DEF TypeOK
<1> HIDE DEF t
<1>2. d = IF k < t THEN k + BUF_SIZE - t ELSE k - t
  BY <1>1, DistanceValue
<1> HIDE DEF d
<1>3. d < n => data[d + 1] \in Byte
  BY <1>1, <1>2 DEF Index
<1> QED BY <1>3 DEF TypeOK, d, t

(* The contents are a sequence of bytes, count of them. *)
LEMMA ContentsType ==
  ASSUME TypeOK
  PROVE  /\ Contents \in Seq(Byte)
         /\ Len(Contents) = count
         /\ \A j \in 1 .. count : Contents[j] = buf[Slot(head, j - 1)]
<1>1. \A j \in 1 .. count : Slot(head, j - 1) \in Index
  BY SlotIndex DEF TypeOK
<1> QED BY <1>1 DEF TypeOK, Contents, Copied

(* write() appends exactly the bytes it reports. *)
LEMMA WriteAppends ==
  ASSUME TypeOK, TypeOK', NEW data \in Seq(Byte), NEW n \in 0 .. Len(data),
         n <= BUF_SIZE - count,
         buf' = Stored(data, n), count' = count + n, head' = head
  PROVE  Contents' = Contents \o SubSeq(data, 1, n)
<1> DEFINE rest == SubSeq(data, 1, n)
<1>1. /\ rest \in Seq(Byte) /\ Len(rest) = n
      /\ \A j \in 1 .. n : rest[j] = data[j]
  OBVIOUS
<1> HIDE DEF rest
<1>2. /\ Contents \in Seq(Byte) /\ Len(Contents) = count
      /\ \A j \in 1 .. count : Contents[j] = buf[Slot(head, j - 1)]
  BY ContentsType
<1>3. Contents' = [j \in 1 .. count + n |-> Stored(data, n)[Slot(head, j - 1)]]
  BY DEF Contents, Copied, Slot
<1>4. ASSUME NEW j \in 1 .. count + n
      PROVE  Stored(data, n)[Slot(head, j - 1)] =
               IF j <= count THEN Contents[j] ELSE rest[j - count]
  <2>1. j - 1 \in 0 .. count + n - 1 /\ count \in Nat
    BY DEF TypeOK
  <2>2. Stored(data, n)[Slot(head, j - 1)] =
          IF j - 1 < count THEN buf[Slot(head, j - 1)]
                           ELSE data[(j - 1) - count + 1]
    BY <2>1, StoredByte
  <2> QED BY <1>1, <1>2, <2>1, <2>2
<1> HIDE DEF Contents
<1>5. Contents' = [j \in 1 .. count + n |->
                     IF j <= count THEN Contents[j] ELSE rest[j - count]]
  BY <1>3, <1>4
<1>6. count \in Nat
  BY DEF TypeOK
<1> DEFINE both == Contents \o rest
           after == Contents'
<1>7. /\ both \in Seq(Byte) /\ Len(both) = count + n
      /\ \A j \in 1 .. count + n :
           both[j] = IF j <= count THEN Contents[j] ELSE rest[j - count]
  BY SMTT(30), <1>1, <1>2, ConcatProperties
<1>8. after = [j \in 1 .. count + n |-> both[j]]
  BY SMTT(30), <1>5, <1>7
<1> HIDE DEF both, after
<1>9. both = [j \in 1 .. count + n |-> both[j]]
  BY <1>6, <1>7
<1> QED BY <1>8, <1>9 DEF rest, both, after

(* read() takes the oldest bytes off the front. *)
LEMMA ReadTakes ==
  ASSUME TypeOK, NEW n \in 0 .. count,
         buf' = buf, head' = Slot(head, n), count' = count - n
  PROVE  /\ Copied(n) = SubSeq(Contents, 1, n)
         /\ Contents' = SubSeq(Contents, n + 1, Len(Contents))
<1>1. /\ Contents \in Seq(Byte) /\ Len(Contents) = count
      /\ \A j \in 1 .. count : Contents[j] = buf[Slot(head, j - 1)]
  BY ContentsType
<1>2. count \in Nat /\ count <= BUF_SIZE /\ head \in Index
  BY DEF TypeOK
<1>3. Copied(n) = [j \in 1 .. n |-> Contents[j]]
  BY <1>1, <1>2 DEF Copied
<1>4. Contents' = [j \in 1 .. count - n |-> buf[Slot(Slot(head, n), j - 1)]]
  BY DEF Contents, Copied, Slot
<1>5. ASSUME NEW j \in 1 .. count - n
      PROVE  Slot(Slot(head, n), j - 1) = Slot(head, (n + j) - 1)
  <2> DEFINE s == Slot(head, n)
  <2>1. s = IF head + n < BUF_SIZE THEN head + n ELSE head + n - BUF_SIZE
    BY <1>2, SlotValue
  <2> HIDE DEF s
  <2>2. s \in Index
    BY <1>2, <2>1 DEF Index
  <2>3. Slot(s, j - 1) = IF s + (j - 1) < BUF_SIZE THEN s + (j - 1)
                         ELSE s + (j - 1) - BUF_SIZE
    BY <1>2, <2>2, SlotValue
  <2> DEFINE k == (n + j) - 1
  <2>4. k \in 0 .. BUF_SIZE
    BY <1>2
  <2> HIDE DEF k
  <2>5. Slot(head, k) = IF head + k < BUF_SIZE THEN head + k
                        ELSE head + k - BUF_SIZE
    BY <1>2, <2>4, SlotValue
  <2>6. Slot(s, j - 1) = Slot(head, k)
    BY <1>2, <2>1, <2>3, <2>5 DEF Index, k
  <2> QED BY <2>6 DEF s, k
<1>6. ASSUME NEW j \in 1 .. count - n
      PROVE  buf[Slot(Slot(head, n), j - 1)] = Contents[n + j]
  <2>1. n + j \in 1 .. count
    BY <1>2
  <2> QED BY <1>1, <1>5, <2>1
<1> HIDE DEF Contents
<1>7. Contents' = [j \in 1 .. count - n |-> Contents[n + j]]
  BY <1>4, <1>6
<1>8. SubSeq(Contents, 1, n) = [j \in 1 .. n |-> Contents[j]]
  BY SMTT(30), <1>1, <1>2
<1>9. SubSeq(Contents, n + 1, count) = [j \in 1 .. count - n |-> Contents[n + j]]
  BY SMTT(30), <1>1, <1>2
<1> QED BY <1>1, <1>3, <1>7, <1>8, <1>9

-----------------------------------------------------------------------------
(* The theorems. *)

(* TypeOK holds at the start and every step of the ring preserves it. *)
LEMMA TypeInit == create => TypeOK
BY DEF create, TypeOK, Index

LEMMA TypeStep == TypeOK /\ [Next]_vars => TypeOK'
<1> SUFFICES ASSUME TypeOK, [Next]_vars
             PROVE  TypeOK'
  OBVIOUS
<1>1. ASSUME NEW m \in 0 .. MaxLen, NEW data \in [1 .. m -> Byte], Write(data)
      PROVE  TypeOK'
  <2>1. data \in Seq(Byte) /\ Len(data) = m
    OBVIOUS
  <2>2. CASE read_refs = 0
    BY <1>1, <2>2 DEF Write, TypeOK, ring
  <2>3. CASE read_refs # 0
    <3> DEFINE n == Least(Len(data), BUF_SIZE - count)
    <3>1. n \in 0 .. Len(data) /\ n <= BUF_SIZE - count
      BY <2>1 DEF TypeOK, Least
    <3>2. buf' = Stored(data, n) /\ count' = count + n
          /\ UNCHANGED <<head, read_refs, write_refs>>
      BY <1>1, <2>3 DEF Write
    <3> HIDE DEF n
    <3>3. buf' \in [Index -> Byte]
      BY <2>1, <3>1, <3>2, StoredType
    <3> QED BY <3>1, <3>2, <3>3 DEF TypeOK
  <2> QED BY <2>2, <2>3
<1>2. ASSUME NEW len \in 0 .. MaxLen, Read(len)
      PROVE  TypeOK'
  <2>1. CASE count = 0
    BY <1>2, <2>1 DEF Read, TypeOK, ring
  <2>2. CASE count # 0
    <3> DEFINE n == Least(len, count)
    <3>1. n \in 0 .. count /\ count \in 0 .. BUF_SIZE /\ head \in Index
      BY DEF TypeOK, Least
    <3>2. head' = Slot(head, n) /\ count' = count - n
          /\ UNCHANGED <<buf, read_refs, write_refs>>
      BY <1>2, <2>2 DEF Read
    <3> HIDE DEF n
    <3>3. head' \in Index
      BY <3>1, <3>2, SlotIndex
    <3> QED BY <3>1, <3>2, <3>3 DEF TypeOK
  <2> QED BY <2>1, <2>2
<1>3. ASSUME NEW reads \in 0 .. 1, NEW writes \in 0 .. 1, fork(reads, writes)
      PROVE  TypeOK'
  BY <1>3 DEF fork, TypeOK, ring
<1>4. CASE close_read
  BY <1>4 DEF close_read, TypeOK, ring
<1>5. CASE close_write
  BY <1>5 DEF close_write, TypeOK, ring
<1>6. CASE UNCHANGED vars
  BY <1>6 DEF vars, TypeOK
<1> QED BY <1>1, <1>2, <1>3, <1>4, <1>5, <1>6 DEF Next

(* The head stays inside the buffer and the count within its size, however
   calls of several processes interleave (pipe.rs:41-68). *)
THEOREM PipeTypeCorrect == Spec => []TypeOK
BY TypeInit, TypeStep, PTL DEF Spec

(* Every write step of the ring is a write of the queue. *)
LEMMA WriteRefines ==
  ASSUME TypeOK, TypeOK', NEW m \in 0 .. MaxLen, NEW data \in [1 .. m -> Byte],
         Write(data)
  PROVE  Abstract!Write(data)
<1>1. data \in Seq(Byte) /\ Len(data) = m
  OBVIOUS
<1>2. CASE read_refs = 0
  <2>1. Contents' = Contents
    BY <1>2 DEF Write, ring, Contents, Copied, Slot
  <2> HIDE DEF Contents
  <2> QED BY <1>2, <2>1 DEF Write, Abstract!Write, Abstract!None, None
<1>3. CASE read_refs # 0
  <2> DEFINE n == Least(Len(data), BUF_SIZE - count)
  <2>1. /\ n \in 0 .. Len(data) /\ n <= BUF_SIZE - count
        /\ n = Len(data) \/ n = BUF_SIZE - count
    BY <1>1 DEF TypeOK, Least
  <2>2. buf' = Stored(data, n) /\ count' = count + n /\ result' = Wrote(n)
        /\ UNCHANGED <<head, read_refs, write_refs>> /\ write_refs > 0
    BY <1>3 DEF Write
  <2> HIDE DEF n
  <2>3. Contents' = Contents \o SubSeq(data, 1, n)
    BY Zenon, <1>1, <2>1, <2>2, WriteAppends
  <2>4. Contents \in Seq(Byte) /\ Len(Contents) = count
    BY ContentsType
  <2> DEFINE queue == Contents
             rest == SubSeq(data, 1, n)
  <2>5. rest \in Seq(Byte) /\ Len(rest) = n
    BY <1>1, <2>1
  <2> HIDE DEF queue, rest
  <2>6. Len(queue \o rest) = count + n
    BY Zenon, <2>4, <2>5, ConcatProperties DEF queue
  <2>7. Len(Contents') = count + n
    BY Zenon, <2>3, <2>6 DEF queue, rest
  <2> HIDE DEF Contents
  <2>8. read_refs > 0
    BY <1>3 DEF TypeOK
  <2>9. Len(Contents') <= BUF_SIZE /\ (n = Len(data) \/ Len(Contents') = BUF_SIZE)
    BY <2>1, <2>7, <1>1 DEF TypeOK
  <2> QED BY Zenon, <2>1, <2>2, <2>3, <2>8, <2>9
          DEF Abstract!Write, Abstract!Wrote, Wrote
<1> QED BY <1>2, <1>3

(* Every read step of the ring is a read of the queue. *)
LEMMA ReadRefines ==
  ASSUME TypeOK, NEW len \in 0 .. MaxLen, Read(len)
  PROVE  Abstract!Read(len)
<1>1. Contents \in Seq(Byte) /\ Len(Contents) = count /\ count \in Nat
  BY ContentsType DEF TypeOK
<1>2. read_refs > 0 /\ UNCHANGED <<read_refs, write_refs>> /\ write_refs \in Nat
  BY DEF Read, TypeOK
<1>3. CASE count = 0
  <2>1. Contents' = Contents
    BY <1>3 DEF Read, ring, Contents, Copied, Slot
  <2>2. result' = IF write_refs > 0 THEN Got(<<>>) ELSE None
    BY <1>3 DEF Read
  <2> HIDE DEF Contents
  <2>3. Contents = <<>> /\ SubSeq(Contents, 1, 0) = <<>>
        /\ SubSeq(Contents, 1, Len(Contents)) = Contents
    BY <1>1, <1>3
  <2>4. CASE write_refs = 0
    BY SMTT(30), <1>2, <2>1, <2>2, <2>3, <2>4 DEF Abstract!Read, Abstract!None, None
  <2>5. CASE write_refs > 0
    <3>1. 0 \in 0 .. Len(Contents) /\ (0 = len \/ (0 < len /\ 0 = Len(Contents)))
      BY <1>1, <1>3
    <3>2. result' = Abstract!Got(SubSeq(Contents, 1, 0))
      BY Zenon, <2>2, <2>3, <2>5 DEF Abstract!Got, Got
    <3>3. 0 + 1 = 1
      OBVIOUS
    <3>4. Contents' = SubSeq(Contents, 0 + 1, Len(Contents))
      BY <2>1, <2>3, <3>3
    <3> QED BY <1>2, <2>5, <3>1, <3>2, <3>4 DEF Abstract!Read
  <2> QED BY <1>2, <2>4, <2>5
<1>4. CASE count # 0
  <2> DEFINE n == Least(len, count)
  <2>1. n \in 0 .. count /\ (n = len \/ (n < len /\ n = count))
    BY <1>1 DEF Least
  <2>2. result' = Got(Copied(n)) /\ head' = Slot(head, n) /\ count' = count - n
        /\ buf' = buf
    BY <1>4 DEF Read
  <2> HIDE DEF n
  <2>3. /\ Copied(n) = SubSeq(Contents, 1, n)
        /\ Contents' = SubSeq(Contents, n + 1, Len(Contents))
    BY <2>1, <2>2, ReadTakes
  <2> HIDE DEF Contents
  <2>4. Contents # <<>>
    BY <1>1, <1>4
  <2> QED BY Zenon, <1>1, <1>2, <2>1, <2>2, <2>3, <2>4
          DEF Abstract!Read, Abstract!Got, Got
<1> QED BY <1>3, <1>4

(* The ring implements the queue, for every buffer size and every caller:
   no byte lost, invented, duplicated or reordered across the wrap, and end
   of file only once nothing is buffered and no writer is left
   (pipe.rs:38-68). *)
THEOREM PipeImplementsFifo == Spec => ImplementsFifo
<1>1. create => Abstract!Init
  BY DEF create, Abstract!Init, Contents, Copied, None, Abstract!None
<1>2. TypeOK /\ TypeOK' /\ [Next]_vars => [Abstract!Next]_(Abstract!vars)
  <2> SUFFICES ASSUME TypeOK, TypeOK', [Next]_vars
               PROVE  Abstract!Next \/ UNCHANGED Abstract!vars
    OBVIOUS
  <2> USE DEF Abstract!vars
  <2>1. ASSUME UNCHANGED ring PROVE Contents' = Contents
    BY <2>1 DEF ring, Contents, Copied, Slot
  <2> HIDE DEF Contents
  <2>2. ASSUME NEW m \in 0 .. MaxLen, NEW data \in [1 .. m -> Byte], Write(data)
        PROVE  Abstract!Next
    BY <2>2, WriteRefines DEF Abstract!Next
  <2>3. ASSUME NEW len \in 0 .. MaxLen, Read(len) PROVE Abstract!Next
    BY <2>3, ReadRefines DEF Abstract!Next
  <2>4. ASSUME NEW reads \in 0 .. 1, NEW writes \in 0 .. 1, fork(reads, writes)
        PROVE  Abstract!Next
    <3>1. Contents' = Contents /\ result' = result
      BY <2>1, <2>4 DEF fork
    <3>2. /\ (read_refs > 0 /\ read_refs' = read_refs + 1) \/ read_refs' = read_refs
          /\ (write_refs > 0 /\ write_refs' = write_refs + 1) \/ write_refs' = write_refs
      BY <2>4 DEF fork, TypeOK
    <3> QED BY <3>1, <3>2 DEF Abstract!Next, Abstract!Ends
  <2>5. CASE close_read
    <3>1. Contents' = Contents
      BY <2>1, <2>5 DEF close_read
    <3> QED BY <2>5, <3>1 DEF close_read, Abstract!Next, Abstract!Ends
  <2>6. CASE close_write
    <3>1. Contents' = Contents
      BY <2>1, <2>6 DEF close_write
    <3> QED BY <2>6, <3>1 DEF close_write, Abstract!Next, Abstract!Ends
  <2>7. CASE UNCHANGED vars
    BY <2>1, <2>7 DEF vars, ring
  <2> QED BY <2>2, <2>3, <2>4, <2>5, <2>6, <2>7 DEF Next
<1> QED BY <1>1, <1>2, PipeTypeCorrect, PTL DEF Spec, ImplementsFifo, Abstract!Spec
=============================================================================
