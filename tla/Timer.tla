------------------------------- MODULE Timer --------------------------------
(***************************************************************************)
(* The kernel's tick (drivers/timer.rs): init() starts the Local APIC timer *)
(* if it can measure it, else the PIT; check() steps down to the PIT, or to *)
(* no ticks at all, if none arrive; then sleeps wait for ticks in hlt, and  *)
(* busy waits with interrupts off open a window for them.  The machine may  *)
(* have either source not wired to the CPU, and a Local APIC timer that     *)
(* stops while the CPU halts.  Every wait counts ticks from its own start.  *)
(***************************************************************************)
EXTENDS Naturals

CONSTANT ENOUGH      \* ticks that convince ticks_arriving()

Sources == {"Lapic", "Pit"}

VARIABLES works,     \* the sources whose interrupts reach the CPU
          measured,  \* the Local APIC timer can be calibrated
          always_running, \* it counts in hlt too
          pc, source,
          armed,     \* the sources running and not masked
          latched,   \* the ones whose interrupt is pending
          service,   \* the ones waiting for an EOI
          since,     \* ticks since the wait began, up to ENOUGH
          target     \* ticks it lasts

machine == <<works, measured, always_running>>
vars == <<machine, pc, source, armed, latched, service, since, target>>

Init ==
  /\ works \in SUBSET Sources /\ measured \in BOOLEAN /\ always_running \in BOOLEAN
  /\ pc = "boot" /\ source = "None" /\ armed = {} /\ latched = {} /\ service = {}
  /\ since = 0 /\ target = 0

-----------------------------------------------------------------------------
(* The hardware. *)

\* Without ARAT, the Local APIC timer stands still in a halted CPU.
Counts(s) == s \in armed \cap works /\ (s = "Lapic" /\ pc = "halted" => always_running)

Fire(s) ==
  /\ Counts(s) /\ s \notin latched
  /\ latched' = latched \cup {s}
  /\ UNCHANGED <<machine, pc, source, armed, service, since, target>>

\* Masking the 8259's line holds back what is pending; masking the LVT does not.
Deliverable(s) == s \in latched \ service /\ (s = "Pit" => s \in armed)

uses_lapic == source = "Lapic"

\* irq_handler(): the tick, then the EOI for the source thought to be in use.
\* Interrupts are off from boot to check(), and in a busy wait.
irq_handler(s) ==
  /\ pc \notin {"boot", "busy"} /\ Deliverable(s)
  /\ latched' = latched \ {s}
  /\ since' = (IF since < ENOUGH THEN since + 1 ELSE since)
  /\ service' = (service \cup {s}) \ {IF uses_lapic THEN "Lapic" ELSE "Pit"}
  /\ pc' = CASE pc = "halted" -> "sleeping"
             [] pc = "window" -> "busy"         \* the next tick is 10 ms away
             [] OTHER -> pc
  /\ UNCHANGED <<machine, source, armed, target>>

-----------------------------------------------------------------------------
(* Choosing the source. *)

\* What start_pit() leaves running.  Mutant: the line stays masked.
StartMasked == armed
start_pit == armed \cup {"Pit"}

init ==
  /\ pc = "boot"
  /\ IF measured THEN source' = "Lapic" /\ armed' = {"Lapic"}
     ELSE source' = "Pit" /\ armed' = start_pit
  /\ pc' = "check" /\ since' = 0
  /\ UNCHANGED <<machine, latched, service, target>>

\* ticks_arriving(): a source that ticks at all does so ENOUGH times in the 200 ms.
Ticking == \E s \in Sources : Deliverable(s) \/ (Counts(s) /\ s \notin service)

Arrive ==
  /\ pc \in {"check", "recheck"} /\ since = ENOUGH
  /\ pc' = "ready"
  /\ UNCHANGED <<machine, source, armed, latched, service, since, target>>

Expire ==
  /\ pc \in {"check", "recheck"} /\ since < ENOUGH /\ ~Ticking
  /\ pc' = (IF pc = "check" /\ source = "Lapic" THEN "mask" ELSE "give up")
  /\ UNCHANGED <<machine, source, armed, latched, service, since, target>>

\* The steps down of check(), with interrupts on between them.
MaskLapic ==
  /\ pc = "mask"
  /\ armed' = armed \ {"Lapic"} /\ pc' = "pit"
  /\ UNCHANGED <<machine, source, latched, service, since, target>>

StartPit ==
  /\ pc = "pit"
  /\ armed' = start_pit /\ pc' = "source"
  /\ UNCHANGED <<machine, source, latched, service, since, target>>

SetSource ==
  /\ pc = "source"
  /\ source' = "Pit" /\ since' = 0 /\ pc' = "recheck"
  /\ UNCHANGED <<machine, armed, latched, service, target>>

GiveUp ==
  /\ pc = "give up"
  /\ armed' = armed \ {"Pit"} /\ source' = "None" /\ pc' = "ready"
  /\ UNCHANGED <<machine, latched, service, since, target>>

check == Arrive \/ Expire \/ MaskLapic \/ StartPit \/ SetSource \/ GiveUp

-----------------------------------------------------------------------------
(* Waiting. *)

\* sleep_ms(); with no ticks it polls a counter instead (poll_wait_ms()).
sleep_ms(n) ==
  /\ pc = "ready"
  /\ pc' = (IF source = "None" THEN "polling" ELSE "sleeping")
  /\ since' = 0 /\ target' = n
  /\ UNCHANGED <<machine, source, armed, latched, service>>

poll_wait_ms ==
  /\ pc = "polling" /\ pc' = "ready"
  /\ UNCHANGED <<machine, source, armed, latched, service, since, target>>

\* Whether the CPU may halt for the next tick.  Mutant: always.
AnyHalt == TRUE
MayHalt == ~(source = "Lapic" /\ ~always_running)

\* The loop of sleep_ms(): the test, then pause or hlt, a tick possibly in between.
Sleep ==
  \/ /\ pc = "sleeping"
     /\ pc' = (IF since >= target THEN "ready" ELSE "pause")
     /\ UNCHANGED <<machine, source, armed, latched, service, since, target>>
  \/ /\ pc = "pause"
     /\ pc' = (IF MayHalt THEN "halted" ELSE "sleeping")
     /\ UNCHANGED <<machine, source, armed, latched, service, since, target>>

\* A wait in a system call until uptime_ms() has gone on, calling idle().
BusyWait(n) ==
  /\ pc = "ready" /\ pc' = "busy" /\ since' = 0 /\ target' = n
  /\ UNCHANGED <<machine, source, armed, latched, service>>

\* idle(): sti and pause let a pending tick in; then interrupts are off again.
idle ==
  \/ /\ pc = "busy"
     /\ pc' = (IF since >= target THEN "ready" ELSE "window")
     /\ UNCHANGED <<machine, source, armed, latched, service, since, target>>
  \/ /\ pc = "window" /\ \A s \in Sources : ~Deliverable(s)
     /\ pc' = "busy"
     /\ UNCHANGED <<machine, source, armed, latched, service, since, target>>

CpuStep == init \/ check \/ poll_wait_ms \/ Sleep \/ idle

Next ==
  \/ \E s \in Sources : Fire(s) \/ irq_handler(s)
  \/ CpuStep
  \/ \E n \in 1 .. ENOUGH - 1 : sleep_ms(n) \/ BusyWait(n)

\* The CPU goes on, and an armed source keeps counting.
Fairness ==
  /\ WF_vars(CpuStep)
  /\ \A s \in Sources : WF_vars(Fire(s)) /\ WF_vars(irq_handler(s))

Spec == Init /\ [][Next]_vars /\ Fairness

-----------------------------------------------------------------------------
(* Properties. *)

Booted == pc \notin {"boot", "check", "mask", "pit", "source", "recheck", "give up"}

\* check() leaves the kernel with one source running, whose ticks arrive and are
\* acknowledged where they came from; it gives up only if the sources it could start
\* do not work, or if a tick of the PIT came before the kernel called it its source and
\* the 8259 never got its EOI (timer.rs:121-174, idt.rs:221-225).
TickSource ==
  Booted =>
    IF source # "None" THEN source \in works /\ armed = {source} /\ source \notin service
    ELSE /\ armed = {}
         /\ (works \cap (IF measured THEN Sources ELSE {"Pit"}) = {} \/ "Pit" \in service)

\* A wait that counts ticks ends: no hlt that nothing wakes, no busy wait that keeps
\* the clock from running (timer.rs:192-222).
Waiting == source # "None" /\ pc \in {"sleeping", "pause", "halted", "busy", "window"}
WaitsEnd == Waiting ~> pc = "ready"
=============================================================================
