-------------------------------- MODULE Tile --------------------------------
(***************************************************************************)
(* tile (userland tile/src/lib.rs, pane.rs): a process that shows several   *)
(* shells, each wired to it through two pipes, over the calls of the        *)
(* runtime (anssos/src/lib.rs: write_all, read_fd, read_key, pipe, fork).   *)
(* A pipe is the number of bytes in it and who holds its ends.  A pane's    *)
(* shell and the programs it runs are one process, which reads keys, writes *)
(* output and exits as it likes, and exits at the end of its input.         *)
(***************************************************************************)
EXTENDS Naturals, FiniteSets

CONSTANTS count,       \* panes
          CAPACITY,    \* of a pipe
          MaxKeys, MaxOutput

VARIABLES pc,          \* tile: "spawn", "keys", "send", "pump", "draw", "done"
          pane,        \* the pane being started, sent to or pumped
          focused, prefix, quitting, alive,
          in, out,     \* bytes in each pane's pipes
          inW, inR, outW, outR,   \* who holds which end
          prog,        \* each pane's process
          keys, output \* bounds used up

tile == <<pc, pane, focused, prefix, quitting, alive, keys>>
pipes == <<in, out, inW, inR, outW, outR>>
vars == <<tile, pipes, prog, output>>

Pane == 1 .. count
Tile == 0              \* as a holder of an end; a pane's process is its number

Init ==
  /\ pc = "spawn" /\ pane = 1 /\ focused = 1 /\ prefix = FALSE /\ quitting = FALSE
  /\ alive = [i \in Pane |-> FALSE] /\ prog = [i \in Pane |-> "none"]
  /\ in = [i \in Pane |-> 0] /\ out = [i \in Pane |-> 0]
  /\ inW = [i \in Pane |-> {}] /\ inR = [i \in Pane |-> {}]
  /\ outW = [i \in Pane |-> {}] /\ outR = [i \in Pane |-> {}]
  /\ keys = 0 /\ output = 0

Without(holders, p) == [i \in Pane |-> holders[i] \ {p}]

-----------------------------------------------------------------------------
(* Pane::spawn(): two pipes, a fork that copies every end tile holds, and tile *)
(* closes the child's two.                                                     *)

\* Mutant: tile keeps its copy of the end the child writes to.
KeepsWriter(i) == {Tile, i}
ChildWrites(i) == {i}

spawn ==
  /\ pc = "spawn"
  /\ prog' = [prog EXCEPT ![pane] = "forked"] /\ alive' = [alive EXCEPT ![pane] = TRUE]
  /\ inW' = [i \in Pane |-> IF i = pane THEN {Tile, pane}
                            ELSE IF Tile \in inW[i] THEN inW[i] \cup {pane} ELSE inW[i]]
  /\ outR' = [i \in Pane |-> IF i = pane THEN {Tile, pane}
                             ELSE IF Tile \in outR[i] THEN outR[i] \cup {pane} ELSE outR[i]]
  /\ inR' = [inR EXCEPT ![pane] = {pane}]
  /\ outW' = [outW EXCEPT ![pane] = ChildWrites(pane)]
  /\ IF pane < count THEN pane' = pane + 1 /\ pc' = "spawn" ELSE pane' = 1 /\ pc' = "keys"
  /\ UNCHANGED <<focused, prefix, quitting, in, out, keys, output>>

\* The kernel closes whatever a process that ends still holds.
Leave(p) == /\ inW' = Without(inW, p) /\ inR' = Without(inR, p)
            /\ outW' = Without(outW, p) /\ outR' = Without(outR, p)

SpawnFails ==
  /\ pc = "spawn" /\ pc' = "done" /\ Leave(Tile)
  /\ UNCHANGED <<pane, focused, prefix, quitting, alive, keys, in, out, prog, output>>

\* The child, once it runs: it closes tile's ends and the earlier panes', and
\* becomes the shell.
Exec(i) ==
  /\ prog[i] = "forked"
  /\ prog' = [prog EXCEPT ![i] = "idle"]
  /\ inW' = Without(inW, i) /\ outR' = Without(outR, i)
  /\ UNCHANGED <<tile, in, out, inR, outW, output>>

-----------------------------------------------------------------------------
(* A pane's process. *)

ReadKey(i) ==
  /\ prog[i] = "idle" /\ in[i] > 0
  /\ in' = [in EXCEPT ![i] = @ - 1]
  /\ UNCHANGED <<tile, out, inW, inR, outW, outR, prog, output>>

StartsWriting(i) ==
  /\ prog[i] = "idle" /\ output < MaxOutput
  /\ prog' = [prog EXCEPT ![i] = "writing"] /\ output' = output + 1
  /\ UNCHANGED <<tile, pipes>>

\* write_all(): tries until the byte fits, or nobody is left to read it.
Writes(i) ==
  /\ prog[i] = "writing" /\ (outR[i] = {} \/ out[i] < CAPACITY)
  /\ out' = IF outR[i] = {} THEN out ELSE [out EXCEPT ![i] = @ + 1]
  /\ prog' = [prog EXCEPT ![i] = "idle"]
  /\ UNCHANGED <<tile, in, inW, inR, outW, outR, output>>

Exits(i) ==
  /\ prog[i] = "idle"
  /\ prog' = [prog EXCEPT ![i] = "exited"]
  /\ Leave(i)
  /\ UNCHANGED <<tile, in, out, output>>

\* read_key() at the end of the input.
InputEnds(i) == in[i] = 0 /\ inW[i] = {} /\ Exits(i)

-----------------------------------------------------------------------------
(* tile's loop: the keys there are, then every pane, then the screen. *)

NextPane == (focused % count) + 1

\* poll_key() has a key: "char", the prefix, or a command after it.
Key(k) ==
  /\ pc = "keys" /\ keys < MaxKeys /\ keys' = keys + 1
  /\ prefix' = (~quitting /\ ~prefix /\ k = "prefix")
  /\ focused' = IF ~quitting /\ prefix /\ k = "o" THEN NextPane ELSE focused
  /\ quitting' = (quitting \/ (prefix /\ k = "q"))
  /\ pc' = IF ~quitting /\ (prefix <=> k = "prefix") /\ alive[focused] THEN "send" ELSE "keys"
  /\ inW' = IF ~quitting /\ prefix /\ k = "q"      \* hang_up() of every pane
            THEN [i \in Pane |-> IF alive[i] THEN inW[i] \ {Tile} ELSE inW[i]] ELSE inW
  /\ UNCHANGED <<pane, alive, in, out, inR, outW, outR, prog, output>>

\* Pane::send(): write_all() to the focused pane.
send ==
  /\ pc = "send" /\ (inR[focused] = {} \/ in[focused] < CAPACITY)
  /\ in' = IF inR[focused] = {} THEN in ELSE [in EXCEPT ![focused] = @ + 1]
  /\ pc' = "keys"
  /\ UNCHANGED <<pane, focused, prefix, quitting, alive, keys, out, inW, inR, outW, outR, prog, output>>

NoKey == /\ pc = "keys" /\ pc' = "pump" /\ pane' = 1
         /\ UNCHANGED <<focused, prefix, quitting, alive, keys, pipes, prog, output>>

\* The next pane, or the top of the loop, which ends when no pane is alive.
Pumped == IF pane < count THEN pane' = pane + 1 /\ pc' = "pump" ELSE pane' = 1 /\ pc' = "loop"

\* Mutant: a pane nobody writes to any more is closed before it is read.
ReapFirst == alive[pane] /\ outW[pane] = {}
Drained == alive[pane] /\ outW[pane] = {} /\ out[pane] = 0

\* Pane::pump(): everything there is to read, until there is nothing, or nobody
\* left to write.
pump ==
  /\ pc = "pump"
  /\ \/ ~Drained /\ alive[pane] /\ out[pane] > 0
        /\ out' = [out EXCEPT ![pane] = 0]
        /\ UNCHANGED <<tile, in, inW, inR, outW, outR>>
     \/ ~Drained /\ (alive[pane] => out[pane] = 0)
        /\ Pumped
        /\ UNCHANGED <<focused, prefix, quitting, alive, keys, pipes>>
     \/ Drained
        /\ alive' = [alive EXCEPT ![pane] = FALSE]
        /\ inW' = [inW EXCEPT ![pane] = @ \ {Tile}] /\ outR' = [outR EXCEPT ![pane] = @ \ {Tile}]
        /\ Pumped
        /\ UNCHANGED <<focused, prefix, quitting, keys, in, out, inR, outW>>
  /\ UNCHANGED <<prog, output>>

\* The screen is drawn and the time slice given up.
Loop ==
  /\ pc = "loop"
  /\ IF \E i \in Pane : alive[i] THEN pc' = "keys" /\ UNCHANGED <<inW, inR, outW, outR>>
     ELSE pc' = "done" /\ Leave(Tile)
  /\ UNCHANGED <<pane, focused, prefix, quitting, alive, keys, in, out, prog, output>>

\* Everyone spins.
Spin == UNCHANGED vars

Program(i) == Exec(i) \/ ReadKey(i) \/ Writes(i) \/ InputEnds(i)
Tiles == spawn \/ send \/ NoKey \/ pump \/ Loop

Next == \/ Tiles \/ SpawnFails \/ \E k \in {"char", "prefix", "o", "q"} : Key(k)
        \/ \E i \in Pane : Program(i) \/ StartsWriting(i) \/ Exits(i)
        \/ Spin

\* Round-robin time slices; a shell reads the keys it is sent and ends at the end
\* of its input.
Fairness == WF_vars(Tiles) /\ \A i \in Pane : WF_vars(Program(i))

Spec == Init /\ [][Next]_vars /\ Fairness

-----------------------------------------------------------------------------
(* Properties. *)

\* A pane that tile has given up has no process that could still write, and all
\* its output was read: what a program prints right before it exits is not lost
\* (pane.rs:65-93).
OutputComplete ==
  \A i \in Pane : prog[i] # "none" /\ ~alive[i] =>
    outW[i] = {} /\ (pc # "done" => out[i] = 0)

\* Ctrl-b q ends tile, whatever the panes are doing: every end a shell's input or
\* output depends on is closed by those who should (pane.rs:26-47, 98-103).
QuitEnds == quitting ~> pc = "done"

\* "Nothing here blocks: pipes never do, and keys are polled." (tile/src/lib.rs:25)
NothingBlocks == []<>(pc # "send")
=============================================================================
