--------------------------------- MODULE Hda ---------------------------------
(***************************************************************************)
(* HD Audio playback (drivers/hda.rs): a ring in memory that the controller *)
(* plays round and round, filled by write().  The unit is one stereo frame; *)
(* samples are numbered as they are accepted, 0 is silence.  The device     *)
(* plays on while the program is elsewhere.                                 *)
(***************************************************************************)
EXTENDS Naturals, Sequences

CONSTANTS BUFFER,       \* frames in the ring
          GUARD,        \* never filled
          Pad,          \* silence close() appends
          Lengths,      \* frames write() is called with
          MaxSamples, MaxTicks,    \* bounds: frames written and played per stream
          Punctual      \* the driver runs at least once per turn of the ring

VARIABLES ring, written, played, last_lpib, running, open,
          lpib,         \* the device's position
          hung,         \* the device has stopped moving
          pc,           \* idle, update, put, drain
          todo,         \* frames the call in progress has yet to place
          closing,
          samples,      \* frames accepted on this stream
          heard,        \* the samples the device has played, silence left out
          ticks,        \* frames it has played on this stream
          away,         \* frames played since the driver last looked
          underrun      \* the device has played past the end of what was written

vars == <<ring, written, played, last_lpib, running, open, lpib, hung, pc, todo,
          closing, samples, heard, ticks, away, underrun>>
stream == <<ring, written, played, last_lpib, lpib, samples, heard, ticks, away, underrun>>

Silence == [i \in 0 .. BUFFER - 1 |-> 0]

Init ==
  /\ ring = Silence /\ written = 0 /\ played = 0 /\ last_lpib = 0 /\ lpib = 0
  /\ running = FALSE /\ open = FALSE
  /\ hung = FALSE
  /\ pc = "idle" /\ todo = 0 /\ closing = FALSE
  /\ samples = 0 /\ heard = <<>> /\ ticks = 0 /\ away = 0 /\ underrun = FALSE

\* open(): stops a stream still open, resets the device's and starts afresh.
OpenStream ==
  /\ pc = "idle"
  /\ ring' = Silence /\ written' = 0 /\ played' = 0 /\ last_lpib' = 0 /\ lpib' = 0
  /\ running' = FALSE
  /\ open' = TRUE
  /\ samples' = 0 /\ heard' = <<>> /\ ticks' = 0 /\ away' = 0 /\ underrun' = FALSE
  /\ UNCHANGED <<hung, pc, todo, closing>>

Write(n) ==
  /\ pc = "idle" /\ open
  /\ samples + n <= MaxSamples
  /\ pc' = "update" /\ todo' = n /\ closing' = FALSE
  /\ UNCHANGED <<stream, running, open, hung>>

Close ==
  /\ pc = "idle" /\ open
  /\ pc' = "update" /\ todo' = Pad /\ closing' = TRUE
  /\ UNCHANGED <<stream, running, open, hung>>

Max(a, b) == IF a > b THEN a ELSE b
Min(a, b) == IF a < b THEN a ELSE b
Delta == (lpib + BUFFER - last_lpib) % BUFFER
Passed == {(last_lpib + i) % BUFFER : i \in 0 .. Delta - 1}

UpdateKeepsOld ==
  /\ last_lpib' = lpib
  /\ played' = played + Delta
  /\ written' = Max(written, played + Delta)
  /\ UNCHANGED ring
  /\ away' = 0

\* Silences what the device has passed; after an underrun the writer goes on
\* from where the device is.
update_played ==
  /\ ring' = [i \in DOMAIN ring |-> IF i \in Passed THEN 0 ELSE ring[i]]
  /\ last_lpib' = lpib
  /\ played' = played + Delta
  /\ written' = Max(written, played + Delta)
  /\ away' = 0

Update ==
  /\ pc = "update"
  /\ IF running THEN update_played ELSE UNCHANGED <<ring, last_lpib, played, written, away>>
  /\ pc' = "put"
  /\ UNCHANGED <<running, open, lpib, hung, todo, closing, samples, heard, ticks, underrun>>

Space == IF written - played + GUARD >= BUFFER THEN 0
         ELSE BUFFER - GUARD - (written - played)

\* put(), and starting the stream at half a buffer or when it is full.
Put ==
  /\ pc = "put"
  /\ \E n \in {Min(todo, Space)} :
       /\ ring' = [i \in DOMAIN ring |->
                     IF \E k \in 0 .. n - 1 : (written + k) % BUFFER = i
                     THEN IF closing THEN 0
                          ELSE samples + 1 + (CHOOSE k \in 0 .. n - 1 : (written + k) % BUFFER = i)
                     ELSE ring[i]]
       /\ written' = written + n
       /\ samples' = IF closing THEN samples ELSE samples + n
       /\ todo' = todo - n
       /\ running' = (running \/ 2 * (written + n - played) >= BUFFER \/ n = 0
                        \/ (n = todo /\ closing /\ written + n > played))
       /\ pc' = IF n < todo THEN "update" ELSE IF closing THEN "drain" ELSE "idle"
  /\ UNCHANGED <<played, last_lpib, open, lpib, hung, closing, heard, ticks, away, underrun>>

\* The ring is full and the device has not moved for a second.
Stall ==
  /\ pc = "update"
  /\ hung /\ running /\ lpib = last_lpib /\ Space = 0
  /\ running' = FALSE /\ open' = FALSE
  /\ pc' = "idle"
  /\ UNCHANGED <<stream, hung, todo, closing>>

\* close() plays out what is queued, for as long as that can take.
Drain ==
  /\ pc = "drain"
  /\ IF played < written /\ running
     THEN /\ update_played
          /\ UNCHANGED <<running, open, pc>>
     ELSE /\ running' = FALSE /\ open' = FALSE /\ pc' = "idle"
          /\ UNCHANGED <<ring, last_lpib, played, written, away>>
  /\ UNCHANGED <<lpib, hung, todo, closing, samples, heard, ticks, underrun>>
DrainTimeout ==
  /\ pc = "drain" /\ hung
  /\ running' = FALSE /\ open' = FALSE /\ pc' = "idle"
  /\ UNCHANGED <<stream, hung, todo, closing>>

\* The device plays a frame, whatever the driver is doing.
Tick ==
  /\ running /\ ~hung
  /\ ticks < MaxTicks /\ ticks' = ticks + 1
  /\ Punctual => away < BUFFER - 1
  /\ heard' = (IF ring[lpib] = 0 THEN heard ELSE Append(heard, ring[lpib]))
  /\ lpib' = (lpib + 1) % BUFFER
  /\ away' = Min(away + 1, BUFFER)
  /\ underrun' = (underrun \/ played + Delta >= written)
  /\ UNCHANGED <<ring, written, played, last_lpib, running, open, hung, pc, todo, closing, samples>>

Hang ==
  /\ ~hung
  /\ hung' = TRUE
  /\ UNCHANGED <<stream, running, open, pc, todo, closing>>

Driver == Update \/ Put \/ Stall \/ Drain \/ DrainTimeout
Next == OpenStream \/ (\E n \in Lengths : Write(n)) \/ Close \/ Driver \/ Tick \/ Hang

\* The device moves or has hung; the kernel's clock ticks while it waits.
Fairness ==
  /\ WF_vars(Tick \/ Hang)
  /\ WF_vars(Update \/ Put \/ Drain) /\ SF_vars(Stall) /\ WF_vars(DrainTimeout)

Spec == Init /\ [][Next]_vars /\ Fairness

-----------------------------------------------------------------------------
(* Properties. *)

\* The device never overtakes the writer in the driver's books, so that
\* written - played, an unsigned subtraction, cannot wrap (hda.rs:631-659).
NeverOverdrawn == played <= written

\* A writer that falls behind is heard as silence: no frame is played twice, nor
\* out of order.  The comment on update_played() (hda.rs:628-630) says so.
NoReplay == \A i, j \in DOMAIN heard : i < j => heard[i] < heard[j]

\* While the writer keeps ahead of the device, every frame is heard, without a
\* gap and in order, whatever the sizes of the writes and wherever the ring
\* wraps; what has not been heard is still in the ring (hda.rs:655-671).
Gapless ==
  ~underrun => /\ heard = [i \in DOMAIN heard |-> i]
               /\ open => \A i \in Len(heard) + 1 .. samples : \E k \in DOMAIN ring : ring[k] = i

\* The three together (hda.rs:628-671).
SoundIntact == NeverOverdrawn /\ NoReplay /\ Gapless
=============================================================================
