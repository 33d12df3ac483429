---------------------------- MODULE DriverProofs ----------------------------
(***************************************************************************)
(* Proofs about the sound driver and the AHCI disk driver, for every size   *)
(* of the sound ring, every set of sectors and every sequence of calls.     *)
(* The sound driver's invariant relates its totals to positions in the ring *)
(* and the ring's frames to those still to be heard; AHCI's says which      *)
(* commands a call can meet, its own and a late one, and is what its steps  *)
(* need to be DiskPromise's.                                                *)
(***************************************************************************)
EXTENDS Integers, Sequences, TLAPS

CONSTANTS BUFFER, GUARD, Pad, Lengths, MaxSamples, MaxTicks, Punctual

VARIABLES ring, written, played, last_lpib, running, open, lpib, hung, hda_pc, todo, closing,
          samples, heard, ticks, away, underrun

H == INSTANCE Hda WITH pc <- hda_pc

\* written - played, an unsigned subtraction, cannot wrap, nothing is heard twice, and
\* while the writer keeps ahead every frame is heard, in order and without a gap
\* (hda.rs:631-671).
SoundIntact == H!SoundIntact

-----------------------------------------------------------------------------
(* HD Audio. *)

HdaConstants ==
  /\ BUFFER \in Nat \ {0} /\ GUARD \in Nat /\ Pad \in Nat /\ Lengths \subseteq Nat

\* The frame d places past the position the driver last saw.
Seat(b, d) == IF b + d < BUFFER THEN b + d ELSE b + d - BUFFER
Frames == [d \in 0 .. BUFFER - 1 |-> ring[Seat(last_lpib, d)]]
Ahead == written - played

HdaType ==
  /\ ring \in [0 .. BUFFER - 1 -> Nat]
  /\ written \in Nat /\ played \in Nat /\ samples \in Nat /\ todo \in Nat /\ away \in Nat
  /\ last_lpib \in 0 .. BUFFER - 1 /\ lpib \in 0 .. BUFFER - 1 /\ heard \in Seq(Nat)
  /\ open \in BOOLEAN /\ closing \in BOOLEAN /\ underrun \in BOOLEAN

\* The driver's totals say where in the ring it and the device are.
Books ==
  /\ played <= written /\ written <= played + BUFFER
  /\ last_lpib = played % BUFFER
  /\ away < BUFFER /\ lpib = Seat(last_lpib, away)

\* What is written and not played lies in order; the rest of the ring is silent.
Sorted ==
  /\ \A d \in 0 .. Ahead - 1 : Frames[d] <= samples
  /\ \A d, e \in 0 .. Ahead - 1 :
       d < e /\ Frames[d] # 0 /\ Frames[e] # 0 => Frames[d] < Frames[e]
  /\ \A d \in Ahead .. BUFFER - 1 : Frames[d] = 0

\* What the device has yet to play comes after all it has played.
Later ==
  /\ H!NoReplay
  /\ \A k \in DOMAIN heard : heard[k] <= samples
  /\ \A k \in DOMAIN heard, d \in away .. Ahead - 1 : Frames[d] # 0 => heard[k] < Frames[d]

\* Until the device overtakes the writer, a frame's position says which sample it is.
Counted ==
  /\ away <= Ahead /\ samples <= written
  /\ \A d \in 0 .. Ahead - 1 : Frames[d] = IF played + d < samples THEN played + d + 1 ELSE 0
  /\ Len(heard) = IF played + away < samples THEN played + away ELSE samples
  /\ \A k \in DOMAIN heard : heard[k] = k
  /\ written # samples => closing /\ (hda_pc # "idle" \/ ~open)

HdaInv == HdaType /\ Books /\ Sorted /\ Later /\ (~underrun => Counted)

(* Every number is a multiple of n and its remainder. *)
LEMMA DivMod ==
  ASSUME NEW n \in Int, n > 0, NEW a \in Int
  PROVE  \E q \in Int : a = n * q + (a % n)
  OBVIOUS

(* A remainder is the only one. *)
LEMMA Unique ==
  ASSUME NEW n \in Int, n > 0, NEW q \in Int, NEW r \in 0 .. n - 1
  PROVE  (n * q + r) % n = r
  OBVIOUS

(* The remainder of a number moved on by less than n. *)
LEMMA ModAdd ==
  ASSUME NEW n \in Nat \ {0}, NEW a \in Nat, NEW d \in 0 .. n - 1
  PROVE  (a + d) % n = IF (a % n) + d < n THEN (a % n) + d ELSE (a % n) + d - n
<1> DEFINE r == a % n
<1>1. r \in 0 .. n - 1
  OBVIOUS
<1>0. n \in Int /\ n > 0 /\ a \in Int
  OBVIOUS
<1>2. PICK q \in Int : a = n * q + (a % n)
  BY Zenon, <1>0, DivMod
<1> HIDE DEF r
<1>3. CASE r + d < n
  <2>1. (n * q + (r + d)) % n = r + d
    BY <1>1, <1>3, Unique
  <2>2. a + d = n * q + (r + d)
    BY <1>1, <1>2 DEF r
  <2> QED
    BY <1>3, <2>1, <2>2 DEF r
<1>4. CASE r + d >= n
  <2>1. (n * (q + 1) + (r + d - n)) % n = r + d - n
    <3> DEFINE x == r + d - n
               p == q + 1
    <3>1. x \in 0 .. n - 1 /\ p \in Int
      BY <1>1, <1>4
    <3> HIDE DEF x, p
    <3>2. (n * p + x) % n = x
      BY <3>1
    <3> QED
      BY <3>2 DEF x, p
  <2>2. a + d = n * (q + 1) + (r + d - n)
    BY <1>1, <1>2 DEF r
  <2>3. (a + d) % n = r + d - n
    BY <2>1, <2>2
  <2> QED
    BY <1>1, <1>4, <2>3 DEF r
<1> QED
  BY <1>1, <1>3, <1>4

(* Reduction modulo n of a number less than n, and of one n past it. *)
LEMMA Wraps ==
  ASSUME NEW n \in Nat \ {0}, NEW d \in 0 .. n - 1
  PROVE  d % n = d /\ (n + d) % n = d
  OBVIOUS

(* Every place names a frame of the ring. *)
LEMMA SeatIn ==
  ASSUME HdaConstants, NEW b \in 0 .. BUFFER - 1, NEW d \in 0 .. BUFFER - 1
  PROVE  Seat(b, d) \in 0 .. BUFFER - 1
  BY DEF HdaConstants, Seat

(* Different places name different frames. *)
LEMMA SeatOnce ==
  ASSUME HdaConstants,
         NEW b \in 0 .. BUFFER - 1, NEW d \in 0 .. BUFFER - 1, NEW e \in 0 .. BUFFER - 1,
         Seat(b, d) = Seat(b, e)
  PROVE  d = e
  BY DEF HdaConstants, Seat

(* The places past a total are the places past its remainder. *)
LEMMA SeatMod ==
  ASSUME HdaConstants, NEW a \in Nat, NEW d \in 0 .. BUFFER - 1
  PROVE  (a + d) % BUFFER = Seat(a % BUFFER, d)
  BY Zenon, ModAdd DEF HdaConstants, Seat

(* Walking on from a place. *)
LEMMA SeatTwice ==
  ASSUME HdaConstants,
         NEW b \in 0 .. BUFFER - 1, NEW d \in 0 .. BUFFER - 1, NEW e \in 0 .. BUFFER - 1
  PROVE  Seat(Seat(b, d), e) = IF d + e < BUFFER THEN Seat(b, d + e) ELSE Seat(b, d + e - BUFFER)
  BY DEF HdaConstants, Seat

(* The distance update_played() reads off the device is what the device really played,
   since it was less than a turn of the ring (hda.rs:631-637). *)
LEMMA DeltaIsAway ==
  ASSUME HdaConstants, HdaType, Books
  PROVE  H!Delta = away
<1>1. CASE last_lpib + away < BUFFER
  <2>1. lpib + BUFFER - last_lpib = BUFFER + away /\ away \in 0 .. BUFFER - 1
    BY <1>1 DEF HdaConstants, HdaType, Books, Seat
  <2> QED
    BY <2>1, Wraps DEF HdaConstants, H!Delta
<1>2. CASE last_lpib + away >= BUFFER
  <2>1. lpib + BUFFER - last_lpib = away /\ away \in 0 .. BUFFER - 1
    BY <1>2 DEF HdaConstants, HdaType, Books, Seat
  <2> QED
    BY <2>1, Wraps DEF HdaConstants, H!Delta
<1> QED
  BY <1>1, <1>2 DEF HdaConstants, HdaType

(* The ring, seen from the position last read. *)
LEMMA FramesType ==
  ASSUME HdaConstants, HdaType
  PROVE  Frames \in [0 .. BUFFER - 1 -> Nat]
<1>1. ASSUME NEW d \in 0 .. BUFFER - 1 PROVE ring[Seat(last_lpib, d)] \in Nat
  BY SeatIn DEF HdaType
<1> QED
  BY <1>1 DEF Frames

(* update_played() silences what was passed; the rest moves up (hda.rs:638-652). *)
LEMMA UpdateFrames ==
  ASSUME HdaConstants, HdaType, Books, H!update_played
  PROVE  \A e \in 0 .. BUFFER - 1 :
           Frames'[e] = IF away + e < BUFFER THEN Frames[away + e] ELSE 0
<1> SUFFICES ASSUME NEW e \in 0 .. BUFFER - 1
             PROVE  Frames'[e] = IF away + e < BUFFER THEN Frames[away + e] ELSE 0
  OBVIOUS
<1> DEFINE o == IF away + e < BUFFER THEN away + e ELSE away + e - BUFFER
           i == Seat(last_lpib, o)
<1>1. o \in 0 .. BUFFER - 1 /\ away \in 0 .. BUFFER - 1
  BY DEF HdaConstants, HdaType, Books
<1>2. last_lpib' = Seat(last_lpib, away) /\ last_lpib \in 0 .. BUFFER - 1
  BY DEF H!update_played, Books, HdaType
<1>3. Seat(last_lpib', e) = i
  BY <1>1, <1>2, SeatTwice DEF HdaConstants
<1>4. i \in 0 .. BUFFER - 1
  BY Zenon, <1>1, <1>2, SeatIn
<1>5. H!Passed = {Seat(last_lpib, j) : j \in 0 .. away - 1}
  <2>1. ASSUME NEW j \in 0 .. away - 1 PROVE (last_lpib + j) % BUFFER = Seat(last_lpib, j)
    <3>1. j \in 0 .. BUFFER - 1 /\ last_lpib \in Nat /\ last_lpib % BUFFER = last_lpib
      BY <1>1, <1>2, Wraps DEF HdaConstants
    <3> QED
      BY <3>1, SeatMod
  <2> QED
    BY <2>1, DeltaIsAway DEF H!Passed
<1>6. i \in H!Passed <=> away + e >= BUFFER
  <2>1. CASE away + e >= BUFFER
    <3>1. o \in 0 .. away - 1
      BY <1>1, <2>1 DEF HdaConstants
    <3> QED
      BY <1>5, <2>1, <3>1
  <2>2. CASE away + e < BUFFER
    <3>1. ASSUME NEW j \in 0 .. away - 1, i = Seat(last_lpib, j) PROVE FALSE
      <4>1. j \in 0 .. BUFFER - 1
        BY <1>1 DEF HdaConstants
      <4>2. o = j
        BY <1>1, <1>2, <3>1, <4>1, SeatOnce
      <4> QED
        BY <1>1, <2>2, <4>2 DEF HdaConstants
    <3> QED
      BY <1>1, <1>5, <2>2, <3>1 DEF HdaConstants
  <2> QED
    BY <1>1, <2>1, <2>2 DEF HdaConstants
<1>7. ring'[i] = IF i \in H!Passed THEN 0 ELSE ring[i]
  BY <1>4 DEF H!update_played, HdaType
<1>8. Frames'[e] = ring'[i]
  BY <1>3 DEF Frames
<1>9. away + e < BUFFER => Frames[away + e] = ring[i]
  BY <1>1 DEF Frames
<1> QED
  BY <1>1, <1>6, <1>7, <1>8, <1>9 DEF HdaConstants

(* No stream is open. *)
LEMMA HdaInitially == ASSUME HdaConstants PROVE H!Init => HdaInv
<1> SUFFICES ASSUME H!Init PROVE HdaInv
  OBVIOUS
<1>1. HdaType /\ last_lpib = 0 /\ away = 0 /\ lpib = 0 /\ played = 0 /\ written = 0
  <2>1. ring \in [0 .. BUFFER - 1 -> Nat] /\ heard \in Seq(Nat)
    BY DEF H!Init, H!Silence
  <2>2. 0 \in 0 .. BUFFER - 1
    BY DEF HdaConstants
  <2> QED
    BY Zenon, <2>1, <2>2 DEF H!Init, HdaType
<1>2. \A d \in 0 .. BUFFER - 1 : Frames[d] = 0
  <2>1. ASSUME NEW d \in 0 .. BUFFER - 1 PROVE Frames[d] = 0
    <3>1. Seat(last_lpib, d) \in 0 .. BUFFER - 1
      BY <1>1, SeatIn DEF HdaType
    <3> QED
      BY <3>1 DEF H!Init, H!Silence, Frames
  <2> QED
    BY <2>1
<1>3. played % BUFFER = played /\ played \in 0 .. BUFFER - 1
  <2>1. BUFFER \in Nat \ {0} /\ played \in 0 .. BUFFER - 1
    BY <1>1 DEF HdaConstants
  <2> QED
    BY <2>1, Wraps
<1>4. Books
  <2>1. Seat(last_lpib, away) = 0
    BY <1>1 DEF Seat, HdaConstants
  <2> QED
    BY <1>1, <1>3, <2>1 DEF Books, HdaConstants
<1>5. Sorted
  BY <1>1, <1>2 DEF Sorted, Ahead
<1>6. Later /\ Counted
  BY <1>1 DEF H!Init, Later, H!NoReplay, Counted, Ahead
<1> QED
  BY <1>1, <1>4, <1>5, <1>6 DEF HdaInv

(* A step that leaves the stream alone. *)
LEMMA HdaStreamAlone ==
  ASSUME HdaConstants, HdaInv, UNCHANGED H!stream,
         todo' \in Nat, closing' \in BOOLEAN, open' \in BOOLEAN,
         ~underrun /\ written # samples => closing' /\ (hda_pc' # "idle" \/ ~open')
  PROVE  HdaInv'
<1>1. /\ ring' = ring /\ written' = written /\ played' = played /\ last_lpib' = last_lpib
      /\ lpib' = lpib /\ samples' = samples /\ heard' = heard /\ away' = away
      /\ underrun' = underrun
  BY DEF H!stream
<1>2. Frames' = Frames /\ Ahead' = Ahead
  BY <1>1 DEF Frames, Ahead
<1>3. HdaType'
  BY <1>1 DEF HdaInv, HdaType
<1>4. Books'
  BY <1>1 DEF HdaInv, Books
<1>5. Sorted'
  BY <1>1, <1>2 DEF HdaInv, Sorted
<1>6. Later'
  BY <1>1, <1>2 DEF HdaInv, Later, H!NoReplay
<1>7. ~underrun' => Counted'
  BY <1>1, <1>2 DEF HdaInv, Counted
<1> QED
  BY <1>3, <1>4, <1>5, <1>6, <1>7 DEF HdaInv

(* update_played() leaves to be played what was (hda.rs:631-652). *)
LEMMA HdaUpdateKeeps ==
  ASSUME HdaConstants, HdaInv, H!update_played, hda_pc # "idle", hda_pc' # "idle",
         UNCHANGED <<lpib, samples, heard, underrun, todo, closing, open>>
  PROVE  HdaInv'
<1>0. HdaType /\ Books
  BY DEF HdaInv
<1>1. /\ last_lpib' = lpib /\ played' = played + away /\ away' = 0
      /\ written' = IF written > played + away THEN written ELSE played + away
  BY <1>0, DeltaIsAway DEF H!update_played, H!Max
<1>2. HdaType'
  <2>1. ring' \in [0 .. BUFFER - 1 -> Nat]
    BY <1>0 DEF H!update_played, HdaType
  <2> QED
    BY <1>0, <1>1, <2>1 DEF HdaType
<1>3. Books'
  <2>1. (played + away) % BUFFER = Seat(last_lpib, away)
    <3>1. played \in Nat /\ away \in 0 .. BUFFER - 1 /\ last_lpib = played % BUFFER
      BY <1>0 DEF HdaConstants, HdaType, Books
    <3> QED
      BY Zenon, <3>1, SeatMod
  <2>2. Seat(lpib, 0) = lpib
    BY <1>0 DEF HdaConstants, HdaType, Seat
  <2>3. last_lpib' = played' % BUFFER /\ lpib' = Seat(last_lpib', away')
    BY Zenon, <1>0, <1>1, <2>1, <2>2 DEF Books
  <2>4. played' <= written' /\ written' <= played' + BUFFER /\ away' < BUFFER
    <3>1. /\ played <= written /\ written <= played + BUFFER /\ away < BUFFER
          /\ played \in Nat /\ written \in Nat /\ away \in Nat
      BY Zenon, <1>0 DEF HdaType, Books
    <3> QED
      BY <1>1, <3>1 DEF HdaConstants
  <2> QED
    BY Zenon, <2>3, <2>4 DEF Books
<1>4. \A e \in 0 .. BUFFER - 1 : Frames'[e] = IF away + e < BUFFER THEN Frames[away + e] ELSE 0
  BY <1>0, UpdateFrames
<1>5. Ahead' = IF Ahead > away THEN Ahead - away ELSE 0
  BY <1>0, <1>1 DEF Ahead, HdaType, Books
<1>6. Ahead \in 0 .. BUFFER /\ away \in 0 .. BUFFER - 1
  BY <1>0 DEF Ahead, HdaConstants, HdaType, Books
<1>7. \A e \in 0 .. Ahead' - 1 : away + e \in away .. Ahead - 1 /\ Frames'[e] = Frames[away + e]
  BY <1>4, <1>5, <1>6 DEF HdaConstants
<1>8. Sorted'
  <2>1. \A d \in 0 .. Ahead' - 1 : Frames'[d] <= samples'
    BY <1>6, <1>7 DEF HdaInv, Sorted
  <2>2. \A d, e \in 0 .. Ahead' - 1 :
          d < e /\ Frames'[d] # 0 /\ Frames'[e] # 0 => Frames'[d] < Frames'[e]
    <3>1. ASSUME NEW d \in 0 .. Ahead' - 1, NEW e \in 0 .. Ahead' - 1,
                 d < e, Frames'[d] # 0, Frames'[e] # 0
          PROVE  Frames'[d] < Frames'[e]
      <4>1. /\ away + d \in 0 .. Ahead - 1 /\ Frames'[d] = Frames[away + d]
            /\ away + e \in 0 .. Ahead - 1 /\ Frames'[e] = Frames[away + e]
            /\ away + d < away + e
        BY <1>6, <1>7, <3>1
      <4> QED
        BY <3>1, <4>1 DEF HdaInv, Sorted
    <3> QED
      BY <3>1
  <2>3. \A d \in Ahead' .. BUFFER - 1 : Frames'[d] = 0
    <3>1. ASSUME NEW d \in Ahead' .. BUFFER - 1 PROVE Frames'[d] = 0
      <4>1. d \in 0 .. BUFFER - 1 /\ (away + d < BUFFER => away + d \in Ahead .. BUFFER - 1)
        BY <1>5, <1>6, <3>1 DEF HdaConstants
      <4> QED
        BY <1>4, <4>1 DEF HdaInv, Sorted
    <3> QED
      BY <3>1
  <2> QED
    BY <2>1, <2>2, <2>3 DEF Sorted
<1>9. Later'
  BY <1>1, <1>6, <1>7 DEF HdaInv, Later, H!NoReplay
<1>10. ASSUME ~underrun' PROVE Counted'
  <2>1. Counted
    BY <1>10 DEF HdaInv
  <2>2. played' + away' = played + away /\ written' = written /\ Ahead' = Ahead - away
    BY <1>0, <1>1, <1>5, <1>6, <2>1 DEF Counted, HdaType, Ahead
  <2>3. \A d \in 0 .. Ahead' - 1 :
          Frames'[d] = IF played' + d < samples' THEN played' + d + 1 ELSE 0
    <3>1. ASSUME NEW d \in 0 .. Ahead' - 1
          PROVE  Frames'[d] = IF played' + d < samples' THEN played' + d + 1 ELSE 0
      <4>1. away + d \in 0 .. Ahead - 1 /\ Frames'[d] = Frames[away + d]
        BY <1>6, <1>7
      <4>2. Frames[away + d] =
              IF played + (away + d) < samples THEN played + (away + d) + 1 ELSE 0
        BY <2>1, <4>1 DEF Counted
      <4> QED
        BY <1>0, <1>1, <1>6, <4>1, <4>2 DEF HdaType
    <3> QED
      BY <3>1
  <2>4. away' <= Ahead' /\ samples' <= written'
    BY <1>1, <1>6, <2>1, <2>2 DEF Counted
  <2>5. written' # samples' => closing' /\ (hda_pc' # "idle" \/ ~open')
    BY <2>1, <2>2 DEF Counted
  <2>6. Len(heard') = IF played' + away' < samples' THEN played' + away' ELSE samples'
    BY <2>1, <2>2 DEF Counted
  <2> QED
    BY <2>1, <2>3, <2>4, <2>5, <2>6 DEF Counted
<1> QED
  BY <1>2, <1>3, <1>8, <1>9, <1>10 DEF HdaInv

(* open() starts over. *)
LEMMA HdaOpenKeeps ==
  ASSUME HdaConstants, HdaInv, H!OpenStream
  PROVE  HdaInv'
<1>1. /\ HdaType' /\ last_lpib' = 0 /\ away' = 0 /\ lpib' = 0 /\ played' = 0 /\ written' = 0
      /\ samples' = 0 /\ heard' = <<>>
  <2>1. ring' \in [0 .. BUFFER - 1 -> Nat] /\ heard' \in Seq(Nat)
    BY DEF H!OpenStream, H!Silence
  <2>2. 0 \in 0 .. BUFFER - 1
    BY DEF HdaConstants
  <2> QED
    BY Zenon, <2>1, <2>2 DEF H!OpenStream, HdaType, HdaInv
<1>2. \A d \in 0 .. BUFFER - 1 : Frames'[d] = 0
  <2>1. ASSUME NEW d \in 0 .. BUFFER - 1 PROVE Frames'[d] = 0
    <3>1. Seat(last_lpib', d) \in 0 .. BUFFER - 1
      BY <1>1, SeatIn DEF HdaType
    <3> QED
      BY <3>1 DEF H!OpenStream, H!Silence, Frames
  <2> QED
    BY <2>1
<1>3. Books'
  <2>1. played' % BUFFER = played'
    <3>1. BUFFER \in Nat \ {0} /\ played' \in 0 .. BUFFER - 1
      BY <1>1 DEF HdaConstants
    <3> QED
      BY Zenon, <3>1, Wraps
  <2>2. Seat(last_lpib', away') = 0
    BY <1>1 DEF Seat, HdaConstants
  <2>3. 0 <= 0 /\ 0 <= 0 + BUFFER /\ 0 < BUFFER
    BY DEF HdaConstants
  <2> QED
    BY Zenon, <1>1, <2>1, <2>2, <2>3 DEF Books
<1>4. Sorted'
  BY <1>1, <1>2 DEF Sorted, Ahead
<1>5. Later' /\ Counted'
  BY <1>1 DEF Later, H!NoReplay, Counted, Ahead
<1> QED
  BY <1>1, <1>3, <1>4, <1>5 DEF HdaInv

(* A frame is played: one that was written, or silence. *)
LEMMA HdaTickKeeps ==
  ASSUME HdaConstants, Punctual, HdaInv, H!Tick
  PROVE  HdaInv'
<1>0. HdaType /\ Books /\ Sorted /\ Later
  BY DEF HdaInv
<1> DEFINE v == Frames[away]
<1>1. /\ played <= written /\ written <= played + BUFFER /\ away < BUFFER
      /\ played \in Nat /\ written \in Nat /\ away \in Nat /\ samples \in Nat
      /\ BUFFER \in Nat \ {0} /\ lpib \in 0 .. BUFFER - 1 /\ last_lpib \in 0 .. BUFFER - 1
      /\ lpib = Seat(last_lpib, away)
  BY Zenon, <1>0 DEF HdaType, Books, HdaConstants
<1>2. /\ away < BUFFER - 1 /\ away' = away + 1
      /\ UNCHANGED <<ring, written, played, last_lpib, open, hda_pc, todo, closing, samples>>
      /\ heard' = IF ring[lpib] = 0 THEN heard ELSE Append(heard, ring[lpib])
      /\ underrun' = (underrun \/ played + away >= written)
  <2>1. H!Delta = away
    BY <1>0, DeltaIsAway
  <2> QED
    BY <1>1, <2>1 DEF H!Tick, H!Min
<1>3. ring[lpib] = v /\ v \in Nat
  <2>1. away \in 0 .. BUFFER - 1
    BY <1>1
  <2> QED
    BY <1>0, <1>1, <2>1, FramesType DEF Frames
<1> HIDE DEF v
<1>4. Frames' = Frames /\ Ahead' = Ahead /\ Ahead \in 0 .. BUFFER
  BY <1>1, <1>2 DEF Frames, Ahead
<1>5. lpib' = Seat(last_lpib, away + 1)
  <2>1. (lpib + 1) % BUFFER = IF lpib + 1 < BUFFER THEN lpib + 1 ELSE lpib + 1 - BUFFER
    <3>1. lpib + 1 \in 0 .. BUFFER
      BY <1>1
    <3>2. CASE lpib + 1 < BUFFER
      BY <1>1, <3>2
    <3>3. CASE lpib + 1 = BUFFER
      BY <1>1, <3>3
    <3> QED
      BY <1>1, <3>1, <3>2, <3>3
  <2> DEFINE l == (lpib + 1) % BUFFER
  <2>2. l = IF lpib + 1 < BUFFER THEN lpib + 1 ELSE lpib + 1 - BUFFER
    BY <2>1
  <2>3. lpib' = l
    BY DEF H!Tick
  <2> HIDE DEF l
  <2> QED
    BY <1>1, <1>2, <2>2, <2>3 DEF Seat
<1>6. HdaType'
  <2>1. heard' \in Seq(Nat)
    BY <1>0, <1>2, <1>3 DEF HdaType
  <2>2. lpib' \in 0 .. BUFFER - 1
    <3>1. away + 1 \in 0 .. BUFFER - 1
      BY <1>1, <1>2
    <3> QED
      BY Zenon, <1>1, <1>5, <3>1, SeatIn
  <2>3. away' \in Nat /\ underrun' \in BOOLEAN
    BY <1>1, <1>2 DEF HdaType
  <2> QED
    BY <1>0, <1>2, <2>1, <2>2, <2>3 DEF HdaType
<1>7. Books'
  <2>1. away' < BUFFER
    BY <1>1, <1>2
  <2> QED
    BY Zenon, <1>0, <1>2, <1>5, <2>1 DEF Books
<1>8. Sorted'
  BY <1>0, <1>2, <1>4 DEF Sorted
<1>9. CASE v = 0
  <2>1. heard' = heard
    BY <1>2, <1>3, <1>9
  <2>2. Later'
    BY <1>0, <1>1, <1>2, <1>4, <2>1 DEF Later, H!NoReplay
  <2>3. ASSUME ~underrun' PROVE Counted'
    <3>0. ~underrun /\ ~(played + away >= written)
      BY Zenon, <1>2, <2>3
    <3>1. Counted /\ away \in 0 .. Ahead - 1
      BY <1>1, <3>0 DEF HdaInv, Ahead
    <3>2. v = IF played + away < samples THEN played + away + 1 ELSE 0
      BY <3>1 DEF Counted, v
    <3>3. played + away >= samples
      BY <1>1, <1>9, <3>2
    <3> QED
      BY <1>1, <1>2, <1>4, <2>1, <3>1, <3>3 DEF Counted
  <2> QED
    BY <1>6, <1>7, <1>8, <2>2, <2>3 DEF HdaInv
<1>10. CASE v # 0
  <2>1. heard' = Append(heard, v) /\ heard \in Seq(Nat)
    BY <1>0, <1>2, <1>3, <1>10 DEF HdaType
  <2>2. /\ Len(heard') = Len(heard) + 1 /\ heard'[Len(heard) + 1] = v
        /\ DOMAIN heard' = 1 .. Len(heard) + 1 /\ DOMAIN heard = 1 .. Len(heard)
        /\ \A k \in 1 .. Len(heard) : heard'[k] = heard[k]
        /\ Len(heard) \in Nat
    BY <1>3, <2>1
  <2>3. away \in 0 .. Ahead - 1 /\ v <= samples
    <3>1. away \in 0 .. Ahead - 1
      BY <1>0, <1>1, <1>4, <1>10 DEF Sorted, v
    <3> QED
      BY <1>0, <3>1 DEF Sorted, v
  <2>4. \A k \in 1 .. Len(heard) : heard[k] < v /\ heard[k] \in Nat
    <3>1. away \in away .. Ahead - 1
      BY <1>4, <2>3
    <3> QED
      BY <1>0, <1>10, <2>1, <2>2, <3>1 DEF Later, v
  <2>5. Later'
    <3>1. H!NoReplay'
      <4>1. ASSUME NEW i \in DOMAIN heard', NEW j \in DOMAIN heard', i < j
            PROVE  heard'[i] < heard'[j]
        <5>1. i \in 1 .. Len(heard) /\ (j \in 1 .. Len(heard) \/ j = Len(heard) + 1)
          BY <2>2, <4>1
        <5>2. CASE j \in 1 .. Len(heard)
          BY <1>0, <2>2, <4>1, <5>1, <5>2 DEF Later, H!NoReplay
        <5>3. CASE j = Len(heard) + 1
          BY <2>2, <2>4, <5>1, <5>3
        <5> QED
          BY <5>1, <5>2, <5>3
      <4> QED
        BY <4>1 DEF H!NoReplay
    <3>2. \A k \in DOMAIN heard' : heard'[k] <= samples'
      BY <1>0, <1>2, <2>2, <2>3 DEF Later
    <3>3. \A k \in DOMAIN heard', d \in away' .. Ahead' - 1 :
            Frames'[d] # 0 => heard'[k] < Frames'[d]
      <4>1. ASSUME NEW k \in DOMAIN heard', NEW d \in away' .. Ahead' - 1, Frames'[d] # 0
            PROVE  heard'[k] < Frames'[d]
        <5>1. d \in 0 .. Ahead - 1 /\ away < d /\ Frames[d] # 0 /\ d \in away .. Ahead - 1
          BY <1>1, <1>2, <1>4, <4>1
        <5>2. v < Frames[d]
          BY <1>0, <1>10, <2>3, <5>1 DEF Sorted, v
        <5>3. CASE k = Len(heard) + 1
          BY <1>4, <2>2, <5>2, <5>3
        <5>4. CASE k \in 1 .. Len(heard)
          BY <1>0, <1>4, <2>2, <5>1, <5>4 DEF Later
        <5> QED
          BY <2>2, <5>3, <5>4
      <4> QED
        BY <4>1
    <3> QED
      BY <3>1, <3>2, <3>3 DEF Later
  <2>6. ASSUME ~underrun' PROVE Counted'
    <3>1. Counted
      BY Zenon, <1>2, <2>6 DEF HdaInv
    <3>2. v = IF played + away < samples THEN played + away + 1 ELSE 0
      BY <2>3, <3>1 DEF Counted, v
    <3>3. played + away < samples /\ Len(heard) = played + away /\ v = Len(heard) + 1
      BY <1>1, <1>10, <3>1, <3>2 DEF Counted
    <3>4. \A k \in DOMAIN heard' : heard'[k] = k
      BY <2>2, <3>1, <3>3 DEF Counted
    <3>5. Len(heard') = IF played' + away' < samples' THEN played' + away' ELSE samples'
      BY <1>1, <1>2, <2>2, <3>3
    <3>6. away' <= Ahead' /\ samples' <= written'
      BY <1>1, <1>2, <1>4, <2>3, <3>1 DEF Counted
    <3> QED
      BY <1>2, <1>4, <3>1, <3>4, <3>5, <3>6 DEF Counted
  <2> QED
    BY <1>6, <1>7, <1>8, <2>5, <2>6 DEF HdaInv
<1> QED
  BY <1>9, <1>10

(* put() fills the places past what is written. *)
LEMMA PutFrames ==
  ASSUME HdaConstants, HdaType, Books, NEW n \in 0 .. BUFFER, Ahead + n <= BUFFER,
         ring' = [i \in DOMAIN ring |->
                     IF \E k \in 0 .. n - 1 : (written + k) % BUFFER = i
                     THEN IF closing THEN 0
                          ELSE samples + 1 +
                                 (CHOOSE k \in 0 .. n - 1 : (written + k) % BUFFER = i)
                     ELSE ring[i]],
         last_lpib' = last_lpib
  PROVE  \A e \in 0 .. BUFFER - 1 :
           Frames'[e] = IF e \in Ahead .. Ahead + n - 1
                        THEN IF closing THEN 0 ELSE samples + 1 + (e - Ahead)
                        ELSE Frames[e]
<1> SUFFICES ASSUME NEW e \in 0 .. BUFFER - 1
             PROVE  Frames'[e] = IF e \in Ahead .. Ahead + n - 1
                                 THEN IF closing THEN 0 ELSE samples + 1 + (e - Ahead)
                                 ELSE Frames[e]
  OBVIOUS
<1> DEFINE i == Seat(last_lpib, e)
<1>1. /\ played \in Nat /\ written \in Nat
      /\ last_lpib \in 0 .. BUFFER - 1 /\ BUFFER \in Nat \ {0}
      /\ played <= written /\ written <= played + BUFFER /\ last_lpib = played % BUFFER
  BY Zenon DEF HdaConstants, HdaType, Books
<1>2. i \in 0 .. BUFFER - 1
  BY Zenon, <1>1, SeatIn
<1>3. ASSUME NEW k \in 0 .. n - 1
      PROVE  (written + k) % BUFFER = i <=> k = e - Ahead
  <2> DEFINE d == Ahead + k
  <2>1. d \in 0 .. BUFFER - 1 /\ written + k = played + d
    BY <1>1 DEF Ahead
  <2>2. (played + d) % BUFFER = Seat(last_lpib, d)
    <3> HIDE DEF d
    <3> QED
      BY Zenon, <1>1, <2>1, SeatMod
  <2>3. (written + k) % BUFFER = Seat(last_lpib, d)
    BY Zenon, <2>1, <2>2
  <2>4. Seat(last_lpib, d) = i <=> d = e
    <3> HIDE DEF d
    <3> QED
      BY Zenon, <1>1, <2>1, SeatOnce
  <2>5. d = e <=> k = e - Ahead
    BY <1>1 DEF Ahead
  <2> QED
    BY Zenon, <2>3, <2>4, <2>5
<1>4. Frames'[e] = ring'[i] /\ Frames[e] = ring[i]
  BY DEF Frames
<1>5. ring'[i] = IF \E k \in 0 .. n - 1 : (written + k) % BUFFER = i
                 THEN IF closing THEN 0
                      ELSE samples + 1 + (CHOOSE k \in 0 .. n - 1 : (written + k) % BUFFER = i)
                 ELSE ring[i]
  <2>1. DOMAIN ring = 0 .. BUFFER - 1
    BY DEF HdaType
  <2> QED
    BY Zenon, <1>2, <2>1
<1>6. CASE e \in Ahead .. Ahead + n - 1
  <2>1. e - Ahead \in 0 .. n - 1
    BY <1>1, <1>6 DEF Ahead
  <2>2. \E k \in 0 .. n - 1 : (written + k) % BUFFER = i
    BY Zenon, <1>3, <2>1
  <2>3. (CHOOSE k \in 0 .. n - 1 : (written + k) % BUFFER = i) = e - Ahead
    BY Zenon, <1>3, <2>1, <2>2
  <2> QED
    BY Zenon, <1>4, <1>5, <1>6, <2>2, <2>3
<1>7. CASE e \notin Ahead .. Ahead + n - 1
  <2>1. ASSUME NEW k \in 0 .. n - 1 PROVE k # e - Ahead
    BY <1>1, <1>7 DEF Ahead
  <2> QED
    BY Zenon, <1>3, <1>4, <1>5, <1>7, <2>1
<1> QED
  BY <1>6, <1>7

(* put() after update_played(): a whole write, or as much of it as there is space for
   (hda.rs:655-671). *)
LEMMA HdaPutKeeps ==
  ASSUME HdaConstants, HdaInv, H!Put
  PROVE  HdaInv'
<1>0. HdaType /\ Books /\ Sorted /\ Later
  BY DEF HdaInv
<1> DEFINE n == H!Min(todo, H!Space)
<1>1. /\ played <= written /\ written <= played + BUFFER /\ away < BUFFER /\ todo \in Nat
      /\ played \in Nat /\ written \in Nat /\ away \in Nat /\ samples \in Nat
      /\ BUFFER \in Nat \ {0} /\ GUARD \in Nat /\ closing \in BOOLEAN /\ open \in BOOLEAN
  BY Zenon, <1>0 DEF HdaType, Books, HdaConstants
<1>2. n \in 0 .. BUFFER /\ n <= todo /\ Ahead + n <= BUFFER /\ Ahead \in 0 .. BUFFER
  BY <1>1 DEF H!Min, H!Space, Ahead
<1>3. /\ ring' = [i \in DOMAIN ring |->
                     IF \E k \in 0 .. n - 1 : (written + k) % BUFFER = i
                     THEN IF closing THEN 0
                          ELSE samples + 1 +
                                 (CHOOSE k \in 0 .. n - 1 : (written + k) % BUFFER = i)
                     ELSE ring[i]]
      /\ written' = written + n /\ todo' = todo - n
      /\ samples' = IF closing THEN samples ELSE samples + n
      /\ hda_pc = "put"
      /\ hda_pc' = IF n < todo THEN "update" ELSE IF closing THEN "drain" ELSE "idle"
      /\ UNCHANGED <<played, last_lpib, open, lpib, closing, heard, away, underrun>>
  BY Zenon DEF H!Put
<1>4. \A e \in 0 .. BUFFER - 1 :
        Frames'[e] = IF e \in Ahead .. Ahead + n - 1
                     THEN IF closing THEN 0 ELSE samples + 1 + (e - Ahead)
                     ELSE Frames[e]
  <2> HIDE DEF n
  <2> QED
    BY Zenon, <1>0, <1>2, <1>3, PutFrames
<1>5. ring' \in [0 .. BUFFER - 1 -> Nat]
  <2> DEFINE w(i) == CHOOSE k \in 0 .. n - 1 : (written + k) % BUFFER = i
  <2>1. ASSUME NEW i, \E k \in 0 .. n - 1 : (written + k) % BUFFER = i PROVE w(i) \in Nat
    <3>1. w(i) \in 0 .. n - 1
      BY Zenon, <2>1
    <3> QED
      BY <1>2, <3>1
  <2>2. ASSUME NEW i \in 0 .. BUFFER - 1 PROVE ring'[i] \in Nat
    <3>1. ring[i] \in Nat /\ DOMAIN ring = 0 .. BUFFER - 1
      BY <1>0 DEF HdaType
    <3>2. ring'[i] = IF \E k \in 0 .. n - 1 : (written + k) % BUFFER = i
                     THEN IF closing THEN 0 ELSE samples + 1 + w(i)
                     ELSE ring[i]
      BY Zenon, <1>3, <3>1
    <3> HIDE DEF w
    <3>3. (\E k \in 0 .. n - 1 : (written + k) % BUFFER = i) => samples + 1 + w(i) \in Nat
      BY <1>1, <2>1
    <3>4. 0 \in Nat
      OBVIOUS
    <3> QED
      BY Zenon, <3>1, <3>2, <3>3, <3>4
  <2>3. ring' = [i \in 0 .. BUFFER - 1 |-> ring'[i]]
    BY Zenon, <1>0, <1>3 DEF HdaType
  <2> QED
    BY Zenon, <2>2, <2>3
<1> HIDE DEF n
<1>6. HdaType'
  <2>1. written' \in Nat /\ todo' \in Nat /\ samples' \in Nat
    BY <1>1, <1>2, <1>3
  <2> QED
    BY Zenon, <1>0, <1>3, <1>5, <2>1 DEF HdaType
<1>7. Books'
  <2>1. played <= written' /\ written' <= played + BUFFER
    BY <1>1, <1>2, <1>3 DEF Ahead
  <2> QED
    BY Zenon, <1>0, <1>3, <2>1 DEF Books
<1>8. Ahead' = Ahead + n /\ Frames \in [0 .. BUFFER - 1 -> Nat] /\ samples <= samples'
  BY <1>0, <1>1, <1>2, <1>3, FramesType DEF Ahead
<1>9. /\ \A e \in 0 .. Ahead - 1 : e \in 0 .. BUFFER - 1 /\ Frames'[e] = Frames[e]
      /\ \A e \in Ahead .. Ahead + n - 1 :
           e \in 0 .. BUFFER - 1 /\ Frames'[e] = IF closing THEN 0 ELSE samples + 1 + (e - Ahead)
      /\ \A e \in Ahead + n .. BUFFER - 1 : Frames'[e] = Frames[e]
  BY <1>1, <1>2, <1>4
<1>10. Sorted'
  <2>1. ASSUME NEW d \in 0 .. Ahead' - 1 PROVE Frames'[d] <= samples'
    <3>1. CASE d \in 0 .. Ahead - 1
      BY <1>0, <1>1, <1>2, <1>3, <1>8, <1>9, <3>1 DEF Sorted
    <3>2. CASE d \in Ahead .. Ahead + n - 1
      BY <1>1, <1>2, <1>3, <1>9, <3>2
    <3> QED
      BY <1>2, <1>8, <3>1, <3>2
  <2>2. ASSUME NEW d \in 0 .. Ahead' - 1, NEW e \in 0 .. Ahead' - 1,
               d < e, Frames'[d] # 0, Frames'[e] # 0
        PROVE  Frames'[d] < Frames'[e]
    <3>1. CASE e \in 0 .. Ahead - 1
      <4>1. d \in 0 .. Ahead - 1
        BY <1>2, <2>2, <3>1
      <4> QED
        BY <1>0, <1>9, <2>2, <3>1, <4>1 DEF Sorted
    <3>2. CASE e \in Ahead .. Ahead + n - 1
      <4>1. ~closing /\ Frames'[e] = samples + 1 + (e - Ahead)
        BY <1>9, <2>2, <3>2
      <4>2. CASE d \in 0 .. Ahead - 1
        <5>1. Frames'[d] <= samples /\ Frames'[d] \in Nat
          BY <1>0, <1>8, <1>9, <4>2 DEF Sorted
        <5> QED
          BY <1>1, <1>2, <3>2, <4>1, <5>1
      <4>3. CASE d \in Ahead .. Ahead + n - 1
        <5>1. Frames'[d] = samples + 1 + (d - Ahead)
          BY <1>9, <4>1, <4>3
        <5> QED
          BY <1>1, <1>2, <2>2, <3>2, <4>1, <4>3, <5>1
      <4> QED
        BY <1>2, <1>8, <4>2, <4>3
    <3> QED
      BY <1>2, <1>8, <3>1, <3>2
  <2>3. ASSUME NEW d \in Ahead' .. BUFFER - 1 PROVE Frames'[d] = 0
    <3>1. d \in Ahead + n .. BUFFER - 1 /\ d \in Ahead .. BUFFER - 1
      BY <1>1, <1>2, <1>8
    <3> QED
      BY <1>0, <1>9, <3>1 DEF Sorted
  <2> QED
    BY <2>1, <2>2, <2>3 DEF Sorted
<1>11. Later'
  <2>1. \A k \in DOMAIN heard : heard[k] \in Nat /\ heard[k] <= samples
    BY <1>0 DEF HdaType, Later
  <2>2. ASSUME NEW k \in DOMAIN heard', NEW d \in away' .. Ahead' - 1, Frames'[d] # 0
        PROVE  heard'[k] < Frames'[d]
    <3>1. CASE d \in away .. Ahead - 1
      <4>1. d \in 0 .. Ahead - 1
        BY <1>1, <1>2, <3>1
      <4> QED
        BY <1>0, <1>3, <1>9, <2>2, <3>1, <4>1 DEF Later
    <3>2. CASE d \in Ahead .. Ahead + n - 1
      <4>1. Frames'[d] = samples + 1 + (d - Ahead)
        BY <1>9, <2>2, <3>2
      <4> QED
        BY <1>1, <1>2, <1>3, <2>1, <3>2, <4>1
    <3> QED
      BY <1>1, <1>2, <1>3, <1>8, <3>1, <3>2
  <2>3. \A k \in DOMAIN heard' : heard'[k] <= samples'
    BY <1>1, <1>3, <1>8, <2>1
  <2> QED
    BY <1>0, <1>3, <2>2, <2>3 DEF Later, H!NoReplay
<1>12. ASSUME ~underrun' PROVE Counted'
  <2>1. Counted
    BY <1>3, <1>12 DEF HdaInv
  <2>2. ~closing => written = samples
    BY <1>3, <2>1 DEF Counted
  <2>3. away' <= Ahead' /\ samples' <= written'
    BY <1>1, <1>2, <1>3, <1>8, <2>1, <2>2 DEF Counted
  <2>4. ASSUME NEW d \in 0 .. Ahead' - 1
        PROVE  Frames'[d] = IF played' + d < samples' THEN played' + d + 1 ELSE 0
    <3>1. CASE d \in 0 .. Ahead - 1
      <4>1. Frames'[d] = IF played + d < samples THEN played + d + 1 ELSE 0
        BY <1>9, <2>1, <3>1 DEF Counted
      <4>2. played + d < samples <=> played + d < samples'
        BY <1>1, <1>2, <1>3, <2>2, <3>1 DEF Ahead
      <4> QED
        BY <1>3, <4>1, <4>2
    <3>2. CASE d \in Ahead .. Ahead + n - 1
      <4>1. Frames'[d] = IF closing THEN 0 ELSE samples + 1 + (d - Ahead)
        BY <1>9, <3>2
      <4>2. played + d = written + (d - Ahead) /\ d - Ahead \in 0 .. n - 1
        BY <1>1, <1>2, <3>2 DEF Ahead
      <4>3. CASE closing
        <5>1. ~(played + d < samples)
          BY <1>1, <1>2, <2>1, <4>2 DEF Counted
        <5> QED
          BY <1>3, <4>1, <4>3, <5>1
      <4>4. CASE ~closing
        <5>1. played + d < samples + n /\ samples + 1 + (d - Ahead) = played + d + 1
          BY <1>1, <1>2, <2>2, <4>2, <4>4
        <5> QED
          BY <1>3, <4>1, <4>4, <5>1
      <4> QED
        BY <4>3, <4>4
    <3> QED
      BY <1>2, <1>8, <3>1, <3>2
  <2>5. Len(heard') = IF played' + away' < samples' THEN played' + away' ELSE samples'
    BY <1>1, <1>2, <1>3, <2>1, <2>2 DEF Counted, Ahead
  <2>6. written' # samples' => closing' /\ (hda_pc' # "idle" \/ ~open')
    BY <1>1, <1>2, <1>3, <2>2
  <2>7. \A k \in DOMAIN heard' : heard'[k] = k
    BY <1>3, <2>1 DEF Counted
  <2> QED
    BY <2>3, <2>4, <2>5, <2>6, <2>7 DEF Counted
<1> QED
  BY <1>6, <1>7, <1>10, <1>11, <1>12 DEF HdaInv

(* While the driver looks at the device at least once per turn of the ring, written - played
   never wraps, nothing is heard twice or out of order, and what is heard before the device
   first overtakes the writer is heard without a gap, for every size of the ring and of the
   writes (hda.rs:628-671). *)
THEOREM HdaSoundIntact ==
  ASSUME HdaConstants, Punctual
  PROVE  H!Spec => []SoundIntact
<1>1. HdaInv /\ [H!Next]_(H!vars) => HdaInv'
  <2> SUFFICES ASSUME HdaInv, [H!Next]_(H!vars) PROVE HdaInv'
    OBVIOUS
  <2>0. HdaType /\ (~underrun => Counted)
    BY DEF HdaInv
  <2>1. CASE H!Update
    <3>1. CASE running
      BY <2>1, <3>1, HdaUpdateKeeps DEF H!Update
    <3>2. CASE ~running
      <4>1. UNCHANGED H!stream /\ UNCHANGED <<todo, closing, open>> /\ hda_pc' # "idle"
        BY <2>1, <3>2 DEF H!Update, H!stream
      <4> QED
        BY <2>0, <4>1, HdaStreamAlone DEF HdaType, Counted
    <3> QED
      BY <3>1, <3>2
  <2>2. CASE H!Drain
    <3>1. CASE played < written /\ running
      BY <2>2, <3>1, HdaUpdateKeeps DEF H!Drain
    <3>2. CASE ~(played < written /\ running)
      <4>1. UNCHANGED H!stream /\ UNCHANGED <<todo, closing>> /\ open' = FALSE
        BY <2>2, <3>2 DEF H!Drain, H!stream
      <4> QED
        BY Zenon, <2>0, <4>1, HdaStreamAlone DEF HdaType, Counted
    <3> QED
      BY <3>1, <3>2
  <2>3. CASE \E m \in Lengths : H!Write(m)
    <3>1. PICK m \in Lengths : H!Write(m)
      BY <2>3
    <3>2. /\ UNCHANGED H!stream /\ todo' \in Nat /\ closing' = FALSE /\ open' = open
          /\ hda_pc = "idle" /\ open
      BY <3>1 DEF H!Write, HdaConstants
    <3> QED
      BY Zenon, <2>0, <3>2, HdaStreamAlone DEF HdaType, Counted
  <2>4. CASE H!Close
    <3>1. UNCHANGED H!stream /\ todo' \in Nat /\ closing' = TRUE /\ open' = open
          /\ hda_pc' = "update"
      BY <2>4 DEF H!Close, HdaConstants
    <3> QED
      BY <2>0, <3>1, HdaStreamAlone DEF HdaType
  <2>5. CASE H!Stall \/ H!DrainTimeout
    <3>1. UNCHANGED H!stream /\ UNCHANGED <<todo, closing>> /\ open' = FALSE
      BY <2>5 DEF H!Stall, H!DrainTimeout
    <3> QED
      BY Zenon, <2>0, <3>1, HdaStreamAlone DEF HdaType, Counted
  <2>6. CASE H!Hang \/ UNCHANGED H!vars
    <3>1. UNCHANGED H!stream /\ UNCHANGED <<todo, closing, open, hda_pc>>
      BY <2>6 DEF H!Hang, H!vars, H!stream
    <3> QED
      BY <2>0, <3>1, HdaStreamAlone DEF HdaType, Counted
  <2> QED
    BY <2>1, <2>2, <2>3, <2>4, <2>5, <2>6, HdaOpenKeeps, HdaPutKeeps, HdaTickKeeps
       DEF H!Next, H!Driver
<1>2. HdaInv => SoundIntact
  <2> SUFFICES ASSUME HdaInv PROVE H!SoundIntact
    BY DEF SoundIntact
  <2>0. HdaType /\ Books /\ Later /\ (~underrun => Counted)
    BY DEF HdaInv
  <2>1. /\ played \in Nat /\ written \in Nat /\ samples \in Nat /\ away \in Nat
        /\ BUFFER \in Nat \ {0}
        /\ played <= written /\ written <= played + BUFFER /\ last_lpib \in 0 .. BUFFER - 1
    BY Zenon, <2>0 DEF HdaType, Books, HdaConstants
  <2>2. H!NeverOverdrawn /\ H!NoReplay
    BY <2>0, <2>1 DEF H!NeverOverdrawn, Later
  <2>3. ASSUME ~underrun PROVE heard = [k \in DOMAIN heard |-> k]
    <3>1. \A k \in DOMAIN heard : heard[k] = k
      BY <2>0, <2>3 DEF Counted
    <3>2. heard = [k \in DOMAIN heard |-> heard[k]]
      BY <2>0 DEF HdaType
    <3> QED
      BY Zenon, <3>1, <3>2
  <2>4. ASSUME ~underrun, NEW i \in Len(heard) + 1 .. samples
        PROVE  \E k \in DOMAIN ring : ring[k] = i
    <3> DEFINE d == i - 1 - played
    <3>0. Counted /\ heard \in Seq(Nat) /\ DOMAIN ring = 0 .. BUFFER - 1
      BY <2>0, <2>4 DEF HdaType
    <3>1. Len(heard) = played + away /\ samples <= written
      BY <2>1, <3>0 DEF Counted
    <3>2. /\ d \in 0 .. Ahead - 1 /\ d \in 0 .. BUFFER - 1
          /\ played + d < samples /\ played + d + 1 = i
      <4>1. i \in Nat /\ played + away + 1 <= i /\ i <= samples
        BY <2>1, <2>4, <3>1
      <4> QED
        BY <2>1, <3>1, <4>1 DEF Ahead
    <3> HIDE DEF d
    <3>3. Frames[d] = i
      BY <3>0, <3>2 DEF Counted
    <3>4. ring[Seat(last_lpib, d)] = i /\ Seat(last_lpib, d) \in 0 .. BUFFER - 1
      BY Zenon, <2>1, <3>2, <3>3, SeatIn DEF Frames
    <3> QED
      BY <3>0, <3>4
  <2> QED
    BY <2>2, <2>3, <2>4 DEF H!SoundIntact, H!Gapless
<1> QED
  BY HdaInitially, <1>1, <1>2, PTL DEF H!Spec

(* Whatever the program does and however late the driver looks, written - played, an
   unsigned subtraction, cannot wrap (hda.rs:631-659). *)
THEOREM HdaNeverOverdrawn ==
  ASSUME HdaConstants
  PROVE  H!Spec => []H!NeverOverdrawn
<1> DEFINE Inv == played \in Nat /\ written \in Nat /\ todo \in Nat /\ lpib \in Nat
                    /\ last_lpib \in 0 .. BUFFER - 1 /\ lpib \in 0 .. BUFFER - 1
                    /\ H!NeverOverdrawn
<1>1. H!Init => Inv
  BY DEF H!Init, HdaConstants, H!NeverOverdrawn
<1>2. Inv /\ [H!Next]_(H!vars) => Inv'
  <2> SUFFICES ASSUME Inv, [H!Next]_(H!vars) PROVE Inv'
    OBVIOUS
  <2>1. CASE H!update_played /\ UNCHANGED <<todo, lpib>>
    <3>1. H!Delta \in Nat
      BY DEF H!Delta, HdaConstants
    <3> QED
      BY <2>1, <3>1 DEF H!update_played, H!Max, H!NeverOverdrawn
  <2>2. CASE UNCHANGED <<played, written, last_lpib, lpib>> /\ todo' \in Nat
    BY <2>2 DEF H!NeverOverdrawn
  <2>3. CASE H!Put
    <3> DEFINE n == H!Min(todo, H!Space)
    <3>1. n \in Nat /\ n <= todo
      BY DEF H!Min, H!Space, HdaConstants, H!NeverOverdrawn
    <3>2. /\ written' = written + n /\ todo' = todo - n
          /\ UNCHANGED <<played, last_lpib, lpib>>
      BY ZenonT(40), <2>3 DEF H!Put
    <3> HIDE DEF n
    <3> QED
      BY <3>1, <3>2 DEF H!NeverOverdrawn
  <2>4. CASE H!Tick
    <3>1. lpib' = (lpib + 1) % BUFFER /\ UNCHANGED <<played, written, last_lpib, todo>>
      BY <2>4 DEF H!Tick
    <3>2. lpib' \in 0 .. BUFFER - 1
      BY <3>1 DEF HdaConstants
    <3> QED
      BY <3>1, <3>2 DEF H!NeverOverdrawn
  <2>5. CASE H!OpenStream
    BY <2>5 DEF H!OpenStream, HdaConstants, H!NeverOverdrawn
  <2>6. CASE H!Update \/ H!Drain
    BY <2>1, <2>2, <2>6 DEF H!Update, H!Drain
  <2>7. CASE (\E n \in Lengths : H!Write(n)) \/ H!Close
    BY <2>2, <2>7 DEF H!Write, H!Close, H!stream, HdaConstants
  <2>8. CASE H!Stall \/ H!DrainTimeout \/ H!Hang \/ UNCHANGED H!vars
    BY <2>2, <2>8 DEF H!Stall, H!DrainTimeout, H!Hang, H!stream, H!vars
  <2> QED
    BY <2>3, <2>4, <2>5, <2>6, <2>7, <2>8 DEF H!Next, H!Driver
<1>3. Inv => H!NeverOverdrawn
  OBVIOUS
<1> QED
  BY <1>1, <1>2, <1>3, PTL DEF H!Spec

-----------------------------------------------------------------------------
(* AHCI. *)

CONSTANTS None, Lbas, Values, Blank

VARIABLES disk, bounce, call, reply, clean, id, table, ci, tfes, err, busy, moved, halted,
          ahci_pc

A == INSTANCE Ahci WITH pc <- ahci_pc

Calls == [op : {"read", "write"}, lba : Lbas, val : Values]
Commands == [id : A!CommandIds, op : {"read", "write"}, lba : Lbas]

DiskConstants == Blank \in Values /\ None \notin Calls /\ None \notin Commands

AhciType ==
  /\ disk \in [Lbas -> Values] /\ bounce \in Values /\ call \in Calls \cup {None}
  /\ id \in A!CommandIds /\ table \in Commands \cup {None} /\ busy \in Commands \cup {None}
  /\ ci \in BOOLEAN /\ tfes \in BOOLEAN /\ moved \in BOOLEAN /\ halted \in BOOLEAN
  /\ ahci_pc \in {"idle", "check", "build", "issue", "poll"}

\* The command of the call in progress, and its data moved.
AhciCommand == [id |-> id, op |-> call.op, lba |-> call.lba]
AhciMoved == disk[call.lba] = IF call.op = "write" THEN call.val ELSE bounce

\* An older command the drive is still at has the other id.
AhciSlots ==
  /\ ahci_pc = "idle" <=> call = None
  /\ ci => table # None
  /\ table # None => table.id = id
  /\ ahci_pc = "build" => busy \in {None, table}
  /\ ahci_pc \in {"issue", "poll"} => table = AhciCommand
  /\ busy # None => ci
  /\ busy # None /\ busy.id = id => busy = table

\* A call that began with nothing left over meets no command but its own.
AhciAlone ==
  clean /\ call # None =>
    /\ call.op = "write" => bounce = call.val
    /\ ahci_pc \in {"check", "build", "issue"} => busy = None /\ (ci => halted)
    /\ ahci_pc = "poll" => /\ busy \in {None, table}
                           /\ busy # None /\ moved => AhciMoved
                           /\ ~tfes /\ ~ci => AhciMoved

AhciInv == AhciType /\ AhciSlots /\ AhciAlone

(* The port is idle. *)
LEMMA AhciInitially == ASSUME DiskConstants PROVE A!Init => AhciInv
  BY Zenon DEF DiskConstants, A!Init, AhciInv, AhciType, AhciSlots, AhciAlone, A!CommandIds

(* A call fills the bounce buffer before anything is waited for (ahci.rs:97-115). *)
LEMMA AhciBegin ==
  ASSUME DiskConstants, AhciInv, NEW op \in {"read", "write"}, NEW l \in Lbas, NEW v \in Values,
         A!Begin(op, l, v)
  PROVE  AhciInv' /\ A!Promise!Begin
<1>1. call' = [op |-> op, lba |-> l, val |-> v] /\ call' \in Calls /\ call' # None /\ call = None
  <2>1. call' = [op |-> op, lba |-> l, val |-> v] /\ ahci_pc = "idle"
    BY DEF A!Begin
  <2>2. call' \in Calls
    BY <2>1 DEF Calls
  <2> QED
    BY <2>1, <2>2 DEF AhciInv, AhciSlots, DiskConstants
<1>2. /\ UNCHANGED <<disk, id, table, ci, tfes, err, busy, moved, halted>> /\ ahci_pc' = "check"
      /\ bounce' = (IF op = "write" THEN v ELSE bounce) /\ clean' = (A!Unfinished = {})
      /\ reply' = None /\ ahci_pc = "idle"
  BY DEF A!Begin, A!port
<1>3. AhciType'
  BY SMTT(30), <1>1, <1>2 DEF AhciInv, AhciType
<1>4. AhciSlots'
  BY <1>1, <1>2 DEF AhciInv, AhciSlots, AhciCommand
<1>5. AhciAlone'
  BY Zenon, <1>1, <1>2 DEF AhciAlone, A!Unfinished
<1>6. A!Late' = A!Late /\ A!Late = A!Unfinished
  BY <1>1, <1>2 DEF A!Late, A!Unfinished
<1>7. A!Promise!Begin
  BY <1>1, <1>2, <1>6 DEF A!Promise!Begin, Calls
<1> QED
  BY SMTT(30), <1>3, <1>4, <1>5, <1>7 DEF AhciInv

(* A call returns; its command, if the drive has it still, is left behind. *)
LEMMA AhciReturn ==
  ASSUME DiskConstants, AhciInv, NEW ok \in BOOLEAN, A!Return(ok), ahci_pc \in {"check", "poll"},
         ok => ahci_pc = "poll" /\ ~tfes /\ ~ci
  PROVE  AhciInv' /\ A!Promise!Next(A!CommandIds)
<1>1. /\ UNCHANGED <<disk, bounce, clean, id, table, ci, tfes, err, busy, moved, halted>>
      /\ ahci_pc' = "idle" /\ call' = None
      /\ reply' = [ok |-> ok, val |-> IF ok /\ call.op = "read" THEN bounce ELSE Blank]
  BY DEF A!Return, A!port
<1>2. AhciType'
  BY <1>1 DEF AhciInv, AhciType
<1>3. AhciSlots'
  BY <1>1 DEF AhciInv, AhciSlots
<1>4. AhciAlone'
  BY <1>1 DEF AhciAlone
<1>5. call \in Calls /\ call # None /\ bounce \in Values /\ id \in A!CommandIds
  BY DEF AhciInv, AhciType, AhciSlots
<1>6. A!Unfinished' = A!Unfinished /\ A!Late' = A!Unfinished
  BY <1>1 DEF A!Late, A!Unfinished
<1>7. reply' \in [ok : {ok}, val : Values]
  BY <1>1, <1>5 DEF DiskConstants
<1>8. CASE A!Unfinished = A!Late
  <2>1. CASE ok
    <3>1. clean => disk[call.lba] = IF call.op = "write" THEN call.val ELSE reply'.val
      BY SMTT(30), <1>1, <1>5, <2>1 DEF AhciInv, AhciAlone, AhciMoved, Calls
    <3>2. A!Promise!Succeed
      BY <1>1, <1>5, <1>6, <1>7, <1>8, <2>1, <3>1 DEF A!Promise!Succeed
    <3> QED
      BY SMTT(30), <1>2, <1>3, <1>4, <3>2 DEF AhciInv, A!Promise!Next
  <2>2. CASE ~ok
    <3>1. A!Promise!Fail
      BY Zenon, <1>1, <1>5, <1>6, <1>7, <1>8, <2>2 DEF A!Promise!Fail
    <3> QED
      BY <1>2, <1>3, <1>4, <3>1 DEF AhciInv, A!Promise!Next
  <2> QED
    BY <2>1, <2>2
<1>9. CASE A!Unfinished # A!Late
  <2>1. ahci_pc = "poll" /\ table = AhciCommand
    BY <1>5, <1>9 DEF A!Late, A!Unfinished, AhciInv, AhciSlots
  <2>2. A!Unfinished = A!Late \cup {table}
    BY <1>5, <1>9, <2>1 DEF A!Late, A!Unfinished, AhciInv, AhciType, AhciSlots
  <2>3. ~ok
    BY <1>5, <1>9, <2>1 DEF A!Late, A!Unfinished, AhciInv, AhciType, AhciSlots
  <2>4. A!Promise!GiveUp(id)
    BY Zenon, <1>1, <1>5, <1>6, <1>7, <2>1, <2>2, <2>3 DEF A!Promise!GiveUp, AhciCommand
  <2> QED
    BY <1>2, <1>3, <1>4, <1>5, <2>4 DEF AhciInv, A!Promise!Next
<1> QED
  BY <1>8, <1>9

(* The drive is done with a command, or drops it. *)
LEMMA AhciEnds ==
  ASSUME DiskConstants, AhciInv, A!Finish \/ \E stop \in BOOLEAN : A!TaskError(stop)
  PROVE  AhciInv' /\ A!Promise!LateEnd
<1>1. /\ UNCHANGED <<disk, bounce, call, reply, clean, ahci_pc, id, table>>
      /\ busy # None /\ busy' = None /\ moved' = FALSE
      /\ \/ ci' = FALSE /\ moved /\ UNCHANGED <<tfes, err, halted>>
         \/ tfes' = TRUE /\ ci' \in BOOLEAN /\ halted' = ci'
  BY DEF A!Finish, A!TaskError, A!caller
<1>2. AhciType'
  BY Zenon, <1>1 DEF AhciInv, AhciType
<1>3. AhciSlots'
  BY SMTT(30), <1>1 DEF AhciInv, AhciType, AhciSlots, AhciCommand
<1>4. AhciAlone'
  BY <1>1 DEF AhciInv, AhciType, AhciSlots, AhciAlone, AhciMoved
<1>5. A!Late' \subseteq A!Late
  BY <1>1 DEF A!Late, A!Unfinished
<1>6. A!Promise!LateEnd
  BY <1>1, <1>5 DEF A!Promise!LateEnd
<1> QED
  BY <1>2, <1>3, <1>4, <1>6 DEF AhciInv

(* The data moves of the call's own command or of a late one. *)
LEMMA AhciMoves ==
  ASSUME DiskConstants, AhciInv, A!Dma
  PROVE  AhciInv' /\ (A!Promise!Next(A!CommandIds) \/ UNCHANGED A!Promise!vars)
<1>1. /\ UNCHANGED <<call, reply, clean, ahci_pc, id, table, ci, tfes, err, busy, halted>>
      /\ busy # None /\ ~moved /\ moved' = TRUE
      /\ \/ busy.op = "read" /\ bounce' = disk[busy.lba] /\ disk' = disk
         \/ busy.op # "read" /\ disk' = [disk EXCEPT ![busy.lba] = bounce] /\ bounce' = bounce
  BY DEF A!Dma, A!caller
<1>2. busy \in Commands /\ disk \in [Lbas -> Values] /\ bounce \in Values
  BY <1>1 DEF AhciInv, AhciType
<1>3. AhciType'
  <2>1. disk' \in [Lbas -> Values] /\ bounce' \in Values
    BY SMTT(30), <1>1, <1>2 DEF Commands
  <2> QED
    BY <1>1, <2>1 DEF AhciInv, AhciType
<1>4. AhciSlots'
  BY SMTT(30), <1>1 DEF AhciInv, AhciSlots, AhciCommand
<1>5. ASSUME clean, call # None
      PROVE  busy = table /\ ahci_pc = "poll" /\ table = AhciCommand
  BY <1>1, <1>5 DEF AhciInv, AhciType, AhciSlots, AhciAlone
<1>6. AhciAlone'
  <2> SUFFICES ASSUME clean, call # None PROVE AhciAlone'
    BY <1>1 DEF AhciAlone
  <2>1. busy.op = call.op /\ busy.lba = call.lba /\ call.lba \in Lbas
    BY <1>2, <1>5 DEF AhciCommand, Commands
  <2>2. call.op = "write" => bounce' = call.val
    BY Zenon, <1>1, <2>1 DEF AhciInv, AhciAlone
  <2>3. AhciMoved'
    BY <1>1, <1>2, <2>1, <2>2 DEF AhciMoved, AhciInv, AhciType, Calls
  <2> QED
    BY Zenon, <1>1, <1>5, <2>2, <2>3 DEF AhciAlone
<1>7. A!Late' = A!Late
  BY <1>1 DEF A!Late, A!Unfinished
<1>8. CASE busy.op = "read"
  <2>1. disk' = disk
    BY <1>1, <1>8
  <2>2. UNCHANGED A!Promise!vars
    BY <1>1, <1>7, <2>1 DEF A!Promise!vars
  <2> QED
    BY <1>3, <1>4, <1>6, <2>2 DEF AhciInv
<1>9. CASE busy.op # "read"
  <2>1. disk' = [disk EXCEPT ![busy.lba] = bounce] /\ busy.op = "write"
    BY <1>1, <1>2, <1>9 DEF Commands
  <2>2. CASE busy \in A!Late
    <3>1. A!Promise!LateLand(busy)
      BY Zenon, <1>1, <1>2, <1>7, <2>1 DEF A!Promise!LateLand
    <3> QED
      BY <1>3, <1>4, <1>6, <2>2, <3>1 DEF AhciInv, A!Promise!Next
  <2>3. CASE busy \notin A!Late
    <3>1. busy = AhciCommand /\ call # None
      BY SMTT(30), <1>1, <2>3 DEF A!Late, A!Unfinished, AhciInv, AhciType, AhciSlots
    <3>2. clean => bounce = call.val
      BY <2>1, <3>1 DEF AhciCommand, AhciInv, AhciAlone
    <3>3. disk' = [disk EXCEPT ![call.lba] = bounce] /\ call.op = "write"
      BY <2>1, <3>1 DEF AhciCommand
    <3>4. A!Promise!Land
      BY Zenon, <1>1, <1>2, <1>7, <3>1, <3>2, <3>3 DEF A!Promise!Land
    <3> QED
      BY SMTT(30), <1>3, <1>4, <1>6, <3>4 DEF AhciInv, A!Promise!Next
  <2> QED
    BY <2>2, <2>3
<1> QED
  BY <1>8, <1>9

(* The other steps of the driver and the drive. *)
LEMMA AhciQuiet ==
  ASSUME DiskConstants, AhciInv, A!Fetch \/ A!WaitClear \/ A!Issue
  PROVE  AhciInv' /\ UNCHANGED A!Promise!vars
<1>1. CASE A!Fetch
  <2>1. /\ UNCHANGED <<disk, bounce, call, reply, clean, ahci_pc, id, table, ci, tfes, halted>>
        /\ ci /\ busy = None /\ ~halted /\ busy' = table /\ moved' = FALSE
    BY <1>1 DEF A!Fetch, A!caller
  <2>2. AhciType'
    BY Zenon, <2>1 DEF AhciInv, AhciType
  <2>3. AhciSlots'
    BY SMTT(30), <2>1 DEF AhciInv, AhciSlots, AhciCommand
  <2>4. AhciAlone'
    BY <2>1 DEF AhciInv, AhciType, AhciSlots, AhciAlone, AhciMoved
  <2>5. A!Late' = A!Late
    BY <2>1 DEF A!Late, A!Unfinished, AhciInv, AhciSlots
  <2> QED
    BY <2>1, <2>2, <2>3, <2>4, <2>5 DEF AhciInv, A!Promise!vars
<1>2. CASE A!WaitClear
  <2>1. /\ UNCHANGED <<disk, bounce, call, reply, clean, id, table, ci, tfes, err, busy, moved,
                       halted>>
        /\ ahci_pc = "check" /\ busy = None /\ ahci_pc' = "build"
    BY SMTT(30), <1>2 DEF A!WaitClear, A!port
  <2>2. AhciType' /\ AhciSlots' /\ AhciAlone'
    BY <2>1 DEF AhciInv, AhciType, AhciSlots, AhciCommand, AhciAlone
  <2>3. A!Late' = A!Late
    BY <2>1 DEF A!Late, A!Unfinished
  <2> QED
    BY <2>1, <2>2, <2>3 DEF AhciInv, A!Promise!vars
<1>3. CASE A!Issue
  <2>1. /\ UNCHANGED <<disk, bounce, call, reply, clean, id, table, err, busy, moved, halted>>
        /\ ahci_pc = "issue" /\ ahci_pc' = "poll" /\ tfes' = FALSE /\ ci' = TRUE
    BY <1>3 DEF A!Issue
  <2>2. AhciType'
    BY Zenon, <2>1 DEF AhciInv, AhciType
  <2>3. table = AhciCommand /\ table # None /\ call # None /\ table.id = id
    BY SMTT(30), <2>1
       DEF AhciInv, AhciType, AhciSlots, AhciCommand, DiskConstants, Commands, Calls
  <2>4. AhciSlots'
    BY <2>1, <2>3 DEF AhciInv, AhciSlots, AhciCommand
  <2>5. AhciAlone'
    BY Zenon, <2>1 DEF AhciInv, AhciAlone
  <2>6. A!Late' = A!Late
    BY SMTT(30), <2>1, <2>3 DEF A!Late, A!Unfinished
  <2> QED
    BY SMTT(30), <2>1, <2>2, <2>4, <2>5, <2>6 DEF AhciInv, A!Promise!vars
<1> QED
  BY <1>1, <1>2, <1>3

(* The table is rebuilt, over a command that may still have been in it. *)
LEMMA AhciBuild ==
  ASSUME DiskConstants, AhciInv, A!Build
  PROVE  AhciInv' /\ A!Promise!LateEnd
<1>1. /\ UNCHANGED <<disk, bounce, call, reply, clean, ci, tfes, err, busy, moved, halted>>
      /\ ahci_pc = "build" /\ ahci_pc' = "issue" /\ id' = 1 - id
      /\ table' = [id |-> id', op |-> call.op, lba |-> call.lba]
  BY SMTT(30) DEF A!Build
<1>2. call \in Calls /\ call # None /\ id' \in A!CommandIds /\ id' # id
  BY SMTT(30), <1>1 DEF AhciInv, AhciType, AhciSlots, A!CommandIds
<1>3. table' \in Commands /\ table' # None /\ table' = AhciCommand' /\ table'.id = id'
  BY SMTT(30), <1>1, <1>2 DEF Commands, Calls, AhciCommand, DiskConstants
<1>4. AhciType'
  BY SMTT(30), <1>1, <1>2, <1>3 DEF AhciInv, AhciType
<1>5. AhciSlots'
  BY SMTT(30), <1>1, <1>2, <1>3 DEF AhciInv, AhciSlots
<1>6. AhciAlone'
  BY SMTT(30), <1>1 DEF AhciInv, AhciAlone
<1>7. A!Late' \subseteq A!Late
  BY <1>1, <1>2, <1>3 DEF A!Late, A!Unfinished
<1> QED
  BY SMTT(30), <1>1, <1>4, <1>5, <1>6, <1>7 DEF AhciInv, A!Promise!LateEnd

(* Every step of the driver and of the drive is one of DiskPromise's or changes nothing
   there: a call that began with nothing left over and succeeds moved its sector, and what a
   call gave up on changes no sector but its own, though table and bounce buffer are used
   again under it (ahci.rs:108-175). *)
THEOREM AhciImplementsDisk ==
  ASSUME DiskConstants
  PROVE  A!Spec => A!ImplementsDisk
<1>1. A!Init => A!Promise!Init
  BY DEF A!Init, A!Promise!Init, A!Late, A!Unfinished
<1>2. AhciInv /\ [A!Next]_(A!vars)
        => AhciInv' /\ [A!Promise!Next(A!CommandIds)]_(A!Promise!vars)
  <2> SUFFICES ASSUME AhciInv, [A!Next]_(A!vars)
               PROVE  AhciInv' /\ [A!Promise!Next(A!CommandIds)]_(A!Promise!vars)
    OBVIOUS
  <2>1. CASE UNCHANGED A!vars
    <3>1. UNCHANGED <<disk, bounce, call, reply, clean, ahci_pc, id, table, ci, tfes, err, busy,
                      moved, halted>>
      BY SMTT(30), <2>1 DEF A!vars, A!caller, A!port
    <3>2. AhciInv'
      BY <3>1 DEF AhciInv, AhciType, AhciSlots, AhciCommand, AhciAlone, AhciMoved
    <3>3. UNCHANGED A!Promise!vars
      BY <3>1 DEF A!Promise!vars, A!Late, A!Unfinished
    <3> QED
      BY <3>2, <3>3
  <2>2. CASE \E l \in Lbas : A!Begin("read", l, Blank) \/ \E v \in Values : A!Begin("write", l, v)
    BY <2>2, AhciBegin DEF DiskConstants, A!Promise!Next
  <2>3. CASE A!StaysBusy \/ A!TimeOut
    BY Zenon, <2>3, AhciReturn DEF A!StaysBusy, A!TimeOut
  <2>4. CASE A!Polled
    <3>1. A!Return(~tfes /\ ~err) /\ ahci_pc = "poll" /\ (~tfes /\ ~err => ~tfes /\ ~ci)
      BY <2>4 DEF A!Polled
    <3> QED
      BY Zenon, <3>1, AhciReturn
  <2>5. CASE A!Build \/ A!Finish \/ \E stop \in BOOLEAN : A!TaskError(stop)
    BY <2>5, AhciBuild, AhciEnds DEF A!Promise!Next
  <2> QED
    BY <2>1, <2>2, <2>3, <2>4, <2>5, AhciQuiet, AhciMoves DEF A!Next, A!Spin
<1> QED
  BY AhciInitially, <1>1, <1>2, PTL DEF A!Spec, A!ImplementsDisk
=============================================================================
