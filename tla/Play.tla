-------------------------------- MODULE Play --------------------------------
(***************************************************************************)
(* play (userland play/src/lib.rs, source.rs): each file named is sniffed,  *)
(* opened as WAV or MP3, and fed to the audio device a chunk of PCM at a    *)
(* time, the keyboard polled in between.  A file is a sequence of units:    *)
(* chunk headers and data, or an ID3 tag, junk and MP3 frames of two units, *)
(* the first of which says what frame it is.  What the decoder makes of the *)
(* bytes, the volume and the screen are left out.                           *)
(***************************************************************************)
EXTENDS Naturals, Sequences, FiniteSetsExt

CONSTANTS Tracks,      \* files: sequences of [k |-> kind of unit, n |-> size it gives]
          MaxTracks,   \* named in a run
          IN_BYTES, CHUNK_BYTES,
          FRAME_BYTES, \* of PCM, all channels
          DECODED,     \* bytes of PCM an MP3 frame makes
          FMT          \* units of a fmt chunk that are read

VARIABLES track, left,     \* the file, and how many come after it
          pc,
          pos,             \* units of it read
          at,              \* MP3: units decoded or skipped, in_pos as a file position
          eof, rate, start,\* start: of the first frame
          pcm,             \* the frame being played: [frame, pos, len]
          format,          \* WAV: the fmt chunk, once seen
          data, remaining, \* where its data starts, bytes of it not yet played
          paused,
          played           \* what the device was given: <<place in the file, byte>>

mp3 == <<at, eof, rate, start, pcm>>
wav == <<format, data, remaining>>
vars == <<track, left, pc, pos, mp3, wav, paused, played>>

NoFrame == [frame |-> 0, pos |-> 0, len |-> 0]
Kind(p) == track[p].k
Size(p) == track[p].n
Least(a, b) == IF a < b THEN a ELSE b
Over == {"failed", "refused", "finished", "skipped"}

Init ==
  /\ track \in Tracks /\ left = MaxTracks - 1 /\ pc = "sniff" /\ pos = 0
  /\ at = 0 /\ eof = FALSE /\ rate = "" /\ start = 0 /\ pcm = NoFrame
  /\ format = "" /\ data = 0 /\ remaining = 0 /\ paused = FALSE /\ played = <<>>

\* main() goes on with the next file, whatever became of this one.
NextTrack ==
  /\ pc \in Over /\ left > 0
  /\ track' \in Tracks /\ left' = left - 1 /\ pc' = "sniff" /\ pos' = 0
  /\ at' = 0 /\ eof' = FALSE /\ rate' = "" /\ start' = 0 /\ pcm' = NoFrame
  /\ format' = "" /\ data' = 0 /\ remaining' = 0 /\ paused' = FALSE /\ played' = <<>>

\* The size of a leading ID3 tag with its header.
id3v2_size == IF Kind(1) = "ID3" THEN 1 + Size(1) ELSE 0

\* Source::open(): by the first bytes, never the name.
Sniff ==
  /\ pc = "sniff"
  /\ CASE track = <<>> -> pc' = "failed" /\ UNCHANGED <<pos, at>>
       [] track # <<>> /\ Kind(1) = "RIFF" -> pc' = "chunk" /\ pos' = 1 /\ UNCHANGED at
       [] track # <<>> /\ Kind(1) \in {"ID3", "F", "X", "B"} ->
            pc' = "first" /\ pos' = id3v2_size /\ at' = id3v2_size
       [] OTHER -> pc' = "failed" /\ UNCHANGED <<pos, at>>
  /\ UNCHANGED <<track, left, eof, rate, start, pcm, wav, paused, played>>

-----------------------------------------------------------------------------
(* WAV. *)

\* A chunk of odd size is followed by a pad byte.
Padded(size) == size + (size % 2)

\* One turn of open_wav()'s loop: the chunk whose header is at pos + 1.
Chunk ==
  /\ pc = "chunk"
  /\ IF pos + 1 > Len(track) \/ (pos + 1 <= Len(track) /\ Kind(pos + 1) = "d")
     THEN pc' = "failed" /\ UNCHANGED <<pos, wav>>
     ELSE LET size == Size(pos + 1) IN
       CASE Kind(pos + 1) \in {"fmt", "fmt24"} ->
              IF size < FMT \/ pos + 1 + FMT > Len(track) THEN pc' = "failed" /\ UNCHANGED <<pos, wav>>
              ELSE /\ format' = Kind(pos + 1) /\ pos' = pos + 1 + Padded(size)
                   /\ UNCHANGED <<pc, data, remaining>>
         [] Kind(pos + 1) = "data" ->
              IF format # "fmt" THEN pc' = "failed" /\ UNCHANGED <<pos, wav>>
              ELSE /\ data' = pos + 1 /\ pos' = pos + 1
                   /\ remaining' = Least(size, Len(track) - (pos + 1))
                   /\ pc' \in {"keys", "refused"}    \* by Audio::open()
                   /\ UNCHANGED format
         [] OTHER -> pos' = pos + 1 + Padded(size) /\ UNCHANGED <<pc, wav>>
  /\ UNCHANGED <<track, left, mp3, paused, played>>

\* Source::read_pcm(): whole frames of what remains.
ReadWav ==
  LET want == Least(remaining, CHUNK_BYTES)
      n == want - (want % FRAME_BYTES)
  IN  /\ pc = "read" /\ data # 0
      /\ pos' = pos + n /\ remaining' = remaining - n
      /\ IF n = 0 THEN pc' = "finished" /\ UNCHANGED played
         ELSE /\ pc' \in {"keys", "skipped"}         \* audio.write() may fail
              /\ played' = played \o [i \in 1 .. n |-> <<pos + i, 0>>]
      /\ UNCHANGED <<track, left, mp3, format, data, paused>>

-----------------------------------------------------------------------------
(* MP3. *)

Frame(p) == Kind(p) \in {"F", "X", "B"}

\* minimp3 takes the first frame that is whole, and followed by another's header or
\* by nothing if it is the first thing there.
Found(end) == {p \in at + 1 .. end - 1 :
                 Frame(p) /\ (IF p + 1 = end THEN p = at + 1 ELSE Frame(p + 2))}

Refill == ~eof /\ pos - at < IN_BYTES \div 2

\* One turn of decode_frame()'s loop, for open() and for read_pcm().
decode_frame ==
  LET end == IF Refill /\ at < Len(track) THEN Least(at + IN_BYTES, Len(track)) ELSE pos
      last == eof \/ (Refill /\ end - at < IN_BYTES)
      none == pc' = (IF pc = "first" THEN "failed" ELSE "finished")
      frame == Min(Found(end))
      new == [frame |-> frame, pos |-> 0, len |-> DECODED]
  IN  /\ pc \in {"first", "decode"}
      /\ pos' = end /\ eof' = last
      /\ IF end = at THEN none /\ UNCHANGED <<at, rate, start, pcm>>
         ELSE IF Found(end) = {}
              THEN \/ at' = end /\ UNCHANGED <<pc, rate, start, pcm>>
                   \/ last /\ none /\ UNCHANGED <<at, rate, start, pcm>>
         ELSE /\ at' = frame + 1
              /\ CASE Kind(frame) = "B" -> UNCHANGED <<pc, rate, start, pcm>>   \* no samples
                   [] Kind(frame) # "B" /\ pc = "first" ->
                        /\ pc' \in {"keys", "refused"}            \* for its rate, or by Audio::open()
                        /\ rate' = Kind(frame) /\ start' = frame /\ pcm' = new
                   [] Kind(frame) # "B" /\ pc = "decode" /\ Kind(frame) # rate ->
                        UNCHANGED <<pc, rate, start, pcm>>
                   [] OTHER -> pc' = "read" /\ pcm' = new /\ UNCHANGED <<rate, start>>
      /\ UNCHANGED <<track, left, wav, paused, played>>

\* Mp3Stream::read_pcm(): the rest of the frame, up to a chunk, or another frame.
ReadMp3 ==
  LET n == Least(pcm.len - pcm.pos, CHUNK_BYTES)
  IN  /\ pc = "read" /\ data = 0
      /\ IF n = 0 THEN pc' = "decode" /\ UNCHANGED <<pcm, played>>
         ELSE /\ pc' \in {"keys", "skipped"}
              /\ pcm' = [pcm EXCEPT !.pos = @ + n]
              /\ played' = played \o [i \in 1 .. n |-> <<pcm.frame, pcm.pos + i>>]
      /\ UNCHANGED <<track, left, pos, at, eof, rate, start, wav, paused>>

-----------------------------------------------------------------------------
(* play_track(): a poll of the keyboard between chunks, and while paused. *)

Key(k) ==
  /\ pc = "keys"
  /\ paused' = (IF k = "space" THEN ~paused ELSE paused)
  /\ pc' = CASE k = "q" -> "quit"                    \* or the end of the input
             [] k = "n" -> "skipped"
             [] OTHER -> IF paused' THEN "keys" ELSE "read"
  /\ UNCHANGED <<track, left, pos, mp3, wav, played>>

\* Quitting, or out of files.
Rest == (pc = "quit" \/ (pc \in Over /\ left = 0)) /\ UNCHANGED vars

Next == \/ Sniff \/ Chunk \/ ReadWav \/ decode_frame \/ ReadMp3
        \/ \E k \in {"space", "q", "n", "none"} : Key(k)
        \/ NextTrack \/ Rest

Spec == Init /\ [][Next]_vars

-----------------------------------------------------------------------------
(* Properties. *)

\* What there is to hear: the data chunk in whole frames of PCM, or the MP3 frames
\* from the first that was found on, those that decode and are of its rate.
DataChunk == CHOOSE p \in 1 .. Len(track) :
               Kind(p) = "data" /\ \A q \in 1 .. p - 1 : Kind(q) # "data"
Sound ==
  IF Kind(1) = "RIFF"
  THEN LET bytes == Least(Size(DataChunk), Len(track) - DataChunk)
       IN  [i \in 1 .. bytes - (bytes % FRAME_BYTES) |-> <<DataChunk + i, 0>>]
  ELSE LET heard == SelectSeq([p \in 1 .. Len(track) |-> p],
                              LAMBDA p : start # 0 /\ p >= start /\ Kind(p) = rate)
       IN  [i \in 1 .. Len(heard) * DECODED |->
              <<heard[((i - 1) \div DECODED) + 1], ((i - 1) % DECODED) + 1>>]

\* A format that is understood comes before the first data.
GoodWav == \E p, q \in 1 .. Len(track) :
             /\ p < q /\ Kind(p) = "fmt" /\ Size(p) >= FMT /\ Kind(q) = "data"
             /\ \A r \in 1 .. q : Kind(r) \notin {"fmt24"} /\ (Kind(r) = "data" => r = q)

=============================================================================
