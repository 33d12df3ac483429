----------------------------- MODULE BlockLayer -----------------------------
(***************************************************************************)
(* A registered disk (drivers/block.rs) under its two users, the partition  *)
(* report (partition.rs) and the disk test (disktest.rs).  A transfer is    *)
(* checked against the disk's size and split into what the driver takes at  *)
(* once; any driver call may fail, a write with part of it done.  What a    *)
(* partition table says is any number of Word.                              *)
(***************************************************************************)
EXTENDS Naturals, Sequences, FiniteSetsExt

CONSTANTS sector_count, max_sectors,
          CHUNK,            \* disktest's region
          SPEED,            \* disktest's sequential read
          DETECT,           \* sectors detect_fs() looks at
          Word              \* 0 .. 2^64 - 1, smaller

VARIABLES disk, writes_allowed,
          pc,       \* which transfer the user is at, or "idle"
          io,       \* the transfer: [op, lba, left, data]
          calls,    \* the driver call just made: [lba, n], for the contract
          saved, ok, at,    \* the test's buffer, first verdict and place
          result,   \* what run() returned
          failed,   \* a driver call has failed during it
          before    \* the disk when it began

test == <<saved, ok, at, result, failed, before>>
vars == <<disk, writes_allowed, pc, io, calls, test>>

Sector == 0 .. sector_count - 1
Blank == [s \in Sector |-> s]
Pattern == [i \in 1 .. CHUNK |-> sector_count + i]
NoIo == [op |-> "none", lba |-> 0, left |-> 0, data |-> <<>>]
Modulus == Cardinality(Word)

Init ==
  /\ disk = Blank /\ writes_allowed \in BOOLEAN
  /\ pc = "idle" /\ io = NoIo /\ calls = {}
  /\ saved = <<>> /\ ok = FALSE /\ at = 0 /\ result = FALSE /\ failed = FALSE
  /\ before = Blank

-----------------------------------------------------------------------------
(* block.rs *)

InRangeBySum(lba, count) == count > 0 /\ (lba + count) % Modulus <= sector_count
in_range(lba, count) == count > 0 /\ lba < sector_count /\ count <= sector_count - lba

Locked(op) == op = "write" /\ ~writes_allowed

\* Where each user's transfers go: [op, lba, count, data].
write_check_lba == ((sector_count \div 2) \div CHUNK) * CHUNK
Read(lba, count) == [op |-> "read", lba |-> lba, left |-> count, data |-> <<>>]
Write(lba, data) == [op |-> "write", lba |-> lba, left |-> Len(data), data |-> data]

Piece(left) == Min({left, max_sectors})

\* One driver call; a write that fails has written any part of its piece.
Transfer(good) ==
  LET n == Piece(io.left)
      done == Len(io.data) - io.left
      Put(k) == [s \in Sector |-> IF s \in io.lba .. io.lba + k - 1
                                  THEN io.data[done + s - io.lba + 1] ELSE disk[s]]
      Got == [i \in 1 .. n |-> IF io.lba + i - 1 \in Sector THEN disk[io.lba + i - 1] ELSE 0]
  IN  /\ io.left > 0
      /\ calls' = {[lba |-> io.lba, n |-> n]}
      /\ failed' = (failed \/ ~good)
      /\ IF io.op = "write"
         THEN \E k \in IF good THEN {n} ELSE 0 .. n - 1 : disk' = Put(k)
         ELSE UNCHANGED disk
      /\ io' = [io EXCEPT !.op = IF good THEN @ ELSE "failed",
                          !.lba = @ + n, !.left = IF good THEN @ - n ELSE 0,
                          !.data = IF io.op = "read" THEN @ \o Got ELSE @]
      /\ UNCHANGED <<writes_allowed, pc, saved, ok, at, result, before>>

\* A transfer begins: refused at once, or left to Transfer.
Begin(site, t) ==
  /\ pc' = site
  /\ calls' = {}
  /\ io' = IF Locked(t.op) \/ ~in_range(t.lba, t.left) THEN [NoIo EXCEPT !.op = "failed"] ELSE t

Over(site) == pc = site /\ io.left = 0
Good == io.op # "failed"

\* The command is over.
Finish(verdict) ==
  /\ pc' = "idle" /\ io' = NoIo /\ calls' = {}
  /\ result' = verdict
  /\ saved' = <<>> /\ ok' = FALSE /\ at' = 0

-----------------------------------------------------------------------------
(* partition.rs: report() reads the first two sectors, a GPT's array, the   *)
(* start of every partition, and the start of the disk.                     *)

report ==
  /\ pc = "idle" /\ Begin("head", Read(0, 2))
  /\ failed' = FALSE /\ result' = FALSE /\ before' = disk
  /\ UNCHANGED <<disk, writes_allowed, saved, ok, at>>

detect_fs(site, lba, sectors) == Begin(site, Read(lba, Min({DETECT, sectors})))

\* A GPT and its array, unless that is implausible; an MBR, or no table at all.
Table ==
  /\ Over("head")
  /\ IF ~Good THEN Finish(FALSE)
     ELSE /\ \/ \E lba, sectors \in Word : Begin("array", Read(lba, sectors))
             \/ Begin("entries", NoIo)
             \/ detect_fs("none", 0, sector_count)
             \/ detect_fs("whole", 0, sector_count)
          /\ UNCHANGED <<saved, ok, at, result>>
  /\ UNCHANGED <<disk, writes_allowed, failed, before>>

\* Each entry of a GPT, from first to last, or of an MBR, inside the disk.
Entry ==
  /\ pc \in {"array", "entries"} /\ io.left = 0
  /\ (pc = "array" => Good)
  /\ \/ \E first, last \in Word :
          /\ last >= first /\ (last - first + 1) % Modulus > 0
          /\ detect_fs("entries", first, (last - first + 1) % Modulus)
     \/ \E start, count \in Word :
          count > 0 /\ start < sector_count /\ detect_fs("entries", start, count)
  /\ UNCHANGED <<disk, writes_allowed, test>>

LastEntry ==
  /\ pc \in {"array", "entries", "none"} /\ io.left = 0
  /\ detect_fs("whole", 0, sector_count)
  /\ UNCHANGED <<disk, writes_allowed, test>>

Reported ==
  /\ Over("whole") /\ Finish(TRUE)
  /\ UNCHANGED <<disk, writes_allowed, failed, before>>

-----------------------------------------------------------------------------
(* disktest.rs *)

run(write) ==
  /\ pc = "idle"
  /\ write => writes_allowed /\ sector_count >= 4 * CHUNK
  /\ IF write THEN Begin("save", Read(write_check_lba, CHUNK))
     ELSE Begin("first", Read(0, Min({CHUNK, sector_count})))
  /\ result' = FALSE /\ failed' = FALSE /\ before' = disk
  /\ UNCHANGED <<disk, writes_allowed, saved, ok, at>>

\* read_check(): twice the first chunk, then the chunks of the sequential read.
SpeedEnd == IF sector_count < SPEED THEN (sector_count \div CHUNK) * CHUNK ELSE SPEED

ReadCheck ==
  \/ /\ Over("first") /\ Good
     /\ Begin("second", Read(0, Min({CHUNK, sector_count}))) /\ saved' = io.data
     /\ UNCHANGED <<ok, at, result>>
  \/ /\ Over("second") /\ Good /\ io.data = saved /\ SpeedEnd > 0
     /\ Begin("speed", Read(0, CHUNK)) /\ at' = CHUNK
     /\ UNCHANGED <<saved, ok, result>>
  \/ /\ Over("speed") /\ Good /\ at < SpeedEnd
     /\ Begin("speed", Read(at, CHUNK)) /\ at' = at + CHUNK
     /\ UNCHANGED <<saved, ok, result>>
  \/ /\ Over("first") \/ Over("second") \/ Over("speed")
     /\ ~Good \/ (pc = "second" /\ (io.data # saved \/ SpeedEnd = 0))
              \/ (pc = "speed" /\ at >= SpeedEnd)
     /\ Finish(Good /\ pc # "first" /\ (pc = "second" => io.data = saved))

Restore ==
  /\ Begin("restore", Write(write_check_lba, saved))
  /\ ok' = (Good /\ io.data = Pattern)
  /\ UNCHANGED <<saved, at, result>>

\* write_check(): save, write the pattern, read it back, restore, verify.
WriteCheck ==
  \/ /\ Over("save") /\ Good
     /\ Begin("pattern", Write(write_check_lba, Pattern)) /\ saved' = io.data
     /\ UNCHANGED <<ok, at, result>>
  \/ /\ Over("pattern") /\ Good
     /\ Begin("check", Read(write_check_lba, CHUNK))
     /\ UNCHANGED <<saved, ok, at, result>>
  \/ /\ Over("check") /\ Restore
  \/ /\ Over("restore") /\ Good
     /\ Begin("verify", Read(write_check_lba, CHUNK))
     /\ UNCHANGED <<saved, ok, at, result>>
  \/ /\ Over("verify") /\ Finish(ok /\ Good /\ io.data = saved)
  \/ /\ Over("save") \/ Over("pattern") \/ Over("restore")
     /\ ~Good /\ Finish(FALSE)

Test == (ReadCheck \/ WriteCheck) /\ UNCHANGED <<disk, writes_allowed, failed, before>>

Next ==
  \/ report \/ Table \/ Entry \/ LastEntry \/ Reported
  \/ \E write \in BOOLEAN : run(write)
  \/ Test
  \/ \E good \in BOOLEAN : Transfer(good)

Spec == Init /\ [][Next]_vars

-----------------------------------------------------------------------------
(* Properties. *)

\* What BlockDriver is promised (block.rs:20-22): whatever a partition table
\* says, and however a transfer is split, no call has more than max_sectors, none
\* is empty and none leaves the disk.
DriverContract ==
  \A c \in calls : c.n \in 1 .. max_sectors /\ c.lba + c.n <= sector_count

\* A disk test that says everything matched, and one in which no driver call
\* failed, has left the disk as it was, through its pattern and its restore
\* (disktest.rs:58-89).
TestRestores == pc = "idle" /\ (result \/ ~failed) => disk = before
=============================================================================
