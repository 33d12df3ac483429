--------------------------- MODULE OpenFilesProofs ---------------------------
(***************************************************************************)
(* No process ever reaches a freed pipe, for any number of processes,      *)
(* descriptors and pipes.  NoDanglingPipe is not inductive: what keeps a   *)
(* pipe allocated is its counts, so the invariant says that a count covers *)
(* the entries that refer to its end, and that a counted pipe is allocated. *)
(***************************************************************************)
EXTENDS OpenFiles, FiniteSetTheorems, TLAPS

USE OpenFilesConstants

CountedIsAllocated == \A e \in Ends : refs[e] > 0 => e.pipe \in allocated

DeadHoldNothing == \A s \in Slots : state[s] # "live" => files[s] = Nothing

Inv == TypeOK /\ CountsCoverHolders /\ CountedIsAllocated /\ DeadHoldNothing

(* A pipe end is neither a free entry nor an open file. *)
LEMMA EndsApart ==
  /\ Free \notin Ends
  /\ File \notin Ends
  /\ Free # File
  /\ \A p \in Pipes, w \in BOOLEAN : /\ End(p, w) \in Ends
                                     /\ End(p, w).pipe = p
                                     /\ End(p, w).write_end = w
  /\ \A e \in Ends : e = End(e.pipe, e.write_end) /\ e.pipe \in Pipes
BY DEF Ends, End, Free, File

LEMMA DescriptorsFinite == IsFiniteSet(Descriptors)
<1>1. IsFiniteSet(Fds)
  <2>1. MAX_OPEN_FILES + 2 \in Int
    OBVIOUS
  <2> QED BY <2>1, FS_Interval DEF Fds
<1>2. IsFiniteSet({Stdin}) /\ IsFiniteSet({Stdin} \cup {Stdout})
  BY Zenon, FS_Singleton, FS_AddElement
<1>3. {Stdin} \cup {Stdout} = {Stdin, Stdout}
  OBVIOUS
<1> QED BY Zenon, <1>1, <1>2, <1>3, FS_Union DEF Descriptors

(* The entries that refer to an end are finitely many. *)
LEMMA HoldersFinite ==
  ASSUME NEW st, NEW fs, NEW e
  PROVE  /\ IsFiniteSet(HoldersIn(st, fs, e))
         /\ Cardinality(HoldersIn(st, fs, e)) \in Nat
<1>1. IsFiniteSet(Slots \X Descriptors)
  BY DescriptorsFinite, FS_Product
<1>2. HoldersIn(st, fs, e) \in SUBSET (Slots \X Descriptors)
  BY DEF HoldersIn
<1> QED BY <1>1, <1>2, FS_Subset, FS_CardinalityType

(* Fewer entries need no larger count. *)
LEMMA FewerHolders ==
  ASSUME NEW S, NEW T, IsFiniteSet(T), S \subseteq T, NEW n \in Nat,
         Cardinality(T) <= n
  PROVE  Cardinality(S) <= n
<1>1. IsFiniteSet(S) /\ Cardinality(S) <= Cardinality(T)
  BY FS_Subset
<1>2. Cardinality(S) \in Nat /\ Cardinality(T) \in Nat
  BY <1>1, FS_CardinalityType
<1> QED BY <1>1, <1>2

(* One entry that stops referring to its end pays for one count. *)
LEMMA OneHolderLess ==
  ASSUME NEW S, NEW T, IsFiniteSet(T), NEW x \in T, S \subseteq T \ {x},
         NEW n \in Nat, Cardinality(T) <= n
  PROVE  n > 0 /\ Cardinality(S) <= n - 1
<1>1. IsFiniteSet(T \ {x}) /\ Cardinality(T \ {x}) = Cardinality(T) - 1
  BY FS_RemoveElement
<1>2. IsFiniteSet(S) /\ Cardinality(S) <= Cardinality(T \ {x})
  BY <1>1, FS_Subset
<1>3. Cardinality(S) \in Nat /\ Cardinality(T) \in Nat /\ Cardinality(T \ {x}) \in Nat
  BY <1>1, <1>2, FS_CardinalityType
<1> QED BY <1>1, <1>2, <1>3

-----------------------------------------------------------------------------
(* Each call preserves the invariant. *)

LEMMA InitInv == Init => Inv
<1> SUFFICES ASSUME Init PROVE Inv
  OBVIOUS
<1>1. PICK s \in Slots : state = [x \in Slots |-> IF x = s THEN "live" ELSE "unused"]
  BY DEF Init
<1>2. TypeOK
  <2>1. state \in [Slots -> {"unused", "live", "zombie"}]
    BY <1>1
  <2>2. files \in [Slots -> [Descriptors -> Ends \cup {Free, File}]]
    BY DEF Init, Nothing
  <2>3. \A x \in Slots : files[x][Stdin] = Free /\ files[x][Stdout] = Free
    BY DEF Init, Nothing, Descriptors
  <2>4. \A p \in Pipes : End(p, TRUE) # Free /\ End(p, FALSE) # Free
    BY DEF End, Free
  <2>5. StdioEnds
    BY Zenon, <2>3, <2>4 DEF StdioEnds
  <2> QED BY <2>1, <2>2, <2>5 DEF Init, TypeOK
<1>3. \A e \in Ends : Holders(e) = {}
  BY EndsApart DEF Init, Nothing, Holders, HoldersIn
<1>4. CountsCoverHolders
  BY <1>3, FS_EmptySet DEF Init, CountsCoverHolders
<1>5. CountedIsAllocated
  BY DEF Init, CountedIsAllocated
<1>6. DeadHoldNothing
  BY DEF Init, DeadHoldNothing
<1> QED BY <1>2, <1>4, <1>5, <1>6 DEF Inv

(* A step that changes no count, frees no pipe and leaves every end at most
   the entries it had. *)
LEMMA NoNewHolder ==
  ASSUME Inv, TypeOK', DeadHoldNothing', UNCHANGED <<refs, allocated>>,
         \A e \in Ends : Holders(e)' \subseteq Holders(e)
  PROVE  Inv'
<1>1. ASSUME NEW e \in Ends PROVE Cardinality(Holders(e)') <= refs[e]
  <2> DEFINE S == Holders(e)'
             T == Holders(e)
             n == refs[e]
  <2>1. IsFiniteSet(T) /\ S \subseteq T /\ n \in Nat /\ Cardinality(T) <= n
    BY HoldersFinite DEF Inv, TypeOK, CountsCoverHolders, Holders
  <2> HIDE DEF S, T, n
  <2>2. Cardinality(S) <= n
    BY <2>1, FewerHolders
  <2> QED BY <2>2 DEF S, n
<1>2. CountsCoverHolders'
  BY <1>1 DEF CountsCoverHolders
<1> QED BY <1>2 DEF Inv, CountedIsAllocated

LEMMA OpenInv ==
  ASSUME Inv, NEW s \in Slots, sys_open(s)
  PROVE  Inv'
<1>1. PICK d \in Fds : /\ free_slot(s, d)
                       /\ files' = [files EXCEPT ![s][d] = File]
  BY Zenon DEF sys_open
<1>2. d \in Descriptors /\ d # Stdin /\ d # Stdout
  BY DEF Descriptors, Fds, Stdin, Stdout
<1>3. TypeOK'
  <2>1. files' \in [Slots -> [Descriptors -> Ends \cup {Free, File}]]
    BY <1>1, <1>2 DEF Inv, TypeOK
  <2>2. \A x \in Slots : /\ files'[x][Stdin] = files[x][Stdin]
                         /\ files'[x][Stdout] = files[x][Stdout]
    BY <1>1, <1>2 DEF Inv, TypeOK, Descriptors
  <2>3. StdioEnds'
    BY Zenon, <2>2 DEF Inv, TypeOK, StdioEnds
  <2> QED BY <2>1, <2>3 DEF Inv, TypeOK, sys_open
<1>4. \A e \in Ends : Holders(e)' \subseteq Holders(e)
  BY <1>1, <1>2, EndsApart DEF Inv, TypeOK, sys_open, Holders, HoldersIn
<1>5. DeadHoldNothing'
  BY <1>1 DEF Inv, DeadHoldNothing, TypeOK, sys_open
<1> QED BY <1>3, <1>4, <1>5, NoNewHolder DEF sys_open

(* write() and read() change the bytes buffered and nothing else. *)
LEMMA TransferInv ==
  ASSUME Inv, NEW s \in Slots, sys_write(s) \/ sys_read(s)
  PROVE  Inv'
<1>1. UNCHANGED <<state, files, refs, allocated>>
  BY Zenon DEF sys_write, sys_read
<1>2. count' \in [Pipes -> 0 .. BUF_SIZE]
  <2>1. CASE sys_write(s)
    <3>1. PICK p \in Pipes, n \in 1 .. BUF_SIZE :
            n <= BUF_SIZE - count[p] /\ count' = [count EXCEPT ![p] = @ + n]
      BY Zenon, <2>1 DEF sys_write
    <3> QED BY <3>1 DEF Inv, TypeOK
  <2>2. CASE sys_read(s)
    <3>1. PICK p \in Pipes, n \in 1 .. BUF_SIZE :
            n <= count[p] /\ count' = [count EXCEPT ![p] = @ - n]
      BY Zenon, <2>2 DEF sys_read
    <3> QED BY <3>1 DEF Inv, TypeOK
  <2> QED BY <2>1, <2>2
<1>3. TypeOK'
  BY Zenon, <1>1, <1>2 DEF Inv, TypeOK, StdioEnds
<1>4. \A e \in Ends : Holders(e)' \subseteq Holders(e)
  BY <1>1 DEF Holders, HoldersIn
<1>5. DeadHoldNothing'
  BY <1>1 DEF Inv, DeadHoldNothing
<1> QED BY <1>1, <1>3, <1>4, <1>5, NoNewHolder

(* reap() and spawn() change the state of a slot that holds nothing. *)
LEMMA SlotInv ==
  ASSUME Inv, NEW s \in Slots, reap(s) \/ spawn(s)
  PROVE  Inv'
<1>1. /\ files[s] = Nothing
      /\ UNCHANGED <<files, refs, allocated, count>>
      /\ \A t \in Slots : t # s => state'[t] = state[t]
      /\ state' \in [Slots -> {"unused", "live", "zombie"}]
  BY DEF Inv, TypeOK, DeadHoldNothing, reap, spawn
<1>2. TypeOK'
  BY Zenon, <1>1 DEF Inv, TypeOK, StdioEnds
<1>3. \A d \in Descriptors : files[s][d] \notin Ends
  BY <1>1, EndsApart DEF Nothing
<1>4. \A e \in Ends : Holders(e)' \subseteq Holders(e)
  BY <1>1, <1>3 DEF Holders, HoldersIn
<1>5. DeadHoldNothing'
  BY <1>1 DEF Inv, DeadHoldNothing
<1> QED BY <1>1, <1>2, <1>4, <1>5, NoNewHolder

(* pipe(): the new pipe was not allocated, so its counts were zero and
   nobody held its ends. *)
LEMMA PipeInv ==
  ASSUME Inv, NEW s \in Slots, sys_pipe(s)
  PROVE  Inv'
<1>1. PICK r \in Fds, w \in Fds, p \in Pipes \ allocated :
        /\ free_slot(s, r) /\ w \in Unused(s) \ {r}
        /\ files' = [files EXCEPT ![s][r] = End(p, FALSE), ![s][w] = End(p, TRUE)]
        /\ refs' = [refs EXCEPT ![End(p, FALSE)] = 1, ![End(p, TRUE)] = 1]
        /\ allocated' = allocated \cup {p}
        /\ count' = [count EXCEPT ![p] = 0]
  BY Zenon DEF sys_pipe
<1>2. /\ state[s] = "live" /\ state' = state
      /\ files[s][r] = Free /\ files[s][w] = Free /\ r # w
      /\ r \in Descriptors /\ w \in Descriptors
      /\ r \notin {Stdin, Stdout} /\ w \notin {Stdin, Stdout}
  BY <1>1 DEF sys_pipe, free_slot, Unused, Descriptors, Fds, Stdin, Stdout
<1> DEFINE a == End(p, FALSE)
           b == End(p, TRUE)
<1>3. a \in Ends /\ b \in Ends /\ a # b /\ a.pipe = p /\ b.pipe = p
  BY Zenon, <1>1, EndsApart DEF End
<1>4. \A e \in Ends : e.pipe = p => e = a \/ e = b
  BY <1>1, EndsApart DEF Ends, End
<1> HIDE DEF a, b
<1>5. files' = [files EXCEPT ![s][r] = a, ![s][w] = b]
      /\ refs' = [refs EXCEPT ![a] = 1, ![b] = 1]
  BY <1>1 DEF a, b
<1>6. TypeOK'
  <2>1. files' \in [Slots -> [Descriptors -> Ends \cup {Free, File}]]
    BY <1>2, <1>3, <1>5 DEF Inv, TypeOK
  <2>2. \A x \in Slots : /\ files'[x][Stdin] = files[x][Stdin]
                         /\ files'[x][Stdout] = files[x][Stdout]
    BY <1>2, <1>5 DEF Inv, TypeOK, Descriptors
  <2>3. StdioEnds'
    BY Zenon, <2>2 DEF Inv, TypeOK, StdioEnds
  <2>4. count' \in [Pipes -> 0 .. BUF_SIZE]
    BY <1>1 DEF Inv, TypeOK
  <2>5. refs' \in [Ends -> Nat]
    BY Zenon, <1>5 DEF Inv, TypeOK
  <2>6. allocated' \in SUBSET Pipes
    BY <1>1 DEF Inv, TypeOK
  <2>7. state' \in [Slots -> {"unused", "live", "zombie"}]
    BY <1>2 DEF Inv, TypeOK
  <2> QED BY <2>1, <2>3, <2>4, <2>5, <2>6, <2>7 DEF TypeOK
<1>7. ASSUME NEW e \in Ends PROVE Cardinality(Holders(e)') <= refs'[e]
  <2> DEFINE S == Holders(e)'
             T == Holders(e)
  <2>1. IsFiniteSet(T) /\ Cardinality(T) \in Nat
    BY HoldersFinite DEF Holders
  <2>2. refs[e] \in Nat /\ Cardinality(T) <= refs[e]
    BY DEF Inv, TypeOK, CountsCoverHolders
  <2>3. CASE e \in {a, b}
    <3>1. e.pipe \notin allocated /\ refs[e] = 0
      BY <1>1, <1>3, <2>2, <2>3 DEF Inv, CountedIsAllocated
    <3>2. T = {}
      BY <2>1, <2>2, <3>1, FS_EmptySet
    <3>3. \A x \in Slots, d \in Descriptors : state[x] = "live" => files[x][d] # e
      <4>1. \A x \in Slots, d \in Descriptors :
              state[x] = "live" /\ files[x][d] = e => <<x, d>> \in T
        BY DEF Holders, HoldersIn
      <4> QED BY <3>2, <4>1
    <3>4. \E y : S \subseteq {y}
      <4>1. CASE e = a
        <5>1. \A x \in Slots, d \in Descriptors :
                state[x] = "live" /\ files'[x][d] = e => x = s /\ d = r
          BY <1>2, <1>3, <1>5, <3>3, <4>1 DEF Inv, TypeOK
        <5>2. S \subseteq {<<s, r>>}
          BY <1>2, <5>1 DEF Holders, HoldersIn
        <5> QED BY <5>2
      <4>2. CASE e = b
        <5>1. \A x \in Slots, d \in Descriptors :
                state[x] = "live" /\ files'[x][d] = e => x = s /\ d = w
          BY <1>2, <1>3, <1>5, <3>3, <4>2 DEF Inv, TypeOK
        <5>2. S \subseteq {<<s, w>>}
          BY <1>2, <5>1 DEF Holders, HoldersIn
        <5> QED BY <5>2
      <4> QED BY <2>3, <4>1, <4>2
    <3>5. refs'[e] = 1
      BY <1>3, <1>5, <2>3 DEF Inv, TypeOK
    <3> HIDE DEF S, T
    <3>6. PICK y : S \subseteq {y}
      BY <3>4
    <3>7. IsFiniteSet({y}) /\ Cardinality({y}) = 1
      BY Zenon, FS_Singleton
    <3>8. Cardinality(S) <= 1
      BY <3>6, <3>7, FewerHolders
    <3> QED BY <3>5, <3>8 DEF S
  <2>4. CASE e \notin {a, b}
    <3>1. S \subseteq T
      BY <1>2, <1>3, <1>5, <2>4 DEF Inv, TypeOK, Holders, HoldersIn
    <3>2. refs'[e] = refs[e]
      BY <1>5, <2>4 DEF Inv, TypeOK
    <3> HIDE DEF S, T
    <3>3. Cardinality(S) <= refs[e]
      BY <2>1, <2>2, <3>1, FewerHolders
    <3> QED BY <3>2, <3>3 DEF S
  <2> QED BY <2>3, <2>4
<1>8. CountedIsAllocated'
  BY Zenon, <1>1, <1>3, <1>5 DEF Inv, TypeOK, CountedIsAllocated
<1>9. DeadHoldNothing'
  BY <1>2, <1>5 DEF Inv, TypeOK, DeadHoldNothing
<1>10. CountsCoverHolders'
  BY <1>7 DEF CountsCoverHolders
<1> QED BY <1>6, <1>8, <1>9, <1>10 DEF Inv

(* Closing a set of ends, each given up by one entry. *)
LEMMA CloseCounts ==
  ASSUME Inv, NEW es \in SUBSET Ends, Close(es),
         \A e \in Ends : Holders(e)' \subseteq Holders(e),
         \A e \in es : \E h \in Holders(e) : h \notin Holders(e)'
  PROVE  /\ refs' \in [Ends -> Nat]
         /\ allocated' \in SUBSET Pipes
         /\ CountsCoverHolders'
         /\ CountedIsAllocated'
<1>1. refs' = [e \in Ends |-> IF e \in es THEN refs[e] - 1 ELSE refs[e]]
  BY DEF Close
<1>2. ASSUME NEW e \in Ends
      PROVE  refs'[e] \in Nat /\ Cardinality(Holders(e)') <= refs'[e]
             /\ refs'[e] <= refs[e]
  <2> DEFINE S == Holders(e)'
             T == Holders(e)
             n == refs[e]
  <2>1. IsFiniteSet(T) /\ S \subseteq T /\ n \in Nat /\ Cardinality(T) <= n
    BY HoldersFinite DEF Inv, TypeOK, CountsCoverHolders, Holders
  <2>2. CASE e \in es
    <3>1. PICK x \in T : x \notin S
      BY <2>2
    <3>2. refs'[e] = n - 1
      BY <1>1, <2>2
    <3> HIDE DEF S, T, n
    <3>3. n > 0 /\ Cardinality(S) <= n - 1
      BY Zenon, <2>1, <3>1, OneHolderLess
    <3> QED BY <2>1, <3>2, <3>3 DEF S, n
  <2>3. CASE e \notin es
    <3>1. refs'[e] = n
      BY <1>1, <2>3
    <3> HIDE DEF S, T, n
    <3>2. Cardinality(S) <= n
      BY <2>1, FewerHolders
    <3> QED BY <2>1, <3>1, <3>2 DEF S, n
  <2> QED BY <2>2, <2>3
<1>3. refs' \in [Ends -> Nat]
  BY <1>1, <1>2
<1>4. CountsCoverHolders'
  BY <1>2 DEF CountsCoverHolders
<1>5. ASSUME NEW e \in Ends, refs'[e] > 0 PROVE e.pipe \in allocated'
  <2>1. refs[e] > 0
    BY <1>2, <1>5 DEF Inv, TypeOK
  <2>2. e.pipe \in allocated
    BY <2>1 DEF Inv, CountedIsAllocated
  <2>3. e = End(e.pipe, e.write_end) /\ e.write_end \in BOOLEAN
    BY EndsApart DEF Ends
  <2>6. refs'[e] # 0
    BY <1>3, <1>5
  <2>4. CASE e = End(e.pipe, TRUE)
    <3>1. refs'[End(e.pipe, TRUE)] # 0
      BY <2>4, <2>6, Zenon
    <3> QED BY Zenon, <2>2, <3>1 DEF Close
  <2>5. CASE e = End(e.pipe, FALSE)
    <3>1. refs'[End(e.pipe, FALSE)] # 0
      BY <2>5, <2>6, Zenon
    <3> QED BY Zenon, <2>2, <3>1 DEF Close
  <2> QED BY Zenon, <2>3, <2>4, <2>5
<1>6. CountedIsAllocated'
  BY <1>5 DEF CountedIsAllocated
<1>7. allocated' \in SUBSET Pipes
  BY Zenon DEF Close, Inv, TypeOK
<1> QED BY <1>3, <1>4, <1>6, <1>7

LEMMA CloseInv ==
  ASSUME Inv, NEW s \in Slots, sys_close(s)
  PROVE  Inv'
<1>1. PICK d \in Fds : /\ files[s][d] # Free
                       /\ Close({files[s][d]} \cap Ends)
                       /\ files' = [files EXCEPT ![s][d] = Free]
  BY Zenon DEF sys_close
<1>2. /\ d \in Descriptors /\ d # Stdin /\ d # Stdout
      /\ state[s] = "live" /\ state' = state /\ count' = count
  BY DEF sys_close, Descriptors, Fds, Stdin, Stdout
<1> DEFINE es == {files[s][d]} \cap Ends
<1>3. \A e \in Ends : Holders(e)' \subseteq Holders(e)
  BY <1>1, <1>2, EndsApart DEF Inv, TypeOK, Holders, HoldersIn
<1>4. ASSUME NEW e \in es PROVE \E h \in Holders(e) : h \notin Holders(e)'
  <2>1. e = files[s][d] /\ e \in Ends
    OBVIOUS
  <2>2. <<s, d>> \in Holders(e)
    BY <1>2, <2>1 DEF Holders, HoldersIn
  <2>3. files'[s][d] # e
    BY <1>1, <1>2, <2>1, EndsApart DEF Inv, TypeOK
  <2>4. <<s, d>> \notin Holders(e)'
    BY <2>3 DEF Holders, HoldersIn
  <2> QED BY <2>2, <2>4
<1>5. es \in SUBSET Ends /\ Close(es)
  BY <1>1
<1> HIDE DEF es
<1>6. /\ refs' \in [Ends -> Nat] /\ allocated' \in SUBSET Pipes
      /\ CountsCoverHolders' /\ CountedIsAllocated'
  BY <1>3, <1>4, <1>5, CloseCounts
<1>7. TypeOK'
  <2>1. files' \in [Slots -> [Descriptors -> Ends \cup {Free, File}]]
    BY <1>1, <1>2 DEF Inv, TypeOK
  <2>2. \A x \in Slots : /\ files'[x][Stdin] = files[x][Stdin]
                         /\ files'[x][Stdout] = files[x][Stdout]
    BY <1>1, <1>2 DEF Inv, TypeOK, Descriptors
  <2>3. StdioEnds'
    BY Zenon, <2>2 DEF Inv, TypeOK, StdioEnds
  <2> QED BY <1>2, <1>6, <2>1, <2>3 DEF Inv, TypeOK
<1>8. DeadHoldNothing'
  BY <1>1, <1>2 DEF Inv, TypeOK, DeadHoldNothing
<1> QED BY <1>6, <1>7, <1>8 DEF Inv

LEMMA ExitInv ==
  ASSUME Inv, NEW s \in Slots, Exit(s)
  PROVE  Inv'
<1> DEFINE es == {files[s][Stdin], files[s][Stdout]} \cap Ends
<1>1. /\ state[s] = "live" /\ state' = [state EXCEPT ![s] = "zombie"]
      /\ files' = [files EXCEPT ![s] = Nothing]
      /\ es \in SUBSET Ends /\ Close(es) /\ count' = count
  BY DEF Exit
<1>2. \A e \in Ends : Holders(e)' \subseteq Holders(e)
  BY <1>1, EndsApart DEF Inv, TypeOK, Holders, HoldersIn
<1>3. ASSUME NEW e \in es PROVE \E h \in Holders(e) : h \notin Holders(e)'
  <2>1. PICK d \in {Stdin, Stdout} : e = files[s][d]
    OBVIOUS
  <2>2. <<s, d>> \in Holders(e)
    BY <1>1, <2>1 DEF Holders, HoldersIn, Descriptors
  <2>3. state'[s] # "live"
    BY <1>1 DEF Inv, TypeOK
  <2>4. <<s, d>> \notin Holders(e)'
    BY <2>3 DEF Holders, HoldersIn
  <2> QED BY <2>2, <2>4
<1> HIDE DEF es
<1>4. /\ refs' \in [Ends -> Nat] /\ allocated' \in SUBSET Pipes
      /\ CountsCoverHolders' /\ CountedIsAllocated'
  BY <1>1, <1>2, <1>3, CloseCounts
<1>5. TypeOK'
  <2>1. files' \in [Slots -> [Descriptors -> Ends \cup {Free, File}]]
    BY <1>1 DEF Inv, TypeOK, Nothing
  <2>2. \A p \in Pipes : End(p, TRUE) # Free /\ End(p, FALSE) # Free
    BY DEF End, Free
  <2>3. \A x \in Slots : /\ files'[x][Stdin] \in {files[x][Stdin], Free}
                         /\ files'[x][Stdout] \in {files[x][Stdout], Free}
    BY <1>1 DEF Inv, TypeOK, Nothing, Descriptors
  <2>4. StdioEnds'
    BY Zenon, <2>2, <2>3 DEF Inv, TypeOK, StdioEnds
  <2>5. state' \in [Slots -> {"unused", "live", "zombie"}]
    BY <1>1 DEF Inv, TypeOK
  <2> QED BY <1>1, <1>4, <2>1, <2>4, <2>5 DEF Inv, TypeOK
<1>6. DeadHoldNothing'
  BY <1>1 DEF Inv, TypeOK, DeadHoldNothing
<1> QED BY <1>4, <1>5, <1>6 DEF Inv

(* use_as_stdio(): the entry at stdin replaces the one at descriptor i, the
   entry at stdout the one at o. *)
LEMMA StdioInv ==
  ASSUME Inv, NEW s \in Slots, sys_use_as_stdio(s)
  PROVE  Inv'
<1>1. PICK i \in Fds, o \in Fds, p \in Pipes, q \in Pipes :
        /\ files[s][i] = End(p, FALSE) /\ files[s][o] = End(q, TRUE)
        /\ files' = [files EXCEPT ![s][Stdin] = End(p, FALSE),
                                  ![s][Stdout] = End(q, TRUE),
                                  ![s][i] = Free, ![s][o] = Free]
  BY Zenon DEF sys_use_as_stdio
<1> DEFINE a == End(p, FALSE)
           b == End(q, TRUE)
<1>2. a \in Ends /\ b \in Ends /\ a # b
  BY Zenon, EndsApart DEF End
<1>3. \A x \in Pipes : End(x, TRUE) # a /\ End(x, FALSE) # b
                       /\ End(x, TRUE) # Free /\ End(x, FALSE) # Free
  BY DEF End, Free
<1>4. files[s][i] = a /\ files[s][o] = b
      /\ files' = [files EXCEPT ![s][Stdin] = a, ![s][Stdout] = b,
                                ![s][i] = Free, ![s][o] = Free]
  BY <1>1
<1> HIDE DEF a, b
<1>5. /\ state[s] = "live" /\ UNCHANGED <<state, refs, allocated, count>>
      /\ {i, o, Stdin, Stdout} \subseteq Descriptors
      /\ i # o /\ i \notin {Stdin, Stdout} /\ o \notin {Stdin, Stdout}
      /\ Stdin # Stdout
  BY <1>2, <1>4 DEF sys_use_as_stdio, Descriptors, Fds, Stdin, Stdout
<1>6. /\ files'[s][Stdin] = a /\ files'[s][Stdout] = b
      /\ files'[s][i] = Free /\ files'[s][o] = Free
      /\ \A d \in Descriptors \ {i, o, Stdin, Stdout} : files'[s][d] = files[s][d]
      /\ \A x \in Slots : x # s => files'[x] = files[x]
      /\ files' \in [Slots -> [Descriptors -> Ends \cup {Free, File}]]
  BY <1>2, <1>4, <1>5 DEF Inv, TypeOK
<1>7. TypeOK'
  <2>1. StdioEnds'
    BY Zenon, <1>3, <1>6 DEF Inv, TypeOK, StdioEnds
  <2> QED BY <1>5, <1>6, <2>1 DEF Inv, TypeOK
<1>8. ASSUME NEW e \in Ends PROVE Cardinality(Holders(e)') <= refs[e]
  <2>0. e # Free
    BY EndsApart
  <2> DEFINE S == Holders(e)'
             T == Holders(e)
             n == refs[e]
  <2>1. IsFiniteSet(T) /\ n \in Nat /\ Cardinality(T) <= n /\ Cardinality(T) \in Nat
    BY HoldersFinite DEF Inv, TypeOK, CountsCoverHolders, Holders
  <2>2. \A x \in Slots, d \in Descriptors :
          /\ <<x, d>> \in S <=> state[x] = "live" /\ files'[x][d] = e
          /\ <<x, d>> \in T <=> state[x] = "live" /\ files[x][d] = e
    BY <1>5 DEF Holders, HoldersIn
  <2>3. S \subseteq Slots \X Descriptors /\ T \subseteq Slots \X Descriptors
    BY DEF Holders, HoldersIn
  <2> HIDE DEF S, T, n
  <2>4. ASSUME NEW old \in {i, o}, NEW new \in {Stdin, Stdout}, files[s][old] = e,
               \A d \in Descriptors \ {new} : files'[s][d] = e =>
                  d # old /\ files[s][d] = e
        PROVE  Cardinality(S) <= n
    <3> DEFINE U == T \ {<<s, old>>}
    <3>1. <<s, old>> \in T
      BY <1>5, <2>2, <2>4
    <3>2. IsFiniteSet(U) /\ Cardinality(U) = Cardinality(T) - 1
      BY <2>1, <3>1, FS_RemoveElement
    <3>3. S \subseteq U \cup {<<s, new>>}
      BY <1>5, <1>6, <2>2, <2>3, <2>4
    <3> HIDE DEF U
    <3>4. IsFiniteSet(U \cup {<<s, new>>})
          /\ Cardinality(U \cup {<<s, new>>}) \in {Cardinality(U), Cardinality(U) + 1}
      BY Zenon, <3>2, FS_AddElement
    <3>5. Cardinality(U \cup {<<s, new>>}) <= n
      BY <2>1, <3>2, <3>4
    <3> QED BY <2>1, <3>3, <3>4, <3>5, FewerHolders
  <2>5. CASE e = a
    <3>1. \A d \in Descriptors \ {Stdin} : files'[s][d] = e => d # i /\ files[s][d] = e
      BY <2>0, <1>2, <1>5, <1>6, <2>5
    <3> QED BY Zenon, <1>4, <2>4, <2>5, <3>1 DEF S, n
  <2>6. CASE e = b
    <3>1. \A d \in Descriptors \ {Stdout} : files'[s][d] = e => d # o /\ files[s][d] = e
      BY <2>0, <1>2, <1>5, <1>6, <2>6
    <3> QED BY Zenon, <1>4, <2>4, <2>6, <3>1 DEF S, n
  <2>7. CASE e # a /\ e # b
    <3>1. \A d \in Descriptors : files'[s][d] = e => files[s][d] = e
      BY <2>0, <1>6, <2>7
    <3>2. S \subseteq T
      BY <1>6, <2>2, <2>3, <3>1
    <3>3. Cardinality(S) <= n
      BY <2>1, <3>2, FewerHolders
    <3> QED BY <3>3 DEF S, n
  <2> QED BY <2>5, <2>6, <2>7
<1>9. CountsCoverHolders'
  BY <1>5, <1>8 DEF CountsCoverHolders
<1>10. CountedIsAllocated' /\ DeadHoldNothing'
  BY <1>5, <1>6 DEF Inv, CountedIsAllocated, DeadHoldNothing
<1> QED BY <1>7, <1>9, <1>10 DEF Inv

(* The counts fork() leaves cover the parent's entries twice. *)
LEMMA BumpedCounts ==
  ASSUME Inv, NEW s \in Slots
  PROVE  /\ Bumped(s) \in [Ends -> Nat]
         /\ \A e \in Ends : /\ Bumped(s)[e] = refs[e] + Cardinality(Copies(s, e))
                            /\ IsFiniteSet(Copies(s, e))
                            /\ Cardinality(Copies(s, e)) \in Nat
<1>1. ASSUME NEW e
      PROVE  IsFiniteSet(Copies(s, e)) /\ Cardinality(Copies(s, e)) \in Nat
  <2>1. Copies(s, e) \in SUBSET Descriptors
    BY DEF Copies
  <2> QED BY <2>1, DescriptorsFinite, FS_Subset, FS_CardinalityType
<1> QED BY <1>1 DEF Bumped, Inv, TypeOK

(* A pipe counted once the parent's entries are counted again was counted
   before: the parent's own entries are. *)
LEMMA BumpedIsAllocated ==
  ASSUME Inv, NEW s \in Slots, state[s] = "live", NEW e \in Ends, Bumped(s)[e] > 0
  PROVE  e.pipe \in allocated
<1>1. CASE refs[e] > 0
  BY <1>1 DEF Inv, CountedIsAllocated
<1>2. CASE ~(refs[e] > 0)
  <2>1. refs[e] = 0
    BY <1>2 DEF Inv, TypeOK
  <2>2. IsFiniteSet(Holders(e)) /\ Cardinality(Holders(e)) \in Nat
        /\ Cardinality(Holders(e)) <= 0
    BY <2>1, HoldersFinite DEF Inv, CountsCoverHolders, Holders
  <2>3. Holders(e) = {}
    BY <2>2, FS_EmptySet
  <2>4. \A d \in Descriptors : files[s][d] = e => <<s, d>> \in Holders(e)
    BY DEF Holders, HoldersIn
  <2>5. Copies(s, e) = {}
    BY <2>3, <2>4 DEF Copies
  <2>6. Bumped(s)[e] = 0
    BY <2>1, <2>5, BumpedCounts, FS_EmptySet
  <2> QED BY <2>6
<1> QED BY <1>1, <1>2

LEMMA ForkInv ==
  ASSUME Inv, NEW s \in Slots, fork(s)
  PROVE  Inv'
<1>1. PICK t \in Slots : /\ state[t] = "unused"
                         /\ state' = [state EXCEPT ![t] = "live"]
                         /\ files' = [files EXCEPT ![t] = files[s]]
  BY Zenon DEF fork
<1>2. state[s] = "live" /\ refs' = Bumped(s) /\ UNCHANGED <<allocated, count>> /\ t # s
  BY <1>1 DEF fork
<1>3. refs' \in [Ends -> Nat]
  BY <1>2, BumpedCounts
<1>4. TypeOK'
  <2>1. state' \in [Slots -> {"unused", "live", "zombie"}]
        /\ files' \in [Slots -> [Descriptors -> Ends \cup {Free, File}]]
    BY <1>1 DEF Inv, TypeOK
  <2>2. StdioEnds'
    BY Zenon, <1>1 DEF Inv, TypeOK, StdioEnds
  <2> QED BY <1>2, <1>3, <2>1, <2>2 DEF Inv, TypeOK
<1>5. ASSUME NEW e \in Ends PROVE Cardinality(Holders(e)') <= refs'[e]
  <2> DEFINE S == Holders(e)'
             T == Holders(e)
             C == Copies(s, e)
             N == {t} \X C
  <2>1. IsFiniteSet(T) /\ Cardinality(T) \in Nat /\ Cardinality(T) <= refs[e]
        /\ refs[e] \in Nat
    BY HoldersFinite DEF Inv, TypeOK, CountsCoverHolders, Holders
  <2>2. IsFiniteSet(C) /\ Cardinality(C) \in Nat /\ refs'[e] = refs[e] + Cardinality(C)
    BY <1>2, BumpedCounts
  <2>3. S \subseteq T \cup N
    <3>1. \A x \in Slots, d \in Descriptors :
            state'[x] = "live" /\ files'[x][d] = e =>
              (x = t /\ files[s][d] = e) \/ (state[x] = "live" /\ files[x][d] = e)
      BY <1>1 DEF Inv, TypeOK
    <3> QED BY <3>1 DEF Holders, HoldersIn, Copies
  <2> HIDE DEF S, T, C
  <2>4. IsFiniteSet({t}) /\ Cardinality({t}) = 1
    BY Zenon, FS_Singleton
  <2>5. IsFiniteSet(N) /\ Cardinality(N) = 1 * Cardinality(C)
    BY <2>2, <2>4, FS_Product
  <2> HIDE DEF N
  <2>6. IsFiniteSet(T \cup N)
        /\ Cardinality(T \cup N) = Cardinality(T) + Cardinality(N) - Cardinality(T \cap N)
    BY <2>1, <2>5, FS_Union
  <2>7. Cardinality(T \cap N) \in Nat
    BY Zenon, <2>1, FS_Intersection, FS_CardinalityType
  <2>8. Cardinality(T \cup N) <= refs'[e] /\ refs'[e] \in Nat
    BY <2>1, <2>2, <2>5, <2>6, <2>7
  <2>9. Cardinality(S) <= refs'[e]
    BY <2>3, <2>6, <2>8, FewerHolders
  <2> QED BY <2>9 DEF S
<1>6. CountsCoverHolders'
  BY <1>5 DEF CountsCoverHolders
<1>7. CountedIsAllocated'
  BY <1>2, BumpedIsAllocated DEF CountedIsAllocated
<1>8. DeadHoldNothing'
  BY <1>1 DEF Inv, TypeOK, DeadHoldNothing
<1> QED BY <1>4, <1>6, <1>7, <1>8 DEF Inv

LEMMA ForkFailsInv ==
  ASSUME Inv, NEW s \in Slots, fork_fails(s)
  PROVE  Inv'
<1>1. state[s] = "live" /\ refs' = Bumped(s) /\ UNCHANGED <<state, files, allocated, count>>
  BY DEF fork_fails
<1>2. refs' \in [Ends -> Nat]
  BY <1>1, BumpedCounts
<1>3. TypeOK' /\ DeadHoldNothing'
  BY Zenon, <1>1, <1>2 DEF Inv, TypeOK, StdioEnds, DeadHoldNothing
<1>4. ASSUME NEW e \in Ends PROVE Cardinality(Holders(e)') <= refs'[e]
  <2>1. Holders(e)' = Holders(e)
    BY <1>1 DEF Holders, HoldersIn
  <2>2. Cardinality(Holders(e)) \in Nat /\ Cardinality(Holders(e)) <= refs[e]
        /\ refs[e] \in Nat
    BY HoldersFinite DEF Inv, TypeOK, CountsCoverHolders, Holders
  <2>3. refs'[e] = refs[e] + Cardinality(Copies(s, e))
        /\ Cardinality(Copies(s, e)) \in Nat
    BY <1>1, BumpedCounts
  <2> QED BY <2>1, <2>2, <2>3
<1>5. CountsCoverHolders'
  BY <1>4 DEF CountsCoverHolders
<1>6. CountedIsAllocated'
  BY <1>1, BumpedIsAllocated DEF CountedIsAllocated
<1> QED BY <1>3, <1>5, <1>6 DEF Inv

LEMMA NextInv == Inv /\ [Next]_vars => Inv'
<1> SUFFICES ASSUME Inv, [Next]_vars
             PROVE  Inv'
  OBVIOUS
<1>1. CASE UNCHANGED vars
  <2>1. \A e \in Ends : Holders(e)' = Holders(e)
    BY <1>1 DEF vars, Holders, HoldersIn
  <2> QED BY Zenon, <1>1, <2>1 DEF vars, Inv, TypeOK, StdioEnds, CountsCoverHolders,
                            CountedIsAllocated, DeadHoldNothing
<1>2. ASSUME NEW s \in Slots,
             \/ sys_open(s) \/ sys_pipe(s) \/ sys_close(s) \/ sys_use_as_stdio(s)
             \/ fork(s) \/ fork_fails(s) \/ sys_write(s) \/ sys_read(s)
             \/ Exit(s) \/ reap(s) \/ spawn(s)
      PROVE  Inv'
  BY <1>2, OpenInv, PipeInv, CloseInv, StdioInv, ForkInv, ForkFailsInv,
     TransferInv, ExitInv, SlotInv
<1> QED BY <1>1, <1>2 DEF Next

-----------------------------------------------------------------------------
(* The theorems. *)

THEOREM CountInvariant == Spec => []Inv
BY InitInv, NextInv, PTL DEF Spec

(* The counts never fall below the entries they stand for, so no close() of
   one process takes an end away from another that holds it
   (pipe.rs:19-28), for any number of processes and pipes. *)
THEOREM CountsCover == Spec => []CountsCoverHolders
<1>1. Inv => CountsCoverHolders
  BY DEF Inv
<1> QED BY <1>1, CountInvariant, PTL

(* No process ever reaches a freed pipe, whatever calls, failed forks, exits
   and crashes the processes make in whatever order. *)
THEOREM NeverDangling == Spec => []NoDanglingPipe
<1>1. Inv => NoDanglingPipe
  <2> SUFFICES ASSUME Inv, NEW e \in Ends, Holders(e) # {}
               PROVE  e.pipe \in allocated
    BY DEF NoDanglingPipe
  <2>1. IsFiniteSet(Holders(e)) /\ Cardinality(Holders(e)) \in Nat
        /\ Cardinality(Holders(e)) <= refs[e] /\ refs[e] \in Nat
    BY HoldersFinite DEF Inv, TypeOK, CountsCoverHolders, Holders
  <2>2. Cardinality(Holders(e)) # 0
    BY <2>1, FS_EmptySet
  <2>3. refs[e] > 0
    BY <2>1, <2>2
  <2> QED BY <2>3 DEF Inv, CountedIsAllocated
<1> QED BY <1>1, CountInvariant, PTL

(* With no count left at an end, no live process refers to it. *)
LEMMA UncountedUnheld ==
  ASSUME Inv, NEW e \in Ends, refs[e] = 0
  PROVE  \A s \in Slots : state[s] = "live" =>
           Copies(s, e) = {} /\ \A d \in Descriptors : files[s][d] # e
<1>1. IsFiniteSet(Holders(e)) /\ Cardinality(Holders(e)) \in Nat
      /\ Cardinality(Holders(e)) <= 0
  BY HoldersFinite DEF Inv, CountsCoverHolders, Holders
<1>2. Holders(e) = {}
  BY <1>1, FS_EmptySet
<1>3. \A s \in Slots, d \in Descriptors :
        state[s] = "live" /\ files[s][d] = e => <<s, d>> \in Holders(e)
  BY DEF Holders, HoldersIn
<1> QED BY <1>2, <1>3 DEF Copies

(* write() adds bytes to a pipe whose write end the caller holds. *)
LEMMA WriteStep ==
  ASSUME NEW s \in Slots, sys_write(s)
  PROVE  \E d \in Descriptors, q \in Pipes, n \in 1 .. BUF_SIZE :
           files[s][d] = End(q, TRUE) /\ count' = [count EXCEPT ![q] = @ + n]
<1>1. PICK d \in Descriptors, q \in Pipes, n \in 1 .. BUF_SIZE :
           /\ files[s][d] = End(q, TRUE)
           /\ refs[End(q, FALSE)] # 0
           /\ n <= BUF_SIZE - count[q]
           /\ count' = [count EXCEPT ![q] = @ + n]
  BY Zenon DEF sys_write
<1> QED BY <1>1, Zenon

(* End of file is final (pipe.rs:54-68): a pipe without bytes and without
   writers gets neither before it is freed. *)
THEOREM EndOfFileStays == Spec => EndOfFileIsFinal
<1>1. Inv /\ Inv' /\ [Next]_vars =>
        [\A p \in allocated : EndOfFile(p) => p \notin allocated' \/ EndOfFile(p)']_vars
  <2> SUFFICES ASSUME Inv, Inv', Next, NEW p \in allocated, EndOfFile(p),
                      p \in allocated'
               PROVE  EndOfFile(p)'
    OBVIOUS
  <2> DEFINE b == End(p, TRUE)
  <2>1. b \in Ends /\ refs[b] = 0 /\ count[p] = 0 /\ b.pipe = p /\ p \in Pipes
    BY Zenon, EndsApart DEF EndOfFile, Inv, TypeOK
  <2>2. \A s \in Slots : state[s] = "live" =>
           Copies(s, b) = {} /\ \A d \in Descriptors : files[s][d] # b
    BY Zenon, <2>1, UncountedUnheld
  <2>3. PICK s \in Slots :
          \/ sys_open(s) \/ sys_pipe(s) \/ sys_close(s) \/ sys_use_as_stdio(s)
          \/ fork(s) \/ fork_fails(s) \/ sys_write(s) \/ sys_read(s)
          \/ Exit(s) \/ reap(s) \/ spawn(s)
    BY DEF Next
  <2>4. refs'[b] = 0
    <3>1. CASE fork(s) \/ fork_fails(s)
      <4>1. refs' = Bumped(s) /\ state[s] = "live"
        BY <3>1 DEF fork, fork_fails
      <4>2. Bumped(s)[b] = 0 + Cardinality({})
        BY Zenon, <2>1, <2>2, <4>1, BumpedCounts
      <4> QED BY <4>1, <4>2, FS_EmptySet
    <3>2. CASE sys_pipe(s)
      <4>1. PICK q \in Pipes \ allocated :
              refs' = [refs EXCEPT ![End(q, FALSE)] = 1, ![End(q, TRUE)] = 1]
        BY Zenon, <3>2 DEF sys_pipe
      <4>2. b # End(q, FALSE) /\ b # End(q, TRUE)
        BY DEF End
      <4> HIDE DEF b
      <4> QED BY Zenon, <2>1, <4>1, <4>2 DEF Inv, TypeOK
    <3>3. CASE sys_close(s) \/ Exit(s)
      <4>1. PICK es \in SUBSET Ends :
              refs' = [e \in Ends |-> IF e \in es THEN refs[e] - 1 ELSE refs[e]]
        BY Zenon, <3>3 DEF sys_close, Exit, Close
      <4>2. refs'[b] \in Nat
        BY Zenon, <2>1 DEF Inv, TypeOK
      <4> HIDE DEF b
      <4> QED BY <2>1, <4>1, <4>2
    <3>4. CASE sys_open(s) \/ sys_use_as_stdio(s) \/ sys_write(s) \/ sys_read(s)
               \/ reap(s) \/ spawn(s)
      BY Zenon, <2>1, <3>4 DEF sys_open, sys_use_as_stdio, sys_write, sys_read, reap, spawn
    <3> QED BY Zenon, <2>3, <3>1, <3>2, <3>3, <3>4
  <2>5. count'[p] = 0
    <3>1. CASE sys_write(s)
      <4>1. PICK d \in Descriptors, q \in Pipes, n \in 1 .. BUF_SIZE :
              files[s][d] = End(q, TRUE) /\ count' = [count EXCEPT ![q] = @ + n]
        BY Zenon, <3>1, WriteStep
      <4>2. q # p
        BY Zenon, <2>2, <3>1, <4>1 DEF sys_write
      <4> QED BY <2>1, <4>1, <4>2 DEF Inv, TypeOK
    <3>2. CASE sys_read(s)
      <4>1. PICK q \in Pipes, n \in 1 .. BUF_SIZE :
              n <= count[q] /\ count' = [count EXCEPT ![q] = @ - n]
        BY Zenon, <3>2 DEF sys_read
      <4> QED BY <2>1, <4>1 DEF Inv, TypeOK
    <3>3. CASE sys_pipe(s)
      BY <2>1, <3>3 DEF sys_pipe, Inv, TypeOK
    <3>4. CASE UNCHANGED count
      BY <2>1, <3>4
    <3> QED BY Zenon, <2>3, <3>1, <3>2, <3>3, <3>4
            DEF sys_open, sys_use_as_stdio, sys_close, fork, fork_fails, Exit, reap, spawn
  <2> QED BY <2>4, <2>5 DEF EndOfFile
<1> QED BY <1>1, CountInvariant, PTL DEF Spec, EndOfFileIsFinal

=============================================================================
