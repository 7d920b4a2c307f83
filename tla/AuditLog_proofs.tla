---------------------------- MODULE AuditLog_proofs ----------------------------
(***************************************************************************)
(* Theorems about AuditLog for every set of writers and processes and a    *)
(* file of any length: its types, that what append() returned is in the    *)
(* file, and that the numbers of one process grow along the file.          *)
(***************************************************************************)
EXTENDS AuditLog, FiniteSetTheorems, TLAPS

-------------------------------------------------------------------------------
\* The inductive invariant

\* A writer inside append() owns its process's lock.
LockHeld == \A w \in Writers : pc[w] # "idle" => lock[ProcessOf[w]] = w

\* The number of piece i comes before n, or is n again without adding a line.
Before(i, n) ==
    \/ file[i].entry.seq < n
    \/ file[i].entry.seq = n /\ ~StartsLine(i)

\* No number in the file is ahead of the count of its lines.
NumbersCounted == \A i \in DOMAIN file : Before(i, NumberOfLines + 1)

\* A number that was counted is not ahead either, though other processes have
\* appended since, and it comes after all of its own process.
NumberIsNext ==
    \A w \in Writers :
      /\ pc[w] \in {"write", "release"} => seq[w] # 0
      /\ pc[w] = "write" =>
           /\ seq[w] <= NumberOfLines + 1
           /\ \A i \in DOMAIN file :
                ProcessOf[file[i].entry.writer] = ProcessOf[w] =>
                  Before(i, seq[w])

\* Between write and return the entry is in the file.
WrittenIsLogged ==
    \A w \in Writers : pc[w] = "release" =>
      \E i \in DOMAIN file : file[i].entry = Entry(w) /\ file[i].ended

IInv ==
    /\ TypeOK
    /\ LockHeld
    /\ NumbersCounted
    /\ NumberIsNext
    /\ WrittenIsLogged
    /\ OrderWithinProcess
    /\ ReturnedIsLogged

-------------------------------------------------------------------------------
\* Lemmas about the file

LineStarts == {i \in DOMAIN file : StartsLine(i)}

\* The lines of a file can be counted.
LEMMA LinesAreCounted ==
    ASSUME TypeOK
    PROVE  /\ IsFiniteSet(LineStarts)
           /\ NumberOfLines = Cardinality(LineStarts)
           /\ NumberOfLines \in Nat
  <1>1. DOMAIN file = 1..Len(file) /\ Len(file) \in Nat
    BY DEF TypeOK
  <1>2. IsFiniteSet(DOMAIN file)
    BY <1>1, FS_Interval
  <1>3. LineStarts \in SUBSET DOMAIN file
    BY DEF LineStarts
  <1>4. IsFiniteSet(LineStarts)
    BY <1>2, <1>3, FS_Subset
  <1>5. NumberOfLines = Cardinality(LineStarts)
    BY DEF NumberOfLines, LineStarts
  <1> QED
    BY <1>4, <1>5, FS_CardinalityType

\* Every piece is an entry with its flags.
LEMMA PiecesOfFile ==
    ASSUME TypeOK, NEW i \in DOMAIN file
    PROVE  /\ file[i] \in Pieces(Entries)
           /\ file[i].entry \in Entries
           /\ file[i].entry.writer \in Writers
           /\ file[i].entry.seq \in Nat \ {0}
           /\ file[i].ended \in BOOLEAN
  <1>1. file[i] \in Pieces(Entries)
    BY DEF TypeOK
  <1> QED
    BY <1>1 DEF Pieces, Entries

\* Appending a piece, the n-th, leaves the others in place, and adds a line
\* unless it is glued to a torn one.
LEMMA Appended ==
    ASSUME TypeOK, NEW piece \in Pieces(Entries), file' = Append(file, piece),
           NEW n \in Nat, n = Len(file) + 1
    PROVE  /\ file' \in Seq(Pieces(Entries))
           /\ DOMAIN file' = DOMAIN file \cup {n}
           /\ \A i \in DOMAIN file : i < n /\ file'[i] = file[i]
           /\ file'[n] = piece
           /\ \A i \in DOMAIN file : StartsLine(i)' <=> StartsLine(i)
           /\ NumberOfLines' = IF StartsLine(n)' THEN NumberOfLines + 1
                                                 ELSE NumberOfLines
  <1>1. /\ file' \in Seq(Pieces(Entries))
        /\ Len(file) \in Nat
        /\ DOMAIN file = 1..Len(file)
        /\ DOMAIN file' = 1..(Len(file) + 1)
        /\ \A i \in 1..Len(file) : file'[i] = file[i]
        /\ file'[n] = piece
    BY DEF TypeOK
  <1>2. /\ DOMAIN file' = DOMAIN file \cup {n}
        /\ \A i \in DOMAIN file : i < n /\ file'[i] = file[i]
        /\ n \notin DOMAIN file
    BY <1>1
  <1>3. \A i \in DOMAIN file : StartsLine(i)' <=> StartsLine(i)
    BY <1>1 DEF StartsLine
  <1>4. /\ NumberOfLines' = Cardinality(LineStarts')
        /\ IsFiniteSet(LineStarts)
        /\ NumberOfLines = Cardinality(LineStarts)
    BY LinesAreCounted DEF NumberOfLines, LineStarts
  <1>5. CASE StartsLine(n)'
    <2>1. LineStarts' = LineStarts \cup {n}
      BY <1>2, <1>3, <1>5 DEF LineStarts
    <2>2. n \notin LineStarts
      BY <1>2 DEF LineStarts
    <2>3. NumberOfLines' = NumberOfLines + 1
      BY <1>4, <2>1, <2>2, FS_AddElement
    <2> QED
      BY <1>1, <1>2, <1>3, <1>5, <2>3
  <1>6. CASE ~StartsLine(n)'
    <2>1. LineStarts' = LineStarts
      BY <1>2, <1>3, <1>6 DEF LineStarts
    <2>2. NumberOfLines' = NumberOfLines
      BY <1>4, <2>1
    <2> QED
      BY <1>1, <1>2, <1>3, <1>6, <2>2
  <1> QED
    BY <1>5, <1>6

\* When writer w appends its entry, whole or torn, the numbers stay counted and
\* in order, and what other writers had counted stays next.
LEMMA AppendKeepsOrder ==
    ASSUME IInv, NEW w \in Writers, pc[w] = "write",
           NEW piece \in Pieces(Entries), piece.entry = Entry(w),
           file' = Append(file, piece),
           \A v \in Writers \ {w} : seq'[v] = seq[v]
    PROVE  /\ NumbersCounted'
           /\ OrderWithinProcess'
           /\ NumberOfLines \in Nat
           /\ NumberOfLines' >= NumberOfLines
           /\ \A v \in Writers : pc[v] = "write" /\ v # w =>
                \A i \in DOMAIN file' :
                  ProcessOf[file'[i].entry.writer] = ProcessOf[v] =>
                    Before(i, seq[v])'
  <1>0. TypeOK
    BY DEF IInv
  <1> PICK n \in Nat : n = Len(file) + 1
    BY <1>0 DEF TypeOK
  <1>1. /\ DOMAIN file' = DOMAIN file \cup {n}
        /\ \A i \in DOMAIN file : i < n /\ file'[i] = file[i]
        /\ file'[n] = piece
        /\ \A i \in DOMAIN file : StartsLine(i)' <=> StartsLine(i)
        /\ NumberOfLines' = IF StartsLine(n)'
                            THEN NumberOfLines + 1 ELSE NumberOfLines
    BY <1>0, Appended
  <1>2. NumberOfLines \in Nat
    BY <1>0, LinesAreCounted
  <1>3. /\ \A i \in DOMAIN file : i \in Nat /\ file[i].entry.seq \in Nat
        /\ piece.entry.seq = seq[w] /\ piece.entry.writer = w
        /\ seq[w] \in Nat /\ seq[w] <= NumberOfLines + 1
    BY <1>0, PiecesOfFile DEF IInv, TypeOK, Entry, NumberIsNext
  <1>4. \A i \in DOMAIN file : Before(i, NumberOfLines + 1)
    BY DEF IInv, NumbersCounted
  <1>5. NumbersCounted'
    <2>1. ASSUME NEW i \in DOMAIN file PROVE Before(i, NumberOfLines + 1)'
      BY <1>1, <1>2, <1>3, <1>4 DEF Before
    <2>2. Before(n, NumberOfLines + 1)'
      BY <1>1, <1>2, <1>3 DEF Before
    <2> QED
      BY <1>1, <2>1, <2>2 DEF NumbersCounted
  <1>6. \A i \in DOMAIN file :
          ProcessOf[file[i].entry.writer] = ProcessOf[w] => Before(i, seq[w])
    BY DEF IInv, NumberIsNext
  <1>7. OrderWithinProcess'
    <2> SUFFICES ASSUME NEW i \in DOMAIN file', NEW j \in DOMAIN file', i < j,
                        ProcessOf[file'[i].entry.writer]
                          = ProcessOf[file'[j].entry.writer]
                 PROVE  \/ file'[i].entry.seq < file'[j].entry.seq
                        \/ /\ file'[i].entry.seq = file'[j].entry.seq
                           /\ ~StartsLine(i)'
      BY DEF OrderWithinProcess
    <2>1. i \in DOMAIN file
      BY <1>1, <1>3
    <2>2. CASE j \in DOMAIN file
      BY <1>1, <2>1, <2>2 DEF IInv, OrderWithinProcess
    <2>3. CASE j = n
      BY <1>1, <1>3, <1>6, <2>1, <2>3 DEF Before
    <2> QED
      BY <1>1, <2>2, <2>3
  <1>8. ASSUME NEW v \in Writers, pc[v] = "write", v # w
        PROVE  \A i \in DOMAIN file' :
                 ProcessOf[file'[i].entry.writer] = ProcessOf[v] =>
                   Before(i, seq[v])'
    <2>1. ProcessOf[v] # ProcessOf[w]
      BY <1>8 DEF IInv, LockHeld
    <2>2. \A i \in DOMAIN file :
            ProcessOf[file[i].entry.writer] = ProcessOf[v] => Before(i, seq[v])
      BY <1>8 DEF IInv, NumberIsNext
    <2> QED
      BY <1>1, <1>3, <2>1, <2>2 DEF Before
  <1> QED
    BY <1>1, <1>2, <1>5, <1>7, <1>8

\* As long as the file is the same, so is what is said of the file alone.
LEMMA SameFile ==
    ASSUME IInv, UNCHANGED file
    PROVE  /\ NumbersCounted' /\ OrderWithinProcess'
           /\ NumberOfLines' = NumberOfLines
           /\ \A i, n : Before(i, n)' <=> Before(i, n)
  <1>1. NumberOfLines' = NumberOfLines
    BY DEF NumberOfLines, StartsLine
  <1>2. \A i, n : Before(i, n)' <=> Before(i, n)
    BY DEF Before, StartsLine
  <1>3. NumbersCounted'
    BY <1>1 DEF IInv, NumbersCounted, Before, StartsLine
  <1>4. OrderWithinProcess'
    BY DEF IInv, OrderWithinProcess, StartsLine
  <1> QED
    BY <1>1, <1>2, <1>3, <1>4

-------------------------------------------------------------------------------
\* Each step keeps the invariant

LEMMA InitSatisfies == Init => IInv
  <1> SUFFICES ASSUME Init PROVE IInv
    OBVIOUS
  <1>1. DOMAIN file = {} /\ file \in Seq(Pieces(Entries))
    BY DEF Init
  <1> QED
    BY <1>1
       DEF Init, IInv, TypeOK, LockHeld, NumbersCounted, NumberIsNext,
           WrittenIsLogged, OrderWithinProcess, ReturnedIsLogged

LEMMA AcquireKeeps ==
    ASSUME IInv, NEW w \in Writers, Acquire(w)
    PROVE  IInv'
  <1> USE ProcessAssumption, FreeAssumption DEF Acquire, IInv
  <1>1. TypeOK'
    BY DEF TypeOK
  <1>2. LockHeld'
    BY DEF LockHeld, TypeOK
  <1>3. NumberIsNext'
    BY SameFile DEF NumberIsNext, TypeOK, Before, StartsLine
  <1>4. WrittenIsLogged' /\ ReturnedIsLogged'
    BY DEF WrittenIsLogged, ReturnedIsLogged, Entry, TypeOK
  <1> QED
    BY <1>1, <1>2, <1>3, <1>4, SameFile

LEMMA CountKeeps ==
    ASSUME IInv, NEW w \in Writers, Count(w)
    PROVE  IInv'
  <1> USE DEF Count, IInv
  <1>0. NumberOfLines \in Nat /\ NumberOfLines' = NumberOfLines
    BY LinesAreCounted, SameFile
  <1>1. TypeOK'
    BY <1>0 DEF TypeOK
  <1>2. LockHeld'
    BY DEF LockHeld, TypeOK
  <1>3. NumberIsNext'
    <2> SUFFICES ASSUME NEW v \in Writers
                 PROVE  /\ pc'[v] \in {"write", "release"} => seq'[v] # 0
                        /\ pc'[v] = "write" =>
                             /\ seq'[v] <= NumberOfLines' + 1
                             /\ \A i \in DOMAIN file :
                                  ProcessOf[file[i].entry.writer] = ProcessOf[v]
                                    => Before(i, seq'[v])
      BY DEF NumberIsNext, Before, StartsLine
    <2>1. CASE v = w
      <3>1. seq'[v] = NumberOfLines + 1
        BY <2>1 DEF TypeOK
      <3> QED
        BY <1>0, <3>1 DEF NumbersCounted
    <2>2. CASE v # w
      BY <1>0, <2>2 DEF NumberIsNext, TypeOK
    <2> QED
      BY <2>1, <2>2
  <1>4. WrittenIsLogged' /\ ReturnedIsLogged'
    BY DEF WrittenIsLogged, ReturnedIsLogged, Entry, TypeOK
  <1> QED
    BY <1>1, <1>2, <1>3, <1>4, SameFile

\* The entry of a writer that has its number.
LEMMA EntryHasType ==
    ASSUME IInv, NEW w \in Writers, pc[w] \in {"write", "release"}
    PROVE  Entry(w) \in Entries
  BY DEF IInv, NumberIsNext, TypeOK, Entry, Entries

LEMMA WriteKeeps ==
    ASSUME IInv, NEW w \in Writers, Write(w)
    PROVE  IInv'
  <1> USE DEF Write, IInv
  <1> DEFINE piece == [entry |-> Entry(w), whole |-> TRUE, ended |-> TRUE]
  <1>1. piece \in Pieces(Entries) /\ piece.entry = Entry(w) /\ piece.ended
    BY EntryHasType DEF Pieces
  <1>2. file' = Append(file, piece) /\ pc[w] = "write"
    OBVIOUS
  <1> HIDE DEF piece
  <1> PICK n \in Nat : n = Len(file) + 1
    BY DEF TypeOK
  <1>3. /\ file' \in Seq(Pieces(Entries))
        /\ DOMAIN file' = DOMAIN file \cup {n}
        /\ \A i \in DOMAIN file : file'[i] = file[i]
        /\ file'[n] = piece
    BY <1>1, <1>2, Appended
  <1>4. /\ NumbersCounted'
        /\ OrderWithinProcess'
        /\ NumberOfLines \in Nat
        /\ NumberOfLines' \in Nat
        /\ NumberOfLines' >= NumberOfLines
        /\ \A v \in Writers : pc[v] = "write" /\ v # w =>
             \A i \in DOMAIN file' :
               ProcessOf[file'[i].entry.writer] = ProcessOf[v] =>
                 Before(i, seq[v])'
    <2>1. NumberOfLines' \in Nat
      BY <1>1, <1>2, Appended, LinesAreCounted
    <2> QED
      BY <1>1, <1>2, <2>1, AppendKeepsOrder
  <1>5. TypeOK'
    BY <1>3 DEF TypeOK
  <1>6. LockHeld'
    BY DEF LockHeld, TypeOK
  <1>7. NumberIsNext'
    <2> SUFFICES ASSUME NEW v \in Writers
                 PROVE  /\ pc'[v] \in {"write", "release"} => seq'[v] # 0
                        /\ pc'[v] = "write" =>
                             /\ seq'[v] <= NumberOfLines' + 1
                             /\ \A i \in DOMAIN file' :
                                  ProcessOf[file'[i].entry.writer]
                                    = ProcessOf[v] => Before(i, seq[v])'
      BY DEF NumberIsNext
    <2>1. pc'[v] \in {"write", "release"} => pc[v] \in {"write", "release"}
      BY <1>2 DEF TypeOK
    <2>2. pc'[v] = "write" => pc[v] = "write" /\ v # w
      BY DEF TypeOK
    <2>3. pc[v] = "write" => seq[v] <= NumberOfLines + 1 /\ seq[v] \in Nat
      BY DEF NumberIsNext, TypeOK
    <2>4. pc[v] \in {"write", "release"} => seq[v] # 0
      BY DEF NumberIsNext
    <2> QED
      BY <1>4, <2>1, <2>2, <2>3, <2>4
  <1>8. WrittenIsLogged'
    <2> SUFFICES ASSUME NEW v \in Writers, pc'[v] = "release"
                 PROVE  \E i \in DOMAIN file' : file'[i].entry = Entry(v)'
                                                /\ file'[i].ended
      BY DEF WrittenIsLogged
    <2>1. CASE v = w
      BY <1>1, <1>3, <2>1 DEF Entry
    <2>2. CASE v # w
      BY <1>3, <2>2 DEF WrittenIsLogged, Entry, TypeOK
    <2> QED
      BY <2>1, <2>2
  <1>9. ReturnedIsLogged'
    BY <1>3 DEF ReturnedIsLogged
  <1> QED
    BY <1>4, <1>5, <1>6, <1>7, <1>8, <1>9

LEMMA ReleaseKeeps ==
    ASSUME IInv, NEW w \in Writers, Release(w)
    PROVE  IInv'
  <1> USE ProcessAssumption DEF Release, IInv
  <1>1. TypeOK'
    BY EntryHasType DEF TypeOK
  <1>2. LockHeld'
    BY DEF LockHeld, TypeOK
  <1>3. NumberIsNext'
    BY SameFile DEF NumberIsNext, TypeOK, Before, StartsLine
  <1>4. WrittenIsLogged'
    BY DEF WrittenIsLogged, Entry, TypeOK
  <1>5. ReturnedIsLogged'
    BY DEF ReturnedIsLogged, WrittenIsLogged
  <1> QED
    BY <1>1, <1>2, <1>3, <1>4, <1>5, SameFile

LEMMA TearKeeps ==
    ASSUME IInv, NEW w \in Writers, Tear(w)
    PROVE  IInv'
  <1> USE ProcessAssumption DEF Tear, IInv
  <1>0. PICK whole \in BOOLEAN :
          file' = Append(file, [entry |-> Entry(w), whole |-> whole,
                                ended |-> FALSE])
    OBVIOUS
  <1> DEFINE piece == [entry |-> Entry(w), whole |-> whole, ended |-> FALSE]
  <1>1. piece \in Pieces(Entries) /\ piece.entry = Entry(w)
    BY EntryHasType DEF Pieces
  <1>2. file' = Append(file, piece) /\ pc[w] = "write"
    BY <1>0
  <1> HIDE DEF piece
  <1> PICK n \in Nat : n = Len(file) + 1
    BY DEF TypeOK
  <1>3. /\ file' \in Seq(Pieces(Entries))
        /\ DOMAIN file' = DOMAIN file \cup {n}
        /\ \A i \in DOMAIN file : file'[i] = file[i]
    BY <1>1, <1>2, Appended
  <1>4. /\ NumbersCounted'
        /\ OrderWithinProcess'
        /\ NumberOfLines \in Nat
        /\ NumberOfLines' \in Nat
        /\ NumberOfLines' >= NumberOfLines
        /\ \A v \in Writers : pc[v] = "write" /\ v # w =>
             \A i \in DOMAIN file' :
               ProcessOf[file'[i].entry.writer] = ProcessOf[v] =>
                 Before(i, seq[v])'
    <2>1. NumberOfLines' \in Nat
      BY <1>1, <1>2, Appended, LinesAreCounted
    <2>2. \A v \in Writers \ {w} : seq'[v] = seq[v]
      BY DEF TypeOK
    <2> QED
      BY <1>1, <1>2, <2>1, <2>2, AppendKeepsOrder
  <1>5. TypeOK'
    BY <1>3 DEF TypeOK
  <1>6. LockHeld'
    BY DEF LockHeld, TypeOK
  <1>7. NumberIsNext'
    <2> SUFFICES ASSUME NEW v \in Writers
                 PROVE  /\ pc'[v] \in {"write", "release"} => seq'[v] # 0
                        /\ pc'[v] = "write" =>
                             /\ seq'[v] <= NumberOfLines' + 1
                             /\ \A i \in DOMAIN file' :
                                  ProcessOf[file'[i].entry.writer]
                                    = ProcessOf[v] => Before(i, seq[v])'
      BY DEF NumberIsNext
    <2>1. pc'[v] \in {"write", "release"} => pc'[v] = pc[v] /\ v # w
      BY DEF TypeOK
    <2>2. v # w => seq'[v] = seq[v]
      BY DEF TypeOK
    <2>3. pc[v] = "write" => seq[v] <= NumberOfLines + 1 /\ seq[v] \in Nat
      BY DEF NumberIsNext, TypeOK
    <2>4. pc[v] \in {"write", "release"} => seq[v] # 0
      BY DEF NumberIsNext
    <2> QED
      BY <1>4, <2>1, <2>2, <2>3, <2>4
  <1>8. WrittenIsLogged' /\ ReturnedIsLogged'
    BY <1>3 DEF WrittenIsLogged, ReturnedIsLogged, Entry, TypeOK
  <1> QED
    BY <1>4, <1>5, <1>6, <1>7, <1>8

\* Whoever gives up leaves the file as it is, and the others where they are.
LEMMA GivingUpKeeps ==
    ASSUME IInv, UNCHANGED <<file, returned>>, NEW quits \in SUBSET Writers,
           lock' \in [Processes -> Writers \cup {Free}],
           \A v \in Writers \ quits : pc[v] # "idle" =>
             lock'[ProcessOf[v]] = lock[ProcessOf[v]],
           pc' = [v \in Writers |-> IF v \in quits THEN "idle" ELSE pc[v]],
           seq' = [v \in Writers |-> IF v \in quits THEN 0 ELSE seq[v]]
    PROVE  IInv'
  <1> USE DEF IInv
  <1>1. TypeOK'
    BY DEF TypeOK
  <1>2. LockHeld'
    BY DEF LockHeld
  <1>3. NumberIsNext'
    BY SameFile DEF NumberIsNext, Before, StartsLine
  <1>4. WrittenIsLogged' /\ ReturnedIsLogged'
    BY DEF WrittenIsLogged, ReturnedIsLogged, Entry
  <1> QED
    BY <1>1, <1>2, <1>3, <1>4, SameFile

LEMMA FailKeeps ==
    ASSUME IInv, NEW w \in Writers, Fail(w)
    PROVE  IInv'
  <1> DEFINE quits == {w}
  <1>1. /\ pc' = [v \in Writers |-> IF v \in quits THEN "idle" ELSE pc[v]]
        /\ seq' = [v \in Writers |-> IF v \in quits THEN 0 ELSE seq[v]]
        /\ lock' \in [Processes -> Writers \cup {Free}]
        /\ UNCHANGED <<file, returned>>
    BY ProcessAssumption DEF Fail, IInv, TypeOK
  <1>2. \A v \in Writers \ quits : pc[v] # "idle" =>
          ProcessOf[v] # ProcessOf[w]
    BY DEF IInv, LockHeld, Fail
  <1>3. \A v \in Writers \ quits : pc[v] # "idle" =>
          lock'[ProcessOf[v]] = lock[ProcessOf[v]]
    BY <1>2, ProcessAssumption DEF Fail, IInv, TypeOK
  <1> QED
    BY <1>1, <1>3, GivingUpKeeps

LEMMA CrashKeeps ==
    ASSUME IInv, NEW p \in Processes, Crash(p)
    PROVE  IInv'
  <1> DEFINE quits == {w \in Writers : ProcessOf[w] = p}
  <1>1. /\ pc' = [v \in Writers |-> IF v \in quits THEN "idle" ELSE pc[v]]
        /\ seq' = [v \in Writers |-> IF v \in quits THEN 0 ELSE seq[v]]
        /\ lock' \in [Processes -> Writers \cup {Free}]
        /\ UNCHANGED <<file, returned>>
    BY DEF Crash, IInv, TypeOK
  <1>2. \A v \in Writers \ quits : lock'[ProcessOf[v]] = lock[ProcessOf[v]]
    BY ProcessAssumption DEF Crash, IInv, TypeOK
  <1>3. quits \in SUBSET Writers
    OBVIOUS
  <1> HIDE DEF quits
  <1> QED
    BY <1>1, <1>2, <1>3, GivingUpKeeps

LEMMA StepKeeps == IInv /\ [Next]_vars => IInv'
  <1> SUFFICES ASSUME IInv, [Next]_vars PROVE IInv'
    OBVIOUS
  <1>1. CASE UNCHANGED vars
    BY <1>1, SameFile
       DEF vars, IInv, TypeOK, LockHeld, NumberIsNext, WrittenIsLogged,
           ReturnedIsLogged, Entry, Before, StartsLine
  <1> QED
    BY <1>1, AcquireKeeps, CountKeeps, WriteKeeps, ReleaseKeeps, TearKeeps,
       FailKeeps, CrashKeeps DEF Next, Step

\* The invariant holds in every reachable state.
THEOREM Invariant == Spec => []IInv
  BY InitSatisfies, StepKeeps, PTL DEF Spec

-------------------------------------------------------------------------------
\* What holds of every behaviour

\* The variables stay in their types.
THEOREM TypesCorrect == Spec => []TypeOK
  BY Invariant, PTL DEF IInv

\* ReturnedIsLogged: an entry whose append() returned is in the file, and no
\* later append, failure or crash removes it.
THEOREM ReturnedEntriesAreLogged == Spec => []ReturnedIsLogged
  BY Invariant, PTL DEF IInv

\* OrderWithinProcess: the numbers of one process grow along the file, except
\* after an entry that was glued to a torn line.
THEOREM NumbersGrowWithinProcess == Spec => []OrderWithinProcess
  BY Invariant, PTL DEF IInv
===============================================================================
