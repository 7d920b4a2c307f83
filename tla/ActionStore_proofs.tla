-------------------------- MODULE ActionStore_proofs --------------------------
(***************************************************************************)
(* Theorems about ActionStore for every set of processes, threads, pairs   *)
(* and keys and every bound: its types, the well-formed ledger, and that   *)
(* the file-backed store implements the atomic ledger.                     *)
(***************************************************************************)
EXTENDS ActionStore, SequenceTheorems, TLAPS

-------------------------------------------------------------------------------
\* The inductive invariant

\* Every thread past its acquisition steps owns the locks it took.
LocksHeld ==
    /\ \A w \in Workers :
         pc[w] \in HoldsThreadLock => threadLock[ProcOf[w]] = w
    /\ FileBacked => \A w \in Workers : pc[w] \in HoldsFileLock => fileLock = w

\* The threads of a process that is down do nothing.
DeadAreIdle == \A w \in Workers : ~up[ProcOf[w]] => pc[w] = "idle"

\* Idle threads have no call, busy ones have one; an answer exists from the
\* decision on.
CallsMatchSteps ==
    \A w \in Workers :
      /\ pc[w] = "idle" => request[w] = NoRequest
      /\ pc[w] # "idle" => request[w] \in Requests
      /\ pc[w] \in {"idle", "lock_thread", "lock_file", "load", "decide"}
           => reply[w] = NoReply
      /\ pc[w] \in Decided \cup {"write", "rename"} => reply[w] \in Replies

\* Only a store with a path writes.
WritesAreFileBacked ==
    \A w \in Workers : pc[w] \in {"write", "rename"} => FileBacked

\* Between reloading and replacing, a thread's memory is the file.
MemoryIsFile ==
    FileBacked =>
      \A w \in Workers :
        /\ pc[w] \in {"decide", "write", "rename"} => mem[ProcOf[w]] = disk
        /\ pc[w] = "publish" => prospective[w] = disk

\* What a thread is about to persist: nothing, or its memory and one new
\* record whose key and pair its memory does not hold.
Building(w) ==
    LET records == mem[ProcOf[w]] IN
    \/ /\ request[w].op = "reset"
       /\ prospective[w] = << >>
       /\ reply[w] = [kind |-> "cleared", count |-> Len(records)]
    \/ /\ request[w].op = "commit"
       /\ IsFresh(records, request[w].pair, request[w].key)
       /\ \E id \in RecordIds :
            LET record == NewRecord(records, request[w].pair,
                                    request[w].key, id) IN
            /\ prospective[w] = Append(records, record)
            /\ reply[w] = [kind |-> "created", record |-> record]
            /\ id <= minted
            /\ pc[w] # "publish" => \A d \in durable : d.id # id

ProspectiveIsNext ==
    \A w \in Workers : pc[w] \in {"write", "rename", "publish"} => Building(w)

\* The temp file about to be renamed is the renaming thread's own.
TempIsOwn == \A w \in Workers : pc[w] = "rename" => tmp = prospective[w]

\* Everything in the file is, and everything shown in memory was, in the file.
DurableFirst ==
    /\ \A d \in durable : d.id <= minted
    /\ RecordsIn(disk) \subseteq durable

IInv ==
    /\ TypeOK
    /\ LocksHeld
    /\ DeadAreIdle
    /\ CallsMatchSteps
    /\ WritesAreFileBacked
    /\ MemoryIsFile
    /\ ProspectiveIsNext
    /\ TempIsOwn
    /\ DurableFirst
    /\ LedgerWellFormed
    /\ NoPhantom
-------------------------------------------------------------------------------
\* Lemmas about the record list

\* Appending a record built for a fresh key and pair yields a well-formed list
\* that holds the old records and the new one.
LEMMA AppendFresh ==
    ASSUME NEW records \in Seq(Records), NEW pair \in Pairs, NEW key \in Keys,
           NEW id \in RecordIds,
           WellFormed(records), IsFresh(records, pair, key)
    PROVE  LET record == NewRecord(records, pair, key, id)
               longer == Append(records, record)
           IN /\ record \in Records
              /\ longer \in Seq(Records)
              /\ WellFormed(longer)
              /\ RecordsIn(longer) = RecordsIn(records) \cup {record}
  <1> DEFINE record == NewRecord(records, pair, key, id)
             longer == Append(records, record)
  <1>1. record \in Records
    BY DEF NewRecord, Records, Positive
  <1>2. /\ longer \in Seq(Records)
        /\ Len(longer) = Len(records) + 1
        /\ DOMAIN longer = 1..(Len(records) + 1)
        /\ DOMAIN records = 1..Len(records)
        /\ \A i \in 1..Len(records) : longer[i] = records[i]
        /\ longer[Len(records) + 1] = record
    BY <1>1
  <1>3. /\ \A i \in 1..Len(records) : records[i].key # key
        /\ \A i \in 1..Len(records) : records[i].pair # pair
    BY <1>2 DEF IsFresh, KeySeen, PairSeen, RecordsWithKey, RecordsWithPair
  <1>4. record.key = key /\ record.pair = pair
        /\ record.sequence = Len(records) + 1
    BY DEF NewRecord
  <1> HIDE DEF record, longer
  <1>5. UniqueKeys(longer)
    BY <1>2, <1>3, <1>4 DEF UniqueKeys, WellFormed
  <1>6. UniquePairs(longer)
    BY <1>2, <1>3, <1>4 DEF UniquePairs, WellFormed
  <1>7. Dense(longer)
    BY <1>2, <1>4 DEF Dense, WellFormed
  <1>8. RecordsIn(longer) = RecordsIn(records) \cup {record}
    BY <1>2 DEF RecordsIn
  <1> QED
    BY <1>1, <1>2, <1>5, <1>6, <1>7, <1>8 DEF WellFormed, record, longer

\* The empty list is well formed.
LEMMA EmptyWellFormed == WellFormed(<< >>) /\ RecordsIn(<< >>) = {}
  BY DEF WellFormed, UniqueKeys, UniquePairs, Dense, RecordsIn

\* When the key or the pair is known, the answer names a record of the list.
LEMMA SettledNamesExisting ==
    ASSUME NEW records \in Seq(Records), NEW pair, NEW key,
           ~IsFresh(records, pair, key)
    PROVE  LET answer == SettledAnswer(records, pair, key) IN
           /\ answer \in Replies
           /\ answer.record \in RecordsIn(records)
  <1>0. \A i \in DOMAIN records : records[i] \in Records
    OBVIOUS
  <1>1. CASE KeySeen(records, key)
    <2>1. \E i \in DOMAIN records : records[i].key = key
      BY <1>1 DEF KeySeen, RecordsWithKey
    <2> DEFINE i == CHOOSE i \in DOMAIN records : records[i].key = key
    <2>2. i \in DOMAIN records
      BY <2>1
    <2>3. RecordOfKey(records, key) = records[i]
      BY DEF RecordOfKey
    <2> HIDE DEF i
    <2>4. SettledAnswer(records, pair, key) =
            [kind |-> IF records[i].pair = pair THEN "replayed"
                                                ELSE "key_binding_conflict",
             record |-> records[i]]
      BY <1>1, <2>3 DEF SettledAnswer
    <2> QED
      BY <1>0, <2>2, <2>4 DEF Replies, RecordsIn
  <1>2. CASE ~KeySeen(records, key)
    <2>1. \E i \in DOMAIN records : records[i].pair = pair
      BY <1>2 DEF IsFresh, PairSeen, RecordsWithPair
    <2> DEFINE i == CHOOSE i \in DOMAIN records : records[i].pair = pair
    <2>2. i \in DOMAIN records
      BY <2>1
    <2>3. RecordOfPair(records, pair) = records[i]
      BY DEF RecordOfPair
    <2> HIDE DEF i
    <2>4. SettledAnswer(records, pair, key) =
            [kind |-> "already_applied", record |-> records[i]]
      BY <1>2, <2>3 DEF SettledAnswer
    <2> QED
      BY <1>0, <2>2, <2>4 DEF Replies, RecordsIn
  <1> QED
    BY <1>1, <1>2

-------------------------------------------------------------------------------
\* Lemmas about the states the invariant describes

\* The answers the actions build are answers.
LEMMA ReplyTypes ==
    /\ [kind |-> "error"] \in Replies
    /\ \A n \in Nat : [kind |-> "cleared", count |-> n] \in Replies
    /\ \A s \in Seq(Records) : [kind |-> "read", records |-> s] \in Replies
    /\ \A r \in Records : [kind |-> "created", record |-> r] \in Replies
  BY DEF Replies

\* Two threads of one process are never both past the thread lock, and two
\* threads of a file-backed store never both past the flock.
LEMMA Exclusion ==
    ASSUME LocksHeld, TypeOK, NEW v \in Workers, NEW w \in Workers
    PROVE  /\ /\ ProcOf[v] = ProcOf[w]
              /\ pc[v] \in HoldsThreadLock
              /\ pc[w] \in HoldsThreadLock
              => v = w
           /\ /\ FileBacked
              /\ pc[v] \in HoldsFileLock
              /\ pc[w] \in HoldsFileLock
              => v = w
  BY DEF LocksHeld, TypeOK

\* What a thread is building stays what it is while the thread's own state and
\* its process's memory do, whatever ids are handed out to others.
LEMMA BuildingFrame ==
    ASSUME NEW v \in Workers, Building(v),
           mem'[ProcOf[v]] = mem[ProcOf[v]], request'[v] = request[v],
           prospective'[v] = prospective[v], reply'[v] = reply[v],
           minted \in Nat, minted' \in Nat, minted <= minted',
           \/ pc'[v] = "publish"
           \/ (pc[v] # "publish" /\ durable' = durable)
    PROVE  Building(v)'
  <1>1. CASE request[v].op = "reset" /\ prospective[v] = << >>
    BY <1>1 DEF Building
  <1>2. CASE ~(request[v].op = "reset" /\ prospective[v] = << >>)
    <2> DEFINE records == mem[ProcOf[v]]
               record(id) == NewRecord(records, request[v].pair,
                                       request[v].key, id)
    <2>1. PICK id \in RecordIds :
            /\ prospective[v] = Append(records, record(id))
            /\ reply[v] = [kind |-> "created", record |-> record(id)]
            /\ id <= minted
            /\ pc[v] # "publish" => \A d \in durable : d.id # id
      BY <1>2 DEF Building
    <2>2. id <= minted'
      BY <2>1 DEF RecordIds
    <2>3. pc'[v] # "publish" => \A d \in durable' : d.id # id
      BY <2>1
    <2>4. /\ request[v].op = "commit"
          /\ IsFresh(records, request[v].pair, request[v].key)
      BY <1>2 DEF Building
    <2> QED
      BY <2>1, <2>2, <2>3, <2>4 DEF Building
  <1> QED
    BY <1>1, <1>2

\* The list a thread is about to persist is well formed, and what it adds is
\* the record its caller will be told about.
LEMMA BuildingWellFormed ==
    ASSUME TypeOK, LedgerWellFormed, CallsMatchSteps,
           NEW w \in Workers, pc[w] # "idle", Building(w)
    PROVE  /\ WellFormed(prospective[w])
           /\ \A r \in RecordsIn(prospective[w]) \ RecordsIn(mem[ProcOf[w]]) :
                r.id <= minted
           /\ reply[w].kind \notin {"cleared", "read", "error"}
                => reply[w].record \in RecordsIn(prospective[w])
  <1> DEFINE records == mem[ProcOf[w]]
  <1>1. records \in Seq(Records) /\ WellFormed(records)
    BY ProcOfAssumption DEF TypeOK, LedgerWellFormed
  <1>2. CASE request[w].op = "reset" /\ prospective[w] = << >>
             /\ reply[w] = [kind |-> "cleared", count |-> Len(records)]
    BY <1>2, EmptyWellFormed
  <1>3. CASE /\ request[w].op = "commit"
             /\ IsFresh(records, request[w].pair, request[w].key)
             /\ \E id \in RecordIds :
                  LET record == NewRecord(records, request[w].pair,
                                          request[w].key, id) IN
                  /\ prospective[w] = Append(records, record)
                  /\ reply[w] = [kind |-> "created", record |-> record]
                  /\ id <= minted
    <2> DEFINE record(id) == NewRecord(records, request[w].pair,
                                       request[w].key, id)
    <2>1. PICK id \in RecordIds :
            /\ prospective[w] = Append(records, record(id))
            /\ reply[w] = [kind |-> "created", record |-> record(id)]
            /\ id <= minted
      BY <1>3
    <2>2. request[w].pair \in Pairs /\ request[w].key \in Keys
      BY <1>3 DEF CallsMatchSteps, Requests, CommitRequests
    <2>3. /\ WellFormed(prospective[w])
          /\ RecordsIn(prospective[w]) = RecordsIn(records) \cup {record(id)}
      BY <1>1, <1>3, <2>1, <2>2, AppendFresh
    <2>4. record(id).id = id
      BY DEF NewRecord
    <2> QED
      BY <2>1, <2>3, <2>4
  <1> QED
    BY <1>2, <1>3 DEF Building

-------------------------------------------------------------------------------
\* Every step preserves the invariant

\* The conjuncts that speak of what threads are doing.
Discipline ==
    LocksHeld /\ DeadAreIdle /\ CallsMatchSteps /\ WritesAreFileBacked

\* Call preserves the invariant.
LEMMA CallKeeps ==
    ASSUME NEW w \in Workers, IInv, Call(w) PROVE IInv'
  <1> USE DEF Call, At, Goto, Answer, HoldsFileLock, HoldsThreadLock, IInv
  <1>1. TypeOK'
    BY ReplyTypes, ProcOfAssumption DEF TypeOK, Steps, PersistStep
  <1>2. Discipline'
    BY ReplyTypes, ProcOfAssumption, FreeAssumption, ModeAssumption
      DEF Discipline, LocksHeld, DeadAreIdle, CallsMatchSteps,
          WritesAreFileBacked, TypeOK, Decided, PersistStep
  <1>3. MemoryIsFile'
    BY ProcOfAssumption, FreeAssumption, ModeAssumption
      DEF MemoryIsFile, LocksHeld, TypeOK, WritesAreFileBacked, PersistStep
  <1>4. ASSUME NEW v \in Workers, pc'[v] \in {"write", "rename", "publish"}
        PROVE  Building(v)'
    <2>1. pc[v] = pc'[v] /\ v # w /\ Building(v)
      BY <1>4 DEF ProspectiveIsNext, TypeOK
    <2>2. /\ mem'[ProcOf[v]] = mem[ProcOf[v]] /\ request'[v] = request[v]
          /\ prospective'[v] = prospective[v] /\ reply'[v] = reply[v]
      BY <1>4, <2>1 DEF TypeOK, LocksHeld
    <2>3. /\ minted \in Nat /\ minted' \in Nat /\ minted <= minted'
          /\ pc'[v] = "publish" \/ (pc[v] # "publish" /\ durable' = durable)
      BY <2>1 DEF TypeOK
    <2> QED
      BY <2>1, <2>2, <2>3, BuildingFrame
  <1>5. TempIsOwn'
    BY DEF TempIsOwn, LocksHeld, WritesAreFileBacked, TypeOK, PersistStep
  <1>6. DurableFirst'
    BY DEF DurableFirst, TypeOK
  <1>7. LedgerWellFormed'
    BY DEF LedgerWellFormed, TypeOK
  <1>8. NoPhantom'
    BY DEF NoPhantom, TypeOK
  <1> QED
    BY <1>1, <1>2, <1>3, <1>4, <1>5, <1>6, <1>7, <1>8
      DEF Discipline, ProspectiveIsNext

\* LockThread preserves the invariant.
LEMMA LockThreadKeeps ==
    ASSUME NEW w \in Workers, IInv, LockThread(w) PROVE IInv'
  <1> USE DEF LockThread, At, Goto, Answer, HoldsFileLock, HoldsThreadLock, IInv
  <1>1. TypeOK'
    BY ReplyTypes, ProcOfAssumption DEF TypeOK, Steps, PersistStep
  <1>2. Discipline'
    BY ReplyTypes, ProcOfAssumption, FreeAssumption, ModeAssumption
      DEF Discipline, LocksHeld, DeadAreIdle, CallsMatchSteps,
          WritesAreFileBacked, TypeOK, Decided, PersistStep
  <1>3. MemoryIsFile'
    BY ProcOfAssumption, FreeAssumption, ModeAssumption
      DEF MemoryIsFile, LocksHeld, TypeOK, WritesAreFileBacked, PersistStep
  <1>4. ASSUME NEW v \in Workers, pc'[v] \in {"write", "rename", "publish"}
        PROVE  Building(v)'
    <2>1. pc[v] = pc'[v] /\ v # w /\ Building(v)
      BY <1>4 DEF ProspectiveIsNext, TypeOK
    <2>2. /\ mem'[ProcOf[v]] = mem[ProcOf[v]] /\ request'[v] = request[v]
          /\ prospective'[v] = prospective[v] /\ reply'[v] = reply[v]
      BY <1>4, <2>1 DEF TypeOK, LocksHeld
    <2>3. /\ minted \in Nat /\ minted' \in Nat /\ minted <= minted'
          /\ pc'[v] = "publish" \/ (pc[v] # "publish" /\ durable' = durable)
      BY <2>1 DEF TypeOK
    <2> QED
      BY <2>1, <2>2, <2>3, BuildingFrame
  <1>5. TempIsOwn'
    BY DEF TempIsOwn, LocksHeld, WritesAreFileBacked, TypeOK, PersistStep
  <1>6. DurableFirst'
    BY DEF DurableFirst, TypeOK
  <1>7. LedgerWellFormed'
    BY DEF LedgerWellFormed, TypeOK
  <1>8. NoPhantom'
    BY DEF NoPhantom, TypeOK
  <1> QED
    BY <1>1, <1>2, <1>3, <1>4, <1>5, <1>6, <1>7, <1>8
      DEF Discipline, ProspectiveIsNext

\* LockFile preserves the invariant.
LEMMA LockFileKeeps ==
    ASSUME NEW w \in Workers, IInv, LockFile(w) PROVE IInv'
  <1> USE DEF LockFile, At, Goto, Answer, HoldsFileLock, HoldsThreadLock, IInv
  <1>1. TypeOK'
    BY ReplyTypes, ProcOfAssumption DEF TypeOK, Steps, PersistStep
  <1>2. Discipline'
    BY ReplyTypes, ProcOfAssumption, FreeAssumption, ModeAssumption
      DEF Discipline, LocksHeld, DeadAreIdle, CallsMatchSteps,
          WritesAreFileBacked, TypeOK, Decided, PersistStep
  <1>3. MemoryIsFile'
    BY ProcOfAssumption, FreeAssumption, ModeAssumption
      DEF MemoryIsFile, LocksHeld, TypeOK, WritesAreFileBacked, PersistStep
  <1>4. ASSUME NEW v \in Workers, pc'[v] \in {"write", "rename", "publish"}
        PROVE  Building(v)'
    <2>1. pc[v] = pc'[v] /\ v # w /\ Building(v)
      BY <1>4 DEF ProspectiveIsNext, TypeOK
    <2>2. /\ mem'[ProcOf[v]] = mem[ProcOf[v]] /\ request'[v] = request[v]
          /\ prospective'[v] = prospective[v] /\ reply'[v] = reply[v]
      BY <1>4, <2>1 DEF TypeOK, LocksHeld
    <2>3. /\ minted \in Nat /\ minted' \in Nat /\ minted <= minted'
          /\ pc'[v] = "publish" \/ (pc[v] # "publish" /\ durable' = durable)
      BY <2>1 DEF TypeOK
    <2> QED
      BY <2>1, <2>2, <2>3, BuildingFrame
  <1>5. TempIsOwn'
    BY DEF TempIsOwn, LocksHeld, WritesAreFileBacked, TypeOK, PersistStep
  <1>6. DurableFirst'
    BY DEF DurableFirst, TypeOK
  <1>7. LedgerWellFormed'
    BY DEF LedgerWellFormed, TypeOK
  <1>8. NoPhantom'
    BY DEF NoPhantom, TypeOK
  <1> QED
    BY <1>1, <1>2, <1>3, <1>4, <1>5, <1>6, <1>7, <1>8
      DEF Discipline, ProspectiveIsNext

\* LockFileFails preserves the invariant.
LEMMA LockFileFailsKeeps ==
    ASSUME NEW w \in Workers, IInv, LockFileFails(w) PROVE IInv'
  <1> USE DEF LockFileFails, At, Goto, Answer, HoldsFileLock, HoldsThreadLock, IInv
  <1>1. TypeOK'
    BY ReplyTypes, ProcOfAssumption DEF TypeOK, Steps, PersistStep
  <1>2. Discipline'
    BY ReplyTypes, ProcOfAssumption, FreeAssumption, ModeAssumption
      DEF Discipline, LocksHeld, DeadAreIdle, CallsMatchSteps,
          WritesAreFileBacked, TypeOK, Decided, PersistStep
  <1>3. MemoryIsFile'
    BY ProcOfAssumption, FreeAssumption, ModeAssumption
      DEF MemoryIsFile, LocksHeld, TypeOK, WritesAreFileBacked, PersistStep
  <1>4. ASSUME NEW v \in Workers, pc'[v] \in {"write", "rename", "publish"}
        PROVE  Building(v)'
    <2>1. pc[v] = pc'[v] /\ v # w /\ Building(v)
      BY <1>4 DEF ProspectiveIsNext, TypeOK
    <2>2. /\ mem'[ProcOf[v]] = mem[ProcOf[v]] /\ request'[v] = request[v]
          /\ prospective'[v] = prospective[v] /\ reply'[v] = reply[v]
      BY <1>4, <2>1 DEF TypeOK, LocksHeld
    <2>3. /\ minted \in Nat /\ minted' \in Nat /\ minted <= minted'
          /\ pc'[v] = "publish" \/ (pc[v] # "publish" /\ durable' = durable)
      BY <2>1 DEF TypeOK
    <2> QED
      BY <2>1, <2>2, <2>3, BuildingFrame
  <1>5. TempIsOwn'
    BY DEF TempIsOwn, LocksHeld, WritesAreFileBacked, TypeOK, PersistStep
  <1>6. DurableFirst'
    BY DEF DurableFirst, TypeOK
  <1>7. LedgerWellFormed'
    BY DEF LedgerWellFormed, TypeOK
  <1>8. NoPhantom'
    BY DEF NoPhantom, TypeOK
  <1> QED
    BY <1>1, <1>2, <1>3, <1>4, <1>5, <1>6, <1>7, <1>8
      DEF Discipline, ProspectiveIsNext

\* Load preserves the invariant.
LEMMA LoadKeeps ==
    ASSUME NEW w \in Workers, IInv, Load(w) PROVE IInv'
  <1> USE DEF Load, At, Goto, Answer, HoldsFileLock, HoldsThreadLock, IInv
  <1>1. TypeOK'
    BY ReplyTypes, ProcOfAssumption DEF TypeOK, Steps, PersistStep
  <1>2. Discipline'
    BY ReplyTypes, ProcOfAssumption, FreeAssumption, ModeAssumption
      DEF Discipline, LocksHeld, DeadAreIdle, CallsMatchSteps,
          WritesAreFileBacked, TypeOK, Decided, PersistStep
  <1>3. MemoryIsFile'
    BY ProcOfAssumption, FreeAssumption, ModeAssumption
      DEF MemoryIsFile, LocksHeld, TypeOK, WritesAreFileBacked, PersistStep
  <1>4. ASSUME NEW v \in Workers, pc'[v] \in {"write", "rename", "publish"}
        PROVE  Building(v)'
    <2>1. pc[v] = pc'[v] /\ v # w /\ Building(v)
      BY <1>4 DEF ProspectiveIsNext, TypeOK
    <2>0. ProcOf[v] # ProcOf[w]
      BY <1>4, <2>1, Exclusion
    <2>2. /\ mem'[ProcOf[v]] = mem[ProcOf[v]] /\ request'[v] = request[v]
          /\ prospective'[v] = prospective[v] /\ reply'[v] = reply[v]
      BY <1>4, <2>1, <2>0, ProcOfAssumption DEF TypeOK, LocksHeld
    <2>3. /\ minted \in Nat /\ minted' \in Nat /\ minted <= minted'
          /\ pc'[v] = "publish" \/ (pc[v] # "publish" /\ durable' = durable)
      BY <2>1 DEF TypeOK
    <2> QED
      BY <2>1, <2>2, <2>3, BuildingFrame
  <1>5. TempIsOwn'
    BY DEF TempIsOwn, LocksHeld, WritesAreFileBacked, TypeOK, PersistStep
  <1>6. DurableFirst'
    BY DEF DurableFirst, TypeOK
  <1>7. LedgerWellFormed'
    BY DEF LedgerWellFormed, TypeOK
  <1>8. NoPhantom'
    <2> SUFFICES ASSUME FileBacked
                 PROVE  /\ \A p \in Procs : RecordsIn(mem'[p]) \subseteq durable'
                        /\ \A v \in Workers :
                             /\ pc'[v] \in {"unlock_file", "unlock_thread"}
                             /\ reply'[v].kind \notin {"cleared", "read", "error"}
                             => reply'[v].record \in durable'
      BY DEF NoPhantom
    <2>1. \A p \in Procs : RecordsIn(mem'[p]) \subseteq durable'
      BY DEF NoPhantom, DurableFirst, TypeOK
    <2>2. ASSUME pc'[w] \in {"unlock_file", "unlock_thread"},
                 reply'[w].kind \notin {"cleared", "read", "error"}
          PROVE  reply'[w].record \in durable'
      BY <2>2 DEF TypeOK, CallsMatchSteps
    <2>3. ASSUME NEW v \in Workers, v # w,
                 pc'[v] \in {"unlock_file", "unlock_thread"},
                 reply'[v].kind \notin {"cleared", "read", "error"}
          PROVE  reply'[v].record \in durable'
      <3>1. pc[v] = pc'[v] /\ reply[v] = reply'[v] /\ durable \subseteq durable'
        BY <2>3 DEF TypeOK
      <3> QED
        BY <2>3, <3>1 DEF NoPhantom
    <2> QED
      BY <2>1, <2>2, <2>3
  <1> QED
    BY <1>1, <1>2, <1>3, <1>4, <1>5, <1>6, <1>7, <1>8
      DEF Discipline, ProspectiveIsNext

\* DecideCreate preserves the invariant.
LEMMA DecideCreateKeeps ==
    ASSUME NEW w \in Workers, IInv, DecideCreate(w) PROVE IInv'
  <1> USE DEF DecideCreate, At, Goto, Answer, HoldsFileLock, HoldsThreadLock, IInv
  <1> DEFINE records == mem[ProcOf[w]]
             record == NewRecord(records, request[w].pair, request[w].key,
                                 minted + 1)
  <1>a. /\ records \in Seq(Records) /\ WellFormed(records)
        /\ request[w].pair \in Pairs /\ request[w].key \in Keys
        /\ minted + 1 \in RecordIds
    BY ProcOfAssumption
      DEF TypeOK, LedgerWellFormed, CallsMatchSteps, Requests, CommitRequests,
          NewRecord
  <1>b. /\ record \in Records /\ Append(records, record) \in Seq(Records)
        /\ [kind |-> "created", record |-> record] \in Replies
    BY <1>a, AppendFresh, ReplyTypes
  <1>1. TypeOK'
    BY <1>b DEF TypeOK, Steps, PersistStep
  <1>2. Discipline'
    BY <1>b, ProcOfAssumption, FreeAssumption, ModeAssumption
      DEF Discipline, LocksHeld, DeadAreIdle, CallsMatchSteps,
          WritesAreFileBacked, TypeOK, Decided, PersistStep
  <1>3. MemoryIsFile'
    BY ProcOfAssumption, FreeAssumption, ModeAssumption
      DEF MemoryIsFile, LocksHeld, TypeOK, WritesAreFileBacked, PersistStep
  <1>4. ASSUME NEW v \in Workers, pc'[v] \in {"write", "rename", "publish"}
        PROVE  Building(v)'
    <2>a. CASE v = w
      <3>1. /\ prospective'[w] = Append(records, record)
            /\ reply'[w] = [kind |-> "created", record |-> record]
            /\ mem' = mem /\ request' = request /\ durable' = durable
            /\ minted' = minted + 1
        BY DEF TypeOK
      <3>2. \A d \in durable : d.id # minted + 1
        BY DEF DurableFirst, TypeOK, Records, RecordIds
      <3>3. minted + 1 <= minted'
        BY <3>1 DEF TypeOK
      <3> QED
        BY <1>a, <2>a, <3>1, <3>2, <3>3 DEF Building
    <2>b. CASE v # w
      <3>1. pc[v] = pc'[v] /\ Building(v)
        BY <1>4, <2>b DEF ProspectiveIsNext, TypeOK
      <3>2. /\ mem'[ProcOf[v]] = mem[ProcOf[v]] /\ request'[v] = request[v]
            /\ prospective'[v] = prospective[v] /\ reply'[v] = reply[v]
            /\ minted \in Nat /\ minted' \in Nat /\ minted <= minted'
            /\ pc'[v] = "publish" \/ (pc[v] # "publish" /\ durable' = durable)
        BY <2>b, <3>1 DEF TypeOK
      <3> QED
        BY <3>1, <3>2, BuildingFrame
    <2> QED
      BY <2>a, <2>b
  <1>5. TempIsOwn'
    BY DEF TempIsOwn, LocksHeld, WritesAreFileBacked, TypeOK, PersistStep
  <1>6. DurableFirst'
    BY DEF DurableFirst, TypeOK, Records, RecordIds
  <1>7. LedgerWellFormed'
    BY DEF LedgerWellFormed, TypeOK
  <1>8. NoPhantom'
    <2> SUFFICES ASSUME FileBacked
                 PROVE  /\ \A p \in Procs : RecordsIn(mem'[p]) \subseteq durable'
                        /\ \A v \in Workers :
                             /\ pc'[v] \in {"unlock_file", "unlock_thread"}
                             /\ reply'[v].kind \notin {"cleared", "read", "error"}
                             => reply'[v].record \in durable'
      BY DEF NoPhantom
    <2>1. \A p \in Procs : RecordsIn(mem'[p]) \subseteq durable'
      BY DEF NoPhantom
    <2>2. ASSUME pc'[w] \in {"unlock_file", "unlock_thread"},
                 reply'[w].kind \notin {"cleared", "read", "error"}
          PROVE  reply'[w].record \in durable'
      BY <2>2 DEF TypeOK, PersistStep
    <2>3. ASSUME NEW v \in Workers, v # w,
                 pc'[v] \in {"unlock_file", "unlock_thread"},
                 reply'[v].kind \notin {"cleared", "read", "error"}
          PROVE  reply'[v].record \in durable'
      <3>1. pc[v] = pc'[v] /\ reply[v] = reply'[v] /\ durable \subseteq durable'
        BY <2>3 DEF TypeOK
      <3> QED
        BY <2>3, <3>1 DEF NoPhantom
    <2> QED
      BY <2>1, <2>2, <2>3
  <1> QED
    BY <1>1, <1>2, <1>3, <1>4, <1>5, <1>6, <1>7, <1>8
      DEF Discipline, ProspectiveIsNext

\* DecideSettled preserves the invariant.
LEMMA DecideSettledKeeps ==
    ASSUME NEW w \in Workers, IInv, DecideSettled(w) PROVE IInv'
  <1> USE DEF DecideSettled, At, Goto, Answer, HoldsFileLock, HoldsThreadLock, IInv
  <1> DEFINE records == mem[ProcOf[w]]
             answer == SettledAnswer(records, request[w].pair, request[w].key)
  <1>a. /\ records \in Seq(Records)
        /\ ~IsFresh(records, request[w].pair, request[w].key)
        /\ reply' = [reply EXCEPT ![w] = answer]
    BY ProcOfAssumption DEF TypeOK
  <1>b. answer \in Replies /\ answer.record \in RecordsIn(records)
    BY <1>a, SettledNamesExisting
  <1> HIDE DEF answer
  <1>1. TypeOK'
    BY <1>a, <1>b, ProcOfAssumption DEF TypeOK, Steps, PersistStep
  <1>2. Discipline'
    BY <1>a, <1>b, ProcOfAssumption, FreeAssumption, ModeAssumption
      DEF Discipline, LocksHeld, DeadAreIdle, CallsMatchSteps,
          WritesAreFileBacked, TypeOK, Decided, PersistStep
  <1>3. MemoryIsFile'
    BY ProcOfAssumption, FreeAssumption, ModeAssumption
      DEF MemoryIsFile, LocksHeld, TypeOK, WritesAreFileBacked, PersistStep
  <1>4. ASSUME NEW v \in Workers, pc'[v] \in {"write", "rename", "publish"}
        PROVE  Building(v)'
    <2>1. pc[v] = pc'[v] /\ v # w /\ Building(v)
      BY <1>4 DEF ProspectiveIsNext, TypeOK
    <2>2. /\ mem'[ProcOf[v]] = mem[ProcOf[v]] /\ request'[v] = request[v]
          /\ prospective'[v] = prospective[v] /\ reply'[v] = reply[v]
      BY <1>4, <2>1 DEF TypeOK, LocksHeld
    <2>3. /\ minted \in Nat /\ minted' \in Nat /\ minted <= minted'
          /\ pc'[v] = "publish" \/ (pc[v] # "publish" /\ durable' = durable)
      BY <2>1 DEF TypeOK
    <2> QED
      BY <2>1, <2>2, <2>3, BuildingFrame
  <1>5. TempIsOwn'
    BY DEF TempIsOwn, LocksHeld, WritesAreFileBacked, TypeOK, PersistStep
  <1>6. DurableFirst'
    BY DEF DurableFirst, TypeOK
  <1>7. LedgerWellFormed'
    BY DEF LedgerWellFormed, TypeOK
  <1>8. NoPhantom'
    <2> SUFFICES ASSUME FileBacked
                 PROVE  /\ \A p \in Procs : RecordsIn(mem'[p]) \subseteq durable'
                        /\ \A v \in Workers :
                             /\ pc'[v] \in {"unlock_file", "unlock_thread"}
                             /\ reply'[v].kind \notin {"cleared", "read", "error"}
                             => reply'[v].record \in durable'
      BY DEF NoPhantom
    <2>1. \A p \in Procs : RecordsIn(mem'[p]) \subseteq durable'
      BY DEF NoPhantom
    <2>2. ASSUME pc'[w] \in {"unlock_file", "unlock_thread"},
                 reply'[w].kind \notin {"cleared", "read", "error"}
          PROVE  reply'[w].record \in durable'
      BY <1>a, <1>b, ProcOfAssumption DEF NoPhantom, TypeOK
    <2>3. ASSUME NEW v \in Workers, v # w,
                 pc'[v] \in {"unlock_file", "unlock_thread"},
                 reply'[v].kind \notin {"cleared", "read", "error"}
          PROVE  reply'[v].record \in durable'
      <3>1. pc[v] = pc'[v] /\ reply[v] = reply'[v] /\ durable \subseteq durable'
        BY <2>3 DEF TypeOK
      <3> QED
        BY <2>3, <3>1 DEF NoPhantom
    <2> QED
      BY <2>1, <2>2, <2>3
  <1> QED
    BY <1>1, <1>2, <1>3, <1>4, <1>5, <1>6, <1>7, <1>8
      DEF Discipline, ProspectiveIsNext

\* DecideReset preserves the invariant.
LEMMA DecideResetKeeps ==
    ASSUME NEW w \in Workers, IInv, DecideReset(w) PROVE IInv'
  <1> USE DEF DecideReset, At, Goto, Answer, HoldsFileLock, HoldsThreadLock, IInv
  <1>1. TypeOK'
    BY ReplyTypes, ProcOfAssumption DEF TypeOK, Steps, PersistStep
  <1>2. Discipline'
    BY ReplyTypes, ProcOfAssumption, FreeAssumption, ModeAssumption
      DEF Discipline, LocksHeld, DeadAreIdle, CallsMatchSteps,
          WritesAreFileBacked, TypeOK, Decided, PersistStep
  <1>3. MemoryIsFile'
    BY ProcOfAssumption, FreeAssumption, ModeAssumption
      DEF MemoryIsFile, LocksHeld, TypeOK, WritesAreFileBacked, PersistStep
  <1>4. ASSUME NEW v \in Workers, pc'[v] \in {"write", "rename", "publish"}
        PROVE  Building(v)'
    <2>a. CASE v = w
      BY <2>a DEF Building, TypeOK
    <2>b. CASE v # w
      <3>1. pc[v] = pc'[v] /\ Building(v)
        BY <1>4, <2>b DEF ProspectiveIsNext, TypeOK
      <3>2. /\ mem'[ProcOf[v]] = mem[ProcOf[v]] /\ request'[v] = request[v]
            /\ prospective'[v] = prospective[v] /\ reply'[v] = reply[v]
            /\ minted \in Nat /\ minted' \in Nat /\ minted <= minted'
            /\ pc'[v] = "publish" \/ (pc[v] # "publish" /\ durable' = durable)
        BY <2>b, <3>1 DEF TypeOK
      <3> QED
        BY <3>1, <3>2, BuildingFrame
    <2> QED
      BY <2>a, <2>b
  <1>5. TempIsOwn'
    BY DEF TempIsOwn, LocksHeld, WritesAreFileBacked, TypeOK, PersistStep
  <1>6. DurableFirst'
    BY DEF DurableFirst, TypeOK
  <1>7. LedgerWellFormed'
    BY DEF LedgerWellFormed, TypeOK
  <1>8. NoPhantom'
    BY DEF NoPhantom, TypeOK
  <1> QED
    BY <1>1, <1>2, <1>3, <1>4, <1>5, <1>6, <1>7, <1>8
      DEF Discipline, ProspectiveIsNext

\* DecideRead preserves the invariant.
LEMMA DecideReadKeeps ==
    ASSUME NEW w \in Workers, IInv, DecideRead(w) PROVE IInv'
  <1> USE DEF DecideRead, At, Goto, Answer, HoldsFileLock, HoldsThreadLock, IInv
  <1>1. TypeOK'
    BY ReplyTypes, ProcOfAssumption DEF TypeOK, Steps, PersistStep
  <1>2. Discipline'
    BY ReplyTypes, ProcOfAssumption, FreeAssumption, ModeAssumption
      DEF Discipline, LocksHeld, DeadAreIdle, CallsMatchSteps,
          WritesAreFileBacked, TypeOK, Decided, PersistStep
  <1>3. MemoryIsFile'
    BY ProcOfAssumption, FreeAssumption, ModeAssumption
      DEF MemoryIsFile, LocksHeld, TypeOK, WritesAreFileBacked, PersistStep
  <1>4. ASSUME NEW v \in Workers, pc'[v] \in {"write", "rename", "publish"}
        PROVE  Building(v)'
    <2>1. pc[v] = pc'[v] /\ v # w /\ Building(v)
      BY <1>4 DEF ProspectiveIsNext, TypeOK
    <2>2. /\ mem'[ProcOf[v]] = mem[ProcOf[v]] /\ request'[v] = request[v]
          /\ prospective'[v] = prospective[v] /\ reply'[v] = reply[v]
      BY <1>4, <2>1 DEF TypeOK, LocksHeld
    <2>3. /\ minted \in Nat /\ minted' \in Nat /\ minted <= minted'
          /\ pc'[v] = "publish" \/ (pc[v] # "publish" /\ durable' = durable)
      BY <2>1 DEF TypeOK
    <2> QED
      BY <2>1, <2>2, <2>3, BuildingFrame
  <1>5. TempIsOwn'
    BY DEF TempIsOwn, LocksHeld, WritesAreFileBacked, TypeOK, PersistStep
  <1>6. DurableFirst'
    BY DEF DurableFirst, TypeOK
  <1>7. LedgerWellFormed'
    BY DEF LedgerWellFormed, TypeOK
  <1>8. NoPhantom'
    BY DEF NoPhantom, TypeOK
  <1> QED
    BY <1>1, <1>2, <1>3, <1>4, <1>5, <1>6, <1>7, <1>8
      DEF Discipline, ProspectiveIsNext

\* WriteTemp preserves the invariant.
LEMMA WriteTempKeeps ==
    ASSUME NEW w \in Workers, IInv, WriteTemp(w) PROVE IInv'
  <1> USE DEF WriteTemp, At, Goto, Answer, HoldsFileLock, HoldsThreadLock, IInv
  <1>1. TypeOK'
    <2>1. tmp' \in Seq(Records) \cup {NoContents}
      BY DEF TypeOK
    <2>2. reply' \in [Workers -> Replies \cup {NoReply}]
      BY ReplyTypes DEF TypeOK
    <2>3. pc' \in [Workers -> Steps]
      BY DEF TypeOK, Steps
    <2> QED
      BY <2>1, <2>2, <2>3 DEF TypeOK
  <1>2. Discipline'
    BY ReplyTypes, ProcOfAssumption, FreeAssumption, ModeAssumption
      DEF Discipline, LocksHeld, DeadAreIdle, CallsMatchSteps,
          WritesAreFileBacked, TypeOK, Decided, PersistStep
  <1>3. MemoryIsFile'
    BY ProcOfAssumption, FreeAssumption, ModeAssumption
      DEF MemoryIsFile, LocksHeld, TypeOK, WritesAreFileBacked, PersistStep
  <1>4. ASSUME NEW v \in Workers, pc'[v] \in {"write", "rename", "publish"}
        PROVE  Building(v)'
    <2>a. CASE v = w
      <3>1. pc[w] = "write" /\ pc'[w] = "rename" /\ reply' = reply
            /\ Building(w)
        BY <1>4, <2>a DEF ProspectiveIsNext, TypeOK
      <3>2. /\ mem' = mem /\ request' = request /\ prospective' = prospective
            /\ minted \in Nat /\ minted' = minted /\ durable' = durable
        BY DEF TypeOK
      <3> QED
        BY <2>a, <3>1, <3>2, BuildingFrame
    <2>b. CASE v # w
      <3>1. pc[v] = pc'[v] /\ Building(v)
        BY <1>4, <2>b DEF ProspectiveIsNext, TypeOK
      <3>2. /\ mem'[ProcOf[v]] = mem[ProcOf[v]] /\ request'[v] = request[v]
            /\ prospective'[v] = prospective[v] /\ reply'[v] = reply[v]
            /\ minted \in Nat /\ minted' \in Nat /\ minted <= minted'
            /\ pc'[v] = "publish" \/ (pc[v] # "publish" /\ durable' = durable)
        BY <2>b, <3>1 DEF TypeOK
      <3> QED
        BY <3>1, <3>2, BuildingFrame
    <2> QED
      BY <2>a, <2>b
  <1>5. TempIsOwn'
    BY DEF TempIsOwn, LocksHeld, WritesAreFileBacked, TypeOK, PersistStep
  <1>6. DurableFirst'
    BY DEF DurableFirst, TypeOK
  <1>7. LedgerWellFormed'
    BY DEF LedgerWellFormed, TypeOK
  <1>8. NoPhantom'
    <2> SUFFICES ASSUME FileBacked
                 PROVE  /\ \A p \in Procs : RecordsIn(mem'[p]) \subseteq durable'
                        /\ \A v \in Workers :
                             /\ pc'[v] \in {"unlock_file", "unlock_thread"}
                             /\ reply'[v].kind \notin {"cleared", "read", "error"}
                             => reply'[v].record \in durable'
      BY DEF NoPhantom
    <2>1. \A p \in Procs : RecordsIn(mem'[p]) \subseteq durable'
      BY DEF NoPhantom
    <2>2. ASSUME pc'[w] \in {"unlock_file", "unlock_thread"},
                 reply'[w].kind \notin {"cleared", "read", "error"}
          PROVE  reply'[w].record \in durable'
      BY <2>2 DEF TypeOK
    <2>3. ASSUME NEW v \in Workers, v # w,
                 pc'[v] \in {"unlock_file", "unlock_thread"},
                 reply'[v].kind \notin {"cleared", "read", "error"}
          PROVE  reply'[v].record \in durable'
      <3>1. pc[v] = pc'[v] /\ reply[v] = reply'[v] /\ durable \subseteq durable'
        BY <2>3 DEF TypeOK
      <3> QED
        BY <2>3, <3>1 DEF NoPhantom
    <2> QED
      BY <2>1, <2>2, <2>3
  <1> QED
    BY <1>1, <1>2, <1>3, <1>4, <1>5, <1>6, <1>7, <1>8
      DEF Discipline, ProspectiveIsNext

\* Rename preserves the invariant.
LEMMA RenameKeeps ==
    ASSUME NEW w \in Workers, IInv, Rename(w) PROVE IInv'
  <1> USE DEF Rename, At, Goto, Answer, HoldsFileLock, HoldsThreadLock, IInv
  <1>a. /\ FileBacked /\ tmp = prospective[w] /\ Building(w)
        /\ mem[ProcOf[w]] = disk
    BY DEF WritesAreFileBacked, TempIsOwn, ProspectiveIsNext, MemoryIsFile
  <1>b. /\ WellFormed(prospective[w])
        /\ prospective[w] \in Seq(Records)
        /\ RecordsIn(prospective[w]) \subseteq Records
        /\ \A r \in RecordsIn(prospective[w]) \ RecordsIn(disk) : r.id <= minted
    <2>1. prospective[w] \in Seq(Records)
      BY DEF TypeOK
    <2>2. RecordsIn(prospective[w]) \subseteq Records
      BY <2>1 DEF RecordsIn
    <2>3. pc[w] # "idle" /\ TypeOK /\ LedgerWellFormed /\ CallsMatchSteps
      OBVIOUS
    <2> QED
      BY <1>a, <2>1, <2>2, <2>3, BuildingWellFormed
  <1>1. TypeOK'
    BY <1>a, <1>b, ReplyTypes DEF TypeOK, Steps
  <1>2. Discipline'
    BY ReplyTypes, ProcOfAssumption, FreeAssumption, ModeAssumption
      DEF Discipline, LocksHeld, DeadAreIdle, CallsMatchSteps,
          WritesAreFileBacked, TypeOK, Decided, PersistStep
  <1>3. MemoryIsFile'
    <2>1. ASSUME NEW v \in Workers, v # w
          PROVE  pc'[v] \notin {"decide", "write", "rename", "publish"}
      BY <1>a, <2>1, Exclusion DEF TypeOK
    <2>2. pc'[w] \in {"publish", "unlock_file"}
          /\ (pc'[w] = "publish" => prospective'[w] = disk')
      BY <1>a DEF TypeOK
    <2> QED
      BY <2>1, <2>2 DEF MemoryIsFile
  <1>4. ASSUME NEW v \in Workers, pc'[v] \in {"write", "rename", "publish"}
        PROVE  Building(v)'
    <2>1. v = w /\ pc'[w] = "publish" /\ Building(w)
      <3>1. v = w
        BY <1>a, <1>4, Exclusion DEF TypeOK
      <3> QED
        BY <1>a, <1>4, <3>1 DEF TypeOK
    <2>2. /\ mem' = mem /\ request' = request /\ prospective' = prospective
          /\ reply' = reply /\ minted \in Nat /\ minted' = minted
      BY <2>1 DEF TypeOK
    <2> QED
      BY <2>1, <2>2, BuildingFrame
  <1>5. TempIsOwn'
    BY DEF TempIsOwn, LocksHeld, WritesAreFileBacked, TypeOK, PersistStep
  <1>6. DurableFirst'
    BY <1>a, <1>b DEF DurableFirst, TypeOK
  <1>7. LedgerWellFormed'
    BY <1>a, <1>b DEF LedgerWellFormed
  <1>8. NoPhantom'
    <2> SUFFICES ASSUME FileBacked
                 PROVE  /\ \A p \in Procs : RecordsIn(mem'[p]) \subseteq durable'
                        /\ \A v \in Workers :
                             /\ pc'[v] \in {"unlock_file", "unlock_thread"}
                             /\ reply'[v].kind \notin {"cleared", "read", "error"}
                             => reply'[v].record \in durable'
      BY DEF NoPhantom
    <2>1. \A p \in Procs : RecordsIn(mem'[p]) \subseteq durable'
      BY DEF NoPhantom
    <2>2. ASSUME pc'[w] \in {"unlock_file", "unlock_thread"},
                 reply'[w].kind \notin {"cleared", "read", "error"}
          PROVE  reply'[w].record \in durable'
      BY <2>2 DEF TypeOK
    <2>3. ASSUME NEW v \in Workers, v # w,
                 pc'[v] \in {"unlock_file", "unlock_thread"},
                 reply'[v].kind \notin {"cleared", "read", "error"}
          PROVE  reply'[v].record \in durable'
      <3>1. pc[v] = pc'[v] /\ reply[v] = reply'[v] /\ durable \subseteq durable'
        BY <2>3 DEF TypeOK
      <3> QED
        BY <2>3, <3>1 DEF NoPhantom
    <2> QED
      BY <2>1, <2>2, <2>3
  <1> QED
    BY <1>1, <1>2, <1>3, <1>4, <1>5, <1>6, <1>7, <1>8
      DEF Discipline, ProspectiveIsNext

\* Publish preserves the invariant.
LEMMA PublishKeeps ==
    ASSUME NEW w \in Workers, IInv, Publish(w) PROVE IInv'
  <1> USE DEF Publish, At, Goto, Answer, HoldsFileLock, HoldsThreadLock, IInv
  <1>a. /\ Building(w) /\ prospective[w] \in Seq(Records)
        /\ FileBacked => prospective[w] = disk
    BY DEF ProspectiveIsNext, MemoryIsFile, TypeOK
  <1>b. /\ WellFormed(prospective[w])
        /\ reply[w].kind \notin {"cleared", "read", "error"}
             => reply[w].record \in RecordsIn(prospective[w])
    BY <1>a, BuildingWellFormed
  <1>1. TypeOK'
    BY ReplyTypes, ProcOfAssumption DEF TypeOK, Steps, PersistStep
  <1>2. Discipline'
    BY ReplyTypes, ProcOfAssumption, FreeAssumption, ModeAssumption
      DEF Discipline, LocksHeld, DeadAreIdle, CallsMatchSteps,
          WritesAreFileBacked, TypeOK, Decided, PersistStep
  <1>3. MemoryIsFile'
    BY ProcOfAssumption, FreeAssumption, ModeAssumption
      DEF MemoryIsFile, LocksHeld, TypeOK, WritesAreFileBacked, PersistStep
  <1>4. ASSUME NEW v \in Workers, pc'[v] \in {"write", "rename", "publish"}
        PROVE  Building(v)'
    <2>1. pc[v] = pc'[v] /\ v # w /\ Building(v)
      BY <1>4 DEF ProspectiveIsNext, TypeOK
    <2>0. ProcOf[v] # ProcOf[w]
      BY <1>4, <2>1, Exclusion
    <2>2. /\ mem'[ProcOf[v]] = mem[ProcOf[v]] /\ request'[v] = request[v]
          /\ prospective'[v] = prospective[v] /\ reply'[v] = reply[v]
      BY <1>4, <2>1, <2>0, ProcOfAssumption DEF TypeOK, LocksHeld
    <2>3. /\ minted \in Nat /\ minted' \in Nat /\ minted <= minted'
          /\ pc'[v] = "publish" \/ (pc[v] # "publish" /\ durable' = durable)
      BY <2>1 DEF TypeOK
    <2> QED
      BY <2>1, <2>2, <2>3, BuildingFrame
  <1>5. TempIsOwn'
    BY DEF TempIsOwn, LocksHeld, WritesAreFileBacked, TypeOK, PersistStep
  <1>6. DurableFirst'
    BY DEF DurableFirst, TypeOK
  <1>7. LedgerWellFormed'
    BY <1>b, ProcOfAssumption DEF LedgerWellFormed, TypeOK
  <1>8. NoPhantom'
    <2> SUFFICES ASSUME FileBacked
                 PROVE  /\ \A p \in Procs : RecordsIn(mem'[p]) \subseteq durable'
                        /\ \A v \in Workers :
                             /\ pc'[v] \in {"unlock_file", "unlock_thread"}
                             /\ reply'[v].kind \notin {"cleared", "read", "error"}
                             => reply'[v].record \in durable'
      BY DEF NoPhantom
    <2>1. \A p \in Procs : RecordsIn(mem'[p]) \subseteq durable'
      BY <1>a DEF NoPhantom, DurableFirst, TypeOK
    <2>2. ASSUME pc'[w] \in {"unlock_file", "unlock_thread"},
                 reply'[w].kind \notin {"cleared", "read", "error"}
          PROVE  reply'[w].record \in durable'
      BY <1>a, <1>b, <2>2 DEF TypeOK, DurableFirst
    <2>3. ASSUME NEW v \in Workers, v # w,
                 pc'[v] \in {"unlock_file", "unlock_thread"},
                 reply'[v].kind \notin {"cleared", "read", "error"}
          PROVE  reply'[v].record \in durable'
      <3>1. pc[v] = pc'[v] /\ reply[v] = reply'[v] /\ durable \subseteq durable'
        BY <2>3 DEF TypeOK
      <3> QED
        BY <2>3, <3>1 DEF NoPhantom
    <2> QED
      BY <2>1, <2>2, <2>3
  <1> QED
    BY <1>1, <1>2, <1>3, <1>4, <1>5, <1>6, <1>7, <1>8
      DEF Discipline, ProspectiveIsNext

\* UnlockFile preserves the invariant.
LEMMA UnlockFileKeeps ==
    ASSUME NEW w \in Workers, IInv, UnlockFile(w) PROVE IInv'
  <1> USE DEF UnlockFile, At, Goto, Answer, HoldsFileLock, HoldsThreadLock, IInv
  <1>1. TypeOK'
    BY ReplyTypes, ProcOfAssumption DEF TypeOK, Steps, PersistStep
  <1>2. Discipline'
    BY ReplyTypes, ProcOfAssumption, FreeAssumption, ModeAssumption
      DEF Discipline, LocksHeld, DeadAreIdle, CallsMatchSteps,
          WritesAreFileBacked, TypeOK, Decided, PersistStep
  <1>3. MemoryIsFile'
    BY ProcOfAssumption, FreeAssumption, ModeAssumption
      DEF MemoryIsFile, LocksHeld, TypeOK, WritesAreFileBacked, PersistStep
  <1>4. ASSUME NEW v \in Workers, pc'[v] \in {"write", "rename", "publish"}
        PROVE  Building(v)'
    <2>1. pc[v] = pc'[v] /\ v # w /\ Building(v)
      BY <1>4 DEF ProspectiveIsNext, TypeOK
    <2>2. /\ mem'[ProcOf[v]] = mem[ProcOf[v]] /\ request'[v] = request[v]
          /\ prospective'[v] = prospective[v] /\ reply'[v] = reply[v]
      BY <1>4, <2>1 DEF TypeOK, LocksHeld
    <2>3. /\ minted \in Nat /\ minted' \in Nat /\ minted <= minted'
          /\ pc'[v] = "publish" \/ (pc[v] # "publish" /\ durable' = durable)
      BY <2>1 DEF TypeOK
    <2> QED
      BY <2>1, <2>2, <2>3, BuildingFrame
  <1>5. TempIsOwn'
    BY DEF TempIsOwn, LocksHeld, WritesAreFileBacked, TypeOK, PersistStep
  <1>6. DurableFirst'
    BY DEF DurableFirst, TypeOK
  <1>7. LedgerWellFormed'
    BY DEF LedgerWellFormed, TypeOK
  <1>8. NoPhantom'
    BY DEF NoPhantom, TypeOK
  <1> QED
    BY <1>1, <1>2, <1>3, <1>4, <1>5, <1>6, <1>7, <1>8
      DEF Discipline, ProspectiveIsNext

\* UnlockThread preserves the invariant.
LEMMA UnlockThreadKeeps ==
    ASSUME NEW w \in Workers, IInv, UnlockThread(w) PROVE IInv'
  <1> USE DEF UnlockThread, At, Goto, Answer, HoldsFileLock, HoldsThreadLock, IInv
  <1>a. << >> \in Seq(Records)
    OBVIOUS
  <1>b. prospective' \in [Workers -> Seq(Records)]
    BY <1>a DEF TypeOK
  <1>1. TypeOK'
    BY <1>b DEF TypeOK, Steps
  <1>2. Discipline'
    BY ReplyTypes, ProcOfAssumption, FreeAssumption, ModeAssumption
      DEF Discipline, LocksHeld, DeadAreIdle, CallsMatchSteps,
          WritesAreFileBacked, TypeOK, Decided, PersistStep
  <1>3. MemoryIsFile'
    BY ProcOfAssumption, FreeAssumption, ModeAssumption
      DEF MemoryIsFile, LocksHeld, TypeOK, WritesAreFileBacked, PersistStep
  <1>4. ASSUME NEW v \in Workers, pc'[v] \in {"write", "rename", "publish"}
        PROVE  Building(v)'
    <2>1. pc[v] = pc'[v] /\ v # w /\ Building(v)
      BY <1>4 DEF ProspectiveIsNext, TypeOK
    <2>2. /\ mem'[ProcOf[v]] = mem[ProcOf[v]] /\ request'[v] = request[v]
          /\ prospective'[v] = prospective[v] /\ reply'[v] = reply[v]
      BY <1>4, <2>1 DEF TypeOK, LocksHeld
    <2>3. /\ minted \in Nat /\ minted' \in Nat /\ minted <= minted'
          /\ pc'[v] = "publish" \/ (pc[v] # "publish" /\ durable' = durable)
      BY <2>1 DEF TypeOK
    <2> QED
      BY <2>1, <2>2, <2>3, BuildingFrame
  <1>5. TempIsOwn'
    BY DEF TempIsOwn, LocksHeld, WritesAreFileBacked, TypeOK, PersistStep
  <1>6. DurableFirst'
    BY DEF DurableFirst, TypeOK
  <1>7. LedgerWellFormed'
    BY DEF LedgerWellFormed, TypeOK
  <1>8. NoPhantom'
    BY DEF NoPhantom, TypeOK
  <1> QED
    BY <1>1, <1>2, <1>3, <1>4, <1>5, <1>6, <1>7, <1>8
      DEF Discipline, ProspectiveIsNext

\* The death of a process preserves the invariant.
LEMMA CrashKeeps ==
    ASSUME NEW p \in Procs, IInv, Crash(p) PROVE IInv'
  <1> USE DEF Crash, IInv, ThreadsOf
  <1>1. TypeOK'
    <2>1. mem' \in [Procs -> Seq(Records)]
      BY DEF TypeOK
    <2>2. prospective' \in [Workers -> Seq(Records)]
      BY DEF TypeOK
    <2> QED
      BY <2>1, <2>2 DEF TypeOK, Steps
  <1>2. Discipline'
    BY ProcOfAssumption, FreeAssumption
      DEF Discipline, LocksHeld, DeadAreIdle, CallsMatchSteps,
          WritesAreFileBacked, TypeOK, Decided, HoldsFileLock, HoldsThreadLock
  <1>3. MemoryIsFile'
    BY ProcOfAssumption DEF MemoryIsFile, TypeOK
  <1>4. ASSUME NEW v \in Workers, pc'[v] \in {"write", "rename", "publish"}
        PROVE  Building(v)'
    <2>1. ProcOf[v] # p /\ pc'[v] = pc[v] /\ Building(v)
      BY <1>4 DEF ProspectiveIsNext, TypeOK
    <2>2. /\ mem'[ProcOf[v]] = mem[ProcOf[v]] /\ request'[v] = request[v]
          /\ prospective'[v] = prospective[v] /\ reply'[v] = reply[v]
          /\ minted \in Nat /\ minted' = minted /\ durable' = durable
      BY <2>1, ProcOfAssumption DEF TypeOK
    <2> QED
      BY <2>1, <2>2, BuildingFrame
  <1>5. TempIsOwn'
    BY DEF TempIsOwn, TypeOK
  <1>6. DurableFirst'
    BY DEF DurableFirst
  <1>7. LedgerWellFormed'
    BY EmptyWellFormed DEF LedgerWellFormed, TypeOK
  <1>8. NoPhantom'
    BY EmptyWellFormed DEF NoPhantom, TypeOK
  <1> QED
    BY <1>1, <1>2, <1>3, <1>4, <1>5, <1>6, <1>7, <1>8
      DEF Discipline, ProspectiveIsNext

\* A restart preserves the invariant.
LEMMA RestartKeeps ==
    ASSUME NEW p \in Procs, IInv, Restart(p) PROVE IInv'
  <1> USE DEF Restart, IInv
  <1>0. \A v \in Workers : pc[v] # "idle" => ProcOf[v] # p
    BY DEF DeadAreIdle
  <1>1. TypeOK'
    <2>1. mem' \in [Procs -> Seq(Records)]
      BY DEF TypeOK
    <2> QED
      BY <2>1 DEF TypeOK
  <1>2. Discipline'
    BY <1>0, ProcOfAssumption
      DEF Discipline, LocksHeld, DeadAreIdle, CallsMatchSteps,
          WritesAreFileBacked, TypeOK
  <1>3. MemoryIsFile'
    BY <1>0, ProcOfAssumption DEF MemoryIsFile, TypeOK
  <1>4. ASSUME NEW v \in Workers, pc'[v] \in {"write", "rename", "publish"}
        PROVE  Building(v)'
    <2>1. ProcOf[v] # p /\ pc'[v] = pc[v] /\ Building(v)
      BY <1>0, <1>4 DEF ProspectiveIsNext
    <2>2. /\ mem'[ProcOf[v]] = mem[ProcOf[v]] /\ request'[v] = request[v]
          /\ prospective'[v] = prospective[v] /\ reply'[v] = reply[v]
          /\ minted \in Nat /\ minted' = minted /\ durable' = durable
      BY <2>1, ProcOfAssumption DEF TypeOK
    <2> QED
      BY <2>1, <2>2, BuildingFrame
  <1>5. TempIsOwn'
    BY DEF TempIsOwn
  <1>6. DurableFirst'
    BY DEF DurableFirst
  <1>7. LedgerWellFormed'
    BY EmptyWellFormed DEF LedgerWellFormed, TypeOK
  <1>8. NoPhantom'
    BY EmptyWellFormed DEF NoPhantom, DurableFirst, TypeOK
  <1> QED
    BY <1>1, <1>2, <1>3, <1>4, <1>5, <1>6, <1>7, <1>8
      DEF Discipline, ProspectiveIsNext

\* The invariant holds at the start.
LEMMA InitEstablishes == Init => IInv
  <1> SUFFICES ASSUME Init PROVE IInv
    OBVIOUS
  <1>1. << >> \in Seq(Records)
    OBVIOUS
  <1>2. TypeOK
    BY <1>1 DEF Init, TypeOK, Steps
  <1>3. LedgerWellFormed /\ NoPhantom /\ DurableFirst
    BY EmptyWellFormed
      DEF Init, LedgerWellFormed, NoPhantom, DurableFirst
  <1> QED
    BY <1>2, <1>3
      DEF Init, IInv, LocksHeld, DeadAreIdle, CallsMatchSteps,
          WritesAreFileBacked, MemoryIsFile, ProspectiveIsNext, TempIsOwn,
          HoldsFileLock, HoldsThreadLock, Decided

\* Steps that change nothing preserve the invariant.
LEMMA StutterKeeps == IInv /\ UNCHANGED vars => IInv'
  BY DEF vars, IInv, TypeOK, LocksHeld, DeadAreIdle, CallsMatchSteps,
         WritesAreFileBacked, MemoryIsFile, ProspectiveIsNext, Building,
         TempIsOwn, DurableFirst, LedgerWellFormed, NoPhantom

\* Every step preserves the invariant.
LEMMA NextKeeps == IInv /\ [Next]_vars => IInv'
  <1> SUFFICES ASSUME IInv, [Next]_vars PROVE IInv'
    OBVIOUS
  <1>1. CASE UNCHANGED vars
    BY <1>1, StutterKeeps
  <1>2. ASSUME NEW p \in Procs, Crash(p) \/ Restart(p) PROVE IInv'
    BY <1>2, CrashKeeps, RestartKeeps
  <1>3. ASSUME NEW w \in Workers, Call(w) \/ Work(w) \/ LockFileFails(w) PROVE IInv'
    BY <1>3, CallKeeps, LockThreadKeeps, LockFileKeeps, LockFileFailsKeeps, LoadKeeps,
       DecideCreateKeeps, DecideSettledKeeps, DecideResetKeeps,
       DecideReadKeeps, WriteTempKeeps, RenameKeeps, PublishKeeps,
       UnlockFileKeeps, UnlockThreadKeeps
      DEF Work, Decide
  <1> QED
    BY <1>1, <1>2, <1>3 DEF Next

\* The inductive invariant holds in every reachable state.
LEMMA Invariance == Spec => []IInv
  BY InitEstablishes, NextKeeps, PTL DEF Spec

-------------------------------------------------------------------------------
\* Theorems

\* The store's variables keep their types, in both modes, through every
\* interleaving, I/O error and crash.
THEOREM TypesCorrect == Spec => []TypeOK
  <1>1. IInv => TypeOK
    BY DEF IInv
  <1> QED
    BY <1>1, Invariance, PTL

\* No interleaving of threads and processes leaves two records for one key or
\* one pair in the file or in any memory: an action is applied at most once.
THEOREM OneRecordPerAction == Spec => []LedgerWellFormed
  <1>1. IInv => LedgerWellFormed
    BY DEF IInv
  <1> QED
    BY <1>1, Invariance, PTL

\* What memory shows or an answer names has reached the file first.
THEOREM DurableBeforeVisible == Spec => []NoPhantom
  <1>1. IInv => NoPhantom
    BY DEF IInv
  <1> QED
    BY <1>1, Invariance, PTL

\* The only step that touches the file is a rename, and it adds one record or,
\* for a reset, empties it.
LEMMA StepAppendsOrResets == IInv /\ [Next]_vars => AppendOnlyStep
  <1> SUFFICES ASSUME IInv, [Next]_vars PROVE AppendOnlyStep
    OBVIOUS
  <1>1. ASSUME NEW w \in Workers, Rename(w) PROVE AppendOnlyStep
    <2>1. CASE disk' = disk
      BY <2>1 DEF AppendOnlyStep
    <2>2. CASE disk' # disk
      <3>1. /\ pc[w] = "rename" /\ disk' = prospective[w] /\ Building(w)
            /\ mem[ProcOf[w]] = disk
        BY <1>1, <2>2
          DEF IInv, Rename, At, TempIsOwn, ProspectiveIsNext, MemoryIsFile,
              WritesAreFileBacked
      <3>2. CASE request[w].op = "reset" /\ prospective[w] = << >>
        BY <3>1, <3>2 DEF AppendOnlyStep, At
      <3>3. ASSUME NEW r, prospective[w] = Append(disk, r)
            PROVE  AppendOnlyStep
        <4>1. disk \in Seq(Records) /\ prospective[w] \in Seq(Records)
          BY DEF IInv, TypeOK
        <4>2. /\ Len(disk) + 1 \in DOMAIN prospective[w]
              /\ prospective[w][Len(disk) + 1] = r
          BY <3>3, <4>1
        <4>3. r \in RecordsIn(prospective[w])
          BY <4>2 DEF RecordsIn
        <4> QED
          BY <3>1, <3>3, <4>3 DEF AppendOnlyStep
      <3> QED
        BY <3>1, <3>2, <3>3 DEF Building
    <2> QED
      BY <2>1, <2>2
  <1>2. ~(\E w \in Workers : Rename(w)) => disk' = disk
    BY DEF Next, Work, Decide, Call, LockThread, LockFile, LockFileFails, Load,
           DecideCreate, DecideSettled, DecideReset, DecideRead, WriteTemp, Publish,
           UnlockFile, UnlockThread, Crash, Restart, vars
  <1> QED
    BY <1>1, <1>2 DEF AppendOnlyStep

\* No acknowledged record is lost or rewritten except by a reset.
THEOREM NothingLost == Spec => AppendOnly
  <1>1. IInv /\ [Next]_vars => [AppendOnlyStep]_vars
    BY StepAppendsOrResets
  <1> QED
    BY <1>1, Invariance, PTL DEF Spec, AppendOnly

-------------------------------------------------------------------------------
\* The store implements the ledger

\* The answers the ledger has given, in a state of the store.
Given == [w \in Workers |-> IF pc[w] \in Decided THEN reply[w] ELSE NoReply]

\* The ledger decides with the operators the store decides with.
LEMMA SameDecisions ==
    ASSUME NEW records, NEW pair, NEW key, NEW id
    PROVE  /\ Ledger!IsFresh(records, pair, key) = IsFresh(records, pair, key)
           /\ Ledger!SettledAnswer(records, pair, key) =
                SettledAnswer(records, pair, key)
           /\ Ledger!NewRecord(records, pair, key, id) =
                NewRecord(records, pair, key, id)
  BY DEF IsFresh, KeySeen, PairSeen, RecordsWithKey, RecordsWithPair,
         SettledAnswer, RecordOfKey, RecordOfPair, NewRecord,
         Ledger!IsFresh, Ledger!KeySeen, Ledger!PairSeen,
         Ledger!RecordsWithKey, Ledger!RecordsWithPair, Ledger!SettledAnswer,
         Ledger!RecordOfKey, Ledger!RecordOfPair, Ledger!NewRecord

\* The store starts as an empty ledger.
LEMMA RefinesInit == Init => Ledger!Init
  BY DEF Init, Ledger!Init, Decided

\* A call that has not reached its decision is pending in the ledger.
LEMMA UndecidedIsPending ==
    ASSUME IInv, NEW w \in Workers, pc[w] \notin Decided \cup {"idle"}
    PROVE  Ledger!Pending(w) /\ request[w] \in Requests
  BY SentinelAssumption DEF IInv, CallsMatchSteps, Ledger!Pending

\* Steps before the decision, and those that publish and unlock, change
\* nothing the ledger shows.
LEMMA QuietSteps ==
    ASSUME IInv, NEW w \in Workers,
           LockThread(w) \/ LockFile(w) \/ Publish(w) \/ UnlockFile(w)
    PROVE  UNCHANGED Ledger!vars
  <1>1. Given' = Given
    BY DEF Given, Decided, IInv, TypeOK, LockThread, LockFile, Publish,
           UnlockFile, At, Goto
  <1>2. UNCHANGED <<disk, durable, request>>
    BY DEF LockThread, LockFile, Publish, UnlockFile
  <1> QED
    BY <1>1, <1>2 DEF Given, Ledger!vars

\* A failing lock, load, write or rename is a failure of the ledger without effect.
LEMMA FailureRefines ==
    ASSUME IInv, NEW w \in Workers, pc[w] \in {"lock_file", "load", "write", "rename"},
           Answer(w, [kind |-> "error"]),
           Goto(w, "unlock_file") \/ Goto(w, "unlock_thread"),
           UNCHANGED <<disk, durable, request>>
    PROVE  Ledger!Fail(w)
  <1>1. Ledger!Pending(w)
    BY UndecidedIsPending DEF Decided
  <1>2. Given' = [Given EXCEPT ![w] = [kind |-> "error"]]
    BY DEF Given, Decided, IInv, TypeOK, Answer, Goto
  <1> QED
    BY <1>1, <1>2 DEF Given, Ledger!Fail

\* The decisions that need no write take effect there and then.
LEMMA DecisionRefines ==
    ASSUME IInv, FileBacked, NEW w \in Workers,
           DecideSettled(w) \/ DecideRead(w)
    PROVE  Ledger!Settle(w) \/ Ledger!Read(w)
  <1>1. Ledger!Pending(w) /\ mem[ProcOf[w]] = disk
    BY UndecidedIsPending
      DEF DecideSettled, DecideRead, At, Decided, IInv, MemoryIsFile
  <1>2. CASE DecideSettled(w)
    <2> DEFINE answer == SettledAnswer(disk, request[w].pair, request[w].key)
    <2>1. reply' = [reply EXCEPT ![w] = answer]
      BY <1>1, <1>2 DEF DecideSettled, Answer
    <2> HIDE DEF answer
    <2>2. Given' = [Given EXCEPT ![w] = answer]
      BY <1>2, <2>1 DEF Given, Decided, IInv, TypeOK, DecideSettled, At, Goto
    <2>3. /\ request[w].op = "commit"
          /\ ~IsFresh(disk, request[w].pair, request[w].key)
          /\ UNCHANGED <<disk, durable, request>>
      BY <1>1, <1>2 DEF DecideSettled
    <2>4. Given' = [Given EXCEPT ![w] =
            Ledger!SettledAnswer(disk, request[w].pair, request[w].key)]
      BY <2>2, SameDecisions DEF answer
    <2>5. ~Ledger!IsFresh(disk, request[w].pair, request[w].key)
      BY <2>3, SameDecisions
    <2> QED
      BY <1>1, <2>3, <2>4, <2>5 DEF Given, Ledger!Settle
  <1>3. CASE DecideRead(w)
    <2>1. reply' = [reply EXCEPT ![w] = [kind |-> "read", records |-> disk]]
      BY <1>1, <1>3 DEF DecideRead, Answer
    <2>2. Given' = [Given EXCEPT ![w] = [kind |-> "read", records |-> disk]]
      BY <1>3, <2>1 DEF Given, Decided, IInv, TypeOK, DecideRead, At, Goto
    <2> QED
      BY <1>1, <1>3, <2>2 DEF DecideRead, Given, Ledger!Read
  <1> QED
    BY <1>2, <1>3

\* The rename is the instant at which a commit or a reset takes effect.
LEMMA RenameRefines ==
    ASSUME IInv, FileBacked, NEW w \in Workers, Rename(w)
    PROVE  Ledger!Create(w) \/ Ledger!Clear(w) \/ Ledger!Fail(w)
  <1>1. /\ pc[w] = "rename" /\ tmp = prospective[w] /\ Building(w)
        /\ mem[ProcOf[w]] = disk
    BY DEF Rename, At, IInv, TempIsOwn, ProspectiveIsNext, MemoryIsFile
  <1>2. Ledger!Pending(w) /\ request[w] \in Requests
    BY <1>1, UndecidedIsPending DEF Decided
  <1>3. CASE Answer(w, [kind |-> "error"]) /\ Goto(w, "unlock_file")
             /\ UNCHANGED <<disk, durable>>
    BY <1>1, <1>3, FailureRefines DEF Rename
  <1>4. CASE /\ disk' = prospective[w] /\ Goto(w, "publish")
             /\ durable' = durable \cup RecordsIn(prospective[w])
             /\ UNCHANGED reply
    <2>1. Given' = [Given EXCEPT ![w] = reply[w]]
      BY <1>1, <1>4 DEF Given, Decided, IInv, TypeOK, Goto
    <2>2. request' = request
      BY DEF Rename
    <2>3. CASE /\ request[w].op = "reset"
               /\ prospective[w] = << >>
               /\ reply[w] = [kind |-> "cleared", count |-> Len(disk)]
      <3>1. durable' = durable
        BY <1>4, <2>3, EmptyWellFormed
      <3>2. Ledger!Clear(w)
        BY <1>2, <1>4, <2>1, <2>2, <2>3, <3>1 DEF Given, Ledger!Clear
      <3> QED
        BY <3>2
    <2>4. ASSUME NEW id \in RecordIds,
                 request[w].op = "commit",
                 IsFresh(disk, request[w].pair, request[w].key),
                 prospective[w] = Append(disk,
                   NewRecord(disk, request[w].pair, request[w].key, id)),
                 reply[w] = [kind |-> "created", record |->
                   NewRecord(disk, request[w].pair, request[w].key, id)],
                 \A d \in durable : d.id # id
          PROVE  Ledger!Create(w)
      <3> DEFINE record == NewRecord(disk, request[w].pair, request[w].key, id)
      <3>1. request[w].pair \in Pairs /\ request[w].key \in Keys
        BY <1>2, <2>4 DEF Requests, CommitRequests
      <3>2. RecordsIn(prospective[w]) = RecordsIn(disk) \cup {record}
        BY <2>4, <3>1, AppendFresh DEF IInv, TypeOK, LedgerWellFormed
      <3>3. durable' = durable \cup {record}
        BY <1>4, <3>2 DEF IInv, DurableFirst
      <3>4. record.id = id
        BY DEF NewRecord
      <3>5. {r.id : r \in durable'} = {r.id : r \in durable} \cup {id}
        BY <3>3, <3>4
      <3>6. id \in RecordIds \ {r.id : r \in durable}
        BY <2>4
      <3>7. Given' = [Given EXCEPT ![w] = [kind |-> "created", record |-> record]]
        BY <2>1, <2>4
      <3>8. disk' = Append(disk, record)
        BY <1>4, <2>4
      <3>a. record = Ledger!NewRecord(disk, request[w].pair, request[w].key, id)
            /\ Ledger!IsFresh(disk, request[w].pair, request[w].key)
        BY <2>4, SameDecisions
      <3> HIDE DEF record
      <3>9. \E i \in RecordIds \ {r.id : r \in durable} :
              LET new == Ledger!NewRecord(disk, request[w].pair,
                                          request[w].key, i) IN
              /\ disk' = Append(disk, new)
              /\ {r.id : r \in durable'} = {r.id : r \in durable} \cup {i}
              /\ Given' = [Given EXCEPT ![w] =
                              [kind |-> "created", record |-> new]]
        BY <3>5, <3>6, <3>7, <3>8, <3>a
      <3> QED
        BY <1>2, <2>2, <2>4, <3>9, <3>a DEF Given, Ledger!Create
    <2> QED
      BY <1>1, <2>3, <2>4 DEF Building
  <1> QED
    BY <1>1, <1>3, <1>4 DEF Rename

\* Every step of a file-backed store is a step of the ledger or changes nothing
\* it shows.
LEMMA RefinesNext ==
    IInv /\ FileBacked /\ [Next]_vars => [Ledger!Next]_(Ledger!vars)
  <1> SUFFICES ASSUME IInv, FileBacked, [Next]_vars
               PROVE  Ledger!Next \/ UNCHANGED Ledger!vars
    OBVIOUS
  <1>1. CASE UNCHANGED vars
    BY <1>1 DEF vars, Ledger!vars
  <1>2. ASSUME NEW w \in Workers, Call(w) PROVE Ledger!Next
    <2>1. request[w] = NoRequest /\ UNCHANGED <<disk, durable>>
      BY <1>2 DEF Call, At, IInv, CallsMatchSteps
    <2>2. Given' = Given
      BY <1>2 DEF Given, Decided, IInv, TypeOK, Call, At, Goto
    <2>3. \E r \in Ledger!Requests : request' = [request EXCEPT ![w] = r]
      BY <1>2 DEF Call, Requests, CommitRequests, Ledger!Requests,
                  Ledger!CommitRequests
    <2> QED
      BY <2>1, <2>2, <2>3 DEF Given, Ledger!Invoke, Ledger!Next
  <1>3. ASSUME NEW w \in Workers,
               LockThread(w) \/ LockFile(w) \/ Publish(w) \/ UnlockFile(w)
        PROVE  UNCHANGED Ledger!vars
    BY <1>3, QuietSteps
  <1>4. ASSUME NEW w \in Workers, Load(w) \/ WriteTemp(w)
        PROVE  Ledger!Next \/ UNCHANGED Ledger!vars
    <2>1. UNCHANGED <<disk, durable, request>>
          /\ pc[w] \in {"load", "write"}
      BY <1>4 DEF Load, WriteTemp, At
    <2>2. CASE Answer(w, [kind |-> "error"]) /\ Goto(w, "unlock_file")
      BY <2>1, <2>2, FailureRefines DEF Ledger!Next
    <2>3. CASE UNCHANGED reply /\ (Goto(w, "decide") \/ Goto(w, "rename"))
      <3>1. Given' = Given
        BY <2>1, <2>3 DEF Given, Decided, IInv, TypeOK, Goto
      <3> QED
        BY <2>1, <3>1 DEF Given, Ledger!vars
    <2> QED
      BY <1>4, <2>2, <2>3 DEF Load, WriteTemp
  <1>5. ASSUME NEW w \in Workers, DecideCreate(w) \/ DecideReset(w)
        PROVE  UNCHANGED Ledger!vars
    <2>1. Given' = Given
      BY <1>5 DEF Given, Decided, IInv, TypeOK, DecideCreate, DecideReset, At,
                  Goto, Answer, PersistStep
    <2> QED
      BY <1>5, <2>1 DEF Given, Ledger!vars, DecideCreate, DecideReset
  <1>6. ASSUME NEW w \in Workers, DecideSettled(w) \/ DecideRead(w)
        PROVE  Ledger!Next
    BY <1>6, DecisionRefines DEF Ledger!Next
  <1>7. ASSUME NEW w \in Workers, Rename(w) PROVE Ledger!Next
    BY <1>7, RenameRefines DEF Ledger!Next
  <1>8. ASSUME NEW w \in Workers, UnlockThread(w) PROVE Ledger!Next
    <2>1. reply[w] \in Replies /\ pc[w] = "unlock_thread"
      BY <1>8 DEF UnlockThread, At, IInv, CallsMatchSteps, Decided
    <2>2. Given' = [Given EXCEPT ![w] = NoReply] /\ Given[w] # NoReply
      BY <1>8, <2>1, SentinelAssumption
        DEF Given, Decided, IInv, TypeOK, UnlockThread, Goto, Answer
    <2>3. /\ request' = [request EXCEPT ![w] = NoRequest]
          /\ UNCHANGED <<disk, durable>>
      BY <1>8 DEF UnlockThread
    <2> QED
      BY <2>2, <2>3 DEF Given, Ledger!Return, Ledger!Next
  <1>9. ASSUME NEW p \in Procs, Crash(p) PROVE Ledger!Next
    <2> DEFINE dead == ThreadsOf(p)
    <2>1. /\ Given' = [w \in Workers |-> IF w \in dead THEN NoReply ELSE Given[w]]
          /\ request' = [w \in Workers |->
                           IF w \in dead THEN NoRequest ELSE request[w]]
          /\ UNCHANGED <<disk, durable>>
      BY <1>9 DEF Crash, Given, Decided, IInv, TypeOK
    <2>2. dead \in SUBSET Workers
      BY DEF ThreadsOf
    <2> HIDE DEF dead
    <2> QED
      BY <2>1, <2>2 DEF Given, Ledger!CutOff, Ledger!Next
  <1>10. ASSUME NEW p \in Procs, Restart(p) PROVE UNCHANGED Ledger!vars
    BY <1>10 DEF Restart, Ledger!vars
  <1>11. ASSUME NEW w \in Workers, LockFileFails(w) PROVE Ledger!Next
    BY <1>11, FailureRefines DEF LockFileFails, At, Ledger!Next
  <1> QED
    BY <1>1, <1>2, <1>3, <1>4, <1>5, <1>6, <1>7, <1>8, <1>9, <1>10, <1>11
      DEF Next, Work, Decide

\* A file-backed store implements the atomic ledger: each call takes effect at
\* one instant between its call and its return, or fails without effect.
THEOREM StoreImplementsLedger == FileBacked => (Spec => ImplementsLedger)
  <1> SUFFICES ASSUME FileBacked PROVE Spec => ImplementsLedger
    OBVIOUS
  <1>1. IInv /\ [Next]_vars => [Ledger!Next]_(Ledger!vars)
    BY RefinesNext
  <1> QED
    BY <1>1, RefinesInit, Invariance, PTL
      DEF Spec, ImplementsLedger, Ledger!Spec
===============================================================================
