----------------------------- MODULE ActionStore ------------------------------
(***************************************************************************)
(* The enterprise API's side-effect store (enterprise-api/app/store.py):   *)
(* several processes, each with threads that share one ActionStore object, *)
(* all on one JSON file.                                                   *)
(*                                                                         *)
(* Every operation takes the object's thread lock, then the flock on       *)
(* <path>.lock, reloads the file into memory, decides, and, when it        *)
(* changes something, writes <path>.tmp, renames it over the file and only *)
(* then publishes the new list in memory.  The model has one action per    *)
(* such step, so threads and processes interleave between any two of them, *)
(* a write or a rename may raise, and a process may die anywhere.          *)
(*                                                                         *)
(* Without a path (FileBacked = FALSE) the flock, the reload and the write *)
(* are no-ops and the records live and die with the process.               *)
(***************************************************************************)
EXTENDS LedgerOps, FiniteSets

CONSTANTS
    Procs,        \* processes that opened the store
    Workers,      \* threads
    ProcOf,       \* ProcOf[w]: the process thread w runs in
    Pairs,        \* <<incident, action>> pairs
    Keys,         \* idempotency keys
    Commits,      \* bound: the pairs and keys that commit() is called with
    MaxRecords,   \* bound: how many records are ever built
    FileBacked,   \* is ACTION_STORE_PATH set?
    Free,         \* the owner of a lock nobody holds
    NoRequest,    \* a worker with no call under way
    NoReply,      \* a call without an answer yet
    NoContents    \* the temp file: absent, or cut off by a failed write

ASSUME ProcOfAssumption == ProcOf \in [Workers -> Procs]
ASSUME ModeAssumption == FileBacked \in BOOLEAN
ASSUME FreeAssumption == Free \notin Workers
ASSUME BoundAssumption == MaxRecords \in Nat

VARIABLES
    disk,         \* the records in the JSON file (an absent file is empty)
    tmp,          \* the contents of <path>.tmp
    mem,          \* mem[p]: _records of process p's store object
    up,           \* up[p]: is process p running?
    threadLock,   \* threadLock[p]: holder of the object's threading.Lock
    fileLock,     \* holder of the flock
    pc,           \* pc[w]: the next step of worker w
    request,      \* request[w]: the call worker w is serving
    prospective,  \* prospective[w]: the list w is about to persist
    reply,        \* reply[w]: what the call of w will return
    minted,       \* how many record ids uuid4 has produced; ids are 1, 2, ...
    durable       \* history: every record that ever was in the file

vars == <<disk, tmp, mem, up, threadLock, fileLock, pc, request, prospective,
          reply, minted, durable>>

Positive == Nat \ {0}
RecordIds == 1..MaxRecords
Records == [id : RecordIds, pair : Pairs, key : Keys, sequence : Positive]

CommitRequests ==
    {r \in [op : {"commit"}, pair : Pairs, key : Keys] : <<r.pair, r.key>> \in Commits}
Requests == CommitRequests \cup [op : {"reset", "read"}]

Replies ==
    [kind : {"created", "replayed", "key_binding_conflict", "already_applied"},
     record : Records]
    \cup [kind : {"cleared"}, count : Nat]
    \cup [kind : {"read"}, records : Seq(Records)]
    \cup [kind : {"error"}]

Steps == {"idle", "lock_thread", "lock_file", "load", "decide", "write",
          "rename", "publish", "unlock_file", "unlock_thread"}

\* The steps at which each lock is held.
HoldsFileLock ==
    {"load", "decide", "write", "rename", "publish", "unlock_file"}
HoldsThreadLock == HoldsFileLock \cup {"lock_file", "unlock_thread"}

Init ==
    /\ disk = << >>
    /\ tmp = NoContents
    /\ mem = [p \in Procs |-> << >>]
    /\ up = [p \in Procs |-> TRUE]
    /\ threadLock = [p \in Procs |-> Free]
    /\ fileLock = Free
    /\ pc = [w \in Workers |-> "idle"]
    /\ request = [w \in Workers |-> NoRequest]
    /\ prospective = [w \in Workers |-> << >>]
    /\ reply = [w \in Workers |-> NoReply]
    /\ minted = 0
    /\ durable = {}

\* The sentinels are no calls and no answers.
ASSUME SentinelAssumption == NoRequest \notin Requests /\ NoReply \notin Replies

-------------------------------------------------------------------------------
\* The steps of one operation

At(w, step) == pc[w] = step
Goto(w, step) == pc' = [pc EXCEPT ![w] = step]
Answer(w, r) == reply' = [reply EXCEPT ![w] = r]

CommitsUnderWay ==
    {w \in Workers : request[w] # NoRequest /\ request[w].op = "commit"}

\* A caller enters commit(), reset() or one of the three read operations.
\* MaxRecords bounds the commits: one is called only while an id is left for it.
Call(w) ==
    /\ At(w, "idle")
    /\ up[ProcOf[w]]
    /\ \E r \in Requests :
         /\ r.op = "commit" =>
              minted + Cardinality(CommitsUnderWay) < MaxRecords
         /\ request' = [request EXCEPT ![w] = r]
    /\ Goto(w, "lock_thread")
    /\ UNCHANGED <<disk, tmp, mem, up, threadLock, fileLock, prospective,
                   reply, minted, durable>>

LockThread(w) ==
    /\ At(w, "lock_thread")
    /\ threadLock[ProcOf[w]] = Free
    /\ threadLock' = [threadLock EXCEPT ![ProcOf[w]] = w]
    /\ Goto(w, "lock_file")
    /\ UNCHANGED <<disk, tmp, mem, up, fileLock, request, prospective, reply,
                   minted, durable>>

LockFile(w) ==
    /\ At(w, "lock_file")
    /\ IF FileBacked
       THEN /\ fileLock = Free
            /\ fileLock' = w
       ELSE UNCHANGED fileLock
    /\ Goto(w, "load")
    /\ UNCHANGED <<disk, tmp, mem, up, threadLock, request, prospective,
                   reply, minted, durable>>

\* Mutant of LockFileFails: the exception leaves the thread lock behind.
LockFileFailsKeepingLock(w) ==
    /\ FileBacked
    /\ At(w, "lock_file")
    /\ request' = [request EXCEPT ![w] = NoRequest]
    /\ Goto(w, "idle")
    /\ UNCHANGED <<disk, tmp, mem, up, threadLock, fileLock, prospective, reply,
                   minted, durable>>

\* The lock file's directory, the lock file or its handle cannot be had: the
\* exception passes through the with statement of the thread lock.
LockFileFails(w) ==
    /\ FileBacked
    /\ At(w, "lock_file")
    /\ Answer(w, [kind |-> "error"])
    /\ Goto(w, "unlock_thread")
    /\ UNCHANGED <<disk, tmp, mem, up, threadLock, fileLock, request, prospective,
                   minted, durable>>

\* Mutant of Load: the list in memory is taken to be current.
LoadNothing(w) ==
    /\ At(w, "load")
    /\ Goto(w, "decide")
    /\ UNCHANGED <<disk, tmp, mem, up, threadLock, fileLock, request,
                   prospective, reply, minted, durable>>

\* _reload_if_file_backed_unlocked: a file that breaks the load-time checks is
\* refused (fail closed), as is one that cannot be read.
Load(w) ==
    /\ At(w, "load")
    /\ IF ~FileBacked
       THEN /\ Goto(w, "decide")
            /\ UNCHANGED <<mem, reply>>
       ELSE \/ /\ UniqueKeys(disk) /\ UniquePairs(disk)
               /\ mem' = [mem EXCEPT ![ProcOf[w]] = disk]
               /\ Goto(w, "decide")
               /\ UNCHANGED reply
            \/ /\ Answer(w, [kind |-> "error"])
               /\ Goto(w, "unlock_file")
               /\ UNCHANGED mem
    /\ UNCHANGED <<disk, tmp, up, threadLock, fileLock, request, prospective,
                   minted, durable>>

\* The step after a decision to change the list: persistence is a no-op
\* without a path.
PersistStep == IF FileBacked THEN "write" ELSE "publish"

\* Mutant of DecideCreate: the record is published before it is persisted.
DecideCreatePublishing(w) ==
    LET records == mem[ProcOf[w]]
        r == request[w]
        record == NewRecord(records, r.pair, r.key, minted + 1)
    IN
    /\ At(w, "decide")
    /\ r.op = "commit"
    /\ IsFresh(records, r.pair, r.key)
    /\ record.id \in RecordIds
    /\ minted' = minted + 1
    /\ prospective' = [prospective EXCEPT ![w] = Append(records, record)]
    /\ mem' = [mem EXCEPT ![ProcOf[w]] = Append(records, record)]
    /\ Answer(w, [kind |-> "created", record |-> record])
    /\ Goto(w, PersistStep)
    /\ UNCHANGED <<disk, tmp, up, threadLock, fileLock, request, durable>>

\* commit() finds neither the key nor the pair and builds the prospective list.
DecideCreate(w) ==
    LET records == mem[ProcOf[w]]
        r == request[w]
        record == NewRecord(records, r.pair, r.key, minted + 1)
    IN
    /\ At(w, "decide")
    /\ r.op = "commit"
    /\ IsFresh(records, r.pair, r.key)
    /\ record.id \in RecordIds
    /\ minted' = minted + 1
    /\ prospective' = [prospective EXCEPT ![w] = Append(records, record)]
    /\ Answer(w, [kind |-> "created", record |-> record])
    /\ Goto(w, PersistStep)
    /\ UNCHANGED <<disk, tmp, mem, up, threadLock, fileLock, request, durable>>

\* commit() finds the key or the pair: a replay or one of the two conflicts.
DecideSettled(w) ==
    LET records == mem[ProcOf[w]]  r == request[w] IN
    /\ At(w, "decide")
    /\ r.op = "commit"
    /\ ~IsFresh(records, r.pair, r.key)
    /\ Answer(w, SettledAnswer(records, r.pair, r.key))
    /\ Goto(w, "unlock_file")
    /\ UNCHANGED <<disk, tmp, mem, up, threadLock, fileLock, request,
                   prospective, minted, durable>>

DecideReset(w) ==
    /\ At(w, "decide")
    /\ request[w].op = "reset"
    /\ prospective' = [prospective EXCEPT ![w] = << >>]
    /\ Answer(w, [kind |-> "cleared", count |-> Len(mem[ProcOf[w]])])
    /\ Goto(w, PersistStep)
    /\ UNCHANGED <<disk, tmp, mem, up, threadLock, fileLock, request, minted,
                   durable>>

\* get_by_key, list_for_incident and all_records return views of the list.
DecideRead(w) ==
    /\ At(w, "decide")
    /\ request[w].op = "read"
    /\ Answer(w, [kind |-> "read", records |-> mem[ProcOf[w]]])
    /\ Goto(w, "unlock_file")
    /\ UNCHANGED <<disk, tmp, mem, up, threadLock, fileLock, request,
                   prospective, minted, durable>>

\* Mutant of WriteTemp: a failed write is swallowed.
WriteTempSwallowing(w) ==
    /\ At(w, "write")
    /\ \/ tmp' = prospective[w] /\ Goto(w, "rename")
       \/ tmp' = NoContents /\ Goto(w, "publish")
    /\ UNCHANGED <<disk, mem, up, threadLock, fileLock, request, prospective,
                   reply, minted, durable>>

\* Mutant of WriteTemp: the exception leaves the flock behind.
WriteTempKeepingLock(w) ==
    /\ At(w, "write")
    /\ \/ tmp' = prospective[w] /\ Goto(w, "rename") /\ UNCHANGED reply
       \/ /\ tmp' = NoContents
          /\ Answer(w, [kind |-> "error"])
          /\ Goto(w, "unlock_thread")
    /\ UNCHANGED <<disk, mem, up, threadLock, fileLock, request, prospective,
                   minted, durable>>

\* tmp.write_text: a failed write leaves a truncated temp file behind.
WriteTemp(w) ==
    /\ At(w, "write")
    /\ \/ /\ tmp' = prospective[w]
          /\ Goto(w, "rename")
          /\ UNCHANGED reply
       \/ /\ tmp' = NoContents
          /\ Answer(w, [kind |-> "error"])
          /\ Goto(w, "unlock_file")
    /\ UNCHANGED <<disk, mem, up, threadLock, fileLock, request, prospective,
                   minted, durable>>

\* os.replace: the file's contents change in one step, or it raises.
Rename(w) ==
    /\ At(w, "rename")
    /\ \/ /\ disk' = tmp
          /\ tmp' = NoContents
          /\ durable' = durable \cup RecordsIn(tmp)
          /\ Goto(w, "publish")
          /\ UNCHANGED reply
       \/ /\ Answer(w, [kind |-> "error"])
          /\ Goto(w, "unlock_file")
          /\ UNCHANGED <<disk, tmp, durable>>
    /\ UNCHANGED <<mem, up, threadLock, fileLock, request, prospective, minted>>

\* Only now does the process's own memory show the change.
Publish(w) ==
    /\ At(w, "publish")
    /\ mem' = [mem EXCEPT ![ProcOf[w]] = prospective[w]]
    /\ Goto(w, "unlock_file")
    /\ UNCHANGED <<disk, tmp, up, threadLock, fileLock, request, prospective,
                   reply, minted, durable>>

UnlockFile(w) ==
    /\ At(w, "unlock_file")
    /\ fileLock' = IF FileBacked THEN Free ELSE fileLock
    /\ Goto(w, "unlock_thread")
    /\ UNCHANGED <<disk, tmp, mem, up, threadLock, request, prospective,
                   reply, minted, durable>>

\* The thread lock is released and the call returns or raises.
UnlockThread(w) ==
    /\ At(w, "unlock_thread")
    /\ threadLock' = [threadLock EXCEPT ![ProcOf[w]] = Free]
    /\ request' = [request EXCEPT ![w] = NoRequest]
    /\ Answer(w, NoReply)
    /\ prospective' = [prospective EXCEPT ![w] = << >>]
    /\ Goto(w, "idle")
    /\ UNCHANGED <<disk, tmp, mem, up, fileLock, minted, durable>>

-------------------------------------------------------------------------------
\* Processes die and come back

ThreadsOf(p) == {w \in Workers : ProcOf[w] = p}

\* The kernel drops the flock of a dead process; its memory is gone.
Crash(p) ==
    LET dead == ThreadsOf(p) IN
    /\ up[p]
    /\ up' = [up EXCEPT ![p] = FALSE]
    /\ mem' = [mem EXCEPT ![p] = << >>]
    /\ threadLock' = [threadLock EXCEPT ![p] = Free]
    /\ fileLock' = IF fileLock \in dead THEN Free ELSE fileLock
    /\ pc' = [w \in Workers |-> IF w \in dead THEN "idle" ELSE pc[w]]
    /\ request' = [w \in Workers |->
                     IF w \in dead THEN NoRequest ELSE request[w]]
    /\ prospective' = [w \in Workers |->
                         IF w \in dead THEN << >> ELSE prospective[w]]
    /\ reply' = [w \in Workers |-> IF w \in dead THEN NoReply ELSE reply[w]]
    /\ UNCHANGED <<disk, tmp, minted, durable>>

\* The constructor loads the file under both locks; a file it must refuse
\* keeps the process down.
Restart(p) ==
    /\ ~up[p]
    /\ FileBacked => fileLock = Free /\ UniqueKeys(disk) /\ UniquePairs(disk)
    /\ up' = [up EXCEPT ![p] = TRUE]
    /\ mem' = [mem EXCEPT ![p] = IF FileBacked THEN disk ELSE << >>]
    /\ UNCHANGED <<disk, tmp, threadLock, fileLock, pc, request, prospective,
                   reply, minted, durable>>

-------------------------------------------------------------------------------
Decide(w) ==
    DecideCreate(w) \/ DecideSettled(w) \/ DecideReset(w) \/ DecideRead(w)

\* The steps a worker takes once it has been called.
Work(w) ==
    \/ LockThread(w) \/ LockFile(w) \/ Load(w) \/ Decide(w) \/ WriteTemp(w)
    \/ Rename(w) \/ Publish(w) \/ UnlockFile(w) \/ UnlockThread(w)

Next ==
    \/ \E w \in Workers : Call(w) \/ Work(w) \/ LockFileFails(w)
    \/ \E p \in Procs : Crash(p) \/ Restart(p)

Spec == Init /\ [][Next]_vars

\* A running thread keeps running: each enabled step is eventually taken.  A
\* lock that becomes free again and again is eventually acquired only if the
\* lock is fair, which neither threading.Lock nor flock promises; no such
\* fairness is assumed.
FairSpec == Spec /\ \A w \in Workers : WF_vars(Work(w))
-------------------------------------------------------------------------------
\* Properties

\* The type invariant.
TypeOK ==
    /\ disk \in Seq(Records)
    /\ tmp \in Seq(Records) \cup {NoContents}
    /\ mem \in [Procs -> Seq(Records)]
    /\ up \in [Procs -> BOOLEAN]
    /\ threadLock \in [Procs -> Workers \cup {Free}]
    /\ fileLock \in Workers \cup {Free}
    /\ pc \in [Workers -> Steps]
    /\ request \in [Workers -> Requests \cup {NoRequest}]
    /\ prospective \in [Workers -> Seq(Records)]
    /\ reply \in [Workers -> Replies \cup {NoReply}]
    /\ minted \in Nat
    /\ durable \subseteq Records

\* However the operations of threads and processes interleave, the file and
\* every process's memory hold at most one record per idempotency key and per
\* pair, numbered without gaps: no side effect is applied twice, and no process
\* ever meets a file of the store's own making that the loader refuses.
LedgerWellFormed ==
    WellFormed(disk) /\ \A p \in Procs : WellFormed(mem[p])

\* A record a process shows in memory, or names in an answer about to be
\* returned, has been in the file: a failed write leaves no phantom that would
\* vanish on restart (the comment in commit()).
NoPhantom ==
    FileBacked =>
        /\ \A p \in Procs : RecordsIn(mem[p]) \subseteq durable
        /\ \A w \in Workers :
             /\ pc[w] \in {"unlock_file", "unlock_thread"}
             /\ reply[w].kind \notin {"cleared", "read", "error"}
             => reply[w].record \in durable

\* The file only grows by one record at its end, and only a reset ever removes
\* records: no interleaving of load-modify-replace loses or rewrites a record
\* that was acknowledged.
AppendOnlyStep ==
    \/ disk' = disk
    \/ \E r \in RecordsIn(disk') : disk' = Append(disk, r)
    \/ /\ disk' = << >>
       /\ \E w \in Workers : At(w, "rename") /\ request[w].op = "reset"
AppendOnly == [][AppendOnlyStep]_vars

\* Both locks are given back again and again: whoever holds one releases it, on
\* every path through an operation (a lock file that cannot be opened, a refused
\* load and a failed write included) or by dying.  Only who waits for the flock
\* may keep the thread lock, as the flock is not fair between processes.
LocksReleased ==
    /\ []<>(fileLock = Free)
    /\ \A p \in Procs :
         []<>(threadLock[p] = Free \/ At(threadLock[p], "lock_file"))

-------------------------------------------------------------------------------
\* The store implements the abstract ledger.  A call takes effect at the rename
\* when it changes the file, and at the decision otherwise; its answer counts
\* from then on.

Decided == {"publish", "unlock_file", "unlock_thread"}

Ledger == INSTANCE ActionLedger WITH
    RecordIds <- RecordIds,
    ledger <- disk,
    issued <- {r.id : r \in durable},
    call   <- request,
    answer <- [w \in Workers |-> IF pc[w] \in Decided THEN reply[w]
                                                      ELSE NoReply]

\* Every behaviour of the file-backed store, its interleavings, I/O errors and
\* crashes included, is one of the atomic ledger.
ImplementsLedger == Ledger!Spec
===============================================================================
