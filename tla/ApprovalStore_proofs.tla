------------------------- MODULE ApprovalStore_proofs -------------------------
(***************************************************************************)
(* Theorems about ApprovalStore for every set of workers, requests,        *)
(* capabilities and pairs, every time to live and every bound: its types,  *)
(* the one grant of a request, what the steps leave alone, and that the    *)
(* store implements the lifecycle.                                         *)
(***************************************************************************)
EXTENDS ApprovalStore, TLAPS

-------------------------------------------------------------------------------
\* The inductive invariant

\* A worker is between its load and its release exactly while it holds the lock.
LockHeld == \A w \in Workers : pc[w] \in {"decide", "save"} <=> lock = w

\* An operation under way has its arguments, a finished one its answer.
StepsMatch ==
    \A w \in Workers :
      /\ pc[w] \in {"load", "decide", "save"} => call[w] \in Calls
      /\ pc[w] \in {"save", "return"} => answer[w] \in Answers

\* Nobody wrote the file since the worker that decides loaded it.
CopyIsData == \A w \in Workers : pc[w] = "decide" => copy[w] = data

\* A request has a capability from its grant on, and no two share one.
WellGranted(table) ==
    /\ \A a \in Present(table) :
         /\ table[a].status = "pending" => table[a].capability = NoCapability
         /\ table[a].status \in {"approved", "applied"} =>
              table[a].capability # NoCapability
    /\ \A a, b \in Present(table) :
         table[a].capability = table[b].capability =>
           a = b \/ table[a].capability = NoCapability

\* What one operation may make of the table it loaded.
Requested(old, new) ==
    \E a \in Approvals \ Present(old) :
      /\ new[a] \in Entries
      /\ new[a].status = "pending" /\ new[a].capability = NoCapability
      /\ new = [old EXCEPT ![a] = new[a]]

Expired(old, new) ==
    \E lapsed \in SUBSET {a \in Approvals :
                            HasStatus(old, a, {"pending", "approved"})} :
      new = [a \in Approvals |-> IF a \in lapsed
                                 THEN [old[a] EXCEPT !.status = "expired"]
                                 ELSE old[a]]

Granted(old, new, r) ==
    /\ r.approval \in Approvals
    /\ HasStatus(old, r.approval, {"pending"})
    /\ r.capability \in Capabilities
    /\ \A b \in Present(old) : old[b].capability # r.capability
    /\ new = Grant(old, r.approval, r.capability)

Attempted(old, new) == \E a \in Present(old) : new = RecordAttempt(old, a)

Applied(old, new) ==
    \E a \in Approvals, record \in RecordIds :
      HasStatus(old, a, {"approved"}) /\ new = MarkApplied(old, a, record)

\* The change of an operation that grants nothing.
OtherStep(old, new) ==
    \/ Requested(old, new) \/ Expired(old, new)
    \/ Attempted(old, new) \/ Applied(old, new)

\* The table a worker saves is one step from the file, and it is a grant
\* exactly when the worker answers with one.
SavesOneStep(w) ==
    IF answer[w].outcome = "granted"
    THEN Granted(data, copy[w], answer[w])
    ELSE OtherStep(data, copy[w])

SaveIsOneStep == \A w \in Workers : pc[w] = "save" => SavesOneStep(w)

\* A worker about to hand out a capability.
HandsOut(w, a) ==
    pc[w] = "return" /\ answer[w].outcome = "granted" /\ answer[w].approval = a

\* What is handed out is in the file, was not handed out before, and nobody
\* else is about to.
HandedOutOnce ==
    /\ \A w \in Workers, a \in Approvals \cup {NoEntry} : HandsOut(w, a) =>
         /\ a \in Present(data)
         /\ answer[w].capability \in Capabilities
         /\ data[a].capability = answer[w].capability
         /\ \A d \in delivered : d[1] # a
         /\ \A v \in Workers : HandsOut(v, a) => v = w
    /\ \A d \in delivered :
         data[d[1]] # NoEntry /\ data[d[1]].capability = d[2]

IInv ==
    /\ TypeOK
    /\ LockHeld
    /\ StepsMatch
    /\ CopyIsData
    /\ WellGranted(data)
    /\ SaveIsOneStep
    /\ HandedOutOnce
-------------------------------------------------------------------------------
\* Lemmas about the decisions on a table

\* What no operation does to a request that is in the table.
LeavesAlone(old, new) ==
    \A a \in Present(old) :
      /\ new[a] # NoEntry
      /\ new[a].incident = old[a].incident
      /\ new[a].action = old[a].action
      /\ new[a].expires = old[a].expires
      /\ new[a].attempts >= old[a].attempts
      /\ old[a].status \in {"applied", "expired"} =>
           /\ new[a].status = old[a].status
           /\ new[a].record = old[a].record
           /\ new[a].capability = old[a].capability
      /\ old[a].capability # NoCapability =>
           new[a].capability = old[a].capability

\* One operation's change keeps a table a well-granted table and leaves alone
\* what it must.
SafeStep(old, new) ==
    new \in Tables /\ WellGranted(new) /\ LeavesAlone(old, new)

\* An id of a table that is present has an entry.
LEMMA PresentEntries ==
    ASSUME NEW table \in Tables
    PROVE  \A a \in Approvals :
             /\ a \in Present(table) => table[a] \in Entries
             /\ a \notin Present(table) => table[a] = NoEntry
  BY DEF Tables, Present

LEMMA RequestedIsSafe ==
    ASSUME NEW old \in Tables, NEW new, WellGranted(old), Requested(old, new)
    PROVE  SafeStep(old, new)
  <1>1. PICK a \in Approvals \ Present(old) :
          /\ new[a] \in Entries
          /\ new[a].status = "pending" /\ new[a].capability = NoCapability
          /\ new = [old EXCEPT ![a] = new[a]]
    BY DEF Requested
  <1>2. new \in Tables
    BY <1>1 DEF Tables
  <1>3. \A b \in Approvals : b # a => new[b] = old[b]
    BY <1>1 DEF Tables
  <1>4. Present(new) = Present(old) \cup {a}
    BY <1>1, <1>3, NoEntryAssumption DEF Present
  <1>5. WellGranted(new)
    BY <1>1, <1>3, <1>4 DEF WellGranted, Present
  <1>6. LeavesAlone(old, new)
    BY <1>1, <1>3, PresentEntries DEF LeavesAlone, Present, Entries
  <1> QED
    BY <1>2, <1>5, <1>6 DEF SafeStep

LEMMA ExpiredIsSafe ==
    ASSUME NEW old \in Tables, NEW new, WellGranted(old), Expired(old, new)
    PROVE  SafeStep(old, new)
  <1>1. PICK lapsed \in SUBSET {a \in Approvals :
                                  HasStatus(old, a, {"pending", "approved"})} :
          new = [a \in Approvals |-> IF a \in lapsed
                                     THEN [old[a] EXCEPT !.status = "expired"]
                                     ELSE old[a]]
    BY DEF Expired
  <1>2. \A a \in lapsed :
          /\ a \in Present(old)
          /\ old[a] \in Entries
          /\ old[a].status \in {"pending", "approved"}
    BY <1>1, PresentEntries DEF HasStatus, Present
  <1>3. \A a \in lapsed :
          /\ new[a] \in Entries
          /\ new[a].status = "expired"
          /\ new[a].incident = old[a].incident
          /\ new[a].action = old[a].action
          /\ new[a].expires = old[a].expires
          /\ new[a].attempts = old[a].attempts
          /\ new[a].record = old[a].record
          /\ new[a].capability = old[a].capability
    BY <1>1, <1>2 DEF Entries, Statuses
  <1>4. \A a \in Approvals \ lapsed : new[a] = old[a]
    BY <1>1
  <1>5. new \in Tables
    BY <1>1, <1>3, <1>4 DEF Tables
  <1>6. Present(new) = Present(old)
    BY <1>2, <1>3, <1>4, NoEntryAssumption DEF Present
  <1>7. \A a \in Present(old) : new[a].capability = old[a].capability
    BY <1>3, <1>4 DEF Present
  <1>8. \A a \in Present(old) :
          new[a].status = old[a].status \/ new[a].status = "expired"
    BY <1>3, <1>4 DEF Present
  <1>9. WellGranted(new)
    BY <1>6, <1>7, <1>8 DEF WellGranted
  <1>10. \A a \in Present(old) : old[a].attempts \in Nat
    BY PresentEntries DEF Present, Entries
  <1>11. LeavesAlone(old, new)
    <2> SUFFICES ASSUME NEW a \in Present(old)
                 PROVE  LeavesAlone(old, new)!(a)
      BY DEF LeavesAlone
    <2> a \in Approvals /\ old[a] # NoEntry
      BY DEF Present
    <2>1. CASE a \in lapsed
      BY <1>2, <1>3, <1>10, <2>1, NoEntryAssumption
    <2>2. CASE a \notin lapsed
      BY <1>4, <1>10, <2>2
    <2> QED
      BY <2>1, <2>2
  <1> QED
    BY <1>5, <1>9, <1>11 DEF SafeStep

LEMMA GrantedIsSafe ==
    ASSUME NEW old \in Tables, NEW new, NEW r,
           WellGranted(old), Granted(old, new, r)
    PROVE  SafeStep(old, new)
  <1> DEFINE a == r.approval
  <1>1. /\ a \in Present(old)
        /\ old[a] \in Entries
        /\ old[a].status = "pending"
        /\ old[a].capability = NoCapability
    BY PresentEntries DEF Granted, HasStatus, Present, WellGranted
  <1>2. /\ new[a] \in Entries
        /\ new[a] = [old[a] EXCEPT !.status = "approved",
                                   !.capability = r.capability]
        /\ new[a].status = "approved"
        /\ new[a].capability = r.capability
        /\ r.capability \in Capabilities
    BY <1>1 DEF Granted, Grant, Tables, Entries, Statuses
  <1>3. \A b \in Approvals : b # a => new[b] = old[b]
    BY DEF Granted, Grant, Tables
  <1>4. new \in Tables
    BY <1>1, <1>2, <1>3 DEF Granted, Grant, Tables
  <1>5. Present(new) = Present(old)
    BY <1>1, <1>2, <1>3, NoEntryAssumption DEF Present
  <1>6. \A b \in Present(old) : old[b].capability # r.capability
    BY DEF Granted
  <1>7. WellGranted(new)
    <2>1. new[a].capability # NoCapability
      BY <1>2, NoCapabilityAssumption
    <2>2. \A b \in Present(old) : b # a => new[b] = old[b]
      BY <1>3 DEF Present
    <2>3. \A b \in Present(old) :
            /\ new[b].status = "pending" => new[b].capability = NoCapability
            /\ new[b].status \in {"approved", "applied"} =>
                 new[b].capability # NoCapability
      BY <1>2, <2>1, <2>2 DEF WellGranted
    <2>4. \A b \in Present(old) : b # a => new[b].capability # new[a].capability
      BY <1>2, <1>6, <2>2
    <2>5. \A b, c \in Present(old) :
            new[b].capability = new[c].capability =>
              b = c \/ new[b].capability = NoCapability
      BY <2>2, <2>4 DEF WellGranted
    <2> QED
      BY <1>5, <2>3, <2>5 DEF WellGranted
  <1>8. \A b \in Present(old) : old[b].attempts \in Nat
    BY PresentEntries DEF Present, Entries
  <1>9. LeavesAlone(old, new)
    <2> SUFFICES ASSUME NEW b \in Present(old)
                 PROVE  LeavesAlone(old, new)!(b)
      BY DEF LeavesAlone
    <2> b \in Approvals /\ old[b] # NoEntry
      BY DEF Present
    <2>1. /\ new[a] \in Entries
          /\ new[a].incident = old[a].incident
          /\ new[a].action = old[a].action
          /\ new[a].expires = old[a].expires
          /\ new[a].attempts = old[a].attempts
      BY <1>1, <1>2 DEF Entries
    <2>2. CASE b = a
      BY <1>1, <1>8, <2>1, <2>2, NoEntryAssumption
    <2>3. CASE b # a
      BY <1>3, <1>8, <2>3
    <2> QED
      BY <2>2, <2>3
  <1> QED
    BY <1>4, <1>7, <1>9 DEF SafeStep

LEMMA AttemptedIsSafe ==
    ASSUME NEW old \in Tables, NEW new, WellGranted(old), Attempted(old, new)
    PROVE  SafeStep(old, new)
  <1>1. PICK a \in Present(old) : new = RecordAttempt(old, a)
    BY DEF Attempted
  <1>2. new = [old EXCEPT ![a].attempts = @ + 1]
    BY <1>1 DEF RecordAttempt
  <1>3. old[a] \in Entries /\ a \in Approvals
    BY PresentEntries DEF Present
  <1>4. /\ new[a] \in Entries
        /\ new[a] = [old[a] EXCEPT !.attempts = old[a].attempts + 1]
    BY <1>2, <1>3 DEF Tables, Entries
  <1>5. \A b \in Approvals : b # a => new[b] = old[b]
    BY <1>2 DEF Tables
  <1>6. new \in Tables
    BY <1>2, <1>3, <1>4, <1>5 DEF Tables
  <1>7. Present(new) = Present(old)
    BY <1>3, <1>4, <1>5, NoEntryAssumption DEF Present
  <1>8. \A b \in Present(old) : /\ new[b].status = old[b].status
                                /\ new[b].capability = old[b].capability
    BY <1>3, <1>4, <1>5 DEF Present, Entries
  <1>9. WellGranted(new)
    BY <1>7, <1>8 DEF WellGranted
  <1>10. \A b \in Present(old) : old[b].attempts \in Nat
    BY PresentEntries DEF Present, Entries
  <1>11. LeavesAlone(old, new)
    <2> SUFFICES ASSUME NEW b \in Present(old)
                 PROVE  LeavesAlone(old, new)!(b)
      BY DEF LeavesAlone
    <2> b \in Approvals /\ old[b] # NoEntry
      BY DEF Present
    <2>1. CASE b = a
      BY <1>3, <1>4, <1>10, <2>1, NoEntryAssumption DEF Entries
    <2>2. CASE b # a
      BY <1>5, <1>10, <2>2
    <2> QED
      BY <2>1, <2>2
  <1> QED
    BY <1>6, <1>9, <1>11 DEF SafeStep

LEMMA AppliedIsSafe ==
    ASSUME NEW old \in Tables, NEW new, WellGranted(old), Applied(old, new)
    PROVE  SafeStep(old, new)
  <1>1. PICK a \in Approvals, record \in RecordIds :
          HasStatus(old, a, {"approved"}) /\ new = MarkApplied(old, a, record)
    BY DEF Applied
  <1>2. new = [old EXCEPT ![a].status = "applied", ![a].record = record]
    BY <1>1 DEF MarkApplied
  <1>3. a \in Present(old) /\ old[a] \in Entries /\ old[a].status = "approved"
    BY <1>1, PresentEntries DEF Present, HasStatus
  <1>4. /\ new[a] \in Entries
        /\ new[a] = [old[a] EXCEPT !.status = "applied", !.record = record]
    BY <1>2, <1>3 DEF Tables, Entries, Statuses
  <1>5. \A b \in Approvals : b # a => new[b] = old[b]
    BY <1>2 DEF Tables
  <1>6. new \in Tables
    BY <1>2, <1>3, <1>4, <1>5 DEF Tables
  <1>7. Present(new) = Present(old)
    BY <1>3, <1>4, <1>5, NoEntryAssumption DEF Present
  <1>8. /\ \A b \in Present(old) : new[b].capability = old[b].capability
        /\ \A b \in Present(old) : b # a => new[b].status = old[b].status
        /\ new[a].status = "applied"
    BY <1>3, <1>4, <1>5 DEF Present, Entries
  <1>9. WellGranted(new)
    BY <1>3, <1>7, <1>8 DEF WellGranted
  <1>10. \A b \in Present(old) : old[b].attempts \in Nat
    BY PresentEntries DEF Present, Entries
  <1>11. LeavesAlone(old, new)
    <2> SUFFICES ASSUME NEW b \in Present(old)
                 PROVE  LeavesAlone(old, new)!(b)
      BY DEF LeavesAlone
    <2> b \in Approvals /\ old[b] # NoEntry
      BY DEF Present
    <2>1. /\ new[a] \in Entries
          /\ new[a].incident = old[a].incident
          /\ new[a].action = old[a].action
          /\ new[a].expires = old[a].expires
          /\ new[a].attempts = old[a].attempts
          /\ new[a].capability = old[a].capability
      BY <1>3, <1>4 DEF Entries
    <2>2. CASE b = a
      BY <1>3, <1>10, <2>1, <2>2, NoEntryAssumption
    <2>3. CASE b # a
      BY <1>5, <1>10, <2>3
    <2> QED
      BY <2>2, <2>3
  <1> QED
    BY <1>6, <1>9, <1>11 DEF SafeStep

\* Expiring one request, or all of them, is an expiry of those that lapsed.
LEMMA ExpireIsExpired ==
    ASSUME NEW old \in Tables, NEW a \in Approvals, NEW now \in Nat
    PROVE  Expired(old, Expire(old, a, now))
  <1> DEFINE lapsed == IF Lapsed(old, a, now) THEN {a} ELSE {}
  <1>1. lapsed \in SUBSET {b \in Approvals :
                             HasStatus(old, b, {"pending", "approved"})}
    BY DEF Lapsed
  <1>2. Expire(old, a, now) =
          [b \in Approvals |-> IF b \in lapsed
                               THEN [old[b] EXCEPT !.status = "expired"]
                               ELSE old[b]]
    BY DEF Expire, Tables
  <1> QED
    BY <1>1, <1>2 DEF Expired

LEMMA ExpireAllIsExpired ==
    ASSUME NEW old \in Tables, NEW now \in Nat
    PROVE  Expired(old, ExpireAll(old, now))
  <1> DEFINE lapsed == {a \in Approvals : Lapsed(old, a, now)}
  <1>1. lapsed \in SUBSET {b \in Approvals :
                             HasStatus(old, b, {"pending", "approved"})}
    BY DEF Lapsed
  <1>2. \A a \in Approvals :
          Expire(old, a, now)[a] = IF a \in lapsed
                                   THEN [old[a] EXCEPT !.status = "expired"]
                                   ELSE old[a]
    BY DEF Expire, Tables
  <1>3. ExpireAll(old, now) =
          [b \in Approvals |-> IF b \in lapsed
                               THEN [old[b] EXCEPT !.status = "expired"]
                               ELSE old[b]]
    BY <1>2 DEF ExpireAll
  <1> QED
    BY <1>1, <1>3 DEF Expired

LEMMA OtherStepIsSafe ==
    ASSUME NEW old \in Tables, NEW new, WellGranted(old), OtherStep(old, new)
    PROVE  SafeStep(old, new)
  BY RequestedIsSafe, ExpiredIsSafe, AttemptedIsSafe, AppliedIsSafe
     DEF OtherStep

-------------------------------------------------------------------------------
\* Each step keeps the invariant

LEMMA InitSatisfies == Init => IInv
  <1> SUFFICES ASSUME Init PROVE IInv
    OBVIOUS
  <1>1. EmptyTable \in Tables /\ Present(EmptyTable) = {}
    BY DEF EmptyTable, Tables, Present
  <1>2. TypeOK
    BY <1>1 DEF Init, TypeOK
  <1>3. WellGranted(data)
    BY <1>1 DEF Init, WellGranted
  <1> QED
    BY <1>2, <1>3, FreeAssumption
       DEF Init, IInv, LockHeld, StepsMatch, CopyIsData, SaveIsOneStep,
           HandedOutOnce, HandsOut

LEMMA BeginKeeps ==
    ASSUME NEW w \in Workers, IInv, Begin(w)
    PROVE  IInv'
  <1> USE DEF IInv, Begin, Goto
  <1>1. PICK c \in Calls : call' = [call EXCEPT ![w] = c]
    OBVIOUS
  <1>2. TypeOK'
    BY <1>1 DEF TypeOK
  <1>3. LockHeld'
    BY DEF LockHeld, TypeOK
  <1>4. StepsMatch'
    BY <1>1 DEF StepsMatch, TypeOK
  <1>5. CopyIsData'
    BY DEF CopyIsData, TypeOK
  <1>6. WellGranted(data)'
    OBVIOUS
  <1>7. SaveIsOneStep'
    BY DEF SaveIsOneStep, SavesOneStep, TypeOK
  <1>8. HandedOutOnce'
    BY DEF HandedOutOnce, HandsOut, TypeOK
  <1> QED
    BY <1>2, <1>3, <1>4, <1>5, <1>6, <1>7, <1>8

LEMMA PlainIsAnswer ==
    \A outcome \in Outcomes : /\ Plain(outcome) \in Answers
                              /\ Plain(outcome).outcome = outcome
  BY DEF Plain, Answers

LEMMA RefuseBlankApproverKeeps ==
    ASSUME NEW w \in Workers, IInv, RefuseBlankApprover(w)
    PROVE  IInv'
  <1> USE DEF IInv, RefuseBlankApprover, Goto, Answer
  <1> DEFINE r == Plain("approver_identity_required")
  <1>1. r \in Answers /\ r.outcome # "granted"
    BY PlainIsAnswer DEF Outcomes
  <1>0. answer' = [answer EXCEPT ![w] = r]
    OBVIOUS
  <1> HIDE DEF r
  <1>2. TypeOK'
    BY <1>0, <1>1 DEF TypeOK
  <1>3. LockHeld'
    BY DEF LockHeld, TypeOK
  <1>4. StepsMatch'
    BY <1>0, <1>1 DEF StepsMatch, TypeOK
  <1>5. CopyIsData'
    BY DEF CopyIsData, TypeOK
  <1>6. WellGranted(data)'
    OBVIOUS
  <1>7. SaveIsOneStep'
    BY <1>0 DEF SaveIsOneStep, SavesOneStep, TypeOK
  <1>8. HandedOutOnce'
    BY <1>0, <1>1 DEF HandedOutOnce, HandsOut, TypeOK
  <1> QED
    BY <1>2, <1>3, <1>4, <1>5, <1>6, <1>7, <1>8

\* An operation that ends here without a grant, releasing the lock or never
\* having had it.
LEMMA EndKeeps ==
    ASSUME NEW w \in Workers, IInv, NEW r \in Answers,
           r.outcome # "granted", pc[w] \in {"load", "decide", "save"},
           Answer(w, r), Goto(w, "return"), Forget(w),
           lock' = IF lock = w THEN Free ELSE lock,
           UNCHANGED <<data, delivered>>, clock' = clock
    PROVE  IInv'
  <1> USE DEF IInv, Answer, Goto, Forget
  <1>1. EmptyTable \in Tables
    BY DEF EmptyTable, Tables
  <1>2. TypeOK'
    BY <1>1 DEF TypeOK
  <1>3. LockHeld'
    BY FreeAssumption DEF LockHeld, TypeOK
  <1>4. StepsMatch'
    BY DEF StepsMatch, TypeOK
  <1>5. CopyIsData'
    BY DEF CopyIsData, TypeOK
  <1>6. WellGranted(data)'
    OBVIOUS
  <1>7. SaveIsOneStep'
    BY DEF SaveIsOneStep, SavesOneStep, TypeOK
  <1>8. HandedOutOnce'
    BY DEF HandedOutOnce, HandsOut, TypeOK
  <1> QED
    BY <1>2, <1>3, <1>4, <1>5, <1>6, <1>7, <1>8

LEMMA LoadKeeps ==
    ASSUME NEW w \in Workers, IInv, Load(w)
    PROVE  IInv'
  <1> USE DEF IInv, Load, Goto
  <1>1. TypeOK'
    BY DEF TypeOK
  <1>2. LockHeld'
    BY FreeAssumption DEF LockHeld, TypeOK
  <1>3. StepsMatch'
    BY DEF StepsMatch, TypeOK
  <1>4. CopyIsData'
    BY DEF CopyIsData, TypeOK
  <1>5. WellGranted(data)'
    OBVIOUS
  <1>6. SaveIsOneStep'
    BY DEF SaveIsOneStep, SavesOneStep, TypeOK
  <1>7. HandedOutOnce'
    BY DEF HandedOutOnce, HandsOut, TypeOK
  <1> QED
    BY <1>1, <1>2, <1>3, <1>4, <1>5, <1>6, <1>7

\* A worker without the lock file has not got the lock.
LEMMA LockFailsKeeps ==
    ASSUME NEW w \in Workers, IInv, LockFails(w)
    PROVE  IInv'
  <1>1. Plain("error") \in Answers /\ Plain("error").outcome # "granted"
    BY PlainIsAnswer DEF Outcomes
  <1>2. lock' = IF lock = w THEN Free ELSE lock
    BY DEF LockFails, IInv, LockHeld
  <1> QED
    BY <1>1, <1>2, EndKeeps DEF LockFails

\* A decision that saves nothing.
LEMMA LeaveUnchangedKeeps ==
    ASSUME NEW w \in Workers, IInv, NEW r \in Answers,
           r.outcome # "granted", pc[w] = "decide",
           UNCHANGED <<data, clock, delivered>>, LeaveUnchanged(w, r)
    PROVE  IInv'
  <1>1. lock' = IF lock = w THEN Free ELSE lock
    BY DEF LeaveUnchanged, IInv, LockHeld
  <1> QED
    BY <1>1, EndKeeps DEF LeaveUnchanged

LEMMA LoadRaisesKeeps ==
    ASSUME NEW w \in Workers, IInv, LoadRaises(w)
    PROVE  IInv'
  <1>1. Plain("error") \in Answers /\ Plain("error").outcome # "granted"
    BY PlainIsAnswer DEF Outcomes
  <1> QED
    BY <1>1, LeaveUnchangedKeeps DEF LoadRaises

\* A decision that goes on to save a table one step from the file.
LEMMA KeepKeeps ==
    ASSUME NEW w \in Workers, IInv, NEW r \in Answers, NEW table \in Tables,
           IF r.outcome = "granted" THEN Granted(data, table, r)
                                    ELSE OtherStep(data, table),
           pc[w] = "decide", UNCHANGED <<data, clock, delivered>>,
           Keep(w, table, r)
    PROVE  IInv'
  <1> USE DEF IInv, Keep, Answer, Goto
  <1>1. TypeOK'
    BY DEF TypeOK
  <1>2. LockHeld'
    BY DEF LockHeld, TypeOK
  <1>3. StepsMatch'
    BY DEF StepsMatch, TypeOK
  <1>4. CopyIsData'
    BY DEF CopyIsData, TypeOK
  <1>5. WellGranted(data)'
    OBVIOUS
  <1>6. SaveIsOneStep'
    BY DEF SaveIsOneStep, SavesOneStep, TypeOK
  <1>7. HandedOutOnce'
    BY DEF HandedOutOnce, HandsOut, TypeOK
  <1> QED
    BY <1>1, <1>2, <1>3, <1>4, <1>5, <1>6, <1>7

LEMMA KeepIfChangedKeeps ==
    ASSUME NEW w \in Workers, IInv, NEW r \in Answers, NEW table,
           r.outcome # "granted", table = data \/ OtherStep(data, table),
           pc[w] = "decide", UNCHANGED <<data, clock, delivered>>,
           KeepIfChanged(w, table, r)
    PROVE  IInv'
  <1>1. copy[w] = data /\ data \in Tables /\ WellGranted(data)
    BY DEF IInv, CopyIsData, TypeOK
  <1>2. CASE table = data
    BY <1>1, <1>2, LeaveUnchangedKeeps DEF KeepIfChanged
  <1>3. CASE table # data
    <2>1. table \in Tables
      BY <1>1, <1>3, OtherStepIsSafe DEF SafeStep
    <2> QED
      BY <1>1, <1>3, <2>1, KeepKeeps DEF KeepIfChanged
  <1> QED
    BY <1>2, <1>3

\* What every decision starts from.
LEMMA DecisionInputs ==
    ASSUME NEW w \in Workers, IInv, pc[w] = "decide"
    PROVE  /\ copy[w] = data /\ data \in Tables
           /\ at[w] \in Nat
           /\ call[w] \in Calls
           /\ call[w].op = "request" =>
                call[w].incident \in Incidents /\ call[w].action \in Actions
           /\ call[w].op \in {"get", "record_attempt", "approve",
                              "mark_applied"} => call[w].approval \in Approvals
           /\ call[w].op = "mark_applied" => call[w].record \in RecordIds
  <1>1. /\ copy[w] = data /\ data \in Tables
        /\ at[w] \in Nat
        /\ call[w] \in Calls
    BY DEF IInv, CopyIsData, TypeOK, StepsMatch
  <1>2. call[w].op = "request" =>
          call[w].incident \in Incidents /\ call[w].action \in Actions
    BY <1>1 DEF Calls
  <1>3. call[w].op \in {"get", "record_attempt", "approve", "mark_applied"} =>
          call[w].approval \in Approvals
    BY <1>1 DEF Calls
  <1>4. call[w].op = "mark_applied" => call[w].record \in RecordIds
    BY <1>1 DEF Calls
  <1> QED
    BY <1>1, <1>2, <1>3, <1>4

LEMMA DecideRequestKeeps ==
    ASSUME NEW w \in Workers, IInv, DecideRequest(w)
    PROVE  IInv'
  <1>1. pc[w] = "decide" /\ UNCHANGED <<data, clock, delivered>>
        /\ call[w].op = "request"
    BY DEF DecideRequest, Deciding
  <1> DEFINE e == NewEntry(call[w].incident, call[w].action, at[w], TTL)
             r == Plain("ok")
  <1>2. r \in Answers /\ r.outcome # "granted"
    BY PlainIsAnswer DEF Outcomes
  <1>3. /\ copy[w] = data /\ data \in Tables
        /\ e \in Entries /\ e.status = "pending"
        /\ e.capability = NoCapability
    BY <1>1, DecisionInputs, TTLAssumption DEF NewEntry, Entries, Statuses
  <1>4. PICK a \in Approvals \ Present(copy[w]) :
          Keep(w, [copy[w] EXCEPT ![a] = e], r)
    BY DEF DecideRequest
  <1> DEFINE table == [data EXCEPT ![a] = e]
  <1> HIDE DEF e, r
  <1>5. table \in Tables /\ table[a] = e
    BY <1>3 DEF Tables
  <1>6. OtherStep(data, table)
    BY <1>3, <1>4, <1>5 DEF OtherStep, Requested
  <1>7. Keep(w, table, r)
    BY <1>3, <1>4
  <1> HIDE DEF table
  <1> QED
    BY <1>1, <1>2, <1>5, <1>6, <1>7, KeepKeeps

LEMMA DecideGetKeeps ==
    ASSUME NEW w \in Workers, IInv, DecideGet(w)
    PROVE  IInv'
  <1>1. pc[w] = "decide" /\ UNCHANGED <<data, clock, delivered>>
        /\ call[w].op = "get"
    BY DEF DecideGet, Deciding
  <1> DEFINE table == Expire(data, call[w].approval, at[w])
             r == Plain("ok")
  <1>2. r \in Answers /\ r.outcome # "granted"
    BY PlainIsAnswer DEF Outcomes
  <1>3. KeepIfChanged(w, table, r)
    BY <1>1, DecisionInputs DEF DecideGet
  <1>4. OtherStep(data, table)
    BY <1>1, DecisionInputs, ExpireIsExpired DEF OtherStep
  <1> HIDE DEF table, r
  <1> QED
    BY <1>1, <1>2, <1>3, <1>4, KeepIfChangedKeeps

LEMMA DecideAllRequestsKeeps ==
    ASSUME NEW w \in Workers, IInv, DecideAllRequests(w)
    PROVE  IInv'
  <1>1. pc[w] = "decide" /\ UNCHANGED <<data, clock, delivered>>
    BY DEF DecideAllRequests, Deciding
  <1> DEFINE table == ExpireAll(data, at[w])
             r == Plain("ok")
  <1>2. r \in Answers /\ r.outcome # "granted"
    BY PlainIsAnswer DEF Outcomes
  <1>3. KeepIfChanged(w, table, r)
    BY <1>1, DecisionInputs DEF DecideAllRequests
  <1>4. OtherStep(data, table)
    BY <1>1, DecisionInputs, ExpireAllIsExpired DEF OtherStep
  <1> HIDE DEF table, r
  <1> QED
    BY <1>1, <1>2, <1>3, <1>4, KeepIfChangedKeeps

LEMMA DecideApproveKeeps ==
    ASSUME NEW w \in Workers, IInv, DecideApprove(w)
    PROVE  IInv'
  <1> DEFINE a == call[w].approval
  <1>1. pc[w] = "decide" /\ UNCHANGED <<data, clock, delivered>>
        /\ call[w].op = "approve"
    BY DEF DecideApprove, Deciding
  <1>2. copy[w] = data /\ data \in Tables /\ a \in Approvals
    BY <1>1, DecisionInputs
  <1>3. HasStatus(data, a, {"pending"})
    BY <1>2 DEF DecideApprove, Grantable
  <1>4. PICK c \in FreshCapabilities(w) :
          Keep(w, Grant(copy[w], a, c),
               [outcome |-> "granted", approval |-> a, capability |-> c])
    BY DEF DecideApprove
  <1> DEFINE r == [outcome |-> "granted", approval |-> a, capability |-> c]
             table == Grant(data, a, c)
  <1>5. /\ c \in Capabilities
        /\ \A b \in Present(data) : data[b].capability # c
    BY <1>2 DEF FreshCapabilities
  <1>6. r \in Answers /\ r.outcome = "granted"
    BY <1>2, <1>5 DEF Answers, Outcomes
  <1>7. r.approval = a /\ r.capability = c
    OBVIOUS
  <1>8. Granted(data, table, r)
    BY <1>2, <1>3, <1>5, <1>7 DEF Granted
  <1>9. table \in Tables
    BY <1>2, <1>8, GrantedIsSafe DEF SafeStep, IInv
  <1>10. Keep(w, table, r)
    BY <1>2, <1>4
  <1> HIDE DEF r, table
  <1> QED
    BY <1>1, <1>6, <1>8, <1>9, <1>10, KeepKeeps

LEMMA DecideApproveRefusedKeeps ==
    ASSUME NEW w \in Workers, IInv, DecideApproveRefused(w)
    PROVE  IInv'
  <1> DEFINE a == call[w].approval
             table == Expire(data, a, at[w])
             r == Plain(ApproveRefusal(data, a, at[w]))
  <1>1. pc[w] = "decide" /\ UNCHANGED <<data, clock, delivered>>
        /\ call[w].op = "approve"
    BY DEF DecideApproveRefused, Deciding
  <1>2. KeepIfChanged(w, table, r)
    BY <1>1, DecisionInputs DEF DecideApproveRefused
  <1>3. /\ ApproveRefusal(data, a, at[w]) \in Outcomes
        /\ ApproveRefusal(data, a, at[w]) # "granted"
    BY DEF ApproveRefusal, Outcomes
  <1>4. r \in Answers /\ r.outcome # "granted"
    BY <1>3, PlainIsAnswer
  <1>5. OtherStep(data, table)
    BY <1>1, DecisionInputs, ExpireIsExpired DEF OtherStep
  <1> HIDE DEF table, r
  <1> QED
    BY <1>1, <1>2, <1>4, <1>5, KeepIfChangedKeeps

LEMMA DecideValidateUnknownKeeps ==
    ASSUME NEW w \in Workers, IInv, DecideValidateUnknown(w)
    PROVE  IInv'
  <1> DEFINE r == Plain("unknown_approval_capability")
  <1>1. r \in Answers /\ r.outcome # "granted"
    BY PlainIsAnswer DEF Outcomes
  <1>2. LeaveUnchanged(w, r)
    BY DEF DecideValidateUnknown
  <1>3. pc[w] = "decide" /\ UNCHANGED <<data, clock, delivered>>
    BY DEF DecideValidateUnknown, Deciding
  <1> HIDE DEF r
  <1> QED
    BY <1>1, <1>2, <1>3, LeaveUnchangedKeeps

LEMMA ValidationOutcomes ==
    ASSUME NEW table, NEW a, NEW incident, NEW action, NEW now
    PROVE  /\ Validation(table, a, incident, action, now) \in Outcomes
           /\ Validation(table, a, incident, action, now) # "granted"
  BY DEF Validation, Outcomes

LEMMA DecideValidateKeeps ==
    ASSUME NEW w \in Workers, IInv, DecideValidate(w)
    PROVE  IInv'
  <1>1. pc[w] = "decide" /\ UNCHANGED <<data, clock, delivered>>
    BY DEF DecideValidate, Deciding
  <1>2. PICK a \in HoldersOf(copy[w], call[w].capability) :
          KeepIfChanged(w, Expire(copy[w], a, at[w]),
            [outcome |-> Validation(copy[w], a, call[w].incident,
                                    call[w].action, at[w]),
             approval |-> a, capability |-> NoCapability])
    BY DEF DecideValidate
  <1> DEFINE outcome == Validation(data, a, call[w].incident,
                                   call[w].action, at[w])
             table == Expire(data, a, at[w])
             r == [outcome |-> outcome, approval |-> a,
                   capability |-> NoCapability]
  <1>3. KeepIfChanged(w, table, r)
    BY <1>1, <1>2, DecisionInputs
  <1>4. a \in Approvals
    BY DEF HoldersOf, Present
  <1>5. outcome \in Outcomes /\ outcome # "granted"
    BY ValidationOutcomes
  <1> HIDE DEF outcome
  <1>6. r \in Answers /\ r.outcome # "granted"
    BY <1>4, <1>5 DEF Answers
  <1>7. OtherStep(data, table)
    BY <1>1, <1>4, DecisionInputs, ExpireIsExpired DEF OtherStep
  <1> HIDE DEF table, r
  <1> QED
    BY <1>1, <1>3, <1>6, <1>7, KeepIfChangedKeeps

LEMMA DecideRecordAttemptKeeps ==
    ASSUME NEW w \in Workers, IInv, DecideRecordAttempt(w)
    PROVE  IInv'
  <1> DEFINE table == RecordAttempt(data, call[w].approval)
             r == Plain("ok")
  <1>1. pc[w] = "decide" /\ UNCHANGED <<data, clock, delivered>>
    BY DEF DecideRecordAttempt, Deciding
  <1>2. r \in Answers /\ r.outcome # "granted"
    BY PlainIsAnswer DEF Outcomes
  <1>3. KeepIfChanged(w, table, r)
    BY <1>1, DecisionInputs DEF DecideRecordAttempt
  <1>4. table = data \/ OtherStep(data, table)
    BY DEF OtherStep, Attempted, RecordAttempt
  <1> HIDE DEF table, r
  <1> QED
    BY <1>1, <1>2, <1>3, <1>4, KeepIfChangedKeeps

LEMMA DecideMarkAppliedKeeps ==
    ASSUME NEW w \in Workers, IInv, DecideMarkApplied(w)
    PROVE  IInv'
  <1> DEFINE table == MarkApplied(data, call[w].approval, call[w].record)
             r == Plain("ok")
  <1>1. pc[w] = "decide" /\ UNCHANGED <<data, clock, delivered>>
        /\ call[w].op = "mark_applied"
    BY DEF DecideMarkApplied, Deciding
  <1>2. r \in Answers /\ r.outcome # "granted"
    BY PlainIsAnswer DEF Outcomes
  <1>3. KeepIfChanged(w, table, r)
    BY <1>1, DecisionInputs DEF DecideMarkApplied
  <1>4. table = data \/ OtherStep(data, table)
    <2>1. CASE HasStatus(data, call[w].approval, {"approved"})
      BY <1>1, <2>1, DecisionInputs DEF OtherStep, Applied
    <2>2. CASE ~HasStatus(data, call[w].approval, {"approved"})
      BY <2>2 DEF MarkApplied
    <2> QED
      BY <2>1, <2>2
  <1> HIDE DEF table, r
  <1> QED
    BY <1>1, <1>2, <1>3, <1>4, KeepIfChangedKeeps

LEMMA DecideKeeps ==
    ASSUME NEW w \in Workers, IInv, Decide(w)
    PROVE  IInv'
  BY DecideRequestKeeps, DecideGetKeeps, DecideAllRequestsKeeps,
     DecideApproveKeeps, DecideApproveRefusedKeeps, DecideValidateKeeps,
     DecideValidateUnknownKeeps, DecideRecordAttemptKeeps,
     DecideMarkAppliedKeeps
     DEF Decide

\* A save replaces the file by the saver's table, one step further.
LEMMA SaveStepIsSafe ==
    ASSUME NEW w \in Workers, IInv, pc[w] = "save"
    PROVE  SafeStep(data, copy[w])
  BY GrantedIsSafe, OtherStepIsSafe
     DEF IInv, SaveIsOneStep, SavesOneStep, TypeOK

LEMMA SaveKeeps ==
    ASSUME NEW w \in Workers, IInv, Save(w)
    PROVE  IInv'
  <1>0. pc[w] = "save" /\ lock = w /\ answer[w] \in Answers
    BY DEF Save, IInv, LockHeld, StepsMatch
  <1>1. CASE data' = copy[w] /\ UNCHANGED answer
    <2> USE <1>0, <1>1 DEF IInv, Save, Goto, Forget
    <2>0. SafeStep(data, data')
      BY SaveStepIsSafe
    <2>1. TypeOK'
      <3>1. EmptyTable \in Tables
        BY DEF EmptyTable, Tables
      <3> QED
        BY <2>0, <3>1 DEF TypeOK, SafeStep
    <2>2. LockHeld'
      BY FreeAssumption DEF LockHeld, TypeOK
    <2>3. StepsMatch'
      BY DEF StepsMatch, TypeOK
    <2>4. CopyIsData'
      BY DEF CopyIsData, LockHeld, TypeOK
    <2>5. WellGranted(data)'
      BY <2>0 DEF SafeStep
    <2>6. SaveIsOneStep'
      BY DEF SaveIsOneStep, LockHeld, TypeOK
    <2>7. HandedOutOnce'
      <3>1. \A a \in Present(data) :
              /\ a \in Present(data')
              /\ data[a].capability # NoCapability =>
                   data'[a].capability = data[a].capability
        BY <2>0 DEF SafeStep, LeavesAlone, Present
      <3>2. \A d \in delivered : d[1] \in Present(data)
                                 /\ data[d[1]].capability # NoCapability
        BY NoCapabilityAssumption DEF HandedOutOnce, TypeOK, Present
      <3>3. \A d \in delivered : data'[d[1]] # NoEntry
                                 /\ data'[d[1]].capability = d[2]
        BY <3>1, <3>2 DEF HandedOutOnce, Present
      <3>4. \A v \in Workers, a \in Approvals \cup {NoEntry} :
              v # w /\ HandsOut(v, a)' =>
                /\ HandsOut(v, a)
                /\ data[a].capability # NoCapability
                /\ a \in Present(data')
                /\ data'[a].capability = answer[v].capability
        BY <3>1, NoCapabilityAssumption DEF HandedOutOnce, HandsOut, TypeOK
      <3>5. \A a \in Approvals \cup {NoEntry} : HandsOut(w, a)' =>
              /\ a \in Present(data')
              /\ data[a].capability = NoCapability
              /\ answer[w].capability \in Capabilities
              /\ data'[a].capability = answer[w].capability
        <4> SUFFICES ASSUME NEW a \in Approvals \cup {NoEntry},
                            HandsOut(w, a)'
                     PROVE  /\ a \in Present(data')
                            /\ data[a].capability = NoCapability
                            /\ answer[w].capability \in Capabilities
                            /\ data'[a].capability = answer[w].capability
          OBVIOUS
        <4>1. answer[w].outcome = "granted" /\ answer[w].approval = a
          BY DEF HandsOut
        <4>2. Granted(data, data', answer[w])
          BY <4>1 DEF SaveIsOneStep, SavesOneStep
        <4>3. a \in Present(data) /\ data[a].status = "pending"
          BY <4>1, <4>2 DEF Granted, HasStatus, Present
        <4>4. data[a].capability = NoCapability
          BY <4>3 DEF WellGranted
        <4>5. data'[a].capability = answer[w].capability
          BY <4>1, <4>2, <4>3, PresentEntries
             DEF Granted, Grant, TypeOK, Tables, Entries, Present
        <4> QED
          BY <3>1, <4>2, <4>3, <4>4, <4>5 DEF Granted
      <3>6. \A v \in Workers : answer'[v] = answer[v]
        OBVIOUS
      <3> QED
        BY <3>2, <3>3, <3>4, <3>5, <3>6 DEF HandedOutOnce
    <2> QED
      BY <2>1, <2>2, <2>3, <2>4, <2>5, <2>6, <2>7
  <1>2. CASE Answer(w, Plain("error")) /\ UNCHANGED data
    <2>1. Plain("error") \in Answers /\ Plain("error").outcome # "granted"
      BY PlainIsAnswer DEF Outcomes
    <2>2. lock' = IF lock = w THEN Free ELSE lock
      BY <1>0 DEF Save
    <2> QED
      BY <1>0, <1>2, <2>1, <2>2, EndKeeps DEF Save
  <1> QED
    BY <1>1, <1>2 DEF Save

LEMMA ReturnKeeps ==
    ASSUME NEW w \in Workers, IInv, Return(w)
    PROVE  IInv'
  <1> USE DEF IInv, Return, Goto, Answer
  <1>1. answer[w] \in Answers /\ pc[w] = "return"
    BY DEF StepsMatch
  <1> DEFINE handed == <<answer[w].approval, answer[w].capability>>
  <1>2. answer[w].outcome = "granted" =>
          /\ delivered' = delivered \cup {handed}
          /\ handed[1] \in Present(data) /\ handed[2] \in Capabilities
          /\ data[handed[1]].capability = handed[2]
          /\ HandsOut(w, handed[1])
    BY <1>1 DEF HandedOutOnce, HandsOut, Answers
  <1>3. TypeOK'
    BY <1>2 DEF TypeOK, Present
  <1>4. LockHeld'
    BY DEF LockHeld, TypeOK
  <1>5. StepsMatch'
    BY DEF StepsMatch, TypeOK
  <1>6. CopyIsData'
    BY DEF CopyIsData, TypeOK
  <1>7. WellGranted(data)'
    OBVIOUS
  <1>8. SaveIsOneStep'
    BY DEF SaveIsOneStep, SavesOneStep, TypeOK
  <1>9. HandedOutOnce'
    <2>1. \A d \in delivered' : data'[d[1]] # NoEntry
                                /\ data'[d[1]].capability = d[2]
      BY <1>2 DEF HandedOutOnce, Present
    <2>2. \A v \in Workers, a \in Approvals \cup {NoEntry} :
            HandsOut(v, a)' => /\ HandsOut(v, a) /\ v # w
                               /\ answer'[v] = answer[v]
      BY DEF HandsOut, TypeOK
    <2>3. \A v \in Workers, a \in Approvals \cup {NoEntry} :
            HandsOut(v, a)' => \A d \in delivered' : d[1] # a
      <3> SUFFICES ASSUME NEW v \in Workers, NEW a \in Approvals \cup {NoEntry},
                          HandsOut(v, a)', NEW d \in delivered'
                   PROVE  d[1] # a
        OBVIOUS
      <3>1. HandsOut(v, a) /\ v # w
        BY <2>2
      <3>2. CASE d \in delivered
        BY <3>1, <3>2 DEF HandedOutOnce
      <3>3. CASE d \notin delivered
        <4>1. answer[w].outcome = "granted" /\ d = handed
          BY <3>3
        <4>2. HandsOut(w, d[1]) /\ d[1] \in Approvals
          BY <1>2, <4>1 DEF Present
        <4> QED
          BY <3>1, <4>2 DEF HandedOutOnce
      <3> QED
        BY <3>2, <3>3
    <2> QED
      BY <2>1, <2>2, <2>3 DEF HandedOutOnce
  <1> QED
    BY <1>3, <1>4, <1>5, <1>6, <1>7, <1>8, <1>9

LEMMA CrashKeeps ==
    ASSUME NEW w \in Workers, IInv, Crash(w)
    PROVE  IInv'
  <1> USE DEF IInv, Crash, Goto, Answer, Forget
  <1>1. TypeOK'
    <2>1. EmptyTable \in Tables
      BY DEF EmptyTable, Tables
    <2> QED
      BY <2>1 DEF TypeOK
  <1>2. LockHeld'
    BY FreeAssumption DEF LockHeld, TypeOK
  <1>3. StepsMatch'
    BY DEF StepsMatch, TypeOK
  <1>4. CopyIsData'
    BY DEF CopyIsData, TypeOK
  <1>5. WellGranted(data)'
    OBVIOUS
  <1>6. SaveIsOneStep'
    BY DEF SaveIsOneStep, SavesOneStep, TypeOK
  <1>7. HandedOutOnce'
    BY DEF HandedOutOnce, HandsOut, TypeOK
  <1> QED
    BY <1>1, <1>2, <1>3, <1>4, <1>5, <1>6, <1>7

\* Time passing and stuttering change nothing the invariant looks at but the
\* clock.
LEMMA TickKeeps ==
    ASSUME IInv, Tick \/ UNCHANGED vars
    PROVE  IInv'
  <1>1. /\ UNCHANGED <<data, lock, pc, call, at, copy, answer, delivered>>
        /\ clock' \in Nat
    BY DEF Tick, vars, IInv, TypeOK
  <1>2. TypeOK'
    BY <1>1 DEF IInv, TypeOK
  <1>3. SaveIsOneStep'
    BY <1>1 DEF IInv, SaveIsOneStep, SavesOneStep
  <1>4. HandedOutOnce'
    BY <1>1 DEF IInv, HandedOutOnce, HandsOut
  <1> QED
    BY <1>1, <1>2, <1>3, <1>4
       DEF IInv, LockHeld, StepsMatch, CopyIsData

LEMMA StepKeeps == IInv /\ [Next]_vars => IInv'
  <1> SUFFICES ASSUME IInv, [Next]_vars PROVE IInv'
    OBVIOUS
  <1>1. ASSUME NEW w \in Workers,
               \/ Begin(w) \/ RefuseBlankApprover(w) \/ Work(w)
               \/ LockFails(w) \/ LoadRaises(w) \/ Crash(w)
        PROVE  IInv'
    BY <1>1, BeginKeeps, RefuseBlankApproverKeeps, LoadKeeps, DecideKeeps,
       SaveKeeps, ReturnKeeps, LockFailsKeeps, LoadRaisesKeeps, CrashKeeps
       DEF Work
  <1> QED
    BY <1>1, TickKeeps DEF Next

\* The invariant holds in every reachable state.
THEOREM Invariant == Spec => []IInv
  BY InitSatisfies, StepKeeps, PTL DEF Spec

-------------------------------------------------------------------------------
\* What holds of every behaviour

\* The variables stay in their types.
THEOREM TypesCorrect == Spec => []TypeOK
  BY Invariant, PTL DEF IInv

\* OneGrant: at most one capability of a request reaches an operator, the one
\* the file holds.
THEOREM OneCapabilityPerRequest == Spec => []OneGrant
  <1>1. IInv => OneGrant
    BY DEF IInv, OneGrant, HandedOutOnce, WellGranted
  <1> QED
    BY <1>1, Invariant, PTL

\* Only a save changes the file, and by one safe step.
LEMMA FileMovesSafely ==
    ASSUME IInv, [Next]_vars
    PROVE  data' = data \/ SafeStep(data, data')
  <1>1. ASSUME NEW w \in Workers, Save(w)
        PROVE  data' = data \/ SafeStep(data, data')
    BY <1>1, SaveStepIsSafe DEF Save
  <1>2. ASSUME NEW w \in Workers, Decide(w)
        PROVE  data' = data
    BY <1>2
       DEF Decide, DecideRequest, DecideGet, DecideAllRequests, DecideApprove,
           DecideApproveRefused, DecideValidate, DecideValidateUnknown,
           DecideRecordAttempt, DecideMarkApplied, Deciding
  <1>3. ASSUME NEW w \in Workers,
               \/ Begin(w) \/ RefuseBlankApprover(w) \/ Load(w) \/ Return(w)
               \/ LockFails(w) \/ LoadRaises(w) \/ Crash(w)
        PROVE  data' = data
    BY <1>3
       DEF Begin, RefuseBlankApprover, Load, Return, LockFails, LoadRaises,
           Crash
  <1>4. Tick \/ UNCHANGED vars => data' = data
    BY DEF Tick, vars
  <1> QED
    BY <1>1, <1>2, <1>3, <1>4 DEF Next, Work

\* TerminalStays: an applied or expired request is left alone by every
\* operation, and no request disappears or changes what it is bound to.
THEOREM TerminalRequestsStay == Spec => TerminalStays
  <1>1. ASSUME IInv, [Next]_vars PROVE TerminalStaysStep
    <2>1. CASE data' = data
      <3>1. \A a \in Present(data) : data[a] # NoEntry /\ data[a] \in Entries
        BY <1>1, PresentEntries DEF IInv, TypeOK, Present
      <3>2. \A a \in Present(data) : data[a].attempts \in Nat
        BY <3>1 DEF Entries
      <3> QED
        BY <2>1, <3>1, <3>2 DEF TerminalStaysStep
    <2>2. CASE SafeStep(data, data')
      BY <2>2 DEF SafeStep, LeavesAlone, TerminalStaysStep
    <2> QED
      BY <1>1, <2>1, <2>2, FileMovesSafely
  <1> QED
    BY <1>1, Invariant, PTL DEF Spec, TerminalStays

\* A decision that answers "accepted" is a validation of a request that is
\* approved, alive and bound as asked in the table it read.
LEMMA OnlyValidationAccepts ==
    ASSUME NEW w \in Workers, IInv, Decide(w), pc'[w] = "return",
           answer'[w].outcome = "accepted"
    PROVE  DecideValidate(w)
  <1> USE DEF IInv, TypeOK
  <1>1. pc[w] = "decide"
    BY DEF Decide, DecideRequest, DecideGet, DecideAllRequests, DecideApprove,
           DecideApproveRefused, DecideValidate, DecideValidateUnknown,
           DecideRecordAttempt, DecideMarkApplied, Deciding
  <1>2. ASSUME NEW table, NEW r, Keep(w, table, r) PROVE FALSE
    BY <1>2 DEF Keep, Goto
  <1>3. ASSUME NEW table, NEW r, KeepIfChanged(w, table, r)
        PROVE  answer'[w] = r
    BY <1>2, <1>3 DEF KeepIfChanged, LeaveUnchanged, Answer
  <1>4. ~DecideRequest(w) /\ ~DecideApprove(w)
    BY <1>2 DEF DecideRequest, DecideApprove
  <1>5. ~DecideGet(w) /\ ~DecideAllRequests(w) /\ ~DecideRecordAttempt(w)
        /\ ~DecideMarkApplied(w)
    BY <1>3 DEF DecideGet, DecideAllRequests, DecideRecordAttempt,
                DecideMarkApplied, Plain
  <1>6. ~DecideApproveRefused(w)
    BY <1>3 DEF DecideApproveRefused, ApproveRefusal, Plain
  <1>7. ~DecideValidateUnknown(w)
    BY DEF DecideValidateUnknown, LeaveUnchanged, Answer, Plain
  <1> QED
    BY <1>4, <1>5, <1>6, <1>7 DEF Decide

LEMMA AcceptanceMeans ==
    ASSUME NEW table \in Tables, NEW a \in Present(table), NEW incident,
           NEW action, NEW now \in Nat,
           Validation(table, a, incident, action, now) = "accepted"
    PROVE  /\ HasStatus(table, a, {"approved"})
           /\ table[a].incident = incident
           /\ table[a].action = action
           /\ now < table[a].expires
           /\ ~PairAppliedElsewhere(table, a, incident, action)
  <1>1. table[a] \in Entries /\ table[a] # NoEntry
    BY PresentEntries DEF Present
  <1>2. /\ ~Lapsed(table, a, now)
        /\ table[a].status = "approved"
        /\ table[a].incident = incident
        /\ table[a].action = action
        /\ ~PairAppliedElsewhere(table, a, incident, action)
    BY DEF Validation
  <1>3. HasStatus(table, a, {"approved"})
    BY <1>1, <1>2 DEF HasStatus
  <1>4. table[a].expires \in Nat
    BY <1>1 DEF Entries
  <1>5. ~(now >= table[a].expires)
    BY <1>2, <1>1 DEF Lapsed, HasStatus
  <1> QED
    BY <1>2, <1>3, <1>4, <1>5

\* AcceptedIsCurrent: a validation accepts only what is approved in the file at
\* that very step, bound to the pair asked for, not applied by another request.
THEOREM AcceptanceIsCurrent == Spec => AcceptedIsCurrent
  <1>1. ASSUME IInv, [Next]_vars PROVE AcceptedIsCurrentStep
    <2> SUFFICES ASSUME NEW w \in Workers,
                        pc[w] = "decide", pc'[w] = "return",
                        answer'[w].outcome = "accepted"
                 PROVE  LET a == answer'[w].approval IN
                        /\ HasStatus(data, a, {"approved"})
                        /\ data[a].capability = call[w].capability
                        /\ data[a].incident = call[w].incident
                        /\ data[a].action = call[w].action
                        /\ at[w] < data[a].expires
                        /\ ~PairAppliedElsewhere(data, a, call[w].incident,
                                                 call[w].action)
      BY DEF AcceptedIsCurrentStep
    <2> USE <1>1
    <2>1. PICK v \in Workers :
            \/ Begin(v) \/ RefuseBlankApprover(v) \/ Work(v)
            \/ LockFails(v) \/ LoadRaises(v) \/ Crash(v)
      BY DEF Next, Tick, vars
    <2>2. Decide(v) \/ v = w
      BY <2>1
         DEF IInv, TypeOK, Work, Begin, RefuseBlankApprover, Load, Save, Return,
             LockFails, LoadRaises, LeaveUnchanged, Crash, Goto
    <2>10. ~LoadRaises(w)
      BY DEF LoadRaises, LeaveUnchanged, Answer, Plain, IInv, TypeOK
    <2>3. ASSUME v # w, Decide(v) PROVE FALSE
      <3>1. pc[v] = "decide"
        BY <2>3
           DEF Decide, DecideRequest, DecideGet, DecideAllRequests,
               DecideApprove, DecideApproveRefused, DecideValidate,
               DecideValidateUnknown, DecideRecordAttempt, DecideMarkApplied,
               Deciding
      <3> QED
        BY <2>3, <3>1 DEF IInv, LockHeld
    <2>4. v = w /\ Decide(w)
      BY <2>1, <2>2, <2>3, <2>10
         DEF IInv, TypeOK, Work, Begin, RefuseBlankApprover, Load, Save, Return,
             LockFails, Crash, Goto
    <2>5. DecideValidate(w)
      BY <2>4, OnlyValidationAccepts
    <2>6. PICK a \in HoldersOf(copy[w], call[w].capability) :
            KeepIfChanged(w, Expire(copy[w], a, at[w]),
              [outcome |-> Validation(copy[w], a, call[w].incident,
                                      call[w].action, at[w]),
               approval |-> a, capability |-> NoCapability])
      BY <2>5 DEF DecideValidate
    <2>7. copy[w] = data /\ data \in Tables /\ at[w] \in Nat
      BY DecisionInputs
    <2>8. answer'[w] = [outcome |-> Validation(data, a, call[w].incident,
                                               call[w].action, at[w]),
                        approval |-> a, capability |-> NoCapability]
      BY <2>6, <2>7
         DEF KeepIfChanged, Keep, LeaveUnchanged, Answer, IInv, TypeOK
    <2>9. a \in Present(data) /\ data[a].capability = call[w].capability
      BY <2>7 DEF HoldersOf
    <2> QED
      BY <2>7, <2>8, <2>9, AcceptanceMeans
  <1> QED
    BY <1>1, Invariant, PTL DEF Spec, AcceptedIsCurrent

-------------------------------------------------------------------------------
\* The store implements the lifecycle

\* The lifecycle's view of a table.
StatusOf(table) ==
    [a \in Approvals |-> IF table[a] = NoEntry THEN "none" ELSE table[a].status]
GrantOf(table) ==
    [a \in Approvals |-> IF table[a] = NoEntry THEN NoCapability
                                               ELSE table[a].capability]
HandedIn(pairs) == {d[1] : d \in pairs}

LEMMA RefinesInit == Init => Lifecycle!Init
  BY DEF Init, EmptyTable, Lifecycle!Init

\* Each kind of save is one step of the lifecycle.
LEMMA RequestedRefines ==
    ASSUME data \in Tables, Requested(data, data'), UNCHANGED delivered
    PROVE  Lifecycle!Next
  <1>1. PICK a \in Approvals \ Present(data) :
          /\ data'[a] \in Entries
          /\ data'[a].status = "pending" /\ data'[a].capability = NoCapability
          /\ data' = [data EXCEPT ![a] = data'[a]]
    BY DEF Requested
  <1>2. data[a] = NoEntry /\ data'[a] # NoEntry
        /\ \A b \in Approvals : b # a => data'[b] = data[b]
    BY <1>1, NoEntryAssumption DEF Present, Tables
  <1>3. StatusOf(data)[a] = "none"
        /\ StatusOf(data)' = [StatusOf(data) EXCEPT ![a] = "pending"]
    BY <1>1, <1>2 DEF StatusOf
  <1>4. GrantOf(data)' = GrantOf(data)
    BY <1>1, <1>2 DEF GrantOf
  <1> QED
    BY <1>3, <1>4
       DEF Lifecycle!Next, Lifecycle!Request, Lifecycle!Move, StatusOf, GrantOf

LEMMA ExpiredRefines ==
    ASSUME data \in Tables, Expired(data, data'), UNCHANGED delivered
    PROVE  Lifecycle!Next
  <1>1. PICK lapsed \in SUBSET {a \in Approvals :
                                  HasStatus(data, a, {"pending", "approved"})} :
          data' = [a \in Approvals |-> IF a \in lapsed
                                       THEN [data[a] EXCEPT !.status = "expired"]
                                       ELSE data[a]]
    BY DEF Expired
  <1>2. \A a \in lapsed : data[a] # NoEntry /\ data[a] \in Entries
                          /\ data[a].status \in {"pending", "approved"}
    BY DEF HasStatus, Tables
  <1>3. \A a \in lapsed : /\ data'[a] \in Entries
                          /\ data'[a].status = "expired"
                          /\ data'[a].capability = data[a].capability
    BY <1>1, <1>2 DEF Entries, Statuses
  <1>4. \A a \in lapsed : data'[a] # NoEntry
    BY <1>3, NoEntryAssumption
  <1>5. \A a \in Approvals \ lapsed : data'[a] = data[a]
    BY <1>1
  <1>6. lapsed \in SUBSET {a \in Approvals :
                             StatusOf(data)[a] \in {"pending", "approved"}}
    BY <1>2 DEF StatusOf
  <1>7. StatusOf(data)' = [a \in Approvals |-> IF a \in lapsed THEN "expired"
                                               ELSE StatusOf(data)[a]]
    BY <1>3, <1>4, <1>5 DEF StatusOf
  <1>8. GrantOf(data)' = GrantOf(data)
    BY <1>2, <1>3, <1>4, <1>5 DEF GrantOf
  <1>9. Lifecycle!Expire
    BY <1>6, <1>7, <1>8 DEF Lifecycle!Expire, StatusOf, GrantOf
  <1> QED
    BY <1>9 DEF Lifecycle!Next

LEMMA GrantedRefines ==
    ASSUME data \in Tables, NEW r, Granted(data, data', r), UNCHANGED delivered,
           WellGranted(data)
    PROVE  Lifecycle!Next
  <1> DEFINE a == r.approval
             c == r.capability
  <1>1. /\ a \in Approvals
        /\ data[a] # NoEntry /\ data[a] \in Entries
        /\ data[a].status = "pending"
    BY DEF Granted, HasStatus, Tables
  <1>2. /\ data'[a] \in Entries
        /\ data'[a].status = "approved"
        /\ data'[a].capability = c
        /\ c \in Capabilities
    BY <1>1 DEF Granted, Grant, Tables, Entries, Statuses
  <1>3. \A b \in Approvals : b # a => data'[b] = data[b]
    BY <1>1 DEF Granted, Grant, Tables
  <1>4. data'[a] # NoEntry
    BY <1>2, NoEntryAssumption
  <1>5. c \in Capabilities \ {GrantOf(data)[b] : b \in Approvals}
    BY <1>2, NoCapabilityAssumption DEF Granted, GrantOf, Present
  <1>6. StatusOf(data)[a] = "pending"
        /\ StatusOf(data)' = [StatusOf(data) EXCEPT ![a] = "approved"]
    BY <1>1, <1>2, <1>3, <1>4 DEF StatusOf
  <1>7. GrantOf(data)' = [GrantOf(data) EXCEPT ![a] = c]
    BY <1>1, <1>2, <1>3, <1>4 DEF GrantOf
  <1>8. Lifecycle!Approve(a)
    BY <1>5, <1>6, <1>7
       DEF Lifecycle!Approve, Lifecycle!Move, StatusOf, GrantOf
  <1> QED
    BY <1>1, <1>8 DEF Lifecycle!Next

LEMMA AttemptedRefines ==
    ASSUME data \in Tables, Attempted(data, data'), UNCHANGED delivered
    PROVE  UNCHANGED Lifecycle!vars
  <1>1. PICK a \in Present(data) : data' = RecordAttempt(data, a)
    BY DEF Attempted
  <1>2. data' = [data EXCEPT ![a].attempts = @ + 1]
    BY <1>1 DEF RecordAttempt
  <1>3. a \in Approvals /\ data[a] # NoEntry /\ data[a] \in Entries
    BY DEF Present, Tables
  <1>4. /\ data'[a] \in Entries
        /\ data'[a].status = data[a].status
        /\ data'[a].capability = data[a].capability
    BY <1>2, <1>3 DEF Tables, Entries
  <1>5. data'[a] # NoEntry
    BY <1>4, NoEntryAssumption
  <1>6. \A b \in Approvals : b # a => data'[b] = data[b]
    BY <1>2 DEF Tables
  <1>7. StatusOf(data)' = StatusOf(data)
    BY <1>3, <1>4, <1>5, <1>6 DEF StatusOf
  <1>8. GrantOf(data)' = GrantOf(data)
    BY <1>3, <1>4, <1>5, <1>6 DEF GrantOf
  <1> QED
    BY <1>7, <1>8 DEF Lifecycle!vars, StatusOf, GrantOf

LEMMA AppliedRefines ==
    ASSUME data \in Tables, Applied(data, data'), UNCHANGED delivered
    PROVE  Lifecycle!Next
  <1>1. PICK a \in Approvals, record \in RecordIds :
          HasStatus(data, a, {"approved"}) /\ data' = MarkApplied(data, a, record)
    BY DEF Applied
  <1>2. data' = [data EXCEPT ![a].status = "applied", ![a].record = record]
    BY <1>1 DEF MarkApplied
  <1>3. data[a] # NoEntry /\ data[a] \in Entries /\ data[a].status = "approved"
    BY <1>1 DEF Tables, HasStatus
  <1>4. /\ data'[a] \in Entries
        /\ data'[a].status = "applied"
        /\ data'[a].capability = data[a].capability
    BY <1>2, <1>3 DEF Tables, Entries, Statuses
  <1>5. data'[a] # NoEntry
    BY <1>4, NoEntryAssumption
  <1>6. \A b \in Approvals : b # a => data'[b] = data[b]
    BY <1>2 DEF Tables
  <1>7. StatusOf(data)[a] = "approved"
        /\ StatusOf(data)' = [StatusOf(data) EXCEPT ![a] = "applied"]
    BY <1>3, <1>4, <1>5, <1>6 DEF StatusOf
  <1>8. GrantOf(data)' = GrantOf(data)
    BY <1>3, <1>4, <1>5, <1>6 DEF GrantOf
  <1>9. Lifecycle!Apply(a)
    BY <1>7, <1>8 DEF Lifecycle!Apply, Lifecycle!Move, StatusOf, GrantOf
  <1> QED
    BY <1>9 DEF Lifecycle!Next

LEMMA SaveRefines ==
    ASSUME NEW w \in Workers, IInv, Save(w)
    PROVE  Lifecycle!Next \/ UNCHANGED Lifecycle!vars
  <1>1. SavesOneStep(w) /\ data \in Tables /\ WellGranted(data)
        /\ UNCHANGED delivered
    BY DEF Save, IInv, SaveIsOneStep, TypeOK
  <1>2. CASE data' = copy[w]
    BY <1>1, <1>2, RequestedRefines, ExpiredRefines, GrantedRefines,
       AttemptedRefines, AppliedRefines DEF SavesOneStep, OtherStep
  <1>3. CASE data' = data
    BY <1>1, <1>3 DEF Lifecycle!vars
  <1> QED
    BY <1>2, <1>3 DEF Save

\* Handing a capability out is the lifecycle's hand out of a request that was
\* not handed out before.
LEMMA ReturnRefines ==
    ASSUME NEW w \in Workers, IInv, Return(w)
    PROVE  Lifecycle!Next \/ UNCHANGED Lifecycle!vars
  <1>1. CASE answer[w].outcome = "granted"
    <2>0. answer[w] \in Answers /\ HandsOut(w, answer[w].approval)
      BY <1>1 DEF Return, IInv, StepsMatch, HandsOut
    <2>1. PICK a \in Approvals : a = answer[w].approval
      BY <2>0 DEF IInv, HandedOutOnce, Present, Answers
    <2>2. /\ data[a] # NoEntry
          /\ data[a].capability # NoCapability
          /\ \A d \in delivered : d[1] # a
      BY <2>0, <2>1, NoCapabilityAssumption
         DEF IInv, HandedOutOnce, Present, Answers
    <2>3. delivered' = delivered \cup {<<a, answer[w].capability>>}
          /\ data' = data
      BY <1>1, <2>1 DEF Return
    <2>4. HandedIn(delivered)' = HandedIn(delivered) \cup {a}
          /\ a \notin HandedIn(delivered)
      <3>1. \A d \in delivered' :
              d \in delivered \/ d = <<a, answer[w].capability>>
        BY <2>3
      <3>2. /\ delivered \subseteq delivered'
            /\ <<a, answer[w].capability>> \in delivered'
            /\ <<a, answer[w].capability>>[1] = a
        BY <2>3
      <3> QED
        BY <2>2, <3>1, <3>2 DEF HandedIn
    <2>5. GrantOf(data)[a] # NoCapability
      BY <2>2 DEF GrantOf
    <2>6. Lifecycle!HandOut(a)
      BY <2>3, <2>4, <2>5 DEF Lifecycle!HandOut, HandedIn, GrantOf
    <2> QED
      BY <2>2, <2>6 DEF Lifecycle!Next
  <1>2. CASE answer[w].outcome # "granted"
    BY <1>2 DEF Return, Lifecycle!vars
  <1> QED
    BY <1>1, <1>2

LEMMA RefinesNext == IInv /\ [Next]_vars => [Lifecycle!Next]_(Lifecycle!vars)
  <1> SUFFICES ASSUME IInv, [Next]_vars
               PROVE  Lifecycle!Next \/ UNCHANGED Lifecycle!vars
    OBVIOUS
  <1>1. ASSUME NEW w \in Workers, Decide(w)
        PROVE  UNCHANGED <<data, delivered>>
    BY <1>1
       DEF Decide, DecideRequest, DecideGet, DecideAllRequests, DecideApprove,
           DecideApproveRefused, DecideValidate, DecideValidateUnknown,
           DecideRecordAttempt, DecideMarkApplied, Deciding
  <1>2. ASSUME NEW w \in Workers,
               \/ Begin(w) \/ RefuseBlankApprover(w) \/ Load(w)
               \/ LockFails(w) \/ LoadRaises(w) \/ Crash(w)
        PROVE  UNCHANGED <<data, delivered>>
    BY <1>2
       DEF Begin, RefuseBlankApprover, Load, LockFails, LoadRaises, Crash
  <1>3. Tick \/ UNCHANGED vars => UNCHANGED <<data, delivered>>
    BY DEF Tick, vars
  <1>4. UNCHANGED <<data, delivered>> => UNCHANGED Lifecycle!vars
    BY DEF Lifecycle!vars
  <1> QED
    BY <1>1, <1>2, <1>3, <1>4, SaveRefines, ReturnRefines DEF Next, Work

\* ImplementsLifecycle: every behaviour of the store is one of the lifecycle.
THEOREM StoreImplementsLifecycle == Spec => ImplementsLifecycle
  BY RefinesInit, RefinesNext, Invariant, PTL
     DEF Spec, ImplementsLifecycle, Lifecycle!Spec
===============================================================================
