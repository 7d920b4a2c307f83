---------------------------- MODULE ApprovalStore -----------------------------
(***************************************************************************)
(* The approval store used by the MCP server's tool handler and by the     *)
(* operator's command line (workflow-runner/workflow_runner/approvals.py): *)
(* several workers, in one process or many, on one JSON file.              *)
(*                                                                         *)
(* An operation reads the clock when it is called and only then waits for  *)
(* the lock (the module's thread lock and the flock, taken together: they  *)
(* are always taken in this order and released in one go).  Under the lock *)
(* it loads the file, decides on its copy, saves the copy with an atomic   *)
(* replace when it changed it, and returns after the release.  The lock    *)
(* file, the load under the lock and the save may raise, a worker may die  *)
(* at any step, and time passes anywhere.                                  *)
(***************************************************************************)
EXTENDS ApprovalOps, FiniteSets

CONSTANTS
    Workers,        \* tool handlers and operator commands
    TTL,            \* ttl_seconds
    MaxTime,        \* bound: the clock stops here
    MaxAttempts,    \* bound: attempts recorded per request
    Free,           \* the owner of the lock when nobody holds it
    NoCall,         \* a worker with no operation under way
    NoAnswer        \* an operation that has not decided yet

ASSUME TTLAssumption == TTL \in Nat \ {0}
ASSUME FreeAssumption == Free \notin Workers
ASSUME NoCapabilityAssumption == NoCapability \notin Capabilities
ASSUME NoEntryAssumption == NoEntry \notin Entries
ASSUME ApprovalsAssumption == IsFiniteSet(Approvals)

VARIABLES
    data,       \* the table in the file (an absent file is an empty table)
    clock,      \* the wall clock
    lock,       \* holder of the lock
    pc,         \* pc[w]: the next step of worker w
    call,       \* call[w]: the operation of w and its arguments
    at,         \* at[w]: the clock reading of w's operation
    copy,       \* copy[w]: the table w loaded, and then changed
    answer,     \* answer[w]: what the operation of w will return
    delivered   \* history: <<approval, capability>> returned to an operator

vars == <<data, clock, lock, pc, call, at, copy, answer, delivered>>

Calls ==
    [op : {"request"}, incident : Incidents, action : Actions]
    \cup [op : {"get", "record_attempt"}, approval : Approvals]
    \cup [op : {"approve"}, approval : Approvals, blank : BOOLEAN]
    \cup [op : {"validate"}, capability : Capabilities, incident : Incidents,
          action : Actions]
    \cup [op : {"mark_applied"}, approval : Approvals, record : RecordIds]
    \cup [op : {"all_requests"}]

Outcomes == {"ok", "error", "accepted", "granted", "approver_identity_required",
             "unknown_approval_id", "unknown_approval_capability",
             "approval_approved", "approval_applied", "approval_expired",
             "approval_already_applied", "approval_not_granted",
             "approval_capability_bound_to_different_incident",
             "approval_capability_bound_to_different_action",
             "action_already_applied"}

Answers ==
    [outcome : Outcomes, approval : Approvals \cup {NoEntry},
     capability : Capabilities \cup {NoCapability}]

Plain(outcome) ==
    [outcome |-> outcome, approval |-> NoEntry, capability |-> NoCapability]

EmptyTable == [a \in Approvals |-> NoEntry]

Init ==
    /\ data = EmptyTable
    /\ clock = 0
    /\ lock = Free
    /\ pc = [w \in Workers |-> "idle"]
    /\ call = [w \in Workers |-> NoCall]
    /\ at = [w \in Workers |-> 0]
    /\ copy = [w \in Workers |-> EmptyTable]
    /\ answer = [w \in Workers |-> NoAnswer]
    /\ delivered = {}

-------------------------------------------------------------------------------
\* Calling, loading, saving and returning

Goto(w, step) == pc' = [pc EXCEPT ![w] = step]
Answer(w, r) == answer' = [answer EXCEPT ![w] = r]

\* Past its last step on the file an operation needs neither its arguments nor
\* its copy.
Forget(w) ==
    /\ call' = [call EXCEPT ![w] = NoCall]
    /\ at' = [at EXCEPT ![w] = 0]
    /\ copy' = [copy EXCEPT ![w] = EmptyTable]

RequestsUnderWay ==
    {w \in Workers : call[w] # NoCall /\ call[w].op = "request"}

\* An operation is called and reads the clock, before it asks for the lock.
\* (record_attempt and mark_applied read it later and decide nothing by it.)
\* Bounds: a request is called only while an id is left for it, an attempt is
\* recorded only below MaxAttempts.
Begin(w) ==
    /\ pc[w] = "idle"
    /\ \E c \in Calls :
         /\ c.op = "approve" => ~c.blank
         /\ c.op = "request" =>
              Cardinality(Present(data)) + Cardinality(RequestsUnderWay)
                < Cardinality(Approvals)
         /\ c.op = "record_attempt" /\ c.approval \in Present(data) =>
              data[c.approval].attempts < MaxAttempts
         /\ call' = [call EXCEPT ![w] = c]
    /\ at' = [at EXCEPT ![w] = clock]
    /\ Goto(w, "load")
    /\ UNCHANGED <<data, clock, lock, copy, answer, delivered>>

\* approve() with a blank approver identity never reaches the file.
RefuseBlankApprover(w) ==
    /\ pc[w] = "idle"
    /\ \E c \in Calls : c.op = "approve" /\ c.blank
    /\ Answer(w, Plain("approver_identity_required"))
    /\ Goto(w, "return")
    /\ UNCHANGED <<data, clock, lock, call, at, copy, delivered>>

\* Mutant of Load: the file is read before the lock is taken; the lock that is
\* left guards nothing.
LoadUnlocked(w) ==
    /\ pc[w] = "load"
    /\ copy' = [copy EXCEPT ![w] = data]
    /\ Goto(w, "decide")
    /\ UNCHANGED <<data, clock, lock, call, at, answer, delivered>>

\* The lock is acquired and the file loaded.
Load(w) ==
    /\ pc[w] = "load"
    /\ lock = Free
    /\ lock' = w
    /\ copy' = [copy EXCEPT ![w] = data]
    /\ Goto(w, "decide")
    /\ UNCHANGED <<data, clock, call, at, answer, delivered>>

\* The lock file's directory or the lock file cannot be created or opened: the
\* call raises without the lock, whoever holds it.
LockFails(w) ==
    /\ pc[w] = "load"
    /\ Answer(w, Plain("error"))
    /\ Goto(w, "return")
    /\ Forget(w)
    /\ UNCHANGED <<data, clock, lock, delivered>>

\* The operation ends without touching the file.
LeaveUnchanged(w, r) ==
    /\ Answer(w, r)
    /\ lock' = Free
    /\ Goto(w, "return")
    /\ Forget(w)

\* Mutant of LoadRaises: the lock is not given back when the load raises.
LoadRaisesKeepingLock(w) ==
    /\ pc[w] = "decide"
    /\ Answer(w, Plain("error"))
    /\ Goto(w, "return")
    /\ Forget(w)
    /\ UNCHANGED <<data, clock, lock, delivered>>

\* The load finds an unreadable, corrupt or misshapen file and raises under the
\* lock, which is given back on the way out.
LoadRaises(w) ==
    /\ pc[w] = "decide"
    /\ LeaveUnchanged(w, Plain("error"))
    /\ UNCHANGED <<data, clock, delivered>>

\* The operation changed its copy and goes on to save it.
Keep(w, table, r) ==
    /\ copy' = [copy EXCEPT ![w] = table]
    /\ Answer(w, r)
    /\ Goto(w, "save")
    /\ UNCHANGED <<lock, call, at>>

\* The operation saves its copy only if it changed it.
KeepIfChanged(w, table, r) ==
    IF table = copy[w] THEN LeaveUnchanged(w, r) ELSE Keep(w, table, r)

\* Mutant of Save: a failed save leaves the lock behind.
SaveKeepingLock(w) ==
    /\ pc[w] = "save"
    /\ \/ data' = copy[w] /\ lock' = Free /\ UNCHANGED answer
       \/ Answer(w, Plain("error")) /\ UNCHANGED <<data, lock>>
    /\ Goto(w, "return")
    /\ Forget(w)
    /\ UNCHANGED <<clock, delivered>>

Save(w) ==
    /\ pc[w] = "save"
    /\ \/ data' = copy[w] /\ UNCHANGED answer
       \/ Answer(w, Plain("error")) /\ UNCHANGED data
    /\ lock' = Free
    /\ Goto(w, "return")
    /\ Forget(w)
    /\ UNCHANGED <<clock, delivered>>

\* The caller gets the answer: for a grant, the operator sees the capability.
Return(w) ==
    /\ pc[w] = "return"
    /\ delivered' = IF answer[w].outcome = "granted"
                    THEN delivered \cup
                           {<<answer[w].approval, answer[w].capability>>}
                    ELSE delivered
    /\ Goto(w, "idle")
    /\ Answer(w, NoAnswer)
    /\ UNCHANGED <<data, clock, lock, call, at, copy>>

\* The process dies: the flock goes with it, the answer reaches nobody.
Crash(w) ==
    /\ pc[w] # "idle"
    /\ lock' = IF lock = w THEN Free ELSE lock
    /\ Goto(w, "idle")
    /\ Forget(w)
    /\ Answer(w, NoAnswer)
    /\ UNCHANGED <<data, clock, delivered>>

Tick ==
    /\ clock < MaxTime
    /\ clock' = clock + 1
    /\ UNCHANGED <<data, lock, pc, call, at, copy, answer, delivered>>

-------------------------------------------------------------------------------
\* The decisions, on the loaded copy

Deciding(w, op) ==
    /\ pc[w] = "decide"
    /\ call[w].op = op
    /\ UNCHANGED <<data, clock, delivered>>

\* request(): a fresh id (the token never repeats one in the table).
DecideRequest(w) ==
    /\ Deciding(w, "request")
    /\ \E a \in Approvals \ Present(copy[w]) :
         Keep(w,
              [copy[w] EXCEPT ![a] =
                 NewEntry(call[w].incident, call[w].action, at[w], TTL)],
              Plain("ok"))

DecideGet(w) ==
    /\ Deciding(w, "get")
    /\ KeepIfChanged(w, Expire(copy[w], call[w].approval, at[w]), Plain("ok"))

DecideAllRequests(w) ==
    /\ Deciding(w, "all_requests")
    /\ KeepIfChanged(w, ExpireAll(copy[w], at[w]), Plain("ok"))

\* Capabilities that a token generator could still produce.
FreshCapabilities(w) ==
    Capabilities \ {copy[w][a].capability : a \in Present(copy[w])}

\* approve() grants a pending request under a capability minted for it.
DecideApprove(w) ==
    LET a == call[w].approval IN
    /\ Deciding(w, "approve")
    /\ Grantable(copy[w], a, at[w])
    /\ \E c \in FreshCapabilities(w) :
         Keep(w, Grant(copy[w], a, c),
              [outcome |-> "granted", approval |-> a, capability |-> c])

\* approve() refuses; it saves the table if the request expired just now.
DecideApproveRefused(w) ==
    LET a == call[w].approval IN
    /\ Deciding(w, "approve")
    /\ ~Grantable(copy[w], a, at[w])
    /\ KeepIfChanged(w, Expire(copy[w], a, at[w]),
                     Plain(ApproveRefusal(copy[w], a, at[w])))

\* validate() of a capability no entry holds.
DecideValidateUnknown(w) ==
    /\ Deciding(w, "validate")
    /\ HoldersOf(copy[w], call[w].capability) = {}
    /\ LeaveUnchanged(w, Plain("unknown_approval_capability"))

DecideValidate(w) ==
    /\ Deciding(w, "validate")
    /\ \E a \in HoldersOf(copy[w], call[w].capability) :
         KeepIfChanged(w, Expire(copy[w], a, at[w]),
           [outcome |-> Validation(copy[w], a, call[w].incident,
                                   call[w].action, at[w]),
            approval |-> a, capability |-> NoCapability])

DecideRecordAttempt(w) ==
    /\ Deciding(w, "record_attempt")
    /\ KeepIfChanged(w, RecordAttempt(copy[w], call[w].approval), Plain("ok"))

DecideMarkApplied(w) ==
    /\ Deciding(w, "mark_applied")
    /\ KeepIfChanged(w, MarkApplied(copy[w], call[w].approval, call[w].record),
                     Plain("ok"))

Decide(w) ==
    \/ DecideRequest(w) \/ DecideGet(w) \/ DecideAllRequests(w)
    \/ DecideApprove(w) \/ DecideApproveRefused(w)
    \/ DecideValidate(w) \/ DecideValidateUnknown(w)
    \/ DecideRecordAttempt(w) \/ DecideMarkApplied(w)

Work(w) == Load(w) \/ Decide(w) \/ Save(w) \/ Return(w)

Next ==
    \/ \E w \in Workers :
         \/ Begin(w) \/ RefuseBlankApprover(w) \/ Work(w)
         \/ LockFails(w) \/ LoadRaises(w) \/ Crash(w)
    \/ Tick

Spec == Init /\ [][Next]_vars

\* A worker keeps running between its steps; nothing is assumed about who gets
\* a contended lock, about the clock, or about callers.
FairSpec == Spec /\ \A w \in Workers : WF_vars(Work(w))
-------------------------------------------------------------------------------
\* Properties

\* The type invariant.
TypeOK ==
    /\ data \in Tables
    /\ clock \in Nat
    /\ lock \in Workers \cup {Free}
    /\ pc \in [Workers -> {"idle", "load", "decide", "save", "return"}]
    /\ call \in [Workers -> Calls \cup {NoCall}]
    /\ at \in [Workers -> Nat]
    /\ copy \in [Workers -> Tables]
    /\ answer \in [Workers -> Answers \cup {NoAnswer}]
    /\ delivered \subseteq Approvals \X Capabilities

\* However many operators run approve at the same time, fail while saving or
\* die, at most one capability per request ever reaches an operator, it is the
\* one the file holds, and no two requests share one.
OneGrant ==
    /\ \A d \in delivered :
         data[d[1]] # NoEntry /\ data[d[1]].capability = d[2]
    /\ \A a, b \in Present(data) :
         data[a].capability = data[b].capability =>
           a = b \/ data[a].capability = NoCapability

\* An applied or expired request is left alone by every operation, whatever
\* copy an interleaved operation had loaded: only its attempts grow, its status
\* and record id stay, and no request disappears or changes what it is bound to.
TerminalStaysStep ==
    \A a \in Present(data) :
      /\ data'[a] # NoEntry
      /\ data'[a].incident = data[a].incident
      /\ data'[a].action = data[a].action
      /\ data'[a].expires = data[a].expires
      /\ data'[a].attempts >= data[a].attempts
      /\ data[a].status \in {"applied", "expired"} =>
           /\ data'[a].status = data[a].status
           /\ data'[a].record = data[a].record
           /\ data'[a].capability = data[a].capability
TerminalStays == [][TerminalStaysStep]_vars

\* A validation accepts only a request that is approved in the file at that
\* very step, bound to the very incident and action asked for, with no other
\* request for the pair applied, and never once anybody has seen it expired,
\* however old the validator's own clock reading.
AcceptedIsCurrentStep ==
    \A w \in Workers :
      (/\ pc[w] = "decide" /\ pc'[w] = "return"
       /\ answer'[w].outcome = "accepted") =>
        LET a == answer'[w].approval IN
        /\ HasStatus(data, a, {"approved"})
        /\ data[a].capability = call[w].capability
        /\ data[a].incident = call[w].incident
        /\ data[a].action = call[w].action
        /\ at[w] < data[a].expires
        /\ ~PairAppliedElsewhere(data, a, call[w].incident, call[w].action)
AcceptedIsCurrent == [][AcceptedIsCurrentStep]_vars

\* Whoever takes the lock gives it back, whatever fails or dies under it.
LockReleased == \A w \in Workers : (lock = w) ~> (lock # w)

-------------------------------------------------------------------------------
\* The store implements the lifecycle.

Lifecycle == INSTANCE ApprovalLifecycle WITH
    status <- [a \in Approvals |->
                 IF data[a] = NoEntry THEN "none" ELSE data[a].status],
    grant  <- [a \in Approvals |->
                 IF data[a] = NoEntry THEN NoCapability
                                      ELSE data[a].capability],
    handed <- {d[1] : d \in delivered}

\* Every behaviour of the store, with its interleavings, failed saves and
\* crashes, is one of the lifecycle of architecture.md.
ImplementsLifecycle == Lifecycle!Spec
===============================================================================
