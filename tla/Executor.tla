------------------------------- MODULE Executor -------------------------------
(***************************************************************************)
(* One approved mutation end to end: concurrent tool calls running         *)
(* apply_incident_action (workflow-runner/workflow_runner/executor.py),    *)
(* the operator's command (approval_operator.py), the POST and what the    *)
(* network does to it (client.py), the API's handler (enterprise-api/app/  *)
(* main.py) with its failure modes, write-token holders who call the API   *)
(* directly, and the lab's reset.                                          *)
(*                                                                         *)
(* Both stores appear as their abstract selves: an operation of the        *)
(* approval store is one step on its table (ApprovalStore checks that this *)
(* is what its lock and atomic replace give), a commit one step on the     *)
(* ledger (ActionStore refines ActionLedger).  Between any two steps other *)
(* runs, the operator, the API and time may move, and a run may die, which *)
(* is also what an exception from a store or from the audit log amounts to.*)
(*                                                                         *)
(* approve() grants a request once and mints a new secret for it (OneGrant *)
(* of ApprovalStore), so a capability is named by the approval it is for.  *)
(***************************************************************************)
EXTENDS Naturals, Sequences, FiniteSets, LedgerOps

CONSTANTS
    Runs,           \* tool calls that may be under way at the same time
    Approvals,      \* approval ids
    Incidents,
    Actions,
    RunbookPairs,   \* the <<incident, action>> pairs that runbooks contain
    DirectKeys,     \* keys that direct callers use: made up, or a workflow key
    GrantedFor,     \* approvals granted before the model starts -> their pairs
    TTL,            \* seconds an approval lives
    MaxTime,        \* bound: the clock stops here
    MaxCalls,       \* bound: tool calls that get past the runbook lookup
    MaxResets,      \* bound: uses of reset-actions
    Forged,         \* a capability nobody ever granted
    NoEntry, NoCapability, NoRecord, NoApproval, NoPair, NoAnswer

Pairs == Incidents \X Actions
MaxRecords == Cardinality(Pairs) * (MaxResets + 1)
RecordIds == 1..MaxRecords

INSTANCE ApprovalOps WITH Capabilities <- Approvals \cup {Forged}

ASSUME BoundsAssumption ==
    /\ TTL \in Nat \ {0}
    /\ MaxTime \in Nat /\ MaxCalls \in Nat /\ MaxResets \in Nat
ASSUME PairsAssumption == IsFiniteSet(Incidents) /\ IsFiniteSet(Actions)
ASSUME GrantedForAssumption ==
    /\ DOMAIN GrantedFor \subseteq Approvals
    /\ \A a \in DOMAIN GrantedFor : GrantedFor[a] \in Pairs
ASSUME NoEntryAssumption == NoEntry \notin Entries
ASSUME NoCapabilityAssumption == NoCapability \notin Approvals

\* action_idempotency_key is a digest of the pair, injective for every purpose:
\* the pair stands for it.
WorkflowKey(pair) == pair
Keys == Pairs \cup DirectKeys

VARIABLES
    data,        \* the approval table
    clock,
    known,       \* capabilities operators have handed to callers
    ledger,      \* the API's action records
    created,     \* history: every record the API ever created
    resets,      \* uses of reset-actions so far
    sinceReset,  \* history: the records created since the last of them
    posted,      \* history: the records created for the POST of a run
    pc,          \* pc[r]: next step of run r
    pair,        \* pair[r]: what r was called for
    capability,  \* capability[r]: what r was called with
    approval,    \* approval[r]: the request whose capability was accepted
    at,          \* at[r]: r's clock reading for its operation on the table
    mine,        \* mine[r]: number of the call, which its POST also carries
    got,         \* got[r]: what the client made of the response
    posts,       \* POSTs on their way to the API or in its handler
    calls,       \* number of calls that got past the runbook lookup
    audit        \* mutation entries of the audit log (the others, which no
                 \* property reads, are left out)

runVars == <<pc, pair, capability, approval, at, mine, got>>
apiVars == <<ledger, created, resets, sinceReset, posted>>
vars == <<data, clock, known, apiVars, runVars, posts, calls, audit>>

\* What the client reports to the executor: the two successes, the two 409s,
\* and everything else (an early 4xx or 5xx, a 5xx after the commit, a timeout,
\* a transport error, a malformed body), all of which are resumable.
ResponseKinds ==
    {"created", "replayed", "already_applied", "key_binding_conflict", "failed"}

ASSUME NoAnswerAssumption ==
    NoAnswer \notin [kind : ResponseKinds, record : RecordIds \cup {NoRecord}]

\* Mutant of Confirming: every 409 is reconciled.
ConfirmingAnyConflict ==
    {"created", "replayed", "already_applied", "key_binding_conflict"}

\* Mutant of Confirming: a failed attempt counts as applied.
ConfirmingFailures == {"created", "replayed", "already_applied", "failed"}

Confirming == {"created", "replayed", "already_applied"}

\* Earlier calls have requested, and operators have granted, some approvals.
Init ==
    /\ data = [a \in Approvals |->
                 IF a \in DOMAIN GrantedFor
                 THEN [NewEntry(GrantedFor[a][1], GrantedFor[a][2], 0, TTL)
                         EXCEPT !.status = "approved", !.capability = a]
                 ELSE NoEntry]
    /\ clock = 0
    /\ known = DOMAIN GrantedFor
    /\ ledger = << >>
    /\ created = {}
    /\ resets = 0
    /\ sinceReset = {}
    /\ posted = {}
    /\ pc = [r \in Runs |-> "idle"]
    /\ pair = [r \in Runs |-> NoPair]
    /\ capability = [r \in Runs |-> NoCapability]
    /\ approval = [r \in Runs |-> NoApproval]
    /\ at = [r \in Runs |-> 0]
    /\ mine = [r \in Runs |-> 0]
    /\ got = [r \in Runs |-> NoAnswer]
    /\ posts = {}
    /\ calls = 0
    /\ audit = {}

Goto(r, step) == pc' = [pc EXCEPT ![r] = step]

\* The tool call ends, with a result or by dying.
End(r) ==
    /\ Goto(r, "idle")
    /\ pair' = [pair EXCEPT ![r] = NoPair]
    /\ capability' = [capability EXCEPT ![r] = NoCapability]
    /\ approval' = [approval EXCEPT ![r] = NoApproval]
    /\ at' = [at EXCEPT ![r] = 0]
    /\ mine' = [mine EXCEPT ![r] = 0]
    /\ got' = [got EXCEPT ![r] = NoAnswer]

-------------------------------------------------------------------------------
\* A run up to its POST

\* Bound: once MaxCalls is reached an invocation, which can only end in its
\* lookup, comes while no other run is under way.
CallLeft == calls < MaxCalls \/ \A r \in Runs : pc[r] = "idle"

Invoke(r) ==
    /\ pc[r] = "idle"
    /\ CallLeft
    /\ \E p \in Pairs, c \in known \cup {Forged, NoCapability} :
         /\ pair' = [pair EXCEPT ![r] = p]
         /\ capability' = [capability EXCEPT ![r] = c]
    /\ Goto(r, "lookup")
    /\ UNCHANGED <<data, clock, known, apiVars, approval, at, mine, got, posts,
                   calls, audit>>

\* get_runbook fails, or the runbook has no such step: the run ends there.
LookupStops(r) ==
    /\ pc[r] = "lookup"
    /\ End(r)
    /\ UNCHANGED <<data, clock, known, apiVars, posts, calls, audit>>

\* Bound: a run that will request an approval needs an id of the model for it.
IdLeft ==
    Cardinality({r \in Runs : pc[r] = "request"})
      < Cardinality(Approvals \ Present(data))

\* The pair is in the runbook.  The operation on the approval table that comes
\* next reads the clock before it waits for the lock.
LookupFinds(r) ==
    /\ pc[r] = "lookup"
    /\ pair[r] \in RunbookPairs
    /\ calls < MaxCalls
    /\ capability[r] = NoCapability => IdLeft
    /\ calls' = calls + 1
    /\ mine' = [mine EXCEPT ![r] = calls']
    /\ at' = [at EXCEPT ![r] = clock]
    /\ Goto(r, IF capability[r] = NoCapability THEN "request" ELSE "validate")
    /\ UNCHANGED <<data, clock, known, apiVars, pair, capability, approval, got,
                   posts, audit>>

\* Gate 1: no capability, so an approval is requested and nothing else.
RequestApproval(r) ==
    /\ pc[r] = "request"
    /\ \E a \in Approvals \ Present(data) :
         data' = [data EXCEPT ![a] =
                    NewEntry(pair[r][1], pair[r][2], at[r], TTL)]
    /\ End(r)
    /\ UNCHANGED <<clock, known, apiVars, posts, calls, audit>>

\* Gate 2: the capability is refused.
ValidateRefuses(r) ==
    LET holders == HoldersOf(data, capability[r]) IN
    /\ pc[r] = "validate"
    /\ \/ holders = {} /\ UNCHANGED data
       \/ \E a \in holders :
            /\ Validation(data, a, pair[r][1], pair[r][2], at[r]) # "accepted"
            /\ data' = Expire(data, a, at[r])
    /\ End(r)
    /\ UNCHANGED <<clock, known, apiVars, posts, calls, audit>>

\* Mutant of ValidateAccepts: the POST goes out before its intent is audited.
ValidateAcceptsUnaudited(r) ==
    /\ pc[r] = "validate"
    /\ \E a \in HoldersOf(data, capability[r]) :
         /\ Validation(data, a, pair[r][1], pair[r][2], at[r]) = "accepted"
         /\ approval' = [approval EXCEPT ![r] = a]
    /\ at' = [at EXCEPT ![r] = 0]
    /\ Goto(r, "dispatch")
    /\ UNCHANGED <<data, clock, known, apiVars, pair, capability, mine, got,
                   posts, calls, audit>>

ValidateAccepts(r) ==
    /\ pc[r] = "validate"
    /\ \E a \in HoldersOf(data, capability[r]) :
         /\ Validation(data, a, pair[r][1], pair[r][2], at[r]) = "accepted"
         /\ approval' = [approval EXCEPT ![r] = a]
    /\ at' = [at EXCEPT ![r] = 0]
    /\ Goto(r, "intent")
    /\ UNCHANGED <<data, clock, known, apiVars, pair, capability, mine, got,
                   posts, calls, audit>>

\* The intent is audited before the POST goes out.
AuditIntent(r) ==
    /\ pc[r] = "intent"
    /\ audit' = audit \cup
         {[event |-> "mutation_attempted", call |-> mine[r],
           approval |-> approval[r], record |-> NoRecord]}
    /\ Goto(r, "dispatch")
    /\ UNCHANGED <<data, clock, known, apiVars, pair, capability, approval, at,
                   mine, got, posts, calls>>

\* The POST goes out under the key of the pair.
Dispatch(r) ==
    /\ pc[r] = "dispatch"
    /\ posts' = posts \cup
         {[call |-> mine[r], pair |-> pair[r], key |-> WorkflowKey(pair[r])]}
    /\ Goto(r, "wait")
    /\ UNCHANGED <<data, clock, known, apiVars, pair, capability, approval, at,
                   mine, got, calls, audit>>

-------------------------------------------------------------------------------
\* The POST at the API

\* The client takes in a response to the POST of call n, if its run still waits.
Respond(n, kind, record) ==
    /\ got' = [r \in Runs |->
                 IF pc[r] = "wait" /\ mine[r] = n
                 THEN [kind |-> kind, record |-> record] ELSE got[r]]
    /\ pc' = [r \in Runs |->
                IF pc[r] = "wait" /\ mine[r] = n THEN "record" ELSE pc[r]]
    /\ UNCHANGED <<pair, capability, approval, at, mine>>

NextRecord(p, key) == NewRecord(ledger, p, key, Cardinality(created) + 1)

\* ACTION_STORE.commit of a fresh pair and key.
AddRecord(p, key) ==
    /\ IsFresh(ledger, p, key)
    /\ ledger' = Append(ledger, NextRecord(p, key))
    /\ created' = created \cup {NextRecord(p, key)}
    /\ sinceReset' = sinceReset \cup {NextRecord(p, key)}
    /\ UNCHANGED resets

\* The handler commits and answers 201; or it commits and the caller sees a 500
\* (error_after_commit, or an I/O error while counting the incident's records);
\* or the response is lost, and the client times out by itself.
HandleCreates(post) ==
    /\ AddRecord(post.pair, post.key)
    /\ posted' = posted \cup {NextRecord(post.pair, post.key)}
    /\ \/ Respond(post.call, "created", NextRecord(post.pair, post.key).id)
       \/ Respond(post.call, "failed", NoRecord)
       \/ UNCHANGED runVars
    /\ posts' = posts \ {post}
    /\ UNCHANGED <<data, clock, known, calls, audit>>

\* A known key or an applied pair: 200 with the original record, or 409; with
\* error_after_commit a replay still ends in a 500, a conflict does not.
HandleSettled(post) ==
    /\ ~IsFresh(ledger, post.pair, post.key)
    /\ LET answer == SettledAnswer(ledger, post.pair, post.key) IN
       \/ Respond(post.call, answer.kind, answer.record.id)
       \/ /\ answer.kind = "replayed"
          /\ Respond(post.call, "failed", NoRecord)
       \/ UNCHANGED runVars
    /\ posts' = posts \ {post}
    /\ UNCHANGED <<data, clock, known, apiVars, calls, audit>>

\* The POST never arrives, or is answered before the commit (injected error,
\* 4xx, failed write), or that answer is lost too.
HandleFails(post) ==
    /\ Respond(post.call, "failed", NoRecord) \/ UNCHANGED runVars
    /\ posts' = posts \ {post}
    /\ UNCHANGED <<data, clock, known, apiVars, calls, audit>>

\* Mutant of TimeOut: the client waits as long as its POST is at the API.
TimeOutOfTheLost(r) ==
    /\ pc[r] = "wait"
    /\ \A post \in posts : post.call # mine[r]
    /\ got' = [got EXCEPT ![r] = [kind |-> "failed", record |-> NoRecord]]
    /\ Goto(r, "record")
    /\ UNCHANGED <<data, clock, known, apiVars, pair, capability, approval, at,
                   mine, posts, calls, audit>>

\* The client's timeout: the POST may still be on its way or in the handler.
TimeOut(r) ==
    /\ pc[r] = "wait"
    /\ got' = [got EXCEPT ![r] = [kind |-> "failed", record |-> NoRecord]]
    /\ Goto(r, "record")
    /\ UNCHANGED <<data, clock, known, apiVars, pair, capability, approval, at,
                   mine, posts, calls, audit>>

-------------------------------------------------------------------------------
\* A run after its POST

\* Mutant of RecordOutcome: the grant is marked applied on every outcome.
RecordOutcomeMarking(r) ==
    /\ pc[r] = "record"
    /\ data' = RecordAttempt(data, approval[r])
    /\ Goto(r, "mark")
    /\ UNCHANGED <<clock, known, apiVars, pair, capability, approval, at, mine,
                   got, posts, calls, audit>>

\* approvals.record_attempt, on every outcome.
RecordOutcome(r) ==
    /\ pc[r] = "record"
    /\ data' = RecordAttempt(data, approval[r])
    /\ Goto(r, IF got[r].kind \in Confirming THEN "mark" ELSE "audit")
    /\ UNCHANGED <<clock, known, apiVars, pair, capability, approval, at, mine,
                   got, posts, calls, audit>>

\* approvals.mark_applied, when the response confirms that the pair is applied.
MarkConfirmed(r) ==
    /\ pc[r] = "mark"
    /\ data' = MarkApplied(data, approval[r], got[r].record)
    /\ Goto(r, "audit")
    /\ UNCHANGED <<clock, known, apiVars, pair, capability, approval, at, mine,
                   got, posts, calls, audit>>

\* Mutant of AuditEvent: a replay is logged as a commit.
AuditEventOfSuccess(kind) ==
    CASE kind \in {"created", "replayed"} -> "mutation_committed"
      [] kind = "already_applied"        -> "approval_rejected"
      [] OTHER                           -> "mutation_failed"

AuditEvent(kind) ==
    CASE kind = "created"         -> "mutation_committed"
      [] kind = "replayed"        -> "mutation_replayed"
      [] kind = "already_applied" -> "approval_rejected"
      [] OTHER                    -> "mutation_failed"

\* The outcome is audited and the result returned.
AuditOutcome(r) ==
    /\ pc[r] = "audit"
    /\ audit' = audit \cup
         {[event |-> AuditEvent(got[r].kind), call |-> mine[r],
           approval |-> approval[r], record |-> got[r].record]}
    /\ End(r)
    /\ UNCHANGED <<data, clock, known, apiVars, posts, calls>>

\* The process of the run dies, or a store or the audit log raises.
Die(r) ==
    /\ pc[r] \notin {"idle", "lookup"}
    /\ End(r)
    /\ UNCHANGED <<data, clock, known, apiVars, posts, calls, audit>>

-------------------------------------------------------------------------------
\* Operators, direct callers, time

\* The operator's command grants a request at the clock reading it took before
\* it waited for the lock, and hands the capability on unless it dies before it
\* could print it.
OperatorGrants(a) ==
    /\ a \in Present(data)
    /\ \E now \in (data[a].expires - TTL)..clock : Grantable(data, a, now)
    /\ data' = Grant(data, a, a)
    /\ known' = known \cup {a} \/ UNCHANGED known
    /\ UNCHANGED <<clock, apiVars, runVars, posts, calls, audit>>

\* approve() on, or the operator's reading of, a request whose time is over.
OperatorExpires(a) ==
    /\ Lapsed(data, a, clock)
    /\ data' = Expire(data, a, clock)
    /\ UNCHANGED <<clock, known, apiVars, runVars, posts, calls, audit>>

\* A holder of the write token posts an action itself, under any key.
DirectCommit ==
    /\ \E p \in Pairs, k \in DirectKeys : AddRecord(p, k)
    /\ UNCHANGED <<data, clock, known, posted, runVars, posts, calls, audit>>

\* POST /v1/admin/reset-actions
ResetActions ==
    /\ resets < MaxResets
    /\ resets' = resets + 1
    /\ ledger' = << >>
    /\ sinceReset' = {}
    /\ UNCHANGED <<data, clock, known, created, posted, runVars, posts, calls,
                   audit>>

Tick ==
    /\ clock < MaxTime
    /\ clock' = clock + 1
    /\ UNCHANGED <<data, known, apiVars, runVars, posts, calls, audit>>

-------------------------------------------------------------------------------
RunStep(r) ==
    \/ LookupStops(r) \/ LookupFinds(r) \/ RequestApproval(r)
    \/ ValidateRefuses(r) \/ ValidateAccepts(r) \/ AuditIntent(r) \/ Dispatch(r)
    \/ TimeOut(r) \/ RecordOutcome(r) \/ MarkConfirmed(r) \/ AuditOutcome(r)

Handle(post) ==
    HandleCreates(post) \/ HandleSettled(post) \/ HandleFails(post)

Next ==
    \/ \E r \in Runs : Invoke(r) \/ RunStep(r) \/ Die(r)
    \/ \E post \in posts : Handle(post)
    \/ \E a \in Approvals : OperatorGrants(a) \/ OperatorExpires(a)
    \/ DirectCommit \/ ResetActions \/ Tick

Spec == Init /\ [][Next]_vars

\* A run that is alive takes its next step: every wait in it is bounded, the
\* response by the client's timeout and the locks by the stores (LockReleased
\* of ApprovalStore).  Nothing is assumed of the API, operators or the clock.
FairSpec == Spec /\ \A r \in Runs : WF_vars(RunStep(r))

-------------------------------------------------------------------------------
\* Properties

Posts == [call : 1..MaxCalls, pair : Pairs, key : Keys]

Records == [id : RecordIds, pair : Pairs, key : Keys, sequence : Nat]

AuditEntries ==
    [event : {"mutation_attempted", "mutation_committed", "mutation_replayed",
              "mutation_failed", "approval_rejected"},
     call : 1..MaxCalls, approval : Approvals, record : RecordIds \cup {NoRecord}]

\* The type invariant.
TypeOK ==
    /\ data \in Tables
    /\ clock \in 0..MaxTime
    /\ known \subseteq Approvals
    /\ created \subseteq Records
    /\ RecordsIn(ledger) \subseteq created
    /\ sinceReset \subseteq created
    /\ posted \subseteq created
    /\ resets \in 0..MaxResets
    /\ pc \in [Runs -> {"idle", "lookup", "request", "validate", "intent",
                       "dispatch", "wait", "record", "mark", "audit"}]
    /\ pair \in [Runs -> Pairs \cup {NoPair}]
    /\ capability \in [Runs -> Approvals \cup {Forged, NoCapability}]
    /\ approval \in [Runs -> Approvals \cup {NoApproval}]
    /\ at \in [Runs -> 0..MaxTime]
    /\ mine \in [Runs -> 0..MaxCalls]
    /\ got \in [Runs -> [kind : ResponseKinds,
                        record : RecordIds \cup {NoRecord}] \cup {NoAnswer}]
    /\ posts \subseteq Posts
    /\ calls \in 0..MaxCalls
    /\ audit \subseteq AuditEntries

\* The pair an approval is bound to, and whether an operator ever granted it.
BoundTo(a) == <<data[a].incident, data[a].action>>
EverGranted(a) == a \in Present(data) /\ data[a].capability # NoCapability

\* Human approval gates every effect: whatever runs, timeouts, retries and
\* resets interleave, a POST on its way, or a record the API created for one,
\* is for a pair some operator granted, the POST under the pair's own key, and
\* the intent of a call for that grant was in the audit log beforehand.
EffectWasGranted(p) ==
    \E e \in audit : /\ e.event = "mutation_attempted"
                     /\ EverGranted(e.approval)
                     /\ BoundTo(e.approval) = p
NoEffectWithoutGrant ==
    /\ \A post \in posts :
         post.key = WorkflowKey(post.pair) /\ EffectWasGranted(post.pair)
    /\ \A record \in posted : EffectWasGranted(record.pair)

\* Retries after a timeout, a lost response or a failure reported after the
\* commit, concurrent calls on one grant, two grants for one pair and direct
\* callers with keys of their own create at most one record per pair between
\* two resets of the ledger.
OneEffectPerReset ==
    \A c, d \in sinceReset : c.pair = d.pair => c = d

\* A grant is consumed only by the effect it was given for: the record id an
\* applied approval carries is that of a record the API did create for the
\* approval's own pair, also when that record came from another call, another
\* grant or a direct caller.
AppliedForItsRecord ==
    \A a \in Present(data) :
      data[a].status = "applied" =>
        \E record \in created :
          record.id = data[a].record /\ record.pair = BoundTo(a)

\* The audit log tells commits from replays: at most one mutation_committed per
\* record, always of an existing record of the approval's pair, by a call whose
\* intent was logged before.
AuditTruthful ==
    \A e \in audit : e.event = "mutation_committed" =>
      /\ \A f \in audit :
           f.event = "mutation_committed" /\ f.record = e.record => f = e
      /\ \E record \in created :
           record.id = e.record /\ record.pair = BoundTo(e.approval)
      /\ \E f \in audit : f.event = "mutation_attempted" /\ f.call = e.call

\* A grant survives every failed attempt, one whose write was committed and
\* its answer lost included: an approval stops being approved only because its
\* time is up, or because a call with its capability was told of a record of
\* its pair, and it carries that record.  That is what lets the caller resume
\* with the same capability.
ToldOf(a, record) ==
    \E r \in Runs : /\ approval[r] = a
                    /\ got[r] # NoAnswer /\ got[r].record = record.id
GrantOutlivesFailureStep ==
    \A a \in Present(data) :
      data[a].status = "approved" /\ data'[a].status # "approved" =>
        \/ data'[a].status = "expired" /\ clock >= data[a].expires
        \/ /\ data'[a].status = "applied"
           /\ \E record \in created :
                /\ record.pair = BoundTo(a) /\ ToldOf(a, record)
                /\ data'[a].record = record.id
GrantOutlivesFailure == [][GrantOutlivesFailureStep]_vars

\* Every tool call ends, though the API may never answer.
RunEnds == \A r \in Runs : pc[r] # "idle" ~> pc[r] = "idle"

\* approvals.py: an approval marked applied "cannot dispatch another request".
AppliedNeverDispatchesStep ==
    \A r \in Runs :
      pc[r] = "dispatch" /\ pc'[r] = "wait" =>
        data[approval[r]].status # "applied"
AppliedNeverDispatches == [][AppliedNeverDispatchesStep]_vars

\* ADR 005: "A confirmed apply or replay transitions the grant to terminal
\* `applied`", hence before the call that confirmed it returns.
ConfirmedIsApplied ==
    \A r \in Runs :
      pc[r] = "audit" /\ got[r].kind \in Confirming =>
        data[approval[r]].status = "applied"
===============================================================================
