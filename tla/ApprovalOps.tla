----------------------------- MODULE ApprovalOps ------------------------------
(***************************************************************************)
(* The decisions of the approval store on its contents                     *)
(* (workflow-runner/workflow_runner/approvals.py), as operators on a table *)
(* [approval id -> entry].  An entry keeps the bound incident and action,  *)
(* the expiry time, the lifecycle status, the capability whose hash is     *)
(* stored, the applied record id and the number of attempts recorded in    *)
(* its history.  Each change of status also appends one history entry with *)
(* the same meaning, which the status stands for; identities, correlation  *)
(* ids and the other timestamps decide nothing and are left out.           *)
(*                                                                         *)
(* A capability stands for its own hash: sha256 is taken to be injective.  *)
(***************************************************************************)
EXTENDS Naturals

CONSTANTS
    Approvals,      \* approval ids
    Incidents,
    Actions,
    Capabilities,   \* capability secrets
    RecordIds,      \* record ids the API returns
    NoEntry,        \* an approval id that is not in the table
    NoCapability,   \* nothing granted yet
    NoRecord        \* nothing applied yet

Statuses == {"pending", "approved", "applied", "expired"}

Entries ==
    [incident : Incidents, action : Actions, expires : Nat, status : Statuses,
     capability : Capabilities \cup {NoCapability},
     record : RecordIds \cup {NoRecord}, attempts : Nat]

Tables == [Approvals -> Entries \cup {NoEntry}]

Present(data) == {a \in Approvals : data[a] # NoEntry}
HasStatus(data, a, statuses) ==
    data[a] # NoEntry /\ data[a].status \in statuses

NewEntry(incident, action, now, ttl) ==
    [incident |-> incident, action |-> action, expires |-> now + ttl,
     status |-> "pending", capability |-> NoCapability, record |-> NoRecord,
     attempts |-> 0]

\* Mutant of Lapsed: a request is still alive at its expiry time.
LapsedLate(data, a, now) ==
    HasStatus(data, a, {"pending", "approved"}) /\ now > data[a].expires

\* _expire_if_needed: only a pending or approved request expires, at the
\* caller's clock reading.
Lapsed(data, a, now) ==
    HasStatus(data, a, {"pending", "approved"}) /\ now >= data[a].expires

Expire(data, a, now) ==
    IF Lapsed(data, a, now) THEN [data EXCEPT ![a].status = "expired"]
                            ELSE data

ExpireAll(data, now) ==
    [a \in Approvals |-> Expire(data, a, now)[a]]

\* Mutant of Grantable: an approved request is granted again.
GrantableAgain(data, a, now) ==
    HasStatus(data, a, {"pending", "approved"}) /\ ~Lapsed(data, a, now)

\* approve() on a pending request that has not lapsed.
Grantable(data, a, now) ==
    HasStatus(data, a, {"pending"}) /\ ~Lapsed(data, a, now)

Grant(data, a, capability) ==
    [data EXCEPT ![a].status = "approved", ![a].capability = capability]

\* approve(): why nothing is granted.
ApproveRefusal(data, a, now) ==
    IF data[a] = NoEntry THEN "unknown_approval_id"
    ELSE IF Lapsed(data, a, now) THEN "approval_expired"
    ELSE IF data[a].status = "approved" THEN "approval_approved"
    ELSE IF data[a].status = "applied" THEN "approval_applied"
    ELSE "approval_expired"

\* _find_by_capability
HoldersOf(data, capability) ==
    {a \in Present(data) : data[a].capability = capability}

PairAppliedElsewhere(data, a, incident, action) ==
    \E other \in Present(data) \ {a} :
      /\ data[other].status = "applied"
      /\ data[other].incident = incident
      /\ data[other].action = action

\* Mutant of Validation: the capability is good for any action of its incident.
ValidationOfAnyAction(data, a, incident, action, now) ==
    IF Lapsed(data, a, now) \/ data[a].status = "expired" THEN "approval_expired"
    ELSE IF data[a].status = "applied" THEN "approval_already_applied"
    ELSE IF data[a].status # "approved" THEN "approval_not_granted"
    ELSE IF data[a].incident # incident
         THEN "approval_capability_bound_to_different_incident"
    ELSE IF PairAppliedElsewhere(data, a, incident, action)
         THEN "action_already_applied"
    ELSE "accepted"

\* validate(): the checks on the entry that holds the capability, in order.
Validation(data, a, incident, action, now) ==
    IF Lapsed(data, a, now) \/ data[a].status = "expired" THEN "approval_expired"
    ELSE IF data[a].status = "applied" THEN "approval_already_applied"
    ELSE IF data[a].status # "approved" THEN "approval_not_granted"
    ELSE IF data[a].incident # incident
         THEN "approval_capability_bound_to_different_incident"
    ELSE IF data[a].action # action
         THEN "approval_capability_bound_to_different_action"
    ELSE IF PairAppliedElsewhere(data, a, incident, action)
         THEN "action_already_applied"
    ELSE "accepted"

\* Mutant of RecordAttempt: the outcome of the attempt becomes the status.
RecordAttemptAsStatus(data, a) ==
    IF a \in Present(data)
    THEN [data EXCEPT ![a].attempts = @ + 1, ![a].status = "failed"] ELSE data

\* record_attempt(): any known request, whatever its status.
RecordAttempt(data, a) ==
    IF a \in Present(data) THEN [data EXCEPT ![a].attempts = @ + 1] ELSE data

\* Mutant of MarkApplied: whatever the status is.
MarkAppliedAlways(data, a, record) ==
    IF a \in Present(data)
    THEN [data EXCEPT ![a].status = "applied", ![a].record = record]
    ELSE data

\* mark_applied(): silently nothing unless the request is approved.
MarkApplied(data, a, record) ==
    IF HasStatus(data, a, {"approved"})
    THEN [data EXCEPT ![a].status = "applied", ![a].record = record]
    ELSE data
===============================================================================
