-------------------------------- MODULE DemoArc --------------------------------
(***************************************************************************)
(* The demonstration (enterprise_mcp/demo.py, started by scripts/demo.sh   *)
(* or directly): a script that resets the API's action store, takes one    *)
(* runbook action through request, operator approval, a fault after the    *)
(* commit, resume and a last refused use, then shows that a read-only      *)
(* credential cannot mutate, and stops at the first thing it did not       *)
(* expect.  Each tool call runs in an MCP server process of its own        *)
(* (server.py, config.py), which goes on with it when the demo is killed.  *)
(*                                                                         *)
(* Several demos may be started against one API and one approval file,     *)
(* after each other or side by side.  The arc takes seconds and an         *)
(* approval lives for minutes, so that time stands still; the API is up    *)
(* and loses no response (Executor has both, and the steps inside a call). *)
(***************************************************************************)
EXTENDS Naturals, Sequences, FiniteSets, LedgerOps

CONSTANTS
    Demos,          \* the demos that are ever started
    MaxKills,       \* bound: demos killed
    NoEntry, NoCapability, NoRecord

Mutated  == "S2"    \* DEMO_ACTION_ID: the action of the arc
Refused  == "S3"    \* the action of the read-only part
Requested == Demos \X {Mutated, Refused}
Positions == 1..6
EarlierRecord == << >>      \* the record that may be there before every demo;
Created == Demos \X Positions  \* others are named by the call that creates them
Records == Created \cup {EarlierRecord}

\* A demo requests one approval for each of its actions; the pair stands for
\* the approval's id, and for its capability once it is granted.
INSTANCE ApprovalOps WITH
    Approvals <- Requested, Capabilities <- Requested, RecordIds <- Records,
    Incidents <- {"inc"}, Actions <- {Mutated, Refused}

PairOf(action) == <<"inc", action>>

ASSUME DemoAssumption == MaxKills \in Nat
ASSUME NoEntryAssumption == NoEntry \notin Entries
ASSUME NoCapabilityAssumption == NoCapability \notin Requested

-------------------------------------------------------------------------------
\* The servers' configuration

ToolNames == {"check_enterprise_api", "get_incident_context",
              "propose_incident_plan", "apply_incident_plan"}
DefaultTools == ToolNames \ {"apply_incident_plan"}

\* A value of ENTERPRISE_MCP_ENABLED_TOOLS: absent or blank, "all" or "*", or
\* the set of the names in it.  An unknown name or an empty list is an error, as
\* which the empty surface stands: such a server does not start.
ResolveEnabledTools(raw) ==
    CASE raw.kind = "unset" -> DefaultTools
      [] raw.kind = "all"   -> ToolNames
      [] OTHER -> IF raw.names \subseteq ToolNames THEN raw.names ELSE {}

ReadPlanTools == [kind |-> "list", names |-> DefaultTools]
AllTools      == [kind |-> "all", names |-> {}]

\* The calls of apply_incident_plan, in the order the demo makes them: with the
\* operator's capability or not, with a write token or not, and with a fault.
Script == <<
    [action |-> Mutated, granted |-> FALSE, write |-> TRUE,  inject |-> FALSE],
    [action |-> Mutated, granted |-> TRUE,  write |-> TRUE,  inject |-> TRUE],
    [action |-> Mutated, granted |-> TRUE,  write |-> TRUE,  inject |-> FALSE],
    [action |-> Mutated, granted |-> TRUE,  write |-> TRUE,  inject |-> FALSE],
    [action |-> Refused, granted |-> FALSE, write |-> FALSE, inject |-> FALSE],
    [action |-> Refused, granted |-> TRUE,  write |-> FALSE, inject |-> FALSE]>>

VARIABLES
    data,        \* the approval file
    ledger,      \* the API's action store
    created,     \* history: every record created, named by demo and position
    phase,       \* phase[d]: what demo d does next
    position,    \* position[d]: the call it is at
    before,      \* before[d]: store_count() before its first call
    server,      \* server[d]: the call its MCP server is executing
    kills,
    overlapped,  \* history: demos during which another one did something
    stale        \* history: demos started with their pair applied in the file

vars == <<data, ledger, created, phase, position, before, server, kills,
          overlapped, stale>>

NoServerCall == [step |-> "none", answer |-> "none", record |-> NoRecord]

EmptyFile == [a \in Requested |-> NoEntry]

Init ==
    /\ data = EmptyFile
    /\ ledger \in {<< >>,
                   <<NewRecord(<< >>, PairOf(Mutated), <<"direct">>, EarlierRecord)>>}
    /\ created = {}
    /\ phase = [d \in Demos |-> "off"]
    /\ position = [d \in Demos |-> 1]
    /\ before = [d \in Demos |-> 0]
    /\ server = [d \in Demos |-> NoServerCall]
    /\ kills = 0
    /\ overlapped = {}
    /\ stale = {}

Ended == {"off", "passed", "failed", "killed"}
Running == {d \in Demos : phase[d] \notin Ended}

\* d, or the server of its last call, does something: every other demo that
\* runs is no longer alone.
Acts(d) == overlapped' = overlapped \cup (Running \ {d})

Goto(d, next) == phase' = [phase EXCEPT ![d] = next]

-------------------------------------------------------------------------------
\* The demo up to its calls

\* demo.sh removes the approval file first; `python -m enterprise_mcp.demo`
\* keeps it.
Launch(d) ==
    /\ phase[d] = "off"
    /\ data' \in {EmptyFile, data}
    /\ stale' = IF \E a \in Present(data') :
                     data'[a].status = "applied" /\ data'[a].action = Mutated
                THEN stale \cup {d} ELSE stale
    /\ Goto(d, "reset")
    /\ Acts(d)
    /\ UNCHANGED <<ledger, created, position, before, server, kills>>

\* Mutant of Reset: the store is left as it is.
ResetNothing(d) ==
    /\ phase[d] = "reset"
    /\ Goto(d, "surface")
    /\ Acts(d)
    /\ UNCHANGED <<data, ledger, created, position, before, server, kills,
                   stale>>

\* POST /v1/admin/reset-actions
Reset(d) ==
    /\ phase[d] = "reset"
    /\ ledger' = << >>
    /\ Goto(d, "surface")
    /\ Acts(d)
    /\ UNCHANGED <<data, created, position, before, server, kills, stale>>

\* Steps 1 to 3: the mutating tool is absent from one server and present in the
\* other; reading and planning change nothing.  Then the records are counted.
CheckSurface(d) ==
    /\ phase[d] = "surface"
    /\ IF /\ "apply_incident_plan" \notin ResolveEnabledTools(ReadPlanTools)
          /\ "apply_incident_plan" \in ResolveEnabledTools(AllTools)
       THEN Goto(d, "call") ELSE Goto(d, "failed")
    /\ before' = [before EXCEPT ![d] = Len(ledger)]
    /\ UNCHANGED <<data, ledger, created, position, server, kills, overlapped,
                   stale>>

\* A server is started for the call of the demo's position.
Call(d) ==
    /\ phase[d] = "call"
    /\ server' = [server EXCEPT ![d] = [NoServerCall EXCEPT !.step = "decide"]]
    /\ Goto(d, "wait")
    /\ UNCHANGED <<data, ledger, created, position, before, kills, overlapped,
                   stale>>

-------------------------------------------------------------------------------
\* The server of a call

CurrentCall(d) == Script[position[d]]
OwnApproval(d) == <<d, CurrentCall(d).action>>

Serving(d, step) == server[d].step = step

Serve(d, step, answer, record) ==
    server' = [server EXCEPT ![d] =
                 [step |-> step, answer |-> answer, record |-> record]]

\* Gate 1: a call without a capability requests an approval.
ServerRequests(d) ==
    /\ Serving(d, "decide")
    /\ ~CurrentCall(d).granted
    /\ data' = [data EXCEPT ![OwnApproval(d)] =
                  NewEntry("inc", CurrentCall(d).action, 0, 1)]
    /\ Serve(d, "done", "pending_approval", NoRecord)
    /\ Acts(d)
    /\ UNCHANGED <<ledger, created, phase, position, before, kills, stale>>

\* Mutant of ServerValidates: a capability nobody holds is never answered.
ServerValidatesKnown(d) ==
    LET a == OwnApproval(d)
        verdict == Validation(data, a, "inc", CurrentCall(d).action, 0)
    IN  /\ Serving(d, "decide")
        /\ CurrentCall(d).granted
        /\ HoldersOf(data, a) # {}
        /\ IF verdict = "accepted" THEN Serve(d, "post", "none", NoRecord)
                                   ELSE Serve(d, "done", verdict, NoRecord)
        /\ UNCHANGED <<data, ledger, created, phase, position, before, kills,
                       overlapped, stale>>

\* Gate 2: the capability is validated.
ServerValidates(d) ==
    LET a == OwnApproval(d)
        verdict == IF HoldersOf(data, a) = {} THEN "unknown_approval_capability"
                   ELSE Validation(data, a, "inc", CurrentCall(d).action, 0)
    IN  /\ Serving(d, "decide")
        /\ CurrentCall(d).granted
        /\ IF verdict = "accepted" THEN Serve(d, "post", "none", NoRecord)
                                   ELSE Serve(d, "done", verdict, NoRecord)
        /\ UNCHANGED <<data, ledger, created, phase, position, before, kills,
                       overlapped, stale>>

\* require_write_token refuses the server's read token.
ApiRefuses(d) ==
    /\ Serving(d, "post")
    /\ ~CurrentCall(d).write
    /\ Serve(d, "record", "auth_failure", NoRecord)
    /\ UNCHANGED <<data, ledger, created, phase, position, before, kills,
                   overlapped, stale>>

\* The handler commits or finds a settled action; with error_after_commit the
\* server sees a 500 for either of its successes.
ApiHandles(d) ==
    LET p == PairOf(CurrentCall(d).action)
        id == <<d, position[d]>>
        answer == SettledAnswer(ledger, p, p)
        Outcome(kind) == IF CurrentCall(d).inject /\ kind \in {"created", "replayed"}
                         THEN "failed" ELSE kind
    IN  /\ Serving(d, "post")
        /\ CurrentCall(d).write
        /\ \/ /\ IsFresh(ledger, p, p)
              /\ ledger' = Append(ledger, NewRecord(ledger, p, p, id))
              /\ created' = created \cup {[id |-> id, pair |-> p]}
              /\ Serve(d, "record", Outcome("created"), id)
           \/ /\ ~IsFresh(ledger, p, p)
              /\ Serve(d, "record", Outcome(answer.kind), answer.record.id)
              /\ UNCHANGED <<ledger, created>>
        /\ Acts(d)
        /\ UNCHANGED <<data, phase, position, before, kills, stale>>

\* The executor records the attempt and, if it was confirmed, marks the approval
\* applied.
ServerRecords(d) ==
    LET a == OwnApproval(d)
        attempted == RecordAttempt(data, a)
    IN  /\ Serving(d, "record")
        /\ data' = IF server[d].answer \in {"created", "replayed",
                                            "already_applied"}
                   THEN MarkApplied(attempted, a, server[d].record)
                   ELSE attempted
        /\ Serve(d, "done", server[d].answer, server[d].record)
        /\ Acts(d)
        /\ UNCHANGED <<ledger, created, phase, position, before, kills, stale>>

-------------------------------------------------------------------------------
\* The demo between its calls

\* Mutant of AsExpected: the resumed call may as well have been the first.
AsExpectedOrCreated(d) ==
    LET answer == server[d].answer IN
    CASE position[d] \in {1, 5} -> answer = "pending_approval"
      [] position[d] = 2 -> answer \in {"failed", "key_binding_conflict"}
      [] position[d] = 3 -> answer \in {"created", "replayed"}
      [] position[d] = 4 -> answer = "approval_already_applied"
      [] position[d] = 6 -> answer = "auth_failure"

\* What the demo requires of the answer and of store_count(), call by call.
AsExpected(d) ==
    LET answer == server[d].answer IN
    CASE position[d] = 1 -> answer = "pending_approval" /\ Len(ledger) = before[d]
      [] position[d] = 2 -> answer \in {"failed", "key_binding_conflict"}
      [] position[d] = 3 -> answer = "replayed" /\ Len(ledger) = 1
      [] position[d] = 4 -> answer = "approval_already_applied" /\ Len(ledger) = 1
      [] position[d] = 5 -> answer = "pending_approval"
      [] position[d] = 6 -> answer = "auth_failure" /\ Len(ledger) = 1

Advance(d) == position' = [position EXCEPT ![d] = @ + 1]

\* The demo has the answer, which is made since the server's last step (others
\* may have acted after it), requests the count and checks both; after a request
\* the operator is next.
Check(d) ==
    /\ phase[d] = "wait"
    /\ Serving(d, "done")
    /\ server' = [server EXCEPT ![d] = NoServerCall]
    /\ \/ ~AsExpected(d) /\ Goto(d, "failed") /\ UNCHANGED position
       \/ /\ AsExpected(d)
          /\ \/ position[d] \in {1, 5} /\ Goto(d, "approve") /\ UNCHANGED position
             \/ position[d] \in {2, 3, 4} /\ Goto(d, "call") /\ Advance(d)
             \/ position[d] = 6 /\ Goto(d, "passed") /\ UNCHANGED position
    /\ UNCHANGED <<data, ledger, created, before, kills, overlapped, stale>>

\* The operator's command, in a process of its own, for the demo's request.
Approve(d) ==
    LET a == OwnApproval(d) IN
    /\ phase[d] = "approve"
    /\ IF Grantable(data, a, 0)
       THEN data' = Grant(data, a, a) /\ Goto(d, "call") /\ Advance(d)
       ELSE UNCHANGED <<data, position>> /\ Goto(d, "failed")
    /\ Acts(d)
    /\ UNCHANGED <<ledger, created, before, server, kills, stale>>

\* The demo is killed, or a count or a session raises what is no DemoFailure:
\* its server still executes the call it has.
Kill(d) ==
    /\ kills < MaxKills
    /\ phase[d] \notin Ended
    /\ kills' = kills + 1
    /\ Goto(d, "killed")
    /\ UNCHANGED <<data, ledger, created, position, before, server, overlapped,
                   stale>>

-------------------------------------------------------------------------------
ServerStep(d) ==
    \/ ServerRequests(d) \/ ServerValidates(d)
    \/ ApiRefuses(d) \/ ApiHandles(d) \/ ServerRecords(d)

DemoStep(d) ==
    Reset(d) \/ CheckSurface(d) \/ Call(d) \/ Check(d) \/ Approve(d)

Next == \E d \in Demos : Launch(d) \/ DemoStep(d) \/ ServerStep(d) \/ Kill(d)

Spec == Init /\ [][Next]_vars

\* A demo that is running goes on, and so do its servers and the API they call.
FairSpec ==
    Spec /\ \A d \in Demos : WF_vars(DemoStep(d)) /\ WF_vars(ServerStep(d))

-------------------------------------------------------------------------------
\* Properties

Answers ==
    {"none", "pending_approval", "failed", "auth_failure", "created",
     "replayed", "already_applied", "key_binding_conflict",
     "unknown_approval_capability", "approval_already_applied",
     "approval_not_granted", "action_already_applied"}

\* The type invariant; a demo waits exactly while a server has a call of its.
TypeOK ==
    /\ data \in Tables
    /\ WellFormed(ledger)
    /\ created \subseteq [id : Created, pair : {PairOf(Mutated), PairOf(Refused)}]
    /\ phase \in [Demos -> Ended \cup {"reset", "surface", "call", "wait",
                                      "approve"}]
    /\ position \in [Demos -> Positions]
    /\ before \in [Demos -> 0..1]
    /\ server \in [Demos -> [step : {"none", "decide", "post", "record", "done"},
                            answer : Answers,
                            record : Records \cup {NoRecord}]]
    /\ \A d \in Demos :
         phase[d] # "killed" => (phase[d] = "wait") = ~Serving(d, "none")
    /\ kills \in 0..MaxKills
    /\ overlapped \cup stale \subseteq Demos

\* What a passed demo claims is so, also when another demo resets the store,
\* removes the approval file or applies the same action meanwhile: of its own
\* calls only the one that reported a fault changed anything; its approval, if
\* the file still has it, is applied to a record of its pair; and the grant of
\* the read-only part is not consumed, nor its action ever applied.
PassedIsTrue ==
    \A d \in Demos : phase[d] = "passed" =>
      /\ \A record \in created : record.id[1] = d => record.id = <<d, 2>>
      /\ HasStatus(data, <<d, Mutated>>, Statuses) =>
           \E record \in created :
             /\ data[<<d, Mutated>>].status = "applied"
             /\ data[<<d, Mutated>>].record = record.id
             /\ record.pair = PairOf(Mutated)
      /\ ~HasStatus(data, <<d, Refused>>, {"applied"})
      /\ \A record \in created : record.pair # PairOf(Refused)

\* A failed demo is somebody's doing, never the arc's: one that has the API and
\* the approval file to itself, whatever earlier demos left in the store, passes
\* unless the file it kept says that its action has been applied (which the
\* reset of the action store does not undo); and then it does not pass.
VerdictExplained ==
    \A d \in Demos \ overlapped :
      /\ phase[d] = "failed" => d \in stale
      /\ phase[d] = "passed" => d \notin stale

\* A demo that is started comes to an end, though its approvals may disappear
\* under it and another demo resets what it has done.
DemoEnds == \A d \in Demos : phase[d] = "reset" ~> phase[d] \in Ended
===============================================================================
