# Verification of the Hermes enterprise deployment lab

TLA+ models of the lab's approval-gated mutation path, from the operator's grant to
the record in the API's store: modules, TLC configurations, and proofs checked by
TLAPS. The lab's promise is that one approved runbook action has one effect, however
its calls interleave, time out, lose their answers or die. That promise rests on two
JSON files guarded by locks, on a deterministic idempotency key and on the order in
which four components take their steps; these are the core of what is modelled. Around
it stand the review graph with its evaluator, the life of the tracing provider, and the
demonstration that drives the whole arc.

## The system

| Part | State | Operations | Talks to |
|---|---|---|---|
| Action store `enterprise-api/app/store.py` | JSON file, temp file, per-process record list with two indexes, thread lock, flock | `commit`, `reset`, three reads, construction | called by the API handlers |
| API handlers `enterprise-api/app/main.py` | none (fixtures are constants) | POST of an action with failure injection, reset, reads, health | action store |
| API client `workflow-runner/.../client.py` | correlation id | GETs, POST; classifies answers, times out | API over HTTP |
| Executor `workflow-runner/.../executor.py` | none of its own | `apply_incident_action`: look-up, two gates, dispatch, bookkeeping | client, approval store, audit log |
| Approval store `workflow-runner/.../approvals.py` | JSON file, process lock and flock | `request`, `get`, `approve`, `validate`, `record_attempt`, `mark_applied`, `all_requests` | called by executor and operator command |
| Operator command `workflow-runner/.../approval_operator.py` | none | `approve` one request, print the capability | approval store, audit log |
| Audit log `workflow-runner/.../audit.py` | append-only JSON lines | `append`, reads | file shared by all processes |
| MCP server `enterprise_mcp/server.py`, `config.py` | none; its environment | four tools, filtered by an allowlist; a process per client | executor, client |
| Context tools, planner | none | read fixtures, format a plan | client |
| Review graph `agent_workflow/` | the graph's state | retrieve, analyze, safety review, finalize; the evaluator | nothing |
| Tracing (API and runner) | `_provider`, `_configured`, the global provider | configure, ensure, get a tracer, shut down, reset | middleware, client, executor; OTLP exporter |
| Middleware, metrics, correlation | counters | a span, a count and a log line per request | tracing |
| Demo `enterprise_mcp/demo.py`, `scripts/demo.sh` | where it is in its script | reset, six mutating calls, two operator commands, a verdict | MCP servers, API, operator command |
| Smoke client, proof scripts, infrastructure, alerts | none | drive or deploy the rest | |

What is hard here: several MCP server processes (one is spawned per client), the
operator's process and API workers run concurrently on shared files; a request has no
transaction across them. A response can be lost after the write, a client can give up
while its POST is still in the handler, an approval can expire while its POST is in
flight, a process can die between any two steps, and holders of the write token can
post directly. Threads of one process share a tracing provider that one of them may be
replacing; runbook documents may change between a review and its evaluation; a demo
resets one of the two files and not the other. What makes each part correct:

* action store: one record per key and per pair; nothing lost; nothing shown that a
  restart would forget; every operation atomic;
* approval store: one grant per request, terminal states, acceptance decided on
  current state and on exact bindings, locks given back;
* executor: no effect without a grant and an audited intent, one effect, a grant
  consumed only by its own effect and surviving failures, every call ends;
* audit log: nothing reported is lost, order kept;
* review graph: what passes the evaluator is what the documents say now, gated where
  they say so; what the graph makes of sound documents passes;
* tracing: one provider up, and a request that was to be traced is;
* demo: a pass is true, a failure has a cause outside the arc, each demo ends.

`PROJECT.json` lists the hazards at their lines with the properties that watch them.

## Modules

| Module | Models | State and actions |
|---|---|---|
| `LedgerOps` | the decision of `commit` | operators on a record list: fresh, replay, the two conflicts, the load-time checks |
| `ActionLedger` | what the action store promises | one list; each call takes effect at one instant, or fails without effect |
| `ActionStore` | `store.py` | one action per step: the two locks, reload, decision, write of the temp file, rename, publication, the two releases; a lock file that cannot be opened, I/O errors, crash, restart |
| `ActionStore_proofs` | | the theorems about `ActionStore` |
| `ApprovalOps` | the decisions of the approval store | operators on the table: expiry, grant, validation in the order of its checks, attempts, `mark_applied` |
| `ApprovalLifecycle` | what the approval store promises | none → pending → approved → applied, or expired; one capability, handed out once |
| `ApprovalStore` | `approvals.py` | `Begin` reads the clock, `Load` takes the lock and reads the file, one `Decide…` per operation and outcome, `Save`, `Return`; a lock that fails (`LockFails`), a load that raises under it (`LoadRaises`), failing saves, crash, clock |
| `Executor` | `executor.py` with client, handlers, operator, direct callers and reset | one action per step of a run; POSTs travel and are handled, late or not at all; composes `LedgerOps` and `ApprovalOps` |
| `AuditLog` | `audit.py` | lock of the process, count of the lines, append, release; failure with nothing or with part of the line written, crash |
| `ReviewGraph` | `graph.py`, `retrieval.py`, `evaluation.py` | one action per node, and `AnalyzeRaises` for a document without a key that `analyze` reads; revision of the documents and alteration of the result; the evaluation, one operator per group of its checks |
| `Tracing` | both `tracing.py`, with the lifespan, the middleware and the client as users | one action per read or write of the globals that another thread can see; `_LOCK`; `ChangeEnvironment`, which opts tracing in or out |
| `DemoArc` | `demo.py`, `demo.sh`, `config.py`, `server.py`, `auth.py` | the script of calls as a sequence; the steps of a demo, and those of the server process of its current call, which outlives it; composes `LedgerOps` and `ApprovalOps` |
| `ApprovalStore_proofs`, `Executor_proofs`, `AuditLog_proofs`, `ReviewGraph_proofs`, `Tracing_proofs`, `DemoArc_proofs` | | the theorems about these modules |
| `Flattening` | | what the library's `FlattenSeq` computes, proved for sequences of any length |
| `MC…` | | instances for TLC |

`Executor` and `DemoArc` use the stores at the granularity of their abstract
specifications: a
commit is one step on the ledger and an operation on the approval table is one step on
the table. For the ledger this is what `StoreImplementsLedger` proves of `ActionStore`;
for the approval table it is what `StoreImplementsLifecycle`, with `AcceptanceIsCurrent`
and `TerminalRequestsStay`, proves of `ApprovalStore`. That the decisions of the two
levels are the same is by construction: both take them from `LedgerOps` and
`ApprovalOps`. The clock reading an operation takes before it waits for the lock is a separate, earlier step in
`ApprovalStore` and in `Executor`.

The file of `ApprovalStore` is replaced in one step (`Save`): its temp file is written
and renamed under the lock, and nobody else opens that name. A process that dies in
between leaves a temp file that the next writer overwrites. In `ActionStore` the two are
separate steps, because memory is published after them.

`Executor` keeps two histories for its properties: `sinceReset`, the records created
since the last reset of the ledger, and `posted`, the records created for the POST of a
run and not of a direct caller. No action reads them.

Data is abstracted to what decides: a record is its id, pair, key and sequence number;
an entry of the approval table is its binding, expiry, status, capability, applied
record and number of attempts; a capability stands for its own hash and an idempotency
key for the pair it is derived from (SHA-256 taken as injective); ids that come from
`uuid4` or `secrets` do not repeat. A POST's outcome is one of the five kinds the
executor tells apart. Definitions whose comment begins with "Mutant of" are faulty
variants of the definition below them; nothing uses them, and they document which
mistake each property catches.

In `ReviewGraph` a document's text is its set of terms and a digest stands for the
fields it is computed from. Action ids and descriptions may be of any type: `Str` is
Python's `str()`, given by the constant `Printed` for the values that are not strings,
and `Got` is `dict.get`, which gives `None` for an absent key. The digests are taken of
the printed fields (`evaluation.py:16`, `:18`), and the graph emits printed ones
(`graph.py:47`, `:54`), while the documents keep what they hold: a digest of the raw
fields (`DigestRaw`) would reject every result over such a document, which is what
`test_agent_workflow.py:561-589` guards against. `AlteredResults` are changes to one part of a result: a list with a
member less or more, another value in a field of an action, a missing key. Two of them
may follow each other, so that a change can be covered up by a second one. In `Tracing`
the API's and the runner's module are one, as their code is the same. In `DemoArc` a server's answer
is made at its last step and the demo counts the store in a later one (`Check`), between
which others may act; time
stands still and the API neither loses nor delays an answer: those are `Executor`'s
part, and an arc takes seconds where an approval lives for minutes.

## Runs

| Run | Question | Bounds, and why they do |
|---|---|---|
| `store_files` | types, one record per key and pair, `NoPhantom`, `AppendOnly`, the atomic ledger; both locks are given back | 2 processes, 3 threads (two sharing a process), 2 pairs, 2 keys, 2 records minted, the commits `ReplayedAndClashing` of them: the smallest with thread and process contention, replay and both conflicts |
| `approvals_safety` | one grant, terminal states, acceptance, lifecycle | 2 workers in processes of their own, 2 requests, 2 capabilities, time 0..1 with a TTL of 1; every stale copy needs only two workers |
| `approvals_live` | the lock is given back, also when the lock file cannot be opened or the load raises; bindings | one request, 2 incidents × 2 actions |
| `executor_safety` | grant and intent before effect, one effect, truthful audit log; every call ends | 2 runs at a time, 3 calls in all, the first approval already granted and a second one of the pair to come, a direct caller, one reset |
| `executor_pairs` | effects and grants of two actions, expiry | 2 runs, 3 calls, one approval that is granted at the start, direct callers with made-up keys and with the workflow's keys for any pair |
| `executor_applied` | finding 1 below | 2 runs, 3 calls |
| `executor_confirmed` | finding 2 below | 2 calls, time 0..1 |
| `audit_processes` | nothing returned is lost, order in a process | 2 threads and an operator's process, 4 writes, each of which may be torn |
| `audit_torn` | finding 3 below | the same, 2 writes |
| `review` | what passes, what the graph makes, what is retrieved | 12 libraries of 1 to 3 documents (sound, revised, with clashing, empty or missing data, with numbers and null for ids and descriptions, with 42 and "42" side by side), 4 questions, at most 2 documents retrieved, 2 alterations: enough for a tie at the limit, an empty result, an action id in two documents, and an alteration that covers up another |
| `tracing` | one provider up, wanted spans exported | 2 requests and the main thread, 4 providers, so that supplied exporters, a shutdown and a request's own configuration can follow each other |
| `demo` | passes are true, failures explained, demos end | 2 demos, one killed; the store may hold a record before; 3 demos are out of TLC's reach |

`MaxRecords`, `MaxTime`, `MaxAttempts`, `MaxCalls`, `MaxResets`, `MaxPieces`,
`MaxProviders`, `MaxAlterations` and `MaxKills` bound counters that the code does not
bound; `Limit` is the retriever's, whose default is 3. A request for an approval is only
begun while an id is left for it, and a run whose call is counted can finish it, so that
no bound stops a run half-way. `MaxRecords` of `ActionStore` counts records
ever built, so a reset does not give an id back. `Commits` of `ActionStore` is a bound
too: the commits that callers ask for. Symmetry is used only in runs without liveness properties, on
sets whose members no definition tells apart.

The three findings are places where the code does something other than what a document
or a test states:

1. `AppliedNeverDispatches`: two calls with one capability both pass `validate`; the
   second dispatches after the first has marked the approval applied. The module's
   docstring says it cannot. The effect is still single (`OneEffectPerReset`): the
   second is a replay.
2. `ConfirmedIsApplied`: `mark_applied` silently does nothing for an approval that
   expired in flight; ADR 005 says a confirmed apply becomes `applied`.
3. `OneEventPerLine`: a write that fails half-way leaves part of a line, and the next
   entry, which its caller is told was written, is glued to it; `read_events` raises on
   that line from then on. The module's docstring says that every event is one JSON
   object on one line. One thread is enough for it.

What the other properties had to be weakened for:

* `ReturnedIsLogged` and `OrderWithinProcess`: an entry glued to a torn line (finding 3)
  counts as logged, and as it adds no line its number is used again. Numbers of
  different processes may be the same; ADR 004 (lines 128-129) disclaims contention of
  processes for this file.
* `GraphJudgedRight`: two retrieved documents that share an action id, as it is printed
  (42 in one and "42" in the other), make a result that its own evaluator rejects; so does a consequential action whose id is the word
  `unknown`, which the evaluator also uses for an action without an id. A result that
  does not declare that one passes (`PassedIsFaithful`). A result
  also passes without `consequential_action_ids`, with `executed_actions` that are null,
  and with actions left out; and an absent description is taken for the word `None`.
  `PassedIsFaithful` allows these, and asks that what the result does say is true.
* `VerdictExplained`: the demo's reset ("Deterministic start: clear the fixture store.")
  clears the action store and not the approval file. `demo.sh` removes that file;
  `python -m enterprise_mcp.demo` over a file in which the pair is applied fails at its
  fault step.

## Fairness

Safety needs none. `FairSpec` of `ActionStore` and `ApprovalStore` asks for weak
fairness of a worker's own steps: a thread that can go on does. That is enough for
"a lock that was taken is given back", because its holder waits for nobody. Nothing
says that a waiting thread gets a contended lock: neither `threading.Lock` nor `flock`
is fair, and no property claims it. `FairSpec` of `Executor` asks for weak fairness of
a run's steps; the client's timeout (`httpx`, always set) is one of them, so a silent
API does not hold a run. There is no fairness for the API, the operator, direct
callers, crashes or the clock. `FairSpec` of `DemoArc` asks for it of a demo's steps and
of its servers': these are plain sequential programs, the API they call is up, and the
operator is a command the demo itself runs. Demos need not be started, and the model
stops when all have ended (the only run without a deadlock check). A response that trickles in forever, each read within
the timeout, is not modelled: the API answers with one short body.

## Proofs

The theorems hold for every value of the constants that satisfies the assumptions: all
sets of processes, threads, runs, approvals, capabilities, pairs, keys, requests,
libraries and demos, and all bounds.

| Module | Theorem | Statement |
|---|---|---|
| `ActionStore_proofs` | `TypesCorrect` | `Spec => []TypeOK` |
| | `OneRecordPerAction` | `Spec => []LedgerWellFormed` |
| | `DurableBeforeVisible` | `Spec => []NoPhantom` |
| | `NothingLost` | `Spec => AppendOnly` |
| | `StoreImplementsLedger` | `FileBacked => (Spec => ImplementsLedger)` |
| `ApprovalStore_proofs` | `TypesCorrect` | `Spec => []TypeOK` |
| | `OneCapabilityPerRequest` | `Spec => []OneGrant` |
| | `TerminalRequestsStay` | `Spec => TerminalStays` |
| | `AcceptanceIsCurrent` | `Spec => AcceptedIsCurrent` |
| | `StoreImplementsLifecycle` | `Spec => ImplementsLifecycle` |
| `Executor_proofs` | `TypesCorrect` | `Spec => []TypeOK` |
| | `EffectsAreGranted` | `Spec => []NoEffectWithoutGrant` |
| | `EffectsAreOncePerReset` | `Spec => []OneEffectPerReset` |
| | `AppliedNamesItsRecord` | `Spec => []AppliedForItsRecord` |
| | `AuditTellsTheTruth` | `Spec => []AuditTruthful` |
| | `GrantsOutliveFailures` | `Spec => GrantOutlivesFailure` |
| `AuditLog_proofs` | `TypesCorrect` | `Spec => []TypeOK` |
| | `ReturnedEntriesAreLogged` | `Spec => []ReturnedIsLogged` |
| | `NumbersGrowWithinProcess` | `Spec => []OrderWithinProcess` |
| `ReviewGraph_proofs` | `TypesCorrect` | `Spec => []TypeOK` |
| | `PassedResultsAreFaithful` | `Spec => []PassedIsFaithful` |
| | `GraphIsJudgedRight` | `Spec => []GraphJudgedRight` |
| | `SearchFindsTheBest` | `Spec => []RetrievesTheBest` |
| `Tracing_proofs` | `TypesCorrect` | `Spec => []TypeOK` |
| | `NoProviderLeaks` | `Spec => []OneProviderUp` |
| | `WantedSpansAreExported` | `Spec => []WantedSpanIsExported` |
| `DemoArc_proofs` | `TypesCorrect` | `Spec => []TypeOK` |
| | `PassedDemosTellTheTruth` | `Spec => []PassedIsTrue` |
| | `VerdictsAreExplained` | `Spec => []VerdictExplained` |

The assumptions are named in the module that declares the constants, and TLC evaluates
them in the runs. They are of three kinds: a sentinel is not an ordinary value
(`FreeAssumption`, `SentinelAssumption`, `NoEntryAssumption`, `NoCapabilityAssumption`,
`NoAnswerAssumption`); a bound is a natural number (`BoundAssumption`, `TTLAssumption`
and their like); and the shape of what is given: every thread or writer belongs to a
process, approvals, incidents and actions are finite sets (the effects are counted
against them), what is granted at the start is granted for a pair, a question is a
finite set of terms, a library a finite sequence of documents whose ids can be compared
(`LibrariesAssumption`: an action's id and description is a string, or absent, or a value
of another type that `Printed` prints), and what is printed is a string
(`PrintedAssumption`).

### Why the properties hold

None of the properties is inductive alone. In each proof module `IInv` is, as a
conjunction of named parts; each action has a lemma that it keeps `IInv`, with one step
per part the action can disturb.

*Action store.* That a well-formed file stays so needs that the list about to be written
extends the file *as it is now*, which needs that memory has been the file since the
reload, which needs that the file's lock has been held since. `IInv` says these in
order: `LocksHeld`, `MemoryIsFile`, `ProspectiveIsNext` (what is being written is the
memory and one record fresh for it, or nothing), `TempIsOwn` (the shared temp file is
the writer's own at its rename) and `DurableFirst`, with `CallsMatchSteps`,
`DeadAreIdle` and `WritesAreFileBacked` for the control state. The refinement maps the
ledger to the file and an answer to the abstract one from the publication step on: the
rename is the step at which a commit takes effect, a replay, conflict, read or error
takes effect at its decision, everything else stutters.

*Approval store.* Whoever decides holds the lock (`LockHeld`), so the copy it decides on
is the file (`CopyIsData`), so what it saves is one step of the lifecycle from the file
(`SaveIsOneStep`, whose cases are a request, an expiry, a grant, an attempt, an
application). `WellGranted` says that a status and a capability go together and that no
two requests share one; `HandedOutOnce`, that a capability still to be returned has been
returned to nobody. The refinement maps the abstract table to the file and takes the
save as the step; a request that has lapsed but has not been looked at is still
pending or approved in both.

*Executor.* `RunInv` says what a run at each step knows: its capability was granted for
its pair (`RunsAreGranted`), its intent is on the audit log (`IntentAudited`), its
response names a record the API made for its pair (`ResponsesTrue`), a creation is
answered to one run only (`CreatedOnce`), and a POST under way belongs to an earlier call
(`PostsMatch`, `CallsDiffer`). These need that no operation takes a grant away, which is
the content of `Kept`, proved of each operator on the table. Once a run's look-up and
validation are behind it the table may change under it: the argument never uses that
the approval is still approved, only that it was granted, which is why the effect of a
run whose approval has been applied meanwhile (finding 1) is harmless. `RecordInv` counts:
`LedgerCounted` says that the records created since the last reset are those on the
ledger, and this, with `UniquePairs` of the ledger, is `OneEffectPerReset`.
`GrantOutlivesFailure` asks that the record an approval is applied with is one a run of
this approval was told of (`ToldOf`): a grant whose run lost its answer after the commit
is kept, as `ResponsesTrue` and the step of `MarkConfirmed` show.

*Audit log.* The lock of the process is held from the count to the write (`LockHeld`),
and the number counted is still above every number of the process (`NumberIsNext`,
`NumbersCounted`) because other processes' lines can only make the count larger, and one
glued to a torn line is the exception the property names. `WrittenIsLogged` carries a
line from its write to its return.

*Review graph.* The evaluator's soundness is an argument about one state: no violation
in any of its groups of checks means that each action's digest is one of the first
document with its citation's id, that this is the only document with that id, that a
digest determines the fields, and that the gate follows the field
(`DigestsAreOfTheDocument`, `CitationsAreRetrieved`, `ProvenanceIsTheDocuments`,
`ActionsAreReviewed`, `DeclaredAreGated`, put together in `NoViolationIsFaithful`). The
retriever's is a pigeonhole argument: `Before` is a strict total order, so the ranks of
the hits are exactly 1 to their number (`RanksAreNumbers`), so each place of the result
is taken by one hit, and a hit with a higher score than a retrieved one has a smaller
rank (`SearchReturns`).

That a result nobody touched passes exactly if its documents can be reviewed is an
argument about the whole run, so `IInv` has to say what each node has made of the
retrieved documents (`MadeBefore`). The nodes flatten sequences of sequences:
the lemma `FlattenNumbers` of the module `Flattening` says that each action of each document has
exactly one place in the flattened list, and nothing else has one. `FlattenSeq` is a
recursive function and the library's induction rules are out of the provers' reach, so
the induction is done by hand, with the least number for which the claim would fail
(`LeastNumber`, `SetInduction`). From the numbering follow what the three lists of a
result contain (`ProvenanceListed`, `ActionsListed`, `ConsequentialListed`), and from
these that each group of the evaluator's checks finds nothing (`UntouchedProvenance`,
`UntouchedStatus`, `UntouchedActions`, `UntouchedDeclared`). The other direction is the
evaluator's soundness again (`PassedIsReviewable`).

*Tracing.* `ProvidersInStep` says, for each step under `_LOCK`, which of the providers
built are up, published and global; `ResetAlone`, that the test-only reset runs with
nobody else; `RoomToPublish`, that the bound on providers is met before one is built.
`WantedIsUp` follows a request's provider from its use to its end.

*Demo.* Two parts. What others may do to a demo: `FileInv`, `StoreInv`, `CreatedInv`
(a record that a demo's call created is the one of the call with the fault, or its answer
gives it away, `CreatedAsAnswered`) hold whatever the demos do, and give `PassedIsTrue`.
What a demo does when it is alone: `OnCourse` says at each place of its script where its
record and its two approvals are (`ArcStore`, `ArcFile`) and what its server has answered
(`ArcAnswer`), and gives `VerdictExplained`. Each action of a demo keeps its own part
and leaves the others' alone (`LeavesOthers`).

### Only model-checked

* Every liveness property (`LocksReleased`, `LockReleased`, `RunEnds`, `DemoEnds`):
  fairness is out of the prover's reach.
* The violations that the three findings rest on.

## Not modelled

The reading tools of the MCP server, the context tools and the planner hold no state and
nothing downstream reads what they return. Of the configuration only the allowlist
decides something; its "unset" branch is translated, but the demo always sets it.
Correlation ids, metrics and log lines decide nothing. In tracing, the sanitising of
attributes and the bounded events are left out: they depend on wording, and change no
state that is read back (two of the executor's events and one of its reasons are not in
the allowed sets and are dropped silently; the hazards list has them). The evaluator's
three scores are left out; `passed` does not depend on them. `total_actions_for_incident`,
which the handler counts after the commit has released its lock, may be stale; it is only
copied into the tool's result, and is left out. `README.md:158` of the
repository speaks of tenant scope, for which `agent_workflow/` has no code.

The protocol smoke client calls the reading tools once, in sequence. The proof scripts
(`otlp-capture.py`, `trace_proof_verify.py`, the asset pins and the shell scripts)
collect evidence around external tools; infrastructure and alert rules are declarative.
A `flock` that is not honoured (network file systems), an audit entry larger than the
file's write buffer, and `fsync` (a power failure after the rename) are outside the
models; crashes are of processes, not of the machine.

## Plan

Done: every module above, with its runs; proofs of every safety invariant and action
property the runs check. Left, in order:

1. `Executor` against the abstract stores: each of its steps changes `ledger` as a step of
   `ActionLedger` may, and `data` as a step of `ApprovalLifecycle` may, as theorems
   instead of by construction.
2. The GETs of the API client, and the events the tracing modules admit.
