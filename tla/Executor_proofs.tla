---------------------------- MODULE Executor_proofs ----------------------------
(***************************************************************************)
(* Theorems about Executor for every set of runs, approvals and pairs and  *)
(* every bound: its types, that no effect precedes its grant and its       *)
(* audited intent, that at most one effect per pair and reset is left, and *)
(* that approvals and audit log tell the truth about the records.          *)
(***************************************************************************)
EXTENDS Executor, FiniteSetTheorems, TLAPS

-------------------------------------------------------------------------------
\* The inductive invariant

\* A run past its acceptance, past its intent, and past its response.
Accepted == {"intent", "dispatch", "wait", "record", "mark", "audit"}
Intended == Accepted \ {"intent"}
Answered == {"record", "mark", "audit"}

\* What a run knows of its call at each step.
RunsMatch ==
    \A r \in Runs :
      /\ pc[r] \in {"idle", "lookup"} => mine[r] = 0
      /\ pc[r] # "idle" => pair[r] \in Pairs
      /\ pc[r] \notin {"idle", "lookup"} => mine[r] \in 1..calls
      /\ pc[r] = "validate" => capability[r] # NoCapability
      /\ pc[r] \in Accepted => approval[r] \in Approvals
      /\ pc[r] \in Answered => got[r] # NoAnswer
      /\ at[r] <= clock

\* No two runs are the same call.
CallsDiffer ==
    \A r, s \in Runs : mine[r] = mine[s] => r = s \/ mine[r] = 0

\* A POST under way is of an earlier call, for the pair of its run.
PostsMatch ==
    \A post \in posts :
      /\ post.call <= calls
      /\ \A r \in Runs : mine[r] = post.call => pair[r] = post.pair

\* An accepted run has a grant for its pair, and so has all that is audited.
RunsAreGranted ==
    /\ \A r \in Runs : pc[r] \in Accepted =>
         EverGranted(approval[r]) /\ BoundTo(approval[r]) = pair[r]
    /\ \A e \in audit : EverGranted(e.approval)

IntentAudited ==
    \A r \in Runs : pc[r] \in Intended =>
      \E e \in audit : /\ e.event = "mutation_attempted"
                       /\ e.call = mine[r]
                       /\ e.approval = approval[r]

\* A confirming response names a record of the run's pair.
Confirmed(r) == pc[r] \in Answered /\ got[r].kind \in Confirming
ResponsesTrue ==
    \A r \in Runs :
      /\ Confirmed(r) =>
           \E record \in created :
             record.id = got[r].record /\ record.pair = pair[r]
      /\ pc[r] = "mark" => got[r].kind \in Confirming

\* A creation is answered once: to one run, which has not audited it yet.
Creator(r) == pc[r] \in Answered /\ got[r].kind = "created"
CreatedOnce ==
    \A r \in Runs : Creator(r) =>
      /\ \A s \in Runs : Creator(s) /\ got[s].record = got[r].record => s = r
      /\ \A e \in audit :
           e.event = "mutation_committed" => e.record # got[r].record

\* Ids are given out in order.
IdsCounted ==
    /\ IsFiniteSet(created)
    /\ \A record \in created : record.id <= Cardinality(created)

\* The ledger holds one record per pair, all that was created since the last
\* reset, and each reset before accounts for at most one record per pair.
LedgerCounted ==
    /\ ledger \in Seq(Records)
    /\ UniquePairs(ledger)
    /\ sinceReset = RecordsIn(ledger)
    /\ Cardinality(created) <= Cardinality(Pairs) * resets + Len(ledger)

\* The parts of the invariant, by what they are about.
WorldTypes ==
    /\ data \in Tables
    /\ clock \in 0..MaxTime
    /\ known \subseteq Approvals
    /\ posts \subseteq Posts
    /\ calls \in 0..MaxCalls
    /\ audit \subseteq AuditEntries

RecordTypes ==
    /\ created \subseteq Records
    /\ RecordsIn(ledger) \subseteq created
    /\ sinceReset \subseteq created
    /\ posted \subseteq created
    /\ resets \in 0..MaxResets

RunTypes ==
    /\ pc \in [Runs -> {"idle", "lookup", "request", "validate", "intent",
                       "dispatch", "wait", "record", "mark", "audit"}]
    /\ pair \in [Runs -> Pairs \cup {NoPair}]
    /\ capability \in [Runs -> Approvals \cup {Forged, NoCapability}]
    /\ approval \in [Runs -> Approvals \cup {NoApproval}]
    /\ at \in [Runs -> 0..MaxTime]
    /\ mine \in [Runs -> 0..MaxCalls]
    /\ got \in [Runs -> [kind : ResponseKinds,
                        record : RecordIds \cup {NoRecord}] \cup {NoAnswer}]

RunInv ==
    /\ RunTypes
    /\ RunsMatch
    /\ CallsDiffer
    /\ PostsMatch
    /\ RunsAreGranted
    /\ IntentAudited
    /\ ResponsesTrue
    /\ CreatedOnce

RecordInv == RecordTypes /\ IdsCounted /\ LedgerCounted

EffectInv == NoEffectWithoutGrant /\ AppliedForItsRecord /\ AuditTruthful

IInv == WorldTypes /\ RunInv /\ RecordInv /\ EffectInv

LEMMA TypesInParts == TypeOK <=> WorldTypes /\ RecordTypes /\ RunTypes
  BY DEF TypeOK, WorldTypes, RecordTypes, RunTypes

-------------------------------------------------------------------------------
\* Lemmas about the approval table

LEMMA PresentEntries ==
    ASSUME NEW table \in Tables
    PROVE  \A a \in Approvals :
             /\ a \in Present(table) => table[a] \in Entries
             /\ a \notin Present(table) => table[a] = NoEntry
  BY DEF Tables, Present

\* What no change of the table does: a request stays, bound to its pair, and
\* what was granted stays granted.
Kept(old, new) ==
    /\ new \in Tables
    /\ \A a \in Present(old) :
         /\ a \in Present(new)
         /\ new[a].incident = old[a].incident
         /\ new[a].action = old[a].action
         /\ old[a].capability # NoCapability => new[a].capability # NoCapability

\* A change that applies nothing.
Harmless(old, new) ==
    /\ Kept(old, new)
    /\ \A a \in Present(new) : new[a].status = "applied" =>
         /\ a \in Present(old)
         /\ old[a].status = "applied"
         /\ new[a].record = old[a].record

\* A change of one entry, to one that is as well bound and as much granted.
Put(old, a, e) == [old EXCEPT ![a] = e]
Fits(old, a, e) ==
    /\ e \in Entries
    /\ a \in Present(old) =>
         /\ e.incident = old[a].incident
         /\ e.action = old[a].action
         /\ old[a].capability # NoCapability => e.capability # NoCapability

LEMMA PutKeeps ==
    ASSUME NEW old \in Tables, NEW a \in Approvals, NEW e, Fits(old, a, e)
    PROVE  /\ Kept(old, Put(old, a, e))
           /\ Put(old, a, e)[a] = e
           /\ \A b \in Approvals : b # a => Put(old, a, e)[b] = old[b]
           /\ Present(Put(old, a, e)) = Present(old) \cup {a}
  <1> DEFINE new == Put(old, a, e)
  <1>1. /\ new \in Tables
        /\ new[a] = e
        /\ \A b \in Approvals : b # a => new[b] = old[b]
    BY DEF Tables, Put, Fits
  <1> HIDE DEF new
  <1>2. Present(new) = Present(old) \cup {a}
    BY <1>1, NoEntryAssumption DEF Present, Fits
  <1>3. Kept(old, new)
    BY <1>1, <1>2 DEF Kept, Present, Fits
  <1> QED
    BY <1>1, <1>2, <1>3 DEF new

\* The same, when the entry is not an applied one, or was already.
LEMMA PutIsHarmless ==
    ASSUME NEW old \in Tables, NEW a \in Approvals, NEW e, Fits(old, a, e),
           e.status = "applied" =>
             /\ a \in Present(old)
             /\ old[a].status = "applied"
             /\ e.record = old[a].record
    PROVE  Harmless(old, Put(old, a, e))
  <1> DEFINE new == Put(old, a, e)
  <1>1. /\ Kept(old, new)
        /\ new[a] = e
        /\ \A b \in Approvals : b # a => new[b] = old[b]
        /\ Present(new) = Present(old) \cup {a}
    BY PutKeeps
  <1> HIDE DEF new
  <1>2. ASSUME NEW b \in Present(new), new[b].status = "applied"
        PROVE  /\ b \in Present(old)
               /\ old[b].status = "applied"
               /\ new[b].record = old[b].record
    <2>1. CASE b = a
      BY <1>1, <1>2, <2>1
    <2>2. CASE b # a
      <3>1. b \in Present(old) /\ b \in Approvals
        BY <1>1, <1>2, <2>2 DEF Present
      <3> QED
        BY <1>1, <1>2, <2>2, <3>1
    <2> QED
      BY <2>1, <2>2
  <1>3. Harmless(old, new)
    BY <1>1, <1>2 DEF Harmless
  <1> QED
    BY <1>3 DEF new

LEMMA SameIsHarmless ==
    ASSUME NEW old \in Tables
    PROVE  Harmless(old, old)
  BY DEF Harmless, Kept

LEMMA NewEntryIsHarmless ==
    ASSUME NEW old \in Tables, NEW a \in Approvals \ Present(old),
           NEW p \in Pairs, NEW now \in Nat
    PROVE  Harmless(old, [old EXCEPT ![a] = NewEntry(p[1], p[2], now, TTL)])
  <1> DEFINE e == NewEntry(p[1], p[2], now, TTL)
  <1>1. e \in Entries /\ e.status = "pending"
    BY BoundsAssumption DEF NewEntry, Entries, Statuses, Pairs
  <1> HIDE DEF e
  <1>2. Fits(old, a, e)
    BY <1>1 DEF Fits
  <1>3. Harmless(old, Put(old, a, e))
    BY <1>1, <1>2, PutIsHarmless
  <1> QED
    BY <1>3 DEF Put, e

LEMMA ExpireIsHarmless ==
    ASSUME NEW old \in Tables, NEW a \in Approvals, NEW now
    PROVE  Harmless(old, Expire(old, a, now))
  <1>1. CASE Lapsed(old, a, now)
    <2> DEFINE e == [old[a] EXCEPT !.status = "expired"]
    <2>1. a \in Present(old) /\ old[a] \in Entries
      BY <1>1, PresentEntries DEF Lapsed, HasStatus, Present
    <2>2. /\ e \in Entries /\ e.status = "expired"
          /\ e.incident = old[a].incident /\ e.action = old[a].action
          /\ e.capability = old[a].capability
      BY <2>1 DEF Entries, Statuses
    <2>3. Expire(old, a, now) = Put(old, a, e)
      BY <1>1 DEF Expire, Put
    <2> HIDE DEF e
    <2>4. Fits(old, a, e)
      BY <2>2 DEF Fits
    <2>5. Harmless(old, Put(old, a, e))
      BY <2>2, <2>4, PutIsHarmless
    <2> QED
      BY <2>3, <2>5
  <1>2. CASE ~Lapsed(old, a, now)
    BY <1>2, SameIsHarmless DEF Expire
  <1> QED
    BY <1>1, <1>2

LEMMA GrantIsHarmless ==
    ASSUME NEW old \in Tables, NEW a \in Present(old)
    PROVE  Harmless(old, Grant(old, a, a))
  <1> DEFINE e == [old[a] EXCEPT !.status = "approved", !.capability = a]
  <1>1. a \in Approvals /\ old[a] \in Entries
    BY PresentEntries DEF Present
  <1>2. /\ e \in Entries /\ e.status = "approved"
        /\ e.incident = old[a].incident /\ e.action = old[a].action
        /\ e.capability = a
    BY <1>1 DEF Entries, Statuses
  <1>3. Grant(old, a, a) = Put(old, a, e)
    BY <1>1 DEF Grant, Tables, Put
  <1> HIDE DEF e
  <1>4. Fits(old, a, e)
    BY <1>1, <1>2, NoCapabilityAssumption DEF Fits
  <1>5. Harmless(old, Put(old, a, e))
    BY <1>1, <1>2, <1>4, PutIsHarmless
  <1> QED
    BY <1>3, <1>5

LEMMA RecordAttemptIsHarmless ==
    ASSUME NEW old \in Tables, NEW a \in Approvals
    PROVE  Harmless(old, RecordAttempt(old, a))
  <1>1. CASE a \in Present(old)
    <2> DEFINE e == [old[a] EXCEPT !.attempts = @ + 1]
    <2>1. old[a] \in Entries
      BY <1>1, PresentEntries
    <2>2. /\ e \in Entries /\ e.status = old[a].status
          /\ e.incident = old[a].incident /\ e.action = old[a].action
          /\ e.capability = old[a].capability /\ e.record = old[a].record
      BY <2>1 DEF Entries
    <2>3. RecordAttempt(old, a) = Put(old, a, e)
      BY <1>1 DEF RecordAttempt, Put
    <2> HIDE DEF e
    <2>4. Fits(old, a, e)
      BY <2>2 DEF Fits
    <2>5. Harmless(old, Put(old, a, e))
      BY <1>1, <2>2, <2>4, PutIsHarmless
    <2> QED
      BY <2>3, <2>5
  <1>2. CASE a \notin Present(old)
    BY <1>2, SameIsHarmless DEF RecordAttempt
  <1> QED
    BY <1>1, <1>2

\* Marking applies at most the one approved request, with the record given.
LEMMA MarkAppliedApplies ==
    ASSUME NEW old \in Tables, NEW a \in Approvals, NEW record \in RecordIds
    PROVE  LET new == MarkApplied(old, a, record) IN
           /\ Kept(old, new)
           /\ Present(new) = Present(old)
           /\ \A b \in Present(new) :
                \/ new[b] = old[b]
                \/ /\ b = a
                   /\ old[b].status = "approved"
                   /\ new[b].status = "applied"
                   /\ new[b].record = record
  <1>1. CASE HasStatus(old, a, {"approved"})
    <2> DEFINE e == [old[a] EXCEPT !.status = "applied", !.record = record]
               new == MarkApplied(old, a, record)
    <2>1. a \in Present(old) /\ old[a] \in Entries /\ old[a].status = "approved"
      BY <1>1, PresentEntries DEF HasStatus, Present
    <2>2. /\ e \in Entries /\ e.status = "applied"
          /\ e.incident = old[a].incident /\ e.action = old[a].action
          /\ e.capability = old[a].capability /\ e.record = record
      BY <2>1 DEF Entries, Statuses
    <2>3. new = Put(old, a, e)
      BY <1>1 DEF MarkApplied, Tables, Put
    <2> HIDE DEF e
    <2>4. Fits(old, a, e)
      BY <2>2 DEF Fits
    <2> HIDE DEF new
    <2>5. /\ Kept(old, new)
          /\ new[a] = e
          /\ \A b \in Approvals : b # a => new[b] = old[b]
          /\ Present(new) = Present(old)
      BY <2>1, <2>3, <2>4, PutKeeps
    <2>6. \A b \in Present(new) : b \in Approvals
      BY DEF Present
    <2> QED
      BY <2>1, <2>2, <2>5, <2>6 DEF new
  <1>2. CASE ~HasStatus(old, a, {"approved"})
    BY <1>2, SameIsHarmless DEF MarkApplied, Harmless
  <1> QED
    BY <1>1, <1>2

-------------------------------------------------------------------------------
\* What a step keeps by what it leaves alone

\* No change of the table or of the log takes a grant or an intent back.
LEMMA GrantsStay ==
    ASSUME Kept(data, data'), audit \subseteq audit'
    PROVE  /\ \A a \in Approvals : EverGranted(a) =>
                EverGranted(a)' /\ BoundTo(a)' = BoundTo(a)
           /\ \A p : EffectWasGranted(p) /\ audit \subseteq AuditEntries =>
                EffectWasGranted(p)'
  <1>1. \A a \in Approvals : EverGranted(a) =>
          EverGranted(a)' /\ BoundTo(a)' = BoundTo(a)
    BY DEF Kept, EverGranted, BoundTo, Present
  <1>2. ASSUME NEW p, EffectWasGranted(p), audit \subseteq AuditEntries
        PROVE  EffectWasGranted(p)'
    <2>1. PICK e \in audit : /\ e.event = "mutation_attempted"
                             /\ EverGranted(e.approval)
                             /\ BoundTo(e.approval) = p
      BY <1>2 DEF EffectWasGranted
    <2>2. e \in audit' /\ e.approval \in Approvals
      BY <1>2 DEF AuditEntries
    <2>3. EverGranted(e.approval)' /\ BoundTo(e.approval)' = p
      BY <1>1, <2>1, <2>2
    <2> QED
      BY <2>1, <2>2, <2>3 DEF EffectWasGranted
  <1> QED
    BY <1>1, <1>2

\* A step that adds no post, no record and no audit entry, and applies nothing.
LEMMA QuietStepKeepsEffects ==
    ASSUME WorldTypes, EffectInv, RunsAreGranted, Harmless(data, data'),
           audit' = audit, posts' \subseteq posts, created' = created,
           posted' = posted
    PROVE  EffectInv'
  <1>1. Kept(data, data') /\ audit \subseteq AuditEntries
    BY DEF Harmless, WorldTypes
  <1>2. /\ \A a \in Approvals : EverGranted(a) =>
             EverGranted(a)' /\ BoundTo(a)' = BoundTo(a)
        /\ \A p : EffectWasGranted(p) => EffectWasGranted(p)'
    BY <1>1, GrantsStay
  <1>3. NoEffectWithoutGrant'
    BY <1>2 DEF NoEffectWithoutGrant, EffectInv
  <1>4. AppliedForItsRecord'
    BY DEF AppliedForItsRecord, EffectInv, Harmless, Kept, BoundTo
  <1>5. \A e \in audit : e.approval \in Approvals /\ BoundTo(e.approval)' = BoundTo(e.approval)
    BY <1>1, <1>2 DEF RunsAreGranted, AuditEntries
  <1>6. AuditTruthful'
    BY <1>5 DEF AuditTruthful, EffectInv
  <1> QED
    BY <1>3, <1>4, <1>6 DEF EffectInv

LEMMA SameRecordsAreCounted ==
    ASSUME RecordInv, UNCHANGED apiVars
    PROVE  RecordInv'
  BY DEF RecordInv, RecordTypes, IdsCounted, LedgerCounted, apiVars,
         PairSeen, RecordsWithPair, UniquePairs, RecordsIn

-------------------------------------------------------------------------------
\* What keeps the runs in order

\* A step of the world around the runs.
LEMMA WorldStepKeepsRuns ==
    ASSUME WorldTypes, RunInv, UNCHANGED runVars, Kept(data, data'),
           clock' \in Nat, clock <= clock', calls' = calls,
           posts' \subseteq posts, created \subseteq created', audit' = audit
    PROVE  RunInv'
  <1>1. \A a \in Approvals : EverGranted(a) =>
          EverGranted(a)' /\ BoundTo(a)' = BoundTo(a)
    BY GrantsStay
  <1>2. /\ pc' = pc /\ pair' = pair /\ capability' = capability
        /\ approval' = approval /\ at' = at /\ mine' = mine /\ got' = got
    BY DEF runVars
  <1>3. RunTypes'
    BY <1>2 DEF RunInv, RunTypes
  <1>4. RunsMatch'
    BY <1>2 DEF RunInv, RunsMatch, WorldTypes, RunTypes
  <1>5. CallsDiffer' /\ PostsMatch'
    BY <1>2 DEF RunInv, CallsDiffer, PostsMatch
  <1>6. RunsAreGranted'
    BY <1>1, <1>2 DEF RunInv, RunsAreGranted, RunsMatch, WorldTypes, AuditEntries
  <1>7. IntentAudited'
    BY <1>2 DEF RunInv, IntentAudited
  <1>8. ResponsesTrue'
    BY <1>2 DEF RunInv, ResponsesTrue, Confirmed
  <1>9. CreatedOnce'
    BY <1>2 DEF RunInv, CreatedOnce, Creator
  <1> QED
    BY <1>3, <1>4, <1>5, <1>6, <1>7, <1>8, <1>9 DEF RunInv

\* A run ends, perhaps with an entry on its outcome.
LEMMA EndKeepsRuns ==
    ASSUME WorldTypes, RunInv, NEW r \in Runs, End(r), Kept(data, data'),
           UNCHANGED <<clock, calls, posts, created>>, audit \subseteq audit',
           \A e \in audit' \ audit :
             /\ EverGranted(e.approval)'
             /\ e.event = "mutation_committed" =>
                  Creator(r) /\ e.record = got[r].record
    PROVE  RunInv'
  <1>1. \A a \in Approvals : EverGranted(a) =>
          EverGranted(a)' /\ BoundTo(a)' = BoundTo(a)
    BY GrantsStay
  <1>2. /\ pc'[r] = "idle" /\ mine'[r] = 0 /\ at'[r] = 0
        /\ RunTypes'
    BY BoundsAssumption DEF End, Goto, RunInv, RunTypes
  <1>3. ASSUME NEW s \in Runs, s # r
        PROVE  /\ pc'[s] = pc[s] /\ pair'[s] = pair[s]
               /\ capability'[s] = capability[s] /\ approval'[s] = approval[s]
               /\ at'[s] = at[s] /\ mine'[s] = mine[s] /\ got'[s] = got[s]
    BY <1>3 DEF End, Goto, RunInv, RunTypes
  <1>4. RunsMatch'
    BY <1>2, <1>3 DEF RunInv, RunsMatch, WorldTypes, Accepted, Answered
  <1>5. CallsDiffer'
    BY <1>2, <1>3 DEF RunInv, CallsDiffer
  <1>6. PostsMatch'
    BY <1>2, <1>3 DEF RunInv, PostsMatch, WorldTypes, Posts
  <1>7. RunsAreGranted'
    BY <1>1, <1>2, <1>3
    DEF RunInv, RunsAreGranted, RunsMatch, WorldTypes, AuditEntries, Accepted
  <1>8. IntentAudited'
    BY <1>2, <1>3 DEF RunInv, IntentAudited, Intended, Accepted
  <1>9. ResponsesTrue'
    BY <1>2, <1>3 DEF RunInv, ResponsesTrue, Confirmed, Answered
  <1>10. CreatedOnce'
    BY <1>2, <1>3 DEF RunInv, CreatedOnce, Creator, Answered
  <1> QED
    BY <1>2, <1>4, <1>5, <1>6, <1>7, <1>8, <1>9, <1>10 DEF RunInv

\* An accepted run goes a step further, perhaps with a post or an audit entry.
LEMMA AdvanceKeepsRuns ==
    ASSUME WorldTypes, RunInv, NEW r \in Runs, NEW step \in Accepted,
           Goto(r, step), pc[r] \in Accepted,
           UNCHANGED <<pair, capability, approval, at, mine, got>>,
           step \in Answered => pc[r] \in Answered,
           step = "mark" => got[r].kind \in Confirming,
           step \in Intended =>
             \E e \in audit' : /\ e.event = "mutation_attempted"
                               /\ e.call = mine[r]
                               /\ e.approval = approval[r],
           Kept(data, data'), UNCHANGED <<clock, calls, created>>,
           \A post \in posts' \ posts :
             post.call = mine[r] /\ post.pair = pair[r],
           audit \subseteq audit',
           \A e \in audit' \ audit :
             e.event = "mutation_attempted" /\ e.approval = approval[r]
    PROVE  RunInv'
  <1>1. \A a \in Approvals : EverGranted(a) =>
          EverGranted(a)' /\ BoundTo(a)' = BoundTo(a)
    BY GrantsStay
  <1>2. pc'[r] = step /\ RunTypes'
    BY DEF Goto, RunInv, RunTypes, Accepted
  <1>3. ASSUME NEW s \in Runs, s # r
        PROVE  pc'[s] = pc[s]
    BY <1>3 DEF Goto, RunInv, RunTypes
  <1>4. RunsMatch'
    BY <1>2, <1>3 DEF RunInv, RunsMatch, Accepted, Answered
  <1>5. CallsDiffer'
    BY DEF RunInv, CallsDiffer
  <1>6. PostsMatch'
    <2>1. ASSUME NEW post \in posts' \ posts
          PROVE  /\ post.call <= calls
                 /\ \A s \in Runs : mine[s] = post.call => pair[s] = post.pair
      <3>1. mine[r] \in 1..calls /\ post.call = mine[r] /\ post.pair = pair[r]
        BY <2>1 DEF RunInv, RunsMatch, Accepted
      <3>2. \A s \in Runs : mine[s] = mine[r] => s = r
        BY <3>1 DEF RunInv, CallsDiffer, WorldTypes
      <3> QED
        BY <3>1, <3>2 DEF WorldTypes
    <2> QED
      BY <2>1 DEF RunInv, PostsMatch
  <1>7. RunsAreGranted'
    <2>1. EverGranted(approval[r])' /\ BoundTo(approval[r])' = pair[r]
      BY <1>1 DEF RunInv, RunsAreGranted, RunsMatch
    <2> QED
      BY <1>1, <1>2, <1>3, <2>1
      DEF RunInv, RunsAreGranted, RunsMatch, WorldTypes, AuditEntries
  <1>8. IntentAudited'
    BY <1>2, <1>3 DEF RunInv, IntentAudited
  <1>9. ResponsesTrue'
    BY <1>2, <1>3 DEF RunInv, ResponsesTrue, Confirmed
  <1>10. CreatedOnce'
    BY <1>2, <1>3 DEF RunInv, CreatedOnce, Creator
  <1> QED
    BY <1>2, <1>4, <1>5, <1>6, <1>7, <1>8, <1>9, <1>10 DEF RunInv

\* The run of call n takes in its response.  A confirming one names a record of
\* the pair; that of a creation is news to every run and to the log.
LEMMA ResponseKeepsRuns ==
    ASSUME WorldTypes, RunInv, NEW n \in 1..MaxCalls,
           NEW kind \in ResponseKinds, NEW id \in RecordIds \cup {NoRecord},
           Respond(n, kind, id),
           UNCHANGED <<data, clock, calls, audit>>, posts' \subseteq posts,
           created \subseteq created',
           kind \in Confirming =>
             \E record \in created' :
               /\ record.id = id
               /\ \A r \in Runs : mine[r] = n => pair[r] = record.pair,
           kind = "created" =>
             /\ \A r \in Runs : Creator(r) => got[r].record # id
             /\ \A e \in audit :
                  e.event = "mutation_committed" => e.record # id
    PROVE  RunInv'
  <1> DEFINE Answers(r) == pc[r] = "wait" /\ mine[r] = n
             answer == [kind |-> kind, record |-> id]
  <1>1. /\ answer.kind = kind /\ answer.record = id
        /\ answer \in [kind : ResponseKinds, record : RecordIds \cup {NoRecord}]
    OBVIOUS
  <1>2. ASSUME NEW r \in Runs
        PROVE  /\ Answers(r) => pc'[r] = "record" /\ got'[r] = answer
               /\ ~Answers(r) => pc'[r] = pc[r] /\ got'[r] = got[r]
    BY DEF Respond
  <1>3. /\ pair' = pair /\ capability' = capability /\ approval' = approval
        /\ at' = at /\ mine' = mine
    BY DEF Respond
  <1>4. RunTypes'
    BY <1>1, <1>3 DEF Respond, RunInv, RunTypes
  <1>5. \A r, s \in Runs : Answers(r) /\ Answers(s) => r = s
    BY DEF RunInv, CallsDiffer
  <1> HIDE DEF answer
  <1>6. RunsMatch'
    BY <1>1, <1>2, <1>3, NoAnswerAssumption
    DEF RunInv, RunsMatch, Accepted, Answered
  <1>7. CallsDiffer' /\ PostsMatch'
    BY <1>3 DEF RunInv, CallsDiffer, PostsMatch
  <1>8. RunsAreGranted'
    BY <1>2, <1>3
    DEF RunInv, RunsAreGranted, Accepted, EverGranted, BoundTo, Present
  <1>9. IntentAudited'
    BY <1>2, <1>3 DEF RunInv, IntentAudited, Intended, Accepted
  <1>10. ResponsesTrue'
    BY <1>1, <1>2, <1>3 DEF RunInv, ResponsesTrue, Confirmed, Answered
  <1>11. CreatedOnce'
    BY <1>1, <1>2, <1>5 DEF RunInv, CreatedOnce, Creator, Answered
  <1> QED
    BY <1>4, <1>6, <1>7, <1>8, <1>9, <1>10, <1>11 DEF RunInv

-------------------------------------------------------------------------------
\* The ledger

LEMMA PairsCounted == IsFiniteSet(Pairs) /\ Cardinality(Pairs) \in Nat
  <1>1. IsFiniteSet(Pairs)
    BY PairsAssumption, FS_Product DEF Pairs
  <1> QED
    BY <1>1, FS_CardinalityType

\* A ledger with one record per pair is no longer than there are pairs in it.
LEMMA LedgerFitsIn ==
    ASSUME NEW records \in Seq(Records), UniquePairs(records), NEW S,
           IsFiniteSet(S), \A i \in DOMAIN records : records[i].pair \in S
    PROVE  Len(records) <= Cardinality(S)
  <1> DEFINE n == Len(records)
             f == [i \in 1..n |-> records[i].pair]
  <1>1. n \in Nat /\ DOMAIN records = 1..n
    OBVIOUS
  <1>2. f \in [1..n -> S]
    BY <1>1
  <1>3. \A i, j \in 1..n : f[i] = f[j] => i = j
    BY <1>1 DEF UniquePairs
  <1> HIDE DEF n, f
  <1>4. IsFiniteSet(1..n) /\ Cardinality(1..n) = n
    <2>1. /\ IsFiniteSet(1..n)
          /\ Cardinality(1..n) = IF 1 > n THEN 0 ELSE n - 1 + 1
      BY <1>1, FS_Interval
    <2> QED
      BY <2>1, <1>1
  <1>5. Cardinality(S) \in Nat
    BY FS_CardinalityType
  <1>6. ~(Cardinality(S) < Cardinality(1..n))
    <2>1. \A g \in [1..n -> S] : Cardinality(S) < Cardinality(1..n) =>
            \E i, j \in 1..n : i # j /\ g[i] = g[j]
      BY <1>4, FS_PigeonHole
    <2> QED
      BY <2>1, <1>2, <1>3
  <1> QED
    BY <1>1, <1>4, <1>5, <1>6 DEF n

LEMMA LedgerFits ==
    ASSUME NEW records \in Seq(Records), UniquePairs(records)
    PROVE  /\ Len(records) <= Cardinality(Pairs)
           /\ \A p \in Pairs : ~PairSeen(records, p) =>
                Len(records) + 1 <= Cardinality(Pairs)
  <1>1. \A i \in DOMAIN records : records[i].pair \in Pairs
    <2>1. \A i \in DOMAIN records : records[i] \in Records
      OBVIOUS
    <2> QED
      BY <2>1 DEF Records
  <1>2. Len(records) <= Cardinality(Pairs)
    BY <1>1, PairsCounted, LedgerFitsIn
  <1>3. ASSUME NEW p \in Pairs, ~PairSeen(records, p)
        PROVE  Len(records) + 1 <= Cardinality(Pairs)
    <2>1. \A i \in DOMAIN records : records[i].pair \in Pairs \ {p}
      BY <1>1, <1>3 DEF PairSeen, RecordsWithPair
    <2>2. /\ IsFiniteSet(Pairs \ {p})
          /\ Cardinality(Pairs \ {p}) = Cardinality(Pairs) - 1
      BY PairsCounted, FS_RemoveElement
    <2>3. Len(records) <= Cardinality(Pairs \ {p})
      BY <2>1, <2>2, LedgerFitsIn
    <2> QED
      BY <2>2, <2>3, PairsCounted
  <1> QED
    BY <1>2, <1>3

\* Ids do not run out.
LEMMA IdInRange ==
    ASSUME NEW n \in Nat, NEW len \in Nat, resets \in 0..MaxResets,
           n <= Cardinality(Pairs) * resets + len,
           len + 1 <= Cardinality(Pairs)
    PROVE  n + 1 \in RecordIds
  <1> DEFINE m == Cardinality(Pairs)
  <1>1. m \in Nat /\ resets \in Nat /\ MaxResets \in Nat /\ resets <= MaxResets
    BY PairsCounted, BoundsAssumption
  <1> HIDE DEF m
  <1>2. m * resets <= m * MaxResets /\ m * resets \in Nat /\ m * MaxResets \in Nat
    BY <1>1
  <1>3. m * (MaxResets + 1) = m * MaxResets + m
    BY <1>1
  <1>4. n + 1 <= m * (MaxResets + 1) /\ m * (MaxResets + 1) \in Nat
    BY <1>1, <1>2, <1>3 DEF m
  <1> QED
    BY <1>4 DEF RecordIds, MaxRecords, m

\* A new record is the next one, of a pair the ledger did not hold.
LEMMA AddRecordCounts ==
    ASSUME RecordInv, NEW p \in Pairs, NEW key \in Keys, AddRecord(p, key),
           posted' \in {posted, posted \cup {NextRecord(p, key)}}
    PROVE  LET new == NextRecord(p, key) IN
           /\ RecordInv'
           /\ created' = created \cup {new}
           /\ new.pair = p /\ new.key = key
           /\ new.id \in RecordIds
           /\ \A record \in created : record.id # new.id
  <1> DEFINE new == NextRecord(p, key)
             n == Cardinality(created)
  <1>1. /\ ledger' = Append(ledger, new) /\ created' = created \cup {new}
        /\ sinceReset' = sinceReset \cup {new}
        /\ posted' \in {posted, posted \cup {new}}
        /\ resets' = resets /\ ~PairSeen(ledger, p)
    BY DEF AddRecord, IsFresh
  <1>2. /\ IsFiniteSet(created) /\ n \in Nat
        /\ \A record \in created : record.id \in Nat /\ record.id <= n
    BY FS_CardinalityType DEF RecordInv, IdsCounted, RecordTypes, Records, RecordIds
  <1>3. /\ new.id = n + 1 /\ new.pair = p /\ new.key = key
        /\ new.sequence = Len(ledger) + 1
        /\ new = [id |-> n + 1, pair |-> p, key |-> key, sequence |-> Len(ledger) + 1]
    BY DEF NextRecord, NewRecord
  <1>4. /\ ledger \in Seq(Records) /\ Len(ledger) \in Nat
        /\ DOMAIN ledger = 1..Len(ledger)
        /\ Len(ledger) + 1 <= Cardinality(Pairs)
    BY <1>1, LedgerFits DEF RecordInv, LedgerCounted
  <1>5. n + 1 \in RecordIds
    BY <1>2, <1>4, IdInRange DEF RecordInv, LedgerCounted, RecordTypes
  <1>6. new \in Records
    BY <1>3, <1>4, <1>5 DEF Records
  <1>7. new \notin created /\ Cardinality(created') = n + 1 /\ IsFiniteSet(created')
    BY <1>1, <1>2, <1>3, FS_AddElement
  <1> HIDE DEF new, n
  <1>8. /\ ledger' \in Seq(Records) /\ Len(ledger') = Len(ledger) + 1
        /\ DOMAIN ledger' = 1..(Len(ledger) + 1)
        /\ ledger'[Len(ledger) + 1] = new
        /\ \A i \in 1..Len(ledger) : ledger'[i] = ledger[i]
    BY <1>1, <1>4, <1>6
  <1>9. RecordTypes'
    <2>1. /\ \A i \in DOMAIN ledger' : ledger'[i] \in created'
          /\ sinceReset' \subseteq created' /\ posted' \subseteq created'
      <3>1. \A i \in DOMAIN ledger : ledger[i] \in created
        BY DEF RecordInv, RecordTypes, RecordsIn
      <3>2. sinceReset' \subseteq created' /\ posted' \subseteq created'
        BY <1>1 DEF RecordInv, RecordTypes
      <3> QED
        BY <3>1, <3>2, <1>1, <1>4, <1>8
    <2> QED
      BY <2>1, <1>1, <1>6 DEF RecordInv, RecordTypes, RecordsIn
  <1>10. IdsCounted'
    <2>1. \A record \in created' : record.id <= n + 1
      BY <1>1, <1>2, <1>3
    <2> QED
      BY <2>1, <1>7 DEF IdsCounted
  <1>11. LedgerCounted'
    <2>1. UniquePairs(ledger')
      BY <1>1, <1>3, <1>4, <1>8
      DEF UniquePairs, PairSeen, RecordsWithPair, RecordInv, LedgerCounted
    <2>2. Cardinality(created') <= Cardinality(Pairs) * resets + Len(ledger')
      <3>1. n <= Cardinality(Pairs) * resets + Len(ledger)
        BY DEF RecordInv, LedgerCounted, n
      <3>2. Cardinality(Pairs) * resets \in Nat
        BY PairsCounted DEF RecordInv, RecordTypes
      <3> QED
        BY <3>1, <3>2, <1>2, <1>4, <1>7, <1>8
    <2>3. sinceReset' = RecordsIn(ledger')
      BY <1>1, <1>4, <1>8 DEF RecordsIn, RecordInv, LedgerCounted
    <2> QED
      BY <2>1, <2>2, <2>3, <1>1, <1>8 DEF LedgerCounted
  <1> QED
    BY <1>1, <1>2, <1>3, <1>5, <1>9, <1>10, <1>11 DEF RecordInv, new

\* A reset leaves a ledger without records, to be counted anew.
LEMMA ResetCounts ==
    ASSUME RecordInv, ResetActions
    PROVE  RecordInv'
  <1>1. /\ ledger' = << >> /\ created' = created /\ resets' = resets + 1
        /\ sinceReset' = {} /\ posted' = posted
        /\ resets < MaxResets
    BY DEF ResetActions
  <1>2. resets \in Nat /\ resets' \in 0..MaxResets
    BY <1>1, BoundsAssumption DEF RecordInv, RecordTypes
  <1>3. RecordTypes' /\ IdsCounted'
    BY <1>1, <1>2 DEF RecordInv, RecordTypes, IdsCounted, RecordsIn
  <1>4. sinceReset' = RecordsIn(ledger')
    BY <1>1 DEF RecordsIn
  <1>5. UniquePairs(ledger') /\ ledger' \in Seq(Records) /\ Len(ledger') = 0
    BY <1>1 DEF UniquePairs
  <1>6. Cardinality(created) <= Cardinality(Pairs) * (resets + 1) + 0
    <2> DEFINE m == Cardinality(Pairs)
    <2>1. Len(ledger) \in Nat /\ Len(ledger) <= m
      BY LedgerFits DEF RecordInv, LedgerCounted
    <2>2. Cardinality(created) \in Nat /\ m \in Nat
      BY PairsCounted, FS_CardinalityType DEF RecordInv, IdsCounted
    <2>3. Cardinality(created) <= m * resets + Len(ledger)
      BY DEF RecordInv, LedgerCounted
    <2> HIDE DEF m
    <2>4. m * (resets + 1) = m * resets + m /\ m * resets \in Nat
      BY <1>2, <2>2
    <2> QED
      BY <2>1, <2>2, <2>3, <2>4 DEF m
  <1>7. LedgerCounted'
    BY <1>1, <1>4, <1>5, <1>6 DEF LedgerCounted
  <1> QED
    BY <1>3, <1>7 DEF RecordInv

\* What the API answers when it commits nothing names a record that exists, and
\* one of the pair itself unless it is a conflict of keys.
LEMMA SettledAnswerNamesRecord ==
    ASSUME RecordInv, NEW p, NEW key, ~IsFresh(ledger, p, key)
    PROVE  LET answer == SettledAnswer(ledger, p, key) IN
           /\ answer.kind \in {"replayed", "already_applied",
                               "key_binding_conflict"}
           /\ answer.record \in created
           /\ answer.kind \in Confirming => answer.record.pair = p
  <1>1. \A i \in DOMAIN ledger : ledger[i] \in created
    BY DEF RecordInv, RecordTypes, RecordsIn
  <1>2. CASE KeySeen(ledger, key)
    <2>1. RecordOfKey(ledger, key) \in created
      BY <1>1, <1>2 DEF KeySeen, RecordsWithKey, RecordOfKey
    <2> QED
      BY <1>2, <2>1 DEF SettledAnswer, Confirming
  <1>3. CASE ~KeySeen(ledger, key)
    <2>1. PairSeen(ledger, p)
      BY <1>3 DEF IsFresh
    <2>2. /\ RecordOfPair(ledger, p) \in created
          /\ RecordOfPair(ledger, p).pair = p
      BY <1>1, <2>1 DEF PairSeen, RecordsWithPair, RecordOfPair
    <2> QED
      BY <1>3, <2>2 DEF SettledAnswer, Confirming
  <1> QED
    BY <1>2, <1>3

-------------------------------------------------------------------------------
\* Every step keeps the invariant

LEMMA AcceptedIsBound ==
    ASSUME NEW table, NEW a, NEW incident, NEW action, NEW now,
           Validation(table, a, incident, action, now) = "accepted"
    PROVE  /\ table[a].status = "approved"
           /\ table[a].incident = incident /\ table[a].action = action
  BY DEF Validation

LEMMA TablesStay == Harmless(data, data') => data' \in Tables /\ Kept(data, data')
  BY DEF Harmless, Kept

\* A step that neither posts, nor creates, nor audits, nor applies.
LEMMA QuietStep ==
    ASSUME IInv, WorldTypes', RunInv', Harmless(data, data'), audit' = audit,
           posts' \subseteq posts, UNCHANGED apiVars
    PROVE  IInv'
  <1>1. created' = created /\ posted' = posted
    BY DEF apiVars
  <1>2. RecordInv'
    BY SameRecordsAreCounted DEF IInv
  <1>3. EffectInv'
    BY <1>1, QuietStepKeepsEffects DEF IInv, RunInv
  <1> QED
    BY <1>2, <1>3 DEF IInv

LEMMA InvokeKeeps ==
    ASSUME IInv, NEW r \in Runs, Invoke(r)
    PROVE  IInv'
  <1>1. PICK p \in Pairs, c \in known \cup {Forged, NoCapability} :
          /\ pair' = [pair EXCEPT ![r] = p]
          /\ capability' = [capability EXCEPT ![r] = c]
    BY DEF Invoke
  <1>2. /\ pc[r] = "idle" /\ pc' = [pc EXCEPT ![r] = "lookup"]
        /\ UNCHANGED <<data, clock, known, apiVars, approval, at, mine, got,
                       posts, calls, audit>>
    BY DEF Invoke, Goto
  <1>3. Harmless(data, data') /\ WorldTypes'
    BY <1>2, SameIsHarmless DEF IInv, WorldTypes
  <1>4. c \in Approvals \cup {Forged, NoCapability}
    BY DEF IInv, WorldTypes
  <1>5. /\ RunTypes'
        /\ pc'[r] = "lookup" /\ pair'[r] = p
        /\ \A s \in Runs : s # r => /\ pc'[s] = pc[s] /\ pair'[s] = pair[s]
                                    /\ capability'[s] = capability[s]
    BY <1>1, <1>2, <1>4 DEF IInv, RunInv, RunTypes
  <1>6. /\ data' = data /\ clock' = clock /\ created' = created /\ approval' = approval
        /\ at' = at /\ mine' = mine /\ got' = got /\ posts' = posts
        /\ calls' = calls /\ audit' = audit /\ pc[r] = "idle"
    BY <1>2 DEF apiVars
  <1>7. RunsMatch' /\ CallsDiffer'
    BY <1>5, <1>6 DEF IInv, RunInv, RunsMatch, CallsDiffer, Accepted, Answered
  <1>8. PostsMatch'
    BY <1>5, <1>6
    DEF IInv, RunInv, PostsMatch, RunsMatch, WorldTypes, Posts
  <1>9. RunsAreGranted'
    BY <1>5, <1>6
    DEF IInv, RunInv, RunsAreGranted, Accepted, EverGranted, BoundTo, Present
  <1>10. IntentAudited'
    BY <1>5, <1>6 DEF IInv, RunInv, IntentAudited, Intended, Accepted
  <1>11. ResponsesTrue'
    BY <1>5, <1>6 DEF IInv, RunInv, ResponsesTrue, Confirmed, Answered
  <1>12. CreatedOnce'
    BY <1>5, <1>6 DEF IInv, RunInv, CreatedOnce, Creator, Answered
  <1>13. RunInv'
    BY <1>5, <1>7, <1>8, <1>9, <1>10, <1>11, <1>12 DEF RunInv
  <1>14. audit' = audit /\ posts' \subseteq posts /\ UNCHANGED apiVars
    BY <1>2
  <1> QED
    BY <1>3, <1>13, <1>14, QuietStep

LEMMA LookupFindsKeeps ==
    ASSUME IInv, NEW r \in Runs, LookupFinds(r)
    PROVE  IInv'
  <1>1. PICK step \in {"request", "validate"} :
          /\ step = IF capability[r] = NoCapability THEN "request"
                                                    ELSE "validate"
          /\ pc' = [pc EXCEPT ![r] = step]
    BY DEF LookupFinds, Goto
  <1>2. /\ pc[r] = "lookup" /\ calls' = calls + 1 /\ calls < MaxCalls
        /\ mine' = [mine EXCEPT ![r] = calls + 1]
        /\ at' = [at EXCEPT ![r] = clock]
        /\ UNCHANGED <<data, clock, known, apiVars, pair, capability, approval,
                       got, posts, audit>>
    BY DEF LookupFinds
  <1>3. calls' \in 1..MaxCalls /\ calls \in Nat /\ clock \in 0..MaxTime
    BY <1>2, BoundsAssumption DEF IInv, WorldTypes
  <1>4. Harmless(data, data') /\ WorldTypes'
    BY <1>2, <1>3, SameIsHarmless DEF IInv, WorldTypes
  <1>5. /\ RunTypes'
        /\ pc'[r] = step /\ mine'[r] = calls + 1 /\ at'[r] = clock
        /\ \A s \in Runs : s # r => /\ pc'[s] = pc[s] /\ mine'[s] = mine[s]
                                    /\ at'[s] = at[s]
    BY <1>1, <1>2, <1>3 DEF IInv, RunInv, RunTypes
  <1>6. /\ data' = data /\ clock' = clock /\ created' = created /\ approval' = approval
        /\ pair' = pair /\ capability' = capability /\ got' = got
        /\ posts' = posts /\ calls' = calls + 1 /\ audit' = audit
        /\ pc[r] = "lookup"
    BY <1>2 DEF apiVars
  <1>7. \A s \in Runs : mine[s] \in 0..calls
    BY <1>3 DEF IInv, RunInv, RunsMatch, RunTypes
  <1>8. RunsMatch'
    BY <1>1, <1>3, <1>5, <1>6 DEF IInv, RunInv, RunsMatch, Accepted, Answered
  <1>9. CallsDiffer'
    BY <1>3, <1>5, <1>7 DEF IInv, RunInv, CallsDiffer
  <1>10. PostsMatch'
    BY <1>3, <1>5, <1>6
    DEF IInv, RunInv, PostsMatch, WorldTypes, Posts
  <1>11. RunsAreGranted'
    BY <1>1, <1>5, <1>6
    DEF IInv, RunInv, RunsAreGranted, Accepted, EverGranted, BoundTo, Present
  <1>12. IntentAudited'
    BY <1>1, <1>5, <1>6 DEF IInv, RunInv, IntentAudited, Intended, Accepted
  <1>13. ResponsesTrue'
    BY <1>1, <1>5, <1>6 DEF IInv, RunInv, ResponsesTrue, Confirmed, Answered
  <1>14. CreatedOnce'
    BY <1>1, <1>5, <1>6 DEF IInv, RunInv, CreatedOnce, Creator, Answered
  <1>15. RunInv'
    BY <1>5, <1>8, <1>9, <1>10, <1>11, <1>12, <1>13, <1>14 DEF RunInv
  <1>16. audit' = audit /\ posts' \subseteq posts /\ UNCHANGED apiVars
    BY <1>2
  <1> QED
    BY <1>4, <1>15, <1>16, QuietStep

\* The ways a tool call ends without an outcome to audit.
LEMMA StopKeeps ==
    ASSUME IInv, NEW r \in Runs, End(r), Harmless(data, data'),
           UNCHANGED <<clock, known, apiVars, posts, calls, audit>>
    PROVE  IInv'
  <1>1. Kept(data, data') /\ WorldTypes'
    BY TablesStay DEF IInv, WorldTypes
  <1>2. UNCHANGED <<clock, calls, posts, created>> /\ audit' = audit
    BY DEF apiVars
  <1>3. RunInv'
    BY <1>1, <1>2, EndKeepsRuns DEF IInv
  <1> QED
    BY <1>1, <1>2, <1>3, QuietStep

LEMMA RequestApprovalKeeps ==
    ASSUME IInv, NEW r \in Runs, RequestApproval(r)
    PROVE  IInv'
  <1>1. PICK a \in Approvals \ Present(data) :
          data' = [data EXCEPT ![a] =
                     NewEntry(pair[r][1], pair[r][2], at[r], TTL)]
    BY DEF RequestApproval
  <1>2. pair[r] \in Pairs /\ at[r] \in Nat /\ data \in Tables
    BY DEF RequestApproval, IInv, RunInv, RunsMatch, RunTypes, WorldTypes
  <1>3. Harmless(data, data')
    BY <1>1, <1>2, NewEntryIsHarmless
  <1> QED
    BY <1>3, StopKeeps DEF RequestApproval

LEMMA ValidateRefusesKeeps ==
    ASSUME IInv, NEW r \in Runs, ValidateRefuses(r)
    PROVE  IInv'
  <1>1. data' = data \/ \E a \in Approvals : data' = Expire(data, a, at[r])
    BY DEF ValidateRefuses, HoldersOf, Present
  <1>2. Harmless(data, data')
    BY <1>1, SameIsHarmless, ExpireIsHarmless DEF IInv, WorldTypes
  <1> QED
    BY <1>2, StopKeeps DEF ValidateRefuses

LEMMA ValidateAcceptsKeeps ==
    ASSUME IInv, NEW r \in Runs, ValidateAccepts(r)
    PROVE  IInv'
  <1>1. PICK a \in HoldersOf(data, capability[r]) :
          /\ Validation(data, a, pair[r][1], pair[r][2], at[r]) = "accepted"
          /\ approval' = [approval EXCEPT ![r] = a]
    BY DEF ValidateAccepts
  <1>2. /\ pc[r] = "validate" /\ pc' = [pc EXCEPT ![r] = "intent"]
        /\ at' = [at EXCEPT ![r] = 0]
        /\ UNCHANGED <<data, clock, known, apiVars, pair, capability, mine, got,
                       posts, calls, audit>>
    BY DEF ValidateAccepts, Goto
  <1>3. pair[r] \in Pairs /\ capability[r] # NoCapability
    BY <1>2 DEF IInv, RunInv, RunsMatch
  <1>4. a \in Approvals /\ EverGranted(a)
    BY <1>3 DEF HoldersOf, Present, EverGranted
  <1>5. BoundTo(a) = pair[r]
    BY <1>1, <1>3, AcceptedIsBound DEF BoundTo, Pairs
  <1>6. Harmless(data, data') /\ WorldTypes'
    BY <1>2, SameIsHarmless DEF IInv, WorldTypes
  <1>7. /\ RunTypes'
        /\ pc'[r] = "intent" /\ approval'[r] = a /\ at'[r] = 0
        /\ \A s \in Runs : s # r => /\ pc'[s] = pc[s] /\ at'[s] = at[s]
                                    /\ approval'[s] = approval[s]
    BY <1>1, <1>2, <1>4, BoundsAssumption DEF IInv, RunInv, RunTypes
  <1>8. /\ data' = data /\ clock' = clock /\ created' = created /\ mine' = mine
        /\ pair' = pair /\ capability' = capability /\ got' = got
        /\ posts' = posts /\ calls' = calls /\ audit' = audit
        /\ pc[r] = "validate"
    BY <1>2 DEF apiVars
  <1>9. RunsMatch'
    BY <1>3, <1>4, <1>7, <1>8
    DEF IInv, RunInv, RunsMatch, Accepted, Answered, WorldTypes
  <1>10. CallsDiffer' /\ PostsMatch'
    BY <1>8 DEF IInv, RunInv, CallsDiffer, PostsMatch
  <1>11. RunsAreGranted'
    <2>1. EverGranted(a)' /\ BoundTo(a)' = pair[r]
      BY <1>4, <1>5, <1>8 DEF EverGranted, BoundTo, Present
    <2>2. \A b : EverGranted(b)' = EverGranted(b) /\ BoundTo(b)' = BoundTo(b)
      BY <1>8 DEF EverGranted, BoundTo, Present
    <2> QED
      BY <2>1, <2>2, <1>7, <1>8 DEF IInv, RunInv, RunsAreGranted
  <1>12. IntentAudited'
    BY <1>7, <1>8 DEF IInv, RunInv, IntentAudited, Intended, Accepted
  <1>13. ResponsesTrue'
    BY <1>7, <1>8 DEF IInv, RunInv, ResponsesTrue, Confirmed, Answered
  <1>14. CreatedOnce'
    BY <1>7, <1>8 DEF IInv, RunInv, CreatedOnce, Creator, Answered
  <1>15. RunInv'
    BY <1>7, <1>9, <1>10, <1>11, <1>12, <1>13, <1>14 DEF RunInv
  <1>16. audit' = audit /\ posts' \subseteq posts /\ UNCHANGED apiVars
    BY <1>2
  <1> QED
    BY <1>6, <1>15, <1>16, QuietStep

LEMMA AuditIntentKeeps ==
    ASSUME IInv, NEW r \in Runs, AuditIntent(r)
    PROVE  IInv'
  <1> DEFINE entry == [event |-> "mutation_attempted", call |-> mine[r],
                       approval |-> approval[r], record |-> NoRecord]
  <1>1. /\ pc[r] = "intent" /\ audit' = audit \cup {entry} /\ Goto(r, "dispatch")
        /\ UNCHANGED <<data, clock, known, apiVars, pair, capability, approval,
                       at, mine, got, posts, calls>>
    BY DEF AuditIntent
  <1>2. mine[r] \in 1..MaxCalls /\ approval[r] \in Approvals
    BY <1>1, BoundsAssumption DEF IInv, WorldTypes, RunInv, RunsMatch, Accepted
  <1>3. /\ entry \in AuditEntries /\ entry.event = "mutation_attempted"
        /\ entry.call = mine[r] /\ entry.approval = approval[r]
    BY <1>2 DEF AuditEntries
  <1> HIDE DEF entry
  <1>4. Harmless(data, data') /\ Kept(data, data') /\ WorldTypes'
    BY <1>1, <1>3, SameIsHarmless DEF IInv, WorldTypes, Harmless
  <1>5. /\ created' = created /\ posts' = posts /\ posted' = posted
        /\ UNCHANGED <<clock, calls, created>>
        /\ UNCHANGED <<pair, capability, approval, at, mine, got>>
    BY <1>1 DEF apiVars
  <1>6. RunInv'
    <2>1. "dispatch" \in Accepted /\ pc[r] \in Accepted /\ "dispatch" \notin Answered
      BY <1>1 DEF Accepted, Answered
    <2>2. \E e \in audit' : /\ e.event = "mutation_attempted"
                            /\ e.call = mine[r]
                            /\ e.approval = approval[r]
      BY <1>1, <1>3
    <2>3. audit \subseteq audit' /\ \A e \in audit' \ audit : e = entry
      BY <1>1
    <2> QED
      BY <1>1, <1>3, <1>4, <1>5, <2>1, <2>2, <2>3, AdvanceKeepsRuns DEF IInv
  <1>7. RecordInv'
    BY <1>1, SameRecordsAreCounted DEF IInv
  <1>8. NoEffectWithoutGrant'
    BY <1>1, <1>4, <1>5, GrantsStay
    DEF IInv, WorldTypes, EffectInv, NoEffectWithoutGrant
  <1>9. AppliedForItsRecord'
    BY <1>1, <1>5 DEF IInv, EffectInv, AppliedForItsRecord, BoundTo, Present
  <1>10. AuditTruthful'
    BY <1>1, <1>3, <1>5 DEF IInv, EffectInv, AuditTruthful, BoundTo
  <1> QED
    BY <1>4, <1>6, <1>7, <1>8, <1>9, <1>10 DEF IInv, EffectInv

LEMMA DispatchKeeps ==
    ASSUME IInv, NEW r \in Runs, Dispatch(r)
    PROVE  IInv'
  <1> DEFINE new == [call |-> mine[r], pair |-> pair[r],
                     key |-> WorkflowKey(pair[r])]
  <1>1. /\ pc[r] = "dispatch" /\ posts' = posts \cup {new} /\ Goto(r, "wait")
        /\ UNCHANGED <<data, clock, known, apiVars, pair, capability, approval,
                       at, mine, got, calls, audit>>
    BY DEF Dispatch
  <1>2. /\ mine[r] \in 1..MaxCalls /\ pair[r] \in Pairs
        /\ approval[r] \in Approvals
    BY <1>1, BoundsAssumption DEF IInv, WorldTypes, RunInv, RunsMatch, Accepted
  <1>3. /\ new \in Posts /\ new.call = mine[r] /\ new.pair = pair[r]
        /\ new.key = WorkflowKey(pair[r])
    BY <1>2 DEF Posts, Keys, WorkflowKey
  <1> HIDE DEF new
  <1>4. Harmless(data, data') /\ Kept(data, data') /\ WorldTypes'
    BY <1>1, <1>3, SameIsHarmless DEF IInv, WorldTypes, Harmless
  <1>5. /\ created' = created /\ posted' = posted
        /\ UNCHANGED <<clock, calls, created>>
        /\ UNCHANGED <<pair, capability, approval, at, mine, got>>
    BY <1>1 DEF apiVars
  <1>6. PICK e \in audit : /\ e.event = "mutation_attempted"
                           /\ e.call = mine[r]
                           /\ e.approval = approval[r]
    BY <1>1 DEF IInv, RunInv, IntentAudited, Intended, Accepted
  <1>7. RunInv'
    <2>1. /\ "wait" \in Accepted /\ pc[r] \in Accepted /\ "wait" \notin Answered
          /\ "wait" # "mark"
      BY <1>1 DEF Accepted, Answered
    <2>2. /\ \A post \in posts' \ posts : post.call = mine[r] /\ post.pair = pair[r]
          /\ audit \subseteq audit' /\ audit' \ audit = {}
      BY <1>1, <1>3
    <2> QED
      BY <1>1, <1>4, <1>5, <1>6, <2>1, <2>2, AdvanceKeepsRuns DEF IInv
  <1>8. RecordInv'
    BY <1>1, SameRecordsAreCounted DEF IInv
  <1>9. NoEffectWithoutGrant'
    <2>1. EffectWasGranted(pair[r])
      BY <1>1, <1>6
      DEF EffectWasGranted, IInv, RunInv, RunsAreGranted, Accepted
    <2>2. \A p : EffectWasGranted(p) => EffectWasGranted(p)'
      BY <1>1, <1>4, GrantsStay DEF IInv, WorldTypes
    <2> QED
      BY <1>1, <1>3, <1>5, <2>1, <2>2 DEF IInv, EffectInv, NoEffectWithoutGrant
  <1>10. AppliedForItsRecord'
    BY <1>1, <1>5 DEF IInv, EffectInv, AppliedForItsRecord, BoundTo, Present
  <1>11. AuditTruthful'
    BY <1>1, <1>5 DEF IInv, EffectInv, AuditTruthful, BoundTo
  <1> QED
    BY <1>4, <1>7, <1>8, <1>9, <1>10, <1>11 DEF IInv, EffectInv

LEMMA TimeOutKeeps ==
    ASSUME IInv, NEW r \in Runs, TimeOut(r)
    PROVE  IInv'
  <1>1. /\ pc[r] = "wait"
        /\ got' = [got EXCEPT ![r] = [kind |-> "failed", record |-> NoRecord]]
        /\ pc' = [pc EXCEPT ![r] = "record"]
        /\ UNCHANGED <<data, clock, known, apiVars, pair, capability, approval,
                       at, mine, posts, calls, audit>>
    BY DEF TimeOut, Goto
  <1>2. mine[r] \in 1..MaxCalls
    BY <1>1, BoundsAssumption DEF IInv, WorldTypes, RunInv, RunsMatch
  <1>3. \A s \in Runs : pc[s] = "wait" /\ mine[s] = mine[r] <=> s = r
    BY <1>1, <1>2 DEF IInv, RunInv, CallsDiffer
  <1>4. Respond(mine[r], "failed", NoRecord)
    BY <1>1, <1>3 DEF Respond, IInv, RunInv, RunTypes
  <1>5. Harmless(data, data') /\ WorldTypes' /\ UNCHANGED <<data, clock, calls, audit>>
    BY <1>1, SameIsHarmless DEF IInv, WorldTypes
  <1>6. RunInv'
    BY <1>1, <1>2, <1>4, <1>5, ResponseKeepsRuns
    DEF IInv, ResponseKinds, Confirming, apiVars
  <1>7. audit' = audit /\ posts' \subseteq posts /\ UNCHANGED apiVars
    BY <1>1
  <1> QED
    BY <1>5, <1>6, <1>7, QuietStep

LEMMA RecordOutcomeKeeps ==
    ASSUME IInv, NEW r \in Runs, RecordOutcome(r)
    PROVE  IInv'
  <1>1. PICK step \in {"mark", "audit"} :
          Goto(r, step) /\ (step = "mark" => got[r].kind \in Confirming)
    BY DEF RecordOutcome
  <1>2. /\ pc[r] = "record" /\ data' = RecordAttempt(data, approval[r])
        /\ UNCHANGED <<clock, known, apiVars, pair, capability, approval, at,
                       mine, got, posts, calls, audit>>
    BY DEF RecordOutcome
  <1>3. approval[r] \in Approvals /\ data \in Tables
    BY <1>2 DEF IInv, RunInv, RunsMatch, Accepted, WorldTypes
  <1>4. Harmless(data, data')
    BY <1>2, <1>3, RecordAttemptIsHarmless
  <1>5. Kept(data, data') /\ WorldTypes'
    BY <1>2, <1>4, TablesStay DEF IInv, WorldTypes
  <1>6. RunInv'
    <2>1. step \in Accepted /\ pc[r] \in Accepted /\ pc[r] \in Answered /\ pc[r] \in Intended
      BY <1>2 DEF Accepted, Answered, Intended
    <2>2. \E e \in audit' : /\ e.event = "mutation_attempted"
                            /\ e.call = mine[r]
                            /\ e.approval = approval[r]
      BY <1>2, <2>1 DEF IInv, RunInv, IntentAudited
    <2>3. /\ UNCHANGED <<pair, capability, approval, at, mine, got>>
          /\ UNCHANGED <<clock, calls, created>>
          /\ posts' \ posts = {} /\ audit \subseteq audit' /\ audit' \ audit = {}
      BY <1>2 DEF apiVars
    <2> QED
      BY <1>1, <1>5, <2>1, <2>2, <2>3, AdvanceKeepsRuns DEF IInv
  <1>7. audit' = audit /\ posts' \subseteq posts /\ UNCHANGED apiVars
    BY <1>2
  <1> QED
    BY <1>4, <1>5, <1>6, <1>7, QuietStep

LEMMA MarkConfirmedKeeps ==
    ASSUME IInv, NEW r \in Runs, MarkConfirmed(r)
    PROVE  IInv'
  <1>1. /\ pc[r] = "mark" /\ Goto(r, "audit")
        /\ data' = MarkApplied(data, approval[r], got[r].record)
        /\ UNCHANGED <<clock, known, apiVars, pair, capability, approval, at,
                       mine, got, posts, calls, audit>>
    BY DEF MarkConfirmed
  <1>2. PICK record \in created : record.id = got[r].record /\ record.pair = pair[r]
    BY <1>1 DEF IInv, RunInv, ResponsesTrue, Confirmed, Answered
  <1>3. /\ approval[r] \in Approvals /\ data \in Tables
        /\ got[r].record \in RecordIds
    BY <1>1, <1>2
    DEF IInv, RunInv, RunsMatch, Accepted, WorldTypes, RecordInv, RecordTypes,
        Records
  <1>4. /\ Kept(data, data') /\ Present(data') = Present(data)
        /\ \A b \in Present(data') :
             \/ data'[b] = data[b]
             \/ /\ b = approval[r]
                /\ data[b].status = "approved"
                /\ data'[b].status = "applied"
                /\ data'[b].record = got[r].record
    BY <1>1, <1>3, MarkAppliedApplies
  <1>5. WorldTypes'
    BY <1>1, <1>4 DEF IInv, WorldTypes, Kept
  <1>6. RunInv'
    <2>1. "audit" \in Accepted /\ pc[r] \in Accepted /\ pc[r] \in Answered /\ pc[r] \in Intended
      BY <1>1 DEF Accepted, Answered, Intended
    <2>2. \E e \in audit' : /\ e.event = "mutation_attempted"
                            /\ e.call = mine[r]
                            /\ e.approval = approval[r]
      BY <1>1, <2>1 DEF IInv, RunInv, IntentAudited
    <2>3. /\ UNCHANGED <<pair, capability, approval, at, mine, got>>
          /\ UNCHANGED <<clock, calls, created>> /\ "audit" # "mark"
          /\ posts' \ posts = {} /\ audit \subseteq audit' /\ audit' \ audit = {}
      BY <1>1 DEF apiVars
    <2> QED
      BY <1>1, <1>4, <2>1, <2>2, <2>3, AdvanceKeepsRuns DEF IInv
  <1>7. RecordInv' /\ created' = created /\ posted' = posted
    BY <1>1, SameRecordsAreCounted DEF IInv, apiVars
  <1>8. /\ \A a \in Approvals : EverGranted(a) =>
             EverGranted(a)' /\ BoundTo(a)' = BoundTo(a)
        /\ \A p : EffectWasGranted(p) => EffectWasGranted(p)'
    BY <1>1, <1>4, GrantsStay DEF IInv, WorldTypes
  <1>9. NoEffectWithoutGrant'
    BY <1>1, <1>7, <1>8 DEF IInv, EffectInv, NoEffectWithoutGrant
  <1>10. AppliedForItsRecord'
    <2> SUFFICES ASSUME NEW a \in Present(data'), data'[a].status = "applied"
                 PROVE  \E rec \in created :
                          rec.id = data'[a].record /\ rec.pair = BoundTo(a)'
      BY <1>7 DEF AppliedForItsRecord
    <2>1. a \in Present(data) /\ BoundTo(a)' = BoundTo(a)
      BY <1>4 DEF BoundTo, Kept
    <2>2. CASE data'[a] = data[a]
      BY <2>1, <2>2 DEF IInv, EffectInv, AppliedForItsRecord
    <2>3. CASE a = approval[r] /\ data'[a].record = got[r].record
      <3>1. BoundTo(a) = pair[r]
        BY <1>1, <2>3 DEF IInv, RunInv, RunsAreGranted, Accepted
      <3> QED
        BY <1>2, <2>1, <2>3, <3>1
    <2> QED
      BY <1>4, <2>2, <2>3
  <1>11. AuditTruthful'
    <2>1. \A e \in audit : BoundTo(e.approval)' = BoundTo(e.approval)
      BY <1>8 DEF IInv, RunInv, RunsAreGranted, WorldTypes, AuditEntries
    <2> QED
      BY <1>1, <1>7, <2>1 DEF IInv, EffectInv, AuditTruthful
  <1> QED
    BY <1>5, <1>6, <1>7, <1>9, <1>10, <1>11 DEF IInv, EffectInv

LEMMA AuditOutcomeKeeps ==
    ASSUME IInv, NEW r \in Runs, AuditOutcome(r)
    PROVE  IInv'
  <1> DEFINE entry == [event |-> AuditEvent(got[r].kind), call |-> mine[r],
                       approval |-> approval[r], record |-> got[r].record]
  <1>1. /\ pc[r] = "audit" /\ audit' = audit \cup {entry} /\ End(r)
        /\ UNCHANGED <<data, clock, known, apiVars, posts, calls>>
    BY DEF AuditOutcome
  <1>2. /\ mine[r] \in 1..MaxCalls /\ approval[r] \in Approvals
        /\ got[r] \in [kind : ResponseKinds, record : RecordIds \cup {NoRecord}]
    BY <1>1, BoundsAssumption
    DEF IInv, WorldTypes, RunInv, RunsMatch, RunTypes, Accepted, Answered
  <1>3. AuditEvent(got[r].kind) \in
          {"mutation_committed", "mutation_replayed", "mutation_failed",
           "approval_rejected"}
        /\ (AuditEvent(got[r].kind) = "mutation_committed" =>
              got[r].kind = "created")
    BY DEF AuditEvent
  <1>4. /\ entry \in AuditEntries
        /\ entry.event = "mutation_committed" => got[r].kind = "created"
        /\ entry.call = mine[r] /\ entry.approval = approval[r]
        /\ entry.record = got[r].record
    BY <1>2, <1>3 DEF AuditEntries
  <1> HIDE DEF entry
  <1>5. Kept(data, data') /\ WorldTypes'
    BY <1>1, <1>4, SameIsHarmless DEF IInv, WorldTypes, Harmless
  <1>6. /\ created' = created /\ posted' = posted
        /\ UNCHANGED <<clock, calls, posts, created>>
        /\ audit \subseteq audit' /\ \A e \in audit' \ audit : e = entry
    BY <1>1 DEF apiVars
  <1>7. /\ EverGranted(approval[r]) /\ BoundTo(approval[r]) = pair[r]
        /\ entry.event = "mutation_committed" => Creator(r)
    BY <1>1, <1>4 DEF IInv, RunInv, RunsAreGranted, Accepted, Creator, Answered
  <1>8. \A a : EverGranted(a)' = EverGranted(a) /\ BoundTo(a)' = BoundTo(a)
    BY <1>1 DEF EverGranted, BoundTo, Present
  <1>9. RunInv'
    BY <1>1, <1>4, <1>5, <1>6, <1>7, <1>8, EndKeepsRuns DEF IInv
  <1>10. RecordInv'
    BY <1>1, SameRecordsAreCounted DEF IInv
  <1>11. NoEffectWithoutGrant'
    BY <1>1, <1>5, <1>6, GrantsStay
    DEF IInv, WorldTypes, EffectInv, NoEffectWithoutGrant
  <1>12. AppliedForItsRecord'
    BY <1>1, <1>6 DEF IInv, EffectInv, AppliedForItsRecord, BoundTo, Present
  <1>13. AuditTruthful'
    <2>1. ASSUME entry.event = "mutation_committed"
          PROVE  /\ \A f \in audit : f.event = "mutation_committed" =>
                      f.record # entry.record
                 /\ \E record \in created :
                      /\ record.id = entry.record
                      /\ record.pair = BoundTo(entry.approval)
                 /\ \E f \in audit :
                      f.event = "mutation_attempted" /\ f.call = entry.call
      <3>1. Creator(r) /\ Confirmed(r) /\ pc[r] \in Intended
        BY <1>1, <1>7, <2>1 DEF Creator, Confirmed, Confirming, Intended, Accepted
      <3> QED
        BY <3>1, <1>4, <1>7
        DEF IInv, RunInv, CreatedOnce, ResponsesTrue, IntentAudited
    <2> QED
      BY <2>1, <1>1, <1>6, <1>8 DEF IInv, EffectInv, AuditTruthful
  <1> QED
    BY <1>5, <1>9, <1>10, <1>11, <1>12, <1>13 DEF IInv, EffectInv

\* A commit takes nothing back, and its record has a grant unless a direct
\* caller can have written it.
LEMMA CommitKeepsEffects ==
    ASSUME EffectInv, NEW new, created' = created \cup {new},
           \/ posted' = posted
           \/ posted' = posted \cup {new} /\ EffectWasGranted(new.pair),
           UNCHANGED <<data, audit>>, posts' \subseteq posts
    PROVE  EffectInv'
  <1>1. \A p : EffectWasGranted(p)' = EffectWasGranted(p)
    BY DEF EffectWasGranted, EverGranted, BoundTo, Present
  <1>2. NoEffectWithoutGrant'
    BY <1>1 DEF EffectInv, NoEffectWithoutGrant
  <1>3. AppliedForItsRecord'
    BY DEF EffectInv, AppliedForItsRecord, BoundTo, Present
  <1>4. AuditTruthful'
    BY DEF EffectInv, AuditTruthful, BoundTo
  <1> QED
    BY <1>2, <1>3, <1>4 DEF EffectInv

LEMMA HandleCreatesKeeps ==
    ASSUME IInv, NEW post \in posts, HandleCreates(post)
    PROVE  IInv'
  <1>1. /\ AddRecord(post.pair, post.key) /\ posts' = posts \ {post}
        /\ posted' = posted \cup {NextRecord(post.pair, post.key)}
        /\ UNCHANGED <<data, clock, known, calls, audit>>
    BY DEF HandleCreates
  <1>2. /\ post.call \in 1..MaxCalls /\ post.pair \in Pairs /\ post.key \in Keys
    BY DEF IInv, WorldTypes, Posts
  <1>3. PICK new : /\ new = NextRecord(post.pair, post.key)
                   /\ RecordInv'
                   /\ created' = created \cup {new}
                   /\ new.pair = post.pair /\ new.key = post.key
                   /\ new.id \in RecordIds
                   /\ \A record \in created : record.id # new.id
    BY <1>1, <1>2, AddRecordCounts DEF IInv
  <1>4. Kept(data, data') /\ WorldTypes'
    BY <1>1, SameIsHarmless DEF IInv, WorldTypes, Harmless
  <1>5. RunInv'
    <2>1. CASE Respond(post.call, "created", new.id)
      <3>1. \A r \in Runs : Creator(r) => got[r].record # new.id
        BY <1>3 DEF IInv, RunInv, ResponsesTrue, Confirmed, Creator, Confirming
      <3>2. \A e \in audit : e.event = "mutation_committed" => e.record # new.id
        BY <1>3 DEF IInv, EffectInv, AuditTruthful
      <3>3. /\ new \in created'
            /\ \A r \in Runs : mine[r] = post.call => pair[r] = new.pair
        BY <1>3 DEF IInv, RunInv, PostsMatch
      <3>4. created \subseteq created' /\ posts' \subseteq posts
        BY <1>1, <1>3
      <3> QED
        BY <2>1, <1>1, <1>2, <1>3, <3>1, <3>2, <3>3, <3>4, ResponseKeepsRuns
        DEF IInv, ResponseKinds
    <2>2. CASE Respond(post.call, "failed", NoRecord)
      BY <2>2, <1>1, <1>2, <1>3, ResponseKeepsRuns
      DEF IInv, ResponseKinds, Confirming
    <2>3. CASE UNCHANGED runVars
      BY <2>3, <1>1, <1>3, <1>4, WorldStepKeepsRuns DEF IInv, WorldTypes
    <2> QED
      BY <1>3, <2>1, <2>2, <2>3 DEF HandleCreates
  <1>6. EffectInv'
    BY <1>1, <1>3, CommitKeepsEffects DEF IInv, EffectInv, NoEffectWithoutGrant
  <1> QED
    BY <1>3, <1>4, <1>5, <1>6 DEF IInv

\* The other ways of the API with a post: nothing is committed.
LEMMA AnswerKeeps ==
    ASSUME IInv, NEW post \in posts, posts' = posts \ {post},
           UNCHANGED <<data, clock, known, apiVars, calls, audit>>, RunInv'
    PROVE  IInv'
  <1>1. Harmless(data, data') /\ WorldTypes'
    BY SameIsHarmless DEF IInv, WorldTypes
  <1>2. audit' = audit /\ posts' \subseteq posts /\ UNCHANGED apiVars
    OBVIOUS
  <1> QED
    BY <1>1, <1>2, QuietStep

\* No answer, or one that says the call failed.
LEMMA NoAnswerKeepsRuns ==
    ASSUME IInv, NEW post \in posts, posts' = posts \ {post},
           UNCHANGED <<data, clock, known, apiVars, calls, audit>>,
           Respond(post.call, "failed", NoRecord) \/ UNCHANGED runVars
    PROVE  RunInv'
  <1>1. post.call \in 1..MaxCalls
    BY DEF IInv, WorldTypes, Posts
  <1>2. Kept(data, data') /\ created' = created
    BY SameIsHarmless DEF IInv, WorldTypes, Harmless, apiVars
  <1>3. CASE Respond(post.call, "failed", NoRecord)
    BY <1>1, <1>2, <1>3, ResponseKeepsRuns DEF IInv, ResponseKinds, Confirming
  <1>4. CASE UNCHANGED runVars
    BY <1>2, <1>4, WorldStepKeepsRuns DEF IInv, WorldTypes
  <1> QED
    BY <1>3, <1>4

LEMMA HandleSettledKeeps ==
    ASSUME IInv, NEW post \in posts, HandleSettled(post)
    PROVE  IInv'
  <1>1. /\ posts' = posts \ {post} /\ ~IsFresh(ledger, post.pair, post.key)
        /\ UNCHANGED <<data, clock, known, apiVars, calls, audit>>
    BY DEF HandleSettled
  <1>2. PICK answer : answer = SettledAnswer(ledger, post.pair, post.key)
    OBVIOUS
  <1>3. /\ answer.kind \in {"replayed", "already_applied", "key_binding_conflict"}
        /\ answer.record \in created
        /\ answer.kind \in Confirming => answer.record.pair = post.pair
    BY <1>1, <1>2, SettledAnswerNamesRecord DEF IInv
  <1>4. RunInv'
    <2>1. CASE Respond(post.call, answer.kind, answer.record.id)
      <3>1. /\ post.call \in 1..MaxCalls /\ answer.record.id \in RecordIds
            /\ answer.kind \in ResponseKinds /\ answer.kind # "created"
        BY <1>3
        DEF IInv, WorldTypes, Posts, RecordInv, RecordTypes, Records, ResponseKinds
      <3>2. answer.kind \in Confirming =>
              \A r \in Runs : mine[r] = post.call => pair[r] = answer.record.pair
        BY <1>3 DEF IInv, RunInv, PostsMatch
      <3>3. created' = created /\ posts' \subseteq posts
            /\ UNCHANGED <<data, clock, calls, audit>>
        BY <1>1 DEF apiVars
      <3> QED
        BY <2>1, <1>3, <3>1, <3>2, <3>3, ResponseKeepsRuns DEF IInv
    <2>2. CASE Respond(post.call, "failed", NoRecord) \/ UNCHANGED runVars
      BY <1>1, <2>2, NoAnswerKeepsRuns
    <2> QED
      BY <1>2, <2>1, <2>2 DEF HandleSettled
  <1> QED
    BY <1>1, <1>4, AnswerKeeps

LEMMA HandleFailsKeeps ==
    ASSUME IInv, NEW post \in posts, HandleFails(post)
    PROVE  IInv'
  BY NoAnswerKeepsRuns, AnswerKeeps DEF HandleFails

\* A change of the table around the runs.
LEMMA OperatorKeeps ==
    ASSUME IInv, Harmless(data, data'), known' \subseteq Approvals,
           UNCHANGED <<clock, apiVars, runVars, posts, calls, audit>>
    PROVE  IInv'
  <1>1. Kept(data, data') /\ WorldTypes'
    BY TablesStay DEF IInv, WorldTypes
  <1>2. /\ UNCHANGED runVars /\ clock' \in Nat /\ clock <= clock'
        /\ calls' = calls /\ posts' \subseteq posts /\ audit' = audit
        /\ created \subseteq created' /\ UNCHANGED apiVars
    BY DEF IInv, WorldTypes, apiVars
  <1>3. RunInv'
    BY <1>1, <1>2, WorldStepKeepsRuns DEF IInv
  <1> QED
    BY <1>1, <1>2, <1>3, QuietStep

LEMMA OperatorGrantsKeeps ==
    ASSUME IInv, NEW a \in Approvals, OperatorGrants(a)
    PROVE  IInv'
  <1>1. Harmless(data, data')
    BY GrantIsHarmless DEF IInv, WorldTypes, OperatorGrants
  <1>2. known' \subseteq Approvals
    BY DEF IInv, WorldTypes, OperatorGrants
  <1> QED
    BY <1>1, <1>2, OperatorKeeps DEF OperatorGrants

LEMMA OperatorExpiresKeeps ==
    ASSUME IInv, NEW a \in Approvals, OperatorExpires(a)
    PROVE  IInv'
  <1>1. Harmless(data, data')
    BY ExpireIsHarmless DEF IInv, WorldTypes, OperatorExpires
  <1>2. known' \subseteq Approvals
    BY DEF IInv, WorldTypes, OperatorExpires
  <1> QED
    BY <1>1, <1>2, OperatorKeeps DEF OperatorExpires

LEMMA DirectCommitKeeps ==
    ASSUME IInv, DirectCommit
    PROVE  IInv'
  <1>1. PICK p \in Pairs, k \in DirectKeys : AddRecord(p, k)
    BY DEF DirectCommit
  <1>2. UNCHANGED <<data, clock, known, posted, runVars, posts, calls, audit>>
    BY DEF DirectCommit
  <1>3. PICK new : /\ RecordInv'
                   /\ created' = created \cup {new}
                   /\ new.key = k
    BY <1>1, <1>2, AddRecordCounts DEF IInv, Keys
  <1>4. Kept(data, data') /\ WorldTypes'
    BY <1>2, SameIsHarmless DEF IInv, WorldTypes, Harmless
  <1>5. RunInv'
    BY <1>2, <1>3, <1>4, WorldStepKeepsRuns DEF IInv, WorldTypes
  <1>6. EffectInv'
    <2>1. /\ EffectInv /\ posted' = posted /\ posts' \subseteq posts
          /\ UNCHANGED <<data, audit>>
      BY <1>2 DEF IInv
    <2>2. created' = created \cup {new}
      BY <1>3
    <2> QED
      BY <2>1, <2>2, CommitKeepsEffects
  <1> QED
    BY <1>3, <1>4, <1>5, <1>6 DEF IInv

LEMMA ResetActionsKeeps ==
    ASSUME IInv, ResetActions
    PROVE  IInv'
  <1>1. /\ created' = created /\ posted' = posted
        /\ UNCHANGED <<data, clock, known, runVars, posts, calls, audit>>
    BY DEF ResetActions
  <1>2. Harmless(data, data') /\ Kept(data, data') /\ WorldTypes'
    BY <1>1, SameIsHarmless DEF IInv, WorldTypes, Harmless
  <1>3. RunInv'
    BY <1>1, <1>2, WorldStepKeepsRuns DEF IInv, WorldTypes
  <1>4. RecordInv'
    BY ResetCounts DEF IInv
  <1>5. EffectInv'
    BY <1>1, <1>2, QuietStepKeepsEffects DEF IInv, RunInv
  <1> QED
    BY <1>2, <1>3, <1>4, <1>5 DEF IInv

LEMMA TickKeeps ==
    ASSUME IInv, Tick
    PROVE  IInv'
  <1>1. /\ UNCHANGED <<data, known, apiVars, runVars, posts, calls, audit>>
        /\ clock' \in 0..MaxTime /\ clock <= clock'
    BY BoundsAssumption DEF Tick, IInv, WorldTypes
  <1>2. Harmless(data, data') /\ Kept(data, data') /\ WorldTypes'
    BY <1>1, SameIsHarmless DEF IInv, WorldTypes, Harmless
  <1>3. RunInv'
    BY <1>1, <1>2, WorldStepKeepsRuns DEF IInv, apiVars
  <1>4. audit' = audit /\ posts' \subseteq posts /\ UNCHANGED apiVars
    BY <1>1
  <1> QED
    BY <1>2, <1>3, <1>4, QuietStep

LEMMA StutterKeeps ==
    ASSUME IInv, UNCHANGED vars
    PROVE  IInv'
  <1>1. /\ UNCHANGED <<clock, apiVars, runVars, posts, calls, audit>>
        /\ data' = data /\ known' = known
    BY DEF vars
  <1>2. Harmless(data, data') /\ known' \subseteq Approvals
    BY <1>1, SameIsHarmless DEF IInv, WorldTypes
  <1> QED
    BY <1>1, <1>2, OperatorKeeps

LEMMA InitHolds == Init => IInv
  <1> SUFFICES ASSUME Init PROVE IInv
    OBVIOUS
  <1> DEFINE asked(a) == NewEntry(GrantedFor[a][1], GrantedFor[a][2], 0, TTL)
             granted(a) == [asked(a) EXCEPT !.status = "approved", !.capability = a]
  <1>1. \A a \in DOMAIN GrantedFor :
          granted(a) \in Entries /\ granted(a).status = "approved"
    <2> TAKE a \in DOMAIN GrantedFor
    <2>1. asked(a) \in Entries /\ a \in Approvals
      BY GrantedForAssumption, BoundsAssumption
      DEF NewEntry, Entries, Statuses, Pairs
    <2> HIDE DEF asked
    <2> QED
      BY <2>1 DEF Entries, Statuses
  <1> HIDE DEF granted
  <1>2. /\ data = [a \in Approvals |->
                     IF a \in DOMAIN GrantedFor THEN granted(a) ELSE NoEntry]
        /\ clock = 0 /\ known = DOMAIN GrantedFor /\ posts = {} /\ calls = 0
        /\ audit = {}
    BY DEF Init, granted
  <1>3. /\ pc = [r \in Runs |-> "idle"] /\ pair = [r \in Runs |-> NoPair]
        /\ capability = [r \in Runs |-> NoCapability]
        /\ approval = [r \in Runs |-> NoApproval]
        /\ at = [r \in Runs |-> 0] /\ mine = [r \in Runs |-> 0]
        /\ got = [r \in Runs |-> NoAnswer]
    BY DEF Init
  <1>4. ledger = << >> /\ created = {} /\ resets = 0 /\ sinceReset = {}
        /\ posted = {}
    BY DEF Init
  <1>5. WorldTypes
    <2>1. data \in Tables
      BY <1>1, <1>2 DEF Tables
    <2> QED
      BY <2>1, <1>2, GrantedForAssumption, BoundsAssumption DEF WorldTypes
  <1>6. RunInv
    <2>1. RunTypes
      BY <1>3, BoundsAssumption DEF RunTypes
    <2>2. RunsMatch /\ CallsDiffer /\ PostsMatch
      BY <1>2, <1>3
      DEF RunsMatch, CallsDiffer, PostsMatch, Accepted, Answered
    <2>3. RunsAreGranted /\ IntentAudited /\ ResponsesTrue /\ CreatedOnce
      BY <1>2, <1>3
      DEF RunsAreGranted, IntentAudited, ResponsesTrue, Confirmed, CreatedOnce,
          Creator, Intended, Accepted, Answered
    <2> QED
      BY <2>1, <2>2, <2>3 DEF RunInv
  <1>7. RecordInv
    <2>1. RecordTypes
      BY <1>4, BoundsAssumption DEF RecordTypes, RecordsIn
    <2>2. IdsCounted
      BY <1>4, FS_EmptySet DEF IdsCounted
    <2>3. LedgerCounted
      <3>1. sinceReset = RecordsIn(ledger)
        BY <1>4 DEF RecordsIn
      <3>2. Cardinality(Pairs) * resets + Len(ledger) = 0
        BY <1>4, PairsCounted
      <3>3. Cardinality({}) = 0
        BY FS_EmptySet
      <3>4. ledger \in Seq(Records) /\ UniquePairs(ledger)
        BY <1>4 DEF UniquePairs
      <3>5. Cardinality(created) <= Cardinality(Pairs) * resets + Len(ledger)
        BY <3>2, <3>3, <1>4
      <3> QED
        BY <3>1, <3>4, <3>5 DEF LedgerCounted
    <2> QED
      BY <2>1, <2>2, <2>3 DEF RecordInv
  <1>8. EffectInv
    <2>1. NoEffectWithoutGrant /\ AuditTruthful
      BY <1>2, <1>4 DEF NoEffectWithoutGrant, AuditTruthful
    <2>2. AppliedForItsRecord
      BY <1>1, <1>2 DEF AppliedForItsRecord, Present
    <2> QED
      BY <2>1, <2>2 DEF EffectInv
  <1> QED
    BY <1>5, <1>6, <1>7, <1>8 DEF IInv

LEMMA StepKeeps == IInv /\ [Next]_vars => IInv'
  <1> SUFFICES ASSUME IInv, [Next]_vars PROVE IInv'
    OBVIOUS
  <1>1. ASSUME NEW r \in Runs, Invoke(r) \/ RunStep(r) \/ Die(r)
        PROVE  IInv'
    <2>1. ASSUME LookupStops(r) \/ Die(r)
          PROVE  IInv'
      <3>1. /\ End(r) /\ data' = data
            /\ UNCHANGED <<clock, known, apiVars, posts, calls, audit>>
        BY <2>1 DEF LookupStops, Die
      <3>2. Harmless(data, data')
        BY <3>1, SameIsHarmless DEF IInv, WorldTypes
      <3> QED
        BY <3>1, <3>2, StopKeeps
    <2> QED
      BY <1>1, <2>1, InvokeKeeps, LookupFindsKeeps, RequestApprovalKeeps,
         ValidateRefusesKeeps, ValidateAcceptsKeeps, AuditIntentKeeps,
         DispatchKeeps, TimeOutKeeps, RecordOutcomeKeeps, MarkConfirmedKeeps,
         AuditOutcomeKeeps
      DEF RunStep
  <1>2. ASSUME NEW post \in posts, Handle(post)
        PROVE  IInv'
    BY <1>2, HandleCreatesKeeps, HandleSettledKeeps, HandleFailsKeeps DEF Handle
  <1>3. ASSUME NEW a \in Approvals, OperatorGrants(a) \/ OperatorExpires(a)
        PROVE  IInv'
    BY <1>3, OperatorGrantsKeeps, OperatorExpiresKeeps
  <1>4. CASE DirectCommit \/ ResetActions \/ Tick
    BY <1>4, DirectCommitKeeps, ResetActionsKeeps, TickKeeps
  <1>5. CASE UNCHANGED vars
    BY <1>5, StutterKeeps
  <1> QED
    BY <1>1, <1>2, <1>3, <1>4, <1>5 DEF Next

-------------------------------------------------------------------------------
\* Theorems

\* The invariant above holds at every step of the system.
THEOREM Invariant == Spec => []IInv
  <1>1. Init => IInv
    BY InitHolds
  <1>2. IInv /\ [Next]_vars => IInv'
    BY StepKeeps
  <1> QED
    BY <1>1, <1>2, PTL DEF Spec

\* Every variable keeps its type; in particular the API never runs out of the
\* record ids that the bound on resets leaves it.
THEOREM TypesCorrect == Spec => []TypeOK
  <1>1. IInv => TypeOK
    BY TypesInParts DEF IInv, RunInv, RecordInv
  <1> QED
    BY <1>1, Invariant, PTL

\* Human approval gates every effect (executor.py validates the capability and
\* audits the intent before it posts): no POST and no record that the workflow
\* can have caused is without a grant for its pair and a prior audited intent.
THEOREM EffectsAreGranted == Spec => []NoEffectWithoutGrant
  <1>1. IInv => NoEffectWithoutGrant
    BY DEF IInv, EffectInv
  <1> QED
    BY <1>1, Invariant, PTL

\* ActionStore.commit keeps one record per pair, whatever calls, retries and
\* direct callers do: between two resets of the ledger a pair has one effect.
THEOREM EffectsAreOncePerReset == Spec => []OneEffectPerReset
  <1>1. IInv => OneEffectPerReset
    BY DEF IInv, RecordInv, LedgerCounted, RecordsIn, UniquePairs,
           OneEffectPerReset
  <1> QED
    BY <1>1, Invariant, PTL

\* mark_applied is called with the record the response names: an applied
\* approval carries a record the API created for the approval's own pair.
THEOREM AppliedNamesItsRecord == Spec => []AppliedForItsRecord
  <1>1. IInv => AppliedForItsRecord
    BY DEF IInv, EffectInv
  <1> QED
    BY <1>1, Invariant, PTL

\* The executor's audit events: one mutation_committed per record, of a record
\* that exists for the approval's pair, after the call's mutation_attempted.
THEOREM AuditTellsTheTruth == Spec => []AuditTruthful
  <1>1. IInv => AuditTruthful
    BY DEF IInv, EffectInv
  <1> QED
    BY <1>1, Invariant, PTL

\* What a step does to the status of an approved request.
Outlives(a) ==
    a \in Present(data) /\ data[a].status = "approved" =>
      \/ data'[a].status = "approved"
      \/ data'[a].status = "expired" /\ clock >= data[a].expires
      \/ /\ data'[a].status = "applied"
         /\ \E record \in created :
              /\ record.pair = BoundTo(a) /\ ToldOf(a, record)
              /\ data'[a].record = record.id

LEMMA SameOutlives ==
    ASSUME NEW a, data' = data
    PROVE  Outlives(a)
  BY DEF Outlives

\* Only an approval whose time is over by the clock expires.
LEMMA ExpireOutlives ==
    ASSUME data \in Tables, NEW a \in Approvals, NEW b \in Approvals,
           NEW now \in Nat, clock \in Nat, now <= clock,
           data' = Expire(data, b, now)
    PROVE  Outlives(a)
  <1>1. CASE Lapsed(data, b, now)
    <2>1. /\ data[b] \in Entries /\ now >= data[b].expires
          /\ data' = [data EXCEPT ![b].status = "expired"]
      BY <1>1, PresentEntries DEF Lapsed, HasStatus, Present, Expire
    <2>2. data'[b].status = "expired" /\ (a # b => data'[a] = data[a])
      BY <2>1 DEF Tables, Entries
    <2>3. clock >= data[b].expires
      <3>1. data[b].expires \in Nat
        BY <2>1 DEF Entries
      <3> QED
        BY <2>1, <3>1
    <2> QED
      BY <2>2, <2>3 DEF Outlives
  <1>2. CASE ~Lapsed(data, b, now)
    BY <1>2, SameOutlives DEF Expire
  <1> QED
    BY <1>1, <1>2

LEMMA RunStepOutlives ==
    ASSUME IInv, NEW r \in Runs, RunStep(r), NEW a \in Approvals
    PROVE  Outlives(a)
  <1>1. data \in Tables /\ clock \in Nat
    BY DEF IInv, WorldTypes
  <1>2. ASSUME RequestApproval(r)
        PROVE  Outlives(a)
    <2>1. PICK b \in Approvals \ Present(data) :
            data' = [data EXCEPT ![b] =
                       NewEntry(pair[r][1], pair[r][2], at[r], TTL)]
      BY <1>2 DEF RequestApproval
    <2>2. a \in Present(data) => data'[a] = data[a]
      BY <1>1, <2>1 DEF Tables
    <2> QED
      BY <2>2 DEF Outlives
  <1>3. ASSUME ValidateRefuses(r)
        PROVE  Outlives(a)
    <2>1. data' = data \/ \E b \in Approvals : data' = Expire(data, b, at[r])
      BY <1>3 DEF ValidateRefuses, HoldersOf, Present
    <2>2. at[r] \in Nat /\ at[r] <= clock
      BY DEF IInv, RunInv, RunTypes, RunsMatch
    <2> QED
      BY <1>1, <2>1, <2>2, SameOutlives, ExpireOutlives
  <1>4. ASSUME RecordOutcome(r)
        PROVE  Outlives(a)
    <2>1. data' = RecordAttempt(data, approval[r])
      BY <1>4 DEF RecordOutcome
    <2>2. a \in Present(data) => data'[a].status = data[a].status
      BY <1>1, <2>1, PresentEntries DEF RecordAttempt, Tables, Entries
    <2> QED
      BY <2>2 DEF Outlives
  <1>5. ASSUME MarkConfirmed(r)
        PROVE  Outlives(a)
    <2>1. pc[r] = "mark" /\ data' = MarkApplied(data, approval[r], got[r].record)
      BY <1>5 DEF MarkConfirmed
    <2>2. PICK record \in created :
            record.id = got[r].record /\ record.pair = pair[r]
      BY <2>1 DEF IInv, RunInv, ResponsesTrue, Confirmed, Answered
    <2>3. /\ approval[r] \in Approvals /\ BoundTo(approval[r]) = pair[r]
          /\ got[r].record \in RecordIds /\ got[r] # NoAnswer
      BY <2>1, <2>2
      DEF IInv, RunInv, RunsMatch, RunsAreGranted, Accepted, Answered,
          RecordInv, RecordTypes, Records
    <2>4. a \in Present(data) =>
            \/ data'[a] = data[a]
            \/ /\ a = approval[r] /\ data'[a].status = "applied"
               /\ data'[a].record = got[r].record
      BY <1>1, <2>1, <2>3, MarkAppliedApplies
    <2> QED
      BY <2>2, <2>3, <2>4 DEF Outlives, ToldOf
  <1>6. CASE data' = data
    BY <1>6, SameOutlives
  <1> QED
    BY <1>2, <1>3, <1>4, <1>5, <1>6
    DEF RunStep, LookupStops, LookupFinds, ValidateAccepts, AuditIntent,
        Dispatch, TimeOut, AuditOutcome

LEMMA StepOutlives ==
    ASSUME IInv, [Next]_vars, NEW a \in Approvals
    PROVE  Outlives(a)
  <1>1. data \in Tables /\ clock \in Nat
    BY DEF IInv, WorldTypes
  <1>2. ASSUME NEW b \in Approvals, OperatorGrants(b)
        PROVE  Outlives(a)
    <2>1. b \in Present(data) /\ data' = Grant(data, b, b)
      BY <1>2 DEF OperatorGrants
    <2>2. data'[b].status = "approved" /\ (a # b => data'[a] = data[a])
      BY <1>1, <2>1, PresentEntries DEF Grant, Tables, Entries
    <2> QED
      BY <2>2 DEF Outlives
  <1>3. ASSUME NEW b \in Approvals, OperatorExpires(b)
        PROVE  Outlives(a)
    BY <1>1, <1>3, ExpireOutlives DEF OperatorExpires
  <1>4. CASE data' = data
    BY <1>4, SameOutlives
  <1> QED
    BY <1>2, <1>3, <1>4, RunStepOutlives
    DEF Next, Invoke, Die, Handle, HandleCreates, HandleSettled, HandleFails,
        DirectCommit, ResetActions, Tick, vars

\* A failed attempt costs no grant (executor.py calls mark_applied only on a
\* confirmed outcome): an approval stops being approved only when its time is
\* over, or when a call with its capability was told of its pair's record.
THEOREM GrantsOutliveFailures == Spec => GrantOutlivesFailure
  <1>1. IInv /\ [Next]_vars => [GrantOutlivesFailureStep]_vars
    <2> SUFFICES ASSUME IInv, [Next]_vars PROVE GrantOutlivesFailureStep
      OBVIOUS
    <2>1. \A a \in Approvals : Outlives(a)
      BY StepOutlives
    <2> QED
      BY <2>1 DEF GrantOutlivesFailureStep, Outlives, Present
  <1> QED
    BY <1>1, Invariant, PTL DEF Spec, GrantOutlivesFailure
===============================================================================
