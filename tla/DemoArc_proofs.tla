---------------------------- MODULE DemoArc_proofs -----------------------------
(***************************************************************************)
(* Theorems about DemoArc for any number of demos and kills: its types,    *)
(* that a passed demo's claims are true whatever the others do, and that a *)
(* demo left to itself fails only over a file that already has its action  *)
(* applied.                                                                *)
(***************************************************************************)
EXTENDS DemoArc, TLAPS

-------------------------------------------------------------------------------
\* The inductive invariant

\* A confirmed answer, and the record it names.
Confirming == {"created", "replayed", "already_applied"}
RecordedIn(records, id) ==
    \E record \in records : record.id = id /\ record.pair = PairOf(Mutated)
Recorded(id) == RecordedIn(created, id)

\* The approval file: requests never lapse, a grant's capability is the
\* request's own, and only the mutated action is ever applied, to a record.
FileInv ==
    /\ data \in Tables
    /\ \A a \in Present(data) :
         /\ data[a].incident = "inc"
         /\ data[a].action = a[2]
         /\ data[a].expires = 1
         /\ data[a].status \in {"pending", "approved", "applied"}
         /\ data[a].capability = IF data[a].status = "pending"
                                 THEN NoCapability ELSE a
         /\ data[a].status = "applied" =>
              a[2] = Mutated /\ Recorded(data[a].record)

\* Demos whose reset is behind them and that can still act.
Past == {d \in Demos :
           phase[d] \notin {"off", "reset", "killed"} \/ ~Serving(d, "none")}

\* The action store holds at most one record, of the mutated action; once a
\* demo has reset it, one that a demo created.
StoreInv ==
    /\ \/ ledger = << >>
       \/ \E id \in Records, key \in {<<"direct">>, PairOf(Mutated)} :
            ledger = <<NewRecord(<< >>, PairOf(Mutated), key, id)>>
    /\ Past # {} =>
         \A i \in DOMAIN ledger :
           [id |-> ledger[i].id, pair |-> PairOf(Mutated)] \in created

\* Which call created a record: the one with the fault, or one whose answer
\* says so and cannot be as expected.
CreatedAsAnswered(record) ==
    LET d == record.id[1]
        k == record.id[2] IN
    /\ k <= position[d]
    /\ \/ k = 2
       \/ /\ k = position[d]
          /\ k \in {3, 4}
          /\ \/ phase[d] \in {"failed", "killed"}
             \/ /\ server[d].step \in {"record", "done"}
                /\ server[d].answer = "created"
CreatedInv ==
    /\ created \subseteq [id : Created, pair : {PairOf(Mutated)}]
    /\ \A record \in created : CreatedAsAnswered(record)

\* Where a demo is in its script, and what its server can have answered.
InScript(d) ==
    /\ phase[d] \in {"off", "reset", "surface"} =>
         position[d] = 1 /\ Serving(d, "none")
    /\ phase[d] = "off" =>
         /\ data[<<d, Mutated>>] = NoEntry /\ data[<<d, Refused>>] = NoEntry
         /\ d \notin stale
    /\ phase[d] = "approve" => position[d] \in {1, 5}
    /\ phase[d] = "passed" => position[d] = 6
    /\ server[d].step \in {"post", "record"} => position[d] \in {2, 3, 4, 6}
    /\ Serving(d, "record") =>
         /\ server[d].answer # "approval_already_applied"
         /\ position[d] = 6 => server[d].answer = "auth_failure"
    /\ server[d].step \in {"record", "done"} /\ server[d].answer \in Confirming =>
         position[d] \in {2, 3, 4} /\ Recorded(server[d].record)

\* After the last use of the first capability was refused as applied, its
\* request is applied for as long as the file has it.
SecondUseRefused(d) ==
    \/ position[d] >= 5
    \/ /\ position[d] = 4
       /\ Serving(d, "done")
       /\ server[d].answer = "approval_already_applied"
    => \/ data[<<d, Mutated>>] = NoEntry
       \/ data[<<d, Mutated>>].status = "applied"

\* The arc of a demo that is alone: where its records and approvals are.
Written(d) ==
    \/ position[d] > 2
    \/ /\ position[d] = 2
       /\ \/ Serving(d, "record")
          \/ Serving(d, "done") /\ server[d].answer = "failed"

AskedAt(d, k) ==
    position[d] = k /\ (phase[d] = "approve" \/ Serving(d, "done"))

StatusOf(a) == IF data[a] = NoEntry THEN "none" ELSE data[a].status

ArcStore(d) ==
    /\ d \in stale <=>
         PairAppliedElsewhere(data, <<d, Mutated>>, "inc", Mutated)
    /\ Written(d) => /\ d \notin stale
                     /\ Len(ledger) = 1
                     /\ ledger[1].key = PairOf(Mutated)
                     /\ ledger[1].pair = PairOf(Mutated)
    /\ ~Written(d) => ledger = << >> \/ phase[d] = "reset"
    /\ phase[d] = "wait" /\ position[d] = 1 => before[d] = 0
    /\ phase[d] = "call" /\ position[d] = 1 => before[d] = 0

ArcFile(d) ==
    /\ StatusOf(<<d, Mutated>>) =
         CASE position[d] = 1 -> IF AskedAt(d, 1) THEN "pending" ELSE "none"
           [] position[d] = 2 -> "approved"
           [] position[d] = 3 -> IF Serving(d, "done") THEN "applied"
                                                       ELSE "approved"
           [] OTHER -> "applied"
    /\ StatusOf(<<d, Refused>>) =
         CASE position[d] < 5 -> "none"
           [] position[d] = 5 -> IF AskedAt(d, 5) THEN "pending" ELSE "none"
           [] OTHER -> "approved"

ArcAnswer(d) ==
    CASE position[d] \in {1, 5} ->
           Serving(d, "done") => server[d].answer = "pending_approval"
      [] position[d] = 2 ->
           /\ server[d].step \in {"post", "record"} => d \notin stale
           /\ Serving(d, "record") => server[d].answer = "failed"
           /\ Serving(d, "done") =>
                server[d].answer = IF d \in stale THEN "action_already_applied"
                                                  ELSE "failed"
      [] position[d] = 3 ->
           server[d].step \in {"record", "done"} => server[d].answer = "replayed"
      [] position[d] = 4 ->
           /\ server[d].step \notin {"post", "record"}
           /\ Serving(d, "done") => server[d].answer = "approval_already_applied"
      [] OTHER ->
           server[d].step \in {"record", "done"} => server[d].answer = "auth_failure"

\* What VerdictExplained says of one demo.
Explained(d) ==
    d \notin overlapped =>
      /\ phase[d] = "failed" => d \in stale
      /\ phase[d] = "passed" => d \notin stale

OnCourse(d) ==
    /\ InScript(d)
    /\ SecondUseRefused(d)
    /\ d \in Running \ overlapped => ArcStore(d) /\ ArcFile(d) /\ ArcAnswer(d)
    /\ Explained(d)

IInv ==
    /\ TypeOK
    /\ FileInv
    /\ StoreInv
    /\ CreatedInv
    /\ \A d \in Demos : OnCourse(d)

-------------------------------------------------------------------------------
\* The script and the two stores

\* The script, call by call.
LEMMA ScriptTable ==
    \A k \in Positions :
      /\ Script[k].action = IF k <= 4 THEN Mutated ELSE Refused
      /\ Script[k].granted <=> k \in {2, 3, 4, 6}
      /\ Script[k].write <=> k <= 4
      /\ Script[k].inject <=> k = 2
  BY DEF Script, Positions, Mutated, Refused

LEMMA LedgerShape ==
    ASSUME StoreInv
    PROVE  /\ WellFormed(ledger)
           /\ Len(ledger) \in 0..1
           /\ \A i \in DOMAIN ledger :
                /\ i = 1
                /\ ledger[i].pair = PairOf(Mutated)
                /\ ledger[i].id \in Records
           /\ IsFresh(ledger, PairOf(Mutated), PairOf(Mutated)) <=> ledger = << >>
           /\ ledger # << >> => Len(ledger) = 1
  <1>1. CASE ledger = << >>
    BY <1>1
    DEF WellFormed, UniqueKeys, UniquePairs, Dense, IsFresh, KeySeen, PairSeen,
        RecordsWithKey, RecordsWithPair
  <1>2. ASSUME NEW id \in Records, NEW key,
               ledger = <<NewRecord(<< >>, PairOf(Mutated), key, id)>>
        PROVE  /\ WellFormed(ledger)
               /\ Len(ledger) = 1 /\ ledger # << >>
               /\ \A i \in DOMAIN ledger :
                    /\ i = 1
                    /\ ledger[i].pair = PairOf(Mutated)
                    /\ ledger[i].id \in Records
               /\ ~IsFresh(ledger, PairOf(Mutated), PairOf(Mutated))
    <2> DEFINE new == NewRecord(<< >>, PairOf(Mutated), key, id)
    <2>1. /\ new.pair = PairOf(Mutated) /\ new.id = id /\ new.sequence = 1
      BY DEF NewRecord
    <2> HIDE DEF new
    <2>2. Len(ledger) = 1 /\ DOMAIN ledger = {1} /\ ledger[1] = new
      BY <1>2 DEF new
    <2>3. WellFormed(ledger)
      BY <2>1, <2>2 DEF WellFormed, UniqueKeys, UniquePairs, Dense
    <2>4. ~IsFresh(ledger, PairOf(Mutated), PairOf(Mutated))
      BY <2>1, <2>2 DEF IsFresh, PairSeen, RecordsWithPair
    <2> QED
      BY <2>1, <2>2, <2>3, <2>4
  <1> QED
    BY <1>1, <1>2 DEF StoreInv

\* An entry of the file that is as FileInv says, when these records have been
\* created.
Sound(records, a, e) ==
    /\ e \in Entries
    /\ e.incident = "inc"
    /\ e.action = a[2]
    /\ e.expires = 1
    /\ e.status \in {"pending", "approved", "applied"}
    /\ e.capability = IF e.status = "pending" THEN NoCapability ELSE a
    /\ e.status = "applied" => a[2] = Mutated /\ RecordedIn(records, e.record)

LEMMA FileIsSound ==
    FileInv <=> /\ data \in Tables
                /\ \A a \in Present(data) : Sound(created, a, data[a])
  BY DEF FileInv, Sound, Present, Tables, Recorded

LEMMA SoundStays ==
    ASSUME NEW records, NEW more, records \subseteq more,
           NEW a, NEW e, Sound(records, a, e)
    PROVE  Sound(more, a, e)
  BY DEF Sound, RecordedIn

\* A file with one entry written.
Overwrites(a, e) == data' = [data EXCEPT ![a] = e]

LEMMA FileWritten ==
    ASSUME FileInv, created \subseteq created', NEW a \in Requested, NEW e,
           Overwrites(a, e), Sound(created', a, e)
    PROVE  /\ FileInv'
           /\ data'[a] = e
           /\ \A b \in Requested : b # a => data'[b] = data[b]
  <1>1. /\ data \in Tables /\ e \in Entries
    BY DEF FileInv, Sound
  <1>2. /\ data' \in Tables
        /\ data'[a] = e
        /\ \A b \in Requested : b # a => data'[b] = data[b]
    BY <1>1 DEF Tables, Overwrites
  <1>3. ASSUME NEW b \in Present(data')
        PROVE  Sound(created', b, data'[b])
    <2>1. CASE b = a
      BY <1>2, <2>1
    <2>2. CASE b # a
      <3>1. b \in Present(data) /\ data'[b] = data[b]
        BY <1>2, <1>3, <2>2 DEF Present
      <3>2. Sound(created, b, data[b])
        BY <3>1, FileIsSound
      <3> QED
        BY <3>1, <3>2, SoundStays
    <2> QED
      BY <2>1, <2>2
  <1> QED
    BY <1>2, <1>3 DEF FileInv, Sound, Present, Tables, Recorded

LEMMA FileKept ==
    ASSUME FileInv, created \subseteq created', data' \in {EmptyFile, data}
    PROVE  FileInv'
  <1>1. CASE data' = data
    BY <1>1 DEF FileInv, Recorded, RecordedIn
  <1>2. CASE data' = EmptyFile
    BY <1>2 DEF FileInv, EmptyFile, Tables, Present
  <1> QED
    BY <1>1, <1>2

LEMMA StoreKept ==
    ASSUME StoreInv, ledger' = ledger, created \subseteq created',
           Past' # {} => Past # {}
    PROVE  StoreInv'
  BY DEF StoreInv

-------------------------------------------------------------------------------
\* The other demos

\* What an action of d leaves alone of the other demos: their control, their
\* entries unless the file is emptied, and everything that they can notice
\* unless they are overlapped from then on.
LeavesOthers(d) ==
    /\ created \subseteq created'
    /\ overlapped \subseteq overlapped'
    /\ \A e \in Demos \ {d} :
         /\ phase'[e] = phase[e] /\ position'[e] = position[e]
         /\ server'[e] = server[e] /\ before'[e] = before[e]
         /\ e \in stale' <=> e \in stale
         /\ \A action \in {Mutated, Refused} :
              data'[<<e, action>>] \in {NoEntry, data[<<e, action>>]}
         /\ e \in Running \ overlapped' => data' = data /\ ledger' = ledger

LEMMA OthersStayOnCourse ==
    ASSUME NEW d \in Demos, LeavesOthers(d), NEW e \in Demos \ {d}, OnCourse(e)
    PROVE  OnCourse(e)'
  <1>1. InScript(e)'
    BY DEF OnCourse, InScript, LeavesOthers, Serving, Recorded, RecordedIn
  <1>2. SecondUseRefused(e)'
    BY DEF OnCourse, SecondUseRefused, LeavesOthers, Serving
  <1>3. ASSUME e \in Running' \ overlapped'
        PROVE  ArcStore(e)' /\ ArcFile(e)' /\ ArcAnswer(e)'
    <2>1. /\ e \in Running \ overlapped /\ data' = data /\ ledger' = ledger
          /\ phase'[e] = phase[e] /\ position'[e] = position[e]
          /\ server'[e] = server[e] /\ before'[e] = before[e]
          /\ e \in stale' <=> e \in stale
      BY <1>3 DEF LeavesOthers, Running
    <2>2. ArcStore(e) /\ ArcFile(e) /\ ArcAnswer(e)
      BY <2>1 DEF OnCourse
    <2>3. ArcStore(e)'
      BY <2>1, <2>2 DEF ArcStore, Written, Serving, PairAppliedElsewhere, Present
    <2>4. ArcFile(e)'
      BY <2>1, <2>2 DEF ArcFile, AskedAt, StatusOf, Serving
    <2>5. ArcAnswer(e)'
      BY <2>1, <2>2 DEF ArcAnswer, Serving
    <2> QED
      BY <2>3, <2>4, <2>5
  <1>4. Explained(e)'
    BY DEF OnCourse, Explained, LeavesOthers
  <1> QED
    BY <1>1, <1>2, <1>3, <1>4 DEF OnCourse

\* So that an action of d keeps the invariant if it keeps what is said of the
\* two stores, of d, and of what d created.
LEMMA ActorKeeps ==
    ASSUME IInv, NEW d \in Demos, LeavesOthers(d),
           TypeOK', FileInv', StoreInv', OnCourse(d)',
           created' \subseteq [id : Created, pair : {PairOf(Mutated)}],
           \A record \in created' \ created : record.id[1] = d,
           \A record \in created' :
             record.id[1] = d => CreatedAsAnswered(record)'
    PROVE  IInv'
  <1>1. \A e \in Demos : OnCourse(e)'
    BY OthersStayOnCourse DEF IInv
  <1>2. ASSUME NEW record \in created', record.id[1] # d
        PROVE  CreatedAsAnswered(record)'
    <2>1. record \in created /\ record.id[1] \in Demos \ {d}
      BY <1>2 DEF Created
    <2>2. CreatedAsAnswered(record)
      BY <2>1 DEF IInv, CreatedInv
    <2> QED
      BY <2>1, <2>2 DEF CreatedAsAnswered, LeavesOthers
  <1> QED
    BY <1>1, <1>2 DEF IInv, CreatedInv

-------------------------------------------------------------------------------
\* The demo's own steps

LEMMA TypesHere ==
    ASSUME TypeOK, NEW d \in Demos
    PROVE  /\ phase[d] \in Ended \cup {"reset", "surface", "call", "wait", "approve"}
           /\ position[d] \in 1..6 /\ before[d] \in 0..1
           /\ server[d].step \in {"none", "decide", "post", "record", "done"}
           /\ server[d].answer \in Answers
           /\ server[d].record \in Records \cup {NoRecord}
           /\ phase[d] # "killed" => (phase[d] = "wait" <=> ~Serving(d, "none"))
  BY DEF TypeOK, Positions

LEMMA LaunchKeeps ==
    ASSUME IInv, NEW d \in Demos, Launch(d)
    PROVE  IInv'
  <1>1. /\ phase[d] = "off" /\ phase' = [phase EXCEPT ![d] = "reset"]
        /\ data' \in {EmptyFile, data}
        /\ stale' = IF \E a \in Present(data') :
                         data'[a].status = "applied" /\ data'[a].action = Mutated
                    THEN stale \cup {d} ELSE stale
        /\ overlapped' = overlapped \cup (Running \ {d})
        /\ UNCHANGED <<ledger, created, position, before, server, kills>>
    BY DEF Launch, Goto, Acts
  <1>2. /\ phase'[d] = "reset"
        /\ \A e \in Demos \ {d} : phase'[e] = phase[e]
    BY <1>1 DEF IInv, TypeOK
  <1>3. /\ position[d] = 1 /\ Serving(d, "none") /\ d \notin stale
        /\ data[<<d, Mutated>>] = NoEntry /\ data[<<d, Refused>>] = NoEntry
    BY <1>1 DEF IInv, OnCourse, InScript
  <1>4. FileInv'
    BY <1>1, FileKept DEF IInv
  <1>5. data'[<<d, Mutated>>] = NoEntry /\ data'[<<d, Refused>>] = NoEntry
    BY <1>1, <1>3 DEF EmptyFile, Requested
  <1>6. LeavesOthers(d)
    <2>1. \A e \in Demos, action \in {Mutated, Refused} :
            data'[<<e, action>>] \in {NoEntry, data[<<e, action>>]}
      BY <1>1 DEF EmptyFile, Requested
    <2>2. \A e \in Demos \ {d} : e \in stale' <=> e \in stale
      BY <1>1
    <2> QED
      BY <1>1, <1>2, <2>1, <2>2 DEF LeavesOthers
  <1>7. StoreInv'
    <2>1. Past' \subseteq Past
      BY <1>1, <1>2, <1>3 DEF Past, Serving
    <2> QED
      BY <1>1, <2>1, StoreKept DEF IInv
  <1>8. TypeOK'
    <2>1. phase' \in [Demos -> Ended \cup {"reset", "surface", "call", "wait", "approve"}]
      BY <1>1 DEF IInv, TypeOK
    <2>2. \A e \in Demos : phase'[e] # "killed" =>
            (phase'[e] = "wait") = ~Serving(e, "none")'
      BY <1>1, <1>2, <1>3 DEF IInv, TypeOK, Serving
    <2>3. overlapped' \cup stale' \subseteq Demos
      BY <1>1 DEF IInv, TypeOK, Running
    <2> QED
      BY <1>1, <1>4, <2>1, <2>2, <2>3 DEF IInv, TypeOK, FileInv
  <1>9. OnCourse(d)'
    <2>1. InScript(d)'
      BY <1>1, <1>2, <1>3 DEF InScript, Serving
    <2>2. SecondUseRefused(d)'
      BY <1>1, <1>3 DEF SecondUseRefused
    <2>3. ArcStore(d)'
      <3>1. d \in stale' <=>
              \E a \in Present(data') :
                data'[a].status = "applied" /\ data'[a].action = Mutated
        BY <1>1, <1>3
      <3>2. \A a \in Present(data') :
              data'[a].incident = "inc" /\ a # <<d, Mutated>>
        BY <1>4, <1>5 DEF FileInv, Present
      <3>3. d \in stale' <=>
              PairAppliedElsewhere(data', <<d, Mutated>>, "inc", Mutated)
        BY <3>1, <3>2 DEF PairAppliedElsewhere
      <3> QED
        BY <3>3, <1>1, <1>2, <1>3 DEF ArcStore, Written, Serving
    <2>4. ArcFile(d)' /\ ArcAnswer(d)'
      BY <1>1, <1>2, <1>3, <1>5 DEF ArcFile, ArcAnswer, StatusOf, AskedAt, Serving
    <2>5. Explained(d)'
      BY <1>2 DEF Explained
    <2> QED
      BY <2>1, <2>2, <2>3, <2>4, <2>5 DEF OnCourse
  <1>10. \A record \in created : record.id[1] = d => CreatedAsAnswered(record)'
    BY <1>1, <1>2, <1>3 DEF IInv, CreatedInv, CreatedAsAnswered, Serving
  <1> QED
    BY <1>1, <1>4, <1>6, <1>7, <1>8, <1>9, <1>10, ActorKeeps DEF IInv, CreatedInv

LEMMA ResetKeeps ==
    ASSUME IInv, NEW d \in Demos, Reset(d)
    PROVE  IInv'
  <1>1. /\ phase[d] = "reset" /\ phase' = [phase EXCEPT ![d] = "surface"]
        /\ ledger' = << >>
        /\ overlapped' = overlapped \cup (Running \ {d})
        /\ UNCHANGED <<data, created, position, before, server, kills, stale>>
    BY DEF Reset, Goto, Acts
  <1>2. /\ phase'[d] = "surface"
        /\ \A e \in Demos \ {d} : phase'[e] = phase[e]
    BY <1>1 DEF IInv, TypeOK
  <1>3. position[d] = 1 /\ Serving(d, "none")
    BY <1>1 DEF IInv, OnCourse, InScript
  <1>4. FileInv'
    BY <1>1, FileKept DEF IInv
  <1>5. LeavesOthers(d)
    BY <1>1, <1>2 DEF LeavesOthers
  <1>6. StoreInv'
    BY <1>1 DEF StoreInv
  <1>7. TypeOK'
    <2>1. phase' \in [Demos -> Ended \cup {"reset", "surface", "call", "wait", "approve"}]
      BY <1>1 DEF IInv, TypeOK
    <2>2. \A e \in Demos : phase'[e] # "killed" =>
            (phase'[e] = "wait") = ~Serving(e, "none")'
      BY <1>1, <1>2, <1>3 DEF IInv, TypeOK, Serving
    <2>3. overlapped' \cup stale' \subseteq Demos
      BY <1>1 DEF IInv, TypeOK, Running
    <2>4. WellFormed(ledger')
      BY <1>1 DEF WellFormed, UniqueKeys, UniquePairs, Dense
    <2> QED
      BY <1>1, <2>1, <2>2, <2>3, <2>4 DEF IInv, TypeOK
  <1>8. OnCourse(d)'
    <2>1. InScript(d)'
      BY <1>1, <1>2, <1>3 DEF InScript, Serving
    <2>2. SecondUseRefused(d)'
      BY <1>1, <1>3 DEF SecondUseRefused
    <2>3. ASSUME d \in (Running \ overlapped)'
          PROVE  ArcStore(d)' /\ ArcFile(d)' /\ ArcAnswer(d)'
      <3>1. ArcStore(d) /\ ArcFile(d) /\ ArcAnswer(d)
        BY <1>1, <2>3 DEF IInv, OnCourse, Running, Ended
      <3>2. ArcStore(d)'
        BY <3>1, <1>1, <1>2, <1>3
        DEF ArcStore, Written, Serving, PairAppliedElsewhere, Present
      <3>3. ArcFile(d)' /\ ArcAnswer(d)'
        BY <3>1, <1>1, <1>2, <1>3 DEF ArcFile, ArcAnswer, StatusOf, AskedAt, Serving
      <3> QED
        BY <3>2, <3>3
    <2>4. Explained(d)'
      BY <1>2 DEF Explained
    <2> QED
      BY <2>1, <2>2, <2>3, <2>4 DEF OnCourse
  <1>9. \A record \in created : record.id[1] = d => CreatedAsAnswered(record)'
    BY <1>1, <1>2, <1>3 DEF IInv, CreatedInv, CreatedAsAnswered, Serving
  <1> QED
    BY <1>1, <1>4, <1>5, <1>6, <1>7, <1>8, <1>9, ActorKeeps DEF IInv, CreatedInv

\* The allowlists of the demo's two servers.
LEMMA SurfaceIsRight ==
    /\ "apply_incident_plan" \notin ResolveEnabledTools(ReadPlanTools)
    /\ "apply_incident_plan" \in ResolveEnabledTools(AllTools)
  BY DEF ResolveEnabledTools, ReadPlanTools, AllTools, DefaultTools, ToolNames

LEMMA CheckSurfaceKeeps ==
    ASSUME IInv, NEW d \in Demos, CheckSurface(d)
    PROVE  IInv'
  <1>1. /\ phase[d] = "surface" /\ phase' = [phase EXCEPT ![d] = "call"]
        /\ before' = [before EXCEPT ![d] = Len(ledger)]
        /\ UNCHANGED <<data, ledger, created, position, server, kills, overlapped,
                       stale>>
    BY SurfaceIsRight DEF CheckSurface, Goto
  <1>2. Len(ledger) \in 0..1
    BY LedgerShape DEF IInv
  <1>3. /\ phase'[d] = "call" /\ before'[d] = Len(ledger)
        /\ \A e \in Demos \ {d} : phase'[e] = phase[e] /\ before'[e] = before[e]
    BY <1>1 DEF IInv, TypeOK
  <1>4. position[d] = 1 /\ Serving(d, "none")
    BY <1>1 DEF IInv, OnCourse, InScript
  <1>5. FileInv'
    BY <1>1, FileKept DEF IInv
  <1>6. LeavesOthers(d)
    BY <1>1, <1>3 DEF LeavesOthers
  <1>7. StoreInv'
    <2>1. d \in Past
      BY <1>1 DEF Past
    <2> QED
      BY <1>1, <2>1, StoreKept DEF IInv
  <1>8. TypeOK'
    <2>1. phase' \in [Demos -> Ended \cup {"reset", "surface", "call", "wait", "approve"}]
      BY <1>1 DEF IInv, TypeOK
    <2>2. \A e \in Demos : phase'[e] # "killed" =>
            (phase'[e] = "wait") = ~Serving(e, "none")'
      BY <1>1, <1>3, <1>4 DEF IInv, TypeOK, Serving
    <2>3. before' \in [Demos -> 0..1]
      BY <1>1, <1>2 DEF IInv, TypeOK
    <2> QED
      BY <1>1, <2>1, <2>2, <2>3 DEF IInv, TypeOK
  <1>9. OnCourse(d)'
    <2>1. InScript(d)'
      BY <1>1, <1>3, <1>4 DEF InScript, Serving
    <2>2. SecondUseRefused(d)'
      BY <1>1, <1>4 DEF SecondUseRefused
    <2>3. ASSUME d \in (Running \ overlapped)'
          PROVE  ArcStore(d)' /\ ArcFile(d)' /\ ArcAnswer(d)'
      <3>1. ArcStore(d) /\ ArcFile(d) /\ ArcAnswer(d)
        BY <1>1, <2>3 DEF IInv, OnCourse, Running, Ended
      <3>2. ledger = << >>
        BY <3>1, <1>1, <1>4 DEF ArcStore, Written, Serving
      <3>3. ArcStore(d)'
        BY <3>1, <3>2, <1>1, <1>3, <1>4
        DEF ArcStore, Written, Serving, PairAppliedElsewhere, Present
      <3>4. ArcFile(d)' /\ ArcAnswer(d)'
        BY <3>1, <1>1, <1>3, <1>4 DEF ArcFile, ArcAnswer, StatusOf, AskedAt, Serving
      <3> QED
        BY <3>3, <3>4
    <2>4. Explained(d)'
      BY <1>3 DEF Explained
    <2> QED
      BY <2>1, <2>2, <2>3, <2>4 DEF OnCourse
  <1>10. \A record \in created : record.id[1] = d => CreatedAsAnswered(record)'
    BY <1>1, <1>3, <1>4 DEF IInv, CreatedInv, CreatedAsAnswered, Serving
  <1> QED
    BY <1>1, <1>5, <1>6, <1>7, <1>8, <1>9, <1>10, ActorKeeps DEF IInv, CreatedInv

LEMMA CallKeeps ==
    ASSUME IInv, NEW d \in Demos, Call(d)
    PROVE  IInv'
  <1> DEFINE new == [step |-> "decide", answer |-> "none", record |-> NoRecord]
  <1>1. /\ phase[d] = "call" /\ phase' = [phase EXCEPT ![d] = "wait"]
        /\ UNCHANGED <<data, ledger, created, position, before, kills, overlapped,
                       stale>>
    BY DEF Call, Goto
  <1>2. server' = [server EXCEPT ![d] = new]
    <2>1. [NoServerCall EXCEPT !.step = "decide"] = new
      BY DEF NoServerCall
    <2> QED
      BY <2>1 DEF Call
  <1>3. /\ new.step = "decide" /\ new.answer = "none" /\ new.record = NoRecord
        /\ new \in [step : {"none", "decide", "post", "record", "done"},
                     answer : Answers, record : Records \cup {NoRecord}]
    BY DEF Answers
  <1> HIDE DEF new
  <1>4. /\ phase'[d] = "wait" /\ server'[d] = new
        /\ \A e \in Demos \ {d} : phase'[e] = phase[e] /\ server'[e] = server[e]
    BY <1>1, <1>2 DEF IInv, TypeOK
  <1>5. Serving(d, "none")
    BY <1>1, TypesHere DEF IInv
  <1>6. FileInv'
    BY <1>1, FileKept DEF IInv
  <1>7. LeavesOthers(d)
    BY <1>1, <1>4 DEF LeavesOthers
  <1>8. StoreInv'
    <2>1. d \in Past
      BY <1>1 DEF Past
    <2> QED
      BY <1>1, <2>1, StoreKept DEF IInv
  <1>9. TypeOK'
    <2>1. phase' \in [Demos -> Ended \cup {"reset", "surface", "call", "wait", "approve"}]
      BY <1>1 DEF IInv, TypeOK
    <2>2. \A e \in Demos : phase'[e] # "killed" =>
            (phase'[e] = "wait") = ~Serving(e, "none")'
      BY <1>3, <1>4 DEF IInv, TypeOK, Serving
    <2>3. server' \in [Demos -> [step : {"none", "decide", "post", "record", "done"},
                                answer : Answers, record : Records \cup {NoRecord}]]
      BY <1>2, <1>3 DEF IInv, TypeOK
    <2> QED
      BY <1>1, <2>1, <2>2, <2>3 DEF IInv, TypeOK
  <1>10. OnCourse(d)'
    <2>1. InScript(d)'
      BY <1>1, <1>3, <1>4 DEF InScript, Serving, Confirming
    <2>2. SecondUseRefused(d)'
      BY <1>1, <1>3, <1>4 DEF SecondUseRefused, IInv, OnCourse, Serving
    <2>3. ASSUME d \in (Running \ overlapped)'
          PROVE  ArcStore(d)' /\ ArcFile(d)' /\ ArcAnswer(d)'
      <3>1. ArcStore(d) /\ ArcFile(d) /\ ArcAnswer(d)
        BY <1>1, <2>3 DEF IInv, OnCourse, Running, Ended
      <3>2. ArcStore(d)'
        BY <3>1, <1>1, <1>3, <1>4, <1>5
        DEF ArcStore, Written, Serving, PairAppliedElsewhere, Present
      <3>3. ArcFile(d)' /\ ArcAnswer(d)'
        BY <3>1, <1>1, <1>3, <1>4, <1>5
        DEF ArcFile, ArcAnswer, StatusOf, AskedAt, Serving
      <3> QED
        BY <3>2, <3>3
    <2>4. Explained(d)'
      BY <1>4 DEF Explained
    <2> QED
      BY <2>1, <2>2, <2>3, <2>4 DEF OnCourse
  <1>11. \A record \in created : record.id[1] = d => CreatedAsAnswered(record)'
    BY <1>1, <1>4, <1>5 DEF IInv, CreatedInv, CreatedAsAnswered, Serving
  <1> QED
    BY <1>1, <1>6, <1>7, <1>8, <1>9, <1>10, <1>11, ActorKeeps DEF IInv, CreatedInv

LEMMA ApproveKeeps ==
    ASSUME IInv, NEW d \in Demos, Approve(d)
    PROVE  IInv'
  <1> DEFINE a == OwnApproval(d)
  <1>1. /\ phase[d] = "approve"
        /\ overlapped' = overlapped \cup (Running \ {d})
        /\ UNCHANGED <<ledger, created, before, server, kills, stale>>
    BY DEF Approve, Acts
  <1>2. position[d] \in {1, 5} /\ Serving(d, "none")
    BY <1>1, TypesHere DEF IInv, OnCourse, InScript
  <1>3. /\ a = <<d, IF position[d] = 1 THEN Mutated ELSE Refused>>
        /\ a \in Requested
    BY <1>2, ScriptTable DEF OwnApproval, CurrentCall, Positions, Requested
  <1> HIDE DEF a
  <1>4. FileInv /\ TypeOK
    BY DEF IInv
  <1>5. CASE Grantable(data, a, 0)
    <2> DEFINE e == [data[a] EXCEPT !.status = "approved", !.capability = a]
    <2>1. /\ data' = Grant(data, a, a)
          /\ phase' = [phase EXCEPT ![d] = "call"]
          /\ position' = [position EXCEPT ![d] = position[d] + 1]
      BY <1>5 DEF Approve, Goto, Advance, a
    <2>2. a \in Present(data) /\ data[a].status = "pending"
      BY <1>3, <1>5 DEF Grantable, HasStatus, Present
    <2>3. Sound(created, a, data[a])
      BY <1>4, <2>2, FileIsSound
    <2>4. /\ Sound(created, a, e) /\ e.status = "approved" /\ e # NoEntry
      <3>1. /\ e \in Entries /\ e.status = "approved" /\ e.capability = a
            /\ e.incident = data[a].incident /\ e.action = data[a].action
            /\ e.expires = data[a].expires
        BY <1>3, <2>3 DEF Sound, Entries, Statuses
      <3> HIDE DEF e
      <3> QED
        BY <2>3, <3>1, NoEntryAssumption DEF Sound
    <2>5. /\ FileInv' /\ data'[a] = e
          /\ \A b \in Requested : b # a => data'[b] = data[b]
      <3>1. Overwrites(a, e)
        BY <2>1, <1>3, <1>4 DEF Grant, FileInv, Tables, Overwrites
      <3> HIDE DEF e
      <3> QED
        BY <1>1, <1>3, <1>4, <2>4, <3>1, FileWritten
    <2> HIDE DEF e
    <2>6. /\ phase'[d] = "call" /\ position'[d] = position[d] + 1
          /\ \A x \in Demos \ {d} : phase'[x] = phase[x] /\ position'[x] = position[x]
      BY <1>4, <2>1 DEF TypeOK
    <2>7. \A x \in Demos, action \in {Mutated, Refused} :
            <<x, action>> \in Requested
      BY DEF Requested
    <2>8. LeavesOthers(d)
      BY <1>1, <1>3, <2>5, <2>6, <2>7 DEF LeavesOthers
    <2>9. StoreInv'
      <3>1. d \in Past
        BY <1>1 DEF Past
      <3> QED
        BY <1>1, <3>1, StoreKept DEF IInv
    <2>10. TypeOK'
      <3>1. phase' \in [Demos -> Ended \cup {"reset", "surface", "call", "wait", "approve"}]
        BY <1>4, <2>1 DEF TypeOK
      <3>2. position' \in [Demos -> Positions]
        BY <1>2, <1>4, <2>1 DEF TypeOK, Positions
      <3>3. \A x \in Demos : phase'[x] # "killed" =>
              (phase'[x] = "wait") = ~Serving(x, "none")'
        BY <1>1, <1>2, <1>4, <2>6 DEF TypeOK, Serving
      <3>4. overlapped' \cup stale' \subseteq Demos
        BY <1>1, <1>4 DEF TypeOK, Running
      <3> QED
        BY <1>1, <1>4, <2>5, <3>1, <3>2, <3>3, <3>4 DEF TypeOK, FileInv
    <2>11. OnCourse(d)'
      <3>1. InScript(d)'
        BY <1>1, <1>2, <2>6 DEF InScript, Serving
      <3>2. SecondUseRefused(d)'
        BY <1>1, <1>2, <1>3, <2>5, <2>6, <2>7
        DEF SecondUseRefused, IInv, OnCourse, Serving, Mutated, Refused
      <3>3. ASSUME d \in (Running \ overlapped)'
            PROVE  ArcStore(d)' /\ ArcFile(d)' /\ ArcAnswer(d)'
        <4>1. ArcStore(d) /\ ArcFile(d) /\ ArcAnswer(d)
          BY <1>1, <3>3 DEF IInv, OnCourse, Running, Ended
        <4>2. PairAppliedElsewhere(data', <<d, Mutated>>, "inc", Mutated)
                <=> PairAppliedElsewhere(data, <<d, Mutated>>, "inc", Mutated)
          BY <1>3, <2>2, <2>4, <2>5 DEF PairAppliedElsewhere, Present
        <4>3. ArcStore(d)'
          BY <4>1, <4>2, <1>1, <1>2, <2>6 DEF ArcStore, Written, Serving
        <4>4. ArcFile(d)'
          BY <4>1, <1>1, <1>2, <1>3, <2>4, <2>5, <2>6, <2>7
          DEF ArcFile, StatusOf, AskedAt, Serving, Mutated, Refused
        <4>5. ArcAnswer(d)'
          BY <1>1, <1>2, <2>6 DEF ArcAnswer, Serving
        <4> QED
          BY <4>3, <4>4, <4>5
      <3>4. Explained(d)'
        BY <2>6 DEF Explained
      <3> QED
        BY <3>1, <3>2, <3>3, <3>4 DEF OnCourse
    <2>12. \A record \in created : record.id[1] = d => CreatedAsAnswered(record)'
      BY <1>1, <1>2, <2>6 DEF IInv, CreatedInv, CreatedAsAnswered, Serving
    <2> QED
      BY <1>1, <2>5, <2>8, <2>9, <2>10, <2>11, <2>12, ActorKeeps DEF IInv, CreatedInv
  <1>6. CASE ~Grantable(data, a, 0)
    <2>1. /\ data' = data /\ position' = position
          /\ phase' = [phase EXCEPT ![d] = "failed"]
      BY <1>6 DEF Approve, Goto, a
    <2>2. /\ phase'[d] = "failed"
          /\ \A x \in Demos \ {d} : phase'[x] = phase[x]
      BY <1>4, <2>1 DEF TypeOK
    <2>3. d \in overlapped
      <3> SUFFICES ASSUME d \notin overlapped PROVE FALSE
        OBVIOUS
      <3>1. ArcFile(d)
        BY <1>1 DEF IInv, OnCourse, Running, Ended
      <3>2. StatusOf(a) = "pending"
        BY <3>1, <1>1, <1>2, <1>3 DEF ArcFile, AskedAt
      <3>3. data[a] # NoEntry /\ data[a].status = "pending"
        BY <3>2 DEF StatusOf
      <3>4. data[a].expires = 1
        BY <3>3, <1>3, <1>4 DEF FileInv, Present
      <3> QED
        BY <3>3, <3>4, <1>6 DEF Grantable, Lapsed, HasStatus
    <2>4. FileInv'
      BY <1>1, <1>4, <2>1, FileKept
    <2>5. LeavesOthers(d)
      BY <1>1, <2>1, <2>2 DEF LeavesOthers
    <2>6. StoreInv'
      <3>1. d \in Past
        BY <1>1 DEF Past
      <3> QED
        BY <1>1, <3>1, StoreKept DEF IInv
    <2>7. TypeOK'
      <3>1. phase' \in [Demos -> Ended \cup {"reset", "surface", "call", "wait", "approve"}]
        BY <1>4, <2>1 DEF TypeOK, Ended
      <3>2. \A x \in Demos : phase'[x] # "killed" =>
              (phase'[x] = "wait") = ~Serving(x, "none")'
        BY <1>1, <1>2, <1>4, <2>2 DEF TypeOK, Serving
      <3>3. overlapped' \cup stale' \subseteq Demos
        BY <1>1, <1>4 DEF TypeOK, Running
      <3> QED
        BY <1>1, <1>4, <2>1, <3>1, <3>2, <3>3 DEF TypeOK
    <2>8. OnCourse(d)'
      <3>1. InScript(d)'
        BY <1>1, <1>2, <2>1, <2>2 DEF InScript, Serving
      <3>2. SecondUseRefused(d)'
        BY <1>1, <2>1 DEF SecondUseRefused, IInv, OnCourse, Serving
      <3>3. d \in overlapped'
        BY <1>1, <2>3
      <3> QED
        BY <3>1, <3>2, <3>3 DEF OnCourse, Explained
    <2>9. \A record \in created : record.id[1] = d => CreatedAsAnswered(record)'
      BY <1>1, <1>2, <2>1, <2>2 DEF IInv, CreatedInv, CreatedAsAnswered, Serving
    <2> QED
      BY <1>1, <2>4, <2>5, <2>6, <2>7, <2>8, <2>9, ActorKeeps DEF IInv, CreatedInv
  <1> QED
    BY <1>5, <1>6

LEMMA KillKeeps ==
    ASSUME IInv, NEW d \in Demos, Kill(d)
    PROVE  IInv'
  <1>1. /\ phase[d] \notin Ended /\ phase' = [phase EXCEPT ![d] = "killed"]
        /\ kills < MaxKills /\ kills' = kills + 1
        /\ UNCHANGED <<data, ledger, created, position, before, server, overlapped,
                       stale>>
    BY DEF Kill, Goto
  <1>2. /\ phase'[d] = "killed"
        /\ \A e \in Demos \ {d} : phase'[e] = phase[e]
    BY <1>1 DEF IInv, TypeOK
  <1>3. FileInv'
    BY <1>1, FileKept DEF IInv
  <1>4. LeavesOthers(d)
    BY <1>1, <1>2 DEF LeavesOthers
  <1>5. StoreInv'
    <2>1. Past' \subseteq Past
      BY <1>1, <1>2 DEF Past, Serving
    <2> QED
      BY <1>1, <2>1, StoreKept DEF IInv
  <1>6. TypeOK'
    <2>1. phase' \in [Demos -> Ended \cup {"reset", "surface", "call", "wait", "approve"}]
      BY <1>1 DEF IInv, TypeOK, Ended
    <2>2. \A e \in Demos : phase'[e] # "killed" =>
            (phase'[e] = "wait") = ~Serving(e, "none")'
      BY <1>1, <1>2 DEF IInv, TypeOK, Serving
    <2>3. kills' \in 0..MaxKills
      BY <1>1, DemoAssumption DEF IInv, TypeOK
    <2> QED
      BY <1>1, <2>1, <2>2, <2>3 DEF IInv, TypeOK
  <1>7. OnCourse(d)'
    <2>1. InScript(d)'
      BY <1>1, <1>2 DEF InScript, Serving, IInv, OnCourse, Recorded, RecordedIn
    <2>2. SecondUseRefused(d)'
      BY <1>1 DEF SecondUseRefused, IInv, OnCourse, Serving
    <2>3. d \notin Running' /\ Explained(d)'
      BY <1>2 DEF Running, Ended, Explained
    <2> QED
      BY <2>1, <2>2, <2>3 DEF OnCourse
  <1>8. \A record \in created : record.id[1] = d => CreatedAsAnswered(record)'
    BY <1>1, <1>2 DEF IInv, CreatedInv, CreatedAsAnswered
  <1> QED
    BY <1>1, <1>3, <1>4, <1>5, <1>6, <1>7, <1>8, ActorKeeps DEF IInv, CreatedInv

-------------------------------------------------------------------------------
\* The steps of a demo's server

ServerCalls ==
    [step : {"none", "decide", "post", "record", "done"}, answer : Answers,
     record : Records \cup {NoRecord}]

\* The server of d goes on to another step, and the file changes in an entry of
\* d alone; whoever could notice is overlapped from then on.
ServerMoves(d, new) ==
    /\ server' = [server EXCEPT ![d] = new]
    /\ \A b \in Requested : b[1] # d => data'[b] = data[b]
    /\ \/ data' = data /\ ledger' = ledger /\ overlapped' = overlapped
       \/ overlapped' = overlapped \cup (Running \ {d})
    /\ created \subseteq created'
    /\ UNCHANGED <<phase, position, before, kills, stale>>

LEMMA ServerFrame ==
    ASSUME IInv, NEW d \in Demos, NEW new \in ServerCalls, ServerMoves(d, new),
           ~Serving(d, "none"), new.step # "none"
    PROVE  /\ server'[d] = new
           /\ LeavesOthers(d)
           /\ d \in Past /\ Past' = Past
           /\ phase[d] \in {"wait", "killed"}
           /\ d \in Running' \ overlapped' =>
                /\ phase[d] = "wait"
                /\ ArcStore(d) /\ ArcFile(d) /\ ArcAnswer(d)
  <1>1. TypeOK
    BY DEF IInv
  <1>2. /\ server'[d] = new
        /\ \A e \in Demos \ {d} : server'[e] = server[e]
    BY <1>1 DEF ServerMoves, TypeOK
  <1>3. phase[d] \in {"wait", "killed"}
    BY <1>1, TypesHere
  <1>4. Past' = Past /\ d \in Past
    BY <1>2 DEF Past, Serving, ServerMoves
  <1>5. LeavesOthers(d)
    <2>1. \A e \in Demos, action \in {Mutated, Refused} :
            <<e, action>> \in Requested /\ <<e, action>>[1] = e
      BY DEF Requested
    <2>2. \A e \in Demos \ {d}, action \in {Mutated, Refused} :
            data'[<<e, action>>] = data[<<e, action>>]
      BY <2>1 DEF ServerMoves
    <2> QED
      BY <1>2, <2>2 DEF LeavesOthers, ServerMoves
  <1>6. d \in Running' \ overlapped' =>
          phase[d] = "wait" /\ ArcStore(d) /\ ArcFile(d) /\ ArcAnswer(d)
    BY <1>3 DEF IInv, OnCourse, Running, Ended, ServerMoves
  <1> QED
    BY <1>2, <1>3, <1>4, <1>5, <1>6

LEMMA ServerKeeps ==
    ASSUME IInv, NEW d \in Demos, NEW new \in ServerCalls, ServerMoves(d, new),
           ~Serving(d, "none"), new.step # "none",
           FileInv', StoreInv', WellFormed(ledger'),
           created' \subseteq [id : Created, pair : {PairOf(Mutated)}],
           \A record \in created' \ created : record.id[1] = d,
           \A record \in created' :
             record.id[1] = d => CreatedAsAnswered(record)',
           InScript(d)', SecondUseRefused(d)',
           d \in Running' \ overlapped' => ArcStore(d)' /\ ArcFile(d)' /\ ArcAnswer(d)'
    PROVE  IInv'
  <1>1. /\ server'[d] = new /\ LeavesOthers(d)
        /\ phase[d] \in {"wait", "killed"}
    BY ServerFrame
  <1>2. TypeOK'
    <2>1. server' \in [Demos -> ServerCalls]
      BY DEF IInv, TypeOK, ServerMoves, ServerCalls
    <2>2. \A e \in Demos : phase'[e] # "killed" =>
            (phase'[e] = "wait") = ~Serving(e, "none")'
      BY <1>1 DEF IInv, TypeOK, Serving, ServerMoves, LeavesOthers
    <2>3. overlapped' \cup stale' \subseteq Demos
      BY DEF IInv, TypeOK, Running, ServerMoves
    <2>4. created' \subseteq [id : Created, pair : {PairOf(Mutated), PairOf(Refused)}]
      OBVIOUS
    <2>5. data' \in Tables
      BY DEF FileInv
    <2> QED
      BY <2>1, <2>2, <2>3, <2>4, <2>5 DEF IInv, TypeOK, ServerMoves, ServerCalls
  <1>3. Explained(d)'
    BY DEF Explained, IInv, OnCourse, ServerMoves
  <1>4. OnCourse(d)'
    BY <1>3 DEF OnCourse
  <1> QED
    BY <1>1, <1>2, <1>4, ActorKeeps

\* Whether the pair of d's first request is applied elsewhere is not changed by
\* writing that request, nor by writing its second one while it is not applied.
LEMMA StaleKept ==
    ASSUME NEW d \in Demos, NEW action \in {Mutated, Refused},
           \A b \in Requested : b # <<d, action>> => data'[b] = data[b],
           action = Refused =>
             /\ ~HasStatus(data, <<d, Refused>>, {"applied"})
             /\ ~HasStatus(data', <<d, Refused>>, {"applied"})
    PROVE  PairAppliedElsewhere(data', <<d, Mutated>>, "inc", Mutated)
             <=> PairAppliedElsewhere(data, <<d, Mutated>>, "inc", Mutated)
  BY DEF PairAppliedElsewhere, Present, HasStatus, Requested, Mutated, Refused

LEMMA ServerRequestsKeeps ==
    ASSUME IInv, NEW d \in Demos, ServerRequests(d)
    PROVE  IInv'
  <1> DEFINE a == OwnApproval(d)
             e == NewEntry("inc", CurrentCall(d).action, 0, 1)
             new == [step |-> "done", answer |-> "pending_approval",
                     record |-> NoRecord]
  <1>1. /\ Serving(d, "decide") /\ ~CurrentCall(d).granted
        /\ Overwrites(a, e)
        /\ server' = [server EXCEPT ![d] = new]
        /\ overlapped' = overlapped \cup (Running \ {d})
        /\ UNCHANGED <<ledger, created, phase, position, before, kills, stale>>
    BY DEF ServerRequests, Overwrites, Serve, Acts
  <1>2. position[d] \in {1, 5}
    BY <1>1, ScriptTable, TypesHere DEF CurrentCall, Positions, IInv
  <1>3. /\ CurrentCall(d).action = IF position[d] = 1 THEN Mutated ELSE Refused
        /\ a = <<d, IF position[d] = 1 THEN Mutated ELSE Refused>>
        /\ a \in Requested /\ a[1] = d
    BY <1>2, ScriptTable DEF OwnApproval, CurrentCall, Positions, Requested
  <1>4. /\ e \in Entries /\ e.status = "pending" /\ e # NoEntry
        /\ Sound(created', a, e)
    BY <1>3, NoEntryAssumption DEF NewEntry, Sound, Entries, Statuses
  <1>5. /\ new \in ServerCalls /\ new.step = "done"
        /\ new.answer = "pending_approval"
    BY DEF ServerCalls, Answers
  <1> HIDE DEF a, e, new
  <1>6. /\ FileInv' /\ data'[a] = e
        /\ \A b \in Requested : b # a => data'[b] = data[b]
    BY <1>1, <1>3, <1>4, FileWritten DEF IInv
  <1>7. ServerMoves(d, new) /\ ~Serving(d, "none")
    BY <1>1, <1>3, <1>6 DEF ServerMoves, Serving
  <1>8. /\ server'[d] = new /\ Past' = Past
        /\ d \in Running' \ overlapped' =>
             phase[d] = "wait" /\ ArcStore(d) /\ ArcFile(d) /\ ArcAnswer(d)
    BY <1>5, <1>7, ServerFrame
  <1>9. StoreInv' /\ WellFormed(ledger')
    BY <1>1, <1>8, StoreKept DEF IInv, TypeOK
  <1>10. InScript(d)'
    <2>1. phase[d] \notin {"off", "reset", "surface"}
      BY <1>7, TypesHere DEF IInv
    <2> QED
      BY <1>1, <1>2, <1>5, <1>8, <2>1
      DEF InScript, IInv, OnCourse, Serving, Confirming
  <1>11. SecondUseRefused(d)'
    BY <1>1, <1>2, <1>3, <1>5, <1>6, <1>8
    DEF SecondUseRefused, IInv, OnCourse, Requested, Mutated, Refused
  <1>12. \A record \in created : record.id[1] = d => CreatedAsAnswered(record)'
    BY <1>1, <1>2 DEF IInv, CreatedInv, CreatedAsAnswered
  <1>13. ASSUME d \in Running' \ overlapped'
         PROVE  ArcStore(d)' /\ ArcFile(d)' /\ ArcAnswer(d)'
    <2>1. phase[d] = "wait" /\ ArcStore(d) /\ ArcFile(d) /\ ArcAnswer(d)
      BY <1>8, <1>13
    <2>2. <<d, Mutated>> \in Requested /\ <<d, Refused>> \in Requested
          /\ <<d, Mutated>> # <<d, Refused>>
      BY DEF Requested, Mutated, Refused
    <2>3. position[d] = 5 => data[<<d, Refused>>] = NoEntry
      <3>1. position[d] = 5 => StatusOf(<<d, Refused>>) = "none"
        BY <1>1, <2>1 DEF ArcFile, AskedAt, Serving
      <3>2. data[<<d, Refused>>] # NoEntry => data[<<d, Refused>>].status # "none"
        BY <2>2 DEF IInv, FileInv, Present
      <3> QED
        BY <3>1, <3>2 DEF StatusOf
    <2>4. PairAppliedElsewhere(data', <<d, Mutated>>, "inc", Mutated)
            <=> PairAppliedElsewhere(data, <<d, Mutated>>, "inc", Mutated)
      <3>1. CASE position[d] = 1
        <4>1. a = <<d, Mutated>>
          BY <1>3, <3>1
        <4> QED
          BY <1>6, <4>1, StaleKept DEF Mutated, Refused
      <3>2. CASE position[d] = 5
        <4>1. a = <<d, Refused>>
          BY <1>3, <3>2
        <4> QED
          BY <1>4, <1>6, <2>3, <3>2, <4>1, StaleKept DEF HasStatus
      <3> QED
        BY <1>2, <3>1, <3>2
    <2>5. ArcStore(d)'
      BY <1>1, <1>2, <2>1, <2>4, <1>5, <1>8 DEF ArcStore, Written, Serving
    <2>6. ArcFile(d)'
      BY <1>1, <1>2, <1>3, <1>4, <1>5, <1>6, <1>8, <2>1, <2>2
      DEF ArcFile, StatusOf, AskedAt, Serving
    <2>7. ArcAnswer(d)'
      BY <1>1, <1>2, <1>5, <1>8 DEF ArcAnswer, Serving
    <2> QED
      BY <2>5, <2>6, <2>7
  <1> QED
    BY <1>1, <1>5, <1>6, <1>7, <1>9, <1>10, <1>11, <1>12, <1>13, ServerKeeps
    DEF IInv, CreatedInv

\* What gate 2 says of the capability of a request.
LEMMA VerdictIs ==
    ASSUME FileInv, NEW a \in Requested
    PROVE  /\ HoldersOf(data, a) = {} <=>
                data[a] = NoEntry \/ data[a].status = "pending"
           /\ HoldersOf(data, a) # {} =>
                Validation(data, a, "inc", a[2], 0) =
                  IF data[a].status = "applied" THEN "approval_already_applied"
                  ELSE IF PairAppliedElsewhere(data, a, "inc", a[2])
                       THEN "action_already_applied" ELSE "accepted"
  <1>1. ASSUME NEW b \in HoldersOf(data, a)
        PROVE  b = a /\ data[a].status # "pending"
    BY <1>1, NoCapabilityAssumption DEF FileInv, HoldersOf, Present
  <1>2. ASSUME data[a] # NoEntry, data[a].status # "pending"
        PROVE  a \in HoldersOf(data, a)
    BY <1>2 DEF FileInv, HoldersOf, Present
  <1>3. ASSUME data[a] # NoEntry, data[a].status # "pending"
        PROVE  Validation(data, a, "inc", a[2], 0) =
                 IF data[a].status = "applied" THEN "approval_already_applied"
                 ELSE IF PairAppliedElsewhere(data, a, "inc", a[2])
                      THEN "action_already_applied" ELSE "accepted"
    <2>1. /\ data[a].incident = "inc" /\ data[a].action = a[2]
          /\ data[a].expires = 1 /\ data[a].status \in {"approved", "applied"}
      BY <1>3 DEF FileInv, Present
    <2>2. ~Lapsed(data, a, 0)
      BY <2>1 DEF Lapsed
    <2> QED
      BY <2>1, <2>2 DEF Validation
  <1>4. data[a] = NoEntry => HoldersOf(data, a) = {}
    BY <1>1 DEF HoldersOf, Present
  <1> QED
    BY <1>1, <1>2, <1>3, <1>4

LEMMA ServerValidatesKeeps ==
    ASSUME IInv, NEW d \in Demos, ServerValidates(d)
    PROVE  IInv'
  <1> DEFINE a == OwnApproval(d)
             verdict == IF HoldersOf(data, a) = {} THEN "unknown_approval_capability"
                        ELSE Validation(data, a, "inc", CurrentCall(d).action, 0)
             new == IF verdict = "accepted"
                    THEN [step |-> "post", answer |-> "none", record |-> NoRecord]
                    ELSE [step |-> "done", answer |-> verdict, record |-> NoRecord]
  <1>1. /\ Serving(d, "decide") /\ CurrentCall(d).granted
        /\ server' = [server EXCEPT ![d] = new]
        /\ UNCHANGED <<data, ledger, created, phase, position, before, kills,
                       overlapped, stale>>
    BY DEF ServerValidates, Serve
  <1>2. position[d] \in {2, 3, 4, 6}
    BY <1>1, ScriptTable, TypesHere DEF CurrentCall, Positions, IInv
  <1>3. /\ CurrentCall(d).action = IF position[d] <= 4 THEN Mutated ELSE Refused
        /\ a = <<d, IF position[d] <= 4 THEN Mutated ELSE Refused>>
        /\ a \in Requested /\ a[2] = CurrentCall(d).action
    BY <1>2, ScriptTable DEF OwnApproval, CurrentCall, Positions, Requested
  <1>4. verdict =
          IF data[a] = NoEntry \/ data[a].status = "pending"
          THEN "unknown_approval_capability"
          ELSE IF data[a].status = "applied" THEN "approval_already_applied"
          ELSE IF PairAppliedElsewhere(data, a, "inc", a[2])
               THEN "action_already_applied" ELSE "accepted"
    <2> HIDE DEF a
    <2> QED
      BY <1>3, VerdictIs DEF IInv
  <1> HIDE DEF a, verdict
  <1>5. /\ new \in ServerCalls /\ new.step \in {"post", "done"}
        /\ new.step = "post" <=> verdict = "accepted"
        /\ new.answer = IF verdict = "accepted" THEN "none" ELSE verdict
        /\ new.answer \in {"none", "unknown_approval_capability",
                           "approval_already_applied", "action_already_applied"}
    BY <1>4 DEF ServerCalls, Answers
  <1> HIDE DEF new
  <1>6. ServerMoves(d, new) /\ ~Serving(d, "none")
    BY <1>1 DEF ServerMoves, Serving
  <1>7. /\ server'[d] = new /\ Past' = Past
        /\ phase[d] \in {"wait", "killed"}
        /\ d \in Running' \ overlapped' =>
             phase[d] = "wait" /\ ArcStore(d) /\ ArcFile(d) /\ ArcAnswer(d)
    BY <1>5, <1>6, ServerFrame
  <1>8. FileInv' /\ StoreInv' /\ WellFormed(ledger')
    BY <1>1, <1>7, StoreKept, FileKept DEF IInv, TypeOK
  <1>9. InScript(d)'
    BY <1>1, <1>2, <1>5, <1>7 DEF InScript, Serving, Confirming
  <1>10. SecondUseRefused(d)'
    BY <1>1, <1>2, <1>3, <1>4, <1>5, <1>7
    DEF SecondUseRefused, IInv, OnCourse, Serving
  <1>11. \A record \in created : record.id[1] = d => CreatedAsAnswered(record)'
    BY <1>1, <1>2 DEF IInv, CreatedInv, CreatedAsAnswered, Serving
  <1>12. ASSUME d \in Running' \ overlapped'
         PROVE  ArcStore(d)' /\ ArcFile(d)' /\ ArcAnswer(d)'
    <2>1. phase[d] = "wait" /\ ArcStore(d) /\ ArcFile(d) /\ ArcAnswer(d)
      BY <1>7, <1>12
    <2>2. ArcStore(d)'
      BY <1>1, <1>2, <1>5, <1>7, <2>1
      DEF ArcStore, Written, Serving, PairAppliedElsewhere, Present
    <2>3. StatusOf(a) = IF position[d] = 4 THEN "applied" ELSE "approved"
      BY <1>1, <1>2, <1>3, <2>1 DEF ArcFile, Serving
    <2>4. verdict = IF position[d] = 4 THEN "approval_already_applied"
                    ELSE IF PairAppliedElsewhere(data, a, "inc", a[2])
                         THEN "action_already_applied" ELSE "accepted"
      BY <1>4, <2>3 DEF StatusOf
    <2>5. position[d] \in {2, 3} =>
            (PairAppliedElsewhere(data, a, "inc", a[2]) <=> d \in stale)
      BY <1>3, <2>1 DEF ArcStore
    <2>6. position[d] = 3 => d \notin stale
      BY <2>1 DEF ArcStore, Written
    <2>7. position[d] = 6 => ~PairAppliedElsewhere(data, a, "inc", a[2])
      <3>1. position[d] = 6 => a[2] = Refused
        BY <1>3
      <3>2. \A b \in Present(data) :
              data[b].status = "applied" => data[b].action = Mutated
        BY DEF IInv, FileInv
      <3> QED
        BY <3>1, <3>2 DEF PairAppliedElsewhere, Mutated, Refused
    <2>8. ArcFile(d)'
      BY <1>1, <1>2, <1>3, <1>5, <1>7, <2>1, <2>4, <2>5, <2>6
      DEF ArcFile, StatusOf, AskedAt, Serving
    <2>9. ArcAnswer(d)'
      BY <1>1, <1>2, <1>5, <1>7, <2>4, <2>5, <2>6, <2>7 DEF ArcAnswer, Serving
    <2> QED
      BY <2>2, <2>8, <2>9
  <1> QED
    BY <1>1, <1>5, <1>6, <1>8, <1>9, <1>10, <1>11, <1>12, ServerKeeps
    DEF IInv, CreatedInv

LEMMA ApiRefusesKeeps ==
    ASSUME IInv, NEW d \in Demos, ApiRefuses(d)
    PROVE  IInv'
  <1> DEFINE new == [step |-> "record", answer |-> "auth_failure",
                     record |-> NoRecord]
  <1>1. /\ Serving(d, "post") /\ ~CurrentCall(d).write
        /\ server' = [server EXCEPT ![d] = new]
        /\ UNCHANGED <<data, ledger, created, phase, position, before, kills,
                       overlapped, stale>>
    BY DEF ApiRefuses, Serve
  <1>2. position[d] = 6
    <2>1. position[d] \in {2, 3, 4, 6}
      BY <1>1 DEF IInv, OnCourse, InScript, Serving
    <2> QED
      BY <1>1, <2>1, ScriptTable DEF CurrentCall, Positions
  <1>3. /\ new \in ServerCalls /\ new.step = "record"
        /\ new.answer = "auth_failure"
    BY DEF ServerCalls, Answers
  <1> HIDE DEF new
  <1>4. ServerMoves(d, new) /\ ~Serving(d, "none")
    BY <1>1 DEF ServerMoves, Serving
  <1>5. /\ server'[d] = new /\ Past' = Past
        /\ phase[d] \in {"wait", "killed"}
        /\ d \in Running' \ overlapped' =>
             phase[d] = "wait" /\ ArcStore(d) /\ ArcFile(d) /\ ArcAnswer(d)
    BY <1>3, <1>4, ServerFrame
  <1>6. FileInv' /\ StoreInv' /\ WellFormed(ledger')
    BY <1>1, <1>5, StoreKept, FileKept DEF IInv, TypeOK
  <1>7. InScript(d)'
    BY <1>1, <1>2, <1>3, <1>5 DEF InScript, Serving, Confirming
  <1>8. SecondUseRefused(d)'
    BY <1>1, <1>2 DEF SecondUseRefused, IInv, OnCourse
  <1>9. \A record \in created : record.id[1] = d => CreatedAsAnswered(record)'
    BY <1>1, <1>2 DEF IInv, CreatedInv, CreatedAsAnswered
  <1>10. ASSUME d \in Running' \ overlapped'
         PROVE  ArcStore(d)' /\ ArcFile(d)' /\ ArcAnswer(d)'
    <2>1. phase[d] = "wait" /\ ArcStore(d) /\ ArcFile(d) /\ ArcAnswer(d)
      BY <1>5, <1>10
    <2>2. ArcStore(d)'
      BY <1>1, <1>2, <2>1 DEF ArcStore, Written, PairAppliedElsewhere, Present
    <2>3. ArcFile(d)'
      BY <1>1, <1>2, <2>1 DEF ArcFile, StatusOf
    <2>4. ArcAnswer(d)'
      BY <1>1, <1>2, <1>3, <1>5 DEF ArcAnswer
    <2> QED
      BY <2>2, <2>3, <2>4
  <1> QED
    BY <1>1, <1>3, <1>4, <1>6, <1>7, <1>8, <1>9, <1>10, ServerKeeps
    DEF IInv, CreatedInv

\* What the API answers when it finds the action settled.
LEMMA SettledIs ==
    ASSUME StoreInv, ledger # << >>
    PROVE  LET answer == SettledAnswer(ledger, PairOf(Mutated), PairOf(Mutated)) IN
           /\ answer.record = ledger[1]
           /\ answer.kind = IF ledger[1].key = PairOf(Mutated)
                            THEN "replayed" ELSE "already_applied"
           /\ ledger[1].id \in Records
           /\ Past # {} => Recorded(ledger[1].id)
  <1>1. DOMAIN ledger = {1} /\ ledger[1].pair = PairOf(Mutated)
    BY LedgerShape
  <1>2. KeySeen(ledger, PairOf(Mutated)) <=> ledger[1].key = PairOf(Mutated)
    BY <1>1 DEF KeySeen, RecordsWithKey
  <1>3. ledger[1].key = PairOf(Mutated) =>
          RecordOfKey(ledger, PairOf(Mutated)) = ledger[1]
    BY <1>1 DEF RecordOfKey
  <1>4. RecordOfPair(ledger, PairOf(Mutated)) = ledger[1]
    BY <1>1 DEF RecordOfPair
  <1>5. ledger[1].id \in Records
    BY <1>1, LedgerShape
  <1>6. Past # {} => Recorded(ledger[1].id)
    <2>1. Past # {} => [id |-> ledger[1].id, pair |-> PairOf(Mutated)] \in created
      BY <1>1 DEF StoreInv
    <2> QED
      BY <2>1 DEF Recorded, RecordedIn
  <1> QED
    BY <1>1, <1>2, <1>3, <1>4, <1>5, <1>6 DEF SettledAnswer

\* The one record of a store that was empty.
LEMMA FirstRecord ==
    ASSUME NEW id \in Records,
           ledger' = Append(<< >>, NewRecord(<< >>, PairOf(Mutated), PairOf(Mutated), id)),
           [id |-> id, pair |-> PairOf(Mutated)] \in created'
    PROVE  /\ StoreInv' /\ WellFormed(ledger') /\ Len(ledger') = 1
           /\ ledger'[1].key = PairOf(Mutated)
           /\ ledger'[1].pair = PairOf(Mutated)
  <1> DEFINE p == PairOf(Mutated)
             new == NewRecord(<< >>, p, p, id)
  <1>1. new.id = id /\ new.key = p /\ new.pair = p /\ new.sequence = 1
    BY DEF NewRecord
  <1>2. ledger' = <<new>>
    OBVIOUS
  <1> HIDE DEF new
  <1>3. Len(ledger') = 1 /\ DOMAIN ledger' = {1} /\ ledger'[1] = new
    BY <1>2
  <1>4. WellFormed(ledger')
    BY <1>1, <1>3 DEF WellFormed, UniqueKeys, UniquePairs, Dense
  <1>5. StoreInv'
    <2>1. \E x \in Records, key \in {<<"direct">>, p} :
            ledger' = <<NewRecord(<< >>, p, key, x)>>
      BY <1>2 DEF new
    <2>2. \A i \in DOMAIN ledger' : [id |-> ledger'[i].id, pair |-> p] \in created'
      BY <1>1, <1>3
    <2> QED
      BY <2>1, <2>2 DEF StoreInv
  <1> QED
    BY <1>1, <1>3, <1>4, <1>5

\* What both outcomes of the handler have in common.
Handled(d, new) ==
    /\ new \in ServerCalls /\ new.step = "record"
    /\ position[d] = 2 => new.answer \in {"failed", "already_applied"}
    /\ new.answer \in {"failed", "created", "replayed", "already_applied"}
    /\ new.answer \in Confirming => RecordedIn(created', new.record)

LEMMA ApiHandlesKeeps ==
    ASSUME IInv, NEW d \in Demos, ApiHandles(d)
    PROVE  IInv'
  <1> DEFINE p == PairOf(Mutated)
             id == <<d, position[d]>>
             answer == SettledAnswer(ledger, p, p)
             Outcome(kind) == IF position[d] = 2 /\ kind \in {"created", "replayed"}
                              THEN "failed" ELSE kind
             new == IF ledger = << >>
                    THEN [step |-> "record", answer |-> Outcome("created"),
                          record |-> id]
                    ELSE [step |-> "record", answer |-> Outcome(answer.kind),
                          record |-> answer.record.id]
  <1>1. position[d] \in {2, 3, 4} /\ Serving(d, "post")
    <2>1. position[d] \in {2, 3, 4, 6}
      BY DEF ApiHandles, IInv, OnCourse, InScript, Serving
    <2> QED
      BY <2>1, ScriptTable DEF ApiHandles, CurrentCall, Positions
  <1>2. /\ CurrentCall(d).action = Mutated
        /\ CurrentCall(d).inject <=> position[d] = 2
    BY <1>1, ScriptTable DEF CurrentCall, Positions
  <1>3. /\ IsFresh(ledger, p, p) <=> ledger = << >>
        /\ ledger # << >> => Len(ledger) = 1
    BY LedgerShape DEF IInv
  <1>4. /\ server' = [server EXCEPT ![d] = new]
        /\ overlapped' = overlapped \cup (Running \ {d})
        /\ UNCHANGED <<data, phase, position, before, kills, stale>>
        /\ \/ /\ ledger = << >>
              /\ ledger' = Append(ledger, NewRecord(ledger, p, p, id))
              /\ created' = created \cup {[id |-> id, pair |-> p]}
           \/ /\ ledger # << >>
              /\ UNCHANGED <<ledger, created>>
    BY <1>2, <1>3 DEF ApiHandles, Serve, Acts
  <1>5. id \in Created /\ id \in Records /\ id[1] = d /\ id[2] = position[d]
    BY <1>1 DEF Created, Records, Positions
  <1>6. d \in Past
    BY <1>1 DEF Past, Serving
  <1>7. ledger # << >> =>
          /\ answer.record = ledger[1]
          /\ answer.kind = IF ledger[1].key = p THEN "replayed" ELSE "already_applied"
          /\ ledger[1].id \in Records
          /\ Recorded(ledger[1].id)
    BY <1>6, SettledIs DEF IInv
  <1> HIDE DEF answer
  <1>8. created \subseteq created'
    BY <1>4
  <1>9. /\ Handled(d, new)
        /\ ledger = << >> => new.answer = Outcome("created")
        /\ ledger # << >> => new.answer = IF ledger[1].key = p
                                          THEN Outcome("replayed")
                                          ELSE "already_applied"
    <2>1. CASE ledger = << >>
      <3>1. RecordedIn(created', id)
        <4>1. [id |-> id, pair |-> p] \in created'
          BY <1>4, <2>1
        <4> HIDE DEF id
        <4> QED
          BY <4>1 DEF RecordedIn
      <3> QED
        BY <2>1, <3>1, <1>5 DEF Handled, ServerCalls, Answers, Confirming
    <2>2. CASE ledger # << >>
      <3>1. RecordedIn(created', ledger[1].id)
        BY <1>7, <1>8, <2>2 DEF Recorded, RecordedIn
      <3> QED
        BY <2>2, <3>1, <1>7 DEF Handled, ServerCalls, Answers, Confirming
    <2> QED
      BY <2>1, <2>2
  <1> HIDE DEF new
  <1>10. ServerMoves(d, new) /\ ~Serving(d, "none")
    BY <1>1, <1>4, <1>8 DEF ServerMoves, Serving
  <1>11. /\ server'[d] = new /\ Past' = Past
         /\ phase[d] \in {"wait", "killed"}
         /\ d \in Running' \ overlapped' =>
              phase[d] = "wait" /\ ArcStore(d) /\ ArcFile(d) /\ ArcAnswer(d)
    BY <1>9, <1>10, ServerFrame DEF Handled
  <1>12. FileInv'
    BY <1>4, <1>8, FileKept DEF IInv
  <1>13. StoreInv' /\ WellFormed(ledger')
    <2>1. CASE ledger = << >>
      <3>1. /\ ledger' = Append(<< >>, NewRecord(<< >>, p, p, id))
            /\ [id |-> id, pair |-> p] \in created'
        BY <1>4, <2>1
      <3> HIDE DEF p, id
      <3> QED
        BY <1>5, <3>1, FirstRecord DEF p
    <2>2. CASE ledger # << >>
      BY <1>4, <1>11, <2>2, StoreKept DEF IInv, TypeOK
    <2> QED
      BY <2>1, <2>2
  <1>14. created' \subseteq [id : Created, pair : {p}]
    BY <1>4, <1>5 DEF IInv, CreatedInv
  <1>15. \A record \in created' \ created : record.id[1] = d
    BY <1>4, <1>5
  <1>16. ASSUME NEW record \in created', record.id[1] = d
         PROVE  CreatedAsAnswered(record)'
    <2>1. CASE record \in created
      <3>1. CreatedAsAnswered(record)
        BY <2>1 DEF IInv, CreatedInv
      <3> QED
        BY <1>1, <1>4, <1>16, <3>1 DEF CreatedAsAnswered, Serving
    <2>2. CASE record \notin created
      <3>1. record.id = id /\ ledger = << >>
        BY <1>4, <2>2
      <3>2. position[d] # 2 => new.answer = "created"
        BY <1>9, <3>1
      <3>3. new.step = "record"
        BY <1>9 DEF Handled
      <3>4. position' = position
        BY <1>4
      <3> HIDE DEF id
      <3> QED
        BY <1>1, <1>5, <1>11, <3>1, <3>2, <3>3, <3>4 DEF CreatedAsAnswered
    <2> QED
      BY <2>1, <2>2
  <1>17. InScript(d)'
    BY <1>1, <1>4, <1>9, <1>11 DEF InScript, Serving, Handled, Recorded
  <1>18. SecondUseRefused(d)'
    BY <1>1, <1>4, <1>9, <1>11 DEF SecondUseRefused, Serving, Handled
  <1>19. ASSUME d \in Running' \ overlapped'
         PROVE  ArcStore(d)' /\ ArcFile(d)' /\ ArcAnswer(d)'
    <2>1. /\ phase[d] = "wait" /\ phase'[d] = "wait"
          /\ ArcStore(d) /\ ArcFile(d) /\ ArcAnswer(d)
      BY <1>4, <1>11, <1>19
    <2>2. position[d] \in {2, 3} /\ d \notin stale
      BY <1>1, <2>1 DEF ArcAnswer, ArcStore, Written, Serving
    <2>3. position[d] = 2 => ledger = << >>
      BY <1>1, <2>1 DEF ArcStore, Written, Serving
    <2>4. position[d] = 3 => Len(ledger) = 1 /\ ledger[1].key = p /\ ledger[1].pair = p
      BY <2>1 DEF ArcStore, Written
    <2>5. position[d] = 3 => ledger # << >>
      BY <2>4
    <2>6. new.answer = IF position[d] = 2 THEN "failed" ELSE "replayed"
      BY <1>9, <2>2, <2>3, <2>4, <2>5
    <2>7. Len(ledger') = 1 /\ ledger'[1].key = p /\ ledger'[1].pair = p
      <3>1. CASE ledger = << >>
        <4>1. /\ ledger' = Append(<< >>, NewRecord(<< >>, p, p, id))
              /\ [id |-> id, pair |-> p] \in created'
          BY <1>4, <3>1
        <4> HIDE DEF p, id
        <4> QED
          BY <1>5, <4>1, FirstRecord DEF p
      <3>2. CASE ledger # << >>
        BY <1>4, <2>2, <2>3, <2>4, <3>2
      <3> QED
        BY <3>1, <3>2
    <2>8. new.step = "record"
      BY <1>9 DEF Handled
    <2>9. ArcStore(d)'
      <3>1. /\ stale' = stale /\ position' = position
            /\ PairAppliedElsewhere(data', <<d, Mutated>>, "inc", Mutated)
                 <=> PairAppliedElsewhere(data, <<d, Mutated>>, "inc", Mutated)
        BY <1>4
      <3>2. Written(d)'
        BY <1>4, <1>11, <2>2, <2>8 DEF Written, Serving
      <3>3. d \in stale <=>
              PairAppliedElsewhere(data, <<d, Mutated>>, "inc", Mutated)
        BY <2>1 DEF ArcStore
      <3> QED
        BY <2>1, <2>2, <2>7, <3>1, <3>2, <3>3 DEF ArcStore
    <2>10. ArcFile(d)'
      BY <1>1, <1>4, <1>11, <2>1, <2>2, <2>8 DEF ArcFile, StatusOf, AskedAt, Serving
    <2>11. ArcAnswer(d)'
      BY <1>4, <1>11, <2>2, <2>6, <2>8 DEF ArcAnswer, Serving
    <2> QED
      BY <2>9, <2>10, <2>11
  <1>20. new \in ServerCalls /\ new.step # "none"
    BY <1>9 DEF Handled
  <1> QED
    BY <1>10, <1>12, <1>13, <1>14, <1>15, <1>16, <1>17, <1>18, <1>19, <1>20,
       ServerKeeps

\* The entry of a request with an attempt more, and when it is applied.
LEMMA EntryAttempted ==
    ASSUME NEW old \in Entries
    PROVE  LET new == [old EXCEPT !.attempts = old.attempts + 1] IN
           /\ new \in Entries /\ new.status = old.status
           /\ new.record = old.record /\ new.capability = old.capability
           /\ new.incident = old.incident /\ new.action = old.action
           /\ new.expires = old.expires
  BY DEF Entries

LEMMA EntryApplied ==
    ASSUME NEW old \in Entries, NEW record \in Records \cup {NoRecord}
    PROVE  LET new == [old EXCEPT !.status = "applied", !.record = record] IN
           /\ new \in Entries /\ new.status = "applied"
           /\ new.record = record /\ new.capability = old.capability
           /\ new.incident = old.incident /\ new.action = old.action
           /\ new.expires = old.expires
  BY DEF Entries, Statuses

LEMMA ServerRecordsKeeps ==
    ASSUME IInv, NEW d \in Demos, ServerRecords(d)
    PROVE  IInv'
  <1> DEFINE a == OwnApproval(d)
             old == data[a]
             confirmed == server[d].answer \in Confirming
             e == [old EXCEPT !.attempts = old.attempts + 1]
             applied == [e EXCEPT !.status = "applied",
                                  !.record = server[d].record]
             new == [step |-> "done", answer |-> server[d].answer,
                     record |-> server[d].record]
  <1>1. /\ Serving(d, "record")
        /\ data' = IF confirmed
                   THEN MarkApplied(RecordAttempt(data, a), a, server[d].record)
                   ELSE RecordAttempt(data, a)
        /\ server' = [server EXCEPT ![d] = new]
        /\ overlapped' = overlapped \cup (Running \ {d})
        /\ UNCHANGED <<ledger, created, phase, position, before, kills, stale>>
    BY DEF ServerRecords, Serve, Acts, Confirming
  <1>2. /\ position[d] \in {2, 3, 4, 6}
        /\ server[d].answer # "approval_already_applied"
        /\ position[d] = 6 => server[d].answer = "auth_failure"
        /\ confirmed => position[d] \in {2, 3, 4} /\ Recorded(server[d].record)
    BY <1>1 DEF IInv, OnCourse, InScript, Serving
  <1>3. /\ a = <<d, IF position[d] <= 4 THEN Mutated ELSE Refused>>
        /\ a \in Requested /\ a[1] = d
        /\ a[2] = IF position[d] <= 4 THEN Mutated ELSE Refused
    BY <1>2, ScriptTable DEF OwnApproval, CurrentCall, Positions, Requested
  <1>4. server[d].answer \in Answers /\ server[d].record \in Records \cup {NoRecord}
    BY TypesHere DEF IInv
  <1>5. /\ new \in ServerCalls /\ new.step = "done"
        /\ new.answer = server[d].answer /\ new.record = server[d].record
    BY <1>4 DEF ServerCalls
  <1> HIDE DEF a, new
  <1>6. data \in Tables /\ FileInv
    BY DEF IInv, FileInv
  \* What becomes of the entry: nothing but its attempts, or it is applied.
  <1>7. /\ FileInv'
        /\ \A b \in Requested : b # a => data'[b] = data[b]
        /\ data[a] = NoEntry <=> data'[a] = NoEntry
        /\ data[a] # NoEntry =>
             data'[a].status = IF confirmed /\ data[a].status = "approved"
                               THEN "applied" ELSE data[a].status
    <2>1. CASE data[a] = NoEntry
      <3>1. data' = data
        BY <1>1, <1>3, <2>1 DEF RecordAttempt, MarkApplied, HasStatus, Present
      <3> QED
        BY <1>1, <1>6, <2>1, <3>1, FileKept
    <2>2. CASE data[a] # NoEntry /\ confirmed /\ old.status = "approved"
      <3>1. Sound(created, a, old)
        BY <1>3, <1>6, <2>2, FileIsSound DEF Present
      <3>2. Overwrites(a, applied)
        <4>1. RecordAttempt(data, a) = [data EXCEPT ![a] = e]
          BY <1>3, <2>2 DEF RecordAttempt, Present
        <4>2. RecordAttempt(data, a)[a] = e /\ e # NoEntry /\ e.status = "approved"
          <5>1. e \in Entries /\ e.status = "approved"
            BY <2>2, <3>1 DEF Sound, Entries
          <5> QED
            BY <1>3, <1>6, <4>1, <5>1, NoEntryAssumption DEF Tables
        <4>3. data' = [RecordAttempt(data, a) EXCEPT
                         ![a] = [e EXCEPT !.status = "applied",
                                          !.record = server[d].record]]
          BY <1>1, <1>3, <1>6, <2>2, <4>1, <4>2 DEF MarkApplied, HasStatus, Tables
        <4> HIDE DEF e
        <4> QED
          BY <1>3, <1>6, <4>1, <4>3 DEF Tables, Overwrites
      <3>3. /\ applied \in Entries /\ applied.status = "applied"
            /\ applied.record = server[d].record
            /\ applied.capability = old.capability
            /\ applied.incident = old.incident /\ applied.action = old.action
            /\ applied.expires = old.expires
        <4>1. old \in Entries
          BY <3>1 DEF Sound
        <4>2. /\ e \in Entries /\ e.capability = old.capability
              /\ e.incident = old.incident /\ e.action = old.action
              /\ e.expires = old.expires
          BY <4>1, EntryAttempted
        <4> HIDE DEF e
        <4>3. /\ applied \in Entries /\ applied.status = "applied"
              /\ applied.record = server[d].record
              /\ applied.capability = e.capability
              /\ applied.incident = e.incident /\ applied.action = e.action
              /\ applied.expires = e.expires
          BY <1>4, <4>2, EntryApplied
        <4> HIDE DEF applied
        <4> QED
          BY <4>2, <4>3
      <3> HIDE DEF applied
      <3>4. Sound(created', a, applied)
        <4>1. RecordedIn(created', server[d].record)
          BY <1>1, <1>2, <2>2 DEF Recorded
        <4>2. a[2] = Mutated
          BY <1>2, <1>3, <2>2
        <4> HIDE DEF confirmed
        <4> QED
          BY <2>2, <3>1, <3>3, <4>1, <4>2 DEF Sound
      <3>5. /\ FileInv' /\ data'[a] = applied
            /\ \A b \in Requested : b # a => data'[b] = data[b]
        BY <1>1, <1>3, <1>6, <3>2, <3>4, FileWritten
      <3> QED
        BY <2>2, <3>3, <3>5, NoEntryAssumption
    <2>3. CASE data[a] # NoEntry /\ ~(confirmed /\ old.status = "approved")
      <3>1. Sound(created, a, old)
        BY <1>3, <1>6, <2>3, FileIsSound DEF Present
      <3>2. /\ e \in Entries /\ e.status = old.status
            /\ e.record = old.record /\ e.capability = old.capability
            /\ e.incident = old.incident /\ e.action = old.action
            /\ e.expires = old.expires
        BY <3>1, EntryAttempted DEF Sound
      <3>3. Overwrites(a, e)
        <4>1. RecordAttempt(data, a) = [data EXCEPT ![a] = e]
          BY <1>3, <2>3 DEF RecordAttempt, Present
        <4>2. RecordAttempt(data, a)[a] = e
          BY <1>3, <1>6, <4>1 DEF Tables
        <4>3. data' = RecordAttempt(data, a)
          <5> HIDE DEF e
          <5> QED
            BY <1>1, <2>3, <3>2, <4>2 DEF MarkApplied, HasStatus
        <4> QED
          BY <4>1, <4>3 DEF Overwrites
      <3> HIDE DEF e
      <3>4. Sound(created', a, e)
        BY <1>1, <3>1, <3>2 DEF Sound
      <3>5. /\ FileInv' /\ data'[a] = e
            /\ \A b \in Requested : b # a => data'[b] = data[b]
        BY <1>1, <1>3, <1>6, <3>3, <3>4, FileWritten
      <3> QED
        BY <2>3, <3>2, <3>5, NoEntryAssumption
    <2> QED
      BY <2>1, <2>2, <2>3
  <1> HIDE DEF e, applied
  <1>8. ServerMoves(d, new) /\ ~Serving(d, "none")
    BY <1>1, <1>3, <1>7 DEF ServerMoves, Serving
  <1>9. /\ server'[d] = new /\ Past' = Past
        /\ phase[d] \in {"wait", "killed"}
        /\ d \in Running' \ overlapped' =>
             phase[d] = "wait" /\ ArcStore(d) /\ ArcFile(d) /\ ArcAnswer(d)
    BY <1>5, <1>8, ServerFrame
  <1>10. StoreInv' /\ WellFormed(ledger')
    BY <1>1, <1>9, StoreKept DEF IInv, TypeOK
  <1>11. InScript(d)'
    BY <1>1, <1>2, <1>5, <1>9 DEF InScript, Serving, Recorded, RecordedIn
  <1>12. SecondUseRefused(d)'
    <2>1. position[d] = 6 => data'[<<d, Mutated>>] = data[<<d, Mutated>>]
      BY <1>3, <1>7 DEF Requested, Mutated, Refused
    <2> QED
      BY <1>1, <1>2, <1>5, <1>9, <2>1 DEF SecondUseRefused, IInv, OnCourse, Serving
  <1>13. \A record \in created : record.id[1] = d => CreatedAsAnswered(record)'
    BY <1>1, <1>5, <1>9 DEF IInv, CreatedInv, CreatedAsAnswered, Serving
  <1>14. ASSUME d \in Running' \ overlapped'
         PROVE  ArcStore(d)' /\ ArcFile(d)' /\ ArcAnswer(d)'
    <2>1. /\ phase[d] = "wait" /\ phase'[d] = "wait"
          /\ ArcStore(d) /\ ArcFile(d) /\ ArcAnswer(d)
      BY <1>1, <1>9, <1>14
    <2>2. /\ position[d] \in {2, 3, 6}
          /\ position[d] = 2 => server[d].answer = "failed" /\ d \notin stale
          /\ position[d] = 3 => server[d].answer = "replayed"
          /\ position[d] = 6 => server[d].answer = "auth_failure"
      BY <1>1, <1>2, <2>1 DEF ArcAnswer, Serving
    <2>3. StatusOf(a) = "approved"
      BY <1>1, <1>3, <2>1, <2>2 DEF ArcFile, Serving
    <2>4. /\ data'[a] # NoEntry
          /\ data'[a].status = IF position[d] = 3 THEN "applied" ELSE "approved"
          /\ data[a].status = "approved"
      BY <1>7, <2>2, <2>3 DEF StatusOf, Confirming
    <2>5. /\ <<d, Mutated>> \in Requested /\ <<d, Refused>> \in Requested
          /\ <<d, Mutated>> # <<d, Refused>>
      BY DEF Requested, Mutated, Refused
    <2>6. PairAppliedElsewhere(data', <<d, Mutated>>, "inc", Mutated)
            <=> PairAppliedElsewhere(data, <<d, Mutated>>, "inc", Mutated)
      <3>1. CASE position[d] = 6
        BY <1>3, <1>7, <2>4, <3>1, StaleKept DEF HasStatus
      <3>2. CASE position[d] # 6
        <4>1. a = <<d, Mutated>>
          BY <1>3, <2>2, <3>2
        <4> QED
          BY <1>7, <4>1, StaleKept DEF Mutated, Refused
      <3> QED
        BY <3>1, <3>2
    <2>7. ArcStore(d)'
      <3>1. Written(d) /\ Written(d)'
        BY <1>1, <1>5, <1>9, <2>2 DEF Written, Serving
      <3> QED
        BY <1>1, <2>1, <2>2, <2>6, <3>1 DEF ArcStore
    <2>8. ArcFile(d)'
      <3>1. CASE position[d] = 6
        <4>1. a = <<d, Refused>>
          BY <1>3, <3>1
        <4> QED
          BY <1>1, <1>7, <2>1, <2>4, <2>5, <3>1, <4>1 DEF ArcFile, StatusOf
      <3>2. CASE position[d] \in {2, 3}
        <4>1. a = <<d, Mutated>>
          BY <1>3, <3>2
        <4> QED
          BY <1>1, <1>5, <1>7, <1>9, <2>1, <2>4, <2>5, <3>2, <4>1
          DEF ArcFile, StatusOf, Serving
      <3> QED
        BY <2>2, <3>1, <3>2
    <2>9. ArcAnswer(d)'
      BY <1>1, <1>5, <1>9, <2>2 DEF ArcAnswer, Serving
    <2> QED
      BY <2>7, <2>8, <2>9
  <1> QED
    BY <1>1, <1>5, <1>7, <1>8, <1>10, <1>11, <1>12, <1>13, <1>14, ServerKeeps
    DEF IInv, CreatedInv

-------------------------------------------------------------------------------
\* The demo on an answer

LEMMA CheckKeeps ==
    ASSUME IInv, NEW d \in Demos, Check(d)
    PROVE  IInv'
  <1> DEFINE k == position[d]
             answer == server[d].answer
  <1>1. /\ phase[d] = "wait" /\ Serving(d, "done")
        /\ server' = [server EXCEPT ![d] = NoServerCall]
        /\ UNCHANGED <<data, ledger, created, before, kills, overlapped, stale>>
    BY DEF Check
  <1>2. TypeOK /\ k \in 1..6 /\ InScript(d) /\ SecondUseRefused(d)
    BY TypesHere DEF IInv, OnCourse
  <1>3. \/ /\ ~AsExpected(d)
           /\ phase' = [phase EXCEPT ![d] = "failed"] /\ position' = position
        \/ /\ AsExpected(d) /\ k \in {1, 5}
           /\ phase' = [phase EXCEPT ![d] = "approve"] /\ position' = position
        \/ /\ AsExpected(d) /\ k \in {2, 3, 4}
           /\ phase' = [phase EXCEPT ![d] = "call"]
           /\ position' = [position EXCEPT ![d] = k + 1]
        \/ /\ AsExpected(d) /\ k = 6
           /\ phase' = [phase EXCEPT ![d] = "passed"] /\ position' = position
    BY DEF Check, Goto, Advance
  <1>4. /\ server'[d] = NoServerCall
        /\ Serving(d, "none")'
        /\ \A x \in Demos \ {d} : /\ server'[x] = server[x]
                                  /\ phase'[x] = phase[x]
                                  /\ position'[x] = position[x]
    BY <1>1, <1>2, <1>3 DEF TypeOK, NoServerCall, Serving
  <1>5. \/ ~AsExpected(d) /\ phase'[d] = "failed" /\ position'[d] = k
        \/ AsExpected(d) /\ k \in {1, 5} /\ phase'[d] = "approve" /\ position'[d] = k
        \/ AsExpected(d) /\ k \in {2, 3, 4} /\ phase'[d] = "call"
             /\ position'[d] = k + 1
        \/ AsExpected(d) /\ k = 6 /\ phase'[d] = "passed" /\ position'[d] = k
    BY <1>2, <1>3 DEF TypeOK
  <1>6. AsExpected(d) =>
          /\ k = 2 => answer \in {"failed", "key_binding_conflict"}
          /\ k = 3 => answer = "replayed"
          /\ k = 4 => answer = "approval_already_applied"
    <2>1. CASE k = 2
      BY <2>1 DEF AsExpected
    <2>2. CASE k = 3
      BY <2>2 DEF AsExpected
    <2>3. CASE k = 4
      BY <2>3 DEF AsExpected
    <2> QED
      BY <2>1, <2>2, <2>3
  \* A demo that is alone gets what it expects, unless it is stale.
  <1>7. ASSUME d \in Running \ overlapped
        PROVE  /\ ArcStore(d) /\ ArcFile(d) /\ ArcAnswer(d)
               /\ AsExpected(d) <=> d \notin stale \/ k = 1
               /\ k = 2 /\ AsExpected(d) => Written(d)
               /\ k > 2 => d \notin stale
               /\ Written(d) <=> k > 2 \/ (k = 2 /\ d \notin stale)
    <2>1. ArcStore(d) /\ ArcFile(d) /\ ArcAnswer(d)
      BY <1>7 DEF IInv, OnCourse
    <2>2. k = 1 => ledger = << >> /\ before[d] = 0 /\ answer = "pending_approval"
      BY <1>1, <2>1 DEF ArcStore, Written, ArcAnswer, Serving
    <2>3. k = 2 => answer = IF d \in stale THEN "action_already_applied" ELSE "failed"
      BY <1>1, <2>1 DEF ArcAnswer, Serving
    <2>4. k > 2 => Len(ledger) = 1 /\ d \notin stale
      BY <2>1 DEF ArcStore, Written
    <2>5. /\ k = 3 => answer = "replayed"
          /\ k = 4 => answer = "approval_already_applied"
          /\ k = 5 => answer = "pending_approval"
          /\ k = 6 => answer = "auth_failure"
      BY <1>1, <2>1 DEF ArcAnswer, Serving
    <2>6. AsExpected(d) <=> d \notin stale \/ k = 1
      <3>1. CASE k = 1
        BY <2>2, <3>1 DEF AsExpected
      <3>2. CASE k = 2
        BY <2>3, <3>2 DEF AsExpected
      <3>3. CASE k = 3
        BY <2>4, <2>5, <3>3 DEF AsExpected
      <3>4. CASE k = 4
        BY <2>4, <2>5, <3>4 DEF AsExpected
      <3>5. CASE k = 5
        BY <2>4, <2>5, <3>5 DEF AsExpected
      <3>6. CASE k = 6
        BY <2>4, <2>5, <3>6 DEF AsExpected
      <3> QED
        BY <1>2, <3>1, <3>2, <3>3, <3>4, <3>5, <3>6
    <2>7. Written(d) <=> k > 2 \/ (k = 2 /\ d \notin stale)
      BY <1>1, <2>3 DEF Written, Serving
    <2> QED
      BY <2>1, <2>4, <2>6, <2>7
  <1>8. FileInv' /\ StoreInv'
    <2>1. d \in Past
      BY <1>1 DEF Past
    <2> QED
      BY <1>1, <2>1, FileKept, StoreKept DEF IInv
  <1>9. LeavesOthers(d)
    BY <1>1, <1>4 DEF LeavesOthers
  <1>10. TypeOK'
    <2>1. phase' \in [Demos -> Ended \cup {"reset", "surface", "call", "wait", "approve"}]
      BY <1>2, <1>3 DEF TypeOK, Ended
    <2>2. position' \in [Demos -> Positions]
      BY <1>2, <1>3 DEF TypeOK, Positions
    <2>3. server' \in [Demos -> ServerCalls]
      BY <1>1, <1>2 DEF TypeOK, NoServerCall, ServerCalls, Answers
    <2>4. \A x \in Demos : phase'[x] # "killed" =>
            (phase'[x] = "wait") = ~Serving(x, "none")'
      BY <1>2, <1>4, <1>5 DEF TypeOK, Serving
    <2> QED
      BY <1>1, <1>2, <2>1, <2>2, <2>3, <2>4 DEF TypeOK, ServerCalls
  <1>11. InScript(d)'
    BY <1>4, <1>5 DEF InScript, Serving, NoServerCall
  <1>12. SecondUseRefused(d)'
    <2>1. position'[d] >= 5 =>
            k >= 5 \/ (k = 4 /\ answer = "approval_already_applied")
      BY <1>2, <1>5, <1>6
    <2>2. ~Serving(d, "done")'
      BY <1>4 DEF Serving
    <2> QED
      BY <1>1, <1>2, <2>1, <2>2 DEF SecondUseRefused
  <1>13. ASSUME d \in Running' \ overlapped'
         PROVE  ArcStore(d)' /\ ArcFile(d)' /\ ArcAnswer(d)'
    <2>1. d \in Running \ overlapped
      BY <1>1, <1>13 DEF Running, Ended
    <2>2. /\ ArcStore(d) /\ ArcFile(d) /\ ArcAnswer(d)
          /\ k = 2 /\ AsExpected(d) => Written(d)
          /\ k > 2 => d \notin stale
          /\ Written(d) <=> k > 2 \/ (k = 2 /\ d \notin stale)
      BY <2>1, <1>7
    <2>3. \/ k \in {1, 5} /\ phase'[d] = "approve" /\ position'[d] = k
          \/ /\ k \in {2, 3, 4} /\ phase'[d] = "call" /\ position'[d] = k + 1
             /\ k = 2 => d \notin stale
      BY <1>5, <1>13, <2>2 DEF Running, Ended
    <2>4. Written(d)' <=> Written(d)
      BY <1>4, <2>2, <2>3 DEF Written, Serving
    <2>5. ArcStore(d)'
      <3>1. /\ stale' = stale /\ ledger' = ledger /\ before' = before
            /\ PairAppliedElsewhere(data', <<d, Mutated>>, "inc", Mutated)
                 <=> PairAppliedElsewhere(data, <<d, Mutated>>, "inc", Mutated)
        BY <1>1
      <3>2. phase'[d] \in {"approve", "call"} /\ phase[d] = "wait"
        BY <1>1, <2>3
      <3>3. phase'[d] = "call" => position'[d] # 1
        BY <2>3
      <3> QED
        BY <2>2, <2>4, <3>1, <3>2, <3>3 DEF ArcStore
    <2>6. ArcFile(d)'
      BY <1>1, <1>4, <2>2, <2>3 DEF ArcFile, StatusOf, AskedAt, Serving, NoServerCall
    <2>7. ArcAnswer(d)'
      BY <1>4, <2>3 DEF ArcAnswer, Serving, NoServerCall
    <2> QED
      BY <2>5, <2>6, <2>7
  <1>14. Explained(d)'
    <2> SUFFICES ASSUME d \notin overlapped
                 PROVE  /\ phase'[d] = "failed" => d \in stale
                        /\ phase'[d] = "passed" => d \notin stale
      BY <1>1 DEF Explained
    <2>1. d \in Running \ overlapped
      BY <1>1 DEF Running, Ended
    <2> QED
      BY <1>5, <1>7, <2>1
  <1>15. ASSUME NEW record \in created, record.id[1] = d
         PROVE  CreatedAsAnswered(record)'
    <2>1. CreatedAsAnswered(record)
      BY DEF IInv, CreatedInv
    <2>2. record.id[2] \in 1..6
      BY DEF IInv, CreatedInv, Created, Positions
    <2>3. /\ record.id[2] <= k
          /\ \/ record.id[2] = 2
             \/ record.id[2] = k /\ k \in {3, 4} /\ answer = "created"
      BY <1>1, <1>15, <2>1 DEF CreatedAsAnswered, Serving
    <2> QED
      BY <1>2, <1>5, <1>6, <1>15, <2>2, <2>3 DEF CreatedAsAnswered
  <1> QED
    BY <1>1, <1>8, <1>9, <1>10, <1>11, <1>12, <1>13, <1>14, <1>15, ActorKeeps
    DEF IInv, CreatedInv, OnCourse

-------------------------------------------------------------------------------
\* The theorems

LEMMA InitHolds == Init => IInv
  <1> SUFFICES ASSUME Init PROVE IInv
    OBVIOUS
  <1>1. /\ phase = [d \in Demos |-> "off"] /\ position = [d \in Demos |-> 1]
        /\ before = [d \in Demos |-> 0] /\ server = [d \in Demos |-> NoServerCall]
        /\ data = EmptyFile /\ created = {} /\ kills = 0
        /\ overlapped = {} /\ stale = {}
        /\ ledger \in {<< >>, <<NewRecord(<< >>, PairOf(Mutated), <<"direct">>,
                                          EarlierRecord)>>}
    BY DEF Init
  <1>2. \A d \in Demos : phase[d] = "off" /\ position[d] = 1 /\ Serving(d, "none")
    BY <1>1 DEF NoServerCall, Serving
  <1>3. Past = {} /\ Running = {}
    BY <1>2 DEF Past, Running, Ended
  <1>4. StoreInv
    <2>1. EarlierRecord \in Records
      BY DEF Records
    <2> QED
      BY <1>1, <1>3, <2>1 DEF StoreInv
  <1>5. WellFormed(ledger)
    BY <1>4, LedgerShape
  <1>6. FileInv
    BY <1>1 DEF FileInv, EmptyFile, Tables, Present
  <1>7. CreatedInv
    BY <1>1 DEF CreatedInv
  <1>8. TypeOK
    <2>1. server \in [Demos -> ServerCalls]
      BY <1>1 DEF NoServerCall, ServerCalls, Answers
    <2>2. /\ phase \in [Demos -> Ended \cup {"reset", "surface", "call", "wait",
                                           "approve"}]
          /\ position \in [Demos -> Positions] /\ before \in [Demos -> 0..1]
      BY <1>1 DEF Ended, Positions
    <2> QED
      BY <1>1, <1>2, <1>5, <1>6, <2>1, <2>2, DemoAssumption
      DEF TypeOK, ServerCalls, FileInv
  <1>9. ASSUME NEW d \in Demos
        PROVE  OnCourse(d)
    <2>1. data[<<d, Mutated>>] = NoEntry /\ data[<<d, Refused>>] = NoEntry
      BY <1>1 DEF EmptyFile, Requested
    <2>2. InScript(d)
      BY <1>1, <1>2, <2>1 DEF InScript, Serving
    <2>3. SecondUseRefused(d) /\ Explained(d)
      BY <1>2 DEF SecondUseRefused, Explained
    <2> QED
      BY <1>3, <2>2, <2>3 DEF OnCourse
  <1> QED
    BY <1>4, <1>6, <1>7, <1>8, <1>9 DEF IInv

LEMMA StepKeeps == IInv /\ [Next]_vars => IInv'
  <1> SUFFICES ASSUME IInv, [Next]_vars PROVE IInv'
    OBVIOUS
  <1>1. ASSUME NEW d \in Demos, Launch(d)
        PROVE  IInv'
    BY <1>1, LaunchKeeps
  <1>2. ASSUME NEW d \in Demos, DemoStep(d)
        PROVE  IInv'
    BY <1>2, ResetKeeps, CheckSurfaceKeeps, CallKeeps, CheckKeeps, ApproveKeeps
    DEF DemoStep
  <1>3. ASSUME NEW d \in Demos, ServerStep(d)
        PROVE  IInv'
    BY <1>3, ServerRequestsKeeps, ServerValidatesKeeps, ApiRefusesKeeps,
       ApiHandlesKeeps, ServerRecordsKeeps
    DEF ServerStep
  <1>4. ASSUME NEW d \in Demos, Kill(d)
        PROVE  IInv'
    BY <1>4, KillKeeps
  <1>5. CASE UNCHANGED vars
    <2>1. /\ data' = data /\ ledger' = ledger /\ created' = created
          /\ phase' = phase /\ position' = position /\ before' = before
          /\ server' = server /\ kills' = kills /\ overlapped' = overlapped
          /\ stale' = stale
      BY <1>5 DEF vars
    <2> QED
      BY <2>1
      DEF IInv, TypeOK, FileInv, StoreInv, CreatedInv, OnCourse, InScript,
          SecondUseRefused, ArcStore, ArcFile, ArcAnswer, Explained, Serving,
          Recorded, CreatedAsAnswered, Past, Running, Written, StatusOf, AskedAt
  <1> QED
    BY <1>1, <1>2, <1>3, <1>4, <1>5 DEF Next

\* The inductive invariant.
THEOREM Invariant == Spec => []IInv
  BY InitHolds, StepKeeps, PTL DEF Spec

\* Type correctness, with the demo that waits exactly while a server has a call
\* of its.
THEOREM TypesCorrect == Spec => []TypeOK
  <1>1. IInv => TypeOK
    BY DEF IInv
  <1> QED
    BY <1>1, Invariant, PTL

\* What main() prints at the end of a passed demo is so, whatever other demos
\* reset, remove or apply meanwhile.
THEOREM PassedDemosTellTheTruth == Spec => []PassedIsTrue
  <1>1. ASSUME IInv, NEW d \in Demos, phase[d] = "passed"
        PROVE  /\ \A record \in created : record.id[1] = d => record.id = <<d, 2>>
               /\ HasStatus(data, <<d, Mutated>>, Statuses) =>
                    \E record \in created :
                      /\ data[<<d, Mutated>>].status = "applied"
                      /\ data[<<d, Mutated>>].record = record.id
                      /\ record.pair = PairOf(Mutated)
               /\ ~HasStatus(data, <<d, Refused>>, {"applied"})
               /\ \A record \in created : record.pair # PairOf(Refused)
    <2>1. position[d] = 6 /\ SecondUseRefused(d)
      BY <1>1 DEF IInv, OnCourse, InScript
    <2>2. ASSUME NEW record \in created, record.id[1] = d
          PROVE  record.id = <<d, 2>>
      <3>1. CreatedAsAnswered(record) /\ record.id \in Created
        BY <1>1 DEF IInv, CreatedInv
      <3>2. record.id[2] = 2
        BY <2>1, <2>2, <3>1 DEF CreatedAsAnswered
      <3> QED
        BY <2>2, <3>1, <3>2 DEF Created
    <2>3. ASSUME HasStatus(data, <<d, Mutated>>, Statuses)
          PROVE  \E record \in created :
                   /\ data[<<d, Mutated>>].status = "applied"
                   /\ data[<<d, Mutated>>].record = record.id
                   /\ record.pair = PairOf(Mutated)
      <3>1. data[<<d, Mutated>>] # NoEntry /\ data[<<d, Mutated>>].status = "applied"
        BY <2>1, <2>3 DEF SecondUseRefused, HasStatus
      <3>2. Recorded(data[<<d, Mutated>>].record)
        BY <1>1, <3>1 DEF IInv, FileInv, Present, Requested
      <3> QED
        BY <3>1, <3>2 DEF Recorded, RecordedIn
    <2>4. ~HasStatus(data, <<d, Refused>>, {"applied"})
      BY <1>1 DEF IInv, FileInv, Present, Requested, HasStatus, Mutated, Refused
    <2>5. \A record \in created : record.pair # PairOf(Refused)
      BY <1>1 DEF IInv, CreatedInv, PairOf, Mutated, Refused
    <2> QED
      BY <2>2, <2>3, <2>4, <2>5
  <1>2. IInv => PassedIsTrue
    BY <1>1 DEF PassedIsTrue
  <1> QED
    BY <1>2, Invariant, PTL

\* A demo that nobody disturbs passes its checks exactly if its action is not
\* already applied in the approval file that it started with.
THEOREM VerdictsAreExplained == Spec => []VerdictExplained
  <1>1. IInv => VerdictExplained
    BY DEF IInv, OnCourse, Explained, VerdictExplained
  <1> QED
    BY <1>1, Invariant, PTL
===============================================================================
