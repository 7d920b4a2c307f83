---------------------------- MODULE Tracing_proofs ----------------------------
(***************************************************************************)
(* Theorems about Tracing for every set of users and any number of         *)
(* providers: its types, that one provider at most is up, and that a span  *)
(* that was asked for is exported.                                         *)
(***************************************************************************)
EXTENDS Tracing, TLAPS

-------------------------------------------------------------------------------
\* The inductive invariant

\* What a thread executes fits the step it is at; only Main resets.
JobsMatch ==
    /\ \A t \in Threads :
         /\ pc[t] = "acquire" => job[t] # "none"
         /\ pc[t] \in {"configure", "publish", "uninstall", "install"} =>
              job[t] \in {"ensure", "configure", "supply"}
         /\ pc[t] \in {"shutdown", "forget"} => job[t] \in {"shutdown", "reset"}
         /\ pc[t] \in {"idle", "reset", "tracer", "read", "fallback", "span"} =>
              job[t] = "none"
    /\ \A u \in Users : job[u] \in {"none", "ensure"} /\ pc[u] # "reset"
    /\ job[Main] # "ensure"
    /\ pc[Main] \notin {"tracer", "read", "fallback", "span"}

\* While Main resets, nobody else runs, and once shutdown_tracing has returned
\* there is no provider.
ResetAlone ==
    /\ Resetting => \A u \in Users : pc[u] = "idle"
    /\ pc[Main] = "reset" => provider = None

\* The bound leaves room for the provider about to be built.
RoomToPublish == \A t \in Threads : pc[t] = "publish" => built < MaxProviders

Live == (1..built) \ down

\* The steps at which the provider is being exchanged or given up.
Changing == {"publish", "uninstall", "install", "forget"}

\* Which providers are up at each step taken under _LOCK.
ProvidersInStep ==
    /\ provider # None => configured
    /\ \A t \in Threads :
         /\ pc[t] \in {"publish", "forget"} => Live = {}
         /\ pc[t] \in {"uninstall", "install"} =>
              provider # None /\ provider # global /\ Live = {provider}
    /\ (\A t \in Threads : pc[t] \notin Changing) =>
         /\ Live = {provider} \ {None}
         /\ provider # None => global = provider

\* A user whose span is wanted meets one and the same provider on its way, and
\* nobody is replacing it.
WantedIsUp ==
    \A u \in Users : wanted[u] =>
      /\ pc[u] \in {"tracer", "read", "span"}
      /\ provider # None
      /\ pc[u] = "span" => tracer[u] = provider
      /\ \A t \in Threads : pc[t] \notin Changing

IInv ==
    /\ TypeOK
    /\ JobsMatch
    /\ ResetAlone
    /\ RoomToPublish
    /\ ProvidersInStep
    /\ WantedIsUp

-------------------------------------------------------------------------------
\* Each step keeps the invariant

LEMMA InitSatisfies == Init => IInv
  <1> SUFFICES ASSUME Init PROVE IInv
    OBVIOUS
  <1> USE TracingAssumption DEF Init, Threads
  <1>1. TypeOK
    <2>1. \A t \in Threads : lock = t <=> pc[t] \in Locked
      BY DEF Locked
    <2>2. /\ built \in 0..MaxProviders
          /\ {provider, global} \subseteq 1..built \cup {None}
      OBVIOUS
    <2> QED
      BY <2>1, <2>2 DEF TypeOK
  <1>2. JobsMatch /\ ResetAlone /\ RoomToPublish /\ WantedIsUp
    BY DEF JobsMatch, ResetAlone, Resetting, RoomToPublish, WantedIsUp
  <1>3. ProvidersInStep
    BY DEF ProvidersInStep, Live
  <1> QED
    BY <1>1, <1>2, <1>3 DEF IInv

\* Between Acquire and Leave one thread holds the lock: nobody else is at a
\* step under it.
LEMMA OneHolder ==
    ASSUME IInv, NEW t \in Threads, pc[t] \in Locked
    PROVE  lock = t /\ \A v \in Threads : v # t => pc[v] \notin Locked
  BY DEF IInv, TypeOK

LEMMA EnsureKeeps ==
    ASSUME IInv, NEW u \in Users, Ensure(u)
    PROVE  IInv'
  <1> USE TracingAssumption DEF IInv, TypeOK, Ensure, Goto, state, Threads
  <1>1. TypeOK'
    BY DEF Locked
  <1>2. JobsMatch'
    BY DEF JobsMatch
  <1>3. ResetAlone' /\ RoomToPublish'
    BY DEF ResetAlone, Resetting, RoomToPublish
  <1>4. ProvidersInStep'
    BY DEF ProvidersInStep, Live, Changing
  <1>5. WantedIsUp'
    BY DEF WantedIsUp, Changing
  <1> QED
    BY <1>1, <1>2, <1>3, <1>4, <1>5

LEMMA MainCallsKeeps ==
    ASSUME IInv, MainCalls
    PROVE  IInv'
  <1> USE TracingAssumption DEF IInv, TypeOK, MainCalls, Goto, state, Threads
  <1>1. TypeOK'
    BY DEF Locked
  <1>2. JobsMatch'
    BY DEF JobsMatch
  <1>3. ResetAlone' /\ RoomToPublish'
    BY DEF ResetAlone, Resetting, RoomToPublish
  <1>4. ProvidersInStep'
    BY DEF ProvidersInStep, Live, Changing
  <1>5. WantedIsUp'
    BY DEF WantedIsUp, Changing
  <1> QED
    BY <1>1, <1>2, <1>3, <1>4, <1>5

LEMMA ChangeEnvironmentKeeps ==
    ASSUME IInv, ChangeEnvironment \/ UNCHANGED vars
    PROVE  IInv'
  <1>1. /\ UNCHANGED <<lock, state, pc, job, tracer, wanted>>
        /\ enabled' \in BOOLEAN
    BY DEF ChangeEnvironment, vars, state, IInv, TypeOK
  <1> QED
    BY <1>1
       DEF IInv, TypeOK, JobsMatch, ResetAlone, Resetting, RoomToPublish,
           ProvidersInStep, WantedIsUp, Live, state

LEMMA AcquireKeeps ==
    ASSUME IInv, NEW t \in Threads, Acquire(t)
    PROVE  IInv'
  <1> USE TracingAssumption DEF IInv, TypeOK, Acquire, Goto, state, Threads
  <1>1. TypeOK'
    BY DEF Locked
  <1>2. JobsMatch'
    BY DEF JobsMatch
  <1>3. ResetAlone' /\ RoomToPublish'
    BY DEF ResetAlone, Resetting, RoomToPublish
  <1>4. ProvidersInStep'
    BY DEF ProvidersInStep, Live, Changing
  <1>5. WantedIsUp'
    BY DEF WantedIsUp, Changing
  <1> QED
    BY <1>1, <1>2, <1>3, <1>4, <1>5

\* The threads' steps when t leaves the with-block of _LOCK.
LEMMA LeaveEnds ==
    ASSUME IInv, NEW t \in Threads, pc[t] \in Locked, Leave(t)
    PROVE  /\ lock' = None
           /\ pc' \in [Threads -> {"idle", "acquire", "reset", "tracer", "read",
                                   "fallback", "span"} \cup Locked]
           /\ job' = [job EXCEPT ![t] = "none"]
           /\ pc'[t] = IF job[t] = "ensure" THEN "tracer"
                       ELSE IF job[t] = "reset" THEN "reset" ELSE "idle"
           /\ \A v \in Threads \ {t} : pc'[v] = pc[v]
           /\ \A v \in Threads : pc'[v] \notin Locked
  <1>1. /\ lock' = None
        /\ job' = [job EXCEPT ![t] = "none"]
        /\ \A v \in Threads \ {t} : pc'[v] = pc[v]
    BY DEF Leave, Goto, IInv, TypeOK
  <1>2. pc'[t] = IF job[t] = "ensure" THEN "tracer"
                 ELSE IF job[t] = "reset" THEN "reset" ELSE "idle"
    BY DEF Leave, Goto, IInv, TypeOK
  <1>3. pc' \in [Threads -> {"idle", "acquire", "reset", "tracer", "read",
                             "fallback", "span"} \cup Locked]
    BY <1>2 DEF Leave, Goto, IInv, TypeOK
  <1>4. \A v \in Threads : pc'[v] \notin Locked
    BY <1>1, <1>2, OneHolder DEF Locked
  <1> QED
    BY <1>1, <1>2, <1>3, <1>4

\* A configuration that finds the provider to keep.
LEMMA KeepProviderKeeps ==
    ASSUME IInv, NEW t \in Threads, KeepProvider(t)
    PROVE  IInv'
  <1> USE TracingAssumption DEF IInv, TypeOK, KeepProvider, state, Threads
  <1>0. pc[t] \in Locked /\ pc[t] = "configure" /\ pc[t] \notin Changing
    BY DEF Locked, Changing
  <1>1. /\ lock' = None
        /\ pc' \in [Threads -> {"idle", "acquire", "reset", "tracer", "read",
                                "fallback", "span"} \cup Locked]
        /\ job' = [job EXCEPT ![t] = "none"]
        /\ pc'[t] = IF job[t] = "ensure" THEN "tracer"
                    ELSE IF job[t] = "reset" THEN "reset" ELSE "idle"
        /\ \A v \in Threads \ {t} : pc'[v] = pc[v]
        /\ \A v \in Threads : pc'[v] \notin Locked
    BY <1>0, LeaveEnds
  <1>2. job[t] \in {"ensure", "configure", "supply"}
    BY <1>0 DEF JobsMatch
  <1>3. \A v \in Threads : pc[v] \notin Changing
    BY <1>0, OneHolder DEF Changing, Locked
  <1>4. TypeOK'
    BY <1>1
  <1>5. JobsMatch'
    BY <1>0, <1>1, <1>2 DEF JobsMatch
  <1>6. ResetAlone' /\ RoomToPublish'
    BY <1>0, <1>1, <1>2 DEF ResetAlone, Resetting, RoomToPublish, Locked
  <1>7. ProvidersInStep'
    BY <1>1, <1>3 DEF ProvidersInStep, Live, Changing, Locked
  <1>8. t \in Users /\ wanted'[t] => pc'[t] = "tracer" /\ provider # None
    BY <1>1, <1>2 DEF JobsMatch, Sticky
  <1>9. WantedIsUp'
    BY <1>1, <1>3, <1>8 DEF WantedIsUp, Changing, Locked
  <1> QED
    BY <1>4, <1>5, <1>6, <1>7, <1>9

\* A configuration that finds tracing not opted in and nothing configured.
LEMMA StayDisabledKeeps ==
    ASSUME IInv, NEW t \in Threads, StayDisabled(t)
    PROVE  IInv'
  <1> USE TracingAssumption DEF IInv, TypeOK, StayDisabled, state, Threads
  <1>0. pc[t] \in Locked /\ pc[t] = "configure"
    BY DEF Locked
  <1>1. /\ lock' = None
        /\ pc' \in [Threads -> {"idle", "acquire", "reset", "tracer", "read",
                                "fallback", "span"} \cup Locked]
        /\ job' = [job EXCEPT ![t] = "none"]
        /\ pc'[t] = IF job[t] = "ensure" THEN "tracer"
                    ELSE IF job[t] = "reset" THEN "reset" ELSE "idle"
        /\ \A v \in Threads \ {t} : pc'[v] = pc[v]
        /\ \A v \in Threads : pc'[v] \notin Locked
    BY <1>0, LeaveEnds
  <1>2. job[t] \in {"ensure", "configure", "supply"}
    BY <1>0 DEF JobsMatch
  <1>3. \A v \in Threads \ {t} : pc[v] \notin Changing
    BY <1>0, OneHolder DEF Changing, Locked
  <1>4. TypeOK'
    BY <1>1
  <1>5. JobsMatch'
    BY <1>0, <1>1, <1>2 DEF JobsMatch
  <1>6. ResetAlone' /\ RoomToPublish'
    BY <1>0, <1>1, <1>2 DEF ResetAlone, Resetting, RoomToPublish, Locked, JobsMatch
  <1>7. ProvidersInStep'
    <2>1. provider = None
      BY DEF Sticky, ProvidersInStep
    <2> QED
      BY <1>0, <1>1, <1>3, <2>1 DEF ProvidersInStep, Live, Changing, Locked
  <1>8. WantedIsUp'
    <2>1. ~configured
      BY DEF Sticky, ProvidersInStep
    <2>2. \A u \in Users : ~wanted[u]
      BY <2>1 DEF WantedIsUp, ProvidersInStep
    <2> QED
      BY <2>2 DEF WantedIsUp
  <1> QED
    BY <1>4, <1>5, <1>6, <1>7, <1>8

\* A configuration whose exporter raises.
LEMMA ExporterFailsKeeps ==
    ASSUME IInv, NEW t \in Threads, ExporterFails(t)
    PROVE  IInv'
  <1> USE TracingAssumption
      DEF IInv, TypeOK, ExporterFails, Goto, state, Threads
  <1>0. pc[t] \in Locked /\ pc[t] = "configure"
    BY DEF Locked
  <1>1. \A v \in Threads : pc[v] \notin Changing
    BY <1>0, OneHolder DEF Changing, Locked
  <1>2. TypeOK'
    BY <1>0, OneHolder DEF Locked
  <1>3. JobsMatch'
    BY <1>0 DEF JobsMatch
  <1>4. ResetAlone' /\ RoomToPublish'
    BY <1>0 DEF ResetAlone, Resetting, RoomToPublish, JobsMatch
  <1>5. ProvidersInStep'
    BY <1>1 DEF ProvidersInStep, Live, Changing
  <1>6. WantedIsUp'
    BY <1>0, <1>1 DEF WantedIsUp, Changing
  <1> QED
    BY <1>2, <1>3, <1>4, <1>5, <1>6

\* The old provider is shut down: by Main, or because there is none.
LEMMA RetireProviderKeeps ==
    ASSUME IInv, NEW t \in Threads, RetireProvider(t)
    PROVE  IInv'
  <1> USE TracingAssumption
      DEF IInv, TypeOK, RetireProvider, Goto, state, Threads
  <1>0. pc[t] \in Locked /\ pc[t] = "configure"
    BY DEF Locked
  <1>1. \A v \in Threads : pc[v] \notin Changing
    BY <1>0, OneHolder DEF Changing, Locked
  <1>2. \A u \in Users : wanted'[u] => wanted[u]
    BY DEF Disturb
  <1>3. wanted' \in [Users -> BOOLEAN]
    BY DEF Disturb
  <1>4. TypeOK'
    BY <1>0, <1>3 DEF Locked
  <1>5. JobsMatch'
    BY <1>0 DEF JobsMatch
  <1>6. ResetAlone' /\ RoomToPublish'
    BY <1>0 DEF ResetAlone, Resetting, RoomToPublish
  <1>7. Live' = {}
    BY <1>1 DEF ProvidersInStep, Live
  <1>8. ProvidersInStep'
    BY <1>1, <1>7 DEF ProvidersInStep, Changing
  <1>9. \A u \in Users : ~wanted'[u]
    <2>1. CASE t = Main
      BY <2>1 DEF Disturb
    <2>2. CASE t # Main
      <3>1. job[t] = "ensure"
        BY <1>0, <2>2 DEF JobsMatch
      <3>2. provider = None
        BY <3>1 DEF Sticky, ProvidersInStep
      <3> QED
        BY <1>2, <3>2 DEF WantedIsUp
    <2> QED
      BY <2>1, <2>2
  <1>10. WantedIsUp'
    BY <1>9 DEF WantedIsUp
  <1> QED
    BY <1>4, <1>5, <1>6, <1>8, <1>10

LEMMA PublishProviderKeeps ==
    ASSUME IInv, NEW t \in Threads, PublishProvider(t)
    PROVE  IInv'
  <1> USE TracingAssumption
      DEF IInv, TypeOK, PublishProvider, Goto, state, Threads
  <1>0. pc[t] \in Locked /\ pc[t] = "publish" /\ pc[t] \in Changing
    BY DEF Locked, Changing
  <1>1. \A v \in Threads \ {t} : pc[v] \notin Changing /\ pc[v] # "publish"
    BY <1>0, OneHolder DEF Changing, Locked
  <1>2. /\ built \in Nat /\ built + 1 \in 0..MaxProviders
        /\ 1..built \subseteq 1..(built + 1)
        /\ built + 1 \notin 1..built
    BY <1>0 DEF RoomToPublish
  <1>3. TypeOK'
    <2>1. \A v \in Threads : lock' = v <=> pc'[v] \in Locked
      BY <1>0 DEF Locked
    <2>2. /\ {provider, global}' \subseteq 1..built' \cup {None}
          /\ down' \subseteq 1..built'
          /\ tracer' \in [Users -> 1..built' \cup {None}]
      BY <1>2
    <2> QED
      BY <1>2, <2>1, <2>2 DEF Locked
  <1>4. JobsMatch'
    BY <1>0 DEF JobsMatch
  <1>5. RoomToPublish'
    BY <1>1 DEF RoomToPublish
  <1>6. ResetAlone'
    BY <1>0 DEF ResetAlone, Resetting, JobsMatch
  <1>7. /\ Live' = {provider'}
        /\ provider' # None /\ provider' # global'
    BY <1>0, <1>2 DEF ProvidersInStep, Live
  <1>8. ProvidersInStep'
    BY <1>1, <1>7 DEF ProvidersInStep, Changing
  <1>9. WantedIsUp'
    BY <1>0 DEF WantedIsUp
  <1> QED
    BY <1>3, <1>4, <1>5, <1>6, <1>8, <1>9

LEMMA UninstallGlobalKeeps ==
    ASSUME IInv, NEW t \in Threads, UninstallGlobal(t)
    PROVE  IInv'
  <1> USE TracingAssumption
      DEF IInv, TypeOK, UninstallGlobal, ClearGlobal, Goto, state, Threads
  <1>0. pc[t] \in Locked /\ pc[t] = "uninstall" /\ pc[t] \in Changing
    BY DEF Locked, Changing
  <1>1. \A v \in Threads \ {t} : pc[v] \notin Changing
    BY <1>0, OneHolder DEF Changing, Locked
  <1>2. TypeOK'
    BY <1>0 DEF Locked
  <1>3. JobsMatch'
    BY <1>0 DEF JobsMatch
  <1>4. ResetAlone' /\ RoomToPublish'
    BY <1>0 DEF ResetAlone, Resetting, RoomToPublish
  <1>5. Live' = {provider} /\ provider # None
    BY <1>0 DEF ProvidersInStep, Live
  <1>6. ProvidersInStep'
    BY <1>1, <1>5 DEF ProvidersInStep, Changing
  <1>7. WantedIsUp'
    BY <1>0 DEF WantedIsUp
  <1> QED
    BY <1>2, <1>3, <1>4, <1>6, <1>7

\* The new provider becomes the global one, and a user may count on it.
LEMMA InstallGlobalKeeps ==
    ASSUME IInv, NEW t \in Threads, InstallGlobal(t)
    PROVE  IInv'
  <1> USE TracingAssumption DEF IInv, TypeOK, InstallGlobal, state, Threads
  <1>0. pc[t] \in Locked /\ pc[t] = "install"
    BY DEF Locked
  <1>1. /\ lock' = None
        /\ pc' \in [Threads -> {"idle", "acquire", "reset", "tracer", "read",
                                "fallback", "span"} \cup Locked]
        /\ job' = [job EXCEPT ![t] = "none"]
        /\ pc'[t] = IF job[t] = "ensure" THEN "tracer"
                    ELSE IF job[t] = "reset" THEN "reset" ELSE "idle"
        /\ \A v \in Threads \ {t} : pc'[v] = pc[v]
        /\ \A v \in Threads : pc'[v] \notin Locked
    BY <1>0, LeaveEnds
  <1>2. job[t] \in {"ensure", "configure", "supply"}
    BY <1>0 DEF JobsMatch
  <1>3. \A v \in Threads \ {t} : pc[v] \notin Changing
    BY <1>0, OneHolder DEF Changing, Locked
  <1>4. TypeOK'
    BY <1>1
  <1>5. JobsMatch'
    BY <1>0, <1>1, <1>2 DEF JobsMatch
  <1>6. ResetAlone' /\ RoomToPublish'
    BY <1>0, <1>1, <1>2 DEF ResetAlone, Resetting, RoomToPublish, Locked, JobsMatch
  <1>7. ProvidersInStep'
    BY <1>0, <1>1, <1>3 DEF ProvidersInStep, Live, Changing, Locked
  <1>8. WantedIsUp'
    <2>1. \A u \in Users : ~wanted[u]
      BY <1>0 DEF WantedIsUp, Changing
    <2>2. t \in Users => pc'[t] = "tracer" /\ provider # None
      BY <1>0, <1>1, <1>2 DEF JobsMatch, ProvidersInStep
    <2> QED
      BY <1>1, <2>1, <2>2 DEF WantedIsUp, Changing, Locked
  <1> QED
    BY <1>4, <1>5, <1>6, <1>7, <1>8

LEMMA ShutDownKeeps ==
    ASSUME IInv, NEW t \in Threads, ShutDown(t)
    PROVE  IInv'
  <1> USE TracingAssumption DEF IInv, TypeOK, ShutDown, Goto, state, Threads
  <1>0. pc[t] \in Locked /\ pc[t] = "shutdown"
    BY DEF Locked
  <1>1. \A v \in Threads : pc[v] \notin Changing
    BY <1>0, OneHolder DEF Changing, Locked
  <1>2. t = Main
    BY <1>0 DEF JobsMatch
  <1>3. wanted' = [u \in Users |-> FALSE]
    BY <1>2 DEF Disturb
  <1>4. TypeOK'
    BY <1>0, <1>3 DEF Locked
  <1>5. JobsMatch'
    BY <1>0 DEF JobsMatch
  <1>6. ResetAlone' /\ RoomToPublish'
    BY <1>0 DEF ResetAlone, Resetting, RoomToPublish
  <1>7. Live' = {}
    BY <1>1 DEF ProvidersInStep, Live
  <1>8. ProvidersInStep'
    BY <1>1, <1>7 DEF ProvidersInStep, Changing
  <1>9. WantedIsUp'
    BY <1>3 DEF WantedIsUp
  <1> QED
    BY <1>4, <1>5, <1>6, <1>8, <1>9

\* The provider that was shut down is forgotten.
LEMMA ForgetKeeps ==
    ASSUME IInv, NEW t \in Threads, Forget(t)
    PROVE  IInv'
  <1> USE TracingAssumption DEF IInv, TypeOK, Forget, state, Threads
  <1>0. pc[t] \in Locked /\ pc[t] = "forget"
    BY DEF Locked
  <1>1. /\ lock' = None
        /\ pc' \in [Threads -> {"idle", "acquire", "reset", "tracer", "read",
                                "fallback", "span"} \cup Locked]
        /\ job' = [job EXCEPT ![t] = "none"]
        /\ pc'[t] = IF job[t] = "ensure" THEN "tracer"
                    ELSE IF job[t] = "reset" THEN "reset" ELSE "idle"
        /\ \A v \in Threads \ {t} : pc'[v] = pc[v]
        /\ \A v \in Threads : pc'[v] \notin Locked
    BY <1>0, LeaveEnds
  <1>2. job[t] \in {"shutdown", "reset"}
    BY <1>0 DEF JobsMatch
  <1>3. \A v \in Threads \ {t} : pc[v] \notin Changing
    BY <1>0, OneHolder DEF Changing, Locked
  <1>4. TypeOK'
    BY <1>1
  <1>5. JobsMatch'
    BY <1>0, <1>1, <1>2 DEF JobsMatch
  <1>6. ResetAlone' /\ RoomToPublish'
    BY <1>0, <1>1, <1>2 DEF ResetAlone, Resetting, RoomToPublish, Locked, JobsMatch
  <1>7. ProvidersInStep'
    BY <1>0, <1>1, <1>3 DEF ProvidersInStep, Live, Changing, Locked
  <1>8. WantedIsUp'
    BY <1>0 DEF WantedIsUp, Changing
  <1> QED
    BY <1>4, <1>5, <1>6, <1>7, <1>8

LEMMA ResetGlobalKeeps ==
    ASSUME IInv, ResetGlobal
    PROVE  IInv'
  <1> USE TracingAssumption
      DEF IInv, TypeOK, ResetGlobal, ClearGlobal, Goto, state, Threads
  <1>1. /\ provider = None
        /\ \A v \in Threads : pc[v] \notin Changing
    BY DEF ResetAlone, Resetting, Changing
  <1>2. TypeOK'
    BY DEF Locked
  <1>3. JobsMatch'
    BY DEF JobsMatch
  <1>4. ResetAlone' /\ RoomToPublish'
    BY DEF ResetAlone, Resetting, RoomToPublish, JobsMatch
  <1>5. ProvidersInStep'
    BY <1>1 DEF ProvidersInStep, Live, Changing
  <1>6. WantedIsUp'
    BY <1>1 DEF WantedIsUp
  <1> QED
    BY <1>2, <1>3, <1>4, <1>5, <1>6

\* get_tracer and the span, which read and change nothing but the user's own.
LEMMA UserStepKeeps ==
    ASSUME IInv, NEW u \in Users,
           TestProvider(u) \/ ReadProvider(u) \/ FallBack(u) \/ EndSpan(u)
    PROVE  IInv'
  <1> USE TracingAssumption
      DEF IInv, TypeOK, TestProvider, ReadProvider, FallBack, EndSpan, Goto,
          state, Threads
  <1>1. /\ pc[u] \in {"tracer", "read", "fallback", "span"}
        /\ pc'[u] \in {"read", "fallback", "span", "idle"}
        /\ \A v \in Threads \ {u} : pc'[v] = pc[v]
        /\ UNCHANGED <<enabled, lock, state, job>>
        /\ pc' = [pc EXCEPT ![u] = pc'[u]]
    OBVIOUS
  <1>2. tracer' \in [Users -> 1..built \cup {None}]
        /\ wanted' \in [Users -> BOOLEAN]
    <2>1. \E p \in {None, provider, global} : tracer' = [tracer EXCEPT ![u] = p]
      OBVIOUS
    <2>2. wanted' = wanted \/ wanted' = [wanted EXCEPT ![u] = FALSE]
      OBVIOUS
    <2>3. tracer' \in [Users -> 1..built \cup {None}]
      <3>1. PICK p \in {None, provider, global} :
              tracer' = [tracer EXCEPT ![u] = p]
        BY <2>1
      <3>2. p \in 1..built \cup {None}
        OBVIOUS
      <3> QED
        BY <3>1, <3>2
    <2>4. wanted' \in [Users -> BOOLEAN]
      BY <2>2
    <2> QED
      BY <2>3, <2>4
  <1>3. TypeOK'
    BY <1>1, <1>2 DEF Locked
  <1>4. JobsMatch'
    BY <1>1 DEF JobsMatch
  <1>5. ResetAlone' /\ RoomToPublish'
    BY <1>1 DEF ResetAlone, Resetting, RoomToPublish
  <1>6. ProvidersInStep'
    BY <1>1 DEF ProvidersInStep, Live, Changing
  <1>7. WantedIsUp'
    BY <1>1 DEF WantedIsUp, Changing
  <1> QED
    BY <1>3, <1>4, <1>5, <1>6, <1>7

LEMMA StepKeeps == IInv /\ [Next]_vars => IInv'
  BY EnsureKeeps, MainCallsKeeps, ChangeEnvironmentKeeps, AcquireKeeps, KeepProviderKeeps,
     StayDisabledKeeps, ExporterFailsKeeps, RetireProviderKeeps,
     PublishProviderKeeps, UninstallGlobalKeeps, InstallGlobalKeeps,
     ShutDownKeeps, ForgetKeeps, ResetGlobalKeeps, UserStepKeeps
     DEF Next, Configure

\* The invariant holds in every reachable state.
THEOREM Invariant == Spec => []IInv
  BY InitSatisfies, StepKeeps, PTL DEF Spec

-------------------------------------------------------------------------------
\* What holds of every behaviour

\* The variables stay in their types, and _LOCK is held exactly by the thread
\* in its with-block.
THEOREM TypesCorrect == Spec => []TypeOK
  BY Invariant, PTL DEF IInv

\* OneProviderUp: whenever _LOCK is free the one provider that is up is the
\* published one, and it is also the global one.
THEOREM NoProviderLeaks == Spec => []OneProviderUp
  <1>1. IInv => OneProviderUp
    <2> SUFFICES ASSUME IInv, lock = None
                 PROVE  /\ Live = {provider} \ {None}
                        /\ provider # None => global = provider
      BY DEF OneProviderUp, Live
    <2>1. \A t \in Threads : pc[t] \notin Changing
      BY TracingAssumption DEF IInv, TypeOK, Threads, Changing, Locked
    <2> QED
      BY <2>1 DEF IInv, ProvidersInStep
  <1> QED
    BY <1>1, Invariant, PTL

\* WantedSpanIsExported: a request that found tracing opted in runs under a
\* span of a provider that is up, unless Main shuts it down or replaces it.
THEOREM WantedSpansAreExported == Spec => []WantedSpanIsExported
  <1>1. IInv => WantedSpanIsExported
    <2> SUFFICES ASSUME IInv, NEW u \in Users, wanted[u], pc[u] = "span"
                 PROVE  tracer[u] # None /\ tracer[u] \notin down
      BY DEF WantedSpanIsExported
    <2>1. /\ tracer[u] = provider /\ provider # None
          /\ \A t \in Threads : pc[t] \notin Changing
      BY DEF IInv, WantedIsUp
    <2>2. provider \in Live
      BY <2>1 DEF IInv, ProvidersInStep
    <2> QED
      BY <2>1, <2>2 DEF Live
  <1> QED
    BY <1>1, Invariant, PTL
===============================================================================
