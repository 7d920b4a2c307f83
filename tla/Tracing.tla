-------------------------------- MODULE Tracing --------------------------------
(***************************************************************************)
(* The life of the tracing provider of one process: tracing.py of the API  *)
(* and of the runner (the same code for another service name), and how     *)
(* they are used: the API's lifespan configures and shuts down, the        *)
(* requests of middleware.py and the calls of client.py and executor.py    *)
(* ensure a provider, take a tracer and run under one span; tests supply   *)
(* exporters and reset the globals.                                        *)
(*                                                                         *)
(* _LOCK covers configure_tracing and shutdown_tracing.  get_tracer reads  *)
(* _provider without it, and twice.  Providers are numbered as they are    *)
(* built.  Span attributes, events and flushes, which change no state that *)
(* is read back (a span is exported as it ends), are left out.             *)
(***************************************************************************)
EXTENDS Naturals

CONSTANTS
    Users,          \* threads that run requests or tool calls under a span
    Main,           \* the thread that starts and stops the process, or a test
    MaxProviders,   \* bound: providers built
    None            \* no provider, no tracer, a free lock

ASSUME TracingAssumption ==
    /\ Main \notin Users
    /\ None \notin Users \cup {Main} \cup Nat
    /\ MaxProviders \in Nat

Threads == Users \cup {Main}

VARIABLES
    enabled,     \* tracing_enabled(): the environment opts in
    lock,        \* _LOCK
    provider,    \* _provider
    configured,  \* _configured
    global,      \* the provider of the OpenTelemetry API
    down,        \* providers that were shut down
    built,       \* number of providers built so far
    pc,          \* pc[t]: next step of t
    job,         \* job[t]: what t is executing
    tracer,      \* tracer[u]: provider of u's tracer, None for the no-op one
    wanted       \* history: wanted[u], u's ensure_tracing() found tracing
                 \* opted in, did not raise, and Main has left it alone since

vars == <<enabled, lock, provider, configured, global, down, built, pc, job,
          tracer, wanted>>
state == <<provider, configured, global, down, built>>

Init ==
    /\ enabled \in BOOLEAN
    /\ lock = None
    /\ provider = None
    /\ configured = FALSE
    /\ global = None
    /\ down = {}
    /\ built = 0
    /\ pc = [t \in Threads |-> "idle"]
    /\ job = [t \in Threads |-> "none"]
    /\ tracer = [u \in Users |-> None]
    /\ wanted = [u \in Users |-> FALSE]

Goto(t, step) == pc' = [pc EXCEPT ![t] = step]

\* The with-block of _LOCK ends: a user goes on to its tracer, unless
\* ensure_tracing raised; reset_tracing_for_tests has a part left.
Leave(t) ==
    /\ lock' = None
    /\ Goto(t, CASE job[t] = "ensure" -> "tracer"
                 [] job[t] = "reset"  -> "reset"
                 [] OTHER             -> "idle")
    /\ job' = [job EXCEPT ![t] = "none"]

\* Main touches the provider: from here on no user can count on its span.
Disturb(t) ==
    wanted' = IF t = Main THEN [u \in Users |-> FALSE] ELSE wanted

-------------------------------------------------------------------------------
\* Calls

\* The fixture that resets runs between the tests, when nothing else does.
Resetting == job[Main] = "reset" \/ pc[Main] = "reset"

\* A request arrives, or a tool is called: ensure_tracing().
Ensure(u) ==
    /\ pc[u] = "idle"
    /\ ~Resetting
    /\ Goto(u, "acquire")
    /\ job' = [job EXCEPT ![u] = "ensure"]
    /\ UNCHANGED <<enabled, lock, state, tracer, wanted>>

\* Bound: an exporter is supplied while it, and the provider a request may build
\* first, are within MaxProviders.
ProvidersLeft == built + 1 < MaxProviders

\* configure_tracing() at the start, configure_tracing(exporter=...) in a test,
\* shutdown_tracing() at the end, reset_tracing_for_tests() between tests.
MainCalls ==
    /\ pc[Main] = "idle"
    /\ \E what \in {"configure", "supply", "shutdown", "reset"} :
         /\ what = "reset" => \A u \in Users : pc[u] = "idle"
         /\ what = "supply" => ProvidersLeft
         /\ job' = [job EXCEPT ![Main] = what]
    /\ Goto(Main, "acquire")
    /\ UNCHANGED <<enabled, lock, state, tracer, wanted>>

\* The environment that tracing_enabled() reads opts in, or out again, at any
\* time that is not inside a call's reading of it.
ChangeEnvironment ==
    /\ enabled' = ~enabled
    /\ UNCHANGED <<lock, state, pc, job, tracer, wanted>>

Acquire(t) ==
    /\ pc[t] = "acquire"
    /\ lock = None
    /\ lock' = t
    /\ Goto(t, IF job[t] \in {"shutdown", "reset"} THEN "shutdown"
                                                   ELSE "configure")
    /\ UNCHANGED <<enabled, state, job, tracer, wanted>>

-------------------------------------------------------------------------------
\* configure_tracing, under the lock

\* Mutant of Sticky: any earlier call is final.
StickyAlways(t) == job[t] # "supply" /\ configured

\* A live provider stays, and so does a disabled configuration until the
\* environment opts in.
Sticky(t) ==
    job[t] # "supply" /\ configured /\ (provider # None \/ ~enabled)

KeepProvider(t) ==
    /\ pc[t] = "configure"
    /\ Sticky(t)
    /\ wanted' = IF t \in Users THEN [wanted EXCEPT ![t] = enabled] ELSE wanted
    /\ Leave(t)
    /\ UNCHANGED <<enabled, state, tracer>>

StayDisabled(t) ==
    /\ pc[t] = "configure"
    /\ ~Sticky(t)
    /\ job[t] # "supply"
    /\ ~enabled
    /\ provider' = None
    /\ configured' = TRUE
    /\ Leave(t)
    /\ UNCHANGED <<enabled, global, down, built, tracer, wanted>>

\* Mutant of ExporterFails: the lock is not given back.
ExporterFailsLocked(t) ==
    /\ pc[t] = "configure"
    /\ ~Sticky(t)
    /\ job[t] # "supply" /\ enabled
    /\ Goto(t, "idle")
    /\ job' = [job EXCEPT ![t] = "none"]
    /\ UNCHANGED <<enabled, lock, state, tracer, wanted>>

\* The OTLP exporter cannot be imported or built: the exception leaves the
\* with-block, and a user's request fails with it.
ExporterFails(t) ==
    /\ pc[t] = "configure"
    /\ ~Sticky(t)
    /\ job[t] # "supply" /\ enabled
    /\ lock' = None
    /\ Goto(t, "idle")
    /\ job' = [job EXCEPT ![t] = "none"]
    /\ UNCHANGED <<enabled, state, tracer, wanted>>

\* There is an exporter: the old provider is shut down.
RetireProvider(t) ==
    /\ pc[t] = "configure"
    /\ ~Sticky(t)
    /\ job[t] = "supply" \/ enabled
    /\ built < MaxProviders
    /\ down' = down \cup ({provider} \ {None})
    /\ Disturb(t)
    /\ Goto(t, "publish")
    /\ UNCHANGED <<enabled, lock, provider, configured, global, built, job,
                   tracer>>

\* The new one is built and visible to get_tracer...
PublishProvider(t) ==
    /\ pc[t] = "publish"
    /\ built' = built + 1
    /\ provider' = built'
    /\ configured' = TRUE
    /\ Goto(t, "uninstall")
    /\ UNCHANGED <<enabled, lock, global, down, job, tracer, wanted>>

\* ... _reset_global_provider: the one installed before is shut down (again).
ClearGlobal ==
    /\ down' = down \cup ({global} \ {None})
    /\ global' = None

UninstallGlobal(t) ==
    /\ pc[t] = "uninstall"
    /\ ClearGlobal
    /\ Goto(t, "install")
    /\ UNCHANGED <<enabled, lock, provider, configured, built, job, tracer,
                   wanted>>

\* trace.set_tracer_provider, and the with-block ends.
InstallGlobal(t) ==
    /\ pc[t] = "install"
    /\ global' = provider
    /\ wanted' = IF t \in Users THEN [wanted EXCEPT ![t] = TRUE] ELSE wanted
    /\ Leave(t)
    /\ UNCHANGED <<enabled, provider, configured, down, built, tracer>>

-------------------------------------------------------------------------------
\* shutdown_tracing, under the lock, and reset_tracing_for_tests

\* Mutant of ShutDown: the provider is dropped, not shut down.
ShutDownForgetting(t) ==
    /\ pc[t] = "shutdown"
    /\ provider' = None
    /\ configured' = FALSE
    /\ Disturb(t)
    /\ Leave(t)
    /\ UNCHANGED <<enabled, down, global, built, tracer>>

\* Flush and shutdown, which unlocked readers may see before what follows.
ShutDown(t) ==
    /\ pc[t] = "shutdown"
    /\ down' = down \cup ({provider} \ {None})
    /\ Disturb(t)
    /\ Goto(t, "forget")
    /\ UNCHANGED <<enabled, lock, provider, configured, global, built, job,
                   tracer>>

Forget(t) ==
    /\ pc[t] = "forget"
    /\ provider' = None
    /\ configured' = FALSE
    /\ Leave(t)
    /\ UNCHANGED <<enabled, global, down, built, tracer, wanted>>

\* The part of reset_tracing_for_tests after shutdown_tracing has returned.
ResetGlobal ==
    /\ pc[Main] = "reset"
    /\ ClearGlobal
    /\ Goto(Main, "idle")
    /\ UNCHANGED <<enabled, lock, provider, configured, built, job, tracer,
                   wanted>>

-------------------------------------------------------------------------------
\* get_tracer, without the lock, and the span

\* The first read of _provider: the no-op tracer if there is none.
TestProvider(u) ==
    /\ pc[u] = "tracer"
    /\ tracer' = [tracer EXCEPT ![u] = None]
    /\ Goto(u, IF provider = None THEN "span" ELSE "read")
    /\ UNCHANGED <<enabled, lock, state, job, wanted>>

\* The second read: without a provider the API falls back on the global one.
ReadProvider(u) ==
    /\ pc[u] = "read"
    /\ tracer' = [tracer EXCEPT ![u] = provider]
    /\ Goto(u, IF provider = None THEN "fallback" ELSE "span")
    /\ UNCHANGED <<enabled, lock, state, job, wanted>>

\* The global provider, or its proxy, which is a no-op as long as none is set.
FallBack(u) ==
    /\ pc[u] = "fallback"
    /\ tracer' = [tracer EXCEPT ![u] = global]
    /\ Goto(u, "span")
    /\ UNCHANGED <<enabled, lock, state, job, wanted>>

\* The span was started, the request is served, and the span ends: it is
\* exported now, if its provider still is up.
EndSpan(u) ==
    /\ pc[u] = "span"
    /\ Goto(u, "idle")
    /\ tracer' = [tracer EXCEPT ![u] = None]
    /\ wanted' = [wanted EXCEPT ![u] = FALSE]
    /\ UNCHANGED <<enabled, lock, state, job>>

-------------------------------------------------------------------------------
Configure(t) ==
    \/ KeepProvider(t) \/ StayDisabled(t) \/ ExporterFails(t)
    \/ RetireProvider(t) \/ PublishProvider(t)
    \/ UninstallGlobal(t) \/ InstallGlobal(t)

Next ==
    \/ \E t \in Threads : Acquire(t) \/ Configure(t) \/ ShutDown(t) \/ Forget(t)
    \/ \E u \in Users : \/ Ensure(u)
                        \/ TestProvider(u) \/ ReadProvider(u) \/ FallBack(u)
                        \/ EndSpan(u)
    \/ MainCalls \/ ResetGlobal \/ ChangeEnvironment

Spec == Init /\ [][Next]_vars

-------------------------------------------------------------------------------
\* Properties

\* The type invariant; _LOCK is held exactly by the thread in its with-block.
Locked == {"configure", "publish", "uninstall", "install", "shutdown", "forget"}
TypeOK ==
    /\ enabled \in BOOLEAN
    /\ \A t \in Threads : lock = t <=> pc[t] \in Locked
    /\ lock \in Threads \cup {None}
    /\ built \in 0..MaxProviders
    /\ {provider, global} \subseteq 1..built \cup {None}
    /\ down \subseteq 1..built
    /\ configured \in BOOLEAN
    /\ pc \in [Threads -> {"idle", "acquire", "reset", "tracer", "read",
                          "fallback", "span"} \cup Locked]
    /\ job \in [Threads -> {"none", "ensure", "configure", "supply", "shutdown",
                           "reset"}]
    /\ tracer \in [Users -> 1..built \cup {None}]
    /\ wanted \in [Users -> BOOLEAN]

\* No exporter leaks and none is published dead: however configurations by the
\* lifespan, by requests and by tests, shutdowns and resets follow each other,
\* whenever _LOCK is free the one provider that is up is the published one, and
\* it is also the global one.
OneProviderUp ==
    lock = None =>
      /\ (1..built) \ down = {provider} \ {None}
      /\ provider # None => global = provider

\* A request that found tracing opted in, whether or not an earlier call had
\* found it disabled, is traced: though get_tracer reads _provider twice without
\* the lock and other requests configure meanwhile, its span is on a provider
\* that is up until it ends, unless the process shuts tracing down or a test
\* supplies another exporter in between.
WantedSpanIsExported ==
    \A u \in Users :
      wanted[u] /\ pc[u] = "span" => tracer[u] # None /\ tracer[u] \notin down
===============================================================================
