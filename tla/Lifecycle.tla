------------------------------ MODULE Lifecycle ------------------------------
(***************************************************************************)
(* Start and stop of the process: mainContext loads the configuration       *)
(* (module Config), builds the notification backends, opens the store and   *)
(* runs the web server and, when there is a backend, the worker under       *)
(* application.Run; a signal or the end of either component stops the       *)
(* other; the store is closed by a deferred call when Run has returned.     *)
(*                                                                          *)
(* Handlers and the worker's claim and record steps use the store.  A       *)
(* handler may take as long as it likes; server.Shutdown waits for it up to *)
(* shutdownTimeout, server.Close then drops its connection.                 *)
(***************************************************************************)
EXTENDS Config

CONSTANT Handlers   \* connections the server may serve at once

VARIABLES main,       \* where mainContext stands
          selection,  \* the providers, and what their sources said
          sources,
          config,     \* the configuration, while main needs it
          backends,   \* notification backends that were built
          store,      \* the database handle
          signal,     \* SIGINT or SIGTERM has arrived: the parent context is done
          cancelled,  \* Run has cancelled runCtx
          running,    \* components Run has not heard from
          results,    \* the results channel: components whose Run has returned
          web,        \* where Runner.Run stands
          serve,      \* the goroutine in server.Serve
          serverErr,  \* the error that Runner.Run has returned
          active,     \* handlers that are running
          worker,     \* where Worker.Run stands
          failed,     \* what has gone wrong
          reported    \* what the returned error contains

settings == <<selection, sources, config, backends>>
vars == <<main, settings, store, signal, cancelled, running, results, web, serve, serverErr,
          active, worker, failed, reported>>

HasNotifier == backends > 0

Components == IF HasNotifier THEN {"web", "worker"} ELSE {"web"}

Init ==
    /\ main = "loading"
    /\ selection = <<>> /\ sources = <<>> /\ config = EmptyConfig /\ backends = 0
    /\ store = "none"
    /\ signal = FALSE
    /\ cancelled = FALSE
    /\ running = {}
    /\ results = {}
    /\ web = "absent"
    /\ serve = "absent"
    /\ serverErr = {}
    /\ active = {}
    /\ worker = "absent"
    /\ failed = {}
    /\ reported = {}

\* runCtx is derived from the signal context.
Done == signal \/ cancelled

\* Before NotifyContext a signal ends the process at once, with nothing open.
Signal ==
    /\ ~signal
    /\ main \notin {"loading", "configured"}
    /\ signal' = TRUE
    /\ UNCHANGED <<main, settings, store, cancelled, running, results, web, serve,
                   serverErr, active, worker, failed, reported>>

-----------------------------------------------------------------------------
(* mainContext *)

StartupFails(steps) ==
    /\ main' = "exited"
    /\ failed' = steps
    /\ reported' = steps
    /\ selection' = <<>> /\ sources' = <<>> /\ config' = EmptyConfig /\ backends' = 0
    /\ UNCHANGED <<signal, cancelled, running, results, web, serve, serverErr, active,
                   worker>>

StartupGoesOn(stage) ==
    /\ main' = stage
    /\ UNCHANGED <<signal, cancelled, running, results, web, serve, serverErr, active,
                   worker, failed, reported>>

\* Flags or the list of providers are wrong, or a file cannot be read.
ConfigUnreadable == main = "loading" /\ StartupFails({"config"}) /\ UNCHANGED store

LoadConfig ==
    /\ main = "loading"
    /\ \E chosen \in Selections : \E found \in AllSources(chosen) :
           IF LoadError(chosen, found)
             THEN StartupFails({"config"})
             ELSE /\ selection' = chosen /\ sources' = found
                  /\ config' = Applied(chosen, found)
                  /\ UNCHANGED backends
                  /\ StartupGoesOn("configured")
    /\ UNCHANGED store

\* Every configured backend is built, or none: one that is incomplete fails
\* the start.  No backend at all is no notifier.
buildNotifier(smtp) ==
    [ok |-> \A n \in DOMAIN smtp : smtp[n].host # Unset, built |-> Len(smtp)]

BuildNotifier ==
    /\ main = "configured"
    /\ \/ /\ ~buildNotifier(config.smtp).ok
          /\ StartupFails({"notifier"})
       \/ /\ buildNotifier(config.smtp).ok
          /\ backends' = buildNotifier(config.smtp).built
          /\ selection' = <<>> /\ sources' = <<>>
          /\ UNCHANGED config
          /\ StartupGoesOn("opening")
    /\ UNCHANGED store

OpenStoreFails ==
    /\ main = "opening"
    /\ StartupFails({"open"})
    /\ UNCHANGED store

\* The settings modelled here have been used.
OpenStore ==
    /\ main = "opening"
    /\ store' = "open"
    /\ config' = EmptyConfig
    /\ UNCHANGED <<selection, sources, backends>>
    /\ StartupGoesOn("composing")

\* The deferred Close runs on this path too, and may fail as well.
NewRunnerFails ==
    /\ main = "composing"
    /\ \E what \in {{}, {"close"}} : StartupFails({"compose"} \cup what)
    /\ store' = "closed"

Launch ==
    /\ main = "composing"
    /\ main' = "running"
    /\ running' = Components
    /\ web' = "starting"
    /\ worker' = IF HasNotifier THEN "checking" ELSE "absent"
    /\ UNCHANGED <<settings, store, signal, cancelled, results, serve, serverErr, active,
                   failed, reported>>

\* Mutant: the first result does not stop the others.
CollectAndWait(c) ==
    /\ main = "running"
    /\ c \in results
    /\ results' = results \ {c}
    /\ running' = running \ {c}
    /\ reported' = IF c = "web" THEN serverErr ELSE reported
    /\ UNCHANGED <<main, settings, store, signal, cancelled, web, serve, serverErr, active,
                   worker, failed>>

\* Mutant: Run keeps the error of the first component only.
CollectFirst(c) ==
    /\ main = "running"
    /\ c \in results
    /\ results' = results \ {c}
    /\ running' = running \ {c}
    /\ cancelled' = TRUE
    /\ reported' = IF running = Components /\ c = "web" THEN serverErr ELSE reported
    /\ UNCHANGED <<main, settings, store, signal, web, serve, serverErr, active, worker,
                   failed>>

\* Run takes one result and cancels everybody.  Only the server can fail.
Collect(c) ==
    /\ main = "running"
    /\ c \in results
    /\ results' = results \ {c}
    /\ running' = running \ {c}
    /\ cancelled' = TRUE
    /\ reported' = IF c = "web" THEN serverErr ELSE reported
    /\ UNCHANGED <<main, settings, store, signal, web, serve, serverErr, active, worker,
                   failed>>

\* The loop of Run notices the signal.
ShutdownRequested ==
    /\ main = "running"
    /\ signal /\ ~cancelled
    /\ cancelled' = TRUE
    /\ UNCHANGED <<main, settings, store, signal, running, results, web, serve, serverErr,
                   active, worker, failed, reported>>

\* Mutant: Run returns as soon as one component has.
CollectedOne == main = "running" /\ cancelled /\ running # Components

CollectedAll == main = "running" /\ running = {}

\* Run returns and the deferred Close runs; an error of Close is joined.
CloseStore ==
    /\ CollectedAll
    /\ main' = "exited"
    /\ store' = "closed"
    /\ \E what \in {{}, {"close"}} :
           /\ failed' = failed \cup what
           /\ reported' = reported \cup what
    /\ UNCHANGED <<settings, signal, cancelled, running, results, web, serve, serverErr,
                   active, worker>>

-----------------------------------------------------------------------------
(* Runner.Run and serveWithContext *)

ListenFails ==
    /\ web = "starting"
    /\ web' = "returned"
    /\ results' = results \cup {"web"}
    /\ serverErr' = {"listen"}
    /\ failed' = failed \cup {"listen"}
    /\ UNCHANGED <<main, settings, store, signal, cancelled, running, serve, active, worker,
                   reported>>

Listen ==
    /\ web = "starting"
    /\ web' = "serving"
    /\ serve' = "accepting"
    /\ UNCHANGED <<main, settings, store, signal, cancelled, running, results, serverErr,
                   active, worker, failed, reported>>

Accept(h) ==
    /\ serve = "accepting"
    /\ active' = active \cup {h}
    /\ h \notin active
    /\ UNCHANGED <<main, settings, store, signal, cancelled, running, results, web, serve,
                   serverErr, worker, failed, reported>>

HandlerReturns(h) ==
    /\ h \in active
    /\ active' = active \ {h}
    /\ UNCHANGED <<main, settings, store, signal, cancelled, running, results, web, serve,
                   serverErr, worker, failed, reported>>

\* The listener fails; Serve returns the error.
ServeFails ==
    /\ serve = "accepting"
    /\ serve' = "failed"
    /\ failed' = failed \cup {"serve"}
    /\ UNCHANGED <<main, settings, store, signal, cancelled, running, results, web,
                   serverErr, active, worker, reported>>

\* Either way serving ends, Shutdown closes the listener first.
BeginShutdown ==
    /\ web = "serving"
    /\ serve = "failed" \/ Done
    /\ web' = "draining"
    /\ serve' = IF serve = "accepting" THEN "closed" ELSE serve
    /\ UNCHANGED <<main, settings, store, signal, cancelled, running, results, serverErr,
                   active, worker, failed, reported>>

\* Mutant: an error of Serve hides that of Shutdown.
ServeErrorOnly(shutdownErr) == IF serve = "failed" THEN {"serve"} ELSE shutdownErr

\* The error of Serve, unless it is ErrServerClosed, and that of Shutdown.
JoinedError(shutdownErr) == (IF serve = "failed" THEN {"serve"} ELSE {}) \cup shutdownErr

Return(shutdownErr) ==
    /\ web = "draining"
    /\ web' = "returned"
    /\ results' = results \cup {"web"}
    /\ serverErr' = JoinedError(shutdownErr)
    /\ failed' = failed \cup shutdownErr
    /\ UNCHANGED <<main, settings, store, signal, cancelled, running, serve, active, worker,
                   reported>>

ShutdownCompletes == active = {} /\ Return({})

\* shutdownTimeout is over: Close drops the connections of the handlers left.
ShutdownTimesOut == active # {} /\ Return({"drain"})

-----------------------------------------------------------------------------
(* Worker.Run *)

WorkerGoes(from, to) ==
    /\ worker = from
    /\ worker' = to
    /\ UNCHANGED <<main, settings, store, signal, cancelled, running, results, web, serve,
                   serverErr, active, failed, reported>>

WorkerReturns ==
    /\ Done
    /\ worker \in {"checking", "waiting"}
    /\ worker' = "returned"
    /\ results' = results \cup {"worker"}
    /\ UNCHANGED <<main, settings, store, signal, cancelled, running, web, serve, serverErr,
                   active, failed, reported>>

\* A claim under a cancelled context fails, or was already made.
StartClaim  == ~Done /\ WorkerGoes("checking", "claiming")
ClaimNothing == WorkerGoes("claiming", "waiting")
ClaimRow    == WorkerGoes("claiming", "notifying")
NotifyEnds  == WorkerGoes("notifying", "recording")
\* The result is recorded under a context of its own.
RecordEnds  == WorkerGoes("recording", "checking")
TimerFires  == WorkerGoes("waiting", "checking")

Next ==
    \/ Signal
    \/ ConfigUnreadable
    \/ LoadConfig
    \/ BuildNotifier
    \/ OpenStoreFails \/ OpenStore \/ NewRunnerFails \/ Launch
    \/ \E c \in {"web", "worker"} : Collect(c)
    \/ ShutdownRequested \/ CloseStore
    \/ ListenFails \/ Listen \/ ServeFails \/ BeginShutdown
    \/ ShutdownCompletes \/ ShutdownTimesOut
    \/ \E h \in Handlers : Accept(h) \/ HandlerReturns(h)
    \/ WorkerReturns \/ StartClaim \/ ClaimNothing \/ ClaimRow \/ NotifyEnds
    \/ RecordEnds \/ TimerFires

\* Goroutines run; opening the store, a claim, an attempt and its record are
\* bounded by timeouts or end with the context; Shutdown ends by its timeout.
\* Handlers and the signal are owed nothing.
Fairness ==
    /\ WF_vars(OpenStoreFails \/ OpenStore) /\ WF_vars(NewRunnerFails \/ Launch)
    /\ WF_vars(Collect("web")) /\ WF_vars(Collect("worker"))
    /\ WF_vars(CloseStore)
    /\ WF_vars(ListenFails \/ Listen) /\ WF_vars(BeginShutdown)
    /\ WF_vars(ShutdownCompletes \/ ShutdownTimesOut)
    /\ WF_vars(ClaimNothing \/ ClaimRow) /\ WF_vars(NotifyEnds) /\ WF_vars(RecordEnds)
    /\ WF_vars(WorkerReturns)

Spec == Init /\ [][Next]_vars /\ Fairness

-----------------------------------------------------------------------------
(* Properties *)

\* Every setting has the value of the last provider that supplies it, field by
\* field for the first server, whatever the providers, their order and what
\* each leaves out ("Later providers override values supplied by earlier
\* providers", load.go 16-17; README.md 85).  A process that then starts sends
\* to every backend so configured: none is dropped because it, or another
\* one, is incomplete (main.go 175-209).
RunsAsConfigured ==
    /\ main = "configured" => config = Promised(selection, sources)
    /\ main = "opening" =>
           /\ backends = Len(config.smtp)
           /\ \A n \in DOMAIN config.smtp : config.smtp[n].host # Unset

\* "active handlers get the same bounded opportunity to finish before
\* application resources close" (server.go 155-157): when the store is closed
\* no worker step is using it, and a handler is only if it overran the
\* shutdown timeout.
StoreOutlivesItsUsers ==
    store = "closed" =>
        /\ worker \in {"absent", "returned"}
        /\ active # {} => "drain" \in failed

\* The process exits with an error exactly when something failed, and the
\* error names every failure, also those that happen while it is shutting
\* down for another reason (lifecycle.go 37-39, server.go 179-189).
ExitReportsFailures == main = "exited" => reported = failed

\* A signal, or the end of either component, stops the whole process.
StopsTogether ==
    (signal \/ web = "returned" \/ worker = "returned") ~> main = "exited"
=============================================================================
