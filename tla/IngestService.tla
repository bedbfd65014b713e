--------------------------- MODULE IngestService ---------------------------
(***************************************************************************)
(* The ingest service (server/internal/ingest/ingest.go): Run starts the   *)
(* worker pool and the metrics server, either of which ends the other, and *)
(* waits for both, the second no longer than maxDegradedDuration.  Quit    *)
(* may be called from another goroutine at any moment.                     *)
(*                                                                         *)
(* The worker pool returns as WorkerPool.tla has it: after a cancellation  *)
(* with the error of the context or with that of a closed channel, and at  *)
(* any time with an error of its own.                                      *)
(***************************************************************************)
EXTENDS HttpServer, FiniteSets

CONSTANTS Callers,     \* goroutines that call Quit
          Forces       \* the values of force they use; Servers is {"metrics"}

VARIABLES run,         \* "idle", "checked", "started", "waiting", "returned"
          running,     \* the channel s.running refers to: the one New closed,
                       \* or the one of Run, open or closed
          ctx, grace,  \* s.ctx and s.gracefulCtx are done
          sub,         \* where runWorkers and runMetrics are
          failed,      \* the sub-services that returned an error
          got,         \* the sub-services whose result Run has received
          result,      \* what Run returns: a set of errors
          quit, force  \* where each caller of Quit is, and its argument

ingest == <<http, run, running, ctx, grace, sub, failed, got, result, quit, force>>
service == <<run, running, sub, failed, got, result>>
callers == <<quit, force>>

Subs == {"workers", "metrics"}
Done == {x \in Subs : sub[x] = "done"}

IngestTypeOK ==
    /\ HttpTypeOK
    /\ run \in {"idle", "checked", "started", "waiting", "returned"}
    /\ running \in {"initial", "open", "closed"}
    /\ ctx \in BOOLEAN /\ grace \in BOOLEAN /\ (ctx => grace)
    /\ sub \in [Subs -> {"off", "running", "shutdown", "done"}]
    /\ failed \in SUBSET Done
    /\ got \in SUBSET Done
    /\ result \in SUBSET (Subs \cup {"canceled", "teardownTimeout"})
    /\ quit \in [Callers -> {"idle", "asked", "wait", "returned"}]
    /\ force \in [Callers -> Forces]

IngestInit ==
    /\ HttpInit
    /\ run = "idle"
    /\ running = "initial"
    /\ ctx = FALSE /\ grace = FALSE
    /\ sub = [x \in Subs |-> "off"]
    /\ failed = {} /\ got = {} /\ result = {}
    /\ quit = [q \in Callers |-> "idle"]
    /\ force \in [Callers -> Forces]

-----------------------------------------------------------------------------
\* Run looks whether it was already asked to stop.
Check ==
    /\ run = "idle"
    /\ IF grace
         THEN run' = "returned" /\ result' = {"canceled"}
         ELSE run' = "checked" /\ UNCHANGED result
    /\ UNCHANGED <<http, running, ctx, grace, sub, failed, got, callers>>

\* It replaces the channel and starts the goroutines.
StartSubs ==
    /\ run = "checked"
    /\ run' = "started"
    /\ running' = "open"
    /\ sub' = [x \in Subs |-> "running"]
    /\ UNCHANGED <<http, ctx, grace, failed, got, result, callers>>

\* A sub-service ends; its deferred call asks the other to stop.
End(x, errors) ==
    /\ sub' = [sub EXCEPT ![x] = "done"]
    /\ failed' = failed \cup (IF errors THEN {x} ELSE {})
    /\ grace' = TRUE
    /\ UNCHANGED <<run, running, ctx, got, result, callers>>

\* runWorkers: the error of a canceled context counts as none.
WorkersEnd ==
    /\ sub["workers"] = "running"
    /\ \/ grace /\ End("workers", FALSE)
       \/ End("workers", TRUE)
    /\ UNCHANGED http

\* runMetrics: the select, one disjunct per case, and Shutdown after it.
MetricsEnd ==
    \/ /\ sub["metrics"] = "running" /\ ctx
       /\ Close({"metrics"})
       /\ End("metrics", FALSE)
    \/ /\ sub["metrics"] = "running" /\ ServeEnded("metrics")
       /\ End("metrics", listener["metrics"] = "failed")
       /\ UNCHANGED http
    \/ /\ sub["metrics"] = "shutdown"
       /\ \/ busy["metrics"] = 0 /\ End("metrics", FALSE)
          \/ busy["metrics"] > 0 /\ ctx /\ End("metrics", TRUE)
       /\ UNCHANGED http

MetricsShutdown ==
    /\ sub["metrics"] = "running"
    /\ grace
    /\ Shutdown("metrics")
    /\ sub' = [sub EXCEPT !["metrics"] = "shutdown"]
    /\ UNCHANGED <<run, running, ctx, grace, failed, got, result, callers>>

\* Run receives the first result.
First ==
    /\ run = "started"
    /\ \E x \in Done :
         /\ got' = {x}
         /\ result' = failed \cap {x}
    /\ run' = "waiting"
    /\ UNCHANGED <<http, running, ctx, grace, sub, failed, callers>>

\* The deferred calls of Run cancel the context and close the channel.
Return(errors) ==
    /\ run' = "returned"
    /\ result' = errors
    /\ ctx' = TRUE /\ grace' = TRUE
    /\ running' = "closed"

\* Mutant of Second: the second error replaces nothing and is dropped.
SecondDropped ==
    /\ run = "waiting"
    /\ \E x \in Done \ got :
         /\ got' = got \cup {x}
         /\ Return(result)
    /\ UNCHANGED <<http, sub, failed, callers>>

\* It receives the second one, and joins the errors ...
Second ==
    /\ run = "waiting"
    /\ \E x \in Done \ got :
         /\ got' = got \cup {x}
         /\ Return(result \cup (failed \cap {x}))
    /\ UNCHANGED <<http, sub, failed, callers>>

\* Mutant of TeardownTimeout: the second result is waited for without a limit.
TeardownNever ==
    /\ run = "waiting"
    /\ Done = Subs
    /\ Return(result \cup {"teardownTimeout"})
    /\ UNCHANGED <<http, sub, failed, got, callers>>

\* ... or gives up on it.
TeardownTimeout ==
    /\ run = "waiting"
    /\ Return(result \cup {"teardownTimeout"})
    /\ UNCHANGED <<http, sub, failed, got, callers>>

-----------------------------------------------------------------------------
\* Mutant of Ask: a forced Quit leaves the graceful context as it is.
AskForceOnly(q) ==
    /\ quit[q] = "idle"
    /\ quit' = [quit EXCEPT ![q] = "asked"]
    /\ grace' = (grace \/ ~force[q])
    /\ ctx' = (ctx \/ force[q])
    /\ UNCHANGED <<http, service, force>>

\* Quit cancels one of the contexts; forced, it also closes the server.
Ask(q) ==
    /\ quit[q] = "idle"
    /\ quit' = [quit EXCEPT ![q] = "asked"]
    /\ grace' = TRUE
    /\ ctx' = (ctx \/ force[q])
    /\ UNCHANGED <<http, service, force>>

\* It then receives from s.running.  Run assigns that field without any
\* synchronisation, so that the channel New closed may still be what is read.
ReadRunning(q) ==
    /\ quit[q] = "asked"
    /\ IF force[q] THEN Close({"metrics"}) ELSE UNCHANGED http
    /\ \E c \in {running, "initial"} :
         quit' = [quit EXCEPT ![q] = IF c = "initial" THEN "returned" ELSE "wait"]
    /\ UNCHANGED <<service, ctx, grace, force>>

QuitReturns(q) ==
    /\ quit[q] = "wait"
    /\ running = "closed"
    /\ quit' = [quit EXCEPT ![q] = "returned"]
    /\ UNCHANGED <<http, service, ctx, grace, force>>

Http ==
    /\ sub["metrics"] # "off"
    /\ Listen("metrics") \/ ServeFails("metrics") \/ Request("metrics")
       \/ Respond("metrics")
    /\ UNCHANGED <<service, ctx, grace, callers>>

Run ==
    Check \/ StartSubs \/ First \/ Second \/ TeardownTimeout
Quit(q) == Ask(q) \/ ReadRunning(q) \/ QuitReturns(q)

IngestNext ==
    \/ Run \/ WorkersEnd \/ MetricsEnd \/ MetricsShutdown \/ Http
    \/ \E q \in Callers : Quit(q)

\* The pool ends once it is asked to (StopsWhenCanceled of WorkerPool) and the
\* goroutines make progress.  A request to the metrics server may hang.
IngestSpec ==
    /\ IngestInit
    /\ [][IngestNext]_ingest
    /\ WF_ingest(Run)
    /\ WF_ingest(WorkersEnd /\ grace)
    /\ WF_ingest(MetricsEnd)
    /\ WF_ingest(MetricsShutdown)
    /\ \A q \in Callers : WF_ingest(ReadRunning(q) \/ QuitReturns(q))

-----------------------------------------------------------------------------
\* Run returns only when both sub-services have ended, unless it was never
\* started or reports that it gave up, and an error of either is part of what
\* it returns (ingest.go:89, 111-122).
ReturnsWithAllResults ==
    run = "returned" /\ running = "closed" /\ "teardownTimeout" \notin result
        => Done = Subs /\ failed \subseteq result

\* The end of one sub-service, and any Quit, ends Run, although requests to
\* the metrics server may never finish (ingest.go:111-120, 170).
ComesToAnEnd ==
    /\ (Done # {}) ~> (run = "returned")
    /\ \A q \in Callers : (quit[q] = "asked") ~> (quit[q] = "returned")

\* Quit does not return while the service is running (ingest.go:169).
QuitWaits ==
    \A q \in Callers :
       quit[q] = "returned" => run \in {"idle", "returned"}

=============================================================================
