----------------------------- MODULE WebService -----------------------------
(***************************************************************************)
(* The web service (server/internal/webservice/webservice.go): Run starts  *)
(* the server that takes reports and the one for metrics, each in a        *)
(* goroutine that ends by cancelling the context of both, and Quit stops   *)
(* them.  The primary server also watches the allow list (ConfigWatch.tla) *)
(* and stops when the watcher ends, which it does when the graceful        *)
(* context is canceled.                                                    *)
(***************************************************************************)
EXTENDS HttpServer

CONSTANTS Callers,     \* goroutines that call Quit
          Forces       \* the values of force they use; Servers is
                       \* {"primary", "metrics"}

VARIABLES run,         \* "idle", "started", "returned"
          ctx, grace,  \* s.ctx and s.gracefulCtx are done
          serve,       \* where servePrimary and serveMetrics are
          failed,      \* the servers that returned an error
          watcher,     \* watchErr: "off", "on", "error", "closed"
          quit, force  \* where each caller of Quit is, and its argument

web == <<http, run, ctx, grace, serve, failed, watcher, quit, force>>
callers == <<quit, force>>

WebTypeOK ==
    /\ HttpTypeOK
    /\ run \in {"idle", "started", "returned"}
    /\ ctx \in BOOLEAN /\ grace \in BOOLEAN /\ (ctx => grace)
    /\ serve \in [Servers -> {"off", "begin", "select", "shutdown", "done"}]
    /\ failed \in SUBSET Servers
    /\ watcher \in {"off", "on", "error", "closed"}
    /\ quit \in [Callers -> {"idle", "asked", "returned"}]
    /\ force \in [Callers -> Forces]

WebInit ==
    /\ HttpInit
    /\ run = "idle"
    /\ ctx = FALSE /\ grace = FALSE
    /\ serve = [s \in Servers |-> "off"]
    /\ failed = {}
    /\ watcher = "off"
    /\ quit = [q \in Callers |-> "idle"]
    /\ force \in [Callers -> Forces]

-----------------------------------------------------------------------------
Goto(s, l) == serve' = [serve EXCEPT ![s] = l]

Start ==
    /\ run = "idle"
    /\ run' = "started"
    /\ serve' = [s \in Servers |-> "begin"]
    /\ UNCHANGED <<http, ctx, grace, failed, watcher, callers>>

\* Mutant of End: the deferred cancel is missing.
EndAlone(s, errors) ==
    /\ Goto(s, "done")
    /\ failed' = failed \cup (IF errors THEN {s} ELSE {})
    /\ UNCHANGED <<ctx, grace>>

\* A server goroutine returns; its deferred call cancels the context.
End(s, errors) ==
    /\ Goto(s, "done")
    /\ failed' = failed \cup (IF errors THEN {s} ELSE {})
    /\ ctx' = TRUE /\ grace' = TRUE

\* servePrimary looks whether it was asked to stop, before it defers anything,
\* and starts the watcher, which may fail; serveMetrics does neither.
Begin(s) ==
    /\ serve[s] = "begin"
    /\ \/ /\ s = "primary" /\ grace
          /\ Goto(s, "done")
          /\ failed' = failed \cup {s}
          /\ UNCHANGED <<ctx, grace, watcher>>
       \/ /\ s = "primary" /\ ~grace
          /\ End(s, TRUE)
          /\ UNCHANGED watcher
       \/ /\ s = "primary" => ~grace
          /\ Goto(s, "select")
          /\ watcher' = IF s = "primary" THEN "on" ELSE watcher
          /\ UNCHANGED <<ctx, grace, failed>>
    /\ UNCHANGED <<http, run, callers>>

\* The watcher reports an error, or ends with the context it was given.
Watch ==
    /\ watcher = "on"
    /\ \/ watcher' = "error"
       \/ grace /\ watcher' = "closed"
    /\ UNCHANGED <<http, run, ctx, grace, serve, failed, callers>>

\* The select of a server goroutine, one action per case.
SelectGrace(s) ==
    /\ serve[s] = "select"
    /\ grace
    /\ Shutdown(s)
    /\ Goto(s, "shutdown")
    /\ UNCHANGED <<run, ctx, grace, failed, watcher, callers>>

\* Mutant of SelectServer: the error of the server is dropped.
SelectServerSilent(s) ==
    /\ serve[s] = "select"
    /\ ServeEnded(s)
    /\ End(s, FALSE)
    /\ UNCHANGED <<http, run, watcher, callers>>

SelectServer(s) ==
    /\ serve[s] = "select"
    /\ ServeEnded(s)
    /\ End(s, listener[s] = "failed")
    /\ UNCHANGED <<http, run, watcher, callers>>

\* The watcher has ended, for whatever reason: the server is closed.
SelectWatch ==
    /\ serve["primary"] = "select"
    /\ watcher \in {"error", "closed"}
    /\ Close({"primary"})
    /\ End("primary", watcher = "error")
    /\ UNCHANGED <<run, watcher, callers>>

\* Shutdown returns: no request is left, or its context is done.
ShutdownEnds(s) ==
    /\ serve[s] = "shutdown"
    /\ \/ busy[s] = 0 /\ End(s, FALSE)
       \/ busy[s] > 0 /\ ctx /\ End(s, TRUE)
    /\ UNCHANGED <<http, run, watcher, callers>>

\* Run has the results of both; the process ends, and requests with it.
Return ==
    /\ run = "started"
    /\ \A s \in Servers : serve[s] = "done"
    /\ run' = "returned"
    /\ cut' = cut \cup {s \in Servers : busy[s] > 0}
    /\ UNCHANGED <<listener, busy, ctx, grace, serve, failed, watcher, callers>>

-----------------------------------------------------------------------------
\* Quit, graceful or forced ...
Ask(q) ==
    /\ quit[q] = "idle"
    /\ quit' = [quit EXCEPT ![q] = "asked"]
    /\ grace' = (grace \/ ~force[q])
    /\ IF force[q] THEN Close(Servers) ELSE UNCHANGED http
    /\ UNCHANGED <<run, ctx, serve, failed, watcher, force>>

\* Mutant of QuitCancels: the child context is left as it is.
QuitCancelsParent(q) ==
    /\ quit[q] = "asked"
    /\ quit' = [quit EXCEPT ![q] = "returned"]
    /\ ctx' = TRUE
    /\ UNCHANGED <<http, run, grace, serve, failed, watcher, force>>

\* ... ends in both cases by cancelling the parent context.
QuitCancels(q) ==
    /\ quit[q] = "asked"
    /\ quit' = [quit EXCEPT ![q] = "returned"]
    /\ ctx' = TRUE /\ grace' = TRUE
    /\ UNCHANGED <<http, run, serve, failed, watcher, force>>

Http(s) ==
    /\ run # "returned"
    /\ \/ serve[s] \in {"select", "shutdown"} /\ (Listen(s) \/ ServeFails(s))
       \/ Request(s)
       \/ Respond(s)
    /\ UNCHANGED <<run, ctx, grace, serve, failed, watcher, callers>>

Server(s) == Begin(s) \/ SelectGrace(s) \/ SelectServer(s) \/ ShutdownEnds(s)
Quit(q) == Ask(q) \/ QuitCancels(q)

WebNext ==
    \/ Start \/ Watch \/ SelectWatch \/ Return
    \/ \E s \in Servers : Server(s) \/ Http(s)
    \/ \E q \in Callers : Quit(q)

\* Goroutines make progress; requests may hang.
WebSpec ==
    /\ WebInit
    /\ [][WebNext]_web
    /\ WF_web(Start)
    /\ WF_web(SelectWatch)
    /\ WF_web(Return)
    /\ \A s \in Servers : WF_web(Server(s))
    /\ \A q \in Callers : WF_web(QuitCancels(q))

-----------------------------------------------------------------------------
\* When Run has returned, neither server accepts requests any more, whichever
\* of the watcher, the servers and Quit came first, and it returned an error
\* unless somebody called Quit (webservice.go:162-173).
ReturnsClosed ==
    run = "returned" =>
        /\ \A s \in Servers : listener[s] # "listening"
        /\ failed = {} => \E q \in Callers : quit[q] # "idle"

\* One server that ends makes Run return, and so does Quit, although requests
\* may never finish (webservice.go:162, 214, 276).
OneEndsAll ==
    /\ (\E s \in Servers : serve[s] = "done") ~> (run = "returned")
    /\ \A q \in Callers :
         (quit[q] = "asked") ~> (run = "returned")

\* A Quit that is not forced lets the reports that are being received finish,
\* as long as nothing fails (webservice.go:275).
GracefulQuit ==
    /\ \A q \in Callers : ~force[q]
    /\ watcher # "error"
    /\ \A s \in Servers : listener[s] # "failed"
    => "primary" \notin cut

=============================================================================
