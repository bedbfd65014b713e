------------------------------- MODULE Daemon -------------------------------
(***************************************************************************)
(* The process around either service (server/cmd/*/main.go and             *)
(* .../daemon/daemon.go): main runs the command, a goroutine receives the  *)
(* signals and calls Quit, and Quit first waits on the channel `ready`,    *)
(* which run closes once the service exists or cannot be made.             *)
(*                                                                         *)
(* The service itself is the object of IngestService and WebService; here  *)
(* it runs until it fails or has been asked to stop.                       *)
(***************************************************************************)
EXTENDS Naturals, Sequences

CONSTANTS Commands,    \* what the command line may ask for: "serve", "migrate",
                       \* "version", or "error", which ends before anything runs
          Kinds,       \* "ingest", "web": only the Quit of ingest waits for Run
          SignalKinds, \* "term" for SIGINT and SIGTERM, "hup" for SIGHUP
          MaxSignals   \* bound: signals sent to the process

VARIABLES main,      \* the main goroutine
          kind, cmd, \* the service and the command it was started with
          ready,     \* a.ready is closed
          service,   \* "none", "made", "running", "returned"
          asked,     \* the graceful context of the service is canceled
          handler,   \* the goroutine of installSignalHandler
          signals,   \* the channel c, with room for one signal
          closed,    \* c is closed
          sent,      \* bound on the signals
          termSent   \* history: SIGINT or SIGTERM was sent in time

given == <<kind, cmd>>
sending == <<sent, termSent>>
daemon == <<main, given, ready, service, asked, handler, signals, closed, sending>>

DaemonTypeOK ==
    /\ main \in {"execute", "setup", "start", "serving", "migrating", "stop",
                 "wait", "exited"}
    /\ kind \in Kinds
    /\ cmd \in Commands
    /\ ready \in BOOLEAN
    /\ service \in {"none", "made", "running", "returned"}
    /\ asked \in BOOLEAN
    /\ handler \in {"receive", "waitReady", "quit", "waitRun", "ended"}
    /\ signals \in Seq(SignalKinds) /\ Len(signals) <= 1
    /\ closed \in BOOLEAN
    /\ sent \in 0 .. MaxSignals
    /\ termSent \in BOOLEAN

DaemonInit ==
    /\ main = "execute"
    /\ kind \in Kinds
    /\ cmd \in Commands
    /\ cmd = "migrate" => kind = "ingest"
    /\ ready = FALSE
    /\ service = "none"
    /\ asked = FALSE
    /\ handler = "receive"
    /\ signals = <<>>
    /\ closed = FALSE
    /\ sent = 0
    /\ termSent = FALSE

-----------------------------------------------------------------------------
\* cobra runs the command: the service, the migration, or something that ends
\* at once (the version, a usage error, a configuration that does not load, an
\* allow list path that cannot be made absolute).
Execute ==
    /\ main = "execute"
    /\ main' = CASE cmd = "serve" -> "setup"
                 [] cmd = "migrate" -> "migrating"
                 [] OTHER -> "stop"
    /\ UNCHANGED <<given, ready, service, asked, handler, signals, closed, sending>>

\* migrateRun ends, with or without an error.
Migrated ==
    /\ main = "migrating"
    /\ main' = "stop"
    /\ UNCHANGED <<given, ready, service, asked, handler, signals, closed, sending>>

\* Mutant of SetupFails: ready stays open on the error paths.
SetupFailsUnready ==
    /\ main = "setup"
    /\ main' = "stop"
    /\ UNCHANGED <<given, ready, service, asked, handler, signals, closed, sending>>

\* run cannot make the service (database, processor, workers, configuration).
SetupFails ==
    /\ main = "setup"
    /\ main' = "stop"
    /\ ready' = TRUE
    /\ UNCHANGED <<given, service, asked, handler, signals, closed, sending>>

\* run has made the service and closes ready.
Setup ==
    /\ main = "setup"
    /\ main' = "start"
    /\ service' = "made"
    /\ ready' = TRUE
    /\ UNCHANGED <<given, asked, handler, signals, closed, sending>>

\* The service's Run begins; it returns at once when it was already asked to.
Start ==
    /\ main = "start"
    /\ IF asked
         THEN main' = "stop" /\ service' = "returned"
         ELSE main' = "serving" /\ service' = "running"
    /\ UNCHANGED <<given, ready, asked, handler, signals, closed, sending>>

\* Run returns, because it was asked to or because of an error.
ServiceReturns ==
    /\ main = "serving"
    /\ main' = "stop"
    /\ service' = "returned"
    /\ UNCHANGED <<given, ready, asked, handler, signals, closed, sending>>

\* Mutant of StopSignals: the channel is not closed.
StopSignalsOpen ==
    /\ main = "stop"
    /\ main' = "wait"
    /\ UNCHANGED <<given, ready, service, asked, handler, signals, closed, sending>>

\* The deferred function: signal.Stop, close(c), and then the wait for the
\* handler.  A signal the channel holds can still be received from it.
StopSignals ==
    /\ main = "stop"
    /\ main' = "wait"
    /\ closed' = TRUE
    /\ UNCHANGED <<given, ready, service, asked, handler, signals, sending>>

Exit ==
    /\ main = "wait"
    /\ handler = "ended"
    /\ main' = "exited"
    /\ UNCHANGED <<given, ready, service, asked, handler, signals, closed, sending>>

-----------------------------------------------------------------------------
\* Mutant of Signal: the channel takes every signal.
SignalQueues ==
    /\ sent < MaxSignals
    /\ ~closed
    /\ sent' = sent + 1
    /\ \E s \in SignalKinds :
         /\ termSent' = (termSent \/ s = "term")
         /\ signals' = Append(signals, s)
    /\ UNCHANGED <<main, given, ready, service, asked, handler, closed>>

\* A signal is sent to the process; the runtime drops it when c is full.
Signal ==
    /\ sent < MaxSignals
    /\ ~closed
    /\ sent' = sent + 1
    /\ \E s \in SignalKinds :
         /\ termSent' = (termSent \/ s = "term")
         /\ signals' = IF signals = <<>> THEN <<s>> ELSE signals
    /\ UNCHANGED <<main, given, ready, service, asked, handler, closed>>

\* The handler receives: a signal, or the end of the channel.
Receive ==
    /\ handler = "receive"
    /\ \/ /\ signals = <<"term">>
          /\ handler' = "waitReady"
          /\ signals' = <<>>
       \/ /\ signals = <<"hup">>   \* Hup prints the stacks and returns false
          /\ signals' = <<>>
          /\ UNCHANGED handler
       \/ /\ signals = <<>> /\ closed
          /\ handler' = "ended"
          /\ UNCHANGED signals
    /\ UNCHANGED <<main, given, ready, service, asked, closed, sending>>

\* App.Quit waits for ready ...
WaitReady ==
    /\ handler = "waitReady"
    /\ ready
    /\ handler' = "quit"
    /\ UNCHANGED <<main, given, ready, service, asked, signals, closed, sending>>

\* ... and asks the service to stop, if there is one.
Quit ==
    /\ handler = "quit"
    /\ asked' = (asked \/ service # "none")
    /\ handler' = IF service # "none" /\ kind = "ingest" THEN "waitRun" ELSE "ended"
    /\ UNCHANGED <<main, given, ready, service, signals, closed, sending>>

\* The Quit of the ingest service waits on its running channel, which is
\* closed as long as Run has not begun and again when it has returned.
QuitReturns ==
    /\ handler = "waitRun"
    /\ service # "running"
    /\ handler' = "ended"
    /\ UNCHANGED <<main, given, ready, service, asked, signals, closed, sending>>

Main ==
    Execute \/ Migrated \/ SetupFails \/ Setup \/ Start \/ StopSignals \/ Exit
Handler == Receive \/ WaitReady \/ Quit \/ QuitReturns

DaemonNext == Main \/ ServiceReturns \/ Handler \/ Signal

\* Goroutines make progress; a service that was asked to stop does so.
DaemonSpec ==
    /\ DaemonInit
    /\ [][DaemonNext]_daemon
    /\ WF_daemon(Main)
    /\ WF_daemon(Handler)
    /\ WF_daemon(ServiceReturns /\ asked)

-----------------------------------------------------------------------------
\* A server that has received SIGINT or SIGTERM comes to an end, also when the
\* signal arrives before the service exists, between its creation and its Run,
\* or while Run returns by itself (main.go:45-76, daemon.go:151).
ReceivedTermExits == (handler = "waitReady" /\ cmd = "serve") ~> (main = "exited")

\* The same from the moment the signal is sent (main_test.go:101).
SentTermExits == termSent ~> (main = "exited")

\* Whatever ends the command ends the process: the deferred wait for the signal
\* goroutine does not keep it alive (main.go:71-75), unless a command that has
\* no service was sent SIGINT or SIGTERM, whose handler waits for `ready`.
CommandEndExits ==
    (main = "stop") ~> (main = "exited" \/ (cmd # "serve" /\ termSent))

=============================================================================
