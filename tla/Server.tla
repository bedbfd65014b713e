------------------------------- MODULE Server -------------------------------
(***************************************************************************)
(* The parts of the server that have no variable in common: the process,   *)
(* the two services, the processor and the migration.  A behaviour is a    *)
(* behaviour of one of them, while the others stay in an initial state, so *)
(* that the space of the whole is the sum of theirs and not the product.   *)
(***************************************************************************)
EXTENDS Processor

CONSTANTS MaxSignals,                            \* Daemon
          MaxBusy, Callers,                      \* IngestService, WebService
          Migrators, Last, Expected, MaxFaults   \* Migration

VARIABLES part,
          \* Daemon
          main, kind, cmd, ready, service, asked, handler, signals, closed,
          sent, termSent,
          \* IngestService
          iListener, iBusy, iCut, iRun, running, iCtx, iGrace, sub, iFailed,
          got, result, iQuit, iForce,
          \* WebService
          listener, busy, cut, run, ctx, grace, serve, failed, watcher, quit,
          force,
          \* Migration
          tables, old, goose, at, version, lock, faults, start

\* Every command, with both kinds of signals at every step.
D == INSTANCE Daemon WITH
       Commands <- {"serve", "migrate", "version", "error"},
       Kinds <- {"ingest", "web"}, SignalKinds <- {"term", "hup"}

\* Callers of Quit, graceful or forced, and requests that may hang.
I == INSTANCE IngestService WITH
       Servers <- {"metrics"}, Forces <- BOOLEAN,
       listener <- iListener, busy <- iBusy, cut <- iCut,
       run <- iRun, ctx <- iCtx, grace <- iGrace, failed <- iFailed,
       quit <- iQuit, force <- iForce
W == INSTANCE WebService WITH Servers <- {"primary", "metrics"}, Forces <- BOOLEAN

\* Processes that migrate, and every database they may find.
M == INSTANCE Migration WITH pc <- at

ASSUME ServerAssumption ==
    /\ MaxSignals \in Nat /\ MaxBusy \in Nat
    /\ Last \in Nat /\ Expected \in Nat /\ MaxFaults \in Nat

daemon == <<main, kind, cmd, ready, service, asked, handler, signals, closed,
            sent, termSent>>
ingest == <<iListener, iBusy, iCut, iRun, running, iCtx, iGrace, sub, iFailed,
            got, result, iQuit, iForce>>
web == <<listener, busy, cut, run, ctx, grace, serve, failed, watcher, quit, force>>
migration == <<tables, old, goose, at, version, lock, faults, start>>
vars == <<part, daemon, ingest, web, migration, proc>>

Init ==
    /\ part \in {"daemon", "ingest", "web", "migration", "processor"}
    /\ D!DaemonInit /\ I!IngestInit /\ W!WebInit /\ M!MigrationInit /\ ProcInit
    /\ part # "daemon" => kind = "web" /\ cmd = "serve"
    /\ part # "ingest" => \A q \in Callers : ~iForce[q]
    /\ part # "web" => \A q \in Callers : ~force[q]
    /\ part # "migration" => tables = {} /\ old = M!NoOld /\ goose = {}

\* A step of one of the parts.
OfDaemon(A) ==
    part = "daemon" /\ A /\ UNCHANGED <<part, ingest, web, migration, proc>>
OfIngest(A) ==
    part = "ingest" /\ A /\ UNCHANGED <<part, daemon, web, migration, proc>>
OfWeb(A) ==
    part = "web" /\ A /\ UNCHANGED <<part, daemon, ingest, migration, proc>>
OfMigration(A) ==
    part = "migration" /\ A /\ UNCHANGED <<part, daemon, ingest, web, proc>>
OfProcessor(A) ==
    part = "processor" /\ A /\ UNCHANGED <<part, daemon, ingest, web, migration>>

Next ==
    \/ OfDaemon(D!DaemonNext)
    \/ OfIngest(I!IngestNext)
    \/ OfWeb(W!WebNext)
    \/ OfMigration(M!MigrationNext)
    \/ OfProcessor(ProcServe)

\* Goroutines make progress and a service that was asked to stop does so; a
\* request may hang.  A migration that failed is run again.  The workers run, and
\* neither the listing of a directory nor the database fails for ever.
Fairness ==
    /\ WF_vars(OfDaemon(D!Main))
    /\ WF_vars(OfDaemon(D!Handler))
    /\ WF_vars(OfDaemon(D!ServiceReturns /\ asked))
    /\ WF_vars(OfIngest(I!Run))
    /\ WF_vars(OfIngest(I!WorkersEnd /\ iGrace))
    /\ WF_vars(OfIngest(I!MetricsEnd))
    /\ WF_vars(OfIngest(I!MetricsShutdown))
    /\ \A q \in Callers :
         /\ WF_vars(OfIngest(I!ReadRunning(q) \/ I!QuitReturns(q)))
         /\ WF_vars(OfWeb(W!QuitCancels(q)))
    /\ WF_vars(OfWeb(W!Start))
    /\ WF_vars(OfWeb(W!SelectWatch))
    /\ WF_vars(OfWeb(W!Return))
    /\ \A s \in {"primary", "metrics"} : WF_vars(OfWeb(W!Server(s)))
    /\ \A m \in Migrators :
         WF_vars(OfMigration(M!Migrate(m))) /\ SF_vars(OfMigration(M!Up(m)))
    /\ \A w \in Workers :
         /\ WF_vars(OfProcessor(Launch(w)))
         /\ WF_vars(OfProcessor(Step(w)))
         /\ SF_vars(OfProcessor(List(w) /\ pc'[w] = "files"))
         /\ SF_vars(OfProcessor(Commit(w)))
         /\ SF_vars(OfProcessor(Uploaded(w)))

Spec == Init /\ [][Next]_vars /\ Fairness

-----------------------------------------------------------------------------
\* The variables of every part keep their types.
ServerTypeOK ==
    D!DaemonTypeOK /\ I!IngestTypeOK /\ W!WebTypeOK /\ M!MigrationTypeOK /\ ProcTypeOK

\* What is told to end ends.  A process that has received SIGINT or SIGTERM
\* exits, also when the signal comes before the service exists, between its
\* creation and its Run, or while Run returns by itself (main.go:45-76,
\* daemon.go:151); whatever ends the command ends the process, unless a command
\* without a service was sent a signal, whose handler waits for `ready`.  Run of
\* the ingest service ends with its pool, its metrics server or a Quit
\* (ingest.go:111-120, 170), and Run of the web service with either server or a
\* Quit (webservice.go:162, 214, 276), although requests may never finish.
ServersEnd ==
    /\ D!ReceivedTermExits
    /\ D!CommandEndExits
    /\ I!ComesToAnEnd
    /\ W!OneEndsAll

\* A Run that has returned left nothing running and nothing untold.  That of the
\* ingest service returns only when the pool and the metrics server have ended,
\* unless it was never started or reports that it gave up, with the errors of
\* both (ingest.go:89, 111-122).  After that of the web service neither server
\* accepts requests, whichever of the watcher, the servers and Quit came first,
\* and it returned an error unless somebody called Quit (webservice.go:162-173).
ReturnsComplete == I!ReturnsWithAllResults /\ W!ReturnsClosed

\* At every step, also between a crash and the next try, one of the two version
\* tables tells which tables exist, and no table is lost (bootstrap.go:28-36);
\* and a database that is dirty, or whose tables do not reach the version it
\* claims, is left exactly as it is, however often and by however many the
\* migrate command is run (bootstrap.go:63-71).
MigrationSure == M!VersionTold /\ M!UnsureUntouched

\* What is tried again and again is done.  The migrate command, run until it
\* succeeds, brings a consistent database to the newest migration and removes the
\* old version table, although processes race, statements fail and processes are
\* killed (migrate.go:55-84); and a worker that goes on records every report
\* that can be recorded, although the directory, the files and the database fail
\* now and then (processor.go:139-152, workers.go:175-197).
EventuallyDone == (part = "migration" => M!EventuallyMigrated) /\ EventuallyRecorded
=============================================================================
