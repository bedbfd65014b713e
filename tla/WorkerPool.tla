----------------------------- MODULE WorkerPool -----------------------------
(***************************************************************************)
(* The worker pool of the ingest service (server/internal/ingest/workers): *)
(* Run keeps one goroutine per application of the allow list and brings    *)
(* the two in line again five seconds after the last change.  A goroutine  *)
(* that is told to stop finishes the file it is at, so that an application *)
(* which comes back at once has two of them for a while.                   *)
(*                                                                         *)
(* Files reach the spool from the web service, and the process may         *)
(* be killed and started again at any step.                                *)
(***************************************************************************)
EXTENDS ConfigWatch, Processor

CONSTANTS MaxCrashes,  \* bound: times the process is killed
          CanCancel    \* the service may be asked to stop

VARIABLES run,         \* where Run is
          workers,     \* m.workers: the worker registered for an application
          timer,       \* debounceTimer: "none", "armed", "fired", "off"
          left,        \* applications the current loop of syncWorkers has left
          canceled,    \* the context of Run is done
          crashes

pool == <<run, workers, timer, left, canceled, crashes>>
poolVars == <<watch, proc, pool>>

NoWorker == <<>>

ASSUME PoolAssumption == NoWorker \notin Workers /\ MaxCrashes \in Nat

RunPCs == {"new", "watch", "syncStop", "syncList", "syncStart", "select",
           "waiting", "returned"}

PoolTypeOK ==
    /\ WatchTypeOK
    /\ ProcTypeOK
    /\ run \in RunPCs
    /\ workers \in [Apps -> Workers \cup {NoWorker}]
    /\ timer \in {"none", "armed", "fired", "off"}
    /\ left \in SUBSET Names
    /\ canceled \in BOOLEAN
    /\ crashes \in 0 .. MaxCrashes

PoolInit ==
    /\ WatchInit
    /\ ProcInit
    /\ run = "new"
    /\ workers = [a \in Apps |-> NoWorker]
    /\ timer = "none"
    /\ left = {}
    /\ canceled = FALSE
    /\ crashes = 0

-----------------------------------------------------------------------------
\* Mutant of Cancel: the workers do not run under the context of Run.
CancelRunOnly ==
    /\ CanCancel
    /\ ~canceled
    /\ canceled' = TRUE
    /\ UNCHANGED <<watch, proc, run, workers, timer, left, crashes>>

\* The service asks Run to stop: the contexts of the workers descend from the
\* one of Run.
Cancel ==
    /\ CanCancel
    /\ ~canceled
    /\ canceled' = TRUE
    /\ Interrupt(Workers)
    /\ UNCHANGED <<watch, run, workers, timer, left, crashes>>

\* Run starts, unless its context is already done; when Watch fails it returns,
\* and its deferred call cancels the context.
Begin ==
    /\ run = "new"
    /\ \/ canceled /\ run' = "returned" /\ UNCHANGED <<watch, canceled>>
       \/ ~canceled /\ AddWatch /\ run' = "watch" /\ UNCHANGED canceled
       \/ ~canceled /\ AddWatchFails /\ run' = "returned" /\ canceled' = TRUE
    /\ UNCHANGED <<proc, workers, timer, left, crashes>>

SyncApps == {a \in Apps : workers[a] # NoWorker}

\* Watch has returned: the initial syncWorkers begins.
Watching ==
    /\ run = "watch"
    /\ StartWatch
    /\ run' = "syncStop"
    /\ left' = SyncApps
    /\ UNCHANGED <<proc, workers, timer, canceled, crashes>>

\* Mutant of SyncStop: the worker is forgotten and not told to stop.
SyncStopForgets ==
    /\ run = "syncStop"
    /\ \E a \in left :
         /\ left' = left \ {a}
         /\ workers' = IF IsAllowed(a) THEN workers
                       ELSE [workers EXCEPT ![a] = NoWorker]
    /\ UNCHANGED <<watch, proc, run, timer, canceled, crashes>>

\* syncWorkers, first loop: a worker whose application is no longer allowed is
\* told to stop.  The list may be reloaded between two of these steps.
SyncStop ==
    /\ run = "syncStop"
    /\ \E a \in left :
         /\ left' = left \ {a}
         /\ IF IsAllowed(a)
              THEN UNCHANGED <<workers, proc>>
              ELSE /\ Interrupt({workers[a]})
                   /\ workers' = [workers EXCEPT ![a] = NoWorker]
    /\ UNCHANGED <<watch, run, timer, canceled, crashes>>

\* syncWorkers, second loop: AllowList is copied once.
SyncList ==
    /\ run = "syncStop"
    /\ left = {}
    /\ left' = loaded
    /\ run' = "syncStart"
    /\ UNCHANGED <<watch, proc, workers, timer, canceled, crashes>>

\* A worker is started for an application that has none.  The context is
\* looked at first, and what is left of the list is dropped when it is done.
SyncStart ==
    /\ run = "syncStart"
    /\ \E a \in left :
         \/ /\ workers[a] # NoWorker
            /\ left' = left \ {a}
            /\ UNCHANGED <<proc, workers>>
         \/ /\ workers[a] = NoWorker
            /\ canceled
            /\ left' = {}
            /\ UNCHANGED <<proc, workers>>
         \/ /\ workers[a] = NoWorker
            /\ ~canceled
            /\ \E w \in Workers :
                 /\ WorkerApp[w] = a
                 /\ Launch(w)
                 /\ workers' = [workers EXCEPT ![a] = w]
            /\ left' = left \ {a}
    /\ UNCHANGED <<watch, run, timer, canceled, crashes>>

\* syncWorkers returns.  The timer is created after the initial sync; after
\* another it stays off until the next change.
Synced ==
    /\ run = "syncStart"
    /\ left = {}
    /\ run' = "select"
    /\ timer' = IF timer = "none" THEN "armed" ELSE timer
    /\ UNCHANGED <<watch, proc, workers, left, canceled, crashes>>

-----------------------------------------------------------------------------
\* The select of Run, one action per case.
SelectDone ==
    /\ run = "select"
    /\ canceled
    /\ run' = "waiting"
    /\ UNCHANGED <<watch, proc, workers, timer, left, canceled, crashes>>

\* A change restarts the timer, whether or not it has fired.
SelectChange ==
    /\ run = "select"
    /\ TakeChange
    /\ timer' = "armed"
    /\ UNCHANGED <<proc, run, workers, left, canceled, crashes>>

\* Mutant of SelectTimer: the timer is taken and nothing is synchronised.
SelectTimerIdle ==
    /\ run = "select"
    /\ timer = "fired"
    /\ timer' = "off"
    /\ UNCHANGED <<watch, proc, run, workers, left, canceled, crashes>>

SelectTimer ==
    /\ run = "select"
    /\ timer = "fired"
    /\ timer' = "off"
    /\ run' = "syncStop"
    /\ left' = SyncApps
    /\ UNCHANGED <<watch, proc, workers, canceled, crashes>>

\* An error of the watcher is logged.
SelectErr ==
    /\ run = "select"
    /\ TakeErr
    /\ UNCHANGED <<proc, pool>>

\* A channel of the watcher is closed: Run returns at once, and its deferred
\* call cancels the context the workers run under.
SelectClosed ==
    /\ run = "select"
    /\ ErrsClosed \/ ChangesClosed
    /\ run' = "returned"
    /\ canceled' = TRUE
    /\ Interrupt(Workers)
    /\ UNCHANGED <<watch, workers, timer, left, crashes>>

\* workerWG.Wait is over.
Waited ==
    /\ run = "waiting"
    /\ Active = {}
    /\ run' = "returned"
    /\ UNCHANGED <<watch, proc, workers, timer, left, canceled, crashes>>

TimerFires ==
    /\ timer = "armed"
    /\ run = "select"
    /\ timer' = "fired"
    /\ UNCHANGED <<watch, proc, run, workers, left, canceled, crashes>>

\* The process is killed and started again: the files and the tables stay.
Crash ==
    /\ crashes < MaxCrashes
    /\ crashes' = crashes + 1
    /\ Killed
    /\ run' = "new"
    /\ workers' = [a \in Apps |-> NoWorker]
    /\ timer' = "none"
    /\ left' = {}
    /\ canceled' = FALSE
    /\ loaded' = {}
    /\ events' = 0
    /\ watcher' = "off"
    /\ changes' = 0
    /\ errs' = 0
    /\ lost' = FALSE
    /\ UNCHANGED <<file, edits>>

-----------------------------------------------------------------------------
Watcher ==
    /\ HandleEvent \/ WatcherStops(canceled) \/ WatcherCloses
    /\ UNCHANGED <<proc, pool>>

Run ==
    \/ Begin \/ Watching \/ SyncStop \/ SyncList \/ SyncStart \/ Synced
    \/ SelectDone \/ SelectChange \/ SelectTimer \/ SelectErr \/ SelectClosed
    \/ Waited

Worker(w) == Step(w) /\ UNCHANGED <<watch, pool>>

PoolEnv ==
    \/ WatchEnv /\ UNCHANGED <<proc, pool>>
    \/ \E r \in Reports : StoreFile(r) /\ UNCHANGED <<watch, pool>>
    \/ Cancel
    \/ Crash

PoolNext ==
    \/ Watcher
    \/ Run
    \/ TimerFires
    \/ \E w \in Workers : Worker(w)
    \/ PoolEnv

PoolSpec == PoolInit /\ [][PoolNext]_poolVars

\* Goroutines and timers make progress; which of the cases that are ready a
\* select takes is left open.
PoolFairness ==
    /\ WF_poolVars(Watcher)
    /\ WF_poolVars(Run)
    /\ WF_poolVars(TimerFires)
    /\ \A w \in Workers : WF_poolVars(Worker(w))

PoolLiveSpec == PoolSpec /\ PoolFairness

-----------------------------------------------------------------------------
\* At most one goroutine of an application works on: whoever is not registered
\* any more has been told to stop (workers.go:131-150).
OneLiveWorker ==
    \A v, w \in Active \ ctxDone : WorkerApp[v] = WorkerApp[w] => v = w

\* When the context of Run is canceled, Run does not return before the last
\* worker is done (workers.go:61).
RunWaitsForWorkers ==
    run = "returned" => Active = {}

\* After the last edit, as long as the file is readable and was reloaded, the
\* goroutines that work are those of the listed applications, although edits
\* arrive while syncWorkers runs, bursts restart the timer and announcements
\* are dropped (workers.go:96-112, config.go:141).
WorkersFollowList ==
    <>[](\/ file = Broken \/ canceled \/ lost
         \/ {WorkerApp[w] : w \in Active \ ctxDone} = file \ Reserved)

\* A service that was asked to stop comes to an end: Run returns and every
\* worker ends (workers.go:91-94, 176, 191).
StopsWhenCanceled ==
    canceled ~> (run = "returned" /\ Active = {}) \/ ~canceled

=============================================================================
