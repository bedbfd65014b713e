\* An application that comes and goes, two goroutines of it, changes of the list
\* at every step, lost events, a watcher that does not start or dies, requests to
\* stop and a restart; a report of another application waits.
CONSTANTS
    Apps = {"a"}
    Reserved = {"ubuntu_report"}
    MaxEdits = 2
    MaxEvents = 2
    CanOverflow = TRUE
    CanDie = TRUE
    Reports <- MCOne
    Workers <- MCOverlap
    AppOf <- MCOtherApp
    WorkerApp <- MCOverlapApp
    Content <- MCOneContent
    LegacyApps = {}
    MaxRows = 1
    Faults = {}
    MaxCrashes = 1
    CanCancel = TRUE
SPECIFICATION PoolLiveSpec
INVARIANTS PoolTypeOK OneLiveWorker
PROPERTIES WorkersFollowList StopsWhenCanceled
CHECK_DEADLOCK FALSE
