\* Run returns while a worker is at a file.
CONSTANTS
    Apps = {"a"}
    Reserved = {}
    MaxEdits = 0
    MaxEvents = 1
    CanOverflow = FALSE
    CanDie = FALSE
    Reports <- MCOne
    Workers <- MCOverlap
    AppOf <- MCOneApp
    WorkerApp <- MCOverlapApp
    Content <- MCOneContent
    LegacyApps = {}
    MaxRows = 2
    Faults = {}
    MaxCrashes = 0
    CanCancel = TRUE
SPECIFICATION PoolSpec
INVARIANT RunWaitsForWorkers
CHECK_DEADLOCK FALSE
