SPECIFICATION Spec
CONSTANTS
    MaxSignals = 3
    MaxBusy = 1
    Callers = {"q1", "q2"}
    Migrators = {"m1", "m2"}
    \* a newer migration than expectedTables knows
    Last = 2
    Expected = 1
    MaxFaults = 2
    Reports = {"r1", "r2"}
    Workers = {"w1"}
    AppOf <- MCAppOf
    WorkerApp <- MCWorkerApp
    Content <- MCContent
    LegacyApps = {}
    MaxRows = 2
    Faults = {"list", "read", "exec", "answer", "remove"}
INVARIANTS
    ServerTypeOK
    ReturnsComplete
    MigrationSure
PROPERTIES
    ServersEnd
    EventuallyDone
CHECK_DEADLOCK FALSE
