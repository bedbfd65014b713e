\* A request of any kind with a report of one of three kinds, two workers of its
\* application, every fault, and both processes killed at any step.
CONSTANTS
    Requests <- MCReports
    MaxRequests = 1
    Reports <- MCReports
    Workers = {w1, w2}
    AppOf <- MCReportsApp
    WorkerApp <- MCWorkersApp
    Content <- MCContent
    LegacyApps = {}
    MaxRows = 2
    Faults <- FaultKinds
SYMMETRY Symmetry
SPECIFICATION PipelineSpec
INVARIANTS PipelineTypeOK RefusedNotStored NothingDropped RowsExplained
PROPERTY ImplementsDelivery
CHECK_DEADLOCK FALSE
