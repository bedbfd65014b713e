SPECIFICATION Spec
CONSTANTS
    \* three sources, two at a time; durations of four bits, so that the third
    \* pause overflows
    Sources = {"s1", "s2", "s3"}
    MaxConcurrent = 2
    Width = 4
    Base = 3
    MaxRetry = 7
    MaxAttempts = 3
    \* three callers, more outputs than the arrays first hold
    Callers = {"c1", "c2", "c3"}
    MaxOutputs = 6
    Failures = {"connection", "memory"}
    \* two sources fail, and what the commands start may live on
    Stuck = {"pipe", "bus"}
    MaxFaults = 2
INVARIANTS
    WaitingTypeOK
    EverySourceTold
    AllScreens
    PartsOfOneSystem
PROPERTIES
    PausesGrow
    WaitsEnd
CHECK_DEADLOCK FALSE
