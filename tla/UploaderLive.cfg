SPECIFICATION RaceFairSpec
CONSTANTS
    Uploaders = {u1, u2}
    Modes <- TimerOnly
    MaxTime = 0
    MinAge = 0
    MaxReports = 1
    MaxConcurrent = 1
    MaxAttempts = 1
    MaxCopies = 1
    InitConsent = {"granted"}
    InitSysConfig = {"missing"}
    Faults = {"net"}
INVARIANT
    QuiescentStore
PROPERTY
    EventuallyAccepted
