SPECIFICATION Spec
CONSTANTS
    Uploaders = {u1, u2}
    Modes <- TimerOrForced
    MaxTime = 0
    MinAge = 0
    MaxReports = 1
    MaxConcurrent = 1
    MaxAttempts = 1
    MaxCopies = 2
    InitConsent = {"granted"}
    InitSysConfig = {"missing"}
    Faults = {"net"}
SYMMETRY Symmetry
INVARIANT SentIsMarked
