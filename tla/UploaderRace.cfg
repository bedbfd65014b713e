SPECIFICATION RaceSpec
CONSTANTS
    Uploaders = {u1, u2}
    Modes <- AllModes
    MaxTime = 0
    MinAge = 0
    MaxReports = 1
    MaxConcurrent = 1
    MaxAttempts = 1
    MaxCopies = 2
    InitConsent = {"granted", "missing", "malformed"}
    InitSysConfig = {"missing", "malformed"}
    Faults = {"crash", "io", "net", "ack"}
SYMMETRY Symmetry
INVARIANTS
    TypeOK
    AcceptedOnce
    DuplicateOnlyAfterLostAck
    ConsentAtBothPoints
    LocalIsOriginal
