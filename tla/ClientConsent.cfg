SPECIFICATION ClientSpec
CONSTANTS
    Uploaders = {u1}
    Modes <- Timer
    MaxTime = 0
    MinAge = 0
    MaxReports = 1
    MaxConcurrent = 2
    MaxAttempts = 1
    MaxCopies = 2
    InitConsent = {"granted", "missing", "malformed"}
    InitSysConfig = {"missing", "malformed"}
    Faults = {"crash", "io", "net", "ack"}
    Collectors = {c1}
    Period = 1
    CollectModes <- DryOrForced
    CollectFaults = {"crash", "io"}
    Edits = {"consent", "optOut"}
INVARIANTS
    ClientTypeOK
    EndToEndConsent
    NoReportLost
    SentIsMarked
    RecordIsWhatWasSent
