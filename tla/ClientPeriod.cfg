\* A collector, plain or forced, and two uploaders that are killed or fail at
\* any step, with no failing sends, over two timestamps of one period.
SPECIFICATION ClientSpec
CONSTANTS
    Uploaders = {u1, u2}
    Modes <- Once
    MaxTime = 1
    MinAge = 0
    MaxReports = 1
    MaxConcurrent = 2
    MaxAttempts = 0
    MaxCopies = 1
    InitConsent = {"granted"}
    InitSysConfig = {"missing"}
    Faults = {"crash", "io"}
    Collectors = {c1}
    Period = 1
    CollectModes <- PlainOrForced
    CollectFaults = {}
    Edits = {}
INVARIANTS
    OncePerPeriod
    ForceReplaces
