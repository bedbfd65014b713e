\* Two sources and three calls after others, through all the ways in; timestamps
\* of three bits, periods of two; two threads, and two changes of the callback
\* while they are inside.
CONSTANTS
    Platform = "linux"
    Sources = {"linux", "app"}
    Fronts = {"cli", "go", "c"}
    InitConsent = {"missing", "granted", "malformed"}
    MaxCalls = 3
    Half = 4
    Periods = {0, 1, 3}
    MaxKeep = 2
    MaxReports = 3
    Threads = {"t1", "t2"}
    Callbacks = {"cb1", "cb2"}
    MaxSets = 2
    MaxLogs = 1
SPECIFICATION Spec
INVARIANTS
    LibraryTypeOK
    CallersTold
    RetentionRight
    CLibraryRight
    HandlersRight
PROPERTY FilesChangeAsAllowed
CHECK_DEADLOCK FALSE
