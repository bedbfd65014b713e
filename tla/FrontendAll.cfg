\* The library is given no sources.
CONSTANTS
    Platform = "linux"
    Sources = {"linux", "app"}
    Fronts = {"go", "c"}
    InitConsent = {"missing", "granted", "malformed"}
    MaxCalls = 2
SPECIFICATION FrontendSpec
CHECK_DEADLOCK FALSE
INVARIANTS AllHandled
