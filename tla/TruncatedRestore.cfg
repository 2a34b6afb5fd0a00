SPECIFICATION Spec
CONSTANTS
    Jobs = {j1}
    None = None
    Keep <- KeepSmall
    Span <- SpanSmall
    Leftovers = {"nothing", "part", "empty"}
    Keys = {k1}
    MaxStamp = 3
    MaxSchema = 1
    MaxCrashes = 1
INVARIANT TruncatedNeverStaged
CHECK_DEADLOCK FALSE
