SPECIFICATION Spec
CONSTANTS
    None = None
    Browsers = {b1, b2}
    Mails = {m1, m2}
    MaxAdmins = 2
    MaxBumps = 2
    Ips = {p1}
    Parts = 2
    Burst = 2
    IdleTicks = 3
    MaxBuckets = 2
    MaxLimitTime = 6
    Jobs = {j1, j2}
    Leftovers = {"nothing", "part"}
    Keys = {"k1", "k2"}
    Keep <- KeepSmall
    Span <- SpanSmall
    MaxStamp = 4
    MaxSchema = 2
    MaxCrashes = 1
    MaxServer = 2
    Passwords = {"p1", "p2"}
    NoRow = NoRow
    MaxRank = 2
    MaxOps = 3
    Windows = {2}
    LogCaps <- CapsSmall
    MaxAlertTime = 2
    MaxLogs = 3
    MaxLogSize = 2
    MaxRaised = 3
    MaxAlertFaults = 1
    People = {r1, r2}
    Admins = {a1, a2}
    Spellings = {"low"}
    NoSend = NoSend
    MaxSends = 2
    MaxChanges = 4
    Ttl = 1
    MaxEntries = 2
    MaxFlashTime = 3
    MaxPuts = 4
    UidCount = 2
    MaxId = 4
    MaxRunOps = 2
INVARIANTS
    Throttled  MailServersKept  ShownOnce 
PROPERTIES SessionsSound  UpgradeKeeps
CHECK_DEADLOCK FALSE
