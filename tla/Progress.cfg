SPECIFICATION ProgressSpec
CONSTANTS
    Students = {pi, s1}
    PI = pi
    WithEmail = {pi}
    Nobody = Nobody
    MaxSerial = 6
    Used = {"create", "retry", "recreate", "destroy", "force", "add", "remove"}
    Hasty = {"add", "remove", "recreate"}
    Failures = {}
    MaxCrashes = 0
    Sockets = {w1, w2}
    NoSocket = NoSocket
    MaxTokens = 2
    Graces = {0, 5}
    MaxTasks = 2
    MaxFaults = 2
    MaxAged = 0
    Poison = {1}
    FaultKinds = {"throw", "timeout"}
    Labs = {a, b}
    NoBox = NoBox
    NoFile = NoFile
PROPERTIES TeardownCompletes   PatchedInTheEnd
CHECK_DEADLOCK FALSE
