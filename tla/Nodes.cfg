SPECIFICATION NodesSpec
CONSTANTS
    Sockets = {w1, w2, w3}
    NoSocket = NoSocket
    MaxTokens = 2
    Graces = {0, 5}
    PromptClose = TRUE
    MayRestart = TRUE
    Students = {pi, s1}
    PI = pi
    Nobody = Nobody
    MaxSerial = 6
    MaxHastySerial = 5
    MaxRowsSerial = 7
    None = None
    MaxSize = 2
    InOrder = TRUE
    MaxOps = 3
    Names = {"n1", "n2"}
    Labels = {"a", " a", "b", ""}
    Tabs = {t1}
    MaxNode = 3
    MaxGroup = 2
    Hour = 2
    DayHours = 6
    Intervals = {2, 4, 12}
    AnchorHour = 1
    NightHour = 0
    ScrubDays = 2
    GapHours = 5
    MaxDays = 3
    MayOverlap = FALSE
    MaxFaults = 2
    Labs = {a}
    NoBox = NoBox
    NoFile = NoFile
    Failing = {"pull", "ps", "stop", "clear", "rename", "prepare", "create", "ready", "remove",
               "restore", "start", "promote", "apt"}
    MaxTasks = 2
    MaxCrashes = 1
    Files = {f, g}
    NoDir = NoDir
    MaxCalls = 4
INVARIANTS
    TypeOK  
    NothingStuck ActiveIsProven RowsMatchNode OnlyProvenDelivered CredentialKept
    QuotasAgree MembersChosen  ContainerKept DataKept
PROPERTIES OnlineTruth AlertJustified 
CHECK_DEADLOCK FALSE
