SPECIFICATION FairSpec
CONSTANTS
    MaxTasks = 2
    MaxFaults = 1
    MaxAged = 0
    Poison = {}
    PromptClose = FALSE
    FaultKinds = {"flood"}
PROPERTIES EventuallyDrained
CHECK_DEADLOCK FALSE
