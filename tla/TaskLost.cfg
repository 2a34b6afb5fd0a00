SPECIFICATION FairSpec
CONSTANTS
    MaxTasks = 1
    MaxFaults = 1
    MaxAged = 0
    Poison = {}
    PromptClose = TRUE
    FaultKinds = {"cut"}
PROPERTIES EveryTaskSettles
CHECK_DEADLOCK FALSE
