SPECIFICATION FairSpec
CONSTANTS
    MaxTasks = 2
    MaxFaults = 1
    MaxAged = 0
    Poison = {2}
    PromptClose = TRUE
    FaultKinds = {"cut", "flood", "hub", "agent", "throw", "send", "timeout"}
INVARIANTS Inv
 
CHECK_DEADLOCK FALSE
