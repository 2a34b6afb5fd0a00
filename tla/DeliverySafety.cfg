SPECIFICATION Spec
CONSTANTS
    MaxTasks = 2
    MaxFaults = 1
    MaxAged = 1
    Poison = {}
    PromptClose = FALSE
    FaultKinds = {"flood", "hub", "throw", "send", "claim"}
INVARIANTS ResultAgreement ReceiptSound ExecutionAccounting
PROPERTY Contract
CHECK_DEADLOCK FALSE
