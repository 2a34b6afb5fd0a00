SPECIFICATION Spec
CONSTANTS
    Nodes = {n1, n2}
    None = None
    MaxOps = 4
    Patient = {"add", "destroy"}
    MayFail = FALSE
PROPERTY CleanSlate
CHECK_DEADLOCK FALSE
