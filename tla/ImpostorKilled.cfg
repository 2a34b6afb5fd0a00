SPECIFICATION Spec
CONSTANTS
    Pids = {p1}
    None = None
    IdleFor = 1
    Grace = 1
    Window = 2
    MayReuse = TRUE
    MaxTime = 4
    MaxBirths = 2
    MaxSaves = 2
    MaxFaults = 1
INVARIANT WarnedBeforeKilled
CHECK_DEADLOCK FALSE
