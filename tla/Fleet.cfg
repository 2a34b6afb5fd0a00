SPECIFICATION Spec
CONSTANTS
    None = None
    u1 = u1
    u2 = u2
    i1 = i1
    i2 = i2
    m1 = m1
    Labs = {A, B}
    LastUid = 2
    LastPort = 1
    Nodes = {n1, n2}
    MaxOps = 4
    Patient = {"destroy"}
    MaxLevel = 2
    Threshold = 1
    SampleGap = 2
    PiGap = 2
    StudentGap = 3
    ScanGrace = 3
    Keep = 3
    MaxTelemetryTime = 5
    MaxChanges = 2
    Pids = {p1}
    IdleFor = 1
    Grace = 1
    Window = 2
    MaxGpuTime = 4
    MaxBirths = 2
    MaxSaves = 2
    MaxFaults = 1
SYMMETRY LabSymmetry
INVARIANTS RosterSound   
PROPERTY IdentityKept
CHECK_DEADLOCK FALSE
