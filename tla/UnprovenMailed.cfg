SPECIFICATION Spec
CONSTANTS
    Students = {pi}
    PI = pi
    WithEmail = {pi}
    Nobody = Nobody
    MaxSerial = 6
    Used = {"create", "retry", "recreate", "destroy", "force", "add", "remove"}
    Hasty = {"recreate"}
    Failures = {}
    MaxCrashes = 0
INVARIANTS OnlyProvenDelivered
CHECK_DEADLOCK FALSE
