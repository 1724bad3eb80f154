SPECIFICATION Spec
CONSTANTS
    Procs = {p, q}
    StartLogs <- MCStartLogs
    Bodies = {"a", "b"}
    MaxEdits = 2
    Faults = {"crash"}
    Limit <- MCLimit
    MaxOverlapping = 4
INVARIANTS
    ValidMeansUntouched
    FreshAnchorVerifies
CHECK_DEADLOCK FALSE
