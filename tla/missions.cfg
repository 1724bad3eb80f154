SPECIFICATION Spec
CONSTANTS
    Procs = {cli, chat}
    StartLogs <- MCStartLogs
    Tools <- MCTools
    Faults = {"crash"}
    Limit <- MCLimit
    MaxOverlapping = 0
SYMMETRY Symmetry
INVARIANTS
    TypeOK
    RunsApproved
    PressureIsReviewed
    AutonomyAwaitsReview
    RunsReleased
CHECK_DEADLOCK FALSE
