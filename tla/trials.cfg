SPECIFICATION Spec
CONSTANTS
    Procs = {first, second}
    Raters = {alice, bob}
    RequiredConstraints <- MCRequired
    Perishable <- MCPerishable
    Samples <- MCSamples
    StartLogs <- MCStartLogs
    Faults = {"crash"}
    Limit <- MCLimit
    MaxOverlapping = 2
SYMMETRY Symmetry
INVARIANTS
    TrialsMeetExpectations
    ScoresFollowReaders
CHECK_DEADLOCK FALSE
