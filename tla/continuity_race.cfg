SPECIFICATION Spec
CONSTANTS
    RequiredConstraints <- MCRequired
    Perishable <- MCPerishable
    Procs <- MCTwo
    Commands <- RacingCommands
    Checkable <- MCCheckable
    Authorities <- LowAndHigh
    FollowupsPerOverride = 1
    Faults = {"crash"}
    MaxCommands = 3
INVARIANTS
    CertifiedRecordsRestOnClear
    Privileged
CHECK_DEADLOCK FALSE
