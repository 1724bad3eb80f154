SPECIFICATION Spec
CONSTANTS
    RequiredConstraints <- MCTwoRequired
    Perishable <- MCTwoPerishable
    Procs <- MCOne
    Commands <- CertifyingCommands
    Checkable <- MCPerishable
    Authorities <- LowAndHigh
    FollowupsPerOverride = 1
    Faults = {"crash", "age", "tamper"}
    MaxCommands = 3
INVARIANTS
    TypeOK
    CertifiedIffClear
PROPERTIES
    BreakLeftDeliberately
CHECK_DEADLOCK FALSE
