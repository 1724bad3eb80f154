SPECIFICATION Spec
CONSTANTS
    RequiredConstraints <- MCRequired
    Perishable <- MCPerishable
    Procs <- MCOne
    Commands <- RecoveringCommands
    Checkable <- MCCheckable
    Authorities <- High
    FollowupsPerOverride = 1
    Faults = {}
    MaxCommands = 4
PROPERTY RecoveryNeverCertifies
CHECK_DEADLOCK FALSE
