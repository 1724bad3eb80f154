SPECIFICATION FairSpec
CONSTANTS
    RequiredConstraints <- MCRequired
    Perishable <- MCPerishable
    Procs <- MCOne
    Commands <- AllCommands
    Checkable <- MCCheckable
    Authorities <- High
    FollowupsPerOverride = 1
    Faults = {}
    MaxCommands = 4
INVARIANTS
    RecordedClaimCurrent
    ClaimsFormChain
    SpeechIsClear
    OverrideObliges
PROPERTIES
    BreachReachesRecord
CHECK_DEADLOCK FALSE
