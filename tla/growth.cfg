SPECIFICATION Spec
CONSTANTS
    Procs = {cli, chat}
    Threads = {chat}
    StartLogs <- MCStartLogs
    Proposals <- MCProposals
    Messages <- MCMessages
    Moves = {"review_required", "continuity_break"}
    Faults = {"crash"}
    Limit <- MCLimit
    MaxOverlapping = 2
INVARIANTS
    AcceptedUnderGate
    AutoAcceptanceIsSafe
    ReviewsFollowChanges
    ConflictsCloseTheLoop
    PressureGetsATask
    SessionsConsistent
CHECK_DEADLOCK FALSE
