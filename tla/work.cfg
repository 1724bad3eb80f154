SPECIFICATION Spec
CONSTANTS
    Procs = {cli, chat}
    Threads = {chat}
    Actions = {"research"}
    Blockers = {"waiting"}
    MinimumRepetitions = 2
    StartLogs <- MCStartLogs
    Faults = {"crash"}
    Limit <- MCLimit
    MaxOverlapping = 2
INVARIANTS
    ExecutedOnApproval
    NoRework
    EvidenceReviewsAgree
    FailedWorkIsQueued
CHECK_DEADLOCK FALSE
