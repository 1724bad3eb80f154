SPECIFICATION Spec
CONSTANTS
    Procs = {cli, chat}
    Tracks <- MCTracks
    Paths = {"paper"}
    Required = {"anchor"}
    Runs <- MCRuns
    StartLogs <- MCStartLogs
    Faults = {"crash"}
    Limit <- MCLimit
    MaxOverlapping = 2
    MaxContent = 2
    MaxMishaps = 1
    MaxSwitches = 2
    Overlapping = {"seed", "daily-loop", "autopilot", "corpus-index", "source-notes", "argument-graph", "research-output"}
    MaxDay = 2
SYMMETRY Symmetry
INVARIANTS
    RerunsAddNothing
    RecordsFollowWork
    RunsStopForStewards
CHECK_DEADLOCK FALSE
