SPECIFICATION Spec
CONSTANTS
    Procs = {cli, chat}
    Tracks <- MCTracks
    Paths = {"paper"}
    Required = {"anchor"}
    Runs <- MCRuns
    StartLogs <- MCStartLogs
    Faults = {}
    Limit <- MCStagesLimit
    MaxOverlapping = 1
    MaxContent = 2
    MaxMishaps = 1
    MaxSwitches = 0
    Overlapping = {}
    MaxDay = 1
INVARIANTS
    NotesFollowSources
CHECK_DEADLOCK FALSE
