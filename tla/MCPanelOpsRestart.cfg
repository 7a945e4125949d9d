\* A restart during an update, one request at a time.
SPECIFICATION MCSpec
CONSTANTS
    admin = admin
    timer = timer
    MaxRestarts = 1
    Callers <- OneCaller
    Ops <- AllOps
    Mixes <- RestartAndUpdate
    MaxRuns = 1
    StopMayGiveUp = FALSE
INVARIANTS
    UpdateRunsAlone
