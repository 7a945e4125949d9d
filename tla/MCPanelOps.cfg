\* Two requests at a time beside the jobs.
SPECIFICATION MCSpec
CONSTANTS
    admin = admin
    timer = timer
    MaxRestarts = 1
    Callers <- TwoCallers
    Ops <- AllOps
    Mixes <- ManyMixes
    MaxRuns = 2
    StopMayGiveUp = TRUE
INVARIANTS
    FilesAlone
    JobsExclude
PROPERTIES
    AllEnd
