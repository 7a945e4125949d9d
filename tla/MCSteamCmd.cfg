\* Two callers, two calls, two mirrors, a death of the panel.
SPECIFICATION FairSpec
CONSTANTS
    c1 = c1
    c2 = c2
    Callers <- TwoCallers
    Mirrors = 2
    Members = 2
    Entry = 1
    MaxRequests = 2
    MaxCrashes = 1
    MaxLines = 2
    PipeCap = 1
CHECK_DEADLOCK FALSE
INVARIANTS
    AllLinesSeen
PROPERTIES
    EnsuredIsWhole
    RunEnds
