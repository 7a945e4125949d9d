\* Edits and failing statements, or slow executions and restarts of the panel.
SPECIFICATION FairSpec
CONSTANTS
    w1 = w1
    w2 = w2
    Writers <- TwoWriters
    MaxId = 2
    MaxTime = 4
    Bounds <- EditsOrRestarts
    Crons <- Expressions
    Matches <- MatchesOf
INVARIANTS
    NoOverlap
    StoredBeforeRun
PROPERTIES
    ServedOnceUnedited
    SchedulesMoveOn
