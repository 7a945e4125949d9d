\* One edit while the loop ticks.
SPECIFICATION Spec
CONSTANTS
    w1 = w1
    w2 = w2
    Writers <- TwoWriters
    MaxId = 2
    MaxTime = 4
    Bounds <- OneEdit
    Crons <- Expressions
    Matches <- MatchesOf
PROPERTIES
    ServedOnce
