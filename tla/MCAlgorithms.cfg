\* Every expression from every time of four years; every edit of two settings;
\* two handlers beside a server.
SPECIFICATION Spec
CONSTANTS
    h1 = h1
    h2 = h2
    MinuteTicks <- TwoTicks
    Lowest <- Lows
    Highest <- Highs
    Calendar <- CalendarOf
    DateOf <- DateFound
    MaxScanMinutes <- LongYear
    Managed <- ManagedNames
    Unmanaged <- UnmanagedNames
    Default <- Defaults
    Handlers <- TwoHandlers
    Hot <- HotKeys
    Cases <- ValuesOrServer
    Expressions <- AllExpressions
    Times <- AllTimes
SYMMETRY HandlerSymmetry
CHECK_DEADLOCK FALSE
INVARIANTS
    NextIsNearest
    SettingsKept
    ToldOrMissed
PROPERTIES
    AnswersMatch
