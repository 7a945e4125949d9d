\* Two requests at a time, a death of the panel, and what it comes back to.
SPECIFICATION Spec
CONSTANTS
    h1 = h1
    h2 = h2
    d1 = d1
    d2 = d2
    Handlers <- TwoHandlers
    MaxId = 2
    Dirs <- TwoDirs
    Ports <- PortPairs
    MaxRequests = 2
    DbMayFail = TRUE
    Statements <- TwoFiles
    InitInst <- OneInstance
    InitOwned <- EveryKind
    MaxStarts = 2
    MaxUpdates = 1
    MaxCrashes = 1
SYMMETRY HandlerSymmetry
CHECK_DEADLOCK FALSE
INVARIANTS
    PortsDistinct
    MigrationsAgree
    AutostartSpares
    RunningIsStored
PROPERTIES
    OwnedRowsFollow
