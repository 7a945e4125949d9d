\* One caller, two runs with one automatic restart; kills and UPDATEs succeed.
SPECIFICATION FairSpec
CONSTANTS
    c1 = c1
    c2 = c2
    Callers <- OneCaller
    MaxRuns = 2
    MaxRestarts = 1
    HasProber <- FirstProbed
    KillMayFail = FALSE
    DbMayFail = FALSE
INVARIANTS
    DbRunningMeansRunning
PROPERTIES
    StopReturns
    RunsMoveOn
    StoppedLaunchNeverRuns
