\* Two concurrent callers, two runs, one automatic restart; kills and UPDATEs may fail.
SPECIFICATION Spec
CONSTANTS
    c1 = c1
    c2 = c2
    Callers <- TwoCallers
    MaxRuns = 2
    MaxRestarts = 1
    HasProber <- FirstProbed
    KillMayFail = TRUE
    DbMayFail = TRUE
SYMMETRY CallerSymmetry
INVARIANTS
    SingleProcess
    IdleMeansNoProcess
    DoneClosedOnce
    StopDoneMeansExited
PROPERTIES
    ImplementsLifecycle
