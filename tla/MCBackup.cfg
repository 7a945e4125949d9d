\* Jobs, deletes, a crash and failing statements; one archive is kept.
SPECIFICATION Spec
CONSTANTS
    admin = admin
    Users <- OneUser
    JobTypes = {"manual"}
    KeepCount = 1
    MaxBackups = 3
    MaxPlays = 2
    MaxCrashes = 1
    SameSecond = FALSE
    DbMayFail = TRUE
INVARIANTS
    RowHasArchive
    WipedIsArchived
    NoStrayFiles
