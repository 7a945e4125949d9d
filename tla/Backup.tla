------------------------------- MODULE Backup -------------------------------
(***************************************************************************)
(* The backups of one instance: the rows of the table, the archives on     *)
(* disk, the saves of the game, and what RunBackup, RunRestore, the rolling *)
(* cleanup and the delete handler do to them, statement by statement.       *)
(*                                                                         *)
(* One job works at a time (PanelOps!OneAtATime; PanelOps also shows when   *)
(* that fails); requests to delete an archive come in at any time.          *)
(***************************************************************************)
EXTENDS Naturals, FiniteSets, Functions

CONSTANTS
    Users,         \* goroutines of handleBackupDelete
    JobTypes,      \* the types of the backups of jobs: manual, scheduled, pre-update
    KeepCount,     \* archives the cleanup keeps
    MaxBackups,    \* bound: archives begun
    MaxPlays,      \* bound: changes of the saves by the game
    MaxCrashes,    \* bound: crashes of the panel
    SameSecond,    \* may two archives of a type be begun in one second?
    DbMayFail      \* may a statement fail?

ASSUME BackupAssumption ==
    /\ JobTypes \cap {"preRestore", "none"} = {}
    /\ KeepCount \in Nat \ {0}
    /\ MaxBackups \in Nat
    /\ MaxPlays \in Nat \ {0}   \* the game starts with its first version, 1
    /\ MaxCrashes \in Nat
    /\ SameSecond \in BOOLEAN
    /\ DbMayFail \in BOOLEAN

VARIABLES
    rows,     \* the table backups: ids and file names
    disk,     \* what the archive files hold
    saves,    \* the saves of the game
    up,       \* is the server up?
    job,      \* the goroutine of the backup, update or restore job
    del,      \* the goroutines of the delete handler
    lastId, lastSec, plays, crashes,   \* counters
    slipped,  \* history: has a delete slipped between the statements of a cleanup?
    stuck     \* history: the files that os.Remove could not remove

counters == <<lastId, lastSec, plays, crashes, slipped, stuck>>
vars == <<rows, disk, saves, up, job, del, counters>>

-----------------------------------------------------------------------------
(* A file is named for the type of the backup and the second it was begun.  *)
(* The saves are a version of the game, or gone, or what an unfinished      *)
(* unpacking left of them; so is the content of an archive, which can be    *)
(* half written besides.  A job also notes what the saves were and how far   *)
(* the game was when it began to pack, and what it wiped.                   *)

Types   == JobTypes \cup {"preRestore"}
Files   == Types \X (1 .. MaxBackups)
NoFile  == <<"none", 0>>
Rows    == [id : 1 .. MaxBackups, file : Files]
NoRow   == [id |-> 0, file |-> NoFile]
Saves   == 0 .. MaxPlays + 2

\* The versions that are none: no saves, saves of which some are missing or of
\* another version than the rest, and an archive that is half written.
Missing == 0
Partial == MaxPlays + 1
Half    == MaxPlays + 2

JobSteps == {"idle", "verify", "backup", "packing", "add", "list", "cleanup",
             "remove", "stop", "reverify", "wipe", "unpack"}
DelSteps == {"none", "check", "row", "file"}

NoJob == [at |-> "idle", type |-> "none", src |-> NoFile, file |-> NoFile,
          before |-> {}, doomed |-> {}, first |-> Missing, plays |-> 0, wiped |-> Missing]
NoDel == [at |-> "none", row |-> NoRow]

Init ==
    /\ rows = {}
    /\ disk = [f \in {} |-> Half]
    /\ saves = 1
    /\ up = FALSE
    /\ job = NoJob
    /\ del = [u \in Users |-> NoDel]
    /\ lastId = 0 /\ lastSec = 0 /\ plays = 1 /\ crashes = 0
    /\ slipped = FALSE /\ stuck = {}

Goto(at)  == job' = [job EXCEPT !.at = at]
JobFails  == job' = NoJob
With(f, content) == [g \in DOMAIN disk \cup {f} |-> IF g = f THEN content ELSE disk[g]]
Without(fs)      == Restrict(disk, DOMAIN disk \ fs)

\* os.Remove, whose error is ignored or comes too late.
Remove(fs) ==
    \/ disk' = Without(fs) /\ stuck' = stuck
    \/ disk' = disk /\ stuck' = stuck \cup (fs \cap DOMAIN disk)

\* backup.Verify: the archive is there and whole.
Verifies(f) == f \in DOMAIN disk /\ disk[f] # Half

\* ORDER BY created_at DESC, id DESC LIMIT n, and the other end of a list.
Newest(rs, n) == {r \in rs : Cardinality({x \in rs : x.id > r.id}) < n}
Oldest(rs, n) == {r \in rs : Cardinality({x \in rs : x.id < r.id}) < n}

-----------------------------------------------------------------------------
(* The jobs begin.  The handlers look for the other kinds of jobs first.    *)

BackupJob ==
    /\ job.at = "idle"
    /\ \E t \in JobTypes :
           job' = [NoJob EXCEPT !.at = "backup", !.type = t]
    /\ UNCHANGED <<rows, disk, saves, up, del, counters>>

RestoreJob ==
    /\ job.at = "idle"
    /\ \E r \in rows :
           job' = [NoJob EXCEPT !.at = "verify", !.type = "preRestore", !.src = r.file]
    /\ UNCHANGED <<rows, disk, saves, up, del, counters>>

\* RunRestore verifies the archive before it touches anything.
RestoreVerify ==
    /\ job.at = "verify"
    /\ IF Verifies(job.src) THEN Goto("backup") ELSE JobFails
    /\ UNCHANGED <<rows, disk, saves, up, del, counters>>

-----------------------------------------------------------------------------
(* RunBackup *)

\* What follows it: a restore goes on to stop the server.
AfterBackup == IF job.type = "preRestore" THEN Goto("stop") ELSE JobFails

\* No saves: an error, which a restore takes for nothing to protect.
BackupNoSaves ==
    /\ job.at = "backup"
    /\ saves = Missing
    /\ IF job.type = "preRestore"
       THEN job' = [job EXCEPT !.at = "stop", !.plays = plays]
       ELSE JobFails
    /\ UNCHANGED <<rows, disk, saves, up, del, counters>>

\* Create opens its file, over one of the same name if there is one.
BackupBegins ==
    /\ job.at = "backup"
    /\ saves # Missing
    /\ \E s \in {lastSec + 1} \cup (IF SameSecond THEN {lastSec} \ {0} ELSE {}) :
           /\ s <= MaxBackups
           /\ lastSec' = s
           /\ disk' = With(<<job.type, s>>, Half)
           /\ job' = [job EXCEPT !.at = "packing", !.file = <<job.type, s>>,
                                 !.first = saves, !.plays = plays]
    /\ UNCHANGED <<rows, saves, up, del, lastId, plays, crashes, slipped, stuck>>

\* The saves are read file by file while the game goes on: what is packed is the
\* version of then, one the game has saved since, or some files of each.
Packed == IF plays = job.plays THEN {job.first}
          ELSE {job.first, Partial} \cup (job.plays + 1 .. plays)

BackupPacked ==
    /\ job.at = "packing"
    /\ \E content \in Packed : disk' = With(job.file, content)
    /\ Goto("add")
    /\ UNCHANGED <<rows, saves, up, del, counters>>

\* The file cannot be made, or packing or the INSERT failed: the file is removed,
\* if it can be, and the job fails (a restore and an update do not go on without
\* their archive).  Two mistaken forms leave the file, or go on.
BackupMayFail == \/ job.at = "backup" /\ saves # Missing
                 \/ job.at = "packing"
                 \/ job.at = "add" /\ DbMayFail
BackupFailsAnyway ==
    /\ BackupMayFail
    /\ AfterBackup
    /\ UNCHANGED <<rows, disk, saves, up, del, counters>>
BackupFailsGoesOn ==
    /\ BackupMayFail
    /\ Remove({job.file})
    /\ AfterBackup
    /\ UNCHANGED <<rows, saves, up, del, lastId, lastSec, plays, crashes, slipped>>
BackupFails ==
    /\ BackupMayFail
    /\ Remove({job.file})
    /\ JobFails
    /\ UNCHANGED <<rows, saves, up, del, lastId, lastSec, plays, crashes, slipped>>

BackupAdds ==
    /\ job.at = "add"
    /\ lastId < MaxBackups
    /\ lastId' = lastId + 1
    /\ rows' = rows \cup {[id |-> lastId + 1, file |-> job.file]}
    /\ Goto("list")
    /\ UNCHANGED <<disk, saves, up, del, lastSec, plays, crashes, slipped, stuck>>

\* cleanup: the list is read first, ...
CleanupLists ==
    /\ job.at = "list"
    /\ job' = [job EXCEPT !.at = "cleanup", !.before = rows]
    /\ UNCHANGED <<rows, disk, saves, up, del, counters>>

\* ... then CleanupOldest deletes rows and says how many, and the files are
\* taken from the end of the list read before.  A mistaken form takes the
\* other end.
DoomedNewest(before, n) == {r.file : r \in Newest(before, n)}
Doomed(before, n) == {r.file : r \in Oldest(before, n)}

CleanupRows ==
    /\ job.at = "cleanup"
    /\ LET kept == Newest(rows, KeepCount)
           n    == Cardinality(rows) - Cardinality(kept)
       IN  /\ rows' = kept
           /\ IF n = 0 \/ n > Cardinality(job.before)
              THEN AfterBackup
              ELSE job' = [job EXCEPT !.at = "remove", !.doomed = Doomed(job.before, n)]
    /\ UNCHANGED <<disk, saves, up, del, counters>>

\* A statement of the cleanup fails: that is not an error of the backup.
CleanupFails ==
    /\ job.at \in {"list", "cleanup"}
    /\ DbMayFail
    /\ AfterBackup
    /\ UNCHANGED <<rows, disk, saves, up, del, counters>>

CleanupRemoves ==
    /\ job.at = "remove"
    /\ IF job.doomed = {}
       THEN AfterBackup /\ UNCHANGED <<disk, stuck>>
       ELSE \E f \in job.doomed :
                /\ Remove({f})
                /\ job' = [job EXCEPT !.doomed = job.doomed \ {f}]
    /\ UNCHANGED <<rows, saves, up, del, lastId, lastSec, plays, crashes, slipped>>

-----------------------------------------------------------------------------
(* RunRestore, after its backup *)

\* Supervisor.Stop may give up on a server that does not end.
RestoreStops ==
    /\ job.at = "stop"
    /\ up' \in {FALSE, up}
    /\ Goto("reverify")
    /\ UNCHANGED <<rows, disk, saves, del, counters>>

\* Restore verifies once more; the saves are untouched until then.
RestoreReverify ==
    /\ job.at = "reverify"
    /\ IF Verifies(job.src) THEN Goto("wipe") ELSE JobFails
    /\ UNCHANGED <<rows, disk, saves, up, del, counters>>

RestoreWipes ==
    /\ job.at = "wipe"
    /\ saves' = Partial
    /\ job' = [job EXCEPT !.at = "unpack", !.wiped = saves]
    /\ UNCHANGED <<rows, disk, up, del, counters>>

\* A server that is up writes its own files among those of the archive.
RestoreUnpacks ==
    /\ job.at = "unpack"
    /\ Verifies(job.src)
    /\ saves' \in {disk[job.src]} \cup (IF up THEN {Partial} ELSE {})
    /\ job' = NoJob
    /\ UNCHANGED <<rows, disk, up, del, counters>>

\* The archive is gone, or reading or writing failed: the rest is missing.
RestoreFails ==
    /\ job.at = "unpack"
    /\ JobFails
    /\ UNCHANGED <<rows, disk, saves, up, del, counters>>

-----------------------------------------------------------------------------
(* handleBackupDelete *)

Restoring == job.type = "preRestore"

DeleteAsk(u) ==
    /\ del[u].at = "none"
    /\ \E r \in rows : del' = [del EXCEPT ![u] = [at |-> "check", row |-> r]]
    /\ UNCHANGED <<rows, disk, saves, up, job, counters>>

\* Refused while a restore is running.
DeleteCheck(u) ==
    /\ del[u].at = "check"
    /\ del' = [del EXCEPT ![u] = IF Restoring THEN NoDel ELSE [@ EXCEPT !.at = "row"]]
    /\ UNCHANGED <<rows, disk, saves, up, job, counters>>

DeleteRow(u) ==
    /\ del[u].at = "row"
    /\ rows' = rows \ {del[u].row}
    /\ slipped' = (slipped \/ job.at = "cleanup")
    /\ del' = [del EXCEPT ![u] = IF del[u].row \in rows THEN [@ EXCEPT !.at = "file"] ELSE NoDel]
    /\ UNCHANGED <<disk, saves, up, job, lastId, lastSec, plays, crashes, stuck>>

DeleteFails(u) ==
    /\ del[u].at = "row"
    /\ DbMayFail
    /\ del' = [del EXCEPT ![u] = NoDel]
    /\ UNCHANGED <<rows, disk, saves, up, job, counters>>

\* When the file cannot be removed the request fails, but its row is gone.
DeleteFile(u) ==
    /\ del[u].at = "file"
    /\ Remove({del[u].row.file})
    /\ del' = [del EXCEPT ![u] = NoDel]
    /\ UNCHANGED <<rows, saves, up, job, lastId, lastSec, plays, crashes, slipped>>

-----------------------------------------------------------------------------
(* The game and the panel's end *)

\* Also during a restore: the restart button asks for none (PanelOps).
ServerStarts ==
    /\ ~up
    /\ up' = TRUE
    /\ UNCHANGED <<rows, disk, saves, job, del, counters>>

ServerSaves ==
    /\ up
    /\ plays < MaxPlays
    /\ plays' = plays + 1
    /\ saves' = IF job.at = "unpack" THEN Partial ELSE plays + 1
    /\ UNCHANGED <<rows, disk, up, job, del, lastId, lastSec, crashes, slipped, stuck>>

\* Whoever keeps the files of the server may remove its saves.
SavesRemoved ==
    /\ ~up /\ job.at = "idle"
    /\ saves' = Missing
    /\ UNCHANGED <<rows, disk, up, job, del, counters>>

\* Jobs and requests are gone, rows, files and the server stay.
PanelCrashes ==
    /\ crashes < MaxCrashes
    /\ crashes' = crashes + 1
    /\ job' = NoJob
    /\ del' = [u \in Users |-> NoDel]
    /\ UNCHANGED <<rows, disk, saves, up, lastId, lastSec, plays, slipped, stuck>>

-----------------------------------------------------------------------------
BackupNext == \/ BackupNoSaves \/ BackupBegins \/ BackupPacked \/ BackupFails
              \/ BackupAdds \/ CleanupLists \/ CleanupRows \/ CleanupFails
              \/ CleanupRemoves

RestoreNext == \/ RestoreVerify \/ RestoreStops \/ RestoreReverify
               \/ RestoreWipes \/ RestoreUnpacks \/ RestoreFails

DeleteNext(u) == \/ DeleteAsk(u) \/ DeleteCheck(u) \/ DeleteRow(u)
                 \/ DeleteFails(u) \/ DeleteFile(u)

Next == \/ BackupJob \/ RestoreJob \/ BackupNext \/ RestoreNext
        \/ \E u \in Users : DeleteNext(u)
        \/ ServerStarts \/ ServerSaves \/ SavesRemoved \/ PanelCrashes

Spec == Init /\ [][Next]_vars

-----------------------------------------------------------------------------
(* Properties *)

\* The types of the variables.
TypeOK ==
    /\ rows \subseteq Rows
    /\ DOMAIN disk \subseteq Files
    /\ \A f \in DOMAIN disk : disk[f] \in Saves
    /\ saves \in Saves \ {Half}
    /\ up \in BOOLEAN
    /\ job \in [at : JobSteps, type : Types \cup {"none"},
                src : Files \cup {NoFile}, file : Files \cup {NoFile},
                before : SUBSET Rows, doomed : SUBSET Files,
                first : Saves \ {Half}, plays : 0 .. MaxPlays, wiped : Saves]
    /\ del \in [Users -> [at : DelSteps, row : Rows \cup {NoRow}]]
    /\ lastId \in 0 .. MaxBackups /\ lastSec \in 0 .. MaxBackups
    /\ plays \in 0 .. MaxPlays /\ crashes \in 0 .. MaxCrashes
    /\ slipped \in BOOLEAN /\ stuck \subseteq Files

\* Every row of the table has its whole archive, whatever deletes run beside
\* the cleanup and wherever the panel crashes: rows are added after the file
\* is written and deleted before it is removed, and the end of an older list
\* holds no file of a row that stayed (service.go:95-96).
RowHasArchive == \A r \in rows : Verifies(r.file)

\* What a restore wiped is whole in the archive of its own backup, and the table
\* knows it, if the game saved nothing since that backup began to read: the restore
\* does not go on without it, and neither its cleanup nor a delete that slipped past
\* the check takes the net away before the jump (service.go:76-77).  A game that
\* saves while it is packed, or before it is wiped, may leave what is in no archive.
WipedIsArchived ==
    job.at = "unpack" /\ job.wiped # Missing /\ job.plays = plays =>
        \E r \in rows : r.file = job.file /\ Verifies(r.file) /\ disk[r.file] = job.wiped

\* Once no job and no delete is at work, every file has its row, but for those that
\* os.Remove could not remove: failed backups leave nothing behind, and every file
\* rolled out is removed (service.go:68, 95-96).  Two things besides leave a file for
\* good: a crash, and a delete between the list of a cleanup and its DELETE, which
\* shifts the count the files are taken by.
NoStrayFiles ==
    /\ job.at = "idle"
    /\ \A u \in Users : del[u].at = "none"
    /\ crashes = 0 /\ ~slipped
    => DOMAIN disk \ stuck = {r.file : r \in rows}

\* The archive a restore works from stays until the restore is over: it is not
\* deleted under its hands (backup_handlers.go:195-196).
SourceStays == job.at # "idle" /\ Restoring => job.src \in DOMAIN disk

=============================================================================
