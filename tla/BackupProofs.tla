---------------------------- MODULE BackupProofs ----------------------------
(***************************************************************************)
(* Machine-checked facts about Backup, for any number of deletes, archives, *)
(* plays and crashes, and any number of archives that are kept.  The        *)
(* inductive invariant says who has which row and file, where the files     *)
(* are that have no row, and what a restore has saved of what it wipes.     *)
(***************************************************************************)
EXTENDS Backup, TLAPS, FiniteSetTheorems

\* Archives of the same type begun in the same second share a file; what is
\* proved of rows and files is about panels that are not that fast.
Apart == ~SameSecond

-----------------------------------------------------------------------------
(* The rows anyone has: the table, a cleanup's list, the deletes *)

Deleting(at) == {u \in Users : del[u].at = at}
KnownRows == rows \cup job.before \cup {del[u].row : u \in Users \ Deleting("none")}

\* Ids and seconds are given out once.
KnownInv ==
    /\ \A r \in KnownRows : r \in Rows /\ r.id <= lastId /\ r.file[2] <= lastSec
    /\ \A r, s \in KnownRows : r.id = s.id \/ r.file = s.file => r = s
    /\ IsFiniteSet(rows) /\ IsFiniteSet(job.before)

\* An archive has no row until it is written, and none once it is removed.
FilesInv ==
    /\ \A r \in rows : Verifies(r.file)
    /\ job.at # "idle" => job.type \in Types
    /\ job.at \in {"verify", "backup"} => job.file = NoFile
    /\ job.at \in {"packing", "add"} =>
           /\ job.file \in Files /\ job.file[2] <= lastSec /\ job.file \in DOMAIN disk
           /\ \A r \in KnownRows : r.file # job.file
    /\ job.at = "add" => Verifies(job.file)
    /\ \A r \in rows : r.file \notin job.doomed
    /\ job.doomed # {} => job.at = "remove"
    /\ \A u \in Deleting("file") : del[u].row \notin rows

\* The list of a cleanup holds all rows, and no others unless a delete slipped in.
ListInv == job.at = "cleanup" => rows \subseteq job.before /\ (~slipped => rows = job.before)

\* Where the files are that have no row.
StrayInv ==
    crashes = 0 /\ ~slipped =>
        \A f \in DOMAIN disk \ stuck :
            \/ \E r \in rows : r.file = f
            \/ job.at \in {"packing", "add"} /\ f = job.file
            \/ f \in job.doomed
            \/ \E u \in Deleting("file") : del[u].row.file = f

\* A file that could not be removed is no row's, and never will be.
StuckInv ==
    /\ \A f \in DOMAIN disk \cup stuck : f[2] <= lastSec
    /\ \A r \in rows : r.file \notin stuck
    /\ job.at \in {"packing", "add"} => job.file \notin stuck

-----------------------------------------------------------------------------
(* The net of a restore *)

\* From its backup on a restore has what it will wipe, or has wiped, in the
\* newest archive, unless there was nothing or the game saved since.
Lost == IF job.at = "unpack" THEN job.wiped ELSE saves
Net == \E r \in rows :
          /\ r.id = lastId /\ r.file = job.file
          /\ \A u \in Deleting("row") : del[u].row # r
          /\ job.plays = plays => Lost = disk[job.file]
NetInv ==
    /\ job.plays <= plays
    /\ job.at = "packing" => (job.plays = plays => saves = job.first)
    /\ job.at = "add" => (job.plays = plays => saves = disk[job.file])
    /\ Restoring =>
           /\ job.at \in {"list", "cleanup", "remove"} => Net
           /\ job.at \in {"stop", "reverify", "wipe", "unpack"} =>
                  Net \/ (job.plays = plays => Lost = Missing)

\* Only a restore goes these steps.
RestoreInv == job.at \in {"verify", "stop", "reverify", "wipe", "unpack"} => Restoring

Inv == /\ TypeOK /\ KnownInv /\ FilesInv /\ ListInv /\ StrayInv /\ StuckInv
       /\ NetInv /\ RestoreInv

-----------------------------------------------------------------------------
(* The types *)

JobType == [at : JobSteps, type : Types \cup {"none"},
            src : Files \cup {NoFile}, file : Files \cup {NoFile},
            before : SUBSET Rows, doomed : SUBSET Files,
            first : Saves \ {Half}, plays : 0 .. MaxPlays, wiped : Saves]
DelType == [at : DelSteps, row : Rows \cup {NoRow}]

LEMMA Blanks ==
    /\ NoJob \in JobType /\ NoDel \in DelType
    /\ NoJob.at = "idle" /\ NoJob.type = "none" /\ NoJob.file = NoFile
    /\ NoJob.before = {} /\ NoJob.doomed = {} /\ NoJob.plays = 0
    /\ NoDel.at = "none"
  BY BackupAssumption DEF NoJob, NoDel, JobType, DelType, JobSteps, DelSteps, Saves, Missing, Half

\* A job that goes on keeps all but its place.
LEMMA GotoFacts ==
    ASSUME NEW at \in JobSteps, job \in JobType, Goto(at)
    PROVE  /\ job' \in JobType /\ job'.at = at
           /\ job'.type = job.type /\ job'.src = job.src /\ job'.file = job.file
           /\ job'.before = job.before /\ job'.doomed = job.doomed
           /\ job'.first = job.first /\ job'.plays = job.plays /\ job'.wiped = job.wiped
  BY DEF Goto, JobType

LEMMA TypeFacts ==
    ASSUME TypeOK
    PROVE  /\ job \in JobType /\ del \in [Users -> DelType]
           /\ rows \subseteq Rows /\ DOMAIN disk \subseteq Files
           /\ \A f \in DOMAIN disk : disk[f] \in Saves
           /\ MaxPlays \in Nat /\ MaxBackups \in Nat /\ Half \in Saves /\ Partial \in Saves
           /\ Missing \in Saves /\ Half # Partial /\ Half # Missing
           /\ plays \in Nat /\ plays <= MaxPlays /\ lastId \in Nat /\ lastSec \in Nat
           /\ saves \in Saves /\ saves # Half /\ slipped \in BOOLEAN /\ stuck \subseteq Files
           /\ Packed \subseteq Saves \ {Half}
  BY BackupAssumption DEF TypeOK, JobType, DelType, Saves, Half, Partial, Missing, Packed

LEMMA FileFacts == \A f \in Files : f[2] \in Nat /\ f[2] > 0 /\ f # NoFile
  BY DEF Files, NoFile, Types

\* The disk with a file more, and with some fewer.
LEMMA DiskFacts ==
    ASSUME NEW f, NEW content, NEW fs
    PROVE  /\ disk' = With(f, content) =>
                  /\ DOMAIN disk' = DOMAIN disk \cup {f} /\ disk'[f] = content
                  /\ \A g \in DOMAIN disk : g # f => disk'[g] = disk[g]
           /\ disk' = Without(fs) =>
                  /\ DOMAIN disk' = DOMAIN disk \ fs
                  /\ \A g \in DOMAIN disk' : disk'[g] = disk[g]
  BY DEF With, Without, Restrict

\* A file that is removed, or cannot be, and no other.
LEMMA RemoveFacts ==
    ASSUME NEW fs, Remove(fs)
    PROVE  /\ DOMAIN disk' \subseteq DOMAIN disk /\ DOMAIN disk \ fs \subseteq DOMAIN disk'
           /\ \A g \in DOMAIN disk' : disk'[g] = disk[g]
           /\ stuck \subseteq stuck' /\ stuck' \subseteq stuck \cup (fs \cap DOMAIN disk)
           /\ \A f \in DOMAIN disk' \ stuck' : f \in DOMAIN disk \ stuck /\ f \notin fs
<1>1. CASE disk' = Without(fs) /\ stuck' = stuck
  BY <1>1, DiskFacts
<1>2. CASE disk' = disk /\ stuck' = stuck \cup (fs \cap DOMAIN disk)
  BY <1>2
<1> QED BY <1>1, <1>2 DEF Remove

\* What a job has made up to where it is.
Placed ==
    /\ job.at # "idle" => job.type \in Types
    /\ job.at \in {"packing", "add"} => job.file \in Files

LEMMA Begun ==
    ASSUME TypeOK, BackupBegins
    PROVE  \E s \in 1 .. MaxBackups :
               /\ lastSec' = s /\ disk' = With(<<job.type, s>>, Half)
               /\ job' = [job EXCEPT !.at = "packing", !.file = <<job.type, s>>,
                                     !.first = saves, !.plays = plays]
<1>1. PICK s \in {lastSec + 1} \cup (IF SameSecond THEN {lastSec} \ {0} ELSE {}) :
          /\ s <= MaxBackups
          /\ lastSec' = s /\ disk' = With(<<job.type, s>>, Half)
          /\ job' = [job EXCEPT !.at = "packing", !.file = <<job.type, s>>,
                                !.first = saves, !.plays = plays]
  BY DEF BackupBegins
<1>2. s \in 1 .. MaxBackups
  BY <1>1, BackupAssumption DEF TypeOK
<1> QED BY <1>1, <1>2

LEMMA TypeStep ==
    ASSUME TypeOK, Placed, [Next]_vars
    PROVE  TypeOK'
<1>0. TypeOK
  OBVIOUS
<1>t. /\ rows \subseteq Rows /\ DOMAIN disk \subseteq Files /\ \A f \in DOMAIN disk : disk[f] \in Saves
      /\ saves \in Saves \ {Half} /\ up \in BOOLEAN /\ job \in JobType
      /\ del \in [Users -> DelType] /\ lastId \in 0 .. MaxBackups /\ lastSec \in 0 .. MaxBackups
      /\ plays \in 0 .. MaxPlays /\ crashes \in 0 .. MaxCrashes /\ slipped \in BOOLEAN
      /\ stuck \subseteq Files
  BY <1>0 DEF TypeOK, JobType, DelType
<1> SUFFICES /\ rows' \subseteq Rows /\ DOMAIN disk' \subseteq Files
             /\ \A f \in DOMAIN disk' : disk'[f] \in Saves
             /\ saves' \in Saves \ {Half} /\ up' \in BOOLEAN /\ job' \in JobType
             /\ del' \in [Users -> DelType] /\ lastId' \in 0 .. MaxBackups
             /\ lastSec' \in 0 .. MaxBackups
             /\ plays' \in 0 .. MaxPlays /\ crashes' \in 0 .. MaxCrashes /\ slipped' \in BOOLEAN
             /\ stuck' \subseteq Files
  BY DEF TypeOK, JobType, DelType
<1>s. \A at \in JobSteps : Goto(at) => job' \in JobType
  BY <1>t, GotoFacts
<1>a. AfterBackup => job' \in JobType
  BY <1>s, Blanks DEF AfterBackup, JobFails, JobSteps
<1>1. CASE BackupJob
  <2>1. \A t \in JobTypes : [NoJob EXCEPT !.at = "backup", !.type = t] \in JobType
    BY Blanks DEF JobType, JobSteps, Types
  <2> QED BY <1>t, <1>1, <2>1 DEF BackupJob, counters
<1>2. CASE RestoreJob
  <2>1. \A r \in Rows : [NoJob EXCEPT !.at = "verify", !.type = "preRestore", !.src = r.file] \in JobType
    BY Blanks DEF JobType, JobSteps, Types, Rows
  <2> QED BY <1>t, <1>2, <2>1 DEF RestoreJob, counters
<1>3. CASE RestoreVerify \/ RestoreReverify \/ RestoreFails \/ CleanupFails \/ RestoreStops
  BY <1>t, <1>3, <1>s, <1>a, Blanks
     DEF RestoreVerify, RestoreReverify, RestoreFails, CleanupFails, RestoreStops, JobFails,
         JobSteps, counters
<1>4. CASE BackupNoSaves
  <2>1. [job EXCEPT !.at = "stop", !.plays = plays] \in JobType
    BY <1>t DEF JobType, JobSteps
  <2> QED BY <1>t, <1>4, <2>1, Blanks DEF BackupNoSaves, JobFails, counters
<1>5. CASE BackupBegins
  <2>1. PICK s \in 1 .. MaxBackups :
            /\ lastSec' = s /\ disk' = With(<<job.type, s>>, Half)
            /\ job' = [job EXCEPT !.at = "packing", !.file = <<job.type, s>>,
                                  !.first = saves, !.plays = plays]
    BY <1>5, Begun
  <2>2. <<job.type, s>> \in Files
    BY <1>5 DEF BackupBegins, Placed, Files
  <2>3. job' \in JobType
    BY <1>t, <2>1, <2>2 DEF JobType, JobSteps
  <2>4. Half \in Saves
    BY <1>0, TypeFacts
  <2>5. DOMAIN disk' \subseteq Files /\ \A f \in DOMAIN disk' : disk'[f] \in Saves
    <3>1. /\ DOMAIN disk' = DOMAIN disk \cup {<<job.type, s>>} /\ disk'[<<job.type, s>>] = Half
          /\ \A g \in DOMAIN disk : g # <<job.type, s>> => disk'[g] = disk[g]
      BY <2>1, DiskFacts
    <3> QED BY <1>t, <2>2, <2>4, <3>1
  <2> QED BY <1>t, <1>5, <2>1, <2>3, <2>5 DEF BackupBegins
<1>6. CASE BackupPacked
  <2>1. PICK content \in Packed : disk' = With(job.file, content)
    BY <1>6 DEF BackupPacked
  <2>2. job' \in JobType /\ job.file \in Files /\ content \in Saves
    BY <1>0, <1>s, <1>6, TypeFacts DEF BackupPacked, Placed, JobSteps
  <2>3. DOMAIN disk' \subseteq Files /\ \A f \in DOMAIN disk' : disk'[f] \in Saves
    <3>1. /\ DOMAIN disk' = DOMAIN disk \cup {job.file} /\ disk'[job.file] = content
          /\ \A g \in DOMAIN disk : g # job.file => disk'[g] = disk[g]
      BY <2>1, DiskFacts
    <3> QED BY <1>t, <2>2, <3>1
  <2> QED BY <1>t, <1>6, <2>2, <2>3 DEF BackupPacked, counters
<1>7. CASE BackupFails
  <2>1. Remove({job.file}) /\ job' = NoJob
    BY <1>7 DEF BackupFails, JobFails
  <2> QED BY <1>t, <1>7, <2>1, Blanks, RemoveFacts DEF BackupFails
<1>8. CASE BackupAdds
  <2>1. /\ rows' = rows \cup {[id |-> lastId + 1, file |-> job.file]} /\ lastId' = lastId + 1
        /\ lastId < MaxBackups /\ job.file \in Files /\ Goto("list") /\ "list" \in JobSteps
    BY <1>8 DEF BackupAdds, Placed, JobSteps
  <2>2. lastId' \in 1 .. MaxBackups
    BY <1>t, <2>1, BackupAssumption
  <2>3. [id |-> lastId + 1, file |-> job.file] \in Rows
    BY <2>1, <2>2 DEF Rows
  <2> QED BY <1>t, <1>8, <1>s, <2>1, <2>2, <2>3 DEF BackupAdds
<1>9. CASE CleanupLists
  <2>1. [job EXCEPT !.at = "cleanup", !.before = rows] \in JobType
    BY <1>t DEF JobType, JobSteps
  <2> QED BY <1>t, <1>9, <2>1 DEF CleanupLists, counters
<1>10. CASE CleanupRows
  <2>1. rows' \subseteq rows
    BY <1>10 DEF CleanupRows, Newest
  <2>2. \A n : Doomed(job.before, n) \subseteq Files
    BY <1>t DEF Doomed, Oldest, JobType, Rows
  <2>3. \A n : [job EXCEPT !.at = "remove", !.doomed = Doomed(job.before, n)] \in JobType
    BY <1>t, <2>2 DEF JobType, JobSteps
  <2>4. job' \in JobType
    BY <1>10, <1>a, <2>3 DEF CleanupRows
  <2> QED BY <1>t, <1>10, <2>1, <2>4 DEF CleanupRows, counters
<1>11. CASE CleanupRemoves
  <2>1. \A f : [job EXCEPT !.doomed = job.doomed \ {f}] \in JobType
    BY <1>t DEF JobType
  <2>2. UNCHANGED <<disk, stuck>> \/ \E f : Remove({f})
    BY <1>11 DEF CleanupRemoves
  <2>3. /\ DOMAIN disk' \subseteq DOMAIN disk /\ \A g \in DOMAIN disk' : disk'[g] = disk[g]
        /\ stuck' \subseteq stuck \cup DOMAIN disk
    BY <2>2, RemoveFacts
  <2>4. job' \in JobType
    BY <1>11, <1>a, <2>1 DEF CleanupRemoves
  <2> QED BY <1>t, <1>11, <2>3, <2>4 DEF CleanupRemoves
<1>12. CASE RestoreWipes
  <2>1. [job EXCEPT !.at = "unpack", !.wiped = saves] \in JobType
    BY <1>t DEF JobType, JobSteps
  <2> QED BY <1>t, <1>0, <1>12, <2>1, TypeFacts DEF RestoreWipes, counters
<1>13. CASE RestoreUnpacks
  <2>1. Partial \in Saves \ {Half}
    BY <1>0, TypeFacts
  <2> QED BY <1>t, <1>13, <2>1, Blanks DEF RestoreUnpacks, Verifies, counters
<1>14. ASSUME NEW u \in Users, DeleteNext(u)
       PROVE  /\ del' \in [Users -> DelType] /\ rows' \subseteq rows /\ slipped' \in BOOLEAN
              /\ DOMAIN disk' \subseteq DOMAIN disk
              /\ \A f \in DOMAIN disk' : disk'[f] = disk[f]
              /\ stuck' \subseteq stuck \cup DOMAIN disk
              /\ UNCHANGED <<saves, up, job, lastId, lastSec, plays, crashes>>
  <2>1. \A r \in Rows : [at |-> "check", row |-> r] \in DelType
    BY DEF DelType, DelSteps
  <2>2. [del[u] EXCEPT !.at = "row"] \in DelType /\ [del[u] EXCEPT !.at = "file"] \in DelType
    BY <1>t DEF DelType, DelSteps
  <2>3. CASE DeleteAsk(u) \/ DeleteCheck(u) \/ DeleteFails(u)
    BY <1>t, <2>1, <2>2, <2>3, Blanks DEF DeleteAsk, DeleteCheck, DeleteFails, counters
  <2>4. CASE DeleteRow(u)
    <3>1. slipped' \in BOOLEAN
      BY <1>t, <2>4, Zenon DEF DeleteRow
    <3> QED BY <1>t, <2>2, <2>4, <3>1, Blanks DEF DeleteRow
  <2>5. CASE DeleteFile(u)
    BY <1>t, <2>5, Blanks, RemoveFacts DEF DeleteFile
  <2> QED BY <1>14, <2>3, <2>4, <2>5 DEF DeleteNext
<1>15. CASE ServerStarts \/ SavesRemoved
  BY <1>t, <1>0, <1>15, TypeFacts DEF ServerStarts, SavesRemoved, counters
<1>16. CASE ServerSaves
  <2>1. plays + 1 \in 0 .. MaxPlays /\ plays + 1 \in Saves \ {Half}
    BY <1>t, <1>16, BackupAssumption DEF ServerSaves, Saves, Half
  <2>2. Partial \in Saves \ {Half}
    BY <1>0, TypeFacts
  <2> QED BY <1>t, <1>16, <2>1, <2>2 DEF ServerSaves
<1>17. CASE PanelCrashes
  BY <1>t, <1>17, Blanks, BackupAssumption DEF PanelCrashes
<1>18. CASE UNCHANGED vars
  BY <1>t, <1>18 DEF vars, counters
<1> QED BY <1>1, <1>2, <1>3, <1>4, <1>5, <1>6, <1>7, <1>8, <1>9, <1>10, <1>11, <1>12, <1>13,
           <1>14, <1>15, <1>16, <1>17, <1>18, <1>t DEF Next, BackupNext, RestoreNext

LEMMA PlacedStep ==
    ASSUME TypeOK, Placed, [Next]_vars
    PROVE  Placed'
<1>t. job \in JobType
  BY DEF TypeOK, JobType
<1>j. NoJob.at = "idle"
  BY DEF NoJob
<1>s. \A at \in JobSteps \ {"packing", "add"} : job.at # "idle" /\ Goto(at) => Placed'
  BY <1>t, GotoFacts DEF Placed, Goto, JobType
<1>a. job.at # "idle" /\ AfterBackup => Placed'
  BY <1>s, <1>j DEF AfterBackup, JobFails, JobSteps, Placed
<1>k. UNCHANGED job => Placed'
  BY DEF Placed
<1>1. CASE BackupJob
  BY <1>1 DEF BackupJob, NoJob, Types, Placed
<1>2. CASE RestoreJob
  BY <1>2 DEF RestoreJob, NoJob, Types, Placed
<1>3. CASE RestoreVerify \/ RestoreReverify \/ RestoreFails \/ CleanupFails \/ RestoreStops
  BY <1>3, <1>s, <1>a, <1>j
     DEF RestoreVerify, RestoreReverify, RestoreFails, CleanupFails, RestoreStops, JobFails,
         JobSteps, Placed
<1>4. CASE BackupNoSaves \/ BackupFails
  BY <1>t, <1>4, <1>j DEF BackupNoSaves, BackupFails, BackupMayFail, JobFails, Placed, JobType
<1>5. CASE BackupBegins
  <2>1. PICK s \in 1 .. MaxBackups :
            job' = [job EXCEPT !.at = "packing", !.file = <<job.type, s>>,
                               !.first = saves, !.plays = plays]
    BY <1>5, Begun
  <2>2. job'.type = job.type /\ job'.file = <<job.type, s>> /\ job.type \in Types
    BY <1>t, <1>5, <2>1 DEF BackupBegins, Placed, JobType
  <2> QED BY <2>2 DEF Placed, Files
<1>6. CASE BackupPacked \/ CleanupLists \/ RestoreWipes
  BY <1>t, <1>6 DEF BackupPacked, Goto, CleanupLists, RestoreWipes, Placed, JobType
<1>7. CASE BackupAdds
  BY <1>7, <1>s DEF BackupAdds, JobSteps
<1>8. CASE CleanupRows
  <2>1. \/ AfterBackup
        \/ \E n : job' = [job EXCEPT !.at = "remove", !.doomed = Doomed(job.before, n)]
    BY <1>8 DEF CleanupRows
  <2> QED BY <1>t, <1>8, <1>a, <2>1 DEF CleanupRows, Placed, JobType
<1>9. CASE CleanupRemoves
  <2>1. AfterBackup \/ \E f : job' = [job EXCEPT !.doomed = job.doomed \ {f}]
    BY <1>9 DEF CleanupRemoves
  <2> QED BY <1>t, <1>9, <1>a, <2>1 DEF CleanupRemoves, Placed, JobType
<1>10. CASE RestoreUnpacks \/ PanelCrashes
  BY <1>10, <1>j DEF RestoreUnpacks, PanelCrashes, Placed
<1>11. ASSUME NEW u \in Users, DeleteNext(u) PROVE UNCHANGED job
  BY <1>11 DEF DeleteNext, DeleteAsk, DeleteCheck, DeleteRow, DeleteFails, DeleteFile
<1>12. CASE ServerStarts \/ ServerSaves \/ SavesRemoved \/ UNCHANGED vars
  BY <1>12 DEF ServerStarts, ServerSaves, SavesRemoved, vars, Placed
<1> QED BY <1>1, <1>2, <1>3, <1>4, <1>5, <1>6, <1>7, <1>8, <1>9, <1>10, <1>11, <1>12, <1>k
        DEF Next, BackupNext, RestoreNext

-----------------------------------------------------------------------------
(* The rows *)

\* But for a new backup's, nobody gets a row that nobody had.
Shrinks ==
    /\ rows' \subseteq rows
    /\ job'.before \in {job.before, rows, {}}
    /\ \A u \in Users : \/ del'[u].at = "none"
                        \/ del[u].at # "none" /\ del'[u].row = del[u].row
                        \/ del'[u].row \in rows
    /\ lastId' = lastId /\ lastSec' >= lastSec

LEMMA AfterBackupFacts ==
    ASSUME TypeOK, AfterBackup
    PROVE  /\ job' = NoJob \/ (Restoring /\ job'.at = "stop")
           /\ ~Restoring => job' = NoJob
           /\ Restoring => /\ job'.at = "stop" /\ job'.type = job.type /\ job'.src = job.src
                           /\ job'.file = job.file /\ job'.before = job.before
                           /\ job'.doomed = job.doomed /\ job'.plays = job.plays
                           /\ job'.wiped = job.wiped
<1>1. job \in JobType
  BY TypeFacts
<1>2. CASE Restoring
  <2>1. Goto("stop") /\ "stop" \in JobSteps
    BY <1>2 DEF AfterBackup, Restoring, JobSteps
  <2> QED BY <1>1, <1>2, <2>1, GotoFacts
<1>3. CASE ~Restoring
  BY <1>3 DEF AfterBackup, Restoring, JobFails
<1> QED BY <1>2, <1>3

LEMMA ShrinkStep ==
    ASSUME TypeOK, [Next]_vars
    PROVE  BackupAdds \/ Shrinks
<1>t. /\ job \in JobType /\ del \in [Users -> DelType] /\ lastSec \in Nat
  BY TypeFacts
<1>l. lastSec <= lastSec
  BY <1>t
<1>a. AfterBackup => job'.before \in {job.before, rows, {}}
  BY AfterBackupFacts, Blanks
<1>g. \A at \in JobSteps : Goto(at) => job'.before = job.before
  BY <1>t, GotoFacts
<1>1. CASE BackupJob
  BY <1>t, <1>l, <1>1, Blanks DEF BackupJob, counters, Shrinks, NoJob
<1>2. CASE RestoreJob
  BY <1>t, <1>l, <1>2, Blanks DEF RestoreJob, counters, Shrinks, NoJob
<1>3. CASE RestoreVerify \/ RestoreReverify \/ RestoreFails \/ CleanupFails \/ RestoreStops
  BY <1>t, <1>l, <1>3, <1>g, <1>a, Blanks
     DEF RestoreVerify, RestoreReverify, RestoreFails, CleanupFails, RestoreStops, JobFails,
         JobSteps, counters, Shrinks
<1>4. CASE BackupNoSaves
  <2>1. job'.before = job.before \/ job' = NoJob
    BY <1>t, <1>4 DEF BackupNoSaves, JobFails, JobType
  <2> QED BY <1>t, <1>l, <1>4, <2>1, Blanks DEF BackupNoSaves, counters, Shrinks
<1>5. CASE BackupBegins
  <2>1. job'.before = job.before
    BY <1>t, <1>5 DEF BackupBegins, JobType
  <2>2. lastSec' >= lastSec
    BY <1>t, <1>5 DEF BackupBegins
  <2> QED BY <1>t, <1>5, <2>1, <2>2 DEF BackupBegins, Shrinks
<1>6. CASE BackupPacked \/ RestoreWipes \/ RestoreUnpacks
  <2>1. job'.before = job.before \/ job' = NoJob
    BY <1>t, <1>6 DEF BackupPacked, Goto, RestoreWipes, RestoreUnpacks, JobType
  <2> QED BY <1>t, <1>l, <1>6, <2>1, Blanks
        DEF BackupPacked, RestoreWipes, RestoreUnpacks, counters, Shrinks
<1>7. CASE BackupFails
  BY <1>t, <1>l, <1>7, Blanks DEF BackupFails, JobFails, Shrinks
<1>8. CASE CleanupLists
  BY <1>t, <1>l, <1>8 DEF CleanupLists, counters, Shrinks, JobType
<1>9. CASE CleanupRows
  <2>1. rows' \subseteq rows
    BY <1>9 DEF CleanupRows, Newest
  <2>2. job'.before \in {job.before, rows, {}}
    BY <1>t, <1>9, <1>a DEF CleanupRows, JobType
  <2> QED BY <1>t, <1>l, <1>9, <2>1, <2>2 DEF CleanupRows, counters, Shrinks
<1>10. CASE CleanupRemoves
  <2>1. job'.before \in {job.before, rows, {}}
    BY <1>t, <1>10, <1>a DEF CleanupRemoves, JobType
  <2> QED BY <1>t, <1>l, <1>10, <2>1 DEF CleanupRemoves, Shrinks
<1>11. ASSUME NEW u \in Users, DeleteNext(u) PROVE Shrinks
  <2>1. rows' \subseteq rows /\ job' = job /\ lastId' = lastId /\ lastSec' = lastSec
    BY <1>11 DEF DeleteNext, DeleteAsk, DeleteCheck, DeleteRow, DeleteFails, DeleteFile, counters
  <2>2. \A v \in Users : v # u => del'[v] = del[v]
    BY <1>t, <1>11 DEF DeleteNext, DeleteAsk, DeleteCheck, DeleteRow, DeleteFails, DeleteFile
  <2>3. \/ del'[u].at = "none"
        \/ del[u].at # "none" /\ del'[u].row = del[u].row
        \/ del'[u].row \in rows
    BY <1>t, <1>11, Blanks
       DEF DeleteNext, DeleteAsk, DeleteCheck, DeleteRow, DeleteFails, DeleteFile, DelType
  <2> QED BY <1>l, <2>1, <2>2, <2>3 DEF Shrinks
<1>12. CASE ServerStarts \/ SavesRemoved \/ ServerSaves
  BY <1>l, <1>12 DEF ServerStarts, SavesRemoved, ServerSaves, counters, Shrinks
<1>13. CASE PanelCrashes
  BY <1>l, <1>13, Blanks DEF PanelCrashes, Shrinks
<1>14. CASE UNCHANGED vars
  BY <1>l, <1>14 DEF vars, counters, Shrinks
<1> QED BY <1>1, <1>2, <1>3, <1>4, <1>5, <1>6, <1>7, <1>8, <1>9, <1>10, <1>11, <1>12, <1>13,
           <1>14 DEF Next, BackupNext, RestoreNext

LEMMA KnownOnes ==
    /\ rows \subseteq KnownRows /\ job.before \subseteq KnownRows
    /\ \A u \in Users : del[u].at # "none" => del[u].row \in KnownRows
  BY DEF KnownRows, Deleting

LEMMA KnownFewer == Shrinks => KnownRows' \subseteq KnownRows
<1> SUFFICES ASSUME Shrinks, NEW r \in KnownRows' PROVE r \in KnownRows
  OBVIOUS
<1>1. \/ r \in rows' \/ r \in job'.before
      \/ \E u \in Users : del'[u].at # "none" /\ r = del'[u].row
  BY DEF KnownRows, Deleting
<1> QED BY <1>1, KnownOnes DEF Shrinks

\* The row of a new backup.
Added == [id |-> lastId + 1, file |-> job.file]

LEMMA AddFacts ==
    ASSUME TypeOK, BackupAdds
    PROVE  /\ job.at = "add" /\ rows' = rows \cup {Added} /\ lastId' = lastId + 1
           /\ Added.id = lastId + 1 /\ Added.file = job.file
           /\ job'.at = "list" /\ job'.type = job.type /\ job'.src = job.src /\ job'.file = job.file
           /\ job'.before = job.before /\ job'.doomed = job.doomed
           /\ job'.plays = job.plays /\ job'.wiped = job.wiped
           /\ UNCHANGED <<disk, saves, up, del, lastSec, plays, crashes, slipped, stuck>>
           /\ KnownRows' \subseteq KnownRows \cup {Added}
<1>1. Goto("list") /\ "list" \in JobSteps /\ job \in JobType
  BY TypeFacts DEF BackupAdds, JobSteps
<1>2. job'.before = job.before /\ rows' = rows \cup {Added} /\ del' = del
  BY <1>1, GotoFacts DEF BackupAdds, Added
<1>3. KnownRows' \subseteq KnownRows \cup {Added}
  BY <1>2 DEF KnownRows, Deleting
<1> QED BY <1>1, <1>3, GotoFacts DEF BackupAdds, Added

LEMMA KnownStep ==
    ASSUME Inv, TypeOK', [Next]_vars
    PROVE  KnownInv'
<1>0. TypeOK /\ KnownInv /\ lastId \in Nat /\ lastSec \in Nat /\ lastId' \in Nat /\ lastSec' \in Nat
      /\ rows' \subseteq Rows
  BY BackupAssumption DEF Inv, TypeOK
<1>f. \A r \in Rows : r.id \in Nat /\ r.file[2] \in Nat
  BY FileFacts, BackupAssumption DEF Rows
<1>1. CASE Shrinks
  <2>1. KnownRows' \subseteq KnownRows
    BY <1>1, KnownFewer
  <2>2. IsFiniteSet(rows') /\ IsFiniteSet(job'.before)
    BY <1>0, <1>1, FS_Subset, FS_EmptySet DEF Shrinks, KnownInv
  <2>3. \A r \in KnownRows' : r \in Rows /\ r.id <= lastId' /\ r.file[2] <= lastSec'
    BY <1>0, <1>1, <1>f, <2>1 DEF Shrinks, KnownInv
  <2>4. \A r, s \in KnownRows' : r.id = s.id \/ r.file = s.file => r = s
    BY <1>0, <2>1 DEF KnownInv
  <2> QED BY <2>2, <2>3, <2>4 DEF KnownInv
<1>2. CASE BackupAdds
  <2>1. /\ job.at = "add" /\ rows' = rows \cup {Added} /\ lastId' = lastId + 1
        /\ Added.id = lastId + 1 /\ Added.file = job.file /\ job'.before = job.before
        /\ lastSec' = lastSec /\ KnownRows' \subseteq KnownRows \cup {Added}
    BY <1>0, <1>2, AddFacts
  <2>2. IsFiniteSet(rows') /\ IsFiniteSet(job'.before)
    BY <1>0, <2>1, FS_AddElement DEF KnownInv
  <2>3. Added \in Rows /\ Added.file[2] <= lastSec /\ \A r \in KnownRows : r.file # Added.file
    BY <1>0, <2>1 DEF Inv, FilesInv
  <2>4. \A r \in KnownRows : r \in Rows /\ r.id <= lastId /\ r.file[2] <= lastSec /\ r.id # lastId + 1
    BY <1>0, <1>f DEF KnownInv
  <2>5. \A r \in KnownRows' : r \in Rows /\ r.id <= lastId' /\ r.file[2] <= lastSec'
    BY <1>0, <1>f, <2>1, <2>3, <2>4
  <2>6. \A r, s \in KnownRows' : r.id = s.id \/ r.file = s.file => r = s
    BY <1>0, <2>1, <2>3, <2>4 DEF KnownInv
  <2> QED BY <2>2, <2>5, <2>6 DEF KnownInv
<1> QED BY <1>0, <1>1, <1>2, ShrinkStep

-----------------------------------------------------------------------------
(* The cleanup *)

\* What a cleanup keeps of the rows R is newer than all it deletes, and as many
\* of the oldest in the list B are not kept: of B = R, just those it deletes.
LEMMA CleanupSets ==
    ASSUME NEW B, NEW R \in SUBSET B, IsFiniteSet(B), NEW K \in Nat \ {0},
           \A r \in B : r.id \in Nat, \A r, s \in B : r.id = s.id => r = s,
           NEW n, n = Cardinality(R) - Cardinality(Newest(R, K))
    PROVE  /\ \A r \in R : (\A x \in R : x.id <= r.id) => r \in Newest(R, K)
           /\ \A r \in Newest(R, K) : r \in R /\ r \notin Oldest(B, n)
           /\ R = B => R \ Newest(R, K) \subseteq Oldest(B, n)
           /\ n \in Nat /\ n <= Cardinality(B) /\ (n = 0 => Newest(R, K) = R)
<1> DEFINE kept == Newest(R, K)
           gone == R \ kept
           above(r) == {x \in R : x.id > r.id}
<1>1. /\ IsFiniteSet(R) /\ kept \subseteq R /\ IsFiniteSet(kept) /\ IsFiniteSet(gone)
      /\ Cardinality(R) \in Nat /\ Cardinality(kept) \in Nat /\ Cardinality(gone) \in Nat
      /\ Cardinality(R) <= Cardinality(B) /\ Cardinality(B) \in Nat
  <2>1. kept \subseteq R /\ gone \subseteq R
    BY DEF Newest
  <2>2. IsFiniteSet(R) /\ Cardinality(R) <= Cardinality(B)
    BY FS_Subset
  <2> QED BY <2>1, <2>2, FS_Subset, FS_CardinalityType
<1>2. n = Cardinality(gone)
  <2>1. Cardinality(gone) = Cardinality(R) - Cardinality(R \cap kept)
    BY <1>1, FS_Difference
  <2>2. R \cap kept = kept
    BY <1>1
  <2> QED BY <2>1, <2>2
<1>3. ASSUME NEW r \in kept, NEW x \in gone PROVE x.id < r.id
  <2>1. Cardinality(above(r)) < K /\ ~(Cardinality(above(x)) < K)
    BY DEF Newest
  <2>2. /\ IsFiniteSet(above(r)) /\ Cardinality(above(r)) \in Nat
        /\ IsFiniteSet(above(x)) /\ Cardinality(above(x)) \in Nat
    <3>1. above(r) \subseteq R /\ above(x) \subseteq R
      OBVIOUS
    <3>2. IsFiniteSet(above(r)) /\ IsFiniteSet(above(x))
      BY <1>1, <3>1, FS_Subset
    <3> QED BY <3>2, FS_CardinalityType
  <2>3. CASE x.id >= r.id
    <3>1. above(x) \subseteq above(r)
      <4>1. \A y \in R : y.id \in Nat
        OBVIOUS
      <4>2. r.id \in Nat /\ x.id \in Nat
        BY <1>1, <4>1
      <4> QED BY <2>3, <4>1, <4>2
    <3>2. Cardinality(above(x)) <= Cardinality(above(r))
      BY <2>2, <3>1, FS_Subset
    <3> QED BY <2>1, <2>2, <3>2
  <2> QED BY <1>1, <2>3
<1>4. ASSUME NEW r \in R, \A x \in R : x.id <= r.id PROVE r \in kept
  <2>1. above(r) = {}
    <3>1. \A x \in R : x.id \in Nat
      OBVIOUS
    <3> QED BY <1>4, <3>1
  <2>2. Cardinality(above(r)) = 0
    BY <2>1, FS_EmptySet
  <2> QED BY <2>2 DEF Newest
<1>5. ASSUME NEW r \in kept, r \in Oldest(B, n) PROVE FALSE
  <2> DEFINE below == {x \in B : x.id < r.id}
  <2>1. Cardinality(below) < n
    BY <1>5 DEF Oldest
  <2>2. gone \subseteq below /\ below \subseteq B
    BY <1>3
  <2>3. IsFiniteSet(below) /\ Cardinality(below) \in Nat
    BY <2>2, FS_Subset, FS_CardinalityType
  <2>4. Cardinality(gone) <= Cardinality(below)
    BY <2>2, <2>3, FS_Subset
  <2> HIDE DEF gone, below
  <2> QED BY <1>1, <1>2, <2>1, <2>3, <2>4
<1>6. ASSUME R = B, NEW x \in gone PROVE x \in Oldest(B, n)
  <2> DEFINE below == {y \in B : y.id < x.id}
  <2>1. below \subseteq gone /\ x \in gone /\ x \notin below
    <3>1. \A y \in B : y.id \in Nat
      OBVIOUS
    <3>2. \A y \in below : y \in R /\ y \notin kept
      BY <1>3, <1>6, <3>1
    <3> QED BY <3>1, <3>2
  <2>2. Cardinality(below) <= Cardinality(gone) /\ Cardinality(below) # Cardinality(gone)
    BY <1>1, <2>1, FS_Subset
  <2>3. Cardinality(below) \in Nat
    <3>1. IsFiniteSet(below)
      BY <1>1, <2>1, FS_Subset
    <3> QED BY <3>1, FS_CardinalityType
  <2>4. Cardinality(below) < n
    <3> HIDE DEF below, gone
    <3> QED BY <1>1, <1>2, <2>2, <2>3
  <2> QED BY <1>6, <2>4 DEF Oldest
<1>7. n \in Nat /\ n <= Cardinality(B) /\ (n = 0 => kept = R)
  <2>1. n = 0 => gone = {}
    BY <1>1, <1>2, FS_EmptySet
  <2>2. n \in Nat
    BY <1>1, <1>2
  <2>3. n <= Cardinality(B)
    BY <1>1, FS_Subset
  <2> QED BY <1>1, <2>1, <2>2, <2>3
<1> QED BY <1>1, <1>4, <1>5, <1>6, <1>7

LEMMA CleanupFacts ==
    ASSUME Inv, CleanupRows
    PROVE  /\ job.at = "cleanup" /\ UNCHANGED <<disk, saves, up, del, counters>>
           /\ rows' \subseteq rows
           /\ \A r \in rows : r.id = lastId => r \in rows'
           /\ \/ AfterBackup /\ rows' = rows
              \/ /\ job'.at = "remove" /\ job'.type = job.type /\ job'.src = job.src
                 /\ job'.file = job.file /\ job'.before = job.before
                 /\ job'.plays = job.plays /\ job'.wiped = job.wiped
                 /\ \A r \in rows' : r.file \notin job'.doomed
                 /\ ~slipped => \A r \in rows \ rows' : r.file \in job'.doomed
<1> DEFINE n == Cardinality(rows) - Cardinality(Newest(rows, KeepCount))
<1>1. /\ job.at = "cleanup" /\ rows' = Newest(rows, KeepCount)
      /\ IF n = 0 \/ n > Cardinality(job.before)
         THEN AfterBackup
         ELSE job' = [job EXCEPT !.at = "remove", !.doomed = Doomed(job.before, n)]
      /\ UNCHANGED <<disk, saves, up, del, counters>>
  BY DEF CleanupRows
<1>2. /\ rows \subseteq job.before /\ (~slipped => rows = job.before)
      /\ IsFiniteSet(job.before) /\ job \in JobType
      /\ \A r \in job.before : r \in Rows /\ r.id \in Nat /\ r.id <= lastId
      /\ \A r, s \in job.before : r.id = s.id \/ r.file = s.file => r = s
  BY <1>1, KnownOnes, TypeFacts, BackupAssumption DEF Inv, ListInv, KnownInv, Rows
<1>3. /\ \A r \in rows : (\A x \in rows : x.id <= r.id) => r \in rows'
      /\ \A r \in rows' : r \in rows /\ r \notin Oldest(job.before, n)
      /\ rows = job.before => rows \ rows' \subseteq Oldest(job.before, n)
      /\ n \in Nat /\ n <= Cardinality(job.before) /\ (n = 0 => rows' = rows)
  <2> HIDE DEF n
  <2> QED BY <1>1, <1>2, BackupAssumption, CleanupSets DEF n
<1>4. Cardinality(job.before) \in Nat
  BY <1>2, FS_CardinalityType
<1>5. CASE n = 0
  BY <1>1, <1>2, <1>3, <1>5
<1>6. CASE n # 0
  <2>1. job' = [job EXCEPT !.at = "remove", !.doomed = Doomed(job.before, n)]
    BY <1>1, <1>3, <1>4, <1>6
  <2> HIDE DEF n
  <2>2. /\ job'.at = "remove" /\ job'.type = job.type /\ job'.src = job.src
        /\ job'.file = job.file /\ job'.before = job.before
        /\ job'.plays = job.plays /\ job'.wiped = job.wiped
        /\ job'.doomed = Doomed(job.before, n)
    BY <1>2, <2>1 DEF JobType
  <2>3. \A r \in rows' : r.file \notin Doomed(job.before, n)
    <3>1. Oldest(job.before, n) \subseteq job.before
      BY DEF Oldest
    <3> QED BY <1>2, <1>3, <3>1 DEF Doomed
  <2>4. ~slipped => \A r \in rows \ rows' : r.file \in Doomed(job.before, n)
    BY <1>2, <1>3 DEF Doomed
  <2> QED BY <1>1, <1>2, <1>3, <2>2, <2>3, <2>4
<1> QED BY <1>5, <1>6

-----------------------------------------------------------------------------
(* The files *)

\* A job that goes on or begins or ends with no file under way.
JobGoesOn ==
    /\ UNCHANGED <<rows, disk, del, counters>>
    /\ job.at \notin {"packing", "add"} /\ job.doomed = {}
    /\ job'.at \notin {"packing", "add"} /\ job'.doomed = {}
    /\ job'.at # "idle" => job'.type \in Types
    /\ job'.at \in {"verify", "backup"} => job'.file = NoFile
    /\ job'.before \in {job.before, rows, {}}
    /\ job'.at = "cleanup" => job'.before = rows

LEMMA GoesOnStep ==
    ASSUME Inv, BackupJob \/ RestoreJob \/ RestoreVerify \/ RestoreReverify \/ RestoreFails
                \/ CleanupFails \/ RestoreStops \/ BackupNoSaves \/ CleanupLists
                \/ RestoreWipes \/ RestoreUnpacks
    PROVE  JobGoesOn
<1>t. /\ TypeOK /\ job \in JobType
      /\ job.at # "remove" => job.doomed = {}
      /\ job.at # "idle" => job.type \in Types
      /\ job.at \in {"verify", "backup"} => job.file = NoFile
      /\ job.at = "cleanup" => rows \subseteq job.before
  BY TypeFacts DEF Inv, FilesInv, ListInv
<1>i. job' = NoJob => /\ job'.at = "idle" /\ job'.doomed = {} /\ job'.before = {}
  BY Blanks
<1>g. \A at \in JobSteps : Goto(at) =>
          /\ job'.at = at /\ job'.type = job.type /\ job'.file = job.file
          /\ job'.before = job.before /\ job'.doomed = job.doomed
  BY <1>t, GotoFacts
<1>1. CASE BackupJob \/ RestoreJob
  BY <1>t, <1>1 DEF BackupJob, RestoreJob, NoJob, Types, JobGoesOn
<1>2. CASE RestoreVerify \/ RestoreReverify \/ RestoreStops \/ RestoreFails
  BY <1>t, <1>2, <1>i, <1>g DEF RestoreVerify, RestoreReverify, RestoreStops, RestoreFails, JobFails,
     JobSteps, JobGoesOn
<1>3. CASE CleanupFails
  BY <1>t, <1>3, <1>i, AfterBackupFacts DEF CleanupFails, JobGoesOn
<1>4. CASE BackupNoSaves \/ CleanupLists \/ RestoreWipes \/ RestoreUnpacks
  BY <1>t, <1>4, <1>i DEF BackupNoSaves, CleanupLists, RestoreWipes, RestoreUnpacks, JobFails,
     JobType, JobGoesOn
<1> QED BY <1>1, <1>2, <1>3, <1>4

\* All that is said of the files.
DiskInv == FilesInv /\ ListInv /\ StrayInv /\ StuckInv

LEMMA JobGoesOnFiles ==
    ASSUME Inv, JobGoesOn
    PROVE  DiskInv'
<1>1. KnownRows' \subseteq KnownRows /\ Deleting("file")' = Deleting("file")
  BY KnownOnes DEF JobGoesOn, KnownRows, Deleting
<1>2. FilesInv'
  BY <1>1 DEF Inv, FilesInv, JobGoesOn, Verifies
<1>3. ListInv'
  BY DEF ListInv, JobGoesOn, counters
<1>4. StrayInv'
  BY <1>1 DEF Inv, StrayInv, JobGoesOn, counters
<1>5. StuckInv'
  BY DEF Inv, StuckInv, JobGoesOn, counters
<1> QED BY <1>2, <1>3, <1>4, <1>5 DEF DiskInv

LEMMA BeginFacts ==
    ASSUME Apart, Inv, BackupBegins
    PROVE  LET f == <<job.type, lastSec + 1>>
           IN  /\ job.at = "backup" /\ job'.at = "packing" /\ job'.file = f
               /\ job'.type = job.type /\ job'.src = job.src /\ job'.before = job.before
               /\ job'.doomed = job.doomed /\ job'.first = saves /\ job'.plays = plays
               /\ f \in Files /\ f[2] = lastSec + 1 /\ lastSec' = lastSec + 1
               /\ DOMAIN disk' = DOMAIN disk \cup {f}
               /\ \A g \in DOMAIN disk : g # f => disk'[g] = disk[g]
               /\ UNCHANGED <<rows, saves, up, del, lastId, plays, crashes, slipped, stuck>>
<1> DEFINE f == <<job.type, lastSec + 1>>
<1>1. /\ lastSec' = lastSec + 1 /\ lastSec + 1 <= MaxBackups /\ disk' = With(f, Half)
      /\ job' = [job EXCEPT !.at = "packing", !.file = f, !.first = saves, !.plays = plays]
      /\ job.at = "backup"
      /\ UNCHANGED <<rows, saves, up, del, lastId, plays, crashes, slipped, stuck>>
  BY DEF BackupBegins, Apart
<1>2. job \in JobType /\ lastSec \in Nat /\ MaxBackups \in Nat
  BY TypeFacts DEF Inv
<1>3. f \in Files /\ f[2] = lastSec + 1
  <2>1. job.type \in Types /\ lastSec + 1 \in 1 .. MaxBackups
    BY <1>1, <1>2 DEF Inv, FilesInv
  <2> QED BY <2>1 DEF Files
<1>4. DOMAIN disk' = DOMAIN disk \cup {f} /\ \A g \in DOMAIN disk : g # f => disk'[g] = disk[g]
  BY <1>1, DiskFacts
<1> HIDE DEF f
<1>5. /\ job'.at = "packing" /\ job'.file = f /\ job'.type = job.type /\ job'.src = job.src
      /\ job'.before = job.before /\ job'.doomed = job.doomed /\ job'.first = saves
      /\ job'.plays = plays
  BY <1>1, <1>2 DEF JobType
<1> QED BY <1>1, <1>3, <1>4, <1>5 DEF f

LEMMA BeginFiles ==
    ASSUME Apart, Inv, KnownInv', BackupBegins
    PROVE  DiskInv'
<1> DEFINE f == <<job.type, lastSec + 1>>
<1>1. /\ job.at = "backup" /\ job'.at = "packing" /\ job'.file = f
      /\ job'.type = job.type /\ job'.before = job.before /\ job'.doomed = job.doomed
      /\ f \in Files /\ f[2] = lastSec + 1 /\ lastSec' = lastSec + 1
      /\ DOMAIN disk' = DOMAIN disk \cup {f} /\ \A g \in DOMAIN disk : g # f => disk'[g] = disk[g]
      /\ UNCHANGED <<rows, saves, up, del, lastId, plays, crashes, slipped, stuck>>
  BY BeginFacts
<1> HIDE DEF f
<1>2. lastSec \in Nat /\ KnownRows' = KnownRows /\ Deleting("file")' = Deleting("file")
  BY <1>1, TypeFacts DEF Inv, KnownRows, Deleting
<1>3. \A r \in KnownRows : r.file # f
  <2>1. \A r \in KnownRows : r \in Rows /\ r.file[2] <= lastSec /\ r.file[2] \in Nat
    BY FileFacts DEF Inv, KnownInv, Rows
  <2> QED BY <1>1, <1>2, <2>1
<1>4. \A r \in rows : r.file # f /\ r.file \in DOMAIN disk
  BY <1>3, KnownOnes DEF Inv, FilesInv, Verifies
<1>5. FilesInv'
  BY <1>1, <1>2, <1>3, <1>4 DEF Inv, FilesInv, Verifies
<1>6. ListInv'
  BY <1>1 DEF ListInv
<1>7. StrayInv'
  BY <1>1, <1>2 DEF Inv, StrayInv, FilesInv
<1>8. StuckInv'
  <2>1. \A g \in Files : g[2] \in Nat
    BY FileFacts
  <2>2. \A g \in DOMAIN disk \cup stuck : g \in Files /\ g[2] <= lastSec
    BY TypeFacts DEF Inv, StuckInv
  <2>3. f \notin stuck
    BY <1>1, <1>2, <2>1, <2>2
  <2>4. \A g \in DOMAIN disk' \cup stuck' : g[2] <= lastSec'
    BY <1>1, <1>2, <2>1, <2>2
  <2> QED BY <1>1, <2>3, <2>4 DEF Inv, StuckInv
<1> QED BY <1>5, <1>6, <1>7, <1>8 DEF DiskInv

LEMMA PackedFacts ==
    ASSUME Inv, BackupPacked
    PROVE  /\ job.at = "packing" /\ job'.at = "add" /\ job'.type = job.type /\ job'.src = job.src
           /\ job'.file = job.file /\ job'.before = job.before /\ job'.doomed = job.doomed
           /\ job'.plays = job.plays
           /\ job.file \in DOMAIN disk /\ DOMAIN disk' = DOMAIN disk /\ disk'[job.file] \in Packed
           /\ \A g \in DOMAIN disk : g # job.file => disk'[g] = disk[g]
           /\ UNCHANGED <<rows, saves, up, del, counters>>
<1>1. /\ Goto("add") /\ "add" \in JobSteps /\ job \in JobType /\ job.at = "packing"
      /\ \E content \in Packed : disk' = With(job.file, content)
      /\ UNCHANGED <<rows, saves, up, del, counters>>
  BY TypeFacts DEF Inv, BackupPacked, JobSteps
<1>2. job.file \in DOMAIN disk
  BY <1>1 DEF Inv, FilesInv
<1>3. /\ DOMAIN disk' = DOMAIN disk \cup {job.file} /\ disk'[job.file] \in Packed
      /\ \A g \in DOMAIN disk : g # job.file => disk'[g] = disk[g]
  BY <1>1, DiskFacts
<1> QED BY <1>1, <1>2, <1>3, GotoFacts

LEMMA PackedFiles ==
    ASSUME Inv, BackupPacked
    PROVE  DiskInv'
<1>1. /\ job.at = "packing" /\ job'.at = "add" /\ job'.type = job.type /\ job'.file = job.file
      /\ job'.before = job.before /\ job'.doomed = job.doomed
      /\ job.file \in DOMAIN disk /\ DOMAIN disk' = DOMAIN disk /\ disk'[job.file] \in Packed
      /\ \A g \in DOMAIN disk : g # job.file => disk'[g] = disk[g]
      /\ UNCHANGED <<rows, saves, up, del, counters>>
  BY PackedFacts
<1>2. /\ disk'[job.file] # Half /\ KnownRows' = KnownRows
      /\ Deleting("file")' = Deleting("file")
  BY <1>1, TypeFacts DEF Inv, KnownRows, Deleting
<1>3. FilesInv'
  BY <1>1, <1>2, KnownOnes DEF Inv, FilesInv, Verifies, counters
<1>4. ListInv'
  BY <1>1 DEF ListInv
<1>5. StrayInv' /\ StuckInv'
  BY <1>1, <1>2 DEF Inv, StrayInv, StuckInv, counters
<1> QED BY <1>3, <1>4, <1>5 DEF DiskInv

LEMMA FailFiles ==
    ASSUME Inv, BackupFails
    PROVE  DiskInv'
<1>1. /\ job.at \in {"backup", "packing", "add"} /\ job' = NoJob /\ Remove({job.file})
      /\ UNCHANGED <<rows, saves, up, del, lastId, lastSec, plays, crashes, slipped>>
  BY DEF BackupFails, BackupMayFail, JobFails
<1>2. /\ DOMAIN disk' \subseteq DOMAIN disk /\ DOMAIN disk \ {job.file} \subseteq DOMAIN disk'
      /\ \A g \in DOMAIN disk' : disk'[g] = disk[g]
      /\ stuck' \subseteq stuck \cup ({job.file} \cap DOMAIN disk)
      /\ \A f \in DOMAIN disk' \ stuck' : f \in DOMAIN disk \ stuck /\ f # job.file
  BY <1>1, RemoveFacts
<1>3. \A r \in rows : r.file # job.file
  <2>1. CASE job.at = "backup"
    <3>1. job.file = NoFile
      BY <2>1 DEF Inv, FilesInv
    <3>2. \A r \in rows : r.file \in Files
      BY DEF Inv, TypeOK, Rows
    <3> QED BY <3>1, <3>2, FileFacts
  <2>2. CASE job.at # "backup"
    BY <1>1, <2>2, KnownOnes DEF Inv, FilesInv
  <2> QED BY <2>1, <2>2
<1>4. job'.at = "idle" /\ job'.doomed = {} /\ Deleting("file")' = Deleting("file")
      /\ job.doomed = {}
  BY <1>1, Blanks DEF Deleting, Inv, FilesInv
<1>5. FilesInv'
  BY <1>1, <1>2, <1>3, <1>4 DEF Inv, FilesInv, Verifies
<1>6. ListInv'
  BY <1>4 DEF ListInv
<1>7. StrayInv'
  BY <1>1, <1>2, <1>4 DEF Inv, StrayInv
<1>8. StuckInv'
  BY <1>1, <1>2, <1>3, <1>4 DEF Inv, StuckInv
<1> QED BY <1>5, <1>6, <1>7, <1>8 DEF DiskInv

LEMMA AddFiles ==
    ASSUME Inv, BackupAdds
    PROVE  DiskInv'
<1>1. /\ job.at = "add" /\ rows' = rows \cup {Added} /\ Added.file = job.file
      /\ job'.at = "list" /\ job'.type = job.type /\ job'.doomed = job.doomed
      /\ UNCHANGED <<disk, del, lastSec, crashes, slipped, stuck>>
      /\ job.doomed = {} /\ Added.id = lastId + 1
  BY AddFacts DEF Inv, FilesInv
<1>2. \A u \in Users : del[u].at # "none" => del[u].row # Added
  BY <1>1, KnownOnes DEF Inv, FilesInv
<1>3. Deleting("file")' = Deleting("file")
  BY <1>1 DEF Deleting
<1>4. FilesInv'
  BY <1>1, <1>2, <1>3 DEF Inv, FilesInv, Verifies, Deleting
<1>5. ListInv'
  BY <1>1 DEF ListInv
<1>6. StrayInv' /\ StuckInv'
  BY <1>1, <1>3 DEF Inv, StrayInv, StuckInv
<1> QED BY <1>4, <1>5, <1>6 DEF DiskInv

LEMMA CleanupRowsFiles ==
    ASSUME Inv, CleanupRows
    PROVE  DiskInv'
<1>1. CASE AfterBackup /\ rows' = rows
  <2>1. JobGoesOn
    <3>1. /\ job.at = "cleanup" /\ UNCHANGED <<rows, disk, del, counters>> /\ TypeOK
          /\ job.doomed = {} /\ job.type \in Types
      BY <1>1, CleanupFacts DEF Inv, FilesInv
    <3> QED BY <1>1, <3>1, Blanks, AfterBackupFacts DEF JobGoesOn
  <2> QED BY <2>1, JobGoesOnFiles
<1>2. CASE ~(AfterBackup /\ rows' = rows)
  <2>1. /\ job.at = "cleanup" /\ job'.at = "remove" /\ job'.type = job.type
        /\ UNCHANGED <<disk, del, lastSec, crashes, slipped, stuck>> /\ rows' \subseteq rows
        /\ \A r \in rows' : r.file \notin job'.doomed
        /\ ~slipped => \A r \in rows \ rows' : r.file \in job'.doomed
        /\ job.doomed = {} /\ Deleting("file")' = Deleting("file")
    BY <1>2, CleanupFacts DEF counters, Inv, FilesInv, Deleting
  <2>2. FilesInv'
    BY <2>1 DEF Inv, FilesInv, Verifies
  <2>3. ListInv'
    BY <2>1 DEF ListInv
  <2>4. StrayInv' /\ StuckInv'
    BY <2>1 DEF Inv, StrayInv, StuckInv
  <2> QED BY <2>2, <2>3, <2>4 DEF DiskInv
<1> QED BY <1>1, <1>2

LEMMA CleanupRemovesFiles ==
    ASSUME Inv, CleanupRemoves
    PROVE  DiskInv'
<1>1. CASE job.doomed = {}
  <2>1. /\ job.at = "remove" /\ UNCHANGED <<rows, disk, del, counters>> /\ AfterBackup
        /\ TypeOK /\ job.type \in Types
    BY <1>1 DEF CleanupRemoves, counters, Inv, FilesInv
  <2>2. JobGoesOn
    BY <1>1, <2>1, Blanks, AfterBackupFacts DEF JobGoesOn
  <2> QED BY <2>2, JobGoesOnFiles
<1>2. CASE job.doomed # {}
  <2>1. PICK f \in job.doomed :
            /\ Remove({f}) /\ job' = [job EXCEPT !.doomed = job.doomed \ {f}]
    BY <1>2 DEF CleanupRemoves
  <2>2. /\ DOMAIN disk' \subseteq DOMAIN disk /\ DOMAIN disk \ {f} \subseteq DOMAIN disk'
        /\ \A g \in DOMAIN disk' : disk'[g] = disk[g]
        /\ stuck' \subseteq stuck \cup ({f} \cap DOMAIN disk)
        /\ \A g \in DOMAIN disk' \ stuck' : g \in DOMAIN disk \ stuck /\ g # f
    BY <2>1, RemoveFacts
  <2>3. /\ job.at = "remove" /\ job'.at = "remove" /\ job'.type = job.type
        /\ job'.doomed = job.doomed \ {f} /\ UNCHANGED <<rows, del, lastSec, crashes, slipped>>
        /\ Deleting("file")' = Deleting("file")
    BY <2>1, TypeFacts DEF CleanupRemoves, Inv, JobType, Deleting
  <2>4. FilesInv'
    BY <2>1, <2>2, <2>3 DEF Inv, FilesInv, Verifies
  <2>5. ListInv'
    BY <2>3 DEF ListInv
  <2>6. StrayInv'
    BY <2>2, <2>3 DEF Inv, StrayInv
  <2>7. StuckInv'
    BY <2>1, <2>2, <2>3 DEF Inv, StuckInv, FilesInv
  <2> QED BY <2>4, <2>5, <2>6, <2>7 DEF DiskInv
<1> QED BY <1>1, <1>2

LEMMA DeleteFacts ==
    ASSUME Inv, NEW u \in Users, DeleteNext(u)
    PROVE  /\ \A v \in Users : v # u => del'[v] = del[v]
           /\ UNCHANGED <<saves, up, job, lastId, lastSec, plays, crashes>>
           /\ \/ /\ UNCHANGED <<rows, disk, slipped, stuck>> /\ del[u].at # "file"
                 /\ \/ del'[u].at = "none"
                    \/ del'[u].at = "check" /\ del'[u].row \in rows
                    \/ /\ del'[u].at = "row" /\ del[u].at = "check" /\ ~Restoring
                       /\ del'[u].row = del[u].row
              \/ /\ UNCHANGED <<disk, stuck>> /\ del[u].at = "row" /\ rows' = rows \ {del[u].row}
                 /\ slipped' = (slipped \/ job.at = "cleanup")
                 /\ IF del[u].row \in rows
                    THEN del'[u].at = "file" /\ del'[u].row = del[u].row
                    ELSE del'[u].at = "none"
              \/ /\ UNCHANGED <<rows, slipped>> /\ del[u].at = "file" /\ del'[u].at = "none"
                 /\ Remove({del[u].row.file})
<1>t. del \in [Users -> DelType] /\ del[u] \in DelType
  BY TypeFacts DEF Inv
<1>1. CASE DeleteAsk(u)
  BY <1>t, <1>1 DEF DeleteAsk, counters
<1>2. CASE DeleteCheck(u)
  <2>1. del'[u] = IF Restoring THEN NoDel ELSE [del[u] EXCEPT !.at = "row"]
    BY <1>t, <1>2 DEF DeleteCheck
  <2>2. [del[u] EXCEPT !.at = "row"].at = "row" /\ [del[u] EXCEPT !.at = "row"].row = del[u].row
    BY <1>t DEF DelType
  <2> QED BY <1>t, <1>2, <2>1, <2>2, Blanks DEF DeleteCheck, counters
<1>3. CASE DeleteRow(u)
  <2>1. del'[u] = IF del[u].row \in rows THEN [del[u] EXCEPT !.at = "file"] ELSE NoDel
    BY <1>t, <1>3 DEF DeleteRow
  <2>2. [del[u] EXCEPT !.at = "file"].at = "file" /\ [del[u] EXCEPT !.at = "file"].row = del[u].row
    BY <1>t DEF DelType
  <2> QED BY <1>t, <1>3, <2>1, <2>2, Blanks DEF DeleteRow
<1>4. CASE DeleteFails(u)
  BY <1>t, <1>4, Blanks DEF DeleteFails, counters
<1>5. CASE DeleteFile(u)
  BY <1>t, <1>5, Blanks DEF DeleteFile
<1> QED BY <1>1, <1>2, <1>3, <1>4, <1>5 DEF DeleteNext

LEMMA DeleteFiles ==
    ASSUME Inv, NEW u \in Users, DeleteNext(u)
    PROVE  DiskInv'
<1>0. /\ \A v \in Users : v # u => del'[v] = del[v]
      /\ UNCHANGED <<job, lastId, lastSec, crashes>>
  BY DeleteFacts
<1>k. KnownRows' \subseteq KnownRows
  <2>1. del[u].at # "none" => del[u].row \in KnownRows
    BY KnownOnes
  <2>2. rows' \subseteq rows /\ (del'[u].at # "none" => del'[u].row \in KnownRows)
    BY <2>1, DeleteFacts, KnownOnes
  <2> QED BY <1>0, <2>2, KnownOnes DEF KnownRows, Deleting
<1>1. CASE UNCHANGED <<rows, disk, slipped, stuck>> /\ del'[u].at # "file" /\ del[u].at # "file"
  <2>1. Deleting("file")' = Deleting("file") /\ \A v \in Deleting("file") : del'[v] = del[v]
    BY <1>0, <1>1 DEF Deleting
  <2>2. FilesInv'
    BY <1>0, <1>1, <1>k, <2>1 DEF Inv, FilesInv, Verifies
  <2>3. ListInv' /\ StrayInv' /\ StuckInv'
    BY <1>0, <1>1, <2>1 DEF Inv, ListInv, StrayInv, StuckInv
  <2> QED BY <2>2, <2>3 DEF DiskInv
<1>2. CASE /\ UNCHANGED <<disk, stuck>> /\ del[u].at = "row" /\ rows' = rows \ {del[u].row}
           /\ slipped' = (slipped \/ job.at = "cleanup")
           /\ IF del[u].row \in rows
              THEN del'[u].at = "file" /\ del'[u].row = del[u].row
              ELSE del'[u].at = "none"
  <2>1. \A v \in Deleting("file") : v \in Deleting("file")' /\ del'[v] = del[v]
    BY <1>0, <1>2 DEF Deleting
  <2>2. \A v \in Deleting("file")' : (v \in Deleting("file") /\ del'[v] = del[v]) \/ v = u
    BY <1>0 DEF Deleting
  <2>3. \A v \in Deleting("file")' : del'[v].row \notin rows'
    BY <1>2, <2>2 DEF Inv, FilesInv, Deleting
  <2>4. FilesInv'
    BY <1>0, <1>2, <1>k, <2>3 DEF Inv, FilesInv, Verifies
  <2>5. ListInv'
    BY <1>0, <1>2 DEF Inv, ListInv
  <2>6. StrayInv'
    <3> SUFFICES ASSUME crashes' = 0, ~slipped', NEW f \in DOMAIN disk' \ stuck'
                 PROVE  \/ \E r \in rows' : r.file = f
                        \/ job'.at \in {"packing", "add"} /\ f = job'.file
                        \/ f \in job'.doomed
                        \/ \E v \in Deleting("file")' : del'[v].row.file = f
      BY DEF StrayInv
    <3>1. ~slipped
      BY <1>2
    <3>2. CASE \E r \in rows : r.file = f
      <4>1. PICK r \in rows : r.file = f
        BY <3>2
      <4>2. CASE r = del[u].row
        BY <1>2, <4>1, <4>2 DEF Deleting
      <4> QED BY <1>2, <4>1, <4>2
    <3> QED BY <1>0, <1>2, <2>1, <3>1, <3>2 DEF Inv, StrayInv
  <2>7. StuckInv'
    BY <1>0, <1>2 DEF Inv, StuckInv
  <2> QED BY <2>4, <2>5, <2>6, <2>7 DEF DiskInv
<1>3. CASE /\ UNCHANGED <<rows, slipped>> /\ del[u].at = "file" /\ del'[u].at = "none"
           /\ Remove({del[u].row.file})
  <2>0. /\ DOMAIN disk' \subseteq DOMAIN disk /\ DOMAIN disk \ {del[u].row.file} \subseteq DOMAIN disk'
        /\ \A g \in DOMAIN disk' : disk'[g] = disk[g]
        /\ stuck' \subseteq stuck \cup ({del[u].row.file} \cap DOMAIN disk)
        /\ \A f \in DOMAIN disk' \ stuck' : f \in DOMAIN disk \ stuck /\ f # del[u].row.file
    BY <1>3, RemoveFacts
  <2>1. /\ \A v \in Deleting("file")' : v \in Deleting("file") /\ del'[v] = del[v]
        /\ \A v \in Deleting("file") : v # u => v \in Deleting("file")' /\ del'[v] = del[v]
    BY <1>0, <1>3 DEF Deleting
  <2>2. \A r \in rows : r.file # del[u].row.file
    <3>1. del[u].row \in KnownRows /\ del[u].row \notin rows
      BY <1>3, KnownOnes DEF Inv, FilesInv, Deleting
    <3> QED BY <3>1, KnownOnes DEF Inv, KnownInv
  <2>3. job.at \in {"packing", "add"} => job.file # del[u].row.file
    BY <1>3, KnownOnes DEF Inv, FilesInv
  <2>4. FilesInv'
    BY <1>0, <1>3, <1>k, <2>0, <2>1, <2>2, <2>3 DEF Inv, FilesInv, Verifies
  <2>5. ListInv' /\ StrayInv'
    BY <1>0, <1>3, <2>0, <2>1 DEF Inv, ListInv, StrayInv
  <2>6. StuckInv'
    BY <1>0, <1>3, <2>0, <2>2, <2>3 DEF Inv, StuckInv
  <2> QED BY <2>4, <2>5, <2>6 DEF DiskInv
<1> QED BY <1>1, <1>2, <1>3, DeleteFacts

LEMMA DiskStep ==
    ASSUME Apart, Inv, KnownInv', [Next]_vars
    PROVE  DiskInv'
<1>1. CASE ServerStarts \/ ServerSaves \/ SavesRemoved \/ UNCHANGED vars
  <2>1. /\ UNCHANGED <<rows, disk, job, del, lastId, lastSec, crashes, slipped, stuck>>
        /\ KnownRows' = KnownRows /\ Deleting("file")' = Deleting("file")
    BY <1>1 DEF ServerStarts, ServerSaves, SavesRemoved, vars, counters, KnownRows, Deleting
  <2>2. FilesInv' /\ ListInv' /\ StrayInv' /\ StuckInv'
    BY <2>1 DEF Inv, FilesInv, ListInv, StrayInv, StuckInv, Verifies
  <2> QED BY <2>2 DEF DiskInv
<1>2. CASE PanelCrashes
  <2>1. /\ UNCHANGED <<rows, disk, lastSec, stuck>> /\ job' = NoJob /\ del' = [u \in Users |-> NoDel]
        /\ crashes' = crashes + 1 /\ crashes \in Nat
    BY <1>2, BackupAssumption DEF PanelCrashes, Inv, TypeOK
  <2>2. FilesInv'
    BY <2>1, Blanks DEF Inv, FilesInv, Verifies, Deleting
  <2>3. ListInv' /\ StrayInv' /\ StuckInv'
    BY <2>1, Blanks DEF Inv, ListInv, StrayInv, StuckInv
  <2> QED BY <2>2, <2>3 DEF DiskInv
<1>3. CASE BackupJob \/ RestoreJob \/ RestoreVerify \/ RestoreReverify \/ RestoreFails
                \/ CleanupFails \/ RestoreStops \/ BackupNoSaves \/ CleanupLists
                \/ RestoreWipes \/ RestoreUnpacks
  BY <1>3, GoesOnStep, JobGoesOnFiles
<1> QED BY <1>1, <1>2, <1>3, BeginFiles, PackedFiles, FailFiles, AddFiles, CleanupRowsFiles,
           CleanupRemovesFiles, DeleteFiles DEF Next, BackupNext, RestoreNext

-----------------------------------------------------------------------------
(* The net *)

\* Nothing is asked of a job that is over, or begins.
LEMMA NoNet ==
    ASSUME TypeOK', job'.plays <= plays',
           \/ job'.at \in {"idle", "verify", "backup"}
           \/ ~Restoring' /\ job'.at \notin {"packing", "add"}
    PROVE  NetInv'
  BY DEF NetInv

\* The net holds while its row and its file stay, and no delete comes for it.
LEMMA NetStays ==
    ASSUME Net, UNCHANGED lastId, job'.file = job.file,
           NEW r, r \in rows, r.id = lastId, r.file = job.file,
           \A u \in Users : del[u].at = "row" => del[u].row # r,
           job.plays = plays => Lost = disk[job.file],
           r \in rows', \A u \in Users : del'[u].at = "row" => del'[u].row # r,
           job'.plays = plays' => job.plays = plays /\ Lost' = Lost /\ disk'[job.file] = disk[job.file]
    PROVE  Net'
<1>1. \A u \in Deleting("row")' : del'[u].row # r
  BY DEF Deleting
<1>2. job'.plays = plays' => Lost' = disk'[job'.file]
  OBVIOUS
<1> QED BY <1>1, <1>2 DEF Net

LEMMA JobNet ==
    ASSUME Inv, TypeOK',
           UNCHANGED <<del, lastId, plays>>, job'.type = job.type, job'.file = job.file,
           job'.plays = job.plays, Lost' = Lost,
           Restoring => job'.at \in {"list", "cleanup", "remove", "stop", "reverify", "wipe", "unpack"},
           ~Restoring => job'.at \notin {"packing", "add"},
           job.at \in {"list", "cleanup", "remove", "stop", "reverify", "wipe", "unpack"},
           job'.at \in {"list", "cleanup", "remove"} => job.at \in {"list", "cleanup", "remove"},
           \A r \in rows : r.id = lastId => r \in rows',
           \A r \in rows : r.id = lastId => disk'[r.file] = disk[r.file]
    PROVE  NetInv'
<1>1. job'.plays <= plays'
  BY DEF Inv, NetInv
<1>2. CASE ~Restoring
  BY <1>1, <1>2, NoNet DEF Restoring
<1>3. CASE Restoring
  <2>1. ASSUME Net PROVE Net'
    <3>1. PICK r \in rows : /\ r.id = lastId /\ r.file = job.file
                            /\ \A u \in Deleting("row") : del[u].row # r
                            /\ job.plays = plays => Lost = disk[job.file]
      BY <2>1 DEF Net
    <3>2. \A u \in Users : del[u].at = "row" => del[u].row # r
      BY <3>1 DEF Deleting
    <3> QED BY <2>1, <3>1, <3>2, NetStays
  <2>2. CASE job.at \in {"list", "cleanup", "remove"}
    <3>1. Net'
      BY <1>3, <2>1, <2>2 DEF Inv, NetInv
    <3> QED BY <1>1, <1>3, <3>1 DEF NetInv
  <2>3. CASE job.at \in {"stop", "reverify", "wipe", "unpack"}
    <3>1. Net \/ (job.plays = plays => Lost = Missing)
      BY <1>3, <2>3 DEF Inv, NetInv
    <3>2. Net' \/ (job'.plays = plays' => Lost' = Missing)
      BY <2>1, <3>1
    <3> QED BY <1>1, <1>3, <2>3, <3>2 DEF NetInv
  <2> QED BY <2>2, <2>3
<1> QED BY <1>2, <1>3

LEMMA DeleteNet ==
    ASSUME Inv, TypeOK', NEW u \in Users, DeleteNext(u)
    PROVE  NetInv'
<1>0. /\ \A v \in Users : v # u => del'[v] = del[v]
      /\ UNCHANGED <<saves, job, lastId, plays>> /\ Lost' = Lost /\ job.plays <= plays
  BY DeleteFacts DEF Lost, Inv, NetInv
<1>r. del[u].at = "file" /\ Remove({del[u].row.file}) =>
          /\ DOMAIN disk \ {del[u].row.file} \subseteq DOMAIN disk'
          /\ \A g \in DOMAIN disk' : disk'[g] = disk[g]
  BY RemoveFacts
<1>1. job.at = "add" /\ job.plays = plays => saves = disk'[job.file]
  <2>1. CASE disk' = disk
    BY <2>1 DEF Inv, NetInv
  <2>2. CASE job.at = "add" /\ disk' # disk
    <3>1. /\ del[u].at = "file" /\ DOMAIN disk \ {del[u].row.file} \subseteq DOMAIN disk'
          /\ \A g \in DOMAIN disk' : disk'[g] = disk[g]
      BY <1>r, <2>2, DeleteFacts
    <3>2. job.file \in DOMAIN disk /\ job.file # del[u].row.file
      BY <2>2, <3>1, KnownOnes DEF Inv, FilesInv
    <3> QED BY <3>1, <3>2 DEF Inv, NetInv
  <2> QED BY <2>1, <2>2
<1>2. ASSUME Restoring, Net PROVE Net'
  <2>1. PICK r \in rows : /\ r.id = lastId /\ r.file = job.file
                          /\ \A v \in Deleting("row") : del[v].row # r
                          /\ job.plays = plays => Lost = disk[job.file]
    BY <1>2 DEF Net
  <2>2. \A v \in Users : del[v].at = "row" => del[v].row # r
    BY <2>1 DEF Deleting
  <2>3. \A v \in Users : del'[v].at = "row" => del'[v].row # r
    <3>1. del'[u].at # "row"
      BY <1>2, DeleteFacts
    <3> QED BY <1>0, <2>2, <3>1
  <2>4. r \in rows'
    BY <2>1, <2>2, DeleteFacts
  <2>5. disk'[job.file] = disk[job.file]
    <3>1. CASE disk' = disk
      BY <3>1
    <3>2. CASE disk' # disk
      <4>1. /\ del[u].at = "file" /\ DOMAIN disk \ {del[u].row.file} \subseteq DOMAIN disk'
            /\ \A g \in DOMAIN disk' : disk'[g] = disk[g]
        BY <1>r, <3>2, DeleteFacts
      <4>2. del[u].row # r /\ del[u].row \in KnownRows /\ r \in KnownRows
        BY <2>1, <4>1, KnownOnes DEF Inv, FilesInv, Deleting
      <4>3. r.file # del[u].row.file /\ r.file \in DOMAIN disk
        BY <2>1, <4>2 DEF Inv, KnownInv, FilesInv, Verifies
      <4> QED BY <2>1, <4>1, <4>3
    <3> QED BY <3>1, <3>2
  <2> QED BY <1>0, <1>2, <2>1, <2>2, <2>3, <2>4, <2>5, NetStays
<1>3. Restoring' = Restoring
  BY <1>0 DEF Restoring
<1>4. Restoring /\ job.at \in {"list", "cleanup", "remove"} => Net'
  BY <1>2 DEF Inv, NetInv
<1>5. Restoring /\ job.at \in {"stop", "reverify", "wipe", "unpack"} =>
          Net' \/ (job.plays = plays => Lost' = Missing)
  BY <1>0, <1>2 DEF Inv, NetInv
<1>6. job.at = "packing" /\ job.plays = plays => saves = job.first
  BY DEF Inv, NetInv
<1> QED BY <1>0, <1>1, <1>3, <1>4, <1>5, <1>6 DEF NetInv

LEMMA NetStep ==
    ASSUME Apart, Inv, TypeOK', [Next]_vars
    PROVE  NetInv'
<1>t. /\ job \in JobType /\ plays \in Nat /\ plays' \in Nat /\ job.plays \in Nat
      /\ job.plays <= plays /\ TypeOK
      /\ job.at # "remove" => job.doomed = {}
  BY TypeFacts, BackupAssumption DEF Inv, NetInv, FilesInv, TypeOK
<1>n. job' = NoJob /\ plays' >= 0 => NetInv'
  BY NoNet, Blanks
<1>g. \A at \in JobSteps : Goto(at) =>
          /\ job'.at = at /\ job'.type = job.type /\ job'.file = job.file
          /\ job'.first = job.first /\ job'.plays = job.plays /\ job'.wiped = job.wiped
  BY <1>t, GotoFacts
<1>a. ASSUME AfterBackup, UNCHANGED <<rows, disk, saves, del, lastId, plays>>,
             job.at \in {"list", "cleanup", "remove"}
      PROVE  NetInv'
  <2>1. CASE Restoring
    <3>1. /\ job'.at = "stop" /\ job'.type = job.type /\ job'.file = job.file
          /\ job'.plays = job.plays /\ Lost' = Lost
      BY <1>t, <1>a, <2>1, AfterBackupFacts DEF Lost
    <3> QED BY <1>a, <2>1, <3>1, JobNet
  <2>2. CASE ~Restoring
    BY <1>t, <1>a, <1>n, <2>2, AfterBackupFacts
  <2> QED BY <2>1, <2>2
<1>1. CASE BackupJob \/ RestoreJob
  <2>1. job'.at \in {"verify", "backup"} /\ job'.plays = 0 /\ plays' = plays
    BY <1>1 DEF BackupJob, RestoreJob, NoJob, counters
  <2> QED BY <1>t, <2>1, NoNet
<1>2. CASE RestoreVerify
  <2>1. job' = NoJob \/ (job'.at = "backup" /\ job'.plays = job.plays)
    BY <1>2, <1>g DEF RestoreVerify, JobFails, JobSteps
  <2> QED BY <1>2, <1>n, <1>t, <2>1, NoNet DEF RestoreVerify, counters
<1>3. CASE BackupNoSaves
  <2>1. /\ job.at = "backup" /\ saves = Missing /\ UNCHANGED <<saves, plays>>
        /\ IF Restoring THEN job' = [job EXCEPT !.at = "stop", !.plays = plays] ELSE job' = NoJob
    BY <1>3 DEF BackupNoSaves, counters, Restoring, JobFails
  <2>2. CASE Restoring
    <3>1. job'.at = "stop" /\ job'.plays = plays
      BY <1>t, <2>1, <2>2 DEF JobType
    <3>2. Lost' = Missing
      BY <2>1, <3>1 DEF Lost
    <3> QED BY <1>t, <2>1, <3>1, <3>2 DEF NetInv
  <2> QED BY <1>n, <1>t, <2>1, <2>2
<1>4. CASE BackupBegins
  <2>1. job'.at = "packing" /\ job'.plays = plays /\ job'.first = saves /\ UNCHANGED <<plays, saves>>
    BY <1>4, BeginFacts
  <2> QED BY <1>t, <2>1 DEF NetInv
<1>5. CASE BackupPacked
  <2>1. /\ job.at = "packing" /\ job'.at = "add" /\ job'.plays = job.plays
        /\ UNCHANGED <<plays, saves>>
        /\ job'.file = job.file /\ disk'[job.file] \in Packed
    BY <1>5, PackedFacts DEF counters
  <2>2. job.plays = plays => disk'[job.file] = saves
    BY <2>1 DEF Inv, NetInv, Packed
  <2> QED BY <1>t, <2>1, <2>2 DEF NetInv
<1>6. CASE BackupFails \/ RestoreUnpacks \/ RestoreFails \/ PanelCrashes
  BY <1>6, <1>n, <1>t DEF BackupFails, RestoreUnpacks, RestoreFails, PanelCrashes, JobFails, counters
<1>7. CASE BackupAdds
  <2>1. /\ job.at = "add" /\ rows' = rows \cup {Added} /\ Added.id = lastId' /\ Added.file = job.file
        /\ job'.at = "list" /\ job'.file = job.file /\ job'.plays = job.plays
        /\ UNCHANGED <<disk, saves, del, plays>>
    BY <1>7, <1>t, AddFacts
  <2>2. \A u \in Deleting("row")' : del'[u].row # Added
    BY <2>1, KnownOnes DEF Inv, FilesInv, Deleting
  <2>3. job.plays = plays => saves = disk[job.file]
    BY <2>1 DEF Inv, NetInv
  <2>4. Lost' = saves
    BY <2>1 DEF Lost
  <2>5. PICK r : r = Added
    OBVIOUS
  <2>6. Net'
    BY <2>1, <2>2, <2>3, <2>4, <2>5 DEF Net
  <2> QED BY <1>t, <2>1, <2>6 DEF NetInv
<1>8. CASE CleanupLists
  <2>1. /\ job.at = "list" /\ job'.at = "cleanup" /\ job'.type = job.type /\ job'.file = job.file
        /\ job'.plays = job.plays /\ UNCHANGED <<rows, disk, saves, del, lastId, plays>>
    BY <1>8, <1>t DEF CleanupLists, counters, JobType
  <2>2. Lost' = Lost
    BY <2>1 DEF Lost
  <2> QED BY <2>1, <2>2, JobNet
<1>9. CASE CleanupFails
  BY <1>9, <1>a DEF CleanupFails, counters
<1>10. CASE CleanupRows
  <2>0. /\ job.at = "cleanup" /\ UNCHANGED <<disk, saves, del, lastId, plays>>
        /\ \A r \in rows : r.id = lastId => r \in rows'
    BY <1>10, CleanupFacts DEF counters
  <2>1. CASE AfterBackup /\ rows' = rows
    BY <1>a, <2>0, <2>1
  <2>2. CASE ~(AfterBackup /\ rows' = rows)
    <3>1. job'.at = "remove" /\ job'.type = job.type /\ job'.file = job.file /\ job'.plays = job.plays
      BY <1>10, <2>2, CleanupFacts
    <3>2. Lost' = Lost
      BY <2>0, <3>1 DEF Lost
    <3> QED BY <2>0, <3>1, <3>2, JobNet
  <2> QED BY <2>1, <2>2
<1>11. CASE CleanupRemoves
  <2>0. job.at = "remove" /\ UNCHANGED <<rows, saves, del, lastId, plays>>
    BY <1>11 DEF CleanupRemoves
  <2>1. CASE job.doomed = {}
    BY <1>11, <1>a, <2>0, <2>1 DEF CleanupRemoves
  <2>2. CASE job.doomed # {}
    <3>1. PICK f \in job.doomed : Remove({f}) /\ job' = [job EXCEPT !.doomed = job.doomed \ {f}]
      BY <1>11, <2>2 DEF CleanupRemoves
    <3>2. /\ DOMAIN disk \ {f} \subseteq DOMAIN disk'
          /\ \A g \in DOMAIN disk' : disk'[g] = disk[g]
      BY <3>1, RemoveFacts
    <3>3. \A r \in rows : disk'[r.file] = disk[r.file]
      BY <3>1, <3>2 DEF Inv, FilesInv, Verifies
    <3>4. /\ job'.at = "remove" /\ job'.type = job.type /\ job'.file = job.file
          /\ job'.plays = job.plays
      BY <1>t, <2>0, <3>1 DEF JobType
    <3>5. Lost' = Lost
      BY <2>0, <3>4 DEF Lost
    <3> QED BY <2>0, <3>3, <3>4, <3>5, JobNet
  <2> QED BY <2>1, <2>2
<1>12. CASE RestoreStops \/ RestoreReverify
  <2>1. CASE job' = NoJob
    BY <1>n, <1>t, <1>12, <2>1 DEF RestoreStops, RestoreReverify, counters
  <2>2. CASE job' # NoJob
    <3>1. /\ job.at \in {"stop", "reverify"} /\ job'.at \in {"reverify", "wipe"}
          /\ job'.type = job.type /\ job'.file = job.file /\ job'.plays = job.plays
          /\ UNCHANGED <<rows, disk, saves, del, lastId, plays>>
      BY <1>g, <1>12, <2>2 DEF RestoreStops, RestoreReverify, counters, JobFails, JobSteps
    <3>2. Lost' = Lost
      BY <3>1 DEF Lost
    <3> QED BY <3>1, <3>2, JobNet
  <2> QED BY <2>1, <2>2
<1>13. CASE RestoreWipes
  <2>1. /\ job.at = "wipe" /\ job'.at = "unpack" /\ job'.type = job.type /\ job'.file = job.file
        /\ job'.plays = job.plays /\ job'.wiped = saves
        /\ UNCHANGED <<rows, disk, del, lastId, plays>>
    BY <1>13, <1>t DEF RestoreWipes, counters, JobType
  <2>2. Lost' = Lost
    BY <2>1 DEF Lost
  <2> QED BY <2>1, <2>2, JobNet
<1>14. CASE ServerSaves
  <2>1. UNCHANGED <<rows, disk, job, del, lastId>> /\ plays' = plays + 1
    BY <1>14 DEF ServerSaves
  <2>2. job'.plays # plays' /\ job'.plays <= plays'
    BY <1>t, <2>1
  <2>3. Net => Net'
    BY <2>1, <2>2 DEF Net, Deleting
  <2> QED BY <2>1, <2>2, <2>3 DEF Inv, NetInv, Restoring
<1>15. CASE ServerStarts \/ UNCHANGED vars
  <2>1. UNCHANGED <<rows, disk, saves, job, del, lastId, plays>>
    BY <1>15 DEF ServerStarts, vars, counters
  <2>2. Net' = Net /\ Lost' = Lost
    BY <2>1 DEF Net, Lost, Deleting
  <2> QED BY <2>1, <2>2 DEF Inv, NetInv, Restoring
<1>16. CASE SavesRemoved
  BY <1>16, <1>t, NoNet DEF SavesRemoved, counters
<1> QED BY <1>1, <1>2, <1>3, <1>4, <1>5, <1>6, <1>7, <1>8, <1>9, <1>10, <1>11, <1>12, <1>13,
           <1>14, <1>15, <1>16, DeleteNet DEF Next, BackupNext, RestoreNext

LEMMA RestoreStep ==
    ASSUME TypeOK, RestoreInv, [Next]_vars
    PROVE  RestoreInv'
<1>t. job \in JobType
  BY TypeFacts
<1>n. job' = NoJob \/ job' = job => RestoreInv'
  BY DEF RestoreInv, NoJob, Restoring
<1>g. \A at \in JobSteps : Goto(at) => job'.at = at /\ job'.type = job.type
  BY <1>t, GotoFacts
<1>a. AfterBackup => RestoreInv'
  BY <1>n, AfterBackupFacts DEF RestoreInv, Restoring
<1>1. CASE BackupJob \/ RestoreJob
  <2>1. job'.at = "backup" \/ (job'.at = "verify" /\ job'.type = "preRestore")
    BY <1>1 DEF BackupJob, RestoreJob, NoJob
  <2> QED BY <2>1 DEF RestoreInv, Restoring
<1>2. CASE BackupNoSaves
  <2>1. job' = NoJob \/ (job.type = "preRestore" /\ job'.type = job.type)
    BY <1>2, <1>t DEF BackupNoSaves, JobFails, JobType
  <2> QED BY <1>n, <2>1 DEF RestoreInv, Restoring
<1>3. CASE BackupBegins \/ BackupPacked \/ BackupAdds \/ CleanupLists
  <2>1. job'.at \in {"packing", "add", "list", "cleanup"}
    BY <1>3, <1>t DEF BackupBegins, BackupPacked, BackupAdds, CleanupLists, Goto, JobType
  <2> QED BY <2>1 DEF RestoreInv
<1>4. CASE CleanupRows
  <2>1. AfterBackup \/ job'.at = "remove"
    BY <1>4, <1>t DEF CleanupRows, JobType
  <2> QED BY <1>a, <2>1 DEF RestoreInv
<1>5. CASE CleanupRemoves
  <2>1. AfterBackup \/ (job.at = "remove" /\ job'.at = job.at)
    BY <1>5, <1>t DEF CleanupRemoves, JobType
  <2> QED BY <1>a, <2>1 DEF RestoreInv
<1>6. CASE RestoreVerify \/ RestoreStops \/ RestoreReverify
  <2>1. job.at \in {"verify", "stop", "reverify"}
    BY <1>6 DEF RestoreVerify, RestoreStops, RestoreReverify
  <2>2. job' = NoJob \/ job'.type = job.type
    BY <1>6, <1>g DEF RestoreVerify, RestoreStops, RestoreReverify, JobFails, JobSteps
  <2> QED BY <1>n, <2>1, <2>2 DEF RestoreInv, Restoring
<1>7. CASE RestoreWipes
  <2>1. job.at = "wipe" /\ job'.type = job.type
    BY <1>7, <1>t DEF RestoreWipes, JobType
  <2> QED BY <2>1 DEF RestoreInv, Restoring
<1>8. CASE BackupFails \/ RestoreUnpacks \/ RestoreFails \/ PanelCrashes
  BY <1>8, <1>n DEF BackupFails, RestoreUnpacks, RestoreFails, PanelCrashes, JobFails
<1>9. CASE \/ ServerStarts \/ ServerSaves \/ SavesRemoved \/ UNCHANGED vars
           \/ \E u \in Users : DeleteNext(u)
  BY <1>9, <1>n DEF ServerStarts, ServerSaves, SavesRemoved, vars, DeleteNext, DeleteAsk,
                    DeleteCheck, DeleteRow, DeleteFails, DeleteFile
<1>10. CASE CleanupFails
  BY <1>10, <1>a DEF CleanupFails
<1> QED BY <1>1, <1>2, <1>3, <1>4, <1>5, <1>6, <1>7, <1>8, <1>9, <1>10
        DEF Next, BackupNext, RestoreNext

-----------------------------------------------------------------------------
(* Theorems *)

LEMMA InitInv == Init => Inv
<1> SUFFICES ASSUME Init PROVE Inv
  OBVIOUS
<1>1. /\ rows = {} /\ DOMAIN disk = {} /\ saves = 1 /\ up = FALSE /\ job = NoJob
      /\ del = [u \in Users |-> NoDel] /\ lastId = 0 /\ lastSec = 0 /\ plays = 1 /\ crashes = 0
      /\ slipped = FALSE /\ stuck = {}
  BY DEF Init
<1>2. TypeOK
  <2>1. saves \in Saves \ {Half} /\ plays \in 0 .. MaxPlays
    BY <1>1, BackupAssumption DEF Saves, Half
  <2>2. job \in JobType /\ del \in [Users -> DelType]
    BY <1>1, Blanks
  <2>3. lastId \in 0 .. MaxBackups /\ lastSec \in 0 .. MaxBackups /\ crashes \in 0 .. MaxCrashes
    BY <1>1, BackupAssumption
  <2>4. /\ rows \subseteq Rows /\ DOMAIN disk \subseteq Files /\ up \in BOOLEAN /\ slipped \in BOOLEAN
        /\ stuck \subseteq Files /\ \A f \in DOMAIN disk : disk[f] \in Saves
    BY <1>1, Zenon
  <2> QED BY <2>1, <2>2, <2>3, <2>4 DEF TypeOK, JobType, DelType
<1>3. KnownRows = {}
  BY <1>1, Blanks DEF KnownRows, Deleting
<1>4. KnownInv
  BY <1>1, <1>3, Blanks, FS_EmptySet DEF KnownInv
<1>5. FilesInv /\ ListInv /\ StrayInv /\ StuckInv
  BY <1>1, <1>3, Blanks DEF FilesInv, ListInv, StrayInv, StuckInv, Deleting
<1>6. NetInv
  BY <1>1, Blanks DEF NetInv, Restoring
<1>7. RestoreInv
  BY <1>1, Blanks DEF RestoreInv
<1> QED BY <1>2, <1>4, <1>5, <1>6, <1>7 DEF Inv

LEMMA StepInv == Apart /\ Inv /\ [Next]_vars => Inv'
<1>1. Inv => Placed
  BY DEF Inv, FilesInv, Placed
<1> QED BY <1>1, TypeStep, KnownStep, DiskStep, NetStep, RestoreStep DEF Inv, DiskInv

\* The variables of Backup have the types TypeOK gives them, whatever the
\* panel, its users and the game do (service.go, database/backups.go).
THEOREM TypeCorrect == Spec => []TypeOK
<1>1. TypeOK /\ Placed /\ [Next]_vars => (TypeOK /\ Placed)'
  BY TypeStep, PlacedStep
<1>2. Init => TypeOK /\ Placed
  BY InitInv DEF Inv, FilesInv, Placed
<1> QED BY <1>1, <1>2, PTL DEF Spec

\* Every row has its whole archive at any time: RunBackup adds the row after
\* its file is written, cleanup and the delete handler delete the row before
\* the file, and Oldest of the list read before holds no row that was kept,
\* even when rows of that list have since been deleted (service.go:95-96).
THEOREM RowsHaveArchives == ASSUME Apart PROVE Spec => []RowHasArchive
<1>1. Inv /\ [Next]_vars => Inv'
  BY StepInv
<1>2. Inv => RowHasArchive
  BY DEF Inv, FilesInv, RowHasArchive
<1> QED BY <1>1, <1>2, InitInv, PTL DEF Spec

\* When RunRestore has wiped the saves, the archive of its own backup holds what
\* was there, whole and with a row, unless the game saved after that backup began
\* to read: it is the newest row, which no rolling cleanup drops and no delete that
\* was let through before the restore began knows (service.go:76-77).
THEOREM WipedStaysArchived == ASSUME Apart PROVE Spec => []WipedIsArchived
<1>1. Inv /\ [Next]_vars => Inv'
  BY StepInv
<1>2. Inv => WipedIsArchived
  <2> SUFFICES ASSUME Inv, job.at = "unpack", job.wiped # Missing, job.plays = plays
               PROVE \E r \in rows : /\ r.file = job.file /\ Verifies(r.file)
                                     /\ disk[r.file] = job.wiped
    BY DEF WipedIsArchived
  <2>1. Lost = job.wiped
    BY DEF Lost
  <2>2. Restoring
    BY DEF Inv, RestoreInv
  <2>3. Net
    BY <2>1, <2>2 DEF Inv, NetInv
  <2>4. PICK r \in rows : r.file = job.file /\ Lost = disk[job.file]
    BY <2>3 DEF Net
  <2>5. Verifies(r.file)
    BY DEF Inv, FilesInv
  <2> QED BY <2>1, <2>4, <2>5
<1> QED BY <1>1, <1>2, InitInv, PTL DEF Spec

\* Without a crash or a delete between the two statements of a cleanup, the files
\* are those of the rows once everyone is done, and those that os.Remove could not
\* remove (service.go:68, 95-96, 110; backup_handlers.go:210-213).
THEOREM NothingStrays == ASSUME Apart PROVE Spec => []NoStrayFiles
<1>1. Inv /\ [Next]_vars => Inv'
  BY StepInv
<1>2. Inv => NoStrayFiles
  <2> SUFFICES ASSUME Inv, job.at = "idle", \A u \in Users : del[u].at = "none",
                      crashes = 0, ~slipped
               PROVE DOMAIN disk \ stuck = {r.file : r \in rows}
    BY DEF NoStrayFiles
  <2>1. \A r \in rows : r.file \in DOMAIN disk \ stuck
    BY DEF Inv, FilesInv, StuckInv, Verifies
  <2>2. job.doomed = {}
    BY DEF Inv, FilesInv
  <2>3. \A u \in Users : u \notin Deleting("file")
    BY DEF Deleting
  <2>4. \A f \in DOMAIN disk \ stuck : \E r \in rows : r.file = f
    BY <2>2, <2>3 DEF Inv, StrayInv, Deleting
  <2> QED BY <2>1, <2>4
<1> QED BY <1>1, <1>2, InitInv, PTL DEF Spec
=============================================================================
