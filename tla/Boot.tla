--------------------------------- MODULE Boot ---------------------------------
(***************************************************************************)
(* The start of the panel, src/main.go and src/internal/db/db.go, over the  *)
(* table of Instances: the migrations, the autostart loop, then the         *)
(* requests; and the death of the panel at any step.  The game servers are  *)
(* processes of their own and live on.                                      *)
(*                                                                         *)
(* Of the supervisor only the order of its launches and of its writes of    *)
(* the status column is here; the rest is in Supervisor.  Every write of    *)
(* the column is a step of its own, after the one that decided it.          *)
(***************************************************************************)
EXTENDS Instances, Sequences

CONSTANTS
    Statements, \* the number of statements of every migration file
    InitInst,   \* the instances in the database an earlier panel left,
    InitOwned,  \* and what belongs to them
    MaxStarts,  \* bound: launches of game servers
    MaxUpdates, \* bound: instances updates are at, of those that stop no run
    MaxCrashes  \* bound: deaths of the panel

Files == DOMAIN Statements

ASSUME BootAssumption ==
    /\ Statements \in Seq(Nat \ {0})
    /\ MaxStarts \in Nat /\ MaxUpdates \in Nat /\ MaxCrashes \in Nat
    /\ \E n \in 0 .. MaxId : DOMAIN InitInst = 1 .. n
    /\ \A i \in DOMAIN InitInst : InitInst[i] \in Row
    /\ InitOwned \in [Owned -> SUBSET DOMAIN InitInst]

VARIABLES
    phase,    \* what the panel is doing
    mig,      \* the migration it is at: the file and its next statement
    versions, \* schema_migrations
    applied,  \* the statements of every file the schema has
    todo,     \* what autostart has yet to visit: a row per id
    proc,     \* the run of every instance, as the supervisor has it
    alive,    \* the servers this panel launched that are alive
    idles,    \* the writes of "idle" that ended runs have yet to do
    reads,    \* the updates that have read "running" in a row
    tells,    \* those that tell the server it names to go
    auto,     \* history: the runs that autostart started
    orphan,   \* the servers of dead panels that are still alive
    unseen,   \* history: the orphans whose row no longer says "running"
    belied,   \* history: the rows where another's "idle" came over "running"
    starts,   \* launches so far
    crashes   \* deaths so far

bootVars == <<phase, mig, versions, applied>>
runVars == <<proc, alive, idles, starts>>
procVars == <<runVars, reads, tells, auto, orphan, unseen, belied>>
vars == <<instVars, bootVars, procVars, todo, crashes>>

Phases == {"check", "exec", "insert", "seed", "list", "autostart", "serving",
           "fatal", "failed"}

\* What a run of the supervisor has done: taken its place, written "starting",
\* launched the server, written "starting" again, set "running", written it,
\* seen the server end.
Procs == {"none", "accepted", "starting", "launched", "probing", "ready", "running", "exited"}
Alive == {"launched", "probing", "ready", "running"}
NoRows == [i \in {} |-> Blank]
NoneOwned == [t \in Owned |-> {}]

\* A new database, or the one of a panel that had the first file only.
Init ==
    /\ \/ InstInit(NoRows, NoneOwned) /\ versions = {}
       \/ InstInit(InitInst, InitOwned) /\ versions = {1} \cap Files
    /\ applied = [f \in Files |-> IF f \in versions THEN Statements[f] ELSE 0]
    /\ phase = "check"
    /\ mig = [file |-> 1, stmt |-> 1]
    /\ todo = NoRows
    /\ proc = [i \in Ids |-> "none"]
    /\ idles = [i \in Ids |-> 0]
    /\ alive = {} /\ reads = {} /\ tells = {}
    /\ auto = {} /\ orphan = {} /\ unseen = {} /\ belied = {}
    /\ starts = 0 /\ crashes = 0

-----------------------------------------------------------------------------
(* Migrate *)

\* The version is inserted first.
MigrateChecksAndInserts ==
    /\ phase = "check"
    /\ IF mig.file \notin Files
       THEN phase' = "seed" /\ UNCHANGED <<mig, versions>>
       ELSE IF mig.file \in versions
       THEN phase' = phase /\ mig' = [mig EXCEPT !.file = @ + 1] /\ versions' = versions
       ELSE /\ phase' = "exec" /\ mig' = [mig EXCEPT !.stmt = 1]
            /\ versions' = versions \cup {mig.file}
    /\ UNCHANGED <<instVars, procVars, applied, todo, crashes>>

\* SELECT COUNT(*) FROM schema_migrations: the file is passed over, or applied.
MigrateChecks ==
    /\ phase = "check"
    /\ IF mig.file \notin Files
       THEN phase' = "seed" /\ mig' = mig
       ELSE IF mig.file \in versions
       THEN phase' = phase /\ mig' = [mig EXCEPT !.file = @ + 1]
       ELSE phase' = "exec" /\ mig' = [mig EXCEPT !.stmt = 1]
    /\ UNCHANGED <<instVars, procVars, versions, applied, todo, crashes>>

\* A statement of the file, each in a transaction of its own.  None of them
\* can be applied twice: the table, index or column is there already, and the
\* panel gives up.
MigrateExecs ==
    /\ phase = "exec"
    /\ IF mig.stmt <= applied[mig.file]
       THEN phase' = "fatal" /\ UNCHANGED <<mig, applied>>
       ELSE /\ applied' = [applied EXCEPT ![mig.file] = mig.stmt]
            /\ mig' = [mig EXCEPT !.stmt = @ + 1]
            /\ phase' = IF mig.stmt = Statements[mig.file] THEN "insert" ELSE "exec"
    /\ UNCHANGED <<instVars, procVars, versions, todo, crashes>>

\* INSERT INTO schema_migrations.
MigrateInserts ==
    /\ phase = "insert"
    /\ versions' = versions \cup {mig.file}
    /\ mig' = [mig EXCEPT !.file = @ + 1]
    /\ phase' = "check"
    /\ UNCHANGED <<instVars, procVars, applied, todo, crashes>>

\* Any other error of the database ends the panel too: nothing was written.
StartFails ==
    /\ DbMayFail
    /\ phase \in {"check", "exec", "insert", "seed"}
    /\ phase' = "failed"
    /\ UNCHANGED <<instVars, procVars, mig, versions, applied, todo, crashes>>

-----------------------------------------------------------------------------
(* Seed and autostart *)

\* Seed is one transaction, of rows that may be there already.
Seeds ==
    /\ phase = "seed"
    /\ phase' = "list"
    /\ UNCHANGED <<instVars, procVars, mig, versions, applied, todo, crashes>>

\* The list, or nothing when it cannot be read.
AutostartLists ==
    /\ phase = "list"
    /\ todo' = inst \/ (DbMayFail /\ todo' = NoRows)
    /\ phase' = "autostart"
    /\ UNCHANGED <<instVars, procVars, mig, versions, applied, crashes>>

\* Supervisor.Start, which refuses an instance that has a run.
Accepts(i) ==
    /\ i \in DOMAIN inst
    /\ proc[i] = "none"
    /\ starts < MaxStarts
    /\ proc' = [proc EXCEPT ![i] = "accepted"]
    /\ starts' = starts + 1
    /\ UNCHANGED <<alive, idles, reads, tells, belied>>

Visit(i) == /\ phase = "autostart"
            /\ i \in DOMAIN todo
            /\ \A j \in DOMAIN todo : i <= j
            /\ todo' = [j \in DOMAIN todo \ {i} |-> todo[j]]

\* Whatever the status says.
AutostartsAll(i) ==
    /\ Visit(i)
    /\ todo[i].auto
    /\ Accepts(i)
    /\ auto' = auto \cup {i}
    /\ UNCHANGED <<instVars, bootVars, orphan, unseen, crashes>>

\* A marked instance is started, unless the list says "running".
Autostarts(i) ==
    /\ Visit(i)
    /\ todo[i].auto
    /\ todo[i].status # "running"
    /\ Accepts(i)
    /\ auto' = auto \cup {i}
    /\ UNCHANGED <<instVars, bootVars, orphan, unseen, crashes>>

\* Start refuses it, or fails: that is logged.
AutostartFails(i) ==
    /\ Visit(i)
    /\ todo[i].auto
    /\ todo[i].status # "running"
    /\ UNCHANGED <<instVars, bootVars, procVars, crashes>>

AutostartSkips(i) ==
    /\ Visit(i)
    /\ ~todo[i].auto \/ todo[i].status = "running"
    /\ UNCHANGED <<instVars, bootVars, procVars, crashes>>

Serves ==
    /\ phase = "autostart"
    /\ DOMAIN todo = {}
    /\ phase' = "serving"
    /\ UNCHANGED <<instVars, procVars, mig, versions, applied, todo, crashes>>

-----------------------------------------------------------------------------
(* The supervisor's runs *)

\* An UPDATE of the status of an instance, which may be gone.
Status(i, s) ==
    inst' = [j \in DOMAIN inst |->
                IF j = i THEN [inst[j] EXCEPT !.status = s] ELSE inst[j]]
StatusOnly == UNCHANGED <<nextId, owned, loc, requests, late, raced>>

\* The scheduler runs before autostart, the requests come after it.
Up == phase \in {"list", "autostart", "serving"}

\* A user, or a scheduled restart, starts an instance whatever lives on.
UserStarts(i) ==
    /\ Up
    /\ Accepts(i)
    /\ unseen' = unseen \cup ({i} \cap orphan)
    /\ UNCHANGED <<instVars, bootVars, auto, orphan, todo, crashes>>

Steps(i, from, to) ==
    /\ proc[i] = from
    /\ proc' = [proc EXCEPT ![i] = to]
    /\ UNCHANGED <<bootVars, reads, tells, orphan, unseen, todo, crashes>>

\* Start writes "starting", the server is launched, "starting" is written again.
SupStarting(i) == /\ Steps(i, "accepted", "starting") /\ Status(i, "starting") /\ StatusOnly
                  /\ UNCHANGED <<alive, idles, auto, belied, starts>>
SupLaunches(i) == /\ Steps(i, "starting", "launched") /\ alive' = alive \cup {i}
                  /\ UNCHANGED <<instVars, idles, auto, belied, starts>>
SupRegisters(i) == /\ Steps(i, "launched", "probing") /\ Status(i, "starting") /\ StatusOnly
                   /\ UNCHANGED <<alive, idles, auto, belied, starts>>

\* The probe is answered (by the server, or by another one at its port): the
\* transition in memory, then the UPDATE.
SupReady(i) == /\ Steps(i, "probing", "ready")
               /\ UNCHANGED <<instVars, alive, idles, auto, belied, starts>>
SupAnnounces(i) == /\ Steps(i, "ready", "running") /\ Status(i, "running") /\ StatusOnly
                   /\ belied' = belied \ {i}
                   /\ UNCHANGED <<alive, idles, auto, starts>>

\* The server stops, dies or is killed; Wait returns.
ServerExits(i) ==
    /\ i \in alive
    /\ alive' = alive \ {i}
    /\ UNCHANGED <<instVars, bootVars, proc, idles, reads, tells, auto, orphan, unseen,
                   belied, starts, todo, crashes>>
SupWaited(i) ==
    /\ i \notin alive
    /\ \E from \in {"probing", "running"} : Steps(i, from, "exited")
    /\ UNCHANGED <<instVars, alive, idles, auto, belied, starts>>

\* After a crash the run goes on with another server, ...
SupRestarts(i) ==
    /\ starts < MaxStarts
    /\ Steps(i, "exited", "accepted")
    /\ starts' = starts + 1
    /\ UNCHANGED <<instVars, alive, idles, auto, belied>>

\* ... or the run ends, as it does when there was no launch.  From here on a
\* new one may start; "idle" is written after that.
SupEnds(i) ==
    /\ \E from \in {"starting", "exited"} : Steps(i, from, "none")
    /\ idles' = [idles EXCEPT ![i] = @ + 1]
    /\ auto' = auto \ {i}
    /\ UNCHANGED <<instVars, alive, belied, starts>>

\* "idle" is written over what the row says by now.
Idles(i) == /\ Status(i, "idle") /\ StatusOnly
            /\ belied' = IF proc[i] = "running" THEN belied \cup {i} ELSE belied
SupIdle(i) ==
    /\ idles[i] > 0
    /\ idles' = [idles EXCEPT ![i] = @ - 1]
    /\ Idles(i)
    /\ UNCHANGED <<bootVars, proc, alive, reads, tells, auto, orphan, unseen, starts,
                   todo, crashes>>

-----------------------------------------------------------------------------
(* Orphans *)

\* The row of an update, asked for or scheduled, says "running".
UpdateReads(i) ==
    /\ Up
    /\ Cardinality(reads \cup tells) < MaxUpdates
    /\ i \in DOMAIN inst /\ inst[i].status = "running"
    /\ reads' = reads \cup {i}
    /\ UNCHANGED <<instVars, bootVars, runVars, tells, auto, orphan, unseen, belied,
                   todo, crashes>>

\* Its job, later: the supervisor has no run, so the server is an orphan.
\* (Or it has one, or another job is in the way.)
UpdateChecks(i) ==
    /\ i \in reads
    /\ reads' = reads \ {i}
    /\ (proc[i] = "none" /\ tells' = tells \cup {i}) \/ tells' = tells
    /\ UNCHANGED <<instVars, bootVars, runVars, auto, orphan, unseen, belied, todo, crashes>>

\* stopOrphan, up to 45 seconds later: a server went as REST or RCON told it
\* and "idle" is written, or neither answered.
StopOrphan(i) ==
    /\ i \in tells
    /\ tells' = tells \ {i}
    /\ \/ Idles(i) /\ unseen' = unseen \cup ({i} \cap orphan)
       \/ UNCHANGED <<instVars, belied, unseen>>
    /\ UNCHANGED <<bootVars, runVars, reads, auto, orphan, todo, crashes>>

OrphanExits(i) ==
    /\ i \in orphan
    /\ orphan' = orphan \ {i}
    /\ unseen' = unseen \ {i}
    /\ UNCHANGED <<instVars, bootVars, runVars, reads, tells, auto, belied, todo, crashes>>

\* The panel dies: what it has in memory is gone, the servers live on.
Crash ==
    /\ crashes < MaxCrashes
    /\ crashes' = crashes + 1
    /\ phase' = "check"
    /\ mig' = [file |-> 1, stmt |-> 1]
    /\ todo' = NoRows
    /\ orphan' = orphan \cup alive
    /\ unseen' = unseen \cup {i \in alive : i \in DOMAIN inst => inst[i].status # "running"}
    /\ proc' = [i \in Ids |-> "none"]
    /\ idles' = [i \in Ids |-> 0]
    /\ alive' = {} /\ reads' = {} /\ tells' = {} /\ auto' = {} /\ belied' = {}
    /\ loc' = [h \in Handlers |-> Fresh]
    /\ UNCHANGED <<versions, applied, starts,
                   inst, nextId, owned, requests, late, raced>>

-----------------------------------------------------------------------------
BootNext == \/ MigrateChecks \/ MigrateExecs \/ MigrateInserts \/ StartFails
            \/ Seeds \/ AutostartLists \/ Serves
            \/ \E i \in Ids : Autostarts(i) \/ AutostartFails(i) \/ AutostartSkips(i)

ServerNext(i) == \/ UserStarts(i) \/ SupStarting(i) \/ SupLaunches(i) \/ SupRegisters(i)
                 \/ SupReady(i) \/ SupAnnounces(i) \/ ServerExits(i) \/ SupWaited(i)
                 \/ SupRestarts(i) \/ SupEnds(i) \/ SupIdle(i)
                 \/ UpdateReads(i) \/ UpdateChecks(i) \/ StopOrphan(i) \/ OrphanExits(i)

RequestNext == /\ phase = "serving"
               /\ \E h \in Handlers : HandlerNext(h)
               /\ UNCHANGED <<bootVars, procVars, todo, crashes>>

Next == BootNext \/ (\E i \in Ids : ServerNext(i)) \/ RequestNext \/ Crash

Spec == Init /\ [][Next]_vars

-----------------------------------------------------------------------------
(* Properties *)

\* The types of the variables.
TypeOK ==
    /\ InstTypeOK
    /\ phase \in Phases
    /\ mig.file \in 1 .. Cardinality(Files) + 1 /\ mig.stmt \in Nat
    /\ versions \subseteq Files
    /\ \A f \in Files : applied[f] \in 0 .. Statements[f]
    /\ \A i \in DOMAIN todo : i \in Ids /\ todo[i] \in Row
    /\ proc \in [Ids -> Procs]
    /\ idles \in [Ids -> Nat]
    /\ \A S \in {alive, reads, tells, auto, orphan, unseen, belied} : S \subseteq Ids
    /\ starts \in 0 .. MaxStarts /\ crashes \in 0 .. MaxCrashes

\* A version in schema_migrations stands for the whole file, and no panel goes
\* on without all of them, wherever an earlier one died.
VersionMeansApplied ==
    /\ \A f \in versions : applied[f] = Statements[f]
    /\ phase \in {"seed", "list", "autostart", "serving"} => versions = Files

\* A panel gives up at a statement that was applied already only because an
\* earlier one ended between it and the insert of the version (db.go:62-67).
FatalMeansTorn ==
    phase = "fatal" => crashes > 0 /\ applied[mig.file] > 0 /\ mig.file \notin versions

\* What schema_migrations and a panel that gives up say of the schema is true.
MigrationsAgree == VersionMeansApplied /\ FatalMeansTorn

\* "Idempotent, may be repeated" (db.go:35): a panel that died comes up again.
NeverFatal == phase # "fatal"

\* autostart never starts a server beside one that lives on, as long as its
\* row says "running" (main.go:85-86): not after a crash at any step, a patch
\* of the row, a delete, or a late write of the status.
AutostartSpares ==
    \A i \in auto \cap orphan : i \in alive => i \in unseen

\* The row says what the supervisor announced, though a patch that read the
\* row before writes it afterwards: only the "idle" of an earlier run, or of
\* an update that took the server for an orphan, comes over it.
RunningIsStored ==
    \A i \in DOMAIN inst :
        proc[i] = "running" => inst[i].status = "running" \/ i \in belied

=============================================================================
