# PalPanel in TLA+

PalPanel is a web panel for Palworld dedicated servers: one Go process that
starts, watches, updates, backs up and restores game servers for its users. This
directory holds TLA+ models of the parts whose correctness depends on
the order of events, TLC configurations that check them on small instances, and
TLAPS proofs of what matters most. Paths below are relative to `src/`.

## 1. The system

### 1.1 Components

| Component | Code | State | Operations |
|---|---|---|---|
| Process supervisor | `internal/supervisor` | `procs` (one `procInfo` per instance: state, stopReq, terminated, restarts, p, done), `instances.status`, OS processes | Start, Stop, Status, the `loop` goroutine (launch, probe, wait, restart, backoff) |
| Job manager | `internal/job` | `jobs`, `running` (one job per key), `seq` | Start, finish (with panic), report, Get, List, RunningOfKind, gc |
| Operations on an instance | `internal/api/instance_actions.go`, `backup_handlers.go`, `schedule_handlers.go`, `instance_handlers.go` | none of their own; the jobs' progress | install, start, stop, restart, update, backup, restore, delete, scheduled execution |
| Backups | `internal/backup` | table `backups`, archives on disk, the save directory | RunBackup, RunRestore, cleanup, Verify, delete |
| Task scheduler | `internal/scheduler` | table `schedules`, `jobs`, `running` | Start (ticks), Reload, fire, exec; the handlers' create, patch, delete |
| Cron expressions | `internal/cronexpr` | none | Parse, Next |
| Accounts and permissions | `internal/auth`, `internal/api/{user,role,auth}_handlers.go`, `middleware.go` | `users`, `roles`, `user_roles`, `role_permissions`, `instance_grants`; tokens at the clients | Setup, Login, VerifyToken, Can, Bump, create, patch and delete of users and roles |
| Event hub, websocket | `internal/event`, `internal/api/ws_handlers.go` | subscribers with a bounded queue each | Subscribe, Publish, cancel |
| Instances | `internal/instance` | table `instances` | Create, Update, Delete, List; port and directory conflicts |
| World settings | `internal/palsettings` | `PalWorldSettings.ini` of an instance | load, validate, serialize, save, hot apply |
| SteamCMD, installer | `internal/steamcmd`, `internal/installer` | the SteamCMD directory, a running child | Ensure, Run, Install, Update |
| RCON, REST clients | `internal/rcon`, `internal/gateway` | a connection per call | Exec, Probe, Shutdown, Announce, ... |
| Database, migrations | `internal/db` | `schema_migrations` and the tables | Open (one connection), Migrate |
| Panel start | `main.go` | none that outlives it | migrations, seed, wiring, autostart, then the requests |
| Configuration, audit, secrets | `internal/config`, `internal/audit`, `internal/auth/secret.go` | a file, a table, a key file | Load, Log, encrypt |

### 1.2 How they interact

* A request handler runs in a goroutine of its own, any number at a time. It
  reads the database, asks the job manager whether a conflicting job is running,
  and then calls the supervisor, starts a job or edits a table. **Nothing is
  locked between the question and the act.**
* A job is a goroutine with a key (instance, kind); the manager admits one per
  key. Update and restore jobs call the supervisor's Stop, and `backup.Service`.
* The supervisor has a goroutine per accepted start, and the game server is a
  process of its own that may exit at any time. Stop and the loop meet through
  `procInfo` (under `m.mu`), a `done` channel per round, and the pid.
* The scheduler's loop executes a schedule by calling `Deps.RunScheduled`, which
  goes the way of the handlers. The handlers edit the table and call Reload.
* The database has one connection, so a statement is atomic, and two statements
  are two steps unless a transaction holds them together. `instances.status` is
  written by the supervisor after it left its lock, and read by autostart.
* Events (job progress, server state) go through the hub to websocket clients;
  a slow client loses events.

### 1.3 What is hard, and what makes each part correct

`PROJECT.json` lists every hazard with its line under "hazards". In short:

* **Supervisor**: two Starts at once; a Stop at each of a dozen places of the loop
  (before the launch, during it, in the probe, in the backoff, after an exit); a
  kill that fails; status writes that land late. Correct: one process at most,
  idle means no process, a stop request is never lost, every call returns, each
  channel is closed exactly once.
* **Operations**: check and act are two steps; a stop that gives up waiting.
  Correct: no server runs while its files are replaced, conflicting jobs exclude
  each other but for answers that are out of date, every job ends and frees its key.
* **Scheduler**: a schedule is twice there, in the table and in memory, and Reload
  carries one into the other while ticks fire and edits go on; crashes; failing
  UPDATEs. Correct: no overlap, no due time served twice, none lost.
* **Backups**: row and file change in separate statements; the cleanup works on a
  list that may be old; a crash anywhere; a removal that fails; a game that saves while
  it is packed. Correct: every row has its archive, every file a row, and what a
  restore wipes is in an archive unless the game went on saving.
* **Accounts**: a login reads and signs in separate steps, a patch is several
  statements, and every start of the panel seeds the built-in roles again. Correct:
  after a change old tokens are worthless.
* **Job manager, event hub**: the list is trimmed while jobs run; queues are bounded.
* **Instances, panel start**: the ports are checked in one statement and written in
  another, a patch writes back a row it read earlier, a delete is six statements;
  the panel dies at any of them, or in the middle of a migration, and game servers
  outlive it. Correct: ports differ, a new instance owns nothing of an old one, a
  version stands for its whole migration, and autostart starts no second server.
* **SteamCMD**: mirrors fail, two installs share one directory, three goroutines and
  a child wait for one another over two pipes. Correct: what Ensure returns with is whole, every
  line is seen, Run returns.
* **Cron expressions, settings**: steps, two kinds of days, the end of a scan, hours the
  clocks skip or repeat; quotes, commas and parentheses in values. Correct: the nearest
  due time, and what is written is what is read.

## 2. Modules

| Module | Models | Kind |
|---|---|---|
| `Supervisor` | `supervisor.go`, `kill_other.go`, `os_starter.go`, one instance | detailed specification |
| `SupervisorLifecycle` | what the supervisor promises | abstract specification, refined by `Supervisor`, used by `PanelOps` |
| `SupervisorProofs` | | theorems about `Supervisor` |
| `JobSlots` | what the job manager promises | abstract specification, refined by `Jobs`, used by `PanelOps` |
| `Jobs` | `job.go`, `event.go`, `ws_handlers.go` | detailed specification |
| `JobsProofs` | | theorems about `Jobs` |
| `PanelOps` | the handlers and jobs of one instance | composition over `SupervisorLifecycle` and `JobSlots` |
| `PanelOpsProofs` | | theorems about `PanelOps` |
| `Scheduler` | `scheduler.go`, `schedule_handlers.go` | detailed specification |
| `SchedulerProofs` | | theorems about `Scheduler` |
| `Backup` | `backup/*.go`, `handleBackupDelete` | detailed specification |
| `BackupProofs` | | theorems about `Backup` |
| `Accounts` | `auth/service.go`, `jwt.go`, the user, role and login handlers, the middleware | detailed specification |
| `Instances` | `instance/store.go`, `instance_handlers.go`, and what inserts rows for an instance | detailed specification, part of `Boot` |
| `Boot` | `main.go`, `db/db.go`, deaths of the panel, over `Instances` | composition |
| `BootProofs` | | theorems about `Boot` and `Instances` |
| `SteamCmd` | `steamcmd.go` as the installer uses it | detailed specification |
| `SteamCmdProofs` | | theorems about `SteamCmd` |
| `CronExpr` | `cronexpr.go` | operators |
| `IniCodec` | `palsettings/ini.go` | operators |
| `Settings` | `config_handlers.go`, `rcon.go`, over `IniCodec` | detailed specification |
| `ApiProofs` | | theorems about `Accounts`, `Settings` and the schedules of `Algorithms` |
| `Algorithms` | | `CronExpr` over its inputs beside `Settings` |
| `MCSupervisor`, `MCPanelOps`, `MCScheduler`, `MCBackup`, `MCJobs`, `MCAccounts`, `MCBoot`, `MCAlgorithms`, `MCSteamCmd` | | instances for TLC |

Each module contains, in this order: constants with a named assumption, variables
grouped by owner, helpers, the actions, Next, fairness, the properties. In front of
some actions stands a *mistaken form* of them, with one plausible bug; it is never
part of Next, and is there to show that a property can fail. Every specification
has a `TypeOK` (`Algorithms` that of `Settings`). It holds in every configuration, and
for all but `Algorithms` it is a theorem; the configurations name only properties that
can say more. To check it, add it to the INVARIANTS of a `.cfg`. A few properties are conjunctions (`FilesAlone`,
`JobsExclude`, `AllEnd`, `RunsMoveOn`, `MigrationsAgree`, `SchedulesMoveOn`,
`OwnedRowsFollow`) of parts that can be named in
a `.cfg` one by one.

### 2.1 Supervisor

One instance. `cur` and `pi` are `Manager.procs` and the `procInfo`s: every
accepted Start makes a new *run* (1, 2, ...), each launch within a run is a
*round*; `p` and `done` name the round whose process and channel the code holds.
`loop[r]` is the program counter of the goroutine of run `r`, `op[c]` that of a
caller with the snapshot Stop takes, `os[r][k]` the process, `closed` the closed
channels, `db` the status column. A section under `m.mu` is one action; every
database call, kill, channel operation and wait outside the lock is another:
`StartCheck` / `StartInstall` are the two looks of Start, `StopBegin` the
snapshot, `StopHooks`, `StopKill`, `StopDone`, `StopGivesUp` the chain of Stop,
`LoopTop` ... `FinishIdle` the loop. After an exit the loop takes the lock three times, and
a Stop may come between: `LoopCrashed` reads stopReq, `LoopCounts` (or `LoopGivesUp`) the
restarts, `LoopRestart` sets the state. Timers are nondeterministic: a timeout may
come at any time its wait goes on. Ignored errors are choices (`KillMayFail`,
`DbMayFail`).

`SupervisorLifecycle` has four variables (phase, server, stopAsked, restarts): a server
that ended may be taken for crashed (`Crash`), and then there is a restart (`Restart`,
which does not look at stopAsked again), an end (`GiveUp`) or a run of another start
(`StartAgain`). The refinement mapping at the end of `Supervisor` shows the run in the
table.

### 2.2 PanelOps

The supervised server is `SupervisorLifecycle` (`Sup!Begin`, `Sup!AskStop`, ...),
which `Supervisor` refines; the manager's keys are `JobSlots`. `req[c]` is a
handler: `Checks(op)` lists the kinds it asks for in the code's order, one step
each, then it acts. `task[k]` is the job of kind `k` with its steps (an update:
look for a restore, for a backup, read the status, stop, back up, install; a
restore: verify, back up, stop, unpack). Stop is two steps, the request and the
return; `aborted` marks a run that was stopped in its backoff, where Stop returns
before the run is over (`StopReturnsSettled`, section 3). Downloading,
packing and unpacking are steps that end or fail at any time. What the archives
contain is the matter of `Backup`.

Since a request asks and acts in two steps, some answers are out of date when they are
used. `req[c].late` notes the kinds whose job began after the request had asked for them,
and `excuse[k]` what such a request then let in beside the job of kind k: a job, a start or
a delete; besides the starts of the restart button, which asks for nothing, and a stop of
the job's own that gave up. The properties except just these, so that they say that
there is no other way. Install jobs ask for nothing, and nobody asks for them: the
properties say nothing of them.

### 2.3 Scheduler

`table` and `jobs` are the two copies of the schedules, `running` the set against
double execution, `exec` the executions inside RunFunc. `loc[g]` is a goroutine
(the loop or a handler) with what it carries: the rows it read, the ids it has
yet to visit, the time it took. Load and Install are the two halves of Reload (the
read is outside the lock). `FireRegisters` and `FireWrites` are the two halves of
fire. Time is minutes; a cron expression is the set of minutes it matches.
`PanelRestarts` forgets all but the table. `bound` never changes: it is one of the records
of `Bounds`, chosen in the first state, so that one run covers several small
instances (edits without restarts, restarts without edits). `ServedOnceUnedited` is
what holds of the times a schedule is served; `ServedOnce` claims it with edits as well.

### 2.4 Backup

A row has an id, a type, a second and the file it names; `disk` maps the files that
exist to their content (`Half` while an archive is being written). Contents are
numbers of versions of the saves, so that "this archive holds what was wiped" can
be said. An archive is packed file by file (`BackupBegins`, `BackupPacked`): when the game
saved in between it is whole, but a mix (`Partial`), or of either version. Every statement of
RunBackup, cleanup, RunRestore and handleBackupDelete is an action. os.Remove may fail
(`Remove`), which leaves a file in `stuck`. `SameSecond` lets two archives be named in the
same second. One job runs at a time here; when that fails is shown in `PanelOps`.

### 2.5 Jobs

`job[i]` is a `Job` (with done and failed as one state, *ended*), `listed` the table
`m.jobs`, `running` the map from keys to ids; `Start`, `Report` and `Finish` are the
sections under `m.mu`, each followed by a broadcast, which is not: `CastBegin`
takes the hub's read lock and the list of subscribers, `Cast` serves one of them
(or drops the event, when its channel is full), `CastEnd` gives the lock back.
`Connect` and `Cancel` need the write lock, so they wait for `reading = {}`. `ws[c]`
is the place of `handleWS`: in its select, in a write, on the way out. A client may
leave at any time. `Collect` is `gcLocked`.

`JobSlots` has one variable, the set of busy keys; `Jobs` maps it to the keys
`running` holds an id for.

### 2.6 Accounts

Every statement or transaction is one step (the database has one connection):
`SetupCommits` is the transaction of Setup, `LoginReads` the SELECT of Login and
`LoginSigns` what follows after the comparison of the password; `PatchStep` is one of
the UPDATEs of `handleUserPatch`, which are in no transaction, and `PatchFails` the
place where they stop. `Request` is `authRequired` (SessionUser), `Permitted` the query
of `requirePerm`; the edit itself comes one or more steps later. A password is the
number of passwords its owner has had, and a token carries the password and the
permissions of its login as history: the code signs the uid and `role_version` only,
and the properties say that these two are enough. `PanelRestarts` is a death and the next
start of the panel: the tokens stay good (the secret is kept), and Seed puts the codes of
the built-in roles back, which `reseeded` notes. PUT roles and PUT grants take any user
id. `grants` are the instances given to
single users, and `Reach(u)` what `Can` allows u of them: a token carries the reach of
its login like its permissions.

Three observations no run claims anything about. *What an administrator takes from a
built-in role comes back*: role_handlers.go:133-134 says that its permissions may be
adjusted, but Seed inserts them again at each start (seed.go:25-30), and bumps no
role_version; old tokens have them at once. *A patch that fails between two
UPDATEs* leaves the password changed and the old tokens valid (`cut` excepts those
users). *An administrator's row may outlive the administrator*: PUT roles asks
nothing of its user, so when it comes after the user's delete it leaves rows of
`user_roles` for nobody; the delete's search for another administrator counts these
rows (`user_handlers.go:246-257`), and with four edits TLC reaches a delete that leaves
such a row and no administrator.

### 2.7 Instances and Boot

`Instances` has the table with its rows' directories, ports, autostart mark and
status; `owned` are the instances for which the tables of grants, schedules and
backups have rows (no foreign key ties them). Each handler is a goroutine with
what it has read: `CreateCheck` / `CreateInsert`, `PatchRead` / `PatchCheck` /
`PatchWrite`, `MakeLoads` / `BackupStarts` / `MakeInserts`, and `DeleteRow` ...
`DeleteBackups`, the statements of the delete, any of which may fail.

`Grant` takes any instance id, as PUT grants does, also one that is not there yet: what
comes to a table when its instance is not there is noted in `late`.

`Boot` EXTENDS it with the life of the panel: `MigrateChecks`, `MigrateExecs` and
`MigrateInserts` are the statements of `Migrate`, `StartFails` any error of the database
before the panel is up, `Autostarts`, `AutostartFails` and `AutostartSkips` a turn of the
loop of `main.go`. The handlers' requests come only after `Serves`; the scheduler runs
from before autostart on, so a run or an update may begin then (`Up`). `Crash` takes all that is
in memory at any step; servers live on as `orphan`s. Of the supervisor there is what the
status column depends on: `proc[i]` is how far a run is, `alive` whether its server lives,
and each transition is a step apart from its UPDATE. `SupEnds` ends a run, `SupIdle` writes
"idle" for it, at any time after that and over whatever the row says by then (`idles` counts the
writes to come). An update reads the row (`UpdateReads`), asks the supervisor
(`UpdateChecks`) and writes "idle" after it told the server to go (`StopOrphan`), in three
steps. Where an "idle" came over the "running" of a later run, `belied` notes it.

### 2.8 CronExpr, IniCodec, Settings and Algorithms

`CronExpr` has `Parse` (items, steps, bounds, the second Sunday) and `Next` (the scan)
with the calendar as a parameter, and beside them `Due`, what an expression means
by the package's comment. A minute is an instant, and `Calendar` its wall clock in a zone,
which may skip an hour and have another twice; `DateOf` is the minute time.Date finds for
a wall clock, of which there may be two (`FirstScanned`). `IniCodec` has the scanners of `ini.go` as folds over
sequences of characters: `Normalize`, `Split`, `Unquote`, `Pairs`, `Serialize`.

`Settings` is PUT config. `loc[h]` is a handler with its changes and the map it read:
`PutLoads`, `SaveTruncates` and `SaveWrites` (os.WriteFile empties the file before it
writes), `Asks` (Status), then `Dials`, `DialReads`, and for each key `ExecSends` with
`ExecReturns`, `ExecSkips` or `ExecFails`. `conn[h]` is the connection: the packets on their
way out and in, the last id, and whether a deadline has cut one (`torn`). The game
server is external: it reads the file in `Launches`, has RCON from `Listens` on, takes a
command in `ServerExecs`, may send empty packets first, and ends at any time; of the
supervisor there is the state Status gives (`Starts`, `Announces`, `Settles`). Histories say
where a property makes an exception: `lost` (a write failed after the emptying),
`raced` (a PUT read before another one wrote), `missed` (the server was not reached, or was
launched while the file was empty), `overtaken` (another PUT wrote since).

`Algorithms` drives both: a schedule is followed from time to time, or `Settings` runs.
`bound` is the case, as in `Scheduler`.

### 2.9 SteamCmd

`inode`, `tmp` and `archive` are the files a download writes, with the names that point
to them; `file` the unpacked members. `loc[c]` is a caller in Ensure: `Fetch`, `Fill`,
`Rename`, `Open`, `Member`, `Copy`, `Found`, and the failure of each, for each mirror.
Nothing guards the directory, so two callers meet in it; `windows` says whether an
open file may be renamed or removed. `run[c]` is an execution: the child (`Prints`,
`ChildEnds`), the copying goroutine of os/exec (`Copies`), the scanner (`Scans`,
`OnLine`, `ScanEnds`) and the two waits of Run (`Waits`, `RunReturns`).

## 3. Runs

Passing runs (states are distinct states found by TLC):

| Run | Instance | Shows | States |
|---|---|---|---|
| `supervisor_safety` | 2 callers, 2 runs (the first probed, the second not), 1 restart; kills and UPDATEs may fail | the invariants and the refinement of the lifecycle | 1.06 M |
| `supervisor_liveness` | 1 caller, 2 runs, 1 restart, no failures | calls return, a stop ends its run, starting ends, a stopped launch is never announced, the status column does not claim a server that is not there | 78 k |
| `panel_ops` | 2 callers with the operations of one of 9 mixes, 2 runs, stops that give up | no server under an update or restore, one job at a time, none on a deleted instance, but for out-of-date answers; jobs and requests end | 221 k |
| `scheduler` | 2 handlers, 2 edits, 1 schedule; or 1 edit and failing UPDATEs; or 2 schedules, 4 minutes, 1 crash | executions never overlap, stored before run, no time served twice, none lost, nothing blocked | 217 k |
| `backup_jobs` | 3 archives, a delete, a crash, failing statements | rows have archives, what is wiped is archived, no stray files | 3.7 M |
| `jobs` | 2 jobs of 2 keys, 1 client, queue of 2 | keys are jobs, events in order and true, nobody waits for a client, `JobSlots` | 194 k |
| `accounts` | 2 browsers, 3 users, a custom and a built-in role, 1 instance, 2 edits, 1 restart of the panel | tokens end with the password and with new permissions | 1.1 M |
| `boot` | 2 handlers, 2 requests, 2 instances, 2 launches, 1 update, 2 migration files, 1 crash | ports differ, a delete clears, a new instance owns nothing old, migrations are whole, autostart spares what lives, the status column | 2.6 M |
| `algorithms` | 180 expressions, every minute of 4 small years, in two of them the middle of it too; every edit of 2 settings, one with 29 values, one with 10; 1 handler and a server with faults; 2 handlers and a server | the next time is the nearest, settings are kept, a server that runs has what the file says, answers match commands | 568 k |
| `steamcmd` | 2 callers, 2 calls, 2 mirrors, 1 crash, both kinds of systems | Ensure returns with whole files, every line is seen, Run returns | 517 k |

Violation runs, places where the code does something else than its own comments
say; "findings" in `PROJECT.json` quotes them:

| Run | What happens |
|---|---|
| `panel_restart_unchecked` | the restart handler asks for no job at all, and launches the server during an update |
| `scheduler_reload_stale` | a Reload that read before a fire installs the old times after it, and the run is repeated |

More such places have a property and no run. Each property is what a comment of the code
says, and is violated as soon as it is added to the configuration named:

| Property | Configuration | The comment | What happens |
|---|---|---|---|
| `StopReturnsSettled` | PROPERTIES of `MCSupervisorLive.cfg` | `supervisor.go:396-397`: the state is settled when Stop returns | Stop returns on the channel of a crashed round while the run goes on to its backoff |
| `SourceStays` | INVARIANTS of `MCBackup.cfg` | `backup_handlers.go:195-196`: the archive is not deleted during its restore | the restore's own backup rolls it out |
| `NeverFatal` | INVARIANTS of `MCBoot.cfg` | `db.go:35`: Migrate may be repeated | after a death between a statement and the insert of the version no panel comes up |
| `NextIsLater` | INVARIANTS of `MCAlgorithms.cfg` | `cronexpr.go:137-138`: Next gives a time after the one it is given | in an hour the clocks repeat time.Date may find the earlier of two minutes, and Next answers with a time that has passed |
| `ZeroMeansNever` | INVARIANTS of `MCAlgorithms.cfg` | `cronexpr.go:11-12`: the zero time is for what never matches | the 29th of February may be more than a year away |
| `RefusedIsSeen` | INVARIANTS of `MCAlgorithms.cfg` | `rcon.go:30`: a failed login gives ErrAuth | Dial takes the first packet for the answer, and some servers send an empty one first |
| `UnpacksWhole` | INVARIANTS of `MCSteamCmd.cfg` | `main.go:33-34`: half a package is not taken for a usable one | two downloads write to one temporary file |

Where a property makes an exception or a bound leaves something out, the code does
reach it; a change of a constant, or of the property, makes TLC show each:

* without the excuses in `PanelOps`, `FilesAlone`, `OneAtATime` and `NoJobOnDeleted` fail: a
  backup and a restore (or a start and an update) pass each other's checks, and where
  Stop returns though its wait ran out, the job works under a live server;
* with `SameSecond = TRUE` in `Backup`, two archives of a type made within a second
  share a file, and `RowHasArchive` fails when one of them is deleted;
* without the exception `slipped`, `NoStrayFiles` fails: a delete between a cleanup's
  list and its DELETE shifts the count the files are taken by;
* without the exception `stuck`, it fails as well: os.Remove fails when the row is gone, and
  only a log tells (service.go:68, 110; backup_handlers.go:210-213);
* without the condition on `plays`, `WipedIsArchived` fails: the game saves while the
  restore's own backup packs, or between that and the wipe, and what is wiped is whole in
  no archive;
* without the exception `reseeded`, `NoPermissionWithoutLogin` fails: a start of the panel
  gives a built-in role back what an edit took from it;
* without the exception `late`, `NewOwnsNothing` fails: PUT grants names an instance that is
  not there yet;
* without the exception `belied`, `RunningIsStored` fails: the "idle" of a run that ended
  lands after the "running" of the next, or an update tells a server to go that it read
  of before the run was there;
* without `DateOf(given) >= given`, `NextIsNearest` fails, as `NextIsLater` does; and counted
  from the minute given, `NoneIsPassed` fails where time.Date finds the later of two
  minutes. The scheduler works in local time (scheduler.go:72) and takes an answer that
  has passed for due, so in such an hour a schedule may be executed at every tick;
  `Scheduler` has clocks that repeat no hour;
* without the exception `raced`, `PortsDistinct` fails: two requests check their ports
  before either writes them;
* without the exception `unseen`, `AutostartSpares` fails: a panel dies between the launch
  and the UPDATE to "running", an orphan told to stop has its row set to "idle" before
  it is gone, or a user starts an instance beside its orphan and the row follows the new
  server; the next panel starts one more;
* without the exception `cut`, or the one for another caller that is unpacking just
  then, `EnsuredIsWhole` fails: the entry of a half unpacked archive satisfies the next
  Ensure;
* without the exception `long`, `RunEnds` fails: the scanner stops at a line longer than
  its buffer, the copying goroutine waits for a reader, and Run waits for it;
* with `AllValues \ {<< >>}` for `CleanValues` in `ValuesOrServer`, `SettingsKept` fails: blanks at the
  ends of a value are trimmed, and parentheses without quotes are taken for a list;
* without the exception `raced`, `SettingsKept` and `ToldOrMissed` fail: two PUTs read the
  file before either writes it, the edit of one is lost, and the server was told both;
* without the exception `lost`, they fail as well: a write breaks off when the file is
  empty, and the next PUT makes a file of defaults and its own changes;
* without `overtaken` or `Writing` in `missed`, `ToldOrMissed` fails: of two PUTs the slower
  one tells the server the older value last; a server is launched while the file is
  empty, and is told only of the keys that changed.

### 3.1 Bounds, and why they are enough

* `supervisor_safety`: every race of these handlers is between two callers (a third
  finds what the second left); two runs let a late step of the old run meet the new
  one; one restart distinguishes the first round, a later round, and restarts used
  up. The callers are symmetric here, as the browsers of `accounts` are; neither run
  checks liveness.
* `supervisor_liveness`: a second caller adds no step a loop waits for; the second run
  is there for a Stop that arrives between two runs. UPDATEs succeed because
  `DbRunningMeansRunning` speaks of writes that land, and kills because the code
  promises no stop when the system refuses the kill.
* `panel_ops` has two requests at a time and any number of jobs beside them: a race of
  the handlers is between one that asks and one whose job begins. All operations for both
  at once are out of reach; the mixes put each next to those that exclude it or that it
  excludes. Two runs are a start before and a start after a job.
* `scheduler`: four minutes are a due time, a missed one, a restart and a later one;
  the expressions are every minute, every second minute and never. Edits and
  restarts are not combined: a restart throws away just the copy in memory that
  edits make differ. `ServedOnceUnedited` claims nothing once there were edits (with
  one `scheduler_reload_stale` shows the opposite).
* `backup_jobs`: `KeepCount` 1 makes every backup roll something out; three archives are
  the kept one, the one being made and the restore's own. Two versions of the saves let
  the game save once, before, during or after a packing. One type of backups made by
  jobs, besides the restore's: types only name files.
* `jobs`: `MaxJobs` 1 and two jobs make the clean-up run with something to remove; a
  unit of time is longer than the retention (`Retain` 0). Two jobs announce up to six
  events, so a queue of two fills, drops and is used again. One client is enough:
  a broadcast treats clients one after the other, and what another one could do to
  this one is to hold the broadcast up, which the interleaving with a second job
  does as well.
* `accounts`: two browsers and two edits let a login, a patch and a change of
  roles overlap, each with the other's steps between its own; one restart comes before,
  between or after them. The third user is one
  that neither of the browsers belongs to. Of three permissions one manages users,
  one roles, and one (instance.manage) reaches every instance, so one instance tells
  whether a user reaches it by grant, by permission or not at all.
* `boot`: two requests at once are a check that another one's write invalidates, or one
  that makes rows for an instance while the other deletes it; the instance there is at
  the start has rows of every kind. Two pairs of ports differ in both; pairs that
  share one port only are left to `PortsStayDistinct`, which has any set of pairs. A
  file of two statements can be torn, a file of one cannot. One death of the panel is
  enough for an orphan and a torn migration; two launches are the orphan and the
  second server, or two runs of which the first one's "idle" comes late. One update
  reads a row, and acts on it when the run is another.
* `algorithms`: `Next` and `Parse` are uniform in the lengths of hours, days and months,
  so a small calendar has all of its cases (two restricted days, a step that does not
  divide its range, a month too short, the leap day, an hour skipped and one repeated in
  every year, with time.Date finding the earlier minute in some and the later in others). Values of up to two characters
  and a few longer ones have every neighbour of quote, comma and parenthesis the
  scanners look at; a file has a list without quotes and a key the panel does not know.
  Beside a server, two keys are enough: one that a PUT changes and one that it keeps, a
  command that is answered and one that follows it. Two handlers meet once; after that
  no PUT begins (`PutLoads`). Faults (writes that fail, a wrong password, empty packets)
  come with one handler: they are of its own connection or write. The order in which
  packets come is TCP's; what a closed connection still carried is not executed.
* `steamcmd`: two callers, since a third does nothing to the files that the second does
  not; an archive of two members has a first and a last; the pipe holds one line of
  two, so that the child waits for the copy.

### 3.2 Fairness

* Goroutines are scheduled: weak fairness of every loop, caller and job step.
* A process that was signalled goes away (weak fairness of the exit of a *dying*
  process); nothing makes a server that was not killed exit.
* The probe has a deadline: strong fairness of leaving it, since the loop comes
  back to it again and again.
* The ticker ticks, executions end (every call in RunScheduled has a timeout).
* In `Jobs`: a broadcast goes on, `handleWS` takes what is in its channel, a write ends
  within its five seconds; strong fairness of the way out (a select does not pass
  over a closed channel for ever) and of the write lock (a waiting writer of
  `sync.RWMutex` keeps later readers out). Nothing is assumed of what a job's
  function does, nor of the clients.
* In `SteamCmd`: weak fairness of the copying goroutine, the scanner and Run, per caller.
  SteamCMD itself need not end, nor a mirror answer: `RunEnds` begins where the child
  has ended.
* No fairness for users, edits, crashes or failures. `Accounts`, `Backup`, `Boot`,
  `Algorithms` and `supervisor_safety` check safety only.

## 4. Proofs

Every theorem is about all values of the constants that the module's assumption
allows: any number of callers, handlers, users, files, steps and crashes. The
hypotheses that a theorem has besides are in the tables; each is a choice the
configurations of its run make as well, and section 3 says what goes wrong without
it. None of the properties below is inductive by itself: each module has an inductive
invariant, `Inv` unless another name is given, from which its properties follow, one
lemma per action or kind of action that shows that the steps keep it, and the
theorems at the end.

| Theorem | States | Hypothesis |
|---|---|---|
| `SupervisorProofs!TypeCorrect` | `TypeOK` | |
| `SupervisorProofs!AtMostOneProcess` | `SingleProcess` | |
| `SupervisorProofs!IdleIsDead` | `IdleMeansNoProcess` | |
| `SupervisorProofs!NoDoubleClose` | `DoneClosedOnce` | |
| `SupervisorProofs!DoneMeansExited` | `StopDoneMeansExited` | |
| `SupervisorProofs!RunningIsTrue` | `DbRunningMeansRunning` | `~DbMayFail` |
| `SupervisorProofs!StoppedNeverRuns` | `StoppedLaunchNeverRuns` | |
| `SupervisorProofs!Refinement` | `ImplementsLifecycle` | |
| `JobsProofs!TypeCorrect` | `TypeOK`: no channel is above its capacity | |
| `JobsProofs!KeysAreJobs` | `KeyIsJob` | |
| `JobsProofs!RecentStayListed` | `RecentJobsListed` | |
| `JobsProofs!EventsComeInOrder` | `EventsInOrder` | |
| `JobsProofs!EndsAreFree` | `EndEventMeansFree` | |
| `JobsProofs!SlotsImplemented` | `ImplementsJobSlots` | |
| `PanelOpsProofs!TypeCorrect` | `TypeOK` | |
| `PanelOpsProofs!JobsStayApart` | `JobsExclude` | |
| `PanelOpsProofs!FilesLeftAlone` | `FilesAlone` | |
| `SchedulerProofs!TypeCorrect` | `TypeOK` | |
| `SchedulerProofs!NeverOverlap` | `NoOverlap` | |
| `SchedulerProofs!StoredFirst` | `StoredBeforeRun` | |
| `SchedulerProofs!ServedAtMostOnce` | `ServedOnceUnedited` | |
| `BackupProofs!TypeCorrect` | `TypeOK` | |
| `BackupProofs!RowsHaveArchives` | `RowHasArchive` | `Apart` |
| `BackupProofs!WipedStaysArchived` | `WipedIsArchived` | `Apart` |
| `BackupProofs!NothingStrays` | `NoStrayFiles` | `Apart` |
| `ApiProofs!TypeCorrect` | `TypeOK` | |
| `ApiProofs!PasswordsEndSessions` | `TokensFollowPasswords` | |
| `ApiProofs!NothingGainedWithoutLogin` | `NoPermissionWithoutLogin` | |
| `ApiProofs!SettingsTypeCorrect` | `SettingsTypeOK` | |
| `ApiProofs!ReturnsOwnAnswer` | `AnswersMatch` | |
| `ApiProofs!FileSaysWhatWasPut` | `SettingsKept` | `Sound` |
| `ApiProofs!ServerHasWhatFileSays` | `ToldOrMissed` | `Sound` |
| `ApiProofs!NextFindsNearest` | `NextIsNearest` | |
| `BootProofs!TypeCorrect` | `TypeOK` | |
| `BootProofs!MigrationsTellTheTruth` | `MigrationsAgree` | |
| `BootProofs!PortsStayDistinct` | `PortsDistinct` | |
| `BootProofs!RunningStored` | `RunningIsStored` | |
| `BootProofs!SparedOrphans` | `AutostartSpares` | |
| `BootProofs!OwnedFollow` | `OwnedRowsFollow` | |
| `SteamCmdProofs!TypeCorrect` | `TypeOK` | |
| `SteamCmdProofs!LinesAllSeen` | `AllLinesSeen` | |
| `SteamCmdProofs!EnsuredWhole` | `EnsuredIsWhole` | |

The hypotheses:

* `~DbMayFail`: the UPDATEs of the status column succeed. setState and finishIdle drop
  their errors, and after a failed one the column says what it said.
* `Apart`: no two archives of a type are begun in the same second, for they would share
  a file.
* `Sound`: for every case there is a set of maps, closed under its edits, of which the
  codec brings all back: what `Serialize` writes for an edit, `ParseINI` reads as the edited
  map. `MCAlgorithms` assumes it of the cases of its run (`CodecIsSound`), so that TLC
  evaluates it there; it is false for values with blanks at the ends (section 3).

Of the constants the proofs use only what the modules' assumptions say, mostly that
bounds are natural numbers. Some say a little more, and why is in the code:
`Dirs # {} /\ Ports # {}` in `Instances` (a request to create carries both), `MaxPlays > 0`
in `Backup` (the game starts with a version of its saves), finitely many callers in
`SteamCmd` (so that there is always a free inode), and `"admin"` apart from the custom
roles in `Accounts` (roles are created under new ids). A PUT in `Settings` has at least one
key, only keys of the schema and no empty value (handleConfigPut answers 400 to the
others and skips the empty ones), and the file is text. The calendar of `Algorithms` gives
every scanned minute fields between the bounds that `CronExpr` has for an expression's, as
package time does, the minute time.Date finds has the wall clock it was asked for, and times
and an expression's numbers are natural numbers. The rows
an earlier panel left may have conflicting ports in `Boot`; then `raced` holds from the
beginning.

### 4.1 Supervisor

That two processes never run together depends on why Start may install a run
(terminated is set only after Wait), and that on where the loop is. So `Inv` ties
the place of each loop to its procInfo (`TableInv`: terminated exactly in the
last steps, only the run in the table is not over), to its rounds (`RoundInv`: between
the counting of a restart and the new channel `done` lags behind), to its
processes (`ProcInv`: only the process of the current round can live, only from
StartFn to Wait) and its channels (`ClosedInv`), and each caller's snapshot to the
run it was taken of (`CallInv`, `LaunchInv`: a Stop's round and handle are of the past, the
stop request stays, and a loop that has gone on to another round since is on its
way to the end). The lemmas named `...Keep` say what the steps of a kind leave alone, so
that only the conjuncts of its own run are left. The refinement maps each action to one
of the lifecycle or to a stutter.

The status column needs `DbInv` on top: when it says "running" and the current run is
not, a write of another word is still in flight, and a loop about to write "running"
has a run whose state is running. The run of section 3 has one caller, the theorem
any number. `StoppedLaunchNeverRuns` nests one `[]` in another; its proof shows that a
run that was asked to stop, is not running and is in a round whose probe it has not
passed, or on its way to the end (`Doomed`), stays so (`DoomedStays`).

### 4.2 Jobs

`JobInv` ties where a job's goroutine is to what its record says (a job runs until it is
at its last broadcast, an id above `seq` is unused), and `HeardInv` says of every event on
its way to a client that, when it tells of an end, the job has ended. That the key is
free then follows from `KeyIsJob`: the freed key and the ended state are written in one
step. `OrderInv` adds to the order of the events that wait for a client that all of them are
older than what their job has still to send to it (`Past`): an event that a full channel
drops leaves a gap and no disorder.

### 4.3 PanelOps

The theorems hold for any number of requests at a time, with the restart button, installs
and stops that give up; the excuses say what that costs. The invariant comes in two parts.
`JobsInv` says what a request relies on between its checks and its effect: a kind it has
asked for has no job, or one that is in its `late` (`ReqInv`); every job has its slot, and of
two that exclude each other one has the other for an excuse (`JobInv`). `ServerInv` adds the
server: while an update packs or installs, or a restore unpacks, and is not excused, no
run is there or it was aborted; a request that could start another one would have asked
for their kinds.

### 4.4 Scheduler

For `NoOverlap` it is enough to know who owns a registration (`ExecInv`): from fire to the
end of exec an id in `running` belongs to one goroutine, which writes the times or
executes. The served times need more, and hold as long as nobody edits the table
(`Unedited`): there are three copies of a schedule's times, in the table, in the list in
memory and in the copy the loop walks over, and `StoreInv` says that the table is never
ahead of the others for the entries the walk has yet to come to, and agrees with the list
while a schedule executes. `StartInv` says why a restart is harmless: nothing executes
before the list is installed, and the first walk meets no execution that it has not
begun. What NextRun computes enters only as a later time or none (so in an hour the
clocks repeat the theorems say nothing: section 3).

### 4.5 Backup

Ids and files are given out once (`KnownInv`), where "given out" includes the list a
cleanup has read and the row a delete has looked up: both go on with rows that may be
gone. `FilesInv` says that an archive has no row before it is written and none when it is
removed, `ListInv` that the list of a cleanup holds every row of the table, hence that
the ones behind those to keep are not among those kept. `NetInv` is what makes a restore
safe: from its own backup on, the newest row holds what it will wipe, no delete that
passed its check before the restore began knows that row, and a cleanup that keeps at
least one archive keeps it; and its archive is what the saves were when it was begun, as
long as the game has not saved since. `StrayInv` lists where a file without a row can be: in
the hands of a job or a delete, or in `stuck`.

### 4.6 Accounts

`TokenInv` says the same of the tokens browsers hold and of those a login has read and
not signed: their role_version is not ahead of the row's, and as long as it is the
row's, the owner has no more instances than at the login, no more permissions but for
those a Seed put back (`Held` leaves them out), and no other password unless a patch has yet to bump. An edit keeps that because it bumps the
role_version in the transaction that gives something, or, a patch, later; and a login
because it reads the password and role_version of one moment.

### 4.7 Boot and Instances

Three parts that leave each other alone but for the status in a row. `InstInv`: ids are
given out once, what a handler has checked still holds when it writes unless two
handlers were there at once, and what a delete has cleared stays clear but for rows
that came late. `MigInv`: the files before the one a panel is at are done, and what the
schema has of this one was applied by this panel unless another one died there.
`ServerInv`: the row of a server that lives on from an earlier panel, and was told to be
running, says so in the table and in the list autostart walks over; and the panel that found it has
neither a run of it nor one that has yet to write its "idle", for a user who starts one
beside it, or an update that writes "idle", makes it `unseen`. For a run whose "running" was
written the row says so until an "idle" is written over it (`belied`).

### 4.8 SteamCmd

Two invariants. `DiskInv`: of every member that is there in part, the caller that
truncated it last is still copying it, and members are missing only while somebody
unpacks. `LineInv`: the lines onLine has seen, the scanner's line, those the copying goroutine
holds and those in the pipe are, one after the other, the lines printed so far. The
copy ends as the last writer and the scanner after its last line, so that at the end of
Run only the first part is left.

### 4.9 Settings

`TalkInv` is about one connection: until the password is answered nothing but that answer,
or an empty packet, is in it; then no command under way and no answer has an id above
the last one given, and what has the last one's is of the key at hand. `AnswersMatch`
follows, late answers and torn packets included.

`FileInv` says that, unless two PUTs met, at most one is at the file, that it has read
what users want, and that the file says so or is emptied by the one that writes.
`HotInv` is why a server may be launched, crash and be launched again between any two steps
of a PUT: for every key it runs with the value that is wanted, or some handler still
owes it (`Owes`: it has the key before it, or its command has no answer yet), and whoever tells
and was not overtaken has the values that are wanted. What a handler owes
it can only drop by the server taking it, by a step that is noted in `missed`, or
because no server is there.

### 4.10 Cron expressions

There is no recursion to follow here: the scan of `Next` is the least matching minute of an
interval, and the loop of parseField is a set of values. `LoopCovers` shows that the
values `start`, `start + step`, ... up to `end` are those of the range at a distance that
`step` divides, by the laws of division; so a bit is set exactly when the field selects its
value (`BitsSelect`), and the bits of a minute match when the expression is due
(`MatchesIsDue`): for this the day fields are compared case by case, a star that makes the
other one decide, and the second Sunday. `Next` is then the least due minute from where
it counts because every set of natural numbers has one (`Least`), and lies after the time
it was asked for unless the minute time.Date found is an earlier one, because the scan
begins at the next minute. Whatever the calendar: the theorem depends neither on the
length of months nor on the zone.

### 4.11 Only model-checked

* Liveness under fairness, which the prover does not reach: `StopReturns`, `RunsMoveOn`,
  `BroadcastsEnd`, `GoneAreUnsubscribed`, `AllEnd`, `SchedulesMoveOn`, `RunEnds`.
* What recursion over data computes, which would need induction: that the parser of
  `IniCodec` reads what its writer wrote (the hypothesis `Sound`).
* The two properties of the runs that end in a violation.

## 5. Plan

Done so far: all modules of section 2, and proofs of every safety property that the
passing runs check. What could follow:

1. The rest of the RCON and REST clients, and the log routing, should they get a state of their own.
2. `Boot` over the whole of `Supervisor`, so that autostart meets crashes of the game.

## 6. Not modelled, and why

* Of `Accounts`: the expiry of tokens, and the delete of an instance, which takes its grants away without new versions (`Instances` has it).
* Of the hub: the supervisor's status events, which take the same way as a job's.
* The REST client: a connection per call with no state between calls; where other
  components call it, its answers are choices. Of RCON, the stop hook's use of it
  (`Supervisor` has its outcome).
* Of the settings: the notations of truth values and numbers, validation (it comes
  before anything is read), the hint about `WorldOption.sav`, and the lines around that of
  the options: a file without it, or without its last parenthesis, makes PUT answer 500 and
  change nothing (ini.go:42-44, 49-54). Two PUTs that met can leave one, and no PUT follows
  them here. The panel of `Settings` does not restart: a server of an earlier panel is not
  known to Status and silently not told (config_handlers.go:126-129). After a deadline
  within a packet the model lets no Exec return an answer, only fail: an id of ten or more
  passes for a length (rcon.go:88), so in the code one might take what follows for its
  answer; `AnswersMatch` is about connections no deadline has torn.
* Of the scheduler: that the list a Reload installs is the one it then walks over (one
  array, scheduler.go:153, 156): where edits make two goroutines walk, the code may see an
  entry that another one has updated, the model one of its own list.
* Of SteamCMD: which words of its output make a version or a percentage.
* `Boot` and `PanelOps` each have a part of the supervisor and are not composed: an update
  has its jobs and checks in `PanelOps`, and in `Boot` what it does to an orphan and its row.
* Wording, layout and HTTP details; the contents of logs and of the console.
* The lengths of timers: a wait ends at any time, or in its event.
* Third-party code: gin, SQLite, bcrypt, jwt, gopsutil.
* `config`, `audit`, `secret`, `router`: no behaviour over time.
* Reuse of process numbers by the operating system.
