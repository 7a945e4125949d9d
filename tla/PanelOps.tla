------------------------------ MODULE PanelOps ------------------------------
(***************************************************************************)
(* The operations of the panel on one instance and how they keep out of    *)
(* each other's way: the request handlers of internal/api (and the         *)
(* scheduled executions, which go the same ways), the asynchronous jobs    *)
(* they start, and the supervised server.                                  *)
(*                                                                         *)
(* A handler first asks the job manager, one kind after the other, whether *)
(* a conflicting job is running, and then acts; nothing is held in between. *)
(* The server is that of SupervisorLifecycle, the job manager's keys are    *)
(* those of JobSlots.                                                      *)
(***************************************************************************)
EXTENDS Naturals, Sequences

CONSTANTS
    Callers,       \* request and scheduler goroutines
    Ops,           \* the operations they call
    MaxRuns,       \* bound: accepted starts
    MaxRestarts,   \* automatic restarts per run
    StopMayGiveUp  \* may Supervisor.Stop return before the run is over?

Kinds == {"install", "update", "backup", "restore"}

\* handleInstanceStart, ..Stop, ..Restart, ..Delete and RunScheduled's restart;
\* the other operations start the job of their name.
AllOps == Kinds \cup {"start", "stop", "restart", "timedRestart", "delete"}

ASSUME PanelOpsAssumption ==
    /\ Ops \subseteq AllOps
    /\ MaxRuns \in Nat
    /\ MaxRestarts \in Nat
    /\ StopMayGiveUp \in BOOLEAN

VARIABLES
    phase, server, stopAsked, restarts,  \* the supervised run (SupervisorLifecycle)
    aborted, \* was it stopped in its backoff?  Then it launches nothing more
    run,     \* how many runs there have been
    slots,   \* the kinds with a job running (JobSlots)
    task,    \* the job goroutine of every kind
    req,     \* the goroutine of every caller
    exists,  \* is the instance still in the database?
    excuse   \* history, for the properties: what was let in beside each job

supVars == <<phase, server, stopAsked, restarts, aborted>>
vars == <<phase, server, stopAsked, restarts, aborted, run, slots, task, req, exists, excuse>>

Sup   == INSTANCE SupervisorLifecycle
Slots == INSTANCE JobSlots WITH Keys <- Kinds, busy <- slots

-----------------------------------------------------------------------------
TaskSteps == {"none", "checkRestore", "checkBackup", "status", "verify",
              "packing", "stop", "stopping", "installing", "unpacking"}
ReqSteps == {"none", "check", "stop", "stopping", "start", "job", "delete"}

\* Reasons of an excuse: a job that was running when this one came in on an answer
\* of before; a start, or a delete, that came in the same way; a stop of its own
\* that returned with the run still on.
Reasons == Kinds \cup {"start", "stop", "delete"}

\* late (history): the kinds whose job began after the request had asked for them.
NoTask == [at |-> "none", run |-> 0]
NoReq  == [op |-> "none", at |-> "none", todo |-> <<>>, run |-> 0, late |-> {}]

Init ==
    /\ Sup!Init
    /\ Slots!Init
    /\ aborted = FALSE
    /\ run = 0
    /\ task = [k \in Kinds |-> NoTask]
    /\ req = [c \in Callers |-> NoReq]
    /\ exists = TRUE
    /\ excuse = [k \in Kinds |-> {}]

\* Mistaken forms of Checks, against which the properties are tested.
ChecksWithoutUpdate(op) ==
    CASE op = "start"   -> <<"restore">>
      [] op = "backup"  -> <<"restore">>
      [] op = "restore" -> <<"backup">>
      [] op = "delete"  -> <<"backup", "restore">>
      [] OTHER          -> <<>>
ChecksWithoutRestore(op) ==
    CASE op = "start"   -> <<"update">>
      [] op = "backup"  -> <<"update">>
      [] op = "restore" -> <<"update", "backup">>
      [] op = "delete"  -> <<"backup", "update">>
      [] OTHER          -> <<>>

\* The kinds a handler asks for before it acts, in its order.
Checks(op) ==
    CASE op = "start"        -> <<"update", "restore">>
      [] op = "timedRestart" -> <<"restore", "update">>
      [] op = "backup"       -> <<"restore", "update">>
      [] op = "restore"      -> <<"update", "backup">>
      [] op = "delete"       -> <<"backup", "restore", "update">>
      [] OTHER               -> <<>>

\* What it does then.
Acts(op) ==
    CASE op = "start"  -> "start"
      [] op \in {"stop", "restart", "timedRestart"} -> "stop"
      [] op = "delete" -> "delete"
      [] OTHER         -> "job"

\* A handler asks as long as there is a kind left, and then acts.
Place(op, todo) == IF todo = <<>> THEN Acts(op) ELSE "check"

\* These load the instance first; the others find out later.
LoadsFirst == Kinds \cup {"timedRestart"}

\* The first step of a job's function.
Opening(kind) ==
    CASE kind = "update"  -> "checkRestore"
      [] kind = "restore" -> "verify"
      [] kind = "backup"  -> "packing"
      [] kind = "install" -> "installing"

Move(c, at) == req' = [req EXCEPT ![c].at = at]
Return(c) == req' = [req EXCEPT ![c] = NoReq]
Step(k, at) == task' = [task EXCEPT ![k].at = at]

Left(todo) == {todo[i] : i \in 1 .. Len(todo)}
\* The kinds c has not asked for since their job began: the restart button asks for
\* none, and an update asks once more when it runs.
Unasked(c) == IF req[c].op = "restart" THEN Kinds
              ELSE IF req[c].op = "update" THEN {}
              ELSE req[c].late
Excuse(K, why) ==
    excuse' = [k \in Kinds |-> IF k \in K THEN excuse[k] \cup {why} ELSE excuse[k]]

-----------------------------------------------------------------------------
(* Requests *)

Request(c, op) ==
    /\ req[c].at = "none"
    /\ op \in LoadsFirst => exists
    /\ req' = [req EXCEPT ![c] = [op |-> op, at |-> Place(op, Checks(op)), todo |-> Checks(op),
                                  run |-> 0, late |-> {}]]
    /\ UNCHANGED <<supVars, run, slots, task, exists, excuse>>

\* RunningOfKind for the next kind: the job is running, the request is refused.
CheckRefuses(c) ==
    /\ req[c].at = "check"
    /\ Head(req[c].todo) \in slots
    /\ Return(c)
    /\ UNCHANGED <<supVars, run, slots, task, exists, excuse>>

CheckPasses(c) ==
    /\ req[c].at = "check"
    /\ Head(req[c].todo) \notin slots
    /\ req' = [req EXCEPT ![c].todo = Tail(req[c].todo),
                          ![c].at = Place(req[c].op, Tail(req[c].todo))]
    /\ UNCHANGED <<supVars, run, slots, task, exists, excuse>>

\* startSup: a run begins.
StartServer(c) ==
    /\ req[c].at = "start"
    /\ exists
    /\ run < MaxRuns
    /\ Sup!Begin
    /\ aborted' = FALSE
    /\ run' = run + 1
    /\ Return(c)
    /\ Excuse(slots \cap Unasked(c), "start")
    /\ UNCHANGED <<slots, task, exists>>

\* startSup: the instance is gone or its server is up (or the bound is reached).
StartRefused(c) ==
    /\ req[c].at = "start"
    /\ ~exists \/ phase # "idle" \/ run = MaxRuns
    /\ Return(c)
    /\ UNCHANGED <<supVars, run, slots, task, exists, excuse>>

\* Supervisor.Stop marks the run.  Between a crash and the next launch the channel
\* it waits on is closed, or is closed without the run being over: then it returns
\* before the run is over, which ends without another server.
AskStop ==
    /\ Sup!AskStop
    /\ \/ aborted' = aborted
       \/ server = "crashed" /\ aborted' = TRUE
       \/ server = "none" /\ restarts > 0 /\ aborted' = TRUE

StopServer(c) ==
    /\ req[c].at = "stop"
    /\ AskStop
    /\ req' = [req EXCEPT ![c].at = "stopping", ![c].run = run]
    /\ UNCHANGED <<run, slots, task, exists, excuse>>

\* What follows a stop: a restart goes on, whether a server was up or not.
AfterStop(c) == IF req[c].op = "stop" THEN Return(c) ELSE Move(c, "start")

NotRunning(c) ==
    /\ req[c].at = "stop"
    /\ phase = "idle"
    /\ AfterStop(c)
    /\ UNCHANGED <<supVars, run, slots, task, exists, excuse>>

\* Supervisor.Stop returns: the run it stopped is over or aborted, ...
StopOver(r) == phase = "idle" \/ run # r \/ aborted

StopReturns(c) ==
    /\ req[c].at = "stopping"
    /\ StopOver(req[c].run)
    /\ AfterStop(c)
    /\ UNCHANGED <<supVars, run, slots, task, exists, excuse>>

\* ... or its last wait is: it returns nil all the same.
StopGivesUp(c) ==
    /\ req[c].at = "stopping"
    /\ StopMayGiveUp
    /\ AfterStop(c)
    /\ UNCHANGED <<supVars, run, slots, task, exists, excuse>>

\* Jobs.Start, atomic under the manager's lock.
StartJob(c) ==
    /\ req[c].at = "job"
    /\ Slots!Begin(req[c].op)
    /\ task' = [task EXCEPT ![req[c].op] = [at |-> Opening(req[c].op), run |-> 0]]
    /\ req' = [d \in Callers |->
                 IF d = c THEN NoReq
                 ELSE IF req[d].at = "none" \/ req[c].op \in Left(req[d].todo) THEN req[d]
                 ELSE [req[d] EXCEPT !.late = req[d].late \cup {req[c].op}]]
    /\ excuse' = [excuse EXCEPT ![req[c].op] =
                     (slots \cap Unasked(c)) \cup
                     (IF exists THEN {} ELSE {"delete"})]
    /\ UNCHANGED <<supVars, run, exists>>

JobRefused(c) ==
    /\ req[c].at = "job"
    /\ req[c].op \in slots
    /\ Return(c)
    /\ UNCHANGED <<supVars, run, slots, task, exists, excuse>>

\* handleInstanceDelete: neither the server nor an install is looked at.
DeleteInstance(c) ==
    /\ req[c].at = "delete"
    /\ exists' = FALSE
    /\ Return(c)
    /\ Excuse(slots \cap Unasked(c), "delete")
    /\ UNCHANGED <<supVars, run, slots, task>>

-----------------------------------------------------------------------------
(* Jobs *)

\* runUpdateJob looks for a restore, then for a backup.
UpdateChecks ==
    /\ \/ task["update"].at = "checkRestore" /\ "restore" \notin slots
          /\ Step("update", "checkBackup")
       \/ task["update"].at = "checkBackup" /\ "backup" \notin slots
          /\ Step("update", "status")
    /\ UNCHANGED <<supVars, run, slots, req, exists, excuse>>

\* A job that sees no run, or waits for its run to end, is done with the starts of
\* before.
SeesIdle(k) == excuse' = [excuse EXCEPT ![k] = excuse[k] \ {"start"}]

\* Sup.Status; the supervisor is asked to stop when a run is on.
UpdateStatus ==
    /\ task["update"].at = "status"
    /\ \/ phase = "idle" /\ Step("update", "packing") /\ SeesIdle("update")
       \/ phase # "idle" /\ Step("update", "stop") /\ excuse' = excuse
    /\ UNCHANGED <<supVars, run, slots, req, exists>>

\* What a job does once the server is stopped.
AfterTaskStop(k) == IF k = "update" THEN "packing" ELSE "unpacking"

TaskStop(k) ==
    /\ task[k].at = "stop"
    /\ \/ /\ AskStop
          /\ task' = [task EXCEPT ![k] = [at |-> "stopping", run |-> run]]
       \/ /\ phase = "idle"
          /\ Step(k, AfterTaskStop(k))
          /\ UNCHANGED supVars
    /\ SeesIdle(k)
    /\ UNCHANGED <<run, slots, req, exists>>

TaskStopReturns(k) ==
    /\ task[k].at = "stopping"
    /\ StopOver(task[k].run)
    /\ Step(k, AfterTaskStop(k))
    /\ UNCHANGED <<supVars, run, slots, req, exists, excuse>>

\* supervisor.go:315: the job goes on whether the server is gone or not.
TaskStopGivesUp(k) ==
    /\ task[k].at = "stopping"
    /\ StopMayGiveUp
    /\ ~StopOver(task[k].run)
    /\ Step(k, AfterTaskStop(k))
    /\ excuse' = [excuse EXCEPT ![k] = excuse[k] \cup {"stop"}]
    /\ UNCHANGED <<supVars, run, slots, req, exists>>

\* RunBackup returned: an update goes on to the download, a restore (which
\* verified the archive before) to the stop.
PackingOver(k) ==
    /\ k \in {"update", "restore"}
    /\ task[k].at = "packing"
    /\ Step(k, IF k = "update" THEN "installing" ELSE "stop")
    /\ UNCHANGED <<supVars, run, slots, req, exists, excuse>>

RestoreVerified ==
    /\ task["restore"].at = "verify"
    /\ Step("restore", "packing")
    /\ UNCHANGED <<supVars, run, slots, req, exists, excuse>>

\* A mistaken JobEnds: a job that fails keeps its key.
JobEndsInSilence(k) ==
    /\ task[k].at \notin {"none", "stop", "stopping"}
    /\ task' = [task EXCEPT ![k] = NoTask]
    /\ UNCHANGED <<supVars, run, slots, req, exists, excuse>>

\* The function returns, after its last step or with an error of any step but
\* the wait for the server; the key is free again.
JobEnds(k) ==
    /\ task[k].at \notin {"none", "stop", "stopping"}
    /\ task' = [task EXCEPT ![k] = NoTask]
    /\ Slots!End(k)
    /\ UNCHANGED <<supVars, run, req, exists, excuse>>

-----------------------------------------------------------------------------
(* The supervisor and the server *)

\* A probe that runs out of time asks for a stop as well.
ServerNext ==
    /\ \/ ~aborted /\ Sup!Launch
       \/ Sup!Ready \/ Sup!Gone \/ Sup!Crash \/ Sup!Restart \/ Sup!GiveUp
       \/ Sup!StartAgain \/ Sup!End
       \/ phase = "starting" /\ server \in {"live", "gone"} /\ Sup!AskStop
    /\ UNCHANGED <<aborted, run, slots, task, req, exists, excuse>>

-----------------------------------------------------------------------------
ReqNext(c) ==
    \/ CheckRefuses(c) \/ CheckPasses(c)
    \/ StartServer(c) \/ StartRefused(c)
    \/ StopServer(c) \/ NotRunning(c) \/ StopReturns(c)
    \/ StartJob(c) \/ JobRefused(c) \/ DeleteInstance(c)

TaskNext(k) ==
    \/ TaskStop(k) \/ TaskStopReturns(k) \/ PackingOver(k) \/ JobEnds(k)
    \/ k = "update" /\ (UpdateChecks \/ UpdateStatus)
    \/ k = "restore" /\ RestoreVerified

\* Whatever happens without a new request.
Work == \/ \E c \in Callers : ReqNext(c) \/ StopGivesUp(c)
        \/ \E k \in Kinds : TaskNext(k) \/ TaskStopGivesUp(k)
        \/ ServerNext

Next == Work \/ \E c \in Callers, op \in Ops : Request(c, op)

Spec == Init /\ [][Next]_vars

\* Goroutines are scheduled, and a server that was told to stop ends (the kill
\* at the latest), and so does its run: no progress rests on a Stop that gives up.
Fairness ==
    /\ \A c \in Callers : WF_vars(ReqNext(c))
    /\ \A k \in Kinds : WF_vars(TaskNext(k))
    /\ WF_vars(stopAsked /\ (Sup!Gone \/ Sup!Restart \/ Sup!GiveUp \/ Sup!End) /\ ServerNext)

FairSpec == Spec /\ Fairness

-----------------------------------------------------------------------------
(* Properties *)

\* The types of the variables.
TypeOK ==
    /\ phase \in {"idle", "starting", "running"}
    /\ server \in {"none", "live", "gone", "crashed"}
    /\ stopAsked \in BOOLEAN
    /\ restarts \in 0 .. MaxRestarts
    /\ aborted \in BOOLEAN
    /\ run \in 0 .. MaxRuns
    /\ slots \subseteq Kinds
    /\ task \in [Kinds -> [at : TaskSteps, run : 0 .. MaxRuns]]
    /\ req \in [Callers -> [op : AllOps \cup {"none"}, at : ReqSteps,
                            todo : Seq(Kinds), run : 0 .. MaxRuns,
                            late : SUBSET Kinds]]
    /\ exists \in BOOLEAN
    /\ excuse \in [Kinds -> SUBSET Reasons]

\* No server runs while an update overwrites the game files (what the comment at
\* instance_actions.go:33 promises of every start).
UpdateRunsAlone == task["update"].at = "installing" => server # "live"

\* A server lives while an update overwrites the game files, or a restore the
\* saves, only if since the job last saw it down it was started by a request that
\* had asked for the job before it began, or that asks for nothing (the restart
\* button), or if the job's own stop came back from its last wait too early.  No
\* crash restart, no probe, no backoff, no stop beside the job's and no start that
\* asked later brings one (ErrUpdateInProgress, ErrRestoreInProgress).  Install
\* jobs are not meant: they ask for nothing and nobody asks for them.
Replacing == {k \in {"update"} : task[k].at = "installing"} \cup
             {k \in {"restore"} : task[k].at = "unpacking"}
FilesAlone ==
    \A k \in Replacing : server = "live" => excuse[k] \cap {"start", "stop"} # {}

\* Of the update (once it is past its checks), the restore and the backup of an
\* instance one works at a time (instance_actions.go:328-331,
\* backup_handlers.go:101-103, 152-153), unless one was let in by an answer about
\* the other that was out of date: the other began between that answer and the
\* start of the job.
Working == {k \in {"restore", "backup"} : task[k].at # "none"} \cup
           {k \in {"update"} : task[k].at \in {"stop", "stopping", "packing", "installing"}}
OneAtATime ==
    \A k1, k2 \in Working : k1 = k2 \/ k1 \in excuse[k2] \/ k2 \in excuse[k1]

\* No backup, restore or update works on an instance that was deleted
\* (instance_handlers.go:259-260), unless the job began after the delete had asked
\* for it, or the delete came after the job's request had loaded the instance.
NoJobOnDeleted ==
    ~exists => \A k \in slots \cap {"backup", "restore", "update"} : "delete" \in excuse[k]

\* Update, restore and backup exclude each other, and the delete excludes them all,
\* however many requests, jobs and scheduled executions meet, but for answers
\* that are out of date when they are used.  Install jobs exclude nothing.
JobsExclude == OneAtATime /\ NoJobOnDeleted

\* Every job ends and frees its key, whatever the others do meanwhile.
JobsEnd == \A k \in Kinds : k \in slots ~> k \notin slots

\* Every request is answered, a stop too that finds its run followed by the next
\* one before it looks.
RequestsEnd == \A c \in Callers : req[c].at # "none" ~> req[c].at = "none"

\* Neither jobs nor requests wait for ever, for each other or for the server.
AllEnd == JobsEnd /\ RequestsEnd

=============================================================================
