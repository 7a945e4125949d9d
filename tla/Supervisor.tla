----------------------------- MODULE Supervisor -----------------------------
(***************************************************************************)
(* The process supervisor of one game server instance:                     *)
(* src/internal/supervisor/supervisor.go.                                  *)
(*                                                                         *)
(* A Manager keeps one procInfo per instance.  Every accepted Start makes a *)
(* fresh procInfo, here called a run, and a goroutine (loop) that launches  *)
(* the operating system process, probes it, waits for it and restarts it    *)
(* after a crash; every launch within a run is a round.  Start and Stop are *)
(* called by any number of request goroutines.  A section under m.mu is one *)
(* step; whatever the code does without the lock (the database calls, the   *)
(* kill, the channel operations, the waits) is a step of its own.           *)
(***************************************************************************)
EXTENDS Naturals

CONSTANTS
    Callers,      \* the goroutines that call Start and Stop
    MaxRuns,      \* bound: accepted Start calls
    MaxRestarts,  \* Manager.MaxRestarts
    HasProber,    \* is Manager.Prober set, for each run (it is set once; a run of
                  \* either kind in one instance covers both)
    KillMayFail,  \* may Manager.Killer fail (its error is ignored)?
    DbMayFail     \* may the status UPDATE fail (its error is ignored)?

ASSUME ConstantsAssumption ==
    /\ MaxRuns \in Nat \ {0}
    /\ MaxRestarts \in Nat
    /\ HasProber \in [1 .. MaxRuns -> BOOLEAN]
    /\ KillMayFail \in BOOLEAN
    /\ DbMayFail \in BOOLEAN

Runs   == 1 .. MaxRuns
Rounds == 1 .. MaxRestarts + 1

VARIABLES
    \* shared, guarded by m.mu
    cur,     \* procs[id]: the run in the table, 0 when there is none
    pi,      \* the procInfo of every run
    \* shared, outside the lock
    closed,  \* the done channels closed so far, <<run, round>>
    db,      \* instances.status
    \* one loop goroutine per run
    loop,    \* where the loop is
    \* one process per run and round
    os,
    \* one local state per caller
    op

vars == <<cur, pi, closed, db, loop, os, op>>

-----------------------------------------------------------------------------
States == {"idle", "starting", "running"}

\* p and done are the round whose process, and whose channel, the code holds.
ProcInfo == [state : States, stopReq : BOOLEAN, terminated : BOOLEAN,
             restarts : 0 .. MaxRestarts, p : 0 .. MaxRestarts + 1,
             done : Rounds, autostart : BOOLEAN]

FreshInfo(auto) ==
    [state |-> "starting", stopReq |-> FALSE, terminated |-> FALSE,
     restarts |-> 0, p |-> 0, done |-> 1, autostart |-> auto]

\* "alive" and "dying" (signalled, not yet gone) processes still run.
OSStates == {"none", "alive", "dying", "exit0", "exitErr"}
Live(r, k) == os[r][k] \in {"alive", "dying"}
Exited(r, k) == os[r][k] \in {"exit0", "exitErr"}

LoopStates ==
    {"none", "top", "startfn", "register", "dbstarting", "consume", "probe",
     "probing", "torunning", "dbrunning", "wait", "waitTimeout", "count",
     "torestart", "dbrestart", "closeRound", "backoff", "rebuild", "finish", "dbidle", "closeLast",
     "abort", "dbabort", "exit"}

CallStates == {"none", "get", "dbstart", "nilwait", "hooks", "grace", "kill",
               "killwait"}
IdleCall == [at |-> "none", run |-> 0, p |-> 0, done |-> 0]

Init ==
    /\ cur = 0
    /\ pi = [r \in Runs |-> FreshInfo(FALSE)]
    /\ closed = {}
    /\ db = "idle"
    /\ loop = [r \in Runs |-> "none"]
    /\ os = [r \in Runs |-> [k \in Rounds |-> "none"]]
    /\ op = [c \in Callers |-> IdleCall]

-----------------------------------------------------------------------------
(* Helpers *)

Goto(r, l) == loop' = [loop EXCEPT ![r] = l]
Call(c, l) == op' = [op EXCEPT ![c].at = l]
Return(c)  == op' = [op EXCEPT ![c] = IdleCall]

\* Three of these helpers with a mistake each (see the section below).
\* A requested stop counts as an ended run.
TerminatedOnRequest == cur # 0 => pi[cur].terminated \/ pi[cur].stopReq
\* The UPDATE may be lost.
SetStateLossy(s) == db' = s \/ db' = db
\* The kill is never sent.
KillerSilent(r, k) == os' = os

\* The test both Start and Stop open with.
Terminated == cur # 0 => pi[cur].terminated

\* setState: the error of the UPDATE is dropped.
SetState(s) == \/ db' = s
               \/ DbMayFail /\ db' = db

\* Manager.Killer: a process that is gone already counts as killed.
Killer(r, k) ==
    \/ os' = IF os[r][k] = "alive" THEN [os EXCEPT ![r][k] = "dying"] ELSE os
    \/ KillMayFail /\ os' = os

-----------------------------------------------------------------------------
(* Steps with one mistake each, against which the properties are tested:   *)
(* no step of Next uses them.                                              *)

\* A graceful wait without a timer: only the end of the process ends it.
StopGraceUnlimited(c) ==
    /\ op[c].at = "grace"
    /\ Exited(op[c].run, op[c].p)
    /\ Call(c, "kill")
    /\ UNCHANGED <<cur, pi, closed, db, loop, os>>

\* A Stop during StartFn is not looked for.
LoopConsumeIgnores(r) ==
    /\ loop[r] = "consume"
    /\ Goto(r, "probe")
    /\ UNCHANGED <<cur, pi, closed, db, os, op>>

\* A stop during the probe does not wait for the process it killed.
ProbeStoppedUnwaited(r) ==
    /\ loop[r] = "probe"
    /\ HasProber[r]
    /\ pi[r].stopReq
    /\ Killer(r, pi[r].done)
    /\ Goto(r, "finish")
    /\ UNCHANGED <<cur, pi, closed, db, op>>

\* An exit after a Stop counts as a crash.
CrashedAnyway(r) == loop[r] = "wait" /\ os[r][pi[r].done] = "exitErr"

\* An aborted backoff closes the channel of its round once more.
FinishIdleCloses(r) ==
    /\ loop[r] \in {"finish", "abort"}
    /\ pi' = [pi EXCEPT ![r].state = "idle", ![r].terminated = TRUE]
    /\ Goto(r, "dbidle")
    /\ UNCHANGED <<cur, closed, db, os, op>>

-----------------------------------------------------------------------------
(* Start *)

\* First look at the table; the lock is dropped before Store.Get.
StartCheck(c) ==
    /\ op[c].at = "none"
    /\ Terminated
    /\ Call(c, "get")
    /\ UNCHANGED <<cur, pi, closed, db, loop, os>>

\* ErrAlreadyRunning at the first look: nothing changes.
StartRejected(c) ==
    /\ op[c].at = "none"
    /\ ~Terminated
    /\ UNCHANGED vars

\* Store.Get failed, or the second look found another Start's run.
StartFails(c) ==
    /\ op[c].at = "get"
    /\ Return(c)
    /\ UNCHANGED <<cur, pi, closed, db, loop, os>>

\* Second look, and the new procInfo enters the table.
StartInstall(c) ==
    /\ op[c].at = "get"
    /\ Terminated
    /\ cur < MaxRuns
    /\ cur' = cur + 1
    /\ \E auto \in BOOLEAN : pi' = [pi EXCEPT ![cur + 1] = FreshInfo(auto)]
    /\ op' = [op EXCEPT ![c] = [at |-> "dbstart", run |-> cur + 1, p |-> 0, done |-> 0]]
    /\ UNCHANGED <<closed, db, loop, os>>

\* setState(starting), then the goroutine is launched and Start returns nil.
StartLaunch(c) ==
    /\ op[c].at = "dbstart"
    /\ SetState("starting")
    /\ Goto(op[c].run, "top")
    /\ Return(c)
    /\ UNCHANGED <<cur, pi, closed, os>>

-----------------------------------------------------------------------------
(* Stop *)

\* The snapshot under the lock: p and done are those of this moment.
StopBegin(c) ==
    /\ op[c].at = "none"
    /\ ~Terminated
    /\ pi' = [pi EXCEPT ![cur].stopReq = TRUE]
    /\ op' = [op EXCEPT ![c] =
                 [at |-> IF pi[cur].p = 0 THEN "nilwait" ELSE "hooks",
                  run |-> cur, p |-> pi[cur].p, done |-> pi[cur].done]]
    /\ UNCHANGED <<cur, closed, db, loop, os>>

\* ErrNotRunning: nothing changes.
StopRejected(c) ==
    /\ op[c].at = "none"
    /\ Terminated
    /\ UNCHANGED vars

\* The graceful chain: REST, then RCON when REST failed or is missing.  The
\* error of RCON is dropped, so having the hook is enough.
Graceful(hooks, restOk) == ("REST" \in hooks /\ restOk) \/ "RCON" \in hooks

StopHooks(c) ==
    /\ op[c].at = "hooks"
    /\ \E hooks \in SUBSET {"REST", "RCON"}, restOk \in BOOLEAN :
           Call(c, IF Graceful(hooks, restOk) THEN "grace" ELSE "kill")
    /\ UNCHANGED <<cur, pi, closed, db, loop, os>>

\* The captured channel is closed, while Stop waits on it: Stop returns nil.
Waiting(c) == op[c].at \in {"nilwait", "grace", "killwait"}
StopDone(c) ==
    /\ Waiting(c)
    /\ <<op[c].run, op[c].done>> \in closed
    /\ Return(c)
    /\ UNCHANGED <<cur, pi, closed, db, loop, os>>

\* The wait for a process that was never registered, or was killed, is over.
StopGivesUp(c) ==
    /\ op[c].at \in {"nilwait", "killwait"}
    /\ Return(c)
    /\ UNCHANGED <<cur, pi, closed, db, loop, os>>

\* StopGraceWait is over: on to the kill.
StopGraceOver(c) ==
    /\ op[c].at = "grace"
    /\ Call(c, "kill")
    /\ UNCHANGED <<cur, pi, closed, db, loop, os>>

\* Killer(pid) with the pid of the snapshot.
StopKill(c) ==
    /\ op[c].at = "kill"
    /\ Killer(op[c].run, op[c].p)
    /\ Call(c, "killwait")
    /\ UNCHANGED <<cur, pi, closed, db, loop>>

-----------------------------------------------------------------------------
(* loop: one round *)

\* The top of every round after the first makes a fresh done channel.
LoopRebuild(r) ==
    /\ loop[r] = "rebuild"
    /\ pi' = [pi EXCEPT ![r].done = pi[r].done + 1]
    /\ Goto(r, "top")
    /\ UNCHANGED <<cur, closed, db, os, op>>

\* A Stop that arrived before the launch ends the run here.
LoopTop(r) ==
    /\ loop[r] = "top"
    /\ Goto(r, IF pi[r].stopReq THEN "finish" ELSE "startfn")
    /\ UNCHANGED <<cur, pi, closed, db, os, op>>

StartFnFails(r) ==
    /\ loop[r] = "startfn"
    /\ Goto(r, "finish")
    /\ UNCHANGED <<cur, pi, closed, db, os, op>>

StartFnOk(r) ==
    /\ loop[r] = "startfn"
    /\ os' = [os EXCEPT ![r][pi[r].done] = "alive"]
    /\ Goto(r, "register")
    /\ UNCHANGED <<cur, pi, closed, db, op>>

\* The handle is registered; transition(starting) follows, and the state is
\* "starting" already.
LoopRegister(r) ==
    /\ loop[r] = "register"
    /\ pi' = [pi EXCEPT ![r].p = pi[r].done, ![r].state = "starting"]
    /\ Goto(r, "dbstarting")
    /\ UNCHANGED <<cur, closed, db, os, op>>

\* A Stop that arrived while StartFn was blocked kills what it launched.
LoopConsume(r) ==
    /\ loop[r] = "consume"
    /\ IF pi[r].stopReq
       THEN Killer(r, pi[r].done) /\ Goto(r, "wait")
       ELSE os' = os /\ Goto(r, "probe")
    /\ UNCHANGED <<cur, pi, closed, db, op>>

\* Without a prober the process counts as ready after two seconds.
NoProber(r) ==
    /\ loop[r] = "probe"
    /\ ~HasProber[r]
    /\ Goto(r, "torunning")
    /\ UNCHANGED <<cur, pi, closed, db, os, op>>

\* The head of the probe loop: a Stop kills the process (probeStopped).
ProbeStopped(r) ==
    /\ loop[r] = "probe"
    /\ HasProber[r]
    /\ pi[r].stopReq
    /\ Killer(r, pi[r].done)
    /\ Goto(r, "wait")
    /\ UNCHANGED <<cur, pi, closed, db, op>>

ProbeCall(r) ==
    /\ loop[r] = "probe"
    /\ HasProber[r]
    /\ ~pi[r].stopReq
    /\ Goto(r, "probing")
    /\ UNCHANGED <<cur, pi, closed, db, os, op>>

\* The answer is used whatever happened to the process or to stopReq since.
ProbeOk(r) ==
    /\ loop[r] = "probing"
    /\ Goto(r, "torunning")
    /\ UNCHANGED <<cur, pi, closed, db, os, op>>

ProbeRetry(r) ==
    /\ loop[r] = "probing"
    /\ Goto(r, "probe")
    /\ UNCHANGED <<cur, pi, closed, db, os, op>>

\* ProbeTimeout is over: stopReq is set by the loop itself.
ProbeTimeout(r) ==
    /\ loop[r] = "probing"
    /\ pi' = [pi EXCEPT ![r].stopReq = TRUE]
    /\ Killer(r, pi[r].done)
    /\ Goto(r, "waitTimeout")
    /\ UNCHANGED <<cur, closed, db, op>>

LoopReady(r) ==
    /\ loop[r] = "torunning"
    /\ pi' = [pi EXCEPT ![r].state = "running"]
    /\ Goto(r, "dbrunning")
    /\ UNCHANGED <<cur, closed, db, os, op>>

\* The UPDATE of a transition, after its critical section.
WriteStatus(r) ==
    /\ \/ loop[r] = "dbstarting" /\ SetState("starting") /\ Goto(r, "consume")
       \/ loop[r] = "dbrunning"  /\ SetState("running")  /\ Goto(r, "wait")
       \/ loop[r] = "dbrestart"  /\ SetState("starting") /\ Goto(r, "closeRound")
       \/ loop[r] = "dbidle"     /\ SetState("idle")     /\ Goto(r, "closeLast")
       \/ loop[r] = "dbabort"    /\ SetState("idle")     /\ Goto(r, "exit")
    /\ UNCHANGED <<cur, pi, closed, os, op>>

-----------------------------------------------------------------------------
(* loop: p.Wait has returned *)

\* stopReq is read once more: is this exit a crash?
Crashed(r) ==
    /\ loop[r] = "wait"
    /\ os[r][pi[r].done] = "exitErr"
    /\ ~pi[r].stopReq

\* The probe timed out, a Stop was seen, the exit was clean, or the instance has
\* no autostart: the run is over.
LoopOver(r) ==
    /\ loop[r] \in {"wait", "waitTimeout"}
    /\ Exited(r, pi[r].done)
    /\ Crashed(r) => ~pi[r].autostart
    /\ Goto(r, "finish")
    /\ UNCHANGED <<cur, pi, closed, db, os, op>>

LoopCrashed(r) ==
    /\ Crashed(r)
    /\ pi[r].autostart
    /\ Goto(r, "count")
    /\ UNCHANGED <<cur, pi, closed, db, os, op>>

\* The next section under the lock counts the restart, and the one after it
\* (transition) sets the state.  A Stop may come before either.
LoopGivesUp(r) ==
    /\ loop[r] = "count"
    /\ pi[r].restarts >= MaxRestarts
    /\ Goto(r, "finish")
    /\ UNCHANGED <<cur, pi, closed, db, os, op>>

LoopCounts(r) ==
    /\ loop[r] = "count"
    /\ pi[r].restarts < MaxRestarts
    /\ pi' = [pi EXCEPT ![r].restarts = pi[r].restarts + 1]
    /\ Goto(r, "torestart")
    /\ UNCHANGED <<cur, closed, db, os, op>>

LoopRestart(r) ==
    /\ loop[r] = "torestart"
    /\ pi' = [pi EXCEPT ![r].state = "starting"]
    /\ Goto(r, "dbrestart")
    /\ UNCHANGED <<cur, closed, db, os, op>>

\* close(pi.done), at the end of a round and at the end of the run.
CloseDone(r) ==
    /\ loop[r] \in {"closeRound", "closeLast"}
    /\ closed' = closed \cup {<<r, pi[r].done>>}
    /\ Goto(r, IF loop[r] = "closeRound" THEN "backoff" ELSE "exit")
    /\ UNCHANGED <<cur, pi, db, os, op>>

\* The timer and the poll of stopReq race.
BackoffOver(r) ==
    /\ loop[r] = "backoff"
    /\ Goto(r, "rebuild")
    /\ UNCHANGED <<cur, pi, closed, db, os, op>>

BackoffAborted(r) ==
    /\ loop[r] = "backoff"
    /\ pi[r].stopReq
    /\ Goto(r, "abort")
    /\ UNCHANGED <<cur, pi, closed, db, os, op>>

\* finishIdle; after a stop in the backoff the channel is closed already.
FinishIdle(r) ==
    /\ loop[r] \in {"finish", "abort"}
    /\ pi' = [pi EXCEPT ![r].state = "idle", ![r].terminated = TRUE]
    /\ Goto(r, IF loop[r] = "finish" THEN "dbidle" ELSE "dbabort")
    /\ UNCHANGED <<cur, closed, db, os, op>>

-----------------------------------------------------------------------------
(* The game server: it may exit by itself at any time, cleanly (a shutdown *)
(* it was asked for) or not.                                               *)

ProcessExits(r, k) ==
    /\ Live(r, k)
    /\ \E code \in {"exit0", "exitErr"} : os' = [os EXCEPT ![r][k] = code]
    /\ UNCHANGED <<cur, pi, closed, db, loop, op>>

-----------------------------------------------------------------------------
StartNext(c) == \/ StartCheck(c) \/ StartRejected(c) \/ StartFails(c)
                \/ StartInstall(c) \/ StartLaunch(c)

StopNext(c) == \/ StopBegin(c) \/ StopRejected(c) \/ StopHooks(c) \/ StopDone(c)
               \/ StopGivesUp(c) \/ StopGraceOver(c) \/ StopKill(c)

LaunchNext(r) == \/ LoopRebuild(r) \/ LoopTop(r) \/ StartFnFails(r)
                 \/ StartFnOk(r) \/ LoopRegister(r) \/ LoopConsume(r)

ProbeNext(r) == \/ NoProber(r) \/ ProbeStopped(r) \/ ProbeCall(r) \/ ProbeOk(r)
                \/ ProbeRetry(r) \/ ProbeTimeout(r) \/ LoopReady(r)

EndNext(r) == \/ LoopOver(r) \/ LoopCrashed(r) \/ LoopGivesUp(r) \/ LoopCounts(r)
              \/ LoopRestart(r) \/ CloseDone(r) \/ BackoffOver(r)
              \/ BackoffAborted(r) \/ FinishIdle(r)

LoopNext(r) == LaunchNext(r) \/ ProbeNext(r) \/ WriteStatus(r) \/ EndNext(r)

Next == \/ \E c \in Callers : StartNext(c) \/ StopNext(c)
        \/ \E r \in Runs : LoopNext(r)
        \/ \E r \in Runs, k \in Rounds : ProcessExits(r, k)

Spec == Init /\ [][Next]_vars

\* Goroutines are scheduled; a signalled process goes away; the probe's
\* context expires, so a loop that keeps coming back to the probe leaves it.
\* Nothing makes a caller call, or a server that was not killed exit.
Fairness ==
    /\ \A c \in Callers :
           WF_vars(op[c].at # "none" /\ (StartNext(c) \/ StopNext(c)))
    /\ \A r \in Runs :
           /\ WF_vars(LoopNext(r))
           /\ SF_vars(ProbeOk(r) \/ ProbeTimeout(r))
           /\ \A k \in Rounds : WF_vars(os[r][k] = "dying" /\ ProcessExits(r, k))

FairSpec == Spec /\ Fairness

-----------------------------------------------------------------------------
(* Properties *)

\* The types of the variables (supervisor.go's procInfo and Manager).
TypeOK ==
    /\ cur \in 0 .. MaxRuns
    /\ pi \in [Runs -> ProcInfo]
    /\ closed \subseteq Runs \X Rounds
    /\ db \in States
    /\ loop \in [Runs -> LoopStates]
    /\ os \in [Runs -> [Rounds -> OSStates]]
    /\ op \in [Callers -> [at : CallStates, run : 0 .. MaxRuns,
                           p : 0 .. MaxRestarts + 1, done : 0 .. MaxRestarts + 1]]

\* However Start, Stop, crashes and restarts interleave, at most one server
\* process of the instance runs at a time (the double check in Start, and
\* terminated being set only after Wait returned).
SingleProcess ==
    \A r1, r2 \in Runs, k1, k2 \in Rounds :
        Live(r1, k1) /\ Live(r2, k2) => r1 = r2 /\ k1 = k2

\* A status of idle in the table, which the update and the restore jobs go by,
\* means that no process of the instance runs, of any run (finishIdle comes
\* after Wait on every path).
IdleMeansNoProcess ==
    (cur = 0 \/ pi[cur].state = "idle") =>
        \A r \in Runs, k \in Rounds : ~Live(r, k)

\* The loop never closes a done channel twice, which would panic (one exit per
\* round, a fresh channel per round, no close after an aborted backoff).
DoneClosedOnce ==
    \A r \in Runs : loop[r] \in {"closeRound", "closeLast"} =>
                        <<r, pi[r].done>> \notin closed

\* A Stop that returns because its done channel was closed leaves no process
\* of its run behind, in whichever round the channel and the handle it holds
\* were taken and however far the loop has come since.
StopDoneMeansExited ==
    \A c \in Callers :
        Waiting(c) /\ <<op[c].run, op[c].done>> \in closed =>
            \A k \in Rounds : ~Live(op[c].run, k)

\* Once every UPDATE in flight has landed, a status column that says running
\* is true: a late write of an older run never brings "running" back, so the
\* autostart in main.go, which skips running instances, does not skip an idle
\* one for ever.
NoWritePending ==
    /\ \A r \in Runs : loop[r] \notin {"dbstarting", "dbrunning", "dbrestart",
                                       "dbidle", "dbabort"}
    /\ \A c \in Callers : op[c].at # "dbstart"
DbRunningMeansRunning ==
    NoWritePending /\ db = "running" => cur # 0 /\ pi[cur].state = "running"

\* A process that was launched for a run which had been asked to stop before
\* its launch was looked at (the top of the round, StartFn, the registration)
\* is never announced as running.
StoppedLaunchNeverRuns ==
    \A r \in Runs :
        []( /\ pi[r].stopReq
            /\ loop[r] \in {"top", "startfn", "register", "dbstarting", "consume"}
            => [](pi[r].state # "running") )

\* Every call of Start and of Stop returns.
StopReturns == \A c \in Callers : op[c].at # "none" ~> op[c].at = "none"

\* A run that was asked to stop ends, whatever the loop was doing then: no
\* path from the launch, the probe, the crash or the backoff loses the request.
StopTakesEffect == \A r \in Runs : pi[r].stopReq ~> pi[r].terminated

\* "starting" is never the last word: the server gets to running or to idle.
StartingResolves ==
    \A r \in Runs : r = cur /\ pi[r].state = "starting" ~> pi[r].state # "starting"

\* No run hangs in a state, whether it was asked to stop or is on its way up.
RunsMoveOn == StopTakesEffect /\ StartingResolves

\* What the comment at supervisor.go:396-397 promises: when Stop's wait for
\* done is over, the state is settled.
StopReturnsSettled ==
    [][\A c \in Callers : StopDone(c) => pi[op[c].run].terminated]_vars

-----------------------------------------------------------------------------
(* The lifecycle this module implements: that of the run in the table.  An  *)
(* exit is a crash from the moment the loop has found no request to stop.   *)
(* The channel of a round is made later than its restart is counted, so      *)
(* until LoopRebuild the new round has no server yet.                       *)

Phase     == IF cur = 0 THEN "idle" ELSE pi[cur].state
Restarts  == IF cur = 0 THEN 0 ELSE pi[cur].restarts
StopAsked == IF cur = 0 THEN FALSE ELSE pi[cur].stopReq
Server    == IF cur = 0 THEN "none"
             ELSE IF pi[cur].done # pi[cur].restarts + 1 THEN "none"
             ELSE IF loop[cur] = "count" THEN "crashed"
             ELSE IF Live(cur, pi[cur].done) THEN "live"
             ELSE IF Exited(cur, pi[cur].done) THEN "gone"
             ELSE "none"

Lifecycle == INSTANCE SupervisorLifecycle
                 WITH phase <- Phase, server <- Server,
                      stopAsked <- StopAsked, restarts <- Restarts

\* Every interleaving of callers, loop and server is a history of the simple
\* lifecycle of SupervisorLifecycle.
ImplementsLifecycle == Lifecycle!Spec

=============================================================================
