-------------------------- MODULE SupervisorProofs --------------------------
(***************************************************************************)
(* Machine-checked facts about Supervisor, for any set of callers and any   *)
(* number of runs and restarts.  Everything follows from one inductive      *)
(* invariant, Inv, that ties the place of each loop to the procInfo of its  *)
(* run, to its processes and to its channels.                               *)
(***************************************************************************)
EXTENDS Supervisor, TLAPS

LiveStates == {"alive", "dying"}
\* Where the loop may have a process that runs.
ProcStates == {"register", "dbstarting", "consume", "probe", "probing",
               "torunning", "dbrunning", "wait", "waitTimeout"}
\* Where a new round is counted but has no channel of its own yet.
BetweenStates == {"torestart", "dbrestart", "closeRound", "backoff", "rebuild",
                  "abort", "dbabort"}
\* Where the handle of the round is registered, up to its end.
HandleStates == (ProcStates \ {"register"}) \cup {"count"}
\* Where the channel of the latest round is closed.
ClosedStates == {"backoff", "rebuild", "abort", "dbabort", "exit"}
\* Where the run is not, or not again, announced as running.
StartingStates == {"none", "top", "startfn", "register", "dbstarting", "consume",
                   "probe", "probing", "torunning", "dbrestart", "closeRound",
                   "backoff", "rebuild"}
EndStates == {"dbidle", "dbabort", "closeLast", "exit"}
\* Where a run that was asked to stop can be once it has passed a backoff.
OverStates == {"top", "finish", "dbidle", "closeLast", "exit"}

\* Only the run in the table is not over; later runs do not exist yet.
TableInv(r) ==
    /\ r < cur => pi[r].terminated
    /\ r > cur => loop[r] = "none"
    /\ pi[r].terminated <=> loop[r] \in EndStates
    /\ pi[r].terminated <=> pi[r].state = "idle"
    /\ loop[r] \in StartingStates => pi[r].state = "starting"

\* The round the loop is in, and the handle it registered.
RoundInv(r) ==
    /\ loop[r] \in BetweenStates => pi[r].done = pi[r].restarts
    /\ loop[r] \notin BetweenStates \cup {"exit"} => pi[r].done = pi[r].restarts + 1
    /\ pi[r].restarts > 0 => pi[r].p > 0
    /\ pi[r].p <= pi[r].done
    /\ loop[r] \in HandleStates => pi[r].p = pi[r].done
    /\ loop[r] \in BetweenStates => pi[r].p = pi[r].done
    /\ pi[r].done <= pi[r].p + 1
    /\ loop[r] = "none" => pi[r].restarts = 0 /\ pi[r].p = 0

\* Only the process of the current round can run, and only from StartFn to Wait.
ProcInv(r) ==
    \A k \in Rounds :
        /\ os[r][k] \in LiveStates => k = pi[r].done /\ loop[r] \in ProcStates
        /\ k > pi[r].done => os[r][k] = "none"
        /\ k = pi[r].done /\ loop[r] \in {"none", "top", "startfn"} => os[r][k] = "none"
        /\ k = pi[r].done /\ loop[r] \in ProcStates => os[r][k] # "none"
        /\ k <= pi[r].p => os[r][k] # "none"

\* A channel is closed only once its round is over.
ClosedInv(r) ==
    \A k \in Rounds :
        <<r, k>> \in closed =>
            k < pi[r].done \/ (k = pi[r].done /\ loop[r] \in ClosedStates)

RunInv(r) == TableInv(r) /\ RoundInv(r) /\ ProcInv(r) /\ ClosedInv(r)

\* A Start that installed a run has not launched its loop yet; a Stop holds a
\* handle and a channel of the past of its run, and has asked it to stop: if the
\* loop went on to another round all the same, it ends there.
StopStates == {"nilwait", "hooks", "grace", "kill", "killwait"}
CallInv(c) ==
    /\ op[c].at = "dbstart" => op[c].run = cur /\ cur # 0 /\ loop[cur] = "none"
    /\ op[c].at \in StopStates =>
           /\ op[c].run \in Runs
           /\ op[c].run <= cur
           /\ op[c].done \in Rounds
           /\ op[c].p <= op[c].done
           /\ op[c].done <= pi[op[c].run].done
           /\ op[c].p <= pi[op[c].run].p
           /\ pi[op[c].run].stopReq
           /\ op[c].done < pi[op[c].run].done => loop[op[c].run] \in OverStates
    /\ op[c].at \in StopStates \ {"nilwait"} => op[c].p # 0

\* Of the callers, one at most is launching.
LaunchInv ==
    \A a, b \in Callers :
        op[a].at = "dbstart" /\ op[b].at = "dbstart" => a = b

Inv == /\ TypeOK
       /\ \A r \in Runs : RunInv(r)
       /\ \A c \in Callers : CallInv(c)
       /\ LaunchInv

-----------------------------------------------------------------------------
(* Type correctness *)

LEMMA InfoTypes ==
    ASSUME NEW f \in [Runs -> ProcInfo], NEW r \in Runs
    PROVE  /\ f[r] \in ProcInfo
           /\ f[r].done \in Rounds /\ f[r].done \in Nat
           /\ f[r].p \in Nat /\ f[r].restarts \in Nat
           /\ f[r].restarts <= MaxRestarts
           /\ f[r].stopReq \in BOOLEAN /\ f[r].terminated \in BOOLEAN
  BY ConstantsAssumption DEF ProcInfo, Rounds

\* A kill, delivered or not, keeps the processes what they are: those that ran
\* run until they exit, and no other changes.
LEMMA KillerKeeps ==
    ASSUME NEW r \in Runs, NEW k \in Rounds,
           os \in [Runs -> [Rounds -> OSStates]], Killer(r, k)
    PROVE  /\ os' \in [Runs -> [Rounds -> OSStates]]
           /\ \A s \in Runs, j \in Rounds :
                 /\ os'[s][j] \in LiveStates <=> os[s][j] \in LiveStates
                 /\ os'[s][j] = "none" <=> os[s][j] = "none"
           /\ \A s \in Runs \ {r} : os'[s] = os[s]
  BY DEF Killer, OSStates, LiveStates

\* A caller's record keeps its type.
LEMMA CallTypes ==
    ASSUME TypeOK, NEW c \in Callers,
           \/ Return(c)
           \/ \E l \in CallStates : Call(c, l)
    PROVE  op' \in [Callers -> [at : CallStates, run : 0 .. MaxRuns,
                                p : 0 .. MaxRestarts + 1, done : 0 .. MaxRestarts + 1]]
<1>1. 0 \in 0 .. MaxRuns /\ 0 \in 0 .. MaxRestarts + 1
  BY ConstantsAssumption
<1>. QED
  BY <1>1 DEF TypeOK, Return, Call, IdleCall, CallStates

LEMMA LoopTypes ==
    ASSUME TypeOK, NEW r \in Runs, NEW l \in LoopStates, Goto(r, l)
    PROVE  loop' \in [Runs -> LoopStates]
  BY DEF TypeOK, Goto

\* Every step of a caller keeps the types.
LEMMA CallerTypes ==
    ASSUME TypeOK, NEW c \in Callers, StartNext(c) \/ StopNext(c)
    PROVE  TypeOK'
<1>1. CASE StartCheck(c)
  BY <1>1, CallTypes DEF StartCheck, TypeOK, CallStates
<1>2. CASE StartRejected(c) \/ StopRejected(c)
  BY <1>2 DEF StartRejected, StopRejected, TypeOK, vars
<1>3. CASE StartFails(c) \/ StopDone(c) \/ StopGivesUp(c)
  BY <1>3, CallTypes DEF StartFails, StopDone, StopGivesUp, TypeOK
<1>4. CASE StartInstall(c)
  <2>1. cur' \in 0 .. MaxRuns /\ cur + 1 \in Runs
    BY <1>4, ConstantsAssumption DEF StartInstall, TypeOK, Runs
  <2>2. PICK auto \in BOOLEAN : pi' = [pi EXCEPT ![cur + 1] = FreshInfo(auto)]
    BY <1>4 DEF StartInstall
  <2>3. FreshInfo(auto) \in ProcInfo
    BY ConstantsAssumption DEF FreshInfo, ProcInfo, States, Rounds
  <2>4. pi' \in [Runs -> ProcInfo]
    BY <2>1, <2>2, <2>3 DEF TypeOK
  <2>5. op' = [op EXCEPT ![c] = [at |-> "dbstart", run |-> cur + 1, p |-> 0, done |-> 0]]
    BY <1>4 DEF StartInstall
  <2>6. op' \in [Callers -> [at : CallStates, run : 0 .. MaxRuns,
                             p : 0 .. MaxRestarts + 1, done : 0 .. MaxRestarts + 1]]
    BY <2>1, <2>5, ConstantsAssumption DEF TypeOK, CallStates, Runs
  <2> QED BY <1>4, <2>1, <2>4, <2>6 DEF StartInstall, TypeOK
<1>5. CASE StartLaunch(c)
  <2>1. loop' \in [Runs -> LoopStates]
    BY <1>5 DEF StartLaunch, TypeOK, Goto, LoopStates
  <2>2. db' \in States
    BY <1>5 DEF StartLaunch, TypeOK, SetState, States
  <2> QED BY <1>5, <2>1, <2>2, CallTypes DEF StartLaunch, TypeOK
<1>6. CASE StopBegin(c)
  <2>1. CASE cur = 0
    BY <2>1, <1>6 DEF StopBegin, Terminated
  <2>2. CASE cur \in Runs
    <3>1. pi' \in [Runs -> ProcInfo]
      BY <1>6, <2>2 DEF StopBegin, TypeOK, ProcInfo
    <3>2. /\ (IF pi[cur].p = 0 THEN "nilwait" ELSE "hooks") \in CallStates
          /\ pi[cur].p \in 0 .. MaxRestarts + 1
          /\ pi[cur].done \in 0 .. MaxRestarts + 1
      BY <2>2, ConstantsAssumption DEF TypeOK, ProcInfo, CallStates, Rounds
    <3> QED BY <1>6, <3>1, <3>2 DEF StopBegin, TypeOK
  <2> QED BY <2>1, <2>2, ConstantsAssumption DEF TypeOK, Runs
<1>7. CASE StopHooks(c) \/ StopGraceOver(c)
  <2>1. \E l \in CallStates : Call(c, l)
    BY <1>7 DEF StopHooks, StopGraceOver, CallStates
  <2> QED BY <1>7, <2>1, CallTypes DEF StopHooks, StopGraceOver, TypeOK
<1>8. CASE StopKill(c)
  <2>1. os' \in [Runs -> [Rounds -> OSStates]]
    BY <1>8 DEF StopKill, Killer, TypeOK, OSStates
  <2> QED BY <1>8, <2>1, CallTypes DEF StopKill, TypeOK, CallStates
<1> QED
  BY <1>1, <1>2, <1>3, <1>4, <1>5, <1>6, <1>7, <1>8 DEF StartNext, StopNext

\* Every step of a loop keeps the types.
LEMMA LoopStepTypes ==
    ASSUME TypeOK, NEW r \in Runs, RoundInv(r), LoopNext(r)
    PROVE  TypeOK'
<1> DEFINE OsType == [Runs -> [Rounds -> OSStates]]
<1>t. /\ pi[r] \in ProcInfo
      /\ pi[r].done \in Rounds /\ pi[r].done \in Nat
      /\ pi[r].restarts \in 0 .. MaxRestarts
  BY ConstantsAssumption DEF TypeOK, ProcInfo, Rounds
<1>k. ASSUME Killer(r, pi[r].done) PROVE os' \in OsType
  BY <1>k, <1>t, KillerKeeps DEF TypeOK
<1>1. ASSUME LoopTop(r) \/ StartFnFails(r) \/ NoProber(r) \/ ProbeCall(r)
             \/ ProbeOk(r) \/ ProbeRetry(r) \/ LoopOver(r) \/ BackoffOver(r)
             \/ BackoffAborted(r) \/ LoopCrashed(r) \/ LoopGivesUp(r)
      PROVE  TypeOK'
  <2>1. \E l \in LoopStates : Goto(r, l)
    BY <1>1 DEF LoopTop, StartFnFails, NoProber, ProbeCall, ProbeOk, ProbeRetry,
                LoopOver, BackoffOver, BackoffAborted, LoopCrashed, LoopGivesUp, LoopStates
  <2>2. UNCHANGED <<cur, pi, closed, db, os, op>>
    BY <1>1 DEF LoopTop, StartFnFails, NoProber, ProbeCall, ProbeOk, ProbeRetry,
                LoopOver, BackoffOver, BackoffAborted, LoopCrashed, LoopGivesUp
  <2> QED BY <2>1, <2>2, LoopTypes DEF TypeOK
<1>2. ASSUME LoopConsume(r) \/ ProbeStopped(r)
      PROVE  TypeOK'
  <2>1. \E l \in LoopStates : Goto(r, l)
    BY <1>2 DEF LoopConsume, ProbeStopped, LoopStates
  <2>2. os' \in OsType
    BY <1>2, <1>k DEF LoopConsume, ProbeStopped, TypeOK
  <2> QED BY <1>2, <2>1, <2>2, LoopTypes DEF LoopConsume, ProbeStopped, TypeOK
<1>3. ASSUME StartFnOk(r) PROVE TypeOK'
  <2>1. os' \in OsType
    BY <1>3, <1>t DEF StartFnOk, TypeOK, OSStates
  <2> QED BY <1>3, <2>1, LoopTypes DEF StartFnOk, TypeOK, LoopStates
<1>4. ASSUME LoopRebuild(r) PROVE TypeOK'
  <2>1. pi[r].done + 1 \in Rounds
    BY <1>4, <1>t, ConstantsAssumption DEF LoopRebuild, RoundInv, BetweenStates, Rounds
  <2>2. pi' \in [Runs -> ProcInfo]
    BY <1>4, <2>1 DEF LoopRebuild, TypeOK, ProcInfo
  <2> QED BY <1>4, <2>2, LoopTypes DEF LoopRebuild, TypeOK, LoopStates
<1>5. ASSUME LoopRegister(r) PROVE TypeOK'
  <2>1. pi[r].done \in 0 .. MaxRestarts + 1
    BY <1>t, ConstantsAssumption DEF Rounds
  <2> DEFINE mid == [pi EXCEPT ![r].p = pi[r].done]
  <2>2. mid \in [Runs -> ProcInfo]
    BY <2>1 DEF TypeOK, ProcInfo
  <2>3. pi' = [mid EXCEPT ![r].state = "starting"]
    BY <1>5 DEF LoopRegister
  <2>4. pi' \in [Runs -> ProcInfo]
    <3> HIDE DEF mid
    <3> QED BY <2>2, <2>3 DEF ProcInfo, States
  <2> QED BY <1>5, <2>4, LoopTypes DEF LoopRegister, TypeOK, LoopStates
<1>6. ASSUME ProbeTimeout(r) PROVE TypeOK'
  <2>1. pi' \in [Runs -> ProcInfo]
    BY <1>6 DEF ProbeTimeout, TypeOK, ProcInfo
  <2> QED BY <1>6, <1>k, <2>1, LoopTypes DEF ProbeTimeout, TypeOK, LoopStates
<1>7. ASSUME LoopReady(r) PROVE TypeOK'
  <2>1. pi' \in [Runs -> ProcInfo]
    BY <1>7 DEF LoopReady, TypeOK, ProcInfo, States
  <2> QED BY <1>7, <2>1, LoopTypes DEF LoopReady, TypeOK, LoopStates
<1>8. ASSUME WriteStatus(r) PROVE TypeOK'
  <2>1. db' \in States
    BY <1>8 DEF WriteStatus, SetState, TypeOK, States
  <2>2. \E l \in LoopStates : Goto(r, l)
    BY <1>8 DEF WriteStatus, LoopStates
  <2> QED BY <1>8, <2>1, <2>2, LoopTypes DEF WriteStatus, TypeOK
<1>9. ASSUME LoopCounts(r) \/ LoopRestart(r) PROVE TypeOK'
  <2>1. LoopCounts(r) => pi[r].restarts + 1 \in 0 .. MaxRestarts
    BY <1>t, ConstantsAssumption DEF LoopCounts
  <2>2. pi' \in [Runs -> ProcInfo]
    <3>1. CASE LoopCounts(r)
      BY <2>1, <3>1 DEF LoopCounts, TypeOK, ProcInfo
    <3>2. CASE LoopRestart(r)
      BY <3>2 DEF LoopRestart, TypeOK, ProcInfo, States
    <3> QED BY <1>9, <3>1, <3>2
  <2> QED BY <1>9, <2>2, LoopTypes DEF LoopCounts, LoopRestart, TypeOK, LoopStates
<1>10. ASSUME CloseDone(r) PROVE TypeOK'
  <2>1. closed' \subseteq Runs \X Rounds
    BY <1>10, <1>t DEF CloseDone, TypeOK
  <2>2. \E l \in LoopStates : Goto(r, l)
    BY <1>10 DEF CloseDone, LoopStates
  <2> QED BY <1>10, <2>1, <2>2, LoopTypes DEF CloseDone, TypeOK
<1>11. ASSUME FinishIdle(r) PROVE TypeOK'
  <2> DEFINE mid == [pi EXCEPT ![r].state = "idle"]
  <2>1. pi' \in [Runs -> ProcInfo]
    <3>1. mid \in [Runs -> ProcInfo]
      BY DEF TypeOK, ProcInfo, States
    <3>2. pi' = [mid EXCEPT ![r].terminated = TRUE]
      BY <1>11 DEF FinishIdle
    <3> HIDE DEF mid
    <3> QED BY <3>1, <3>2 DEF ProcInfo
  <2>2. \E l \in LoopStates : Goto(r, l)
    BY <1>11 DEF FinishIdle, LoopStates
  <2> QED BY <1>11, <2>1, <2>2, LoopTypes DEF FinishIdle, TypeOK
<1> QED
  BY <1>1, <1>2, <1>3, <1>4, <1>5, <1>6, <1>7, <1>8, <1>9, <1>10, <1>11
  DEF LoopNext, LaunchNext, ProbeNext, EndNext

-----------------------------------------------------------------------------
(* The invariant, step by step: the loops *)

\* A step of a loop is about its own run, and raises what a Stop remembers of
\* it: handles and rounds grow, a request stays, and leads a new round to its end.
LoopFrame(r) ==
    /\ cur' = cur
    /\ op' = op
    /\ loop[r] # "none" /\ loop'[r] # "none"
    /\ \A s \in Runs \ {r} :
           /\ loop'[s] = loop[s]
           /\ pi'[s] = pi[s]
           /\ os'[s] = os[s]
           /\ \A k \in Rounds : <<s, k>> \in closed' => <<s, k>> \in closed
    /\ pi'[r].done >= pi[r].done
    /\ pi'[r].p >= pi[r].p
    /\ pi[r].stopReq => pi'[r].stopReq
    /\ pi'[r].done > pi[r].done => loop'[r] \in OverStates
    /\ pi[r].stopReq /\ loop[r] \in OverStates => loop'[r] \in OverStates

\* With that frame only the invariant of the run itself is left to show.
LEMMA LoopKeeps ==
    ASSUME Inv, TypeOK', NEW r \in Runs, LoopFrame(r), RunInv(r)'
    PROVE  Inv'
<1>1. ASSUME NEW s \in Runs PROVE RunInv(s)'
  <2>1. CASE s = r
    BY <2>1
  <2>2. CASE s # r
    <3>1. /\ loop'[s] = loop[s] /\ pi'[s] = pi[s] /\ os'[s] = os[s] /\ cur' = cur
          /\ \A k \in Rounds : <<s, k>> \in closed' => <<s, k>> \in closed
      BY <2>2 DEF LoopFrame
    <3>2. TableInv(s)'
      BY <3>1 DEF Inv, RunInv, TableInv
    <3>3. RoundInv(s)'
      BY <3>1 DEF Inv, RunInv, RoundInv
    <3>4. ProcInv(s)'
      BY <3>1 DEF Inv, RunInv, ProcInv
    <3>5. ClosedInv(s)'
      BY <3>1 DEF Inv, RunInv, ClosedInv
    <3> QED BY <3>2, <3>3, <3>4, <3>5 DEF RunInv
  <2> QED BY <2>1, <2>2
<1>2. ASSUME NEW c \in Callers PROVE CallInv(c)'
  <2>1. CallInv(c)
    BY DEF Inv
  <2>2. op[c].at = "dbstart" => op[c].run = cur' /\ cur' # 0 /\ loop'[cur'] = "none"
    <3>1. ASSUME op[c].at = "dbstart"
          PROVE  op[c].run = cur /\ cur # 0 /\ loop[cur] = "none"
      BY <2>1, <3>1 DEF CallInv
    <3>2. loop[r] # "none" /\ cur' = cur
      BY DEF LoopFrame
    <3>3. cur \in 0 .. MaxRuns
      BY DEF Inv, TypeOK
    <3>4. ASSUME op[c].at = "dbstart" PROVE cur \in Runs \ {r}
      BY <3>1, <3>2, <3>3, <3>4, ConstantsAssumption DEF Runs
    <3>5. ASSUME op[c].at = "dbstart" PROVE loop'[cur] = loop[cur]
      BY <3>4, <3>5 DEF LoopFrame
    <3> QED BY <3>1, <3>2, <3>5
  <2>3. ASSUME op[c].at \in StopStates
        PROVE  /\ op[c].done <= pi'[op[c].run].done
               /\ op[c].p <= pi'[op[c].run].p
               /\ pi'[op[c].run].stopReq
               /\ op[c].done < pi'[op[c].run].done => loop'[op[c].run] \in OverStates
    <3> DEFINE s == op[c].run
    <3>1. /\ s \in Runs /\ op[c].done \in Nat /\ op[c].p \in Nat
          /\ pi[s].done \in Nat /\ pi[s].p \in Nat
          /\ pi'[s].done \in Nat /\ pi'[s].p \in Nat
      <4>1. s \in Runs
        BY <2>1, <2>3 DEF CallInv
      <4>2. pi \in [Runs -> ProcInfo] /\ pi' \in [Runs -> ProcInfo]
        BY DEF Inv, TypeOK
      <4>3. op[c].done \in Nat /\ op[c].p \in Nat
        BY ConstantsAssumption DEF Inv, TypeOK
      <4> HIDE DEF s
      <4> QED BY <4>1, <4>2, <4>3, InfoTypes
    <3>2. /\ op[c].done <= pi[s].done /\ op[c].p <= pi[s].p /\ pi[s].stopReq
          /\ op[c].done < pi[s].done => loop[s] \in OverStates
      BY <2>1, <2>3 DEF CallInv
    <3>3. CASE s = r
      BY <3>1, <3>2, <3>3 DEF LoopFrame
    <3>4. CASE s # r
      <4>1. pi'[s] = pi[s] /\ loop'[s] = loop[s]
        BY <3>1, <3>4 DEF LoopFrame
      <4> QED BY <3>2, <4>1
    <3> QED BY <3>3, <3>4
  <2> QED
    <3>1. op' = op /\ cur' = cur
      BY DEF LoopFrame
    <3> QED BY <2>1, <2>2, <2>3, <3>1 DEF CallInv, StopStates
<1>3. LaunchInv'
  BY DEF LoopFrame, Inv, LaunchInv
<1> QED
  BY <1>1, <1>2, <1>3 DEF Inv

\* A loop that only moves, from a to b, and at most signals its process, keeps
\* the invariant when the move respects the classes of places above.
LEMMA MoveKeeps ==
    ASSUME Inv, TypeOK', NEW r \in Runs, NEW b \in LoopStates, Goto(r, b),
           UNCHANGED <<cur, pi, closed, op>>,
           \A s \in Runs \ {r} : os'[s] = os[s],
           \A k \in Rounds : os'[r][k] \in LiveStates => os[r][k] \in LiveStates,
           \A k \in Rounds : os'[r][k] = "none" <=> os[r][k] = "none",
           loop[r] # "none", b # "none",
           loop[r] \in EndStates <=> b \in EndStates,
           b # "exit" => (loop[r] \in BetweenStates <=> b \in BetweenStates),
           loop[r] = "exit" => b = "exit",
           loop[r] \in ProcStates => b \in ProcStates \/ Exited(r, pi[r].done),
           b \in ProcStates => loop[r] \in ProcStates,
           b \in HandleStates => loop[r] \in HandleStates,
           b # "register",
           loop[r] \in ClosedStates => b \in ClosedStates,
           b \in {"top", "startfn"} => loop[r] \in {"top", "startfn"},
           b \in StartingStates => loop[r] \in StartingStates,
           pi[r].stopReq /\ loop[r] \in OverStates => b \in OverStates
    PROVE  Inv'
<1>1. loop'[r] = b /\ \A s \in Runs \ {r} : loop'[s] = loop[s]
  BY DEF Goto, Inv, TypeOK
<1>2. /\ pi \in [Runs -> ProcInfo] /\ RunInv(r) /\ r \in Runs
      /\ TableInv(r) /\ RoundInv(r) /\ ProcInv(r) /\ ClosedInv(r)
  BY DEF Inv, TypeOK, RunInv
<1>3. LoopFrame(r)
  BY <1>1, <1>2, InfoTypes DEF LoopFrame
<1>4. TableInv(r)'
  BY <1>1, <1>2 DEF TableInv
<1>5. RoundInv(r)'
  BY <1>1, <1>2 DEF RoundInv, ProcStates, HandleStates, BetweenStates
<1>6. ProcInv(r)'
  BY <1>1, <1>2 DEF ProcInv, Exited, LiveStates, ProcStates
<1>7. ClosedInv(r)'
  BY <1>1, <1>2 DEF ClosedInv
<1> QED
  BY <1>3, <1>4, <1>5, <1>6, <1>7, LoopKeeps DEF RunInv

LEMMA MovesKeep ==
    ASSUME Inv, TypeOK', NEW r \in Runs,
           \/ LoopTop(r) \/ StartFnFails(r) \/ NoProber(r) \/ ProbeCall(r)
           \/ ProbeOk(r) \/ ProbeRetry(r) \/ WriteStatus(r) \/ LoopOver(r)
           \/ BackoffOver(r) \/ BackoffAborted(r) \/ LoopCrashed(r) \/ LoopGivesUp(r)
    PROVE  Inv'
<1>1. UNCHANGED <<cur, pi, closed, os, op>>
  BY DEF LoopTop, StartFnFails, NoProber, ProbeCall, ProbeOk, ProbeRetry,
         WriteStatus, LoopOver, BackoffOver, BackoffAborted, LoopCrashed, LoopGivesUp
<1>2. CASE LoopTop(r)
  BY <1>1, <1>2, MoveKeeps
  DEF LoopTop, LoopStates, EndStates, StartingStates, BetweenStates, ProcStates, HandleStates, ClosedStates, OverStates
<1>3. CASE StartFnFails(r) \/ NoProber(r) \/ ProbeCall(r) \/ ProbeOk(r) \/ ProbeRetry(r)
  BY <1>1, <1>3, MoveKeeps
  DEF StartFnFails, NoProber, ProbeCall, ProbeOk, ProbeRetry,
      LoopStates, EndStates, StartingStates, BetweenStates, ProcStates, HandleStates,
      ClosedStates, OverStates
<1>4. CASE WriteStatus(r)
  BY <1>1, <1>4, MoveKeeps
  DEF WriteStatus, LoopStates, EndStates, StartingStates, BetweenStates, ProcStates, HandleStates, ClosedStates, OverStates
<1>5. CASE LoopOver(r)
  BY <1>1, <1>5, MoveKeeps
  DEF LoopOver, LoopStates, EndStates, StartingStates, BetweenStates, ProcStates, HandleStates, ClosedStates, OverStates
<1>6. CASE BackoffOver(r) \/ BackoffAborted(r)
  BY <1>1, <1>6, MoveKeeps
  DEF BackoffOver, BackoffAborted, LoopStates, EndStates, StartingStates, BetweenStates,
      ProcStates, HandleStates, ClosedStates, OverStates
<1>7. CASE LoopCrashed(r) \/ LoopGivesUp(r)
  BY <1>1, <1>7, MoveKeeps
  DEF LoopCrashed, Crashed, Exited, LoopGivesUp, LoopStates, EndStates, StartingStates, BetweenStates,
      ProcStates, HandleStates, ClosedStates, OverStates
<1> QED
  BY <1>2, <1>3, <1>4, <1>5, <1>6, <1>7

LEMMA KillsKeep ==
    ASSUME Inv, TypeOK', NEW r \in Runs, LoopConsume(r) \/ ProbeStopped(r)
    PROVE  Inv'
<1>1. /\ pi[r].done \in Rounds
      /\ os \in [Runs -> [Rounds -> OSStates]]
  BY InfoTypes DEF Inv, TypeOK
<1>2. /\ \A s \in Runs \ {r} : os'[s] = os[s]
      /\ \A k \in Rounds : os'[r][k] \in LiveStates => os[r][k] \in LiveStates
      /\ \A k \in Rounds : os'[r][k] = "none" <=> os[r][k] = "none"
  <2>1. CASE os' = os
    BY <2>1
  <2>2. CASE Killer(r, pi[r].done)
    BY <1>1, <2>2, KillerKeeps
  <2> QED BY <2>1, <2>2 DEF LoopConsume, ProbeStopped
<1>3. PICK b \in {"wait", "probe"} : Goto(r, b)
  BY DEF LoopConsume, ProbeStopped
<1>4. UNCHANGED <<cur, pi, closed, op>> /\ loop[r] \in {"consume", "probe"}
  BY DEF LoopConsume, ProbeStopped
<1> QED
  BY <1>2, <1>3, <1>4, MoveKeeps
  DEF LoopStates, EndStates, StartingStates, BetweenStates, ProcStates, HandleStates, ClosedStates, OverStates


\* A new round begins: its process has never been launched.
LEMMA LoopRebuildKeeps ==
    ASSUME Inv, TypeOK', NEW r \in Runs, LoopRebuild(r)
    PROVE  Inv'
<1>1. /\ TypeOK /\ RunInv(r)
      /\ TableInv(r) /\ RoundInv(r) /\ ProcInv(r) /\ ClosedInv(r)
  BY DEF Inv, RunInv
<1>2. loop[r] = "rebuild" /\ (loop'[r] = "top") /\ cur' = cur /\ op' = op
  BY <1>1 DEF LoopRebuild, Goto, TypeOK, Crashed
<1>3. /\ \A s \in Runs \ {r} : loop'[s] = loop[s] /\ pi'[s] = pi[s]
      /\ pi'[r].state = pi[r].state
      /\ pi'[r].stopReq = pi[r].stopReq
      /\ pi'[r].terminated = pi[r].terminated
      /\ pi'[r].restarts = pi[r].restarts
      /\ pi'[r].p = pi[r].p
      /\ pi'[r].done = pi[r].done + 1
  BY <1>1 DEF LoopRebuild, Goto, TypeOK, ProcInfo
<1>4. os' = os
  BY DEF LoopRebuild
<1>5. closed' = closed
  BY DEF LoopRebuild
<1>6. /\ pi \in [Runs -> ProcInfo] /\ pi' \in [Runs -> ProcInfo]
  BY <1>1 DEF TypeOK
<1>7. LoopFrame(r)
  BY <1>1, <1>2, <1>3, <1>4, <1>5, <1>6, InfoTypes DEF LoopFrame, RoundInv, BetweenStates, ProcStates, HandleStates, OverStates
<1>8. TableInv(r)'
  BY <1>1, <1>2, <1>3, <1>4, <1>5, <1>6, InfoTypes DEF TableInv, EndStates, StartingStates
<1>9. RoundInv(r)'
  BY <1>1, <1>2, <1>3, <1>4, <1>5, <1>6, InfoTypes DEF RoundInv, ProcStates, HandleStates, BetweenStates
<1>10. ProcInv(r)'
  <2> SUFFICES ASSUME NEW k \in Rounds
               PROVE  /\ os[r][k] \in LiveStates => k = pi'[r].done /\ loop'[r] \in ProcStates
                      /\ k > pi'[r].done => os[r][k] = "none"
                      /\ k = pi'[r].done /\ loop'[r] \in {"none", "top", "startfn"} => os[r][k] = "none"
                      /\ k = pi'[r].done /\ loop'[r] \in ProcStates => os[r][k] # "none"
                      /\ k <= pi'[r].p => os[r][k] # "none"
    BY <1>4 DEF ProcInv
  <2>1. k \in Nat /\ pi[r].done \in Nat /\ pi[r].p \in Nat
    BY <1>6, InfoTypes DEF Rounds
  <2>2. os[r][k] \notin LiveStates /\ (k > pi[r].done => os[r][k] = "none")
        /\ (k <= pi[r].p => os[r][k] # "none")
    BY <1>1, <1>2 DEF ProcInv, ProcStates, HandleStates
  <2> QED BY <1>2, <1>3, <2>1, <2>2 DEF ProcStates, HandleStates
<1>11. ClosedInv(r)'
  <2> SUFFICES ASSUME NEW k \in Rounds, <<r, k>> \in closed
               PROVE  k < pi'[r].done \/ (k = pi'[r].done /\ loop'[r] \in ClosedStates)
    BY <1>5 DEF ClosedInv
  <2>1. k \in Nat /\ pi[r].done \in Nat
    BY <1>6, InfoTypes DEF Rounds
  <2> QED BY <1>1, <1>2, <1>3, <2>1 DEF ClosedInv, ClosedStates
<1> QED
  BY <1>7, <1>8, <1>9, <1>10, <1>11, LoopKeeps DEF RunInv

\* The one place where a process appears: no other of the run is left.
LEMMA StartFnOkKeeps ==
    ASSUME Inv, TypeOK', NEW r \in Runs, StartFnOk(r)
    PROVE  Inv'
<1>1. /\ TypeOK /\ RunInv(r)
      /\ TableInv(r) /\ RoundInv(r) /\ ProcInv(r) /\ ClosedInv(r)
  BY DEF Inv, RunInv
<1>2. loop[r] = "startfn" /\ (loop'[r] = "register") /\ cur' = cur /\ op' = op
  BY <1>1 DEF StartFnOk, Goto, TypeOK, Crashed
<1>3. /\ \A s \in Runs \ {r} : loop'[s] = loop[s] /\ pi'[s] = pi[s]
      /\ pi'[r].state = pi[r].state
      /\ pi'[r].stopReq = pi[r].stopReq
      /\ pi'[r].terminated = pi[r].terminated
      /\ pi'[r].restarts = pi[r].restarts
      /\ pi'[r].p = pi[r].p
      /\ pi'[r].done = pi[r].done
  BY <1>1 DEF StartFnOk, Goto, TypeOK, ProcInfo
<1>4. /\ \A s \in Runs \ {r} : os'[s] = os[s]
      /\ \A k \in Rounds : os'[r][k] = IF k = pi[r].done THEN "alive" ELSE os[r][k]
  BY <1>1 DEF StartFnOk, TypeOK
<1>5. closed' = closed
  BY DEF StartFnOk
<1>6. /\ pi \in [Runs -> ProcInfo] /\ pi' \in [Runs -> ProcInfo]
  BY <1>1 DEF TypeOK
<1>7. LoopFrame(r)
  BY <1>1, <1>2, <1>3, <1>4, <1>5, <1>6, InfoTypes DEF LoopFrame, RoundInv, BetweenStates, ProcStates, HandleStates, OverStates
<1>8. TableInv(r)'
  BY <1>1, <1>2, <1>3, <1>4, <1>5, <1>6, InfoTypes DEF TableInv, EndStates, StartingStates
<1>9. RoundInv(r)'
  BY <1>1, <1>2, <1>3, <1>4, <1>5, <1>6, InfoTypes DEF RoundInv, ProcStates, HandleStates, BetweenStates
<1>10. ProcInv(r)'
  BY <1>1, <1>2, <1>3, <1>4, <1>5, <1>6, InfoTypes DEF ProcInv, ProcStates, HandleStates, RoundInv, BetweenStates, LiveStates, Exited
<1>11. ClosedInv(r)'
  BY <1>1, <1>2, <1>3, <1>4, <1>5, <1>6, InfoTypes DEF ClosedInv, ClosedStates
<1> QED
  BY <1>7, <1>8, <1>9, <1>10, <1>11, LoopKeeps DEF RunInv

\* The handle of the round is registered.
LEMMA LoopRegisterKeeps ==
    ASSUME Inv, TypeOK', NEW r \in Runs, LoopRegister(r)
    PROVE  Inv'
<1>1. /\ TypeOK /\ RunInv(r)
      /\ TableInv(r) /\ RoundInv(r) /\ ProcInv(r) /\ ClosedInv(r)
  BY DEF Inv, RunInv
<1>2. loop[r] = "register" /\ (loop'[r] = "dbstarting") /\ cur' = cur /\ op' = op
  BY <1>1 DEF LoopRegister, Goto, TypeOK, Crashed
<1>3. /\ \A s \in Runs \ {r} : loop'[s] = loop[s] /\ pi'[s] = pi[s]
      /\ pi'[r].state = "starting"
      /\ pi'[r].stopReq = pi[r].stopReq
      /\ pi'[r].terminated = pi[r].terminated
      /\ pi'[r].restarts = pi[r].restarts
      /\ pi'[r].p = pi[r].done
      /\ pi'[r].done = pi[r].done
  BY <1>1 DEF LoopRegister, Goto, TypeOK, ProcInfo
<1>4. os' = os
  BY DEF LoopRegister
<1>5. closed' = closed
  BY DEF LoopRegister
<1>6. /\ pi \in [Runs -> ProcInfo] /\ pi' \in [Runs -> ProcInfo]
  BY <1>1 DEF TypeOK
<1>7. LoopFrame(r)
  BY <1>1, <1>2, <1>3, <1>4, <1>5, <1>6, InfoTypes DEF LoopFrame, RoundInv, BetweenStates, ProcStates, HandleStates, OverStates
<1>8. TableInv(r)'
  BY <1>1, <1>2, <1>3, <1>4, <1>5, <1>6, InfoTypes DEF TableInv, EndStates, StartingStates
<1>9. RoundInv(r)'
  BY <1>1, <1>2, <1>3, <1>4, <1>5, <1>6, InfoTypes DEF RoundInv, ProcStates, HandleStates, BetweenStates
<1>10. ProcInv(r)'
  <2> SUFFICES ASSUME NEW k \in Rounds
               PROVE  /\ os[r][k] \in LiveStates => k = pi'[r].done /\ loop'[r] \in ProcStates
                      /\ k > pi'[r].done => os[r][k] = "none"
                      /\ k = pi'[r].done /\ loop'[r] \in {"none", "top", "startfn"} => os[r][k] = "none"
                      /\ k = pi'[r].done /\ loop'[r] \in ProcStates => os[r][k] # "none"
                      /\ k <= pi'[r].p => os[r][k] # "none"
    BY <1>4 DEF ProcInv
  <2>1. k \in Nat /\ pi[r].done \in Nat /\ pi[r].p \in Nat
    BY <1>6, InfoTypes DEF Rounds
  <2>2. /\ os[r][k] \in LiveStates => k = pi[r].done
        /\ k > pi[r].done => os[r][k] = "none"
        /\ k <= pi[r].done => os[r][k] # "none"
    <3>1. pi[r].done <= pi[r].p + 1
      BY <1>1, <1>2 DEF RoundInv
    <3> QED BY <1>1, <1>2, <2>1, <3>1 DEF ProcInv, ProcStates, HandleStates
  <2> QED BY <1>2, <1>3, <2>1, <2>2 DEF ProcStates, HandleStates
<1>11. ClosedInv(r)'
  <2> SUFFICES ASSUME NEW k \in Rounds, <<r, k>> \in closed
               PROVE  k < pi'[r].done \/ (k = pi'[r].done /\ loop'[r] \in ClosedStates)
    BY <1>5 DEF ClosedInv
  <2>1. k \in Nat /\ pi[r].done \in Nat
    BY <1>6, InfoTypes DEF Rounds
  <2> QED BY <1>1, <1>2, <1>3, <2>1 DEF ClosedInv, ClosedStates
<1> QED
  BY <1>7, <1>8, <1>9, <1>10, <1>11, LoopKeeps DEF RunInv

\* The loop asks itself to stop, and kills its process.
LEMMA ProbeTimeoutKeeps ==
    ASSUME Inv, TypeOK', NEW r \in Runs, ProbeTimeout(r)
    PROVE  Inv'
<1>1. /\ TypeOK /\ RunInv(r)
      /\ TableInv(r) /\ RoundInv(r) /\ ProcInv(r) /\ ClosedInv(r)
  BY DEF Inv, RunInv
<1>2. loop[r] = "probing" /\ (loop'[r] = "waitTimeout") /\ cur' = cur /\ op' = op
  BY <1>1 DEF ProbeTimeout, Goto, TypeOK, Crashed
<1>3. /\ \A s \in Runs \ {r} : loop'[s] = loop[s] /\ pi'[s] = pi[s]
      /\ pi'[r].state = pi[r].state
      /\ pi'[r].stopReq = TRUE
      /\ pi'[r].terminated = pi[r].terminated
      /\ pi'[r].restarts = pi[r].restarts
      /\ pi'[r].p = pi[r].p
      /\ pi'[r].done = pi[r].done
  BY <1>1 DEF ProbeTimeout, Goto, TypeOK, ProcInfo
<1>4. /\ \A s \in Runs \ {r} : os'[s] = os[s]
      /\ \A k \in Rounds : /\ os'[r][k] \in LiveStates <=> os[r][k] \in LiveStates
                           /\ os'[r][k] = "none" <=> os[r][k] = "none"
  BY <1>1, InfoTypes, KillerKeeps DEF ProbeTimeout, TypeOK
<1>5. closed' = closed
  BY DEF ProbeTimeout
<1>6. /\ pi \in [Runs -> ProcInfo] /\ pi' \in [Runs -> ProcInfo]
  BY <1>1 DEF TypeOK
<1>7. LoopFrame(r)
  BY <1>1, <1>2, <1>3, <1>4, <1>5, <1>6, InfoTypes DEF LoopFrame, RoundInv, BetweenStates, ProcStates, HandleStates, OverStates
<1>8. TableInv(r)'
  BY <1>1, <1>2, <1>3, <1>4, <1>5, <1>6, InfoTypes DEF TableInv, EndStates, StartingStates
<1>9. RoundInv(r)'
  BY <1>1, <1>2, <1>3, <1>4, <1>5, <1>6, InfoTypes DEF RoundInv, ProcStates, HandleStates, BetweenStates
<1>10. ProcInv(r)'
  BY <1>1, <1>2, <1>3, <1>4, <1>5, <1>6, InfoTypes DEF ProcInv, ProcStates, HandleStates, RoundInv, BetweenStates, LiveStates, Exited
<1>11. ClosedInv(r)'
  BY <1>1, <1>2, <1>3, <1>4, <1>5, <1>6, InfoTypes DEF ClosedInv, ClosedStates
<1> QED
  BY <1>7, <1>8, <1>9, <1>10, <1>11, LoopKeeps DEF RunInv

\* The run is announced.
LEMMA LoopReadyKeeps ==
    ASSUME Inv, TypeOK', NEW r \in Runs, LoopReady(r)
    PROVE  Inv'
<1>1. /\ TypeOK /\ RunInv(r)
      /\ TableInv(r) /\ RoundInv(r) /\ ProcInv(r) /\ ClosedInv(r)
  BY DEF Inv, RunInv
<1>2. loop[r] = "torunning" /\ (loop'[r] = "dbrunning") /\ cur' = cur /\ op' = op
  BY <1>1 DEF LoopReady, Goto, TypeOK, Crashed
<1>3. /\ \A s \in Runs \ {r} : loop'[s] = loop[s] /\ pi'[s] = pi[s]
      /\ pi'[r].state = "running"
      /\ pi'[r].stopReq = pi[r].stopReq
      /\ pi'[r].terminated = pi[r].terminated
      /\ pi'[r].restarts = pi[r].restarts
      /\ pi'[r].p = pi[r].p
      /\ pi'[r].done = pi[r].done
  BY <1>1 DEF LoopReady, Goto, TypeOK, ProcInfo
<1>4. os' = os
  BY DEF LoopReady
<1>5. closed' = closed
  BY DEF LoopReady
<1>6. /\ pi \in [Runs -> ProcInfo] /\ pi' \in [Runs -> ProcInfo]
  BY <1>1 DEF TypeOK
<1>7. LoopFrame(r)
  BY <1>1, <1>2, <1>3, <1>4, <1>5, <1>6, InfoTypes DEF LoopFrame, RoundInv, BetweenStates, ProcStates, HandleStates, OverStates
<1>8. TableInv(r)'
  BY <1>1, <1>2, <1>3, <1>4, <1>5, <1>6, InfoTypes DEF TableInv, EndStates, StartingStates
<1>9. RoundInv(r)'
  BY <1>1, <1>2, <1>3, <1>4, <1>5, <1>6, InfoTypes DEF RoundInv, ProcStates, HandleStates, BetweenStates
<1>10. ProcInv(r)'
  BY <1>1, <1>2, <1>3, <1>4, <1>5, <1>6, InfoTypes DEF ProcInv, ProcStates, HandleStates, RoundInv, BetweenStates, LiveStates, Exited
<1>11. ClosedInv(r)'
  BY <1>1, <1>2, <1>3, <1>4, <1>5, <1>6, InfoTypes DEF ClosedInv, ClosedStates
<1> QED
  BY <1>7, <1>8, <1>9, <1>10, <1>11, LoopKeeps DEF RunInv

\* A restart is counted: the crashed process is gone, and it was registered.
LEMMA LoopCountsKeeps ==
    ASSUME Inv, TypeOK', NEW r \in Runs, LoopCounts(r)
    PROVE  Inv'
<1>1. /\ TypeOK /\ RunInv(r)
      /\ TableInv(r) /\ RoundInv(r) /\ ProcInv(r) /\ ClosedInv(r)
  BY DEF Inv, RunInv
<1>2. loop[r] = "count" /\ (loop'[r] = "torestart") /\ cur' = cur /\ op' = op
  BY <1>1 DEF LoopCounts, Goto, TypeOK, Crashed
<1>3. /\ \A s \in Runs \ {r} : loop'[s] = loop[s] /\ pi'[s] = pi[s]
      /\ pi'[r].state = pi[r].state
      /\ pi'[r].stopReq = pi[r].stopReq
      /\ pi'[r].terminated = pi[r].terminated
      /\ pi'[r].restarts = pi[r].restarts + 1
      /\ pi'[r].p = pi[r].p
      /\ pi'[r].done = pi[r].done
  BY <1>1 DEF LoopCounts, Goto, TypeOK, ProcInfo
<1>4. os' = os
  BY DEF LoopCounts
<1>5. closed' = closed
  BY DEF LoopCounts
<1>6. /\ pi \in [Runs -> ProcInfo] /\ pi' \in [Runs -> ProcInfo]
  BY <1>1 DEF TypeOK
<1>7. LoopFrame(r)
  BY <1>1, <1>2, <1>3, <1>4, <1>5, <1>6, InfoTypes DEF LoopFrame, RoundInv, BetweenStates, ProcStates, HandleStates, OverStates
<1>8. TableInv(r)'
  BY <1>1, <1>2, <1>3, <1>4, <1>5, <1>6, InfoTypes DEF TableInv, EndStates, StartingStates
<1>9. RoundInv(r)'
  BY <1>1, <1>2, <1>3, <1>4, <1>5, <1>6, InfoTypes DEF RoundInv, ProcStates, HandleStates, BetweenStates
<1>10. ProcInv(r)'
  BY <1>1, <1>2, <1>3, <1>4, <1>5, <1>6, InfoTypes DEF ProcInv, ProcStates, HandleStates, RoundInv, BetweenStates, LiveStates, Exited
<1>11. ClosedInv(r)'
  BY <1>1, <1>2, <1>3, <1>4, <1>5, <1>6, InfoTypes DEF ClosedInv, ClosedStates
<1> QED
  BY <1>7, <1>8, <1>9, <1>10, <1>11, LoopKeeps DEF RunInv

\* A counted restart is announced.
LEMMA LoopRestartKeeps ==
    ASSUME Inv, TypeOK', NEW r \in Runs, LoopRestart(r)
    PROVE  Inv'
<1>1. /\ TypeOK /\ RunInv(r)
      /\ TableInv(r) /\ RoundInv(r) /\ ProcInv(r) /\ ClosedInv(r)
  BY DEF Inv, RunInv
<1>2. loop[r] = "torestart" /\ (loop'[r] = "dbrestart") /\ cur' = cur /\ op' = op
  BY <1>1 DEF LoopRestart, Goto, TypeOK, Crashed
<1>3. /\ \A s \in Runs \ {r} : loop'[s] = loop[s] /\ pi'[s] = pi[s]
      /\ pi'[r].state = "starting"
      /\ pi'[r].stopReq = pi[r].stopReq
      /\ pi'[r].terminated = pi[r].terminated
      /\ pi'[r].restarts = pi[r].restarts
      /\ pi'[r].p = pi[r].p
      /\ pi'[r].done = pi[r].done
  BY <1>1 DEF LoopRestart, Goto, TypeOK, ProcInfo
<1>4. os' = os
  BY DEF LoopRestart
<1>5. closed' = closed
  BY DEF LoopRestart
<1>6. /\ pi \in [Runs -> ProcInfo] /\ pi' \in [Runs -> ProcInfo]
  BY <1>1 DEF TypeOK
<1>7. LoopFrame(r)
  BY <1>1, <1>2, <1>3, <1>4, <1>5, <1>6, InfoTypes DEF LoopFrame, RoundInv, BetweenStates, ProcStates, HandleStates, OverStates
<1>8. TableInv(r)'
  BY <1>1, <1>2, <1>3, <1>4, <1>5, <1>6, InfoTypes DEF TableInv, EndStates, StartingStates
<1>9. RoundInv(r)'
  BY <1>1, <1>2, <1>3, <1>4, <1>5, <1>6, InfoTypes DEF RoundInv, ProcStates, HandleStates, BetweenStates
<1>10. ProcInv(r)'
  BY <1>1, <1>2, <1>3, <1>4, <1>5, <1>6, InfoTypes DEF ProcInv, ProcStates, HandleStates, RoundInv, BetweenStates, LiveStates, Exited
<1>11. ClosedInv(r)'
  BY <1>1, <1>2, <1>3, <1>4, <1>5, <1>6, InfoTypes DEF ClosedInv, ClosedStates
<1> QED
  BY <1>7, <1>8, <1>9, <1>10, <1>11, LoopKeeps DEF RunInv

\* The channel of a finished round is closed.
LEMMA CloseDoneKeeps ==
    ASSUME Inv, TypeOK', NEW r \in Runs, CloseDone(r)
    PROVE  Inv'
<1>1. /\ TypeOK /\ RunInv(r)
      /\ TableInv(r) /\ RoundInv(r) /\ ProcInv(r) /\ ClosedInv(r)
  BY DEF Inv, RunInv
<1>2. loop[r] \in {"closeRound", "closeLast"} /\ (loop'[r] = IF loop[r] = "closeRound" THEN "backoff" ELSE "exit") /\ cur' = cur /\ op' = op
  BY <1>1 DEF CloseDone, Goto, TypeOK, Crashed
<1>3. /\ \A s \in Runs \ {r} : loop'[s] = loop[s] /\ pi'[s] = pi[s]
      /\ pi'[r].state = pi[r].state
      /\ pi'[r].stopReq = pi[r].stopReq
      /\ pi'[r].terminated = pi[r].terminated
      /\ pi'[r].restarts = pi[r].restarts
      /\ pi'[r].p = pi[r].p
      /\ pi'[r].done = pi[r].done
  BY <1>1 DEF CloseDone, Goto, TypeOK, ProcInfo
<1>4. os' = os
  BY DEF CloseDone
<1>5. closed' = closed \cup {<<r, pi[r].done>>}
  BY DEF CloseDone
<1>6. /\ pi \in [Runs -> ProcInfo] /\ pi' \in [Runs -> ProcInfo]
  BY <1>1 DEF TypeOK
<1>7. LoopFrame(r)
  BY <1>1, <1>2, <1>3, <1>4, <1>5, <1>6, InfoTypes DEF LoopFrame, RoundInv, BetweenStates, ProcStates, HandleStates, OverStates
<1>8. TableInv(r)'
  BY <1>1, <1>2, <1>3, <1>4, <1>5, <1>6, InfoTypes DEF TableInv, EndStates, StartingStates
<1>9. RoundInv(r)'
  BY <1>1, <1>2, <1>3, <1>4, <1>5, <1>6, InfoTypes DEF RoundInv, ProcStates, HandleStates, BetweenStates
<1>10. ProcInv(r)'
  BY <1>1, <1>2, <1>3, <1>4, <1>5, <1>6, InfoTypes DEF ProcInv, ProcStates, HandleStates, RoundInv, BetweenStates, LiveStates, Exited
<1>11. ClosedInv(r)'
  BY <1>1, <1>2, <1>3, <1>4, <1>5, <1>6, InfoTypes DEF ClosedInv, ClosedStates
<1> QED
  BY <1>7, <1>8, <1>9, <1>10, <1>11, LoopKeeps DEF RunInv

\* The run is over.
LEMMA FinishIdleKeeps ==
    ASSUME Inv, TypeOK', NEW r \in Runs, FinishIdle(r)
    PROVE  Inv'
<1>1. /\ TypeOK /\ RunInv(r)
      /\ TableInv(r) /\ RoundInv(r) /\ ProcInv(r) /\ ClosedInv(r)
  BY DEF Inv, RunInv
<1>2. loop[r] \in {"finish", "abort"} /\ (loop'[r] = IF loop[r] = "finish" THEN "dbidle" ELSE "dbabort") /\ cur' = cur /\ op' = op
  BY <1>1 DEF FinishIdle, Goto, TypeOK, Crashed
<1>3. /\ \A s \in Runs \ {r} : loop'[s] = loop[s] /\ pi'[s] = pi[s]
      /\ pi'[r].state = "idle"
      /\ pi'[r].stopReq = pi[r].stopReq
      /\ pi'[r].terminated = TRUE
      /\ pi'[r].restarts = pi[r].restarts
      /\ pi'[r].p = pi[r].p
      /\ pi'[r].done = pi[r].done
  BY <1>1 DEF FinishIdle, Goto, TypeOK, ProcInfo
<1>4. os' = os
  BY DEF FinishIdle
<1>5. closed' = closed
  BY DEF FinishIdle
<1>6. /\ pi \in [Runs -> ProcInfo] /\ pi' \in [Runs -> ProcInfo]
  BY <1>1 DEF TypeOK
<1>7. LoopFrame(r)
  BY <1>1, <1>2, <1>3, <1>4, <1>5, <1>6, InfoTypes DEF LoopFrame, RoundInv, BetweenStates, ProcStates, HandleStates, OverStates
<1>8. TableInv(r)'
  BY <1>1, <1>2, <1>3, <1>4, <1>5, <1>6, InfoTypes DEF TableInv, EndStates, StartingStates
<1>9. RoundInv(r)'
  BY <1>1, <1>2, <1>3, <1>4, <1>5, <1>6, InfoTypes DEF RoundInv, ProcStates, HandleStates, BetweenStates
<1>10. ProcInv(r)'
  BY <1>1, <1>2, <1>3, <1>4, <1>5, <1>6, InfoTypes DEF ProcInv, ProcStates, HandleStates, RoundInv, BetweenStates, LiveStates, Exited
<1>11. ClosedInv(r)'
  BY <1>1, <1>2, <1>3, <1>4, <1>5, <1>6, InfoTypes DEF ClosedInv, ClosedStates
<1> QED
  BY <1>7, <1>8, <1>9, <1>10, <1>11, LoopKeeps DEF RunInv

-----------------------------------------------------------------------------
(* The invariant, step by step: the callers and the server *)

\* Killing and dying leave what the invariant says of the runs alone.
LEMMA ProcessesKeep ==
    ASSUME Inv, UNCHANGED <<cur, pi, closed, loop>>,
           \A r \in Runs, k \in Rounds :
               /\ os'[r][k] \in LiveStates => os[r][k] \in LiveStates
               /\ os'[r][k] = "none" <=> os[r][k] = "none"
    PROVE  \A r \in Runs : RunInv(r)'
<1> SUFFICES ASSUME NEW r \in Runs PROVE RunInv(r)'
  OBVIOUS
<1>1. TableInv(r) /\ RoundInv(r) /\ ProcInv(r) /\ ClosedInv(r)
  BY DEF Inv, RunInv
<1>2. TableInv(r)'
  BY <1>1 DEF TableInv
<1>3. RoundInv(r)'
  BY <1>1 DEF RoundInv
<1>4. ProcInv(r)'
  BY <1>1 DEF ProcInv
<1>5. ClosedInv(r)'
  BY <1>1 DEF ClosedInv
<1> QED BY <1>2, <1>3, <1>4, <1>5 DEF RunInv

\* A call that moves on, or returns, without touching the table.
LEMMA CallKeeps ==
    ASSUME Inv, TypeOK', NEW c \in Callers, UNCHANGED <<cur, pi, loop>>,
           \A r \in Runs : RunInv(r)',
           \A d \in Callers \ {c} : op'[d] = op[d],
           op'[c].at # "dbstart", op'[c].at # "nilwait",
           op'[c].at \in StopStates =>
               /\ op[c].at \in StopStates \ {"nilwait"}
               /\ op'[c].run = op[c].run /\ op'[c].p = op[c].p
               /\ op'[c].done = op[c].done
    PROVE  Inv'
<1>1. ASSUME NEW d \in Callers PROVE CallInv(d)'
  <2>1. CallInv(d)
    BY DEF Inv
  <2>2. CASE d = c
    BY <2>1, <2>2 DEF CallInv
  <2>3. CASE d # c
    <3>1. op'[d] = op[d]
      BY <2>3
    <3> QED BY <2>1, <3>1 DEF CallInv
  <2> QED BY <2>2, <2>3
<1>2. LaunchInv'
  BY DEF Inv, LaunchInv
<1> QED BY <1>1, <1>2 DEF Inv

LEMMA CallMovesKeep ==
    ASSUME Inv, TypeOK', NEW c \in Callers,
           \/ StartCheck(c) \/ StartFails(c) \/ StopHooks(c) \/ StopDone(c)
           \/ StopGivesUp(c) \/ StopGraceOver(c)
    PROVE  Inv'
<1>1. UNCHANGED <<cur, pi, closed, loop, os>>
  BY DEF StartCheck, StartFails, StopHooks, StopDone, StopGivesUp, StopGraceOver
<1>2. \A r \in Runs : RunInv(r)'
  BY <1>1, ProcessesKeep
<1>3. \/ Return(c)
      \/ Call(c, "get")
      \/ /\ op[c].at \in {"hooks", "grace"}
         /\ Call(c, "grace") \/ Call(c, "kill")
  BY DEF StartCheck, StartFails, StopHooks, StopDone, StopGivesUp, StopGraceOver
<1>4. /\ \A d \in Callers \ {c} : op'[d] = op[d]
      /\ op'[c].at # "dbstart" /\ op'[c].at # "nilwait"
      /\ op'[c].at \in StopStates =>
             /\ op[c].at \in StopStates \ {"nilwait"}
             /\ op'[c].run = op[c].run /\ op'[c].p = op[c].p
             /\ op'[c].done = op[c].done
  BY <1>3 DEF Return, Call, IdleCall, Inv, TypeOK, StopStates
<1> QED BY <1>1, <1>2, <1>4, CallKeeps

LEMMA StopKillKeeps ==
    ASSUME Inv, TypeOK', NEW c \in Callers, StopKill(c)
    PROVE  Inv'
<1>1. op[c].at = "kill" /\ UNCHANGED <<cur, pi, closed, loop>>
  BY DEF StopKill
<1>2. op[c].run \in Runs /\ op[c].p \in Rounds
  BY <1>1, ConstantsAssumption DEF Inv, TypeOK, CallInv, StopStates, Rounds
<1>3. \A r \in Runs : RunInv(r)'
  BY <1>1, <1>2, KillerKeeps, ProcessesKeep DEF StopKill, Inv, TypeOK
<1>4. /\ \A d \in Callers \ {c} : op'[d] = op[d]
      /\ op'[c].at = "killwait"
      /\ op'[c].run = op[c].run /\ op'[c].p = op[c].p
      /\ op'[c].done = op[c].done
  BY DEF StopKill, Call, Inv, TypeOK
<1> QED BY <1>1, <1>3, <1>4, CallKeeps DEF StopStates

LEMMA ProcessExitsKeeps ==
    ASSUME Inv, TypeOK', NEW r \in Runs, NEW k \in Rounds, ProcessExits(r, k)
    PROVE  Inv'
<1>1. \A s \in Runs, j \in Rounds :
          /\ os'[s][j] \in LiveStates => os[s][j] \in LiveStates
          /\ os'[s][j] = "none" <=> os[s][j] = "none"
  BY DEF ProcessExits, Live, Inv, TypeOK, LiveStates
<1>2. UNCHANGED <<cur, pi, closed, loop, op>>
  BY DEF ProcessExits
<1>3. \A s \in Runs : RunInv(s)'
  BY <1>1, <1>2, ProcessesKeep
<1>4. \A c \in Callers : CallInv(c)'
  BY <1>2 DEF Inv, CallInv
<1>5. LaunchInv'
  BY <1>2 DEF Inv, LaunchInv
<1> QED BY <1>3, <1>4, <1>5 DEF Inv

\* The table is free, so every loop that exists is over and nobody is
\* launching: the new run is the only one that is not over.
LEMMA StartInstallKeeps ==
    ASSUME Inv, TypeOK', NEW c \in Callers, StartInstall(c)
    PROVE  Inv'
<1> DEFINE n == cur + 1
<1>1. /\ n \in Runs /\ cur' = n /\ cur \in Nat
      /\ cur # 0 => cur \in Runs /\ pi[cur].terminated
      /\ UNCHANGED <<closed, loop, os>>
  BY ConstantsAssumption DEF StartInstall, Inv, TypeOK, Runs, Terminated
<1>2. PICK auto \in BOOLEAN : pi' = [pi EXCEPT ![n] = FreshInfo(auto)]
  BY DEF StartInstall
<1>3. /\ pi'[n] = FreshInfo(auto)
      /\ \A s \in Runs \ {n} : pi'[s] = pi[s]
  BY <1>1, <1>2 DEF Inv, TypeOK
<1>4. loop[n] = "none" /\ pi[n].done = 1 /\ pi[n].p = 0 /\ pi[n].restarts = 0
  <2>1. TableInv(n) /\ RoundInv(n)
    BY <1>1 DEF Inv, RunInv
  <2>2. pi \in [Runs -> ProcInfo]
    BY DEF Inv, TypeOK
  <2>3. loop[n] = "none"
    BY <1>1, <2>1 DEF TableInv
  <2>4. pi[n].restarts = 0 /\ pi[n].p = 0 /\ pi[n].done = pi[n].restarts + 1
    BY <2>1, <2>3 DEF RoundInv, BetweenStates
  <2> QED BY <1>1, <2>2, <2>3, <2>4, InfoTypes
<1>5. ASSUME NEW s \in Runs PROVE RunInv(s)'
  <2>1. TableInv(s) /\ RoundInv(s) /\ ProcInv(s) /\ ClosedInv(s)
    BY DEF Inv, RunInv
  <2>2. CASE s = n
    <3>1. /\ pi'[s].done = 1 /\ pi'[s].p = 0 /\ pi'[s].restarts = 0
          /\ pi'[s].state = "starting" /\ pi'[s].terminated = FALSE
      BY <1>3, <2>2 DEF FreshInfo
    <3>2. TableInv(s)'
      BY <1>1, <1>4, <2>2, <3>1 DEF TableInv, EndStates, StartingStates, Runs
    <3>3. RoundInv(s)'
      BY <1>1, <1>4, <2>2, <3>1 DEF RoundInv, BetweenStates, ProcStates, HandleStates
    <3>4. ProcInv(s)'
      BY <1>1, <1>4, <2>1, <2>2, <3>1 DEF ProcInv, Rounds
    <3>5. ClosedInv(s)'
      BY <1>1, <1>4, <2>1, <2>2, <3>1 DEF ClosedInv
    <3> QED BY <3>2, <3>3, <3>4, <3>5 DEF RunInv
  <2>3. CASE s # n
    <3>1. pi'[s] = pi[s]
      BY <1>3, <2>3
    <3>2. TableInv(s)'
      <4>1. s < n => pi[s].terminated
        BY <1>1, <2>1 DEF TableInv, Runs
      <4>2. s > n => s > cur
        BY <1>1 DEF Runs
      <4> QED BY <1>1, <2>1, <3>1, <4>1, <4>2 DEF TableInv
    <3>3. RoundInv(s)'
      BY <1>1, <2>1, <3>1 DEF RoundInv
    <3>4. ProcInv(s)'
      BY <1>1, <2>1, <3>1 DEF ProcInv
    <3>5. ClosedInv(s)'
      BY <1>1, <2>1, <3>1 DEF ClosedInv
    <3> QED BY <3>2, <3>3, <3>4, <3>5 DEF RunInv
  <2> QED BY <2>2, <2>3
<1>6. \A d \in Callers : op[d].at # "dbstart"
  <2> SUFFICES ASSUME NEW d \in Callers, op[d].at = "dbstart" PROVE FALSE
    OBVIOUS
  <2>1. cur # 0 /\ loop[cur] = "none"
    BY DEF Inv, CallInv
  <2>2. TableInv(cur) /\ pi[cur].terminated
    BY <1>1, <2>1 DEF Inv, RunInv
  <2> QED BY <2>1, <2>2 DEF TableInv, EndStates, StartingStates
<1>7. /\ op'[c] = [at |-> "dbstart", run |-> n, p |-> 0, done |-> 0]
      /\ \A d \in Callers \ {c} : op'[d] = op[d]
  BY DEF StartInstall, Inv, TypeOK
<1>8. ASSUME NEW d \in Callers PROVE CallInv(d)'
  <2>1. CASE d = c
    BY <1>1, <1>4, <1>7, <2>1 DEF CallInv, StopStates
  <2>2. CASE d # c
    <3>1. CallInv(d) /\ op'[d] = op[d] /\ op[d].at # "dbstart"
      BY <1>6, <1>7, <2>2 DEF Inv
    <3>2. ASSUME op[d].at \in StopStates
          PROVE  /\ op[d].run <= n
                 /\ pi'[op[d].run] = pi[op[d].run]
      <4>1. op[d].run \in Runs /\ op[d].run <= cur
        BY <3>1, <3>2 DEF CallInv
      <4> QED BY <1>1, <1>3, <4>1 DEF Runs
    <3> QED BY <1>1, <3>1, <3>2 DEF CallInv, StopStates
  <2> QED BY <2>1, <2>2
<1>9. LaunchInv'
  BY <1>6, <1>7 DEF LaunchInv
<1> QED BY <1>5, <1>8, <1>9 DEF Inv

\* The loop of the installed run is launched, by the one caller that may.
LEMMA StartLaunchKeeps ==
    ASSUME Inv, TypeOK', NEW c \in Callers, StartLaunch(c)
    PROVE  Inv'
<1>1. /\ op[c].run = cur /\ cur \in Runs /\ loop[cur] = "none"
      /\ UNCHANGED <<cur, pi, closed, os>>
  BY ConstantsAssumption DEF StartLaunch, Inv, TypeOK, CallInv, Runs
<1>2. loop'[cur] = "top" /\ \A s \in Runs \ {cur} : loop'[s] = loop[s]
  BY <1>1 DEF StartLaunch, Goto, Inv, TypeOK
<1>3. op'[c] = IdleCall /\ \A d \in Callers \ {c} : op'[d] = op[d]
  BY DEF StartLaunch, Return, Inv, TypeOK
<1>4. ASSUME NEW s \in Runs PROVE RunInv(s)'
  <2>1. TableInv(s) /\ RoundInv(s) /\ ProcInv(s) /\ ClosedInv(s)
    BY DEF Inv, RunInv
  <2>2. CASE s = cur
    <3>1. TableInv(s)'
      BY <1>1, <1>2, <2>1, <2>2 DEF TableInv, EndStates, StartingStates, Runs
    <3>2. RoundInv(s)'
      BY <1>1, <1>2, <2>1, <2>2 DEF RoundInv, BetweenStates, ProcStates, HandleStates
    <3>3. ProcInv(s)'
      BY <1>1, <1>2, <2>1, <2>2 DEF ProcInv, ProcStates, HandleStates
    <3>4. ClosedInv(s)'
      BY <1>1, <1>2, <2>1, <2>2 DEF ClosedInv, ClosedStates
    <3> QED BY <3>1, <3>2, <3>3, <3>4 DEF RunInv
  <2>3. CASE s # cur
    <3>1. loop'[s] = loop[s]
      BY <1>2, <2>3
    <3> QED BY <1>1, <2>1, <3>1 DEF RunInv, TableInv, RoundInv, ProcInv, ClosedInv
  <2> QED BY <2>2, <2>3
<1>5. ASSUME NEW d \in Callers PROVE CallInv(d)'
  <2>1. CASE d = c
    BY <1>3, <2>1 DEF CallInv, IdleCall, StopStates
  <2>2. CASE d # c
    <3>1. CallInv(d) /\ op'[d] = op[d] /\ op[d].at # "dbstart"
      BY <1>3, <2>2 DEF Inv, LaunchInv, StartLaunch
    <3>2. \A s \in Runs : loop[s] \in OverStates => loop'[s] \in OverStates
      BY <1>1, <1>2 DEF OverStates
    <3> QED BY <1>1, <3>1, <3>2 DEF CallInv
  <2> QED BY <2>1, <2>2
<1>6. LaunchInv'
  BY <1>3 DEF Inv, LaunchInv, IdleCall
<1> QED BY <1>4, <1>5, <1>6 DEF Inv

\* A run that was asked to stop before it had a handle is in its first round.
LEMMA StopBeginKeeps ==
    ASSUME Inv, TypeOK', NEW c \in Callers, StopBegin(c)
    PROVE  Inv'
<1>1. cur \in Runs /\ UNCHANGED <<cur, closed, loop, os>>
  BY ConstantsAssumption DEF StopBegin, Inv, TypeOK, Terminated, Runs
<1>2. /\ \A s \in Runs \ {cur} : pi'[s] = pi[s]
      /\ pi'[cur].stopReq = TRUE
      /\ \A s \in Runs : /\ pi'[s].state = pi[s].state
                         /\ pi'[s].terminated = pi[s].terminated
                         /\ pi'[s].restarts = pi[s].restarts
                         /\ pi'[s].p = pi[s].p
                         /\ pi'[s].done = pi[s].done
  BY <1>1 DEF StopBegin, Inv, TypeOK, ProcInfo
<1>3. /\ op'[c] = [at |-> IF pi[cur].p = 0 THEN "nilwait" ELSE "hooks",
                   run |-> cur, p |-> pi[cur].p, done |-> pi[cur].done]
      /\ \A d \in Callers \ {c} : op'[d] = op[d]
  BY DEF StopBegin, Inv, TypeOK
<1>4. ASSUME NEW s \in Runs PROVE RunInv(s)'
  <2>1. TableInv(s) /\ RoundInv(s) /\ ProcInv(s) /\ ClosedInv(s)
    BY DEF Inv, RunInv
  <2>2. TableInv(s)'
    BY <1>1, <1>2, <2>1 DEF TableInv
  <2>3. RoundInv(s)'
    BY <1>1, <1>2, <2>1 DEF RoundInv
  <2>4. ProcInv(s)'
    BY <1>1, <1>2, <2>1 DEF ProcInv
  <2>5. ClosedInv(s)'
    BY <1>1, <1>2, <2>1 DEF ClosedInv
  <2> QED BY <2>2, <2>3, <2>4, <2>5 DEF RunInv
<1>5. ASSUME NEW d \in Callers PROVE CallInv(d)'
  <2>1. CASE d = c
    <3>1. pi \in [Runs -> ProcInfo] /\ RoundInv(cur)
      BY <1>1 DEF Inv, TypeOK, RunInv
    <3>2. /\ pi[cur].p <= pi[cur].done /\ pi[cur].done \in Rounds
          /\ pi[cur].p \in Nat /\ pi[cur].done \in Nat
      BY <1>1, <3>1, InfoTypes DEF RoundInv
    <3>3. cur \in Nat
      BY <1>1 DEF Runs
    <3> QED BY <1>1, <1>2, <1>3, <2>1, <3>2, <3>3 DEF CallInv, StopStates
  <2>2. CASE d # c
    <3>1. CallInv(d) /\ op'[d] = op[d]
      BY <1>3, <2>2 DEF Inv
    <3>2. ASSUME op[d].at \in StopStates
          PROVE  pi'[op[d].run].stopReq
      BY <1>2, <3>1, <3>2 DEF CallInv
    <3>3. ASSUME op[d].at \in StopStates
          PROVE  op[d].run \in Runs
      BY <3>1, <3>3 DEF CallInv
    <3> QED BY <1>1, <1>2, <3>1, <3>2, <3>3 DEF CallInv, StopStates
  <2> QED BY <2>1, <2>2
<1>6. LaunchInv'
  BY <1>3 DEF Inv, LaunchInv
<1> QED BY <1>4, <1>5, <1>6 DEF Inv

-----------------------------------------------------------------------------
(* The theorems *)

LEMMA InitInv == Init => Inv
<1> SUFFICES ASSUME Init PROVE Inv
  OBVIOUS
<1>1. FreshInfo(FALSE) \in ProcInfo
  BY ConstantsAssumption DEF FreshInfo, ProcInfo, States, Rounds
<1>2. TypeOK
  <2>1. pi \in [Runs -> ProcInfo] /\ os \in [Runs -> [Rounds -> OSStates]]
    BY <1>1 DEF Init, OSStates
  <2>2. /\ cur \in 0 .. MaxRuns /\ db \in States
        /\ loop \in [Runs -> LoopStates] /\ closed \subseteq Runs \X Rounds
    BY ConstantsAssumption DEF Init, States, LoopStates
  <2>3. op \in [Callers -> [at : CallStates, run : 0 .. MaxRuns,
                            p : 0 .. MaxRestarts + 1, done : 0 .. MaxRestarts + 1]]
    BY ConstantsAssumption DEF Init, IdleCall, CallStates
  <2> QED BY <2>1, <2>2, <2>3 DEF TypeOK
<1>3. ASSUME NEW r \in Runs PROVE RunInv(r)
  BY <1>3, ConstantsAssumption
  DEF Init, FreshInfo, RunInv, TableInv, RoundInv, ProcInv, ClosedInv, EndStates, StartingStates,
      BetweenStates, ProcStates, HandleStates, LiveStates, Runs, Rounds
<1>4. \A c \in Callers : CallInv(c)
  BY DEF Init, CallInv, IdleCall, StopStates
<1>5. LaunchInv
  BY DEF Init, LaunchInv, IdleCall
<1> QED BY <1>2, <1>3, <1>4, <1>5 DEF Inv

LEMMA NextInv == Inv /\ [Next]_vars => Inv'
<1> SUFFICES ASSUME Inv, [Next]_vars PROVE Inv'
  OBVIOUS
<1>0. CASE UNCHANGED vars
  BY <1>0 DEF vars, Inv, TypeOK, RunInv, TableInv, RoundInv, ProcInv, ClosedInv,
              CallInv, LaunchInv
<1>1. ASSUME NEW c \in Callers, StartNext(c) \/ StopNext(c) PROVE Inv'
  <2>1. TypeOK'
    BY <1>1, CallerTypes DEF Inv
  <2>2. CASE StartRejected(c) \/ StopRejected(c)
    BY <1>0, <2>2 DEF StartRejected, StopRejected
  <2> QED
    BY <1>1, <2>1, <2>2, CallMovesKeep, StopKillKeeps, StartInstallKeeps,
       StartLaunchKeeps, StopBeginKeeps DEF StartNext, StopNext
<1>2. ASSUME NEW r \in Runs, LoopNext(r) PROVE Inv'
  <2>1. TypeOK'
    BY <1>2, LoopStepTypes DEF Inv, RunInv
  <2> QED
    BY <1>2, <2>1, MovesKeep, KillsKeep, LoopRebuildKeeps, StartFnOkKeeps,
       LoopRegisterKeeps, ProbeTimeoutKeeps, LoopReadyKeeps, LoopCountsKeeps,
       LoopRestartKeeps,
       CloseDoneKeeps, FinishIdleKeeps
    DEF LoopNext, LaunchNext, ProbeNext, EndNext
<1>3. ASSUME NEW r \in Runs, NEW k \in Rounds, ProcessExits(r, k) PROVE Inv'
  <2>1. TypeOK'
    BY <1>3 DEF ProcessExits, Inv, TypeOK, OSStates
  <2> QED BY <1>3, <2>1, ProcessExitsKeeps
<1> QED BY <1>0, <1>1, <1>2, <1>3 DEF Next

\* The invariant holds in every reachable state.
THEOREM Invariance == Spec => []Inv
<1> QED BY InitInv, NextInv, PTL DEF Spec

\* procInfo, the channels and the callers' locals keep their types.
THEOREM TypeCorrect == Spec => []TypeOK
<1>1. Inv => TypeOK
  BY DEF Inv
<1> QED BY <1>1, Invariance, PTL

\* Two live processes are those of the current round of the one run that is
\* not over.
THEOREM AtMostOneProcess == Spec => []SingleProcess
<1>1. Inv => SingleProcess
  <2> SUFFICES ASSUME Inv, NEW r1 \in Runs, NEW r2 \in Runs,
                      NEW k1 \in Rounds, NEW k2 \in Rounds,
                      Live(r1, k1), Live(r2, k2)
               PROVE  r1 = r2 /\ k1 = k2
    BY DEF SingleProcess
  <2>1. ASSUME NEW r \in Runs, NEW k \in Rounds, Live(r, k)
        PROVE  r = cur /\ k = pi[r].done
    <3>1. TableInv(r) /\ ProcInv(r)
      BY DEF Inv, RunInv
    <3>2. k = pi[r].done /\ loop[r] \in ProcStates
      BY <2>1, <3>1 DEF ProcInv, Live, LiveStates
    <3>3. ~(r < cur) /\ ~(r > cur)
      BY <3>1, <3>2 DEF TableInv, ProcStates, HandleStates, EndStates, StartingStates
    <3>4. r \in Nat /\ cur \in Nat
      BY ConstantsAssumption DEF Inv, TypeOK, Runs
    <3> QED BY <3>2, <3>3, <3>4
  <2> QED BY <2>1
<1> QED BY <1>1, Invariance, PTL

\* A run whose state is idle is over, and then nothing of it runs.
THEOREM IdleIsDead == Spec => []IdleMeansNoProcess
<1>1. Inv => IdleMeansNoProcess
  <2> SUFFICES ASSUME Inv, cur = 0 \/ pi[cur].state = "idle",
                      NEW r \in Runs, NEW k \in Rounds, Live(r, k)
               PROVE  FALSE
    BY DEF IdleMeansNoProcess
  <2>1. TableInv(r) /\ ProcInv(r)
    BY DEF Inv, RunInv
  <2>2. loop[r] \in ProcStates
    BY <2>1 DEF ProcInv, Live, LiveStates
  <2>3. ~(r < cur) /\ ~(r > cur) /\ ~pi[r].terminated
    BY <2>1, <2>2 DEF TableInv, ProcStates, HandleStates, EndStates, StartingStates
  <2>4. r = cur /\ r # 0
    BY <2>3, ConstantsAssumption DEF Inv, TypeOK, Runs
  <2> QED BY <2>1, <2>3, <2>4 DEF TableInv
<1> QED BY <1>1, Invariance, PTL

\* No done channel is closed twice.
THEOREM NoDoubleClose == Spec => []DoneClosedOnce
<1>1. Inv => DoneClosedOnce
  <2> SUFFICES ASSUME Inv, NEW r \in Runs, loop[r] \in {"closeRound", "closeLast"},
                      <<r, pi[r].done>> \in closed
               PROVE  FALSE
    BY DEF DoneClosedOnce
  <2>1. ClosedInv(r) /\ pi[r].done \in Rounds /\ pi[r].done \in Nat
    BY InfoTypes DEF Inv, RunInv, TypeOK
  <2> QED BY <2>1 DEF ClosedInv, ClosedStates
<1> QED BY <1>1, Invariance, PTL

\* The closed channel a Stop waits on is that of a round which is over: the loop
\* is in the backoff after it or has gone on to its end, and has no process.
THEOREM DoneMeansExited == Spec => []StopDoneMeansExited
<1>1. Inv => StopDoneMeansExited
  <2> SUFFICES ASSUME Inv, NEW c \in Callers, Waiting(c),
                      <<op[c].run, op[c].done>> \in closed,
                      NEW k \in Rounds, Live(op[c].run, k)
               PROVE  FALSE
    BY DEF StopDoneMeansExited
  <2> DEFINE r == op[c].run
             d == op[c].done
  <2>1. /\ r \in Runs /\ d \in Rounds
        /\ d < pi[r].done => loop[r] \in OverStates
    BY DEF Inv, CallInv, Waiting, StopStates
  <2>2. ProcInv(r) /\ ClosedInv(r)
    BY <2>1 DEF Inv, RunInv
  <2>3. d < pi[r].done \/ loop[r] \in ClosedStates
    BY <2>1, <2>2 DEF ClosedInv
  <2>4. loop[r] \in ProcStates
    BY <2>2 DEF ProcInv, Live, LiveStates
  <2> QED BY <2>1, <2>3, <2>4 DEF OverStates, ClosedStates, ProcStates, HandleStates
<1> QED BY <1>1, Invariance, PTL

-----------------------------------------------------------------------------
(* The status column *)

\* Who has yet to write something else than "running".
Correcting == \/ \E r \in Runs : loop[r] \in {"dbrestart", "dbidle", "dbabort"}
              \/ \E c \in Callers : op[c].at = "dbstart"
DbInv ==
    /\ \A r \in Runs : loop[r] = "dbrunning" => pi[r].state = "running"
    /\ db = "running" => (cur \in Runs /\ pi[cur].state = "running") \/ Correcting

\* A step that writes nothing and announces nothing.
LEMMA DbKeeps ==
    ASSUME DbInv, cur' = cur, db' = db,
           \A r \in Runs : pi'[r].state = pi[r].state,
           \A r \in Runs : loop[r] \in {"dbrestart", "dbidle", "dbabort"} => loop'[r] = loop[r],
           \A r \in Runs : loop'[r] = "dbrunning" => loop[r] = "dbrunning",
           \A c \in Callers : op[c].at = "dbstart" => op'[c].at = "dbstart"
    PROVE  DbInv'
  BY DEF DbInv, Correcting

LEMMA DbStep ==
    ASSUME ~DbMayFail, Inv, DbInv, [Next]_vars
    PROVE  DbInv'
<1>t. /\ pi \in [Runs -> ProcInfo] /\ loop \in [Runs -> LoopStates] /\ cur \in 0 .. MaxRuns
      /\ MaxRuns \in Nat
      /\ op \in [Callers -> [at : CallStates, run : 0 .. MaxRuns,
                             p : 0 .. MaxRestarts + 1, done : 0 .. MaxRestarts + 1]]
  BY ConstantsAssumption DEF Inv, TypeOK
<1>g. \A r \in Runs : \A l : Goto(r, l) => loop'[r] = l /\ \A s \in Runs \ {r} : loop'[s] = loop[s]
  BY <1>t DEF Goto
<1>s. \A s : SetState(s) => db' = s
  BY DEF SetState
<1>c. \A r \in Runs : /\ ~pi[r].terminated /\ loop[r] # "none" => r = cur
                      /\ loop[r] \in StartingStates => pi[r].state = "starting"
                      /\ pi[r].terminated <=> loop[r] \in EndStates
  <2> SUFFICES ASSUME NEW r \in Runs
               PROVE  /\ ~pi[r].terminated /\ loop[r] # "none" => r = cur
                      /\ loop[r] \in StartingStates => pi[r].state = "starting"
                      /\ pi[r].terminated <=> loop[r] \in EndStates
    OBVIOUS
  <2>1. TableInv(r) /\ r \in Nat /\ cur \in Nat
    BY <1>t DEF Inv, RunInv, Runs
  <2> QED BY <2>1 DEF TableInv
<1>1. ASSUME NEW c \in Callers, StartNext(c) \/ StopNext(c)
      PROVE  DbInv'
  <2>1. CASE StartInstall(c)
    <3>1. /\ op'[c].at = "dbstart" /\ loop' = loop /\ db' = db
          /\ \A r \in Runs : r # cur + 1 => pi'[r] = pi[r]
      BY <1>t, <2>1 DEF StartInstall
    <3>2. cur + 1 \in Runs => loop[cur + 1] = "none"
      BY <1>t DEF Inv, RunInv, TableInv, Runs
    <3>3. \A r \in Runs : loop'[r] = "dbrunning" => pi'[r].state = "running"
      BY <3>1, <3>2 DEF DbInv
    <3> QED BY <3>1, <3>3 DEF DbInv, Correcting
  <2>2. CASE StartLaunch(c)
    <3>1. /\ op[c].at = "dbstart" /\ SetState("starting") /\ Goto(op[c].run, "top") /\ pi' = pi
      BY <2>2 DEF StartLaunch
    <3>2. PICK r : r = op[c].run
      OBVIOUS
    <3>3. r \in Runs
      BY <1>t, <3>1, <3>2 DEF Inv, CallInv, Runs
    <3>4. loop'[r] = "top" /\ (\A s \in Runs \ {r} : loop'[s] = loop[s]) /\ db' = "starting"
      BY <1>g, <1>s, <3>1, <3>2, <3>3
    <3> QED BY <3>1, <3>4 DEF DbInv
  <2>3. CASE StopBegin(c)
    <3>1. /\ op[c].at = "none" /\ UNCHANGED <<cur, db, loop>>
          /\ \A d \in Callers \ {c} : op'[d] = op[d]
          /\ pi' = [pi EXCEPT ![cur].stopReq = TRUE]
      BY <1>t, <2>3 DEF StopBegin
    <3>2. \A r \in Runs : pi'[r].state = pi[r].state
      BY <1>t, <3>1 DEF ProcInfo
    <3> QED BY <3>1, <3>2, DbKeeps
  <2>4. CASE ~StartInstall(c) /\ ~StartLaunch(c) /\ ~StopBegin(c)
    <3>1. /\ UNCHANGED <<cur, db, loop, pi>>
          /\ \/ op' = op
             \/ op[c].at # "dbstart" /\ \A d \in Callers \ {c} : op'[d] = op[d]
      BY <1>1, <1>t, <2>4
         DEF StartNext, StopNext, StartCheck, StartRejected, StartFails, StopRejected, StopHooks,
             StopDone, StopGivesUp, StopGraceOver, StopKill, Call, Return, Waiting, vars
    <3>2. \A d \in Callers : op[d].at = "dbstart" => op'[d].at = "dbstart"
      BY <3>1
    <3> QED BY <3>1, <3>2, DbKeeps
  <2> QED BY <2>1, <2>2, <2>3, <2>4
<1>2. ASSUME NEW r \in Runs, LoopNext(r)
      PROVE  DbInv'
  <2>1. CASE WriteStatus(r)
    <3>1. CASE loop[r] = "dbrunning"
      <4>1. UNCHANGED <<cur, pi>> /\ Goto(r, "wait")
        BY <2>1, <3>1 DEF WriteStatus
      <4>2. loop'[r] = "wait" /\ \A s \in Runs \ {r} : loop'[s] = loop[s]
        BY <1>g, <4>1
      <4>3. r = cur /\ pi[r].state = "running"
        BY <1>c, <3>1 DEF DbInv, EndStates
      <4> QED BY <4>1, <4>2, <4>3 DEF DbInv
    <3>2. CASE loop[r] # "dbrunning"
      <4>1. /\ UNCHANGED <<cur, pi>> /\ db' \in {"starting", "idle"}
            /\ loop'[r] \in {"consume", "closeRound", "closeLast", "exit"}
            /\ \A s \in Runs \ {r} : loop'[s] = loop[s]
        BY <1>g, <1>s, <2>1, <3>2 DEF WriteStatus
      <4> QED BY <4>1 DEF DbInv
    <3> QED BY <3>1, <3>2
  <2>2. CASE LoopReady(r)
    <3>1. /\ loop[r] = "torunning" /\ UNCHANGED <<cur, db, op>> /\ Goto(r, "dbrunning")
          /\ pi' = [pi EXCEPT ![r].state = "running"]
      BY <2>2 DEF LoopReady
    <3>2. /\ loop'[r] = "dbrunning" /\ (\A s \in Runs \ {r} : loop'[s] = loop[s])
      BY <1>g, <3>1
    <3>3. pi'[r].state = "running" /\ \A s \in Runs \ {r} : pi'[s] = pi[s]
      BY <1>t, <3>1 DEF ProcInfo
    <3>4. r = cur
      BY <1>c, <3>1 DEF EndStates
    <3> QED BY <3>1, <3>2, <3>3, <3>4 DEF DbInv
  <2>3. CASE LoopRestart(r) \/ FinishIdle(r)
    <3>1. /\ UNCHANGED <<cur, db, op>> /\ loop'[r] \in {"dbrestart", "dbidle", "dbabort"}
          /\ \A s \in Runs \ {r} : loop'[s] = loop[s] /\ pi'[s] = pi[s]
      BY <1>t, <1>g, <2>3 DEF LoopRestart, FinishIdle
    <3>2. Correcting'
      BY <3>1 DEF Correcting
    <3> QED BY <3>1, <3>2 DEF DbInv
  <2>4. CASE LoopRegister(r)
    <3>1. /\ loop[r] = "register" /\ UNCHANGED <<cur, db, op>> /\ Goto(r, "dbstarting")
          /\ pi' = [pi EXCEPT ![r].p = pi[r].done, ![r].state = "starting"]
      BY <2>4 DEF LoopRegister
    <3>2. loop'[r] = "dbstarting" /\ (\A s \in Runs \ {r} : loop'[s] = loop[s])
      BY <1>g, <3>1
    <3>3. pi'[r].state = "starting" /\ \A s \in Runs \ {r} : pi'[s] = pi[s]
      BY <1>t, <3>1 DEF ProcInfo
    <3>4. pi[r].state = "starting"
      BY <1>c, <3>1 DEF StartingStates
    <3> QED BY <3>1, <3>2, <3>3, <3>4, DbKeeps
  <2>5. CASE LoopRebuild(r) \/ ProbeTimeout(r) \/ LoopCounts(r)
    <3>1. /\ loop[r] \in {"rebuild", "probing", "count"} /\ UNCHANGED <<cur, db, op>>
          /\ loop'[r] \in {"top", "waitTimeout", "torestart"}
          /\ \A s \in Runs \ {r} : loop'[s] = loop[s]
      BY <1>g, <2>5 DEF LoopRebuild, ProbeTimeout, LoopCounts
    <3>2. \/ pi' = [pi EXCEPT ![r].done = pi[r].done + 1]
          \/ pi' = [pi EXCEPT ![r].stopReq = TRUE]
          \/ pi' = [pi EXCEPT ![r].restarts = pi[r].restarts + 1]
      BY <2>5 DEF LoopRebuild, ProbeTimeout, LoopCounts
    <3>3. CASE pi' = [pi EXCEPT ![r].done = pi[r].done + 1]
      BY <1>t, <3>1, <3>3, DbKeeps DEF ProcInfo
    <3>4. CASE pi' = [pi EXCEPT ![r].stopReq = TRUE]
      BY <1>t, <3>1, <3>4, DbKeeps DEF ProcInfo
    <3>5. CASE pi' = [pi EXCEPT ![r].restarts = pi[r].restarts + 1]
      BY <1>t, <3>1, <3>5, DbKeeps DEF ProcInfo
    <3> QED BY <3>2, <3>3, <3>4, <3>5
  <2>6. CASE \/ LoopTop(r) \/ StartFnFails(r) \/ StartFnOk(r) \/ LoopConsume(r) \/ NoProber(r)
             \/ ProbeStopped(r) \/ ProbeCall(r) \/ ProbeOk(r) \/ ProbeRetry(r) \/ LoopOver(r)
             \/ CloseDone(r) \/ BackoffOver(r) \/ BackoffAborted(r) \/ LoopCrashed(r)
             \/ LoopGivesUp(r)
    <3>1. /\ UNCHANGED <<cur, db, op, pi>>
          /\ loop[r] \notin {"dbrestart", "dbidle", "dbabort"}
          /\ \E l \in LoopStates \ {"dbrunning"} : Goto(r, l)
      BY <2>6 DEF LoopTop, StartFnFails, StartFnOk, LoopConsume, NoProber, ProbeStopped, ProbeCall,
                  ProbeOk, ProbeRetry, LoopOver, CloseDone, BackoffOver, BackoffAborted, LoopCrashed,
                  Crashed, LoopGivesUp, LoopStates
    <3>2. loop'[r] # "dbrunning" /\ \A s \in Runs \ {r} : loop'[s] = loop[s]
      BY <1>g, <3>1
    <3> QED BY <3>1, <3>2, DbKeeps
  <2> QED BY <1>2, <2>1, <2>2, <2>3, <2>4, <2>5, <2>6 DEF LoopNext, LaunchNext, ProbeNext, EndNext
<1>3. CASE (\E r \in Runs, k \in Rounds : ProcessExits(r, k)) \/ UNCHANGED vars
  <2>1. UNCHANGED <<cur, db, loop, pi, op>>
    BY <1>3 DEF ProcessExits, vars
  <2> QED BY <2>1, DbKeeps
<1> QED BY <1>1, <1>2, <1>3 DEF Next

\* A status column that says "running" is true once the UPDATEs in flight have
\* landed, provided that they succeed: whoever ends a running state, or installs
\* the next run, writes after it, and the writes of a run that is over say "idle"
\* (setState and finishIdle; main.go skips running instances).
THEOREM RunningIsTrue == ASSUME ~DbMayFail PROVE Spec => []DbRunningMeansRunning
<1>1. Init => DbInv
  BY DEF Init, DbInv
<1>2. Inv /\ DbInv /\ [Next]_vars => DbInv'
  BY DbStep
<1>3. Inv /\ DbInv => DbRunningMeansRunning
  <2> SUFFICES ASSUME Inv, DbInv, NoWritePending, db = "running"
               PROVE  cur # 0 /\ pi[cur].state = "running"
    BY DEF DbRunningMeansRunning
  <2>1. ~Correcting
    BY DEF NoWritePending, Correcting
  <2> QED BY <2>1 DEF DbInv, Runs
<1> QED BY <1>1, <1>2, <1>3, Invariance, PTL DEF Spec

-----------------------------------------------------------------------------
(* A stop during the launch *)

\* Where a run that was asked to stop in its launch is from then on.
StoppedStates == {"top", "startfn", "register", "dbstarting", "consume", "wait",
                  "finish", "dbidle", "closeLast", "exit"}
Doomed(r) == pi[r].stopReq /\ loop[r] \in StoppedStates /\ pi[r].state # "running"

LEMMA DoomedStays ==
    ASSUME Inv, [Next]_vars, NEW r \in Runs, Doomed(r)
    PROVE  Doomed(r)'
<1>t. /\ pi \in [Runs -> ProcInfo] /\ loop \in [Runs -> LoopStates] /\ cur \in 0 .. MaxRuns
  BY DEF Inv, TypeOK
<1>g. \A s \in Runs : \A l : Goto(s, l) => loop'[s] = l /\ \A u \in Runs \ {s} : loop'[u] = loop[u]
  BY <1>t DEF Goto
\* The other runs, and the callers.
<1>o. ASSUME pi'[r] = pi[r], loop'[r] = loop[r]
      PROVE  Doomed(r)'
  BY <1>o DEF Doomed
<1>1. ASSUME NEW c \in Callers, StartNext(c) \/ StopNext(c)
      PROVE  Doomed(r)'
  <2>1. CASE StartInstall(c)
    <3>1. r # cur + 1
      <4>1. loop[r] # "none"
        BY DEF Doomed, StoppedStates
      <4> QED BY <1>t, <4>1 DEF Inv, RunInv, TableInv, Runs
    <3>2. pi'[r] = pi[r] /\ loop' = loop
      BY <1>t, <2>1, <3>1 DEF StartInstall
    <3> QED BY <1>o, <3>2
  <2>2. CASE StartLaunch(c)
    <3>1. op[c].at = "dbstart" /\ Goto(op[c].run, "top") /\ pi' = pi
      BY <2>2 DEF StartLaunch
    <3>2. op[c].run \in Runs /\ loop[op[c].run] = "none"
      BY <1>t, <3>1 DEF Inv, CallInv, Runs
    <3>3. r # op[c].run
      BY <3>2 DEF Doomed, StoppedStates
    <3>4. loop'[r] = loop[r]
      BY <1>t, <3>1, <3>3 DEF Goto
    <3> QED BY <1>o, <3>1, <3>4
  <2>3. CASE StopBegin(c)
    <3>1. pi' = [pi EXCEPT ![cur].stopReq = TRUE] /\ loop' = loop
      BY <2>3 DEF StopBegin
    <3>2. pi'[r].state = pi[r].state /\ pi'[r].stopReq
      BY <1>t, <3>1 DEF ProcInfo, Doomed
    <3> QED BY <3>1, <3>2 DEF Doomed
  <2>4. CASE ~StartInstall(c) /\ ~StartLaunch(c) /\ ~StopBegin(c)
    <3>1. UNCHANGED <<loop, pi>>
      BY <1>1, <2>4
         DEF StartNext, StopNext, StartCheck, StartRejected, StartFails, StopRejected, StopHooks,
             StopDone, StopGivesUp, StopGraceOver, StopKill, vars
    <3> QED BY <1>o, <3>1
  <2> QED BY <2>1, <2>2, <2>3, <2>4
<1>2. ASSUME NEW s \in Runs, LoopNext(s), s # r
      PROVE  Doomed(r)'
  <2>1. \E l : Goto(s, l)
    BY <1>2 DEF LoopNext, LaunchNext, ProbeNext, EndNext, LoopRebuild, LoopTop, StartFnFails,
                StartFnOk, LoopRegister, LoopConsume, NoProber, ProbeStopped, ProbeCall, ProbeOk,
                ProbeRetry, ProbeTimeout, LoopReady, WriteStatus, LoopOver, LoopRestart, CloseDone,
                BackoffOver, BackoffAborted, FinishIdle, LoopCrashed, LoopGivesUp, LoopCounts
  <2>2. loop'[r] = loop[r]
    BY <1>2, <1>g, <2>1
  <2>3. pi'[r] = pi[r]
    BY <1>2, <1>t DEF LoopNext, LaunchNext, ProbeNext, EndNext, LoopRebuild, LoopTop, StartFnFails,
                StartFnOk, LoopRegister, LoopConsume, NoProber, ProbeStopped, ProbeCall, ProbeOk,
                ProbeRetry, ProbeTimeout, LoopReady, WriteStatus, LoopOver, LoopRestart, CloseDone,
                BackoffOver, BackoffAborted, FinishIdle, LoopCrashed, LoopGivesUp, LoopCounts
  <2> QED BY <1>o, <2>2, <2>3
<1>3. ASSUME LoopNext(r)
      PROVE  Doomed(r)'
  <2>0. pi[r].stopReq /\ loop[r] \in StoppedStates /\ pi[r].state # "running"
    BY DEF Doomed
  <2>1. CASE LaunchNext(r)
    <3>1. /\ loop[r] # "rebuild"
          /\ \/ UNCHANGED pi
             \/ pi' = [pi EXCEPT ![r].p = pi[r].done, ![r].state = "starting"]
          /\ \E l \in StoppedStates : Goto(r, l)
      BY <2>0, <2>1 DEF LaunchNext, LoopRebuild, LoopTop, StartFnFails, StartFnOk, LoopRegister,
                        LoopConsume, StoppedStates
    <3>2. pi'[r].stopReq /\ pi'[r].state # "running"
      BY <1>t, <2>0, <3>1 DEF ProcInfo
    <3>3. loop'[r] \in StoppedStates
      BY <1>g, <3>1
    <3> QED BY <3>2, <3>3 DEF Doomed
  <2>2. CASE ProbeNext(r)
    BY <2>0, <2>2 DEF ProbeNext, NoProber, ProbeStopped, ProbeCall, ProbeOk, ProbeRetry,
                      ProbeTimeout, LoopReady, StoppedStates
  <2>3. CASE WriteStatus(r)
    <3>1. UNCHANGED pi /\ \E l \in StoppedStates : Goto(r, l)
      BY <2>0, <2>3 DEF WriteStatus, StoppedStates
    <3> QED BY <1>g, <2>0, <3>1 DEF Doomed
  <2>4. CASE EndNext(r)
    <3>1. /\ \/ UNCHANGED pi
             \/ pi' = [pi EXCEPT ![r].state = "idle", ![r].terminated = TRUE]
          /\ \E l \in StoppedStates : Goto(r, l)
      BY <2>0, <2>4 DEF EndNext, LoopOver, LoopCrashed, LoopGivesUp, LoopCounts, LoopRestart,
                        Crashed, CloseDone, BackoffOver, BackoffAborted, FinishIdle, StoppedStates
    <3>2. pi'[r].stopReq /\ pi'[r].state # "running"
      BY <1>t, <2>0, <3>1 DEF ProcInfo
    <3> QED BY <1>g, <3>1, <3>2 DEF Doomed
  <2> QED BY <1>3, <2>1, <2>2, <2>3, <2>4 DEF LoopNext
<1>4. CASE (\E s \in Runs, k \in Rounds : ProcessExits(s, k)) \/ UNCHANGED vars
  <2>1. UNCHANGED <<loop, pi>>
    BY <1>4 DEF ProcessExits, vars
  <2> QED BY <1>o, <2>1
<1> QED BY <1>1, <1>2, <1>3, <1>4 DEF Next

\* A Stop that comes before the loop has looked at what it launched is never lost:
\* neither the probe nor a restart announces that run any more (loop: the checks of
\* stopReq before and after StartFn).
THEOREM StoppedNeverRuns == Spec => StoppedLaunchNeverRuns
<1> SUFFICES ASSUME NEW r \in Runs
             PROVE  Spec => []( /\ pi[r].stopReq
                                /\ loop[r] \in {"top", "startfn", "register", "dbstarting", "consume"}
                                => [](pi[r].state # "running") )
  BY DEF StoppedLaunchNeverRuns
<1> DEFINE Asked == /\ pi[r].stopReq
                    /\ loop[r] \in {"top", "startfn", "register", "dbstarting", "consume"}
           Silent == pi[r].state # "running"
<1>1. Inv /\ Asked => Doomed(r)
  <2> SUFFICES ASSUME Inv, Asked PROVE Doomed(r)
    OBVIOUS
  <2>1. TableInv(r)
    BY DEF Inv, RunInv
  <2> QED BY <2>1 DEF TableInv, StartingStates, Doomed, StoppedStates
<1>2. Inv /\ Doomed(r) /\ [Next]_vars => Doomed(r)'
  BY DoomedStays
<1>3. Doomed(r) => Silent
  BY DEF Doomed
<1> HIDE DEF Asked, Silent, Doomed
<1>4. Spec => [](Asked => []Silent)
  BY <1>1, <1>2, <1>3, Invariance, PTL DEF Spec
<1> QED BY <1>4 DEF Asked, Silent

-----------------------------------------------------------------------------
(* The supervisor implements the lifecycle *)

LifecycleVars == <<Phase, Server, StopAsked, Restarts>>

\* A step that leaves the procInfo of the run in the table alone, finds no crash
\* and settles none, and lets no process appear or go, is no step of the lifecycle.
LEMMA Stutter ==
    ASSUME Inv, Inv', cur' = cur, cur # 0 => pi'[cur] = pi[cur],
           cur # 0 => (loop'[cur] = "count" <=> loop[cur] = "count"),
           \A k \in Rounds : cur # 0 =>
               /\ os'[cur][k] \in LiveStates <=> os[cur][k] \in LiveStates
               /\ os'[cur][k] = "none" <=> os[cur][k] = "none"
    PROVE  UNCHANGED LifecycleVars
<1>1. CASE cur = 0
  BY <1>1 DEF LifecycleVars, Phase, Server, StopAsked, Restarts
<1>2. CASE cur # 0
  <2>1. cur \in Runs /\ pi[cur].done \in Rounds
    <3>1. cur \in Runs /\ pi \in [Runs -> ProcInfo]
      BY <1>2, ConstantsAssumption DEF Inv, TypeOK, Runs
    <3> QED BY <3>1, InfoTypes
  <2>2. /\ os[cur][pi[cur].done] \in OSStates
        /\ os'[cur][pi[cur].done] \in OSStates
    BY <2>1 DEF Inv, TypeOK
  <2>3. UNCHANGED Server
    BY <1>2, <2>1, <2>2 DEF Server, Live, Exited, OSStates, LiveStates
  <2> QED BY <1>2, <2>3 DEF LifecycleVars, Phase, StopAsked, Restarts
<1> QED BY <1>1, <1>2

\* What the lifecycle sees of the run in the table.
SeenInv ==
    cur # 0 =>
           /\ cur \in Runs /\ pi[cur].done \in Rounds
           /\ Phase = pi[cur].state /\ Restarts = pi[cur].restarts
           /\ StopAsked = pi[cur].stopReq
           /\ pi[cur].done # pi[cur].restarts + 1 => Server = "none"
           /\ pi[cur].done = pi[cur].restarts + 1 =>
                 Server = IF loop[cur] = "count" THEN "crashed"
                          ELSE IF os[cur][pi[cur].done] \in LiveStates THEN "live"
                          ELSE IF os[cur][pi[cur].done] = "none" THEN "none"
                          ELSE "gone"
           /\ RunInv(cur)

LEMMA Seen == Inv => SeenInv
<1> SUFFICES ASSUME Inv, cur # 0 PROVE SeenInv
  BY DEF SeenInv
<1>1. cur \in Runs /\ pi[cur].done \in Rounds
  <2>1. cur \in Runs /\ pi \in [Runs -> ProcInfo]
    BY ConstantsAssumption DEF Inv, TypeOK, Runs
  <2> QED BY <2>1, InfoTypes
<1>2. os[cur][pi[cur].done] \in OSStates
  BY <1>1 DEF Inv, TypeOK
<1> QED
  BY <1>1, <1>2
  DEF SeenInv, Phase, Restarts, StopAsked, Server, Live, Exited, OSStates, LiveStates, Inv

\* A loop that changes something the lifecycle sees is that of the table's run.
LEMMA OldRunsAreOver ==
    ASSUME Inv, NEW r \in Runs, loop[r] # "none", loop[r] \notin EndStates
    PROVE  r = cur /\ cur # 0
<1>1. TableInv(r)
  BY DEF Inv, RunInv
<1>2. cur \in Nat /\ r \in Nat /\ r # 0
  BY ConstantsAssumption DEF Inv, TypeOK, Runs
<1> QED BY <1>1, <1>2 DEF TableInv

LEMMA StopImplements ==
    ASSUME Inv, Inv', NEW c \in Callers, StopBegin(c)
    PROVE  Lifecycle!AskStop
<1>1. cur # 0 /\ cur' = cur /\ os' = os /\ loop' = loop /\ ~pi[cur].terminated
  BY DEF StopBegin, Terminated
<1>2. cur \in Runs /\ RunInv(cur) /\ Phase = pi[cur].state
  BY <1>1, Seen DEF SeenInv
<1>3. /\ pi'[cur].state = pi[cur].state /\ pi'[cur].restarts = pi[cur].restarts
      /\ pi'[cur].done = pi[cur].done /\ pi'[cur].stopReq = TRUE
  BY <1>2 DEF StopBegin, Inv, TypeOK, ProcInfo
<1>4. Phase # "idle"
  BY <1>1, <1>2 DEF RunInv, TableInv
<1> QED
  BY <1>1, <1>3, <1>4
  DEF Lifecycle!AskStop, Phase, Server, StopAsked, Restarts, Live, Exited

LEMMA InstallImplements ==
    ASSUME Inv, Inv', NEW c \in Callers, StartInstall(c)
    PROVE  Lifecycle!Begin
<1>1. PICK n \in Runs : n = cur + 1 /\ cur' = n /\ n # 0
  BY ConstantsAssumption DEF StartInstall, Inv, TypeOK, Runs
<1>2. PICK auto \in BOOLEAN : pi' = [pi EXCEPT ![n] = FreshInfo(auto)]
  BY <1>1 DEF StartInstall
<1>3. /\ pi'[n].state = "starting" /\ pi'[n].restarts = 0
      /\ pi'[n].stopReq = FALSE /\ pi'[n].done = 1
  BY <1>2 DEF Inv, TypeOK, FreshInfo
<1>4. os'[n][1] = "none"
  <2>1. cur \in Nat
    BY ConstantsAssumption DEF Inv, TypeOK
  <2>2. loop'[n] = "none"
    BY <1>1, <2>1 DEF Inv, RunInv, TableInv, StartInstall
  <2>3. 1 \in Rounds
    BY ConstantsAssumption DEF Rounds
  <2> QED BY <1>3, <2>2, <2>3 DEF Inv, RunInv, ProcInv
<1>c. loop'[n] # "count"
  BY <1>1 DEF StartInstall, Inv, RunInv, TableInv, TypeOK, Runs
<1>5. Phase' = "starting" /\ Server' = "none" /\ StopAsked' = FALSE /\ Restarts' = 0
  BY <1>1, <1>3, <1>4, <1>c DEF Phase, Server, StopAsked, Restarts, Live, Exited
<1>6. Phase = "idle" /\ Server # "live"
  <2>1. CASE cur = 0
    BY <2>1 DEF Phase, Server
  <2>2. CASE cur # 0
    <3>1. pi[cur].terminated /\ RunInv(cur) /\ Phase = pi[cur].state /\ pi[cur].done \in Rounds
      BY <2>2, Seen DEF SeenInv, StartInstall, Terminated
    <3>2. os[cur][pi[cur].done] \notin LiveStates
      BY <3>1 DEF RunInv, TableInv, ProcInv, EndStates, ProcStates, HandleStates
    <3> QED BY <2>2, <3>1, <3>2 DEF RunInv, TableInv, Server, Live, LiveStates
  <2> QED BY <2>1, <2>2
<1> QED BY <1>5, <1>6 DEF Lifecycle!Begin

\* A server that exits is that of the table's run, in its current round.
LEMMA ExitImplements ==
    ASSUME Inv, Inv', NEW r \in Runs, NEW k \in Rounds, ProcessExits(r, k)
    PROVE  Lifecycle!Gone
<1>1. TableInv(r) /\ RoundInv(r) /\ ProcInv(r)
  BY DEF Inv, RunInv
<1>2. loop[r] \in ProcStates /\ k = pi[r].done
  BY <1>1 DEF ProcessExits, Live, ProcInv, LiveStates
<1>3. r = cur /\ cur # 0
  BY <1>2, OldRunsAreOver DEF ProcStates, HandleStates, EndStates
<1>4. pi[cur].done = pi[cur].restarts + 1
  BY <1>1, <1>2, <1>3 DEF RoundInv, ProcStates, HandleStates, BetweenStates
<1>5. /\ Live(cur, pi[cur].done)
      /\ os'[cur][pi[cur].done] \in {"exit0", "exitErr"}
      /\ cur' = cur /\ pi' = pi /\ loop' = loop /\ loop[cur] # "count"
  BY <1>2, <1>3 DEF ProcStates, ProcessExits, Inv, TypeOK
<1>6. Server = "live" /\ Server' = "gone"
  BY <1>3, <1>4, <1>5 DEF Server, Live, Exited
<1> QED
  BY <1>5, <1>6 DEF Lifecycle!Gone, Phase, StopAsked, Restarts

\* The steps of the loops the lifecycle does not see.
LEMMA LoopStutters ==
    ASSUME Inv, Inv', NEW r \in Runs,
           \/ LoopTop(r) \/ StartFnFails(r) \/ NoProber(r) \/ ProbeCall(r)
           \/ ProbeOk(r) \/ ProbeRetry(r) \/ WriteStatus(r) \/ LoopOver(r)
           \/ BackoffOver(r) \/ BackoffAborted(r) \/ CloseDone(r)
           \/ LoopConsume(r) \/ ProbeStopped(r)
    PROVE  UNCHANGED LifecycleVars
<1>1. cur' = cur /\ pi' = pi
  BY DEF LoopTop, StartFnFails, NoProber, ProbeCall, ProbeOk, ProbeRetry,
         WriteStatus, LoopOver, BackoffOver, BackoffAborted, CloseDone,
         LoopConsume, ProbeStopped
<1>2. os' = os \/ Killer(r, pi[r].done)
  BY DEF LoopTop, StartFnFails, NoProber, ProbeCall, ProbeOk, ProbeRetry,
         WriteStatus, LoopOver, BackoffOver, BackoffAborted, CloseDone,
         LoopConsume, ProbeStopped
<1>3. /\ pi[r].done \in Rounds
      /\ os \in [Runs -> [Rounds -> OSStates]]
      /\ cur # 0 => cur \in Runs
  <2>1. pi \in [Runs -> ProcInfo] /\ os \in [Runs -> [Rounds -> OSStates]]
    BY DEF Inv, TypeOK
  <2>2. cur # 0 => cur \in Runs
    BY ConstantsAssumption DEF Inv, TypeOK, Runs
  <2> QED BY <2>1, <2>2, InfoTypes
<1>4. \A s \in Runs, k \in Rounds :
          /\ os'[s][k] \in LiveStates <=> os[s][k] \in LiveStates
          /\ os'[s][k] = "none" <=> os[s][k] = "none"
  BY <1>2, <1>3, KillerKeeps
<1>5. loop[r] # "count" /\ \E l : l # "count" /\ Goto(r, l)
  BY DEF LoopTop, StartFnFails, NoProber, ProbeCall, ProbeOk, ProbeRetry,
         WriteStatus, LoopOver, BackoffOver, BackoffAborted, CloseDone,
         LoopConsume, ProbeStopped
<1>6. \A s \in Runs : loop'[s] = "count" <=> loop[s] = "count"
  BY <1>5 DEF Goto, Inv, TypeOK
<1> QED BY <1>1, <1>3, <1>4, <1>6, Stutter

\* The steps of the loops the lifecycle sees.
LEMMA LoopImplements ==
    ASSUME Inv, Inv', NEW r \in Runs, r = cur, cur # 0,
           \/ LoopRebuild(r) \/ StartFnOk(r) \/ LoopRegister(r)
           \/ ProbeTimeout(r) \/ LoopReady(r) \/ LoopCrashed(r) \/ LoopGivesUp(r)
           \/ LoopCounts(r) \/ LoopRestart(r) \/ FinishIdle(r)
    PROVE  Lifecycle!Next \/ UNCHANGED LifecycleVars
<1>1. SeenInv /\ SeenInv'
  BY Seen, PTL
<1>2. cur' = cur
  BY DEF LoopRebuild, StartFnOk, LoopRegister, ProbeTimeout, LoopReady,
         LoopCrashed, LoopGivesUp, LoopCounts, LoopRestart, FinishIdle
<1>3. TypeOK /\ TableInv(r) /\ RoundInv(r) /\ ProcInv(r)
  BY DEF Inv, RunInv
<1>4. /\ pi[r].done \in Rounds /\ pi[r].done \in Nat /\ pi[r].restarts \in Nat
      /\ pi \in [Runs -> ProcInfo]
  BY <1>3, InfoTypes DEF TypeOK
<1>n. ASSUME \/ LoopRebuild(r) \/ StartFnOk(r) \/ LoopRegister(r)
             \/ ProbeTimeout(r) \/ LoopReady(r) \/ FinishIdle(r)
      PROVE  loop[r] # "count" /\ loop'[r] # "count"
  BY <1>3, <1>n DEF LoopRebuild, StartFnOk, LoopRegister, ProbeTimeout, LoopReady,
                    FinishIdle, Goto, TypeOK
<1>5. CASE LoopRebuild(r)
  <2>1. /\ pi'[r].state = pi[r].state /\ pi'[r].restarts = pi[r].restarts
        /\ pi'[r].stopReq = pi[r].stopReq
        /\ pi'[r].done = pi[r].restarts + 1 /\ pi[r].done # pi[r].restarts + 1
        /\ os' = os
    BY <1>3, <1>4, <1>5 DEF LoopRebuild, TypeOK, ProcInfo, RoundInv, BetweenStates
  <2>2. loop'[r] = "top"
    BY <1>3, <1>5 DEF LoopRebuild, Goto, TypeOK
  <2>3. os'[r][pi'[r].done] = "none"
    BY <1>1, <1>2, <2>2 DEF SeenInv, RunInv, ProcInv
  <2> QED
    BY <1>1, <1>2, <1>5, <1>n, <2>1, <2>3 DEF SeenInv, LifecycleVars, LiveStates
<1>6. CASE StartFnOk(r)
  <2>1. pi' = pi /\ pi[r].done = pi[r].restarts + 1 /\ pi[r].state = "starting"
    BY <1>3, <1>6 DEF StartFnOk, RoundInv, BetweenStates, TableInv, StartingStates
  <2>2. os[r][pi[r].done] = "none" /\ os'[r][pi[r].done] = "alive"
    BY <1>3, <1>4, <1>6 DEF StartFnOk, ProcInv, TypeOK
  <2>3. Lifecycle!Launch
    BY <1>1, <1>2, <1>6, <1>n, <2>1, <2>2 DEF SeenInv, Lifecycle!Launch, LiveStates
  <2> QED BY <2>3 DEF Lifecycle!Next
<1>7. CASE LoopRegister(r)
  <2>1. /\ pi'[r].state = pi[r].state /\ pi'[r].restarts = pi[r].restarts
        /\ pi'[r].stopReq = pi[r].stopReq /\ pi'[r].done = pi[r].done
        /\ os' = os
    BY <1>3, <1>7 DEF LoopRegister, TypeOK, ProcInfo, TableInv, StartingStates
  <2> QED BY <1>1, <1>2, <1>7, <1>n, <2>1 DEF SeenInv, LifecycleVars
<1>8. CASE ProbeTimeout(r)
  <2>1. /\ pi'[r].state = pi[r].state /\ pi'[r].restarts = pi[r].restarts
        /\ pi'[r].stopReq = TRUE /\ pi'[r].done = pi[r].done
        /\ pi[r].state = "starting"
    BY <1>3, <1>8 DEF ProbeTimeout, TypeOK, ProcInfo, TableInv, StartingStates
  <2>2. /\ os'[r][pi[r].done] \in LiveStates <=> os[r][pi[r].done] \in LiveStates
        /\ os'[r][pi[r].done] = "none" <=> os[r][pi[r].done] = "none"
    BY <1>3, <1>4, <1>8, KillerKeeps DEF ProbeTimeout, TypeOK
  <2>3. Lifecycle!AskStop
    BY <1>1, <1>2, <1>8, <1>n, <2>1, <2>2 DEF SeenInv, Lifecycle!AskStop
  <2> QED BY <2>3 DEF Lifecycle!Next
<1>9. CASE LoopReady(r)
  <2>1. /\ pi'[r].state = "running" /\ pi'[r].restarts = pi[r].restarts
        /\ pi'[r].stopReq = pi[r].stopReq /\ pi'[r].done = pi[r].done
        /\ os' = os /\ pi[r].state = "starting"
    BY <1>3, <1>9 DEF LoopReady, TypeOK, ProcInfo, TableInv, StartingStates
  <2>2. os[r][pi[r].done] # "none" /\ pi[r].done = pi[r].restarts + 1
    BY <1>3, <1>4, <1>9 DEF LoopReady, ProcInv, RoundInv, ProcStates, HandleStates, BetweenStates
  <2>3. Lifecycle!Ready
    BY <1>1, <1>2, <1>9, <1>n, <2>1, <2>2 DEF SeenInv, Lifecycle!Ready
  <2> QED BY <2>3 DEF Lifecycle!Next
<1>10. CASE LoopCrashed(r)
  <2>1. /\ pi' = pi /\ os' = os /\ ~pi[r].stopReq
        /\ os[r][pi[r].done] = "exitErr" /\ loop[r] = "wait" /\ loop'[r] = "count"
    BY <1>3, <1>10 DEF LoopCrashed, Crashed, Goto, TypeOK
  <2>2. pi[r].done = pi[r].restarts + 1 /\ pi[r].state # "idle"
    BY <1>3, <2>1 DEF RoundInv, BetweenStates, TableInv, EndStates
  <2>3. Server = "gone" /\ Server' = "crashed"
    BY <1>1, <1>2, <2>1, <2>2 DEF SeenInv, LiveStates
  <2>4. Lifecycle!Crash
    BY <1>1, <1>2, <2>1, <2>2, <2>3 DEF SeenInv, Lifecycle!Crash
  <2> QED BY <2>4 DEF Lifecycle!Next
<1>11. CASE LoopGivesUp(r)
  <2>1. /\ pi' = pi /\ os' = os /\ pi[r].restarts >= MaxRestarts
        /\ loop[r] = "count" /\ loop'[r] = "finish"
    BY <1>3, <1>11 DEF LoopGivesUp, Goto, TypeOK
  <2>2. pi[r].done = pi[r].restarts + 1
    BY <1>3, <2>1 DEF RoundInv, BetweenStates
  <2>3. os[r][pi[r].done] # "none" /\ os[r][pi[r].done] \notin LiveStates
    BY <1>3, <1>4, <2>1 DEF ProcInv, RoundInv, ProcStates, HandleStates
  <2>4. Server = "crashed" /\ Server' = "gone"
    BY <1>1, <1>2, <2>1, <2>2, <2>3 DEF SeenInv, LiveStates
  <2>5. Lifecycle!GiveUp
    BY <1>1, <1>2, <2>1, <2>2, <2>4 DEF SeenInv, Lifecycle!GiveUp
  <2> QED BY <2>5 DEF Lifecycle!Next
<1>12. CASE LoopCounts(r)
  <2>1. /\ pi'[r].state = pi[r].state /\ pi'[r].restarts = pi[r].restarts + 1
        /\ pi'[r].stopReq = pi[r].stopReq /\ pi'[r].done = pi[r].done
        /\ os' = os /\ pi[r].restarts < MaxRestarts /\ loop[r] = "count"
    BY <1>3, <1>12 DEF LoopCounts, TypeOK, ProcInfo
  <2>2. pi[r].done = pi[r].restarts + 1 /\ pi[r].state # "idle"
    BY <1>3, <2>1 DEF RoundInv, BetweenStates, TableInv, EndStates
  <2>3. pi'[r].done # pi'[r].restarts + 1
    BY <1>4, <2>1, <2>2
  <2>4. Server = "crashed" /\ Server' = "none"
    BY <1>1, <1>2, <2>1, <2>2, <2>3 DEF SeenInv
  <2>5. Lifecycle!Restart
    BY <1>1, <1>2, <2>1, <2>2, <2>4 DEF SeenInv, Lifecycle!Restart
  <2> QED BY <2>5 DEF Lifecycle!Next
<1>13. CASE LoopRestart(r)
  <2>1. /\ pi'[r].state = "starting" /\ pi'[r].restarts = pi[r].restarts
        /\ pi'[r].stopReq = pi[r].stopReq /\ pi'[r].done = pi[r].done
        /\ os' = os /\ loop[r] = "torestart"
    BY <1>3, <1>13 DEF LoopRestart, TypeOK, ProcInfo
  <2>2. pi[r].done # pi[r].restarts + 1 /\ pi[r].state \in {"starting", "running"}
    <3>1. pi[r].done = pi[r].restarts /\ pi[r].state # "idle"
      BY <1>3, <2>1 DEF RoundInv, BetweenStates, TableInv, EndStates
    <3>2. pi[r].state \in States
      BY <1>4 DEF ProcInfo
    <3> QED BY <1>4, <3>1, <3>2 DEF States
  <2>3. Server = "none" /\ Server' = "none"
    BY <1>1, <1>2, <2>1, <2>2 DEF SeenInv
  <2>4. CASE pi[r].state = "starting"
    BY <1>1, <1>2, <2>1, <2>3, <2>4 DEF SeenInv, LifecycleVars
  <2>5. CASE pi[r].state = "running"
    <3>1. Lifecycle!StartAgain
      BY <1>1, <1>2, <2>1, <2>3, <2>5 DEF SeenInv, Lifecycle!StartAgain
    <3> QED BY <3>1 DEF Lifecycle!Next
  <2> QED BY <2>2, <2>4, <2>5
<1>14. CASE FinishIdle(r)
  <2>1. /\ pi'[r].state = "idle" /\ pi'[r].restarts = pi[r].restarts
        /\ pi'[r].stopReq = pi[r].stopReq /\ pi'[r].done = pi[r].done
        /\ os' = os
    BY <1>3, <1>14 DEF FinishIdle, TypeOK, ProcInfo
  <2>2. pi[r].state # "idle" /\ os[r][pi[r].done] \notin LiveStates
    BY <1>3, <1>4, <1>14 DEF FinishIdle, TableInv, ProcInv, EndStates, ProcStates, HandleStates
  <2>3. Lifecycle!End
    BY <1>1, <1>2, <1>14, <1>n, <2>1, <2>2 DEF SeenInv, Lifecycle!End
  <2> QED BY <2>3 DEF Lifecycle!Next
<1> QED
  BY <1>5, <1>6, <1>7, <1>8, <1>9, <1>10, <1>11, <1>12, <1>13, <1>14

\* Every history of the supervisor is one of the lifecycle.
THEOREM Refinement == Spec => ImplementsLifecycle
<1>1. Init => Lifecycle!Init
  BY DEF Init, Lifecycle!Init, Phase, Server, StopAsked, Restarts
<1>2. Inv /\ Inv' /\ [Next]_vars => [Lifecycle!Next]_(Lifecycle!vars)
  <2>v. LifecycleVars = Lifecycle!vars /\ LifecycleVars' = Lifecycle!vars'
    BY DEF LifecycleVars, Lifecycle!vars
  <2> SUFFICES ASSUME Inv, Inv', [Next]_vars
               PROVE  Lifecycle!Next \/ UNCHANGED LifecycleVars
    BY <2>v
  <2>0. CASE UNCHANGED vars
    BY <2>0 DEF vars, LifecycleVars, Phase, Server, StopAsked, Restarts, Live, Exited
  <2>1. ASSUME NEW c \in Callers, StartNext(c) \/ StopNext(c)
        PROVE  Lifecycle!Next \/ UNCHANGED LifecycleVars
    <3>1. CASE StartInstall(c)
      BY <3>1, InstallImplements DEF Lifecycle!Next
    <3>2. CASE StopBegin(c)
      BY <3>2, StopImplements DEF Lifecycle!Next
    <3>3. CASE StopKill(c)
      <4>1. cur' = cur /\ pi' = pi /\ op[c].at = "kill" /\ Killer(op[c].run, op[c].p)
        BY <3>3 DEF StopKill
      <4>2. op[c].run \in Runs /\ op[c].p \in Rounds
        BY <4>1, ConstantsAssumption DEF Inv, TypeOK, CallInv, StopStates, Rounds
      <4>3. cur # 0 => cur \in Runs
        BY ConstantsAssumption DEF Inv, TypeOK, Runs
      <4>4. \A s \in Runs, k \in Rounds :
                /\ os'[s][k] \in LiveStates <=> os[s][k] \in LiveStates
                /\ os'[s][k] = "none" <=> os[s][k] = "none"
        BY <4>1, <4>2, KillerKeeps DEF Inv, TypeOK
      <4>5. loop' = loop
        BY <3>3 DEF StopKill
      <4> QED BY <4>1, <4>3, <4>4, <4>5, Stutter
    <3>4. CASE StartLaunch(c)
      <4>1. /\ cur' = cur /\ pi' = pi /\ os' = os /\ Goto(op[c].run, "top")
            /\ op[c].at = "dbstart"
        BY <3>4 DEF StartLaunch
      <4>2. op[c].run = cur /\ cur # 0 /\ loop[cur] = "none" /\ cur \in Runs
        BY <4>1, ConstantsAssumption DEF Inv, TypeOK, CallInv, Runs
      <4>3. loop'[cur] = "top"
        BY <4>1, <4>2 DEF Goto, Inv, TypeOK
      <4> QED BY <4>1, <4>2, <4>3, Stutter
    <3>5. CASE cur' = cur /\ pi' = pi /\ os' = os /\ loop' = loop
      BY <3>5 DEF LifecycleVars, Phase, Server, StopAsked, Restarts, Live, Exited
    <3> QED
      BY <2>1, <3>1, <3>2, <3>3, <3>4, <3>5
      DEF StartNext, StopNext, StartCheck, StartRejected, StartFails,
          StopRejected, StopHooks, StopDone, StopGivesUp, StopGraceOver, vars
  <2>2. ASSUME NEW r \in Runs, LoopNext(r)
        PROVE  Lifecycle!Next \/ UNCHANGED LifecycleVars
    <3>1. CASE \/ LoopRebuild(r) \/ StartFnOk(r) \/ LoopRegister(r)
               \/ ProbeTimeout(r) \/ LoopReady(r) \/ LoopCrashed(r) \/ LoopGivesUp(r)
               \/ LoopCounts(r) \/ LoopRestart(r) \/ FinishIdle(r)
      <4>1. loop[r] # "none" /\ loop[r] \notin EndStates
        BY <3>1 DEF LoopRebuild, StartFnOk, LoopRegister, ProbeTimeout, LoopReady,
                    LoopCrashed, LoopGivesUp, LoopCounts, LoopRestart, Crashed, FinishIdle,
                    EndStates
      <4> QED BY <3>1, <4>1, OldRunsAreOver, LoopImplements
    <3>2. CASE ~( \/ LoopRebuild(r) \/ StartFnOk(r) \/ LoopRegister(r)
                  \/ ProbeTimeout(r) \/ LoopReady(r) \/ LoopCrashed(r) \/ LoopGivesUp(r)
                  \/ LoopCounts(r) \/ LoopRestart(r) \/ FinishIdle(r))
      BY <2>2, <3>2, LoopStutters DEF LoopNext, LaunchNext, ProbeNext, EndNext
    <3> QED BY <3>1, <3>2
  <2>3. ASSUME NEW r \in Runs, NEW k \in Rounds, ProcessExits(r, k)
        PROVE  Lifecycle!Next \/ UNCHANGED LifecycleVars
    BY <2>3, ExitImplements DEF Lifecycle!Next
  <2> QED BY <2>0, <2>1, <2>2, <2>3 DEF Next
<1> QED
  BY <1>1, <1>2, Invariance, PTL DEF Spec, ImplementsLifecycle, Lifecycle!Spec
=============================================================================
