---------------------------- MODULE PanelOpsProofs ----------------------------
(***************************************************************************)
(* Machine-checked facts about PanelOps, for any number of requests at a    *)
(* time, with restarts, installs and stops that give up: the types of its   *)
(* variables; that no job works under a running server, and that the jobs   *)
(* of an instance work one at a time and never on one that was deleted, but *)
(* for what was let in by an answer that was out of date, by the restart    *)
(* button or by a stop that gave up.  The excuses of PanelOps record those, *)
(* so the proofs show that there is no other way.                           *)
(***************************************************************************)
EXTENDS PanelOps, TLAPS, SequenceTheorems

-----------------------------------------------------------------------------
(* The inductive invariant *)

\* The kinds a handler asks for in all.
Asked(op) == Left(Checks(op))

\* A kind that a request has asked for has no job, unless one began since; and the
\* places a request can be at.
ReqInv ==
    \A c \in Callers :
        /\ req[c].at # "none" => req[c].op \in AllOps
        /\ req[c].at = "check" =>
               /\ req[c].todo # <<>>
               /\ (Asked(req[c].op) \ Left(req[c].todo)) \cap slots \subseteq req[c].late
        /\ req[c].at \notin {"none", "check"} =>
               /\ req[c].todo = <<>>
               /\ Asked(req[c].op) \cap slots \subseteq req[c].late
        /\ req[c].at \in {"stop", "stopping"} => req[c].op \in {"stop", "timedRestart", "restart"}
        /\ req[c].at = "start" => req[c].op \in {"start", "timedRestart", "restart"}
        /\ req[c].at = "job" => req[c].op \in Kinds
        /\ req[c].at = "delete" => req[c].op = "delete"

\* The steps of each kind of job.
StepsOf(k) ==
    CASE k = "update"  -> {"none", "checkRestore", "checkBackup", "status", "stop",
                           "stopping", "packing", "installing"}
      [] k = "restore" -> {"none", "verify", "packing", "stop", "stopping", "unpacking"}
      [] k = "backup"  -> {"none", "packing"}
      [] k = "install" -> {"none", "installing"}

\* A key is taken while its job's function runs; of two jobs that exclude each
\* other one was let in by an answer that was out of date.
JobInv ==
    /\ \A k \in Kinds : task[k].at \in StepsOf(k) /\ (k \in slots <=> task[k].at # "none")
    /\ "restore" \in slots /\ "backup" \in slots =>
           "restore" \in excuse["backup"] \/ "backup" \in excuse["restore"]
    /\ task["update"].at \notin {"none", "checkRestore"} /\ "restore" \in slots =>
           "update" \in excuse["restore"]
    /\ task["update"].at \notin {"none", "checkRestore", "checkBackup"} /\ "backup" \in slots =>
           "update" \in excuse["backup"]

\* No server lives between runs or in a run that was aborted; a job that waits
\* waits for the run there is, and one that replaces files has seen it end.
Still == phase = "idle" \/ aborted
ServerInv ==
    /\ phase = "idle" => server # "live"
    /\ aborted => server # "live"
    /\ \A k \in Kinds : task[k].at = "stopping" => task[k].run = run \/ "start" \in excuse[k]
    /\ task["update"].at \in {"packing", "installing"} =>
           Still \/ excuse["update"] \cap {"start", "stop"} # {}
    /\ task["restore"].at = "unpacking" =>
           Still \/ excuse["restore"] \cap {"start", "stop"} # {}

JobsInv == TypeOK /\ ReqInv /\ JobInv /\ NoJobOnDeleted
Inv == JobsInv /\ ServerInv

-----------------------------------------------------------------------------
(* Lemmas about the operators *)

LEMMA LeftTail ==
    ASSUME NEW todo \in Seq(Kinds), todo # <<>>
    PROVE  /\ Tail(todo) \in Seq(Kinds) /\ Head(todo) \in Kinds
           /\ Left(todo) = {Head(todo)} \cup Left(Tail(todo))
<1>1. /\ Len(todo) \in Nat /\ Len(todo) >= 1 /\ todo[1] = Head(todo)
      /\ Tail(todo) \in Seq(Kinds) /\ Len(Tail(todo)) = Len(todo) - 1
      /\ \A i \in 1 .. Len(todo) : todo[i] \in Kinds
      /\ \A i \in 1 .. Len(todo) - 1 : Tail(todo)[i] = todo[i + 1]
  OBVIOUS
<1>2. ASSUME NEW k \in Left(todo)
      PROVE  k \in {Head(todo)} \cup Left(Tail(todo))
  <2>1. PICK i \in 1 .. Len(todo) : k = todo[i]
    BY <1>2 DEF Left
  <2>2. CASE i = 1
    BY <1>1, <2>1, <2>2
  <2>3. CASE i # 1
    <3>1. i - 1 \in 1 .. Len(Tail(todo)) /\ Tail(todo)[i - 1] = todo[i]
      BY <1>1, <2>1, <2>3
    <3> QED BY <2>1, <3>1 DEF Left
  <2> QED BY <2>2, <2>3
<1>3. ASSUME NEW k \in {Head(todo)} \cup Left(Tail(todo))
      PROVE  k \in Left(todo)
  <2>1. CASE k = Head(todo)
    BY <1>1, <2>1 DEF Left
  <2>2. CASE k \in Left(Tail(todo))
    <3>1. PICK i \in 1 .. Len(Tail(todo)) : k = Tail(todo)[i]
      BY <2>2 DEF Left
    <3>2. i + 1 \in 1 .. Len(todo) /\ k = todo[i + 1]
      BY <1>1, <3>1
    <3> QED BY <3>2 DEF Left
  <2> QED BY <1>3, <2>1, <2>2
<1>4. Head(todo) \in Kinds
  BY <1>1
<1> QED BY <1>1, <1>2, <1>3, <1>4

LEMMA LeftNone == Left(<<>>) = {}
  BY DEF Left

\* What each operation asks for.
LEMMA ChecksTyped == \A op : Checks(op) \in Seq(Kinds)
<1> DEFINE u == "update"
           r == "restore"
           b == "backup"
<1>1. u \in Kinds /\ r \in Kinds /\ b \in Kinds
  BY DEF Kinds
<1> HIDE DEF u, r, b
<1>2. /\ <<u, r>> \in Seq(Kinds) /\ <<r, u>> \in Seq(Kinds) /\ <<u, b>> \in Seq(Kinds)
      /\ <<b, r, u>> \in Seq(Kinds) /\ <<>> \in Seq(Kinds)
  BY <1>1
<1> USE DEF u, r, b
<1> QED BY <1>2 DEF Checks

LEMMA AskedOfAll ==
    /\ {"update", "restore"} \subseteq Asked("start")
    /\ {"update", "restore"} \subseteq Asked("timedRestart")
    /\ {"update", "restore"} \subseteq Asked("backup")
    /\ {"update", "backup"} \subseteq Asked("restore")
    /\ {"backup", "restore", "update"} \subseteq Asked("delete")
<1>1. /\ Checks("start") = <<"update", "restore">>
      /\ Checks("timedRestart") = <<"restore", "update">>
      /\ Checks("backup") = <<"restore", "update">>
      /\ Checks("restore") = <<"update", "backup">>
      /\ Checks("delete") = <<"backup", "restore", "update">>
  BY DEF Checks
<1>2. \A a, b : a \in Left(<<a, b>>) /\ b \in Left(<<a, b>>)
  BY DEF Left
<1>3. \A a, b, c : a \in Left(<<a, b, c>>) /\ b \in Left(<<a, b, c>>) /\ c \in Left(<<a, b, c>>)
  BY DEF Left
<1> QED BY <1>1, <1>2, <1>3 DEF Asked

-----------------------------------------------------------------------------
(* Types *)

TaskType == [at : TaskSteps, run : 0 .. MaxRuns]
ReqType  == [op : AllOps \cup {"none"}, at : ReqSteps, todo : Seq(Kinds), run : 0 .. MaxRuns,
             late : SUBSET Kinds]

LEMMA BlankTypes == NoTask \in TaskType /\ NoReq \in ReqType
  BY PanelOpsAssumption DEF NoTask, NoReq, TaskType, ReqType, TaskSteps, ReqSteps

LEMMA TypeFacts ==
    ASSUME TypeOK
    PROVE  /\ task \in [Kinds -> TaskType] /\ req \in [Callers -> ReqType]
           /\ excuse \in [Kinds -> SUBSET Reasons]
           /\ slots \subseteq Kinds /\ run \in Nat /\ MaxRuns \in Nat /\ run \in 0 .. MaxRuns
  BY PanelOpsAssumption DEF TypeOK, TaskType, ReqType

\* A job, or a request, moves; the others stay where they are.
LEMMA StepFacts ==
    ASSUME TypeOK, NEW k \in Kinds, NEW at \in TaskSteps, Step(k, at)
    PROVE  /\ task' \in [Kinds -> TaskType]
           /\ task'[k].at = at /\ task'[k].run = task[k].run
           /\ \A j \in Kinds \ {k} : task'[j] = task[j]
<1>1. task \in [Kinds -> TaskType]
  BY TypeFacts
<1>2. task'[k] = [task[k] EXCEPT !.at = at] /\ \A j \in Kinds \ {k} : task'[j] = task[j]
  BY <1>1 DEF Step
<1>3. task'[k] \in TaskType /\ task'[k].at = at /\ task'[k].run = task[k].run
  BY <1>1, <1>2 DEF TaskType
<1> QED BY <1>1, <1>2, <1>3 DEF Step

LEMMA MoveFacts ==
    ASSUME TypeOK, NEW c \in Callers, NEW at \in ReqSteps, Move(c, at)
    PROVE  /\ req' \in [Callers -> ReqType]
           /\ req'[c].at = at /\ req'[c].op = req[c].op
           /\ req'[c].todo = req[c].todo /\ req'[c].late = req[c].late
           /\ \A d \in Callers \ {c} : req'[d] = req[d]
<1>1. req \in [Callers -> ReqType]
  BY TypeFacts
<1>2. req'[c] = [req[c] EXCEPT !.at = at] /\ \A d \in Callers \ {c} : req'[d] = req[d]
  BY <1>1 DEF Move
<1>3. req[c] \in ReqType
  BY <1>1
<1>4. /\ [req[c] EXCEPT !.at = at] \in ReqType
      /\ [req[c] EXCEPT !.at = at].at = at /\ [req[c] EXCEPT !.at = at].op = req[c].op
      /\ [req[c] EXCEPT !.at = at].todo = req[c].todo
      /\ [req[c] EXCEPT !.at = at].late = req[c].late
  BY <1>3 DEF ReqType
<1> QED BY <1>1, <1>2, <1>4 DEF Move

LEMMA ReturnFacts ==
    ASSUME TypeOK, NEW c \in Callers, Return(c)
    PROVE  /\ req' \in [Callers -> ReqType] /\ req'[c] = NoReq
           /\ \A d \in Callers \ {c} : req'[d] = req[d]
  BY TypeFacts, BlankTypes DEF Return

LEMMA AfterStopFacts ==
    ASSUME TypeOK, NEW c \in Callers, AfterStop(c)
    PROVE  /\ req' \in [Callers -> ReqType]
           /\ \/ req'[c] = NoReq
              \/ /\ req[c].op # "stop" /\ req'[c].at = "start" /\ req'[c].op = req[c].op
                 /\ req'[c].todo = req[c].todo /\ req'[c].late = req[c].late
           /\ \A d \in Callers \ {c} : req'[d] = req[d]
<1>1. Return(c) \/ (req[c].op # "stop" /\ Move(c, "start") /\ "start" \in ReqSteps)
  BY DEF AfterStop, ReqSteps
<1> QED BY <1>1, ReturnFacts, MoveFacts

\* A request asks for the next kind and goes where that leads.
LEMMA PassFacts ==
    ASSUME TypeOK, NEW c \in Callers, CheckPasses(c), req[c].todo # <<>>
    PROVE  /\ req' \in [Callers -> ReqType]
           /\ req'[c].op = req[c].op /\ req'[c].late = req[c].late
           /\ req'[c].todo = Tail(req[c].todo)
           /\ req'[c].at = Place(req[c].op, Tail(req[c].todo))
           /\ \A d \in Callers \ {c} : req'[d] = req[d]
<1> DEFINE todo == Tail(req[c].todo)
           at == Place(req[c].op, todo)
<1>1. req \in [Callers -> ReqType] /\ req[c] \in ReqType
  BY TypeFacts
<1>2. todo \in Seq(Kinds)
  BY <1>1, LeftTail DEF ReqType
<1>3. at \in ReqSteps
  BY DEF Place, Acts, ReqSteps
<1>4. req' = [req EXCEPT ![c] = [[req[c] EXCEPT !.todo = todo] EXCEPT !.at = at]]
  BY <1>1 DEF CheckPasses
<1> HIDE DEF todo, at
<1>5. /\ [[req[c] EXCEPT !.todo = todo] EXCEPT !.at = at] \in ReqType
      /\ [[req[c] EXCEPT !.todo = todo] EXCEPT !.at = at].at = at
      /\ [[req[c] EXCEPT !.todo = todo] EXCEPT !.at = at].op = req[c].op
      /\ [[req[c] EXCEPT !.todo = todo] EXCEPT !.at = at].todo = todo
      /\ [[req[c] EXCEPT !.todo = todo] EXCEPT !.at = at].late = req[c].late
  BY <1>1, <1>2, <1>3 DEF ReqType
<1>6. /\ req' \in [Callers -> ReqType] /\ req'[c].op = req[c].op /\ req'[c].late = req[c].late
      /\ req'[c].todo = todo /\ req'[c].at = at /\ \A d \in Callers \ {c} : req'[d] = req[d]
  BY <1>1, <1>4, <1>5
<1> QED BY <1>6 DEF todo, at

\* A request waits for the run it stopped.
LEMMA StopFacts ==
    ASSUME TypeOK, NEW c \in Callers, StopServer(c)
    PROVE  /\ req' \in [Callers -> ReqType]
           /\ req'[c].op = req[c].op /\ req'[c].late = req[c].late
           /\ req'[c].todo = req[c].todo /\ req'[c].at = "stopping"
           /\ \A d \in Callers \ {c} : req'[d] = req[d]
<1>1. req \in [Callers -> ReqType] /\ req[c] \in ReqType /\ run \in 0 .. MaxRuns
  BY TypeFacts
<1>2. req' = [req EXCEPT ![c] = [[req[c] EXCEPT !.at = "stopping"] EXCEPT !.run = run]]
  BY <1>1 DEF StopServer
<1>3. /\ [[req[c] EXCEPT !.at = "stopping"] EXCEPT !.run = run] \in ReqType
      /\ [[req[c] EXCEPT !.at = "stopping"] EXCEPT !.run = run].at = "stopping"
      /\ [[req[c] EXCEPT !.at = "stopping"] EXCEPT !.run = run].op = req[c].op
      /\ [[req[c] EXCEPT !.at = "stopping"] EXCEPT !.run = run].todo = req[c].todo
      /\ [[req[c] EXCEPT !.at = "stopping"] EXCEPT !.run = run].late = req[c].late
  BY <1>1 DEF ReqType, ReqSteps
<1> QED BY <1>1, <1>2, <1>3

\* A job begins: the other requests learn that it was not there when they asked.
LEMMA BeginFacts ==
    ASSUME TypeOK, NEW c \in Callers, StartJob(c)
    PROVE  /\ req' \in [Callers -> ReqType] /\ req'[c] = NoReq
           /\ \A d \in Callers \ {c} :
                 /\ req'[d].op = req[d].op /\ req'[d].at = req[d].at
                 /\ req'[d].todo = req[d].todo
                 /\ req[d].late \subseteq req'[d].late
                 /\ \/ req[d].at = "none" \/ req[c].op \in Left(req[d].todo)
                    \/ req[c].op \in req'[d].late
           /\ req[c].op \in Kinds \ slots /\ slots' = slots \cup {req[c].op}
           /\ task' \in [Kinds -> TaskType]
           /\ task'[req[c].op] = [at |-> Opening(req[c].op), run |-> 0]
           /\ \A j \in Kinds \ {req[c].op} : task'[j] = task[j] /\ excuse'[j] = excuse[j]
           /\ excuse' \in [Kinds -> SUBSET Reasons]
           /\ excuse'[req[c].op] =
                 (slots \cap Unasked(c)) \cup (IF exists THEN {} ELSE {"delete"})
<1> DEFINE k == req[c].op
           Hears(d) == IF req[d].at = "none" \/ k \in Left(req[d].todo) THEN req[d]
                       ELSE [req[d] EXCEPT !.late = req[d].late \cup {k}]
<1>1. /\ req \in [Callers -> ReqType] /\ task \in [Kinds -> TaskType] /\ slots \subseteq Kinds
      /\ excuse \in [Kinds -> SUBSET Reasons]
  BY TypeFacts
<1>2. k \in Kinds \ slots /\ slots' = slots \cup {k}
  BY DEF StartJob, Slots!Begin
<1>3. req' = [d \in Callers |-> IF d = c THEN NoReq ELSE Hears(d)]
  BY DEF StartJob
<1>4. ASSUME NEW d \in Callers
      PROVE  /\ Hears(d) \in ReqType /\ Hears(d).op = req[d].op /\ Hears(d).at = req[d].at
             /\ Hears(d).todo = req[d].todo /\ req[d].late \subseteq Hears(d).late
             /\ req[d].at = "none" \/ k \in Left(req[d].todo) \/ k \in Hears(d).late
  <2>1. req[d] \in ReqType /\ req[d].late \cup {k} \in SUBSET Kinds
    BY <1>1, <1>2 DEF ReqType
  <2> HIDE DEF k
  <2> QED BY <2>1 DEF ReqType
<1>5. [at |-> Opening(k), run |-> 0] \in TaskType
  BY <1>2, PanelOpsAssumption DEF Opening, TaskType, TaskSteps, Kinds
<1>6. (slots \cap Unasked(c)) \cup (IF exists THEN {} ELSE {"delete"}) \in SUBSET Reasons
  BY <1>1 DEF Reasons
<1>7. /\ task' = [task EXCEPT ![k] = [at |-> Opening(k), run |-> 0]]
      /\ excuse' = [excuse EXCEPT ![k] =
                       (slots \cap Unasked(c)) \cup (IF exists THEN {} ELSE {"delete"})]
  BY DEF StartJob
<1> HIDE DEF k, Hears
<1>8. /\ task' \in [Kinds -> TaskType] /\ task'[k] = [at |-> Opening(k), run |-> 0]
      /\ \A j \in Kinds \ {k} : task'[j] = task[j] /\ excuse'[j] = excuse[j]
      /\ excuse' \in [Kinds -> SUBSET Reasons]
      /\ excuse'[k] = (slots \cap Unasked(c)) \cup (IF exists THEN {} ELSE {"delete"})
  BY <1>1, <1>2, <1>5, <1>6, <1>7
<1>9. /\ req' \in [Callers -> ReqType] /\ req'[c] = NoReq
      /\ \A d \in Callers \ {c} : req'[d] = Hears(d)
  BY <1>3, <1>4, BlankTypes
<1> QED BY <1>2, <1>4, <1>8, <1>9 DEF k

\* A reason is added to the jobs of a set.
LEMMA ExcuseFacts ==
    ASSUME TypeOK, NEW K, NEW why \in Reasons, Excuse(K, why)
    PROVE  /\ excuse' \in [Kinds -> SUBSET Reasons]
           /\ \A k \in Kinds : excuse[k] \subseteq excuse'[k]
           /\ \A k \in Kinds \cap K : why \in excuse'[k]
  BY TypeFacts DEF Excuse

\* A reason of one job changes.
LEMMA SeesIdleFacts ==
    ASSUME TypeOK, NEW k \in Kinds, SeesIdle(k)
    PROVE  /\ excuse' \in [Kinds -> SUBSET Reasons]
           /\ excuse'[k] = excuse[k] \ {"start"}
           /\ \A j \in Kinds \ {k} : excuse'[j] = excuse[j]
  BY TypeFacts DEF SeesIdle

LEMMA GivesUpFacts ==
    ASSUME TypeOK, NEW k \in Kinds, TaskStopGivesUp(k)
    PROVE  /\ excuse' \in [Kinds -> SUBSET Reasons]
           /\ excuse'[k] = excuse[k] \cup {"stop"}
           /\ \A j \in Kinds \ {k} : excuse'[j] = excuse[j]
  BY TypeFacts DEF TaskStopGivesUp, Reasons

LEMMA TypeStep ==
    ASSUME TypeOK, ReqInv, [Next]_vars
    PROVE  TypeOK'
<1>t. /\ phase \in {"idle", "starting", "running"}
      /\ server \in {"none", "live", "gone", "crashed"}
      /\ stopAsked \in BOOLEAN /\ restarts \in 0 .. MaxRestarts /\ aborted \in BOOLEAN
      /\ run \in 0 .. MaxRuns /\ slots \subseteq Kinds
      /\ task \in [Kinds -> TaskType] /\ req \in [Callers -> ReqType] /\ exists \in BOOLEAN
      /\ excuse \in [Kinds -> SUBSET Reasons]
  BY DEF TypeOK, TaskType, ReqType
<1> DEFINE SupOK == /\ phase \in {"idle", "starting", "running"}
                    /\ server \in {"none", "live", "gone", "crashed"}
                    /\ stopAsked \in BOOLEAN /\ restarts \in 0 .. MaxRestarts /\ aborted \in BOOLEAN
           RestOK == /\ run \in 0 .. MaxRuns /\ slots \subseteq Kinds
                     /\ task \in [Kinds -> TaskType] /\ req \in [Callers -> ReqType]
                     /\ exists \in BOOLEAN /\ excuse \in [Kinds -> SUBSET Reasons]
<1> SUFFICES SupOK' /\ RestOK'
  BY DEF TypeOK, TaskType, ReqType
<1>u. UNCHANGED supVars => SupOK'
  BY <1>t DEF supVars
<1>a. AskStop => SupOK'
  BY <1>t DEF AskStop, Sup!AskStop
<1>1. ASSUME NEW c \in Callers, NEW op \in Ops, Request(c, op)
      PROVE  SupOK' /\ RestOK'
  <2>1. Place(op, Checks(op)) \in ReqSteps
    BY DEF Place, Acts, ReqSteps
  <2>2. [op |-> op, at |-> Place(op, Checks(op)), todo |-> Checks(op), run |-> 0, late |-> {}]
            \in ReqType
    BY <2>1, PanelOpsAssumption, ChecksTyped DEF ReqType
  <2>3. req' \in [Callers -> ReqType]
    BY <1>t, <1>1, <2>2 DEF Request
  <2> QED BY <1>t, <1>u, <1>1, <2>3 DEF Request
<1>2. ASSUME NEW c \in Callers, ReqNext(c) \/ StopGivesUp(c)
      PROVE  SupOK' /\ RestOK'
  <2>1. CASE CheckRefuses(c) \/ StartRefused(c) \/ JobRefused(c)
    <3>1. Return(c) /\ UNCHANGED <<supVars, run, slots, task, exists, excuse>>
      BY <2>1 DEF CheckRefuses, StartRefused, JobRefused
    <3> QED BY <1>t, <1>u, <3>1, ReturnFacts
  <2>d. CASE DeleteInstance(c)
    <3>1. excuse' \in [Kinds -> SUBSET Reasons]
      BY <2>d, ExcuseFacts DEF DeleteInstance, Reasons
    <3> QED BY <1>t, <1>u, <2>d, <3>1, ReturnFacts DEF DeleteInstance
  <2>2. CASE CheckPasses(c)
    <3>1. req[c].todo # <<>>
      BY <2>2 DEF CheckPasses, ReqInv
    <3> QED BY <1>t, <1>u, <2>2, <3>1, PassFacts DEF CheckPasses
  <2>4. CASE StartServer(c)
    <3>1. /\ phase' = "starting" /\ server' = "none" /\ stopAsked' = FALSE
          /\ restarts' = 0 /\ aborted' = FALSE
      BY <2>4 DEF StartServer, Sup!Begin
    <3>2. restarts' \in 0 .. MaxRestarts
      BY <3>1, PanelOpsAssumption
    <3>3. run' \in 0 .. MaxRuns
      BY <1>t, <2>4, PanelOpsAssumption DEF StartServer
    <3>4. excuse' \in [Kinds -> SUBSET Reasons]
      BY <2>4, ExcuseFacts DEF StartServer, Reasons
    <3> QED BY <1>t, <2>4, <3>1, <3>2, <3>3, <3>4, ReturnFacts DEF StartServer
  <2>5. CASE StopServer(c)
    BY <1>t, <1>a, <2>5, StopFacts DEF StopServer
  <2>6. CASE NotRunning(c) \/ StopReturns(c) \/ StopGivesUp(c)
    <3>1. AfterStop(c) /\ UNCHANGED <<supVars, run, slots, task, exists, excuse>>
      BY <2>6 DEF NotRunning, StopReturns, StopGivesUp
    <3> QED BY <1>t, <1>u, <3>1, AfterStopFacts
  <2>7. CASE StartJob(c)
    <3>1. slots' \subseteq Kinds
      BY <1>t, <2>7, BeginFacts
    <3> QED BY <1>t, <1>u, <2>7, <3>1, BeginFacts DEF StartJob
  <2> QED BY <1>2, <2>1, <2>d, <2>2, <2>4, <2>5, <2>6, <2>7 DEF ReqNext
<1>4. ASSUME NEW k \in Kinds, TaskNext(k) \/ TaskStopGivesUp(k)
      PROVE  SupOK' /\ RestOK'
  <2>1. AfterTaskStop(k) \in TaskSteps /\ "installing" \in TaskSteps /\ "stop" \in TaskSteps
    BY DEF AfterTaskStop, TaskSteps
  <2>c. CASE UpdateChecks \/ RestoreVerified
    <3>1. \E j \in Kinds, at \in TaskSteps : Step(j, at)
      BY <2>c DEF UpdateChecks, RestoreVerified, Kinds, TaskSteps
    <3> QED BY <1>t, <1>u, <2>c, <3>1, StepFacts DEF UpdateChecks, RestoreVerified
  <2>s. CASE UpdateStatus
    <3>1. /\ \E at \in TaskSteps : Step("update", at)
          /\ SeesIdle("update") \/ excuse' = excuse
          /\ "update" \in Kinds
      BY <2>s DEF UpdateStatus, Kinds, TaskSteps
    <3>2. excuse' \in [Kinds -> SUBSET Reasons]
      BY <1>t, <3>1, SeesIdleFacts
    <3> QED BY <1>t, <1>u, <2>s, <3>1, <3>2, StepFacts DEF UpdateStatus
  <2>2. CASE TaskStop(k)
    <3>1. [at |-> "stopping", run |-> run] \in TaskType
      BY <1>t DEF TaskType, TaskSteps
    <3>2. task' \in [Kinds -> TaskType]
      BY <1>t, <2>1, <2>2, <3>1, StepFacts DEF TaskStop
    <3>3. excuse' \in [Kinds -> SUBSET Reasons]
      BY <2>2, SeesIdleFacts DEF TaskStop
    <3> QED BY <1>t, <1>u, <1>a, <2>2, <3>2, <3>3 DEF TaskStop
  <2>3. CASE TaskStopReturns(k) \/ PackingOver(k)
    <3>1. \E at \in TaskSteps : Step(k, at)
      BY <2>1, <2>3 DEF TaskStopReturns, PackingOver
    <3> QED BY <1>t, <1>u, <2>3, <3>1, StepFacts DEF TaskStopReturns, PackingOver
  <2>4. CASE JobEnds(k)
    <3>1. task' \in [Kinds -> TaskType] /\ slots' \subseteq Kinds
      BY <1>t, <2>4, BlankTypes DEF JobEnds, Slots!End
    <3> QED BY <1>t, <1>u, <2>4, <3>1 DEF JobEnds
  <2>5. CASE TaskStopGivesUp(k)
    BY <1>t, <1>u, <2>1, <2>5, StepFacts, GivesUpFacts DEF TaskStopGivesUp
  <2> QED BY <1>4, <2>c, <2>s, <2>2, <2>3, <2>4, <2>5 DEF TaskNext
<1>5. CASE ServerNext
  <2>1. restarts' = restarts \/ (restarts < MaxRestarts /\ restarts' = restarts + 1)
    BY <1>5 DEF ServerNext, Sup!Launch, Sup!Ready, Sup!Gone, Sup!Crash, Sup!Restart, Sup!GiveUp,
                Sup!StartAgain, Sup!End, Sup!AskStop
  <2>2. restarts' \in 0 .. MaxRestarts
    BY <1>t, <2>1, PanelOpsAssumption
  <2>3. /\ phase' \in {phase, "starting", "running", "idle"}
        /\ server' \in {server, "live", "none", "gone", "crashed"}
        /\ stopAsked' = stopAsked \/ stopAsked' = TRUE
    BY <1>5 DEF ServerNext, Sup!Launch, Sup!Ready, Sup!Gone, Sup!Crash, Sup!Restart, Sup!GiveUp,
                Sup!StartAgain, Sup!End, Sup!AskStop
  <2>4. stopAsked' \in BOOLEAN
    BY <1>t, <2>3
  <2> QED BY <1>t, <1>5, <2>2, <2>3, <2>4 DEF ServerNext
<1>6. CASE UNCHANGED vars
  BY <1>t, <1>6 DEF vars, supVars
<1> QED BY <1>1, <1>2, <1>4, <1>5, <1>6 DEF Next, Work

-----------------------------------------------------------------------------
(* What a request knows *)

\* What ReqInv says of one caller.
Knows(c) ==
    /\ req[c].at # "none" => req[c].op \in AllOps
    /\ req[c].at = "check" =>
           /\ req[c].todo # <<>>
           /\ (Asked(req[c].op) \ Left(req[c].todo)) \cap slots \subseteq req[c].late
    /\ req[c].at \notin {"none", "check"} =>
           /\ req[c].todo = <<>>
           /\ Asked(req[c].op) \cap slots \subseteq req[c].late
    /\ req[c].at \in {"stop", "stopping"} => req[c].op \in {"stop", "timedRestart", "restart"}
    /\ req[c].at = "start" => req[c].op \in {"start", "timedRestart", "restart"}
    /\ req[c].at = "job" => req[c].op \in Kinds
    /\ req[c].at = "delete" => req[c].op = "delete"

\* What a handler does when it has asked for all.
LEMMA PlaceFacts ==
    ASSUME NEW op \in AllOps, NEW todo
    PROVE  /\ todo # <<>> => Place(op, todo) = "check"
           /\ todo = <<>> =>
                 /\ Place(op, todo) \in {"start", "stop", "delete", "job"}
                 /\ Place(op, todo) = "start" => op = "start"
                 /\ Place(op, todo) = "stop" => op \in {"stop", "timedRestart", "restart"}
                 /\ Place(op, todo) = "delete" => op = "delete"
                 /\ Place(op, todo) = "job" => op \in Kinds
  BY DEF Place, Acts, AllOps, Kinds

LEMMA ReqStep ==
    ASSUME JobsInv, [Next]_vars
    PROVE  ReqInv'
<1>t. /\ TypeOK /\ req \in [Callers -> ReqType]
  BY TypeFacts DEF JobsInv
<1>i. \A c \in Callers : Knows(c)
  BY DEF JobsInv, ReqInv, Knows
<1> SUFFICES \A d \in Callers : Knows(d)'
  BY DEF ReqInv, Knows
<1>k. ASSUME slots' \subseteq slots, NEW d \in Callers, req'[d] = req[d]
      PROVE  Knows(d)'
  BY <1>i, <1>k DEF Knows
<1>n. ASSUME NEW d \in Callers, req'[d] = NoReq
      PROVE  Knows(d)'
  BY <1>n DEF Knows, NoReq
<1>1. ASSUME NEW c \in Callers, NEW op \in Ops, Request(c, op)
      PROVE  \A d \in Callers : Knows(d)'
  <2>1. /\ req'[c].op = op /\ req'[c].at = Place(op, Checks(op)) /\ req'[c].todo = Checks(op)
        /\ slots' = slots /\ \A d \in Callers \ {c} : req'[d] = req[d]
    BY <1>t, <1>1 DEF Request
  <2>2. op \in AllOps
    BY PanelOpsAssumption
  <2>3. CASE Checks(op) = <<>>
    <3>1. Asked(op) = {}
      BY <2>3, LeftNone DEF Asked
    <3>2. Knows(c)'
      BY <2>1, <2>2, <2>3, <3>1, PlaceFacts DEF Knows
    <3> QED BY <1>k, <2>1, <3>2
  <2>4. CASE Checks(op) # <<>>
    <3>1. Asked(op) \ Left(Checks(op)) = {}
      BY DEF Asked
    <3>2. req'[c].at = "check"
      BY <2>1, <2>2, <2>4, PlaceFacts
    <3>3. Knows(c)'
      BY <2>1, <2>2, <2>4, <3>1, <3>2 DEF Knows
    <3> QED BY <1>k, <2>1, <3>3
  <2> QED BY <2>3, <2>4
<1>2. ASSUME NEW c \in Callers, ReqNext(c) \/ StopGivesUp(c)
      PROVE  \A d \in Callers : Knows(d)'
  <2>1. CASE CheckRefuses(c) \/ StartRefused(c) \/ JobRefused(c) \/ DeleteInstance(c)
             \/ StartServer(c)
    <3>1. Return(c) /\ slots' = slots
      BY <2>1 DEF CheckRefuses, StartRefused, JobRefused, DeleteInstance, StartServer
    <3> QED BY <1>t, <1>k, <1>n, <3>1, ReturnFacts
  <2>2. CASE CheckPasses(c)
    <3>1. /\ req[c].at = "check" /\ Head(req[c].todo) \notin slots /\ slots' = slots
      BY <2>2 DEF CheckPasses
    <3>2. req[c].todo # <<>> /\ req[c].todo \in Seq(Kinds) /\ req[c].op \in AllOps
      BY <1>t, <1>i, <3>1 DEF Knows, ReqType
    <3>3. Left(req[c].todo) = {Head(req[c].todo)} \cup Left(Tail(req[c].todo))
      BY <3>2, LeftTail
    <3>4. (Asked(req[c].op) \ Left(Tail(req[c].todo))) \cap slots \subseteq req[c].late
      BY <1>i, <3>1, <3>3 DEF Knows
    <3>5. /\ req'[c].op = req[c].op /\ req'[c].late = req[c].late
          /\ req'[c].todo = Tail(req[c].todo)
          /\ req'[c].at = Place(req[c].op, Tail(req[c].todo))
          /\ \A d \in Callers \ {c} : req'[d] = req[d]
      BY <1>t, <2>2, <3>2, PassFacts
    <3>p. PICK op, todo, at : op = req[c].op /\ todo = Tail(req[c].todo) /\ at = Place(op, todo)
      OBVIOUS
    <3>q. /\ todo # <<>> => at = "check"
          /\ todo = <<>> =>
                 /\ at \in {"start", "stop", "delete", "job"}
                 /\ at = "start" => op = "start"
                 /\ at = "stop" => op \in {"stop", "timedRestart", "restart"}
                 /\ at = "delete" => op = "delete"
                 /\ at = "job" => op \in Kinds
      BY <3>2, <3>p, PlaceFacts
    <3>r. req'[c].at = at
      BY <3>5, <3>p
    <3>6. CASE Tail(req[c].todo) = <<>>
      <4>1. Asked(req[c].op) \cap slots \subseteq req[c].late
        BY <3>4, <3>6, LeftNone
      <4>2. Knows(c)'
        BY <3>1, <3>2, <3>5, <3>p, <3>q, <3>r, <3>6, <4>1 DEF Knows
      <4> QED BY <1>k, <3>1, <3>5, <4>2
    <3>7. CASE Tail(req[c].todo) # <<>>
      <4>1. req'[c].at = "check"
        BY <3>p, <3>q, <3>r, <3>7
      <4>2. Knows(c)'
        BY <3>1, <3>2, <3>4, <3>5, <3>7, <4>1 DEF Knows
      <4> QED BY <1>k, <3>1, <3>5, <4>2
    <3> QED BY <3>6, <3>7
  <2>3. CASE StopServer(c)
    <3>1. req[c].at = "stop" /\ slots' = slots
      BY <2>3 DEF StopServer
    <3>2. /\ req'[c].op = req[c].op /\ req'[c].late = req[c].late
          /\ req'[c].todo = req[c].todo /\ req'[c].at = "stopping"
          /\ \A d \in Callers \ {c} : req'[d] = req[d]
      BY <1>t, <2>3, StopFacts
    <3>3. Knows(c)'
      BY <1>i, <3>1, <3>2 DEF Knows
    <3> QED BY <1>k, <3>1, <3>2, <3>3
  <2>4. CASE NotRunning(c) \/ StopReturns(c) \/ StopGivesUp(c)
    <3>1. req[c].at \in {"stop", "stopping"} /\ AfterStop(c) /\ slots' = slots
      BY <2>4 DEF NotRunning, StopReturns, StopGivesUp
    <3>2. /\ \/ req'[c] = NoReq
             \/ /\ req[c].op # "stop" /\ req'[c].at = "start" /\ req'[c].op = req[c].op
                /\ req'[c].todo = req[c].todo /\ req'[c].late = req[c].late
          /\ \A d \in Callers \ {c} : req'[d] = req[d]
      BY <1>t, <3>1, AfterStopFacts
    <3>3. Knows(c)'
      BY <1>i, <1>n, <3>1, <3>2 DEF Knows
    <3> QED BY <1>k, <3>1, <3>2, <3>3
  <2>5. CASE StartJob(c)
    <3>1. PICK k : k = req[c].op
      OBVIOUS
    <3>2. /\ req'[c] = NoReq /\ slots' = slots \cup {k}
          /\ \A d \in Callers \ {c} :
                 /\ req'[d].op = req[d].op /\ req'[d].at = req[d].at
                 /\ req'[d].todo = req[d].todo
                 /\ req[d].late \subseteq req'[d].late
                 /\ req[d].at = "none" \/ k \in Left(req[d].todo) \/ k \in req'[d].late
      BY <1>t, <2>5, <3>1, BeginFacts
    <3>3. ASSUME NEW d \in Callers \ {c}
          PROVE  Knows(d)'
      <4>1. /\ req'[d].op = req[d].op /\ req'[d].at = req[d].at
            /\ req'[d].todo = req[d].todo
            /\ req[d].late \subseteq req'[d].late
            /\ req[d].at = "none" \/ k \in Left(req[d].todo) \/ k \in req'[d].late
        BY <3>2
      <4>2. CASE req[d].at = "none"
        BY <4>1, <4>2 DEF Knows
      <4>3. CASE req[d].at = "check"
        <5>1. (Asked(req[d].op) \ Left(req[d].todo)) \cap slots' \subseteq req'[d].late
          BY <1>i, <3>2, <4>1, <4>3 DEF Knows
        <5> QED BY <1>i, <4>1, <4>3, <5>1 DEF Knows
      <4>4. CASE req[d].at \notin {"none", "check"}
        <5>1. k \in req'[d].late
          BY <1>i, <4>1, <4>4, LeftNone DEF Knows
        <5>2. Asked(req[d].op) \cap slots' \subseteq req'[d].late
          BY <1>i, <3>2, <4>1, <4>4, <5>1 DEF Knows
        <5> QED BY <1>i, <4>1, <4>4, <5>2 DEF Knows
      <4> QED BY <4>2, <4>3, <4>4
    <3> QED BY <1>n, <3>2, <3>3
  <2> QED BY <1>2, <2>1, <2>2, <2>3, <2>4, <2>5 DEF ReqNext
<1>3. CASE \/ \E k \in Kinds : TaskNext(k) \/ TaskStopGivesUp(k)
           \/ ServerNext \/ UNCHANGED vars
  <2>1. slots' \subseteq slots /\ req' = req
    BY <1>3 DEF UpdateChecks, UpdateStatus, RestoreVerified, TaskNext, TaskStop, TaskStopGivesUp,
                TaskStopReturns, PackingOver, JobEnds, Slots!End, ServerNext, vars
  <2> QED BY <1>k, <2>1
<1> QED BY <1>1, <1>2, <1>3 DEF Next, Work

-----------------------------------------------------------------------------
(* Jobs and deletes *)

\* The jobs by name.
LEMMA KindsOf ==
    /\ \A k \in Kinds : k \in {"install", "update", "backup", "restore"}
    /\ "install" \in Kinds /\ "update" \in Kinds /\ "backup" \in Kinds /\ "restore" \in Kinds
    /\ StepsOf("update") = {"none", "checkRestore", "checkBackup", "status", "stop",
                            "stopping", "packing", "installing"}
    /\ StepsOf("restore") = {"none", "verify", "packing", "stop", "stopping", "unpacking"}
    /\ StepsOf("backup") = {"none", "packing"} /\ StepsOf("install") = {"none", "installing"}
  BY DEF Kinds, StepsOf

\* Every reason but a start lasts as long as the job.
Keeps(k) == excuse[k] \ {"start"} \subseteq excuse'[k]

\* A job goes on.
LEMMA JobMoves ==
    ASSUME JobsInv, UNCHANGED slots, NEW k \in Kinds, k \in slots,
           \A j \in Kinds : Keeps(j),
           \A j \in Kinds \ {k} : task'[j].at = task[j].at,
           task'[k].at \in StepsOf(k) \ {"none"},
           k = "update" =>
               /\ task'[k].at # "checkRestore" /\ "restore" \in slots => "update" \in excuse["restore"]
               /\ task'[k].at \notin {"checkRestore", "checkBackup"} /\ "backup" \in slots =>
                      "update" \in excuse["backup"]
    PROVE  JobInv'
<1>1. \A j \in Kinds : task'[j].at \in StepsOf(j) /\ (j \in slots' <=> task'[j].at # "none")
  BY DEF JobsInv, JobInv
<1>k. /\ \A j, r \in Kinds : r \in excuse[j] => r \in excuse'[j]
  <2>1. \A r \in Kinds : r # "start"
    BY DEF Kinds
  <2> QED BY <2>1 DEF Keeps
<1>m. "restore" \in slots /\ "backup" \in slots =>
          "restore" \in excuse'["backup"] \/ "backup" \in excuse'["restore"]
  BY <1>k, KindsOf DEF JobsInv, JobInv
<1>2. CASE k = "update"
  <2>1. /\ task'["update"].at \notin {"none", "checkRestore"} /\ "restore" \in slots =>
               "update" \in excuse'["restore"]
        /\ task'["update"].at \notin {"none", "checkRestore", "checkBackup"} /\ "backup" \in slots =>
               "update" \in excuse'["backup"]
    BY <1>2, <1>k, KindsOf
  <2> QED BY <1>1, <1>m, <2>1 DEF JobInv
<1>3. CASE k # "update"
  <2>1. task'["update"].at = task["update"].at
    BY <1>3, KindsOf
  <2>2. /\ task'["update"].at \notin {"none", "checkRestore"} /\ "restore" \in slots =>
               "update" \in excuse'["restore"]
        /\ task'["update"].at \notin {"none", "checkRestore", "checkBackup"} /\ "backup" \in slots =>
               "update" \in excuse'["backup"]
    BY <2>1, <1>k, KindsOf DEF JobsInv, JobInv
  <2> QED BY <1>1, <1>m, <2>2 DEF JobInv
<1> QED BY <1>2, <1>3

\* A job begins: what it had asked for and is there began since.
LEMMA JobBegins ==
    ASSUME JobsInv, NEW c \in Callers, StartJob(c)
    PROVE  JobInv'
<1>t. TypeOK /\ task \in [Kinds -> TaskType]
  BY TypeFacts DEF JobsInv
<1>i. JobInv
  BY DEF JobsInv
<1>1. PICK k : k = req[c].op
  OBVIOUS
<1>2. /\ k \in Kinds \ slots /\ slots' = slots \cup {k}
      /\ task'[k] = [at |-> Opening(k), run |-> 0]
      /\ \A j \in Kinds \ {k} : task'[j] = task[j] /\ excuse'[j] = excuse[j]
      /\ slots \cap Unasked(c) \subseteq excuse'[k]
  BY <1>t, <1>1, BeginFacts
<1>3. /\ Opening("update") = "checkRestore" /\ Opening("restore") = "verify"
      /\ Opening("backup") = "packing" /\ Opening("install") = "installing"
  BY DEF Opening
<1>4. \A j \in Kinds : task'[j].at \in StepsOf(j) /\ (j \in slots' <=> task'[j].at # "none")
  <2>1. Opening(k) \in StepsOf(k) /\ Opening(k) # "none"
    BY <1>2, <1>3, KindsOf
  <2> QED BY <1>i, <1>2, <2>1 DEF JobInv
<1>5. k # "update" => Asked(k) \cap slots \subseteq excuse'[k]
  <2>1. req[c].at = "job"
    BY DEF StartJob
  <2>2. Asked(k) \cap slots \subseteq req[c].late
    BY <1>1, <2>1 DEF JobsInv, ReqInv
  <2>3. k # "restart"
    BY <1>2 DEF Kinds
  <2>4. k # "update" => Unasked(c) = req[c].late
    BY <1>1, <2>3 DEF Unasked
  <2> QED BY <1>2, <2>2, <2>4
<1>6. CASE k = "update"
  <2>1. task'["update"].at = "checkRestore"
    BY <1>2, <1>3, <1>6
  <2>2. /\ excuse'["restore"] = excuse["restore"] /\ excuse'["backup"] = excuse["backup"]
        /\ "restore" \in slots' => "restore" \in slots
        /\ "backup" \in slots' => "backup" \in slots
    BY <1>2, <1>6, KindsOf
  <2> QED BY <1>i, <1>4, <2>1, <2>2 DEF JobInv
<1>7. CASE k = "restore"
  <2>1. /\ task'["update"] = task["update"] /\ excuse'["backup"] = excuse["backup"]
        /\ "backup" \in slots' => "backup" \in slots
    BY <1>2, <1>7, KindsOf
  <2>2. "backup" \in slots => "backup" \in excuse'["restore"]
    BY <1>5, <1>7, AskedOfAll
  <2>3. "update" \in slots => "update" \in excuse'["restore"]
    BY <1>5, <1>7, AskedOfAll
  <2>4. task'["update"].at # "none" => "update" \in slots
    BY <1>i, <2>1, KindsOf DEF JobInv
  <2> QED BY <1>i, <1>4, <2>1, <2>2, <2>3, <2>4 DEF JobInv
<1>8. CASE k = "backup"
  <2>1. /\ task'["update"] = task["update"] /\ excuse'["restore"] = excuse["restore"]
        /\ "restore" \in slots' => "restore" \in slots
    BY <1>2, <1>8, KindsOf
  <2>2. "restore" \in slots => "restore" \in excuse'["backup"]
    BY <1>5, <1>8, AskedOfAll
  <2>3. "update" \in slots => "update" \in excuse'["backup"]
    BY <1>5, <1>8, AskedOfAll
  <2>4. task'["update"].at # "none" => "update" \in slots
    BY <1>i, <2>1, KindsOf DEF JobInv
  <2> QED BY <1>i, <1>4, <2>1, <2>2, <2>3, <2>4 DEF JobInv
<1>9. CASE k = "install"
  <2>1. /\ task'["update"] = task["update"]
        /\ excuse'["restore"] = excuse["restore"] /\ excuse'["backup"] = excuse["backup"]
        /\ "restore" \in slots' => "restore" \in slots
        /\ "backup" \in slots' => "backup" \in slots
    BY <1>2, <1>9, KindsOf
  <2> QED BY <1>i, <1>4, <2>1 DEF JobInv
<1> QED BY <1>2, <1>6, <1>7, <1>8, <1>9, KindsOf

\* What every step but the begin of a job does to the reasons.
LEMMA KeepsStep ==
    ASSUME TypeOK, [Next]_vars, ~ \E c \in Callers : StartJob(c)
    PROVE  \A k \in Kinds : Keeps(k)
<1>u. excuse' = excuse => \A k \in Kinds : Keeps(k)
  BY DEF Keeps
<1>1. CASE \E K : \E why \in Reasons : Excuse(K, why)
  BY <1>1, ExcuseFacts DEF Keeps
<1>2. CASE \E k \in Kinds : SeesIdle(k)
  BY <1>2, SeesIdleFacts DEF Keeps
<1>3. CASE \E k \in Kinds : TaskStopGivesUp(k)
  BY <1>3, GivesUpFacts DEF Keeps
<1>4. \/ excuse' = excuse
      \/ \E c \in Callers : StartServer(c) \/ DeleteInstance(c)
      \/ \E k \in Kinds : TaskStop(k) \/ TaskStopGivesUp(k)
      \/ UpdateStatus
  BY DEF Next, Work, Request, ReqNext, CheckRefuses, CheckPasses, StartRefused, StopServer,
         NotRunning, StopReturns, StopGivesUp, JobRefused, TaskNext, UpdateChecks, RestoreVerified,
         TaskStopReturns, PackingOver, JobEnds, ServerNext, vars
<1>5. ASSUME NEW c \in Callers, StartServer(c) \/ DeleteInstance(c)
      PROVE  \E K : \E why \in Reasons : Excuse(K, why)
  <2>1. "start" \in Reasons /\ "delete" \in Reasons
    BY DEF Reasons
  <2>2. Excuse(slots \cap Unasked(c), "start") \/ Excuse(slots \cap Unasked(c), "delete")
    BY <1>5 DEF StartServer, DeleteInstance
  <2> QED BY <2>1, <2>2
<1>6. ASSUME NEW k \in Kinds, TaskStop(k)
      PROVE  SeesIdle(k)
  BY <1>6 DEF TaskStop
<1>7. UpdateStatus => SeesIdle("update") \/ excuse' = excuse
  BY DEF UpdateStatus
<1> QED BY <1>u, <1>1, <1>2, <1>3, <1>4, <1>5, <1>6, <1>7, KindsOf

LEMMA JobStep ==
    ASSUME JobsInv, [Next]_vars
    PROVE  JobInv'
<1>t. /\ TypeOK /\ task \in [Kinds -> TaskType] /\ slots \subseteq Kinds
  BY TypeFacts DEF JobsInv
<1>i. JobInv
  BY DEF JobsInv
<1>1. CASE \E c \in Callers : StartJob(c)
  BY <1>1, JobBegins
<1> SUFFICES ASSUME ~ \E c \in Callers : StartJob(c)
             PROVE  JobInv'
  BY <1>1
<1>e. \A k \in Kinds : Keeps(k)
  BY <1>t, KeepsStep
<1>r. \A j, r \in Kinds : r \in excuse[j] => r \in excuse'[j]
  <2>1. \A r \in Kinds : r # "start"
    BY DEF Kinds
  <2> QED BY <1>e, <2>1 DEF Keeps
<1>k. UNCHANGED <<slots, task>> => JobInv'
  BY <1>i, <1>r, KindsOf DEF JobInv
<1>3. CASE UpdateChecks \/ UpdateStatus
  <2>1. PICK at \in {"checkBackup", "status", "packing", "stop"} :
            /\ Step("update", at) /\ slots' = slots
            /\ task["update"].at \in {"checkRestore", "checkBackup", "status"}
            /\ at = "checkBackup" => "restore" \notin slots
            /\ at # "checkBackup" => task["update"].at \in {"checkBackup", "status"}
            /\ at # "checkBackup" => "backup" \notin slots \/ task["update"].at = "status"
    BY <1>3 DEF UpdateChecks, UpdateStatus
  <2>2. at \in TaskSteps /\ at \in StepsOf("update") \ {"none", "checkRestore"}
    BY KindsOf DEF TaskSteps
  <2>3. task'["update"].at = at /\ \A j \in Kinds \ {"update"} : task'[j] = task[j]
    BY <1>t, <2>1, <2>2, StepFacts, KindsOf
  <2>4. "update" \in slots
    BY <1>i, <2>1, KindsOf DEF JobInv
  <2>5. /\ "restore" \in slots => "update" \in excuse["restore"]
        /\ at # "checkBackup" /\ "backup" \in slots => "update" \in excuse["backup"]
    BY <1>i, <2>1 DEF JobInv
  <2> QED BY <1>e, <2>1, <2>2, <2>3, <2>4, <2>5, JobMoves, KindsOf
<1>4. CASE RestoreVerified
  <2>1. /\ task["restore"].at = "verify" /\ Step("restore", "packing") /\ slots' = slots
        /\ "packing" \in TaskSteps
    BY <1>4 DEF RestoreVerified, TaskSteps
  <2>2. task'["restore"].at = "packing" /\ \A j \in Kinds \ {"restore"} : task'[j] = task[j]
    BY <1>t, <2>1, StepFacts, KindsOf
  <2>3. "restore" \in slots
    BY <1>i, <2>1, KindsOf DEF JobInv
  <2> QED BY <1>e, <2>1, <2>2, <2>3, JobMoves, KindsOf
<1>5. ASSUME NEW k \in Kinds, JobEnds(k)
      PROVE  JobInv'
  <2>1. slots' = slots \ {k} /\ task'[k].at = "none" /\ \A j \in Kinds \ {k} : task'[j] = task[j]
    BY <1>t, <1>5 DEF JobEnds, Slots!End, NoTask
  <2>2. \A j \in Kinds : task'[j].at \in StepsOf(j) /\ (j \in slots' <=> task'[j].at # "none")
    BY <1>i, <2>1, KindsOf DEF JobInv
  <2>3. task'["update"].at \in {"none", task["update"].at}
    BY <2>1, KindsOf
  <2>4. excuse' = excuse
    BY <1>5 DEF JobEnds
  <2> QED BY <1>i, <2>1, <2>2, <2>3, <2>4 DEF JobInv
<1>6. ASSUME NEW k \in Kinds, TaskStop(k) \/ TaskStopReturns(k) \/ TaskStopGivesUp(k)
      PROVE  JobInv'
  <2>1. /\ task[k].at \in {"stop", "stopping"} /\ slots' = slots
        /\ task' = [task EXCEPT ![k] = [at |-> "stopping", run |-> run]] \/ Step(k, AfterTaskStop(k))
    BY <1>6 DEF TaskStop, TaskStopReturns, TaskStopGivesUp
  <2>2. k \in {"update", "restore"} /\ k \in slots
    BY <1>i, <2>1, KindsOf DEF JobInv
  <2>3. /\ AfterTaskStop(k) \in TaskSteps
        /\ AfterTaskStop(k) = IF k = "update" THEN "packing" ELSE "unpacking"
    BY DEF AfterTaskStop, TaskSteps
  <2>4. /\ task'[k].at \in {"stopping", AfterTaskStop(k)}
        /\ \A j \in Kinds \ {k} : task'[j].at = task[j].at
    BY <1>t, <2>1, <2>3, StepFacts
  <2>5. task'[k].at \in StepsOf(k) \ {"none", "checkRestore", "checkBackup"}
    BY <2>2, <2>3, <2>4, KindsOf
  <2>6. k = "update" =>
            /\ "restore" \in slots => "update" \in excuse["restore"]
            /\ "backup" \in slots => "update" \in excuse["backup"]
    BY <1>i, <2>1 DEF JobInv
  <2> QED BY <1>e, <2>1, <2>2, <2>4, <2>5, <2>6, JobMoves
<1>7. ASSUME NEW k \in Kinds, PackingOver(k)
      PROVE  JobInv'
  <2>1. PICK at \in {"installing", "stop"} :
            /\ (k = "update" /\ at = "installing") \/ (k = "restore" /\ at = "stop")
            /\ task[k].at = "packing" /\ slots' = slots /\ Step(k, at)
    BY <1>7 DEF PackingOver
  <2>2. at \in TaskSteps /\ at \in StepsOf(k) \ {"none"} /\ k \in slots
    BY <1>i, <2>1, KindsOf DEF TaskSteps, JobInv
  <2>3. task'[k].at = at /\ \A j \in Kinds \ {k} : task'[j] = task[j]
    BY <1>t, <2>1, <2>2, StepFacts
  <2>4. k = "update" =>
            /\ "restore" \in slots => "update" \in excuse["restore"]
            /\ "backup" \in slots => "update" \in excuse["backup"]
    BY <1>i, <2>1 DEF JobInv
  <2> QED BY <1>e, <2>1, <2>2, <2>3, <2>4, JobMoves
<1>8. \/ UNCHANGED <<slots, task>>
      \/ UpdateChecks \/ UpdateStatus \/ RestoreVerified
      \/ \E k \in Kinds : \/ JobEnds(k) \/ PackingOver(k)
                          \/ TaskStop(k) \/ TaskStopReturns(k) \/ TaskStopGivesUp(k)
  BY DEF Next, Work, Request, ReqNext, CheckRefuses, CheckPasses, StartServer, StartRefused,
         StopServer, NotRunning, StopReturns, StopGivesUp, JobRefused, DeleteInstance, TaskNext,
         ServerNext, vars
<1> QED BY <1>k, <1>3, <1>4, <1>5, <1>6, <1>7, <1>8

LEMMA DeletedStep ==
    ASSUME JobsInv, [Next]_vars
    PROVE  NoJobOnDeleted'
<1>t. TypeOK /\ NoJobOnDeleted
  BY DEF JobsInv
<1>1. CASE \E c \in Callers : DeleteInstance(c)
  <2>1. PICK c \in Callers : DeleteInstance(c)
    BY <1>1
  <2>2. /\ req[c].at = "delete" /\ req[c].op = "delete" /\ slots' = slots
        /\ Excuse(slots \cap Unasked(c), "delete")
    BY <2>1 DEF DeleteInstance, JobsInv, ReqInv
  <2>3. {"backup", "restore", "update"} \cap slots \subseteq Unasked(c)
    BY <2>2, AskedOfAll DEF JobsInv, ReqInv, Unasked
  <2>4. \A k \in Kinds \cap (slots \cap Unasked(c)) : "delete" \in excuse'[k]
    BY <1>t, <2>2, ExcuseFacts DEF Reasons
  <2> QED BY <2>2, <2>3, <2>4, KindsOf DEF NoJobOnDeleted
<1>2. CASE \E c \in Callers : StartJob(c)
  <2>0. PICK c \in Callers : StartJob(c)
    BY <1>2
  <2>k. PICK k : k = req[c].op
    OBVIOUS
  <2>1. StartJob(c) /\ k = req[c].op
    BY <2>0, <2>k
  <2>2. exists' = exists /\ slots' = slots \cup {k}
    BY <1>t, <2>1, BeginFacts DEF StartJob
  <2>3. /\ ~exists => "delete" \in excuse'[k]
        /\ \A j \in Kinds \ {k} : excuse'[j] = excuse[j]
    BY <1>t, <2>1, BeginFacts
  <2> QED BY <1>t, <2>2, <2>3, KindsOf DEF NoJobOnDeleted
<1>3. CASE ~ \E c \in Callers : DeleteInstance(c) \/ StartJob(c)
  <2>1. slots' \subseteq slots /\ exists' = exists
    BY <1>3 DEF Next, Work, Request, ReqNext, CheckRefuses, CheckPasses, StartServer,
          StartRefused, StopServer, NotRunning, StopReturns, StopGivesUp, JobRefused, UpdateChecks,
          UpdateStatus, RestoreVerified, TaskNext, TaskStop, TaskStopReturns, TaskStopGivesUp,
          PackingOver, JobEnds, Slots!End, ServerNext, vars
  <2>2. \A k \in Kinds : "delete" \in excuse[k] => "delete" \in excuse'[k]
    BY <1>t, <1>3, KeepsStep DEF Keeps
  <2> QED BY <1>t, <2>1, <2>2, KindsOf DEF NoJobOnDeleted
<1> QED BY <1>1, <1>2, <1>3

-----------------------------------------------------------------------------
(* The server: a run that is over or aborted launches nothing *)

\* What every step but an accepted start does to the server.
StaysStill ==
    /\ phase' = "idle" => server' # "live"
    /\ aborted' => server' # "live"
    /\ Still => Still'
    /\ run' = run

LEMMA StillStep ==
    ASSUME ServerInv, [Next]_vars, ~ \E c \in Callers : StartServer(c)
    PROVE  StaysStill
<1>t. /\ phase = "idle" => server # "live"
      /\ aborted => server # "live"
  BY DEF ServerInv
<1>u. UNCHANGED <<supVars, run>> => StaysStill
  BY <1>t DEF supVars, StaysStill, Still
<1>a. AskStop /\ run' = run => StaysStill
  BY <1>t DEF AskStop, Sup!AskStop, StaysStill, Still
<1>1. CASE ServerNext
  BY <1>1, <1>t DEF ServerNext, Sup!Launch, Sup!Ready, Sup!Gone, Sup!Crash, Sup!Restart,
                    Sup!GiveUp, Sup!StartAgain, Sup!End, Sup!AskStop, StaysStill, Still
<1>2. CASE ~ServerNext
  <2>1. UNCHANGED <<supVars, run>> \/ (AskStop /\ run' = run)
    BY <1>2 DEF Next, Work, Request, ReqNext, CheckRefuses, CheckPasses, DeleteInstance,
          StartRefused, StopServer, NotRunning, StopReturns, StopGivesUp, StartJob, JobRefused,
          UpdateChecks, UpdateStatus, RestoreVerified, TaskNext, TaskStop, TaskStopReturns,
          TaskStopGivesUp, PackingOver, JobEnds, vars, supVars
  <2> QED BY <1>a, <1>u, <2>1
<1> QED BY <1>1, <1>2

\* Why a job may be at its files: no server lives, or it has an excuse.
Excused(k) == excuse[k] \cap {"start", "stop"} # {}
AtFiles(k) == \/ k = "update" /\ task[k].at \in {"packing", "installing"}
              \/ k = "restore" /\ task[k].at = "unpacking"

\* What ServerInv says of one job.
Guarded(k) ==
    /\ task[k].at = "stopping" => task[k].run = run \/ "start" \in excuse[k]
    /\ AtFiles(k) => Still \/ Excused(k)

LEMMA GuardedAll ==
    ServerInv <=> /\ phase = "idle" => server # "live"
                  /\ aborted => server # "live"
                  /\ \A k \in Kinds : Guarded(k)
  BY KindsOf DEF ServerInv, Guarded, AtFiles, Excused

\* A job moves while no start is accepted.
LEMMA GuardStep ==
    ASSUME Inv, [Next]_vars, NEW j \in Kinds, ~ \E c \in Callers : StartServer(c)
    PROVE  Guarded(j)'
<1>t. TypeOK /\ task \in [Kinds -> TaskType]
  BY TypeFacts DEF Inv, JobsInv
<1>s. StaysStill
  BY StillStep DEF Inv
<1>g. \A k \in Kinds : Guarded(k)
  BY GuardedAll DEF Inv
<1>i. \A k \in Kinds : task[k].at \in StepsOf(k)
  BY DEF Inv, JobsInv, JobInv
<1>u. task'[j] = task[j] /\ excuse[j] \cap {"start", "stop"} \subseteq excuse'[j] => Guarded(j)'
  BY <1>g, <1>s DEF Guarded, AtFiles, Excused, StaysStill
<1>n. task'[j].at \in {"none", "checkRestore", "checkBackup", "status", "verify", "stop"} =>
          Guarded(j)'
  BY DEF Guarded, AtFiles
<1>1. ASSUME NEW c \in Callers, StartJob(c)
      PROVE  Guarded(j)'
  <2>1. PICK k : k = req[c].op
    OBVIOUS
  <2>2. /\ k \in Kinds /\ task'[k] = [at |-> Opening(k), run |-> 0]
        /\ \A i \in Kinds \ {k} : task'[i] = task[i] /\ excuse'[i] = excuse[i]
    BY <1>t, <1>1, <2>1, BeginFacts
  <2>3. CASE j = k
    <3>1. /\ Opening(k) # "stopping"
          /\ k = "update" => Opening(k) = "checkRestore"
          /\ k = "restore" => Opening(k) = "verify"
      BY <2>2 DEF Opening, Kinds
    <3> QED BY <2>2, <2>3, <3>1 DEF Guarded, AtFiles
  <2> QED BY <1>u, <2>2, <2>3
<1>2. CASE UpdateChecks \/ RestoreVerified
  <2>1. PICK k \in Kinds, at \in {"checkBackup", "status", "packing"} :
            Step(k, at) /\ (at = "packing" => k = "restore") /\ excuse' = excuse
    BY <1>2 DEF UpdateChecks, RestoreVerified, Kinds
  <2>2. task'[k].at = at /\ \A i \in Kinds \ {k} : task'[i] = task[i]
    BY <1>t, <2>1, StepFacts DEF TaskSteps
  <2> QED BY <1>u, <2>1, <2>2 DEF Guarded, AtFiles
<1>3. CASE UpdateStatus
  <2>1. PICK at \in {"packing", "stop"} :
            /\ Step("update", at) /\ UNCHANGED supVars
            /\ at = "packing" => phase = "idle"
            /\ (SeesIdle("update") /\ at = "packing") \/ excuse' = excuse
    BY <1>3 DEF UpdateStatus
  <2>2. task'["update"].at = at /\ \A i \in Kinds \ {"update"} : task'[i] = task[i]
    BY <1>t, <2>1, StepFacts, KindsOf DEF TaskSteps
  <2>3. \A i \in Kinds \ {"update"} : excuse'[i] = excuse[i]
    BY <1>t, <2>1, SeesIdleFacts, KindsOf
  <2>4. j = "update" => Guarded(j)'
    BY <2>1, <2>2 DEF Guarded, AtFiles, Still, supVars
  <2> QED BY <1>u, <2>2, <2>3, <2>4
<1>4. ASSUME NEW k \in Kinds, TaskStop(k) \/ TaskStopReturns(k) \/ TaskStopGivesUp(k)
      PROVE  Guarded(j)'
  <2>0. AfterTaskStop(k) \in TaskSteps /\ AfterTaskStop(k) # "stopping"
    BY DEF AfterTaskStop, TaskSteps
  <2>1. CASE TaskStop(k)
    <3>e. \A i \in Kinds \ {k} : excuse'[i] = excuse[i]
      BY <1>t, <2>1, SeesIdleFacts DEF TaskStop
    <3>1. CASE task' = [task EXCEPT ![k] = [at |-> "stopping", run |-> run]]
      <4>1. /\ task'[k].at = "stopping" /\ task'[k].run = run
            /\ \A i \in Kinds \ {k} : task'[i] = task[i]
        BY <1>t, <3>1
      <4> QED BY <1>s, <1>u, <3>e, <4>1 DEF Guarded, AtFiles, StaysStill
    <3>2. CASE phase = "idle" /\ Step(k, AfterTaskStop(k))
      <4>1. task'[k].at = AfterTaskStop(k) /\ \A i \in Kinds \ {k} : task'[i] = task[i]
        BY <1>t, <2>0, <3>2, StepFacts
      <4>2. Still'
        BY <1>s, <3>2 DEF Still, StaysStill
      <4> QED BY <1>u, <2>0, <3>e, <4>1, <4>2 DEF Guarded
    <3> QED BY <2>1, <3>1, <3>2 DEF TaskStop
  <2>2. CASE TaskStopReturns(k)
    <3>1. /\ task[k].at = "stopping" /\ StopOver(task[k].run) /\ Step(k, AfterTaskStop(k))
          /\ excuse' = excuse
      BY <2>2 DEF TaskStopReturns
    <3>2. Still \/ Excused(k)
      BY <1>g, <3>1 DEF StopOver, Still, Guarded, Excused
    <3>3. task'[k].at = AfterTaskStop(k) /\ \A i \in Kinds \ {k} : task'[i] = task[i]
      BY <1>t, <2>0, <3>1, StepFacts
    <3>4. Still' \/ Excused(k)'
      BY <1>s, <3>1, <3>2 DEF StaysStill, Excused
    <3> QED BY <1>u, <2>0, <3>1, <3>3, <3>4 DEF Guarded
  <2>3. CASE TaskStopGivesUp(k)
    <3>1. /\ Step(k, AfterTaskStop(k)) /\ "stop" \in excuse'[k]
          /\ \A i \in Kinds \ {k} : excuse'[i] = excuse[i]
      BY <1>t, <2>3, GivesUpFacts DEF TaskStopGivesUp
    <3>2. task'[k].at = AfterTaskStop(k) /\ \A i \in Kinds \ {k} : task'[i] = task[i]
      BY <1>t, <2>0, <3>1, StepFacts
    <3> QED BY <1>u, <2>0, <3>1, <3>2 DEF Guarded, Excused
  <2> QED BY <1>4, <2>1, <2>2, <2>3
<1>5. ASSUME NEW k \in Kinds, PackingOver(k)
      PROVE  Guarded(j)'
  <2>1. PICK at \in {"installing", "stop"} :
            /\ task[k].at = "packing" /\ Step(k, at) /\ excuse' = excuse
            /\ at = "installing" => k = "update"
    BY <1>5 DEF PackingOver
  <2>2. task'[k].at = at /\ \A i \in Kinds \ {k} : task'[i] = task[i]
    BY <1>t, <2>1, StepFacts DEF TaskSteps
  <2>3. at = "installing" => Still' \/ Excused(k)'
    BY <1>g, <1>s, <2>1 DEF Guarded, AtFiles, StaysStill, Excused
  <2> QED BY <1>u, <2>1, <2>2, <2>3 DEF Guarded, AtFiles
<1>6. ASSUME NEW k \in Kinds, JobEnds(k)
      PROVE  Guarded(j)'
  <2>1. task'[k].at = "none" /\ (\A i \in Kinds \ {k} : task'[i] = task[i]) /\ excuse' = excuse
    BY <1>t, <1>6 DEF JobEnds, NoTask
  <2> QED BY <1>u, <1>n, <2>1
<1>7. CASE task' = task /\ (excuse' = excuse \/ \E c \in Callers : DeleteInstance(c))
  <2>1. excuse[j] \subseteq excuse'[j]
    BY <1>t, <1>7, ExcuseFacts DEF DeleteInstance, Reasons
  <2> QED BY <1>u, <1>7, <2>1
<1>8. \/ task' = task /\ (excuse' = excuse \/ \E c \in Callers : DeleteInstance(c))
      \/ UpdateChecks \/ RestoreVerified \/ UpdateStatus
      \/ (\E c \in Callers : StartJob(c))
      \/ \E k \in Kinds : \/ TaskStop(k) \/ TaskStopReturns(k) \/ TaskStopGivesUp(k)
                          \/ PackingOver(k) \/ JobEnds(k)
  BY DEF Next, Work, Request, ReqNext, CheckRefuses, CheckPasses, DeleteInstance, TaskNext,
         StartServer, StartRefused, StopServer, NotRunning, StopReturns, StopGivesUp, JobRefused,
         ServerNext, vars
<1> QED BY <1>1, <1>2, <1>3, <1>4, <1>5, <1>6, <1>7, <1>8

LEMMA ServerStep ==
    ASSUME Inv, [Next]_vars
    PROVE  ServerInv'
<1>t. TypeOK /\ ServerInv
  BY DEF Inv, JobsInv
<1>1. ASSUME NEW c \in Callers, StartServer(c)
      PROVE  ServerInv'
  <2>1. /\ req[c].at = "start" /\ UNCHANGED task /\ Excuse(slots \cap Unasked(c), "start")
        /\ phase' = "starting" /\ aborted' = FALSE
    BY <1>1 DEF StartServer, Sup!Begin
  <2>2. {"update", "restore"} \cap slots \subseteq Unasked(c)
    <3>1. /\ req[c].op \in {"start", "timedRestart", "restart"}
          /\ Asked(req[c].op) \cap slots \subseteq req[c].late
      BY <2>1 DEF Inv, JobsInv, ReqInv
    <3> QED BY <3>1, AskedOfAll, KindsOf DEF Unasked
  <2>3. \A k \in {"update", "restore"} : k \in slots => "start" \in excuse'[k]
    BY <1>t, <2>1, <2>2, ExcuseFacts, KindsOf DEF Reasons
  <2>4. \A k \in Kinds : task[k].at \notin {"none", "checkRestore", "checkBackup", "status", "verify"}
            /\ k \in {"update", "restore"} => "start" \in excuse'[k]
    BY <2>3 DEF Inv, JobsInv, JobInv
  <2>5. \A k \in Kinds : task[k].at = "stopping" \/ AtFiles(k) => k \in {"update", "restore"}
    BY KindsOf DEF Inv, JobsInv, JobInv, AtFiles
  <2>6. \A k \in Kinds : Guarded(k)'
    BY <2>1, <2>4, <2>5 DEF Guarded, AtFiles, Excused
  <2> QED BY <2>1, <2>6, KindsOf DEF ServerInv, Guarded, AtFiles, Excused
<1>2. CASE ~ \E c \in Callers : StartServer(c)
  <2>1. StaysStill
    BY <1>t, <1>2, StillStep
  <2>2. \A k \in Kinds : Guarded(k)'
    BY <1>2, GuardStep
  <2> QED BY <2>1, <2>2, KindsOf DEF ServerInv, StaysStill, Guarded, AtFiles, Excused
<1> QED BY <1>1, <1>2

-----------------------------------------------------------------------------
(* Theorems *)

LEMMA InitInv == Init => Inv
<1> SUFFICES ASSUME Init PROVE Inv
  OBVIOUS
<1>1. /\ phase = "idle" /\ server = "none" /\ stopAsked = FALSE /\ restarts = 0
      /\ aborted = FALSE /\ run = 0 /\ slots = {} /\ exists = TRUE
      /\ task = [k \in Kinds |-> NoTask] /\ req = [c \in Callers |-> NoReq]
      /\ excuse = [k \in Kinds |-> {}]
  BY DEF Init, Sup!Init, Slots!Init
<1>2. TypeOK
  <2>1. task \in [Kinds -> TaskType] /\ req \in [Callers -> ReqType]
    BY <1>1, BlankTypes
  <2>2. restarts \in 0 .. MaxRestarts /\ run \in 0 .. MaxRuns
    BY <1>1, PanelOpsAssumption
  <2> QED BY <1>1, <2>1, <2>2 DEF TypeOK, TaskType, ReqType
<1>3. ReqInv
  BY <1>1 DEF ReqInv, NoReq
<1>4. JobInv
  BY <1>1, KindsOf DEF JobInv, NoTask
<1>5. ServerInv
  BY <1>1, KindsOf DEF ServerInv, NoTask
<1>6. NoJobOnDeleted
  BY <1>1 DEF NoJobOnDeleted
<1> QED BY <1>2, <1>3, <1>4, <1>5, <1>6 DEF Inv, JobsInv

LEMMA StepInv == Inv /\ [Next]_vars => Inv'
<1> SUFFICES ASSUME Inv, [Next]_vars PROVE Inv'
  OBVIOUS
<1>1. JobsInv
  BY DEF Inv
<1>2. TypeOK'
  BY <1>1, TypeStep DEF JobsInv
<1> QED BY <1>1, <1>2, ReqStep, JobStep, DeletedStep, ServerStep DEF JobsInv, Inv

LEMMA AlwaysInv == Spec => []Inv
  BY InitInv, StepInv, PTL DEF Spec

\* The variables of PanelOps have the types TypeOK gives them, whoever calls
\* what, with restarts and stops that give up as well.
THEOREM TypeCorrect == Spec => []TypeOK
<1>1. Inv => TypeOK
  BY DEF Inv, JobsInv
<1> QED BY <1>1, AlwaysInv, PTL

\* A server lives while an update overwrites the files of the game, or a restore
\* the saves, only if a request launched it that had asked for the job before it
\* began or that asks for nothing, or if the job's own stop gave up: the job stopped
\* the run it found, a run that is over or aborted launches nothing, and every other
\* start is refused while the job has its key (ErrUpdateInProgress,
\* ErrRestoreInProgress; instance_actions.go).
THEOREM FilesLeftAlone == Spec => []FilesAlone
<1>1. Inv => FilesAlone
  BY DEF Inv, ServerInv, Still, FilesAlone, Replacing
<1> QED BY <1>1, AlwaysInv, PTL

\* Update, restore and backup of an instance work one at a time, in whatever
\* order they were asked for and their functions' own checks run, and none of
\* them works on an instance that was deleted, but for a job that began between the
\* answer about it and what the answer was for (instance_actions.go:328-331,
\* backup_handlers.go:101-103, 152-153, instance_handlers.go:259-260).
THEOREM JobsStayApart == Spec => []JobsExclude
<1>1. Inv => JobsExclude
  <2> SUFFICES ASSUME Inv PROVE OneAtATime
    BY DEF JobsExclude, Inv, JobsInv
  <2>1. /\ task["restore"].at # "none" => "restore" \in slots
        /\ task["backup"].at # "none" => "backup" \in slots
        /\ "restore" \in slots /\ "backup" \in slots =>
               "restore" \in excuse["backup"] \/ "backup" \in excuse["restore"]
    BY KindsOf DEF Inv, JobsInv, JobInv
  <2>2. task["update"].at \in {"stop", "stopping", "packing", "installing"} =>
            /\ "restore" \in slots => "update" \in excuse["restore"]
            /\ "backup" \in slots => "update" \in excuse["backup"]
    BY DEF Inv, JobsInv, JobInv
  <2> QED BY <2>1, <2>2 DEF OneAtATime, Working
<1> QED BY <1>1, AlwaysInv, PTL
=============================================================================
