------------------------------ MODULE Scheduler ------------------------------
(***************************************************************************)
(* The table-driven scheduler, src/internal/scheduler/scheduler.go, and the *)
(* API handlers that edit its table, src/internal/api/schedule_handlers.go. *)
(*                                                                         *)
(* The schedules exist twice: as rows of the table and as entries of the    *)
(* list in memory.  Two kinds of goroutines move data between them: the     *)
(* scheduling loop (one Reload when the panel starts, then ticks) and the   *)
(* API handlers, each of which edits the table and then calls Reload.  A    *)
(* database statement and a section under s.mu are one step each.  A time   *)
(* is a minute; 0 is the zero time, NULL in the table.                      *)
(***************************************************************************)
EXTENDS Naturals, FiniteSets

CONSTANTS
    Writers,  \* the API handler goroutines
    MaxId,    \* bound: schedules ever created
    MaxTime,  \* bound: minutes
    Bounds,   \* bounds of what happens in one behaviour: the schedules in the
              \* table at the start, those ever created and their expressions,
              \* minutes, edits through the API, restarts of the panel, and
              \* whether statements of the scheduler may fail
    Crons,    \* the cron expressions (with kind and payload)
    Matches   \* the minutes each expression matches

Loop == "loop"   \* the goroutine of Scheduler.Start
Goroutines == Writers \cup {Loop}
Ids   == 1 .. MaxId
Times == 0 .. MaxTime + 1

ASSUME SchedulerAssumption ==
    /\ MaxId \in Nat /\ MaxTime \in Nat \ {0, 1}
    /\ Bounds \subseteq [start : 0 .. MaxId, ids : 0 .. MaxId, crons : SUBSET Crons,
                         minutes : 2 .. MaxTime, edits : Nat, crashes : Nat,
                         fails : BOOLEAN]
    /\ Matches \in [Crons -> SUBSET (1 .. MaxTime + 1)]
    /\ Loop \notin Writers

VARIABLES
    now,      \* the wall clock
    table,    \* schedules: a row per id
    nextId,   \* its AUTOINCREMENT counter
    jobs,     \* s.jobs: an entry per id
    running,  \* s.running: the ids registered against a second execution
    exec,     \* executions (exec goroutines inside RunFunc) per id
    loc,      \* the local state of every goroutine
    edits,    \* API edits so far
    crashes,  \* restarts so far
    bound     \* the bounds of this behaviour

vars == <<now, table, nextId, jobs, running, exec, loc, edits, crashes, bound>>

-----------------------------------------------------------------------------
Row == [cron : Crons, enabled : BOOLEAN, last : Times, next : Times]
Tables == UNION {[S -> Row] : S \in SUBSET Ids}
NoRows == [id \in {} |-> id]

\* Where a goroutine is, the rows it carries, the ids it has yet to visit, the
\* time it read, the id it fires or repairs and the due time it fires it for.
At == {"none", "patch", "load", "install", "reloading", "ticking", "write",
       "repair", "idle"}
Local == [at : At, back : At, rows : Tables, todo : SUBSET Ids, now : Times,
          id : 0 .. MaxId, due : Times]
Fresh(at) == [at |-> at, back |-> "none", rows |-> NoRows, todo |-> {},
              now |-> 0, id |-> 0, due |-> 0]

\* cronexpr.Next: the first matching minute after t, 0 when there is none.  The clocks
\* repeat no hour: in one Next may lie before t (CronExpr).
Later(cron, t) == {m \in Matches[cron] : m > t}
NextRun(cron, t) ==
    IF Later(cron, t) = {} THEN 0
    ELSE CHOOSE m \in Later(cron, t) : \A n \in Later(cron, t) : m <= n

\* The rows an earlier life of the panel left: never run (0), cleared by an
\* edit, or run in minute 1; the panel is started in minute 2.
LeftBehind == {row \in Row : /\ row.enabled
                             /\ row.last \in 0 .. 1
                             /\ \/ row.next = 0
                                \/ row.last = 1 /\ row.next = NextRun(row.cron, 1)}

Init ==
    /\ bound \in Bounds
    /\ now = 2
    /\ table \in [1 .. bound.start -> {row \in LeftBehind : row.cron \in bound.crons}]
    /\ nextId = bound.start + 1
    /\ jobs = NoRows
    /\ running = {}
    /\ exec = [id \in Ids |-> 0]
    /\ loc = [g \in Goroutines |-> Fresh(IF g = Loop THEN "load" ELSE "none")]
    /\ edits = 0
    /\ crashes = 0

-----------------------------------------------------------------------------
(* Helpers *)

\* An UPDATE of a row that is gone changes nothing; so does updateEntryLocked.
Put(f, id, row) == IF id \in DOMAIN f THEN [f EXCEPT ![id] = row] ELSE f
Delete(f, id) == [i \in DOMAIN f \ {id} |-> f[i]]
WithTimes(row, last, next) == [row EXCEPT !.last = last, !.next = next]

\* NextRunAt has come.
Passed(row, t) == row.next # 0 /\ row.next <= t

\* What Reload fires: a row that never ran, or whose time has passed.
CatchUp(row, t) == row.enabled /\ (row.last = 0 \/ Passed(row, t))

\* What Reload repairs: next_run_at is missing though the row has run.
Repairs(row, t) == /\ row.enabled
                   /\ row.last # 0
                   /\ row.next = 0
                   /\ NextRun(row.cron, t) # 0

\* What a tick fires, and (first) a mistaken form of it, for a test of the
\* properties: a time that has come only just is not seen.
TickFiresLate(row, t) == row.enabled /\ row.next # 0 /\ row.next < t
TickFires(row, t) == row.enabled /\ Passed(row, t)

First(S) == CHOOSE x \in S : \A y \in S : x <= y

\* What a goroutine does when its walk over the entries is over: the loop
\* waits for the next tick, a handler returns.
Rest(g) == IF g = Loop THEN "idle" ELSE "none"
Visited(g) == loc[g].todo \ {loc[g].id}

\* The entry fire is called for next.
Firing(g) ==
    /\ loc[g].todo # {}
    /\ \/ loc[g].at = "ticking"
       \/ loc[g].at = "reloading"
          /\ CatchUp(loc[g].rows[First(loc[g].todo)], loc[g].now)

Set(g, l) == loc' = [loc EXCEPT ![g] = l]
Move(g, at) == Set(g, [loc[g] EXCEPT !.at = at])

-----------------------------------------------------------------------------
(* Steps with one mistake each, against which the properties are tested:   *)
(* no step of Next uses them.                                              *)

\* The times in memory do not advance.
FireRegistersOnly(g) ==
    /\ Firing(g)
    /\ LET id == First(loc[g].todo)
           e == loc[g].rows[id]
           fired == WithTimes(e, loc[g].now, NextRun(e.cron, loc[g].now))
       IN /\ id \notin running
          /\ running' = running \cup {id}
          /\ Set(g, [loc[g] EXCEPT !.at = "write", !.back = loc[g].at, !.id = id,
                         !.due = e.next, !.rows = Put(loc[g].rows, id, fired)])
    /\ UNCHANGED <<now, table, nextId, jobs, exec, edits, crashes, bound>>

\* Registered already or not, the execution starts.
FireRegistersAgain(g) ==
    /\ Firing(g)
    /\ LET id == First(loc[g].todo)
           e == loc[g].rows[id]
           fired == WithTimes(e, loc[g].now, NextRun(e.cron, loc[g].now))
       IN /\ running' = running \cup {id}
          /\ jobs' = Put(jobs, id, fired)
          /\ Set(g, [loc[g] EXCEPT !.at = "write", !.back = loc[g].at, !.id = id,
                         !.due = e.next, !.rows = Put(loc[g].rows, id, fired)])
    /\ UNCHANGED <<now, table, nextId, exec, edits, crashes, bound>>

\* The execution starts, the times are never stored.
FireWritesNothing(g) ==
    /\ loc[g].at = "write"
    /\ exec' = [exec EXCEPT ![loc[g].id] = @ + 1]
    /\ Set(g, [loc[g] EXCEPT !.at = loc[g].back, !.todo = Visited(g)])
    /\ UNCHANGED <<now, table, nextId, jobs, running, edits, crashes, bound>>

\* A failed UPDATE leaves the registration behind.
FireFailsSilently(g) ==
    /\ bound.fails
    /\ loc[g].at = "write"
    /\ Set(g, [loc[g] EXCEPT !.at = loc[g].back, !.todo = Visited(g)])
    /\ UNCHANGED <<now, table, nextId, jobs, running, exec, edits, crashes, bound>>

-----------------------------------------------------------------------------
(* The API handlers *)

\* handleScheduleCreate: last_run_at is preset, next_run_at is left to Reload.
ScheduleCreate(w) ==
    /\ loc[w].at = "none"
    /\ edits < bound.edits
    /\ nextId <= bound.ids
    /\ \E cron \in bound.crons :
           table' = [id \in DOMAIN table \cup {nextId} |->
                        IF id = nextId
                        THEN [cron |-> cron, enabled |-> TRUE, last |-> now, next |-> 0]
                        ELSE table[id]]
    /\ nextId' = nextId + 1
    /\ edits' = edits + 1
    /\ Move(w, "load")
    /\ UNCHANGED <<now, jobs, running, exec, crashes, bound>>

\* handleSchedulePatch reads the row, ...
PatchRead(w) ==
    /\ loc[w].at = "none"
    /\ edits < bound.edits
    /\ \E id \in DOMAIN table : Set(w, [Fresh("patch") EXCEPT !.id = id])
    /\ edits' = edits + 1
    /\ UNCHANGED <<now, table, nextId, jobs, running, exec, crashes, bound>>

\* ... and writes it back, next_run_at cleared: a field is the one of the request or the
\* one that was read, so each may be any by now.
PatchWrite(w) ==
    /\ loc[w].at = "patch"
    /\ LET id == loc[w].id IN
       \E cron \in bound.crons, enabled \in BOOLEAN :
           table' = IF id \notin DOMAIN table THEN table
                    ELSE [table EXCEPT ![id] = [cron |-> cron, enabled |-> enabled,
                                                last |-> table[id].last, next |-> 0]]
    /\ Set(w, Fresh("load"))
    /\ UNCHANGED <<now, nextId, jobs, running, exec, edits, crashes, bound>>

ScheduleDelete(w) ==
    /\ loc[w].at = "none"
    /\ edits < bound.edits
    /\ \E id \in DOMAIN table : table' = Delete(table, id)
    /\ edits' = edits + 1
    /\ Move(w, "load")
    /\ UNCHANGED <<now, nextId, jobs, running, exec, crashes, bound>>

-----------------------------------------------------------------------------
(* Reload *)

\* loadRows, then the clock is read.
Load(g) ==
    /\ loc[g].at = "load"
    /\ Set(g, [Fresh("install") EXCEPT !.rows = table, !.now = now])
    /\ UNCHANGED <<now, table, nextId, jobs, running, exec, edits, crashes, bound>>

LoadFails(g) ==
    /\ bound.fails
    /\ loc[g].at = "load"
    /\ Set(g, Fresh(Rest(g)))
    /\ UNCHANGED <<now, table, nextId, jobs, running, exec, edits, crashes, bound>>

\* The list is replaced; a row that is executing keeps the times in memory.  (The new
\* list and what the walk of Reload goes over are one array in the code: where another
\* goroutine updates an entry, by another Reload or a tick, before the walk comes to it,
\* the walk may see the new times, and has less to do.  Here it sees those of its own.
\* Only edits make two goroutines walk.)
Merged(rows) ==
    [id \in DOMAIN rows |->
        IF id \in running \cap DOMAIN jobs
        THEN WithTimes(rows[id], jobs[id].last, jobs[id].next)
        ELSE rows[id]]

Install(g) ==
    /\ loc[g].at = "install"
    /\ LET entries == Merged(loc[g].rows)
           t == loc[g].now
       IN /\ jobs' = entries
          /\ Set(g, [loc[g] EXCEPT !.at = "reloading", !.rows = entries,
                         !.todo = {id \in DOMAIN entries :
                                     CatchUp(entries[id], t) \/ Repairs(entries[id], t)}])
    /\ UNCHANGED <<now, table, nextId, running, exec, edits, crashes, bound>>

\* The UPDATE of a missing next_run_at, then the entry in memory.
RepairRow(g) ==
    /\ loc[g].at = "reloading"
    /\ loc[g].todo # {}
    /\ LET id == First(loc[g].todo)
           e == loc[g].rows[id]
           next == NextRun(e.cron, loc[g].now)
       IN /\ ~CatchUp(e, loc[g].now)
          /\ \/ /\ table' = IF id \in DOMAIN table
                            THEN [table EXCEPT ![id].next = next] ELSE table
                /\ Set(g, [loc[g] EXCEPT !.at = "repair", !.id = id,
                               !.rows = Put(loc[g].rows, id, WithTimes(e, e.last, next))])
             \/ /\ bound.fails
                /\ table' = table
                /\ Set(g, [loc[g] EXCEPT !.todo = @ \ {id}])
    /\ UNCHANGED <<now, nextId, jobs, running, exec, edits, crashes, bound>>

RepairEntry(g) ==
    /\ loc[g].at = "repair"
    /\ jobs' = Put(jobs, loc[g].id, loc[g].rows[loc[g].id])
    /\ Set(g, [loc[g] EXCEPT !.at = "reloading", !.todo = Visited(g)])
    /\ UNCHANGED <<now, table, nextId, running, exec, edits, crashes, bound>>

-----------------------------------------------------------------------------
(* tick and fire *)

\* A tick walks over a copy of the list.
Tick ==
    /\ loc[Loop].at = "idle"
    /\ Set(Loop, [Fresh("ticking") EXCEPT !.rows = jobs, !.now = now,
                      !.todo = {id \in DOMAIN jobs : TickFires(jobs[id], now)}])
    /\ UNCHANGED <<now, table, nextId, jobs, running, exec, edits, crashes, bound>>

\* fire: still executing, the walk goes on.
FireSkips(g) ==
    /\ Firing(g)
    /\ First(loc[g].todo) \in running
    /\ Set(g, [loc[g] EXCEPT !.todo = @ \ {First(@)}])
    /\ UNCHANGED <<now, table, nextId, jobs, running, exec, edits, crashes, bound>>

\* fire: registered, and the times in memory advance.
FireRegisters(g) ==
    /\ Firing(g)
    /\ LET id == First(loc[g].todo)
           e == loc[g].rows[id]
           fired == WithTimes(e, loc[g].now, NextRun(e.cron, loc[g].now))
       IN /\ id \notin running
          /\ running' = running \cup {id}
          /\ jobs' = Put(jobs, id, fired)
          /\ Set(g, [loc[g] EXCEPT !.at = "write", !.back = loc[g].at, !.id = id,
                         !.due = e.next, !.rows = Put(loc[g].rows, id, fired)])
    /\ UNCHANGED <<now, table, nextId, exec, edits, crashes, bound>>

\* fire: the times are stored, then the execution starts.
FireWrites(g) ==
    /\ loc[g].at = "write"
    /\ LET id == loc[g].id
           fired == loc[g].rows[id]
       IN /\ table' = IF id \notin DOMAIN table THEN table
                      ELSE [table EXCEPT ![id] = WithTimes(@, fired.last, fired.next)]
          /\ exec' = [exec EXCEPT ![id] = @ + 1]
    /\ Set(g, [loc[g] EXCEPT !.at = loc[g].back, !.todo = Visited(g)])
    /\ UNCHANGED <<now, nextId, jobs, running, edits, crashes, bound>>

\* fire: the UPDATE failed, nothing is executed.
FireFails(g) ==
    /\ bound.fails
    /\ loc[g].at = "write"
    /\ running' = running \ {loc[g].id}
    /\ Set(g, [loc[g] EXCEPT !.at = loc[g].back, !.todo = Visited(g)])
    /\ UNCHANGED <<now, table, nextId, jobs, exec, edits, crashes, bound>>

\* The walk is over.
WalkOver(g) ==
    /\ loc[g].at \in {"reloading", "ticking"}
    /\ loc[g].todo = {}
    /\ Set(g, Fresh(Rest(g)))
    /\ UNCHANGED <<now, table, nextId, jobs, running, exec, edits, crashes, bound>>

\* exec: RunFunc returned, failed or panicked.
ExecEnds(id) ==
    /\ exec[id] > 0
    /\ exec' = [exec EXCEPT ![id] = @ - 1]
    /\ running' = running \ {id}
    /\ UNCHANGED <<now, table, nextId, jobs, loc, edits, crashes, bound>>

-----------------------------------------------------------------------------
(* The environment *)

MinutePasses ==
    /\ now < bound.minutes
    /\ now' = now + 1
    /\ UNCHANGED <<table, nextId, jobs, running, exec, loc, edits, crashes, bound>>

\* The panel dies and starts again: only the table is left.
PanelRestarts ==
    /\ crashes < bound.crashes
    /\ crashes' = crashes + 1
    /\ jobs' = NoRows
    /\ running' = {}
    /\ exec' = [id \in Ids |-> 0]
    /\ loc' = [g \in Goroutines |-> Fresh(IF g = Loop THEN "load" ELSE "none")]
    /\ UNCHANGED <<now, table, nextId, edits, bound>>

-----------------------------------------------------------------------------
HandlerNext(w) == \/ ScheduleCreate(w) \/ PatchRead(w) \/ PatchWrite(w)
                  \/ ScheduleDelete(w)

WalkNext(g) == \/ Load(g) \/ LoadFails(g) \/ Install(g) \/ RepairRow(g)
               \/ RepairEntry(g) \/ FireSkips(g) \/ FireRegisters(g)
               \/ FireWrites(g) \/ FireFails(g) \/ WalkOver(g)

Next == \/ \E w \in Writers : HandlerNext(w)
        \/ \E g \in Goroutines : WalkNext(g)
        \/ Tick
        \/ \E id \in Ids : ExecEnds(id)
        \/ MinutePasses
        \/ PanelRestarts

Spec == Init /\ [][Next]_vars

\* Goroutines are scheduled, the ticker goes on ticking, every execution ends
\* (RunFunc works with timeouts throughout).  Nobody has to edit or to crash.
Fairness ==
    /\ \A g \in Goroutines : WF_vars(WalkNext(g))
    /\ \A w \in Writers : WF_vars(PatchWrite(w))
    /\ WF_vars(Tick)
    /\ \A id \in Ids : WF_vars(ExecEnds(id))

FairSpec == Spec /\ Fairness

-----------------------------------------------------------------------------
(* Properties *)

\* The types of the variables (scheduler.go's Scheduler and SchedulesRow).
TypeOK ==
    /\ now \in 1 .. MaxTime
    /\ table \in Tables
    /\ nextId \in 1 .. MaxId + 1
    /\ jobs \in Tables
    /\ running \subseteq Ids
    /\ exec \in [Ids -> Nat]
    /\ loc \in [Goroutines -> Local]
    /\ bound \in Bounds
    /\ edits \in 0 .. bound.edits
    /\ crashes \in 0 .. bound.crashes

\* Two executions of one schedule never overlap, whatever Reloads, ticks and
\* slow executions coincide ("running set", ruling 3 in scheduler.go).
NoOverlap == \A id \in Ids : exec[id] <= 1

\* What is executing was stored first: a panel that dies during the execution
\* does not run it a second time when it comes back (ruling "store first").  An
\* edit through the API clears the time in the table.
StoredBeforeRun ==
    \A id \in DOMAIN table \cap DOMAIN jobs :
        exec[id] > 0 /\ edits = 0 => /\ table[id].last = jobs[id].last
                                     /\ table[id].next = jobs[id].next

\* An execution for a due time starts only if the table does not show a later
\* run already: no due time is served twice, over ticks, slow executions,
\* failed statements and restarts.  Edits through the API break it.
ServedOnceUnedited ==
    [][\A g \in Goroutines :
           FireWrites(g) /\ loc[g].id \in DOMAIN table /\ edits = 0 =>
               table[loc[g].id].last < loc[g].due \/ table[loc[g].id].last = 0]_vars

\* The same, edits or none: "one that is executing keeps the new values in
\* memory" (scheduler.go) is not enough for it.
ServedOnce ==
    [][\A g \in Goroutines :
           FireWrites(g) /\ loc[g].id \in DOMAIN table =>
               table[loc[g].id].last < loc[g].due \/ table[loc[g].id].last = 0]_vars

\* A registration against double execution is always given back.
RegistrationEnds == \A id \in Ids : id \in running ~> id \notin running

\* An enabled schedule whose time has come does not stay due for ever, though
\* ticks are late, executions slow and the panel restarts; unless statements
\* of the scheduler may fail, or the schedule is edited.
DueIsServed ==
    \A id \in Ids : (id \in DOMAIN table /\ TickFires(table[id], now))
                        ~> \/ ~(id \in DOMAIN table /\ table[id].enabled /\ Passed(table[id], now))
                           \/ bound.fails \/ edits > 0

\* What the ticks promise: nothing is blocked and nothing is forgotten.
SchedulesMoveOn == RegistrationEnds /\ DueIsServed

=============================================================================
