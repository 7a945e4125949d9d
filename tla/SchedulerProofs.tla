--------------------------- MODULE SchedulerProofs ---------------------------
(***************************************************************************)
(* Machine-checked facts about Scheduler, for any expressions, handlers,    *)
(* bounds and failing statements.  The inductive invariant has two parts:   *)
(* which goroutine a registration against double execution belongs to, and, *)
(* as long as nobody edits the table, how its times, those of the list in   *)
(* memory and those of the copy the loop walks over lie to each other.      *)
(***************************************************************************)
EXTENDS Scheduler, TLAPS, FiniteSetTheorems

Walking == {"reloading", "ticking", "write", "repair"}

\* A goroutine's walk: the entries to visit are entries it carries, and so is
\* the one it fires, repairs or patches.
WalkOK(l) ==
    /\ l.at \in Walking => l.todo \subseteq DOMAIN l.rows
    /\ l.at \in {"write", "repair"} => l.id \in DOMAIN l.rows
    /\ l.at = "write" => l.back \in {"reloading", "ticking"}
WalkInv == \A g \in Goroutines : WalkOK(loc[g])

\* The registration of an execution: from fire to the end of exec it belongs to
\* one goroutine, which still writes the times or executes.
ExecInv ==
    /\ \A id \in Ids : exec[id] \in {0, 1} /\ (exec[id] = 1 => id \in running)
    /\ \A g \in Goroutines : loc[g].at = "write" =>
           /\ loc[g].id \in running
           /\ exec[loc[g].id] = 0
           /\ \A h \in Goroutines : loc[h].at = "write" /\ loc[h].id = loc[g].id => h = g

-----------------------------------------------------------------------------
(* As long as nobody edits the table, the loop works alone *)

\* A run that is planned comes after the last one.
RowOK(row) == row.next # 0 => row.last < row.next
SameTimes(row, other) == row.last = other.last /\ row.next = other.next

\* The entry the loop is working on; the ones it has not come to.
Underway == IF loc[Loop].at \in {"write", "repair"} THEN {loc[Loop].id} ELSE {}
Ahead == IF loc[Loop].at \in Walking THEN loc[Loop].todo \ Underway ELSE {}
Reloads == \/ loc[Loop].at \in {"reloading", "repair"}
           \/ loc[Loop].at = "write" /\ loc[Loop].back = "reloading"
Ticks == \/ loc[Loop].at = "ticking"
         \/ loc[Loop].at = "write" /\ loc[Loop].back = "ticking"

\* Nothing is executing before the list is installed, nor an entry that the
\* first walk has not come to.
StartInv ==
    /\ \A w \in Writers : loc[w].at = "none"
    /\ loc[Loop].at \in {"load", "install"} => running = {}
    /\ loc[Loop].at = "install" => loc[Loop].rows = table
    /\ Reloads => Ahead \cap running = {}
    /\ loc[Loop].at = "repair" => loc[Loop].id \notin running

\* The times of the table, of the list and of the copy that is walked over.
TableInv ==
    /\ loc[Loop].now <= now
    /\ \A id \in DOMAIN table : RowOK(table[id]) /\ table[id].last <= now
    /\ \A id \in DOMAIN jobs : RowOK(jobs[id]) /\ jobs[id].last <= now
    /\ \A id \in DOMAIN loc[Loop].rows :
           RowOK(loc[Loop].rows[id]) /\ loc[Loop].rows[id].last <= loc[Loop].now
    /\ Ticks => \A id \in Ahead : loc[Loop].rows[id].next # 0

\* The table is never ahead of the list or of the copy, and an execution starts
\* when both tell of it.
StoreInv ==
    /\ \A id \in DOMAIN table \cap DOMAIN jobs : table[id].last <= jobs[id].last
    /\ \A id \in DOMAIN table \cap (Ahead \cup Underway) :
           table[id].last <= loc[Loop].rows[id].last
    /\ loc[Loop].at = "write" =>
           /\ loc[Loop].id \in DOMAIN jobs => SameTimes(jobs[loc[Loop].id], loc[Loop].rows[loc[Loop].id])
           /\ loc[Loop].id \in DOMAIN table =>
                  table[loc[Loop].id].last < loc[Loop].due \/ table[loc[Loop].id].last = 0
    /\ \A id \in DOMAIN table \cap DOMAIN jobs :
           exec[id] > 0 => SameTimes(table[id], jobs[id])

Unedited == StartInv /\ TableInv /\ StoreInv

Inv == TypeOK /\ WalkInv /\ ExecInv /\ (edits = 0 => Unedited)

-----------------------------------------------------------------------------
(* Operators *)

\* Every set of naturals with an element has a least one.
LEMMA LeastElement ==
    ASSUME NEW S, S \subseteq Nat, S # {}
    PROVE  \E x \in S : \A y \in S : x <= y
<1> DEFINE T == {0 .. x : x \in S}
           R == StrictSubsetOrdering(Nat)
<1>1. T \subseteq FiniteSubsetsOf(Nat)
  <2> SUFFICES ASSUME NEW x \in S PROVE 0 .. x \in FiniteSubsetsOf(Nat)
    OBVIOUS
  <2>1. x \in Int /\ 0 \in Int /\ 0 .. x \in SUBSET Nat
    OBVIOUS
  <2>2. IsFiniteSet(0 .. x)
    BY <2>1, FS_Interval
  <2> QED BY <2>1, <2>2 DEF FiniteSubsetsOf
<1>2. PICK t \in T : \A u \in T : ~(<<u, t>> \in R)
  <2>1. IsWellFoundedOn(R, FiniteSubsetsOf(Nat))
    BY FS_StrictSubsetOrderingWellFounded
  <2>2. T # {}
    OBVIOUS
  <2> HIDE DEF T, R
  <2> QED BY <1>1, <2>1, <2>2, WFMin
<1>3. PICK x \in S : t = 0 .. x
  BY <1>2
<1>4. ASSUME NEW y \in S PROVE x <= y
  <2> SUFFICES ASSUME y < x PROVE FALSE
    BY <1>3
  <2>1. 0 .. y \subseteq 0 .. x /\ x \in 0 .. x /\ x \notin 0 .. y
    OBVIOUS
  <2>2. 0 .. y \in T /\ 0 .. y \subseteq Nat /\ 0 .. x \subseteq Nat
    BY <1>4
  <2>3. <<0 .. y, t>> \in R
    BY <1>3, <2>1, <2>2 DEF StrictSubsetOrdering
  <2> QED BY <1>2, <2>2, <2>3
<1> QED BY <1>4

\* A walk goes on with one of the entries it has to visit.
LEMMA FirstIn ==
    ASSUME NEW S, S \subseteq Ids, S # {}
    PROVE  First(S) \in S
<1>1. S \subseteq Nat
  BY SchedulerAssumption DEF Ids
<1>2. \E x \in S : \A y \in S : x <= y
  BY <1>1, LeastElement
<1> QED BY <1>2 DEF First

\* cronexpr.Next: a later minute, or none.
LEMMA NextRunFacts ==
    ASSUME NEW cron \in Crons, NEW t \in Times
    PROVE  /\ NextRun(cron, t) \in Times
           /\ NextRun(cron, t) # 0 => t < NextRun(cron, t)
<1>1. Later(cron, t) \subseteq Times \ {0} /\ \A m \in Later(cron, t) : t < m
  BY SchedulerAssumption DEF Later, Times
<1>2. CASE Later(cron, t) = {}
  BY <1>2, SchedulerAssumption DEF NextRun, Times
<1>3. CASE Later(cron, t) # {}
  <2>1. \E m \in Later(cron, t) : \A n \in Later(cron, t) : m <= n
    BY <1>1, <1>3, LeastElement DEF Times
  <2>2. NextRun(cron, t) \in Later(cron, t)
    BY <1>3, <2>1 DEF NextRun
  <2> QED BY <1>1, <2>2
<1> QED BY <1>2, <1>3

LEMMA TablesAre ==
    ASSUME NEW f
    PROVE  f \in Tables <=> DOMAIN f \subseteq Ids /\ f \in [DOMAIN f -> Row]
  BY DEF Tables

\* The times of a row change, and nothing else.
LEMMA WithTimesFacts ==
    ASSUME NEW row \in Row, NEW last \in Times, NEW next \in Times
    PROVE  /\ WithTimes(row, last, next) \in Row
           /\ WithTimes(row, last, next).last = last
           /\ WithTimes(row, last, next).next = next
           /\ WithTimes(row, last, next).cron = row.cron
  BY DEF WithTimes, Row

\* An UPDATE changes no row but its own and adds none.
LEMMA PutFacts ==
    ASSUME NEW f \in Tables, NEW id \in Ids, NEW row \in Row
    PROVE  /\ Put(f, id, row) \in Tables
           /\ DOMAIN Put(f, id, row) = DOMAIN f
           /\ id \in DOMAIN f => Put(f, id, row)[id] = row
           /\ \A i \in DOMAIN f \ {id} : Put(f, id, row)[i] = f[i]
  BY TablesAre DEF Put

LEMMA FreshFacts ==
    ASSUME NEW at \in At
    PROVE  /\ Fresh(at) \in Local
           /\ Fresh(at).at = at /\ Fresh(at).back = "none"
           /\ Fresh(at).rows = NoRows /\ Fresh(at).todo = {} /\ Fresh(at).now = 0
<1>1. NoRows \in Tables
  BY TablesAre DEF NoRows
<1> QED BY <1>1, SchedulerAssumption DEF Fresh, Local, At, Times

\* A step of one goroutine.
LEMMA SetFacts ==
    ASSUME TypeOK, NEW g \in Goroutines, NEW l \in Local, Set(g, l)
    PROVE  /\ loc' \in [Goroutines -> Local]
           /\ loc'[g] = l
           /\ \A h \in Goroutines \ {g} : loc'[h] = loc[h]
  BY DEF TypeOK, Set

LEMMA WalkKept ==
    ASSUME TypeOK, WalkInv, NEW g \in Goroutines, NEW l \in Local, Set(g, l), WalkOK(l)
    PROVE  WalkInv'
<1>1. \A h \in Goroutines : WalkOK(loc'[h])
  BY SetFacts DEF WalkInv
<1> QED BY <1>1 DEF WalkInv, WalkOK

\* Only fire registers and executes.
LEMMA ExecKept ==
    ASSUME TypeOK, ExecInv, NEW g \in Goroutines, NEW l \in Local, Set(g, l),
           l.at # "write", UNCHANGED <<running, exec>>
    PROVE  ExecInv'
  BY SetFacts DEF ExecInv

\* As long as nobody edits the table, only the loop works.
LEMMA OnlyLoop ==
    ASSUME Inv, edits = 0, NEW g \in Goroutines, loc[g].at # "none"
    PROVE  g = Loop
  BY DEF Inv, Unedited, StartInv, Goroutines

LEMMA LoopIs == Loop \in Goroutines /\ \A w \in Writers : w \in Goroutines /\ w # Loop
  BY SchedulerAssumption DEF Goroutines

\* The restart of the panel and its first start: the goroutines are fresh.
LEMMA StartedInv ==
    ASSUME loc = [g \in Goroutines |-> Fresh(IF g = Loop THEN "load" ELSE "none")],
           running = {}, exec = [id \in Ids |-> 0], jobs = NoRows, now \in Nat,
           \A id \in DOMAIN table : RowOK(table[id]) /\ table[id].last <= now
    PROVE  /\ loc \in [Goroutines -> Local]
           /\ WalkInv /\ ExecInv /\ Unedited
<1>1. /\ loc \in [Goroutines -> Local]
      /\ loc[Loop] = Fresh("load")
      /\ \A w \in Writers : loc[w].at = "none"
      /\ \A g \in Goroutines : loc[g].at \in {"load", "none"}
  BY FreshFacts, LoopIs DEF At, Goroutines
<1>2. loc[Loop].at = "load" /\ loc[Loop].rows = NoRows /\ loc[Loop].now = 0
  BY <1>1, FreshFacts DEF At
<1>3. WalkInv
  BY <1>1 DEF WalkInv, WalkOK, Walking
<1>4. ExecInv
  BY <1>1 DEF ExecInv
<1>5. StartInv
  BY <1>1, <1>2 DEF StartInv, Reloads
<1>6. TableInv
  BY <1>2 DEF TableInv, Ticks, NoRows
<1>7. StoreInv
  BY <1>2 DEF StoreInv, Ahead, Underway, Walking, NoRows
<1> QED BY <1>1, <1>3, <1>4, <1>5, <1>6, <1>7 DEF Unedited

LEMMA InitInv == Init => Inv
<1> SUFFICES ASSUME Init PROVE Inv
  OBVIOUS
<1>1. /\ bound.start \in 0 .. MaxId /\ bound.edits \in Nat /\ bound.crashes \in Nat
      /\ DOMAIN table = 1 .. bound.start /\ DOMAIN table \subseteq Ids
  BY SchedulerAssumption DEF Init, Ids
<1>2. \A id \in DOMAIN table : table[id] \in LeftBehind
  BY DEF Init
<1>3. ASSUME NEW row \in LeftBehind
      PROVE  row \in Row /\ RowOK(row) /\ row.last \in 0 .. 1
  <2>1. row \in Row /\ row.cron \in Crons /\ 1 \in Times
    BY SchedulerAssumption DEF LeftBehind, Row, Times
  <2>2. row.next = 0 \/ (row.last = 1 /\ row.next = NextRun(row.cron, 1))
    BY DEF LeftBehind
  <2> QED BY <2>1, <2>2, NextRunFacts DEF LeftBehind, RowOK
<1>4. table \in Tables
  BY <1>1, <1>2, <1>3, TablesAre DEF Init
<1>5. \A id \in DOMAIN table : RowOK(table[id]) /\ table[id].last <= now
  BY <1>2, <1>3 DEF Init
<1>6. /\ loc \in [Goroutines -> Local]
      /\ WalkInv /\ ExecInv /\ Unedited
  BY <1>5, StartedInv DEF Init
<1>7. TypeOK
  <2>1. now \in 1 .. MaxTime /\ nextId \in 1 .. MaxId + 1 /\ bound \in Bounds
    BY <1>1, SchedulerAssumption DEF Init
  <2>2. jobs \in Tables /\ running \subseteq Ids /\ exec \in [Ids -> Nat]
    BY TablesAre DEF Init, NoRows
  <2>3. edits \in 0 .. bound.edits /\ crashes \in 0 .. bound.crashes
    BY <1>1 DEF Init
  <2> QED BY <1>4, <1>6, <2>1, <2>2, <2>3 DEF TypeOK
<1> QED BY <1>6, <1>7 DEF Inv

LEMMA RestartInv == Inv /\ PanelRestarts => Inv'
<1> SUFFICES ASSUME Inv, PanelRestarts PROVE Inv'
  OBVIOUS
<1>1. bound.crashes \in Nat /\ crashes' \in 0 .. bound.crashes
  BY SchedulerAssumption DEF Inv, TypeOK, PanelRestarts
<1>2. jobs' \in Tables /\ running' \subseteq Ids /\ exec' \in [Ids -> Nat]
  BY TablesAre DEF PanelRestarts, NoRows
<1>3. loc' \in [Goroutines -> Local] /\ WalkInv' /\ ExecInv'
  <2>1. \A g \in Goroutines : /\ loc'[g] \in Local
                              /\ loc'[g].at \in {"load", "none"}
    BY FreshFacts DEF At, PanelRestarts
  <2> QED BY <2>1 DEF PanelRestarts, WalkInv, WalkOK, ExecInv, Walking
<1>4. ASSUME edits' = 0 PROVE Unedited'
  <2>1. /\ loc'[Loop].at = "load" /\ loc'[Loop].rows = NoRows /\ loc'[Loop].now = 0
        /\ \A w \in Writers : loc'[w].at = "none"
    BY FreshFacts, LoopIs DEF At, PanelRestarts
  <2>2. TableInv /\ table' = table /\ now' = now /\ edits = 0 /\ now \in Nat /\ jobs' = NoRows
    BY <1>4, SchedulerAssumption DEF PanelRestarts, Inv, Unedited, TypeOK
  <2>3. StartInv'
    BY <2>1 DEF StartInv, Reloads, PanelRestarts
  <2>4. TableInv'
    BY <2>1, <2>2 DEF TableInv, Ticks, NoRows
  <2>5. StoreInv'
    BY <2>1, <2>2 DEF StoreInv, Ahead, Underway, Walking, NoRows
  <2> QED BY <2>3, <2>4, <2>5 DEF Unedited
<1>5. TypeOK'
  BY <1>1, <1>2, <1>3 DEF Inv, TypeOK, PanelRestarts
<1> QED BY <1>3, <1>4, <1>5 DEF Inv

-----------------------------------------------------------------------------
(* The steps *)

\* What the handlers do keeps the types, and it is an edit.
LEMMA CreateInv ==
    ASSUME Inv, NEW w \in Writers, ScheduleCreate(w)
    PROVE  Inv'
<1> DEFINE l == [loc[w] EXCEPT !.at = "load"]
<1>1. w \in Goroutines /\ loc[w] \in Local
  BY LoopIs DEF Inv, TypeOK
<1>2. l \in Local /\ l.at = "load" /\ Set(w, l)
  BY <1>1 DEF Local, At, ScheduleCreate, Move
<1> HIDE DEF l
<1>3. WalkOK(l)
  BY <1>2 DEF WalkOK, Walking
<1>4. nextId \in Ids /\ nextId' \in 1 .. MaxId + 1 /\ edits' \in 0 .. bound.edits /\ edits' # 0
  BY SchedulerAssumption DEF Inv, TypeOK, ScheduleCreate, Ids
<1>5. table' \in Tables
  <2>1. PICK cron \in bound.crons :
           table' = [id \in DOMAIN table \cup {nextId} |->
                        IF id = nextId
                        THEN [cron |-> cron, enabled |-> TRUE, last |-> now, next |-> 0]
                        ELSE table[id]]
    BY DEF ScheduleCreate
  <2>2. [cron |-> cron, enabled |-> TRUE, last |-> now, next |-> 0] \in Row
    BY SchedulerAssumption DEF Row, Inv, TypeOK, Times
  <2>3. DOMAIN table' \subseteq Ids /\ \A id \in DOMAIN table' : table'[id] \in Row
    BY <1>4, <2>1, <2>2, TablesAre DEF Inv, TypeOK
  <2> QED BY <2>1, <2>3, TablesAre
<1>6. TypeOK'
  BY <1>1, <1>2, <1>4, <1>5, SetFacts DEF Inv, TypeOK, ScheduleCreate
<1>7. WalkInv' /\ ExecInv'
  BY <1>1, <1>2, <1>3, WalkKept, ExecKept DEF Inv, ScheduleCreate
<1> QED BY <1>4, <1>6, <1>7 DEF Inv

LEMMA PatchReadInv ==
    ASSUME Inv, NEW w \in Writers, PatchRead(w)
    PROVE  Inv'
<1>1. PICK id \in DOMAIN table :
         Set(w, [Fresh("patch") EXCEPT !.id = id])
  BY DEF PatchRead
<1> DEFINE l == [Fresh("patch") EXCEPT !.id = id]
<1>2. w \in Goroutines /\ id \in Ids
  BY LoopIs, TablesAre DEF Inv, TypeOK
<1>3. l \in Local /\ l.at = "patch"
  <2>1. Fresh("patch") \in Local /\ Fresh("patch").at = "patch"
    BY FreshFacts DEF At
  <2>2. id \in 0 .. MaxId
    BY <1>2, SchedulerAssumption DEF Ids
  <2> QED BY <1>2, <2>1, <2>2 DEF Local
<1>4. Set(w, l)
  BY <1>1
<1> HIDE DEF l
<1>5. WalkOK(l)
  BY <1>2, <1>3 DEF WalkOK, Walking
<1>6. edits' \in 0 .. bound.edits /\ edits' # 0
  BY SchedulerAssumption DEF Inv, TypeOK, PatchRead
<1>7. TypeOK'
  BY <1>2, <1>3, <1>4, <1>6, SetFacts DEF Inv, TypeOK, PatchRead
<1>8. WalkInv' /\ ExecInv'
  BY <1>2, <1>3, <1>4, <1>5, WalkKept, ExecKept DEF Inv, PatchRead
<1> QED BY <1>6, <1>7, <1>8 DEF Inv

LEMMA PatchWriteInv ==
    ASSUME Inv, NEW w \in Writers, PatchWrite(w)
    PROVE  Inv'
<1>1. w \in Goroutines /\ Fresh("load") \in Local /\ Fresh("load").at = "load"
  BY LoopIs, FreshFacts DEF At
<1>2. WalkOK(Fresh("load"))
  BY <1>1 DEF WalkOK, Walking
<1>3. table' \in Tables
  <2>1. PICK cron \in bound.crons, enabled \in BOOLEAN :
           table' = IF loc[w].id \notin DOMAIN table THEN table
                    ELSE [table EXCEPT ![loc[w].id] =
                             [cron |-> cron, enabled |-> enabled,
                              last |-> table[loc[w].id].last, next |-> 0]]
    BY DEF PatchWrite
  <2>2. CASE loc[w].id \notin DOMAIN table
    BY <2>1, <2>2 DEF Inv, TypeOK
  <2>3. CASE loc[w].id \in DOMAIN table
    <3>1. table[loc[w].id] \in Row
      BY <2>3, TablesAre DEF Inv, TypeOK
    <3>2. [cron |-> cron, enabled |-> enabled,
           last |-> table[loc[w].id].last, next |-> 0] \in Row
      BY <3>1, SchedulerAssumption DEF Row, Inv, TypeOK, Times
    <3> QED BY <2>1, <2>3, <3>2, TablesAre DEF Inv, TypeOK
  <2> QED BY <2>2, <2>3
<1>4. TypeOK'
  BY <1>1, <1>3, SetFacts DEF Inv, TypeOK, PatchWrite
<1>5. WalkInv' /\ ExecInv'
  BY <1>1, <1>2, WalkKept, ExecKept DEF Inv, PatchWrite
<1>6. edits' # 0
  BY LoopIs DEF PatchWrite, Inv, Unedited, StartInv
<1> QED BY <1>4, <1>5, <1>6 DEF Inv

LEMMA DeleteInv ==
    ASSUME Inv, NEW w \in Writers, ScheduleDelete(w)
    PROVE  Inv'
<1> DEFINE l == [loc[w] EXCEPT !.at = "load"]
<1>1. w \in Goroutines /\ loc[w] \in Local
  BY LoopIs DEF Inv, TypeOK
<1>2. l \in Local /\ l.at = "load" /\ Set(w, l)
  BY <1>1 DEF Local, At, ScheduleDelete, Move
<1> HIDE DEF l
<1>3. WalkOK(l)
  BY <1>2 DEF WalkOK, Walking
<1>4. edits' \in 0 .. bound.edits /\ edits' # 0
  BY SchedulerAssumption DEF Inv, TypeOK, ScheduleDelete
<1>5. table' \in Tables
  BY TablesAre DEF Inv, TypeOK, ScheduleDelete, Delete
<1>6. TypeOK'
  BY <1>1, <1>2, <1>4, <1>5, SetFacts DEF Inv, TypeOK, ScheduleDelete
<1>7. WalkInv' /\ ExecInv'
  BY <1>1, <1>2, <1>3, WalkKept, ExecKept DEF Inv, ScheduleDelete
<1> QED BY <1>4, <1>6, <1>7 DEF Inv

\* Steps of the clock and of exec.
LEMMA MinuteInv == Inv /\ MinutePasses => Inv'
<1> SUFFICES ASSUME Inv, MinutePasses PROVE Inv'
  OBVIOUS
<1>1. now \in Nat /\ now' = now + 1 /\ bound.minutes \in 2 .. MaxTime /\ now' \in 1 .. MaxTime
  BY SchedulerAssumption DEF Inv, TypeOK, MinutePasses
<1>2. TypeOK' /\ WalkInv' /\ ExecInv'
  BY <1>1 DEF Inv, TypeOK, WalkInv, ExecInv, MinutePasses
<1>3. ASSUME edits' = 0 PROVE Unedited'
  <2>1. StartInv /\ TableInv /\ StoreInv
    BY <1>3 DEF Inv, Unedited, MinutePasses
  <2>2. StartInv' /\ StoreInv'
    BY <2>1 DEF StartInv, StoreInv, Reloads, Ahead, Underway, MinutePasses
  <2>3. /\ loc[Loop].now \in Nat
        /\ \A id \in DOMAIN table : table[id].last \in Nat
        /\ \A id \in DOMAIN jobs : jobs[id].last \in Nat
    BY TablesAre, LoopIs DEF Inv, TypeOK, Local, Row, Times
  <2>4. TableInv'
    BY <1>1, <2>1, <2>3 DEF TableInv, Ticks, Ahead, Underway, MinutePasses
  <2> QED BY <2>2, <2>4 DEF Unedited
<1> QED BY <1>2, <1>3 DEF Inv

LEMMA ExecEndsInv ==
    ASSUME Inv, NEW id \in Ids, ExecEnds(id)
    PROVE  Inv'
<1>1. exec[id] = 1 /\ exec' = [exec EXCEPT ![id] = 0] /\ running' = running \ {id}
  <2>1. exec[id] = 1 /\ 1 - 1 = 0
    BY DEF Inv, ExecInv, ExecEnds
  <2> QED BY <2>1 DEF ExecEnds
<1>2. TypeOK' /\ WalkInv'
  BY <1>1 DEF Inv, TypeOK, WalkInv, ExecEnds
<1>3. ExecInv'
  BY <1>1 DEF Inv, TypeOK, ExecInv, ExecEnds
<1>4. ASSUME edits' = 0 PROVE Unedited'
  <2>1. StartInv /\ TableInv /\ StoreInv
    BY <1>4 DEF Inv, Unedited, ExecEnds
  <2>2. StartInv'
    BY <1>1, <2>1 DEF StartInv, Reloads, Ahead, Underway, ExecEnds
  <2>3. TableInv'
    BY <2>1 DEF TableInv, Ticks, Ahead, Underway, ExecEnds
  <2>4. \A i \in DOMAIN table : i \in Ids /\ (exec'[i] > 0 => exec[i] > 0)
    BY <1>1, TablesAre DEF Inv, TypeOK
  <2>5. StoreInv'
    BY <2>1, <2>4 DEF StoreInv, Ahead, Underway, ExecEnds
  <2> QED BY <2>2, <2>3, <2>5 DEF Unedited
<1> QED BY <1>2, <1>3, <1>4 DEF Inv

\* A goroutine that has returned or waits carries nothing.
LEMMA RestedInv ==
    ASSUME Inv, NEW g \in Goroutines, loc[g].at # "none", Set(g, Fresh(Rest(g))),
           UNCHANGED <<now, table, nextId, jobs, running, exec, edits, crashes, bound>>
    PROVE  Inv'
<1> DEFINE l == Fresh(Rest(g))
<1>1. l \in Local /\ l.at = Rest(g) /\ Rest(g) \in {"idle", "none"} /\ l.rows = NoRows /\ l.now = 0
  BY FreshFacts DEF Rest, At
<1> HIDE DEF l
<1>2. Set(g, l)
  BY DEF l
<1>3. WalkOK(l)
  BY <1>1 DEF WalkOK, Walking
<1>4. TypeOK'
  BY <1>1, <1>2, SetFacts DEF Inv, TypeOK
<1>5. WalkInv' /\ ExecInv'
  BY <1>1, <1>2, <1>3, WalkKept, ExecKept DEF Inv
<1>6. ASSUME edits' = 0 PROVE Unedited'
  <2>1. g = Loop /\ l.at = "idle" /\ StartInv /\ TableInv /\ StoreInv
    BY <1>1, <1>6, OnlyLoop DEF Inv, Unedited, Rest
  <2>2. loc'[Loop] = l /\ \A w \in Writers : loc'[w].at = "none"
    BY <1>1, <1>2, <2>1, SetFacts, LoopIs DEF Inv, StartInv
  <2>3. StartInv'
    BY <2>1, <2>2 DEF StartInv, Reloads
  <2>4. TableInv'
    BY <1>1, <2>1, <2>2, SchedulerAssumption DEF TableInv, Ticks, NoRows, Inv, TypeOK
  <2>5. StoreInv'
    BY <2>1, <2>2 DEF StoreInv, Ahead, Underway, Walking
  <2> QED BY <2>3, <2>4, <2>5 DEF Unedited
<1> QED BY <1>4, <1>5, <1>6 DEF Inv

LEMMA LoadFailsInv ==
    ASSUME Inv, NEW g \in Goroutines, LoadFails(g)
    PROVE  Inv'
  BY RestedInv DEF LoadFails

LEMMA WalkOverInv ==
    ASSUME Inv, NEW g \in Goroutines, WalkOver(g)
    PROVE  Inv'
  BY RestedInv DEF WalkOver

LEMMA LoadInv ==
    ASSUME Inv, NEW g \in Goroutines, Load(g)
    PROVE  Inv'
<1> DEFINE l == [Fresh("install") EXCEPT !.rows = table, !.now = now]
<1>1. /\ l \in Local /\ l.at = "install" /\ l.rows = table /\ l.now = now /\ Set(g, l)
  <2>1. Fresh("install") \in Local /\ Fresh("install").at = "install"
    BY FreshFacts DEF At
  <2>2. table \in Tables /\ now \in Times
    BY SchedulerAssumption DEF Inv, TypeOK, Times
  <2>3. l \in Local /\ l.at = "install" /\ l.rows = table /\ l.now = now
    BY <2>1, <2>2 DEF Local
  <2> QED BY <2>3 DEF Load
<1> HIDE DEF l
<1>2. WalkOK(l)
  BY <1>1 DEF WalkOK, Walking
<1>3. TypeOK'
  BY <1>1, SetFacts DEF Inv, TypeOK, Load
<1>4. WalkInv' /\ ExecInv'
  BY <1>1, <1>2, WalkKept, ExecKept DEF Inv, Load
<1>5. ASSUME edits' = 0 PROVE Unedited'
  <2>1. g = Loop /\ StartInv /\ TableInv /\ StoreInv /\ loc[Loop].at = "load"
    BY <1>5, OnlyLoop DEF Inv, Unedited, Load
  <2>2. loc'[Loop] = l /\ \A w \in Writers : loc'[w].at = "none"
    BY <1>1, <2>1, SetFacts, LoopIs DEF Inv, StartInv
  <2>3. StartInv'
    BY <1>1, <2>1, <2>2 DEF StartInv, Reloads, Load
  <2>4. TableInv'
    BY <1>1, <2>1, <2>2 DEF TableInv, Ticks, Load, Inv, TypeOK
  <2>5. StoreInv'
    BY <1>1, <2>1, <2>2 DEF StoreInv, Ahead, Underway, Walking, Load
  <2> QED BY <2>3, <2>4, <2>5 DEF Unedited
<1> QED BY <1>3, <1>4, <1>5 DEF Inv

LEMMA MergedFacts ==
    ASSUME TypeOK, NEW rows \in Tables
    PROVE  /\ Merged(rows) \in Tables /\ DOMAIN Merged(rows) = DOMAIN rows
           /\ running = {} => Merged(rows) = rows
<1>1. ASSUME NEW id \in DOMAIN rows PROVE Merged(rows)[id] \in Row
  BY TablesAre, WithTimesFacts DEF TypeOK, Merged, Row
<1>2. running = {} => Merged(rows) = [id \in DOMAIN rows |-> rows[id]]
  BY DEF Merged
<1>3. DOMAIN Merged(rows) = DOMAIN rows
  BY DEF Merged
<1>4. Merged(rows) \in [DOMAIN rows -> Row]
  BY <1>1 DEF Merged
<1> QED BY <1>2, <1>3, <1>4, TablesAre

LEMMA InstallInv ==
    ASSUME Inv, NEW g \in Goroutines, Install(g)
    PROVE  Inv'
<1> DEFINE entries == Merged(loc[g].rows)
           todo == {id \in DOMAIN entries : CatchUp(entries[id], loc[g].now)
                                            \/ Repairs(entries[id], loc[g].now)}
           l == [loc[g] EXCEPT !.at = "reloading", !.rows = entries, !.todo = todo]
<1>1. loc[g] \in Local /\ loc[g].rows \in Tables /\ loc[g].at = "install"
  BY DEF Inv, TypeOK, Local, Install
<1>2. entries \in Tables /\ DOMAIN entries \subseteq Ids /\ (running = {} => entries = loc[g].rows)
  BY <1>1, MergedFacts, TablesAre DEF Inv
<1>3. jobs' = entries /\ Set(g, l) /\ todo \subseteq DOMAIN entries
  BY DEF Install
<1> HIDE DEF entries, todo
<1>4. /\ l \in Local /\ l.at = "reloading" /\ l.rows = entries /\ l.todo = todo
      /\ l.now = loc[g].now
  BY <1>1, <1>2, <1>3 DEF Local, At
<1> HIDE DEF l
<1>5. WalkOK(l)
  BY <1>3, <1>4 DEF WalkOK, Walking
<1>6. TypeOK'
  BY <1>2, <1>3, <1>4, SetFacts DEF Inv, TypeOK, Install
<1>7. WalkInv' /\ ExecInv'
  BY <1>3, <1>4, <1>5, WalkKept, ExecKept DEF Inv, Install
<1>8. ASSUME edits' = 0 PROVE Unedited'
  <2>1. g = Loop /\ StartInv /\ TableInv /\ StoreInv /\ loc[Loop].at = "install"
    BY <1>1, <1>8, OnlyLoop DEF Inv, Unedited, Install
  <2>2. loc'[Loop] = l /\ \A w \in Writers : loc'[w].at = "none"
    BY <1>3, <1>4, <2>1, SetFacts, LoopIs DEF Inv, StartInv
  <2>3. running = {} /\ entries = table /\ table' = table /\ running' = running
    BY <1>2, <2>1 DEF StartInv, Install
  <2>4. StartInv'
    BY <1>4, <2>2, <2>3 DEF StartInv, Reloads
  <2>5. TableInv'
    <3>1. now' = now /\ ~Ticks' /\ loc'[Loop].rows = table /\ loc'[Loop].now = loc[Loop].now
      BY <1>4, <2>1, <2>2, <2>3 DEF Ticks, Install
    <3> QED BY <1>3, <2>1, <2>3, <3>1 DEF TableInv, StartInv
  <2>6. \A id \in Ids : ~(exec'[id] > 0)
    BY <2>3 DEF Install, Inv, ExecInv
  <2>7. \A id \in DOMAIN table : id \in Ids /\ table[id].last \in Nat
    BY TablesAre DEF Inv, TypeOK, Row, Times
  <2>8. StoreInv'
    BY <1>3, <1>4, <2>1, <2>2, <2>3, <2>6, <2>7 DEF StoreInv, Ahead, Underway, Walking
  <2> QED BY <2>4, <2>5, <2>8 DEF Unedited
<1> QED BY <1>6, <1>7, <1>8 DEF Inv

LEMMA TickInv == Inv /\ Tick => Inv'
<1> SUFFICES ASSUME Inv, Tick PROVE Inv'
  OBVIOUS
<1> DEFINE todo == {id \in DOMAIN jobs : TickFires(jobs[id], now)}
           l == [Fresh("ticking") EXCEPT !.rows = jobs, !.now = now, !.todo = todo]
<1>1. /\ l \in Local /\ l.at = "ticking" /\ l.rows = jobs /\ l.now = now /\ l.todo = todo
      /\ Set(Loop, l) /\ todo \subseteq DOMAIN jobs
  <2>1. Fresh("ticking") \in Local /\ Fresh("ticking").at = "ticking"
    BY FreshFacts DEF At
  <2>2. todo \subseteq Ids /\ now \in Times
    BY TablesAre, SchedulerAssumption DEF Inv, TypeOK, Times
  <2> HIDE DEF todo
  <2>3. l \in Local /\ l.at = "ticking" /\ l.rows = jobs /\ l.now = now /\ l.todo = todo
    BY <2>1, <2>2 DEF Local, Inv, TypeOK
  <2> QED BY <2>3 DEF Tick, todo
<1>2. \A id \in todo : jobs[id].next # 0
  BY DEF TickFires, Passed
<1> HIDE DEF l, todo
<1>3. WalkOK(l)
  BY <1>1 DEF WalkOK, Walking
<1>4. TypeOK'
  BY <1>1, LoopIs, SetFacts DEF Inv, TypeOK, Tick
<1>5. WalkInv' /\ ExecInv'
  BY <1>1, <1>3, LoopIs, WalkKept, ExecKept DEF Inv, Tick
<1>6. ASSUME edits' = 0 PROVE Unedited'
  <2>1. StartInv /\ TableInv /\ StoreInv
    BY <1>6 DEF Inv, Unedited, Tick
  <2>2. loc'[Loop] = l /\ \A w \in Writers : loc'[w].at = "none"
    BY <1>1, <2>1, SetFacts, LoopIs DEF Inv, StartInv
  <2>3. StartInv'
    BY <1>1, <2>1, <2>2 DEF StartInv, Reloads, Tick
  <2>4. Ahead' = todo /\ Underway' = {}
    BY <1>1, <2>2 DEF Ahead, Underway, Walking
  <2>5. TableInv'
    BY <1>1, <1>2, <2>1, <2>2, <2>4 DEF TableInv, Tick, Inv, TypeOK
  <2>6. StoreInv'
    BY <1>1, <2>1, <2>2, <2>4 DEF StoreInv, Tick
  <2> QED BY <2>3, <2>5, <2>6 DEF Unedited
<1> QED BY <1>4, <1>5, <1>6 DEF Inv

\* What a walking goroutine carries.
LEMMA WalkerFacts ==
    ASSUME Inv, NEW g \in Goroutines, loc[g].at \in Walking
    PROVE  /\ loc[g] \in Local /\ loc[g].rows \in Tables /\ loc[g].now \in Times
           /\ loc[g].todo \subseteq DOMAIN loc[g].rows /\ DOMAIN loc[g].rows \subseteq Ids
           /\ \A id \in DOMAIN loc[g].rows : loc[g].rows[id] \in Row
  BY TablesAre DEF Inv, TypeOK, WalkInv, WalkOK, Local

\* Times are numbers.
LEMMA RowTimes ==
    ASSUME NEW row \in Row
    PROVE  row.last \in Nat /\ row.next \in Nat /\ row.last \in Times /\ row.cron \in Crons
  BY SchedulerAssumption DEF Row, Times

\* The entry a goroutine goes on with.
LEMMA NextEntry ==
    ASSUME Inv, NEW g \in Goroutines, loc[g].at \in {"reloading", "ticking"}, loc[g].todo # {}
    PROVE  /\ First(loc[g].todo) \in loc[g].todo /\ First(loc[g].todo) \in Ids
           /\ First(loc[g].todo) \in DOMAIN loc[g].rows
           /\ loc[g].rows[First(loc[g].todo)] \in Row
<1>1. loc[g].at \in Walking
  BY DEF Walking
<1>2. loc[g].todo \subseteq Ids
  BY <1>1, WalkerFacts
<1> QED BY <1>1, <1>2, WalkerFacts, FirstIn

LEMMA ExecIsRunning ==
    ASSUME Inv, NEW id \in DOMAIN table, exec[id] > 0
    PROVE  id \in running
<1>1. id \in Ids /\ exec[id] \in {0, 1}
  BY TablesAre DEF Inv, TypeOK, ExecInv
<1> QED BY <1>1 DEF Inv, ExecInv

LEMMA FireSkipsInv ==
    ASSUME Inv, NEW g \in Goroutines, FireSkips(g)
    PROVE  Inv'
<1> DEFINE todo == loc[g].todo \ {First(loc[g].todo)}
           l == [loc[g] EXCEPT !.todo = todo]
<1>1. loc[g].at \in {"reloading", "ticking"} /\ loc[g].at \in Walking /\ todo \subseteq loc[g].todo
  BY DEF FireSkips, Firing, Walking
<1>2. Set(g, l)
  BY DEF FireSkips
<1> HIDE DEF todo
<1>3. /\ l \in Local /\ l.at = loc[g].at /\ l.rows = loc[g].rows /\ l.todo = todo
      /\ l.now = loc[g].now /\ l.back = loc[g].back
  BY <1>1, WalkerFacts, TablesAre DEF Local
<1> HIDE DEF l
<1>4. WalkOK(l)
  BY <1>1, <1>3, WalkerFacts DEF WalkOK
<1>5. TypeOK'
  BY <1>2, <1>3, SetFacts DEF Inv, TypeOK, FireSkips
<1>6. WalkInv' /\ ExecInv'
  BY <1>1, <1>2, <1>3, <1>4, WalkKept, ExecKept DEF Inv, FireSkips
<1>7. ASSUME edits' = 0 PROVE Unedited'
  <2>1. g = Loop /\ StartInv /\ TableInv /\ StoreInv
    BY <1>1, <1>7, OnlyLoop DEF Inv, Unedited, FireSkips
  <2>2. loc'[Loop] = l /\ \A w \in Writers : loc'[w].at = "none"
    BY <1>2, <1>3, <2>1, SetFacts, LoopIs DEF Inv, StartInv
  <2>3. /\ Ahead' = todo /\ Ahead = loc[Loop].todo /\ Underway' = {} /\ Underway = {}
        /\ Reloads' = Reloads /\ Ticks' = Ticks
    BY <1>1, <1>3, <2>1, <2>2 DEF Ahead, Underway, Reloads, Ticks
  <2>4. StartInv'
    BY <1>1, <1>3, <2>1, <2>2, <2>3 DEF StartInv, FireSkips
  <2>5. TableInv'
    BY <1>1, <1>3, <2>1, <2>2, <2>3 DEF TableInv, FireSkips
  <2>6. StoreInv'
    BY <1>1, <1>3, <2>1, <2>2, <2>3 DEF StoreInv, FireSkips
  <2> QED BY <2>4, <2>5, <2>6 DEF Unedited
<1> QED BY <1>5, <1>6, <1>7 DEF Inv

\* The repair of an entry: in the table, or nowhere, ...
LEMMA RepairRowInv ==
    ASSUME Inv, NEW g \in Goroutines, RepairRow(g)
    PROVE  Inv'
<1> DEFINE id == First(loc[g].todo)
           e == loc[g].rows[id]
           next == NextRun(e.cron, loc[g].now)
           fixed == WithTimes(e, e.last, next)
           rows == Put(loc[g].rows, id, fixed)
<1>1. loc[g].at = "reloading" /\ loc[g].todo # {} /\ loc[g].at \in Walking
  BY DEF RepairRow, Walking
<1>2. id \in loc[g].todo /\ id \in Ids /\ id \in DOMAIN loc[g].rows /\ e \in Row
  BY <1>1, NextEntry
<1>3. loc[g] \in Local /\ loc[g].rows \in Tables /\ loc[g].now \in Times /\ loc[g].now \in Nat
  BY <1>1, WalkerFacts, SchedulerAssumption DEF Times
<1>4. next \in Times /\ (next # 0 => loc[g].now < next)
  BY <1>2, <1>3, NextRunFacts, RowTimes
<1>5. fixed \in Row /\ fixed.last = e.last /\ fixed.next = next
  <2>1. e \in Row /\ e.last \in Times /\ next \in Times
    BY <1>2, <1>4, RowTimes
  <2> HIDE DEF e, next
  <2> QED BY <2>1, WithTimesFacts
<1>6. /\ rows \in Tables /\ DOMAIN rows = DOMAIN loc[g].rows /\ rows[id] = fixed
      /\ \A i \in DOMAIN loc[g].rows \ {id} : rows[i] = loc[g].rows[i]
  BY <1>2, <1>3, <1>5, PutFacts
<1>a. UNCHANGED <<now, nextId, jobs, running, exec, edits, crashes, bound>>
  BY DEF RepairRow
<1>7. CASE /\ table' = IF id \in DOMAIN table THEN [table EXCEPT ![id].next = next] ELSE table
           /\ Set(g, [loc[g] EXCEPT !.at = "repair", !.id = id, !.rows = rows])
  <2> DEFINE l == [loc[g] EXCEPT !.at = "repair", !.id = id, !.rows = rows]
  <2> HIDE DEF id, e, next, fixed, rows
  <2>1. id \in 0 .. MaxId
    BY <1>2, SchedulerAssumption DEF Ids
  <2>2. /\ l \in Local /\ l.at = "repair" /\ l.id = id /\ l.rows = rows
        /\ l.todo = loc[g].todo /\ l.now = loc[g].now /\ Set(g, l)
    BY <1>3, <1>6, <1>7, <2>1 DEF Local, At
  <2> HIDE DEF l
  <2>3. WalkOK(l)
    BY <1>1, <1>2, <1>6, <2>2, WalkerFacts DEF WalkOK
  <2>4. /\ table' \in Tables /\ DOMAIN table' = DOMAIN table
        /\ \A i \in DOMAIN table : table'[i].last = table[i].last /\ (i # id => table'[i] = table[i])
        /\ id \in DOMAIN table => table'[id].next = next
    <3>1. CASE id \notin DOMAIN table
      BY <1>7, <3>1 DEF Inv, TypeOK
    <3>2. CASE id \in DOMAIN table
      <4>1. table[id] \in Row /\ [table[id] EXCEPT !.next = next] \in Row
        BY <1>4, <3>2, TablesAre DEF Inv, TypeOK, Row
      <4>2. table' = [table EXCEPT ![id] = [table[id] EXCEPT !.next = next]]
        BY <1>7, <3>2
      <4> QED BY <3>2, <4>1, <4>2, TablesAre DEF Inv, TypeOK, Row
    <3> QED BY <3>1, <3>2
  <2>5. TypeOK'
    BY <1>a, <2>2, <2>4, SetFacts DEF Inv, TypeOK
  <2>6. WalkInv' /\ ExecInv'
    BY <1>a, <2>2, <2>3, WalkKept, ExecKept DEF Inv
  <2>7. ASSUME edits' = 0 PROVE Unedited'
    <3>1. g = Loop /\ StartInv /\ TableInv /\ StoreInv
      BY <1>1, <1>a, <2>7, OnlyLoop DEF Inv, Unedited
    <3>2. loc'[Loop] = l /\ \A w \in Writers : loc'[w].at = "none"
      BY <2>2, <3>1, SetFacts, LoopIs DEF Inv, StartInv
    <3>3. /\ Ahead = loc[Loop].todo /\ Ahead' = loc[Loop].todo \ {id} /\ Underway' = {id}
          /\ Reloads /\ ~Ticks'
      BY <1>1, <2>2, <3>1, <3>2 DEF Ahead, Underway, Reloads, Ticks, Walking
    <3>4. id \notin running
      BY <1>2, <3>1, <3>3 DEF StartInv
    <3>5. StartInv'
      BY <1>1, <1>2, <1>a, <2>2, <3>1, <3>2, <3>3, <3>4 DEF StartInv
    <3>6. /\ e.last \in Nat /\ e.last <= loc[Loop].now /\ next \in Nat
          /\ \A i \in DOMAIN table : table[i].last \in Nat
      BY <1>2, <1>4, <3>1, RowTimes, TablesAre, SchedulerAssumption
         DEF TableInv, e, Inv, TypeOK, Times
    <3>7. id \in DOMAIN table => table[id].last <= e.last
      BY <1>2, <3>1, <3>3 DEF StoreInv, e
    <3>8. TableInv'
      <4>1. \A i \in DOMAIN table' : RowOK(table'[i]) /\ table'[i].last <= now
        BY <1>3, <1>4, <2>4, <3>1, <3>6, <3>7 DEF TableInv, RowOK
      <4>2. \A i \in DOMAIN rows : RowOK(rows[i]) /\ rows[i].last <= loc[Loop].now
        BY <1>3, <1>4, <1>5, <1>6, <3>1, <3>6 DEF TableInv, RowOK
      <4> QED BY <1>a, <2>2, <3>1, <3>2, <3>3, <4>1, <4>2 DEF TableInv
    <3>9. StoreInv'
      <4>1. \A i \in DOMAIN table \cap DOMAIN jobs : exec[i] > 0 => i # id
        BY <3>4, ExecIsRunning
      <4>2. \A i \in loc[Loop].todo : i \in DOMAIN table => table[i].last <= rows[i].last
        BY <1>1, <1>2, <1>5, <1>6, <3>1, <3>3, <3>7, WalkerFacts DEF StoreInv
      <4> QED BY <1>2, <1>a, <2>2, <2>4, <3>1, <3>2, <3>3, <4>1, <4>2 DEF StoreInv
    <3> QED BY <3>5, <3>8, <3>9 DEF Unedited
  <2> QED BY <2>5, <2>6, <2>7 DEF Inv
<1>8. CASE table' = table /\ Set(g, [loc[g] EXCEPT !.todo = @ \ {id}])
  <2> DEFINE todo == loc[g].todo \ {id}
             l == [loc[g] EXCEPT !.todo = todo]
  <2>1. Set(g, l) /\ todo \subseteq loc[g].todo
    BY <1>8
  <2> HIDE DEF id, e, next, fixed, rows, todo
  <2>2. /\ l \in Local /\ l.at = loc[g].at /\ l.rows = loc[g].rows /\ l.todo = todo
        /\ l.now = loc[g].now /\ l.back = loc[g].back
    BY <1>1, <2>1, WalkerFacts, TablesAre DEF Local
  <2> HIDE DEF l
  <2>3. WalkOK(l)
    BY <1>1, <2>1, <2>2, WalkerFacts DEF WalkOK
  <2>4. TypeOK'
    BY <1>8, <1>a, <2>1, <2>2, SetFacts DEF Inv, TypeOK
  <2>5. WalkInv' /\ ExecInv'
    BY <1>1, <1>a, <2>1, <2>2, <2>3, WalkKept, ExecKept DEF Inv
  <2>6. ASSUME edits' = 0 PROVE Unedited'
    <3>1. g = Loop /\ StartInv /\ TableInv /\ StoreInv
      BY <1>1, <1>a, <2>6, OnlyLoop DEF Inv, Unedited
    <3>2. loc'[Loop] = l /\ \A w \in Writers : loc'[w].at = "none"
      BY <1>1, <2>1, <2>2, <3>1, SetFacts, LoopIs DEF Inv, StartInv
    <3>3. /\ Ahead' = todo /\ Ahead = loc[Loop].todo /\ Underway' = {} /\ Underway = {}
          /\ Reloads /\ ~Ticks'
      BY <1>1, <2>2, <3>1, <3>2 DEF Ahead, Underway, Reloads, Ticks
    <3>4. StartInv'
      BY <1>1, <1>a, <2>1, <2>2, <3>1, <3>2, <3>3 DEF StartInv
    <3>5. TableInv'
      BY <1>8, <1>a, <2>2, <3>1, <3>2, <3>3 DEF TableInv
    <3>6. StoreInv'
      BY <1>1, <1>8, <1>a, <2>1, <2>2, <3>1, <3>2, <3>3 DEF StoreInv
    <3> QED BY <3>4, <3>5, <3>6 DEF Unedited
  <2> QED BY <2>4, <2>5, <2>6 DEF Inv
<1> QED BY <1>7, <1>8 DEF RepairRow

\* ... then in memory.
LEMMA RepairEntryInv ==
    ASSUME Inv, NEW g \in Goroutines, RepairEntry(g)
    PROVE  Inv'
<1> DEFINE id == loc[g].id
           l == [loc[g] EXCEPT !.at = "reloading", !.todo = Visited(g)]
<1>1. loc[g].at = "repair" /\ loc[g].at \in Walking
  BY DEF RepairEntry, Walking
<1>2. id \in DOMAIN loc[g].rows /\ id \in Ids /\ loc[g].rows[id] \in Row
  BY <1>1, WalkerFacts DEF Inv, WalkInv, WalkOK
<1>3. /\ jobs' \in Tables /\ DOMAIN jobs' = DOMAIN jobs
      /\ id \in DOMAIN jobs => jobs'[id] = loc[g].rows[id]
      /\ \A i \in DOMAIN jobs \ {id} : jobs'[i] = jobs[i]
  BY <1>2, PutFacts DEF RepairEntry, Inv, TypeOK
<1>4. Set(g, l)
  BY DEF RepairEntry
<1>5. /\ l \in Local /\ l.at = "reloading" /\ l.rows = loc[g].rows
      /\ l.todo = loc[g].todo \ {id} /\ l.now = loc[g].now
  BY <1>1, WalkerFacts DEF Local, At, Visited
<1> HIDE DEF l, id
<1>6. WalkOK(l)
  BY <1>1, <1>5, WalkerFacts DEF WalkOK
<1>7. TypeOK'
  BY <1>3, <1>4, <1>5, SetFacts DEF Inv, TypeOK, RepairEntry
<1>8. WalkInv' /\ ExecInv'
  BY <1>4, <1>5, <1>6, WalkKept, ExecKept DEF Inv, RepairEntry
<1>9. ASSUME edits' = 0 PROVE Unedited'
  <2>1. g = Loop /\ StartInv /\ TableInv /\ StoreInv
    BY <1>1, <1>9, OnlyLoop DEF Inv, Unedited, RepairEntry
  <2>2. loc'[Loop] = l /\ \A w \in Writers : loc'[w].at = "none"
    BY <1>4, <1>5, <2>1, SetFacts, LoopIs DEF Inv, StartInv
  <2>3. /\ Underway = {id} /\ Underway' = {} /\ Ahead' = loc[Loop].todo \ {id} /\ Ahead = Ahead'
        /\ Reloads /\ ~Ticks'
    BY <1>1, <1>5, <2>1, <2>2 DEF Ahead, Underway, Reloads, Ticks, Walking, id
  <2>4. id \notin running
    BY <1>1, <2>1 DEF StartInv, id
  <2>5. StartInv'
    BY <1>5, <2>1, <2>2, <2>3 DEF StartInv, RepairEntry
  <2>6. TableInv'
    <3>1. /\ RowOK(loc[Loop].rows[id]) /\ loc[Loop].rows[id].last <= now
      BY <1>1, <1>2, <2>1, RowTimes, WalkerFacts, SchedulerAssumption DEF TableInv, Inv, TypeOK, Times
    <3>2. \A i \in DOMAIN jobs' : RowOK(jobs'[i]) /\ jobs'[i].last <= now
      BY <1>3, <2>1, <3>1 DEF TableInv
    <3> QED BY <1>5, <2>1, <2>2, <2>3, <3>2 DEF TableInv, RepairEntry
  <2>7. StoreInv'
    <3>1. \A i \in DOMAIN table \cap DOMAIN jobs : exec[i] > 0 => i # id
      BY <2>4, ExecIsRunning
    <3>2. \A i \in DOMAIN table \cap DOMAIN jobs : table[i].last <= jobs'[i].last
      BY <1>3, <2>1, <2>3 DEF StoreInv
    <3> QED BY <1>3, <1>5, <2>1, <2>2, <2>3, <3>1, <3>2 DEF StoreInv, RepairEntry
  <2> QED BY <2>5, <2>6, <2>7 DEF Unedited
<1> QED BY <1>7, <1>8, <1>9 DEF Inv

\* fire, registering: the goroutine owns the registration, the list is ahead of
\* the table by this run.
LEMMA FireRegistersInv ==
    ASSUME Inv, NEW g \in Goroutines, FireRegisters(g)
    PROVE  Inv'
<1> DEFINE id == First(loc[g].todo)
           e == loc[g].rows[id]
           next == NextRun(e.cron, loc[g].now)
           fired == WithTimes(e, loc[g].now, next)
           rows == Put(loc[g].rows, id, fired)
           l == [loc[g] EXCEPT !.at = "write", !.back = loc[g].at, !.id = id,
                               !.due = e.next, !.rows = rows]
<1>1. /\ loc[g].todo # {} /\ loc[g].at \in {"reloading", "ticking"} /\ loc[g].at \in Walking
  BY DEF FireRegisters, Firing, Walking
<1>2. id \in loc[g].todo /\ id \in Ids /\ id \in DOMAIN loc[g].rows /\ e \in Row
  BY <1>1, NextEntry
<1>3. loc[g] \in Local /\ loc[g].rows \in Tables /\ loc[g].now \in Times /\ loc[g].now \in Nat
  BY <1>1, WalkerFacts, SchedulerAssumption DEF Times
<1>4. next \in Times /\ (next # 0 => loc[g].now < next) /\ e.next \in Times /\ e.next \in Nat /\ e.last \in Nat
  BY <1>2, <1>3, NextRunFacts, RowTimes DEF Row
<1>5. fired \in Row /\ fired.last = loc[g].now /\ fired.next = next
  <2>1. e \in Row /\ loc[g].now \in Times /\ next \in Times
    BY <1>2, <1>3, <1>4
  <2> HIDE DEF e, next
  <2> QED BY <2>1, WithTimesFacts
<1>6. /\ rows \in Tables /\ DOMAIN rows = DOMAIN loc[g].rows /\ rows[id] = fired
      /\ \A i \in DOMAIN loc[g].rows \ {id} : rows[i] = loc[g].rows[i]
  <2> HIDE DEF id, fired
  <2> QED BY <1>2, <1>3, <1>5, PutFacts
<1>7. /\ id \notin running /\ running' = running \cup {id}
      /\ jobs' = Put(jobs, id, fired)
      /\ Set(g, l)
      /\ UNCHANGED <<now, table, nextId, exec, edits, crashes, bound>>
  BY DEF FireRegisters
<1>8. edits = 0 => \/ e.last = 0
                   \/ e.next # 0
  <2> SUFFICES ASSUME edits = 0, e.last # 0 PROVE e.next # 0
    OBVIOUS
  <2>1. g = Loop /\ TableInv
    BY <1>1, OnlyLoop DEF Inv, Unedited
  <2>2. CASE loc[g].at = "ticking"
    BY <1>2, <2>1, <2>2 DEF TableInv, Ticks, Ahead, Underway, Walking
  <2>3. CASE loc[g].at = "reloading"
    BY <2>3 DEF FireRegisters, Firing, CatchUp, Passed
  <2> QED BY <1>1, <2>2, <2>3
<1> HIDE DEF id, e, next, fired, rows
<1>9. /\ jobs' \in Tables /\ DOMAIN jobs' = DOMAIN jobs
      /\ id \in DOMAIN jobs => jobs'[id] = fired
      /\ \A i \in DOMAIN jobs \ {id} : jobs'[i] = jobs[i]
  BY <1>2, <1>5, <1>7, PutFacts DEF Inv, TypeOK
<1>10. /\ l \in Local /\ l.at = "write" /\ l.back = loc[g].at /\ l.id = id /\ l.due = e.next
       /\ l.rows = rows /\ l.todo = loc[g].todo /\ l.now = loc[g].now
  <2>1. id \in 0 .. MaxId
    BY <1>2, SchedulerAssumption DEF Ids
  <2> QED BY <1>3, <1>4, <1>6, <2>1 DEF Local, At
<1> HIDE DEF l
<1>11. WalkInv'
  <2>1. WalkOK(l)
    BY <1>1, <1>2, <1>6, <1>10, WalkerFacts DEF WalkOK
  <2> QED BY <1>7, <1>10, <2>1, WalkKept DEF Inv
<1>12. TypeOK'
  <2>1. running' \subseteq Ids
    BY <1>2, <1>7 DEF Inv, TypeOK
  <2> QED BY <1>7, <1>9, <1>10, <2>1, SetFacts DEF Inv, TypeOK
<1>13. ExecInv'
  <2>1. loc'[g] = l /\ \A h \in Goroutines \ {g} : loc'[h] = loc[h]
    BY <1>7, <1>10, SetFacts DEF Inv
  <2>2. \A h \in Goroutines : loc[h].at = "write" => loc[h].id # id
    BY <1>7 DEF Inv, ExecInv
  <2>3. exec[id] = 0
    BY <1>2, <1>7 DEF Inv, ExecInv
  <2> QED BY <1>7, <1>10, <2>1, <2>2, <2>3 DEF Inv, ExecInv
<1>14. ASSUME edits' = 0 PROVE Unedited'
  <2>1. g = Loop /\ StartInv /\ TableInv /\ StoreInv
    BY <1>1, <1>7, <1>14, OnlyLoop DEF Inv, Unedited
  <2>2. loc'[Loop] = l /\ \A w \in Writers : loc'[w].at = "none"
    BY <1>7, <1>10, <2>1, SetFacts, LoopIs DEF Inv, StartInv
  <2>3. /\ Ahead = loc[Loop].todo /\ Underway = {} /\ Ahead' = loc[Loop].todo \ {id}
        /\ Underway' = {id} /\ Ticks' = Ticks /\ Reloads' = Reloads
    BY <1>1, <1>10, <2>1, <2>2 DEF Ahead, Underway, Reloads, Ticks, Walking
  <2>4. StartInv'
    BY <1>7, <1>10, <2>1, <2>2, <2>3 DEF StartInv
  <2>5. RowOK(fired) /\ fired.last <= now
    BY <1>3, <1>4, <1>5, <2>1 DEF RowOK, TableInv
  <2>6. /\ e.last <= loc[Loop].now /\ RowOK(e)
        /\ id \in DOMAIN table => table[id].last <= e.last /\ table[id].last \in Nat
    BY <1>2, <2>1, <2>3, RowTimes, TablesAre DEF TableInv, StoreInv, e, Inv, TypeOK
  <2>7. TableInv'
    <3>1. \A i \in DOMAIN jobs' : RowOK(jobs'[i]) /\ jobs'[i].last <= now
      BY <1>9, <2>1, <2>5 DEF TableInv
    <3>2. \A i \in DOMAIN rows : RowOK(rows[i]) /\ rows[i].last <= loc[Loop].now
      BY <1>3, <1>5, <1>6, <2>1, <2>5 DEF TableInv
    <3>3. Ticks' => \A i \in loc[Loop].todo \ {id} : rows[i].next # 0
      BY <1>1, <1>6, <2>1, <2>3, WalkerFacts DEF TableInv
    <3> QED BY <1>7, <1>10, <2>1, <2>2, <2>3, <3>1, <3>2, <3>3 DEF TableInv
  <2>8. StoreInv'
    <3>1. \A i \in DOMAIN table \cap DOMAIN jobs : table[i].last <= jobs'[i].last
      BY <1>3, <1>4, <1>5, <1>9, <2>1, <2>6 DEF StoreInv
    <3>2. \A i \in DOMAIN table \cap loc[Loop].todo : table[i].last <= rows[i].last
      BY <1>1, <1>3, <1>4, <1>5, <1>6, <2>1, <2>3, <2>6, WalkerFacts DEF StoreInv
    <3>3. id \in DOMAIN table => table[id].last < e.next \/ table[id].last = 0
      BY <1>4, <1>7, <1>8, <1>14, <2>6 DEF RowOK
    <3>4. id \in DOMAIN jobs => SameTimes(jobs'[id], rows[id])
      BY <1>6, <1>9 DEF SameTimes
    <3>5. \A i \in DOMAIN table \cap DOMAIN jobs : exec[i] > 0 => SameTimes(table[i], jobs'[i])
      BY <1>7, <1>9, <2>1, ExecIsRunning DEF StoreInv
    <3> QED BY <1>2, <1>7, <1>9, <1>10, <2>1, <2>2, <2>3, <3>1, <3>2, <3>3, <3>4, <3>5 DEF StoreInv
  <2> QED BY <2>4, <2>7, <2>8 DEF Unedited
<1> QED BY <1>11, <1>12, <1>13, <1>14 DEF Inv

\* fire, storing: the table catches up, the registration passes to exec.
LEMMA FireWritesInv ==
    ASSUME Inv, NEW g \in Goroutines, FireWrites(g)
    PROVE  Inv'
<1> DEFINE id == loc[g].id
           fired == loc[g].rows[id]
           l == [loc[g] EXCEPT !.at = loc[g].back, !.todo = Visited(g)]
<1>1. loc[g].at = "write" /\ loc[g].at \in Walking /\ loc[g].back \in {"reloading", "ticking"}
  BY DEF FireWrites, Walking, Inv, WalkInv, WalkOK
<1>2. id \in DOMAIN loc[g].rows /\ id \in Ids /\ fired \in Row
  BY <1>1, WalkerFacts DEF Inv, WalkInv, WalkOK
<1>3. /\ table' = IF id \notin DOMAIN table THEN table
                  ELSE [table EXCEPT ![id] = WithTimes(table[id], fired.last, fired.next)]
      /\ Set(g, l)
      /\ UNCHANGED <<now, nextId, jobs, running, edits, crashes, bound>>
  BY DEF FireWrites
<1>4. /\ l \in Local /\ l.at = loc[g].back /\ l.rows = loc[g].rows
      /\ l.todo = loc[g].todo \ {id} /\ l.now = loc[g].now
  BY <1>1, WalkerFacts DEF Local, At, Visited
<1>5. /\ exec[id] = 0 /\ id \in running /\ exec' = [exec EXCEPT ![id] = 1]
      /\ \A h \in Goroutines \ {g} : loc[h].at = "write" => loc[h].id # id
  <2>1. exec[id] = 0 /\ id \in running /\ 0 + 1 = 1
    BY <1>1 DEF Inv, ExecInv
  <2>2. exec' = [exec EXCEPT ![id] = 1]
    BY <2>1 DEF FireWrites
  <2> QED BY <1>1, <2>1, <2>2 DEF Inv, ExecInv
<1> HIDE DEF l, id, fired
<1>6. /\ table' \in Tables /\ DOMAIN table' = DOMAIN table
      /\ id \in DOMAIN table => table'[id].last = fired.last /\ table'[id].next = fired.next
      /\ \A i \in DOMAIN table \ {id} : table'[i] = table[i]
  <2>1. CASE id \notin DOMAIN table
    BY <1>3, <2>1 DEF Inv, TypeOK
  <2>2. CASE id \in DOMAIN table
    <3>1. table[id] \in Row /\ fired.last \in Times /\ fired.next \in Times
      BY <1>2, <2>2, TablesAre DEF Inv, TypeOK, Row
    <3>2. /\ WithTimes(table[id], fired.last, fired.next) \in Row
          /\ WithTimes(table[id], fired.last, fired.next).last = fired.last
          /\ WithTimes(table[id], fired.last, fired.next).next = fired.next
      BY <3>1, WithTimesFacts
    <3> QED BY <1>3, <2>2, <3>2, TablesAre DEF Inv, TypeOK
  <2> QED BY <2>1, <2>2
<1>7. WalkInv'
  <2>1. WalkOK(l)
    BY <1>1, <1>4, WalkerFacts DEF WalkOK
  <2> QED BY <1>3, <1>4, <2>1, WalkKept DEF Inv
<1>8. TypeOK'
  <2>1. exec' \in [Ids -> Nat]
    BY <1>5 DEF Inv, TypeOK
  <2> QED BY <1>3, <1>4, <1>6, <2>1, SetFacts DEF Inv, TypeOK
<1>9. ExecInv'
  <2>1. loc'[g] = l /\ \A h \in Goroutines \ {g} : loc'[h] = loc[h]
    BY <1>3, <1>4, SetFacts DEF Inv
  <2>2. \A i \in Ids : /\ i = id => exec'[i] = 1
                       /\ i # id => exec'[i] = exec[i]
    BY <1>5 DEF Inv, TypeOK
  <2>3. \A h \in Goroutines : loc'[h].at = "write" =>
            /\ h # g /\ loc[h].at = "write" /\ loc'[h].id = loc[h].id /\ loc[h].id # id
            /\ loc[h].id \in Ids
    <3> SUFFICES ASSUME NEW h \in Goroutines, loc'[h].at = "write"
                 PROVE  /\ h # g /\ loc[h].at = "write" /\ loc'[h].id = loc[h].id
                        /\ loc[h].id # id /\ loc[h].id \in Ids
      OBVIOUS
    <3>1. h # g /\ loc[h].at = "write" /\ loc'[h].id = loc[h].id /\ loc[h].id # id
      BY <1>1, <1>4, <1>5, <2>1
    <3>2. loc[h].id \in Ids
      BY <3>1, WalkerFacts DEF Walking, Inv, WalkInv, WalkOK
    <3> QED BY <3>1, <3>2
  <2> QED BY <1>3, <1>5, <2>2, <2>3 DEF Inv, ExecInv
<1>10. ASSUME edits' = 0 PROVE Unedited'
  <2>1. g = Loop /\ StartInv /\ TableInv /\ StoreInv
    BY <1>1, <1>3, <1>10, OnlyLoop DEF Inv, Unedited
  <2>2. loc'[Loop] = l /\ \A w \in Writers : loc'[w].at = "none"
    BY <1>3, <1>4, <2>1, SetFacts, LoopIs DEF Inv, StartInv
  <2>3. /\ Underway = {id} /\ Underway' = {} /\ Ahead' = loc[Loop].todo \ {id} /\ Ahead = Ahead'
        /\ Reloads' = Reloads /\ Ticks' = Ticks
    BY <1>1, <1>4, <2>1, <2>2 DEF Ahead, Underway, Reloads, Ticks, Walking, id
  <2>4. StartInv'
    BY <1>1, <1>3, <1>4, <2>1, <2>2, <2>3 DEF StartInv
  <2>5. RowOK(fired) /\ fired.last <= now
    BY <1>1, <1>2, <2>1, RowTimes, WalkerFacts, SchedulerAssumption
       DEF TableInv, fired, Inv, TypeOK, Times
  <2>6. TableInv'
    <3>1. \A i \in DOMAIN table' : RowOK(table'[i]) /\ table'[i].last <= now
      BY <1>6, <2>1, <2>5 DEF TableInv, RowOK
    <3> QED BY <1>3, <1>4, <2>1, <2>2, <2>3, <3>1 DEF TableInv
  <2>7. StoreInv'
    <3>1. id \in DOMAIN jobs => jobs[id].last = fired.last /\ jobs[id].next = fired.next
      BY <1>1, <2>1 DEF StoreInv, SameTimes, id, fired
    <3>2. fired.last \in Nat
      BY <1>2, RowTimes
    <3>3. \A i \in DOMAIN table \cap DOMAIN jobs : table'[i].last <= jobs[i].last
      BY <1>6, <2>1, <3>1, <3>2 DEF StoreInv
    <3>4. \A i \in DOMAIN table \cap (loc[Loop].todo \ {id}) :
              table'[i].last <= loc[Loop].rows[i].last
      BY <1>6, <2>1, <2>3 DEF StoreInv
    <3>5. \A i \in DOMAIN table \cap DOMAIN jobs : exec'[i] > 0 => SameTimes(table'[i], jobs[i])
      <4>1. \A i \in DOMAIN table \ {id} : exec'[i] = exec[i]
        BY <1>5, TablesAre DEF Inv, TypeOK
      <4> QED BY <1>6, <2>1, <3>1, <4>1 DEF StoreInv, SameTimes
    <3> QED BY <1>1, <1>3, <1>4, <1>6, <2>1, <2>2, <2>3, <3>3, <3>4, <3>5 DEF StoreInv
  <2> QED BY <2>4, <2>6, <2>7 DEF Unedited
<1> QED BY <1>7, <1>8, <1>9, <1>10 DEF Inv

\* fire, failing to store: the registration is given back.
LEMMA FireFailsInv ==
    ASSUME Inv, NEW g \in Goroutines, FireFails(g)
    PROVE  Inv'
<1> DEFINE id == loc[g].id
           l == [loc[g] EXCEPT !.at = loc[g].back, !.todo = Visited(g)]
<1>1. loc[g].at = "write" /\ loc[g].at \in Walking /\ loc[g].back \in {"reloading", "ticking"}
  BY DEF FireFails, Walking, Inv, WalkInv, WalkOK
<1>2. /\ l \in Local /\ l.at = loc[g].back /\ l.rows = loc[g].rows
      /\ l.todo = loc[g].todo \ {id} /\ l.now = loc[g].now
  BY <1>1, WalkerFacts DEF Local, At, Visited
<1>3. Set(g, l) /\ running' = running \ {id}
      /\ UNCHANGED <<now, table, nextId, jobs, exec, edits, crashes, bound>>
  BY DEF FireFails
<1>4. /\ \A h \in Goroutines \ {g} : loc[h].at = "write" => loc[h].id # id
      /\ exec[id] = 0
  BY <1>1 DEF Inv, ExecInv
<1> HIDE DEF l, id
<1>5. WalkInv'
  <2>1. WalkOK(l)
    BY <1>1, <1>2, WalkerFacts DEF WalkOK
  <2> QED BY <1>2, <1>3, <2>1, WalkKept DEF Inv
<1>6. TypeOK'
  BY <1>2, <1>3, SetFacts DEF Inv, TypeOK
<1>7. ExecInv'
  <2>1. loc'[g] = l /\ \A h \in Goroutines \ {g} : loc'[h] = loc[h]
    BY <1>2, <1>3, SetFacts DEF Inv
  <2> QED BY <1>1, <1>2, <1>3, <1>4, <2>1 DEF Inv, ExecInv
<1>8. ASSUME edits' = 0 PROVE Unedited'
  <2>1. g = Loop /\ StartInv /\ TableInv /\ StoreInv
    BY <1>1, <1>3, <1>8, OnlyLoop DEF Inv, Unedited
  <2>2. loc'[Loop] = l /\ \A w \in Writers : loc'[w].at = "none"
    BY <1>2, <1>3, <2>1, SetFacts, LoopIs DEF Inv, StartInv
  <2>3. /\ Underway = {id} /\ Underway' = {} /\ Ahead' = loc[Loop].todo \ {id} /\ Ahead = Ahead'
        /\ Reloads' = Reloads /\ Ticks' = Ticks
    BY <1>1, <1>2, <2>1, <2>2 DEF Ahead, Underway, Reloads, Ticks, Walking, id
  <2>4. StartInv'
    BY <1>1, <1>2, <1>3, <2>1, <2>2, <2>3 DEF StartInv
  <2>5. TableInv'
    BY <1>2, <1>3, <2>1, <2>2, <2>3 DEF TableInv
  <2>6. StoreInv'
    BY <1>1, <1>2, <1>3, <2>1, <2>2, <2>3 DEF StoreInv
  <2> QED BY <2>4, <2>5, <2>6 DEF Unedited
<1> QED BY <1>5, <1>6, <1>7, <1>8 DEF Inv

LEMMA StepInv == Inv /\ [Next]_vars => Inv'
<1> SUFFICES ASSUME Inv, [Next]_vars PROVE Inv'
  OBVIOUS
<1>1. ASSUME NEW w \in Writers, HandlerNext(w) PROVE Inv'
  BY <1>1, CreateInv, PatchReadInv, PatchWriteInv, DeleteInv DEF HandlerNext
<1>2. ASSUME NEW g \in Goroutines, WalkNext(g) PROVE Inv'
  BY <1>2, LoadInv, LoadFailsInv, InstallInv, RepairRowInv, RepairEntryInv, FireSkipsInv,
     FireRegistersInv, FireWritesInv, FireFailsInv, WalkOverInv DEF WalkNext
<1>3. ASSUME NEW id \in Ids, ExecEnds(id) PROVE Inv'
  BY <1>3, ExecEndsInv
<1>4. CASE UNCHANGED vars
  BY <1>4 DEF vars, Inv, TypeOK, WalkInv, ExecInv, Unedited, StartInv, TableInv, StoreInv,
              Reloads, Ticks, Ahead, Underway
<1> QED BY <1>1, <1>2, <1>3, <1>4, TickInv, MinuteInv, RestartInv DEF Next

LEMMA SpecInv == Spec => []Inv
  BY InitInv, StepInv, PTL DEF Spec

-----------------------------------------------------------------------------
(* Theorems *)

\* The types of the scheduler's state.
THEOREM TypeCorrect == Spec => []TypeOK
<1>1. Inv => TypeOK
  BY DEF Inv
<1> QED BY <1>1, SpecInv, PTL

\* Two executions of one schedule never overlap, whatever handlers reload the
\* list while the loop ticks, statements fail and the panel restarts.
THEOREM NeverOverlap == Spec => []NoOverlap
<1>1. Inv => NoOverlap
  BY DEF Inv, ExecInv, NoOverlap
<1> QED BY <1>1, SpecInv, PTL

\* A schedule that is executing has its new times in the table already, as long
\* as nobody edited the table.
THEOREM StoredFirst == Spec => []StoredBeforeRun
<1>1. Inv => StoredBeforeRun
  BY DEF Inv, Unedited, StoreInv, SameTimes, StoredBeforeRun
<1> QED BY <1>1, SpecInv, PTL

\* No due time is served twice, over ticks, slow executions, failed statements
\* and restarts, as long as nobody edited the table.
THEOREM ServedAtMostOnce == Spec => ServedOnceUnedited
<1>1. ASSUME Inv, NEW g \in Goroutines,
             FireWrites(g) /\ loc[g].id \in DOMAIN table /\ edits = 0
      PROVE  table[loc[g].id].last < loc[g].due \/ table[loc[g].id].last = 0
  <2>1. g = Loop /\ loc[g].at = "write" /\ StoreInv
    BY <1>1, OnlyLoop DEF FireWrites, Inv, Unedited
  <2> QED BY <1>1, <2>1 DEF StoreInv
<1>2. Inv => \A g \in Goroutines :
                 FireWrites(g) /\ loc[g].id \in DOMAIN table /\ edits = 0 =>
                     table[loc[g].id].last < loc[g].due \/ table[loc[g].id].last = 0
  BY <1>1
<1> QED BY <1>2, SpecInv, PTL DEF ServedOnceUnedited
=============================================================================
