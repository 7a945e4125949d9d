------------------------------ MODULE BootProofs -----------------------------
(***************************************************************************)
(* Machine-checked facts about Boot and the Instances it is built on, for   *)
(* any handlers, requests, migrations and deaths of the panel.  The         *)
(* inductive invariant has a part for the tables and the handlers that edit *)
(* them, one for the migrations and one for the servers: the steps of one   *)
(* part leave the others alone, but for the status in a row.                *)
(***************************************************************************)
EXTENDS Boot, TLAPS, FiniteSetTheorems

\* Ids are given out once: no row, server or handler has one that is to come,
\* but for the grants that were made for it.
Given == 1 .. nextId - 1
OwnedGiven ==
    \A t \in Owned : \A i \in owned[t] : i \in Given \/ (t = "grants" /\ <<t, i>> \in late)

-----------------------------------------------------------------------------
(* The tables *)

GivenInv ==
    /\ DOMAIN inst \subseteq Given
    /\ OwnedGiven
    /\ \A h \in Handlers :
          /\ loc[h].id < nextId
          /\ loc[h].at \in {"made", "job"} => loc[h].kind \in Owned /\ loc[h].id \in Ids

\* As long as no two handlers were there at once, what a handler has checked
\* still holds when it writes.
CheckedInv ==
    \/ raced
    \/ /\ \A i \in DOMAIN inst : ~PortConflict(i, inst[i].ports)
       /\ \A h \in Handlers :
             /\ loc[h].at = "insert" => ~PortConflict(0, loc[h].row.ports)
             /\ loc[h].at = "update" => ~PortConflict(loc[h].id, loc[h].row.ports)
             /\ loc[h].at \in {"insert", "update"} => ~Checked(h)

\* What a delete has cleared stays clear, but for rows that came late.
Cleared(t, id) == id \in owned[t] => <<t, id>> \in late
ClearedInv ==
    \A h \in Handlers :
        /\ loc[h].at \in {"grants", "schedules", "list", "backups"} =>
               loc[h].id \in Ids /\ loc[h].id \notin DOMAIN inst
        /\ loc[h].at \in {"schedules", "list", "backups"} => Cleared("grants", loc[h].id)
        /\ loc[h].at \in {"list", "backups"} => Cleared("schedules", loc[h].id)

InstInv == InstTypeOK /\ GivenInv /\ CheckedInv /\ ClearedInv

-----------------------------------------------------------------------------
(* The migrations *)

\* The files before the one a panel is at are done.  What the schema has of it
\* is what this panel applied, unless another one died there.
MigInv ==
    /\ mig \in [file : 1 .. Len(Statements) + 1, stmt : Nat \ {0}]
    /\ applied \in [Files -> Nat] /\ \A f \in Files : applied[f] <= Statements[f]
    /\ versions \subseteq Files /\ phase \in Phases /\ crashes \in 0 .. MaxCrashes
    /\ \A f \in Files : f < mig.file => f \in versions
    /\ \A f \in versions : applied[f] = Statements[f]
    /\ phase \in {"exec", "insert", "fatal"} => mig.file \in Files \ versions
    /\ phase = "exec" => /\ mig.stmt <= Statements[mig.file]
                         /\ mig.stmt > 1 => applied[mig.file] = mig.stmt - 1
    /\ phase = "insert" => applied[mig.file] = Statements[mig.file]
    /\ phase = "fatal" => crashes > 0 /\ applied[mig.file] > 0
    /\ phase \in {"seed", "list", "autostart", "serving"} => versions = Files
    /\ crashes = 0 => /\ \A f \in Files \ versions : f # mig.file => applied[f] = 0
                      /\ phase = "check" => \A f \in Files \ versions : applied[f] = 0
                      /\ phase = "exec" => applied[mig.file] = mig.stmt - 1

-----------------------------------------------------------------------------
(* The servers *)

ServerTypeOK ==
    /\ \A i \in DOMAIN todo : i \in Ids /\ todo[i] \in Row
    /\ proc \in [Ids -> Procs] /\ idles \in [Ids -> Nat]
    /\ alive \subseteq Ids /\ reads \subseteq Ids /\ tells \subseteq Ids
    /\ auto \subseteq Ids /\ orphan \subseteq Ids /\ unseen \subseteq Ids
    /\ belied \subseteq Ids
    /\ starts \in 0 .. MaxStarts

\* The servers that live on and of which the row tells, or should.
Told == orphan \ unseen

\* The row of a server that lives on says "running", in the table and in the
\* list autostart walks over, and so it is never started beside: no run of it
\* is there, nor one that has yet to write its "idle".
ToldInv ==
    /\ orphan \subseteq Given
    /\ \A i \in Ids : proc[i] # "none" => i \in Given /\ i \notin Told
    /\ \A i \in Ids : idles[i] > 0 => i \notin Told
    /\ \A i \in alive : proc[i] \in Alive
    /\ \A i \in DOMAIN inst : i \in Told => inst[i].status = "running"
    /\ \A i \in DOMAIN todo : i \in Told => todo[i].status = "running"

ServerInv == ServerTypeOK /\ ToldInv /\ RunningIsStored

Inv == InstInv /\ MigInv /\ ServerInv

-----------------------------------------------------------------------------
(* Steps of the handlers *)

LEMMA FreshFacts ==
    /\ Blank \in Row /\ Blank.status = "idle"
    /\ Fresh \in Local /\ Fresh.at = "none" /\ Fresh.id = 0
<1>1. PICK dir \in Dirs, ports \in Ports : TRUE
  BY InstancesAssumption
<1>2. /\ [dir |-> dir, ports |-> ports, auto |-> FALSE, status |-> "idle"] \in Row
      /\ [dir |-> dir, ports |-> ports, auto |-> FALSE, status |-> "idle"].status = "idle"
  BY DEF Row, Statuses
<1>3. Blank \in Row /\ Blank.status = "idle"
  BY <1>2 DEF Blank
<1> QED BY <1>3, InstancesAssumption DEF Fresh, Local, At, Owned

LEMMA SetFacts ==
    ASSUME InstTypeOK, NEW h \in Handlers, NEW l \in Local, Set(h, l)
    PROVE  /\ loc' \in [Handlers -> Local] /\ loc'[h] = l
           /\ \A g \in Handlers \ {h} : loc'[g] = loc[g]
  BY DEF InstTypeOK, Set

\* A handler moves on, and edits rows that belong to instances at most.
LEMMA MovesInv ==
    ASSUME InstInv, NEW h \in Handlers, NEW l \in Local, Set(h, l),
           UNCHANGED <<inst, nextId>>, requests' \in 0 .. MaxRequests,
           raced' \in BOOLEAN, raced => raced',
           owned' \in [Owned -> SUBSET Ids], late' \subseteq Owned \X Ids,
           OwnedGiven',
           \A t \in Owned, i \in Ids \ DOMAIN inst : Cleared(t, i) => Cleared(t, i)',
           l.id < nextId,
           l.at \in {"made", "job"} => l.kind \in Owned /\ l.id \in Ids,
           l.at \in {"insert", "update"} =>
               \/ raced'
               \/ /\ ~Checked(h)
                  /\ l.at = "insert" => ~PortConflict(0, l.row.ports)
                  /\ l.at = "update" => ~PortConflict(l.id, l.row.ports),
           l.at \in {"grants", "schedules", "list", "backups"} =>
               l.id \in Ids /\ l.id \notin DOMAIN inst,
           l.at \in {"schedules", "list", "backups"} => Cleared("grants", l.id)',
           l.at \in {"list", "backups"} => Cleared("schedules", l.id)'
    PROVE  InstInv'
<1>1. loc' \in [Handlers -> Local] /\ loc'[h] = l /\ \A g \in Handlers \ {h} : loc'[g] = loc[g]
  BY SetFacts DEF InstInv
<1>2. InstTypeOK'
  BY <1>1 DEF InstInv, InstTypeOK
<1>3. GivenInv'
  BY <1>1 DEF InstInv, GivenInv, Given
<1>4. CheckedInv'
  <2>1. CASE raced'
    BY <2>1 DEF CheckedInv
  <2>2. CASE ~raced'
    <3>1. ~raced
      BY <2>2
    <3>2. \A i \in DOMAIN inst' : ~PortConflict(i, inst[i].ports)'
      BY <3>1 DEF InstInv, CheckedInv, PortConflict
    <3>3. ASSUME NEW g \in Handlers
          PROVE  /\ loc'[g].at = "insert" => ~PortConflict(0, loc[g].row.ports)'
                 /\ loc'[g].at = "update" => ~PortConflict(loc[g].id, loc[g].row.ports)'
      BY <1>1, <2>2, <3>1 DEF InstInv, CheckedInv, PortConflict
    <3>4. ASSUME NEW g \in Handlers, loc'[g].at \in {"insert", "update"} PROVE ~Checked(g)'
      BY <1>1, <2>2, <3>1, <3>4 DEF InstInv, CheckedInv, Checked
    <3> QED BY <3>2, <3>3, <3>4 DEF CheckedInv
  <2> QED BY <2>1, <2>2
<1>5. ClearedInv'
  <2>1. "grants" \in Owned /\ "schedules" \in Owned
    BY DEF Owned
  <2>2. ASSUME NEW g \in Handlers
        PROVE  /\ loc'[g].at \in {"grants", "schedules", "list", "backups"} =>
                      loc'[g].id \in Ids /\ loc'[g].id \notin DOMAIN inst'
               /\ loc'[g].at \in {"schedules", "list", "backups"} => Cleared("grants", loc[g].id)'
               /\ loc'[g].at \in {"list", "backups"} => Cleared("schedules", loc[g].id)'
    <3>1. CASE g = h
      BY <1>1, <3>1 DEF Cleared
    <3>2. CASE g # h
      <4>1. loc'[g] = loc[g]
        BY <1>1, <3>2
      <4>2. CASE loc[g].at \in {"grants", "schedules", "list", "backups"}
        <5>1. PICK i \in Ids \ DOMAIN inst : i = loc[g].id
          BY <4>2 DEF InstInv, ClearedInv
        <5>2. /\ loc[g].at \in {"schedules", "list", "backups"} => Cleared("grants", i)
              /\ loc[g].at \in {"list", "backups"} => Cleared("schedules", i)
          BY <5>1 DEF InstInv, ClearedInv
        <5>3. /\ loc[g].at \in {"schedules", "list", "backups"} => Cleared("grants", i)'
              /\ loc[g].at \in {"list", "backups"} => Cleared("schedules", i)'
          BY <2>1, <5>2
        <5> QED BY <4>1, <5>1, <5>3 DEF Cleared
      <4> QED BY <4>1, <4>2
    <3> QED BY <3>1, <3>2
  <2> QED BY <2>2 DEF ClearedInv
<1> QED BY <1>2, <1>3, <1>4, <1>5 DEF InstInv

LEMMA OwnedSame ==
    ASSUME InstInv, UNCHANGED <<nextId, owned, late>>
    PROVE  owned' \in [Owned -> SUBSET Ids] /\ late' \subseteq Owned \X Ids /\ OwnedGiven'
  BY DEF InstInv, InstTypeOK, GivenInv, OwnedGiven, Given

\* Of a handler that is far from its writes nothing is asked.
Far == {"none", "read", "made", "job", "row"}

LEMMA FarInv ==
    ASSUME InstInv, NEW h \in Handlers, NEW l \in Local, Set(h, l),
           UNCHANGED <<inst, nextId, owned, late>>, requests' \in 0 .. MaxRequests,
           raced' \in BOOLEAN, raced => raced',
           l.id < nextId, l.at \in Far,
           l.at \in {"made", "job"} => l.kind \in Owned /\ l.id \in Ids
    PROVE  InstInv'
<1>1. owned' \in [Owned -> SUBSET Ids] /\ late' \subseteq Owned \X Ids /\ OwnedGiven'
  BY OwnedSame
<1>2. \A t \in Owned, i \in Ids \ DOMAIN inst : Cleared(t, i) => Cleared(t, i)'
  BY DEF Cleared
<1> QED BY <1>1, <1>2, MovesInv DEF Far

LEMMA AcceptFacts == InstInv /\ Accept => requests' \in 0 .. MaxRequests
  BY InstancesAssumption DEF InstInv, InstTypeOK, Accept

LEMMA IdFacts ==
    ASSUME InstInv
    PROVE  /\ nextId \in Nat /\ nextId > 0 /\ MaxId \in Nat
           /\ \A i \in DOMAIN inst : i \in Ids /\ i \in 0 .. MaxId /\ i < nextId /\ inst[i] \in Row
           /\ \A h \in Handlers : loc[h] \in Local /\ loc[h].id \in 0 .. MaxId
  BY InstancesAssumption DEF InstInv, InstTypeOK, GivenInv, Given, Ids, Local

LEMMA CreateCheckInv ==
    ASSUME InstInv, NEW h \in Handlers, CreateCheck(h)
    PROVE  InstInv'
<1>1. PICK dir \in Dirs, ports \in Ports, au \in BOOLEAN :
          /\ ~PortConflict(0, ports)
          /\ Set(h, [Fresh EXCEPT !.at = "insert",
                        !.row = [dir |-> dir, ports |-> ports, auto |-> au, status |-> "idle"]])
  BY DEF CreateCheck
<1> DEFINE row == [dir |-> dir, ports |-> ports, auto |-> au, status |-> "idle"]
           l == [Fresh EXCEPT !.at = "insert", !.row = row]
<1>2. row \in Row /\ row.ports = ports
  BY DEF Row, Statuses
<1> HIDE DEF row
<1>3. l \in Local /\ l.at = "insert" /\ l.row = row /\ l.id = 0
  BY <1>2, FreshFacts DEF Local, At
<1>4. Set(h, l)
  BY <1>1 DEF row
<1> HIDE DEF l
<1>5. /\ requests' \in 0 .. MaxRequests /\ raced' = (raced \/ Checked(h)) /\ raced \in BOOLEAN
      /\ UNCHANGED <<inst, nextId, owned, late>>
  BY AcceptFacts DEF CreateCheck, InstInv, InstTypeOK
<1>6. raced' \in BOOLEAN
  BY <1>5, Zenon
<1>7. owned' \in [Owned -> SUBSET Ids] /\ late' \subseteq Owned \X Ids /\ OwnedGiven'
  BY <1>5, OwnedSame
<1>8. \A t \in Owned, i \in Ids \ DOMAIN inst : Cleared(t, i) => Cleared(t, i)'
  BY <1>5 DEF Cleared
<1>9. l.id < nextId
  BY <1>3, IdFacts
<1> QED BY <1>1, <1>2, <1>3, <1>4, <1>5, <1>6, <1>7, <1>8, <1>9, MovesInv

LEMMA PatchReadInv ==
    ASSUME InstInv, NEW h \in Handlers, PatchRead(h)
    PROVE  InstInv'
<1>0. PICK id \in DOMAIN inst : \E row :
          /\ \/ \E ports \in Ports : row = [inst[id] EXCEPT !.ports = ports]
             \/ row = [inst[id] EXCEPT !.auto = ~inst[id].auto]
          /\ Set(h, [Fresh EXCEPT !.at = "read", !.id = id, !.row = row])
  BY DEF PatchRead
<1>1. PICK row :
          /\ \/ \E ports \in Ports : row = [inst[id] EXCEPT !.ports = ports]
             \/ row = [inst[id] EXCEPT !.auto = ~inst[id].auto]
          /\ Set(h, [Fresh EXCEPT !.at = "read", !.id = id, !.row = row])
  BY <1>0
<1> DEFINE l == [Fresh EXCEPT !.at = "read", !.id = id, !.row = row]
<1>2. row \in Row
  <2>1. inst[id] \in Row
    BY <1>0, IdFacts
  <2>2. inst[id].auto \in BOOLEAN
    BY <2>1 DEF Row
  <2>3. (~inst[id].auto) \in BOOLEAN
    BY <2>2
  <2> QED BY <1>1, <2>1, <2>3 DEF Row
<1>3. l \in Local /\ l.at = "read" /\ l.id = id
  BY <1>2, FreshFacts, IdFacts DEF Local, At
<1>4. Set(h, l)
  BY <1>1
<1> HIDE DEF l
<1>5. requests' \in 0 .. MaxRequests /\ raced' \in BOOLEAN /\ raced' = raced /\ l.id < nextId
      /\ UNCHANGED <<inst, nextId, owned, late>>
  BY <1>3, AcceptFacts, IdFacts DEF PatchRead, InstInv, InstTypeOK
<1> QED BY <1>3, <1>4, <1>5, FarInv DEF Far

LEMMA PatchCheckInv ==
    ASSUME InstInv, NEW h \in Handlers, PatchCheck(h)
    PROVE  InstInv'
<1>1. /\ requests' \in 0 .. MaxRequests /\ raced' = (raced \/ Checked(h)) /\ raced \in BOOLEAN
      /\ UNCHANGED <<inst, nextId, owned, late>>
  BY DEF PatchCheck, InstInv, InstTypeOK
<1>2. raced' \in BOOLEAN
  BY <1>1, Zenon
<1>3. CASE PortConflict(loc[h].id, loc[h].row.ports)
  BY <1>1, <1>2, <1>3, FreshFacts, IdFacts, FarInv DEF PatchCheck, Return, Far
<1>4. CASE ~PortConflict(loc[h].id, loc[h].row.ports)
  <2> DEFINE l == [loc[h] EXCEPT !.at = "update"]
  <2>1. l \in Local /\ l.at = "update" /\ l.row = loc[h].row /\ l.id = loc[h].id /\ l.id < nextId
    BY IdFacts DEF Local, At, InstInv, GivenInv
  <2>2. Set(h, l)
    BY <1>4 DEF PatchCheck, Move
  <2> HIDE DEF l
  <2>3. owned' \in [Owned -> SUBSET Ids] /\ late' \subseteq Owned \X Ids /\ OwnedGiven'
    BY <1>1, OwnedSame
  <2>4. \A t \in Owned, i \in Ids \ DOMAIN inst : Cleared(t, i) => Cleared(t, i)'
    BY <1>1 DEF Cleared
  <2> QED BY <1>1, <1>2, <1>4, <2>1, <2>2, <2>3, <2>4, MovesInv
<1> QED BY <1>3, <1>4

LEMMA MakeLoadsInv ==
    ASSUME InstInv, NEW h \in Handlers, MakeLoads(h)
    PROVE  InstInv'
<1>1. PICK id \in DOMAIN inst, kind \in {"schedules", "backups"} :
          Set(h, [Fresh EXCEPT !.at = "made", !.id = id, !.kind = kind])
  BY DEF MakeLoads
<1> DEFINE l == [Fresh EXCEPT !.at = "made", !.id = id, !.kind = kind]
<1>2. l \in Local /\ l.at = "made" /\ l.id = id /\ l.kind \in Owned
  BY FreshFacts, IdFacts DEF Local, At, Owned
<1>3. requests' \in 0 .. MaxRequests /\ raced' \in BOOLEAN /\ raced' = raced
      /\ UNCHANGED <<inst, nextId, owned, late>>
  BY AcceptFacts DEF MakeLoads, InstInv, InstTypeOK
<1> HIDE DEF l
<1> QED BY <1>1, <1>2, <1>3, IdFacts, FarInv DEF Far, l

LEMMA BackupStartsInv ==
    ASSUME InstInv, NEW h \in Handlers, BackupStarts(h)
    PROVE  InstInv'
<1> DEFINE l == [loc[h] EXCEPT !.at = "job"]
<1>1. /\ l \in Local /\ l.at = "job" /\ l.id < nextId /\ Set(h, l)
      /\ l.kind \in Owned /\ l.id \in Ids
  BY IdFacts DEF Local, At, InstInv, GivenInv, BackupStarts, Move
<1> HIDE DEF l
<1> QED BY <1>1, FarInv DEF Far, BackupStarts, InstInv, InstTypeOK

LEMMA DeleteAsksInv ==
    ASSUME InstInv, NEW h \in Handlers, DeleteAsks(h)
    PROVE  InstInv'
<1>1. PICK id \in DOMAIN inst : Set(h, [Fresh EXCEPT !.at = "row", !.id = id])
  BY DEF DeleteAsks
<1> DEFINE l == [Fresh EXCEPT !.at = "row", !.id = id]
<1>2. l \in Local /\ l.at = "row" /\ l.id = id /\ l.id < nextId
  BY FreshFacts, IdFacts DEF Local, At
<1>3. Set(h, l)
  BY <1>1
<1> HIDE DEF l
<1> QED BY <1>2, <1>3, AcceptFacts, FarInv DEF Far, DeleteAsks, InstInv, InstTypeOK

LEMMA DeleteFailsInv ==
    ASSUME InstInv, NEW h \in Handlers, DeleteFails(h)
    PROVE  InstInv'
<1>1. Set(h, Fresh) /\ Fresh.id < nextId
  BY FreshFacts, IdFacts DEF DeleteFails, Return
<1> QED BY <1>1, FreshFacts, FarInv DEF Far, DeleteFails, InstInv, InstTypeOK

\* A row is inserted for an instance: late, if the instance is not there.
LEMMA InsertFacts ==
    ASSUME InstInv, NEW t \in Owned, NEW id \in Ids, t = "grants" \/ id < nextId,
           Insert(t, id), inst' = inst, nextId' = nextId
    PROVE  /\ owned' \in [Owned -> SUBSET Ids] /\ late' \subseteq Owned \X Ids
           /\ OwnedGiven'
           /\ \A s \in Owned, i \in Ids \ DOMAIN inst : Cleared(s, i) => Cleared(s, i)'
<1>1. id \in Given \/ (t = "grants" /\ <<t, id>> \in late')
  <2>1. id < nextId => id \in Given
    BY IdFacts DEF Given, Ids
  <2>2. id \in DOMAIN inst => id \in Given
    BY DEF InstInv, GivenInv
  <2> QED BY <2>1, <2>2 DEF Insert
<1>2. owned' \in [Owned -> SUBSET Ids] /\ late' \subseteq Owned \X Ids
  BY DEF Insert, InstInv, InstTypeOK
<1>3. OwnedGiven'
  <2> SUFFICES ASSUME NEW s \in Owned, NEW i \in owned'[s]
               PROVE  i \in Given' \/ (s = "grants" /\ <<s, i>> \in late')
    BY DEF OwnedGiven
  <2>1. (i = id /\ s = t) \/ i \in owned[s]
    BY DEF Insert, InstInv, InstTypeOK
  <2>2. late \subseteq late' /\ Given' = Given
    BY DEF Insert, Given
  <2> QED BY <1>1, <2>1, <2>2 DEF InstInv, GivenInv, OwnedGiven
<1>4. \A s \in Owned, i \in Ids \ DOMAIN inst : Cleared(s, i) => Cleared(s, i)'
  BY DEF Insert, Cleared, InstInv, InstTypeOK
<1> QED BY <1>2, <1>3, <1>4

LEMMA MakeInsertsInv ==
    ASSUME InstInv, NEW h \in Handlers, MakeInserts(h)
    PROVE  InstInv'
<1>1. PICK t \in Owned, id \in Ids : t = loc[h].kind /\ id = loc[h].id
  BY DEF MakeInserts, InstInv, GivenInv
<1>0. Insert(t, id) /\ inst' = inst /\ nextId' = nextId /\ id < nextId
  BY <1>1 DEF MakeInserts, InstInv, GivenInv
<1>2. Set(h, Fresh) /\ Fresh.id < nextId
  BY FreshFacts, IdFacts DEF MakeInserts, Return
<1> QED BY <1>0, <1>2, FreshFacts, InsertFacts, MovesInv DEF MakeInserts, InstInv, InstTypeOK

LEMMA ClearFacts ==
    ASSUME InstInv, NEW t \in Owned, NEW id, Clear(t, id), late' = late, nextId' = nextId
    PROVE  /\ owned' \in [Owned -> SUBSET Ids] /\ late' \subseteq Owned \X Ids
           /\ OwnedGiven'
           /\ \A s \in Owned : \A i : Cleared(s, i) => Cleared(s, i)'
           /\ Cleared(t, id)'
<1>1. /\ owned' \in [Owned -> SUBSET Ids] /\ late' \subseteq Owned \X Ids
      /\ \A s \in Owned : owned'[s] \subseteq owned[s]
      /\ id \notin owned'[t]
  BY DEF Clear, InstInv, InstTypeOK
<1>2. OwnedGiven'
  BY <1>1 DEF InstInv, GivenInv, OwnedGiven, Given
<1> QED BY <1>1, <1>2 DEF Cleared

LEMMA GrantInv ==
    ASSUME InstInv, NEW h \in Handlers, Grant(h)
    PROVE  InstInv'
<1>1. PICK id \in Ids : Insert("grants", id) \/ (Clear("grants", id) /\ late' = late)
  BY DEF Grant
<1>2. /\ "grants" \in Owned /\ inst' = inst /\ nextId' = nextId /\ raced' = raced
      /\ raced \in BOOLEAN /\ loc[h].at = "none"
  BY DEF Owned, Grant, InstInv, InstTypeOK
<1>3. Set(h, loc[h]) /\ loc[h] \in Local /\ loc[h].id < nextId
  BY DEF Grant, Set, InstInv, InstTypeOK, GivenInv
<1>4. /\ owned' \in [Owned -> SUBSET Ids] /\ late' \subseteq Owned \X Ids /\ OwnedGiven'
      /\ \A t \in Owned, i \in Ids \ DOMAIN inst : Cleared(t, i) => Cleared(t, i)'
  BY <1>1, <1>2, InsertFacts, ClearFacts
<1> QED BY <1>2, <1>3, <1>4, AcceptFacts, MovesInv DEF Grant

\* A delete goes on to its next statement.
LEMMA DeleteGrantsInv ==
    ASSUME InstInv, NEW h \in Handlers, DeleteGrants(h)
    PROVE  InstInv'
<1>0. PICK l : l = [loc[h] EXCEPT !.at = "schedules"]
  OBVIOUS
<1>1. l \in Local /\ l.at = "schedules" /\ l.id = loc[h].id /\ l.id < nextId /\ Set(h, l)
  BY <1>0, IdFacts DEF Local, At, InstInv, GivenInv, DeleteGrants, Move
<1>2. PICK id \in Ids : id = loc[h].id /\ id \notin DOMAIN inst
  BY DEF DeleteGrants, InstInv, ClearedInv
<1>3. /\ "grants" \in Owned /\ Clear("grants", id) /\ late' = late /\ nextId' = nextId
      /\ l.id = id
  BY <1>1, <1>2 DEF DeleteGrants, Owned
<1>4. Cleared("grants", id)'
  BY <1>3, ClearFacts
<1>5. Cleared("grants", l.id)'
  BY <1>3, <1>4
<1> QED BY <1>1, <1>2, <1>3, <1>5, ClearFacts, MovesInv DEF DeleteGrants, InstInv, InstTypeOK

LEMMA DeleteSchedulesInv ==
    ASSUME InstInv, NEW h \in Handlers, DeleteSchedules(h)
    PROVE  InstInv'
<1>0. PICK l : l = [loc[h] EXCEPT !.at = "list"]
  OBVIOUS
<1>1. l \in Local /\ l.at = "list" /\ l.id = loc[h].id /\ l.id < nextId /\ Set(h, l)
  BY <1>0, IdFacts DEF Local, At, InstInv, GivenInv, DeleteSchedules, Move
<1>2. PICK id \in Ids : id = loc[h].id /\ id \notin DOMAIN inst /\ Cleared("grants", id)
  BY DEF DeleteSchedules, InstInv, ClearedInv
<1>3. /\ "grants" \in Owned /\ "schedules" \in Owned
      /\ Clear("schedules", id) /\ late' = late /\ nextId' = nextId /\ l.id = id
  BY <1>1, <1>2 DEF DeleteSchedules, Owned
<1>4. Cleared("schedules", id)' /\ Cleared("grants", id)'
  BY <1>2, <1>3, ClearFacts
<1>5. Cleared("schedules", l.id)' /\ Cleared("grants", l.id)'
  BY <1>3, <1>4
<1> QED BY <1>1, <1>2, <1>3, <1>5, ClearFacts, MovesInv DEF DeleteSchedules, InstInv, InstTypeOK

LEMMA DeleteListsInv ==
    ASSUME InstInv, NEW h \in Handlers, DeleteLists(h)
    PROVE  InstInv'
<1>1. CASE Move(h, "backups")
  <2>0. PICK l : l = [loc[h] EXCEPT !.at = "backups"]
    OBVIOUS
  <2>1. l \in Local /\ l.at = "backups" /\ l.id = loc[h].id /\ l.id < nextId /\ Set(h, l)
    BY <1>1, <2>0, IdFacts DEF Local, At, InstInv, GivenInv, Move
  <2>2. /\ l.id \in Ids /\ l.id \notin DOMAIN inst
        /\ Cleared("grants", l.id) /\ Cleared("schedules", l.id)
    BY <2>1 DEF DeleteLists, InstInv, ClearedInv
  <2>3. /\ requests' \in 0 .. MaxRequests /\ raced' \in BOOLEAN /\ raced' = raced
        /\ UNCHANGED <<inst, nextId, owned, late>>
        /\ owned' \in [Owned -> SUBSET Ids] /\ late' \subseteq Owned \X Ids /\ OwnedGiven'
    BY OwnedSame DEF DeleteLists, InstInv, InstTypeOK
  <2>4. \A t \in Owned, i \in Ids \ DOMAIN inst : Cleared(t, i) => Cleared(t, i)'
    BY <2>3 DEF Cleared
  <2>5. Cleared("grants", l.id)' /\ Cleared("schedules", l.id)'
    BY <2>1, <2>2, <2>3 DEF Cleared
  <2> QED BY <2>1, <2>2, <2>3, <2>4, <2>5, MovesInv
<1>2. CASE Return(h)
  <2>1. Set(h, Fresh) /\ Fresh.id < nextId
    BY <1>2, FreshFacts, IdFacts DEF Return
  <2> QED BY <2>1, FreshFacts, FarInv DEF Far, DeleteLists, InstInv, InstTypeOK
<1> QED BY <1>1, <1>2 DEF DeleteLists

LEMMA DeleteBackupsInv ==
    ASSUME InstInv, NEW h \in Handlers, DeleteBackups(h)
    PROVE  InstInv'
<1>1. PICK id : /\ id = loc[h].id /\ Clear("backups", id) /\ "backups" \in Owned
                /\ late' = late /\ nextId' = nextId
  BY DEF DeleteBackups, Owned
<1>2. Set(h, Fresh) /\ Fresh.id < nextId
  BY FreshFacts, IdFacts DEF DeleteBackups, Return
<1> QED BY <1>1, <1>2, FreshFacts, ClearFacts, MovesInv DEF DeleteBackups, InstInv, InstTypeOK

-----------------------------------------------------------------------------
(* Steps that change rows of instances *)

\* A row is written by a handler that has checked it.
LEMMA PatchWriteInv ==
    ASSUME InstInv, NEW h \in Handlers, PatchWrite(h)
    PROVE  InstInv'
<1> DEFINE id == loc[h].id
<1>1. /\ loc' = [loc EXCEPT ![h] = Fresh] /\ DOMAIN inst' = DOMAIN inst
      /\ \A i \in DOMAIN inst \ {id} : inst'[i] = inst[i]
      /\ id \in DOMAIN inst =>
             inst'[id] = [loc[h].row EXCEPT !.dir = inst[id].dir, !.status = inst[id].status]
      /\ UNCHANGED <<nextId, owned, requests, late, raced>>
  BY DEF PatchWrite, Return, Set
<1>2. loc[h] \in Local /\ loc[h].row \in Row /\ loc[h].at = "update"
  BY IdFacts DEF Local, PatchWrite
<1>3. /\ id \in DOMAIN inst => inst'[id] \in Row /\ inst'[id].ports = loc[h].row.ports
      /\ \A i \in DOMAIN inst : inst[i] \in Row
  BY <1>1, <1>2, IdFacts DEF Row
<1>4. loc' \in [Handlers -> Local] /\ loc'[h].at = "none" /\ loc'[h].id = 0
      /\ \A g \in Handlers \ {h} : loc'[g] = loc[g]
  BY <1>1, FreshFacts DEF InstInv, InstTypeOK
<1>5. InstTypeOK'
  BY <1>1, <1>3, <1>4 DEF InstInv, InstTypeOK
<1>6. GivenInv'
  BY <1>1, <1>4, IdFacts, OwnedSame DEF InstInv, GivenInv, Given
<1>7. ClearedInv'
  BY <1>1, <1>4 DEF InstInv, ClearedInv, Cleared
<1>8. CheckedInv'
  <2> SUFFICES ASSUME ~raced' PROVE CheckedInv'
    BY DEF CheckedInv
  <2>1. /\ \A i \in DOMAIN inst : ~PortConflict(i, inst[i].ports)
        /\ ~PortConflict(id, loc[h].row.ports) /\ ~Checked(h)
    BY <1>1, <1>2 DEF InstInv, CheckedInv
  <2>2. \A g \in Handlers : loc'[g].at \notin {"insert", "update"}
    BY <1>4, <2>1 DEF Checked
  <2>3. \A i \in DOMAIN inst' : ~PortConflict(i, inst[i].ports)'
    BY <1>1, <1>3, <2>1 DEF PortConflict
  <2> QED BY <2>2, <2>3 DEF CheckedInv
<1> QED BY <1>5, <1>6, <1>7, <1>8 DEF InstInv

LEMMA CreateInsertInv ==
    ASSUME InstInv, NEW h \in Handlers, CreateInsert(h)
    PROVE  InstInv'
<1>1. CASE UNCHANGED <<inst, nextId>>
  <2>1. Set(h, Fresh) /\ Fresh.id < nextId
    BY FreshFacts, IdFacts DEF CreateInsert, Return
  <2> QED BY <1>1, <2>1, FreshFacts, FarInv DEF Far, CreateInsert, InstInv, InstTypeOK
<1>2. CASE /\ inst' = [i \in DOMAIN inst \cup {nextId} |->
                          IF i = nextId THEN loc[h].row ELSE inst[i]]
           /\ nextId' = nextId + 1
  <2>1. /\ nextId \in Ids /\ nextId \in Nat /\ nextId' \in 1 .. MaxId + 1 /\ nextId \notin DOMAIN inst
        /\ \A i \in DOMAIN inst : i # nextId /\ i \in Given
    BY <1>2, IdFacts DEF CreateInsert, Ids, InstInv, GivenInv
  <2>2. /\ DOMAIN inst' = DOMAIN inst \cup {nextId} /\ inst'[nextId] = loc[h].row
        /\ \A i \in DOMAIN inst : inst'[i] = inst[i]
    BY <1>2, <2>1
  <2>3. /\ loc' = [loc EXCEPT ![h] = Fresh] /\ loc[h].at = "insert"
        /\ UNCHANGED <<owned, requests, late, raced>>
    BY DEF CreateInsert, Return, Set
  <2>4. loc[h].row \in Row
    BY IdFacts DEF Local
  <2>5. loc' \in [Handlers -> Local] /\ loc'[h].at = "none" /\ loc'[h].id = 0
        /\ \A g \in Handlers \ {h} : loc'[g] = loc[g]
    BY <2>3, FreshFacts DEF InstInv, InstTypeOK
  <2>6. InstTypeOK'
    BY <2>1, <2>2, <2>3, <2>4, <2>5 DEF InstInv, InstTypeOK
  <2>7. Given \subseteq Given' /\ nextId \in Given' /\ nextId < nextId'
    <3>1. nextId \in Nat /\ nextId > 0 /\ nextId' = nextId + 1
      BY <1>2, IdFacts
    <3>2. \A n \in Nat : n > 0 =>
              1 .. n - 1 \subseteq 1 .. n + 1 - 1 /\ n \in 1 .. n + 1 - 1 /\ n < n + 1
      OBVIOUS
    <3> QED BY <3>1, <3>2 DEF Given
  <2>8. GivenInv'
    <3>1. DOMAIN inst' \subseteq Given' /\ OwnedGiven'
      BY <2>2, <2>3, <2>7 DEF InstInv, GivenInv, OwnedGiven
    <3>2. \A g \in Handlers : loc'[g].id < nextId'
      BY <1>2, <2>1, <2>5, IdFacts DEF InstInv, GivenInv
    <3>3. \A g \in Handlers : loc'[g].at \in {"made", "job"} =>
              loc'[g].kind \in Owned /\ loc'[g].id \in Ids
      BY <2>5 DEF InstInv, GivenInv
    <3> QED BY <3>1, <3>2, <3>3 DEF GivenInv
  <2>9. ClearedInv'
    <3>1. \A g \in Handlers : loc[g].id # nextId
      BY IdFacts DEF InstInv, GivenInv
    <3> QED BY <2>2, <2>3, <2>5, <3>1 DEF InstInv, ClearedInv, Cleared
  <2>10. CheckedInv'
    <3> SUFFICES ASSUME ~raced' PROVE CheckedInv'
      BY DEF CheckedInv
    <3>1. /\ \A i \in DOMAIN inst : ~PortConflict(i, inst[i].ports)
          /\ ~PortConflict(0, loc[h].row.ports) /\ ~Checked(h)
      BY <2>3 DEF InstInv, CheckedInv
    <3>2. \A g \in Handlers : loc'[g].at \notin {"insert", "update"}
      BY <2>5, <3>1 DEF Checked
    <3>3. 0 \notin DOMAIN inst
      BY <2>1 DEF Given
    <3>4. \A i \in DOMAIN inst' : ~PortConflict(i, inst[i].ports)'
      BY <2>1, <2>2, <3>1, <3>3 DEF PortConflict
    <3> QED BY <3>2, <3>4 DEF CheckedInv
  <2> QED BY <2>6, <2>8, <2>9, <2>10 DEF InstInv
<1> QED BY <1>1, <1>2 DEF CreateInsert

LEMMA DeleteRowInv ==
    ASSUME InstInv, NEW h \in Handlers, DeleteRow(h)
    PROVE  InstInv'
<1> DEFINE id == loc[h].id
           l == IF id \in DOMAIN inst THEN [loc[h] EXCEPT !.at = "grants"] ELSE Fresh
<1>1. /\ l \in Local /\ l.at \in {"grants", "none"} /\ l.id < nextId
      /\ l.at = "grants" => l.id = id /\ id \in DOMAIN inst
  BY IdFacts, FreshFacts DEF Local, At, InstInv, GivenInv
<1>2. Set(h, l)
  BY DEF DeleteRow, Move, Return
<1> HIDE DEF l
<1>3. /\ DOMAIN inst' = DOMAIN inst \ {id} /\ \A i \in DOMAIN inst' : inst'[i] = inst[i]
      /\ UNCHANGED <<nextId, owned, requests, late, raced>>
  BY DEF DeleteRow
<1>4. loc' \in [Handlers -> Local] /\ loc'[h] = l /\ \A g \in Handlers \ {h} : loc'[g] = loc[g]
  BY <1>1, <1>2, SetFacts DEF InstInv
<1>5. InstTypeOK'
  BY <1>3, <1>4 DEF InstInv, InstTypeOK
<1>6. GivenInv'
  BY <1>1, <1>3, <1>4, OwnedSame DEF InstInv, GivenInv, Given
<1>7. ClearedInv'
  <2>1. l.at = "grants" => id \in Ids /\ id \notin DOMAIN inst'
    BY <1>1, <1>3, IdFacts
  <2> QED BY <1>1, <1>3, <1>4, <2>1 DEF InstInv, ClearedInv, Cleared
<1>8. CheckedInv'
  BY <1>1, <1>3, <1>4 DEF InstInv, CheckedInv, Checked, PortConflict
<1> QED BY <1>5, <1>6, <1>7, <1>8 DEF InstInv

\* The status of a row is written by the supervisor.
LEMMA StatusInv ==
    ASSUME InstInv, NEW i, NEW s \in Statuses, Status(i, s),
           UNCHANGED <<nextId, owned, loc, requests, late, raced>>
    PROVE  InstInv'
<1>1. /\ DOMAIN inst' = DOMAIN inst
      /\ \A j \in DOMAIN inst : inst'[j] \in Row /\ inst'[j].ports = inst[j].ports
  BY IdFacts DEF Status, Row
<1>2. InstTypeOK' /\ GivenInv' /\ ClearedInv'
  BY <1>1, OwnedSame DEF InstInv, InstTypeOK, GivenInv, Given, ClearedInv, Cleared
<1>3. CheckedInv'
  BY <1>1 DEF InstInv, CheckedInv, Checked, PortConflict
<1> QED BY <1>2, <1>3 DEF InstInv

\* The panel dies: the handlers are gone.
LEMMA HandlersGoneInv ==
    ASSUME InstInv, loc' = [h \in Handlers |-> Fresh],
           UNCHANGED <<inst, nextId, owned, requests, late, raced>>
    PROVE  InstInv'
<1>1. loc' \in [Handlers -> Local] /\ \A h \in Handlers : loc'[h].at = "none" /\ loc'[h].id = 0
  BY FreshFacts
<1>2. InstTypeOK' /\ GivenInv' /\ ClearedInv'
  BY <1>1, IdFacts, OwnedSame DEF InstInv, InstTypeOK, GivenInv, Given, ClearedInv
<1>3. CheckedInv'
  BY <1>1 DEF InstInv, CheckedInv, PortConflict
<1> QED BY <1>2, <1>3 DEF InstInv

LEMMA TablesSameInv ==
    ASSUME InstInv, UNCHANGED instVars
    PROVE  InstInv'
<1>1. InstTypeOK' /\ GivenInv' /\ ClearedInv'
  BY OwnedSame DEF InstInv, InstTypeOK, GivenInv, Given, ClearedInv, Cleared, instVars
<1>2. CheckedInv'
  BY DEF InstInv, CheckedInv, Checked, PortConflict, instVars
<1> QED BY <1>1, <1>2 DEF InstInv

\* What the steps of a handler do to the rows: they keep the status of those
\* that stay, and the id of a new one was never given out.
RowsKept ==
    /\ Given \subseteq Given'
    /\ \A i \in DOMAIN inst' :
          \/ i \in DOMAIN inst /\ inst'[i].status = inst[i].status
          \/ i \notin DOMAIN inst /\ i \notin Given

LEMMA HandlerKeepsRows ==
    ASSUME InstInv, NEW h \in Handlers, HandlerNext(h)
    PROVE  RowsKept
<1>1. CASE UNCHANGED <<inst, nextId>>
  BY <1>1 DEF RowsKept, Given
<1>2. CASE CreateInsert(h) /\ ~UNCHANGED <<inst, nextId>>
  <2>1. /\ inst' = [i \in DOMAIN inst \cup {nextId} |->
                       IF i = nextId THEN loc[h].row ELSE inst[i]]
        /\ nextId' = nextId + 1
    BY <1>2 DEF CreateInsert
  <2>2. nextId \in Nat /\ \A i \in DOMAIN inst : i # nextId
    BY IdFacts
  <2>3. Given \subseteq Given' /\ nextId \notin Given
    BY <2>1, <2>2 DEF Given
  <2>4. nextId \notin DOMAIN inst
    BY <2>2
  <2> QED BY <2>1, <2>2, <2>3, <2>4 DEF RowsKept
<1>3. CASE PatchWrite(h)
  <2>1. loc[h].row \in Row /\ \A i \in DOMAIN inst : inst[i] \in Row
    BY IdFacts DEF Local
  <2>2. ASSUME NEW i \in DOMAIN inst
        PROVE  [loc[h].row EXCEPT !.dir = inst[i].dir, !.status = inst[i].status].status
                   = inst[i].status
    BY <2>1 DEF Row
  <2>3. DOMAIN inst' = DOMAIN inst /\ \A i \in DOMAIN inst : inst'[i].status = inst[i].status
    BY <2>2, <1>3 DEF PatchWrite
  <2> QED BY <1>3, <2>3 DEF PatchWrite, RowsKept, Given
<1>4. CASE DeleteRow(h)
  BY <1>4 DEF DeleteRow, RowsKept, Given
<1> QED BY <1>1, <1>2, <1>3, <1>4 DEF HandlerNext, CreateCheck, CreateInsert, PatchRead,
      PatchCheck, MakeLoads, BackupStarts, MakeInserts, Grant, DeleteAsks, DeleteFails,
      DeleteGrants, DeleteSchedules, DeleteLists, DeleteBackups

LEMMA HandlerInv ==
    ASSUME InstInv, NEW h \in Handlers, HandlerNext(h)
    PROVE  InstInv'
  BY CreateCheckInv, CreateInsertInv, PatchReadInv, PatchCheckInv, PatchWriteInv,
     MakeLoadsInv, BackupStartsInv, MakeInsertsInv, GrantInv, DeleteAsksInv, DeleteFailsInv,
     DeleteRowInv, DeleteGrantsInv, DeleteSchedulesInv, DeleteListsInv, DeleteBackupsInv
     DEF HandlerNext

-----------------------------------------------------------------------------
(* Steps of the servers *)

LEMMA StatusFacts ==
    ASSUME InstInv, NEW i, NEW s, Status(i, s)
    PROVE  /\ DOMAIN inst' = DOMAIN inst
           /\ \A j \in DOMAIN inst : j # i => inst'[j] = inst[j]
           /\ i \in DOMAIN inst => inst'[i].status = s
<1>1. \A j \in DOMAIN inst : inst[j] \in Row
  BY IdFacts
<1>2. i \in DOMAIN inst => [inst[i] EXCEPT !.status = s].status = s
  BY <1>1 DEF Row
<1> QED BY <1>2 DEF Status

LEMMA RequestServers ==
    ASSUME InstInv, InstInv', ServerInv, RowsKept, UNCHANGED <<procVars, todo>>
    PROVE  ServerInv'
<1>1. ServerTypeOK'
  BY DEF ServerInv, ServerTypeOK, procVars, runVars
<1>2. Told' = Told /\ UNCHANGED <<orphan, proc, idles, alive, belied, todo>>
  BY DEF Told, procVars, runVars
<1>3. Told \subseteq Given /\ \A i \in Ids : proc[i] # "none" => i \in Given
  BY DEF ServerInv, ToldInv, Told
<1>4. ToldInv'
  BY <1>2, <1>3 DEF ServerInv, ToldInv, RowsKept
<1>5. RunningIsStored'
  <2> SUFFICES ASSUME NEW i \in DOMAIN inst', proc'[i] = "running"
               PROVE  inst'[i].status = "running" \/ i \in belied'
    BY DEF RunningIsStored
  <2>1. CASE i \in DOMAIN inst /\ inst'[i].status = inst[i].status
    BY <1>2, <2>1 DEF ServerInv, RunningIsStored
  <2>2. CASE i \notin DOMAIN inst /\ i \notin Given
    <3>1. i \in Ids
      BY DEF InstInv, InstTypeOK
    <3> QED BY <1>2, <1>3, <2>2, <3>1
  <2> QED BY <2>1, <2>2 DEF RowsKept
<1> QED BY <1>1, <1>4, <1>5 DEF ServerInv

\* A run goes on to its next state, and may have the status of its row written:
\* a dead panel left no server of it that the row tells of.
LEMMA StepsServers ==
    ASSUME InstInv, ServerInv, ServerTypeOK', NEW i \in Ids, NEW to \in Procs,
           proc[i] # "none", proc' = [proc EXCEPT ![i] = to],
           UNCHANGED <<orphan, unseen, todo, nextId>>,
           \A j \in Ids \ {i} : idles'[j] = idles[j] /\ (j \in alive' => j \in alive),
           i \in alive' => to \in Alive,
           DOMAIN inst' = DOMAIN inst, \A j \in DOMAIN inst : j # i => inst'[j] = inst[j],
           i \in DOMAIN inst /\ to = "running" => inst'[i].status = "running",
           belied \ {i} \subseteq belied'
    PROVE  ServerInv'
<1>1. Told' = Told /\ Given' = Given /\ i \notin Told /\ i \in Given /\ alive' \subseteq Ids
  BY DEF Told, Given, ServerInv, ServerTypeOK, ToldInv
<1>2. \A j \in Ids : proc'[j] = IF j = i THEN to ELSE proc[j]
  BY DEF ServerInv, ServerTypeOK
<1>3. ToldInv'
  BY <1>1, <1>2 DEF ServerInv, ToldInv
<1>4. RunningIsStored'
  BY <1>2, IdFacts DEF ServerInv, RunningIsStored
<1> QED BY <1>3, <1>4 DEF ServerInv

\* What writes no status and starts nothing leaves less to tell of.
LEMMA RestServers ==
    ASSUME InstInv, ServerInv, ServerTypeOK',
           UNCHANGED <<inst, nextId, proc, idles, belied, todo>>,
           alive' \subseteq alive, orphan' \subseteq orphan, Told' \subseteq Told
    PROVE  ServerInv'
<1>1. Given' = Given
  BY DEF Given
<1>2. ToldInv' /\ RunningIsStored'
  BY <1>1 DEF ServerInv, ToldInv, RunningIsStored
<1> QED BY <1>2 DEF ServerInv

\* "idle" comes over what a row says that tells of no orphan.
LEMMA IdlesServers ==
    ASSUME InstInv, ServerInv, ServerTypeOK', NEW i \in Ids, Idles(i),
           UNCHANGED <<proc, alive, orphan, todo>>,
           \A j \in Ids : idles'[j] > 0 => idles[j] > 0,
           Told' \subseteq Told, i \notin Told'
    PROVE  InstInv' /\ ServerInv'
<1>1. Status(i, "idle") /\ "idle" \in Statuses /\ UNCHANGED <<nextId, owned, loc, requests, late, raced>>
      /\ belied' = IF proc[i] = "running" THEN belied \cup {i} ELSE belied
  BY DEF Idles, StatusOnly, Statuses
<1>2. InstInv' /\ DOMAIN inst' = DOMAIN inst /\ \A j \in DOMAIN inst : j # i => inst'[j] = inst[j]
  BY <1>1, StatusInv, StatusFacts
<1>3. Given' = Given
  BY <1>1 DEF Given
<1>4. ToldInv'
  BY <1>2, <1>3 DEF ServerInv, ToldInv
<1>5. RunningIsStored'
  BY <1>1, <1>2 DEF ServerInv, RunningIsStored
<1> QED BY <1>2, <1>4, <1>5 DEF ServerInv

\* A server is started only where none that the row tells of lives on.
LEMMA AcceptsServers ==
    ASSUME InstInv, ServerInv, NEW i \in Ids, Accepts(i), UNCHANGED <<instVars, orphan>>,
           auto' \subseteq auto \cup {i},
           unseen' = unseen \cup ({i} \cap orphan) \/ (unseen' = unseen /\ i \notin Told),
           DOMAIN todo' \subseteq DOMAIN todo, \A j \in DOMAIN todo' : todo'[j] = todo[j]
    PROVE  ServerInv'
<1>1. /\ i \in DOMAIN inst /\ proc[i] = "none" /\ proc' = [proc EXCEPT ![i] = "accepted"]
      /\ starts' \in 0 .. MaxStarts /\ inst' = inst /\ nextId' = nextId
      /\ UNCHANGED <<alive, idles, reads, tells, belied>>
      /\ proc \in [Ids -> Procs] /\ "accepted" \in Procs
  BY BootAssumption DEF Accepts, instVars, ServerInv, ServerTypeOK, Procs
<1>2. ServerTypeOK'
  BY <1>1 DEF ServerInv, ServerTypeOK
<1>3. Told' \subseteq Told /\ i \notin Told' /\ Given' = Given /\ i \in Given
  BY <1>1 DEF Told, Given, InstInv, GivenInv
<1>4. i \notin alive
  BY <1>1 DEF ServerInv, ToldInv, Alive
<1>5. ToldInv'
  BY <1>1, <1>3, <1>4 DEF ServerInv, ServerTypeOK, ToldInv
<1>6. RunningIsStored'
  BY <1>1 DEF ServerInv, RunningIsStored
<1> QED BY <1>2, <1>5, <1>6 DEF ServerInv

LEMMA ProcFacts ==
    /\ {"none", "accepted", "starting", "launched", "probing", "ready", "running", "exited"} = Procs
    /\ Alive = {"launched", "probing", "ready", "running"}
    /\ {"idle", "starting", "running"} = Statuses
  BY DEF Procs, Alive, Statuses

\* A run's own steps.
LEMMA RunsInv ==
    ASSUME InstInv, ServerInv, NEW i \in Ids,
           \/ SupStarting(i) \/ SupLaunches(i) \/ SupRegisters(i) \/ SupReady(i)
           \/ SupAnnounces(i) \/ SupWaited(i) \/ SupRestarts(i) \/ SupEnds(i)
    PROVE  InstInv' /\ ServerInv'
<1>1. PICK from \in Procs \ {"none"}, to \in Procs :
          /\ Steps(i, from, to) /\ auto' \subseteq auto /\ belied \ {i} \subseteq belied'
          /\ belied' \subseteq belied /\ starts' \in 0 .. MaxStarts
          /\ \/ alive' = alive /\ (from \in Alive => to \in Alive \/ i \notin alive)
             \/ alive' = alive \cup {i} /\ to \in Alive
          /\ idles' = idles \/ idles' = [idles EXCEPT ![i] = @ + 1]
          /\ \/ UNCHANGED instVars /\ to # "running"
             \/ /\ \E s \in Statuses : Status(i, s) /\ (to = "running" => s = "running")
                /\ StatusOnly
  <2>0. starts \in 0 .. MaxStarts /\ (starts < MaxStarts => starts + 1 \in 0 .. MaxStarts)
    BY BootAssumption DEF ServerInv, ServerTypeOK
  <2>1. CASE SupStarting(i)
    BY <2>0, <2>1, ProcFacts DEF SupStarting
  <2>2. CASE SupLaunches(i)
    BY <2>0, <2>2, ProcFacts DEF SupLaunches
  <2>3. CASE SupRegisters(i)
    BY <2>0, <2>3, ProcFacts DEF SupRegisters
  <2>4. CASE SupReady(i)
    BY <2>0, <2>4, ProcFacts DEF SupReady
  <2>5. CASE SupAnnounces(i)
    BY <2>0, <2>5, ProcFacts DEF SupAnnounces
  <2>6. CASE SupWaited(i)
    BY <2>0, <2>6, ProcFacts DEF SupWaited
  <2>7. CASE SupRestarts(i)
    BY <2>0, <2>7, ProcFacts DEF SupRestarts
  <2>8. CASE SupEnds(i)
    BY <2>0, <2>8, ProcFacts DEF SupEnds
  <2> QED BY <2>1, <2>2, <2>3, <2>4, <2>5, <2>6, <2>7, <2>8
<1>2. /\ proc[i] = from /\ proc' = [proc EXCEPT ![i] = to]
      /\ UNCHANGED <<reads, tells, orphan, unseen, todo>>
  BY <1>1 DEF Steps
<1>3. /\ nextId' = nextId /\ DOMAIN inst' = DOMAIN inst
      /\ \A j \in DOMAIN inst : j # i => inst'[j] = inst[j]
      /\ i \in DOMAIN inst /\ to = "running" => inst'[i].status = "running"
  BY <1>1, StatusFacts DEF instVars, StatusOnly
<1>4. InstInv'
  <2>1. CASE UNCHANGED instVars
    BY <2>1, TablesSameInv
  <2>2. CASE (\E s \in Statuses : Status(i, s)) /\ StatusOnly
    BY <2>2, StatusInv DEF StatusOnly
  <2> QED BY <1>1, <2>1, <2>2
<1>5. /\ \A j \in Ids \ {i} : idles'[j] = idles[j] /\ (j \in alive' => j \in alive)
      /\ idles' \in [Ids -> Nat] /\ alive' \subseteq Ids
  BY <1>1 DEF ServerInv, ServerTypeOK
<1>6. i \in alive' => to \in Alive
  BY <1>1, <1>2 DEF ServerInv, ToldInv
<1>7. ServerTypeOK'
  BY <1>1, <1>2, <1>5 DEF ServerInv, ServerTypeOK
<1> QED BY <1>1, <1>2, <1>3, <1>4, <1>5, <1>6, <1>7, StepsServers

LEMMA ServersInv ==
    ASSUME InstInv, ServerInv, NEW i \in Ids, ServerNext(i)
    PROVE  InstInv' /\ ServerInv'
<1>1. CASE UserStarts(i)
  <2>1. Accepts(i) /\ UNCHANGED <<instVars, orphan, todo>> /\ auto' = auto
        /\ unseen' = unseen \cup ({i} \cap orphan)
    BY <1>1 DEF UserStarts
  <2> QED BY <2>1, AcceptsServers, TablesSameInv
<1>2. CASE SupIdle(i)
  <2>1. /\ idles[i] > 0 /\ idles' = [idles EXCEPT ![i] = @ - 1] /\ Idles(i)
        /\ UNCHANGED <<proc, alive, reads, tells, auto, orphan, unseen, starts, todo>>
    BY <1>2 DEF SupIdle
  <2>2. idles' \in [Ids -> Nat] /\ \A j \in Ids : idles'[j] > 0 => idles[j] > 0
    BY <2>1 DEF ServerInv, ServerTypeOK
  <2>3. Told' = Told /\ i \notin Told
    BY <2>1 DEF Told, ServerInv, ToldInv
  <2>4. ServerTypeOK'
    BY <2>1, <2>2 DEF Idles, ServerInv, ServerTypeOK
  <2> QED BY <2>1, <2>2, <2>3, <2>4, IdlesServers
<1>3. CASE StopOrphan(i)
  <2>1. tells' = tells \ {i} /\ UNCHANGED <<runVars, reads, auto, orphan, todo>>
        /\ UNCHANGED <<proc, alive, idles, starts>>
    BY <1>3 DEF StopOrphan, runVars
  <2>2. CASE Idles(i) /\ unseen' = unseen \cup ({i} \cap orphan)
    <3>1. Told' \subseteq Told /\ i \notin Told'
      BY <2>1, <2>2 DEF Told
    <3>2. ServerTypeOK'
      BY <2>1, <2>2 DEF Idles, ServerInv, ServerTypeOK
    <3> QED BY <2>1, <2>2, <3>1, <3>2, IdlesServers
  <2>3. CASE UNCHANGED <<instVars, belied, unseen>>
    <3>1. Told' = Told /\ UNCHANGED <<inst, nextId>>
      BY <2>1, <2>3 DEF Told, instVars
    <3>2. ServerTypeOK'
      BY <2>1, <2>3 DEF ServerInv, ServerTypeOK
    <3> QED BY <2>1, <2>3, <3>1, <3>2, RestServers, TablesSameInv
  <2> QED BY <1>3, <2>2, <2>3 DEF StopOrphan
<1>4. CASE ServerExits(i) \/ UpdateReads(i) \/ UpdateChecks(i) \/ OrphanExits(i)
  <2>1. /\ UNCHANGED <<instVars, proc, idles, belied, starts, todo, auto>>
        /\ alive' \subseteq alive /\ orphan' \subseteq orphan /\ unseen' \subseteq unseen
        /\ reads' \subseteq reads \cup {i} /\ tells' \subseteq tells \cup {i}
        /\ UNCHANGED <<inst, nextId>>
    BY <1>4 DEF ServerExits, UpdateReads, UpdateChecks, OrphanExits, runVars, instVars
  <2>2. Told' \subseteq Told
    BY <1>4 DEF Told, ServerExits, UpdateReads, UpdateChecks, OrphanExits
  <2>3. ServerTypeOK'
    BY <2>1 DEF ServerInv, ServerTypeOK
  <2> QED BY <2>1, <2>2, <2>3, RestServers, TablesSameInv
<1> QED BY <1>1, <1>2, <1>3, <1>4, RunsInv DEF ServerNext

-----------------------------------------------------------------------------
(* Steps of the start *)

LEMMA FilesFacts ==
    /\ Len(Statements) \in Nat /\ Files = 1 .. Len(Statements)
    /\ \A f \in Files : f \in Nat /\ f > 0 /\ Statements[f] \in Nat /\ Statements[f] > 0
  BY BootAssumption DEF Files

\* Requests and servers leave the migrations alone.
LEMMA MigSame == MigInv /\ UNCHANGED <<bootVars, crashes>> => MigInv'
  BY DEF MigInv, bootVars

LEMMA MigrateChecksInv ==
    ASSUME MigInv, MigrateChecks
    PROVE  MigInv'
<1>1. /\ mig.file \in 1 .. Len(Statements) + 1 /\ mig.file \in Nat /\ phase = "check"
      /\ UNCHANGED <<versions, applied, crashes>>
  BY FilesFacts DEF MigInv, MigrateChecks
<1>2. CASE mig.file \notin Files
  <2>1. phase' = "seed" /\ mig' = mig
    BY <1>2 DEF MigrateChecks
  <2>2. \A f \in Files : f < mig.file
    BY <1>1, <1>2, FilesFacts
  <2>3. versions = Files
    BY <2>2 DEF MigInv
  <2> QED BY <1>1, <2>1, <2>3 DEF MigInv, Phases
<1>3. CASE mig.file \in versions
  <2>1. phase' = "check" /\ mig' = [mig EXCEPT !.file = @ + 1] /\ mig.file \in Files
    BY <1>1, <1>3 DEF MigrateChecks, MigInv
  <2>2. mig' \in [file : 1 .. Len(Statements) + 1, stmt : Nat \ {0}] /\ mig'.file = mig.file + 1
    BY <1>1, <2>1, FilesFacts DEF MigInv
  <2>3. \A f \in Files : f < mig'.file => f \in versions
    BY <1>1, <1>3, <2>2, FilesFacts DEF MigInv
  <2> QED BY <1>1, <2>1, <2>2, <2>3 DEF MigInv
<1>4. CASE mig.file \in Files \ versions
  <2>1. phase' = "exec" /\ mig' = [mig EXCEPT !.stmt = 1]
    BY <1>4 DEF MigrateChecks
  <2>2. /\ mig' \in [file : 1 .. Len(Statements) + 1, stmt : Nat \ {0}]
        /\ mig'.file = mig.file /\ mig'.stmt = 1
    BY <2>1 DEF MigInv
  <2>3. Statements[mig.file] \in Nat /\ Statements[mig.file] > 0
    BY <1>4, FilesFacts
  <2>4. crashes = 0 => applied[mig.file] = 0
    BY <1>1, <1>4 DEF MigInv
  <2> QED BY <1>1, <1>4, <2>1, <2>2, <2>3, <2>4 DEF MigInv, Phases
<1> QED BY <1>2, <1>3, <1>4

LEMMA MigrateExecsInv ==
    ASSUME MigInv, MigrateExecs
    PROVE  MigInv'
<1> DEFINE f0 == mig.file
           s0 == mig.stmt
<1>1. /\ f0 \in Files \ versions /\ s0 \in Nat /\ s0 > 0 /\ s0 <= Statements[f0]
      /\ s0 > 1 => applied[f0] = s0 - 1
      /\ Statements[f0] \in Nat /\ applied[f0] \in Nat /\ phase = "exec"
      /\ crashes = 0 => applied[f0] = s0 - 1
      /\ UNCHANGED <<versions, crashes>> /\ crashes \in Nat
  BY FilesFacts DEF MigInv, MigrateExecs
<1>2. CASE s0 <= applied[f0]
  <2>1. phase' = "fatal" /\ UNCHANGED <<mig, applied>>
    BY <1>2 DEF MigrateExecs
  <2>2. crashes > 0 /\ applied[f0] > 0
    BY <1>1, <1>2
  <2> QED BY <1>1, <2>1, <2>2 DEF MigInv, Phases
<1>3. CASE ~(s0 <= applied[f0])
  <2>1. /\ applied' = [applied EXCEPT ![f0] = s0]
        /\ mig' = [mig EXCEPT !.stmt = @ + 1]
        /\ phase' = IF s0 = Statements[f0] THEN "insert" ELSE "exec"
    BY <1>3 DEF MigrateExecs
  <2>2. /\ mig' \in [file : 1 .. Len(Statements) + 1, stmt : Nat \ {0}]
        /\ mig'.file = f0 /\ mig'.stmt = s0 + 1
    BY <1>1, <2>1 DEF MigInv
  <2>3. /\ applied' \in [Files -> Nat] /\ applied'[f0] = s0
        /\ \A f \in Files : f # f0 => applied'[f] = applied[f]
    BY <1>1, <2>1 DEF MigInv
  <2>4. \A f \in Files : applied'[f] <= Statements[f]
    BY <1>1, <2>3 DEF MigInv
  <2>5. \A f \in versions : f \in Files /\ f # f0 /\ applied'[f] = Statements[f]
    BY <1>1, <2>3 DEF MigInv
  <2>6. phase' \in {"exec", "insert"} /\ (phase' = "insert" => s0 = Statements[f0])
        /\ (phase' = "exec" => s0 + 1 <= Statements[f0])
    BY <1>1, <2>1
  <2>7. \A f \in Files : f < mig'.file => f \in versions
    BY <2>2 DEF MigInv
  <2>8. crashes = 0 => \A f \in Files \ versions : f # f0 => applied'[f] = 0
    BY <2>3 DEF MigInv
  <2>9. s0 = s0 + 1 - 1
    BY <1>1
  <2> HIDE DEF f0, s0
  <2> QED BY <1>1, <2>2, <2>3, <2>4, <2>5, <2>6, <2>7, <2>8, <2>9 DEF MigInv, Phases
<1> QED BY <1>2, <1>3

LEMMA MigrateInsertsInv ==
    ASSUME MigInv, MigrateInserts
    PROVE  MigInv'
<1>1. /\ mig.file \in Files \ versions /\ applied[mig.file] = Statements[mig.file]
      /\ versions' = versions \cup {mig.file} /\ mig' = [mig EXCEPT !.file = @ + 1]
      /\ phase' = "check" /\ UNCHANGED <<applied, crashes>> /\ mig.file \in Nat
  BY FilesFacts DEF MigInv, MigrateInserts
<1>2. mig' \in [file : 1 .. Len(Statements) + 1, stmt : Nat \ {0}] /\ mig'.file = mig.file + 1
  BY <1>1, FilesFacts DEF MigInv
<1>3. \A f \in Files : f < mig'.file => f \in versions'
  BY <1>1, <1>2, FilesFacts DEF MigInv
<1>4. crashes = 0 => \A f \in Files \ versions' : applied[f] = 0
  BY <1>1 DEF MigInv
<1> QED BY <1>1, <1>2, <1>3, <1>4 DEF MigInv, Phases

LEMMA LeftAlone ==
    ASSUME InstInv, ServerInv, UNCHANGED <<instVars, procVars>>,
           DOMAIN todo' \subseteq DOMAIN todo, \A j \in DOMAIN todo' : todo'[j] = todo[j]
    PROVE  InstInv' /\ ServerInv'
<1>1. UNCHANGED <<inst, nextId, proc, alive, idles, reads, tells, auto, orphan, unseen, belied,
                  starts>>
      /\ Told' = Told /\ Given' = Given
  BY DEF instVars, procVars, runVars, Told, Given
<1>2. ServerTypeOK' /\ ToldInv' /\ RunningIsStored'
  BY <1>1 DEF ServerInv, ServerTypeOK, ToldInv, RunningIsStored
<1> QED BY <1>2, TablesSameInv DEF ServerInv

LEMMA BootStepInv ==
    ASSUME Inv, BootNext
    PROVE  Inv'
<1>1. CASE MigrateChecks \/ MigrateExecs \/ MigrateInserts
  <2>1. UNCHANGED <<instVars, procVars, todo>>
    BY <1>1 DEF MigrateChecks, MigrateExecs, MigrateInserts
  <2>2. InstInv' /\ ServerInv'
    BY <2>1, LeftAlone DEF Inv
  <2> QED BY <1>1, <2>2, MigrateChecksInv, MigrateExecsInv, MigrateInsertsInv DEF Inv
<1>5. CASE StartFails
  <2>1. UNCHANGED <<instVars, procVars, todo, mig, versions, applied, crashes>> /\ phase' = "failed"
    BY <1>5 DEF StartFails
  <2>2. InstInv' /\ ServerInv'
    BY <2>1, LeftAlone DEF Inv
  <2>3. MigInv'
    BY <2>1 DEF Inv, MigInv, Phases
  <2> QED BY <2>2, <2>3 DEF Inv
<1>2. CASE Seeds \/ Serves
  <2>1. /\ UNCHANGED <<instVars, procVars, todo, mig, versions, applied, crashes>>
        /\ versions = Files /\ phase' \in {"list", "serving"}
    BY <1>2 DEF Seeds, Serves, Inv, MigInv
  <2>2. InstInv' /\ ServerInv'
    BY <2>1, LeftAlone DEF Inv
  <2>3. MigInv'
    BY <2>1 DEF Inv, MigInv, Phases
  <2> QED BY <2>2, <2>3 DEF Inv
<1>3. CASE AutostartLists
  <2>1. /\ UNCHANGED <<instVars, procVars, mig, versions, applied, crashes>>
        /\ versions = Files /\ phase' = "autostart" /\ (todo' = inst \/ DOMAIN todo' = {})
        /\ UNCHANGED <<inst, nextId, proc, alive, idles, reads, tells, auto, orphan, unseen,
                       belied, starts>>
    BY <1>3 DEF AutostartLists, NoRows, Inv, MigInv, instVars, procVars, runVars
  <2>2. MigInv'
    BY <2>1 DEF Inv, MigInv, Phases
  <2>3. Told' = Told /\ Given' = Given
    BY <2>1 DEF Told, Given
  <2>4. ServerTypeOK' /\ ToldInv' /\ RunningIsStored'
    BY <2>1, <2>3, IdFacts DEF Inv, ServerInv, ServerTypeOK, ToldInv, RunningIsStored
  <2> QED BY <2>1, <2>2, <2>4, TablesSameInv DEF Inv, ServerInv
<1>4. ASSUME NEW i \in Ids, Autostarts(i) \/ AutostartFails(i) \/ AutostartSkips(i)
      PROVE  Inv'
  <2>1. /\ i \in DOMAIN todo /\ DOMAIN todo' = DOMAIN todo \ {i}
        /\ \A j \in DOMAIN todo' : todo'[j] = todo[j]
        /\ UNCHANGED <<instVars, bootVars, crashes>>
    BY <1>4 DEF Autostarts, AutostartFails, AutostartSkips, Visit
  <2>2. MigInv'
    BY <2>1, MigSame DEF Inv
  <2>3. CASE Autostarts(i)
    <3>1. i \notin Told
      BY <2>1, <2>3 DEF Autostarts, Inv, ServerInv, ToldInv
    <3>2. Accepts(i) /\ UNCHANGED <<instVars, orphan, unseen>> /\ auto' = auto \cup {i}
      BY <2>3 DEF Autostarts
    <3> QED BY <2>1, <2>2, <3>1, <3>2, AcceptsServers, TablesSameInv DEF Inv
  <2>4. CASE AutostartFails(i) \/ AutostartSkips(i)
    <3>1. UNCHANGED procVars
      BY <2>4 DEF AutostartFails, AutostartSkips
    <3> QED BY <2>1, <2>2, <3>1, LeftAlone DEF Inv
  <2> QED BY <1>4, <2>3, <2>4
<1> QED BY <1>1, <1>2, <1>3, <1>4, <1>5 DEF BootNext

\* The panel dies.  What it ran lives on; the rows of these servers that do
\* not say "running" are remembered in unseen.
LEMMA CrashInv ==
    ASSUME Inv, Crash
    PROVE  Inv'
<1>1. /\ crashes' = crashes + 1 /\ crashes < MaxCrashes /\ phase' = "check"
      /\ mig' = [file |-> 1, stmt |-> 1] /\ todo' = NoRows
      /\ orphan' = orphan \cup alive
      /\ unseen' = unseen \cup {i \in alive : i \in DOMAIN inst => inst[i].status # "running"}
      /\ proc' = [i \in Ids |-> "none"] /\ idles' = [i \in Ids |-> 0]
      /\ alive' = {} /\ reads' = {} /\ tells' = {} /\ auto' = {} /\ belied' = {}
      /\ loc' = [h \in Handlers |-> Fresh]
      /\ UNCHANGED <<versions, applied, starts, inst, nextId, owned, requests, late, raced>>
  BY DEF Crash
<1>2. InstInv'
  BY <1>1, HandlersGoneInv DEF Inv
<1>3. MigInv'
  <2>1. crashes' \in 0 .. MaxCrashes /\ crashes' # 0
    BY <1>1, BootAssumption DEF Inv, MigInv
  <2>2. mig' \in [file : 1 .. Len(Statements) + 1, stmt : Nat \ {0}] /\ mig'.file = 1
    BY <1>1, FilesFacts
  <2>3. \A f \in Files : ~(f < mig'.file)
    BY <2>2, FilesFacts
  <2> QED BY <1>1, <2>1, <2>2, <2>3 DEF Inv, MigInv, Phases
<1>4. alive \subseteq Ids /\ alive \subseteq Given
  BY DEF Inv, ServerInv, ServerTypeOK, ToldInv, Alive
<1>5. DOMAIN todo' = {}
  BY <1>1 DEF NoRows
<1>6. ServerTypeOK'
  BY <1>1, <1>4, <1>5 DEF Inv, ServerInv, ServerTypeOK, Procs
<1>7. \A i \in DOMAIN inst : i \in Told' => inst[i].status = "running"
  BY <1>1 DEF Told, Inv, ServerInv, ToldInv
<1>8. ToldInv'
  BY <1>1, <1>4, <1>5, <1>7 DEF Inv, ServerInv, ToldInv, Given
<1>9. RunningIsStored'
  <2>1. DOMAIN inst \subseteq Ids
    BY DEF Inv, InstInv, InstTypeOK
  <2> QED BY <1>1, <2>1 DEF RunningIsStored
<1> QED BY <1>2, <1>3, <1>6, <1>8, <1>9 DEF Inv, ServerInv

-----------------------------------------------------------------------------
(* The start, and the theorems *)

LEMMA RowsAtStart ==
    ASSUME NEW n \in 0 .. MaxId, NEW rows, DOMAIN rows = 1 .. n,
           NEW rowsOf \in [Owned -> SUBSET DOMAIN rows], InstInit(rows, rowsOf),
           \A i \in DOMAIN rows : rows[i] \in Row
    PROVE  InstInv
<1>1. n \in Nat /\ n <= MaxId /\ MaxId \in Nat /\ Cardinality(1 .. n) = n
  BY FS_Interval, InstancesAssumption
<1>2. /\ inst = rows /\ nextId = n + 1 /\ owned = rowsOf
      /\ loc = [h \in Handlers |-> Fresh] /\ requests = 0 /\ late = {}
      /\ raced = \E id \in DOMAIN inst : PortConflict(id, inst[id].ports)
  BY <1>1 DEF InstInit
<1>3. loc \in [Handlers -> Local] /\ \A h \in Handlers : loc[h].at = "none" /\ loc[h].id = 0
  BY <1>2, FreshFacts
<1>4. DOMAIN inst = 1 .. n /\ DOMAIN inst \subseteq Ids /\ nextId \in 1 .. MaxId + 1
  BY <1>1, <1>2 DEF Ids
<1>5. InstTypeOK
  <2>1. owned \in [Owned -> SUBSET Ids] /\ late \subseteq Owned \X Ids /\ raced \in BOOLEAN
    BY <1>2, <1>4
  <2>2. requests \in 0 .. MaxRequests
    BY <1>2, InstancesAssumption
  <2> QED BY <1>2, <1>3, <1>4, <2>1, <2>2 DEF InstTypeOK
<1>6. GivenInv
  BY <1>1, <1>2, <1>3, <1>4 DEF GivenInv, OwnedGiven, Given
<1>7. CheckedInv
  BY <1>2, <1>3 DEF CheckedInv
<1>8. ClearedInv
  BY <1>3 DEF ClearedInv
<1> QED BY <1>5, <1>6, <1>7, <1>8 DEF InstInv

LEMMA InitInv == Init => Inv
<1> SUFFICES ASSUME Init PROVE Inv
  OBVIOUS
<1>1. InstInv
  <2>1. CASE InstInit(NoRows, NoneOwned)
    <3>1. 0 \in 0 .. MaxId /\ DOMAIN NoRows = 1 .. 0
          /\ NoneOwned \in [Owned -> SUBSET DOMAIN NoRows]
      BY InstancesAssumption DEF NoRows, NoneOwned
    <3> QED BY <2>1, <3>1, RowsAtStart
  <2>2. CASE InstInit(InitInst, InitOwned)
    <3>1. PICK n \in 0 .. MaxId : DOMAIN InitInst = 1 .. n
      BY BootAssumption
    <3> QED BY <2>2, <3>1, RowsAtStart, BootAssumption
  <2> QED BY <2>1, <2>2 DEF Init
<1>2. MigInv
  <2>1. /\ versions \subseteq Files /\ (versions = {} \/ versions = {1} \cap Files)
        /\ applied = [f \in Files |-> IF f \in versions THEN Statements[f] ELSE 0]
        /\ phase = "check" /\ mig = [file |-> 1, stmt |-> 1] /\ crashes = 0
    BY DEF Init
  <2>2. applied \in [Files -> Nat] /\ \A f \in Files : applied[f] <= Statements[f]
    BY <2>1, FilesFacts
  <2>3. \A f \in Files : ~(f < mig.file)
    BY <2>1, FilesFacts
  <2> QED BY <2>1, <2>2, <2>3, FilesFacts, BootAssumption DEF MigInv, Phases
<1>3. ServerInv
  <2>1. /\ todo = NoRows /\ proc = [i \in Ids |-> "none"] /\ auto = {} /\ orphan = {}
        /\ unseen = {} /\ starts = 0 /\ idles = [i \in Ids |-> 0] /\ alive = {}
        /\ reads = {} /\ tells = {} /\ belied = {}
    BY DEF Init
  <2>2. DOMAIN todo = {} /\ DOMAIN inst \subseteq Ids
    BY <1>1, <2>1 DEF NoRows, InstInv, InstTypeOK
  <2> QED BY <2>1, <2>2, BootAssumption
        DEF ServerInv, ServerTypeOK, ToldInv, Told, RunningIsStored, Procs
<1> QED BY <1>1, <1>2, <1>3 DEF Inv

LEMMA StepInv == Inv /\ [Next]_vars => Inv'
<1> SUFFICES ASSUME Inv, [Next]_vars PROVE Inv'
  OBVIOUS
<1>1. CASE BootNext
  BY <1>1, BootStepInv
<1>2. ASSUME NEW i \in Ids, ServerNext(i) PROVE Inv'
  <2>1. UNCHANGED <<bootVars, crashes>>
    BY <1>2 DEF ServerNext, UserStarts, SupStarting, SupLaunches, SupRegisters, SupReady,
         SupAnnounces, ServerExits, SupWaited, SupRestarts, SupEnds, SupIdle, UpdateReads,
         UpdateChecks, StopOrphan, OrphanExits, Steps
  <2> QED BY <1>2, <2>1, MigSame, ServersInv DEF Inv
<1>3. CASE RequestNext
  <2>1. PICK h \in Handlers : HandlerNext(h)
    BY <1>3 DEF RequestNext
  <2>2. UNCHANGED <<bootVars, procVars, todo, crashes>>
    BY <1>3 DEF RequestNext
  <2>3. InstInv' /\ RowsKept
    BY <2>1, HandlerInv, HandlerKeepsRows DEF Inv
  <2> QED BY <2>2, <2>3, MigSame, RequestServers DEF Inv
<1>4. CASE Crash
  BY <1>4, CrashInv
<1>5. CASE UNCHANGED vars
  BY <1>5, MigSame, LeftAlone DEF Inv, vars
<1> QED BY <1>1, <1>2, <1>3, <1>4, <1>5 DEF Next

LEMMA SpecInv == Spec => []Inv
  BY InitInv, StepInv, PTL DEF Spec

\* The variables of the tables, the start and the servers have their types.
THEOREM TypeCorrect == Spec => []TypeOK
<1>1. Inv => TypeOK
  <2> SUFFICES ASSUME Inv PROVE TypeOK
    OBVIOUS
  <2>0. PICK n \in Nat : n = Len(Statements)
    BY FilesFacts
  <2>1. Cardinality(Files) = Len(Statements)
    <3>1. Cardinality(1 .. n) = IF 1 > n THEN 0 ELSE n - 1 + 1
      BY FS_Interval
    <3>2. Cardinality(1 .. n) = n
      BY <3>1
    <3> QED BY <2>0, <3>2, FilesFacts
  <2>2. mig.file \in 1 .. Cardinality(Files) + 1 /\ mig.stmt \in Nat
    BY <2>1 DEF Inv, MigInv
  <2>3. \A f \in Files : applied[f] \in 0 .. Statements[f]
    BY FilesFacts DEF Inv, MigInv
  <2> QED BY <2>2, <2>3 DEF Inv, InstInv, MigInv, ServerInv, ServerTypeOK, TypeOK
<1> QED BY <1>1, SpecInv, PTL

\* What schema_migrations says of the schema is true wherever panels died, and
\* a panel gives up only because of a file another one left half applied
\* (db.go:35-67).
THEOREM MigrationsTellTheTruth == Spec => []MigrationsAgree
<1>1. Inv => MigrationsAgree
  BY DEF Inv, MigInv, MigrationsAgree, VersionMeansApplied, FatalMeansTorn
<1> QED BY <1>1, SpecInv, PTL

\* No two instances share a port, unless two requests were between the check
\* and the statement together (store.go, portConflict).
THEOREM PortsStayDistinct == Spec => []PortsDistinct
<1>1. Inv => PortsDistinct
  BY DEF Inv, InstInv, CheckedInv, PortsDistinct
<1> QED BY <1>1, SpecInv, PTL

\* A patch never undoes the status the supervisor has written (store.go,
\* Update leaves the column alone): only the "idle" of an earlier run, or of an
\* update, that is written late does.
THEOREM RunningStored == Spec => []RunningIsStored
<1>1. Inv => RunningIsStored
  BY DEF Inv, ServerInv
<1> QED BY <1>1, SpecInv, PTL

\* autostart starts no second server beside one a dead panel left, as long as
\* its row says so (main.go:85-86).
THEOREM SparedOrphans == Spec => []AutostartSpares
<1>1. Inv => AutostartSpares
  BY DEF Inv, ServerInv, ServerTypeOK, ToldInv, Told, AutostartSpares, Alive
<1> QED BY <1>1, SpecInv, PTL

\* A new instance owns nothing of an old one, but grants that were made for its
\* id, and a delete leaves no row of its instance but those that came when it
\* was not there (instance_handlers.go).
THEOREM OwnedFollow == Spec => OwnedRowsFollow
<1> DEFINE New == \A id \in DOMAIN inst' \ DOMAIN inst, t \in Owned :
               id \in owned[t] => t = "grants" /\ <<t, id>> \in late
           Deletes == \A h \in Handlers : DeleteBackups(h) =>
               \A t \in Owned : loc[h].id \in owned'[t] => <<t, loc[h].id>> \in late
<1>1. Inv /\ [Next]_vars => [New]_instVars
  <2> SUFFICES ASSUME Inv, [Next]_vars PROVE New \/ UNCHANGED instVars
    OBVIOUS
  <2>1. CASE RequestNext
    <3>1. PICK h \in Handlers : HandlerNext(h)
      BY <2>1 DEF RequestNext
    <3>2. RowsKept
      BY <3>1, HandlerKeepsRows DEF Inv
    <3> QED BY <3>2 DEF RowsKept, Inv, InstInv, GivenInv, OwnedGiven
  <2>2. CASE DOMAIN inst' = DOMAIN inst
    BY <2>2
  <2>3. CASE BootNext \/ Crash \/ UNCHANGED vars
    BY <2>2, <2>3 DEF BootNext, MigrateChecks, MigrateExecs, MigrateInserts, StartFails, Seeds,
         AutostartLists, Serves, Autostarts, AutostartFails, AutostartSkips, Crash, instVars, vars
  <2>4. ASSUME NEW i \in Ids, ServerNext(i) PROVE DOMAIN inst' = DOMAIN inst
    BY <2>4 DEF ServerNext, UserStarts, SupStarting, SupLaunches, SupRegisters, SupReady,
         SupAnnounces, ServerExits, SupWaited, SupRestarts, SupEnds, SupIdle, Idles, UpdateReads,
         UpdateChecks, StopOrphan, OrphanExits, Status, instVars
  <2> QED BY <2>1, <2>2, <2>3, <2>4 DEF Next
<1>2. Inv => [Deletes]_instVars
  <2> SUFFICES ASSUME Inv, NEW h \in Handlers, DeleteBackups(h), NEW t \in Owned,
                      loc[h].id \in owned'[t]
               PROVE  <<t, loc[h].id>> \in late
    OBVIOUS
  <2>1. PICK id : id = loc[h].id
    OBVIOUS
  <2>2. /\ Cleared("grants", id) /\ Cleared("schedules", id) /\ late' = late
        /\ Clear("backups", id) /\ "backups" \in Owned /\ nextId' = nextId
    BY <2>1 DEF DeleteBackups, Inv, InstInv, ClearedInv, Owned
  <2>3. Cleared("grants", id)' /\ Cleared("schedules", id)' /\ Cleared("backups", id)'
    BY <2>2, ClearFacts DEF Inv, Owned
  <2> QED BY <2>1, <2>2, <2>3 DEF Cleared, Owned
<1> HIDE DEF New, Deletes
<1>3. Spec => [][New]_instVars
  BY <1>1, SpecInv, PTL DEF Spec
<1>4. Spec => [][Deletes]_instVars
  BY <1>2, SpecInv, PTL DEF Spec
<1> QED BY <1>3, <1>4 DEF OwnedRowsFollow, NewOwnsNothing, DeleteClears, New, Deletes
=============================================================================
