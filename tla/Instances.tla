------------------------------ MODULE Instances ------------------------------
(***************************************************************************)
(* The table of instances, src/internal/instance/store.go, with the rows    *)
(* that belong to an instance, and the handlers that edit them,            *)
(* src/internal/api/instance_handlers.go (and the ones that make schedules, *)
(* grants and backups, which only insert).                                  *)
(*                                                                         *)
(* The tables have no foreign keys: the delete handler clears them one      *)
(* statement after the other.  A statement is one step; a handler is a      *)
(* goroutine with what it has read.                                         *)
(***************************************************************************)
EXTENDS Naturals, FiniteSets

CONSTANTS
    Handlers,    \* the goroutines of requests (and of the backup job)
    MaxId,       \* bound: instances ever created
    Dirs,        \* game directories
    Ports,       \* the pairs of ports requests name, [game, query]
    MaxRequests, \* bound: requests
    DbMayFail    \* may a statement of a delete fail?

Ids == 1 .. MaxId
Owned == {"grants", "schedules", "backups"}
Statuses == {"idle", "starting", "running"}

ASSUME InstancesAssumption ==
    /\ MaxId \in Nat
    /\ MaxRequests \in Nat
    /\ DbMayFail \in BOOLEAN
    /\ Dirs # {} /\ Ports # {}

VARIABLES
    inst,     \* instances: a row per id
    nextId,   \* its AUTOINCREMENT counter
    owned,    \* the instances that grants, schedules, backups have rows of
    loc,      \* the local state of every handler
    requests, \* requests so far
    late,     \* history: what was made for an instance that was not there
    raced     \* history: were two handlers between check and write at once,
              \* in this panel or an earlier one?

instVars == <<inst, nextId, owned, loc, requests, late, raced>>

-----------------------------------------------------------------------------
Row == [dir : Dirs, ports : Ports, auto : BOOLEAN, status : Statuses]

At == {"none", "insert", "read", "update", "made", "job", "row", "grants",
       "schedules", "list", "backups"}
Local == [at : At, id : 0 .. MaxId, row : Row, kind : Owned \cup {"none"}]

Blank == CHOOSE r \in Row : r.status = "idle"
Fresh == [at |-> "none", id |-> 0, row |-> Blank, kind |-> "none"]

\* Store.portConflict: another row with the same game port, or with the same
\* query port.
PortConflict(id, ports) ==
    \E other \in DOMAIN inst \ {id} :
        \/ inst[other].ports.game = ports.game
        \/ inst[other].ports.query = ports.query

\* An earlier panel left the rows and what belongs to them; its requests may
\* have raced for a port already.
InstInit(rows, rowsOf) ==
    /\ inst = rows
    /\ nextId = Cardinality(DOMAIN rows) + 1
    /\ owned = rowsOf
    /\ loc = [h \in Handlers |-> Fresh]
    /\ requests = 0
    /\ late = {}
    /\ raced = \E id \in DOMAIN inst : PortConflict(id, inst[id].ports)

Set(h, l) == loc' = [loc EXCEPT ![h] = l]
Move(h, at) == Set(h, [loc[h] EXCEPT !.at = at])
Return(h) == Set(h, Fresh)
Accept == requests < MaxRequests /\ requests' = requests + 1

\* Is another handler between its check of the ports and its write?
Checked(h) == \E g \in Handlers \ {h} : loc[g].at \in {"insert", "update"}

-----------------------------------------------------------------------------
(* Create *)

\* handleInstanceCreate, Store.Create: the check of the ports, ...
CreateCheck(h) ==
    /\ loc[h].at = "none"
    /\ Accept
    /\ \E dir \in Dirs, ports \in Ports, auto \in BOOLEAN :
           /\ ~PortConflict(0, ports)
           /\ Set(h, [Fresh EXCEPT !.at = "insert",
                          !.row = [dir |-> dir, ports |-> ports, auto |-> auto,
                                   status |-> "idle"]])
    /\ raced' = (raced \/ Checked(h))
    /\ UNCHANGED <<inst, nextId, owned, late>>

\* The id without AUTOINCREMENT: the largest in use and one more.
ReusedId == IF DOMAIN inst = {} THEN 1
            ELSE 1 + CHOOSE i \in DOMAIN inst : \A j \in DOMAIN inst : j <= i

CreateInsertReuses(h) ==
    /\ loc[h].at = "insert"
    /\ nextId <= MaxId
    /\ IF \E i \in DOMAIN inst : inst[i].dir = loc[h].row.dir
       THEN UNCHANGED <<inst, nextId>>
       ELSE /\ inst' = [i \in DOMAIN inst \cup {ReusedId} |->
                           IF i = ReusedId THEN loc[h].row ELSE inst[i]]
            /\ nextId' = nextId + 1
    /\ Return(h)
    /\ UNCHANGED <<owned, requests, late, raced>>

\* ... and the INSERT, refused when the directory is taken (UNIQUE).
CreateInsert(h) ==
    /\ loc[h].at = "insert"
    /\ nextId <= MaxId
    /\ IF \E i \in DOMAIN inst : inst[i].dir = loc[h].row.dir
       THEN UNCHANGED <<inst, nextId>>
       ELSE /\ inst' = [i \in DOMAIN inst \cup {nextId} |->
                           IF i = nextId THEN loc[h].row ELSE inst[i]]
            /\ nextId' = nextId + 1
    /\ Return(h)
    /\ UNCHANGED <<owned, requests, late, raced>>

-----------------------------------------------------------------------------
(* Patch *)

\* handleInstancePatch reads the whole row and puts the fields of the request
\* in: here the ports, or another one (the autostart mark).
PatchRead(h) ==
    /\ loc[h].at = "none"
    /\ Accept
    /\ \E id \in DOMAIN inst :
           \/ \E ports \in Ports \ {inst[id].ports} :
                  Set(h, [Fresh EXCEPT !.at = "read", !.id = id,
                              !.row = [inst[id] EXCEPT !.ports = ports]])
           \/ Set(h, [Fresh EXCEPT !.at = "read", !.id = id,
                          !.row = [inst[id] EXCEPT !.auto = ~inst[id].auto]])
    /\ UNCHANGED <<inst, nextId, owned, late, raced>>

\* The ports are those the row has already, most of the time: no check.
PatchChecksNot(h) ==
    /\ loc[h].at = "read"
    /\ Move(h, "update")
    /\ raced' = (raced \/ Checked(h))
    /\ UNCHANGED <<inst, nextId, owned, requests, late>>

\* Store.Update: the check of the ports, those that were read included, ...
PatchCheck(h) ==
    /\ loc[h].at = "read"
    /\ IF PortConflict(loc[h].id, loc[h].row.ports)
       THEN Return(h) ELSE Move(h, "update")
    /\ raced' = (raced \/ Checked(h))
    /\ UNCHANGED <<inst, nextId, owned, requests, late>>

\* An UPDATE of every column, the status included.
PatchWriteAll(h) ==
    /\ loc[h].at = "update"
    /\ inst' = [i \in DOMAIN inst |-> IF i = loc[h].id THEN loc[h].row ELSE inst[i]]
    /\ Return(h)
    /\ UNCHANGED <<nextId, owned, requests, late, raced>>

\* ... and the UPDATE of every column but the directory and the status.  The
\* row may be gone.
PatchWrite(h) ==
    /\ loc[h].at = "update"
    /\ inst' = [i \in DOMAIN inst |->
                   IF i = loc[h].id
                   THEN [loc[h].row EXCEPT !.dir = inst[i].dir, !.status = inst[i].status]
                   ELSE inst[i]]
    /\ Return(h)
    /\ UNCHANGED <<nextId, owned, requests, late, raced>>

-----------------------------------------------------------------------------
(* Rows made for an instance *)

\* handleScheduleCreate, handleBackupCreate: loadInstance.
MakeLoads(h) ==
    /\ loc[h].at = "none"
    /\ Accept
    /\ \E id \in DOMAIN inst, kind \in {"schedules", "backups"} :
           Set(h, [Fresh EXCEPT !.at = "made", !.id = id, !.kind = kind])
    /\ UNCHANGED <<inst, nextId, owned, late, raced>>

\* The backup becomes a job; when the archive is packed, the row is inserted.
BackupStarts(h) ==
    /\ loc[h].at = "made" /\ loc[h].kind = "backups"
    /\ Move(h, "job")
    /\ UNCHANGED <<inst, nextId, owned, requests, late, raced>>

\* The row is inserted, whether or not the instance is still there.
Insert(t, id) ==
    /\ owned' = [owned EXCEPT ![t] = @ \cup {id}]
    /\ late' = IF id \in DOMAIN inst THEN late ELSE late \cup {<<t, id>>}

MakeInserts(h) ==
    /\ \/ loc[h].at = "made" /\ loc[h].kind = "schedules"
       \/ loc[h].at = "job"
    /\ Insert(loc[h].kind, loc[h].id)
    /\ Return(h)
    /\ UNCHANGED <<inst, nextId, requests, raced>>

\* ReplaceUserGrants: the last grant of an instance goes, or there is one, of
\* any id the request names.
Clear(t, id) == owned' = [owned EXCEPT ![t] = @ \ {id}]

Grant(h) ==
    /\ loc[h].at = "none"
    /\ Accept
    /\ \E id \in Ids : \/ Insert("grants", id)
                       \/ Clear("grants", id) /\ late' = late
    /\ UNCHANGED <<inst, nextId, loc, raced>>

-----------------------------------------------------------------------------
(* Delete *)

\* handleInstanceDelete: RunningOfKind, ...
JobRuns(id) == \E h \in Handlers : loc[h].at = "job" /\ loc[h].id = id

DeleteAsks(h) ==
    /\ loc[h].at = "none"
    /\ Accept
    /\ \E id \in DOMAIN inst :
           /\ ~JobRuns(id)
           /\ Set(h, [Fresh EXCEPT !.at = "row", !.id = id])
    /\ UNCHANGED <<inst, nextId, owned, late, raced>>

\* ... then a statement after the other; a failed one ends the request.
DeleteFails(h) ==
    /\ DbMayFail
    /\ loc[h].at \in {"row", "grants", "schedules", "backups"}
    /\ Return(h)
    /\ UNCHANGED <<inst, nextId, owned, requests, late, raced>>

DeleteRow(h) ==
    /\ loc[h].at = "row"
    /\ inst' = [i \in DOMAIN inst \ {loc[h].id} |-> inst[i]]
    /\ IF loc[h].id \in DOMAIN inst THEN Move(h, "grants") ELSE Return(h)
    /\ UNCHANGED <<nextId, owned, requests, late, raced>>

DeleteGrants(h) ==
    /\ loc[h].at = "grants"
    /\ Clear("grants", loc[h].id)
    /\ Move(h, "schedules")
    /\ UNCHANGED <<inst, nextId, requests, late, raced>>

\* The schedules are left to the scheduler.
DeleteSchedulesNot(h) ==
    /\ loc[h].at = "schedules"
    /\ Move(h, "list")
    /\ UNCHANGED <<inst, nextId, owned, requests, late, raced>>

DeleteSchedules(h) ==
    /\ loc[h].at = "schedules"
    /\ Clear("schedules", loc[h].id)
    /\ Move(h, "list")
    /\ UNCHANGED <<inst, nextId, requests, late, raced>>

\* SELECT file FROM backups; when it fails, the backups are passed over.
DeleteLists(h) ==
    /\ loc[h].at = "list"
    /\ (Move(h, "backups") \/ (DbMayFail /\ Return(h)))
    /\ UNCHANGED <<inst, nextId, owned, requests, late, raced>>

\* The rows, and the files that were listed.  (The last call is Reload, which
\* is in Scheduler and makes it forget the schedules.)
DeleteBackups(h) ==
    /\ loc[h].at = "backups"
    /\ Clear("backups", loc[h].id)
    /\ Return(h)
    /\ UNCHANGED <<inst, nextId, requests, late, raced>>

-----------------------------------------------------------------------------
HandlerNext(h) ==
    \/ CreateCheck(h) \/ CreateInsert(h)
    \/ PatchRead(h) \/ PatchCheck(h) \/ PatchWrite(h)
    \/ MakeLoads(h) \/ BackupStarts(h) \/ MakeInserts(h) \/ Grant(h)
    \/ DeleteAsks(h) \/ DeleteFails(h) \/ DeleteRow(h) \/ DeleteGrants(h)
    \/ DeleteSchedules(h) \/ DeleteLists(h) \/ DeleteBackups(h)

-----------------------------------------------------------------------------
(* Properties *)

\* The types of the rows and of the handlers (store.go's Instance).
InstTypeOK ==
    /\ DOMAIN inst \subseteq Ids /\ \A i \in DOMAIN inst : inst[i] \in Row
    /\ nextId \in 1 .. MaxId + 1
    /\ owned \in [Owned -> SUBSET Ids]
    /\ loc \in [Handlers -> Local]
    /\ requests \in 0 .. MaxRequests
    /\ late \subseteq Owned \X Ids
    /\ raced \in BOOLEAN

\* Whatever deletes leave behind, because they failed, were overtaken or the
\* panel died, never comes to belong to another instance.  (A grant may name
\* an instance before it is there.)
NewOwnsNothing ==
    [][\A id \in DOMAIN inst' \ DOMAIN inst, t \in Owned :
           id \in owned[t] => t = "grants" /\ <<t, id>> \in late]_instVars

\* Two instances never have a game port or a query port in common, unless two
\* requests were between the check of store.go and its statement together.
PortsDistinct ==
    raced \/ \A id \in DOMAIN inst : ~PortConflict(id, inst[id].ports)

\* A delete that goes through leaves no row of the instance but those that were
\* inserted when it was not there (before it was, or by a request that came late).
DeleteClears ==
    [][\A h \in Handlers : DeleteBackups(h) =>
           \A t \in Owned : loc[h].id \in owned'[t] => <<t, loc[h].id>> \in late]_instVars

\* The rows that belong to an instance go with it, and those that stay have no
\* other owner.
OwnedRowsFollow == NewOwnsNothing /\ DeleteClears
=============================================================================
