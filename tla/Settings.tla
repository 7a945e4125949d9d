------------------------------ MODULE Settings ------------------------------
(***************************************************************************)
(* The settings of an instance: PUT config, src/internal/api/               *)
(* config_handlers.go, with the file it reads, merges and writes (IniCodec)  *)
(* and the RCON connection, src/internal/rcon/rcon.go, by which it tells a   *)
(* running server.                                                         *)
(*                                                                         *)
(* The game server reads the file when it is launched; it has RCON some time *)
(* later.  Of the supervisor there is the state that Status gives: a server  *)
(* lives only while it is "starting" or "running" (theorem IdleIsDead).  The *)
(* panel does not restart: a server of an earlier panel, which Status does   *)
(* not know, is silently not told (config_handlers.go:126-129).              *)
(***************************************************************************)
EXTENDS IniCodec, Integers, FiniteSets

CONSTANTS
    Handlers, \* the goroutines of PUT config
    Hot,      \* the keys a server takes over RCON
    Cases     \* bounds: what a behaviour starts from and may contain

ManagedKeys == {<<k>> : k \in ToSet(Managed)}

\* A case has the text of the file, what it means, the changes that are put, and
\* whether there is one PUT at a time, a server, and faults (writes that fail,
\* a wrong password, empty packets).  A PUT has some key, and none that the
\* schema does not know; empty values count as not put.
ASSUME SettingsAssumption ==
    /\ Hot \subseteq ManagedKeys
    /\ \A c \in Cases :
        /\ c.text \in Seq(Chars \cup Keys)
        /\ \A ch \in c.changes :
              /\ DOMAIN ch # {} /\ IsFiniteSet(DOMAIN ch) /\ DOMAIN ch \subseteq ManagedKeys
              /\ \A k \in DOMAIN ch : ch[k] \in Seq(Chars) \ {<< >>}
        /\ c.alone \in BOOLEAN /\ c.server \in BOOLEAN /\ c.faults \in BOOLEAN

VARIABLES
    bound,  \* the case
    text,   \* the file: << >> when it is empty or missing
    loc,    \* every handler, with what it has at hand; history: was the file
            \* written again since it wrote it?
    conn,   \* the RCON connection of every handler
    status, \* Supervisor.Status: "idle", "starting" or "running"
    server, \* the process: "off", "launched" (it has read the file) or "up"
    live,   \* the settings it runs with
    want,   \* history: what users want the file to say
    lost,   \* history: a write failed when the file was empty already
    raced,  \* history: a PUT read the file before another one had written it
    missed  \* history: something the server that runs was not told, or too late

fileVars   == <<text, want, lost>>
serverVars == <<status, server, live>>
settingsVars == <<bound, fileVars, loc, conn, serverVars, raced, missed>>

EmptyMap == [k \in {} |-> << >>]

Resting == [at |-> "none", changes |-> EmptyMap, existing |-> EmptyMap, todo |-> << >>,
             overtaken |-> FALSE]
NoConn  == [up |-> FALSE, right |-> FALSE, stage |-> "none", seq |-> 0,
            out |-> << >>, in |-> << >>, torn |-> FALSE]

-----------------------------------------------------------------------------
(* Helpers *)

\* LoadGameINI: a file that is empty or missing is a new one.  A file without the line
\* or its last parenthesis is refused: two PUTs that met can leave such a file, and after
\* them no PUT reads it here.
Load(content) == IF content = << >> THEN EmptyMap ELSE ParseINI(content)

\* What the server makes of a key of the file.
Meant(map, k) == IF Given(map, k) THEN map[k] ELSE Default[k]
Says(content, k) == Meant(Load(content), k)

\* What users want after a PUT.
Edited(map, changes) ==
    [k \in DOMAIN map \cup ManagedKeys |->
        IF k \in DOMAIN changes THEN changes[k] ELSE Meant(map, k)]

AtPlace(h, at) == loc[h].at = at
Go(h, at) == loc' = [loc EXCEPT ![h].at = at]
Connect(h, c) == conn' = [conn EXCEPT ![h] = c]

\* The handler answers its client; defer conn.Close().
Done(h) == /\ loc' = [loc EXCEPT ![h] = Resting]
           /\ Connect(h, NoConn)

Quiet == \A h \in Handlers : AtPlace(h, "none")
Telling == {"ask", "dial", "auth", "exec", "answer"}
FileFree == \A h \in Handlers : loc[h].at \notin {"save", "write"}
Writing == \E h \in Handlers : AtPlace(h, "write")

SettingsInit ==
    /\ bound \in Cases
    /\ text = bound.text
    /\ want = bound.means
    /\ loc = [h \in Handlers |-> Resting]
    /\ conn = [h \in Handlers |-> NoConn]
    /\ status = "idle" /\ server = "off"
    /\ live = [k \in ManagedKeys |-> Default[k]]
    /\ lost = FALSE /\ raced = FALSE /\ missed = FALSE

-----------------------------------------------------------------------------
(* The file *)

\* handleConfigPut: the changes are valid; LoadGameINI.  (Bound: no more PUTs
\* after two that met at the file.)
PutLoads(h) ==
    /\ AtPlace(h, "none")
    /\ ~raced /\ (bound.alone => Quiet)
    /\ \E changes \in bound.changes :
           loc' = [loc EXCEPT ![h] = [Resting EXCEPT !.at = "save", !.changes = changes,
                                                    !.existing = Load(text)]]
    /\ raced' = ~FileFree
    /\ UNCHANGED <<bound, fileVars, conn, serverVars, missed>>

\* A mistaken form opens the file and does not empty it.
SaveOpens(h) ==
    /\ AtPlace(h, "save")
    /\ Go(h, "write")
    /\ UNCHANGED <<bound, fileVars, conn, serverVars, raced, missed>>

\* SaveGameINI, os.WriteFile: the file is opened and emptied, ...
SaveTruncates(h) ==
    /\ AtPlace(h, "save")
    /\ text' = << >>
    /\ Go(h, "write")
    /\ UNCHANGED <<bound, want, lost, conn, serverVars, raced, missed>>

\* ... and the contents are written from its beginning, over those of another
\* writer that was faster.
Over(new, old) == new \o SubSeq(old, Len(new) + 1, Len(old))

SaveWrites(h) ==
    /\ AtPlace(h, "write")
    /\ text' = Over(Serialize(loc[h].changes, loc[h].existing), text)
    /\ want' = Edited(want, loc[h].changes)
    /\ loc' = [g \in Handlers |->
                  IF g = h THEN [loc[g] EXCEPT !.at = "ask"]
                  ELSE IF loc[g].at \in Telling THEN [loc[g] EXCEPT !.overtaken = TRUE]
                  ELSE loc[g]]
    /\ UNCHANGED <<bound, lost, conn, serverVars, raced, missed>>

\* Either may fail, and the handler gives up.  (A death of the panel at this
\* place leaves the same file.)
SaveFails(h) ==
    /\ bound.faults
    /\ AtPlace(h, "save") \/ AtPlace(h, "write")
    /\ lost' = (lost \/ AtPlace(h, "write"))
    /\ Done(h)
    /\ UNCHANGED <<bound, text, want, serverVars, raced, missed>>

-----------------------------------------------------------------------------
(* rconHotApply *)

\* A mistaken form tells a server only when it was announced already.
AsksRunning(h) ==
    /\ AtPlace(h, "ask")
    /\ IF status = "running" THEN Go(h, "dial") /\ UNCHANGED conn ELSE Done(h)
    /\ UNCHANGED <<bound, fileVars, serverVars, raced, missed>>

\* Status: a server that starts is told as well as one that runs.
Asks(h) ==
    /\ AtPlace(h, "ask")
    /\ IF status # "idle" THEN Go(h, "dial") /\ UNCHANGED conn ELSE Done(h)
    /\ UNCHANGED <<bound, fileVars, serverVars, raced, missed>>

\* Dial: the connection, and the packet with the password the instance has,
\* which may not be the one the server was launched with; ...
Dials(h) ==
    /\ AtPlace(h, "dial")
    /\ server = "up"
    /\ \E right \in {TRUE, ~bound.faults} :
           Connect(h, [NoConn EXCEPT !.up = TRUE, !.right = right, !.stage = "auth"])
    /\ Go(h, "auth")
    /\ UNCHANGED <<bound, fileVars, serverVars, raced, missed>>

\* ... or RCON is off, nobody listens, or ten seconds pass.
DialFails(h) ==
    /\ AtPlace(h, "dial") \/ AtPlace(h, "auth")
    /\ missed' = TRUE
    /\ Done(h)
    /\ UNCHANGED <<bound, fileVars, serverVars, raced>>

\* Dial takes the first packet that comes for the answer.
DialReads(h) ==
    /\ AtPlace(h, "auth")
    /\ conn[h].in # << >>
    /\ IF Head(conn[h].in).id = -1
       THEN missed' = TRUE /\ Done(h)
       ELSE /\ loc' = [loc EXCEPT ![h].at = "exec",
                                  ![h].todo = SetToSeq(DOMAIN loc[h].changes)]
            /\ Connect(h, [conn[h] EXCEPT !.in = Tail(@)])
            /\ missed' = missed
    /\ UNCHANGED <<bound, fileVars, serverVars, raced>>

\* Exec for the next key: the id is one more than the last one's, so the first
\* one's is that of the password.
ExecSends(h) ==
    /\ AtPlace(h, "exec")
    /\ LET id == conn[h].seq + 1
           key == Head(loc[h].todo)
       IN Connect(h, [conn[h] EXCEPT !.seq = id,
                         !.out = Append(@, [id |-> id, key |-> key,
                                            value |-> loc[h].changes[key]])])
    /\ Go(h, "answer")
    /\ UNCHANGED <<bound, fileVars, serverVars, raced, missed>>

\* A mistaken form of the test in Exec, without the id.
TakesAny(h, frame) == frame.typ = "response"

Takes(h, frame) == frame.typ = "response" /\ frame.id = conn[h].seq

\* Whatever Exec returns, the next key is next.
NextKey(h, c) ==
    IF Len(loc[h].todo) = 1 THEN Done(h)
    ELSE /\ loc' = [loc EXCEPT ![h].at = "exec", ![h].todo = Tail(@)]
         /\ Connect(h, c)

ExecReturns(h) ==
    /\ AtPlace(h, "answer") /\ ~conn[h].torn
    /\ conn[h].in # << >> /\ Takes(h, Head(conn[h].in))
    /\ NextKey(h, [conn[h] EXCEPT !.in = Tail(@)])
    /\ UNCHANGED <<bound, fileVars, serverVars, raced, missed>>

ExecSkips(h) ==
    /\ AtPlace(h, "answer") /\ ~conn[h].torn
    /\ conn[h].in # << >> /\ ~Takes(h, Head(conn[h].in))
    /\ Connect(h, [conn[h] EXCEPT !.in = Tail(@)])
    /\ UNCHANGED <<bound, fileVars, loc, serverVars, raced, missed>>

\* The deadline, or the end of the connection.  When the deadline comes within a
\* packet, what follows is not read from the beginning of a packet any more: it makes
\* no sense, or passes for some packet.  An Exec that takes it for its answer has the
\* effect of one that fails.
ExecFails(h) ==
    /\ AtPlace(h, "answer")
    /\ missed' = TRUE
    /\ \E torn \in {conn[h].torn, conn[h].torn \/ conn[h].in # << >>} :
           NextKey(h, [conn[h] EXCEPT !.torn = torn])
    /\ UNCHANGED <<bound, fileVars, serverVars, raced>>

-----------------------------------------------------------------------------
(* The game server *)

\* A packet: its id, its type, and the key whose command it answers, if any.
Frame(id, typ, of) == [id |-> id, typ |-> typ, of |-> of]
Empty(id) == IF bound.faults THEN {<<Frame(id, "response", << >>)>>} ELSE {}

\* It answers to the password with the packet's id, or with -1; some send an
\* empty response first.
ServerAuths(h) ==
    /\ server = "up" /\ conn[h].up /\ conn[h].stage = "auth"
    /\ \E first \in {<< >>} \cup Empty(1) :
           Connect(h, [conn[h] EXCEPT
               !.stage = IF conn[h].right THEN "open" ELSE "refused",
               !.in = @ \o first
                        \o <<Frame(IF conn[h].right THEN 1 ELSE -1, "auth", << >>)>>])
    /\ UNCHANGED <<bound, fileVars, loc, serverVars, raced, missed>>

\* It takes a command, and answers; some send an empty packet first.
ServerExecs(h) ==
    /\ server = "up" /\ conn[h].up /\ conn[h].stage = "open"
    /\ conn[h].out # << >>
    /\ LET command == Head(conn[h].out) IN
           /\ live' = IF command.key \in Hot
                      THEN [live EXCEPT ![command.key] = command.value] ELSE live
           /\ \E first \in {<< >>} \cup Empty(0) :
                  Connect(h, [conn[h] EXCEPT !.out = Tail(@),
                      !.in = @ \o first \o <<Frame(command.id, "response", command.key)>>])
    /\ missed' = (missed \/ loc[h].overtaken)
    /\ UNCHANGED <<bound, fileVars, loc, status, server, raced>>

\* Supervisor.Start is accepted.
Starts ==
    /\ bound.server
    /\ status = "idle"
    /\ status' = "starting"
    /\ UNCHANGED <<bound, fileVars, loc, conn, server, live, raced, missed>>

\* The process reads the file, as it is at that moment.
Launches ==
    /\ status = "starting" /\ server = "off"
    /\ server' = "launched"
    /\ live' = [k \in ManagedKeys |-> Says(text, k)]
    /\ missed' = Writing
    /\ UNCHANGED <<bound, fileVars, loc, conn, status, raced>>

Listens ==
    /\ server = "launched"
    /\ server' = "up"
    /\ UNCHANGED <<bound, fileVars, loc, conn, status, live, raced, missed>>

Announces ==
    /\ server # "off" /\ status = "starting"
    /\ status' = "running"
    /\ UNCHANGED <<bound, fileVars, loc, conn, server, live, raced, missed>>

Exits ==
    /\ server # "off"
    /\ server' = "off"
    /\ conn' = [h \in Handlers |-> [conn[h] EXCEPT !.up = FALSE]]
    /\ UNCHANGED <<bound, fileVars, loc, status, live, raced, missed>>

\* The run is over, or it is restarted after a crash.
Settles ==
    /\ server = "off" /\ status # "idle"
    /\ \/ status' = "idle"
       \/ status = "running" /\ status' = "starting"
    /\ UNCHANGED <<bound, fileVars, loc, conn, server, live, raced, missed>>

-----------------------------------------------------------------------------
PutNext(h) ==
    \/ PutLoads(h) \/ SaveTruncates(h) \/ SaveWrites(h) \/ SaveFails(h)
    \/ Asks(h) \/ Dials(h) \/ DialFails(h) \/ DialReads(h)
    \/ ExecSends(h) \/ ExecReturns(h) \/ ExecSkips(h) \/ ExecFails(h)

ServerSteps == \/ Starts \/ Launches \/ Listens \/ Announces \/ Exits \/ Settles
               \/ \E h \in Handlers : ServerAuths(h) \/ ServerExecs(h)

SettingsNext == (\E h \in Handlers : PutNext(h)) \/ ServerSteps

SettingsSpec == SettingsInit /\ [][SettingsNext]_settingsVars

-----------------------------------------------------------------------------
(* Properties *)

\* What the properties of the file need of the codec: of the maps that come up in
\* a case, what is written is read again.
RoundTrip(c, maps) ==
    /\ Load(c.text) = c.means /\ c.means \in maps
    /\ \A map \in maps : \A changes \in c.changes :
           /\ Edited(map, changes) \in maps
           /\ Serialize(changes, map) \in Seq(Chars \cup Keys)
           /\ Load(Serialize(changes, map)) = Edited(map, changes)

\* The types of the variables that have a small one.
SettingsTypeOK ==
    /\ bound \in Cases
    /\ \A h \in Handlers :
           /\ loc[h].at \in {"none", "save", "write"} \cup Telling
           /\ conn[h].stage \in {"none", "auth", "open", "refused"}
           /\ conn[h].seq \in Nat
    /\ status \in {"idle", "starting", "running"}
    /\ server \in {"off", "launched", "up"}
    /\ lost \in BOOLEAN /\ raced \in BOOLEAN /\ missed \in BOOLEAN

\* The file says what users put into it, whatever quotes, commas and parentheses
\* a value contains, for all keys of the file, those the panel does not know
\* included ("symmetric to ParseINI": ini.go, Serialize); unless a PUT read what
\* another one was about to replace, or the file was lost in a write.
SettingsKept == FileFree /\ ~raced /\ ~lost => Load(text) = want

\* A server that runs has what the file says, wherever its start or a crash fell
\* between the steps of a PUT; unless it was not reached, the file was being
\* written when it was read or lost in a write, or it was told by a PUT that
\* another one had overtaken.
ToldOrMissed ==
    Quiet /\ server # "off" /\ ~raced /\ ~missed /\ ~lost =>
        \A k \in Hot : live[k] = Says(text, k)

\* Exec returns the answer to its own command: after one that came too late,
\* after empty packets, and though the password had the same id as the first
\* command; as long as no deadline came within a packet.
AnswersMatch ==
    [][\A h \in Handlers :
           ExecReturns(h) => Head(conn[h].in).of = Head(loc[h].todo)]_settingsVars

\* "A failed authentication gives ErrAuth" (rcon.go:30), so that no command is
\* sent.  A server that sends an empty packet first breaks it.
RefusedIsSeen ==
    \A h \in Handlers : loc[h].at \in {"exec", "answer"} => conn[h].stage # "refused"
=============================================================================
