-------------------------------- MODULE Jobs --------------------------------
(***************************************************************************)
(* The job manager (internal/job), the event hub it announces its jobs on  *)
(* (internal/event), and the WebSocket handlers that read from the hub     *)
(* (internal/api/ws_handlers.go).                                          *)
(*                                                                         *)
(* m.mu guards the tables of the manager; what happens under it is one     *)
(* step.  A broadcast is not: it holds the read lock of the hub while it    *)
(* goes from subscriber to subscriber, so that broadcasts of several jobs  *)
(* interleave and a handler that comes or goes waits for them.             *)
(***************************************************************************)
EXTENDS Integers, Sequences, FiniteSets

CONSTANTS
    Keys,       \* "instanceID:kind"
    Clients,    \* WebSocket connections; one that comes back is another one
    MaxSeq,     \* bound: jobs ever started
    MaxReports, \* bound: progress reports of a job
    MaxTime,    \* bound: the clock, in units of which
    Retain,     \* retainPeriod is so many
    MaxJobs,    \* maxJobs
    QueueCap    \* the capacity of a subscriber's channel

ASSUME JobsAssumption ==
    /\ MaxSeq \in Nat
    /\ MaxReports \in Nat
    /\ MaxTime \in Nat
    /\ Retain \in Nat
    /\ MaxJobs \in Nat
    /\ QueueCap \in Nat \ {0}

Ids == 1 .. MaxSeq

VARIABLES
    now,      \* the clock
    \* Manager, guarded by m.mu
    seq,      \* how many jobs there have been; the id of the last one
    job,      \* the Job of every id, also of those no longer listed
    listed,   \* the ids in m.jobs
    running,  \* m.running: the id under every key, 0 when there is none
    \* the goroutine of every job, and in its first broadcast Start's caller
    at,
    left,     \* the subscribers its broadcast has still to serve
    \* Hub
    reading,  \* the jobs whose broadcast holds the read lock
    subs,     \* h.subs: the connections that are subscribed
    \* handleWS of every connection
    ws,       \* where it is
    alive,    \* is the client at the other end still there?
    queue,    \* the subscriber's channel
    writing   \* the event it writes to the client (a sequence of at most one)

jobVars == <<seq, job, listed, running>>
wsVars  == <<subs, ws, alive, queue, writing>>
vars    == <<now, jobVars, at, left, reading, wsVars>>

Unstarted == [key |-> "none", state |-> "none", reports |-> 0, end |-> 0]

NewJob(k) == [key |-> k, state |-> "running", reports |-> 0, end |-> 0]

Init ==
    /\ now = 0
    /\ seq = 0
    /\ job = [i \in Ids |-> Unstarted]
    /\ listed = {}
    /\ running = [k \in Keys |-> 0]
    /\ at = [i \in Ids |-> "none"]
    /\ left = [i \in Ids |-> {}]
    /\ reading = {}
    /\ subs = {}
    /\ ws = [c \in Clients |-> "none"]
    /\ alive = [c \in Clients |-> FALSE]
    /\ queue = [c \in Clients |-> <<>>]
    /\ writing = [c \in Clients |-> <<>>]

\* The steps of a job that are broadcasts, and the step each leads to.
After == [announce |-> "fn", report |-> "fn", end |-> "over"]
Casts == DOMAIN After

Tick == /\ now < MaxTime
        /\ now' = now + 1
        /\ UNCHANGED <<jobVars, at, left, reading, wsVars>>

-----------------------------------------------------------------------------
(* Manager *)

\* gcLocked on the table of ids ids: with too many jobs in it, those go that
\* ended more than Retain ago.  A mistaken form keeps only the running ones.
CollectEnded(jobs, ids) ==
    IF Cardinality(ids) <= MaxJobs THEN ids
    ELSE {i \in ids : jobs[i].state = "running"}
Collect(jobs, ids) ==
    IF Cardinality(ids) <= MaxJobs THEN ids
    ELSE {i \in ids : jobs[i].state = "running" \/ now - jobs[i].end <= Retain}

\* Start.  A mistaken form does not look for a job of the key.
StartUnchecked(k) ==
    /\ seq < MaxSeq
    /\ seq' = seq + 1
    /\ job' = [job EXCEPT ![seq'] = NewJob(k)]
    /\ running' = [running EXCEPT ![k] = seq']
    /\ listed' = Collect(job', listed \cup {seq'})
    /\ at' = [at EXCEPT ![seq'] = "announce"]
    /\ UNCHANGED <<now, left, reading, wsVars>>

Start(k) ==
    /\ running[k] = 0
    /\ seq < MaxSeq
    /\ seq' = seq + 1
    /\ job' = [job EXCEPT ![seq'] = NewJob(k)]
    /\ running' = [running EXCEPT ![k] = seq']
    /\ listed' = Collect(job', listed \cup {seq'})
    /\ at' = [at EXCEPT ![seq'] = "announce"]
    /\ UNCHANGED <<now, left, reading, wsVars>>

\* report
Report(i) ==
    /\ at[i] = "fn"
    /\ job[i].reports < MaxReports
    /\ job' = [job EXCEPT ![i].reports = @ + 1]
    /\ at' = [at EXCEPT ![i] = "report"]
    /\ UNCHANGED <<now, seq, listed, running, left, reading, wsVars>>

\* fn returned, with an error or without, or panicked: "ended" stands for done
\* and for failed.  Mistaken forms free every key, or none when fn failed.
FinishAll(i) ==
    /\ at[i] = "fn"
    /\ running' = [k \in Keys |-> 0]
    /\ job' = [job EXCEPT ![i].state = "ended", ![i].end = now]
    /\ listed' = Collect(job', listed)
    /\ at' = [at EXCEPT ![i] = "end"]
    /\ UNCHANGED <<now, seq, left, reading, wsVars>>

FinishFailedKeepsKey(i) ==
    /\ at[i] = "fn"
    /\ job' = [job EXCEPT ![i].state = "ended", ![i].end = now]
    /\ running' = running \/ running' = [running EXCEPT ![job[i].key] = 0]
    /\ listed' = Collect(job', listed)
    /\ at' = [at EXCEPT ![i] = "end"]
    /\ UNCHANGED <<now, seq, left, reading, wsVars>>

Finish(i) ==
    /\ at[i] = "fn"
    /\ running' = [running EXCEPT ![job[i].key] = 0]
    /\ job' = [job EXCEPT ![i].state = "ended", ![i].end = now]
    /\ listed' = Collect(job', listed)
    /\ at' = [at EXCEPT ![i] = "end"]
    /\ UNCHANGED <<now, seq, left, reading, wsVars>>

-----------------------------------------------------------------------------
(* Hub.Broadcast *)

\* The snapshot *j the manager sends.  No one changes j before it is sent: the
\* caller of Start announces the job before it starts the goroutine.
Event(i) == [job |-> i, reports |-> job[i].reports, state |-> job[i].state]

CastBegin(i) ==
    /\ at[i] \in Casts
    /\ i \notin reading
    /\ reading' = reading \cup {i}
    /\ left' = [left EXCEPT ![i] = subs]
    /\ UNCHANGED <<now, jobVars, at, wsVars>>

\* One subscriber: with its channel full it misses the event.  Mistaken forms
\* wait for room in it, or let the end of a job jump the queue.
CastWaits(i, c) ==
    /\ c \in left[i]
    /\ left' = [left EXCEPT ![i] = @ \ {c}]
    /\ Len(queue[c]) < QueueCap
    /\ queue' = [queue EXCEPT ![c] = Append(@, Event(i))]
    /\ UNCHANGED <<now, jobVars, at, reading, subs, ws, alive, writing>>

CastEndsFirst(i, c) ==
    /\ c \in left[i]
    /\ left' = [left EXCEPT ![i] = @ \ {c}]
    /\ queue' = IF Len(queue[c]) = QueueCap THEN queue
                ELSE IF at[i] = "end" THEN [queue EXCEPT ![c] = <<Event(i)>> \o @]
                ELSE [queue EXCEPT ![c] = Append(@, Event(i))]
    /\ UNCHANGED <<now, jobVars, at, reading, subs, ws, alive, writing>>

Cast(i, c) ==
    /\ c \in left[i]
    /\ left' = [left EXCEPT ![i] = @ \ {c}]
    /\ \/ /\ Len(queue[c]) < QueueCap
          /\ queue' = [queue EXCEPT ![c] = Append(@, Event(i))]
       \/ /\ Len(queue[c]) = QueueCap
          /\ queue' = queue
    /\ UNCHANGED <<now, jobVars, at, reading, subs, ws, alive, writing>>

CastEnd(i) ==
    /\ i \in reading
    /\ left[i] = {}
    /\ reading' = reading \ {i}
    /\ at' = [at EXCEPT ![i] = After[@]]
    /\ UNCHANGED <<now, jobVars, left, wsVars>>

-----------------------------------------------------------------------------
(* handleWS *)

\* Subscribe takes the write lock.
Connect(c) ==
    /\ ws[c] = "none"
    /\ reading = {}
    /\ ws' = [ws EXCEPT ![c] = "select"]
    /\ alive' = [alive EXCEPT ![c] = TRUE]
    /\ subs' = subs \cup {c}
    /\ UNCHANGED <<now, jobVars, at, left, reading, queue, writing>>

\* The client closes, or its connection breaks (external).
ClientLeaves(c) ==
    /\ alive[c]
    /\ alive' = [alive EXCEPT ![c] = FALSE]
    /\ UNCHANGED <<now, jobVars, at, left, reading, subs, ws, queue, writing>>

Take(c) ==
    /\ ws[c] = "select"
    /\ queue[c] # <<>>
    /\ writing' = [writing EXCEPT ![c] = <<Head(queue[c])>>]
    /\ queue' = [queue EXCEPT ![c] = Tail(@)]
    /\ ws' = [ws EXCEPT ![c] = "write"]
    /\ UNCHANGED <<now, jobVars, at, left, reading, subs, alive>>

\* conn.Write: what is written may be lost when the client has gone; a client
\* that is too slow fails it like one that has gone.
Written(c) ==
    /\ ws[c] = "write"
    /\ writing' = [writing EXCEPT ![c] = <<>>]
    /\ ws' = [ws EXCEPT ![c] = "select"]
    /\ UNCHANGED <<now, jobVars, at, left, reading, subs, alive, queue>>

WriteFails(c) ==
    /\ ws[c] = "write"
    /\ writing' = [writing EXCEPT ![c] = <<>>]
    /\ ws' = [ws EXCEPT ![c] = "leave"]
    /\ UNCHANGED <<now, jobVars, at, left, reading, subs, alive, queue>>

\* The reading side saw the client go and closed done.
SelectDone(c) ==
    /\ ws[c] = "select"
    /\ ~alive[c]
    /\ ws' = [ws EXCEPT ![c] = "leave"]
    /\ UNCHANGED <<now, jobVars, at, left, reading, subs, alive, queue, writing>>

\* The deferred cancel, under the write lock, then conn.Close; a mistaken form
\* closes the connection only.
CancelForgotten(c) ==
    /\ ws[c] = "leave"
    /\ reading = {}
    /\ ws' = [ws EXCEPT ![c] = "closed"]
    /\ alive' = [alive EXCEPT ![c] = FALSE]
    /\ queue' = [queue EXCEPT ![c] = <<>>]
    /\ UNCHANGED <<now, jobVars, at, left, reading, subs, writing>>

Cancel(c) ==
    /\ ws[c] = "leave"
    /\ reading = {}
    /\ subs' = subs \ {c}
    /\ ws' = [ws EXCEPT ![c] = "closed"]
    /\ alive' = [alive EXCEPT ![c] = FALSE]
    /\ queue' = [queue EXCEPT ![c] = <<>>]
    /\ UNCHANGED <<now, jobVars, at, left, reading, writing>>

-----------------------------------------------------------------------------
CastNext(i) == CastBegin(i) \/ CastEnd(i) \/ \E c \in Clients : Cast(i, c)

JobNext(i) == Report(i) \/ Finish(i) \/ CastNext(i)

WSNext(c) ==
    \/ Connect(c) \/ ClientLeaves(c)
    \/ Take(c) \/ Written(c) \/ WriteFails(c) \/ SelectDone(c) \/ Cancel(c)

Next == \/ Tick
        \/ \E k \in Keys : Start(k)
        \/ \E i \in Ids : JobNext(i)
        \/ \E c \in Clients : WSNext(c)

Spec == Init /\ [][Next]_vars

\* Goroutines are scheduled; a write ends within its five seconds; select does
\* not pass over done for ever; and a writer that waits for the lock keeps later
\* readers out (sync.RWMutex), so that cancel gets it.  Nothing is assumed of
\* the clients, and nothing of the jobs' functions.
Fairness ==
    /\ \A i \in Ids : WF_vars(CastNext(i))
    /\ \A c \in Clients :
          /\ WF_vars(Take(c))
          /\ WF_vars(Written(c) \/ WriteFails(c))
          /\ SF_vars(SelectDone(c))
          /\ SF_vars(Cancel(c))

FairSpec == Spec /\ Fairness

-----------------------------------------------------------------------------
(* Properties *)

Events == [job : Ids, reports : 0 .. MaxReports, state : {"running", "ended"}]

\* The types of the variables, and the capacity of the channels.
TypeOK ==
    /\ now \in 0 .. MaxTime
    /\ seq \in 0 .. MaxSeq
    /\ job \in [Ids -> [key : Keys \cup {"none"},
                        state : {"none", "running", "ended"},
                        reports : 0 .. MaxReports, end : 0 .. MaxTime]]
    /\ listed \subseteq 1 .. seq
    /\ running \in [Keys -> 0 .. seq]
    /\ at \in [Ids -> {"none", "fn", "over"} \cup Casts]
    /\ left \in [Ids -> SUBSET Clients]
    /\ reading \subseteq Ids
    /\ subs \subseteq Clients
    /\ ws \in [Clients -> {"none", "select", "write", "leave", "closed"}]
    /\ alive \in [Clients -> BOOLEAN]
    /\ queue \in [Clients -> Seq(Events)]
    /\ writing \in [Clients -> Seq(Events)]
    /\ \A c \in Clients : Len(queue[c]) <= QueueCap /\ Len(writing[c]) <= 1

\* A job runs exactly while m.running has it under its key (job.go:44, 47): at
\* most one job of an instance and kind, and none that no later Start can see.
KeyIsJob ==
    \A i \in Ids, k \in Keys :
        running[k] = i <=> job[i].key = k /\ job[i].state = "running"

\* Whoever asks for a running job, or for one that ended no longer than
\* retainPeriod ago, finds it (job.go:16-20).
RecentJobsListed ==
    \A i \in 1 .. seq :
        job[i].state = "running" \/ now - job[i].end <= Retain => i \in listed

\* What a connection has of one job comes in the order it happened, however the
\* broadcasts of the jobs interleave and whatever it missed.
Waiting(c) == writing[c] \o queue[c]
EventsInOrder ==
    \A c \in Clients : \A m, n \in 1 .. Len(Waiting(c)) :
        LET e == Waiting(c)[m]  f == Waiting(c)[n]
        IN  m < n /\ e.job = f.job =>
                e.state = "running" /\ (e.reports < f.reports \/ f.state # "running")

\* Who hears that a job is over may start the next one: its key is free or has
\* another job.
EndEventMeansFree ==
    \A c \in Clients : \A n \in 1 .. Len(Waiting(c)) :
        LET e == Waiting(c)[n]
        IN  e.state # "running" => \A k \in Keys : running[k] # e.job

\* A broadcast comes to its end, and the job goes on, however slow the clients
\* (event.go:12, 45).
BroadcastsEnd == \A i \in Ids : at[i] \in Casts ~> at[i] \notin Casts

\* A client that has gone is unsubscribed, whatever its handler was doing.
GoneAreUnsubscribed ==
    \A c \in Clients : c \in subs /\ ~alive[c] ~> c \notin subs

-----------------------------------------------------------------------------
\* The keys are slots: what the other modules take the manager for.
Busy == {k \in Keys : running[k] # 0}
Slots == INSTANCE JobSlots WITH busy <- Busy
ImplementsJobSlots == Slots!Spec

=============================================================================
