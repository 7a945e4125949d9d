----------------------------- MODULE JobsProofs -----------------------------
(***************************************************************************)
(* Machine-checked facts about Jobs, for any keys and clients, any number   *)
(* of jobs and any retention.  The inductive invariant ties the place of    *)
(* each job's goroutine to the Job it works on, and every event under way   *)
(* to the job it tells of.                                                  *)
(***************************************************************************)
EXTENDS Jobs, TLAPS

\* The Job of every goroutine: it runs until Finish, ids not given out are
\* blank, and a job that began was listed under a key.
JobInv(i) ==
    /\ i > seq => job[i].state = "none" /\ at[i] = "none"
    /\ i <= seq => at[i] # "none" /\ job[i].key \in Keys
    /\ at[i] \in {"announce", "fn", "report"} => job[i].state = "running"
    /\ at[i] \in {"end", "over"} => job[i].state = "ended"
    /\ job[i].end <= now
    /\ i \in reading => at[i] \in Casts
    /\ left[i] # {} => i \in reading

\* Events that tell of an end tell the truth.
Heard(s) == \A n \in 1 .. Len(s) :
                s[n].state # "running" => job[s[n].job].state = "ended"
HeardInv == \A c \in Clients : Heard(queue[c]) /\ Heard(writing[c])

Inv == /\ TypeOK
       /\ \A i \in Ids : JobInv(i)
       /\ KeyIsJob
       /\ RecentJobsListed
       /\ HeardInv

Jobs0 == [key : Keys \cup {"none"}, state : {"none", "running", "ended"},
          reports : 0 .. MaxReports, end : 0 .. MaxTime]

-----------------------------------------------------------------------------
(* Initial states and operators *)

LEMMA InitInv == Init => Inv
<1> SUFFICES ASSUME Init PROVE Inv
  OBVIOUS
<1>1. TypeOK
  BY JobsAssumption DEF Init, TypeOK, Unstarted, Ids, Events
<1>2. \A i \in Ids : JobInv(i)
  BY JobsAssumption DEF Init, JobInv, Unstarted, Ids
<1>3. KeyIsJob /\ RecentJobsListed
  BY JobsAssumption DEF Init, KeyIsJob, RecentJobsListed, Unstarted, Ids
<1>4. HeardInv
  BY DEF Init, HeardInv, Heard
<1> QED BY <1>1, <1>2, <1>3, <1>4 DEF Inv

\* gcLocked takes nothing in, and leaves out only what ended long ago.
LEMMA CollectKeeps ==
    ASSUME NEW jobs, NEW ids
    PROVE  /\ Collect(jobs, ids) \subseteq ids
           /\ \A i \in ids : jobs[i].state = "running" \/ now - jobs[i].end <= Retain
                                => i \in Collect(jobs, ids)
  BY DEF Collect

LEMMA AppendFacts ==
    ASSUME NEW S, NEW q \in Seq(S), NEW e \in S
    PROVE  /\ Append(q, e) \in Seq(S)
           /\ Len(Append(q, e)) = Len(q) + 1
           /\ \A n \in 1 .. Len(q) : Append(q, e)[n] = q[n]
           /\ Append(q, e)[Len(q) + 1] = e
  OBVIOUS

LEMMA TailFacts ==
    ASSUME NEW S, NEW q \in Seq(S), q # <<>>
    PROVE  /\ Head(q) \in S /\ Head(q) = q[1] /\ 1 \in 1 .. Len(q)
           /\ Tail(q) \in Seq(S)
           /\ Len(Tail(q)) = Len(q) - 1
           /\ \A n \in 1 .. Len(q) - 1 : n + 1 \in 1 .. Len(q) /\ Tail(q)[n] = q[n + 1]
  OBVIOUS

\* What was told stays true: a job that ended is not taken up again.
LEMMA HeardStays ==
    ASSUME Inv, queue' = queue, writing' = writing,
           \A i \in Ids : job[i].state = "ended" => job'[i].state = "ended"
    PROVE  HeardInv'
<1> SUFFICES ASSUME NEW c \in Clients PROVE Heard(queue[c])' /\ Heard(writing[c])'
  BY DEF HeardInv
<1>1. \A s \in Seq(Events) : Heard(s) => \A n \in 1 .. Len(s) :
          s[n].state # "running" => job'[s[n].job].state = "ended"
  <2> SUFFICES ASSUME NEW s \in Seq(Events), Heard(s), NEW n \in 1 .. Len(s),
                      s[n].state # "running"
               PROVE  job'[s[n].job].state = "ended"
    OBVIOUS
  <2>1. s[n] \in Events /\ job[s[n].job].state = "ended"
    BY DEF Heard
  <2>2. s[n].job \in Ids
    BY <2>1 DEF Events
  <2> QED BY <2>1, <2>2
<1>2. queue[c] \in Seq(Events) /\ writing[c] \in Seq(Events)
  BY DEF Inv, TypeOK
<1>3. Heard(queue[c]) /\ Heard(writing[c])
  BY DEF Inv, HeardInv
<1> QED BY <1>1, <1>2, <1>3 DEF Heard

-----------------------------------------------------------------------------
(* Steps of the manager *)

LEMMA StartInv ==
    ASSUME Inv, NEW k \in Keys, Start(k)
    PROVE  Inv'
<1>. DEFINE new == NewJob(k)
<1>1. /\ seq + 1 \in Ids /\ seq' = seq + 1 /\ seq \in Nat
      /\ running[k] = 0
      /\ job' = [job EXCEPT ![seq + 1] = new]
      /\ running' = [running EXCEPT ![k] = seq + 1]
      /\ at' = [at EXCEPT ![seq + 1] = "announce"]
  <2>1. seq \in 0 .. MaxSeq /\ seq < MaxSeq
    BY DEF Start, Inv, TypeOK
  <2> QED BY <2>1, JobsAssumption DEF Start, Ids
<1>2. /\ job \in [Ids -> Jobs0] /\ new \in Jobs0
      /\ at \in [Ids -> {"none", "fn", "over"} \cup Casts]
      /\ "announce" \in Casts
      /\ new.key = k /\ new.state = "running" /\ new.end = 0
  BY JobsAssumption DEF Inv, TypeOK, Jobs0, Casts, After, NewJob
<1>. HIDE DEF new
<1>3. listed' = Collect(job', listed \cup {seq + 1}) /\ listed \subseteq 1 .. seq
  BY <1>1 DEF Start, Inv, TypeOK
<1>4. TypeOK'
  <2>0. listed \cup {seq + 1} \subseteq 1 .. seq'
    BY <1>1, <1>3
  <2>1. listed' \subseteq 1 .. seq'
    BY <2>0, <1>3, CollectKeeps
  <2>2. running' \in [Keys -> 0 .. seq']
    BY <1>1 DEF Inv, TypeOK
  <2>3. seq' \in 0 .. MaxSeq
    BY <1>1, JobsAssumption DEF Ids
  <2>4. job' \in [Ids -> Jobs0] /\ at' \in [Ids -> {"none", "fn", "over"} \cup Casts]
    BY <1>1, <1>2
  <2> QED BY <2>1, <2>2, <2>3, <2>4 DEF Start, Inv, TypeOK, Jobs0, wsVars
<1>5. \A i \in Ids : JobInv(i)'
  <2> SUFFICES ASSUME NEW i \in Ids PROVE JobInv(i)'
    OBVIOUS
  <2>0. JobInv(i) /\ i \in Nat /\ now \in Nat /\ now' = now /\ left' = left /\ reading' = reading
    BY JobsAssumption DEF Start, Inv, TypeOK, Ids
  <2>1. CASE i = seq + 1
    BY <2>0, <2>1, <1>1, <1>2 DEF JobInv, Casts, After
  <2>2. CASE i # seq + 1
    BY <2>0, <2>2, <1>1, <1>2 DEF JobInv
  <2> QED BY <2>1, <2>2
<1>6. KeyIsJob'
  <2> SUFFICES ASSUME NEW i \in Ids, NEW m \in Keys
               PROVE  running'[m] = i <=> job'[i].key = m /\ job'[i].state = "running"
    BY DEF KeyIsJob
  <2>0. /\ running[m] = i <=> job[i].key = m /\ job[i].state = "running"
        /\ running \in [Keys -> 0 .. seq] /\ i \in Nat \ {0}
    BY DEF Inv, KeyIsJob, TypeOK, Ids
  <2>1. CASE i = seq + 1
    BY <2>0, <2>1, <1>1, <1>2
  <2>2. CASE i # seq + 1
    BY <2>0, <2>2, <1>1, <1>2
  <2> QED BY <2>1, <2>2
<1>7. RecentJobsListed'
  <2> SUFFICES ASSUME NEW i \in 1 .. seq',
                      job'[i].state = "running" \/ now - job'[i].end <= Retain
               PROVE  i \in listed'
    BY DEF Start, RecentJobsListed
  <2>1. i \in listed \cup {seq + 1}
    <3>1. CASE i = seq + 1
      BY <3>1
    <3>2. CASE i # seq + 1
      BY <3>2, <1>1, <1>2 DEF Inv, RecentJobsListed
    <3> QED BY <3>1, <3>2
  <2> QED BY <2>1, <1>3, CollectKeeps
<1>8. HeardInv'
  BY <1>1, <1>2, HeardStays DEF Start, wsVars, Inv, JobInv, Ids
<1> QED BY <1>4, <1>5, <1>6, <1>7, <1>8 DEF Inv

LEMMA ReportInv ==
    ASSUME Inv, NEW i \in Ids, Report(i)
    PROVE  Inv'
<1>1. /\ job \in [Ids -> Jobs0]
      /\ at \in [Ids -> {"none", "fn", "over"} \cup Casts]
      /\ at[i] = "fn" /\ "report" \in Casts
      /\ job' = [job EXCEPT ![i].reports = @ + 1]
      /\ at' = [at EXCEPT ![i] = "report"]
      /\ job[i].reports + 1 \in 0 .. MaxReports
  BY JobsAssumption DEF Inv, TypeOK, Jobs0, Casts, After, Report
<1>2. /\ job' \in [Ids -> Jobs0]
      /\ \A j \in Ids : /\ job'[j].state = job[j].state
                        /\ job'[j].key = job[j].key
                        /\ job'[j].end = job[j].end
  BY <1>1 DEF Jobs0
<1>3. TypeOK'
  <2>1. at' \in [Ids -> {"none", "fn", "over"} \cup Casts]
    BY <1>1
  <2> QED BY <2>1, <1>2 DEF Report, Inv, TypeOK, Jobs0, wsVars
<1>4. \A j \in Ids : JobInv(j)'
  BY <1>1, <1>2 DEF Report, Inv, JobInv, wsVars
<1>5. KeyIsJob' /\ RecentJobsListed'
  BY <1>2 DEF Report, Inv, TypeOK, KeyIsJob, RecentJobsListed, Ids
<1>6. HeardInv'
  BY <1>2, HeardStays DEF Report, wsVars
<1> QED BY <1>3, <1>4, <1>5, <1>6 DEF Inv

LEMMA FinishInv ==
    ASSUME Inv, NEW i \in Ids, Finish(i)
    PROVE  Inv'
<1>1. /\ job \in [Ids -> Jobs0]
      /\ at \in [Ids -> {"none", "fn", "over"} \cup Casts]
      /\ running \in [Keys -> 0 .. seq]
      /\ now \in 0 .. MaxTime
      /\ at[i] = "fn" /\ "end" \in Casts
      /\ job[i].state = "running" /\ i \in 1 .. seq /\ job[i].key \in Keys
  BY JobsAssumption DEF Inv, TypeOK, Jobs0, Casts, After, Finish, JobInv, Ids
<1>2. /\ job' = [job EXCEPT ![i].state = "ended", ![i].end = now]
      /\ at' = [at EXCEPT ![i] = "end"]
      /\ running' = [running EXCEPT ![job[i].key] = 0]
      /\ listed' = Collect(job', listed)
      /\ seq' = seq /\ now' = now
  BY DEF Finish
<1>. DEFINE mid == [job EXCEPT ![i].state = "ended"]
<1>m. mid \in [Ids -> Jobs0] /\ job' = [mid EXCEPT ![i].end = now]
  BY <1>1, <1>2 DEF Jobs0
<1>3. /\ job' \in [Ids -> Jobs0]
      /\ \A j \in Ids : /\ job'[j].key = job[j].key
                        /\ j # i => job'[j] = job[j]
      /\ job'[i].state = "ended" /\ job'[i].end = now
  <2>1. /\ \A j \in Ids : mid[j].key = job[j].key /\ (j # i => mid[j] = job[j])
        /\ mid[i].state = "ended"
    BY <1>1 DEF Jobs0
  <2> HIDE DEF mid
  <2> QED BY <1>m, <1>1, <2>1 DEF Jobs0
<1>4. TypeOK'
  <2>1. at' \in [Ids -> {"none", "fn", "over"} \cup Casts]
    BY <1>1, <1>2
  <2>2. listed' \subseteq 1 .. seq'
    BY <1>2, CollectKeeps DEF Inv, TypeOK
  <2>s. 0 \in 0 .. seq
    BY DEF Inv, TypeOK
  <2>3. running' \in [Keys -> 0 .. seq']
    BY <2>s, <1>1, <1>2
  <2> QED BY <2>1, <2>2, <2>3, <1>2, <1>3 DEF Finish, Inv, TypeOK, Jobs0, wsVars
<1>5. \A j \in Ids : JobInv(j)'
  <2> SUFFICES ASSUME NEW j \in Ids PROVE JobInv(j)'
    OBVIOUS
  <2>1. CASE j = i
    BY <2>1, <1>1, <1>2, <1>3, JobsAssumption DEF Finish, Inv, JobInv, wsVars, Ids
  <2>2. CASE j # i
    BY <2>2, <1>1, <1>2, <1>3 DEF Finish, Inv, JobInv, wsVars
  <2> QED BY <2>1, <2>2
<1>6. KeyIsJob'
  <2> SUFFICES ASSUME NEW j \in Ids, NEW m \in Keys
               PROVE  running'[m] = j <=> job'[j].key = m /\ job'[j].state = "running"
    BY DEF KeyIsJob
  <2>0. /\ running[m] = j <=> job[j].key = m /\ job[j].state = "running"
        /\ running[m] = i <=> job[i].key = m /\ job[i].state = "running"
        /\ j # 0
    BY DEF Inv, KeyIsJob, Ids
  <2>1. CASE j = i
    BY <2>0, <2>1, <1>1, <1>2, <1>3
  <2>2. CASE j # i
    BY <2>0, <2>2, <1>1, <1>2, <1>3
  <2> QED BY <2>1, <2>2
<1>7. RecentJobsListed'
  <2> SUFFICES ASSUME NEW j \in 1 .. seq,
                      job'[j].state = "running" \/ now - job'[j].end <= Retain
               PROVE  j \in listed'
    BY <1>2 DEF RecentJobsListed
  <2>0. j \in Ids
    BY JobsAssumption DEF Inv, TypeOK, Ids
  <2>1. j \in listed
    BY <2>0, <1>1, <1>3 DEF Inv, RecentJobsListed
  <2> QED BY <2>1, <1>2, CollectKeeps
<1>8. HeardInv'
  BY <1>3, HeardStays DEF Finish, wsVars
<1> QED BY <1>4, <1>5, <1>6, <1>7, <1>8 DEF Inv

LEMMA TickInv == ASSUME Inv, Tick PROVE Inv'
<1>1. now \in Nat /\ now' = now + 1 /\ now' \in 0 .. MaxTime
  BY JobsAssumption DEF Tick, Inv, TypeOK
<1>2. TypeOK'
  BY <1>1 DEF Tick, Inv, TypeOK, jobVars, wsVars
<1>3. job \in [Ids -> Jobs0]
  BY DEF Inv, TypeOK, Jobs0
<1>4. \A i \in Ids : JobInv(i)'
  BY <1>1, <1>3 DEF Tick, Inv, JobInv, jobVars, wsVars, Jobs0
<1>5. RecentJobsListed'
  <2>1. \A i \in 1 .. seq : i \in Ids
    BY JobsAssumption DEF Inv, TypeOK, Ids
  <2> QED BY <2>1, <1>1, <1>3, JobsAssumption DEF Tick, Inv, RecentJobsListed, jobVars, Jobs0
<1>6. KeyIsJob' /\ HeardInv'
  BY DEF Tick, Inv, KeyIsJob, HeardInv, Heard, jobVars, wsVars
<1> QED BY <1>2, <1>4, <1>5, <1>6 DEF Inv

-----------------------------------------------------------------------------
(* Steps of the hub and of the handlers *)

\* They leave the manager's tables alone.
LEMMA TablesStay ==
    ASSUME Inv, now' = now, jobVars' = jobVars
    PROVE  KeyIsJob' /\ RecentJobsListed'
  BY DEF Inv, KeyIsJob, RecentJobsListed, jobVars

LEMMA CastBeginInv == ASSUME Inv, NEW i \in Ids, CastBegin(i) PROVE Inv'
<1>1. TypeOK'
  BY DEF CastBegin, Inv, TypeOK, jobVars, wsVars
<1>2. \A j \in Ids : JobInv(j)'
  BY DEF CastBegin, Inv, TypeOK, JobInv, jobVars, wsVars
<1>3. KeyIsJob' /\ RecentJobsListed' /\ HeardInv'
  BY TablesStay, HeardStays DEF CastBegin, jobVars, wsVars
<1> QED BY <1>1, <1>2, <1>3 DEF Inv

LEMMA CastEndInv == ASSUME Inv, NEW i \in Ids, CastEnd(i) PROVE Inv'
<1>1. /\ at \in [Ids -> {"none", "fn", "over"} \cup Casts]
      /\ at[i] \in {"announce", "report", "end"}
      /\ at' = [at EXCEPT ![i] = After[at[i]]]
      /\ After[at[i]] = IF at[i] = "end" THEN "over" ELSE "fn"
      /\ After[at[i]] \notin Casts
  BY DEF CastEnd, Inv, TypeOK, JobInv, Casts, After
<1>2. TypeOK'
  BY <1>1 DEF CastEnd, Inv, TypeOK, jobVars, wsVars
<1>3. \A j \in Ids : JobInv(j)'
  <2> SUFFICES ASSUME NEW j \in Ids PROVE JobInv(j)'
    OBVIOUS
  <2>1. CASE j = i
    BY <1>1, <2>1 DEF CastEnd, Inv, JobInv, jobVars, wsVars
  <2>2. CASE j # i
    BY <1>1, <2>2 DEF CastEnd, Inv, JobInv, jobVars, wsVars
  <2> QED BY <2>1, <2>2
<1>4. KeyIsJob' /\ RecentJobsListed' /\ HeardInv'
  BY TablesStay, HeardStays DEF CastEnd, jobVars, wsVars
<1> QED BY <1>2, <1>3, <1>4 DEF Inv

\* A snapshot is taken of a job that runs or has just ended.
LEMMA EventFacts ==
    ASSUME Inv, NEW i \in Ids, left[i] # {}
    PROVE  /\ Event(i) \in Events
           /\ Event(i).state # "running" => job[Event(i).job].state = "ended"
<1>1. at[i] \in {"announce", "report", "end"}
  BY DEF Inv, JobInv, Casts, After
<1>2. job[i].state \in {"running", "ended"} /\ job[i].reports \in 0 .. MaxReports
  BY <1>1 DEF Inv, JobInv, TypeOK
<1> QED BY <1>2 DEF Event, Events

LEMMA CastInv == ASSUME Inv, NEW i \in Ids, NEW c \in Clients, Cast(i, c) PROVE Inv'
<1>1. left' = [left EXCEPT ![i] = @ \ {c}] /\ left[i] # {}
  BY DEF Cast
<1>2. /\ queue \in [Clients -> Seq(Events)]
      /\ queue[c] \in Seq(Events)
      /\ Event(i) \in Events
      /\ Event(i).state # "running" => job[Event(i).job].state = "ended"
  BY <1>1, EventFacts DEF Inv, TypeOK
<1>3. \A j \in Ids : JobInv(j)'
  BY <1>1 DEF Cast, Inv, TypeOK, JobInv, jobVars
<1>4. KeyIsJob' /\ RecentJobsListed'
  BY TablesStay DEF Cast
<1>5. left' \in [Ids -> SUBSET Clients]
  BY <1>1 DEF Inv, TypeOK
<1>6. CASE Len(queue[c]) < QueueCap /\ queue' = [queue EXCEPT ![c] = Append(@, Event(i))]
  <2>. DEFINE q == Append(queue[c], Event(i))
  <2>1. /\ q \in Seq(Events)
        /\ Len(q) = Len(queue[c]) + 1
        /\ \A n \in 1 .. Len(queue[c]) : q[n] = queue[c][n]
        /\ q[Len(queue[c]) + 1] = Event(i)
        /\ Len(queue[c]) \in Nat
    BY <1>2, AppendFacts
  <2>2. queue' = [queue EXCEPT ![c] = q]
    BY <1>6
  <2>3. Heard(queue[c])
    BY DEF Inv, HeardInv
  <2>. HIDE DEF q
  <2>4. Heard(q)
    <3> SUFFICES ASSUME NEW n \in 1 .. Len(queue[c]) + 1, q[n].state # "running"
                 PROVE  job[q[n].job].state = "ended"
      BY <2>1 DEF Heard
    <3>1. CASE n = Len(queue[c]) + 1
      BY <3>1, <2>1, <1>2
    <3>2. CASE n # Len(queue[c]) + 1
      BY <3>2, <2>1, <2>3 DEF Heard
    <3> QED BY <3>1, <3>2
  <2>5. /\ queue' \in [Clients -> Seq(Events)]
        /\ \A d \in Clients : Len(queue'[d]) <= QueueCap
    BY <1>6, <1>2, <2>1, <2>2, JobsAssumption DEF Inv, TypeOK
  <2>6. TypeOK'
    BY <2>5, <1>5 DEF Cast, Inv, TypeOK, jobVars
  <2>7. HeardInv'
    <3>1. job' = job /\ writing' = writing
      BY DEF Cast, jobVars
    <3>2. \A d \in Clients : queue'[d] = IF d = c THEN q ELSE queue[d]
      BY <2>2, <1>2
    <3> QED BY <3>1, <3>2, <2>4 DEF Inv, HeardInv, Heard
  <2> QED BY <1>3, <1>4, <2>6, <2>7 DEF Inv
<1>7. CASE queue' = queue
  <2>1. TypeOK'
    BY <1>7, <1>5 DEF Cast, Inv, TypeOK, jobVars
  <2>2. HeardInv'
    BY <1>7, HeardStays DEF Cast, jobVars
  <2> QED BY <1>3, <1>4, <2>1, <2>2 DEF Inv
<1> QED BY <1>6, <1>7 DEF Cast

\* What a handler does to the events it has: nothing, or it takes the first one
\* from the channel, or forgets what it was writing, or all.
LEMMA WSInv == ASSUME Inv, NEW c \in Clients, WSNext(c) PROVE Inv'
<1>1. now' = now /\ jobVars' = jobVars /\ at' = at /\ left' = left /\ reading' = reading
  BY DEF WSNext, Connect, ClientLeaves, Take, Written, WriteFails, SelectDone, Cancel
<1>2. \A j \in Ids : JobInv(j)'
  BY <1>1 DEF Inv, JobInv, jobVars
<1>3. KeyIsJob' /\ RecentJobsListed'
  BY <1>1, TablesStay
<1>0. /\ queue \in [Clients -> Seq(Events)] /\ writing \in [Clients -> Seq(Events)]
      /\ queue[c] \in Seq(Events)
      /\ \A d \in Clients : Len(queue[d]) <= QueueCap /\ Len(writing[d]) <= 1
      /\ \A d \in Clients : Heard(queue[d]) /\ Heard(writing[d])
      /\ <<>> \in Seq(Events) /\ Len(<<>>) = 0
  BY DEF Inv, TypeOK, HeardInv
<1>4. /\ queue' \in [Clients -> Seq(Events)] /\ writing' \in [Clients -> Seq(Events)]
      /\ \A d \in Clients : Len(queue'[d]) <= QueueCap /\ Len(writing'[d]) <= 1
      /\ HeardInv'
  <2>1. CASE Take(c)
    <3>. DEFINE e == Head(queue[c])  t == Tail(queue[c])
    <3>1. /\ e \in Events /\ e = queue[c][1] /\ 1 \in 1 .. Len(queue[c])
          /\ t \in Seq(Events)
          /\ Len(t) = Len(queue[c]) - 1
          /\ \A n \in 1 .. Len(queue[c]) - 1 :
                n + 1 \in 1 .. Len(queue[c]) /\ t[n] = queue[c][n + 1]
      BY <1>0, <2>1, TailFacts DEF Take
    <3>2. queue' = [queue EXCEPT ![c] = t] /\ writing' = [writing EXCEPT ![c] = <<e>>]
      BY <2>1 DEF Take
    <3>. HIDE DEF e, t
    <3>3. <<e>> \in Seq(Events) /\ Len(<<e>>) = 1 /\ <<e>>[1] = e
      BY <3>1
    <3>. DEFINE w == <<e>>
    <3>. HIDE DEF w
    <3>4. w \in Seq(Events) /\ Len(w) = 1 /\ w[1] = e /\ writing' = [writing EXCEPT ![c] = w]
      BY <3>2, <3>3 DEF w
    <3>5. Heard(t) /\ Heard(w)
      <4>1. Heard(queue[c])
        BY <1>0
      <4>2. Heard(t)
        BY <4>1, <3>1 DEF Heard
      <4>3. e.state # "running" => job[e.job].state = "ended"
        BY <4>1, <3>1 DEF Heard
      <4>4. \A n \in 1 .. Len(w) : w[n] = e
        BY <3>4
      <4> QED BY <4>2, <4>3, <4>4 DEF Heard
    <3>6. \A d \in Clients : /\ queue'[d] = IF d = c THEN t ELSE queue[d]
                             /\ writing'[d] = IF d = c THEN w ELSE writing[d]
      BY <3>2, <3>4, <1>0
    <3>7. HeardInv'
      <4>1. \A d \in Clients : Heard(queue'[d]) /\ Heard(writing'[d])
        BY <3>5, <3>6, <1>0
      <4>2. job' = job
        BY <1>1 DEF jobVars
      <4> QED BY <4>1, <4>2 DEF HeardInv, Heard
    <3>8. Len(t) <= QueueCap
      BY <3>1, <1>0, JobsAssumption
    <3>9. queue' \in [Clients -> Seq(Events)] /\ writing' \in [Clients -> Seq(Events)]
      BY <3>1, <3>2, <3>4, <1>0
    <3>10. ASSUME NEW d \in Clients
           PROVE  Len(queue'[d]) <= QueueCap /\ Len(writing'[d]) <= 1
      <4>1. CASE d = c
        <5>1. queue'[d] = t /\ writing'[d] = w
          BY <4>1, <3>6
        <5> QED BY <5>1, <3>4, <3>8
      <4>2. CASE d # c
        <5>1. queue'[d] = queue[d] /\ writing'[d] = writing[d]
          BY <4>2, <3>6
        <5> QED BY <5>1, <1>0
      <4> QED BY <4>1, <4>2
    <3> QED BY <3>7, <3>9, <3>10
  <2>2. CASE Written(c) \/ WriteFails(c)
    <3>1. queue' = queue /\ writing' = [writing EXCEPT ![c] = <<>>]
      BY <2>2 DEF Written, WriteFails
    <3>2. \A d \in Clients : writing'[d] = IF d = c THEN <<>> ELSE writing[d]
      BY <3>1, <1>0
    <3>3. HeardInv'
      BY <3>1, <3>2, <1>0, <1>1 DEF HeardInv, Heard, jobVars
    <3> QED BY <3>1, <3>2, <3>3, <1>0
  <2>3. CASE Cancel(c)
    <3>1. writing' = writing /\ queue' = [queue EXCEPT ![c] = <<>>]
      BY <2>3 DEF Cancel
    <3>2. \A d \in Clients : queue'[d] = IF d = c THEN <<>> ELSE queue[d]
      BY <3>1, <1>0
    <3>3. HeardInv'
      BY <3>1, <3>2, <1>0, <1>1 DEF HeardInv, Heard, jobVars
    <3> QED BY <3>1, <3>2, <3>3, <1>0, JobsAssumption
  <2>4. CASE Connect(c) \/ ClientLeaves(c) \/ SelectDone(c)
    <3>1. queue' = queue /\ writing' = writing
      BY <2>4 DEF Connect, ClientLeaves, SelectDone
    <3>2. HeardInv'
      BY <3>1, <1>1, HeardStays DEF jobVars
    <3> QED BY <3>1, <3>2, <1>0
  <2> QED BY <2>1, <2>2, <2>3, <2>4 DEF WSNext
<1>5. /\ subs' \subseteq Clients /\ alive' \in [Clients -> BOOLEAN]
      /\ ws' \in [Clients -> {"none", "select", "write", "leave", "closed"}]
  BY DEF WSNext, Connect, ClientLeaves, Take, Written, WriteFails, SelectDone, Cancel,
         Inv, TypeOK
<1>6. TypeOK'
  BY <1>1, <1>4, <1>5 DEF Inv, TypeOK, jobVars
<1> QED BY <1>2, <1>3, <1>4, <1>6 DEF Inv

-----------------------------------------------------------------------------
(* Theorems *)

LEMMA ConcatFacts ==
    ASSUME NEW p \in Seq(Events), NEW q \in Seq(Events), NEW n \in 1 .. Len(p \o q)
    PROVE  \/ n \in 1 .. Len(p) /\ (p \o q)[n] = p[n]
           \/ \E m \in 1 .. Len(q) : (p \o q)[n] = q[m]
<1>0. n \in Nat /\ n >= 1 /\ n <= Len(p) + Len(q) /\ Len(p) \in Nat /\ Len(q) \in Nat
  OBVIOUS
<1>1. CASE n <= Len(p)
  BY <1>0, <1>1
<1>2. CASE n > Len(p)
  <2>1. n - Len(p) \in 1 .. Len(q)
    BY <1>0, <1>2
  <2>2. (p \o q)[n] = q[n - Len(p)]
    BY <1>0, <1>2
  <2> QED BY <2>1, <2>2
<1> QED BY <1>0, <1>1, <1>2

LEMMA StutterInv == ASSUME Inv, UNCHANGED vars PROVE Inv'
<1>1. TypeOK' /\ \A i \in Ids : JobInv(i)'
  BY DEF vars, jobVars, wsVars, Inv, TypeOK, JobInv
<1>2. KeyIsJob' /\ RecentJobsListed' /\ HeardInv'
  BY TablesStay, HeardStays DEF vars, jobVars, wsVars
<1> QED BY <1>1, <1>2 DEF Inv

LEMMA NextInv == Inv /\ [Next]_vars => Inv'
<1> SUFFICES ASSUME Inv, [Next]_vars PROVE Inv'
  OBVIOUS
<1>1. CASE Tick
  BY <1>1, TickInv
<1>2. ASSUME NEW k \in Keys, Start(k) PROVE Inv'
  BY <1>2, StartInv
<1>3. ASSUME NEW i \in Ids, JobNext(i) PROVE Inv'
  BY <1>3, ReportInv, FinishInv, CastBeginInv, CastEndInv, CastInv DEF JobNext, CastNext
<1>4. ASSUME NEW c \in Clients, WSNext(c) PROVE Inv'
  BY <1>4, WSInv
<1>5. CASE UNCHANGED vars
  BY <1>5, StutterInv
<1> QED BY <1>1, <1>2, <1>3, <1>4, <1>5 DEF Next

THEOREM Invariance == Spec => []Inv
  BY InitInv, NextInv, PTL DEF Spec

\* The variables keep their types and no channel holds more than its capacity.
THEOREM TypeCorrect == Spec => []TypeOK
<1>1. Inv => TypeOK
  BY DEF Inv
<1> QED BY <1>1, Invariance, PTL

\* m.running has exactly the jobs that run, each under its key.
THEOREM KeysAreJobs == Spec => []KeyIsJob
<1>1. Inv => KeyIsJob
  BY DEF Inv
<1> QED BY <1>1, Invariance, PTL

\* The clean-up never takes a job that runs or ended within retainPeriod.
THEOREM RecentStayListed == Spec => []RecentJobsListed
<1>1. Inv => RecentJobsListed
  BY DEF Inv
<1> QED BY <1>1, Invariance, PTL

\* When a client hears that a job is over, its key is no longer held by it.
THEOREM EndsAreFree == Spec => []EndEventMeansFree
<1>1. Inv => EndEventMeansFree
  <2> SUFFICES ASSUME Inv, NEW c \in Clients, NEW n \in 1 .. Len(Waiting(c)),
                      Waiting(c)[n].state # "running", NEW k \in Keys
               PROVE  running[k] # Waiting(c)[n].job
    BY DEF EndEventMeansFree
  <2>1. writing[c] \in Seq(Events) /\ queue[c] \in Seq(Events)
    BY DEF Inv, TypeOK
  <2>2. \/ n \in 1 .. Len(writing[c]) /\ Waiting(c)[n] = writing[c][n]
        \/ \E m \in 1 .. Len(queue[c]) : Waiting(c)[n] = queue[c][m]
    <3>1. Waiting(c) = writing[c] \o queue[c]
      BY DEF Waiting
    <3>2. n \in 1 .. Len(writing[c] \o queue[c])
      BY <3>1
    <3>3. \/ n \in 1 .. Len(writing[c]) /\ (writing[c] \o queue[c])[n] = writing[c][n]
          \/ \E m \in 1 .. Len(queue[c]) : (writing[c] \o queue[c])[n] = queue[c][m]
      BY <2>1, <3>2, ConcatFacts
    <3> QED BY <3>1, <3>3
  <2>3. /\ Waiting(c)[n] \in Events
        /\ job[Waiting(c)[n].job].state = "ended"
    BY <2>1, <2>2 DEF Inv, HeardInv, Heard
  <2>4. Waiting(c)[n].job \in Ids
    BY <2>3 DEF Events
  <2> QED BY <2>3, <2>4 DEF Inv, KeyIsJob
<1> QED BY <1>1, Invariance, PTL

\* A step of the manager begins or ends one slot, no other step any.
THEOREM SlotsImplemented == Spec => ImplementsJobSlots
<1>1. Init => Slots!Init
  BY DEF Init, Slots!Init, Busy
<1>2. Inv /\ [Next]_vars => [Slots!Next]_Busy
  <2> SUFFICES ASSUME Inv, [Next]_vars PROVE Slots!Next \/ Busy' = Busy
    OBVIOUS
  <2>1. ASSUME running' = running PROVE Busy' = Busy
    BY <2>1 DEF Busy
  <2>2. ASSUME NEW k \in Keys, Start(k) PROVE Slots!Next
    <3>1. seq + 1 # 0 /\ running[k] = 0 /\ running' = [running EXCEPT ![k] = seq + 1]
      BY <2>2, JobsAssumption DEF Start, Inv, TypeOK
    <3>2. Slots!Begin(k)
      BY <3>1 DEF Slots!Begin, Busy, Inv, TypeOK
    <3> QED BY <3>2 DEF Slots!Next
  <2>3. ASSUME NEW i \in Ids, Finish(i) PROVE Slots!Next
    <3>1. job[i].key \in Keys /\ job[i].state = "running"
      BY <2>3, JobsAssumption DEF Finish, Inv, JobInv, TypeOK, Ids
    <3>2. /\ running[job[i].key] = i /\ i # 0
          /\ running' = [running EXCEPT ![job[i].key] = 0]
      BY <2>3, <3>1 DEF Finish, Inv, KeyIsJob, Ids
    <3>3. Slots!End(job[i].key)
      BY <3>1, <3>2 DEF Slots!End, Busy, Inv, TypeOK
    <3> QED BY <3>1, <3>3 DEF Slots!Next
  <2>4. CASE Tick
    BY <2>1, <2>4 DEF Tick, jobVars
  <2>5. ASSUME NEW i \in Ids, Report(i) \/ CastNext(i) PROVE Busy' = Busy
    <3>1. running' = running
      BY <2>5 DEF Report, CastNext, CastBegin, CastEnd, Cast, jobVars
    <3> QED BY <3>1, <2>1
  <2>6. ASSUME NEW c \in Clients, WSNext(c) PROVE Busy' = Busy
    <3>1. running' = running
      BY <2>6 DEF WSNext, Connect, ClientLeaves, Take, Written, WriteFails,
                  SelectDone, Cancel, jobVars
    <3> QED BY <3>1, <2>1
  <2>7. CASE UNCHANGED vars
    BY <2>1, <2>7 DEF vars, jobVars
  <2> QED BY <2>2, <2>3, <2>4, <2>5, <2>6, <2>7 DEF Next, JobNext
<1> QED BY <1>1, <1>2, Invariance, PTL DEF Spec, ImplementsJobSlots, Slots!Spec

-----------------------------------------------------------------------------
(* The order of the events, on top of the invariant *)

\* A sequence of events tells of every job in the order it happened.
InOrder(w) ==
    \A m, n \in 1 .. Len(w) :
        m < n /\ w[m].job = w[n].job =>
            w[m].state = "running" /\ (w[m].reports < w[n].reports \/ w[n].state # "running")

\* What client c has of a job is no later than the Job, and earlier than the
\* event the job is about to send or has sent to others only.
Unserved(i, c) == at[i] \in Casts /\ (i \notin reading \/ c \in left[i])
Past(c, e) ==
    /\ at[e.job] # "none"
    /\ e.reports <= job[e.job].reports
    /\ Unserved(e.job, c) =>
           e.state = "running"
           /\ (e.reports < job[e.job].reports \/ job[e.job].state # "running")

OrderInv ==
    \A c \in Clients :
        InOrder(Waiting(c)) /\ \A n \in 1 .. Len(Waiting(c)) : Past(c, Waiting(c)[n])

LEMMA ConcatPlaces ==
    ASSUME NEW p \in Seq(Events), NEW q \in Seq(Events)
    PROVE  /\ p \o q \in Seq(Events) /\ Len(p \o q) = Len(p) + Len(q)
           /\ \A n \in 1 .. Len(p) : (p \o q)[n] = p[n]
           /\ \A n \in 1 .. Len(q) : (p \o q)[Len(p) + n] = q[n]
  OBVIOUS

\* A stretch of an ordered sequence is ordered.
LEMMA StretchInOrder ==
    ASSUME NEW w \in Seq(Events), NEW v \in Seq(Events), NEW k \in Nat, InOrder(w),
           Len(v) + k <= Len(w), \A n \in 1 .. Len(v) : v[n] = w[n + k]
    PROVE  InOrder(v) /\ \A n \in 1 .. Len(v) : n + k \in 1 .. Len(w)
<1>1. Len(v) \in Nat /\ Len(w) \in Nat
  OBVIOUS
<1>2. \A n \in 1 .. Len(v) : n + k \in 1 .. Len(w)
  BY <1>1
<1>3. \A m, n \in 1 .. Len(v) : m < n => m + k < n + k
  BY <1>1
<1> QED BY <1>2, <1>3 DEF InOrder

LEMMA WaitingFacts ==
    ASSUME Inv, NEW c \in Clients
    PROVE  /\ writing[c] \in Seq(Events) /\ queue[c] \in Seq(Events)
           /\ Waiting(c) = writing[c] \o queue[c] /\ Waiting(c) \in Seq(Events)
           /\ \A n \in 1 .. Len(Waiting(c)) :
                  /\ Waiting(c)[n] \in Events /\ Waiting(c)[n].job \in Ids
                  /\ Waiting(c)[n].state # "running" => job[Waiting(c)[n].job].state = "ended"
<1>1. writing[c] \in Seq(Events) /\ queue[c] \in Seq(Events) /\ Heard(queue[c]) /\ Heard(writing[c])
  BY DEF Inv, TypeOK, HeardInv
<1>2. PICK p \in Seq(Events), q \in Seq(Events) : p = writing[c] /\ q = queue[c]
  BY <1>1
<1>3. p \o q \in Seq(Events) /\ Waiting(c) = p \o q
  BY <1>2 DEF Waiting
<1>4. ASSUME NEW n \in 1 .. Len(Waiting(c))
      PROVE  /\ Waiting(c)[n] \in Events /\ Waiting(c)[n].job \in Ids
             /\ Waiting(c)[n].state # "running" => job[Waiting(c)[n].job].state = "ended"
  <2> DEFINE e == (p \o q)[n]
  <2>1. n \in 1 .. Len(p \o q) /\ Waiting(c)[n] = e
    BY <1>3
  <2>2. \/ n \in 1 .. Len(p) /\ e = p[n]
        \/ \E m \in 1 .. Len(q) : e = q[m]
    BY <2>1, ConcatFacts
  <2>3. e \in Events
    <3>1. \A s \in Seq(Events) : \A m \in 1 .. Len(s) : s[m] \in Events
      OBVIOUS
    <3> HIDE DEF e
    <3> QED BY <2>2, <3>1
  <2>4. e.job \in Ids
    BY <2>3 DEF Events
  <2>5. e.state # "running" => job[e.job].state = "ended"
    BY <1>1, <1>2, <2>2 DEF Heard
  <2> QED BY <2>1, <2>3, <2>4, <2>5
<1>5. Waiting(c) = writing[c] \o queue[c] /\ Waiting(c) \in Seq(Events)
  BY <1>2, <1>3
<1> QED BY <1>1, <1>4, <1>5

\* A step that tells nobody of anything.
LEMMA OrderStays ==
    ASSUME Inv, OrderInv, UNCHANGED <<queue, writing>>,
           \A c \in Clients, e \in Events :
               Past(c, e) /\ (e.state # "running" => job[e.job].state = "ended")
                   => Past(c, e)'
    PROVE  OrderInv'
<1> SUFFICES ASSUME NEW c \in Clients
             PROVE  InOrder(Waiting(c))' /\ \A n \in 1 .. Len(Waiting(c)') : Past(c, Waiting(c)[n])'
  BY DEF OrderInv
<1>1. PICK w : w = Waiting(c)
  OBVIOUS
<1>2. Waiting(c)' = w
  BY <1>1 DEF Waiting
<1>3. InOrder(w) /\ \A n \in 1 .. Len(w) : w[n] \in Events /\ Past(c, w[n])
                        /\ (w[n].state # "running" => job[w[n].job].state = "ended")
  BY <1>1, WaitingFacts DEF OrderInv
<1>4. \A n \in 1 .. Len(w) : Past(c, w[n])'
  BY <1>3
<1> QED BY <1>2, <1>3, <1>4 DEF InOrder, Past, Unserved

LEMMA JobTypes ==
    ASSUME Inv, NEW i \in Ids
    PROVE  job[i].reports \in Nat /\ JobInv(i) /\ i \in DOMAIN at /\ i \in DOMAIN left
           /\ i \in DOMAIN job /\ DOMAIN job[i] = {"key", "state", "reports", "end"}
  BY JobsAssumption DEF Inv, TypeOK

LEMMA ManagerOrder ==
    ASSUME Inv, OrderInv, (\E k \in Keys : Start(k)) \/ (\E i \in Ids : Report(i) \/ Finish(i)) \/ Tick
    PROVE  OrderInv'
<1>0. UNCHANGED <<queue, writing, left, reading>>
  BY DEF Start, Report, Finish, Tick, wsVars
<1> SUFFICES ASSUME NEW c \in Clients, NEW e \in Events, Past(c, e),
                    e.state # "running" => job[e.job].state = "ended"
             PROVE  Past(c, e)'
  BY <1>0, OrderStays
<1>1. e.job \in Ids /\ e.reports \in Nat
  BY JobsAssumption DEF Events
<1>2. PICK i \in Ids : i = e.job
  BY <1>1
<1>3. job[i].reports \in Nat /\ JobInv(i) /\ i \in DOMAIN at /\ i \in DOMAIN job
  BY <1>2, JobTypes
<1>4. at[i] # "none" /\ e.reports <= job[i].reports
  BY <1>2 DEF Past
<1>5. CASE at'[i] = at[i] /\ job'[i] = job[i]
  BY <1>0, <1>2, <1>5 DEF Past, Unserved
<1>6. CASE Report(i)
  <2>1. /\ at[i] = "fn" /\ at'[i] # "none" /\ job'[i].reports = job[i].reports + 1
        /\ job'[i].state = job[i].state
    BY <1>3, <1>6 DEF Report, Inv, TypeOK
  <2>2. e.state = "running"
    <3>1. job[i].state = "running"
      BY <1>3, <2>1 DEF JobInv
    <3>2. e.state \in {"running", "ended"}
      BY DEF Events
    <3> QED BY <1>2, <3>1
  <2> QED BY <1>1, <1>2, <1>3, <1>4, <2>1, <2>2 DEF Past
<1>7. CASE Finish(i)
  <2>1. /\ at[i] = "fn" /\ at'[i] # "none" /\ job'[i].reports = job[i].reports
        /\ job'[i].state = "ended"
    BY <1>3, <1>7 DEF Finish, Inv, TypeOK
  <2>2. e.state = "running"
    <3>1. job[i].state = "running"
      BY <1>3, <2>1 DEF JobInv
    <3> QED BY <1>2, <3>1
  <2> QED BY <1>2, <1>4, <2>1, <2>2 DEF Past
<1>8. ASSUME NEW k \in Keys, Start(k) PROVE at'[i] = at[i] /\ job'[i] = job[i]
  <2>1. i # seq + 1 /\ seq' = seq + 1
    BY <1>3, <1>4, <1>8, JobsAssumption DEF Start, JobInv, Ids, Inv, TypeOK
  <2> QED BY <1>8, <2>1 DEF Start, Inv, TypeOK
<1>9. ASSUME NEW j \in Ids, Report(j) \/ Finish(j), j # i PROVE at'[i] = at[i] /\ job'[i] = job[i]
  BY <1>9 DEF Report, Finish, Inv, TypeOK
<1>10. ASSUME Tick PROVE at'[i] = at[i] /\ job'[i] = job[i]
  BY <1>10 DEF Tick, jobVars
<1> QED BY <1>5, <1>6, <1>7, <1>8, <1>9, <1>10

LEMMA CastsOrder ==
    ASSUME Inv, OrderInv, NEW i \in Ids, CastBegin(i) \/ CastEnd(i)
    PROVE  OrderInv'
<1>0. UNCHANGED <<queue, writing, job>>
  BY DEF CastBegin, CastEnd, wsVars, jobVars
<1> SUFFICES ASSUME NEW c \in Clients, NEW e \in Events, Past(c, e)
             PROVE  Past(c, e)'
  BY <1>0, OrderStays
<1>1. JobInv(i) /\ i \in DOMAIN at /\ i \in DOMAIN left
  BY JobTypes
<1>2. PICK j \in Ids : j = e.job
  BY DEF Events
<1>3. CASE CastBegin(i)
  <2>1. Unserved(j, c)' => Unserved(j, c)
    BY <1>1, <1>3, JobTypes DEF CastBegin, Unserved, Inv, TypeOK
  <2> QED BY <1>0, <1>2, <1>3, <2>1 DEF CastBegin, Past, Unserved
<1>4. CASE CastEnd(i)
  <2>1. at'[i] \in {"fn", "over"} /\ \A g \in Ids \ {i} : at'[g] = at[g]
    BY <1>1, <1>4 DEF CastEnd, JobInv, Casts, After, Inv, TypeOK
  <2>2. Unserved(j, c)' => Unserved(j, c)
    BY <1>4, <2>1 DEF CastEnd, Unserved, Casts, After
  <2>3. at'[j] # "none"
    BY <1>2, <2>1 DEF Past
  <2> QED BY <1>0, <1>2, <2>2, <2>3 DEF Past, Unserved
<1> QED BY <1>3, <1>4

\* A subscriber is told: of the job at hand, only of earlier things before.
LEMMA CastOrder ==
    ASSUME Inv, OrderInv, NEW i \in Ids, NEW d \in Clients, Cast(i, d)
    PROVE  OrderInv'
<1>1. /\ d \in left[i] /\ left' = [left EXCEPT ![i] = @ \ {d}]
      /\ UNCHANGED <<job, at, reading, writing>>
  BY DEF Cast, jobVars
<1>2. i \in reading /\ at[i] \in Casts /\ left \in [Ids -> SUBSET Clients]
  BY <1>1, JobTypes DEF JobInv, Inv, TypeOK
<1>3. ASSUME NEW c \in Clients, NEW e \in Events, Past(c, e) PROVE Past(c, e)'
  <2>1. PICK j \in Ids : j = e.job
    BY DEF Events
  <2>2. Unserved(j, c)' => Unserved(j, c)
    BY <1>1, <1>2 DEF Unserved
  <2>3. Unserved(e.job, c)' => Unserved(e.job, c)
    BY <2>1, <2>2 DEF Unserved
  <2> QED BY <1>1, <1>3, <2>3 DEF Past
<1>4. CASE queue' = queue
  BY <1>1, <1>3, <1>4, OrderStays
<1>5. CASE queue' = [queue EXCEPT ![d] = Append(@, Event(i))]
  <2>1. PICK e : e = Event(i)
    OBVIOUS
  <2>2. e \in Events /\ e.job = i /\ e.reports = job[i].reports /\ e.state = job[i].state
    <3>1. Event(i) \in Events
      BY <1>1, EventFacts
    <3> QED BY <2>1, <3>1 DEF Event
  <2>3. Past(d, e)'
    <3>1. ~Unserved(i, d)'
      BY <1>1, <1>2 DEF Unserved
    <3>2. at[i] # "none" /\ job[i].reports \in Nat
      BY <1>2, JobTypes DEF Casts, After
    <3> QED BY <1>1, <2>2, <3>1, <3>2 DEF Past, Unserved
  <2>4. ASSUME NEW c \in Clients, c # d
        PROVE  InOrder(Waiting(c))' /\ \A n \in 1 .. Len(Waiting(c)') : Past(c, Waiting(c)[n])'
    <3>1. PICK w : w = Waiting(c)
      OBVIOUS
    <3>2. Waiting(c)' = w
      BY <1>1, <1>5, <2>4, <3>1 DEF Waiting, Inv, TypeOK
    <3>3. InOrder(w) /\ \A n \in 1 .. Len(w) : w[n] \in Events /\ Past(c, w[n])
      BY <3>1, WaitingFacts DEF OrderInv
    <3>4. \A n \in 1 .. Len(w) : Past(c, w[n])'
      BY <1>3, <3>3
    <3> QED BY <3>2, <3>3, <3>4 DEF InOrder, Past, Unserved
  <2>5. InOrder(Waiting(d))' /\ \A n \in 1 .. Len(Waiting(d)') : Past(d, Waiting(d)[n])'
    <3>1. PICK p \in Seq(Events), q \in Seq(Events) : p = writing[d] /\ q = queue[d]
      BY WaitingFacts
    <3> DEFINE w == p \o q
               v == p \o Append(q, e)
    <3>2. w \in Seq(Events) /\ Waiting(d) = w
      BY <3>1 DEF Waiting
    <3>3. InOrder(w) /\ \A n \in 1 .. Len(w) : w[n] \in Events /\ Past(d, w[n])
      BY <3>2, WaitingFacts DEF OrderInv
    <3>4. Waiting(d)' = v
      BY <1>1, <1>5, <2>1, <3>1 DEF Waiting, Inv, TypeOK
    <3>5. /\ Len(w) \in Nat /\ Len(v) = Len(w) + 1 /\ v[Len(w) + 1] = e
          /\ \A n \in 1 .. Len(w) : v[n] = w[n]
      BY <2>2
    <3> HIDE DEF w, v
    <3>6. ASSUME NEW n \in 1 .. Len(w), w[n].job = i
          PROVE  w[n].state = "running" /\ (w[n].reports < e.reports \/ e.state # "running")
      <4>1. Past(d, w[n]) /\ Unserved(i, d)
        BY <1>1, <1>2, <3>3 DEF Unserved
      <4> QED BY <2>2, <3>6, <4>1 DEF Past
    <3>7. \A n \in 1 .. Len(v) : n \in 1 .. Len(w) \/ n = Len(w) + 1
      BY <3>5
    <3>8. InOrder(v)
      <4> SUFFICES ASSUME NEW m \in 1 .. Len(v), NEW n \in 1 .. Len(v), m < n, v[m].job = v[n].job
                   PROVE  /\ v[m].state = "running"
                          /\ v[m].reports < v[n].reports \/ v[n].state # "running"
        BY DEF InOrder
      <4>1. m \in 1 .. Len(w)
        BY <3>5
      <4>2. CASE n \in 1 .. Len(w)
        BY <3>3, <3>5, <4>1, <4>2 DEF InOrder
      <4>3. CASE n = Len(w) + 1
        BY <2>2, <3>5, <3>6, <4>1, <4>3
      <4> QED BY <3>7, <4>2, <4>3
    <3>9. \A n \in 1 .. Len(v) : Past(d, v[n])'
      <4>1. \A n \in 1 .. Len(w) : Past(d, w[n])'
        BY <1>3, <3>3
      <4> QED BY <2>3, <3>5, <3>7, <4>1 DEF Past, Unserved
    <3> QED BY <3>4, <3>8, <3>9 DEF InOrder, Past, Unserved
  <2> QED BY <2>4, <2>5 DEF OrderInv
<1> QED BY <1>4, <1>5 DEF Cast

\* A handler keeps a stretch of what it had: all, without the first, or none.
LEMMA WSOrder ==
    ASSUME Inv, OrderInv, NEW d \in Clients, WSNext(d)
    PROVE  OrderInv'
<1>1. UNCHANGED <<job, at, left, reading>>
  BY DEF WSNext, Connect, ClientLeaves, Take, Written, WriteFails, SelectDone, Cancel, jobVars
<1>2. \A c \in Clients, e \in Events : Past(c, e) => Past(c, e)'
  BY <1>1 DEF Past, Unserved
<1> SUFFICES ASSUME NEW c \in Clients
             PROVE  InOrder(Waiting(c))' /\ \A n \in 1 .. Len(Waiting(c)') : Past(c, Waiting(c)[n])'
  BY DEF OrderInv
<1>3. PICK p \in Seq(Events), q \in Seq(Events) : p = writing[c] /\ q = queue[c]
  BY WaitingFacts
<1> DEFINE w == p \o q
<1>4. /\ w \in Seq(Events) /\ InOrder(w)
      /\ \A n \in 1 .. Len(w) : w[n] \in Events /\ Past(c, w[n])
  <2>1. w \in Seq(Events) /\ Waiting(c) = w
    BY <1>3 DEF Waiting
  <2> QED BY <2>1, WaitingFacts DEF OrderInv
<1>5. ASSUME NEW v \in Seq(Events), Waiting(c)' = v, NEW k \in Nat, Len(v) + k <= Len(w),
             \A n \in 1 .. Len(v) : v[n] = w[n + k]
      PROVE  InOrder(Waiting(c))' /\ \A n \in 1 .. Len(Waiting(c)') : Past(c, Waiting(c)[n])'
  <2> HIDE DEF w
  <2>1. InOrder(v) /\ \A n \in 1 .. Len(v) : n + k \in 1 .. Len(w)
    BY <1>4, <1>5, StretchInOrder
  <2>2. \A n \in 1 .. Len(v) : Past(c, v[n])'
    BY <1>2, <1>4, <1>5, <2>1
  <2> QED BY <1>5, <2>1, <2>2 DEF InOrder, Past, Unserved
<1>6. CASE queue'[c] = q /\ writing'[c] = p
  <2>1. Waiting(c)' = w
    BY <1>6 DEF Waiting
  <2> HIDE DEF w
  <2>2. Len(w) \in Nat /\ \A n \in 1 .. Len(w) : w[n] = w[n + 0]
    BY <1>4
  <2> QED BY <1>4, <1>5, <2>1, <2>2
<1>7. CASE queue'[c] = q /\ writing'[c] = <<>>
  <2>1. Waiting(c)' = q
    BY <1>7 DEF Waiting
  <2>2. /\ Len(p) \in Nat /\ Len(q) + Len(p) <= Len(w)
        /\ \A n \in 1 .. Len(q) : q[n] = w[n + Len(p)]
    OBVIOUS
  <2> QED BY <1>5, <2>1, <2>2
<1>8. CASE queue'[c] = <<>> /\ writing'[c] = p
  <2>1. Waiting(c)' = p
    BY <1>8 DEF Waiting
  <2>2. Len(p) + 0 <= Len(w) /\ \A n \in 1 .. Len(p) : p[n] = w[n + 0]
    OBVIOUS
  <2> QED BY <1>5, <2>1, <2>2
<1>9. CASE q # <<>> /\ queue'[c] = Tail(q) /\ writing'[c] = <<Head(q)>>
  <2>1. Waiting(c)' = q
    BY <1>9 DEF Waiting
  <2>2. /\ Len(p) \in Nat /\ Len(q) + Len(p) <= Len(w)
        /\ \A n \in 1 .. Len(q) : q[n] = w[n + Len(p)]
    OBVIOUS
  <2> QED BY <1>5, <2>1, <2>2
<1> HIDE DEF w
<1>10. CASE c # d
  BY <1>3, <1>6, <1>10 DEF WSNext, Connect, ClientLeaves, Take, Written, WriteFails, SelectDone,
     Cancel, Inv, TypeOK
<1>11. CASE c = d
  <2>1. CASE Take(c)
    BY <1>3, <1>9, <2>1 DEF Take, Inv, TypeOK
  <2>2. CASE Written(c) \/ WriteFails(c)
    BY <1>3, <1>7, <2>2 DEF Written, WriteFails, Inv, TypeOK
  <2>3. CASE Cancel(c)
    BY <1>3, <1>8, <2>3 DEF Cancel, Inv, TypeOK
  <2>4. CASE Connect(c) \/ ClientLeaves(c) \/ SelectDone(c)
    BY <1>3, <1>6, <2>4 DEF Connect, ClientLeaves, SelectDone
  <2> QED BY <1>11, <2>1, <2>2, <2>3, <2>4 DEF WSNext
<1> QED BY <1>10, <1>11

\* Every client hears of a job in the order it happened, whatever the
\* broadcasts of several jobs do to one another (event.go, Broadcast).
THEOREM EventsComeInOrder == Spec => []EventsInOrder
<1>1. Init => OrderInv
  BY DEF Init, OrderInv, InOrder, Waiting
<1>2. Inv /\ OrderInv /\ [Next]_vars => OrderInv'
  <2> SUFFICES ASSUME Inv, OrderInv, [Next]_vars PROVE OrderInv'
    OBVIOUS
  <2>1. ASSUME NEW i \in Ids, CastNext(i) PROVE OrderInv'
    BY <2>1, CastsOrder, CastOrder DEF CastNext
  <2>2. ASSUME NEW c \in Clients, WSNext(c) PROVE OrderInv'
    BY <2>2, WSOrder
  <2>3. CASE UNCHANGED vars
    <3>1. UNCHANGED <<queue, writing, job, at, left, reading>>
      BY <2>3 DEF vars, jobVars, wsVars
    <3> QED BY <3>1, OrderStays DEF Past, Unserved
  <2> QED BY <2>1, <2>2, <2>3, ManagerOrder DEF Next, JobNext
<1>3. Inv /\ OrderInv => EventsInOrder
  BY DEF OrderInv, InOrder, EventsInOrder
<1> QED BY <1>1, <1>2, <1>3, Invariance, PTL DEF Spec

=============================================================================
