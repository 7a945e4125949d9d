----------------------------- MODULE Algorithms -----------------------------
(***************************************************************************)
(* What the panel computes from its users' inputs, checked over many of them:*)
(* either a schedule is followed from one time to the next (CronExpr), or    *)
(* the settings of an instance are edited again and again (Settings).        *)
(***************************************************************************)
EXTENDS CronExpr, Settings

CONSTANTS
    Expressions, \* the expressions
    Times        \* the times Next is asked for

\* Times are counted from some start.  An expression's numbers have no sign (a
\* negative one is out of bounds, or no step).  What time.Date finds has the wall
\* clock it was given, and the fields of a minute, as package time gives them, are
\* values that an expression can name.
ASSUME AlgorithmsAssumption ==
    /\ Times \subseteq Nat
    /\ \A e \in Expressions, f \in FieldNames : \A i \in ToSet(e[f]) :
          i.star \in BOOLEAN /\ {i.from, i.to, i.step} \subseteq Nat
    /\ \A t \in Times :
          LET minute == t \div MinuteTicks IN
          /\ DateOf(minute) \in Nat /\ Calendar(DateOf(minute)) = Calendar(minute)
          /\ \A d \in 1 .. MaxScanMinutes, f \in FieldNames :
                Calendar(DateOf(minute) + d)[f] \in Lowest[f] .. Highest[f]

NoSchedule == [none |-> TRUE]

VARIABLE cron \* [expr, after], or NoSchedule

vars == <<cron, settingsVars>>

Init ==
    /\ SettingsInit
    /\ \/ cron = NoSchedule
       \/ /\ bound = CHOOSE c \in Cases : TRUE
          /\ cron \in {[expr |-> e, after |-> t] :
                          e \in {x \in Expressions : Parses(x)}, t \in Times}

\* Scheduler.fire asks for the next time when it has come, or somewhat later; a time
\* that has passed already has come.
Follow ==
    /\ cron # NoSchedule
    /\ LET next == Next(Parse(cron.expr), cron.after)
           come == IF next > cron.after THEN next ELSE cron.after
       IN \E late \in 0 .. 1 :
              /\ next # -1
              /\ come + late \in Times
              /\ cron' = [cron EXCEPT !.after = come + late]
    /\ UNCHANGED settingsVars

Edit == cron = NoSchedule /\ SettingsNext /\ UNCHANGED cron

Spec == Init /\ [][Follow \/ Edit]_vars

-----------------------------------------------------------------------------
(* Properties *)

\* Next gives a time which the expression means and passes none over, from the minute
\* it counts from on: steps, ranges, the two Sundays, the rule of the two days, a time
\* in the middle of a minute, months of different lengths, an hour the clocks skip or
\* have twice.  It counts from the minute time.Date finds for the wall clock it is given
\* (cronexpr.go:142-143); unless that is the earlier minute of the two, in a repeated
\* hour, the time it gives is later than the one it is given.  It gives the zero time
\* only when a year from there has no such minute.
NextIsNearest ==
    cron # NoSchedule =>
        LET next == Next(Parse(cron.expr), cron.after)
            given == cron.after \div MinuteTicks
            first == DateOf(given) + 1
            due(m) == Due(cron.expr, m)
        IN IF next = -1
           THEN \A m \in first .. first + MaxScanMinutes - 1 : ~due(m)
           ELSE /\ DateOf(given) >= given => next > cron.after
                /\ due(next \div MinuteTicks)
                /\ \A m \in first .. next \div MinuteTicks - 1 : ~due(m)

\* The zero time says that the expression never matches (cronexpr.go:11-12).
ZeroMeansNever ==
    cron # NoSchedule /\ Next(Parse(cron.expr), cron.after) = -1 =>
        \A t \in Times : ~Due(cron.expr, t \div MinuteTicks)

\* Next answers with a time after the one it is given (cronexpr.go:137-138), in a
\* repeated hour too.
NextIsLater ==
    cron # NoSchedule =>
        LET next == Next(Parse(cron.expr), cron.after) IN next = -1 \/ next > cron.after

\* Next passes no due minute over, in a repeated hour too.
NoneIsPassed ==
    cron # NoSchedule =>
        LET next == Next(Parse(cron.expr), cron.after) IN
        next # -1 =>
            \A m \in cron.after \div MinuteTicks + 1 .. next \div MinuteTicks - 1 :
                ~Due(cron.expr, m)
=============================================================================
