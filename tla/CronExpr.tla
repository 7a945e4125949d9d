------------------------------ MODULE CronExpr ------------------------------
(***************************************************************************)
(* Cron expressions, src/internal/cronexpr/cronexpr.go: Parse turns the      *)
(* five fields of an expression into bit sets, Next scans minute by minute.  *)
(*                                                                         *)
(* The calendar is a parameter, so that a year fits into a check.  A time    *)
(* is a number of ticks, of which a minute has MinuteTicks; the five fields  *)
(* of a time are what Calendar gives for its minute: the wall clock of the   *)
(* zone, which may skip an hour and have another one twice.  An expression   *)
(* comes as its items: the splitting of its text is left out.                *)
(***************************************************************************)
EXTENDS Integers, SequencesExt

CONSTANTS
    MinuteTicks,     \* ticks of a minute (60 seconds)
    Lowest, Highest, \* the least and the greatest value of every field
    Calendar(_),     \* the fields of a minute; the days of the week begin with 0
    DateOf(_),       \* the minute time.Date finds for the wall clock of a minute: itself,
                     \* or the other minute of that wall clock when an hour is repeated
    MaxScanMinutes   \* how far Next looks: a long year (366 * 24 * 60)

FieldNames == {"minute", "hour", "dom", "month", "dow"}

ASSUME CronAssumption ==
    /\ MinuteTicks \in Nat \ {0}
    /\ MaxScanMinutes \in Nat
    /\ Lowest \in [FieldNames -> 0 .. 63] /\ Highest \in [FieldNames -> 0 .. 63]

-----------------------------------------------------------------------------
(* An item is a star or a range (a single value has from = to), with a step  *)
(* or without one (0).  A field is the sequence of its items.                *)

Star == [star |-> TRUE, from |-> 0, to |-> 0, single |-> FALSE, step |-> 0]
Every(n) == [Star EXCEPT !.step = n]
One(v) == [star |-> FALSE, from |-> v, to |-> v, single |-> TRUE, step |-> 0]
Span(a, b) == [star |-> FALSE, from |-> a, to |-> b, single |-> FALSE, step |-> 0]
SpanBy(a, b, n) == [Span(a, b) EXCEPT !.step = n]

\* parseField refuses an item out of bounds, a range that runs backwards and a
\* single value with a step.
InBounds(item, f) ==
    \/ item.star
    \/ /\ item.from \in Lowest[f] .. Highest[f]
       /\ item.to \in Lowest[f] .. Highest[f]
       /\ item.from <= item.to
       /\ item.single => item.step = 0

From(item, f) == IF item.star THEN Lowest[f] ELSE item.from
To(item, f)   == IF item.star THEN Highest[f] ELSE item.to
StepOf(item)  == IF item.step = 0 THEN 1 ELSE item.step

\* for i := start; i <= end; i += step
LoopValues(item, f) ==
    {From(item, f) + k * StepOf(item) :
        k \in 0 .. (To(item, f) - From(item, f)) \div StepOf(item)}

Bits(items, f) == UNION {LoopValues(item, f) : item \in ToSet(items)}

Parses(expr) ==
    \A f \in FieldNames : expr[f] # << >> /\ \A i \in ToSet(expr[f]) : InBounds(i, f)

\* A mistaken form: the last day of the week is not the first one.
FoldDowNot(bits) == bits

\* dow | dow >> 7: bit 7 (the greatest) is Sunday, like bit 0.  Bits 7 and up
\* are never asked for.
FoldDow(bits) == bits \cup {b - Highest["dow"] : b \in bits \cap {Highest["dow"]}}

\* A day is restricted unless its field is the text *: that of *,* is.
Parse(expr) ==
    [bits |-> [f \in FieldNames |->
                  IF f = "dow" THEN FoldDow(Bits(expr[f], f)) ELSE Bits(expr[f], f)],
     domSet |-> expr["dom"] # <<Star>>,
     dowSet |-> expr["dow"] # <<Star>>]

-----------------------------------------------------------------------------
(* Next *)

\* Schedule.matches: of a day of the month and a day of the week one is enough
\* when both are restricted.
Matches(s, minute) ==
    LET now == Calendar(minute)
        On(f) == now[f] \in s.bits[f]
    IN /\ On("minute") /\ On("hour") /\ On("month")
       /\ IF s.domSet /\ s.dowSet THEN On("dom") \/ On("dow") ELSE On("dom") /\ On("dow")

\* The minute time.Date makes of after's wall clock, and one more.
FirstScanned(after) == DateOf(after \div MinuteTicks) + 1

\* Schedule.Next: the first match of the scan, -1 (the zero time) when there is
\* none.
Next(s, after) ==
    LET first == FirstScanned(after)
        found == {m \in first .. first + MaxScanMinutes - 1 : Matches(s, m)}
    IN IF found = {} THEN -1 ELSE Min(found) * MinuteTicks

-----------------------------------------------------------------------------
(* What an expression means, from the package's comment: a field selects the *)
(* values its items cover; the day is selected by the day of the month, the  *)
(* day of the week, or one of them when both are given.                      *)

Covers(item, v, f) ==
    /\ v \in From(item, f) .. To(item, f)
    /\ (v - From(item, f)) % StepOf(item) = 0

Selects(expr, f, v) == \E item \in ToSet(expr[f]) : Covers(item, v, f)

Due(expr, minute) ==
    LET now == Calendar(minute)
        dom == Selects(expr, "dom", now["dom"])
        dow == \/ Selects(expr, "dow", now["dow"])
               \/ now["dow"] = 0 /\ Selects(expr, "dow", Highest["dow"])
    IN /\ \A f \in {"minute", "hour", "month"} : Selects(expr, f, now[f])
       /\ CASE expr["dom"] = <<Star>> -> dow
            [] expr["dow"] = <<Star>> -> dom
            [] OTHER                  -> dom \/ dow
=============================================================================
