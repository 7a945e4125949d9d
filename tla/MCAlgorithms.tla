---------------------------- MODULE MCAlgorithms ----------------------------
(* Inputs of Algorithms for TLC. *)
EXTENDS Algorithms, TLC

CONSTANTS h1, h2

(* A calendar in small: an hour has 2 minutes, a day 2 hours, a week 3 days, a *)
(* year 3 months of 2, 1 and 3 days, and every fourth year a day more in the   *)
(* second month.                                                              *)
Lows == [minute |-> 0, hour |-> 0, dom |-> 1, month |-> 1, dow |-> 0]
Highs == [minute |-> 1, hour |-> 1, dom |-> 3, month |-> 3, dow |-> 3]
LongYear == 7 * 4
FourYears == 25 * 4

DateAt(m) ==
    LET day == m \div 4
        inCycle == day % 25
        inYear == IF inCycle >= 18 THEN inCycle - 18 ELSE inCycle % 6
        feb == IF inCycle >= 18 THEN 2 ELSE 1
        month == IF inYear < 2 THEN 1 ELSE IF inYear < 2 + feb THEN 2 ELSE 3
        before == CASE month = 1 -> 0 [] month = 2 -> 2 [] month = 3 -> 2 + feb
    IN [minute |-> m % 2, hour |-> (m \div 2) % 2, dom |-> inYear - before + 1,
        month |-> month, dow |-> day % 3]

\* In a year's third and fourth day the clocks are an hour ahead: an hour is skipped
\* before and one repeated after it.
InYear(m) == LET c == m % FourYears IN IF c >= 72 THEN c - 72 ELSE c % 24
CalendarOf(m) == DateAt(IF InYear(m) \in 8 .. 15 THEN m + 2 ELSE m)

\* Of a repeated minute time.Date finds the earlier one in the first two years, the
\* later one in the other two: it promises neither.
DateFound(m) ==
    LET early == m % FourYears < 48
    IN CASE InYear(m) \in {14, 15} -> IF early THEN m ELSE m + 2
         [] InYear(m) \in {16, 17} -> IF early THEN m - 2 ELSE m
         [] OTHER                  -> m

AllExpressions ==
    {[minute |-> mi, hour |-> h, dom |-> d, month |-> mo, dow |-> w] :
        mi \in {<<Star>>, <<One(1)>>},
        h \in {<<Star>>, <<Every(2)>>},
        d \in {<<Star>>, <<Star, Star>>, <<One(2)>>, <<SpanBy(1, 3, 2)>>, <<Every(2), One(2)>>},
        mo \in {<<Star>>, <<One(2)>>, <<One(1), One(3)>>},
        w \in {<<Star>>, <<One(3)>>, <<Span(0, 1)>>}}
TwoTicks == 2
\* Every minute, and in the first and the third year the middle of it.
AllTimes == {t \in 0 .. FourYears * TwoTicks : t % 2 = 0 \/ t \div 50 \in {0, 2}}

ManagedNames == <<"A", "B">>
UnmanagedNames == <<"C">>
A == <<"A">>
B == <<"B">>
C == <<"C">>
Defaults == [k \in {A, B} |-> <<"x">>]

\* A list without quotes, as the game writes it, a value with a comma in
\* quotes, and a key the panel does not know.
GameWrote == <<"A", "=", "(", "x", ",", "y", ")", ",", "B", "=", "'", "x", ",", "y", "'", ",",
               "C", "=", "'", "x", "'", "'", "y", "'", ")">>
GameMeans == [k \in {A, B, C} |->
                 IF k = A THEN <<"(", "x", ",", "y", ")">>
                 ELSE IF k = B THEN <<"x", ",", "y">> ELSE <<"x", "'", "y">>]

AllValues == SeqOf({Quote, Comma, Close, "x"}, 2)
             \cup {<<Quote, Quote, Quote>>, <<Quote, Comma, Quote>>, <<Comma, Quote, Comma>>,
                   <<Equal>>, <<Blank>>, <<"x", Blank, "x">>, <<"x", Equal, Open>>,
                   <<Comma, Equal, Open>>, <<Quote, Equal, Open>>, <<Open, "x", Close>>,
                   <<Open, Comma, Close>>, <<"x", Equal, Open, "x", Comma, "x", Close>>}

\* Values with blanks around them, and values without quotes that look like a
\* list, do not come back as they were.
Clean(v) ==
    /\ v # << >> /\ v[1] # Blank /\ v[Len(v)] # Blank
    /\ \/ Has(v, Comma) \/ Has(v, Quote)
       \/ v[1] # Open /\ \A i \in 1 .. Len(v) - 1 : <<v[i], v[i + 1]>> # <<Equal, Open>>
CleanValues == {v \in AllValues : Clean(v)}
SomeValues == {<<"x">>, <<Quote>>, <<Comma>>, <<Close>>, <<Quote, Comma>>, <<Comma, Quote>>,
               <<Close, Quote>>, <<Comma, Close>>, <<Quote, Quote, Quote>>,
               <<Comma, Equal, Open>>}

TwoHandlers == {h1, h2}
HandlerSymmetry == Permutations(TwoHandlers)
HotKeys == {A, B}

\* One value is put after the other; or a server starts and stops, one or two keys
\* are changed, with no file at first, and whatever may fail does; or two handlers
\* change a key at once.
ValuesOrServer ==
    {[text |-> GameWrote, means |-> GameMeans,
      changes |-> {[k \in {A} |-> v] : v \in CleanValues} \cup {[k \in {B} |-> v] : v \in SomeValues},
      alone |-> TRUE, server |-> FALSE, faults |-> FALSE],
     [text |-> << >>, means |-> EmptyMap,
      changes |-> {[k \in {A, B} |-> <<"y">>], [k \in {B} |-> <<"x">>]},
      alone |-> TRUE, server |-> TRUE, faults |-> TRUE],
     [text |-> << >>, means |-> EmptyMap,
      changes |-> {[k \in {A} |-> <<"y">>], [k \in {A, B} |-> IF k = A THEN <<"x">> ELSE <<"y">>]},
      alone |-> FALSE, server |-> TRUE, faults |-> FALSE]}

\* The values that come up in a case for a key, and the maps of them.  The codec
\* brings all of these back: the hypothesis of the theorems about the file
\* (ApiProofs, Sound) is true of these cases.
ValuesOf(c, k) ==
    {ch[k] : ch \in {x \in c.changes : k \in DOMAIN x}}
        \cup (IF k \in DOMAIN c.means THEN {c.means[k]} ELSE {Default[k]})
MapsOf(c) ==
    {c.means} \cup
        {[k \in DOMAIN c.means \cup {A, B} |->
             IF k = A THEN a ELSE IF k = B THEN b ELSE c.means[k]] :
                a \in ValuesOf(c, A), b \in ValuesOf(c, B)}

ASSUME CodecIsSound ==
    \A c \in Cases : RoundTrip(c, MapsOf(c))
=============================================================================
