----------------------------- MODULE MCScheduler -----------------------------
(* Instances of Scheduler for TLC. *)
EXTENDS Scheduler, TLC

CONSTANTS w1, w2

TwoWriters == {w1, w2}

\* An expression for every minute, one for the odd ones, and one for no minute
\* at all (the 30th of February).
Expressions == {"minutely", "odd", "never"}
MatchesOf ==
    [c \in Crons |->
        IF c = "minutely" THEN 1 .. MaxTime + 1
        ELSE IF c = "odd" THEN {m \in 1 .. MaxTime + 1 : m % 2 = 1}
        ELSE {}]

\* Two handlers edit while the loop ticks; or one of them while statements may fail;
\* or nobody edits, executions are slow and the panel restarts.
EditsOrRestarts ==
    {[start |-> 0, ids |-> 1, crons |-> {"minutely", "never"}, minutes |-> 3,
      edits |-> 2, crashes |-> 0, fails |-> FALSE],
     [start |-> 1, ids |-> 1, crons |-> {"minutely", "never"}, minutes |-> 3,
      edits |-> 1, crashes |-> 0, fails |-> TRUE],
     [start |-> 2, ids |-> 2, crons |-> Crons, minutes |-> 4,
      edits |-> 0, crashes |-> 1, fails |-> FALSE]}

\* One edit beside the loop.
OneEdit == {[start |-> 1, ids |-> 1, crons |-> {"minutely", "never"}, minutes |-> 3,
             edits |-> 1, crashes |-> 0, fails |-> FALSE]}
=============================================================================
