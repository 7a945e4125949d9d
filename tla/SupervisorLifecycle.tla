------------------------- MODULE SupervisorLifecycle -------------------------
(***************************************************************************)
(* What the supervisor promises for one instance, without goroutines,      *)
(* channels or handles: a run goes from starting to running and back to    *)
(* idle, a server is launched at most once per round and only while the    *)
(* run is starting, and a run ends only when no server is left.  A server   *)
(* that is gone counts as crashed only if nobody had asked the run to stop *)
(* by then; only a crashed one is followed by another, MaxRestarts times.   *)
(***************************************************************************)
EXTENDS Naturals

CONSTANT MaxRestarts

VARIABLES
    phase,     \* "idle", "starting" or "running"
    server,    \* the server of this round: "none", "live", "gone" or "crashed"
    stopAsked, \* was the run asked to stop?
    restarts   \* automatic restarts of this run

vars == <<phase, server, stopAsked, restarts>>

Init == /\ phase = "idle"
        /\ server = "none"
        /\ stopAsked = FALSE
        /\ restarts = 0

\* An accepted Start.
Begin == /\ phase = "idle"
         /\ server # "live"
         /\ phase' = "starting"
         /\ server' = "none"
         /\ stopAsked' = FALSE
         /\ restarts' = 0

\* A Stop, or the end of the probe's patience.
AskStop == /\ phase # "idle"
           /\ stopAsked' = TRUE
           /\ UNCHANGED <<phase, server, restarts>>

Launch == /\ phase = "starting"
          /\ server = "none"
          /\ server' = "live"
          /\ UNCHANGED <<phase, stopAsked, restarts>>

\* The server answers; it may have gone since.
Ready == /\ phase = "starting"
         /\ server \in {"live", "gone"}
         /\ phase' = "running"
         /\ UNCHANGED <<server, stopAsked, restarts>>

Gone == /\ server = "live"
        /\ server' = "gone"
        /\ UNCHANGED <<phase, stopAsked, restarts>>

Crash == /\ phase # "idle"
         /\ server = "gone"
         /\ ~stopAsked
         /\ server' = "crashed"
         /\ UNCHANGED <<phase, stopAsked, restarts>>

\* The next round is counted first; the run is starting again a little later.
Restart == /\ phase # "idle"
           /\ server = "crashed"
           /\ restarts < MaxRestarts
           /\ server' = "none"
           /\ restarts' = restarts + 1
           /\ UNCHANGED <<phase, stopAsked>>

\* The restarts are used up.
GiveUp == /\ server = "crashed"
          /\ restarts >= MaxRestarts
          /\ server' = "gone"
          /\ UNCHANGED <<phase, stopAsked, restarts>>

StartAgain == /\ phase = "running"
              /\ server = "none"
              /\ phase' = "starting"
              /\ UNCHANGED <<server, stopAsked, restarts>>

End == /\ phase # "idle"
       /\ server \in {"none", "gone"}
       /\ phase' = "idle"
       /\ UNCHANGED <<server, stopAsked, restarts>>

Next == \/ Begin \/ AskStop \/ Launch \/ Ready \/ Gone
        \/ Crash \/ Restart \/ GiveUp \/ StartAgain \/ End

Spec == Init /\ [][Next]_vars
=============================================================================
