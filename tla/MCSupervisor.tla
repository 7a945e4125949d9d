---------------------------- MODULE MCSupervisor ----------------------------
(* Instances of Supervisor for TLC. *)
EXTENDS Supervisor, TLC

CONSTANTS c1, c2

OneCaller == {c1}
TwoCallers == {c1, c2}
CallerSymmetry == Permutations(TwoCallers)

\* The first run is probed, the second is not.
FirstProbed == [r \in Runs |-> r = 1]
=============================================================================
