------------------------------ MODULE MCSteamCmd ------------------------------
(* Instances of SteamCmd for TLC. *)
EXTENDS SteamCmd, TLC

CONSTANTS c1, c2

TwoCallers == {c1, c2}
CallerSymmetry == Permutations(TwoCallers)
=============================================================================
