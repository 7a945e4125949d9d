-------------------------------- MODULE MCBoot --------------------------------
(* Instances of Boot for TLC. *)
EXTENDS Boot, TLC

CONSTANTS h1, h2, d1, d2

TwoHandlers == {h1, h2}
TwoDirs == {d1, d2}

\* Two pairs with no port in common.
PortPairs == {[game |-> 1, query |-> 1], [game |-> 2, query |-> 2]}

\* A file of two statements and one of one.
TwoFiles == <<2, 1>>

OneInstance ==
    [i \in {1} |-> [dir |-> d1, ports |-> [game |-> 1, query |-> 1], auto |-> TRUE,
                    status |-> "idle"]]

\* It has grants, schedules and backups.
EveryKind == [t \in Owned |-> {1}]

HandlerSymmetry == Permutations(TwoHandlers)
=============================================================================
