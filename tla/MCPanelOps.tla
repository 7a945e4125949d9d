----------------------------- MODULE MCPanelOps -----------------------------
(* Instances of PanelOps for TLC. *)
EXTENDS PanelOps

CONSTANTS admin, timer

OneCaller  == {admin}
TwoCallers == {admin, timer}

\* Two callers that may call everything at any time are out of reach.  They call
\* the operations of one mix, which is chosen at the start.
CONSTANT Mixes

ManyMixes ==
    { {"backup", "restore", "update"},
      {"delete", "backup"},
      {"delete", "restore"},
      {"delete", "update"},
      {"start", "delete"},
      {"install", "delete"},
      {"start", "restore"},
      {"restart", "stop"},
      {"timedRestart", "update"} }

RestartAndUpdate == { {"start", "restart", "update"} }

VARIABLE mix

MCInit == Init /\ mix \in Mixes
MCNext == \/ Work /\ UNCHANGED mix
          \/ \E c \in Callers, op \in mix : Request(c, op) /\ UNCHANGED mix
MCSpec == MCInit /\ [][MCNext]_<<vars, mix>> /\ Fairness
=============================================================================
