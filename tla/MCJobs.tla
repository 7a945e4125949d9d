------------------------------- MODULE MCJobs -------------------------------
(* Instances of Jobs for TLC. *)
EXTENDS Jobs

CONSTANTS k1, k2, c1, c2

TwoKeys == {k1, k2}
OneClient == {c1}
TwoClients == {c1, c2}
=============================================================================
