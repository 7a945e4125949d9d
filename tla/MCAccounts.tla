----------------------------- MODULE MCAccounts -----------------------------
(* Instances of Accounts for TLC. *)
EXTENDS Accounts, TLC

CONSTANTS b1, b2, helper, operator, i1

TwoCallers == {b1, b2}
CallerSymmetry == Permutations(TwoCallers)
OneRole == {helper}
OneBuiltin == {operator}
OperatorCodes == [r \in OneBuiltin |-> {"instance.read"}]
SomeCodes == {"user.manage", "role.manage", "instance.manage", "instance.read"}
OneInstance == {i1}
=============================================================================
