------------------------- MODULE MCOfflineAddresses -------------------------
(***************************************************************************)
(* OfflineAddresses with two concurrent callers.                           *)
(***************************************************************************)
EXTENDS OfflineAddresses, TLC

CONSTANTS c1, c2

TwoCallers == {c1, c2}
CallerSymmetry == Permutations(TwoCallers)
=============================================================================
