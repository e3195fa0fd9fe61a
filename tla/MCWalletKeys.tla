---------------------------- MODULE MCWalletKeys ----------------------------
(***************************************************************************)
(* WalletKeys with two concurrent calls and two passwords.                 *)
(***************************************************************************)
EXTENDS WalletKeys, TLC

CONSTANTS c1, c2

TwoCalls == {c1, c2}
CallSymmetry == Permutations(TwoCalls)
=============================================================================
