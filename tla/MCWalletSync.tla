---------------------------- MODULE MCWalletSync ----------------------------
(***************************************************************************)
(* WalletSync with the transactions and faults of the cfg files.           *)
(***************************************************************************)
EXTENDS WalletSync
=============================================================================
