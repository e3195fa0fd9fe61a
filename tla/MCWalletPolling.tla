--------------------------- MODULE MCWalletPolling ---------------------------
(***************************************************************************)
(* WalletPolling with two wallets, called in any order.                    *)
(***************************************************************************)
EXTENDS WalletPolling
=============================================================================
