---------------------------- MODULE MCWalletSetup ----------------------------
(***************************************************************************)
(* WalletSetup with the account's old wallet and two that may be made,     *)
(* three requests at once of the login form, and two failures or crashes.  *)
(***************************************************************************)
EXTENDS WalletSetup
=============================================================================
