-------------------------- MODULE MCWalletsManager --------------------------
(***************************************************************************)
(* WalletsManager with three objects for two wallets, so that one wallet   *)
(* can be initialised twice by overlapping switches.                       *)
(***************************************************************************)
EXTENDS WalletsManager
=============================================================================
