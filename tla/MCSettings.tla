------------------------------ MODULE MCSettings ------------------------------
(***************************************************************************)
(* Settings with two changes that may overlap, two failures, restarts or   *)
(* changes on another device, and one purchase.                            *)
(***************************************************************************)
EXTENDS Settings
=============================================================================
