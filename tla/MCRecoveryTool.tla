---------------------------- MODULE MCRecoveryTool ----------------------------
(***************************************************************************)
(* One key, chains of four addresses, batches of two and four.  The first  *)
(* chain has been used only behind a gap of one batch, or across two       *)
(* batches; other gaps come with a coin that arrives.  The chunks of the   *)
(* finder are of three addresses, so that they grow with the batch and     *)
(* then divide it, and a page has one coin: an answer may be cut short.    *)
(***************************************************************************)
EXTENDS RecoveryTool

MCAddresses(chain, indexes) == [key : {1}, chain : {chain}, index : indexes]
MCRest == MCAddresses(1, {1}) \cup MCAddresses(2, {0})
MCLedgers ==
    {[used |-> MCAddresses(0, u) \cup MCRest,
      coins |-> MCAddresses(0, u \ {1}) \cup MCRest] : u \in {{2}, {0, 1, 2, 3}}}

\* The two services, with and without a cosigner, and both releases.
MCSetups ==
    {[release |-> "3.3.2", service |-> "blocktrail", cosign |-> TRUE],
     [release |-> "3.3.2", service |-> "insight", cosign |-> FALSE],
     [release |-> "3.6.7", service |-> "blocktrail", cosign |-> FALSE]}
=============================================================================
