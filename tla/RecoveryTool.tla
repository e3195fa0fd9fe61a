----------------------------- MODULE RecoveryTool -----------------------------
(***************************************************************************)
(* The recovery tool (wallet-recovery-tool/src/js/app.js): discover the    *)
(* funds, again with larger batches if some are missing, sweep them, have  *)
(* the transaction cosigned if need be, send it.  One flag, working, keeps *)
(* these operations apart.  With release 3.6.7 the client is a script that *)
(* sweeps at once, as examples/wallet_recovery_example.js does.            *)
(***************************************************************************)
EXTENDS WalletSweeper

CONSTANTS
    BatchSize,    \* sweepBatchSize at first
    MaxBatch      \* bound of the model: no retry when the batch would grow past this

ASSUME ToolAssumption == BatchSize \in Nat \ {0} /\ MaxBatch \in Nat

VARIABLES
    working,      \* $scope.result.working
    op,           \* what the tool is in the middle of
    batchSize,    \* recoverySettings.sweepBatchSize
    foundFunds,   \* the result is shown
    retries,      \* clicks on retry, by how far their timeouts are
    signedTransaction,
    recoveryComplete

toolVars == <<working, op, batchSize, foundFunds, retries, signedTransaction, recoveryComplete>>
vars == <<sweeperVars, toolVars>>

Ops == {"discover", "discovering", "recovering", "cosigning", "sending"}

TypeOK ==
    /\ SweeperTypeOK
    /\ working \in BOOLEAN /\ foundFunds \in BOOLEAN
    /\ recoveryComplete \in BOOLEAN
    /\ op \subseteq Ops
    /\ batchSize \in Nat
    /\ retries \in [clicked : 0..2, doubled : 0..2]
    /\ signedTransaction = None \/ signedTransaction \in Transactions

Init ==
    /\ SweeperInit
    /\ working = FALSE /\ op = {} /\ batchSize = BatchSize /\ foundFunds = FALSE
    /\ retries = [clicked |-> 0, doubled |-> 0]
    /\ signedTransaction = None /\ recoveryComplete = FALSE

Tool == setup.release = "3.3.2"
Begin(o) == working' = TRUE /\ op' = op \cup {o}
End(o) == working' = FALSE /\ op' = op \ {o}

-----------------------------------------------------------------------------
\* The button of step 3.
DiscoverFunds ==
    /\ Tool /\ ~working /\ ~foundFunds
    /\ Begin("discover")
    /\ UNCHANGED <<sweeperVars, batchSize, foundFunds, retries, signedTransaction, recoveryComplete>>

\* The timeout of 200 ms: discoverWalletFunds with the size set by now.
StartDiscovering ==
    /\ "discover" \in op
    /\ op' = (op \ {"discover"}) \cup {"discovering"}
    /\ StartDiscovery(batchSize)
    /\ UNCHANGED <<setup, network, sweepData, sweep, searched, faults>>
    /\ UNCHANGED <<working, batchSize, foundFunds, retries, signedTransaction, recoveryComplete>>

\* The result is shown.
FundsDiscovered ==
    /\ "discovering" \in op /\ discovery.state = "idle"
    /\ End("discovering")
    /\ foundFunds' = TRUE
    /\ UNCHANGED <<sweeperVars, batchSize, retries, signedTransaction, recoveryComplete>>

\* discoverFundsAgain may be clicked until its first timeout hides the result.
Retry ==
    /\ Tool /\ foundFunds
    /\ retries.clicked + retries.doubled < 2
    /\ batchSize * 2 <= MaxBatch
    /\ retries' = [retries EXCEPT !.clicked = @ + 1]
    /\ UNCHANGED <<sweeperVars, working, op, batchSize, foundFunds, signedTransaction, recoveryComplete>>

\* Mutated form: the batches are made smaller.
RetryHalves ==
    /\ retries.clicked > 0
    /\ retries' = [retries EXCEPT !.clicked = @ - 1, !.doubled = @ + 1]
    /\ foundFunds' = FALSE
    /\ batchSize' = Max({1, batchSize \div 2})
    /\ UNCHANGED <<sweeperVars, working, op, signedTransaction, recoveryComplete>>
\* Its first timeout.
RetryDoubles ==
    /\ retries.clicked > 0
    /\ retries' = [retries EXCEPT !.clicked = @ - 1, !.doubled = @ + 1]
    /\ foundFunds' = FALSE
    /\ batchSize' = batchSize * 2
    /\ UNCHANGED <<sweeperVars, working, op, signedTransaction, recoveryComplete>>

\* Mutated form: without a look at the flag.
RetryStartsAlways ==
    /\ retries.doubled > 0
    /\ retries' = [retries EXCEPT !.doubled = @ - 1]
    /\ Begin("discover")
    /\ UNCHANGED <<sweeperVars, batchSize, foundFunds, signedTransaction, recoveryComplete>>
\* Its second timeout calls discoverFunds, which does nothing when busy.
RetryStarts ==
    /\ retries.doubled > 0
    /\ retries' = [retries EXCEPT !.doubled = @ - 1]
    /\ IF working THEN UNCHANGED <<working, op>> ELSE Begin("discover")
    /\ UNCHANGED <<sweeperVars, batchSize, foundFunds, signedTransaction, recoveryComplete>>

-----------------------------------------------------------------------------
\* recoverFunds, with a valid address, from step 4; or the script's one call.
RecoverFunds ==
    /\ ~working /\ sweep.state = "idle"
    /\ Tool => foundFunds /\ signedTransaction = None
    /\ StartSweep(batchSize)
    /\ Begin("recovering")
    /\ UNCHANGED <<setup, network, sweepData, searched, faults>>
    /\ UNCHANGED <<batchSize, foundFunds, retries, signedTransaction, recoveryComplete>>

\* sweepWallet has a transaction: it is shown, or sent to be cosigned together
\* with what the sweeper has found.
Swept ==
    /\ "recovering" \in op /\ sweep.state = "resolved"
    /\ IF setup.cosign
       THEN /\ op' = (op \ {"recovering"}) \cup {"cosigning"}
            /\ UNCHANGED <<working, signedTransaction, sweep>>
       ELSE /\ End("recovering")
            /\ signedTransaction' = sweep.tx
            /\ sweep' = NoSweep
    /\ UNCHANGED <<setup, network, discovery, sweepData, searched, faults>>
    /\ UNCHANGED <<batchSize, foundFunds, retries, recoveryComplete>>

\* The server adds its signature, or refuses; a wrong token is an error like others.
Cosigned ==
    /\ "cosigning" \in op
    /\ End("cosigning")
    /\ sweep' = NoSweep
    /\ \/ signedTransaction' = sweep.tx /\ UNCHANGED faults
       \/ Fault /\ UNCHANGED signedTransaction
    /\ UNCHANGED <<setup, network, discovery, sweepData, searched>>
    /\ UNCHANGED <<batchSize, foundFunds, retries, recoveryComplete>>

\* Mutated form: the error is shown and the flag stays.
NotSweptBusy ==
    /\ "recovering" \in op /\ sweep.state = "rejected"
    /\ sweep' = NoSweep
    /\ UNCHANGED <<setup, network, discovery, sweepData, searched, faults, toolVars>>
\* sweepWallet is rejected.  The script is at its end.
NotSwept ==
    /\ "recovering" \in op /\ sweep.state = "rejected"
    /\ End("recovering")
    /\ sweep' = IF Tool THEN NoSweep ELSE sweep
    /\ UNCHANGED <<setup, network, discovery, sweepData, searched, faults>>
    /\ UNCHANGED <<batchSize, foundFunds, retries, signedTransaction, recoveryComplete>>

\* sendTx
SendTx ==
    /\ Tool /\ ~working /\ signedTransaction # None
    /\ Begin("sending")
    /\ UNCHANGED <<sweeperVars, batchSize, foundFunds, retries, signedTransaction, recoveryComplete>>

\* The network takes a transaction whose inputs are unspent; the request or its
\* answer may be lost, or the transaction refused for another reason.
Sent ==
    /\ "sending" \in op
    /\ End("sending")
    /\ \/ /\ signedTransaction.inputs \subseteq coins
          /\ coins' = coins \ signedTransaction.inputs /\ version' = version + 1
          /\ \/ recoveryComplete' = TRUE /\ UNCHANGED faults
             \/ Fault /\ UNCHANGED recoveryComplete
       \/ /\ ~(signedTransaction.inputs \subseteq coins)
          /\ UNCHANGED <<coins, version, recoveryComplete, faults>>
       \/ Fault /\ UNCHANGED <<coins, version, recoveryComplete>>
    /\ UNCHANGED <<setup, used, discovery, sweepData, sweep, searched>>
    /\ UNCHANGED <<batchSize, foundFunds, retries, signedTransaction>>

-----------------------------------------------------------------------------
Progress ==
    \/ (Discover \/ Sweep) /\ UNCHANGED toolVars
    \/ StartDiscovering \/ FundsDiscovered
    \/ RetryDoubles \/ RetryStarts
    \/ Swept \/ Cosigned \/ NotSwept \/ Sent
User == DiscoverFunds \/ Retry \/ RecoverFunds \/ SendTx

Next ==
    \/ Progress
    \/ User
    \/ LedgerChanges /\ UNCHANGED toolVars

Spec == Init /\ [][Next]_vars

\* Requests are answered or fail; the user need not do anything.
FairSpec == Spec /\ WF_vars(Progress)

-----------------------------------------------------------------------------
(***************************************************************************)
(* Properties                                                              *)
(***************************************************************************)
\* Two operations are never under way at once: sweepData is not replaced under a
\* sweep, whose transaction the cosigner is told the paths of, and a discovery
\* belongs to one of them.  The flag says when something is under way.
OneAtATime ==
    /\ TypeOK
    /\ working <=> op # {}
    /\ Cardinality(op) <= 1
    /\ discovery.state # "idle" => op \in {{"discovering"}, {"recovering"}}
    /\ op = {"cosigning"} => sweep.tx.inputs = sweepData.utxos

\* What discovery means, by itself: a coin is in reach when its own batch and all
\* batches before it have been used.
InReach(b, increment) ==
    {a \in coins : /\ a.key = b.key /\ a.chain = b.chain
                   /\ \A n \in 0..(a.index \div increment) :
                        Between(b, n * increment, (n + 1) * increment) \cap used # {}}

Finishes == discovery.state # "idle" /\ discovery'.state = "idle"
SearchedBranches == {Branch(n) : n \in 0..(NKeys * NChains - 1)}

Of(b, s) == {a \in s : a.key = b.key /\ a.chain = b.chain}

\* Discovery ends with coins in reach, and count and balance are theirs, each counted
\* once, however batches and chunks divide a chain.  A chain where a request failed may
\* have fewer of them, and no other chain does, but for one thing that is not a failure:
\* coins beyond the first page of an answer (cut) are missing.
FindsInReach ==
    [][Finishes =>
         /\ sweepData'.count = Cardinality(sweepData'.utxos)
         /\ sweepData'.balance = Total(sweepData'.utxos)
         /\ discovery.since = version =>
              \A b \in SearchedBranches :
                LET found == Of(b, sweepData'.utxos)
                    inReach == InReach(b, discovery.increment)
                IN  /\ found \subseteq inReach
                    /\ b \notin searched'.failed => inReach \subseteq found \cup searched'.cut]_vars

\* Discovering again, while the network is unchanged, finds what was found before, or
\* more, on every chain where nothing failed this time and however the first search
\* went; coins beyond the first page of an answer (cut) may be missing now.
AgainFindsMore ==
    [][Finishes /\ sweepData # None /\ searched.since = version =>
         \A b \in SearchedBranches \ searched'.failed :
           Of(b, sweepData.utxos) \subseteq sweepData'.utxos \cup searched'.cut]_vars

\* Every operation ends, whatever fails.
WorkEnds == working ~> ~working
=============================================================================
