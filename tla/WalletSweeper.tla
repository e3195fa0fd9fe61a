---------------------------- MODULE WalletSweeper ----------------------------
(***************************************************************************)
(* WalletSweeper of the sdk (lib/wallet_sweeper.js) with the output finder *)
(* and the two bitcoin data services: discoverWalletFunds walks the        *)
(* addresses of every key and chain in batches until a batch has never     *)
(* been used, and sweepWallet makes one transaction of what was found.     *)
(*                                                                         *)
(* An address receives one coin, of a value given by its index.  Two       *)
(* releases are modelled: this repository's, 3.6.7, and 3.3.2, which its   *)
(* recovery tool is built with; they differ in the chains searched and in  *)
(* the estimate of the fee.                                                *)
(***************************************************************************)
EXTENDS Naturals, FiniteSets, FiniteSetsExt

CONSTANTS
    NKeys,        \* number of blocktrail public keys
    NIndexes,     \* addresses of a chain that may have been used
    Ledgers,      \* what the network may know of the wallet at first
    Setups,       \* releases, services, and whether the server has to sign
    ChunkSize,    \* batchChunkSize of the finder
    PageLimit,    \* paginationLimit of the blocktrail service
    Fees,         \* what an estimate of the fee may be
    None,
    MaxFaults     \* bound of the model: failed requests, coins that come or go

Addresses == [key : 1..NKeys, chain : 0..2, index : 0..(NIndexes - 1)]
Value(a) == a.index + 1
Total(s) == MapThenSumSet(Value, s)

\* What a discovery finds, and what a sweep makes of it.
Findings == [utxos : SUBSET Addresses, count : Nat, balance : Nat]
Transactions == [inputs : SUBSET Addresses, out : Nat, fee : Nat]

ASSUME SweeperAssumption ==
    /\ NKeys \in Nat \ {0} /\ NIndexes \in Nat \ {0}
    /\ ChunkSize \in Nat \ {0} /\ PageLimit \in Nat \ {0}
    /\ Fees \subseteq Nat
    /\ Setups \subseteq [release : {"3.3.2", "3.6.7"}, service : {"blocktrail", "insight"},
                        cosign : BOOLEAN]
    /\ \A l \in Ledgers : l.used \subseteq Addresses /\ l.coins \subseteq l.used
    /\ None \notin Findings \cup Transactions
    /\ MaxFaults \in Nat

VARIABLES
    setup,        \* release of the sdk, bitcoin data service, cosigning; chosen at first
    used,         \* network: addresses with transactions
    coins,        \* network: addresses with an unspent output
    version,      \* observer: counts the changes of used and coins
    discovery,    \* discoverWalletFunds under way
    sweepData,    \* what the last one has found
    sweep,        \* sweepWallet under way
    searched,     \* observer: circumstances of the last discovery
    faults

network == <<used, coins, version>>
sweeperVars == <<setup, network, discovery, sweepData, sweep, searched, faults>>

Branches == [key : 1..NKeys, chain : 0..2]
NoDiscovery ==
    [state |-> "idle", at |-> 0, i |-> 0, increment |-> 1, chunk |-> 0, got |-> {},
     found |-> {}, count |-> 0, balance |-> 0, since |-> 0,
     failed |-> {}, cut |-> {}]
NoSweep == [state |-> "idle", tx |-> None]

SweeperTypeOK ==
    /\ setup \in Setups
    /\ used \subseteq Addresses /\ coins \subseteq used /\ version \in 0..(MaxFaults + 1)
    /\ discovery.state \in {"idle", "has", "utxos", "apply"}
    /\ discovery.got \subseteq Addresses /\ discovery.found \subseteq Addresses
    /\ discovery.failed \subseteq Branches /\ discovery.cut \subseteq Addresses
    /\ sweepData \in Findings \cup {None}
    /\ sweep.state \in {"idle", "discover", "fee", "create", "resolved", "rejected"}
    /\ sweep.tx = None \/ sweep.tx \in Transactions
    /\ faults \in 0..MaxFaults

SweeperInit ==
    /\ setup \in Setups
    /\ \E l \in Ledgers : used = l.used /\ coins = l.coins
    /\ version = 0
    /\ discovery = NoDiscovery /\ sweepData = None /\ sweep = NoSweep
    /\ searched = [since |-> 0, failed |-> {}, cut |-> {}]
    /\ faults = 0

Fault == faults < MaxFaults /\ faults' = faults + 1

-----------------------------------------------------------------------------
(***************************************************************************)
(* discoverWalletFunds                                                     *)
(***************************************************************************)
\* checkChain; the network is an object and never equal to "bitcoincash".
NChains == IF setup.release = "3.3.2" THEN 2 ELSE 3

\* The nested eachSeries, flattened: the n-th pair of a key and a chain.
Branch(n) == [key |-> 1 + (n \div NChains), chain |-> n % NChains]
Here == Branch(discovery.at)
Between(b, from, to) ==
    {a \in Addresses : a.key = b.key /\ a.chain = b.chain /\ a.index \in from..(to - 1)}

\* createBatchAddresses
BatchAddresses == Between(Here, discovery.i, discovery.i + discovery.increment)

StartDiscovery(increment) ==
    discovery' = [NoDiscovery EXCEPT !.state = "has", !.increment = increment, !.since = version]

\* The last callback of a chain, with or without an error: the next chain, or
\* the promise is resolved with what was found.
ChainDone(d) ==
    IF d.at + 1 < NKeys * NChains
    THEN /\ discovery' = [d EXCEPT !.state = "has", !.at = @ + 1, !.i = 0]
         /\ UNCHANGED <<sweepData, searched>>
    ELSE /\ discovery' = NoDiscovery
         /\ sweepData' = [utxos |-> d.found, count |-> d.count, balance |-> d.balance]
         /\ searched' = [since |-> d.since, failed |-> d.failed, cut |-> d.cut]

\* batchAddressHasTransactions answers; an unused batch ends the chain.
HasTransactions ==
    /\ discovery.state = "has"
    /\ \/ /\ BatchAddresses \cap used # {}
          /\ discovery' = [discovery EXCEPT !.state = "utxos", !.chunk = 0, !.got = {}]
          /\ UNCHANGED <<sweepData, searched>>
       \/ /\ BatchAddresses \cap used = {}
          /\ ChainDone(discovery)
    /\ UNCHANGED <<setup, network, sweep, faults>>

\* Mutated form: the error is handed on, and ends the discovery.
HasTransactionsFailsAll ==
    /\ Fault
    /\ discovery.state = "has"
    /\ discovery' = NoDiscovery
    /\ sweepData' = [utxos |-> discovery.found, count |-> discovery.count,
                     balance |-> discovery.balance]
    /\ searched' = [since |-> discovery.since, failed |-> discovery.failed \cup {Here},
                  cut |-> discovery.cut]
    /\ UNCHANGED <<setup, network, sweep>>
\* It fails: the rest of this chain is not searched.
HasTransactionsFails ==
    /\ Fault
    /\ discovery.state = "has"
    /\ ChainDone([discovery EXCEPT !.failed = @ \cup {Here}])
    /\ UNCHANGED <<setup, network, sweep>>

\* It fails with nothing in the body of insight's answer: an empty reason, which is
\* taken for no failure at all.  The last answer was that a batch has been used, and
\* this batch is asked for again; at the first one the chain ends as above.
HasTransactionsAgain ==
    /\ Fault
    /\ setup.service = "insight"
    /\ discovery.state = "has" /\ discovery.i > 0
    /\ UNCHANGED <<setup, network, discovery, sweepData, sweep, searched>>

\* A chunk of the batch, and what one page of an answer has of its coins.
Chunk ==
    LET from == discovery.i + discovery.chunk
    IN  Between(Here, from, from + Min({ChunkSize, discovery.increment - discovery.chunk}))
Pages(s) == {p \in SUBSET s : Cardinality(p) = Min({PageLimit, Cardinality(s)})}
Answers(s) == IF setup.service = "insight" THEN {s} ELSE Pages(s)

\* The next chunk, or all of them have been asked for.
NextChunk(d) ==
    IF d.chunk + ChunkSize < d.increment
    THEN [d EXCEPT !.chunk = @ + ChunkSize]
    ELSE [d EXCEPT !.state = "apply"]

\* getBatchUnspentOutputs.  The blocktrail service reads one page: the variable
\* that would tell it to go on is shadowed.  Nothing has failed, and the coins on
\* later pages are left out.
GetUTXOs ==
    /\ discovery.state = "utxos"
    /\ \E page \in Answers(Chunk \cap coins) :
         discovery' = NextChunk(
           [discovery EXCEPT !.got = @ \cup page, !.cut = @ \cup ((Chunk \cap coins) \ page)])
    /\ UNCHANGED <<setup, network, sweepData, sweep, searched, faults>>

\* It fails.  The blocktrail service answers with nothing; the error of insight
\* ends the finder's loop, and what it has so far counts as the whole, unless its
\* reason is empty.
GetUTXOsFails ==
    /\ Fault
    /\ discovery.state = "utxos"
    /\ LET d == [discovery EXCEPT !.failed = @ \cup {Here}]
       IN  \/ discovery' = NextChunk(d)
           \/ setup.service = "insight" /\ discovery' = [d EXCEPT !.state = "apply"]
    /\ UNCHANGED <<setup, network, sweepData, sweep, searched>>

\* The outputs are added up, and the next batch begins.
AddUTXOs ==
    /\ discovery.state = "apply"
    /\ discovery' = [discovery EXCEPT
         !.state = "has", !.i = @ + discovery.increment, !.got = {}, !.chunk = 0,
         !.found = @ \cup discovery.got,
         !.count = @ + Cardinality(discovery.got),
         !.balance = @ + Total(discovery.got)]
    /\ UNCHANGED <<setup, network, sweepData, sweep, searched, faults>>

Discover ==
    \/ HasTransactions \/ HasTransactionsFails \/ HasTransactionsAgain
    \/ GetUTXOs \/ GetUTXOsFails
    \/ AddUTXOs

-----------------------------------------------------------------------------
(***************************************************************************)
(* sweepWallet                                                             *)
(***************************************************************************)
StartSweep(increment) ==
    IF sweepData = None
    THEN /\ sweep' = [state |-> "discover", tx |-> None]
         /\ StartDiscovery(increment)
    ELSE /\ sweep' = [state |-> "fee", tx |-> None]
         /\ UNCHANGED discovery

SweepDiscovered ==
    /\ sweep.state = "discover" /\ discovery.state = "idle"
    /\ sweep' = [sweep EXCEPT !.state = "fee"]
    /\ UNCHANGED <<setup, network, discovery, sweepData, searched, faults>>

\* estimateFee of the service; nothing to sweep is an error.
EstimateFee ==
    /\ sweep.state = "fee"
    /\ \/ sweep' = [sweep EXCEPT !.state = IF sweepData.balance = 0 THEN "rejected" ELSE "create"]
          /\ UNCHANGED faults
       \/ Fault /\ sweep' = [sweep EXCEPT !.state = "rejected"]
    /\ UNCHANGED <<setup, network, discovery, sweepData, searched>>

\* createTransaction, signTransaction.  A negative output cannot be serialized;
\* in 3.6.7 the estimate is given the output's index for its script, and throws.
CreateTransaction ==
    /\ sweep.state = "create"
    /\ \E fee \in Fees :
         sweep' = IF setup.release = "3.6.7" \/ fee > sweepData.balance
                  THEN [sweep EXCEPT !.state = "rejected"]
                  ELSE [state |-> "resolved",
                        tx |-> [inputs |-> sweepData.utxos, fee |-> fee,
                                out |-> sweepData.balance - fee]]
    /\ UNCHANGED <<setup, network, discovery, sweepData, searched, faults>>

Sweep == SweepDiscovered \/ EstimateFee \/ CreateTransaction

-----------------------------------------------------------------------------
\* A coin arrives at a new address, or is spent from another device.
LedgerChanges ==
    /\ Fault
    /\ version' = version + 1
    /\ \/ \E a \in Addresses \ used : coins' = coins \cup {a} /\ used' = used \cup {a}
       \/ \E a \in coins : coins' = coins \ {a} /\ UNCHANGED used
    /\ UNCHANGED <<setup, discovery, sweepData, sweep, searched>>
=============================================================================
