----------------------------- MODULE WalletSync -----------------------------
(***************************************************************************)
(* How a Wallet keeps its copy of the transactions up to date:             *)
(* _pollTransactions and what it calls in                                  *)
(* blocktrail-wallet/src/js/modules/core/services/wallet/wallet.service.js *)
(*                                                                         *)
(* The copy is spread over documents that are written one by one: the last *)
(* block hash, the history (hashes of confirmed and of unconfirmed         *)
(* transactions) and one document per transaction.  One wallet object at a *)
(* time polls, one poll at a time (WalletPolling, WalletsManager), so only *)
(* put() without a _rev, in _addTransaction, can meet a conflict.          *)
(*                                                                         *)
(* The API is external.  A block hash is a number, a new block has a new   *)
(* and larger one, and so the chain is a set of numbers.                   *)
(***************************************************************************)
EXTENDS Integers, FiniteSets, SequencesExt

CONSTANTS
    Tx,        \* transactions of the wallet
    MaxHash,   \* bound of the model: blocks ever mined
    Faults     \* what may go wrong: "drop", "reorg", "fail", "put", "crash"

ASSUME SyncAssumption ==
    /\ MaxHash \in Nat
    /\ Faults \subseteq {"drop", "reorg", "fail", "put", "crash"}

VARIABLES
    chain, mined,  \* API: hashes of the main chain; number of blocks ever mined
    loc,           \* API: where a transaction is
    lastHash,      \* document :lh, 0 when it is missing or null
    history,       \* document :th
    txDoc,         \* documents :tx:<hash>
    pc, initing,   \* step of the poll; is it the one _initData waits for?
    asked,         \* the hash the poll asked with
    next,          \* what the poll is about to store
    puts, saves,   \* put()s of the poll still out
    list,          \* _walletData.transactions
    damage         \* observer: has a fault happened, has one torn the two saves apart?

serverVars == <<chain, mined, loc>>
storeVars == <<lastHash, history, txDoc>>
pollVars == <<pc, initing, asked, next, puts, saves>>
vars == <<serverVars, storeVars, pollVars, list, damage>>

Absent == -1
Mempool == 0

Histories == [confirmed : SUBSET Tx, unconfirmed : SUBSET Tx]
EmptyHistory == [confirmed |-> {}, unconfirmed |-> {}]
NextStates == [hash : 0 .. MaxHash, history : Histories,
               add : SUBSET Tx, update : SUBSET Tx]
NothingNext == [hash |-> 0, history |-> EmptyHistory, add |-> {}, update |-> {}]
DocStates == {"missing", "unconfirmed", "confirmed"}

Init ==
    /\ chain = {} /\ mined = 0
    /\ loc = [t \in Tx |-> Absent]
    /\ lastHash = 0
    /\ history = EmptyHistory
    /\ txDoc = [t \in Tx |-> "missing"]
    /\ pc = "idle" /\ initing = TRUE
    /\ asked = 0 /\ next = NothingNext /\ puts = {} /\ saves = {}
    /\ list = [t \in Tx |-> "missing"]
    /\ damage = "none"

-----------------------------------------------------------------------------
(***************************************************************************)
(* The network behind the API                                              *)
(***************************************************************************)
Broadcast(t) ==
    /\ loc[t] = Absent
    /\ loc' = [loc EXCEPT ![t] = Mempool]
    /\ UNCHANGED <<chain, mined, storeVars, pollVars, list, damage>>

\* Faults leave a mark; the one that tears the saves apart is not outdone.
Fault == damage' = IF damage = "torn" THEN "torn" ELSE "fault"

\* A double spend or an eviction takes a transaction out of the mempool.
Drop(t) ==
    /\ "drop" \in Faults
    /\ loc[t] = Mempool
    /\ loc' = [loc EXCEPT ![t] = Absent]
    /\ Fault
    /\ UNCHANGED <<chain, mined, storeVars, pollVars, list>>

Mine(S) ==
    /\ mined < MaxHash
    /\ \A t \in S : loc[t] = Mempool
    /\ mined' = mined + 1
    /\ chain' = chain \cup {mined'}
    /\ loc' = [t \in Tx |-> IF t \in S THEN mined' ELSE loc[t]]
    /\ UNCHANGED <<storeVars, pollVars, list, damage>>

\* The tip is replaced by a block with only some of its transactions.
Reorg(tip, S) ==
    /\ "reorg" \in Faults
    /\ mined < MaxHash
    /\ \A h \in chain : h <= tip
    /\ \A t \in S : loc[t] = tip
    /\ mined' = mined + 1
    /\ chain' = (chain \ {tip}) \cup {mined'}
    /\ loc' = [t \in Tx |-> IF t \in S THEN mined'
                            ELSE IF loc[t] = tip THEN Mempool ELSE loc[t]]
    /\ Fault
    /\ UNCHANGED <<storeVars, pollVars, list>>

\* What transactions({lastBlockHash: h}) reports.
ConfirmedSince(h) == {t \in Tx : loc[t] > h}
InMempool == {t \in Tx : loc[t] = Mempool}
OnChain(h) == h = 0 \/ h \in chain

-----------------------------------------------------------------------------
(***************************************************************************)
(* _pollTransactions                                                       *)
(***************************************************************************)
\* _getLastBlockHashFromStorage, and the request is sent.
PollStart ==
    /\ pc = "idle"
    /\ pc' = "asked"
    /\ asked' = lastHash
    /\ UNCHANGED <<serverVars, storeVars, initing, next, puts, saves, list, damage>>

\* The poll is over; the one of _initData goes on with _getTransactions.
Over == pc' = IF initing THEN "loading" ELSE "idle"

\* "no new transactions...break out": resolved by the catch handler.
AnswerNoTx ==
    /\ pc = "asked"
    /\ OnChain(asked)
    /\ ConfirmedSince(asked) = {} /\ InMempool = {}
    /\ Over
    /\ UNCHANGED <<serverVars, storeVars, initing, asked, next, puts, saves, list, damage>>

\* Names of documents start with the unique identifier; allDocs() in
\* _resetWalletData asks for those that start with the bare identifier.
Identifier == <<"identifier">>
UniqueIdentifier == <<"networkType", "_">> \o Identifier
InResetRange(id) == IsPrefix(Identifier, id)

\* ORPHAN: _resetWalletData, _getBlockHeight, and _pollTransactions once more.
AnswerOrphan ==
    /\ pc = "asked"
    /\ ~OnChain(asked)
    /\ IF InResetRange(UniqueIdentifier)
       THEN /\ lastHash' = 0
            /\ history' = EmptyHistory
            /\ txDoc' = [t \in Tx |-> "missing"]
       ELSE UNCHANGED storeVars
    /\ asked' = lastHash'
    /\ UNCHANGED <<serverVars, pc, initing, next, puts, saves, list, damage>>

\* Mutated form: a confirmed transaction is not looked up among the unconfirmed ones.
ProcessWithoutUpdate ==
    LET old == history.unconfirmed
        confirmed == ConfirmedSince(asked)
    IN  [hash |-> IF chain = {} THEN 0 ELSE CHOOSE h \in chain : \A g \in chain : g <= h,
         history |-> [confirmed |-> history.confirmed \cup confirmed,
                      unconfirmed |-> InMempool],
         add |-> (confirmed \ (history.confirmed \cup old)) \cup (InMempool \ old),
         update |-> {}]
\* _processTransactions
Process ==
    LET old == history.unconfirmed
        confirmed == ConfirmedSince(asked)
    IN  [hash |-> IF chain = {} THEN 0 ELSE CHOOSE h \in chain : \A g \in chain : g <= h,
         history |-> [confirmed |-> history.confirmed \cup confirmed,
                      unconfirmed |-> InMempool],
         add |-> (confirmed \ (history.confirmed \cup old)) \cup (InMempool \ old),
         update |-> confirmed \cap old]

AnswerData ==
    /\ pc = "asked"
    /\ OnChain(asked)
    /\ ConfirmedSince(asked) \cup InMempool # {}
    /\ next' = Process
    /\ puts' = next'.add \cup next'.update
    /\ pc' = "storing"
    /\ UNCHANGED <<serverVars, storeVars, initing, asked, saves, list, damage>>

\* What the document of t will say: the data of the answer.
DocOf(t) == IF t \in next.history.unconfirmed THEN "unconfirmed" ELSE "confirmed"

\* Mutated form: a put without _rev overwrites what is there.
StoreTxOverwrites(t) ==
    /\ t \in puts
    /\ puts' = puts \ {t}
    /\ txDoc' = [txDoc EXCEPT ![t] = DocOf(t)]
    /\ UNCHANGED <<serverVars, lastHash, history, pc, initing, asked, next, saves, list, damage>>
\* _updateTransaction reads the revision first; _addTransaction does not know
\* one, and is refused when the document exists.  $q.all rejects at once, the
\* put()s that are out go on.
StoreTx(t) ==
    /\ t \in puts
    /\ puts' = puts \ {t}
    /\ \/ /\ t \in next.update \/ txDoc[t] = "missing"
          /\ txDoc' = [txDoc EXCEPT ![t] = DocOf(t)]
          /\ UNCHANGED pc
       \/ /\ t \notin next.update /\ txDoc[t] # "missing"
          /\ pc' = "dead"
          /\ UNCHANGED txDoc
    /\ UNCHANGED <<serverVars, lastHash, history, initing, asked, next, saves, list, damage>>

\* Mutated form: the history is stored along with the transactions, not after them.
StoredAllEarly ==
    /\ pc = "storing"
    /\ pc' = "saving"
    /\ saves' = {"hash", "history"}
    /\ UNCHANGED <<serverVars, storeVars, initing, asked, next, puts, list, damage>>
\* Every transaction is stored, and so is the balance.
StoredAll ==
    /\ pc = "storing"
    /\ puts = {}
    /\ pc' = "saving"
    /\ saves' = {"hash", "history"}
    /\ UNCHANGED <<serverVars, storeVars, initing, asked, next, puts, list, damage>>

\* _setLastBlockHashToStorageAndTransactionHistoryToStorage: two put()s.
SaveHash ==
    /\ "hash" \in saves
    /\ lastHash' = next.hash
    /\ saves' = saves \ {"hash"}
    /\ UNCHANGED <<serverVars, history, txDoc, pc, initing, asked, next, puts, list, damage>>

SaveHistory ==
    /\ "history" \in saves
    /\ history' = next.history
    /\ saves' = saves \ {"history"}
    /\ UNCHANGED <<serverVars, lastHash, txDoc, pc, initing, asked, next, puts, list, damage>>

\* The list made of a history: a missing document is a TypeError.  The filter of
\* TX_FILTER_MIN_BLOCK_HEIGHT, set for bitcoin cash only, hides transactions of the
\* blocks before its fork: the blocks of the model are later ones.
Listed(h) ==
    [t \in Tx |-> IF t \in h.confirmed \cup h.unconfirmed THEN txDoc[t] ELSE "missing"]

\* _addNewTransactionsToList
Relist ==
    /\ pc = "saving" /\ saves = {}
    /\ list' = Listed(next.history)
    /\ Over
    /\ UNCHANGED <<serverVars, storeVars, initing, asked, next, puts, saves, damage>>

\* _getTransactions of _initData
Load ==
    /\ pc = "loading"
    /\ list' = Listed(history)
    /\ pc' = "idle" /\ initing' = FALSE
    /\ UNCHANGED <<serverVars, storeVars, asked, next, puts, saves, damage>>

-----------------------------------------------------------------------------
\* A request, or initSettings, fails.  The poll is rejected, and no other one
\* starts (WalletPolling).
Fails ==
    /\ "fail" \in Faults
    /\ pc \in {"asked", "storing", "loading"} \/ (pc = "saving" /\ saves = {})
    /\ pc' = "dead"
    /\ Fault
    /\ UNCHANGED <<serverVars, storeVars, initing, asked, next, puts, saves, list>>

\* One of several put()s fails, a full disk for instance: $q.all rejects and the
\* others go on.
PutFails ==
    /\ "put" \in Faults
    /\ \/ /\ \E t \in puts : puts' = puts \ {t}
          /\ Fault /\ UNCHANGED saves
       \/ /\ "hash" \in saves /\ saves' = saves \ {"hash"}
          /\ Fault /\ UNCHANGED puts
       \/ /\ "history" \in saves /\ saves' = saves \ {"history"}
          /\ damage' = "torn" /\ UNCHANGED puts
    /\ pc' = "dead"
    /\ UNCHANGED <<serverVars, storeVars, initing, asked, next, list>>

\* The app is started again, after it was killed at any moment ("crash") or
\* closed between polls, also when its wallet no longer polls.  Only the
\* documents are left.
Restart ==
    /\ "crash" \in Faults \/ (pc \in {"idle", "dead"} /\ puts = {} /\ saves = {})
    /\ pc' = "idle" /\ initing' = TRUE
    /\ asked' = 0 /\ next' = NothingNext /\ puts' = {} /\ saves' = {}
    /\ list' = [t \in Tx |-> "missing"]
    /\ \/ pc = "idle" /\ UNCHANGED damage
       \/ pc # "idle" /\ saves # {"history"} /\ Fault
       \/ pc # "idle" /\ saves = {"history"} /\ damage' = "torn"
    /\ UNCHANGED <<serverVars, storeVars>>

NetworkStep ==
    \/ \E t \in Tx : Broadcast(t) \/ Drop(t)
    \/ \E S \in SUBSET Tx : Mine(S) \/ \E tip \in chain : Reorg(tip, S)

PollStep ==
    \/ PollStart \/ AnswerNoTx \/ AnswerOrphan \/ AnswerData
    \/ \E t \in Tx : StoreTx(t)
    \/ StoredAll \/ SaveHash \/ SaveHistory \/ Relist \/ Load

Next == NetworkStep \/ PollStep \/ Fails \/ PutFails \/ Restart

Spec == Init /\ [][Next]_vars

\* The wallet polls every 15 seconds, and its requests are answered.
FairSpec == Spec /\ WF_vars(PollStep)

-----------------------------------------------------------------------------
(***************************************************************************)
(* Properties                                                              *)
(***************************************************************************)
\* Types; and no hash is known to the wallet that the API did not report.
TypeOK ==
    /\ chain \subseteq 1 .. mined /\ mined \in 0 .. MaxHash
    /\ loc \in [Tx -> {Absent, Mempool} \cup 1 .. MaxHash]
    /\ {lastHash, asked, next.hash} \subseteq 0 .. mined
    /\ history \in Histories
    /\ txDoc \in [Tx -> DocStates] /\ list \in [Tx -> DocStates]
    /\ pc \in {"idle", "asked", "storing", "saving", "loading", "dead"}
    /\ initing \in BOOLEAN
    /\ next \in NextStates
    /\ puts \subseteq Tx /\ saves \subseteq {"hash", "history"}
    /\ damage \in {"none", "fault", "torn"}

\* Whenever the app is killed and whatever fails, the stored history refers to
\* stored documents only, and a confirmed entry to one that says so: showing
\* the list (_prepareTransactionsList) never meets a missing document.
HistoryBackedByDocs ==
    /\ \A t \in history.confirmed : txDoc[t] = "confirmed"
    /\ \A t \in history.unconfirmed : txDoc[t] # "missing"

\* No transaction is stored as confirmed and as unconfirmed, so none is listed
\* twice: a reorganisation or a crash between two writes cannot bring it about.
HistoryDisjoint == history.confirmed \cap history.unconfirmed = {}

\* The types, and the stored history is sound: backed by documents, and without
\* a transaction that is listed twice.
HistorySound == TypeOK /\ HistoryBackedByDocs /\ HistoryDisjoint

\* Between polls every transaction up to the last block hash is in the history.
\* The wallet will not be told of it again: the next poll asks only for what is
\* above that hash.
HistoryComplete ==
    pc # "saving" /\ OnChain(lastHash) =>
      \A t \in Tx : loc[t] \in 1 .. lastHash => t \in history.confirmed

\* That holds through dropped and reorganised transactions, failed requests and
\* restarts, unless the hash was stored and the history that goes with it not.
MissedOnlyIfTorn == damage = "torn" \/ HistoryComplete

\* As long as nothing goes wrong, a transaction that is mined is in the list, as
\* confirmed, in the end, however polls, broadcasts and blocks interleave.
MinedIsListed ==
    \A t \in Tx :
      loc[t] > 0 /\ damage = "none" ~> list[t] = "confirmed" \/ damage # "none"

\* An orphaned last block hash makes the wallet sync from the start ("ORPHAN
\* means we need to resync (completely)").
OrphanResyncs == ~OnChain(lastHash) ~> OnChain(lastHash)
=============================================================================
