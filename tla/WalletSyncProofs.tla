-------------------------- MODULE WalletSyncProofs --------------------------
(***************************************************************************)
(* Proofs about WalletSync, for any number of transactions and of blocks   *)
(* and for every choice of faults: the stored history is backed by         *)
(* documents and lists nothing twice, and it misses no transaction unless  *)
(* its two saves were torn apart.                                          *)
(***************************************************************************)
EXTENDS WalletSync, TLAPS

\* The newest block is on the main chain, and no transaction is in a later one.
ServerOK ==
    /\ chain # {} => mined \in chain
    /\ \A t \in Tx : loc[t] <= mined

\* Which put()s may be out at which step of a poll.
Phases ==
    /\ pc = "asked" => asked = lastHash
    /\ puts # {} => pc \in {"storing", "dead"} /\ next.update \subseteq history.unconfirmed
    /\ puts \subseteq next.add \cup next.update
    /\ saves # {} => pc \in {"saving", "dead"} /\ puts = {}
    /\ pc = "saving" => puts = {}

\* A history that shows stored documents, and none of them twice.
Backed(h) ==
    /\ \A t \in h.confirmed : txDoc[t] = "confirmed"
    /\ \A t \in h.unconfirmed : txDoc[t] # "missing"
Disjoint(h) == h.confirmed \cap h.unconfirmed = {}

\* The wallet knows the transactions up to a hash, if that is not orphaned.
Complete(hash, h) ==
    OnChain(hash) => \A t \in Tx : loc[t] \in 1 .. hash => t \in h.confirmed

\* While its documents are being stored, the next history need not be backed:
\* what it has over the stored one is to be added, or to be updated.  It lists a
\* transaction twice when a reorganisation has put one that is stored as confirmed
\* back into the mempool; but then that one is to be added, and the put of a
\* document that exists is refused.
Storing ==
    pc = "storing" =>
      /\ next.update \subseteq history.unconfirmed
      /\ next.add \cap history.unconfirmed = {}
      /\ next.history.confirmed \subseteq
           history.confirmed \cup next.update \cup next.add
      /\ next.history.unconfirmed \subseteq history.unconfirmed \cup next.add
      /\ next.history.confirmed \cap next.history.unconfirmed \subseteq history.confirmed
      /\ \A t \in (next.add \cup next.update) \ puts : txDoc[t] = DocOf(t)
      /\ (next.add \ puts) \cap history.confirmed = {}

\* Once they are stored, the next history is as good as the stored one.
SavingSound == pc = "saving" \/ saves # {} => Backed(next.history) /\ Disjoint(next.history)

\* The next history belongs to the next hash, and loses no confirmed transaction.
NextComplete ==
    pc \in {"storing", "saving"} \/ saves # {} =>
      /\ history.confirmed \subseteq next.history.confirmed
      /\ damage # "torn" => Complete(next.hash, next.history)

\* The stored history belongs to the stored hash, but between the two saves; and
\* of these the one of the hash is not the only one to succeed.
SavedTogether ==
    /\ pc = "saving" /\ "hash" \notin saves => lastHash = next.hash
    /\ pc = "saving" /\ "history" \notin saves => history = next.history
    /\ pc = "dead" /\ "hash" \in saves => damage = "torn"
    /\ damage # "torn" =>
         Complete(lastHash, history) \/ (pc = "saving" /\ saves = {"history"})

SyncInv ==
    /\ TypeOK
    /\ ServerOK
    /\ Phases
    /\ Backed(history)
    /\ Disjoint(history)
    /\ Storing
    /\ SavingSound
    /\ NextComplete
    /\ SavedTogether

-----------------------------------------------------------------------------
\* The inductive invariant holds when the app is started for the first time.
LEMMA InitInv == Init => SyncInv
<1> SUFFICES ASSUME Init PROVE SyncInv
  OBVIOUS
<1> USE SyncAssumption DEF Init, EmptyHistory, NothingNext, Absent, Mempool
<1>1. TypeOK
  BY DEF TypeOK, Histories, NextStates, DocStates
<1>2. ServerOK /\ Phases /\ Backed(history) /\ Disjoint(history) /\ Storing /\ SavingSound
  BY DEF ServerOK, Phases, Backed, Disjoint, Storing, SavingSound
<1>3. NextComplete /\ SavedTogether
  BY DEF NextComplete, SavedTogether, Complete, OnChain
<1> QED
  BY <1>1, <1>2, <1>3 DEF SyncInv

\* What the network does concerns the wallet only above the blocks it has seen: no
\* block comes back, and nothing enters one that is there already.
LEMMA NetworkFrame ==
    ASSUME TypeOK, ServerOK, NetworkStep
    PROVE  /\ TypeOK' /\ ServerOK'
           /\ UNCHANGED <<storeVars, pollVars>>
           /\ damage = "torn" => damage' = "torn"
           /\ \A h \in 0 .. mined : h \in chain' => h \in chain
           /\ \A t \in Tx, h \in 0 .. mined : loc'[t] \in 1 .. h => loc'[t] = loc[t]
<1> USE SyncAssumption
    DEF TypeOK, ServerOK, Absent, Mempool, storeVars, pollVars, Fault
<1> DEFINE Frame ==
             /\ TypeOK' /\ ServerOK'
             /\ UNCHANGED <<storeVars, pollVars>>
             /\ damage = "torn" => damage' = "torn"
             /\ \A h \in 0 .. mined : h \in chain' => h \in chain
             /\ \A t \in Tx, h \in 0 .. mined : loc'[t] \in 1 .. h => loc'[t] = loc[t]
<1>1. ASSUME NEW t \in Tx, Broadcast(t) PROVE Frame
  BY <1>1 DEF Broadcast
<1>2. ASSUME NEW t \in Tx, Drop(t) PROVE Frame
  BY <1>2 DEF Drop
<1>3. ASSUME NEW S \in SUBSET Tx, Mine(S) PROVE Frame
  BY <1>3 DEF Mine
<1>4. ASSUME NEW S \in SUBSET Tx, NEW tip \in chain, Reorg(tip, S) PROVE Frame
  BY <1>4 DEF Reorg
<1> HIDE DEF Frame
<1>5. Frame
  BY <1>1, <1>2, <1>3, <1>4 DEF NetworkStep
<1> QED
  BY <1>5 DEF Frame

\* Whatever the network does, the wallet's invariant holds.
LEMMA NetworkKeeps == SyncInv /\ NetworkStep => SyncInv'
<1> SUFFICES ASSUME SyncInv, NetworkStep PROVE SyncInv'
  OBVIOUS
<1>1. TypeOK /\ ServerOK
  BY DEF SyncInv
<1>2. /\ TypeOK' /\ ServerOK'
      /\ UNCHANGED <<storeVars, pollVars>>
      /\ damage = "torn" => damage' = "torn"
      /\ \A h \in 0 .. mined : h \in chain' => h \in chain
      /\ \A t \in Tx, h \in 0 .. mined : loc'[t] \in 1 .. h => loc'[t] = loc[t]
  BY <1>1, NetworkFrame
<1>3. (Phases /\ Backed(history) /\ Disjoint(history) /\ Storing /\ SavingSound)'
  BY <1>2 DEF SyncInv, Phases, Backed, Disjoint, Storing, SavingSound, DocOf, storeVars, pollVars
<1>4. /\ Complete(next.hash, next.history) => Complete(next.hash, next.history)'
      /\ Complete(lastHash, history) => Complete(lastHash, history)'
  BY <1>1, <1>2 DEF Complete, OnChain, TypeOK, storeVars, pollVars
<1>5. NextComplete' /\ SavedTogether'
  BY <1>2, <1>4 DEF SyncInv, NextComplete, SavedTogether, storeVars, pollVars
<1> QED
  BY <1>2, <1>3, <1>5 DEF SyncInv

\* The newest block is the one the CHOOSE of _processTransactions finds.
LEMMA NewestBlock ==
    ASSUME TypeOK, ServerOK
    PROVE  Process.hash = IF chain = {} THEN 0 ELSE mined
<1>1. CASE chain = {}
  BY <1>1 DEF Process
<1>2. CASE chain # {}
  <2>1. mined \in chain /\ \A g \in chain : g <= mined
    BY <1>2 DEF TypeOK, ServerOK
  <2>2. \A h \in chain : (\A g \in chain : g <= h) => h = mined
    BY <2>1 DEF TypeOK
  <2>3. (CHOOSE h \in chain : \A g \in chain : g <= h) = mined
    BY <2>1, <2>2
  <2>4. Process.hash = CHOOSE h \in chain : \A g \in chain : g <= h
    BY <1>2 DEF Process
  <2> QED
    BY <1>2, <2>3, <2>4
<1> QED
  BY <1>1, <1>2

\* An answer of the API is worked into a next history that is complete up to the
\* newest block, provided that the stored one is up to the block asked with.
LEMMA AnswerDataKeeps == SyncInv /\ AnswerData => SyncInv'
<1> SUFFICES ASSUME SyncInv, AnswerData PROVE SyncInv'
  OBVIOUS
<1> DEFINE confirmed == ConfirmedSince(asked)
           old == history.unconfirmed
<1>1. /\ pc = "asked" /\ pc' = "storing" /\ asked = lastHash
      /\ OnChain(lastHash)
      /\ puts = {} /\ saves = {}
      /\ UNCHANGED <<serverVars, storeVars, initing, asked, saves, list, damage>>
  BY DEF SyncInv, Phases, AnswerData
<1>2. /\ next' = Process
      /\ puts' = Process.add \cup Process.update
  BY DEF AnswerData
<1>3. /\ Process.history.confirmed = history.confirmed \cup confirmed
      /\ Process.history.unconfirmed = InMempool
      /\ Process.add = (confirmed \ (history.confirmed \cup old)) \cup (InMempool \ old)
      /\ Process.update = confirmed \cap old
      /\ Process = [hash |-> Process.hash, history |-> Process.history,
                    add |-> Process.add, update |-> Process.update]
      /\ Process.history = [confirmed |-> Process.history.confirmed,
                            unconfirmed |-> Process.history.unconfirmed]
  BY DEF Process
<1>4. Process.hash \in 0 .. mined /\ \A h \in chain : h <= Process.hash
  BY NewestBlock DEF SyncInv, TypeOK
<1>5. confirmed \subseteq Tx /\ InMempool \subseteq Tx /\ confirmed \cap InMempool = {}
  BY DEF SyncInv, TypeOK, ConfirmedSince, InMempool, Mempool
<1> HIDE DEF confirmed
<1>6. TypeOK'
  <2>1. Process \in NextStates
    BY <1>3, <1>4, <1>5, SyncAssumption DEF SyncInv, TypeOK, NextStates, Histories
  <2> QED
    BY <1>1, <1>2, <1>3, <1>4, <1>5, <2>1, SyncAssumption
    DEF SyncInv, TypeOK, serverVars, storeVars, Histories
<1>7. (ServerOK /\ Phases /\ Backed(history) /\ Disjoint(history))'
  BY <1>1, <1>2, <1>3 DEF SyncInv, ServerOK, Phases, Backed, Disjoint, serverVars, storeVars
<1>8. (Storing /\ SavingSound)'
  BY <1>1, <1>2, <1>3, <1>5 DEF Storing, SavingSound, storeVars
<1>9. damage # "torn" => Complete(Process.hash, Process.history)
  BY <1>1, <1>3, <1>4 DEF SyncInv, TypeOK, SavedTogether, Complete, OnChain, confirmed,
     ConfirmedSince, Absent, Mempool
<1>10. (NextComplete /\ SavedTogether)'
  BY <1>1, <1>2, <1>3, <1>9 DEF SyncInv, SavedTogether, NextComplete, Complete, OnChain,
     serverVars, storeVars
<1> QED
  BY <1>6, <1>7, <1>8, <1>10 DEF SyncInv

\* A put of a transaction leaves the stored history backed, also when the poll it
\* belongs to is over; and a put that is refused ends the poll.
LEMMA StoreTxKeeps == ASSUME SyncInv, NEW t \in Tx, StoreTx(t) PROVE SyncInv'
<1> USE SyncAssumption
<1>1. /\ t \in puts /\ puts' = puts \ {t}
      /\ pc \in {"storing", "dead"} /\ pc' \in {pc, "dead"} /\ saves = {}
      /\ next.update \subseteq history.unconfirmed
      /\ UNCHANGED <<serverVars, lastHash, history, initing, asked, next, saves, list, damage>>
  BY DEF SyncInv, Phases, StoreTx
<1>2. \/ /\ txDoc' = [txDoc EXCEPT ![t] = DocOf(t)] /\ pc' = pc
         /\ t \in next.update \/ txDoc[t] = "missing"
      \/ /\ UNCHANGED txDoc /\ pc' = "dead"
  BY DEF StoreTx
<1>3. TypeOK'
  BY <1>1, <1>2 DEF SyncInv, TypeOK, DocOf, DocStates, serverVars
<1>4. (ServerOK /\ Phases /\ Disjoint(history))'
  BY <1>1 DEF SyncInv, ServerOK, Phases, Disjoint, serverVars
<1>5. Backed(history)'
  <2>1. CASE t \in next.update
    BY <1>1, <1>2, <2>1 DEF SyncInv, TypeOK, Histories, Backed, Disjoint, DocOf
  <2>2. CASE txDoc[t] = "missing"
    BY <1>1, <1>2, <2>2 DEF SyncInv, TypeOK, Histories, Backed, DocOf
  <2>3. CASE UNCHANGED txDoc
    BY <1>1, <2>3 DEF SyncInv, Backed
  <2> QED
    BY <1>2, <2>1, <2>2, <2>3
<1>6. Storing'
  BY <1>1, <1>2 DEF SyncInv, TypeOK, Histories, NextStates, Storing, Backed, Disjoint, DocOf
<1>7. (SavingSound /\ NextComplete /\ SavedTogether)'
  BY <1>1 DEF SyncInv, SavingSound, NextComplete, SavedTogether, Complete, OnChain, serverVars
<1> QED
  BY <1>3, <1>4, <1>5, <1>6, <1>7 DEF SyncInv

\* When all documents are stored, the next history may be stored, too: what it
\* lists is there, and a transaction it would list twice has stopped the poll.
LEMMA StoredAllKeeps == SyncInv /\ StoredAll => SyncInv'
<1> SUFFICES ASSUME SyncInv, StoredAll PROVE SyncInv'
  OBVIOUS
<1>1. /\ pc = "storing" /\ puts = {} /\ saves = {}
      /\ pc' = "saving" /\ saves' = {"hash", "history"}
      /\ UNCHANGED <<serverVars, storeVars, initing, asked, next, puts, list, damage>>
  BY DEF SyncInv, Phases, StoredAll
<1>2. TypeOK'
  BY <1>1 DEF SyncInv, TypeOK, serverVars, storeVars
<1>3. (ServerOK /\ Phases /\ Backed(history) /\ Disjoint(history) /\ Storing)'
  BY <1>1 DEF SyncInv, ServerOK, Phases, Backed, Disjoint, Storing, serverVars, storeVars
<1>4. Disjoint(next.history)
  <2>1. SUFFICES ASSUME NEW t \in next.history.confirmed,
                        t \in next.history.unconfirmed
                 PROVE  FALSE
    BY DEF Disjoint
  <2>2. t \in history.confirmed
    BY <1>1, <2>1 DEF SyncInv, Storing
  <2>3. t \in next.add
    BY <1>1, <2>1, <2>2 DEF SyncInv, Storing, Disjoint
  <2> QED
    BY <1>1, <2>2, <2>3 DEF SyncInv, Storing
<1>5. Backed(next.history)
  BY <1>1, <1>4 DEF SyncInv, TypeOK, Histories, NextStates, Storing, Backed, Disjoint, DocOf
<1>6. SavingSound'
  BY <1>1, <1>4, <1>5 DEF SavingSound, Backed, Disjoint, storeVars
<1>7. (NextComplete /\ SavedTogether)'
  BY <1>1 DEF SyncInv, NextComplete, SavedTogether, Complete, OnChain, serverVars, storeVars
<1> QED
  BY <1>2, <1>3, <1>6, <1>7 DEF SyncInv

\* Either of the two saves may come first: the history alone is as good as before,
\* and the hash alone is remembered as such until the history follows.
LEMMA SavesKeep == SyncInv /\ (SaveHash \/ SaveHistory) => SyncInv'
<1> USE DEF SyncInv, TypeOK, NextStates, serverVars, storeVars
<1>1. ASSUME SyncInv, SaveHash PROVE SyncInv'
  <2>1. TypeOK'
    BY <1>1 DEF SaveHash
  <2>2. (ServerOK /\ Phases /\ Backed(history) /\ Disjoint(history) /\ Storing)'
    BY <1>1 DEF SaveHash, ServerOK, Phases, Backed, Disjoint, Storing
  <2>3. (SavingSound /\ NextComplete)'
    BY <1>1 DEF SaveHash, SavingSound, Backed, Disjoint, NextComplete, Complete, OnChain
  <2>4. SavedTogether'
    BY <1>1, ZenonT(60) DEF SaveHash, Phases, NextComplete, SavedTogether, Complete, OnChain
  <2> QED
    BY <2>1, <2>2, <2>3, <2>4
<1>2. ASSUME SyncInv, SaveHistory PROVE SyncInv'
  <2>1. TypeOK'
    BY <1>2 DEF SaveHistory
  <2>2. (ServerOK /\ Phases /\ Storing)'
    BY <1>2 DEF SaveHistory, ServerOK, Phases, Storing
  <2>3. (Backed(history) /\ Disjoint(history))'
    BY <1>2 DEF SaveHistory, SavingSound, Backed, Disjoint
  <2>4. (SavingSound /\ NextComplete)'
    BY <1>2 DEF SaveHistory, SavingSound, Backed, Disjoint, NextComplete, Complete, OnChain
  <2>5. SavedTogether'
    BY <1>2 DEF SaveHistory, Phases, NextComplete, SavedTogether, Complete, OnChain
  <2> QED
    BY <2>1, <2>2, <2>3, <2>4, <2>5
<1> QED
  BY <1>1, <1>2

\* The steps that begin and end a poll, an orphaned block hash among them: whether
\* the wallet forgets everything then or, as it does, nothing.
LEMMA PollEndsKeep ==
    SyncInv /\ (PollStart \/ AnswerNoTx \/ AnswerOrphan \/ Relist \/ Load) => SyncInv'
<1> SUFFICES ASSUME SyncInv, PollStart \/ AnswerNoTx \/ AnswerOrphan \/ Relist \/ Load
             PROVE  SyncInv'
  OBVIOUS
<1>1. UNCHANGED <<serverVars, next, puts, saves, damage>> /\ puts = {} /\ saves = {}
  BY DEF SyncInv, TypeOK, Phases, PollStart, AnswerNoTx, AnswerOrphan, Relist, Load
<1>2. TypeOK /\ ServerOK
  BY DEF SyncInv
<1>3. ASSUME pc \in {"idle", "asked", "loading"}, UNCHANGED storeVars,
             pc' \in {"idle", "asked", "loading"}, pc' = "asked" => asked' = lastHash,
             TypeOK'
      PROVE  SyncInv'
  <2>1. (ServerOK /\ Phases /\ Backed(history) /\ Disjoint(history) /\ Storing)'
    BY <1>1, <1>3 DEF SyncInv, ServerOK, Phases, Backed, Disjoint, Storing, serverVars,
       storeVars
  <2>2. (SavingSound /\ NextComplete)'
    BY <1>1, <1>3 DEF SavingSound, NextComplete
  <2>3. SavedTogether'
    BY <1>1, <1>3 DEF SyncInv, SavedTogether, Complete, OnChain, serverVars, storeVars
  <2> QED
    BY <1>3, <2>1, <2>2, <2>3 DEF SyncInv
<1>4. CASE PollStart
  BY <1>2, <1>3, <1>4 DEF PollStart, TypeOK, serverVars, storeVars
<1>5. CASE AnswerNoTx
  BY <1>2, <1>3, <1>5 DEF AnswerNoTx, Over, TypeOK, serverVars, storeVars
<1>6. CASE AnswerOrphan
  <2>1. CASE UNCHANGED storeVars
    BY <1>2, <1>3, <1>6, <2>1 DEF AnswerOrphan, TypeOK, serverVars, storeVars
  <2>2. CASE lastHash' = 0 /\ history' = EmptyHistory /\ txDoc' = [t \in Tx |-> "missing"]
    <3>1. pc = "asked" /\ UNCHANGED <<pc, initing, list>> /\ asked' = 0
      BY <1>6, <2>2 DEF AnswerOrphan
    <3>2. TypeOK'
      BY <1>1, <1>2, <2>2, <3>1 DEF TypeOK, Histories, EmptyHistory, DocStates, serverVars
    <3>3. (ServerOK /\ Phases /\ Backed(history) /\ Disjoint(history) /\ Storing)'
      BY <1>1, <1>2, <2>2, <3>1
      DEF ServerOK, Phases, Backed, Disjoint, Storing, EmptyHistory, serverVars, SyncInv
    <3>4. (SavingSound /\ NextComplete /\ SavedTogether)'
      BY <1>1, <2>2, <3>1 DEF SavingSound, NextComplete, SavedTogether, Complete
    <3> QED
      BY <3>2, <3>3, <3>4 DEF SyncInv
  <2> QED
    BY <1>6, <2>1, <2>2 DEF AnswerOrphan
<1>7. CASE Load
  <2>1. Listed(history) \in [Tx -> DocStates]
    BY <1>2 DEF TypeOK, Listed, DocStates
  <2> QED
    BY <1>2, <1>3, <1>7, <2>1 DEF Load, TypeOK, serverVars, storeVars
<1>8. CASE Relist
  <2>1. Listed(next.history) \in [Tx -> DocStates]
    BY <1>2 DEF TypeOK, Listed, DocStates
  <2>2. /\ pc = "saving" /\ pc' \in {"idle", "loading"}
        /\ UNCHANGED <<storeVars, initing, asked>> /\ list' = Listed(next.history)
    BY <1>8 DEF Relist, Over
  <2>3. TypeOK'
    BY <1>1, <1>2, <2>1, <2>2 DEF TypeOK, serverVars, storeVars
  <2>4. (ServerOK /\ Phases /\ Backed(history) /\ Disjoint(history) /\ Storing)'
    BY <1>1, <2>2 DEF SyncInv, ServerOK, Phases, Backed, Disjoint, Storing, serverVars,
       storeVars
  <2>5. (SavingSound /\ NextComplete /\ SavedTogether)'
    BY <1>1, <2>2 DEF SyncInv, SavingSound, NextComplete, SavedTogether, Complete, OnChain,
       serverVars, storeVars
  <2> QED
    BY <2>3, <2>4, <2>5 DEF SyncInv
<1> QED
  BY <1>4, <1>5, <1>6, <1>7, <1>8

\* A failure ends the poll.  The put()s that are out go on, and a save of the
\* history that fails leaves its mark.
LEMMA FailuresKeep == SyncInv /\ (Fails \/ PutFails) => SyncInv'
<1> SUFFICES ASSUME SyncInv, Fails \/ PutFails PROVE SyncInv'
  OBVIOUS
<1>1. /\ pc' = "dead" /\ UNCHANGED <<serverVars, storeVars, initing, asked, next, list>>
      /\ saves' \subseteq saves /\ puts' \subseteq puts
      /\ damage' \in {"none", "fault", "torn"} /\ (damage = "torn" => damage' = "torn")
  BY DEF Fails, PutFails, Fault
<1>2. TypeOK'
  BY <1>1 DEF SyncInv, TypeOK, serverVars, storeVars
<1>3. (ServerOK /\ Phases /\ Backed(history) /\ Disjoint(history) /\ Storing)'
  BY <1>1 DEF SyncInv, ServerOK, Phases, Backed, Disjoint, Storing, serverVars, storeVars
<1>4. (SavingSound /\ NextComplete)'
  BY <1>1 DEF SyncInv, SavingSound, Backed, Disjoint, NextComplete, Complete, OnChain,
     serverVars, storeVars
<1>5. SavedTogether'
  BY <1>1 DEF SyncInv, TypeOK, Phases, SavedTogether, NextComplete, Complete, OnChain, Fails,
     PutFails, Fault, serverVars, storeVars
<1> QED
  BY <1>2, <1>3, <1>4, <1>5 DEF SyncInv

\* The app may be killed at any moment: what is stored is sound without the rest.
LEMMA RestartKeeps == SyncInv /\ Restart => SyncInv'
<1> SUFFICES ASSUME SyncInv, Restart PROVE SyncInv'
  OBVIOUS
<1>1. /\ pc' = "idle" /\ initing' = TRUE
      /\ asked' = 0 /\ next' = NothingNext /\ puts' = {} /\ saves' = {}
      /\ list' = [t \in Tx |-> "missing"]
      /\ UNCHANGED <<serverVars, storeVars>>
  BY DEF Restart
<1>2. /\ damage' \in {"none", "fault", "torn"}
      /\ damage' # "torn" =>
           damage # "torn" /\ ~(pc = "saving" /\ saves = {"history"})
  BY DEF SyncInv, TypeOK, Restart, Fault
<1>3. TypeOK'
  BY <1>1, <1>2, SyncAssumption
  DEF SyncInv, TypeOK, NextStates, Histories, NothingNext, EmptyHistory, DocStates, serverVars,
      storeVars
<1>4. (ServerOK /\ Phases /\ Backed(history) /\ Disjoint(history) /\ Storing)'
  BY <1>1 DEF SyncInv, ServerOK, Phases, Backed, Disjoint, Storing, NothingNext, EmptyHistory,
     serverVars, storeVars
<1>5. (SavingSound /\ NextComplete /\ SavedTogether)'
  BY <1>1, <1>2 DEF SyncInv, SavingSound, NextComplete, SavedTogether, Complete, OnChain,
     serverVars, storeVars
<1> QED
  BY <1>3, <1>4, <1>5 DEF SyncInv

\* The inductive invariant holds in every reachable state.
LEMMA Invariance == Spec => []SyncInv
<1>1. ASSUME SyncInv, UNCHANGED vars PROVE SyncInv'
  BY <1>1 DEF SyncInv, TypeOK, ServerOK, Phases, Backed, Disjoint, Storing, SavingSound,
     NextComplete, SavedTogether, Complete, OnChain, DocOf, vars, serverVars, storeVars, pollVars
<1>2. SyncInv /\ [Next]_vars => SyncInv'
  BY <1>1, NetworkKeeps, AnswerDataKeeps, StoreTxKeeps, StoredAllKeeps, SavesKeep,
     PollEndsKeep, FailuresKeep, RestartKeeps DEF Next, PollStep
<1> QED
  BY <1>2, InitInv, PTL DEF Spec

-----------------------------------------------------------------------------
\* Whenever the app is killed and whatever fails, every entry of the stored history
\* has its document, and none is there twice.
THEOREM HistoryIsSound == Spec => []HistorySound
<1>1. SyncInv => HistorySound
  BY DEF SyncInv, HistorySound, HistoryBackedByDocs, HistoryDisjoint, Backed, Disjoint
<1> QED
  BY <1>1, Invariance, PTL

\* A transaction below the stored block hash is missing in the stored history only
\* when the hash was saved and the history that goes with it was not.
THEOREM NothingElseMissed == Spec => []MissedOnlyIfTorn
<1>1. SyncInv => MissedOnlyIfTorn
  BY DEF SyncInv, SavedTogether, Complete, MissedOnlyIfTorn, HistoryComplete
<1> QED
  BY <1>1, Invariance, PTL
=============================================================================
