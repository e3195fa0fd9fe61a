-------------------------- MODULE RecoveryToolProofs --------------------------
(***************************************************************************)
(* Proofs about RecoveryTool and the sweeper it drives, for any keys,      *)
(* addresses, ledgers, batches and numbers of failures: no two of the      *)
(* tool's operations are under way at once, a transaction that is cosigned *)
(* spends what the sweeper holds as found, a discovery finds the coins in  *)
(* reach, and one with larger batches finds no less.                       *)
(***************************************************************************)
EXTENDS RecoveryTool, FiniteSetTheorems, WellFoundedInduction, TLAPS

Discoveries ==
    [state : {"idle", "has", "utxos", "apply"}, at : Nat, i : Nat, increment : Nat \ {0},
     chunk : Nat, got : SUBSET Addresses, found : SUBSET Addresses,
     count : Nat, balance : Nat, since : Nat,
     failed : SUBSET Branches, cut : SUBSET Addresses]
Sweeps ==
    [state : {"idle", "discover", "fee", "create", "resolved", "rejected"},
     tx : Transactions \cup {None}]

\* The types, but for the bound of version; a discovery walks the branches there are.
Types ==
    /\ setup \in Setups
    /\ used \subseteq Addresses /\ coins \subseteq used
    /\ version \in Nat /\ faults \in 0..MaxFaults
    /\ discovery \in Discoveries /\ discovery.at < NKeys * NChains
    /\ sweepData \in Findings \cup {None}
    /\ sweep \in Sweeps
    /\ working \in BOOLEAN /\ foundFunds \in BOOLEAN /\ recoveryComplete \in BOOLEAN
    /\ batchSize \in Nat \ {0}
    /\ retries \in [clicked : 0..2, doubled : 0..2]
    /\ retries.clicked + retries.doubled <= 2
    /\ signedTransaction \in Transactions \cup {None}

\* Which operation the sweeper works for.
OneOperation ==
    /\ working <=> op # {}
    /\ op = {} \/ \E o \in Ops : op = {o}
    /\ discovery.state # "idle" => op \in {{"discovering"}, {"recovering"}}

\* How far the sweep is: it has data once its discovery is over, and what it has
\* made spends these data as long as they are not found anew.
SweepGoesOn ==
    /\ op = {"recovering"} =>
         /\ sweep.state # "idle"
         /\ discovery.state # "idle" => sweep.state = "discover"
         /\ sweep.state = "discover" /\ discovery.state = "idle" => sweepData # None
    /\ sweep.state \in {"fee", "create", "resolved"} => sweepData # None
    /\ sweep.state = "resolved" => sweep.tx # None /\ sweep.tx.inputs = sweepData.utxos
    /\ op = {"cosigning"} => sweep.state = "resolved"
    /\ op \notin {{"recovering"}, {"cosigning"}} => sweep.state \in {"idle", "rejected"}

\* One transaction is signed in a session, and none with release 3.6.7.
SignedOnce ==
    /\ op \in {{"recovering"}, {"cosigning"}} => signedTransaction = None
    /\ op = {"sending"} => signedTransaction # None
    /\ ~Tool => signedTransaction = None /\ sweep.state # "resolved"

\* What has been found has been used, and a sweep has something to sweep.
FoundOnNetwork ==
    /\ discovery.got \subseteq used /\ discovery.found \subseteq used
    /\ discovery.found = {} => discovery.balance = 0
    /\ sweepData # None =>
         /\ sweepData.utxos \subseteq used
         /\ sweepData.utxos = {} => sweepData.balance = 0
    /\ sweep.state = "create" => sweepData.balance # 0
    /\ sweep.tx # None => sweep.tx.inputs \subseteq used /\ sweep.tx.inputs # {}
    /\ signedTransaction # None =>
         signedTransaction.inputs \subseteq used /\ signedTransaction.inputs # {}

\* The network changes by a fault each time, but for the one transaction the tool
\* sends: sent again, it is refused.
SentOnce ==
    \/ version <= faults
    \/ /\ version <= faults + 1 /\ signedTransaction # None
       /\ signedTransaction.inputs \cap coins = {}

ToolInv == Types /\ OneOperation /\ SweepGoesOn /\ SignedOnce /\ FoundOnNetwork /\ SentOnce

-----------------------------------------------------------------------------
\* There are finitely many addresses, so that those found can be counted.
LEMMA AddressesFinite == IsFiniteSet(Addresses)
<1> DEFINE Rows == (1..NKeys) \X (0..2)
           Cells == Rows \X (0..(NIndexes - 1))
           f == [a \in Addresses |-> <<<<a.key, a.chain>>, a.index>>]
<1>1. IsFiniteSet(1..NKeys) /\ IsFiniteSet(0..2) /\ IsFiniteSet(0..(NIndexes - 1))
  <2>1. 1 \in Int /\ NKeys \in Int /\ 0 \in Int /\ 2 \in Int /\ NIndexes - 1 \in Int
    BY SweeperAssumption
  <2> QED
    BY <2>1, FS_Interval
<1>2. IsFiniteSet(Rows)
  BY <1>1, FS_Product
<1>3. IsFiniteSet(Cells)
  BY <1>1, <1>2, FS_Product
<1>4. f \in Injection(Addresses, Cells)
  <2>1. f \in [Addresses -> Cells]
    BY DEF Addresses
  <2>2. ASSUME NEW a \in Addresses, NEW b \in Addresses, f[a] = f[b] PROVE a = b
    <3>1. a.key = b.key /\ a.chain = b.chain /\ a.index = b.index
      BY <2>2
    <3>2. /\ a = [key |-> a.key, chain |-> a.chain, index |-> a.index]
          /\ b = [key |-> b.key, chain |-> b.chain, index |-> b.index]
      BY DEF Addresses
    <3> QED
      BY <3>1, <3>2
  <2> QED
    BY <2>1, <2>2 DEF Injection, IsInjective
<1> QED
  BY <1>3, <1>4, FS_Injection

\* Induction over finite sets, as a least counterexample: among sets of addresses one
\* is smallest.
LEMMA LeastSet ==
    ASSUME NEW T, T \subseteq SUBSET Addresses, T # {}
    PROVE  \E s \in T : \A t \in T : t \subseteq s => t = s
<1>1. T \subseteq FiniteSubsetsOf(Addresses)
  BY AddressesFinite, FS_Subset DEF FiniteSubsetsOf
<1>2. PICK s \in T : \A t \in T : ~(<<t, s>> \in StrictSubsetOrdering(Addresses))
  BY <1>1, WFMin, FS_StrictSubsetOrderingWellFounded
<1>3. ASSUME NEW t \in T, t \subseteq s PROVE t = s
  <2>1. t \in SUBSET Addresses /\ s \in SUBSET Addresses
    OBVIOUS
  <2>2. t # s => <<t, s>> \in StrictSubsetOrdering(Addresses)
    BY <1>3, <2>1 DEF StrictSubsetOrdering
  <2> QED
    BY <1>2, <2>2
<1> QED
  BY <1>3

First(s) == CHOOSE x \in s : TRUE
Adds(S, g) ==
    g = [s \in SUBSET S |-> IF s = {} THEN 0 ELSE Value(First(s)) + g[s \ {First(s)}]]
Sums(S) == CHOOSE g : Adds(S, g)

\* Total adds up as its definition in the library does: by one value at a time, of an
\* element chosen from the set.
LEMMA Unfold == ASSUME NEW S PROVE Total(S) = Sums(S)[S]
BY DEF Total, MapThenSumSet, MapThenFoldSet, Sums, Adds, First

\* The element chosen is one of the set.
LEMMA FirstIn == ASSUME NEW S, S # {} PROVE First(S) \in S
BY DEF First

\* There is one such function of sums only.
LEMMA AddsOnce ==
    ASSUME NEW S \in SUBSET Addresses, NEW g, NEW h, Adds(S, g), Adds(S, h)
    PROVE  g = h
<1> DEFINE T == {s \in SUBSET S : g[s] # h[s]}
<1>1. CASE T = {}
  BY <1>1 DEF Adds
<1>2. CASE T # {}
  <2>1. PICK s \in T : \A t \in T : t \subseteq s => t = s
    <3>1. T \subseteq SUBSET Addresses
      OBVIOUS
    <3> HIDE DEF T
    <3> QED
      BY <1>2, <3>1, LeastSet
  <2>2. s # {}
    BY <2>1 DEF Adds
  <2>3. First(s) \in s
    BY <2>2, FirstIn
  <2>4. g[s \ {First(s)}] = h[s \ {First(s)}]
    BY <2>1, <2>3
  <2>5. /\ g[s] = Value(First(s)) + g[s \ {First(s)}]
        /\ h[s] = Value(First(s)) + h[s \ {First(s)}]
    BY <2>1, <2>2 DEF Adds
  <2> QED
    BY <2>1, <2>4, <2>5
<1> QED
  BY <1>1, <1>2

Cut(g, R) == [s \in SUBSET R |-> g[s]]
\* The sums over subsets are those of a smaller set of addresses.
LEMMA AddsRestricted ==
    ASSUME NEW S \in SUBSET Addresses, NEW R \in SUBSET S, NEW g, Adds(S, g)
    PROVE  Adds(R, Cut(g, R))
<1> DEFINE h == Cut(g, R)
<1> USE DEF Cut
<1>1. ASSUME NEW s \in SUBSET R
      PROVE  h[s] = IF s = {} THEN 0 ELSE Value(First(s)) + h[s \ {First(s)}]
  BY DEF Adds
<1>2. h = [s \in SUBSET R |-> h[s]]
  OBVIOUS
<1> HIDE DEF h
<1>3. Adds(R, h)
  BY <1>1, <1>2 DEF Adds
<1> QED
  BY <1>3 DEF h

\* And there is one: the sums of a set exist when those of all smaller sets do.
LEMMA AddsExists == ASSUME NEW S \in SUBSET Addresses PROVE Adds(S, Sums(S))
<1> DEFINE T == {s \in SUBSET Addresses : ~Adds(s, Sums(s))}
<1>1. CASE T = {}
  BY <1>1
<1>2. CASE T # {}
  <2>1. PICK s \in T : \A t \in T : t \subseteq s => t = s
    <3>1. T \subseteq SUBSET Addresses
      OBVIOUS
    <3> HIDE DEF T
    <3> QED
      BY <1>2, <3>1, LeastSet
  <2>2. \A t \in SUBSET s : t # s => Adds(t, Sums(t))
    BY <2>1
  <2> DEFINE Rest(u) == u \ {First(u)}
             g == [u \in SUBSET s |-> IF u = {} THEN 0 ELSE Value(First(u)) + Sums(Rest(u))[Rest(u)]]
  <2>3. ASSUME NEW v \in SUBSET s, v # s PROVE g[v] = Sums(v)[v]
    <3>1. Adds(v, Sums(v))
      BY <2>2, <2>3
    <3>2. CASE v = {}
      BY <3>1, <3>2 DEF Adds
    <3>3. CASE v # {}
      <4>1. Rest(v) \in SUBSET v /\ Rest(v) # s /\ Rest(v) \in SUBSET s
        BY <2>3
      <4>2. Sums(v)[v] = Value(First(v)) + Sums(v)[Rest(v)]
        BY <3>1, <3>3 DEF Adds
      <4>3. Adds(Rest(v), Cut(Sums(v), Rest(v)))
        <5> HIDE DEF Rest
        <5> QED
          BY <3>1, <4>1, AddsRestricted
      <4>4. Adds(Rest(v), Sums(Rest(v)))
        BY <2>2, <4>1
      <4>5. Sums(Rest(v)) = Cut(Sums(v), Rest(v))
        BY <4>1, <4>3, <4>4, AddsOnce
      <4>6. Sums(Rest(v))[Rest(v)] = Sums(v)[Rest(v)]
        BY <4>5 DEF Cut
      <4> QED
        BY <3>3, <4>2, <4>6
    <3> QED
      BY <3>2, <3>3
  <2>4. \A u \in SUBSET s : g[u] = IF u = {} THEN 0 ELSE Value(First(u)) + g[Rest(u)]
    <3>1. ASSUME NEW u \in SUBSET s, u # {} PROVE g[Rest(u)] = Sums(Rest(u))[Rest(u)]
      BY <2>3, <3>1, FirstIn
    <3> QED
      BY <3>1
  <2>5. g = [u \in SUBSET s |-> g[u]]
    OBVIOUS
  <2> HIDE DEF g
  <2>6. Adds(s, g)
    BY <2>4, <2>5 DEF Adds
  <2> QED
    BY <2>1, <2>6 DEF Sums
<1> QED
  BY <1>1, <1>2

\* The recursion a total obeys.
LEMMA TotalSteps ==
    /\ Total({}) = 0
    /\ \A S \in SUBSET Addresses :
         S # {} => Total(S) = Value(First(S)) + Total(S \ {First(S)})
<1>1. ASSUME NEW S \in SUBSET Addresses PROVE Adds(S, Sums(S)) /\ Total(S) = Sums(S)[S]
  BY AddsExists, Unfold
<1>2. Total({}) = 0
  BY <1>1 DEF Adds
<1>3. ASSUME NEW S \in SUBSET Addresses, S # {}
      PROVE  Total(S) = Value(First(S)) + Total(S \ {First(S)})
  <2> DEFINE R == S \ {First(S)}
  <2>1. R \in SUBSET S
    OBVIOUS
  <2>2. Sums(S)[S] = Value(First(S)) + Sums(S)[R]
    BY <1>1, <1>3 DEF Adds
  <2> HIDE DEF R
  <2>3. Adds(R, Cut(Sums(S), R)) /\ Adds(R, Sums(R))
    BY <1>1, <2>1, AddsRestricted
  <2>4. Sums(R) = Cut(Sums(S), R)
    BY <2>1, <2>3, AddsOnce
  <2>5. Sums(R)[R] = Sums(S)[R]
    BY <2>4 DEF Cut
  <2>6. Total(S) = Value(First(S)) + Total(R)
    BY <1>1, <2>1, <2>2, <2>5
  <2> QED
    BY <2>6 DEF R
<1> QED
  BY <1>2, <1>3

\* A coin has a value.
LEMMA ValueNat == ASSUME NEW a \in Addresses PROVE Value(a) \in Nat
BY SweeperAssumption DEF Addresses, Value

\* A total is a number.
LEMMA TotalNat == ASSUME NEW S \in SUBSET Addresses PROVE Total(S) \in Nat
<1> DEFINE T == {s \in SUBSET Addresses : Total(s) \notin Nat}
<1>1. CASE T = {}
  BY <1>1
<1>2. CASE T # {}
  <2>1. PICK s \in T : \A t \in T : t \subseteq s => t = s
    <3>1. T \subseteq SUBSET Addresses
      OBVIOUS
    <3> HIDE DEF T
    <3> QED
      BY <1>2, <3>1, LeastSet
  <2>2. s # {} /\ First(s) \in s
    <3>1. Total(s) # Total({})
      BY <2>1, TotalSteps
    <3> QED
      BY <3>1, FirstIn
  <2>3. Total(s \ {First(s)}) \in Nat
    BY <2>1, <2>2
  <2>4. Total(s) = Value(First(s)) + Total(s \ {First(s)}) /\ Value(First(s)) \in Nat
    BY <2>1, <2>2, TotalSteps, ValueNat
  <2> QED
    BY <2>1, <2>3, <2>4
<1> QED
  BY <1>1, <1>2

\* Whichever address is taken first, the total is the same.
LEMMA TotalAny ==
    ASSUME NEW S \in SUBSET Addresses, NEW a \in S
    PROVE  Total(S) = Value(a) + Total(S \ {a})
<1> DEFINE Even(s) == \A x \in s : Total(s) = Value(x) + Total(s \ {x})
           T == {s \in SUBSET Addresses : ~Even(s)}
<1>1. CASE T = {}
  <2>1. Even(S)
    BY <1>1
  <2> QED
    BY <2>1
<1>2. CASE T # {}
  <2>1. PICK s \in T : \A t \in T : t \subseteq s => t = s
    <3>1. T \subseteq SUBSET Addresses
      OBVIOUS
    <3> HIDE DEF T
    <3> QED
      BY <1>2, <3>1, LeastSet
  <2>2. PICK x \in s : Total(s) # Value(x) + Total(s \ {x})
    BY <2>1
  <2> DEFINE y == First(s)
  <2>3. y \in s /\ Total(s) = Value(y) + Total(s \ {y})
    BY <2>1, <2>2, TotalSteps, FirstIn
  <2> HIDE DEF y
  <2>4. x # y
    BY <2>2, <2>3
  <2>5. /\ Total(s \ {y}) = Value(x) + Total((s \ {y}) \ {x})
        /\ Total(s \ {x}) = Value(y) + Total((s \ {x}) \ {y})
    <3>1. s \ {y} \notin T /\ s \ {x} \notin T
      BY <2>1, <2>2, <2>3
    <3>2. s \ {y} \in SUBSET Addresses /\ s \ {x} \in SUBSET Addresses
      BY <2>1
    <3>3. x \in s \ {y} /\ y \in s \ {x}
      BY <2>2, <2>3, <2>4
    <3> QED
      BY <3>1, <3>2, <3>3
  <2>6. (s \ {y}) \ {x} = (s \ {x}) \ {y}
    OBVIOUS
  <2>7. /\ Value(x) \in Nat /\ Value(y) \in Nat /\ Total((s \ {x}) \ {y}) \in Nat
    BY <2>1, <2>2, <2>3, ValueNat, TotalNat
  <2>8. ASSUME NEW m \in Nat, NEW n \in Nat, NEW r \in Nat PROVE n + (m + r) = m + (n + r)
    OBVIOUS
  <2>9. /\ Total(s) = Value(y) + (Value(x) + Total((s \ {x}) \ {y}))
        /\ Value(x) + Total(s \ {x}) = Value(x) + (Value(y) + Total((s \ {x}) \ {y}))
    <3> HIDE DEF T
    <3> QED
      BY <2>3, <2>5, <2>6, Zenon
  <2>10. Total(s) = Value(x) + Total(s \ {x})
    BY <2>7, <2>8, <2>9
  <2> QED
    BY <2>2, <2>10
<1> QED
  BY <1>1, <1>2

\* Two sets without an address in common are added up as one.
LEMMA TotalUnion ==
    ASSUME NEW A \in SUBSET Addresses, NEW B \in SUBSET Addresses, A \cap B = {}
    PROVE  Total(A \cup B) = Total(A) + Total(B)
<1> DEFINE T == {s \in SUBSET (Addresses \ B) : Total(s \cup B) # Total(s) + Total(B)}
<1>1. CASE T = {}
  BY <1>1
<1>2. CASE T # {}
  <2>1. PICK s \in T : \A t \in T : t \subseteq s => t = s
    <3>1. T \subseteq SUBSET Addresses
      OBVIOUS
    <3> HIDE DEF T
    <3> QED
      BY <1>2, <3>1, LeastSet
  <2>2. s # {}
    <3>1. {} \cup B = B
      OBVIOUS
    <3>2. Total(B) = Total({}) + Total(B)
      BY TotalNat, TotalSteps
    <3> QED
      BY <2>1, <3>1, <3>2
  <2>3. PICK x \in s : TRUE
    BY <2>2
  <2>4. s \ {x} \notin T /\ s \ {x} \in SUBSET (Addresses \ B)
    BY <2>1, <2>3
  <2>5. Total((s \ {x}) \cup B) = Total(s \ {x}) + Total(B)
    BY <2>4
  <2>6. Total(s) = Value(x) + Total(s \ {x})
    BY <2>1, TotalAny
  <2>7. Total(s \cup B) = Value(x) + Total((s \ {x}) \cup B)
    <3>1. s \cup B \in SUBSET Addresses /\ x \in s \cup B /\ (s \cup B) \ {x} = (s \ {x}) \cup B
      BY <2>1, <2>3
    <3> QED
      BY <3>1, TotalAny
  <2>8. Value(x) \in Nat /\ Total(s \ {x}) \in Nat /\ Total(B) \in Nat
    BY <2>1, <2>3, <2>4, ValueNat, TotalNat
  <2> QED
    BY <2>1, <2>5, <2>6, <2>7, <2>8
<1> QED
  BY <1>1, <1>2

\* What is found can be counted.
LEMMA CountNat ==
    ASSUME NEW s \in SUBSET Addresses
    PROVE  IsFiniteSet(s) /\ Cardinality(s) \in Nat
BY AddressesFinite, FS_Subset, FS_CardinalityType

\* The walk passes real branches only.
LEMMA BranchFacts ==
    ASSUME NEW n \in Nat, n < NKeys * NChains
    PROVE  Branch(n) \in Branches
<1>1. CASE NChains = 2
  <2>1. n \div 2 \in Nat /\ n \div 2 < NKeys /\ n % 2 \in 0..1
    BY <1>1, SweeperAssumption
  <2> QED
    BY <1>1, <2>1, SweeperAssumption DEF Branch, Branches
<1>2. CASE NChains = 3
  <2>1. n \div 3 \in Nat /\ n \div 3 < NKeys /\ n % 3 \in 0..2
    BY <1>2, SweeperAssumption
  <2> QED
    BY <1>2, <2>1, SweeperAssumption DEF Branch, Branches
<1> QED
  BY <1>1, <1>2 DEF NChains

\* The first branch is one to walk.
LEMMA FirstBranch == 0 < NKeys * NChains
<1>1. NKeys \in Nat /\ NKeys > 0 /\ (NChains = 2 \/ NChains = 3)
  BY SweeperAssumption DEF NChains
<1> QED
  BY <1>1

-----------------------------------------------------------------------------
\* The inductive invariant holds when the page is opened.
LEMMA InitInv == Init => ToolInv
<1> SUFFICES ASSUME Init PROVE ToolInv
  OBVIOUS
<1> USE DEF Init, SweeperInit, NoDiscovery, NoSweep
<1>1. Types
  <2>1. discovery \in Discoveries /\ sweep \in Sweeps
    BY DEF Discoveries, Sweeps
  <2>2. discovery.at < NKeys * NChains
    BY FirstBranch
  <2>3. used \subseteq Addresses /\ coins \subseteq used
    BY SweeperAssumption
  <2>4. retries \in [clicked : 0..2, doubled : 0..2] /\ retries.clicked + retries.doubled <= 2
    OBVIOUS
  <2>5. version \in Nat /\ faults \in 0..MaxFaults /\ batchSize \in Nat \ {0}
    BY SweeperAssumption, ToolAssumption
  <2> QED
    BY <2>1, <2>2, <2>3, <2>4, <2>5 DEF Types
<1>2. OneOperation /\ SweepGoesOn /\ SignedOnce /\ FoundOnNetwork /\ SentOnce
  BY DEF OneOperation, SweepGoesOn, SignedOnce, FoundOnNetwork, SentOnce
<1> QED
  BY <1>1, <1>2 DEF ToolInv
-----------------------------------------------------------------------------
\* What a discovery under way has, and how a step of it ends: it goes on, or it
\* is over and the sweeper holds what was found.
Sound(d) ==
    /\ d \in Discoveries /\ d.at < NKeys * NChains
    /\ d.got \subseteq used /\ d.found \subseteq used
    /\ d.found = {} => d.balance = 0
GoesOn == Sound(discovery') /\ discovery'.state # "idle" /\ UNCHANGED sweepData
IsOver ==
    /\ discovery' = NoDiscovery
    /\ sweepData' \in Findings /\ sweepData'.utxos \subseteq used
    /\ sweepData'.utxos = {} => sweepData'.balance = 0

\* The next chain, or the end.
LEMMA ChainDoneFacts == ASSUME NEW d, Sound(d), ChainDone(d) PROVE GoesOn \/ IsOver
<1>1. CASE d.at + 1 < NKeys * NChains
  <2>1. /\ discovery' = [d EXCEPT !.state = "has", !.at = d.at + 1, !.i = 0]
        /\ UNCHANGED sweepData
    BY <1>1 DEF ChainDone
  <2>2. discovery' \in Discoveries /\ discovery'.state = "has" /\ discovery'.at = d.at + 1
    <3>1. d \in Discoveries
      BY DEF Sound
    <3>2. d.at + 1 \in Nat
      BY <3>1 DEF Discoveries
    <3>3. ASSUME NEW n \in Nat
          PROVE  [d EXCEPT !.state = "has", !.at = n, !.i = 0] \in Discoveries
      BY <3>1 DEF Discoveries
    <3>4. discovery' \in Discoveries
      BY <2>1, <3>2, <3>3
    <3> QED
      BY <2>1, <3>1, <3>2, <3>4 DEF Discoveries
  <2>3. /\ discovery'.got = d.got /\ discovery'.found = d.found
        /\ discovery'.balance = d.balance
    BY <2>1 DEF Sound, Discoveries
  <2> QED
    BY <1>1, <2>1, <2>2, <2>3 DEF GoesOn, Sound
<1>2. CASE ~(d.at + 1 < NKeys * NChains)
  <2>1. /\ discovery' = NoDiscovery
        /\ sweepData' = [utxos |-> d.found, count |-> d.count, balance |-> d.balance]
    BY <1>2 DEF ChainDone
  <2> QED
    BY <2>1 DEF IsOver, Sound, Discoveries, Findings
<1> QED
  BY <1>1, <1>2

\* The next chunk of a batch, with what has come of this one.
LEMMA NextChunkFacts ==
    ASSUME NEW d, Sound(d), d.state = "utxos"
    PROVE  Sound(NextChunk(d)) /\ NextChunk(d).state # "idle"
<1>1. CASE d.chunk + ChunkSize < d.increment
  BY <1>1, SweeperAssumption DEF NextChunk, Sound, Discoveries
<1>2. CASE ~(d.chunk + ChunkSize < d.increment)
  BY <1>2 DEF NextChunk, Sound, Discoveries
<1> QED
  BY <1>1, <1>2

\* A page of an answer has some of the coins of its chunk.
LEMMA AnswerFacts ==
    ASSUME Types, NEW page \in Answers(Chunk \cap coins)
    PROVE  page \subseteq coins
BY DEF Answers, Pages

\* A step of the discovery concerns nothing else, but for the count of failures.
LEMMA DiscoverFacts ==
    ASSUME Types, FoundOnNetwork, Discover
    PROVE  /\ discovery.state # "idle"
           /\ GoesOn \/ IsOver
           /\ UNCHANGED <<setup, network, sweep>>
           /\ faults' \in 0..MaxFaults /\ faults <= faults'
<1>1. Sound(discovery)
  BY DEF Types, FoundOnNetwork, Sound
<1>2. Here \in Branches
  BY <1>1, BranchFacts DEF Here, Sound, Discoveries
<1>3. Sound([discovery EXCEPT !.failed = discovery.failed \cup {Here}])
  BY <1>1, <1>2 DEF Sound, Discoveries
<1>4. faults \in 0..MaxFaults /\ MaxFaults \in Nat
  BY SweeperAssumption DEF Types
<1>5. CASE HasTransactions
  <2>1. /\ discovery.state = "has" /\ UNCHANGED <<setup, network, sweep, faults>>
        /\ \/ /\ discovery' = [discovery EXCEPT !.state = "utxos", !.chunk = 0, !.got = {}]
              /\ UNCHANGED sweepData
           \/ ChainDone(discovery)
    BY <1>5 DEF HasTransactions
  <2>2. CASE discovery' = [discovery EXCEPT !.state = "utxos", !.chunk = 0, !.got = {}]
             /\ UNCHANGED sweepData
    <3>1. discovery \in Discoveries
      BY <1>1 DEF Sound
    <3>2. discovery' \in Discoveries /\ discovery'.state = "utxos" /\ discovery'.at = discovery.at
      <4>1. ASSUME NEW s \in SUBSET Addresses
            PROVE  [discovery EXCEPT !.state = "utxos", !.chunk = 0, !.got = s] \in Discoveries
        BY <3>1 DEF Discoveries
      <4>2. discovery' \in Discoveries
        BY <2>2, <4>1
      <4> QED
        BY <2>2, <3>1, <4>2 DEF Discoveries
    <3>3. /\ discovery'.got = {} /\ discovery'.found = discovery.found
          /\ discovery'.balance = discovery.balance
      BY <2>2, <3>1 DEF Discoveries
    <3>4. Sound(discovery')
      BY <1>1, <3>2, <3>3 DEF Sound
    <3> QED
      BY <1>4, <2>1, <2>2, <3>2, <3>4 DEF GoesOn
  <2> QED
    BY <1>1, <1>4, <2>1, <2>2, ChainDoneFacts
<1>6. CASE HasTransactionsFails
  <2>1. /\ discovery.state = "has" /\ UNCHANGED <<setup, network, sweep>>
        /\ ChainDone([discovery EXCEPT !.failed = discovery.failed \cup {Here}])
        /\ faults < MaxFaults /\ faults' = faults + 1
    BY <1>6 DEF HasTransactionsFails, Fault
  <2>2. GoesOn \/ IsOver
    BY <1>3, <2>1, ChainDoneFacts
  <2> QED
    BY <1>4, <2>1, <2>2
<1>7. CASE GetUTXOs
  <2>1. PICK page \in Answers(Chunk \cap coins) :
          discovery' = NextChunk([discovery EXCEPT
            !.got = discovery.got \cup page,
            !.cut = discovery.cut \cup ((Chunk \cap coins) \ page)])
    BY <1>7 DEF GetUTXOs
  <2>2. /\ discovery.state = "utxos" /\ UNCHANGED <<setup, network, sweep, sweepData, faults>>
    BY <1>7 DEF GetUTXOs
  <2> DEFINE d == [discovery EXCEPT
            !.got = discovery.got \cup page,
            !.cut = discovery.cut \cup ((Chunk \cap coins) \ page)]
  <2>3. page \subseteq used /\ page \subseteq Addresses
    BY AnswerFacts DEF Types
  <2>4. Sound(d) /\ d.state = "utxos"
    <3>1. (Chunk \cap coins) \ page \subseteq Addresses
      BY DEF Types
    <3> QED
      BY <1>1, <2>2, <2>3, <3>1 DEF Sound, Discoveries
  <2>5. Sound(discovery') /\ discovery'.state # "idle"
    BY <2>1, <2>4, NextChunkFacts
  <2> QED
    BY <1>4, <2>2, <2>5 DEF GoesOn
<1>8. CASE GetUTXOsFails
  <2> DEFINE d == [discovery EXCEPT !.failed = discovery.failed \cup {Here}]
  <2>1. /\ discovery.state = "utxos" /\ UNCHANGED <<setup, network, sweep, sweepData>>
        /\ discovery' = NextChunk(d) \/ discovery' = [d EXCEPT !.state = "apply"]
        /\ faults < MaxFaults /\ faults' = faults + 1
    BY <1>8 DEF GetUTXOsFails, Fault
  <2>2. Sound(d) /\ d.state = "utxos"
    BY <1>1, <1>3, <2>1 DEF Sound, Discoveries
  <2>3. Sound([d EXCEPT !.state = "apply"]) /\ [d EXCEPT !.state = "apply"].state = "apply"
    BY <1>1, <2>2 DEF Sound, Discoveries
  <2>4. Sound(discovery') /\ discovery'.state # "idle"
    BY <2>1, <2>2, <2>3, NextChunkFacts
  <2> QED
    BY <1>4, <2>1, <2>4 DEF GoesOn
<1>9. CASE AddUTXOs
  <2>1. /\ discovery.state = "apply"
        /\ discovery' = [discovery EXCEPT
             !.state = "has", !.i = discovery.i + discovery.increment, !.got = {}, !.chunk = 0,
             !.found = discovery.found \cup discovery.got,
             !.count = discovery.count + Cardinality(discovery.got),
             !.balance = discovery.balance + Total(discovery.got)]
        /\ UNCHANGED <<setup, network, sweepData, sweep, searched, faults>>
    BY <1>9 DEF AddUTXOs
  <2>2. Cardinality(discovery.got) \in Nat /\ Total(discovery.got) \in Nat
    BY <1>1, TotalNat, CountNat DEF Sound, Discoveries
  <2>3. discovery' \in Discoveries /\ discovery'.at = discovery.at /\ discovery'.state = "has"
    <3>1. discovery \in Discoveries
      BY <1>1 DEF Sound
    <3>2. /\ discovery.i + discovery.increment \in Nat
          /\ discovery.count + Cardinality(discovery.got) \in Nat
          /\ discovery.balance + Total(discovery.got) \in Nat
          /\ discovery.found \cup discovery.got \in SUBSET Addresses
      BY <2>2, <3>1 DEF Discoveries
    <3>3. discovery' \in Discoveries
      <4>1. ASSUME NEW i \in Nat, NEW count \in Nat, NEW balance \in Nat,
                   NEW found \in SUBSET Addresses
            PROVE  [discovery EXCEPT !.state = "has", !.i = i, !.got = {}, !.chunk = 0,
                                     !.found = found, !.count = count, !.balance = balance]
                      \in Discoveries
        BY <3>1 DEF Discoveries
      <4> QED
        BY <2>1, <3>2, <4>1
    <3> QED
      BY <2>1, <3>1, <3>3 DEF Discoveries
  <2>4. discovery'.found = {} => discovery'.balance = 0
    <3>1. /\ discovery'.found = discovery.found \cup discovery.got
          /\ discovery'.balance = discovery.balance + Total(discovery.got)
      BY <1>1, <2>1 DEF Sound, Discoveries
    <3>2. discovery.found = {} => discovery.balance = 0
      BY <1>1 DEF Sound
    <3> QED
      BY <3>1, <3>2, TotalSteps
  <2>5. discovery'.got \subseteq used /\ discovery'.found \subseteq used
    BY <1>1, <2>1 DEF Sound, Discoveries
  <2> QED
    BY <1>1, <1>4, <2>1, <2>3, <2>4, <2>5 DEF GoesOn, Sound
<1>10. CASE HasTransactionsAgain
  <2>1. /\ discovery.state = "has" /\ UNCHANGED <<setup, network, discovery, sweepData, sweep>>
        /\ faults < MaxFaults /\ faults' = faults + 1
    BY <1>10 DEF HasTransactionsAgain, Fault
  <2>2. GoesOn
    BY <1>1, <2>1 DEF GoesOn, Sound
  <2> QED
    BY <1>4, <2>1, <2>2
<1> QED
  BY <1>5, <1>6, <1>7, <1>8, <1>9, <1>10 DEF Discover
-----------------------------------------------------------------------------
\* A step that leaves the network and the signed transaction alone.
LEMMA SentOnceKept ==
    ASSUME SentOnce, version \in Nat, faults \in Nat, faults' \in Nat, faults <= faults',
           coins' = coins, version' = version, signedTransaction' = signedTransaction
    PROVE  SentOnce'
<1>1. CASE version <= faults
  <2>1. version' <= faults'
    BY <1>1
  <2> QED
    BY <2>1 DEF SentOnce
<1>2. CASE /\ version <= faults + 1 /\ signedTransaction # None
           /\ signedTransaction.inputs \cap coins = {}
  <2>1. version' <= faults' + 1
    BY <1>2
  <2> QED
    BY <1>2, <2>1 DEF SentOnce
<1> QED
  BY <1>1, <1>2 DEF SentOnce

\* The discovery: it works for the operation under way, and its end leaves the
\* sweeper with data.
LEMMA DiscoverKeeps == ASSUME ToolInv, Discover, UNCHANGED toolVars PROVE ToolInv'
<1>1. /\ discovery.state # "idle"
      /\ GoesOn \/ IsOver
      /\ UNCHANGED <<setup, used, coins, version, sweep>>
      /\ faults' \in 0..MaxFaults /\ faults <= faults'
  BY DiscoverFacts DEF ToolInv, network
<1>2. UNCHANGED <<working, op, batchSize, foundFunds, retries, signedTransaction, recoveryComplete>>
  BY DEF toolVars
<1>3. NChains' = NChains /\ (Tool' <=> Tool)
  BY <1>1 DEF NChains, Tool
<1>4. op \in {{"discovering"}, {"recovering"}}
      /\ (op = {"recovering"} => sweep.state = "discover")
      /\ (op = {"discovering"} => sweep.state \in {"idle", "rejected"})
  BY <1>1 DEF ToolInv, OneOperation, SweepGoesOn
<1>5. /\ discovery' \in Discoveries /\ discovery'.at < NKeys * NChains
      /\ sweepData' \in Findings \cup {None}
      /\ discovery'.got \subseteq used /\ discovery'.found \subseteq used
      /\ discovery'.found = {} => discovery'.balance = 0
      /\ sweepData' # None =>
           sweepData'.utxos \subseteq used /\ (sweepData'.utxos = {} => sweepData'.balance = 0)
      /\ discovery'.state = "idle" => sweepData' # None
  <2>1. CASE GoesOn
    BY <2>1 DEF GoesOn, Sound, ToolInv, Types, FoundOnNetwork
  <2>2. CASE IsOver
    BY <2>2, FirstBranch, SweeperAssumption DEF IsOver, NoDiscovery, Discoveries
  <2> QED
    BY <1>1, <2>1, <2>2
<1>6. Types'
  BY <1>1, <1>2, <1>3, <1>5 DEF ToolInv, Types
<1>7. OneOperation'
  BY <1>2, <1>4 DEF ToolInv, OneOperation
<1>8. SweepGoesOn' /\ SignedOnce'
  BY <1>1, <1>2, <1>3, <1>4, <1>5 DEF ToolInv, SweepGoesOn, SignedOnce
<1>9. FoundOnNetwork'
  BY <1>1, <1>2, <1>4, <1>5 DEF ToolInv, FoundOnNetwork
<1>10. SentOnce'
  BY <1>1, <1>2, SentOnceKept DEF ToolInv, Types
<1> QED
  BY <1>6, <1>7, <1>8, <1>9, <1>10 DEF ToolInv

\* The sweep goes on only while the tool recovers, or the script does.
LEMMA SweepKeeps == ASSUME ToolInv, Sweep, UNCHANGED toolVars PROVE ToolInv'
<1>1. UNCHANGED <<working, op, batchSize, foundFunds, retries, signedTransaction, recoveryComplete>>
  BY DEF toolVars
<1>2. /\ sweep.state \in {"discover", "fee", "create"}
      /\ UNCHANGED <<setup, used, coins, version, discovery, sweepData>>
  BY DEF Sweep, SweepDiscovered, EstimateFee, CreateTransaction, network
<1>3. op = {"recovering"}
  BY <1>2 DEF ToolInv, SweepGoesOn
<1>4. NChains' = NChains /\ (Tool' <=> Tool)
  BY <1>2 DEF NChains, Tool
<1>5. /\ sweep \in Sweeps /\ sweepData \in Findings \cup {None}
      /\ faults \in 0..MaxFaults /\ MaxFaults \in Nat
  BY SweeperAssumption DEF ToolInv, Types
<1>6. /\ sweep' \in Sweeps
      /\ faults' \in 0..MaxFaults /\ faults <= faults'
      /\ sweep'.state \in {"fee", "create", "resolved", "rejected"}
      /\ sweep'.state = "resolved" => Tool
      /\ sweep.state = "discover" => discovery.state = "idle"
      /\ sweep'.state \in {"create", "resolved"} => sweepData # None /\ sweepData.balance # 0
      /\ sweep'.tx # sweep.tx => sweep'.state = "resolved"
      /\ sweep'.state = "resolved" => sweep'.tx # None /\ sweep'.tx.inputs = sweepData.utxos
      /\ sweep.state \in {"fee", "create"} => sweepData # None
  <2>1. CASE SweepDiscovered
    BY <1>5, <2>1 DEF SweepDiscovered, Sweeps, ToolInv, SweepGoesOn
  <2>2. CASE EstimateFee
    BY <1>5, <2>2 DEF EstimateFee, Fault, Sweeps, ToolInv, SweepGoesOn
  <2>3. CASE CreateTransaction
    <3>1. PICK fee \in Fees :
            sweep' = IF setup.release = "3.6.7" \/ fee > sweepData.balance
                     THEN [sweep EXCEPT !.state = "rejected"]
                     ELSE [state |-> "resolved",
                           tx |-> [inputs |-> sweepData.utxos, fee |-> fee,
                                   out |-> sweepData.balance - fee]]
      BY <2>3 DEF CreateTransaction
    <3>2. sweep.state = "create" /\ UNCHANGED faults
      BY <2>3 DEF CreateTransaction
    <3>3. /\ sweepData # None /\ sweepData.balance # 0
          /\ sweepData \in Findings
      BY <1>5, <3>2 DEF ToolInv, SweepGoesOn, FoundOnNetwork
    <3>4. CASE setup.release = "3.6.7" \/ fee > sweepData.balance
      BY <1>5, <3>1, <3>2, <3>3, <3>4 DEF Sweeps
    <3>5. CASE ~(setup.release = "3.6.7" \/ fee > sweepData.balance)
      <4>1. setup \in [release : {"3.3.2", "3.6.7"}, service : {"blocktrail", "insight"},
                       cosign : BOOLEAN]
        BY SweeperAssumption DEF ToolInv, Types
      <4>2. Tool
        BY <3>5, <4>1 DEF Tool
      <4>3. fee \in Nat /\ sweepData.balance - fee \in Nat
        BY <3>3, <3>5, SweeperAssumption DEF Findings
      <4>4. /\ sweep'.state = "resolved"
            /\ sweep'.tx = [inputs |-> sweepData.utxos, fee |-> fee, out |-> sweepData.balance - fee]
        BY <3>1, <3>5
      <4>5. sweep'.tx \in Transactions /\ sweep'.tx.inputs = sweepData.utxos
        BY <3>3, <4>3, <4>4 DEF Findings, Transactions
      <4>6. sweep' \in Sweeps
        BY <3>1, <3>5, <4>4, <4>5 DEF Sweeps
      <4>7. sweep'.tx # None
        BY <4>5, SweeperAssumption
      <4> QED
        BY <1>5, <3>2, <3>3, <4>2, <4>4, <4>5, <4>6, <4>7
    <3> QED
      BY <3>4, <3>5
  <2> QED
    BY <2>1, <2>2, <2>3 DEF Sweep
<1>7. Types'
  BY <1>1, <1>2, <1>4, <1>6 DEF ToolInv, Types
<1>8. OneOperation'
  BY <1>1, <1>2 DEF ToolInv, OneOperation
<1>9. SweepGoesOn' /\ SignedOnce'
  <2>1. discovery.state = "idle" /\ sweepData # None
    <3>1. CASE sweep.state = "discover"
      BY <1>3, <1>6, <3>1 DEF ToolInv, SweepGoesOn
    <3>2. CASE sweep.state \in {"fee", "create"}
      BY <1>3, <1>6, <3>2 DEF ToolInv, SweepGoesOn
    <3> QED
      BY <1>2, <3>1, <3>2
  <2>2. SweepGoesOn'
    BY <1>1, <1>2, <1>3, <1>6, <2>1 DEF SweepGoesOn
  <2>3. signedTransaction = None /\ op # {"sending"}
    BY <1>3 DEF ToolInv, SignedOnce
  <2>4. SignedOnce'
    <3>1. op' = op /\ signedTransaction' = None
      BY <1>1, <2>3
    <3>2. Tool' \/ sweep'.state # "resolved"
      BY <1>4, <1>6
    <3> QED
      BY <1>3, <3>1, <3>2 DEF SignedOnce
  <2> QED
    BY <2>2, <2>4
<1>10. FoundOnNetwork'
  <2>1. sweep'.tx # None => sweep'.tx.inputs \subseteq used /\ sweep'.tx.inputs # {}
    BY <1>6 DEF ToolInv, FoundOnNetwork
  <2> QED
    BY <1>1, <1>2, <1>6, <2>1 DEF ToolInv, FoundOnNetwork
<1>11. SentOnce'
  BY <1>1, <1>2, <1>5, <1>6, SentOnceKept DEF ToolInv, Types
<1> QED
  BY <1>7, <1>8, <1>9, <1>10, <1>11 DEF ToolInv
-----------------------------------------------------------------------------
\* The operation under way is the only one.
LEMMA Alone ==
    ASSUME ToolInv, NEW o \in op
    PROVE  op = {o} /\ working /\ op \ {o} = {}
BY DEF ToolInv, OneOperation

\* When none is under way nothing is discovered, and nothing is swept.
LEMMA Idle ==
    ASSUME ToolInv, ~working
    PROVE  op = {} /\ discovery.state = "idle" /\ sweep.state \in {"idle", "rejected"}
BY DEF ToolInv, OneOperation, SweepGoesOn

\* The buttons that change what the tool shows or is about to do, and the
\* timeouts of a retry.
LEMMA ButtonsKeep ==
    ASSUME ToolInv, DiscoverFunds \/ Retry \/ RetryDoubles \/ RetryStarts
    PROVE  ToolInv'
<1>1. UNCHANGED <<setup, used, coins, version, discovery, sweepData, sweep, searched, faults,
                  signedTransaction, recoveryComplete>>
  BY DEF DiscoverFunds, Retry, RetryDoubles, RetryStarts, sweeperVars, network
<1>2. NChains' = NChains /\ (Tool' <=> Tool)
  BY <1>1 DEF NChains, Tool
<1>3. \/ op' = op /\ working' = working
      \/ op = {} /\ op' = {"discover"} /\ ~working /\ working'
  <2>1. CASE DiscoverFunds
    BY <2>1, Idle DEF DiscoverFunds, Begin
  <2>2. CASE Retry
    BY <2>2 DEF Retry
  <2>3. CASE RetryDoubles
    BY <2>3 DEF RetryDoubles
  <2>4. CASE RetryStarts
    BY <2>4, Idle DEF RetryStarts, Begin, ToolInv, Types
  <2> QED
    BY <2>1, <2>2, <2>3, <2>4
<1>4. /\ retries' \in [clicked : 0..2, doubled : 0..2]
      /\ retries'.clicked + retries'.doubled <= 2
      /\ batchSize' \in Nat \ {0} /\ foundFunds' \in BOOLEAN
  <2>1. /\ retries \in [clicked : 0..2, doubled : 0..2]
        /\ retries.clicked + retries.doubled <= 2
        /\ batchSize \in Nat \ {0} /\ foundFunds \in BOOLEAN
    BY DEF ToolInv, Types
  <2>2. CASE DiscoverFunds
    BY <2>1, <2>2 DEF DiscoverFunds
  <2>3. CASE Retry
    BY <2>1, <2>3 DEF Retry
  <2>4. CASE RetryDoubles
    <3>1. /\ retries.clicked > 0 /\ batchSize' = batchSize * 2 /\ foundFunds' = FALSE
          /\ retries' = [retries EXCEPT !.clicked = retries.clicked - 1,
                                        !.doubled = retries.doubled + 1]
      BY <2>4 DEF RetryDoubles
    <3>2. /\ retries.clicked - 1 \in 0..2 /\ retries.doubled + 1 \in 0..2
          /\ (retries.clicked - 1) + (retries.doubled + 1) <= 2
      BY <2>1, <3>1
    <3>3. /\ retries'.clicked = retries.clicked - 1
          /\ retries'.doubled = retries.doubled + 1
          /\ retries' \in [clicked : 0..2, doubled : 0..2]
      BY <2>1, <3>1, <3>2
    <3>4. batchSize' \in Nat \ {0}
      <4>1. batchSize \in Nat \ {0} /\ batchSize' = batchSize * 2
        BY <2>1, <3>1
      <4> QED
        BY <4>1
    <3>5. foundFunds' \in BOOLEAN
      BY <3>1
    <3> QED
      BY <3>2, <3>3, <3>4, <3>5
  <2>5. CASE RetryStarts
    BY <2>1, <2>5 DEF RetryStarts
  <2> QED
    BY <2>2, <2>3, <2>4, <2>5
<1>5. Types'
  BY <1>1, <1>2, <1>3, <1>4 DEF ToolInv, Types
<1>6. OneOperation'
  BY <1>1, <1>3, Idle DEF ToolInv, OneOperation, Ops
<1>7. SweepGoesOn' /\ SignedOnce'
  BY <1>1, <1>2, <1>3, Idle DEF ToolInv, SweepGoesOn, SignedOnce
<1>8. FoundOnNetwork' /\ SentOnce'
  BY <1>1 DEF ToolInv, FoundOnNetwork, SentOnce
<1> QED
  BY <1>5, <1>6, <1>7, <1>8 DEF ToolInv

\* A fresh discovery has found nothing yet.
LEMMA StartDiscoveryFacts ==
    ASSUME Types, NEW n \in Nat \ {0}, StartDiscovery(n)
    PROVE  /\ discovery' \in Discoveries /\ discovery'.at = 0 /\ discovery'.state = "has"
           /\ discovery'.got = {} /\ discovery'.found = {} /\ discovery'.balance = 0
<1>1. version \in Nat
  BY DEF Types
<1> QED
  BY <1>1 DEF StartDiscovery, NoDiscovery, Discoveries

\* The discovery of step 3 begins and ends.
LEMMA DiscoveryKeeps ==
    ASSUME ToolInv, StartDiscovering \/ FundsDiscovered
    PROVE  ToolInv'
<1>1. UNCHANGED <<setup, used, coins, version, sweepData, sweep, faults, batchSize, retries,
                  signedTransaction, recoveryComplete>>
  BY DEF StartDiscovering, FundsDiscovered, sweeperVars, network
<1>2. NChains' = NChains /\ (Tool' <=> Tool)
  BY <1>1 DEF NChains, Tool
<1>3. sweep.state \in {"idle", "rejected"} /\ op # {"sending"}
  BY Alone DEF StartDiscovering, FundsDiscovered, ToolInv, SweepGoesOn
<1>4. /\ discovery' \in Discoveries /\ discovery'.at < NKeys * NChains
      /\ discovery'.got \subseteq used /\ discovery'.found \subseteq used
      /\ discovery'.found = {} => discovery'.balance = 0
  <2>1. CASE StartDiscovering
    BY <2>1, StartDiscoveryFacts, FirstBranch DEF StartDiscovering, ToolInv, Types
  <2>2. CASE FundsDiscovered
    BY <2>2 DEF FundsDiscovered, sweeperVars, ToolInv, Types, FoundOnNetwork
  <2> QED
    BY <2>1, <2>2
<1>5. \/ op' = {"discovering"} /\ working'
      \/ op' = {} /\ ~working' /\ discovery'.state = "idle"
  <2>1. CASE StartDiscovering
    BY <2>1, Alone DEF StartDiscovering
  <2>2. CASE FundsDiscovered
    BY <2>2, Alone DEF FundsDiscovered, End, sweeperVars
  <2> QED
    BY <2>1, <2>2
<1>6. Types'
  <2>1. foundFunds' \in BOOLEAN
    BY DEF StartDiscovering, FundsDiscovered, ToolInv, Types
  <2>2. working' \in BOOLEAN
    BY <1>5, Alone DEF StartDiscovering, FundsDiscovered, End, ToolInv, Types
  <2> QED
    BY <1>1, <1>2, <1>4, <2>1, <2>2 DEF ToolInv, Types
<1>7. OneOperation'
  BY <1>5 DEF OneOperation, Ops
<1>8. SweepGoesOn'
  BY <1>1, <1>3, <1>5 DEF SweepGoesOn
<1>9. SignedOnce'
  BY <1>1, <1>2, <1>5 DEF ToolInv, SignedOnce
<1>10. FoundOnNetwork'
  BY <1>1, <1>4 DEF ToolInv, FoundOnNetwork
<1>11. SentOnce'
  BY <1>1 DEF ToolInv, SentOnce
<1> QED
  BY <1>6, <1>7, <1>8, <1>9, <1>10, <1>11 DEF ToolInv

\* A sweep begins, with what was found or with a discovery.
LEMMA RecoverKeeps == ASSUME ToolInv, RecoverFunds PROVE ToolInv'
<1>1. /\ UNCHANGED <<setup, used, coins, version, sweepData, faults, batchSize, foundFunds,
                     retries, signedTransaction, recoveryComplete>>
      /\ ~working /\ StartSweep(batchSize)
      /\ Tool => signedTransaction = None
      /\ working' /\ op' = op \cup {"recovering"}
  BY DEF RecoverFunds, Begin, network
<1>2. NChains' = NChains /\ (Tool' <=> Tool)
  BY <1>1 DEF NChains, Tool
<1>3. op' = {"recovering"} /\ discovery.state = "idle"
  BY <1>1, Idle
<1>4. signedTransaction = None
  BY <1>1 DEF ToolInv, SignedOnce
<1>5. /\ discovery' \in Discoveries /\ discovery'.at < NKeys * NChains
      /\ discovery'.got \subseteq used /\ discovery'.found \subseteq used
      /\ discovery'.found = {} => discovery'.balance = 0
      /\ sweep'.tx = None
      /\ \/ sweep'.state = "discover" /\ discovery'.state = "has"
         \/ sweep'.state = "fee" /\ discovery'.state = "idle" /\ sweepData # None
  <2>1. CASE sweepData = None
    <3>1. StartDiscovery(batchSize) /\ sweep' = [state |-> "discover", tx |-> None]
      BY <1>1, <2>1 DEF StartSweep
    <3>2. batchSize \in Nat \ {0}
      BY DEF ToolInv, Types
    <3> QED
      BY <3>1, <3>2, StartDiscoveryFacts, FirstBranch DEF ToolInv
  <2>2. CASE sweepData # None
    BY <1>1, <1>3, <2>2 DEF StartSweep, ToolInv, Types, FoundOnNetwork
  <2> QED
    BY <2>1, <2>2
<1>6. sweep' \in Sweeps
  BY <1>1 DEF StartSweep, Sweeps
<1>7. Types'
  BY <1>1, <1>2, <1>5, <1>6 DEF ToolInv, Types
<1>8. OneOperation'
  BY <1>1, <1>3 DEF OneOperation, Ops
<1>9. SweepGoesOn'
  BY <1>1, <1>3, <1>5 DEF SweepGoesOn
<1>10. SignedOnce'
  BY <1>1, <1>3, <1>4, <1>5 DEF SignedOnce
<1>11. FoundOnNetwork'
  BY <1>1, <1>5 DEF ToolInv, FoundOnNetwork
<1>12. SentOnce'
  BY <1>1 DEF ToolInv, SentOnce
<1> QED
  BY <1>7, <1>8, <1>9, <1>10, <1>11, <1>12 DEF ToolInv

\* The transaction is there, or is not to be had.
LEMMA SweptKeeps ==
    ASSUME ToolInv, Swept \/ Cosigned \/ NotSwept
    PROVE  ToolInv'
<1>1. UNCHANGED <<setup, used, coins, version, discovery, sweepData, batchSize, foundFunds,
                  retries, recoveryComplete>>
  BY DEF Swept, Cosigned, NotSwept, network
<1>2. NChains' = NChains /\ (Tool' <=> Tool)
  BY <1>1 DEF NChains, Tool
<1>3. sweep \in Sweeps /\ signedTransaction = None /\ discovery.state = "idle"
  <2>1. \/ op = {"recovering"} /\ sweep.state \in {"resolved", "rejected"}
        \/ op = {"cosigning"}
    BY Alone DEF Swept, Cosigned, NotSwept
  <2> QED
    BY <2>1 DEF ToolInv, Types, OneOperation, SweepGoesOn, SignedOnce
<1>4. faults \in 0..MaxFaults /\ MaxFaults \in Nat /\ version \in Nat
  BY SweeperAssumption DEF ToolInv, Types
<1>5. faults' \in 0..MaxFaults /\ faults <= faults'
  BY <1>4 DEF Swept, Cosigned, NotSwept, Fault
<1>6. \/ op' = {"cosigning"} /\ working' /\ sweep' = sweep /\ sweep.state = "resolved"
         /\ signedTransaction' = None
      \/ op' = {} /\ ~working' /\ sweep' = NoSweep /\ sweep.state = "resolved"
         /\ signedTransaction' \in {sweep.tx, None}
      \/ op' = {} /\ ~working' /\ sweep' \in {NoSweep, sweep} /\ sweep.state = "rejected"
         /\ signedTransaction' = None
  <2>1. CASE Swept
    BY <1>3, <2>1, Alone DEF Swept, End
  <2>2. CASE Cosigned
    <3>1. sweep.state = "resolved"
      BY <2>2, Alone DEF Cosigned, ToolInv, SweepGoesOn
    <3> QED
      BY <1>3, <2>2, <3>1, Alone DEF Cosigned, End
  <2>3. CASE NotSwept
    BY <1>3, <2>3, Alone DEF NotSwept, End
  <2> QED
    BY <2>1, <2>2, <2>3
<1>7. sweep.state = "resolved" => Tool /\ sweep.tx # None
  BY DEF ToolInv, SignedOnce, SweepGoesOn
<1>8. sweep' \in Sweeps /\ (sweep'.tx = None \/ sweep'.tx = sweep.tx)
  BY <1>3, <1>6 DEF NoSweep, Sweeps
<1>9. /\ signedTransaction' \in Transactions \cup {None}
      /\ signedTransaction' = None \/ (signedTransaction' = sweep.tx /\ Tool)
  <2>1. signedTransaction' = None \/ (signedTransaction' = sweep.tx /\ Tool)
    <3>1. CASE sweep.state = "resolved" /\ signedTransaction' \in {sweep.tx, None}
      BY <1>7, <3>1
    <3>2. CASE signedTransaction' = None
      BY <3>2
    <3> QED
      BY <1>6, <3>1, <3>2
  <2>2. sweep.tx \in Transactions \cup {None}
    BY <1>3 DEF Sweeps
  <2> QED
    BY <2>1, <2>2
<1>10. Types'
  <2>1. working' \in BOOLEAN
    BY <1>1, Alone DEF Swept, Cosigned, NotSwept, End, ToolInv, Types
  <2> QED
    BY <1>1, <1>2, <1>5, <1>8, <1>9, <2>1 DEF ToolInv, Types
<1>11. OneOperation'
  BY <1>1, <1>3, <1>6 DEF OneOperation, Ops
<1>12. SweepGoesOn'
  BY <1>1, <1>6 DEF ToolInv, SweepGoesOn, NoSweep
<1>13. SignedOnce'
  BY <1>2, <1>6, <1>7, <1>9 DEF SignedOnce, NoSweep
<1>14. FoundOnNetwork'
  <2>1. sweep'.state # "create"
    BY <1>6 DEF NoSweep
  <2> QED
    BY <1>1, <1>8, <1>9, <2>1 DEF ToolInv, FoundOnNetwork
<1>15. SentOnce'
  <2>1. version <= faults
    BY <1>3 DEF ToolInv, SentOnce
  <2>2. version' <= faults'
    BY <1>1, <1>4, <1>5, <2>1
  <2> QED
    BY <2>2 DEF SentOnce
<1> QED
  BY <1>10, <1>11, <1>12, <1>13, <1>14, <1>15 DEF ToolInv

\* The transaction is sent.  Sent once, its inputs are spent, and the network
\* refuses it from then on.
LEMMA SendKeeps == ASSUME ToolInv, SendTx \/ Sent PROVE ToolInv'
<1>1. /\ UNCHANGED <<setup, used, discovery, sweepData, sweep, batchSize, foundFunds,
                     retries, signedTransaction>>
      /\ discovery.state = "idle" /\ sweep.state \in {"idle", "rejected"}
      /\ signedTransaction # None
  <2>1. CASE SendTx
    BY <2>1, Idle DEF SendTx, sweeperVars, network
  <2>2. CASE Sent
    <3>1. op = {"sending"}
      BY <2>2, Alone DEF Sent
    <3>2. discovery.state = "idle"
      BY <3>1 DEF ToolInv, OneOperation
    <3>3. sweep.state \in {"idle", "rejected"} /\ signedTransaction # None
      BY <3>1 DEF ToolInv, SweepGoesOn, SignedOnce
    <3> QED
      BY <2>2, <3>2, <3>3 DEF Sent
  <2> QED
    BY <2>1, <2>2
<1>2. NChains' = NChains /\ (Tool' <=> Tool)
  BY <1>1 DEF NChains, Tool
<1>3. \/ op' = {"sending"} /\ working'
      \/ op' = {} /\ ~working'
  BY Idle, Alone DEF SendTx, Sent, Begin, End
<1>4. /\ faults \in 0..MaxFaults /\ MaxFaults \in Nat /\ version \in Nat
      /\ used \subseteq Addresses /\ coins \subseteq used
  BY SweeperAssumption DEF ToolInv, Types
<1>5. /\ faults' \in 0..MaxFaults /\ faults <= faults'
      /\ \/ coins' = coins /\ version' = version
         \/ /\ signedTransaction.inputs \subseteq coins
            /\ coins' = coins \ signedTransaction.inputs /\ version' = version + 1
  <2>1. CASE SendTx
    BY <1>4, <2>1 DEF SendTx, sweeperVars, network
  <2>2. CASE Sent
    BY <1>4, <2>2 DEF Sent, Fault
  <2> QED
    BY <2>1, <2>2
<1>6. Types'
  <2>1. working' \in BOOLEAN /\ recoveryComplete' \in BOOLEAN
    BY DEF SendTx, Sent, Begin, End, ToolInv, Types
  <2>2. coins' \subseteq used' /\ version' \in Nat
    BY <1>1, <1>4, <1>5
  <2> QED
    BY <1>1, <1>2, <1>5, <2>1, <2>2 DEF ToolInv, Types
<1>7. OneOperation'
  BY <1>1, <1>3 DEF OneOperation, Ops
<1>8. SweepGoesOn'
  BY <1>1, <1>3 DEF SweepGoesOn
<1>9. SignedOnce'
  BY <1>1, <1>2, <1>3 DEF ToolInv, SignedOnce
<1>10. FoundOnNetwork'
  BY <1>1 DEF ToolInv, FoundOnNetwork
<1>11. SentOnce'
  <2>1. CASE coins' = coins /\ version' = version
    BY <1>1, <1>4, <1>5, <2>1, SentOnceKept DEF ToolInv
  <2>2. CASE /\ signedTransaction.inputs \subseteq coins
             /\ coins' = coins \ signedTransaction.inputs /\ version' = version + 1
    <3>1. signedTransaction.inputs # {}
      BY <1>1 DEF ToolInv, FoundOnNetwork
    <3>2. version <= faults
      BY <2>2, <3>1 DEF ToolInv, SentOnce
    <3>3. version' <= faults' + 1
      <4>1. version \in Nat /\ faults \in Nat /\ faults' \in Nat /\ faults <= faults'
        BY <1>4, <1>5
      <4>2. version' = version + 1
        BY <2>2
      <4>3. ASSUME NEW a \in Nat, NEW b \in Nat, NEW c \in Nat, a <= b, b <= c
            PROVE  a + 1 <= c + 1
        BY <4>3
      <4> QED
        BY <3>2, <4>1, <4>2, <4>3
    <3>4. signedTransaction'.inputs \cap coins' = {} /\ signedTransaction' # None
      BY <1>1, <2>2
    <3> QED
      BY <3>3, <3>4 DEF SentOnce
  <2> QED
    BY <1>5, <2>1, <2>2
<1> QED
  BY <1>6, <1>7, <1>8, <1>9, <1>10, <1>11 DEF ToolInv

\* A coin comes or goes.  It comes to an address not used before, so that what
\* was spent stays spent.
LEMMA LedgerKeeps == ASSUME ToolInv, LedgerChanges, UNCHANGED toolVars PROVE ToolInv'
<1>1. /\ UNCHANGED <<setup, discovery, sweepData, sweep>>
      /\ version' = version + 1 /\ faults' = faults + 1 /\ faults < MaxFaults
      /\ \/ \E a \in Addresses \ used : coins' = coins \cup {a} /\ used' = used \cup {a}
         \/ \E a \in coins : coins' = coins \ {a} /\ UNCHANGED used
  BY DEF LedgerChanges, Fault
<1>2. UNCHANGED <<working, op, batchSize, foundFunds, retries, signedTransaction, recoveryComplete>>
  BY DEF toolVars
<1>3. NChains' = NChains /\ (Tool' <=> Tool)
  BY <1>1 DEF NChains, Tool
<1>4. /\ faults \in 0..MaxFaults /\ MaxFaults \in Nat /\ version \in Nat
      /\ used \subseteq Addresses /\ coins \subseteq used
  BY SweeperAssumption DEF ToolInv, Types
<1>5. used' \subseteq Addresses /\ coins' \subseteq used' /\ used \subseteq used'
  BY <1>1, <1>4
<1>6. Types'
  <2>1. version' \in Nat /\ faults' \in 0..MaxFaults
    BY <1>1, <1>4
  <2> QED
    BY <1>1, <1>2, <1>3, <1>5, <2>1 DEF ToolInv, Types
<1>7. OneOperation' /\ SweepGoesOn' /\ SignedOnce'
  BY <1>1, <1>2, <1>3 DEF ToolInv, OneOperation, SweepGoesOn, SignedOnce
<1>8. FoundOnNetwork'
  BY <1>1, <1>2, <1>5 DEF ToolInv, FoundOnNetwork
<1>9. SentOnce'
  <2>1. CASE version <= faults
    <3>1. version' <= faults'
      BY <1>1, <1>4, <2>1
    <3> QED
      BY <3>1 DEF SentOnce
  <2>2. CASE /\ version <= faults + 1 /\ signedTransaction # None
             /\ signedTransaction.inputs \cap coins = {}
    <3>1. version' <= faults' + 1
      BY <1>1, <1>4, <2>2
    <3>2. signedTransaction.inputs \subseteq used
      BY <2>2 DEF ToolInv, FoundOnNetwork
    <3>3. signedTransaction.inputs \cap coins' = {}
      BY <1>1, <2>2, <3>2
    <3> QED
      BY <1>2, <2>2, <3>1, <3>3 DEF SentOnce
  <2> QED
    BY <2>1, <2>2 DEF ToolInv, SentOnce
<1> QED
  BY <1>6, <1>7, <1>8, <1>9 DEF ToolInv

\* Every step keeps the invariant.
LEMMA Invariance == ToolInv /\ [Next]_vars => ToolInv'
<1> SUFFICES ASSUME ToolInv, [Next]_vars PROVE ToolInv'
  OBVIOUS
<1>1. CASE Progress
  <2>1. CASE (Discover \/ Sweep) /\ UNCHANGED toolVars
    BY <2>1, DiscoverKeeps, SweepKeeps
  <2>2. CASE StartDiscovering \/ FundsDiscovered
    BY <2>2, DiscoveryKeeps
  <2>3. CASE RetryDoubles \/ RetryStarts
    BY <2>3, ButtonsKeep
  <2>4. CASE Swept \/ Cosigned \/ NotSwept
    BY <2>4, SweptKeeps
  <2>5. CASE Sent
    BY <2>5, SendKeeps
  <2> QED
    BY <1>1, <2>1, <2>2, <2>3, <2>4, <2>5 DEF Progress
<1>2. CASE User
  BY <1>2, ButtonsKeep, RecoverKeeps, SendKeeps DEF User
<1>3. CASE LedgerChanges /\ UNCHANGED toolVars
  BY <1>3, LedgerKeeps
<1>4. CASE UNCHANGED vars
  <2>1. UNCHANGED <<setup, used, coins, version, discovery, sweepData, sweep, faults, working, op,
                    batchSize, foundFunds, retries, signedTransaction, recoveryComplete>>
    BY <1>4 DEF vars, sweeperVars, toolVars, network
  <2>2. NChains' = NChains /\ (Tool' <=> Tool)
    BY <2>1 DEF NChains, Tool
  <2>3. Types' /\ OneOperation' /\ SweepGoesOn'
    BY <2>1, <2>2 DEF ToolInv, Types, OneOperation, SweepGoesOn
  <2>4. SignedOnce' /\ FoundOnNetwork' /\ SentOnce'
    BY <2>1, <2>2 DEF ToolInv, SignedOnce, FoundOnNetwork, SentOnce
  <2> QED
    BY <2>3, <2>4 DEF ToolInv
<1> QED
  BY <1>1, <1>2, <1>3, <1>4 DEF Next

\* What the invariant says of the network's changes and of the operations.
LEMMA ToolInvSuffices == ToolInv => OneAtATime
<1> SUFFICES ASSUME ToolInv PROVE OneAtATime
  OBVIOUS
<1>1. TypeOK
  <2>1. version \in 0..(MaxFaults + 1)
    <3>1. faults \in 0..MaxFaults /\ MaxFaults \in Nat /\ version \in Nat
      BY SweeperAssumption DEF ToolInv, Types
    <3>2. version <= faults \/ version <= faults + 1
      BY DEF ToolInv, SentOnce
    <3> QED
      BY <3>1, <3>2
  <2>2. SweeperTypeOK
    BY <2>1 DEF SweeperTypeOK, ToolInv, Types, Discoveries, Sweeps
  <2>3. op \subseteq Ops
    BY DEF ToolInv, OneOperation
  <2> QED
    BY <2>2, <2>3 DEF TypeOK, ToolInv, Types
<1>2. Cardinality(op) <= 1
  <2>1. CASE op = {}
    BY <2>1, FS_EmptySet
  <2>2. CASE \E o \in Ops : op = {o}
    BY <2>2, FS_Singleton
  <2> QED
    BY <2>1, <2>2 DEF ToolInv, OneOperation
<1>3. op = {"cosigning"} => sweep.tx.inputs = sweepData.utxos
  BY DEF ToolInv, SweepGoesOn
<1> QED
  BY <1>1, <1>2, <1>3 DEF OneAtATime, ToolInv, OneOperation

\* No two of the tool's operations are ever under way at once (the flag working,
\* against buttons pressed twice and the timeouts of a retry): a discovery belongs to
\* the one operation that started it, and what a transaction to be cosigned spends is
\* what the sweeper holds as found, when the server is told the paths.
THEOREM WorksAlone == Spec => []OneAtATime
BY InitInv, Invariance, ToolInvSuffices, PTL DEF Spec
-----------------------------------------------------------------------------
(***************************************************************************)
(* What a discovery finds.  Its batches, as numbers.                       *)
(***************************************************************************)

\* Division with a remainder.
LEMMA Quotient ==
    ASSUME NEW x \in Nat, NEW c \in Nat \ {0}
    PROVE  /\ x \div c \in Nat
           /\ (x \div c) * c <= x /\ x < ((x \div c) + 1) * c
<1>1. x = (c * (x \div c)) + (x % c) /\ x % c \in 0..(c - 1) /\ x \div c \in Int
  OBVIOUS
<1>2. x \div c >= 0
  OBVIOUS
<1> QED
  BY <1>1, <1>2

\* A batch of size c that an index lies in, and where this batch begins.
LEMMA QuotientLess ==
    ASSUME NEW x \in Nat, NEW c \in Nat \ {0}, NEW m \in Nat
    PROVE  x \div c < m <=> x < m * c
<1> DEFINE q == x \div c
<1>1. q \in Nat /\ q * c <= x /\ x < (q + 1) * c
  BY Quotient
<1> HIDE DEF q
<1>2. q < m => (q + 1) * c <= m * c
  BY <1>1
<1>3. q >= m => q * c >= m * c
  BY <1>1
<1>4. q * c \in Nat /\ m * c \in Nat /\ (q + 1) * c \in Nat
  BY <1>1
<1>5. q < m <=> x < m * c
  BY <1>1, <1>2, <1>3, <1>4
<1> QED
  BY <1>5 DEF q

\* Which addresses a piece of a branch has.
LEMMA BetweenIff ==
    ASSUME NEW b, NEW x \in Nat, NEW y \in Nat, NEW a \in Addresses
    PROVE  /\ a.index \in Nat
           /\ a \in Between(b, x, y) <=>
              a.key = b.key /\ a.chain = b.chain /\ x <= a.index /\ a.index < y
BY SweeperAssumption DEF Between, Addresses

\* The walk comes to a branch once.
LEMMA BranchesDiffer ==
    ASSUME NEW n \in Nat, NEW m \in Nat, Branch(n).key = Branch(m).key, Branch(n).chain = Branch(m).chain
    PROVE  n = m
<1>1. CASE NChains = 2
  <2>1. 1 + (n \div 2) = 1 + (m \div 2) /\ n % 2 = m % 2
    BY <1>1 DEF Branch
  <2> QED
    BY <2>1
<1>2. CASE NChains = 3
  <2>1. 1 + (n \div 3) = 1 + (m \div 3) /\ n % 3 = m % 3
    BY <1>2 DEF Branch
  <2> QED
    BY <2>1
<1> QED
  BY <1>1, <1>2 DEF NChains

\* With batches of size c of which the first m have been used, their coins are in reach;
\* and no others are, when the next batch has not been used.
LEMMA StopsAtGap ==
    ASSUME NEW b, NEW c \in Nat \ {0}, NEW m \in Nat, coins \subseteq Addresses,
           \A n \in 0..(m - 1) : Between(b, n * c, (n + 1) * c) \cap used # {}
    PROVE  /\ coins \cap Between(b, 0, m * c) \subseteq InReach(b, c)
           /\ Between(b, m * c, (m + 1) * c) \cap used = {} =>
                InReach(b, c) \subseteq coins \cap Between(b, 0, m * c)
<1>1. m * c \in Nat /\ 0 \in Nat
  OBVIOUS
<1> DEFINE Passed(a) ==
             \A n \in 0..(a.index \div c) : Between(b, n * c, (n + 1) * c) \cap used # {}
<1>2. ASSUME NEW a \in coins, a.key = b.key, a.chain = b.chain
      PROVE  /\ a \in Between(b, 0, m * c) => Passed(a)
             /\ Between(b, m * c, (m + 1) * c) \cap used = {} /\ Passed(a) =>
                  a \in Between(b, 0, m * c)
  <2>1. a.index \in Nat /\ (a \in Between(b, 0, m * c) <=> a.index < m * c)
    <3>1. a \in Addresses
      OBVIOUS
    <3>2. ASSUME NEW y \in Nat
          PROVE  a.index \in Nat /\ (a \in Between(b, 0, y) <=> a.index < y)
      BY <1>2, <3>1, BetweenIff
    <3> DEFINE y == m * c
    <3>3. y \in Nat
      BY <1>1
    <3> HIDE DEF y
    <3>4. a.index \in Nat /\ (a \in Between(b, 0, y) <=> a.index < y)
      BY <3>2, <3>3
    <3> QED
      BY <3>4 DEF y
  <2>2. a.index \div c \in Nat /\ (a.index \div c < m <=> a.index < m * c)
    BY <2>1, Quotient, QuotientLess
  <2>3. CASE a.index \div c < m
    <3>1. 0..(a.index \div c) \subseteq 0..(m - 1)
      BY <2>2, <2>3
    <3> QED
      BY <2>1, <2>2, <2>3, <3>1
  <2>4. CASE ~(a.index \div c < m)
    <3>1. m \in 0..(a.index \div c)
      BY <2>2, <2>4
    <3> QED
      BY <2>1, <2>2, <2>4, <3>1
  <2> QED
    BY <2>3, <2>4
<1>3. ASSUME NEW a \in Between(b, 0, m * c) PROVE a.key = b.key /\ a.chain = b.chain
  BY DEF Between
<1> HIDE DEF Passed
<1>4. InReach(b, c) = {a \in coins : a.key = b.key /\ a.chain = b.chain /\ Passed(a)}
  BY DEF InReach, Passed
<1> QED
  BY <1>2, <1>3, <1>4

\* Batches of a multiple of the size reach at least as far: the reason to retry with
\* twice the size.
LEMMA LargerReachesMore ==
    ASSUME NEW b, NEW c \in Nat \ {0}, NEW k \in Nat \ {0}, coins \subseteq Addresses
    PROVE  InReach(b, c) \subseteq InReach(b, k * c)
<1> DEFINE kc == k * c
<1>1. kc \in Nat \ {0}
  OBVIOUS
<1>2. ASSUME NEW n \in Nat
      PROVE  /\ n * kc = (n * k) * c /\ n * k \in Nat /\ n * kc \in Nat
             /\ (n * k + 1) * c <= (n + 1) * kc
             /\ (n * k + 1) * c \in Nat /\ (n + 1) * kc \in Nat
  <2>1. n * kc = (n * k) * c /\ n * k \in Nat /\ n * kc \in Nat
    OBVIOUS
  <2>2. (n + 1) * kc = (n * k) * c + k * c /\ (n * k + 1) * c = (n * k) * c + c
    OBVIOUS
  <2>3. c <= k * c
    OBVIOUS
  <2> QED
    BY <2>1, <2>2, <2>3
<1> HIDE DEF kc
<1>3. ASSUME NEW a \in InReach(b, c), NEW n \in 0..(a.index \div kc)
      PROVE  Between(b, n * kc, (n + 1) * kc) \cap used # {}
  <2>1. a \in Addresses /\ a.index \in Nat
    <3>1. a \in Addresses
      BY DEF InReach
    <3> QED
      BY <3>1, BetweenIff
  <2>2. a.index \div kc \in Nat /\ n \in Nat /\ ~(a.index \div kc < n)
    BY <1>1, <2>1, Quotient
  <2>3. n * kc <= a.index
    BY <1>1, <1>2, <2>1, <2>2, QuotientLess
  <2>4. n * k \in 0..(a.index \div c)
    <3>1. ~(a.index < (n * k) * c) /\ n * k \in Nat
      <4>1. n * kc = (n * k) * c /\ n * k \in Nat /\ n * kc \in Nat
        BY <1>2, <2>2
      <4>2. ~(a.index < n * kc)
        BY <2>1, <2>3, <4>1
      <4> QED
        BY <4>1, <4>2
    <3>2. ~(a.index \div c < n * k)
      BY <2>1, <3>1, QuotientLess
    <3> QED
      BY <2>1, <3>1, <3>2, Quotient
  <2>5. PICK u \in used : u \in Between(b, (n * k) * c, (n * k + 1) * c)
    BY <2>4 DEF InReach
  <2>6. u \in Between(b, n * kc, (n + 1) * kc)
    <3>1. u \in Addresses
      BY <2>5 DEF Between
    <3> DEFINE lo == (n * k) * c
               hi == (n * k + 1) * c
               end == (n + 1) * kc
    <3>2. lo \in Nat /\ hi \in Nat /\ end \in Nat /\ n * kc = lo /\ hi <= end
      BY <1>2, <2>2
    <3>3. u \in Between(b, lo, hi)
      BY <2>5
    <3> HIDE DEF lo, hi, end
    <3>4. u.index \in Nat /\ u.key = b.key /\ u.chain = b.chain /\ lo <= u.index /\ u.index < hi
      <4>1. u \in Between(b, lo, hi) <=>
              u.key = b.key /\ u.chain = b.chain /\ lo <= u.index /\ u.index < hi
        BY <3>1, <3>2, BetweenIff
      <4>2. u.index \in Nat
        BY <3>1, BetweenIff
      <4> QED
        BY <3>3, <4>1, <4>2
    <3>5. u \in Between(b, lo, end)
      BY <3>1, <3>2, <3>4, BetweenIff
    <3>6. u \in Between(b, n * kc, end)
      BY <3>2, <3>5
    <3> QED
      BY <3>6 DEF end
  <2> QED
    BY <2>6
<1>4. InReach(b, c) \subseteq InReach(b, kc)
  BY <1>3 DEF InReach
<1> QED
  BY <1>4 DEF kc

-----------------------------------------------------------------------------
(***************************************************************************)
(* The walk of a discovery: where it is, and what it has found by now.     *)
(***************************************************************************)
Place(d) == Branch(d.at)
Batch(d) == Between(Place(d), d.i, d.i + d.increment)

\* Everything found is counted once and added up.
Counted(d) == d.count = Cardinality(d.found) /\ d.balance = Total(d.found)

\* It has been found behind the place the walk has come to, and what is set aside
\* belongs to the batch there.
Located(d) ==
    /\ \A a \in d.found :
         \/ \E n \in 0..(d.at - 1) : a.key = Branch(n).key /\ a.chain = Branch(n).chain
         \/ a \in Between(Place(d), 0, d.i)
    /\ d.got \subseteq Batch(d)
    /\ d.state = "has" => d.got = {}
    /\ d.state = "utxos" => d.chunk < d.increment

\* While the network is as it was at the start: what has been found is in reach, and on
\* the branches behind nothing in reach is missing but for cut answers, unless a request
\* failed; on this branch the batches passed have been used, and their coins found.
Searched(b, found, failed, cut, c) ==
    /\ Of(b, found) \subseteq InReach(b, c)
    /\ b \notin failed => InReach(b, c) \subseteq Of(b, found) \cup cut
Reached(d) ==
    /\ d.found \subseteq coins /\ d.got \subseteq coins
    /\ \A n \in 0..(d.at - 1) : Searched(Branch(n), d.found, d.failed, d.cut, d.increment)
    /\ \E m \in Nat :
         /\ d.i = m * d.increment
         /\ \A n \in 0..(m - 1) :
              Between(Place(d), n * d.increment, (n + 1) * d.increment) \cap used # {}
    /\ d.state \in {"utxos", "apply"} => Batch(d) \cap used # {}
    /\ Place(d) \notin d.failed =>
         /\ coins \cap Between(Place(d), 0, d.i) \subseteq d.found \cup d.cut
         /\ d.state = "utxos" =>
              coins \cap Between(Place(d), d.i, d.i + d.chunk) \subseteq d.got \cup d.cut
         /\ d.state = "apply" => coins \cap Batch(d) \subseteq d.got \cup d.cut

Walk(d) ==
    /\ Counted(d) /\ Located(d)
    /\ d.since <= version
    /\ d.since = version => Reached(d)

\* A piece of no length is empty.
LEMMA NoneBetween == ASSUME NEW b, NEW x \in Nat PROVE Between(b, x, x) = {}
<1>1. x..(x - 1) = {}
  OBVIOUS
<1> QED
  BY <1>1 DEF Between

\* What has been found on the branch the walk is on lies in the batches passed.
LEMMA FoundHere ==
    ASSUME NEW d \in Discoveries, Located(d)
    PROVE  Of(Place(d), d.found) \subseteq Between(Place(d), 0, d.i)
<1> SUFFICES ASSUME NEW a \in Of(Place(d), d.found), a \notin Between(Place(d), 0, d.i)
             PROVE  FALSE
  OBVIOUS
<1>1. a \in d.found /\ a.key = Branch(d.at).key /\ a.chain = Branch(d.at).chain
  BY DEF Of, Place
<1>2. PICK n \in 0..(d.at - 1) : a.key = Branch(n).key /\ a.chain = Branch(n).chain
  BY <1>1 DEF Located
<1>3. n \in Nat /\ d.at \in Nat /\ n # d.at
  BY DEF Discoveries
<1> QED
  BY <1>1, <1>2, <1>3, BranchesDiffer

\* The search of a branch ends where it should, unless a request has failed.
LEMMA ChainComplete ==
    ASSUME Types, NEW d \in Discoveries, Walk(d), d.since = version, d.state = "has",
           Place(d) \in d.failed \/ Batch(d) \cap used = {},
           NEW n \in 0..d.at
    PROVE  Searched(Branch(n), d.found, d.failed, d.cut, d.increment)
<1>1. d.at \in Nat /\ d.i \in Nat /\ d.increment \in Nat \ {0} /\ Reached(d)
  BY DEF Walk, Discoveries
<1>2. CASE n < d.at
  <2>1. n \in 0..(d.at - 1)
    BY <1>1, <1>2
  <2> QED
    BY <1>1, <2>1 DEF Reached
<1>3. CASE n = d.at
  <2> DEFINE c == d.increment
  <2>1. Branch(n) = Place(d)
    BY <1>3 DEF Place
  <2>2. Of(Place(d), d.found) \subseteq coins \cap Between(Place(d), 0, d.i)
    BY <1>1, FoundHere DEF Reached, Walk, Of
  <2>3. PICK m \in Nat :
          /\ d.i = m * c
          /\ \A k \in 0..(m - 1) : Between(Place(d), k * c, (k + 1) * c) \cap used # {}
    BY <1>1 DEF Reached
  <2>4. d.i + c = (m + 1) * c
    BY <1>1, <2>3
  <2>5. coins \subseteq Addresses
    BY DEF Types
  <2>6. /\ coins \cap Between(Place(d), 0, m * c) \subseteq InReach(Place(d), c)
        /\ Between(Place(d), m * c, (m + 1) * c) \cap used = {} =>
             InReach(Place(d), c) \subseteq coins \cap Between(Place(d), 0, m * c)
    BY <1>1, <2>3, <2>5, StopsAtGap
  <2>7. ASSUME Place(d) \notin d.failed
        PROVE  InReach(Place(d), c) \subseteq Of(Place(d), d.found) \cup d.cut
    <3>1. Between(Place(d), m * c, (m + 1) * c) \cap used = {}
      BY <2>3, <2>4, <2>7 DEF Batch
    <3>2. coins \cap Between(Place(d), 0, d.i) \subseteq d.found \cup d.cut
      BY <1>1, <2>7 DEF Reached
    <3>3. \A a \in InReach(Place(d), c) : a.key = Place(d).key /\ a.chain = Place(d).chain
      BY DEF InReach
    <3> QED
      BY <2>3, <2>6, <3>1, <3>2, <3>3 DEF Of
  <2> QED
    BY <2>1, <2>2, <2>3, <2>6, <2>7 DEF Searched
<1> QED
  BY <1>1, <1>2, <1>3

\* What has been found on a branch is not found on another one.
LEMMA FoundBehind ==
    ASSUME NEW d \in Discoveries, Located(d), NEW a \in d.found
    PROVE  \E n \in 0..d.at : a.key = Branch(n).key /\ a.chain = Branch(n).chain
<1>1. d.at \in Nat
  BY DEF Discoveries
<1>2. CASE \E n \in 0..(d.at - 1) : a.key = Branch(n).key /\ a.chain = Branch(n).chain
  BY <1>1, <1>2
<1>3. CASE a \in Between(Place(d), 0, d.i)
  <2>1. a.key = Branch(d.at).key /\ a.chain = Branch(d.at).chain
    BY <1>3 DEF Between, Place
  <2> QED
    BY <1>1, <2>1
<1> QED
  BY <1>2, <1>3 DEF Located

\* The walk goes on to the next branch.
LEMMA NextBranch ==
    ASSUME Types, NEW d \in Discoveries, Walk(d), d.state = "has",
           Place(d) \in d.failed \/ Batch(d) \cap used = {},
           NEW e \in Discoveries, e = [d EXCEPT !.state = "has", !.at = d.at + 1, !.i = 0]
    PROVE  Walk(e)
<1>1. /\ e.state = "has" /\ e.at = d.at + 1 /\ e.i = 0
      /\ e.found = d.found /\ e.got = d.got /\ e.count = d.count /\ e.balance = d.balance
      /\ e.increment = d.increment /\ e.since = d.since /\ e.failed = d.failed /\ e.cut = d.cut
  BY DEF Discoveries
<1>2. d.at \in Nat /\ d.increment \in Nat \ {0}
  BY DEF Discoveries
<1>3. 0..(e.at - 1) = 0..d.at
  BY <1>1, <1>2
<1>4. Counted(e)
  BY <1>1 DEF Walk, Counted
<1>5. \A a \in e.found : \E n \in 0..(e.at - 1) : a.key = Branch(n).key /\ a.chain = Branch(n).chain
  <2>1. ASSUME NEW a \in d.found
        PROVE  \E n \in 0..d.at : a.key = Branch(n).key /\ a.chain = Branch(n).chain
    <3>1. Located(d)
      BY DEF Walk
    <3> QED
      BY <3>1, FoundBehind
  <2> QED
    BY <1>1, <1>3, <2>1
<1>6. Located(e)
  <2>1. e.got = {}
    BY <1>1 DEF Walk, Located
  <2> QED
    BY <1>1, <1>5, <2>1 DEF Located
<1>7. ASSUME d.since = version PROVE Reached(e)
  <2>1. \A n \in 0..(e.at - 1) : Searched(Branch(n), e.found, e.failed, e.cut, e.increment)
    BY <1>1, <1>3, <1>7, ChainComplete
  <2>2. /\ e.i = 0 * e.increment
        /\ \A n \in 0..(0 - 1) :
             Between(Place(e), n * e.increment, (n + 1) * e.increment) \cap used # {}
    BY <1>1, <1>2
  <2>3. Between(Place(e), 0, 0) = {}
    BY NoneBetween
  <2>4. e.found \subseteq coins /\ e.got \subseteq coins
    BY <1>1, <1>7 DEF Walk, Reached
  <2>5. \E m \in Nat :
          /\ e.i = m * e.increment
          /\ \A n \in 0..(m - 1) :
               Between(Place(e), n * e.increment, (n + 1) * e.increment) \cap used # {}
    <3>1. 0 \in Nat
      OBVIOUS
    <3> QED
      BY <2>2, <3>1
  <2> QED
    BY <1>1, <2>1, <2>3, <2>4, <2>5 DEF Reached
<1> QED
  BY <1>1, <1>4, <1>6, <1>7 DEF Walk

\* A batch that has been used is asked for its coins.
LEMMA BatchBegins ==
    ASSUME Types, NEW d \in Discoveries, Walk(d), d.state = "has", Batch(d) \cap used # {},
           NEW e \in Discoveries, e = [d EXCEPT !.state = "utxos", !.chunk = 0, !.got = {}]
    PROVE  Walk(e)
<1>1. /\ e.state = "utxos" /\ e.at = d.at /\ e.i = d.i /\ e.chunk = 0 /\ e.got = {}
      /\ e.found = d.found /\ e.count = d.count /\ e.balance = d.balance
      /\ e.increment = d.increment /\ e.since = d.since /\ e.failed = d.failed /\ e.cut = d.cut
  BY DEF Discoveries
<1>2. d.i \in Nat /\ d.increment \in Nat \ {0}
  BY DEF Discoveries
<1>3. Counted(e)
  BY <1>1 DEF Walk, Counted
<1>4. Located(e)
  BY <1>1, <1>2 DEF Walk, Located, Place, Batch
<1>5. ASSUME d.since = version PROVE Reached(e)
  <2>1. Reached(d)
    BY <1>5 DEF Walk
  <2>2. Between(Place(e), e.i, e.i + e.chunk) = {}
    <3>1. e.i \in Nat /\ e.i + e.chunk = e.i
      BY <1>1, <1>2
    <3> QED
      BY <3>1, NoneBetween
  <2>3. Place(e) = Place(d) /\ Batch(e) = Batch(d)
    BY <1>1 DEF Place, Batch
  <2> QED
    BY <1>1, <2>1, <2>2, <2>3 DEF Reached
<1> QED
  BY <1>1, <1>3, <1>4, <1>5 DEF Walk

\* Of two numbers.
LEMMA MinOfTwo ==
    ASSUME NEW x \in Nat, NEW y \in Nat
    PROVE  Min({x, y}) = IF x <= y THEN x ELSE y
<1>1. ASSUME NEW m \in {x, y}, m <= x, m <= y
      PROVE  Min({x, y}) = m
  <2>1. \A n \in {x, y} : m <= n
    BY <1>1
  <2>2. Min({x, y}) \in {x, y} /\ \A n \in {x, y} : Min({x, y}) <= n
    BY <2>1 DEF Min
  <2> QED
    BY <1>1, <2>2
<1>2. x <= y => Min({x, y}) = x
  BY <1>1
<1>3. ~(x <= y) => Min({x, y}) = y
  BY <1>1
<1> QED
  BY <1>2, <1>3

\* Two pieces of a branch, side by side.
LEMMA BetweenJoined ==
    ASSUME NEW b, NEW x \in Nat, NEW y \in Nat, NEW z \in Nat, x <= y, y <= z
    PROVE  /\ Between(b, x, y) \cup Between(b, y, z) = Between(b, x, z)
           /\ Between(b, x, y) \cap Between(b, y, z) = {}
<1>1. \A a \in Addresses : a.index \in Nat
  BY BetweenIff
<1>2. ASSUME NEW k \in Nat
      PROVE  /\ k \in x..(z - 1) <=> k \in x..(y - 1) \/ k \in y..(z - 1)
             /\ ~(k \in x..(y - 1) /\ k \in y..(z - 1))
  OBVIOUS
<1> QED
  BY <1>1, <1>2 DEF Between

\* The chunk a discovery asks for lies in its batch.
LEMMA ChunkPlace ==
    ASSUME NEW d \in Discoveries, d.chunk < d.increment,
           NEW w, w = Min({ChunkSize, d.increment - d.chunk})
    PROVE  /\ w \in Nat /\ d.chunk + w <= d.increment
           /\ w = IF d.chunk + ChunkSize < d.increment THEN ChunkSize
                  ELSE d.increment - d.chunk
<1>1. /\ d.chunk \in Nat /\ d.increment \in Nat /\ ChunkSize \in Nat
      /\ d.increment - d.chunk \in Nat
  BY SweeperAssumption DEF Discoveries
<1>2. w = IF ChunkSize <= d.increment - d.chunk THEN ChunkSize ELSE d.increment - d.chunk
  BY <1>1, MinOfTwo
<1> QED
  BY <1>1, <1>2

\* A chunk has been asked for, and e is what comes of d.
AskedFor(d, e) ==
    LET w == Min({ChunkSize, d.increment - d.chunk})
        chunk == Between(Place(d), d.i + d.chunk, (d.i + d.chunk) + w)
    IN  /\ e.at = d.at /\ e.i = d.i /\ e.found = d.found /\ e.count = d.count
        /\ e.balance = d.balance /\ e.increment = d.increment /\ e.since = d.since
        /\ d.got \subseteq e.got /\ e.got \subseteq d.got \cup (chunk \cap coins)
        /\ d.failed \subseteq e.failed /\ d.cut \subseteq e.cut
        /\ (chunk \cap coins \subseteq e.got \cup e.cut) \/ Place(d) \in e.failed
        /\ \/ /\ d.chunk + ChunkSize < d.increment
              /\ e.state = "utxos" /\ e.chunk = d.chunk + ChunkSize
           \/ /\ ~(d.chunk + ChunkSize < d.increment) \/ Place(d) \in e.failed
              /\ e.state = "apply" /\ e.chunk = d.chunk

\* Then got has the coins of the chunk but for those cut off, or the request has failed.
LEMMA ChunkAsked ==
    ASSUME Types, NEW d \in Discoveries, Walk(d), d.state = "utxos",
           NEW e \in Discoveries, AskedFor(d, e)
    PROVE  Walk(e)
<1> DEFINE w == Min({ChunkSize, d.increment - d.chunk})
           chunk == Between(Place(d), d.i + d.chunk, (d.i + d.chunk) + w)
<1>0. w = Min({ChunkSize, d.increment - d.chunk})
  OBVIOUS
<1>1. /\ e.at = d.at /\ e.i = d.i /\ e.found = d.found /\ e.count = d.count
      /\ e.balance = d.balance /\ e.increment = d.increment /\ e.since = d.since
      /\ d.got \subseteq e.got /\ e.got \subseteq d.got \cup (chunk \cap coins)
      /\ d.failed \subseteq e.failed /\ d.cut \subseteq e.cut
      /\ (chunk \cap coins \subseteq e.got \cup e.cut) \/ Place(d) \in e.failed
      /\ \/ /\ d.chunk + ChunkSize < d.increment
            /\ e.state = "utxos" /\ e.chunk = d.chunk + ChunkSize
         \/ /\ ~(d.chunk + ChunkSize < d.increment) \/ Place(d) \in e.failed
            /\ e.state = "apply" /\ e.chunk = d.chunk
  BY DEF AskedFor
<1>a. chunk = Between(Place(d), d.i + d.chunk, (d.i + d.chunk) + w)
  OBVIOUS
<1> HIDE DEF w, chunk
<1>2. /\ d.i \in Nat /\ d.chunk \in Nat /\ d.increment \in Nat \ {0} /\ ChunkSize \in Nat \ {0}
      /\ d.chunk < d.increment
  BY SweeperAssumption DEF Discoveries, Walk, Located
<1>3. /\ w \in Nat /\ d.chunk + w <= d.increment
      /\ w = IF d.chunk + ChunkSize < d.increment THEN ChunkSize ELSE d.increment - d.chunk
  BY <1>0, <1>2, ChunkPlace
<1> DEFINE x == d.i
           y == d.i + d.chunk
           z == y + w
           t == d.i + d.increment
<1>4. /\ x \in Nat /\ y \in Nat /\ z \in Nat /\ t \in Nat
      /\ x <= y /\ y <= z /\ x <= z /\ z <= t
  BY <1>2, <1>3
<1>5. Between(Place(d), x, y) \cup chunk = Between(Place(d), x, z)
  BY <1>a, <1>4, BetweenJoined
<1>6. Between(Place(d), x, z) \subseteq Batch(d)
  <2>1. ASSUME NEW b, NEW k \in Nat, NEW l \in Nat, NEW m \in Nat, k <= l, l <= m
        PROVE  Between(b, k, l) \subseteq Between(b, k, m)
    BY <2>1, BetweenJoined
  <2>2. Between(Place(d), x, z) \subseteq Between(Place(d), x, t)
    <3> HIDE DEF x, y, z, t
    <3> QED
      BY <1>4, <2>1
  <2> QED
    BY <2>2 DEF Batch
<1>7. Place(e) = Place(d) /\ Batch(e) = Batch(d)
  BY <1>1 DEF Place, Batch
<1>8. Counted(e)
  BY <1>1 DEF Walk, Counted
<1>9. Located(e)
  <2>1. e.got \subseteq Batch(e)
    BY <1>1, <1>5, <1>6, <1>7 DEF Walk, Located
  <2>2. e.state = "utxos" => e.chunk < e.increment
    BY <1>1
  <2>3. e.state # "has"
    BY <1>1
  <2> QED
    BY <1>1, <1>7, <2>1, <2>2, <2>3 DEF Walk, Located
<1>10. ASSUME d.since = version PROVE Reached(e)
  <2>1. Reached(d)
    BY <1>10 DEF Walk
  <2>2. d.failed \subseteq e.failed /\ d.cut \subseteq e.cut
    BY <1>1
  <2>3. Place(e) \notin e.failed => coins \cap Between(Place(d), x, z) \subseteq e.got \cup e.cut
    <3>1. CASE Place(e) \notin e.failed
      <4>1. /\ chunk \cap coins \subseteq e.got \cup e.cut
            /\ coins \cap Between(Place(d), x, y) \subseteq d.got \cup d.cut
        BY <1>1, <1>7, <2>1, <2>2, <3>1 DEF Reached
      <4> QED
        BY <1>1, <1>5, <2>2, <4>1
    <3> QED
      BY <3>1
  <2>4. Place(e) \notin e.failed =>
          /\ e.state = "utxos" =>
               coins \cap Between(Place(e), e.i, e.i + e.chunk) \subseteq e.got \cup e.cut
          /\ e.state = "apply" => coins \cap Batch(e) \subseteq e.got \cup e.cut
    <3>1. CASE Place(e) \notin e.failed /\ e.state = "utxos"
      <4>1. e.i = x /\ e.i + e.chunk = z
        BY <1>1, <1>2, <1>3, <3>1
      <4> QED
        BY <1>7, <2>3, <3>1, <4>1
    <3>2. CASE Place(e) \notin e.failed /\ e.state = "apply"
      <4>1. z = t
        BY <1>1, <1>2, <1>3, <1>7, <3>2
      <4> QED
        BY <1>7, <2>3, <3>2, <4>1 DEF Batch
    <3> QED
      BY <1>1, <3>1, <3>2
  <2>5. e.found \subseteq coins /\ e.got \subseteq coins
    BY <1>1, <2>1 DEF Reached
  <2>6. \A n \in 0..(e.at - 1) : Searched(Branch(n), e.found, e.failed, e.cut, e.increment)
    BY <1>1, <2>1, <2>2 DEF Reached, Searched
  <2>7. Place(e) \notin e.failed =>
          coins \cap Between(Place(e), 0, e.i) \subseteq e.found \cup e.cut
    BY <1>1, <1>7, <2>1, <2>2 DEF Reached
  <2> QED
    BY <1>1, <1>7, <2>1, <2>4, <2>5, <2>6, <2>7 DEF Reached
<1> QED
  BY <1>1, <1>8, <1>9, <1>10 DEF Walk

\* What was set aside for this batch has not been found before.
LEMMA FoundOnce ==
    ASSUME NEW d \in Discoveries, Located(d)
    PROVE  d.found \cap d.got = {}
<1> SUFFICES ASSUME NEW a \in d.found, a \in d.got PROVE FALSE
  OBVIOUS
<1>1. d.at \in Nat /\ d.i \in Nat /\ d.increment \in Nat /\ d.i + d.increment \in Nat
  BY DEF Discoveries
<1>2. a \in Addresses /\ a \in Between(Place(d), d.i, d.i + d.increment)
  BY DEF Located, Batch, Discoveries
<1>3. a.key = Branch(d.at).key /\ a.chain = Branch(d.at).chain /\ d.i <= a.index /\ a.index \in Nat
  BY <1>1, <1>2, BetweenIff DEF Place
<1>4. CASE \E n \in 0..(d.at - 1) : a.key = Branch(n).key /\ a.chain = Branch(n).chain
  <2>1. PICK n \in 0..(d.at - 1) : a.key = Branch(n).key /\ a.chain = Branch(n).chain
    BY <1>4
  <2>2. n \in Nat /\ n # d.at
    BY <1>1
  <2> QED
    BY <1>1, <1>3, <2>1, <2>2, BranchesDiffer
<1>5. CASE a \in Between(Place(d), 0, d.i)
  <2>1. a.index < d.i
    BY <1>1, <1>2, <1>5, BetweenIff
  <2> QED
    BY <1>1, <1>3, <2>1
<1> QED
  BY <1>4, <1>5 DEF Located

\* The coins of a batch are added to those found, and the next batch begins.
LEMMA BatchAdded ==
    ASSUME Types, NEW d \in Discoveries, Walk(d), d.state = "apply",
           NEW e \in Discoveries,
           e = [d EXCEPT !.state = "has", !.i = d.i + d.increment, !.got = {}, !.chunk = 0,
                         !.found = d.found \cup d.got,
                         !.count = d.count + Cardinality(d.got),
                         !.balance = d.balance + Total(d.got)]
    PROVE  Walk(e)
<1>1. /\ e.state = "has" /\ e.at = d.at /\ e.i = d.i + d.increment /\ e.chunk = 0 /\ e.got = {}
      /\ e.found = d.found \cup d.got
      /\ e.count = d.count + Cardinality(d.got) /\ e.balance = d.balance + Total(d.got)
      /\ e.increment = d.increment /\ e.since = d.since /\ e.failed = d.failed /\ e.cut = d.cut
  BY DEF Discoveries
<1>2. /\ d.i \in Nat /\ d.increment \in Nat \ {0} /\ d.at \in Nat
      /\ d.i + d.increment \in Nat
      /\ d.found \in SUBSET Addresses /\ d.got \in SUBSET Addresses
  BY DEF Discoveries
<1>3. Located(d) /\ d.found \cap d.got = {}
  BY FoundOnce DEF Walk
<1>4. Place(e) = Place(d)
  BY <1>1 DEF Place
<1>5. /\ Between(Place(d), 0, d.i) \cup Batch(d) = Between(Place(d), 0, d.i + d.increment)
  <2>1. 0 \in Nat /\ 0 <= d.i /\ d.i <= d.i + d.increment
    BY <1>2
  <2> QED
    BY <1>2, <2>1, BetweenJoined DEF Batch
<1>6. Counted(e)
  <2>1. Cardinality(d.found \cup d.got) = Cardinality(d.found) + Cardinality(d.got)
    <3>1. /\ IsFiniteSet(d.found) /\ IsFiniteSet(d.got)
          /\ Cardinality(d.found) \in Nat /\ Cardinality(d.got) \in Nat
      BY <1>2, CountNat
    <3>2. /\ Cardinality(d.found \cup d.got)
               = Cardinality(d.found) + Cardinality(d.got) - Cardinality(d.found \cap d.got)
          /\ Cardinality(d.found \cap d.got) = 0
      BY <1>3, <3>1, FS_Union, FS_EmptySet
    <3> QED
      BY <3>1, <3>2
  <2>2. Total(d.found \cup d.got) = Total(d.found) + Total(d.got)
    BY <1>2, <1>3, TotalUnion
  <2> QED
    BY <1>1, <2>1, <2>2 DEF Walk, Counted
<1>7. Located(e)
  <2>1. ASSUME NEW a \in e.found
        PROVE  \/ \E n \in 0..(e.at - 1) : a.key = Branch(n).key /\ a.chain = Branch(n).chain
               \/ a \in Between(Place(e), 0, e.i)
    <3>1. CASE a \in d.found
      BY <1>1, <1>3, <1>4, <1>5, <3>1 DEF Located
    <3>2. CASE a \in d.got
      BY <1>1, <1>3, <1>4, <1>5, <3>2 DEF Located
    <3> QED
      BY <1>1, <3>1, <3>2
  <2> QED
    BY <1>1, <2>1 DEF Located
<1>8. ASSUME d.since = version PROVE Reached(e)
  <2>1. Reached(d)
    BY <1>8 DEF Walk
  <2>2. d.got \subseteq Batch(d)
    BY <1>3 DEF Located
  <2>3. ASSUME NEW n \in 0..(e.at - 1)
        PROVE  Searched(Branch(n), e.found, e.failed, e.cut, e.increment)
    <3>1. Of(Branch(n), d.got) = {}
      <4>1. ASSUME NEW a \in d.got, a.key = Branch(n).key, a.chain = Branch(n).chain PROVE FALSE
        <5>1. a.key = Branch(d.at).key /\ a.chain = Branch(d.at).chain
          BY <2>2 DEF Batch, Between, Place
        <5>2. n \in Nat /\ n # d.at
          BY <1>1, <1>2
        <5> QED
          BY <1>2, <4>1, <5>1, <5>2, BranchesDiffer
      <4> QED
        BY <4>1 DEF Of
    <3>2. Of(Branch(n), e.found) = Of(Branch(n), d.found)
      BY <1>1, <3>1 DEF Of
    <3>3. Searched(Branch(n), d.found, d.failed, d.cut, d.increment)
      BY <1>1, <2>1 DEF Reached
    <3> QED
      BY <1>1, <3>2, <3>3 DEF Searched
  <2>4. PICK m \in Nat :
          /\ d.i = m * d.increment
          /\ \A n \in 0..(m - 1) :
               Between(Place(d), n * d.increment, (n + 1) * d.increment) \cap used # {}
    BY <2>1 DEF Reached
  <2>5. e.i = (m + 1) * d.increment
    BY <1>1, <1>2, <2>4
  <2>6. ASSUME NEW n \in 0..((m + 1) - 1)
        PROVE  Between(Place(e), n * e.increment, (n + 1) * e.increment) \cap used # {}
    <3>1. CASE n \in 0..(m - 1)
      BY <1>1, <1>4, <2>4, <3>1
    <3>2. CASE n = m
      <4>1. Batch(d) \cap used # {}
        BY <2>1 DEF Reached
      <4>2. Batch(d) = Between(Place(e), n * e.increment, (n + 1) * e.increment)
        BY <1>1, <1>4, <2>4, <2>5, <3>2 DEF Batch
      <4> QED
        BY <4>1, <4>2
    <3> QED
      BY <3>1, <3>2
  <2>7. \E k \in Nat :
          /\ e.i = k * e.increment
          /\ \A n \in 0..(k - 1) :
               Between(Place(e), n * e.increment, (n + 1) * e.increment) \cap used # {}
    <3>1. m + 1 \in Nat /\ e.i = (m + 1) * e.increment
      BY <1>1, <2>5
    <3> QED
      BY <2>6, <3>1
  <2>8. ASSUME Place(e) \notin e.failed
        PROVE  coins \cap Between(Place(e), 0, e.i) \subseteq e.found \cup e.cut
    <3>1. /\ coins \cap Between(Place(d), 0, d.i) \subseteq d.found \cup d.cut
          /\ coins \cap Batch(d) \subseteq d.got \cup d.cut
      BY <1>1, <1>4, <2>1, <2>8 DEF Reached
    <3> QED
      BY <1>1, <1>4, <1>5, <3>1
  <2>9. e.found \subseteq coins /\ e.got \subseteq coins
    BY <1>1, <2>1 DEF Reached
  <2> QED
    BY <1>1, <2>3, <2>7, <2>8, <2>9 DEF Reached
<1> QED
  BY <1>1, <1>6, <1>7, <1>8 DEF Walk

\* A discovery begins at the first branch, with nothing found.
LEMMA WalkBegins ==
    ASSUME Types, NEW n \in Nat \ {0}, StartDiscovery(n)
    PROVE  Walk(discovery')
<1> DEFINE d == discovery'
<1>1. /\ d \in Discoveries /\ d.state = "has" /\ d.at = 0 /\ d.i = 0 /\ d.increment = n
      /\ d.got = {} /\ d.found = {} /\ d.count = 0 /\ d.balance = 0 /\ d.since = version
  BY StartDiscoveryFacts DEF StartDiscovery, NoDiscovery
<1> HIDE DEF d
<1>2. Counted(d)
  BY <1>1, FS_EmptySet, TotalSteps DEF Counted
<1>3. Located(d)
  BY <1>1 DEF Located
<1>4. Reached(d)
  <2>1. Between(Place(d), 0, d.i) = {}
    BY <1>1, NoneBetween
  <2>2. 0 \in Nat /\ d.i = 0 * d.increment
    BY <1>1
  <2>3. \A k \in 0..(0 - 1) :
          Between(Place(d), k * d.increment, (k + 1) * d.increment) \cap used # {}
    OBVIOUS
  <2>4. \E m \in Nat :
         /\ d.i = m * d.increment
         /\ \A k \in 0..(m - 1) :
              Between(Place(d), k * d.increment, (k + 1) * d.increment) \cap used # {}
    BY <2>2, <2>3
  <2>5. 0..(d.at - 1) = {}
    BY <1>1
  <2> QED
    BY <1>1, <2>1, <2>4, <2>5 DEF Reached
<1>5. version <= version
  BY DEF Types
<1>6. Walk(d)
  BY <1>1, <1>2, <1>3, <1>4, <1>5 DEF Walk
<1> QED
  BY <1>6 DEF d

\* What a discovery leaves in the sweeper's hands, on every branch it has searched.
Complete(utxos, failed, cut, c) ==
    \A n \in 0..(NKeys * NChains - 1) : Searched(Branch(n), utxos, failed, cut, c)
Within(utxos, c) ==
    \A n \in 0..(NKeys * NChains - 1) : Of(Branch(n), utxos) \subseteq InReach(Branch(n), c)
WalkEnds ==
    /\ discovery' = NoDiscovery
    /\ sweepData'.count = Cardinality(sweepData'.utxos)
    /\ sweepData'.balance = Total(sweepData'.utxos)
    /\ searched'.since = discovery.since
    /\ discovery.since = version =>
         Complete(sweepData'.utxos, searched'.failed, searched'.cut, discovery.increment)

\* A branch is left, for the next one or for good.
LEMMA BranchLeft ==
    ASSUME Types, NEW d \in Discoveries, Walk(d), d.state = "has", d.at < NKeys * NChains,
           d.since = discovery.since, d.increment = discovery.increment,
           Place(d) \in d.failed \/ Batch(d) \cap used = {},
           ChainDone(d)
    PROVE  \/ discovery'.state # "idle" /\ Walk(discovery') /\ UNCHANGED <<sweepData, searched>>
              /\ discovery'.since = d.since /\ discovery'.increment = d.increment
           \/ WalkEnds
<1>0. d.at \in Nat /\ NKeys * NChains \in Nat
  BY SweeperAssumption DEF Discoveries, NChains
<1>1. CASE d.at + 1 < NKeys * NChains
  <2> DEFINE e == [d EXCEPT !.state = "has", !.at = d.at + 1, !.i = 0]
  <2>1. discovery' = e /\ UNCHANGED <<sweepData, searched>>
    BY <1>1 DEF ChainDone
  <2>2. e \in Discoveries
    <3>1. ASSUME NEW n \in Nat
          PROVE  [d EXCEPT !.state = "has", !.at = n, !.i = 0] \in Discoveries
      BY DEF Discoveries
    <3>2. d.at + 1 \in Nat
      BY <1>0
    <3> QED
      BY <3>1, <3>2
  <2>3. e.state = "has" /\ e.since = d.since /\ e.increment = d.increment
    BY DEF Discoveries
  <2>4. Walk(e)
    BY <2>2, NextBranch
  <2> HIDE DEF e
  <2> QED
    BY <2>1, <2>3, <2>4
<1>2. CASE ~(d.at + 1 < NKeys * NChains)
  <2>1. /\ discovery' = NoDiscovery
        /\ sweepData' = [utxos |-> d.found, count |-> d.count, balance |-> d.balance]
        /\ searched' = [since |-> d.since, failed |-> d.failed, cut |-> d.cut]
    BY <1>2 DEF ChainDone
  <2>2. NKeys * NChains - 1 = d.at
    BY <1>0, <1>2
  <2>3. sweepData'.utxos = d.found
    BY <2>1
  <2>4. ASSUME d.since = version PROVE Complete(d.found, d.failed, d.cut, d.increment)
    BY <2>2, <2>4, ChainComplete DEF Complete
  <2> QED
    BY <2>1, <2>3, <2>4 DEF WalkEnds, Walk, Counted
<1> QED
  BY <1>1, <1>2

WalkInv == discovery.state # "idle" => Walk(discovery)

\* A branch where something has failed.
LEMMA WalkSpoilt ==
    ASSUME NEW d \in Discoveries, Walk(d), NEW b \in Branches
    PROVE  Walk([d EXCEPT !.failed = d.failed \cup {b}])
<1> DEFINE e == [d EXCEPT !.failed = d.failed \cup {b}]
<1>1. /\ e.state = d.state /\ e.at = d.at /\ e.i = d.i /\ e.chunk = d.chunk /\ e.got = d.got
      /\ e.found = d.found /\ e.count = d.count /\ e.balance = d.balance
      /\ e.increment = d.increment /\ e.since = d.since
      /\ e.failed = d.failed \cup {b} /\ e.cut = d.cut
  BY DEF Discoveries
<1> HIDE DEF e
<1>2. Place(e) = Place(d) /\ Batch(e) = Batch(d)
  BY <1>1 DEF Place, Batch
<1>3. Counted(e) /\ Located(e)
  BY <1>1, <1>2 DEF Walk, Counted, Located
<1>4. ASSUME d.since = version PROVE Reached(e)
  <2>1. Reached(d) /\ d.failed \subseteq e.failed
    BY <1>1, <1>4 DEF Walk
  <2>2. \A n \in 0..(e.at - 1) : Searched(Branch(n), e.found, e.failed, e.cut, e.increment)
    BY <1>1, <2>1 DEF Reached, Searched
  <2> QED
    BY <1>1, <1>2, <2>1, <2>2 DEF Reached
<1>5. Walk(e)
  BY <1>1, <1>3, <1>4 DEF Walk
<1> QED
  BY <1>5 DEF e

\* A step that stays in the hands of the discovery leaves it a discovery.
LEMMA StaysDiscovery ==
    ASSUME ToolInv, Discover, discovery' # NoDiscovery
    PROVE  discovery' \in Discoveries /\ UNCHANGED sweepData
BY DiscoverFacts DEF ToolInv, GoesOn, IsOver, Sound

\* Coins are asked for: what the answer lacks is cut off, or the request has failed.
LEMMA ChunkWalks ==
    ASSUME ToolInv, WalkInv, GetUTXOs \/ GetUTXOsFails
    PROVE  /\ discovery'.state # "idle" /\ Walk(discovery') /\ UNCHANGED <<sweepData, searched>>
           /\ discovery'.since = discovery.since /\ discovery'.increment = discovery.increment
<1> DEFINE d == discovery
           w == Min({ChunkSize, d.increment - d.chunk})
           Asked(page, failed, cut, state, asked) ==
             [d EXCEPT !.got = d.got \cup page, !.failed = failed, !.cut = cut, !.state = state, !.chunk = asked]
           Next1(page, failed, cut) ==
             IF d.chunk + ChunkSize < d.increment
             THEN Asked(page, failed, cut, "utxos", d.chunk + ChunkSize)
             ELSE Asked(page, failed, cut, "apply", d.chunk)
<1>1. /\ Types /\ d \in Discoveries /\ d.state = "utxos" /\ Walk(d)
      /\ UNCHANGED <<sweepData, searched>>
  BY DEF ToolInv, Types, WalkInv, GetUTXOs, GetUTXOsFails
<1>2. Chunk = Between(Place(d), d.i + d.chunk, (d.i + d.chunk) + w) /\ Here = Place(d)
  BY DEF Chunk, Here, Place
<1>3. ASSUME NEW page, NEW failed, NEW cut
      PROVE  NextChunk([d EXCEPT !.got = d.got \cup page, !.failed = failed, !.cut = cut]) = Next1(page, failed, cut)
  <2> DEFINE e == [d EXCEPT !.got = d.got \cup page, !.failed = failed, !.cut = cut]
  <2>1. e.chunk = d.chunk /\ e.increment = d.increment
    BY <1>1 DEF Discoveries
  <2>2. ASSUME NEW n PROVE [e EXCEPT !.chunk = n] = Asked(page, failed, cut, "utxos", n)
    BY <1>1 DEF Discoveries
  <2>3. [e EXCEPT !.state = "apply"] = Asked(page, failed, cut, "apply", d.chunk)
    BY <1>1 DEF Discoveries
  <2>4. NextChunk(e) = IF d.chunk + ChunkSize < d.increment
                       THEN [e EXCEPT !.chunk = d.chunk + ChunkSize]
                       ELSE [e EXCEPT !.state = "apply"]
    <3> HIDE DEF e
    <3> QED
      BY <2>1 DEF NextChunk
  <2> QED
    BY <2>2, <2>3, <2>4
<1>4. ASSUME NEW page, NEW failed, NEW cut, NEW state, NEW asked
      PROVE  /\ Asked(page, failed, cut, state, asked).state = state
             /\ Asked(page, failed, cut, state, asked).since = d.since
             /\ Asked(page, failed, cut, state, asked).increment = d.increment
  BY <1>1 DEF Discoveries
<1>5. PICK page \in SUBSET (Chunk \cap coins), failed \in {d.failed, d.failed \cup {Here}},
           cut \in SUBSET (d.cut \cup Chunk) :
        /\ d.cut \subseteq cut
        /\ Chunk \cap coins \subseteq page \cup cut \/ Here \in failed
        /\ \/ discovery' = Next1(page, failed, cut)
           \/ Here \in failed /\ discovery' = Asked(page, failed, cut, "apply", d.chunk)
  <2>1. CASE GetUTXOs
    <3>1. PICK page \in Answers(Chunk \cap coins) :
            discovery' = NextChunk([d EXCEPT
              !.got = d.got \cup page, !.cut = d.cut \cup ((Chunk \cap coins) \ page)])
      BY <2>1 DEF GetUTXOs
    <3> DEFINE cut == d.cut \cup ((Chunk \cap coins) \ page)
    <3>2. page \in SUBSET (Chunk \cap coins)
      BY <3>1 DEF Answers, Pages
    <3>3. d.cut \subseteq cut /\ Chunk \cap coins \subseteq page \cup cut /\ cut \in SUBSET (d.cut \cup Chunk)
      OBVIOUS
    <3>4. [d EXCEPT !.got = d.got \cup page, !.cut = cut]
            = [d EXCEPT !.got = d.got \cup page, !.failed = d.failed, !.cut = cut]
      BY <1>1 DEF Discoveries
    <3>5. discovery' = Next1(page, d.failed, cut)
      <4> HIDE DEF d, cut, Next1, Asked
      <4> QED
        BY <1>3, <3>1, <3>4 DEF cut
    <3> HIDE DEF cut, Next1, Asked
    <3> QED
      BY <3>2, <3>3, <3>5
  <2>2. CASE GetUTXOsFails
    <3> DEFINE failed == d.failed \cup {Here}
    <3>1. [d EXCEPT !.failed = failed]
            = [d EXCEPT !.got = d.got \cup {}, !.failed = failed, !.cut = d.cut]
      BY <1>1 DEF Discoveries
    <3>2. [[d EXCEPT !.failed = failed] EXCEPT !.state = "apply"]
            = Asked({}, failed, d.cut, "apply", d.chunk)
      BY <1>1 DEF Discoveries
    <3>3. \/ discovery' = Next1({}, failed, d.cut)
          \/ discovery' = Asked({}, failed, d.cut, "apply", d.chunk)
      <4>1. \/ discovery' = [[d EXCEPT !.failed = failed] EXCEPT !.state = "apply"]
            \/ discovery' = NextChunk([d EXCEPT !.failed = failed])
        BY <2>2 DEF GetUTXOsFails
      <4>2. NextChunk([d EXCEPT !.failed = failed]) = Next1({}, failed, d.cut)
        <5> HIDE DEF failed, Next1, Asked, d
        <5>1. NextChunk([d EXCEPT !.got = d.got \cup {}, !.failed = failed, !.cut = d.cut])
                = Next1({}, failed, d.cut)
          BY <1>3
        <5> QED
          BY <3>1, <5>1
      <4> HIDE DEF failed, Next1, Asked
      <4> QED
        BY <3>2, <4>1, <4>2
    <3>4. /\ {} \in SUBSET (Chunk \cap coins) /\ Here \in failed
          /\ failed \in {d.failed, d.failed \cup {Here}} /\ d.cut \in SUBSET (d.cut \cup Chunk)
      OBVIOUS
    <3> HIDE DEF failed, Next1, Asked
    <3> QED
      BY <3>3, <3>4
  <2> QED
    BY <2>1, <2>2
<1>6. PICK state \in {"utxos", "apply"}, asked \in {d.chunk, d.chunk + ChunkSize} :
        /\ discovery' = Asked(page, failed, cut, state, asked)
        /\ \/ /\ d.chunk + ChunkSize < d.increment
              /\ state = "utxos" /\ asked = d.chunk + ChunkSize
           \/ /\ ~(d.chunk + ChunkSize < d.increment) \/ Here \in failed
              /\ state = "apply" /\ asked = d.chunk
  <2> HIDE DEF Asked
  <2> QED
    BY <1>5
<1>7. /\ discovery'.state = state /\ state # "idle"
      /\ discovery'.since = d.since /\ discovery'.increment = d.increment
  BY <1>4, <1>6
<1>8. discovery' \in Discoveries
  BY <1>7, StaysDiscovery DEF NoDiscovery, Discover
<1>9. Walk(discovery')
  <2>1. /\ discovery'.at = d.at /\ discovery'.i = d.i /\ discovery'.found = d.found
        /\ discovery'.count = d.count /\ discovery'.balance = d.balance
        /\ discovery'.increment = d.increment /\ discovery'.since = d.since
        /\ discovery'.got = d.got \cup page /\ discovery'.failed = failed
        /\ discovery'.cut = cut /\ discovery'.state = state /\ discovery'.chunk = asked
    BY <1>1, <1>6 DEF Discoveries
  <2>2. /\ page \subseteq Chunk \cap coins /\ d.failed \subseteq failed /\ d.cut \subseteq cut
        /\ (Chunk \cap coins \subseteq page \cup cut) \/ Place(d) \in failed
    BY <1>2, <1>5
  <2>3. \/ /\ d.chunk + ChunkSize < d.increment
           /\ state = "utxos" /\ asked = d.chunk + ChunkSize
        \/ /\ ~(d.chunk + ChunkSize < d.increment) \/ Place(d) \in failed
           /\ state = "apply" /\ asked = d.chunk
    BY <1>2, <1>6
  <2>4. AskedFor(d, discovery')
    <3> HIDE DEF d, Asked, Next1
    <3> QED
      BY <1>2, <2>1, <2>2, <2>3 DEF AskedFor, w
  <2> HIDE DEF d
  <2> QED
    BY <1>1, <1>8, <2>4, ChunkAsked
<1> QED
  BY <1>1, <1>7, <1>9

\* Every step of a discovery goes on with the walk, or ends it.
LEMMA DiscoverWalks ==
    ASSUME ToolInv, WalkInv, Discover
    PROVE  \/ discovery'.state # "idle" /\ Walk(discovery') /\ UNCHANGED <<sweepData, searched>>
              /\ discovery'.since = discovery.since /\ discovery'.increment = discovery.increment
           \/ WalkEnds
<1> DEFINE d == discovery
<1>1. /\ Types /\ d \in Discoveries /\ d.at < NKeys * NChains /\ d.state # "idle" /\ Walk(d)
  BY DiscoverFacts DEF ToolInv, Types, WalkInv
<1>2. Here = Place(d) /\ BatchAddresses = Batch(d)
  BY DEF Here, Place, BatchAddresses, Batch
<1>3. Here \in Branches
  BY <1>1, BranchFacts DEF Here, Discoveries
<1>4. CASE HasTransactions
  <2>1. CASE BatchAddresses \cap used # {}
             /\ discovery' = [discovery EXCEPT !.state = "utxos", !.chunk = 0, !.got = {}]
             /\ UNCHANGED <<sweepData, searched>>
    <3>1. d.state = "has"
      BY <1>4 DEF HasTransactions
    <3>2. discovery' \in Discoveries
      <4>1. ASSUME NEW s \in SUBSET Addresses
            PROVE  [discovery EXCEPT !.state = "utxos", !.chunk = 0, !.got = s] \in Discoveries
        BY <1>1 DEF Discoveries
      <4> QED
        BY <2>1, <4>1
    <3>3. /\ discovery'.state = "utxos" /\ discovery'.since = d.since
          /\ discovery'.increment = d.increment
      BY <1>1, <2>1 DEF Discoveries
    <3>4. Walk(discovery')
      BY <1>1, <1>2, <2>1, <3>1, <3>2, BatchBegins
    <3> QED
      BY <2>1, <3>3, <3>4
  <2>2. CASE BatchAddresses \cap used = {} /\ ChainDone(discovery)
    <3>1. d.state = "has"
      BY <1>4 DEF HasTransactions
    <3> QED
      BY <1>1, <1>2, <2>2, <3>1, BranchLeft
  <2> QED
    BY <1>4, <2>1, <2>2 DEF HasTransactions
<1>5. CASE HasTransactionsFails
  <2> DEFINE e == [discovery EXCEPT !.failed = discovery.failed \cup {Here}]
  <2>1. ChainDone(e) /\ d.state = "has"
    BY <1>5 DEF HasTransactionsFails
  <2>2. /\ e \in Discoveries /\ e.state = d.state /\ e.at = d.at /\ e.since = d.since
        /\ e.increment = d.increment /\ Here \in e.failed
    BY <1>1, <1>3 DEF Discoveries
  <2>3. Place(e) = Here
    BY <1>2, <2>2 DEF Place
  <2>4. Walk(e)
    BY <1>1, <1>3, WalkSpoilt
  <2> HIDE DEF e
  <2>5. Place(e) \in e.failed /\ e.at < NKeys * NChains /\ e.state = "has"
    BY <1>1, <2>1, <2>2, <2>3
  <2> QED
    BY <1>1, <2>1, <2>2, <2>4, <2>5, BranchLeft
<1>6. CASE GetUTXOs
  BY <1>6, ChunkWalks
<1>7. CASE GetUTXOsFails
  BY <1>7, ChunkWalks
<1>8. CASE AddUTXOs
  <2>1. /\ d.state = "apply" /\ UNCHANGED <<sweepData, searched>>
        /\ discovery' = [d EXCEPT !.state = "has", !.i = d.i + d.increment, !.got = {}, !.chunk = 0,
                         !.found = d.found \cup d.got,
                         !.count = d.count + Cardinality(d.got),
                         !.balance = d.balance + Total(d.got)]
    BY <1>8 DEF AddUTXOs
  <2>2. discovery' \in Discoveries /\ discovery'.state = "has"
    <3>1. discovery'.state = "has"
      BY <1>1, <2>1 DEF Discoveries
    <3> QED
      BY <1>8, <3>1, StaysDiscovery DEF NoDiscovery, Discover
  <2>3. Walk(discovery')
    BY <1>1, <2>1, <2>2, BatchAdded
  <2>4. discovery'.since = d.since /\ discovery'.increment = d.increment
    BY <1>1, <2>1 DEF Discoveries
  <2> QED
    BY <2>1, <2>2, <2>3, <2>4
<1>9. CASE HasTransactionsAgain
  BY <1>1, <1>9 DEF HasTransactionsAgain
<1> QED
  BY <1>4, <1>5, <1>6, <1>7, <1>8, <1>9 DEF Discover

Divides(c, n) == \E k \in Nat \ {0} : n = k * c

\* What was found last is in reach, as long as the network is as it was then, with
\* batches of a size that divides the tool's and that of a discovery under way.
Remembered(c) ==
    /\ Divides(c, batchSize)
    /\ discovery.state # "idle" => Divides(c, discovery.increment)
    /\ Within(sweepData.utxos, c)
HistoryInv ==
    /\ searched.since \in Nat /\ searched.since <= version
    /\ discovery.state # "idle" =>
         searched.since <= discovery.since /\ Divides(discovery.increment, batchSize)
    /\ sweepData # None /\ searched.since = version =>
         \E c \in Nat \ {0} : Remembered(c)

WalksOn == UNCHANGED <<setup, used, coins, version, batchSize>> /\ Discover
Keeps ==
    /\ UNCHANGED <<setup, used, coins, version, discovery, sweepData, searched>>
    /\ batchSize' \in {batchSize, batchSize * 2}
Begins ==
    /\ UNCHANGED <<setup, used, coins, version, sweepData, searched, batchSize>>
    /\ discovery.state = "idle" /\ StartDiscovery(batchSize)
Changes ==
    /\ UNCHANGED <<setup, discovery, sweepData, searched, batchSize>>
    /\ version' = version + 1

\* What a step of the whole can mean to what is found.
LEMMA StepKinds == ToolInv /\ [Next]_vars => WalksOn \/ Keeps \/ Begins \/ Changes
<1> SUFFICES ASSUME ToolInv, [Next]_vars PROVE WalksOn \/ Keeps \/ Begins \/ Changes
  OBVIOUS
<1>1. CASE Progress
  <2>1. CASE Discover /\ UNCHANGED toolVars
    <3>1. UNCHANGED <<setup, network>>
      BY <2>1, DiscoverFacts DEF ToolInv
    <3> QED
      BY <2>1, <3>1 DEF WalksOn, toolVars, network
  <2>2. CASE Sweep /\ UNCHANGED toolVars
    BY <2>2 DEF Sweep, SweepDiscovered, EstimateFee, CreateTransaction, Keeps, toolVars, network
  <2>3. CASE StartDiscovering
    <3>1. discovery.state = "idle"
      <4>1. op = {"discover"}
        BY <2>3, Alone DEF StartDiscovering
      <4> QED
        BY <4>1 DEF ToolInv, OneOperation
    <3> QED
      BY <2>3, <3>1 DEF StartDiscovering, Begins, network
  <2>4. CASE FundsDiscovered \/ RetryDoubles \/ RetryStarts
    BY <2>4 DEF FundsDiscovered, RetryDoubles, RetryStarts, Keeps, sweeperVars, network
  <2>5. CASE Swept \/ Cosigned \/ NotSwept
    BY <2>5 DEF Swept, Cosigned, NotSwept, Keeps, network
  <2>6. CASE Sent
    BY <2>6 DEF Sent, Keeps, Changes
  <2> QED
    BY <1>1, <2>1, <2>2, <2>3, <2>4, <2>5, <2>6 DEF Progress
<1>2. CASE User
  <2>1. CASE DiscoverFunds \/ Retry \/ SendTx
    BY <2>1 DEF DiscoverFunds, Retry, SendTx, Keeps, sweeperVars, network
  <2>2. CASE RecoverFunds
    <3>1. discovery.state = "idle"
      BY <2>2, Idle DEF RecoverFunds
    <3>2. StartDiscovery(batchSize) \/ UNCHANGED discovery
      BY <2>2 DEF RecoverFunds, StartSweep
    <3> QED
      BY <2>2, <3>1, <3>2 DEF RecoverFunds, Keeps, Begins, network
  <2> QED
    BY <1>2, <2>1, <2>2 DEF User
<1>3. CASE LedgerChanges /\ UNCHANGED toolVars
  BY <1>3 DEF LedgerChanges, Changes, toolVars
<1>4. CASE UNCHANGED vars
  BY <1>4 DEF vars, sweeperVars, toolVars, network, Keeps
<1> QED
  BY <1>1, <1>2, <1>3, <1>4 DEF Next

\* Seen from the next state, when the network is as it was.
LEMMA WalkPrimed ==
    ASSUME UNCHANGED <<setup, used, coins, version>>, Walk(discovery')
    PROVE  Walk(discovery)'
<1>1. Counted(discovery)'
  BY DEF Walk, Counted
<1>2. Located(discovery)'
  BY DEF Walk, Located, Place, Batch, Branch, NChains, Between
<1>3. ASSUME discovery'.since = version PROVE Reached(discovery)'
  <2>1. ASSUME NEW n
        PROVE  /\ Branch(n)' = Branch(n)
               /\ Searched(Branch(n), discovery.found, discovery.failed, discovery.cut,
                           discovery.increment)'
                    <=> Searched(Branch(n), discovery'.found, discovery'.failed, discovery'.cut,
                                 discovery'.increment)
    BY DEF Branch, NChains, Of, InReach, Between, Searched
  <2>2. ASSUME NEW n
        PROVE  Between(Place(discovery), n * discovery.increment, (n + 1) * discovery.increment)'
                 = Between(Place(discovery'), n * discovery'.increment, (n + 1) * discovery'.increment)
    BY DEF Branch, NChains, Place, Between
  <2>3. /\ Place(discovery)' = Place(discovery')
        /\ Batch(discovery)' = Batch(discovery')
        /\ Between(Place(discovery), 0, discovery.i)' = Between(Place(discovery'), 0, discovery'.i)
        /\ Between(Place(discovery), discovery.i, discovery.i + discovery.chunk)'
             = Between(Place(discovery'), discovery'.i, discovery'.i + discovery'.chunk)
    BY DEF Branch, NChains, Place, Batch, Between
  <2>4. Reached(discovery')
    BY <1>3 DEF Walk
  <2> QED
    BY <2>1, <2>2, <2>3, <2>4 DEF Reached
<1> QED
  BY <1>1, <1>2, <1>3 DEF Walk

\* Every step keeps the walk of a discovery under way.
LEMMA WalkStays == ToolInv /\ WalkInv /\ [Next]_vars => WalkInv'
<1> SUFFICES ASSUME ToolInv, WalkInv, [Next]_vars, (discovery.state # "idle")'
             PROVE  Walk(discovery)'
  BY DEF WalkInv
<1>1. CASE WalksOn
  <2>1. Walk(discovery')
    BY <1>1, DiscoverWalks DEF WalksOn, WalkEnds, NoDiscovery
  <2> QED
    BY <1>1, <2>1, WalkPrimed DEF WalksOn
<1>2. CASE Keeps
  <2>1. Walk(discovery')
    BY <1>2 DEF Keeps, WalkInv
  <2> QED
    BY <1>2, <2>1, WalkPrimed DEF Keeps
<1>3. CASE Begins
  <2>1. Types /\ batchSize \in Nat \ {0}
    BY DEF ToolInv, Types
  <2>2. Walk(discovery')
    BY <1>3, <2>1, WalkBegins DEF Begins
  <2> QED
    BY <1>3, <2>2, WalkPrimed DEF Begins
<1>4. CASE Changes
  <2>1. Walk(discovery) /\ discovery' = discovery /\ setup' = setup /\ version' = version + 1
    BY <1>4 DEF Changes, WalkInv
  <2>2. discovery.since \in Nat /\ version \in Nat /\ discovery.since <= version
    BY <2>1 DEF ToolInv, Types, Discoveries, Walk
  <2>3. discovery'.since <= version' /\ discovery'.since # version'
    BY <2>1, <2>2
  <2>4. Counted(discovery)'
    BY <2>1 DEF Walk, Counted
  <2>5. Located(discovery)'
    BY <2>1 DEF Walk, Located, Place, Batch, Branch, NChains, Between
  <2> QED
    BY <2>3, <2>4, <2>5 DEF Walk
<1> QED
  BY <1>1, <1>2, <1>3, <1>4, StepKinds

\* A discovery that ends has come to the end of its walk.
LEMMA FinishesWalk ==
    ASSUME ToolInv, WalkInv, [Next]_vars, Finishes
    PROVE  WalkEnds /\ UNCHANGED <<setup, used, coins, version, batchSize>>
<1>1. WalksOn
  BY StepKinds DEF Keeps, Begins, Changes, StartDiscovery, NoDiscovery, Finishes
<1> QED
  BY <1>1, DiscoverWalks DEF WalksOn, Finishes

\* What the sweeper holds at the end of a discovery.
LEMMA FinishesComplete ==
    ToolInv /\ WalkInv /\ [Next]_vars =>
      (Finishes =>
         /\ sweepData'.count = Cardinality(sweepData'.utxos)
         /\ sweepData'.balance = Total(sweepData'.utxos)
         /\ discovery.since = version =>
              \A b \in SearchedBranches :
                LET found == Of(b, sweepData'.utxos)
                    inReach == InReach(b, discovery.increment)
                IN  /\ found \subseteq inReach
                    /\ b \notin searched'.failed => inReach \subseteq found \cup searched'.cut)
<1> SUFFICES ASSUME ToolInv, WalkInv, [Next]_vars, Finishes
             PROVE  /\ sweepData'.count = Cardinality(sweepData'.utxos)
                    /\ sweepData'.balance = Total(sweepData'.utxos)
                    /\ discovery.since = version =>
                         \A b \in SearchedBranches :
                           LET found == Of(b, sweepData'.utxos)
                               inReach == InReach(b, discovery.increment)
                           IN  /\ found \subseteq inReach
                               /\ b \notin searched'.failed => inReach \subseteq found \cup searched'.cut
  OBVIOUS
<1>1. WalkEnds
  BY FinishesWalk
<1>2. ASSUME discovery.since = version, NEW b \in SearchedBranches
      PROVE  Searched(b, sweepData'.utxos, searched'.failed, searched'.cut, discovery.increment)
  <2>1. PICK n \in 0..(NKeys * NChains - 1) : b = Branch(n)
    BY DEF SearchedBranches
  <2> QED
    BY <1>1, <1>2, <2>1 DEF WalkEnds, Complete
<1> QED
  BY <1>1, <1>2 DEF WalkEnds, Searched

\* Nothing has been discovered when the page is opened.
LEMMA WalkInit == Init => WalkInv /\ HistoryInv
<1> SUFFICES ASSUME Init PROVE WalkInv /\ HistoryInv
  OBVIOUS
<1>1. discovery.state = "idle" /\ sweepData = None /\ searched.since = 0 /\ version = 0
  BY DEF Init, SweeperInit, NoDiscovery
<1> QED
  BY <1>1 DEF WalkInv, HistoryInv

\* Discovery ends with coins in reach (discoverWalletFunds, whatever the size of its
\* batches and of the chunks they are asked for in): on every key and chain unspent
\* outputs of the batches before the first unused one, whose number and sum are what it
\* reports.  Where no request has failed all of them are found, except those that stood
\* beyond the first page of an answer (getBatchUnspentOutputs of the blocktrail service).
THEOREM FindsThemAll == Spec => FindsInReach
<1>1. Spec => []ToolInv
  BY InitInv, Invariance, PTL DEF Spec
<1>2. Spec => []WalkInv
  BY <1>1, WalkInit, WalkStays, PTL DEF Spec
<1> QED
  BY <1>1, <1>2, FinishesComplete, PTL DEF Spec, FindsInReach

\* Doubling a size keeps its divisors.
LEMMA DividesTwice ==
    ASSUME NEW c \in Nat \ {0}, NEW n \in Nat \ {0}
    PROVE  /\ Divides(n, n)
           /\ Divides(c, n) => Divides(c, n * 2)
<1>1. 1 \in Nat \ {0} /\ n = 1 * n
  OBVIOUS
<1>2. ASSUME NEW k \in Nat \ {0}, n = k * c PROVE k * 2 \in Nat \ {0} /\ n * 2 = (k * 2) * c
  BY <1>2
<1> QED
  BY <1>1, <1>2 DEF Divides

\* Seen from the next state, when the network is as it was.
LEMMA WithinPrimed ==
    ASSUME UNCHANGED <<setup, used, coins>>, NEW c, Within(sweepData'.utxos, c)
    PROVE  Within(sweepData.utxos, c)'
<1>1. ASSUME NEW n
      PROVE  /\ Of(Branch(n), sweepData.utxos)' = Of(Branch(n), sweepData'.utxos)
             /\ InReach(Branch(n), c)' = InReach(Branch(n), c)
  BY DEF Branch, NChains, Of, InReach, Between
<1>2. NChains' = NChains
  BY DEF NChains
<1> QED
  BY <1>1, <1>2 DEF Within

\* Every step keeps what is known of the discovery before.
LEMMA HistoryStays == ToolInv /\ WalkInv /\ HistoryInv /\ [Next]_vars => HistoryInv'
<1> SUFFICES ASSUME ToolInv, WalkInv, HistoryInv, [Next]_vars PROVE HistoryInv'
  OBVIOUS
<1>1. /\ Types /\ version \in Nat /\ batchSize \in Nat \ {0} /\ discovery \in Discoveries
      /\ discovery.since \in Nat /\ discovery.increment \in Nat \ {0}
  BY DEF ToolInv, Types, Discoveries
<1>2. CASE /\ UNCHANGED <<setup, used, coins, version, sweepData, searched>>
           /\ batchSize' \in {batchSize, batchSize * 2}
           /\ discovery'.state # "idle" =>
                \/ /\ discovery.state # "idle"
                   /\ discovery'.since = discovery.since /\ discovery'.increment = discovery.increment
                \/ /\ discovery'.since = version /\ discovery'.increment = batchSize
                   /\ batchSize' = batchSize
  <2>1. ASSUME discovery'.state # "idle"
        PROVE  searched'.since <= discovery'.since /\ Divides(discovery'.increment, batchSize')
    BY <1>1, <1>2, <2>1, DividesTwice DEF HistoryInv
  <2>2. ASSUME sweepData' # None, searched'.since = version'
        PROVE  \E c \in Nat \ {0} : Remembered(c)'
    <3>2. PICK c \in Nat \ {0} : Remembered(c)
      BY <1>2, <2>2 DEF HistoryInv
    <3>3. Divides(c, batchSize')
      BY <1>1, <1>2, <3>2, DividesTwice DEF Remembered
    <3>4. discovery'.state # "idle" => Divides(c, discovery'.increment)
      BY <1>2, <3>2 DEF Remembered
    <3>5. Within(sweepData'.utxos, c)
      BY <1>2, <3>2 DEF Remembered
    <3>6. Within(sweepData.utxos, c)'
      BY <1>2, <3>5, WithinPrimed
    <3> QED
      BY <3>3, <3>4, <3>6 DEF Remembered
  <2> QED
    BY <1>2, <2>1, <2>2 DEF HistoryInv
<1>3. CASE WalksOn /\ WalkEnds
  <2>1. /\ UNCHANGED <<setup, used, coins, version, batchSize>>
        /\ discovery'.state = "idle" /\ searched'.since = discovery.since
        /\ discovery.since = version =>
             Complete(sweepData'.utxos, searched'.failed, searched'.cut, discovery.increment)
    BY <1>3 DEF WalksOn, WalkEnds, NoDiscovery
  <2>2. discovery.state # "idle" /\ discovery.since <= version
    BY <1>3, DiscoverFacts DEF ToolInv, WalksOn, WalkInv, Walk
  <2>3. searched'.since \in Nat /\ searched'.since <= version'
    BY <1>1, <2>1, <2>2
  <2>4. ASSUME sweepData' # None, searched'.since = version'
        PROVE  \E c \in Nat \ {0} : Remembered(c)'
    <3> DEFINE c == discovery.increment
    <3>1. Within(sweepData'.utxos, c)
      BY <2>1, <2>4 DEF Complete, Within, Searched
    <3>2. Divides(c, batchSize')
      BY <2>1, <2>2 DEF HistoryInv
    <3>3. c \in Nat \ {0}
      BY <1>1
    <3> HIDE DEF c
    <3>4. PICK b \in Nat \ {0} : b = c
      BY <3>3
    <3>5. Within(sweepData'.utxos, b) /\ Divides(b, batchSize')
      BY <3>1, <3>2, <3>4
    <3>6. Within(sweepData.utxos, b)'
      BY <2>1, <3>5, WithinPrimed
    <3>7. Remembered(b)'
      BY <2>1, <3>5, <3>6 DEF Remembered
    <3> QED
      BY <3>6, <3>7
  <2> QED
    BY <2>1, <2>3, <2>4 DEF HistoryInv
<1>4. CASE Changes
  <2>1. /\ searched.since \in Nat /\ searched.since <= version
        /\ searched' = searched /\ version' = version + 1
        /\ discovery' = discovery /\ batchSize' = batchSize
    BY <1>4 DEF Changes, HistoryInv
  <2>2. searched'.since \in Nat /\ searched'.since <= version' /\ searched'.since # version'
    BY <1>1, <2>1
  <2> QED
    BY <2>1, <2>2 DEF HistoryInv
<1>5. CASE WalksOn /\ ~WalkEnds
  <2>1. /\ UNCHANGED <<setup, used, coins, version, batchSize>> /\ discovery.state # "idle"
        /\ UNCHANGED <<sweepData, searched>>
        /\ discovery'.since = discovery.since /\ discovery'.increment = discovery.increment
    BY <1>5, DiscoverWalks, DiscoverFacts DEF ToolInv, WalksOn
  <2> QED
    BY <1>2, <2>1
<1>6. CASE Keeps
  BY <1>2, <1>6 DEF Keeps
<1>7. CASE Begins
  <2>1. discovery'.since = version /\ discovery'.increment = batchSize
    BY <1>7 DEF Begins, StartDiscovery, NoDiscovery
  <2> QED
    BY <1>2, <1>7, <2>1 DEF Begins
<1> QED
  BY <1>3, <1>4, <1>5, <1>6, <1>7, StepKinds

\* A later discovery has larger batches, by a factor, and reaches at least as far.
LEMMA FinishesWithMore ==
    ToolInv /\ WalkInv /\ HistoryInv /\ [Next]_vars =>
      (Finishes /\ sweepData # None /\ searched.since = version =>
         \A b \in SearchedBranches \ searched'.failed :
           Of(b, sweepData.utxos) \subseteq sweepData'.utxos \cup searched'.cut)
<1> SUFFICES ASSUME ToolInv, WalkInv, HistoryInv, [Next]_vars,
                    Finishes, sweepData # None, searched.since = version,
                    NEW b \in SearchedBranches \ searched'.failed
             PROVE  Of(b, sweepData.utxos) \subseteq sweepData'.utxos \cup searched'.cut
  OBVIOUS
<1>1. WalkEnds
  BY FinishesWalk
<1>2. discovery.state # "idle" /\ Walk(discovery)
  BY DEF Finishes, WalkInv
<1>3. PICK c \in Nat \ {0} : Remembered(c)
  BY DEF HistoryInv
<1>4. PICK k \in Nat \ {0} : discovery.increment = k * c
  BY <1>2, <1>3 DEF Remembered, Divides
<1>5. discovery.since = version
  <2>1. /\ version \in Nat /\ discovery.since \in Nat
        /\ version <= discovery.since /\ discovery.since <= version
    BY <1>2 DEF HistoryInv, Walk, ToolInv, Types, Discoveries
  <2> QED
    BY <2>1
<1>6. PICK n \in 0..(NKeys * NChains - 1) : b = Branch(n)
  BY DEF SearchedBranches
<1>7. Of(b, sweepData.utxos) \subseteq InReach(b, c)
  BY <1>3, <1>6 DEF Remembered, Within
<1>8. InReach(b, c) \subseteq InReach(b, discovery.increment)
  <2>1. coins \subseteq Addresses
    BY DEF ToolInv, Types
  <2> QED
    BY <1>4, <2>1, LargerReachesMore
<1>9. InReach(b, discovery.increment) \subseteq Of(b, sweepData'.utxos) \cup searched'.cut
  BY <1>1, <1>5, <1>6 DEF WalkEnds, Complete, Searched
<1>10. Of(b, sweepData'.utxos) \subseteq sweepData'.utxos
  BY DEF Of
<1> QED
  BY <1>7, <1>8, <1>9, <1>10

\* Discovering again finds no less (discoverFundsAgain doubles sweepBatchSize, also while
\* a discovery is under way), as long as the network is the same: on every key and chain
\* where no request fails this time, whatever failed or was cut before; except coins that
\* stand beyond the first page of an answer this time.
THEOREM FindsNoLess == Spec => AgainFindsMore
<1>1. Spec => []ToolInv
  BY InitInv, Invariance, PTL DEF Spec
<1>2. Spec => []WalkInv
  BY <1>1, WalkInit, WalkStays, PTL DEF Spec
<1>3. Spec => []HistoryInv
  BY <1>1, <1>2, WalkInit, HistoryStays, PTL DEF Spec
<1> QED
  BY <1>1, <1>2, <1>3, FinishesWithMore, PTL DEF Spec, AgainFindsMore
=============================================================================
