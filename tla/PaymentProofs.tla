--------------------------- MODULE PaymentProofs ---------------------------
(***************************************************************************)
(* What a transaction handed to the API looks like, for any outputs and    *)
(* any answers of the API: proofs about Payment.                           *)
(***************************************************************************)
EXTENDS Payment, FiniteSetTheorems, WellFoundedInduction, TLAPS

-----------------------------------------------------------------------------
(***************************************************************************)
(* Sums, as the library folds them.                                        *)
(***************************************************************************)
\* Induction over finite sets, as a least counterexample: among subsets of a finite
\* set one is smallest.
LEMMA LeastSet ==
    ASSUME NEW D, IsFiniteSet(D), NEW T, T \subseteq SUBSET D, T # {}
    PROVE  \E s \in T : \A t \in T : t \subseteq s => t = s
<1>1. T \subseteq FiniteSubsetsOf(D)
  BY FS_Subset DEF FiniteSubsetsOf
<1>2. PICK s \in T : \A t \in T : ~(<<t, s>> \in StrictSubsetOrdering(D))
  BY <1>1, WFMin, FS_StrictSubsetOrderingWellFounded
<1>3. ASSUME NEW t \in T, t \subseteq s PROVE t = s
  <2>1. t \in SUBSET D /\ s \in SUBSET D
    OBVIOUS
  <2>2. t # s => <<t, s>> \in StrictSubsetOrdering(D)
    BY <1>3, <2>1 DEF StrictSubsetOrdering
  <2> QED
    BY <1>2, <2>2
<1> QED
  BY <1>3

\* The sum of f over S, and the function of sums over subsets that the fold makes.
Sum(f, S) == FoldFunctionOnSet(+, 0, f, S)
First(s) == CHOOSE x \in s : TRUE
Adds(f, S, g) ==
    g = [s \in SUBSET S |-> IF s = {} THEN 0 ELSE f[First(s)] + g[s \ {First(s)}]]
Sums(f, S) == CHOOSE g : Adds(f, S, g)
Cut(g, R) == [s \in SUBSET R |-> g[s]]

\* A sum is that function, taken at the whole set.
LEMMA Unfold == ASSUME NEW f, NEW S PROVE Sum(f, S) = Sums(f, S)[S]
BY DEF Sum, FoldFunctionOnSet, MapThenFoldSet, Sums, Adds, First

\* The total of a function is its sum over its domain.
LEMMA TotalIsSum == ASSUME NEW f PROVE Total(f) = Sum(f, DOMAIN f)
BY DEF Total, FoldFunction, Sum

\* What is chosen from a set is in it.
LEMMA FirstIn == ASSUME NEW S, S # {} PROVE First(S) \in S
BY DEF First

\* There is one such function of sums only.
LEMMA AddsOnce ==
    ASSUME NEW f, NEW S, IsFiniteSet(S), NEW g, NEW h, Adds(f, S, g), Adds(f, S, h)
    PROVE  g = h
<1> DEFINE T == {s \in SUBSET S : g[s] # h[s]}
<1>1. CASE T = {}
  BY <1>1 DEF Adds
<1>2. CASE T # {}
  <2>1. PICK s \in T : \A t \in T : t \subseteq s => t = s
    <3>1. T \subseteq SUBSET S
      OBVIOUS
    <3> HIDE DEF T
    <3> QED
      BY <1>2, <3>1, LeastSet
  <2>2. s # {}
    BY <2>1 DEF Adds
  <2>3. First(s) \in s
    BY <2>2, FirstIn
  <2>4. g[s \ {First(s)}] = h[s \ {First(s)}]
    BY <2>1, <2>3
  <2>5. /\ g[s] = f[First(s)] + g[s \ {First(s)}]
        /\ h[s] = f[First(s)] + h[s \ {First(s)}]
    BY <2>1, <2>2 DEF Adds
  <2> QED
    BY <2>1, <2>4, <2>5
<1> QED
  BY <1>1, <1>2

\* The sums over subsets are those of a smaller set.
LEMMA AddsRestricted ==
    ASSUME NEW f, NEW S, NEW R \in SUBSET S, NEW g, Adds(f, S, g)
    PROVE  Adds(f, R, Cut(g, R))
<1> DEFINE h == Cut(g, R)
<1> USE DEF Cut
<1>1. ASSUME NEW s \in SUBSET R
      PROVE  h[s] = IF s = {} THEN 0 ELSE f[First(s)] + h[s \ {First(s)}]
  BY DEF Adds
<1>2. h = [s \in SUBSET R |-> h[s]]
  OBVIOUS
<1> HIDE DEF h
<1>3. Adds(f, R, h)
  BY <1>1, <1>2 DEF Adds
<1> QED
  BY <1>3 DEF h

\* And there is one: the sums of a set exist when those of all smaller sets do.
LEMMA AddsExists == ASSUME NEW f, NEW S, IsFiniteSet(S) PROVE Adds(f, S, Sums(f, S))
<1> DEFINE T == {s \in SUBSET S : ~Adds(f, s, Sums(f, s))}
<1>1. CASE T = {}
  BY <1>1
<1>2. CASE T # {}
  <2>1. PICK s \in T : \A t \in T : t \subseteq s => t = s
    <3>1. T \subseteq SUBSET S
      OBVIOUS
    <3> HIDE DEF T
    <3> QED
      BY <1>2, <3>1, LeastSet
  <2>2. \A t \in SUBSET s : IsFiniteSet(t) /\ (t # s => Adds(f, t, Sums(f, t)))
    BY <2>1, FS_Subset
  <2> DEFINE Rest(u) == u \ {First(u)}
             g == [u \in SUBSET s |->
                     IF u = {} THEN 0 ELSE f[First(u)] + Sums(f, Rest(u))[Rest(u)]]
  <2>3. ASSUME NEW v \in SUBSET s, v # s PROVE g[v] = Sums(f, v)[v]
    <3>1. Adds(f, v, Sums(f, v))
      BY <2>2, <2>3
    <3>2. CASE v = {}
      BY <3>1, <3>2 DEF Adds
    <3>3. CASE v # {}
      <4>1. Rest(v) \in SUBSET v /\ Rest(v) # s /\ Rest(v) \in SUBSET s
        BY <2>3
      <4>2. Sums(f, v)[v] = f[First(v)] + Sums(f, v)[Rest(v)]
        BY <3>1, <3>3 DEF Adds
      <4>3. Adds(f, Rest(v), Cut(Sums(f, v), Rest(v)))
        <5> HIDE DEF Rest
        <5> QED
          BY <3>1, <4>1, AddsRestricted
      <4>4. Adds(f, Rest(v), Sums(f, Rest(v))) /\ IsFiniteSet(Rest(v))
        BY <2>2, <4>1
      <4>5. Sums(f, Rest(v)) = Cut(Sums(f, v), Rest(v))
        BY <4>1, <4>3, <4>4, AddsOnce
      <4>6. Sums(f, Rest(v))[Rest(v)] = Sums(f, v)[Rest(v)]
        BY <4>5 DEF Cut
      <4> QED
        BY <3>3, <4>2, <4>6
    <3> QED
      BY <3>2, <3>3
  <2>4. \A u \in SUBSET s : g[u] = IF u = {} THEN 0 ELSE f[First(u)] + g[Rest(u)]
    <3>1. ASSUME NEW u \in SUBSET s, u # {} PROVE g[Rest(u)] = Sums(f, Rest(u))[Rest(u)]
      BY <2>3, <3>1, FirstIn
    <3> QED
      BY <3>1
  <2>5. g = [u \in SUBSET s |-> g[u]]
    OBVIOUS
  <2> HIDE DEF g
  <2>6. Adds(f, s, g)
    BY <2>4, <2>5 DEF Adds
  <2> QED
    BY <2>1, <2>6 DEF Sums
<1> QED
  BY <1>1, <1>2

\* The recursion a sum obeys.
LEMMA SumSteps ==
    ASSUME NEW f, NEW S, IsFiniteSet(S)
    PROVE  /\ Sum(f, {}) = 0
           /\ S # {} => Sum(f, S) = f[First(S)] + Sum(f, S \ {First(S)})
<1>1. ASSUME NEW R, IsFiniteSet(R) PROVE Adds(f, R, Sums(f, R)) /\ Sum(f, R) = Sums(f, R)[R]
  BY <1>1, AddsExists, Unfold
<1>2. Sum(f, {}) = 0
  <2>1. IsFiniteSet({})
    BY FS_EmptySet
  <2> QED
    BY <1>1, <2>1 DEF Adds
<1>3. ASSUME S # {} PROVE Sum(f, S) = f[First(S)] + Sum(f, S \ {First(S)})
  <2> DEFINE R == S \ {First(S)}
  <2>1. R \in SUBSET S /\ IsFiniteSet(R)
    BY FS_Subset
  <2>2. Sums(f, S)[S] = f[First(S)] + Sums(f, S)[R]
    BY <1>1, <1>3 DEF Adds
  <2> HIDE DEF R
  <2>3. Adds(f, R, Cut(Sums(f, S), R)) /\ Adds(f, R, Sums(f, R))
    BY <1>1, <2>1, AddsRestricted
  <2>4. Sums(f, R) = Cut(Sums(f, S), R)
    BY <2>1, <2>3, AddsOnce
  <2>5. Sums(f, R)[R] = Sums(f, S)[R]
    BY <2>4 DEF Cut
  <2>6. Sum(f, S) = f[First(S)] + Sum(f, R)
    BY <1>1, <2>1, <2>2, <2>5
  <2> QED
    BY <2>6 DEF R
<1> QED
  BY <1>2, <1>3

\* Sums of integers are integers.
LEMMA SumInt ==
    ASSUME NEW f, NEW S, IsFiniteSet(S), \A i \in S : f[i] \in Int
    PROVE  Sum(f, S) \in Int
<1> DEFINE T == {s \in SUBSET S : Sum(f, s) \notin Int}
<1>1. CASE T = {}
  BY <1>1
<1>2. CASE T # {}
  <2>1. PICK s \in T : \A t \in T : t \subseteq s => t = s
    <3>1. T \subseteq SUBSET S
      OBVIOUS
    <3> HIDE DEF T
    <3> QED
      BY <1>2, <3>1, LeastSet
  <2>2. IsFiniteSet(s)
    BY <2>1, FS_Subset
  <2>3. s # {} /\ First(s) \in s
    <3>1. Sum(f, {}) = 0
      <4>1. IsFiniteSet({})
        BY FS_EmptySet
      <4> QED
        BY <4>1, SumSteps
    <3>2. Sum(f, {}) \in Int
      BY <3>1
    <3>3. s # {}
      BY <2>1, <3>2
    <3> QED
      BY <3>3, FirstIn
  <2>4. Sum(f, s \ {First(s)}) \in Int
    BY <2>1, <2>3
  <2>5. Sum(f, s) = f[First(s)] + Sum(f, s \ {First(s)}) /\ f[First(s)] \in Int
    BY <2>1, <2>2, <2>3, SumSteps
  <2> QED
    BY <2>1, <2>4, <2>5
<1> QED
  BY <1>1, <1>2

\* Sums compare as their members do; a member may be larger by one where E has it.
LEMMA SumWithin ==
    ASSUME NEW f, NEW g, NEW E, NEW S, IsFiniteSet(S),
           \A i \in S : f[i] \in Int /\ g[i] \in Int,
           \A i \in S : g[i] <= f[i] \/ (i \in E /\ g[i] <= f[i] + 1)
    PROVE  Sum(g, S) <= Sum(f, S) + Cardinality(E \cap S)
<1> DEFINE Within(s) == Sum(g, s) <= Sum(f, s) + Cardinality(E \cap s)
           T == {s \in SUBSET S : ~Within(s)}
<1>1. CASE T = {}
  BY <1>1
<1>2. CASE T # {}
  <2>1. PICK s \in T : \A t \in T : t \subseteq s => t = s
    <3>1. T \subseteq SUBSET S
      OBVIOUS
    <3> HIDE DEF T
    <3> QED
      BY <1>2, <3>1, LeastSet
  <2>2. IsFiniteSet(s) /\ s \subseteq S
    BY <2>1, FS_Subset
  <2>3. s # {}
    <3>1. E \cap {} = {} /\ Cardinality({}) = 0
      BY FS_EmptySet
    <3>2. Sum(f, {}) = 0 /\ Sum(g, {}) = 0
      BY FS_EmptySet, SumSteps
    <3>3. Within({})
      BY <3>1, <3>2
    <3> QED
      BY <2>1, <3>3
  <2> DEFINE x == First(s)
             r == s \ {x}
  <2>4. x \in s
    BY <2>3, FirstIn
  <2>5. IsFiniteSet(r) /\ r \in SUBSET S /\ Within(r)
    <3>1. r \notin T /\ r \in SUBSET S
      BY <2>1, <2>4
    <3> QED
      BY <2>2, <3>1, FS_Subset
  <2>6. Sum(f, s) = f[x] + Sum(f, r) /\ Sum(g, s) = g[x] + Sum(g, r)
    BY <2>2, <2>3, SumSteps
  <2> HIDE DEF x
  <2>7. Sum(f, r) \in Int /\ Sum(g, r) \in Int
    BY <2>5, SumInt
  <2>8. f[x] \in Int /\ g[x] \in Int /\ (g[x] <= f[x] \/ (x \in E /\ g[x] <= f[x] + 1))
    BY <2>2, <2>4
  <2>9. /\ IsFiniteSet(E \cap r) /\ Cardinality(E \cap r) \in Nat
        /\ Cardinality(E \cap s) = IF x \in E THEN Cardinality(E \cap r) + 1 ELSE Cardinality(E \cap r)
    <3>1. IsFiniteSet(E \cap r) /\ Cardinality(E \cap r) \in Nat
      BY <2>5, FS_Subset, FS_CardinalityType
    <3>2. CASE x \in E
      <4>1. E \cap s = (E \cap r) \cup {x} /\ x \notin E \cap r
        BY <2>4, <3>2
      <4> QED
        BY <3>1, <3>2, <4>1, FS_AddElement
    <3>3. CASE x \notin E
      <4>1. E \cap s = E \cap r
        BY <2>4, <3>3
      <4> QED
        BY <3>1, <3>3, <4>1
    <3> QED
      BY <3>1, <3>2, <3>3
  <2>10. Within(s)
    <3> HIDE DEF r
    <3> QED
      BY <2>5, <2>6, <2>7, <2>8, <2>9
  <2> QED
    BY <2>1, <2>10
<1> QED
  BY <1>1, <1>2

\* A sum of natural numbers is one, and positive when one of them is.
LEMMA SumNat ==
    ASSUME NEW f, NEW S, IsFiniteSet(S), \A i \in S : f[i] \in Nat
    PROVE  /\ Sum(f, S) \in Nat
           /\ \A i \in S : f[i] > 0 => Sum(f, S) > 0
<1> DEFINE Fine(s) == Sum(f, s) \in Nat /\ \A i \in s : f[i] > 0 => Sum(f, s) > 0
           T == {s \in SUBSET S : ~Fine(s)}
<1>1. CASE T = {}
  BY <1>1
<1>2. CASE T # {}
  <2>1. PICK s \in T : \A t \in T : t \subseteq s => t = s
    <3>1. T \subseteq SUBSET S
      OBVIOUS
    <3> HIDE DEF T
    <3> QED
      BY <1>2, <3>1, LeastSet
  <2>2. IsFiniteSet(s) /\ s \subseteq S
    BY <2>1, FS_Subset
  <2>3. s # {}
    <3>1. Sum(f, {}) = 0
      BY FS_EmptySet, SumSteps
    <3>2. Fine({})
      BY <3>1
    <3> QED
      BY <2>1, <3>2
  <2> DEFINE x == First(s)
             r == s \ {x}
  <2>4. x \in s
    BY <2>3, FirstIn
  <2>5. Fine(r)
    BY <2>1, <2>4
  <2>6. Sum(f, s) = f[x] + Sum(f, r)
    BY <2>2, <2>3, SumSteps
  <2>7. f[x] \in Nat
    BY <2>2, <2>4
  <2>8. Fine(s)
    <3> HIDE DEF x
    <3>1. Sum(f, r) \in Nat /\ Sum(f, s) \in Nat
      BY <2>5, <2>6, <2>7
    <3>2. ASSUME NEW i \in s, f[i] > 0 PROVE Sum(f, s) > 0
      <4>1. CASE i = x
        BY <2>6, <2>7, <3>1, <3>2, <4>1
      <4>2. CASE i \in r
        <5>1. Sum(f, r) > 0
          BY <2>5, <3>2, <4>2
        <5> HIDE DEF r
        <5> QED
          BY <2>6, <2>7, <3>1, <5>1
      <4> QED
        BY <4>1, <4>2
    <3> QED
      BY <3>1, <3>2
  <2> QED
    BY <2>1, <2>8
<1> QED
  BY <1>1, <1>2

-----------------------------------------------------------------------------
(***************************************************************************)
(* The estimate of the size.                                               *)
(***************************************************************************)
\* Totals of integers are integers.
LEMMA TotalInt ==
    ASSUME NEW n \in Nat, NEW f, DOMAIN f = 1..n, \A i \in 1..n : f[i] \in Int
    PROVE  Total(f) \in Int
BY FS_Interval, TotalIsSum, SumInt

\* Totals of natural numbers are such, and positive if one of them is.
LEMMA TotalNat ==
    ASSUME NEW n \in Nat, NEW f, DOMAIN f = 1..n, \A i \in 1..n : f[i] \in Nat
    PROVE  /\ Total(f) \in Nat
           /\ \A i \in 1..n : f[i] > 0 => Total(f) > 0
<1>1. IsFiniteSet(1..n)
  BY FS_Interval
<1> QED
  BY <1>1, TotalIsSum, SumNat

\* Totals compare as their members do, but for one apiece where E has the place.
LEMMA TotalWithin ==
    ASSUME NEW n \in Nat, NEW f, NEW g, DOMAIN f = 1..n, DOMAIN g = 1..n, NEW E, E \subseteq 1..n,
           \A i \in 1..n : f[i] \in Int /\ g[i] \in Int,
           \A i \in 1..n : g[i] <= f[i] \/ (i \in E /\ g[i] <= f[i] + 1)
    PROVE  Total(g) <= Total(f) + Cardinality(E)
<1>1. IsFiniteSet(1..n) /\ E \cap (1..n) = E
  <2>1. IsFiniteSet(1..n)
    BY FS_Interval
  <2> QED
    BY <2>1
<1>2. Sum(g, 1..n) <= Sum(f, 1..n) + Cardinality(E \cap (1..n))
  BY <1>1, SumWithin
<1>3. Total(g) = Sum(g, 1..n) /\ Total(f) = Sum(f, 1..n)
  BY <1>1, TotalIsSum
<1> QED
  BY <1>1, <1>2, <1>3

\* Totals compare as their members do.
LEMMA TotalAtMost ==
    ASSUME NEW n \in Nat, NEW f, NEW g, DOMAIN f = 1..n, DOMAIN g = 1..n,
           \A i \in 1..n : f[i] \in Int /\ g[i] \in Int /\ g[i] <= f[i]
    PROVE  Total(g) <= Total(f)
<1>1. Total(f) \in Int
  BY TotalInt
<1>2. Total(g) <= Total(f) + Cardinality({})
  BY TotalWithin
<1> QED
  BY <1>1, <1>2, FS_EmptySet

\* The lengths the estimate reckons with are no less than those serialised.
LEMMA LengthsCover ==
    ASSUME NEW m \in Nat
    PROVE  /\ getLengthForVarInt(m) \in Nat /\ CompactSize(m) \in Nat
           /\ \A n \in Nat : n <= m => CompactSize(n) <= getLengthForVarInt(m)
           /\ getLengthForScriptPush(m) \in Nat /\ Pushed(m) \in Nat
           /\ Pushed(m) <= getLengthForScriptPush(m) + m
BY DEF getLengthForVarInt, CompactSize, getLengthForScriptPush, Pushed

\* What is pushed for an input is a sequence of lengths.
LEMMA StackIsSeq ==
    ASSUME NEW u \in Coins, Supported(u)
    PROVE  /\ ScriptSigSizes(u) \in Seq(Nat)
           /\ WitnessSizes(u) \in Seq(Nat)
           /\ WitnessSizes(u) = <<>> <=> ~IsWitness(u)
<1>1. u.script \in {"multisig", "pubkey", "pubkeyhash"}
  BY DEF Coins, Scripts, Supported
<1>2. StackSizes(u.script) \in Seq(Nat)
  BY <1>1 DEF StackSizes, SIZE_DER_SIGNATURE
<1>3. ScriptLength(u.script) \in Nat
  BY <1>1 DEF ScriptLength, getLengthForScriptPush
<1>4. ScriptSigSizes(u) \in Seq(Nat)
  <2> DEFINE a == IF IsWitness(u) THEN <<>> ELSE StackSizes(u.script)
             b == CASE u.form = "p2sh"       -> <<ScriptLength(u.script)>>
                    [] u.form = "p2sh-p2wsh" -> <<SIZE_P2WSH>>
                    [] OTHER                 -> <<>>
  <2>1. a \in Seq(Nat)
    BY <1>2
  <2>2. b \in Seq(Nat)
    BY <1>3 DEF SIZE_P2WSH
  <2>3. ScriptSigSizes(u) = a \o b
    BY DEF ScriptSigSizes
  <2> HIDE DEF a, b
  <2> QED
    BY <2>1, <2>2, <2>3
<1>5. WitnessSizes(u) \in Seq(Nat) /\ (WitnessSizes(u) = <<>> <=> ~IsWitness(u))
  <2>1. Append(StackSizes(u.script), ScriptLength(u.script)) \in Seq(Nat)
        /\ Append(StackSizes(u.script), ScriptLength(u.script)) # <<>>
    BY <1>2, <1>3
  <2> QED
    BY <2>1 DEF WitnessSizes
<1> QED
  BY <1>4, <1>5

\* A sequence of lengths, each with what tells its length.
LEMMA PushesCover ==
    ASSUME NEW s \in Seq(Nat)
    PROVE  LET pushed == Total([i \in DOMAIN s |-> Pushed(s[i])])
               estimated == Total([i \in DOMAIN s |-> getLengthForScriptPush(s[i]) + s[i]])
           IN  pushed \in Nat /\ estimated \in Nat /\ pushed <= estimated
<1> DEFINE f == [i \in DOMAIN s |-> getLengthForScriptPush(s[i]) + s[i]]
           g == [i \in DOMAIN s |-> Pushed(s[i])]
<1>1. PICK n \in Nat : DOMAIN s = 1..n /\ \A i \in 1..n : s[i] \in Nat
  <2>1. Len(s) \in Nat /\ DOMAIN s = 1..Len(s) /\ \A i \in 1..Len(s) : s[i] \in Nat
    OBVIOUS
  <2> QED
    BY <2>1
<1>2. DOMAIN f = 1..n /\ DOMAIN g = 1..n
  BY <1>1
<1>3. \A i \in 1..n : f[i] \in Nat /\ g[i] \in Nat /\ g[i] <= f[i]
  <2>1. ASSUME NEW i \in 1..n
        PROVE  f[i] = getLengthForScriptPush(s[i]) + s[i] /\ g[i] = Pushed(s[i])
    BY <1>1
  <2>2. ASSUME NEW m \in Nat
        PROVE  /\ getLengthForScriptPush(m) + m \in Nat /\ Pushed(m) \in Nat
               /\ Pushed(m) <= getLengthForScriptPush(m) + m
    <3>1. /\ getLengthForScriptPush(m) \in Nat /\ Pushed(m) \in Nat
          /\ Pushed(m) <= getLengthForScriptPush(m) + m
      BY LengthsCover
    <3> QED
      BY <3>1
  <2> QED
    BY <1>1, <2>1, <2>2
<1> HIDE DEF f, g
<1>4. Total(f) \in Nat /\ Total(g) \in Nat
  <2>1. \A i \in 1..n : f[i] \in Nat
    BY <1>3
  <2>2. \A i \in 1..n : g[i] \in Nat
    BY <1>3
  <2>3. Total(f) \in Nat
    BY <1>2, <2>1, TotalNat
  <2>4. Total(g) \in Nat
    BY <1>2, <2>2, TotalNat
  <2> QED
    BY <2>3, <2>4
<1>5. Total(g) <= Total(f)
  <2>1. \A i \in 1..n : f[i] \in Int /\ g[i] \in Int /\ g[i] <= f[i]
    BY <1>3
  <2> QED
    BY <1>2, <2>1, TotalAtMost
<1> QED
  BY <1>4, <1>5 DEF f, g

\* The same for the items of a witness, whose lengths are compact sizes.
LEMMA ItemsCover ==
    ASSUME NEW s \in Seq(Nat)
    PROVE  LET items == Total([i \in DOMAIN s |-> CompactSize(s[i]) + s[i]])
               estimated == Total([i \in DOMAIN s |-> getLengthForVarInt(s[i]) + s[i]])
           IN  items \in Nat /\ estimated \in Nat /\ items <= estimated
<1> DEFINE f == [i \in DOMAIN s |-> getLengthForVarInt(s[i]) + s[i]]
           g == [i \in DOMAIN s |-> CompactSize(s[i]) + s[i]]
<1>1. PICK n \in Nat : DOMAIN s = 1..n /\ \A i \in 1..n : s[i] \in Nat
  <2>1. Len(s) \in Nat /\ DOMAIN s = 1..Len(s) /\ \A i \in 1..Len(s) : s[i] \in Nat
    OBVIOUS
  <2> QED
    BY <2>1
<1>2. DOMAIN f = 1..n /\ DOMAIN g = 1..n
  BY <1>1
<1>3. \A i \in 1..n : f[i] \in Nat /\ g[i] \in Nat /\ g[i] <= f[i]
  <2>1. ASSUME NEW i \in 1..n
        PROVE  f[i] = getLengthForVarInt(s[i]) + s[i] /\ g[i] = CompactSize(s[i]) + s[i]
    BY <1>1
  <2>2. ASSUME NEW m \in Nat
        PROVE  /\ getLengthForVarInt(m) + m \in Nat /\ CompactSize(m) + m \in Nat
               /\ CompactSize(m) + m <= getLengthForVarInt(m) + m
    <3>1. m <= m
      OBVIOUS
    <3>2. /\ getLengthForVarInt(m) \in Nat /\ CompactSize(m) \in Nat
          /\ CompactSize(m) <= getLengthForVarInt(m)
      BY <3>1, LengthsCover
    <3> QED
      BY <3>2
  <2> QED
    BY <1>1, <2>1, <2>2
<1> HIDE DEF f, g
<1>4. Total(f) \in Nat /\ Total(g) \in Nat
  <2>1. \A i \in 1..n : f[i] \in Nat
    BY <1>3
  <2>2. \A i \in 1..n : g[i] \in Nat
    BY <1>3
  <2>3. Total(f) \in Nat
    BY <1>2, <2>1, TotalNat
  <2>4. Total(g) \in Nat
    BY <1>2, <2>2, TotalNat
  <2> QED
    BY <2>3, <2>4
<1>5. Total(g) <= Total(f)
  <2>1. \A i \in 1..n : f[i] \in Int /\ g[i] \in Int /\ g[i] <= f[i]
    BY <1>3
  <2> QED
    BY <1>2, <2>1, TotalAtMost
<1> QED
  BY <1>4, <1>5 DEF f, g

\* An input: its script and its witness; only an empty witness has a byte too few.
LEMMA InputCovers ==
    ASSUME NEW u \in Coins, Supported(u)
    PROVE  LET e == estimateStackSignatureSize(u)
           IN  /\ e.scriptSig \in Nat /\ e.witness \in Nat
               /\ InputBytes(u) \in Nat /\ WitnessBytes(u) \in Nat
               /\ InputBytes(u) <= 32 + 4 + 4 + e.scriptSig
               /\ IsWitness(u) => e.witness > 0 /\ WitnessBytes(u) <= e.witness
               /\ ~IsWitness(u) => WitnessBytes(u) <= e.witness + 1
<1> DEFINE sig == ScriptSigSizes(u)
           wit == WitnessSizes(u)
           bytes == Total([i \in DOMAIN sig |-> Pushed(sig[i])])
           sigSize == Total([i \in DOMAIN sig |-> getLengthForScriptPush(sig[i]) + sig[i]])
           items == Total([i \in DOMAIN wit |-> CompactSize(wit[i]) + wit[i]])
           witSize == Total([i \in DOMAIN wit |-> getLengthForVarInt(wit[i]) + wit[i]])
           e == estimateStackSignatureSize(u)
<1>1. sig \in Seq(Nat) /\ wit \in Seq(Nat) /\ (wit = <<>> <=> ~IsWitness(u))
  BY StackIsSeq
<1>2. /\ e.scriptSig = sigSize + getLengthForVarInt(sigSize)
      /\ e.witness = IF wit = <<>> THEN 0 ELSE witSize + getLengthForVarInt(Len(wit))
      /\ InputBytes(u) = 40 + CompactSize(bytes) + bytes
      /\ WitnessBytes(u) = CompactSize(Len(wit)) + items
  BY DEF estimateStackSignatureSize, InputBytes, WitnessBytes
<1>3. wit = <<>> => items = 0 /\ Len(wit) = 0
  <2>1. ASSUME wit = <<>> PROVE DOMAIN [i \in DOMAIN wit |-> CompactSize(wit[i]) + wit[i]] = {}
    BY <2>1
  <2>2. IsFiniteSet({})
    BY FS_EmptySet
  <2>3. ASSUME NEW f PROVE Sum(f, {}) = 0
    BY <2>2, SumSteps
  <2>4. ASSUME wit = <<>> PROVE items = 0
    <3>1. items = Sum([i \in DOMAIN wit |-> CompactSize(wit[i]) + wit[i]], {})
      BY <2>1, <2>2, <2>4, TotalIsSum
    <3> QED
      BY <2>3, <3>1
  <2> QED
    BY <2>4
<1> HIDE DEF sig, wit
<1>4. bytes \in Nat /\ sigSize \in Nat /\ bytes <= sigSize
  BY <1>1, PushesCover
<1>5. items \in Nat /\ witSize \in Nat /\ items <= witSize
  BY <1>1, ItemsCover
<1> HIDE DEF bytes, sigSize, items, witSize, e
<1>6. /\ getLengthForVarInt(sigSize) \in Nat /\ CompactSize(bytes) \in Nat
      /\ CompactSize(bytes) <= getLengthForVarInt(sigSize)
  BY <1>4, LengthsCover
<1>7. Len(wit) \in Nat /\ (wit # <<>> => Len(wit) > 0)
  BY <1>1
<1>8. /\ getLengthForVarInt(Len(wit)) \in Nat /\ CompactSize(Len(wit)) \in Nat
      /\ CompactSize(Len(wit)) <= getLengthForVarInt(Len(wit))
      /\ getLengthForVarInt(Len(wit)) > 0 /\ CompactSize(0) = 1
  <2>1. ASSUME NEW m \in Nat
        PROVE  /\ getLengthForVarInt(m) \in Nat /\ CompactSize(m) \in Nat
               /\ CompactSize(m) <= getLengthForVarInt(m) /\ getLengthForVarInt(m) > 0
    BY DEF getLengthForVarInt, CompactSize
  <2>2. CompactSize(0) = 1
    BY DEF CompactSize
  <2> QED
    BY <1>7, <2>1, <2>2
<1>9. /\ e.scriptSig \in Nat /\ InputBytes(u) \in Nat /\ InputBytes(u) <= 32 + 4 + 4 + e.scriptSig
  BY <1>2, <1>4, <1>6
<1>10. CASE wit = <<>>
  <2>1. e.witness = 0 /\ WitnessBytes(u) = 1
    BY <1>2, <1>3, <1>8, <1>10
  <2> QED
    BY <1>1, <1>9, <1>10, <2>1 DEF e
<1>11. CASE wit # <<>>
  <2>1. /\ e.witness = witSize + getLengthForVarInt(Len(wit))
        /\ WitnessBytes(u) = CompactSize(Len(wit)) + items
    BY <1>2, <1>11
  <2>2. /\ e.witness \in Nat /\ WitnessBytes(u) \in Nat /\ e.witness > 0
        /\ WitnessBytes(u) <= e.witness
    BY <1>5, <1>8, <2>1
  <2> QED
    BY <1>1, <1>9, <1>11, <2>2 DEF e
<1> QED
  BY <1>10, <1>11

\* Rounding up loses nothing.
LEMMA CeilCovers ==
    ASSUME NEW x \in Nat
    PROVE  Ceil(x, 4) \in Nat /\ 4 * Ceil(x, 4) >= x
BY DEF Ceil

\* The witnesses: if there is one, the estimate has two bytes for them, and all but
\* those of the empty witnesses.
LEMMA WitnessesCover ==
    ASSUME NEW utxos \in Seq(Coins), \A i \in DOMAIN utxos : Supported(utxos[i])
    PROVE  LET w == Total([i \in DOMAIN utxos |-> estimateStackSignatureSize(utxos[i]).witness])
               v == Total([i \in DOMAIN utxos |-> WitnessBytes(utxos[i])])
           IN  /\ w \in Nat /\ v \in Nat
               /\ (\E i \in DOMAIN utxos : IsWitness(utxos[i])) =>
                    w > 0 /\ v <= w + Cardinality(EmptyWitnesses(utxos))
<1> DEFINE f == [i \in DOMAIN utxos |-> estimateStackSignatureSize(utxos[i]).witness]
           g == [i \in DOMAIN utxos |-> WitnessBytes(utxos[i])]
           E == EmptyWitnesses(utxos)
<1>1. PICK n \in Nat : DOMAIN utxos = 1..n /\ \A i \in 1..n : utxos[i] \in Coins
  <2>1. Len(utxos) \in Nat /\ DOMAIN utxos = 1..Len(utxos)
        /\ \A i \in 1..Len(utxos) : utxos[i] \in Coins
    OBVIOUS
  <2> QED
    BY <2>1
<1>2. DOMAIN f = 1..n /\ DOMAIN g = 1..n
  BY <1>1
<1>3. ASSUME NEW i \in 1..n
      PROVE  /\ f[i] \in Nat /\ g[i] \in Nat
             /\ IsWitness(utxos[i]) => f[i] > 0 /\ g[i] <= f[i]
             /\ ~IsWitness(utxos[i]) => g[i] <= f[i] + 1
  <2>1. f[i] = estimateStackSignatureSize(utxos[i]).witness /\ g[i] = WitnessBytes(utxos[i])
    BY <1>1
  <2>2. utxos[i] \in Coins /\ Supported(utxos[i])
    BY <1>1
  <2> HIDE DEF f, g
  <2> QED
    BY <2>1, <2>2, InputCovers
<1>4. E = {i \in 1..n : ~IsWitness(utxos[i]) /\ \E j \in 1..n : IsWitness(utxos[j])}
  BY <1>1 DEF EmptyWitnesses
<1> HIDE DEF f, g, E
<1>5. Total(f) \in Nat /\ \A i \in 1..n : f[i] > 0 => Total(f) > 0
  <2>1. \A i \in 1..n : f[i] \in Nat
    BY <1>3
  <2> QED
    BY <1>2, <2>1, TotalNat
<1>6. Total(g) \in Nat
  <2>1. \A i \in 1..n : g[i] \in Nat
    BY <1>3
  <2> QED
    BY <1>2, <2>1, TotalNat
<1>7. ASSUME NEW j \in 1..n, IsWitness(utxos[j])
      PROVE  Total(f) > 0 /\ Total(g) <= Total(f) + Cardinality(E)
  <2>1. f[j] > 0
    BY <1>3, <1>7
  <2>2. E \subseteq 1..n
    BY <1>4
  <2>3. \A i \in 1..n : f[i] \in Int /\ g[i] \in Int
    BY <1>3
  <2>4. \A i \in 1..n : g[i] <= f[i] \/ (i \in E /\ g[i] <= f[i] + 1)
    <3> SUFFICES ASSUME NEW i \in 1..n, i \notin E PROVE g[i] <= f[i]
      BY <1>3, <1>4, <1>7
    <3>1. IsWitness(utxos[i])
      BY <1>4, <1>7
    <3> QED
      BY <1>3, <3>1
  <2>5. Total(g) <= Total(f) + Cardinality(E)
    BY <1>2, <2>2, <2>3, <2>4, TotalWithin
  <2> QED
    BY <1>5, <2>1, <2>5
<1>8. (\E i \in DOMAIN utxos : IsWitness(utxos[i])) =>
        Total(f) > 0 /\ Total(g) <= Total(f) + Cardinality(E)
  BY <1>1, <1>7
<1> QED
  BY <1>5, <1>6, <1>8 DEF f, g, E

\* The inputs and the outputs, without the witnesses.
LEMMA ScriptsCover ==
    ASSUME NEW utxos \in Seq(Coins), \A i \in DOMAIN utxos : Supported(utxos[i])
    PROVE  LET a == Total([i \in DOMAIN utxos |->
                             32 + 4 + 4 + estimateStackSignatureSize(utxos[i]).scriptSig])
               b == Total([i \in DOMAIN utxos |-> InputBytes(utxos[i])])
           IN  a \in Nat /\ b \in Nat /\ b <= a
<1> DEFINE f == [i \in DOMAIN utxos |-> 32 + 4 + 4 + estimateStackSignatureSize(utxos[i]).scriptSig]
           g == [i \in DOMAIN utxos |-> InputBytes(utxos[i])]
<1>1. PICK n \in Nat : DOMAIN utxos = 1..n /\ \A i \in 1..n : utxos[i] \in Coins
  <2>1. Len(utxos) \in Nat /\ DOMAIN utxos = 1..Len(utxos)
        /\ \A i \in 1..Len(utxos) : utxos[i] \in Coins
    OBVIOUS
  <2> QED
    BY <2>1
<1>2. DOMAIN f = 1..n /\ DOMAIN g = 1..n
  BY <1>1
<1>3. ASSUME NEW i \in 1..n
      PROVE  f[i] \in Nat /\ g[i] \in Nat /\ g[i] <= f[i]
  <2>1. /\ f[i] = 32 + 4 + 4 + estimateStackSignatureSize(utxos[i]).scriptSig
        /\ g[i] = InputBytes(utxos[i])
    BY <1>1
  <2>2. utxos[i] \in Coins /\ Supported(utxos[i])
    BY <1>1
  <2> HIDE DEF f, g
  <2>3. /\ estimateStackSignatureSize(utxos[i]).scriptSig \in Nat
        /\ InputBytes(utxos[i]) \in Nat
        /\ InputBytes(utxos[i]) <= 32 + 4 + 4 + estimateStackSignatureSize(utxos[i]).scriptSig
    BY <2>2, InputCovers
  <2> QED
    BY <2>1, <2>3
<1> HIDE DEF f, g
<1>4. Total(f) \in Nat
  <2>1. \A i \in 1..n : f[i] \in Nat
    BY <1>3
  <2> QED
    BY <1>2, <2>1, TotalNat
<1>5. Total(g) \in Nat
  <2>1. \A i \in 1..n : g[i] \in Nat
    BY <1>3
  <2> QED
    BY <1>2, <2>1, TotalNat
<1>6. Total(g) <= Total(f)
  <2>1. \A i \in 1..n : f[i] \in Int /\ g[i] \in Int /\ g[i] <= f[i]
    BY <1>3
  <2> QED
    BY <1>2, <2>1, TotalAtMost
<1> QED
  BY <1>4, <1>5, <1>6 DEF f, g

\* The outputs: each is its amount, the length of its script and the script.
LEMMA OutputsCover ==
    ASSUME NEW outs \in Seq(Nat)
    PROVE  LET o == Total([i \in DOMAIN outs |-> 8 + CompactSize(outs[i]) + outs[i]])
           IN  calculateOutputsSize(outs) \in Nat /\ o \in Nat /\ o <= calculateOutputsSize(outs)
<1> DEFINE f == [i \in DOMAIN outs |-> 8 + getLengthForVarInt(outs[i]) + outs[i]]
           g == [i \in DOMAIN outs |-> 8 + CompactSize(outs[i]) + outs[i]]
<1>1. PICK n \in Nat : DOMAIN outs = 1..n /\ \A i \in 1..n : outs[i] \in Nat
  <2>1. Len(outs) \in Nat /\ DOMAIN outs = 1..Len(outs) /\ \A i \in 1..Len(outs) : outs[i] \in Nat
    OBVIOUS
  <2> QED
    BY <2>1
<1>2. DOMAIN f = 1..n /\ DOMAIN g = 1..n
  BY <1>1
<1>3. ASSUME NEW i \in 1..n
      PROVE  f[i] \in Nat /\ g[i] \in Nat /\ g[i] <= f[i]
  <2>1. f[i] = 8 + getLengthForVarInt(outs[i]) + outs[i] /\ g[i] = 8 + CompactSize(outs[i]) + outs[i]
    BY <1>1
  <2>2. ASSUME NEW m \in Nat
        PROVE  /\ getLengthForVarInt(m) \in Nat /\ CompactSize(m) \in Nat
               /\ CompactSize(m) <= getLengthForVarInt(m)
    BY DEF getLengthForVarInt, CompactSize
  <2>3. ASSUME NEW m \in Nat
        PROVE  /\ 8 + getLengthForVarInt(m) + m \in Nat /\ 8 + CompactSize(m) + m \in Nat
               /\ 8 + CompactSize(m) + m <= 8 + getLengthForVarInt(m) + m
    <3>1. /\ getLengthForVarInt(m) \in Nat /\ CompactSize(m) \in Nat
          /\ CompactSize(m) <= getLengthForVarInt(m)
      BY <2>2
    <3> QED
      BY <3>1
  <2> HIDE DEF f, g
  <2> QED
    BY <1>1, <2>1, <2>3
<1> HIDE DEF f, g
<1>4. Total(f) \in Nat
  <2>1. \A i \in 1..n : f[i] \in Nat
    BY <1>3
  <2> QED
    BY <1>2, <2>1, TotalNat
<1>5. Total(g) \in Nat
  <2>1. \A i \in 1..n : g[i] \in Nat
    BY <1>3
  <2> QED
    BY <1>2, <2>1, TotalNat
<1>6. Total(g) <= Total(f)
  <2>1. \A i \in 1..n : f[i] \in Int /\ g[i] \in Int /\ g[i] <= f[i]
    BY <1>3
  <2> QED
    BY <1>2, <2>1, TotalAtMost
<1>7. calculateOutputsSize(outs) = Total(f)
  BY DEF calculateOutputsSize, f
<1> QED
  BY <1>4, <1>5, <1>6, <1>7 DEF g

\* The estimate covers the transaction, but for the empty witnesses.
LEMMA VsizeCovers ==
    ASSUME NEW utxos \in Seq(Coins), \A i \in DOMAIN utxos : Supported(utxos[i]),
           NEW outs \in Seq(Nat)
    PROVE  /\ estimateTxVsize(utxos, outs) \in Nat
           /\ 4 * estimateTxVsize(utxos, outs) + Cardinality(EmptyWitnesses(utxos))
                >= SerialisedWeight(utxos, outs)
<1> DEFINE a == Total([i \in DOMAIN utxos |->
                         32 + 4 + 4 + estimateStackSignatureSize(utxos[i]).scriptSig])
           b == Total([i \in DOMAIN utxos |-> InputBytes(utxos[i])])
           w == Total([i \in DOMAIN utxos |-> estimateStackSignatureSize(utxos[i]).witness])
           v == Total([i \in DOMAIN utxos |-> WitnessBytes(utxos[i])])
           o == Total([i \in DOMAIN outs |-> 8 + CompactSize(outs[i]) + outs[i]])
           O == calculateOutputsSize(outs)
           n == getLengthForVarInt(Len(utxos))
           m == getLengthForVarInt(Len(outs))
           rest == 4 + n + m + O + 4
           some == \E i \in DOMAIN utxos : IsWitness(utxos[i])
           e == Cardinality(EmptyWitnesses(utxos))
           x == IF w > 0 THEN 2 + w ELSE 0
           weight == 3 * (rest + a) + rest + (a + x)
<1>1. a \in Nat /\ b \in Nat /\ b <= a
  BY ScriptsCover
<1>2. w \in Nat /\ v \in Nat /\ (some => w > 0 /\ v <= w + e)
  BY WitnessesCover
<1>3. O \in Nat /\ o \in Nat /\ o <= O
  BY OutputsCover
<1>4. e \in Nat /\ (~some => e = 0)
  <2>1. IsFiniteSet(DOMAIN utxos) /\ EmptyWitnesses(utxos) \subseteq DOMAIN utxos
    <3>1. Len(utxos) \in Nat /\ DOMAIN utxos = 1..Len(utxos)
      OBVIOUS
    <3>2. IsFiniteSet(1..Len(utxos))
      BY <3>1, FS_Interval
    <3> QED
      BY <3>1, <3>2 DEF EmptyWitnesses
  <2>2. IsFiniteSet(EmptyWitnesses(utxos))
    BY <2>1, FS_Subset
  <2>3. e \in Nat
    BY <2>2, FS_CardinalityType
  <2>4. ASSUME ~some PROVE e = 0
    <3>1. EmptyWitnesses(utxos) = {}
      BY <2>4 DEF EmptyWitnesses
    <3> QED
      BY <3>1, FS_EmptySet
  <2> QED
    BY <2>3, <2>4
<1>5. ASSUME NEW q \in Nat
      PROVE  /\ getLengthForVarInt(q) \in Nat /\ CompactSize(q) \in Nat
             /\ CompactSize(q) <= getLengthForVarInt(q)
  BY DEF getLengthForVarInt, CompactSize
<1>6. /\ n \in Nat /\ CompactSize(Len(utxos)) \in Nat /\ CompactSize(Len(utxos)) <= n
      /\ m \in Nat /\ CompactSize(Len(outs)) \in Nat /\ CompactSize(Len(outs)) <= m
  <2>1. Len(utxos) \in Nat /\ Len(outs) \in Nat
    OBVIOUS
  <2> QED
    BY <1>5, <2>1
<1>7. estimateInputsSize(utxos, FALSE) = a /\ estimateInputsSize(utxos, TRUE) = a + x
  <2> DEFINE estimate == [i \in DOMAIN utxos |-> estimateStackSignatureSize(utxos[i])]
             a1 == Total([i \in DOMAIN utxos |-> 32 + 4 + 4 + estimate[i].scriptSig])
             w1 == Total([i \in DOMAIN utxos |-> estimate[i].witness])
  <2>1. \A i \in DOMAIN utxos : estimate[i] = estimateStackSignatureSize(utxos[i])
    OBVIOUS
  <2> HIDE DEF estimate
  <2>2. [i \in DOMAIN utxos |-> 32 + 4 + 4 + estimate[i].scriptSig]
          = [i \in DOMAIN utxos |-> 32 + 4 + 4 + estimateStackSignatureSize(utxos[i]).scriptSig]
    BY <2>1
  <2>3. [i \in DOMAIN utxos |-> estimate[i].witness]
          = [i \in DOMAIN utxos |-> estimateStackSignatureSize(utxos[i]).witness]
    BY <2>1
  <2>4. a1 = a /\ w1 = w
    BY <2>2, <2>3
  <2>5. /\ estimateInputsSize(utxos, FALSE) = a1 + IF FALSE /\ w1 > 0 THEN 2 + w1 ELSE 0
        /\ estimateInputsSize(utxos, TRUE) = a1 + IF TRUE /\ w1 > 0 THEN 2 + w1 ELSE 0
    BY DEF estimateInputsSize, estimate
  <2>6. x = IF w > 0 THEN 2 + w ELSE 0
    OBVIOUS
  <2> HIDE DEF a1, w1, a, w, x
  <2>7. estimateInputsSize(utxos, FALSE) = a + 0 /\ estimateInputsSize(utxos, TRUE) = a + x
    <3>1. estimateInputsSize(utxos, FALSE) = a1 + 0
      BY <2>5
    <3>2. estimateInputsSize(utxos, TRUE) = a1 + IF w1 > 0 THEN 2 + w1 ELSE 0
      BY <2>5
    <3>3. estimateInputsSize(utxos, TRUE) = a + IF w > 0 THEN 2 + w ELSE 0
      BY <2>4, <3>2
    <3> QED
      BY <2>4, <2>6, <3>1, <3>3
  <2>8. a + 0 = a
    BY <1>1
  <2> QED
    BY <2>7, <2>8
<1>8. estimateTxWeight(utxos, outs) = weight
  <2>1. estimateTxWeight(utxos, outs)
          = 3 * (rest + estimateInputsSize(utxos, FALSE)) + rest + estimateInputsSize(utxos, TRUE)
    BY DEF estimateTxWeight
  <2> HIDE DEF a, x, rest
  <2> QED
    BY <1>7, <2>1
<1>9. SerialisedWeight(utxos, outs)
        = 4 * (4 + CompactSize(Len(utxos)) + b + CompactSize(Len(outs)) + o + 4)
          + IF some THEN 2 + v ELSE 0
  BY DEF SerialisedWeight
<1> HIDE DEF a, b, w, v, o, O, n, m, some, e
<1>10. weight \in Nat /\ weight = 4 * (rest + a) + x /\ x \in Nat
       /\ rest \in Nat /\ rest = 4 + n + m + O + 4
  BY <1>1, <1>2, <1>3, <1>6
<1>11. estimateTxVsize(utxos, outs) = Ceil(weight, 4)
  BY <1>8 DEF estimateTxVsize
<1>12. (some => 2 + v <= x + e) /\ (~some => 0 <= x + e)
  BY <1>2, <1>4, <1>10
<1> HIDE DEF x, rest, weight
<1>13. Ceil(weight, 4) \in Nat /\ 4 * Ceil(weight, 4) >= weight
  BY <1>10, CeilCovers
<1>14. 4 + CompactSize(Len(utxos)) + b + CompactSize(Len(outs)) + o + 4 <= rest + a
  BY <1>1, <1>3, <1>6, <1>10
<1>15. 4 * (4 + CompactSize(Len(utxos)) + b + CompactSize(Len(outs)) + o + 4) <= 4 * (rest + a)
  BY <1>1, <1>3, <1>6, <1>10, <1>14
<1>16. (IF some THEN 2 + v ELSE 0) <= x + e
  BY <1>12
<1>17. SerialisedWeight(utxos, outs) <= weight + e
  <2> DEFINE s4 == 4 * (4 + CompactSize(Len(utxos)) + b + CompactSize(Len(outs)) + o + 4)
             sw == IF some THEN 2 + v ELSE 0
  <2>1. s4 \in Int /\ s4 <= 4 * (rest + a)
    BY <1>1, <1>3, <1>6, <1>15
  <2>2. sw \in Int /\ sw <= x + e
    BY <1>2, <1>16
  <2>3. SerialisedWeight(utxos, outs) = s4 + sw
    BY <1>9
  <2> DEFINE z == 4 * (rest + a)
  <2>4. z \in Int /\ weight = z + x /\ s4 <= z
    BY <1>1, <1>10, <2>1
  <2>5. e \in Int /\ x \in Int
    BY <1>4, <1>10
  <2> HIDE DEF s4, sw, z
  <2>6. s4 + sw <= (z + x) + e
    BY <2>1, <2>2, <2>4, <2>5
  <2> QED
    BY <2>3, <2>4, <2>6
<1>18. SerialisedWeight(utxos, outs) \in Int
  BY <1>2, <1>1, <1>3, <1>6, <1>9
<1> DEFINE c == Ceil(weight, 4)
           s == SerialisedWeight(utxos, outs)
<1> HIDE DEF c, s
<1>19. c \in Nat /\ s \in Int /\ 4 * c >= weight /\ s <= weight + e
  BY <1>13, <1>17, <1>18 DEF c, s
<1>20. 4 * c + e >= s
  BY <1>4, <1>10, <1>19
<1> QED
  BY <1>11, <1>19, <1>20 DEF c, s, e

\* The amounts and the lengths a call reckons with are numbers.
LEMMA AmountsInt ==
    ASSUME NEW pay \in Pays, NEW a \in Answers
    PROVE  /\ OutputsTotal(pay) \in Int /\ InputsTotal(a.utxos) \in Int
           /\ a.utxos \in Seq(Coins) /\ a.fee \in Int /\ a.change \in Int
<1>1. pay \in Seq(Outputs) /\ a.utxos \in Seq(Coins) /\ a.fee \in Int /\ a.change \in Int
  BY PaymentAssumption
<1>2. ASSUME NEW R, NEW s \in Seq(R), \A r \in R : r.value \in Int
      PROVE  Total([i \in DOMAIN s |-> s[i].value]) \in Int
  <2> DEFINE f == [i \in DOMAIN s |-> s[i].value]
  <2>1. Len(s) \in Nat /\ DOMAIN s = 1..Len(s) /\ \A i \in 1..Len(s) : s[i] \in R
    OBVIOUS
  <2>2. DOMAIN f = 1..Len(s) /\ \A i \in 1..Len(s) : f[i] \in Int
    BY <1>2, <2>1
  <2> HIDE DEF f
  <2>3. Total(f) \in Int
    BY <2>1, <2>2, TotalInt
  <2> QED
    BY <2>3 DEF f
<1>3. (\A r \in Outputs : r.value \in Int) /\ (\A r \in Coins : r.value \in Int)
  BY DEF Outputs, Coins
<1>4. OutputsTotal(pay) \in Int
  BY <1>1, <1>2, <1>3 DEF OutputsTotal
<1>5. InputsTotal(a.utxos) \in Int
  BY <1>1, <1>2, <1>3 DEF InputsTotal
<1> QED
  BY <1>1, <1>4, <1>5

\* The lengths of the scripts of the outputs, that of the change among them.
LEMMA LengthsOf ==
    ASSUME NEW k, k.pay \in Pays
    PROVE  OutputScripts(k) \in Seq(Nat)
<1> DEFINE lengths == [i \in DOMAIN k.pay |-> k.pay[i].length]
           change == IF k.change > 0 THEN <<23>> ELSE <<>>
<1>1. k.pay \in Seq(Outputs)
  BY PaymentAssumption
<1>2. Len(k.pay) \in Nat /\ DOMAIN k.pay = 1..Len(k.pay)
      /\ \A i \in 1..Len(k.pay) : k.pay[i].length \in Nat
  <2>1. \A r \in Outputs : r.length \in Nat
    BY DEF Outputs
  <2>2. Len(k.pay) \in Nat /\ DOMAIN k.pay = 1..Len(k.pay)
        /\ \A i \in 1..Len(k.pay) : k.pay[i] \in Outputs
    BY <1>1
  <2> QED
    BY <2>1, <2>2
<1>3. lengths \in Seq(Nat)
  BY <1>2
<1>4. change \in Seq(Nat)
  OBVIOUS
<1>5. OutputScripts(k) = lengths \o change
  BY DEF OutputScripts
<1> HIDE DEF lengths, change
<1> QED
  BY <1>3, <1>4, <1>5

-----------------------------------------------------------------------------
(***************************************************************************)
(* The calls.                                                              *)
(***************************************************************************)
Converted == {"select", "prepare", "change", "address", "sign", "check"} \cup Handed
Chosen == Converted \ {"select"}
Verified == Chosen \ {"prepare"}
Signing == {"sign", "check"} \cup Handed

\* What Prepare has established about the change the API named.
ChangeVerified(k) ==
    LET left == InputsTotal(k.answer.utxos) - OutputsTotal(k.pay) - k.answer.fee
    IN  left > DUST * 2 => left = k.answer.change

\* The change is the one named, and no dust, or dust has been dropped.
ChangeSettled(k) ==
    \/ k.change = k.answer.change /\ (k.change <= 0 \/ k.change > DUST)
    \/ k.change = 0 /\ k.answer.change <= DUST

\* What CheckFee has established: the estimate can be made, and where it is asked
\* for the fee is within one base fee of it.
FeeChecked(k) ==
    /\ \A i \in DOMAIN k.answer.utxos : Supported(k.answer.utxos[i])
    /\ feeSanityCheck /\ k.feeStrategy = "base_fee" =>
         LET difference == estimateVsizeFee(k) - k.answer.fee
         IN  ~(difference > BASE_FEE \/ -difference > BASE_FEE)

\* What a call has established by the step it is at.
CallInv(k) ==
    /\ k.pc \in Converted \cup {"build"} => k.pay \in Pays
    /\ k.pc \in Converted => \A i \in DOMAIN k.pay : Sendable(k.pay[i])
    /\ k.pc \in Chosen => k.answer \in Answers
    /\ k.pc \in {"prepare", "change", "address"} => k.change = k.answer.change
    /\ k.pc \in Verified => ChangeVerified(k)
    /\ k.pc = "address" => k.change > DUST
    /\ k.pc \in Signing => ChangeSettled(k)
    /\ k.pc \in Signing /\ k.change > 0 => k.changeAddress # "none"
    /\ k.pc \in {"check"} \cup Handed /\ k.change > 0 => k.changeAddress # "undecodable"
    /\ k.pc \in Handed => FeeChecked(k)
    /\ k.changeAddress = "foreign" => k.bypassed

\* A call that found the address check on finds it on to its end.
CheckStaysOn == \A c \in Calls : call[c].pc \in Building /\ bypassNewAddressCheck => call[c].bypassed

\* The inductive invariant.
Inv ==
    /\ TypeOK
    /\ \A c \in Calls : CallInv(call[c])
    /\ CheckStaysOn

\* The invariant holds at first: no call has been made.
LEMMA InitInv == Init => Inv
  BY PaymentAssumption, SMTT(30)
  DEF Init, Inv, TypeOK, CallInv, CheckStaysOn, Idle, NoAnswer, CallStates, Strategies, Destinations,
      Ended, Building, Handed, Converted, Chosen, Verified, Signing

\* One call moves from k to a record that satisfies the invariant, the others stay.
LEMMA OneCall ==
  ASSUME Inv, NEW c \in Calls, NEW k \in CallStates, CallInv(k),
         call' = [call EXCEPT ![c] = k],
         locked' \in BOOLEAN, bypassNewAddressCheck' \in BOOLEAN,
         bypassNewAddressCheck' => bypassNewAddressCheck,
         k.pc \in Building /\ bypassNewAddressCheck' => k.bypassed
  PROVE  Inv'
<1>1. call \in [Calls -> CallStates]
  BY DEF Inv, TypeOK
<1>2. call' \in [Calls -> CallStates]
  BY <1>1
<1>3. \A d \in Calls : call'[d] = IF d = c THEN k ELSE call[d]
  BY <1>1
<1>4. \A d \in Calls : CallInv(call'[d])
  BY <1>3 DEF Inv
<1>5. \A d \in Calls : call'[d].pc \in Building /\ bypassNewAddressCheck' => call'[d].bypassed
  BY <1>3 DEF Inv, CheckStaysOn
<1>6. \A d \in Calls : call'[d].pc \in {"sign", "check"} \cup Handed /\ call'[d].change > 0
                         => call'[d].changeAddress # "none"
  BY <1>4 DEF CallInv, Signing
<1>7. TypeOK'
  BY <1>2, <1>6 DEF TypeOK
<1>8. (\A d \in Calls : CallInv(call[d]))'
  BY <1>4 DEF CallInv, ChangeVerified, ChangeSettled, FeeChecked
<1>9. CheckStaysOn'
  BY <1>5 DEF CheckStaysOn
<1> QED BY <1>7, <1>8, <1>9 DEF Inv

\* A call moves to another step and nothing else changes.
LEMMA MoveTo ==
  ASSUME Inv, NEW c \in Calls, NEW pc \in {"hung"} \cup Ended \cup Building \cup Handed,
         Goto(c, pc), UNCHANGED <<locked, bypassNewAddressCheck>>,
         pc \in Building => call[c].pc \in Building,
         CallInv([call[c] EXCEPT !.pc = pc])
  PROVE  Inv'
<1> DEFINE k == [call[c] EXCEPT !.pc = pc]
<1>1. call \in [Calls -> CallStates] /\ locked \in BOOLEAN /\ bypassNewAddressCheck \in BOOLEAN
  BY DEF Inv, TypeOK
<1>2. k \in CallStates /\ k.pc = pc /\ k.bypassed = call[c].bypassed
  BY <1>1 DEF CallStates
<1>3. call' = [call EXCEPT ![c] = k]
  BY <1>1 DEF Goto
<1>4. k.pc \in Building /\ bypassNewAddressCheck => k.bypassed
  BY <1>2 DEF Inv, CheckStaysOn
<1>5. CallInv(k)
  OBVIOUS
<1> HIDE DEF k
<1> QED BY <1>1, <1>2, <1>3, <1>4, <1>5, OneCall

\* A call that is rejected or hangs has nothing more to keep.
LEMMA Leave ==
  ASSUME Inv, NEW c \in Calls, UNCHANGED <<locked, bypassNewAddressCheck>>,
         Reject(c) \/ Hang(c)
  PROVE  Inv'
<1> DEFINE K(pc) == [call[c] EXCEPT !.pc = pc]
<1>1. call[c] \in CallStates /\ CallInv(call[c])
  BY DEF Inv, TypeOK
<1>2. \A pc \in {"rejected", "hung"} :
        K(pc).pc = pc /\ K(pc).changeAddress = call[c].changeAddress /\ K(pc).bypassed = call[c].bypassed
  BY <1>1 DEF CallStates
<1>3. \A pc \in {"rejected", "hung"} : CallInv(K(pc))
  <2> SUFFICES ASSUME NEW pc \in {"rejected", "hung"} PROVE CallInv(K(pc))
    OBVIOUS
  <2> DEFINE k == K(pc)
  <2>1. k.pc = pc /\ (k.changeAddress = "foreign" => k.bypassed)
    BY <1>1, <1>2 DEF CallInv
  <2> HIDE DEF k
  <2>2. CallInv(k)
    BY <2>1 DEF CallInv, Converted, Chosen, Verified, Signing, Handed
  <2> QED BY <2>2 DEF k
<1>4. CASE Reject(c)
  BY <1>3, <1>4, MoveTo DEF Reject, Ended, Building
<1>5. CASE Hang(c)
  BY <1>3, <1>5, MoveTo DEF Hang, Building
<1> QED BY <1>4, <1>5

\* A call begins, or is made again after an earlier one.
LEMMA PayInv ==
  ASSUME Inv, NEW c \in Calls, NEW pay \in Pays, NEW strategy \in Strategies,
         NEW to \in {"none", "given", "undecodable"}, Pay(c, pay, strategy, to)
  PROVE  Inv'
<1> DEFINE k == [Idle EXCEPT !.pc = IF locked THEN "rejected" ELSE "build",
                             !.pay = pay, !.feeStrategy = strategy, !.changeAddress = to,
                             !.bypassed = bypassNewAddressCheck]
<1>1. locked \in BOOLEAN /\ bypassNewAddressCheck \in BOOLEAN
  BY DEF Inv, TypeOK
<1>2. /\ k.pc \in {"rejected", "build"} /\ k.pay = pay /\ k.changeAddress = to
      /\ k.bypassed = bypassNewAddressCheck
  BY DEF Idle
<1>3. k \in CallStates
  <2>1. Idle \in CallStates
    BY DEF Idle, CallStates, Strategies, Destinations
  <2>2. \A pc \in {"rejected", "build"} :
          [Idle EXCEPT !.pc = pc, !.pay = pay, !.feeStrategy = strategy, !.changeAddress = to]
            \in CallStates
    BY <2>1 DEF CallStates, Ended, Building, Destinations
  <2>3. \A r \in CallStates : [r EXCEPT !.bypassed = bypassNewAddressCheck] \in CallStates
    BY <1>1 DEF CallStates
  <2>4. k = [[Idle EXCEPT !.pc = IF locked THEN "rejected" ELSE "build", !.pay = pay,
                         !.feeStrategy = strategy, !.changeAddress = to]
               EXCEPT !.bypassed = bypassNewAddressCheck]
    BY DEF Idle
  <2> QED BY <2>2, <2>3, <2>4
<1>4. call' = [call EXCEPT ![c] = k] /\ UNCHANGED <<locked, bypassNewAddressCheck>>
  BY DEF Pay
<1> HIDE DEF k
<1>5. CallInv(k)
  BY <1>2 DEF CallInv, Converted, Chosen, Verified, Signing, Handed
<1> QED BY <1>1, <1>2, <1>3, <1>4, <1>5, OneCall

\* The outputs have been converted, or the call is rejected.
LEMMA BuildInv ==
  ASSUME Inv, NEW c \in Calls, Build(c)
  PROVE  Inv'
<1> DEFINE k == [call[c] EXCEPT !.pc = "select"]
<1>1. call[c] \in CallStates /\ CallInv(call[c]) /\ call[c].pc = "build"
  BY DEF Inv, TypeOK, Build
<1>2. CASE Goto(c, "select") /\ \A i \in DOMAIN call[c].pay : Sendable(call[c].pay[i])
  <2>1. /\ k.pc = "select" /\ k.pay = call[c].pay
        /\ k.changeAddress = call[c].changeAddress /\ k.bypassed = call[c].bypassed
    BY <1>1 DEF CallStates
  <2>2. call[c].pay \in Pays /\ (call[c].changeAddress = "foreign" => call[c].bypassed)
    BY <1>1 DEF CallInv
  <2>3. CallInv(k)
    <3> HIDE DEF k
    <3> QED BY <1>2, <2>1, <2>2 DEF CallInv, Converted, Chosen, Verified, Signing, Handed
  <2> QED BY <1>1, <1>2, <2>3, MoveTo DEF Build, Building
<1>3. CASE Reject(c)
  BY <1>3, Leave DEF Build
<1> QED BY <1>2, <1>3 DEF Build

\* Whatever coins, fee and change the API answers.
LEMMA SelectedInv ==
  ASSUME Inv, NEW c \in Calls, NEW a \in Answers, Selected(c, a)
  PROVE  Inv'
<1> DEFINE k == [call[c] EXCEPT !.pc = "prepare", !.answer = a, !.change = a.change]
<1>1. /\ call \in [Calls -> CallStates] /\ CallInv(call[c]) /\ call[c].pc = "select"
      /\ locked \in BOOLEAN /\ bypassNewAddressCheck \in BOOLEAN
  BY DEF Inv, TypeOK, Selected
<1>2. a.change \in Int
  BY PaymentAssumption
<1>3. /\ k.pc = "prepare" /\ k.pay = call[c].pay /\ k.answer = a /\ k.change = a.change
      /\ k.changeAddress = call[c].changeAddress /\ k.bypassed = call[c].bypassed
  BY <1>1 DEF CallStates
<1>4. k \in CallStates
  BY <1>1, <1>2 DEF CallStates, Building
<1>5. call' = [call EXCEPT ![c] = k] /\ UNCHANGED <<locked, bypassNewAddressCheck>>
  BY <1>1 DEF Selected
<1>6. k.pc \in Building /\ bypassNewAddressCheck => k.bypassed
  BY <1>1, <1>3 DEF Inv, CheckStaysOn, Building
<1> HIDE DEF k
<1>7. CallInv(k)
  BY <1>1, <1>3 DEF CallInv, Converted, Chosen, Verified, Signing, Handed
<1> QED BY <1>1, <1>4, <1>5, <1>6, <1>7, OneCall

\* The change named has been compared with what is left.
LEMMA PrepareInv ==
  ASSUME Inv, NEW c \in Calls, Prepare(c)
  PROVE  Inv'
<1> DEFINE k == [call[c] EXCEPT !.pc = "change"]
           left == InputsTotal(call[c].answer.utxos) - OutputsTotal(call[c].pay) - call[c].answer.fee
<1>1. call[c] \in CallStates /\ CallInv(call[c]) /\ call[c].pc = "prepare"
  BY DEF Inv, TypeOK, Prepare
<1>2. \/ Reject(c) \/ Hang(c)
      \/ Goto(c, "change") /\ ~(left > DUST * 2 /\ left # call[c].answer.change)
  BY DEF Prepare
<1>3. CASE Reject(c) \/ Hang(c)
  BY <1>3, Leave DEF Prepare
<1>4. CASE Goto(c, "change") /\ ~(left > DUST * 2 /\ left # call[c].answer.change)
  <2>1. /\ k.pc = "change" /\ k.pay = call[c].pay /\ k.answer = call[c].answer
        /\ k.change = call[c].change
        /\ k.changeAddress = call[c].changeAddress /\ k.bypassed = call[c].bypassed
    BY <1>1 DEF CallStates
  <2>2. ChangeVerified(k)
    BY <1>4, <2>1 DEF ChangeVerified
  <2>3. CallInv(k)
    <3> HIDE DEF k
    <3> QED BY <1>1, <2>1, <2>2 DEF CallInv, Converted, Chosen, Verified, Signing, Handed
  <2> QED BY <1>1, <1>4, <2>3, MoveTo DEF Prepare, Building
<1> QED BY <1>2, <1>3, <1>4

\* Dust is dropped and needs no address; the rest is kept.
LEMMA ChangeInv ==
  ASSUME Inv, NEW c \in Calls, Change(c)
  PROVE  Inv'
<1> DEFINE old == call[c]
<1>1. /\ call \in [Calls -> CallStates] /\ old \in CallStates /\ CallInv(old) /\ old.pc = "change"
      /\ locked \in BOOLEAN /\ bypassNewAddressCheck \in BOOLEAN
      /\ UNCHANGED <<locked, bypassNewAddressCheck>>
  BY DEF Inv, TypeOK, Change
<1>2. old.change \in Int /\ old.change = old.answer.change /\ DUST \in Nat
  BY <1>1, PaymentAssumption DEF CallStates, CallInv
<1>3. CASE old.change > 0 /\ old.change <= DUST
  <2> DEFINE k == [old EXCEPT !.pc = "sign", !.change = 0]
  <2>1. call' = [call EXCEPT ![c] = k]
    <3>1. call' = [call EXCEPT ![c].pc = "sign", ![c].change = 0]
      BY <1>3, <1>2 DEF Change
    <3>2. call \in [Calls -> CallStates]
      BY <1>1
    <3> QED BY <3>1, <3>2
  <2>2. k \in CallStates
    <3>1. old \in CallStates
      BY <1>1
    <3>2. "sign" \in {"idle", "hung"} \cup Ended \cup Building \cup Handed /\ 0 \in Int
      BY DEF Building
    <3> HIDE DEF old
    <3> QED BY <3>1, <3>2 DEF CallStates
  <2>3. /\ k.pc = "sign" /\ k.change = 0 /\ k.pay = old.pay /\ k.answer = old.answer
        /\ k.changeAddress = old.changeAddress /\ k.bypassed = old.bypassed
    BY <1>1 DEF CallStates
  <2>4. k.pc \in Building /\ bypassNewAddressCheck => k.bypassed
    BY <1>1, <2>3 DEF Inv, CheckStaysOn, Building
  <2> HIDE DEF k
  <2>5. ChangeSettled(k) /\ (ChangeVerified(old) => ChangeVerified(k))
    BY <1>2, <1>3, <2>3 DEF ChangeSettled, ChangeVerified
  <2>6. CallInv(k)
    BY <1>1, <2>3, <2>5 DEF CallInv, Converted, Chosen, Verified, Signing, Handed
  <2> QED BY <1>1, <2>1, <2>2, <2>4, <2>6, OneCall
<1>4. CASE old.change > DUST /\ old.changeAddress = "none"
  <2> DEFINE k == [old EXCEPT !.pc = "address"]
  <2>1. Goto(c, "address")
    BY <1>2, <1>4 DEF Change
  <2>2. /\ k.pc = "address" /\ k.change = old.change /\ k.pay = old.pay /\ k.answer = old.answer
        /\ k.changeAddress = old.changeAddress /\ k.bypassed = old.bypassed
    BY <1>1 DEF CallStates
  <2>3. CallInv(k)
    <3> HIDE DEF k
    <3>1. ChangeVerified(old) => ChangeVerified(k)
      BY <2>2 DEF ChangeVerified
    <3> QED BY <1>1, <1>4, <2>2, <3>1 DEF CallInv, Converted, Chosen, Verified, Signing, Handed
  <2> QED BY <1>1, <2>1, <2>3, MoveTo DEF Building
<1>5. CASE old.change <= 0 \/ (old.change > DUST /\ old.changeAddress # "none")
  <2> DEFINE k == [old EXCEPT !.pc = "sign"]
  <2>1. Goto(c, "sign")
    BY <1>2, <1>5 DEF Change
  <2>2. /\ k.pc = "sign" /\ k.change = old.change /\ k.pay = old.pay /\ k.answer = old.answer
        /\ k.changeAddress = old.changeAddress /\ k.bypassed = old.bypassed
    BY <1>1 DEF CallStates
  <2>3. CallInv(k)
    <3> HIDE DEF k
    <3>1. ChangeSettled(k) /\ (ChangeVerified(old) => ChangeVerified(k))
      BY <1>2, <1>5, <2>2 DEF ChangeSettled, ChangeVerified
    <3> QED BY <1>1, <1>2, <1>5, <2>2, <3>1 DEF CallInv, Converted, Chosen, Verified, Signing, Handed
  <2> QED BY <1>1, <2>1, <2>3, MoveTo DEF Building
<1>6. \/ old.change > 0 /\ old.change <= DUST
      \/ old.change > DUST /\ old.changeAddress = "none"
      \/ old.change <= 0
      \/ old.change > DUST /\ old.changeAddress # "none"
  <2> HIDE DEF old
  <2> QED BY <1>2
<1> QED BY <1>3, <1>4, <1>5, <1>6

\* An address that is not the wallet's passes only if the check was off from the start.
LEMMA NewAddressInv ==
  ASSUME Inv, NEW c \in Calls, NEW to \in {"own", "foreign"}, NEW base58 \in BOOLEAN,
         NewAddress(c, to, base58)
  PROVE  Inv'
<1> DEFINE old == call[c]
           kept == [old EXCEPT !.pc = "sign", !.changeAddress = to]
           dropped == [old EXCEPT !.pc = "rejected"]
<1>1. /\ call \in [Calls -> CallStates] /\ old \in CallStates /\ CallInv(old) /\ old.pc = "address"
      /\ locked \in BOOLEAN /\ bypassNewAddressCheck \in BOOLEAN
  BY DEF Inv, TypeOK, NewAddress
<1>2. /\ locked' = locked
      /\ bypassNewAddressCheck' \in BOOLEAN /\ (bypassNewAddressCheck' => bypassNewAddressCheck)
  BY <1>1 DEF NewAddress
<1>3. bypassNewAddressCheck => old.bypassed
  BY <1>1 DEF Inv, CheckStaysOn, Building
<1>4. CASE bypassNewAddressCheck' \/ to = "own"
  <2>1. call' = [call EXCEPT ![c] = kept]
    BY <1>1, <1>4 DEF NewAddress
  <2>2. kept \in CallStates
    BY <1>1 DEF CallStates, Building, Destinations
  <2>3. /\ kept.pc = "sign" /\ kept.change = old.change /\ kept.pay = old.pay
        /\ kept.answer = old.answer /\ kept.changeAddress = to /\ kept.bypassed = old.bypassed
    BY <1>1 DEF CallStates
  <2> HIDE DEF kept
  <2>4. ChangeSettled(kept) /\ (ChangeVerified(old) => ChangeVerified(kept))
    BY <1>1, <2>3 DEF ChangeSettled, ChangeVerified, CallInv
  <2>5. to = "foreign" => kept.bypassed
    BY <1>2, <1>3, <1>4, <2>3
  <2>6. CallInv(kept)
    BY <1>1, <2>3, <2>4, <2>5 DEF CallInv, Converted, Chosen, Verified, Signing, Handed
  <2> QED BY <1>1, <1>2, <1>3, <2>1, <2>2, <2>3, <2>6, OneCall
<1>5. CASE ~(bypassNewAddressCheck' \/ to = "own")
  <2>1. call' = [call EXCEPT ![c] = dropped]
    BY <1>1, <1>5 DEF NewAddress, Reject, Goto
  <2>2. dropped \in CallStates
    BY <1>1 DEF CallStates, Ended
  <2>3. /\ dropped.pc = "rejected" /\ dropped.changeAddress = old.changeAddress
        /\ dropped.bypassed = old.bypassed
    BY <1>1 DEF CallStates
  <2> HIDE DEF dropped
  <2>4. CallInv(dropped)
    BY <1>1, <2>3 DEF CallInv, Converted, Chosen, Verified, Signing, Handed
  <2> QED BY <1>1, <1>2, <2>1, <2>2, <2>3, <2>4, OneCall DEF Building
<1> QED BY <1>4, <1>5

\* The steps from signing on only move the call along.
LEMMA AlongInv ==
  ASSUME Inv, NEW c \in Calls, Sign(c) \/ CheckFee(c) \/ Accept(c) \/ Sent(c)
  PROVE  Inv'
<1> DEFINE old == call[c]
<1>1. old \in CallStates /\ CallInv(old)
  BY DEF Inv, TypeOK
<1>2. UNCHANGED <<locked, bypassNewAddressCheck>>
  BY DEF Sign, CheckFee, Accept, Sent
<1>3. ASSUME NEW pc \in {"check"} \cup Handed, old.pc \in Signing,
             old.pc = "sign" => ~(old.change > 0 /\ old.changeAddress = "undecodable"),
             Goto(c, pc), pc = "check" => old.pc = "sign",
             pc \in Handed => FeeChecked(old)
      PROVE  Inv'
  <2> DEFINE k == [old EXCEPT !.pc = pc]
  <2>1. /\ k.pc = pc /\ k.change = old.change /\ k.pay = old.pay /\ k.answer = old.answer
        /\ k.changeAddress = old.changeAddress /\ k.bypassed = old.bypassed
        /\ k.feeStrategy = old.feeStrategy
    BY <1>1 DEF CallStates
  <2>2. CallInv(k)
    <3> HIDE DEF k
    <3>1. (ChangeSettled(old) => ChangeSettled(k)) /\ (ChangeVerified(old) => ChangeVerified(k))
      BY <2>1 DEF ChangeSettled, ChangeVerified
    <3>2. FeeChecked(old) => FeeChecked(k)
      BY <2>1 DEF FeeChecked, estimateVsizeFee, OutputScripts
    <3> QED BY <1>1, <1>3, <2>1, <3>1, <3>2 DEF CallInv, Converted, Chosen, Verified, Signing, Handed
  <2> QED BY <1>2, <1>3, <2>2, MoveTo DEF Building, Handed
<1>4. CASE Sign(c)
  BY <1>2, <1>3, <1>4, Leave DEF Sign, Signing, Handed
<1>5. CASE CheckFee(c)
  <2>1. old.pc = "check" /\ (Hang(c) \/ Reject(c) \/ (Goto(c, "send") /\ FeeChecked(old)))
    BY <1>5 DEF CheckFee, FeeChecked
  <2> QED BY <1>2, <1>3, <2>1, Leave DEF Signing, Handed
<1>6. CASE Accept(c) \/ Sent(c)
  <2>1. old.pc \in Handed
    BY <1>6 DEF Accept, Sent, Handed
  <2>2. FeeChecked(old)
    BY <1>1, <2>1 DEF CallInv
  <2> QED BY <1>3, <1>6, <2>2 DEF Accept, Sent, Signing, Handed
<1> QED BY <1>4, <1>5, <1>6

\* A request that fails rejects the call.
LEMMA FailsInv ==
  ASSUME Inv, NEW c \in Calls, RequestFails(c)
  PROVE  Inv'
  BY Leave DEF RequestFails

\* lock() and unlock() leave what the calls have established alone.
LEMMA LockInv ==
  ASSUME Inv, Lock \/ Unlock
  PROVE  Inv'
<1>1. /\ call \in [Calls -> CallStates] /\ \A c \in Calls : CallInv(call[c])
      /\ bypassNewAddressCheck' = bypassNewAddressCheck /\ bypassNewAddressCheck \in BOOLEAN
      /\ locked' \in BOOLEAN
  BY DEF Inv, TypeOK, Lock, Unlock
<1>2. CASE Unlock
  <2>1. call' = call
    BY <1>2 DEF Unlock
  <2> QED BY <1>1, <2>1
      DEF Inv, TypeOK, CheckStaysOn, CallInv, ChangeVerified, ChangeSettled, FeeChecked
<1>3. CASE Lock
  <2> DEFINE r(c) == call[c].raced \/ call[c].pc \in Building
             K(c) == [call[c] EXCEPT !.raced = r(c)]
  <2>1. call' = [c \in Calls |-> K(c)]
    BY <1>3 DEF Lock
  <2>2. \A c \in Calls : r(c) \in BOOLEAN
    BY <1>1 DEF CallStates
  <2> HIDE DEF r
  <2>3. \A c \in Calls : K(c) \in CallStates
    BY <1>1, <2>2 DEF CallStates
  <2>4. \A c \in Calls :
          /\ K(c).pc = call[c].pc /\ K(c).pay = call[c].pay /\ K(c).answer = call[c].answer
          /\ K(c).change = call[c].change /\ K(c).changeAddress = call[c].changeAddress
          /\ K(c).bypassed = call[c].bypassed /\ K(c).feeStrategy = call[c].feeStrategy
    BY <1>1 DEF CallStates
  <2> HIDE DEF K
  <2>5. \A c \in Calls : CallInv(K(c))
    <3>1. \A c \in Calls : FeeChecked(call[c]) => FeeChecked(K(c))
      BY <2>4 DEF FeeChecked, estimateVsizeFee, OutputScripts
    <3> QED BY <1>1, <2>4, <3>1 DEF CallInv, ChangeVerified, ChangeSettled
  <2>6. \A c \in Calls : call'[c] = K(c)
    BY <2>1
  <2>7. call' \in [Calls -> CallStates]
    BY <2>1, <2>3
  <2>8. \A c \in Calls : CallInv(call'[c])
    BY <2>5, <2>6
  <2>9. (\A c \in Calls : CallInv(call[c]))'
    BY <2>8 DEF CallInv, ChangeVerified, ChangeSettled, FeeChecked
  <2>10. TypeOK'
    BY <1>1, <2>7, <2>8 DEF TypeOK, CallInv, Signing
  <2>11. CheckStaysOn'
    BY <1>1, <2>4, <2>6 DEF Inv, CheckStaysOn
  <2> QED BY <2>9, <2>10, <2>11 DEF Inv
<1> QED BY <1>2, <1>3

\* Every step keeps the invariant.
LEMMA NextInv == Inv /\ [Next]_vars => Inv'
<1> SUFFICES ASSUME Inv, [Next]_vars PROVE Inv'
  OBVIOUS
<1>1. ASSUME NEW c \in Calls, Step(c) PROVE Inv'
  BY <1>1, BuildInv, SelectedInv, PrepareInv, ChangeInv, NewAddressInv, AlongInv, FailsInv DEF Step
<1>2. CASE UNCHANGED vars
  BY <1>2 DEF vars, Inv, TypeOK, CheckStaysOn, CallInv, ChangeVerified, ChangeSettled, FeeChecked
<1> QED BY <1>1, <1>2, PayInv, LockInv DEF Next

\* The invariant holds in every state.
LEMMA InvAlways == Spec => []Inv
  BY InitInv, NextInv, PTL DEF Spec

-----------------------------------------------------------------------------
\* Types, and a transaction with change says where the change goes: the step
\* that adds the output never runs before the address is known.
THEOREM TypeCorrect == Spec => []TypeOK
<1>1. Inv => TypeOK
  BY DEF Inv
<1> QED BY <1>1, InvAlways, PTL

\* For all outputs, and all coins, fees and changes the API may name, a
\* transaction handed to it pays at most the fee named and twice the dust.
THEOREM FeeBound == Spec => []FeeAsNamed
<1>1. Inv => FeeAsNamed
  <2> SUFFICES ASSUME Inv, NEW c \in Calls, call[c].pc \in Handed
               PROVE  PaidFee(call[c]) <= call[c].answer.fee + 2 * DUST
    BY DEF FeeAsNamed
  <2> DEFINE k == call[c]
             in == InputsTotal(k.answer.utxos)
             out == OutputsTotal(k.pay)
  <2>1. CallInv(k) /\ k.pc \in Handed /\ k.change \in Int
    BY DEF Inv, TypeOK, CallStates
  <2> HIDE DEF k
  <2>2. k.pay \in Pays /\ k.answer \in Answers /\ ChangeVerified(k) /\ ChangeSettled(k)
    BY <2>1 DEF CallInv, Converted, Chosen, Verified, Signing, Handed
  <2>3. in \in Int /\ out \in Int /\ k.answer.fee \in Int /\ k.answer.change \in Int /\ DUST \in Nat
    BY <2>2, AmountsInt, PaymentAssumption
  <2>4. in - out - k.answer.fee > DUST * 2 => in - out - k.answer.fee = k.answer.change
    BY <2>2 DEF ChangeVerified
  <2>5. in - out - (IF k.change > 0 THEN k.change ELSE 0) <= k.answer.fee + 2 * DUST
    <3> HIDE DEF in, out
    <3> QED BY <2>1, <2>2, <2>3, <2>4 DEF ChangeSettled
  <2> QED BY <2>5 DEF PaidFee, k
<1> QED BY <1>1, InvAlways, PTL

\* The wallet's own estimate holds: it covers the size of what is sent, and with the
\* sanity check the fee that is paid is near the one it gives.
THEOREM EstimateIsSound == Spec => []EstimateHolds
<1>1. Inv /\ FeeAsNamed => EstimateHolds
  <2> SUFFICES ASSUME Inv, FeeAsNamed, NEW c \in Calls, call[c].pc \in Handed
               PROVE  /\ LET utxos == call[c].answer.utxos
                             outs == OutputScripts(call[c])
                         IN  4 * estimateTxVsize(utxos, outs) + Cardinality(EmptyWitnesses(utxos))
                               >= SerialisedWeight(utxos, outs)
                      /\ call[c].feeStrategy = "base_fee" /\ feeSanityCheck =>
                           PaidFee(call[c]) <= estimateVsizeFee(call[c]) + BASE_FEE + 2 * DUST
    BY DEF EstimateHolds, EstimateCovers, BaseFeeSane
  <2> DEFINE k == call[c]
             utxos == k.answer.utxos
             outs == OutputScripts(k)
             vsize == estimateTxVsize(utxos, outs)
  <2>1. CallInv(k) /\ k.pc \in Handed /\ k.change \in Int
    BY DEF Inv, TypeOK, CallStates
  <2>2. k.pay \in Pays /\ k.answer \in Answers /\ FeeChecked(k)
    <3> HIDE DEF k
    <3> QED BY <2>1 DEF CallInv, Converted, Chosen, Handed
  <2>3. utxos \in Seq(Coins) /\ k.answer.fee \in Int
        /\ InputsTotal(utxos) \in Int /\ OutputsTotal(k.pay) \in Int
    <3> HIDE DEF k
    <3> QED BY <2>2, AmountsInt
  <2>4. outs \in Seq(Nat)
    <3> HIDE DEF k
    <3> QED BY <2>2, LengthsOf
  <2>5. \A i \in DOMAIN utxos : Supported(utxos[i])
    BY <2>2 DEF FeeChecked
  <2>6. vsize \in Nat /\ 4 * vsize + Cardinality(EmptyWitnesses(utxos)) >= SerialisedWeight(utxos, outs)
    <3> HIDE DEF utxos, outs
    <3> QED BY <2>3, <2>4, <2>5, VsizeCovers
  <2>7. ASSUME k.feeStrategy = "base_fee", feeSanityCheck
        PROVE  PaidFee(k) <= estimateVsizeFee(k) + BASE_FEE + 2 * DUST
    <3>1. PaidFee(k) <= k.answer.fee + 2 * DUST
      BY <2>1 DEF FeeAsNamed
    <3>2. LET difference == estimateVsizeFee(k) - k.answer.fee
          IN  ~(difference > BASE_FEE \/ -difference > BASE_FEE)
      BY <2>2, <2>7 DEF FeeChecked
    <3>3. PaidFee(k) \in Int
      <4> HIDE DEF k, utxos
      <4> QED BY <2>1, <2>3 DEF PaidFee, utxos
    <3>4. estimateVsizeFee(k) \in Int
      <4>1. ASSUME NEW x \in Nat PROVE Ceil(x, 1000) \in Nat
        BY DEF Ceil
      <4>2. ASSUME NEW x \in Nat PROVE x * BASE_FEE \in Int
        BY PaymentAssumption
      <4>3. estimateVsizeFee(k) = Ceil(vsize, 1000) * BASE_FEE
        BY DEF estimateVsizeFee
      <4> HIDE DEF vsize
      <4> QED BY <2>6, <4>1, <4>2, <4>3
    <3>5. BASE_FEE \in Int /\ DUST \in Int
      BY PaymentAssumption
    <3> HIDE DEF k
    <3> QED BY <2>3, <3>1, <3>2, <3>3, <3>4, <3>5
  <2> QED BY <2>6, <2>7
<1> QED BY <1>1, InvAlways, FeeBound, PTL

\* No output of a transaction handed to the API is dust.
THEOREM DustFree == Spec => []NoDustOutput
<1>1. Inv => NoDustOutput
  <2> SUFFICES ASSUME Inv, NEW c \in Calls, call[c].pc \in Handed
               PROVE  /\ call[c].change > 0 => call[c].change > DUST
                      /\ \A i \in DOMAIN call[c].pay :
                           call[c].pay[i].type = "data" \/ call[c].pay[i].value > DUST
    BY DEF NoDustOutput
  <2>1. CallInv(call[c]) /\ call[c].change \in Int
    BY DEF Inv, TypeOK, CallStates
  <2>2. ChangeSettled(call[c]) /\ \A i \in DOMAIN call[c].pay : Sendable(call[c].pay[i])
    BY <2>1 DEF CallInv, Converted, Signing
  <2> QED BY <2>1, <2>2 DEF ChangeSettled, Sendable
<1> QED BY <1>1, InvAlways, PTL

\* Change goes to the caller's address or to one of the wallet's own, unless
\* the wallet was made with the address check off.
THEOREM ChangeHome == Spec => []ChangeComesHome
<1>1. Inv => ChangeComesHome
  <2> SUFFICES ASSUME Inv, NEW c \in Calls, call[c].pc \in Handed, call[c].change > 0, ~call[c].bypassed
               PROVE  call[c].changeAddress \in {"given", "own"}
    BY DEF ChangeComesHome
  <2>1. CallInv(call[c]) /\ call[c].changeAddress \in Destinations
    BY DEF Inv, TypeOK, CallStates
  <2> QED BY <2>1 DEF CallInv, Destinations, Signing
<1> QED BY <1>1, InvAlways, PTL
=============================================================================
