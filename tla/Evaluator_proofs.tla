-------------------------- MODULE Evaluator_proofs --------------------------
(***************************************************************************)
(* The machine that the constructor of Evaluator builds measures           *)
(* Levenshtein distance, for every pair of symbol tables of which the      *)
(* second is contained in the first, all test data and all best paths.     *)
(***************************************************************************)
EXTENDS Evaluator, SequenceTheorems, FiniteSetTheorems, WellFoundedInduction,
        TLAPS

(* A smallest number. *)
LEMMA Smallest ==
    ASSUME NEW S \in SUBSET Nat, S # {}
    PROVE  Min(S) \in S /\ \A k \in S : Min(S) <= k
<1> DEFINE R == OpToRel(<, Nat)
<1>1. PICK x \in S : \A y \in S : ~ (<<y, x>> \in R)
  <2>1. IsWellFoundedOn(R, Nat)  BY NatLessThanWellFounded
  <2> HIDE DEF R
  <2> QED  BY <2>1, WFMin
<1>2. \A y \in S : <<y, x>> \in R <=> y < x
  <2>1. \A y, z \in Nat : <<y, z>> \in R <=> y < z  BY Zenon DEF OpToRel
  <2> HIDE DEF R
  <2> QED  BY <2>1
<1>3. \A y \in S : x <= y
  <2> TAKE y \in S
  <2>1. ~(y < x) /\ x \in Nat /\ y \in Nat  BY <1>1, <1>2
  <2> QED  BY <2>1
<1> QED  BY <1>3 DEF Min

-----------------------------------------------------------------------------
(* Matchings of the first m letters of a word with what the first n labels *)
(* of a chain spell.                                                       *)

LettersTo(t, n) == {k \in 1..n : t[k] # 0}
Spelled(t, n) == Cardinality(LettersTo(t, n))

Matchings(v, m, n) == {M \in SUBSET ((1..m) \X LettersTo(v, n)) : Monotone(M)}
Unequal(u, v, M) == {p \in M : u[p[1]] # v[p[2]]}
CostOf(u, v, m, n, M) ==
    m + Spelled(v, n) - 2 * Cardinality(M) + Cardinality(Unequal(u, v, M))

Symbols == OutSyms \cup {0}

LEMMA SpelledStep ==
    ASSUME NEW t, NEW n \in Nat
    PROVE  /\ IsFiniteSet(LettersTo(t, n)) /\ Spelled(t, n) \in Nat
           /\ Spelled(t, n) <= n
           /\ n > 0 => Spelled(t, n) =
                         Spelled(t, n - 1) + IF t[n] # 0 THEN 1 ELSE 0
<1>1. \A k \in Nat : /\ IsFiniteSet(LettersTo(t, k)) /\ Spelled(t, k) \in Nat
                     /\ Spelled(t, k) <= k
  <2> TAKE k \in Nat
  <2>1. IsFiniteSet(1..k) /\ Cardinality(1..k) = k
    <3>1. 1 \in Int /\ k \in Int  OBVIOUS
    <3>2. /\ IsFiniteSet(1..k)
          /\ Cardinality(1..k) = IF 1 > k THEN 0 ELSE k - 1 + 1
      BY <3>1, FS_Interval
    <3> QED  BY <3>2
  <2>2. LettersTo(t, k) \in SUBSET (1..k)  BY DEF LettersTo
  <2> QED  BY <2>1, <2>2, FS_Subset, FS_CardinalityType DEF Spelled
<1>2. ASSUME n > 0
      PROVE  Spelled(t, n) = Spelled(t, n - 1) + IF t[n] # 0 THEN 1 ELSE 0
  <2> DEFINE A == LettersTo(t, n - 1)
             B == LettersTo(t, n)
  <2>1. n - 1 \in Nat /\ IsFiniteSet(A) /\ Cardinality(A) \in Nat
    BY <1>1, <1>2 DEF Spelled
  <2>2. n \notin A /\ B = IF t[n] # 0 THEN A \cup {n} ELSE A
    BY <1>2 DEF LettersTo
  <2> HIDE DEF A, B
  <2>3. Cardinality(A \cup {n}) = Cardinality(A) + 1
    BY <2>1, <2>2, FS_AddElement
  <2>4. Cardinality(B) = Cardinality(A) + IF t[n] # 0 THEN 1 ELSE 0
    BY <2>1, <2>2, <2>3
  <2> QED  BY <2>4 DEF A, B, Spelled
<1> QED  BY <1>1, <1>2

LEMMA MatchingFinite ==
    ASSUME NEW u, NEW v, NEW m \in Nat, NEW n \in Nat, NEW M \in Matchings(v, m, n)
    PROVE  /\ IsFiniteSet(M) /\ Cardinality(M) \in Nat
           /\ IsFiniteSet(Unequal(u, v, M)) /\ Cardinality(Unequal(u, v, M)) \in Nat
<1>1. IsFiniteSet(1..m)
  <2>1. 1 \in Int /\ m \in Int  OBVIOUS
  <2> QED  BY <2>1, FS_Interval
<1>2. IsFiniteSet((1..m) \X LettersTo(v, n))  BY <1>1, SpelledStep, FS_Product
<1>3. M \in SUBSET ((1..m) \X LettersTo(v, n))  BY DEF Matchings
<1>4. IsFiniteSet(M)  BY <1>2, <1>3, FS_Subset
<1>5. Unequal(u, v, M) \in SUBSET M  BY DEF Unequal
<1> QED  BY <1>4, <1>5, FS_Subset, FS_CardinalityType

(* One more letter on either side that is left over. *)
LEMMA LeaveLeft ==
    ASSUME NEW u, NEW v, NEW m \in Nat \ {0}, NEW n \in Nat,
           NEW M \in Matchings(v, m - 1, n)
    PROVE  /\ M \in Matchings(v, m, n)
           /\ CostOf(u, v, m, n, M) = CostOf(u, v, m - 1, n, M) + 1
<1>1. M \in Matchings(v, m, n)  BY DEF Matchings
<1>2. Cardinality(M) \in Nat /\ Cardinality(Unequal(u, v, M)) \in Nat
  BY <1>1, MatchingFinite
<1>3. Spelled(v, n) \in Nat  BY SpelledStep
<1> QED  BY <1>1, <1>2, <1>3 DEF CostOf

LEMMA LeaveRight ==
    ASSUME NEW u, NEW v, NEW m \in Nat, NEW n \in Nat \ {0},
           NEW M \in Matchings(v, m, n - 1)
    PROVE  /\ M \in Matchings(v, m, n)
           /\ CostOf(u, v, m, n, M) =
                CostOf(u, v, m, n - 1, M) + IF v[n] # 0 THEN 1 ELSE 0
<1>1. LettersTo(v, n - 1) \subseteq LettersTo(v, n)  BY DEF LettersTo
<1>2. M \in Matchings(v, m, n)  BY <1>1 DEF Matchings
<1>3. Cardinality(M) \in Nat /\ Cardinality(Unequal(u, v, M)) \in Nat
  BY <1>2, MatchingFinite
<1>4. /\ Spelled(v, n) \in Nat /\ Spelled(v, n - 1) \in Nat
      /\ Spelled(v, n) = Spelled(v, n - 1) + IF v[n] # 0 THEN 1 ELSE 0
  <2>1. n \in Nat /\ n - 1 \in Nat /\ n > 0  OBVIOUS
  <2> QED  BY <2>1, SpelledStep
<1> QED  BY <1>2, <1>3, <1>4 DEF CostOf

(* One more match. *)
LEMMA MatchLast ==
    ASSUME NEW u, NEW v, NEW m \in Nat \ {0}, NEW n \in Nat \ {0}, v[n] # 0,
           NEW M \in Matchings(v, m - 1, n - 1)
    PROVE  /\ M \cup {<<m, n>>} \in Matchings(v, m, n)
           /\ CostOf(u, v, m, n, M \cup {<<m, n>>}) =
                CostOf(u, v, m - 1, n - 1, M) + IF u[m] # v[n] THEN 1 ELSE 0
<1> DEFINE p == <<m, n>>
           P == M \cup {p}
<1>1. \A q \in M : q[1] \in 1..(m - 1) /\ q[2] \in 1..(n - 1) /\ v[q[2]] # 0
  BY DEF Matchings, LettersTo
<1>2. M \in SUBSET ((1..(m - 1)) \X LettersTo(v, n - 1)) /\ Monotone(M)
  BY DEF Matchings
<1>3. P \in Matchings(v, m, n)
  <2>1. LettersTo(v, n - 1) \subseteq LettersTo(v, n) /\ n \in LettersTo(v, n)
    BY DEF LettersTo
  <2>2. P \in SUBSET ((1..m) \X LettersTo(v, n))  BY <1>2, <2>1
  <2>3. Monotone(P)  BY <1>1, <1>2 DEF Monotone
  <2> QED  BY <2>2, <2>3 DEF Matchings
<1>4. p \notin M  BY <1>1
<1>5. /\ IsFiniteSet(M) /\ Cardinality(M) \in Nat
      /\ IsFiniteSet(Unequal(u, v, M)) /\ Cardinality(Unequal(u, v, M)) \in Nat
  <2>1. m - 1 \in Nat /\ n - 1 \in Nat  OBVIOUS
  <2> QED  BY <2>1, MatchingFinite
<1>6. Cardinality(P) = Cardinality(M) + 1  BY <1>4, <1>5, FS_AddElement
<1>7. Cardinality(Unequal(u, v, P)) =
        Cardinality(Unequal(u, v, M)) + IF u[m] # v[n] THEN 1 ELSE 0
  <2>1. Unequal(u, v, P) = IF u[m] # v[n] THEN Unequal(u, v, M) \cup {p}
                                          ELSE Unequal(u, v, M)
    BY DEF Unequal
  <2>2. p \notin Unequal(u, v, M)  BY <1>4 DEF Unequal
  <2> HIDE DEF p, P
  <2>3. Cardinality(Unequal(u, v, M) \cup {p}) = Cardinality(Unequal(u, v, M)) + 1
    BY <1>5, <2>2, FS_AddElement
  <2> QED  BY <1>5, <2>1, <2>3
<1>8. /\ Spelled(v, n - 1) \in Nat /\ Spelled(v, n) = Spelled(v, n - 1) + 1
  <2>1. n \in Nat /\ n - 1 \in Nat /\ n > 0  OBVIOUS
  <2> QED  BY <2>1, SpelledStep
<1> DEFINE c == Cardinality(M)
           e == Cardinality(Unequal(u, v, M))
           s == Spelled(v, n - 1)
           x == IF u[m] # v[n] THEN 1 ELSE 0
<1>9. CostOf(u, v, m, n, P) = m + (s + 1) - 2 * (c + 1) + (e + x)
  BY <1>6, <1>7, <1>8 DEF CostOf
<1>10. CostOf(u, v, m - 1, n - 1, M) = (m - 1) + s - 2 * c + e  BY DEF CostOf
<1>11. s \in Nat /\ c \in Nat /\ e \in Nat /\ x \in Nat  BY <1>5, <1>8
<1> HIDE DEF c, e, s, x, P
<1>12. CostOf(u, v, m, n, P) = CostOf(u, v, m - 1, n - 1, M) + x
  BY <1>9, <1>10, <1>11
<1> QED  BY <1>3, <1>12 DEF P, x

(* There is no other way to build a matching. *)
LEMMA MatchingSplit ==
    ASSUME NEW v, NEW m \in Nat, NEW n \in Nat, ~ (m = 0 /\ n = 0),
           NEW M \in Matchings(v, m, n)
    PROVE  \/ m > 0 /\ M \in Matchings(v, m - 1, n)
           \/ n > 0 /\ M \in Matchings(v, m, n - 1)
           \/ /\ m > 0 /\ n > 0 /\ v[n] # 0
              /\ \E K \in Matchings(v, m - 1, n - 1) : M = K \cup {<<m, n>>}
<1>1. /\ M \in SUBSET ((1..m) \X LettersTo(v, n))
      /\ \A p, q \in M : p # q => (p[1] < q[1] /\ p[2] < q[2])
                                  \/ (q[1] < p[1] /\ q[2] < p[2])
  BY DEF Matchings, Monotone
<1>2. \A p \in M : /\ p = <<p[1], p[2]>> /\ p[1] \in 1..m /\ p[2] \in 1..n
                   /\ v[p[2]] # 0
  BY <1>1 DEF LettersTo
<1>3. CASE <<m, n>> \in M
  <2> DEFINE K == M \ {<<m, n>>}
  <2>1. m > 0 /\ n > 0 /\ v[n] # 0 /\ m \in 1..m /\ n \in 1..n
    <3>1. <<m, n>>[1] \in 1..m /\ <<m, n>>[2] \in 1..n /\ v[<<m, n>>[2]] # 0
      BY <1>2, <1>3
    <3> QED  BY <3>1
  <2>2. ASSUME NEW p \in K
        PROVE  p[1] \in 1..(m - 1) /\ p[2] \in LettersTo(v, n - 1)
    <3> DEFINE q == <<m, n>>
    <3>1. q[1] = m /\ q[2] = n /\ q \in M /\ p \in M /\ p # q  BY <1>3
    <3> HIDE DEF q, K
    <3>2. (p[1] < q[1] /\ p[2] < q[2]) \/ (q[1] < p[1] /\ q[2] < p[2])
      BY <1>1, <3>1
    <3>3. p[1] \in 1..m /\ p[2] \in 1..n /\ v[p[2]] # 0  BY <1>2, <3>1
    <3>4. p[1] \in 1..(m - 1) /\ p[2] \in 1..(n - 1)  BY <3>1, <3>2, <3>3
    <3> QED  BY <3>3, <3>4 DEF LettersTo
  <2>3. K \in SUBSET ((1..(m - 1)) \X LettersTo(v, n - 1))
    <3>1. \A p \in K : p = <<p[1], p[2]>>  BY <1>2
    <3> HIDE DEF K
    <3> QED  BY <2>2, <3>1
  <2>4. Monotone(K)  BY <1>1 DEF Monotone
  <2>5. K \in Matchings(v, m - 1, n - 1)  BY <2>3, <2>4 DEF Matchings
  <2>6. M = K \cup {<<m, n>>}  BY <1>3
  <2> HIDE DEF K
  <2> QED  BY <2>1, <2>5, <2>6
<1>4. CASE <<m, n>> \notin M /\ m > 0 /\ \A p \in M : p[1] # m
  <2>1. \A p \in M : p[1] \in 1..(m - 1)  BY <1>2, <1>4
  <2>2. M \in SUBSET ((1..(m - 1)) \X LettersTo(v, n))  BY <1>1, <1>2, <2>1
  <2>3. M \in Matchings(v, m - 1, n)  BY <2>2 DEF Matchings
  <2> QED  BY <1>4, <2>3
<1>5. CASE <<m, n>> \notin M /\ n > 0 /\ \A p \in M : p[2] # n
  <2>1. \A p \in M : p[2] \in LettersTo(v, n - 1)
    BY <1>2, <1>5 DEF LettersTo
  <2>2. M \in SUBSET ((1..m) \X LettersTo(v, n - 1))  BY <1>1, <1>2, <2>1
  <2>3. M \in Matchings(v, m, n - 1)  BY <2>2 DEF Matchings
  <2> QED  BY <1>5, <2>3
<1>6. ASSUME <<m, n>> \notin M, NEW p \in M, p[1] = m, NEW q \in M, q[2] = n
      PROVE  FALSE
  <2>1. p # q  BY <1>2, <1>6
  <2>2. (p[1] < q[1] /\ p[2] < q[2]) \/ (q[1] < p[1] /\ q[2] < p[2])
    BY <1>1, <2>1
  <2>3. p[1] \in 1..m /\ p[2] \in 1..n /\ q[1] \in 1..m /\ q[2] \in 1..n
    BY <1>2
  <2> QED  BY <1>6, <2>2, <2>3
<1>7. CASE <<m, n>> \notin M /\ (m = 0 \/ n = 0)
  <2>1. \A p \in M : FALSE  BY <1>2, <1>7
  <2> QED  BY <1>4, <1>5, <1>7, <2>1
<1> QED  BY <1>3, <1>4, <1>5, <1>6, <1>7

-----------------------------------------------------------------------------
(* The edit machine. *)

Deletions     == {Arc(s, 0, 1) : s \in InSyms}
Insertions    == {Arc(0, s, 1) : s \in OutSyms}
Substitutions == {Arc(s, t, IF s = t THEN 0 ELSE 1) : s \in InSyms, t \in OutSyms}
Built == Deletions \cup Insertions \cup Substitutions

(* What an edit costs, if everything that is written can also be read. *)
LEMMA EditCosts ==
    ASSUME arcs = Built, OutSyms \subseteq InSyms
    PROVE  /\ \A s \in OutSyms : CostsOf(s, 0) = {1}
           /\ \A s \in OutSyms : CostsOf(0, s) = {1}
           /\ CostsOf(0, 0) = {}
           /\ \A s, t \in OutSyms : CostsOf(s, t) = {IF s # t THEN 1 ELSE 0}
<1>1. 0 \notin InSyms /\ 0 \notin OutSyms  BY SymsAssumption
<1>2. ASSUME NEW s \in OutSyms PROVE CostsOf(s, 0) = {1}
  <2>1. \A a \in arcs : a.in = s /\ a.out = 0 => a = Arc(s, 0, 1)
    BY <1>1 DEF Built, Deletions, Insertions, Substitutions, Arc
  <2>2. Arc(s, 0, 1) \in arcs  BY DEF Built, Deletions
  <2>3. Arc(s, 0, 1).in = s /\ Arc(s, 0, 1).out = 0 /\ Arc(s, 0, 1).cost = 1
    BY DEF Arc
  <2> QED  BY <2>1, <2>2, <2>3 DEF CostsOf
<1>3. ASSUME NEW s \in OutSyms PROVE CostsOf(0, s) = {1}
  <2>1. \A a \in arcs : a.in = 0 /\ a.out = s => a = Arc(0, s, 1)
    BY <1>1 DEF Built, Deletions, Insertions, Substitutions, Arc
  <2>2. Arc(0, s, 1) \in arcs  BY DEF Built, Insertions
  <2>3. Arc(0, s, 1).in = 0 /\ Arc(0, s, 1).out = s /\ Arc(0, s, 1).cost = 1
    BY DEF Arc
  <2> QED  BY <2>1, <2>2, <2>3 DEF CostsOf
<1>4. CostsOf(0, 0) = {}
  <2>1. \A a \in arcs : ~ (a.in = 0 /\ a.out = 0)
    BY <1>1 DEF Built, Deletions, Insertions, Substitutions, Arc
  <2> QED  BY <2>1 DEF CostsOf
<1>5. ASSUME NEW s \in OutSyms, NEW t \in OutSyms
      PROVE  CostsOf(s, t) = {IF s # t THEN 1 ELSE 0}
  <2> DEFINE x == IF s = t THEN 0 ELSE 1
  <2>1. \A a \in arcs : a.in = s /\ a.out = t => a = Arc(s, t, x)
    BY <1>1 DEF Built, Deletions, Insertions, Substitutions, Arc
  <2>2. Arc(s, t, x) \in arcs  BY DEF Built, Substitutions
  <2>3. Arc(s, t, x).in = s /\ Arc(s, t, x).out = t /\ Arc(s, t, x).cost = x
    BY DEF Arc
  <2>4. CostsOf(s, t) = {x}
    <3> HIDE DEF x
    <3> QED  BY <2>1, <2>2, <2>3 DEF CostsOf
  <2> QED  BY <2>4
<1> QED  BY <1>2, <1>3, <1>4, <1>5

-----------------------------------------------------------------------------
(* The shortest distance is the cost of a cheapest matching. *)

Cheapest(x, u, v, m, n) ==
    /\ \E M \in Matchings(v, m, n) : x = CostOf(u, v, m, n, M)
    /\ \A M \in Matchings(v, m, n) : x <= CostOf(u, v, m, n, M)

LEMMA CostIsNumber ==
    ASSUME NEW u, NEW v, NEW m \in Nat, NEW n \in Nat, NEW M \in Matchings(v, m, n)
    PROVE  CostOf(u, v, m, n, M) \in Int
<1>1. Cardinality(M) \in Nat /\ Cardinality(Unequal(u, v, M)) \in Nat
  BY MatchingFinite
<1>2. Spelled(v, n) \in Nat  BY SpelledStep
<1> QED  BY <1>1, <1>2 DEF CostOf

(* Nothing matched: every letter costs 1. *)
LEMMA NoMatch ==
    ASSUME NEW u, NEW v, NEW m \in Nat, NEW n \in Nat
    PROVE  /\ {} \in Matchings(v, m, n)
           /\ CostOf(u, v, m, n, {}) = m + Spelled(v, n)
<1>1. {} \in Matchings(v, m, n)  BY DEF Matchings, Monotone
<1>2. Unequal(u, v, {}) = {}  BY DEF Unequal
<1>3. Cardinality({}) = 0  BY FS_EmptySet
<1>4. Spelled(v, n) \in Nat  BY SpelledStep
<1> QED  BY <1>1, <1>2, <1>3, <1>4 DEF CostOf

(* The step of the induction: from the states before a state to the state. *)
LEMMA CheapestStep ==
    ASSUME arcs = Built, OutSyms \subseteq InSyms,
           NEW u \in Seq(OutSyms), NEW v \in Seq(Symbols),
           NEW m \in 0..Len(u), NEW n \in 0..Len(v), ~ (m = 0 /\ n = 0),
           m + n < Infinity,
           NEW d,
           \A k \in 0..m, l \in 0..n : k + l < m + n =>
                d[<<k, l>>] \in Nat /\ Cheapest(d[<<k, l>>], u, v, k, l),
           d[<<m, n>>] = Min({Infinity} \cup Through(d, u, v, m, n))
    PROVE  d[<<m, n>>] \in Nat /\ Cheapest(d[<<m, n>>], u, v, m, n)
<1> DEFINE T == Through(d, u, v, m, n)
           x == d[<<m, n>>]
           above == d[<<m - 1, n>>]
           left  == d[<<m, n - 1>>]
           diag  == d[<<m - 1, n - 1>>]
           e == IF u[m] # v[n] THEN 1 ELSE 0
<1>1. /\ m \in Nat /\ n \in Nat
      /\ m # 0 => u[m] \in OutSyms
      /\ n # 0 => v[n] \in Symbols
      /\ \A s \in OutSyms : s # 0 /\ s \in Nat
  BY SymsAssumption
<1>2. \A y : y \in T <=>
        \/ m # 0 /\ \E c \in CostsOf(u[m], 0) : y = above + c
        \/ n # 0 /\ \E c \in CostsOf(0, v[n]) : y = left + c
        \/ m # 0 /\ n # 0 /\ \E c \in CostsOf(u[m], v[n]) : y = diag + c
        \/ n # 0 /\ v[n] = 0 /\ y = left
  <2>1. m \in Nat /\ n \in Nat  BY <1>1
  <2> DEFINE D == CostsOf(u[m], 0)
             I == CostsOf(0, v[n])
             S == CostsOf(u[m], v[n])
  <2>2. T = (IF m = 0 THEN {} ELSE {above + c : c \in D})
              \cup (IF n = 0 THEN {} ELSE {left + c : c \in I})
              \cup (IF m = 0 \/ n = 0 THEN {} ELSE {diag + c : c \in S})
              \cup (IF n > 0 /\ v[n] = 0 THEN {left} ELSE {})
    BY DEF Through
  <2> HIDE DEF D, I, S, T, above, left, diag
  <2>3. \A y : y \in T <=>
          \/ m # 0 /\ \E c \in D : y = above + c
          \/ n # 0 /\ \E c \in I : y = left + c
          \/ m # 0 /\ n # 0 /\ \E c \in S : y = diag + c
          \/ n # 0 /\ v[n] = 0 /\ y = left
    BY ONLY <2>1, <2>2
  <2> QED  BY <2>3 DEF D, I, S
<1>3. /\ m # 0 => above \in Nat /\ Cheapest(above, u, v, m - 1, n)
      /\ n # 0 => left \in Nat /\ Cheapest(left, u, v, m, n - 1)
      /\ m # 0 /\ n # 0 => diag \in Nat /\ Cheapest(diag, u, v, m - 1, n - 1)
  <2>1. m # 0 => m - 1 \in 0..m /\ n \in 0..n /\ (m - 1) + n < m + n  BY <1>1
  <2>2. n # 0 => m \in 0..m /\ n - 1 \in 0..n /\ m + (n - 1) < m + n  BY <1>1
  <2>3. m # 0 /\ n # 0 => /\ m - 1 \in 0..m /\ n - 1 \in 0..n
                          /\ (m - 1) + (n - 1) < m + n
    BY <1>1
  <2> QED  BY <2>1, <2>2, <2>3
<1>4. x = Min({Infinity} \cup T)  OBVIOUS
<1>5. e \in {0, 1}  OBVIOUS
<1>6. m # 0 /\ n # 0 /\ v[n] # 0 => CostsOf(u[m], v[n]) = {e}
  BY <1>1, EditCosts DEF Symbols
<1> HIDE DEF T, x, above, left, diag, e
<1>7. /\ m # 0 => above + 1 \in T
      /\ n # 0 /\ v[n] # 0 => left + 1 \in T
      /\ m # 0 /\ n # 0 /\ v[n] # 0 => diag + e \in T
      /\ n # 0 /\ v[n] = 0 => left \in T
  <2>1. m # 0 => CostsOf(u[m], 0) = {1}  BY <1>1, EditCosts
  <2>2. n # 0 /\ v[n] # 0 => CostsOf(0, v[n]) = {1}
    BY <1>1, EditCosts DEF Symbols
  <2> QED  BY <1>2, <1>6, <2>1, <2>2
<1>8. ASSUME NEW y \in T
      PROVE  \/ m # 0 /\ y = above + 1
             \/ n # 0 /\ v[n] # 0 /\ y = left + 1
             \/ m # 0 /\ n # 0 /\ v[n] # 0 /\ y = diag + e
             \/ m # 0 /\ n # 0 /\ v[n] = 0 /\ y = diag + 1
             \/ n # 0 /\ v[n] = 0 /\ y = left
  <2>1. CASE m # 0 /\ \E c \in CostsOf(u[m], 0) : y = above + c
    <3>1. CostsOf(u[m], 0) = {1}  BY <1>1, <2>1, EditCosts
    <3> QED  BY <2>1, <3>1
  <2>2. CASE n # 0 /\ \E c \in CostsOf(0, v[n]) : y = left + c
    <3>1. CostsOf(0, v[n]) = IF v[n] = 0 THEN {} ELSE {1}
      BY <1>1, <2>2, EditCosts DEF Symbols
    <3> QED  BY <2>2, <3>1
  <2>3. CASE m # 0 /\ n # 0 /\ \E c \in CostsOf(u[m], v[n]) : y = diag + c
    <3>1. CostsOf(u[m], v[n]) = IF v[n] = 0 THEN {1} ELSE {e}
      <4>1. CASE v[n] # 0  BY <1>6, <2>3, <4>1
      <4>2. CASE v[n] = 0
        <5>1. CostsOf(u[m], 0) = {1}  BY <1>1, <2>3, EditCosts
        <5> QED  BY <4>2, <5>1
      <4> QED  BY <4>1, <4>2
    <3> QED  BY <2>3, <3>1
  <2> QED  BY <1>2, <2>1, <2>2, <2>3
<1>9. x \in T \cup {Infinity} /\ x \in Nat /\ \A y \in T : x <= y
  <2> DEFINE S == {Infinity} \cup T
  <2>1. S \in SUBSET Nat /\ S # {}
    <3>1. ASSUME NEW y \in T PROVE y \in Nat
      <4>1. CASE m # 0 /\ y = above + 1  BY <1>3, <4>1
      <4>2. CASE n # 0 /\ y = left + 1  BY <1>3, <4>2
      <4>3. CASE m # 0 /\ n # 0 /\ y = diag + e
        <5>1. diag \in Nat /\ e \in Nat  BY <1>3, <1>5, <4>3
        <5> QED  BY <4>3, <5>1
      <4>4. CASE m # 0 /\ n # 0 /\ y = diag + 1  BY <1>3, <4>4
      <4>5. CASE n # 0 /\ y = left  BY <1>3, <4>5
      <4> QED  BY <1>8, <4>1, <4>2, <4>3, <4>4, <4>5
    <3> QED  BY <3>1, SizeAssumption
  <2> HIDE DEF S
  <2>2. Min(S) \in S /\ \A y \in S : Min(S) <= y  BY <2>1, Smallest
  <2> QED  BY <1>4, <2>1, <2>2 DEF S
<1>10. ASSUME NEW M \in Matchings(v, m, n) PROVE x <= CostOf(u, v, m, n, M)
  <2> DEFINE y == CostOf(u, v, m, n, M)
  <2>1. CASE m > 0 /\ M \in Matchings(v, m - 1, n)
    <3> DEFINE z == CostOf(u, v, m - 1, n, M)
    <3>1. m \in Nat \ {0} /\ m - 1 \in Nat /\ n \in Nat  BY <1>1, <2>1
    <3>2. y = z + 1  BY <2>1, <3>1, LeaveLeft
    <3>3. z \in Int  BY <2>1, <3>1, CostIsNumber
    <3>4. above <= z /\ above \in Nat  BY <1>3, <2>1, <3>1 DEF Cheapest
    <3>5. x <= above + 1  BY <1>7, <1>9, <3>1
    <3> HIDE DEF y, z
    <3>6. x <= y  BY <1>9, <3>2, <3>3, <3>4, <3>5
    <3> QED  BY <3>6 DEF y
  <2>2. CASE n > 0 /\ M \in Matchings(v, m, n - 1)
    <3> DEFINE z == CostOf(u, v, m, n - 1, M)
    <3>1. n \in Nat \ {0} /\ n - 1 \in Nat /\ m \in Nat  BY <1>1, <2>2
    <3>2. y = z + IF v[n] # 0 THEN 1 ELSE 0  BY <2>2, <3>1, LeaveRight
    <3>3. z \in Int  BY <2>2, <3>1, CostIsNumber
    <3>4. left <= z /\ left \in Nat  BY <1>3, <2>2, <3>1 DEF Cheapest
    <3> HIDE DEF y, z
    <3>5. x <= left + IF v[n] # 0 THEN 1 ELSE 0
      <4>1. CASE v[n] # 0  BY <1>7, <1>9, <3>1, <4>1
      <4>2. CASE v[n] = 0
        <5>1. x <= left  BY <1>7, <1>9, <3>1, <4>2
        <5> QED  BY <1>9, <3>4, <4>2, <5>1
      <4> QED  BY <4>1, <4>2
    <3>6. x <= y
      <4>1. CASE v[n] # 0  BY <1>9, <3>2, <3>3, <3>4, <3>5, <4>1
      <4>2. CASE v[n] = 0  BY <1>9, <3>2, <3>3, <3>4, <3>5, <4>2
      <4> QED  BY <4>1, <4>2
    <3> QED  BY <3>6 DEF y
  <2>3. ASSUME m > 0, n > 0, v[n] # 0, NEW K \in Matchings(v, m - 1, n - 1),
               M = K \cup {<<m, n>>}
        PROVE  x <= y
    <3> DEFINE z == CostOf(u, v, m - 1, n - 1, K)
    <3>1. /\ m \in Nat \ {0} /\ n \in Nat \ {0}
          /\ m - 1 \in Nat /\ n - 1 \in Nat
      BY <1>1, <2>3
    <3>2. y = z + e
      <4>1. CostOf(u, v, m, n, K \cup {<<m, n>>}) =
              CostOf(u, v, m - 1, n - 1, K) + IF u[m] # v[n] THEN 1 ELSE 0
        BY ONLY <2>3, <3>1, MatchLast
      <4> QED  BY ONLY <2>3, <4>1 DEF e
    <3>3. z \in Int  BY <3>1, CostIsNumber
    <3>4. diag <= z /\ diag \in Nat  BY <1>3, <3>1 DEF Cheapest
    <3> HIDE DEF y, z
    <3>5. x <= diag + e  BY <1>7, <1>9, <2>3, <3>1
    <3>6. e \in Nat /\ x \in Nat  BY <1>5, <1>9
    <3> QED  BY ONLY <3>2, <3>3, <3>4, <3>5, <3>6
  <2> HIDE DEF y
  <2>4. m \in Nat /\ n \in Nat /\ M \in Matchings(v, m, n)  BY <1>1
  <2>5. \/ m > 0 /\ M \in Matchings(v, m - 1, n)
        \/ n > 0 /\ M \in Matchings(v, m, n - 1)
        \/ /\ m > 0 /\ n > 0 /\ v[n] # 0
           /\ \E K \in Matchings(v, m - 1, n - 1) : M = K \cup {<<m, n>>}
    BY <2>4, MatchingSplit
  <2> QED  BY <2>1, <2>2, <2>3, <2>5 DEF y
<1>11. x # Infinity
  <2>1. x <= CostOf(u, v, m, n, {})  BY <1>1, <1>10, NoMatch
  <2>2. CostOf(u, v, m, n, {}) = m + Spelled(v, n)  BY <1>1, NoMatch
  <2>3. Spelled(v, n) \in Nat /\ Spelled(v, n) <= n  BY <1>1, SpelledStep
  <2> QED  BY <1>1, <1>9, <2>1, <2>2, <2>3, SizeAssumption
<1>12. x \in T  BY <1>9, <1>11
<1>13. \E M \in Matchings(v, m, n) : x = CostOf(u, v, m, n, M)
  <2>1. CASE m # 0 /\ x = above + 1
    <3>1. m \in Nat \ {0} /\ n \in Nat  BY <1>1, <2>1
    <3>2. PICK M \in Matchings(v, m - 1, n) : above = CostOf(u, v, m - 1, n, M)
      BY <1>3, <2>1 DEF Cheapest
    <3>3. M \in Matchings(v, m, n) /\ CostOf(u, v, m, n, M) = x
      BY <2>1, <3>1, <3>2, LeaveLeft
    <3> QED  BY <3>3
  <2>2. CASE n # 0 /\ x = left + IF v[n] # 0 THEN 1 ELSE 0
    <3>1. n \in Nat \ {0} /\ m \in Nat  BY <1>1, <2>2
    <3>2. PICK M \in Matchings(v, m, n - 1) : left = CostOf(u, v, m, n - 1, M)
      BY <1>3, <2>2 DEF Cheapest
    <3>3. M \in Matchings(v, m, n) /\ CostOf(u, v, m, n, M) = x
      BY <2>2, <3>1, <3>2, LeaveRight
    <3> QED  BY <3>3
  <2>3. CASE m # 0 /\ n # 0 /\ v[n] # 0 /\ x = diag + e
    <3>1. m \in Nat \ {0} /\ n \in Nat \ {0}  BY <1>1, <2>3
    <3>2. PICK M \in Matchings(v, m - 1, n - 1) :
            diag = CostOf(u, v, m - 1, n - 1, M)
      BY <1>3, <2>3 DEF Cheapest
    <3> DEFINE P == M \cup {<<m, n>>}
    <3>3. /\ P \in Matchings(v, m, n)
          /\ CostOf(u, v, m, n, P) =
               CostOf(u, v, m - 1, n - 1, M) + IF u[m] # v[n] THEN 1 ELSE 0
      <4>1. v[n] # 0  BY <2>3
      <4> QED  BY ONLY <3>1, <3>2, <4>1, MatchLast
    <3>4. CostOf(u, v, m, n, P) = x
      BY ONLY <2>3, <3>2, <3>3 DEF e
    <3> QED  BY <3>3, <3>4
  <2>4. CASE m # 0 /\ n # 0 /\ v[n] = 0 /\ x = diag + 1
    <3>1. m - 1 \in Nat /\ n \in Nat \ {0} /\ m \in Nat \ {0} /\ n \in Nat
      BY <1>1, <2>4
    <3>2. PICK M \in Matchings(v, m - 1, n - 1) :
            diag = CostOf(u, v, m - 1, n - 1, M)
      BY <1>3, <2>4 DEF Cheapest
    <3>3. M \in Matchings(v, m - 1, n) /\ CostOf(u, v, m - 1, n, M) = diag + 0
      BY <2>4, <3>1, <3>2, LeaveRight
    <3>4. diag + 0 = diag  BY <1>3, <2>4
    <3>5. M \in Matchings(v, m, n) /\ CostOf(u, v, m, n, M) = x
      BY <2>4, <3>1, <3>3, <3>4, LeaveLeft
    <3> QED  BY <3>5
  <2>5. CASE n # 0 /\ v[n] = 0 /\ x = left
    <3>1. left \in Nat  BY <1>3, <2>5
    <3>2. x = left + 0  BY <2>5, <3>1
    <3> QED  BY <2>2, <2>5, <3>2
  <2>6. CASE n # 0 /\ v[n] # 0 /\ x = left + 1  BY <2>2, <2>6
  <2> QED  BY <1>8, <1>12, <2>1, <2>3, <2>4, <2>5, <2>6
<1>14. x \in Nat /\ Cheapest(x, u, v, m, n)
  BY <1>9, <1>10, <1>13 DEF Cheapest
<1> QED  BY <1>14 DEF x

-----------------------------------------------------------------------------
(* The recursive function of Distance: d is determined by its own values   *)
(* closer to the start, so there is one.                                   *)

States(u, v) == (0..Len(u)) \X (0..Len(v))
Near(u, v, b) == {s \in States(u, v) : s[1] + s[2] <= b}
Entry(d, u, v, s) ==
    IF s = <<0, 0>> THEN 0 ELSE Min({Infinity} \cup Through(d, u, v, s[1], s[2]))
Table(d, u, v, b) == d = [s \in Near(u, v, b) |-> Entry(d, u, v, s)]

LEMMA TableGrows ==
    ASSUME NEW u, NEW v, Len(u) \in Nat, Len(v) \in Nat,
           NEW b \in Nat \ {0}, NEW f, Table(f, u, v, b - 1)
    PROVE  \E g : Table(g, u, v, b)
<1> DEFINE g == [s \in Near(u, v, b) |->
                   IF s[1] + s[2] = b THEN Entry(f, u, v, s) ELSE f[s]]
<1>1. ASSUME NEW s \in Near(u, v, b) PROVE g[s] = Entry(g, u, v, s)
  <2> DEFINE m == s[1]
             n == s[2]
  <2>1. /\ s = <<m, n>> /\ m \in 0..Len(u) /\ n \in 0..Len(v)
        /\ m \in Nat /\ n \in Nat /\ m + n <= b
    BY DEF Near, States
  <2>2. g[s] = Entry(f, u, v, s)
    <3>1. CASE s[1] + s[2] = b  BY <3>1
    <3>2. CASE s[1] + s[2] # b
      <4>1. s \in Near(u, v, b - 1)  BY <2>1, <3>2 DEF Near
      <4>2. f[s] = Entry(f, u, v, s)  BY <4>1 DEF Table
      <4> QED  BY <3>2, <4>2
    <3> QED  BY <3>1, <3>2
  <2>3. ASSUME NEW k \in 0..m, NEW l \in 0..n, k + l < m + n
        PROVE  f[<<k, l>>] = g[<<k, l>>]
    <3> DEFINE r == <<k, l>>
    <3>1. r[1] = k /\ r[2] = l /\ k + l # b /\ k \in 0..Len(u) /\ l \in 0..Len(v)
      BY <2>1, <2>3
    <3>2. r \in Near(u, v, b)  BY <2>1, <2>3, <3>1 DEF Near, States
    <3> HIDE DEF r
    <3>3. g[r] = f[r]  BY <3>1, <3>2
    <3> QED  BY <3>3 DEF r
  <2> HIDE DEF g
  <2>4. m > 0 => f[<<m - 1, n>>] = g[<<m - 1, n>>]
    <3> SUFFICES ASSUME m > 0 PROVE f[<<m - 1, n>>] = g[<<m - 1, n>>]  OBVIOUS
    <3>1. m - 1 \in 0..m /\ n \in 0..n /\ (m - 1) + n < m + n  BY <2>1
    <3> QED  BY <2>3, <3>1
  <2>5. n > 0 => f[<<m, n - 1>>] = g[<<m, n - 1>>]
    <3> SUFFICES ASSUME n > 0 PROVE f[<<m, n - 1>>] = g[<<m, n - 1>>]  OBVIOUS
    <3>1. m \in 0..m /\ n - 1 \in 0..n /\ m + (n - 1) < m + n  BY <2>1
    <3> QED  BY <2>3, <3>1
  <2>6. m > 0 /\ n > 0 => f[<<m - 1, n - 1>>] = g[<<m - 1, n - 1>>]
    <3> SUFFICES ASSUME m > 0, n > 0
                 PROVE  f[<<m - 1, n - 1>>] = g[<<m - 1, n - 1>>]
      OBVIOUS
    <3>1. m - 1 \in 0..m /\ n - 1 \in 0..n /\ (m - 1) + (n - 1) < m + n  BY <2>1
    <3> QED  BY <2>3, <3>1
  <2>7. Through(f, u, v, m, n) = Through(g, u, v, m, n)
    <3> HIDE DEF m, n
    <3>1. m \in Nat /\ n \in Nat  BY <2>1
    <3>2. CASE m = 0 /\ n = 0  BY <3>2 DEF Through
    <3>3. CASE m = 0 /\ n > 0  BY <2>5, <3>3 DEF Through
    <3>4. CASE m > 0 /\ n = 0
      <4>1. f[<<m - 1, n>>] = g[<<m - 1, n>>]  BY <2>4, <3>4
      <4>2. /\ Through(f, u, v, m, n) = {f[<<m - 1, n>>] + c : c \in CostsOf(u[m], 0)}
            /\ Through(g, u, v, m, n) = {g[<<m - 1, n>>] + c : c \in CostsOf(u[m], 0)}
        BY <3>1, <3>4 DEF Through
      <4> QED  BY <4>1, <4>2
    <3>5. CASE m > 0 /\ n > 0  BY <2>4, <2>5, <2>6, <3>5 DEF Through
    <3> QED  BY <3>1, <3>2, <3>3, <3>4, <3>5
  <2> QED  BY <2>2, <2>7 DEF Entry
<1>2. g = [s \in Near(u, v, b) |-> g[s]]  OBVIOUS
<1> HIDE DEF g
<1>3. Table(g, u, v, b)  BY <1>1, <1>2 DEF Table
<1> QED  BY <1>3

LEMMA DistanceTable ==
    ASSUME NEW u, NEW v, Len(u) \in Nat, Len(v) \in Nat
    PROVE  \E d : /\ d = [s \in States(u, v) |-> Entry(d, u, v, s)]
                  /\ Distance(u, v) = d[<<Len(u), Len(v)>>]
<1> DEFINE B == {b \in Nat : ~ \E f : Table(f, u, v, b)}
<1>1. B = {}
  <2> SUFFICES ASSUME B # {} PROVE FALSE  OBVIOUS
  <2> DEFINE b == Min(B)
  <2>1. b \in B /\ \A k \in B : b <= k
    <3>1. B \in SUBSET Nat  OBVIOUS
    <3> HIDE DEF B
    <3> QED  BY <3>1, Smallest
  <2>2. b \in Nat /\ ~ \E f : Table(f, u, v, b)  BY <2>1
  <2> HIDE DEF b
  <2>3. CASE b = 0
    <3> DEFINE f == [s \in Near(u, v, 0) |-> 0]
    <3>1. \A s \in Near(u, v, 0) : s = <<0, 0>>  BY DEF Near, States
    <3>2. f = [s \in Near(u, v, 0) |-> Entry(f, u, v, s)]
      <4>1. \A s \in Near(u, v, 0) : Entry(f, u, v, s) = 0  BY <3>1 DEF Entry
      <4> QED  BY <4>1
    <3>3. Table(f, u, v, b)  BY <2>3, <3>2 DEF Table
    <3> QED  BY <2>2, <3>3
  <2>4. CASE b # 0
    <3>1. b \in Nat \ {0} /\ b - 1 \in Nat /\ ~ (b <= b - 1)  BY <2>2, <2>4
    <3>2. b - 1 \notin B
      <4> HIDE DEF B
      <4> QED  BY <2>1, <3>1
    <3>3. PICK f : Table(f, u, v, b - 1)  BY <3>1, <3>2
    <3> QED  BY <2>2, <3>1, <3>3, TableGrows
  <2> QED  BY <2>3, <2>4
<1> DEFINE Whole(d) == d = [s \in States(u, v) |-> Entry(d, u, v, s)]
           t == CHOOSE d : Whole(d)
<1>2. \E d : Whole(d)
  <2>1. Len(u) + Len(v) \in Nat  OBVIOUS
  <2>2. PICK d : Table(d, u, v, Len(u) + Len(v))  BY <1>1, <2>1
  <2>3. Near(u, v, Len(u) + Len(v)) = States(u, v)
    <3>1. \A s \in States(u, v) : s[1] + s[2] <= Len(u) + Len(v)  BY DEF States
    <3> QED  BY <3>1 DEF Near
  <2> QED  BY <2>2, <2>3 DEF Table
<1>3. Whole(t)
  <2> HIDE DEF Whole
  <2> QED  BY <1>2
<1>4. Distance(u, v) = t[<<Len(u), Len(v)>>]
  BY DEF Distance, t, Whole, Entry, States
<1> HIDE DEF t
<1> QED  BY <1>3, <1>4


LEMMA DistanceIsCheapest ==
    ASSUME arcs = Built, OutSyms \subseteq InSyms,
           NEW u \in Seq(OutSyms), NEW v \in Seq(Symbols),
           Len(u) + Len(v) < Infinity
    PROVE  Distance(u, v) \in Nat /\ Cheapest(Distance(u, v), u, v, Len(u), Len(v))
<1>1. Len(u) \in Nat /\ Len(v) \in Nat  OBVIOUS
<1>2. PICK d : /\ d = [s \in States(u, v) |-> Entry(d, u, v, s)]
               /\ Distance(u, v) = d[<<Len(u), Len(v)>>]
  BY <1>1, DistanceTable
<1> DEFINE Good(s) == d[s] \in Nat /\ Cheapest(d[s], u, v, s[1], s[2])
           B == {b \in Nat : \E s \in States(u, v) : s[1] + s[2] = b /\ ~ Good(s)}
<1>3. B = {}
  <2> SUFFICES ASSUME B # {} PROVE FALSE  OBVIOUS
  <2> DEFINE b == Min(B)
  <2>1. b \in B /\ \A k \in B : b <= k
    <3>1. B \in SUBSET Nat  OBVIOUS
    <3> HIDE DEF B
    <3> QED  BY <3>1, Smallest
  <2>2. PICK s \in States(u, v) : s[1] + s[2] = b /\ ~ Good(s)  BY <2>1
  <2> DEFINE m == s[1]
             n == s[2]
  <2>3. /\ s = <<m, n>> /\ m \in 0..Len(u) /\ n \in 0..Len(v)
        /\ m \in Nat /\ n \in Nat /\ m + n < Infinity
    BY <1>1, SizeAssumption DEF States
  <2>4. ASSUME NEW k \in 0..m, NEW l \in 0..n, k + l < m + n
        PROVE  d[<<k, l>>] \in Nat /\ Cheapest(d[<<k, l>>], u, v, k, l)
    <3> DEFINE r == <<k, l>>
    <3>1. r \in States(u, v) /\ r[1] = k /\ r[2] = l /\ k + l \in Nat
      BY <1>1, <2>3 DEF States
    <3>2. ~ (b <= k + l)  BY <2>2, <2>3, <2>4, <3>1
    <3> HIDE DEF r
    <3>3. Good(r)
      <4>1. k + l \notin B
        <5> HIDE DEF B
        <5> QED  BY <2>1, <3>2
      <4> QED  BY <3>1, <4>1
    <3> QED  BY <3>1, <3>3 DEF r
  <2>5. d[s] = Entry(d, u, v, s)  BY <1>2
  <2>6. CASE s = <<0, 0>>
    <3>1. d[s] = 0 /\ m = 0 /\ n = 0  BY <2>5, <2>6 DEF Entry
    <3>2. Spelled(v, 0) = 0  BY SpelledStep
    <3>3. {} \in Matchings(v, 0, 0) /\ CostOf(u, v, 0, 0, {}) = 0
      BY <3>2, NoMatch
    <3>4. \A M \in Matchings(v, 0, 0) : M = {}  BY DEF Matchings
    <3>5. Cheapest(0, u, v, 0, 0)
      <4>1. \E M \in Matchings(v, 0, 0) : 0 = CostOf(u, v, 0, 0, M)  BY <3>3
      <4>2. ASSUME NEW M \in Matchings(v, 0, 0) PROVE 0 <= CostOf(u, v, 0, 0, M)
        <5>1. M = {}  BY <3>4
        <5>2. CostOf(u, v, 0, 0, M) = 0  BY <3>3, <5>1
        <5> QED  BY <5>2
      <4> QED  BY <4>1, <4>2 DEF Cheapest
    <3> QED  BY <2>2, <3>1, <3>5
  <2>7. CASE s # <<0, 0>>
    <3>1. ~ (m = 0 /\ n = 0)  BY <2>3, <2>7
    <3>2. d[<<m, n>>] = Min({Infinity} \cup Through(d, u, v, m, n))
      BY <2>3, <2>5, <2>7 DEF Entry
    <3>3. ~ (d[<<m, n>>] \in Nat /\ Cheapest(d[<<m, n>>], u, v, m, n))
      BY <2>2, <2>3
    <3> HIDE DEF m, n, B
    <3> QED  BY <2>3, <2>4, <3>1, <3>2, <3>3, CheapestStep
  <2> QED  BY <2>6, <2>7
<1>4. <<Len(u), Len(v)>> \in States(u, v)  BY <1>1 DEF States
<1>5. Good(<<Len(u), Len(v)>>)
  <2> DEFINE s == <<Len(u), Len(v)>>
  <2>1. s[1] + s[2] \in Nat /\ s \in States(u, v)  BY <1>1, <1>4
  <2> HIDE DEF s
  <2> QED  BY <1>3, <2>1 DEF s
<1> QED  BY <1>2, <1>5

(* Levenshtein distance is the cost of a cheapest matching as well. *)
LEMMA LevenshteinIsCheapest ==
    ASSUME NEW u \in Seq(OutSyms), NEW v \in Seq(Symbols), NEW x,
           Cheapest(x, u, v, Len(u), Len(v))
    PROVE  x = Levenshtein(u, v)
<1> DEFINE m == Len(u)
           n == Len(v)
           S == {CostOf(u, v, m, n, M) : M \in Matchings(v, m, n)}
<1>1. m \in Nat /\ n \in Nat  OBVIOUS
<1>2. Letters(u) = 1..m /\ Cardinality(1..m) = m
  <2>1. \A k \in 1..m : u[k] # 0
    <3>1. \A k \in 1..m : u[k] \in OutSyms  OBVIOUS
    <3> QED  BY <3>1, SymsAssumption
  <2>2. 1 \in Int /\ m \in Int  BY <1>1
  <2>3. Cardinality(1..m) = IF 1 > m THEN 0 ELSE m - 1 + 1  BY <2>2, FS_Interval
  <2>4. Cardinality(1..m) = m
    <3> HIDE DEF m
    <3> QED  BY <1>1, <2>3
  <2> QED  BY <2>1, <2>4 DEF Letters
<1>3. Letters(v) = LettersTo(v, n)  BY DEF Letters, LettersTo
<1> HIDE DEF m, n
<1>4. Levenshtein(u, v) = Min(S)
  BY <1>2, <1>3 DEF Levenshtein, Matchings, CostOf, Spelled, Unequal
<1>5. x \in S /\ \A y \in S : x <= y  BY DEF Cheapest, m, n
<1>6. \A y \in S : y \in Int  BY <1>1, CostIsNumber
<1> HIDE DEF S
<1>7. Min(S) \in S /\ \A y \in S : Min(S) <= y  BY <1>5 DEF Min
<1>8. x = Min(S)  BY <1>5, <1>6, <1>7
<1> QED  BY <1>4, <1>8

LEMMA MeasuresLevenshtein ==
    ASSUME arcs = Built, OutSyms \subseteq InSyms,
           NEW u \in Seq(OutSyms), NEW v \in Seq(Symbols),
           Len(u) + Len(v) < Infinity
    PROVE  Distance(u, v) = Levenshtein(u, v)
BY DistanceIsCheapest, LevenshteinIsCheapest


-----------------------------------------------------------------------------
(* Type correctness. *)

LEMMA DistanceBounded ==
    ASSUME arcs \subseteq [in : InSyms \cup {0}, out : OutSyms \cup {0}, cost : {0, 1}],
           NEW u, NEW v, Len(u) \in Nat, Len(v) \in Nat
    PROVE  Distance(u, v) \in 0..Infinity
<1>1. PICK d : /\ d = [s \in States(u, v) |-> Entry(d, u, v, s)]
               /\ Distance(u, v) = d[<<Len(u), Len(v)>>]
  BY DistanceTable
<1> DEFINE B == {b \in Nat : \E s \in States(u, v) :
                               s[1] + s[2] = b /\ d[s] \notin 0..Infinity}
<1>2. B = {}
  <2> SUFFICES ASSUME B # {} PROVE FALSE  OBVIOUS
  <2> DEFINE b == Min(B)
  <2>1. b \in B /\ \A k \in B : b <= k
    <3>1. B \in SUBSET Nat  OBVIOUS
    <3> HIDE DEF B
    <3> QED  BY <3>1, Smallest
  <2>2. PICK s \in States(u, v) : s[1] + s[2] = b /\ d[s] \notin 0..Infinity
    BY <2>1
  <2> DEFINE m == s[1]
             n == s[2]
             T == Through(d, u, v, m, n)
  <2>3. /\ s = <<m, n>> /\ m \in 0..Len(u) /\ n \in 0..Len(v)
        /\ m \in Nat /\ n \in Nat
    BY DEF States
  <2>4. ASSUME NEW k \in 0..m, NEW l \in 0..n, k + l < m + n
        PROVE  d[<<k, l>>] \in Nat
    <3> DEFINE r == <<k, l>>
    <3>1. r \in States(u, v) /\ r[1] = k /\ r[2] = l /\ k + l \in Nat
      BY <2>3 DEF States
    <3>2. ~ (b <= k + l)  BY <2>2, <2>3, <2>4, <3>1
    <3> HIDE DEF r
    <3>3. k + l \notin B
      <4> HIDE DEF B
      <4> QED  BY <2>1, <3>2
    <3>4. d[r] \in 0..Infinity  BY <3>1, <3>3
    <3> QED  BY <3>4, SizeAssumption DEF r
  <2>5. d[s] = IF s = <<0, 0>> THEN 0 ELSE Min({Infinity} \cup T)
    BY <1>1 DEF Entry
  <2> HIDE DEF m, n, B, b
  <2>6. ASSUME NEW i, NEW o, NEW c \in CostsOf(i, o) PROVE c \in Nat
    <3>1. PICK a \in arcs : c = a.cost  BY DEF CostsOf
    <3> QED  BY <3>1
  <2>7. /\ m > 0 => d[<<m - 1, n>>] \in Nat
        /\ n > 0 => d[<<m, n - 1>>] \in Nat
        /\ m > 0 /\ n > 0 => d[<<m - 1, n - 1>>] \in Nat
    <3>1. m > 0 => m - 1 \in 0..m /\ n \in 0..n /\ (m - 1) + n < m + n  BY <2>3
    <3>2. n > 0 => m \in 0..m /\ n - 1 \in 0..n /\ m + (n - 1) < m + n  BY <2>3
    <3>3. m > 0 /\ n > 0 =>
            m - 1 \in 0..m /\ n - 1 \in 0..n /\ (m - 1) + (n - 1) < m + n
      BY <2>3
    <3> QED  BY <2>4, <3>1, <3>2, <3>3
  <2>8. T \in SUBSET Nat
    <3> DEFINE above == d[<<m - 1, n>>]
               left == d[<<m, n - 1>>]
               diag == d[<<m - 1, n - 1>>]
               D == CostsOf(u[m], 0)
               I == CostsOf(0, v[n])
               E == CostsOf(u[m], v[n])
    <3>1. T = (IF m = 0 THEN {} ELSE {above + c : c \in D})
                \cup (IF n = 0 THEN {} ELSE {left + c : c \in I})
                \cup (IF m = 0 \/ n = 0 THEN {} ELSE {diag + c : c \in E})
                \cup (IF n > 0 /\ v[n] = 0 THEN {left} ELSE {})
      BY DEF Through
    <3>2. \A c \in D \cup I \cup E : c \in Nat  BY <2>6
    <3>3. /\ m # 0 => above \in Nat
          /\ n # 0 => left \in Nat
          /\ m # 0 /\ n # 0 => diag \in Nat
      BY <2>3, <2>7
    <3> HIDE DEF T, above, left, diag, D, I, E
    <3>4. ASSUME NEW y \in T PROVE y \in Nat
      <4>1. CASE m # 0 /\ \E c \in D : y = above + c  BY <3>2, <3>3, <4>1
      <4>2. CASE n # 0 /\ \E c \in I : y = left + c  BY <3>2, <3>3, <4>2
      <4>3. CASE m # 0 /\ n # 0 /\ \E c \in E : y = diag + c
        BY <3>2, <3>3, <4>3
      <4>4. CASE n # 0 /\ y = left  BY <3>3, <4>4
      <4>5. n > 0 => n # 0  BY <2>3
      <4> QED  BY <3>1, <4>1, <4>2, <4>3, <4>4, <4>5
    <3> QED  BY <3>4
  <2> HIDE DEF T
  <2>9. Min({Infinity} \cup T) \in 0..Infinity
    <3> DEFINE S == {Infinity} \cup T
    <3>1. S \in SUBSET Nat /\ Infinity \in S  BY <2>8, SizeAssumption
    <3> HIDE DEF S
    <3>2. Min(S) \in S /\ \A y \in S : Min(S) <= y  BY <3>1, Smallest
    <3>3. Min(S) \in Nat /\ Min(S) <= Infinity  BY <3>1, <3>2
    <3>4. Min(S) \in 0..Infinity  BY <3>3, SizeAssumption
    <3> QED  BY <3>4 DEF S
  <2>10. d[s] \in 0..Infinity  BY <2>5, <2>9, SizeAssumption
  <2> QED  BY <2>2, <2>10
<1> DEFINE t == <<Len(u), Len(v)>>
<1>3. t \in States(u, v) /\ t[1] + t[2] \in Nat  BY DEF States
<1> HIDE DEF t
<1>4. d[t] \in 0..Infinity  BY <1>2, <1>3
<1> QED  BY <1>1, <1>4 DEF t

(* The chain that is composed last is a word over the output symbols and 0. *)
LEMMA ComposedType ==
    ASSUME NEW w \in Seq(Symbols)
    PROVE  Composed(w) \in Seq(Symbols) /\ Len(Composed(w)) = Len(w)
<1> DEFINE L == Len(w)
           r == [i \in 1..L |-> w[(L - i) + 1]]
<1>1. L \in Nat /\ Composed(w) = r  BY DEF Composed, Reverse
<1>2. \A i \in 1..L : w[(L - i) + 1] \in Symbols
  <2>1. \A i \in 1..L : (L - i) + 1 \in 1..L  BY <1>1
  <2>2. \A i \in 1..L : w[i] \in Symbols  OBVIOUS
  <2> HIDE DEF L
  <2> QED  BY <2>1, <2>2
<1> HIDE DEF L
<1>3. r \in Seq(Symbols) /\ Len(r) = L
  <2>1. r \in [1..L -> Symbols]  BY <1>2
  <2> HIDE DEF r
  <2> QED  BY <1>1, <2>1
<1> QED  BY <1>1, <1>3 DEF L

TestData == [1..N -> [gold : Golds, best : Paths]]

(* The arcs that each loop of the constructor finds. *)
ArcsAt(s) == CASE s = "deletions"     -> {}
               [] s = "insertions"    -> Deletions
               [] s = "substitutions" -> Deletions \cup Insertions
               [] OTHER               -> Built

TypeInv ==
    /\ TypeOK
    /\ test \in TestData
    /\ arcs = ArcsAt(stage)
    /\ stage \notin {"score", "done"} => ex = 1 /\ editDist = 0
    /\ stage = "done" => ex = N + 1

LEMMA ExemplarType ==
    ASSUME TypeInv, ex \in 1..N
    PROVE  LET u == test[ex].gold
               v == Composed(test[ex].best)
           IN  /\ u \in Seq(OutSyms) /\ v \in Seq(Symbols)
               /\ Len(u) + Len(v) < Infinity
<1>1. test[ex] \in [gold : Golds, best : Paths]  BY DEF TypeInv, TestData
<1>2. test[ex].gold \in Golds /\ test[ex].best \in Paths  BY <1>1
<1>3. test[ex].gold \in Seq(OutSyms) /\ test[ex].best \in Seq(Symbols)
  BY <1>2, WordAssumption DEF Symbols
<1>4. Len(test[ex].gold) + Len(test[ex].best) < Infinity
  BY <1>2, SizeAssumption
<1> QED  BY <1>3, <1>4, ComposedType


LEMMA TypeInvHolds == Spec => []TypeInv
<1>1. Init => TypeInv
  <2> SUFFICES ASSUME Init PROVE TypeInv  OBVIOUS
  <2>1. /\ stage = "deletions" /\ arcs = {} /\ ex = 1 /\ editDist = 0
        /\ test \in TestData
    BY DEF Init, TestData
  <2>2. Infinity * (1 - 1) = 0 /\ N \in Nat  BY SizeAssumption
  <2>3. TypeOK
    <3>1. ex \in 1..(N + 1)  BY <2>1, <2>2
    <3>2. editDist \in 0..(Infinity * (ex - 1))  BY <2>1, <2>2
    <3> QED  BY <2>1, <3>1, <3>2 DEF TypeOK
  <2>4. arcs = ArcsAt(stage)  BY <2>1 DEF ArcsAt
  <2> QED  BY <2>1, <2>3, <2>4 DEF TypeInv
<1>2. TypeInv /\ [Next]_vars => TypeInv'
  <2> SUFFICES ASSUME TypeInv, [Next]_vars PROVE TypeInv'  OBVIOUS
  <2> DEFINE A == [in : InSyms \cup {0}, out : OutSyms \cup {0}, cost : {0, 1}]
  <2>1. /\ N \in Nat /\ Infinity \in Nat
        /\ Deletions \subseteq A /\ Insertions \subseteq A /\ Substitutions \subseteq A
    BY SizeAssumption DEF Deletions, Insertions, Substitutions, Arc
  <2>2. /\ TypeOK /\ test \in TestData /\ arcs = ArcsAt(stage)
        /\ stage \notin {"score", "done"} => ex = 1 /\ editDist = 0
        /\ stage = "done" => ex = N + 1
        /\ arcs \subseteq A /\ ex \in 1..(N + 1)
        /\ editDist \in 0..(Infinity * (ex - 1))
    BY DEF TypeInv, TypeOK
  <2> HIDE DEF A
  <2>3. ASSUME UNCHANGED <<test, ex, editDist>>, arcs' = ArcsAt(stage)',
               arcs' \subseteq A, stage \notin {"score", "done"},
               stage' \in {"insertions", "substitutions", "score"}
        PROVE  TypeInv'
    <3>1. TypeOK'  BY <2>2, <2>3 DEF TypeOK, A
    <3> QED  BY <2>2, <2>3, <3>1 DEF TypeInv, TestData
  <2>4. CASE AddDeletions
    <3>1. stage' = "insertions" /\ stage = "deletions" /\ arcs' = Deletions
      BY <2>2, <2>4 DEF AddDeletions, ArcsAt, Deletions
    <3>2. arcs' = ArcsAt(stage)'  BY <3>1 DEF ArcsAt, Deletions
    <3> QED  BY <2>1, <2>3, <2>4, <3>1, <3>2 DEF AddDeletions
  <2>5. CASE AddInsertions
    <3>1. /\ stage' = "substitutions" /\ stage = "insertions"
          /\ arcs' = Deletions \cup Insertions
      BY <2>2, <2>5 DEF AddInsertions, ArcsAt, Insertions
    <3>2. arcs' = ArcsAt(stage)'  BY <3>1 DEF ArcsAt
    <3> QED  BY <2>1, <2>3, <2>5, <3>1, <3>2 DEF AddInsertions
  <2>6. CASE AddSubstitutions
    <3>1. stage' = "score" /\ stage = "substitutions" /\ arcs' = Built
      BY <2>2, <2>6 DEF AddSubstitutions, ArcsAt, Built, Substitutions
    <3>2. arcs' = ArcsAt(stage)'  BY <3>1 DEF ArcsAt
    <3>3. arcs' \subseteq A  BY <2>1, <3>1 DEF Built
    <3> QED  BY <2>3, <2>6, <3>1, <3>2, <3>3 DEF AddSubstitutions
  <2>7. CASE ScoreExemplar
    <3> DEFINE x == Distance(test[ex].gold, Composed(test[ex].best))
    <3>1. /\ stage = "score" /\ ex <= N /\ editDist' = editDist + x /\ ex' = ex + 1
          /\ UNCHANGED <<stage, arcs, test>>
      BY <2>7 DEF ScoreExemplar
    <3>2. ex \in 1..N /\ ex' \in 1..(N + 1) /\ ex \in Nat  BY <2>1, <2>2, <3>1
    <3>3. x \in 0..Infinity
      <4>1. /\ test[ex].gold \in Seq(OutSyms)
            /\ Composed(test[ex].best) \in Seq(Symbols)
        BY <3>2, ExemplarType
      <4>2. Len(test[ex].gold) \in Nat /\ Len(Composed(test[ex].best)) \in Nat
        BY <4>1
      <4> QED  BY <2>2, <4>2, DistanceBounded DEF A
    <3> HIDE DEF x
    <3>4. editDist' \in 0..(Infinity * (ex' - 1))
      <4>1. Infinity * (ex - 1) \in Nat
            /\ Infinity * (ex' - 1) = Infinity * (ex - 1) + Infinity
        BY <2>1, <3>1, <3>2
      <4> DEFINE y == Infinity * (ex - 1)
                 z == Infinity * (ex' - 1)
      <4>2. y \in Nat /\ z = y + Infinity /\ editDist \in 0..y  BY <2>2, <4>1
      <4> HIDE DEF y, z
      <4>3. editDist + x \in 0..z  BY <2>1, <3>3, <4>2
      <4> QED  BY <3>1, <4>3 DEF z
    <3>5. TypeOK'  BY <2>2, <3>1, <3>2, <3>4 DEF TypeOK
    <3>6. arcs' = ArcsAt(stage)'
      BY <2>2, <3>1 DEF ArcsAt, Built, Deletions, Insertions, Substitutions
    <3> QED  BY <2>2, <3>1, <3>5, <3>6 DEF TypeInv, TestData
  <2>8. CASE Return
    <3>1. /\ stage = "score" /\ ex > N /\ stage' = "done"
          /\ UNCHANGED <<arcs, test, ex, editDist>>
      BY <2>8 DEF Return
    <3>2. ex = N + 1  BY <2>1, <2>2, <3>1
    <3>3. TypeOK'  BY <2>2, <3>1 DEF TypeOK
    <3>4. arcs' = ArcsAt(stage)'
      BY <2>2, <3>1 DEF ArcsAt, Built, Deletions, Insertions, Substitutions
    <3> QED  BY <2>2, <3>1, <3>2, <3>3, <3>4 DEF TypeInv, TestData
  <2>9. CASE UNCHANGED vars
    <3>1. TypeOK'  BY <2>2, <2>9 DEF TypeOK, vars
    <3>2. arcs' = ArcsAt(stage)'
      BY <2>2, <2>9 DEF ArcsAt, vars, Built, Deletions, Insertions, Substitutions
    <3> QED  BY <2>2, <2>9, <3>1, <3>2 DEF TypeInv, TestData, vars
  <2> QED  BY <2>4, <2>5, <2>6, <2>7, <2>8, <2>9 DEF Next
<1> QED  BY <1>1, <1>2, PTL DEF Spec

(* The arcs of the edit machine are labelled with symbols of the two       *)
(* tables, a distance is between 0 and Infinity, and the sum of            *)
(* one_best_edit never exceeds Infinity for each exemplar it has added.    *)
THEOREM EvaluatorTypeCorrect == Spec => []TypeOK
<1>1. TypeInv => TypeOK  BY DEF TypeInv
<1> QED  BY <1>1, TypeInvHolds, PTL

-----------------------------------------------------------------------------
(* The sum over the test data.                                             *)

Sums(h) == LET sum[k \in 0..N] == IF k = 0 THEN 0 ELSE sum[k - 1] + h[k]
           IN  sum

LEMMA SumsExist ==
    ASSUME NEW h
    PROVE  /\ Sums(h)[0] = 0
           /\ \A k \in 1..N : Sums(h)[k] = Sums(h)[k - 1] + h[k]
           /\ Total(h) = Sums(h)[N]
<1> DEFINE Next1(f, k) == IF k = 0 THEN 0 ELSE f[k - 1] + h[k]
           Summed(f, b) == f = [k \in 0..b |-> Next1(f, k)]
           B == {b \in 0..N : ~ \E f : Summed(f, b)}
<1>1. N \in Nat  BY SizeAssumption
<1>2. B = {}
  <2> SUFFICES ASSUME B # {} PROVE FALSE  OBVIOUS
  <2> DEFINE b == Min(B)
  <2>1. b \in B /\ \A k \in B : b <= k
    <3>1. B \in SUBSET Nat  BY <1>1
    <3> HIDE DEF B
    <3> QED  BY <3>1, Smallest
  <2>2. b \in 0..N /\ ~ \E f : Summed(f, b)  BY <2>1
  <2> HIDE DEF b
  <2>3. CASE b = 0
    <3> DEFINE f == [k \in 0..0 |-> 0]
    <3>1. f = [k \in 0..0 |-> Next1(f, k)]
      <4>1. \A k \in 0..0 : Next1(f, k) = 0  OBVIOUS
      <4> QED  BY <4>1
    <3>2. Summed(f, b)  BY <2>3, <3>1
    <3> QED  BY <2>2, <3>2
  <2>4. CASE b # 0
    <3>1. b - 1 \in 0..N /\ b \in Nat /\ b - 1 \in Nat /\ ~ (b <= b - 1)
      BY <1>1, <2>2, <2>4
    <3>2. b - 1 \notin B
      <4> HIDE DEF B
      <4> QED  BY <2>1, <3>1
    <3>3. PICK f : Summed(f, b - 1)  BY <3>1, <3>2
    <3> DEFINE g == [k \in 0..b |-> IF k = b THEN Next1(f, b) ELSE f[k]]
    <3>4. ASSUME NEW k \in 0..b PROVE g[k] = Next1(g, k)
      <4>1. CASE k = 0
        <5>1. g[k] = f[k] /\ f[k] = Next1(f, k)  BY <2>4, <3>1, <3>3, <4>1
        <5> QED  BY <4>1, <5>1
      <4>2. CASE k # 0
        <5>1. k - 1 \in 0..(b - 1) /\ k - 1 \in 0..b /\ k - 1 # b
          BY <3>1, <4>2
        <5>2. g[k - 1] = f[k - 1]  BY <5>1
        <5>3. Next1(g, k) = Next1(f, k)  BY <4>2, <5>2
        <5>4. CASE k = b  BY <5>3, <5>4
        <5>5. CASE k # b
          <6>1. k \in 0..(b - 1)  BY <3>1, <5>5
          <6>2. f[k] = Next1(f, k)  BY <3>3, <6>1
          <6> QED  BY <5>3, <5>5, <6>2
        <5> QED  BY <5>4, <5>5
      <4> QED  BY <4>1, <4>2
    <3>5. Summed(g, b)
      <4>1. g = [k \in 0..b |-> g[k]]  OBVIOUS
      <4> HIDE DEF g, Next1
      <4> QED  BY <3>4, <4>1
    <3> QED  BY <2>2, <3>5
  <2> QED  BY <2>3, <2>4
<1>3. \E f : Summed(f, N)
  <2>1. N \in 0..N  BY <1>1
  <2> HIDE DEF Summed
  <2> QED  BY <1>2, <2>1
<1>4. Sums(h) = CHOOSE f : Summed(f, N)  BY DEF Sums
<1>5. Summed(Sums(h), N)
  <2> HIDE DEF Summed
  <2> QED  BY <1>3, <1>4
<1>6. Total(h) = Sums(h)[N]  BY DEF Total, Sums
<1> DEFINE s == Sums(h)
<1>7. s = [k \in 0..N |-> Next1(s, k)]  BY <1>5
<1> HIDE DEF s
<1>8. \A k \in 0..N : s[k] = Next1(s, k)
  <2> HIDE DEF Next1
  <2> QED  BY <1>7
<1>9. s[0] = 0  BY <1>1, <1>8
<1>10. \A k \in 1..N : s[k] = s[k - 1] + h[k]  BY <1>1, <1>8
<1> QED  BY <1>6, <1>9, <1>10 DEF s

EditCostsOfTest ==
    [k \in 1..N |-> Levenshtein(test[k].gold, Composed(test[k].best))]

SumInv == stage \in {"score", "done"} => editDist = Sums(EditCostsOfTest)[ex - 1]

(* If every symbol that can be written can also be read, what              *)
(* one_best_edit returns is the sum of the Levenshtein distances of the    *)
(* gold words from what the chains composed with them spell, whatever the  *)
(* alphabets, the words and the best paths (evaluator.h:290-315, 421-453).   *)
(* Without the assumption the machine has no deletion of a symbol of the   *)
(* gold word that InSyms lacks.                                            *)
THEOREM EditsMeasureLevenshtein ==
    ASSUME OutSyms \subseteq InSyms
    PROVE  Spec => []EditsAreLevenshtein
<1>1. Init => SumInv  BY DEF Init, SumInv
<1>2. TypeInv /\ SumInv /\ [Next]_vars => SumInv'
  <2> SUFFICES ASSUME TypeInv, SumInv, [Next]_vars PROVE SumInv'  OBVIOUS
  <2> DEFINE C == EditCostsOfTest
  <2>1. ASSUME test' = test PROVE C' = C  BY <2>1 DEF EditCostsOfTest
  <2>2. /\ N \in Nat /\ ex \in 1..(N + 1) /\ ex \in Nat
        /\ stage \notin {"score", "done"} => ex = 1 /\ editDist = 0
    BY SizeAssumption DEF TypeInv, TypeOK
  <2>3. CASE AddDeletions  BY <2>3 DEF AddDeletions, SumInv
  <2>4. CASE AddInsertions  BY <2>4 DEF AddInsertions, SumInv
  <2>5. CASE AddSubstitutions
    <3>1. /\ stage = "substitutions" /\ test' = test /\ ex' = ex
          /\ editDist' = editDist
      BY <2>5 DEF AddSubstitutions
    <3>2. ex - 1 = 0 /\ editDist = 0 /\ C' = C  BY <2>1, <2>2, <3>1
    <3>3. Sums(C)[0] = 0  BY SumsExist
    <3> HIDE DEF C
    <3>4. editDist' = Sums(C')[ex' - 1]  BY <3>1, <3>2, <3>3
    <3> QED  BY <3>4 DEF SumInv, C
  <2>6. CASE ScoreExemplar
    <3> DEFINE u == test[ex].gold
               v == Composed(test[ex].best)
    <3>1. /\ stage = "score" /\ ex <= N /\ editDist' = editDist + Distance(u, v)
          /\ ex' = ex + 1 /\ UNCHANGED <<stage, arcs, test>>
      BY <2>6 DEF ScoreExemplar
    <3>2. ex \in 1..N  BY <2>2, <3>1
    <3>3. Distance(u, v) = Levenshtein(u, v)
      <4>1. /\ u \in Seq(OutSyms) /\ v \in Seq(Symbols)
            /\ Len(u) + Len(v) < Infinity
        BY <3>2, ExemplarType
      <4>2. arcs = Built  BY <3>1 DEF TypeInv, ArcsAt
      <4> HIDE DEF u, v
      <4> QED  BY <4>1, <4>2, MeasuresLevenshtein
    <3>4. C[ex] = Levenshtein(u, v)  BY <3>2 DEF EditCostsOfTest
    <3>5. editDist = Sums(C)[ex - 1]  BY <3>1 DEF SumInv
    <3>6. Sums(C)[ex] = Sums(C)[ex - 1] + C[ex]  BY <3>2, SumsExist
    <3>7. C' = C  BY <2>1, <3>1
    <3> HIDE DEF C, u, v
    <3>8. ex' - 1 = ex  BY <2>2, <3>1
    <3>9. editDist' = Sums(C')[ex' - 1]
      BY <3>1, <3>3, <3>4, <3>5, <3>6, <3>7, <3>8
    <3> QED  BY <3>9 DEF SumInv, C
  <2>7. CASE Return
    <3>1. /\ stage = "score" /\ test' = test /\ ex' = ex /\ editDist' = editDist
      BY <2>7 DEF Return
    <3>2. C' = C  BY <2>1, <3>1
    <3>3. editDist = Sums(C)[ex - 1]  BY <3>1 DEF SumInv
    <3> HIDE DEF C
    <3>4. editDist' = Sums(C')[ex' - 1]  BY <3>1, <3>2, <3>3
    <3> QED  BY <3>4 DEF SumInv, C
  <2>8. CASE UNCHANGED vars
    <3>1. /\ stage' = stage /\ test' = test /\ ex' = ex /\ editDist' = editDist
      BY <2>8 DEF vars
    <3>2. C' = C  BY <2>1, <3>1
    <3>3. stage' \in {"score", "done"} => editDist = Sums(C)[ex - 1]
      BY <3>1 DEF SumInv
    <3> HIDE DEF C
    <3>4. stage' \in {"score", "done"} => editDist' = Sums(C')[ex' - 1]
      BY <3>1, <3>2, <3>3
    <3> QED  BY <3>4 DEF SumInv, C
  <2> QED  BY <2>3, <2>4, <2>5, <2>6, <2>7, <2>8 DEF Next
<1>3. TypeInv /\ SumInv => EditsAreLevenshtein
  <2> SUFFICES ASSUME TypeInv, SumInv, stage = "done"
               PROVE  editDist = Total(EditCostsOfTest)
    BY DEF EditsAreLevenshtein, EditCostsOfTest
  <2>1. ex = N + 1 /\ N \in Nat  BY SizeAssumption DEF TypeInv
  <2>2. ex - 1 = N  BY <2>1
  <2>3. editDist = Sums(EditCostsOfTest)[N]  BY <2>2 DEF SumInv
  <2> QED  BY <2>3, SumsExist
<1> QED  BY <1>1, <1>2, <1>3, TypeInvHolds, PTL DEF Spec


=============================================================================
