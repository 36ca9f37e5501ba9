------------------------- MODULE ArcCounting_proofs -------------------------
(***************************************************************************)
(* The E-step over a whole corpus, for every corpus of finite words, every *)
(* pair of finite alphabets and every supported topology: calculate_       *)
(* observed_counts credits each arc of a lattice to the arc of the edit    *)
(* machine it was composed from, and every exemplar has a lattice with a   *)
(* path.                                                                   *)
(*                                                                         *)
(* The argument, in the order of the sections below: what a composition    *)
(* is; that two weightings of one machine give alike compositions; that a  *)
(* walk between two words gives their composition a path; and then the     *)
(* E-step and the edit machine as instances of these.                      *)
(***************************************************************************)
EXTENDS ArcCounting, FeaturePipeline_proofs, SequenceTheorems, FiniteSetTheorems,
        WellFoundedInduction, TLAPS

-----------------------------------------------------------------------------
(* Compositions, for automata in general. *)

(* A set of numbers that are not all too large has a smallest one. *)
LEMMA Least ==
    ASSUME NEW S \in SUBSET Nat, S # {}
    PROVE  \E x \in S : \A y \in S : x <= y
<1> DEFINE R == OpToRel(<, Nat)
<1>1. PICK x \in S : \A y \in S : ~ (<<y, x>> \in R)
  <2>1. IsWellFoundedOn(R, Nat)  BY NatLessThanWellFounded
  <2> HIDE DEF R
  <2> QED  BY <2>1, WFMin
<1>2. \A y \in S : <<y, x>> \in R <=> y < x
  <2>1. \A y, z \in Nat : <<y, z>> \in R <=> y < z  BY Zenon DEF OpToRel
  <2> HIDE DEF R
  <2> QED  BY <2>1
<1>3. \A y \in S : x <= y
  <2> TAKE y \in S
  <2>1. ~(y < x) /\ x \in Nat /\ y \in Nat  BY <1>1, <1>2
  <2> QED  BY <2>1
<1> QED  BY <1>3

(* Induction up to n, for a set of numbers. *)
LEMMA CountingUp ==
    ASSUME NEW n \in Nat, NEW P, 0 \in P,
           \A k \in 1..n : k - 1 \in P => k \in P
    PROVE  \A k \in 0..n : k \in P
<1> DEFINE B == {k \in 0..n : k \notin P}
<1> SUFFICES ASSUME B # {} PROVE FALSE  OBVIOUS
<1>1. B \in SUBSET Nat  OBVIOUS
<1>2. PICK b \in B : \A k \in B : b <= k
  <2> HIDE DEF B
  <2> QED  BY <1>1, Least
<1>3. b \in 1..n /\ b - 1 \in 0..n /\ ~ (b <= b - 1)  OBVIOUS
<1>4. b - 1 \in P  BY <1>2, <1>3
<1> QED  BY <1>3, <1>4

Steps(f, n, v, step) == f[0] = v /\ \A k \in 1..n : f[k] = step[<<k, f[k - 1]>>]

(* A function can be defined by recursion up to n. *)
LEMMA RecursionUp ==
    ASSUME NEW n \in Nat, NEW V, NEW v \in V, NEW step \in [(1..n) \X V -> V]
    PROVE  \E f \in [0..n -> V] : Steps(f, n, v, step)
<1> DEFINE Up(f, b) == f[0] = v /\ \A k \in 1..b : f[k] = step[<<k, f[k - 1]>>]
           P == {b \in 0..n : \E f \in [0..n -> V] : Up(f, b)}
<1>1. 0 \in P
  <2> DEFINE f == [k \in 0..n |-> v]
  <2>1. f \in [0..n -> V] /\ Up(f, 0)  OBVIOUS
  <2> HIDE DEF f
  <2> QED  BY <2>1
<1>2. ASSUME NEW b \in 1..n, b - 1 \in P PROVE b \in P
  <2>1. PICK f \in [0..n -> V] : Up(f, b - 1)  BY <1>2
  <2>2. b - 1 \in 0..n /\ b \in 0..n /\ b # 0 /\ 0 \in 0..n  OBVIOUS
  <2>3. step[<<b, f[b - 1]>>] \in V  BY <2>2
  <2> DEFINE g == [f EXCEPT ![b] = step[<<b, f[b - 1]>>]]
  <2>4. g \in [0..n -> V]  BY <2>3
  <2>5. g[b] = step[<<b, f[b - 1]>>] /\ \A k \in 0..n : k # b => g[k] = f[k]
    BY <2>2
  <2> HIDE DEF g
  <2>6. g[0] = v  BY <2>1, <2>2, <2>5
  <2>7. ASSUME NEW k \in 1..b PROVE g[k] = step[<<k, g[k - 1]>>]
    <3>1. k - 1 \in 0..n /\ k - 1 # b /\ k \in 0..n  OBVIOUS
    <3>2. g[k - 1] = f[k - 1]  BY <2>5, <3>1
    <3>3. CASE k = b  BY <2>5, <3>2, <3>3
    <3>4. CASE k # b
      <4>1. k \in 1..(b - 1)  BY <3>4
      <4> QED  BY <2>1, <2>5, <3>1, <3>2, <3>4, <4>1
    <3> QED  BY <3>3, <3>4
  <2> QED  BY <2>2, <2>4, <2>6, <2>7
<1>3. \A k \in 1..n : k - 1 \in P => k \in P  BY <1>2
<1> HIDE DEF P
<1>4. n \in P  BY <1>1, <1>3, CountingUp
<1> QED  BY <1>4 DEF P, Steps

IsOnce(s) == \A k, m \in 1..Len(s) : s[k] = s[m] => k = m

(* What Extended returns: s first, then what t adds, nothing twice. *)
LEMMA ExtendedSequence ==
    ASSUME NEW D, NEW s \in Seq(D), NEW t \in Seq(D), IsOnce(s)
    PROVE  /\ Extended(s, t) \in Seq(D) /\ IsOnce(Extended(s, t))
           /\ Len(s) <= Len(Extended(s, t))
           /\ \A k \in 1..Len(s) : Extended(s, t)[k] = s[k]
           /\ \A k \in 1..Len(t) : t[k] \in Range(Extended(s, t))
<1> DEFINE n == Len(t)
           Add1(r, k) == IF t[k] \in Range(r) THEN r ELSE Append(r, t[k])
           Table(f) == f = [k \in 0..n |-> IF k = 0 THEN s ELSE Add1(f[k - 1], k)]
           step == [x \in (1..n) \X Seq(D) |-> Add1(x[2], x[1])]
           e == CHOOSE f : Table(f)
<1>1. n \in Nat /\ \A k \in 1..n : t[k] \in D  OBVIOUS
<1>2. step \in [(1..n) \X Seq(D) -> Seq(D)]
  <2>1. ASSUME NEW x \in (1..n) \X Seq(D) PROVE Add1(x[2], x[1]) \in Seq(D)
    <3>1. x[1] \in 1..n /\ x[2] \in Seq(D)  OBVIOUS
    <3>2. t[x[1]] \in D  BY <1>1, <3>1
    <3>3. Append(x[2], t[x[1]]) \in Seq(D)  BY <3>1, <3>2
    <3> QED  BY <3>1, <3>3
  <2> QED  BY <2>1
<1>3. \E f : Table(f)
  <2>1. PICK f \in [0..n -> Seq(D)] :
          f[0] = s /\ \A k \in 1..n : f[k] = step[<<k, f[k - 1]>>]
    <3> DEFINE V == Seq(D)
    <3>1. n \in Nat /\ s \in V /\ step \in [(1..n) \X V -> V]  BY <1>1, <1>2
    <3> HIDE DEF step, n, V
    <3>2. \E f \in [0..n -> V] : Steps(f, n, s, step)  BY ONLY <3>1, RecursionUp
    <3> QED  BY <3>2 DEF V, Steps
  <2>2. ASSUME NEW k \in 0..n
        PROVE  f[k] = IF k = 0 THEN s ELSE Add1(f[k - 1], k)
    <3>1. CASE k # 0
      <4>1. k \in 1..n /\ k - 1 \in 0..n  BY <1>1, <3>1
      <4>2. <<k, f[k - 1]>> \in (1..n) \X Seq(D)  BY <4>1
      <4>3. step[<<k, f[k - 1]>>] = Add1(f[k - 1], k)  BY <4>2
      <4> QED  BY <2>1, <3>1, <4>1, <4>3
    <3> QED  BY <2>1, <3>1
  <2>3. f = [k \in 0..n |-> IF k = 0 THEN s ELSE Add1(f[k - 1], k)]  BY <2>2
  <2> QED  BY <2>3
<1>4. Table(e)  BY <1>3
<1>5. e[0] = s /\ \A k \in 1..n : e[k] = Add1(e[k - 1], k)
  <2>1. \A k \in 0..n : e[k] = IF k = 0 THEN s ELSE Add1(e[k - 1], k)
    <3> HIDE DEF e
    <3> QED  BY <1>4
  <2> HIDE DEF e
  <2> QED  BY <1>1, <2>1
<1>6. Extended(s, t) = e[n]  BY DEF Extended
<1> HIDE DEF e, Table, step
<1> DEFINE Fine(r, k) == /\ r \in Seq(D) /\ IsOnce(r) /\ Len(s) <= Len(r)
                         /\ \A m \in 1..Len(s) : r[m] = s[m]
                         /\ \A m \in 1..k : t[m] \in Range(r)
           P == {k \in 0..n : Fine(e[k], k)}
<1>7. 0 \in P  BY <1>1, <1>5
<1>8. ASSUME NEW k \in 1..n, k - 1 \in P PROVE k \in P
  <2> DEFINE r == e[k - 1]
             q == e[k]
  <2>1. Fine(r, k - 1)  BY <1>8
  <2>2. q = Add1(r, k) /\ t[k] \in D  BY <1>1, <1>5
  <2> HIDE DEF r, q
  <2>3. CASE t[k] \in Range(r)
    <3>1. \A m \in 1..k : m = k \/ m \in 1..(k - 1)  OBVIOUS
    <3>2. Fine(q, k)  BY <2>1, <2>2, <2>3, <3>1
    <3> QED  BY <1>1, <3>2 DEF q
  <2>4. CASE t[k] \notin Range(r)
    <3>1. q = Append(r, t[k]) /\ r \in Seq(D)  BY <2>1, <2>2, <2>4
    <3>2. /\ q \in Seq(D) /\ Len(r) \in Nat /\ Len(q) = Len(r) + 1
          /\ q[Len(q)] = t[k] /\ \A m \in 1..Len(r) : q[m] = r[m]
      BY <2>2, <3>1
    <3>3. DOMAIN r = 1..Len(r) /\ DOMAIN q = 1..Len(q)  BY <3>1, <3>2
    <3>4. \A m \in 1..Len(r) : r[m] # t[k]  BY <2>4, <3>3 DEF Range
    <3>5. IsOnce(q)
      <4> SUFFICES ASSUME NEW a \in 1..Len(q), NEW b \in 1..Len(q), q[a] = q[b]
                   PROVE  a = b
        BY DEF IsOnce
      <4>1. \A m \in 1..Len(q) : m = Len(q) \/ m \in 1..Len(r)  BY <3>2
      <4>2. CASE a = Len(q)  BY <3>2, <3>4, <4>1, <4>2
      <4>3. CASE b = Len(q)  BY <3>2, <3>4, <4>1, <4>3
      <4>4. CASE a \in 1..Len(r) /\ b \in 1..Len(r)
        BY <2>1, <3>2, <4>4 DEF IsOnce
      <4> QED  BY <4>1, <4>2, <4>3, <4>4
    <3>6. Range(r) \subseteq Range(q) /\ t[k] \in Range(q)
      BY <3>2, <3>3 DEF Range
    <3>7. \A m \in 1..k : m = k \/ m \in 1..(k - 1)  OBVIOUS
    <3>8. \A m \in 1..k : t[m] \in Range(q)  BY <2>1, <3>6, <3>7
    <3>9. Len(s) <= Len(q) /\ \A m \in 1..Len(s) : q[m] = s[m]
      <4>1. Len(s) \in Nat /\ Len(s) <= Len(r)  BY <2>1
      <4>2. \A m \in 1..Len(s) : m \in 1..Len(r)  BY <3>2, <4>1
      <4> QED  BY <2>1, <3>2, <4>1, <4>2
    <3> QED  BY <1>1, <3>2, <3>5, <3>8, <3>9 DEF q
  <2> QED  BY <2>3, <2>4
<1>9. n \in P
  <2>1. \A k \in 1..n : k - 1 \in P => k \in P  BY <1>8
  <2> HIDE DEF P, n
  <2>2. n \in Nat /\ n \in 0..n  BY <1>1
  <2>3. \A k \in 0..n : k \in P  BY ONLY <1>7, <2>1, <2>2, CountingUp
  <2> QED  BY <2>2, <2>3
<1> QED  BY <1>6, <1>9

(* A sequence without repetitions is not longer than its elements are many. *)
LEMMA OnceFits ==
    ASSUME NEW D, IsFiniteSet(D), NEW s \in Seq(D), IsOnce(s)
    PROVE  Len(s) <= Cardinality(D)
<1>1. Len(s) \in Nat /\ s \in [1..Len(s) -> D]  OBVIOUS
<1>2. s \in Injection(1..Len(s), D)
  BY <1>1 DEF Injection, IsInjective, IsOnce
<1>3. Cardinality(1..Len(s)) <= Cardinality(D)  BY <1>2, FS_Injection
<1>4. Cardinality(1..Len(s)) = Len(s)
  <2>1. 1 \in Int /\ Len(s) \in Int  BY <1>1
  <2>2. Cardinality(1..Len(s)) = IF 1 > Len(s) THEN 0 ELSE Len(s) - 1 + 1
    BY <2>1, FS_Interval
  <2> QED  BY <1>1, <2>2
<1> QED  BY <1>3, <1>4

(* What Found returns: what follows a state found is found. *)
LEMMA FoundSequence ==
    ASSUME NEW D, IsFiniteSet(D), NEW next \in [D -> Seq(D)], NEW first \in D
    PROVE  /\ Found(next, first) \in Seq(D) /\ IsOnce(Found(next, first))
           /\ 1 \in 1..Len(Found(next, first)) /\ Found(next, first)[1] = first
           /\ \A i \in 1..Len(Found(next, first)) :
                \A k \in 1..Len(next[Found(next, first)[i]]) :
                   next[Found(next, first)[i]][k] \in Range(Found(next, first))
<1> DEFINE n == Cardinality(DOMAIN next)
           More(r, k) == IF k > Len(r) THEN r ELSE Extended(r, next[r[k]])
           Table(f) == f = [k \in 0..n |-> IF k = 0 THEN <<first>> ELSE More(f[k - 1], k)]
           V == {r \in Seq(D) : IsOnce(r)}
           step == [x \in (1..n) \X V |-> More(x[2], x[1])]
           e == CHOOSE f : Table(f)
<1>1. n \in Nat /\ n = Cardinality(D)  BY FS_CardinalityType
<1>2. ASSUME NEW r \in V, NEW k \in 1..n
      PROVE  /\ More(r, k) \in V /\ Len(r) <= Len(More(r, k))
             /\ \A m \in 1..Len(r) : More(r, k)[m] = r[m]
             /\ k <= Len(r) =>
                  \A m \in 1..Len(next[r[k]]) : next[r[k]][m] \in Range(More(r, k))
  <2>1. CASE k > Len(r)
    <3>1. More(r, k) = r /\ Len(r) \in Nat  BY <2>1
    <3> QED  BY <2>1, <3>1
  <2>2. CASE ~(k > Len(r))
    <3> DEFINE t == next[r[k]]
    <3>1. k \in 1..Len(r)  BY <2>2
    <3>2. r[k] \in D  BY <3>1
    <3>3. t \in Seq(D) /\ r \in Seq(D) /\ IsOnce(r)  BY <3>2
    <3>4. More(r, k) = Extended(r, t)  BY <2>2
    <3> HIDE DEF t, More
    <3> QED  BY <3>3, <3>4, ExtendedSequence DEF t
  <2> QED  BY <2>1, <2>2
<1>3. step \in [(1..n) \X V -> V]
  <2>1. ASSUME NEW x \in (1..n) \X V PROVE More(x[2], x[1]) \in V
    <3>1. x[1] \in 1..n /\ x[2] \in V  OBVIOUS
    <3> HIDE DEF More, V, n
    <3> QED  BY <1>2, <3>1
  <2> HIDE DEF More, V, n
  <2> QED  BY <2>1
<1>4. <<first>> \in V  BY DEF IsOnce
<1>5. \E f : Table(f)
  <2>1. PICK f \in [0..n -> V] : Steps(f, n, <<first>>, step)
    <3> DEFINE v == <<first>>
    <3>1. n \in Nat /\ v \in V /\ step \in [(1..n) \X V -> V]  BY <1>1, <1>3, <1>4
    <3> HIDE DEF v, V, step, n
    <3>2. \E f \in [0..n -> V] : Steps(f, n, v, step)  BY ONLY <3>1, RecursionUp
    <3> QED  BY <3>2 DEF v
  <2>2. ASSUME NEW k \in 0..n
        PROVE  f[k] = IF k = 0 THEN <<first>> ELSE More(f[k - 1], k)
    <3> HIDE DEF More, V
    <3>1. CASE k # 0
      <4>1. k \in 1..n /\ k - 1 \in 0..n  BY <1>1, <3>1
      <4>2. <<k, f[k - 1]>> \in (1..n) \X V  BY <4>1
      <4>3. step[<<k, f[k - 1]>>] = More(f[k - 1], k)  BY <4>2
      <4> QED  BY <2>1, <3>1, <4>1, <4>3 DEF Steps
    <3> QED  BY <2>1, <3>1 DEF Steps
  <2>3. f = [k \in 0..n |-> IF k = 0 THEN <<first>> ELSE More(f[k - 1], k)]
    <3> HIDE DEF More, V
    <3> QED  BY <2>2
  <2> QED  BY <2>3
<1>6. Table(e)  BY <1>5
<1>7. e[0] = <<first>> /\ \A k \in 1..n : e[k] = More(e[k - 1], k)
  <2>1. \A k \in 0..n : e[k] = IF k = 0 THEN <<first>> ELSE More(e[k - 1], k)
    <3> HIDE DEF e, More
    <3> QED  BY <1>6
  <2> HIDE DEF e, More
  <2> QED  BY <1>1, <2>1
<1>8. Found(next, first) = e[n]  BY DEF Found
<1> HIDE DEF e, Table, step, More
<1> DEFINE Fine(r, k) == /\ r \in V /\ 1 \in 1..Len(r) /\ r[1] = first
                         /\ \A i \in 1..Len(r) : i <= k =>
                              \A m \in 1..Len(next[r[i]]) : next[r[i]][m] \in Range(r)
           P == {k \in 0..n : Fine(e[k], k)}
<1>9. 0 \in P
  <2> DEFINE r == <<first>>
  <2>1. Len(r) = 1 /\ r[1] = first  OBVIOUS
  <2>2. r \in V  BY <1>4
  <2> HIDE DEF r
  <2>3. \A i \in 1..Len(r) : ~(i <= 0)  BY <2>1
  <2>4. Fine(r, 0)  BY <2>1, <2>2, <2>3
  <2>5. e[0] = r  BY <1>7 DEF r
  <2>6. 0 \in 0..n  BY <1>1
  <2> QED  BY <2>4, <2>5, <2>6
<1>10. ASSUME NEW k \in 1..n, k - 1 \in P PROVE k \in P
  <2> DEFINE r == e[k - 1]
             q == e[k]
  <2>1. Fine(r, k - 1)  BY <1>10
  <2>2. q = More(r, k)  BY <1>7
  <2>3. /\ q \in V /\ Len(r) <= Len(q) /\ \A m \in 1..Len(r) : q[m] = r[m]
        /\ k <= Len(r) => \A m \in 1..Len(next[r[k]]) : next[r[k]][m] \in Range(q)
    BY <1>2, <2>1, <2>2
  <2> HIDE DEF r, q
  <2>4. q \in Seq(D) /\ r \in Seq(D) /\ Len(q) \in Nat /\ Len(r) \in Nat
        /\ DOMAIN q = 1..Len(q) /\ DOMAIN r = 1..Len(r)
    BY <2>1, <2>3
  <2>5. Range(r) \subseteq Range(q)  BY <2>3, <2>4 DEF Range
  <2>6. 1 \in 1..Len(q) /\ q[1] = first  BY <2>1, <2>3, <2>4
  <2>7. ASSUME NEW i \in 1..Len(q), i <= k, NEW m \in 1..Len(next[q[i]])
        PROVE  next[q[i]][m] \in Range(q)
    <3>1. CASE i <= Len(r)
      <4>1. i \in 1..Len(r) /\ q[i] = r[i]  BY <2>3, <2>4, <3>1
      <4>2. CASE i = k  BY <2>3, <2>7, <4>1, <4>2
      <4>3. CASE i # k
        <5>1. i <= k - 1  BY <2>7, <4>1, <4>3
        <5>2. next[r[i]][m] \in Range(r)  BY <2>1, <2>7, <4>1, <5>1
        <5> QED  BY <2>5, <4>1, <5>2
      <4> QED  BY <4>2, <4>3
    <3>2. CASE ~(i <= Len(r))
      <4>1. k > Len(r)  BY <2>4, <2>7, <3>2
      <4>2. q = r  BY <2>2, <4>1 DEF More
      <4> QED  BY <2>4, <3>2, <4>2
    <3> QED  BY <3>1, <3>2
  <2>8. Fine(q, k)  BY <2>3, <2>6, <2>7
  <2> QED  BY <2>8 DEF q
<1>11. Fine(e[n], n)
  <2>1. \A k \in 1..n : k - 1 \in P => k \in P  BY <1>10
  <2>2. n \in Nat /\ n \in 0..n  BY <1>1
  <2> HIDE DEF P, n
  <2>3. \A k \in 0..n : k \in P  BY ONLY <1>9, <2>1, <2>2, CountingUp
  <2>4. n \in P  BY <2>2, <2>3
  <2> QED  BY <2>4 DEF P
<1> DEFINE F == e[n]
<1>12. F \in Seq(D) /\ IsOnce(F) /\ Len(F) \in Nat  BY <1>11
<1>13. Len(F) <= n
  <2> HIDE DEF F
  <2> QED  BY <1>1, <1>12, OnceFits
<1>14. ASSUME NEW i \in 1..Len(F), NEW k \in 1..Len(next[F[i]])
       PROVE  next[F[i]][k] \in Range(F)
  <2>1. i <= n
    <3> HIDE DEF F, n
    <3> QED  BY <1>1, <1>12, <1>13
  <2> QED  BY <1>11, <2>1
<1> QED  BY <1>8, <1>11, <1>12, <1>14

(* What Leading returns: what leads to a state of it is in it. *)
LEMMA LeadingClosed ==
    ASSUME NEW Q, IsFiniteSet(Q), NEW S \in SUBSET Q,
           NEW arrows, \A x \in arrows : x[1] \in Q
    PROVE  /\ Leading(Q, arrows, S) \in SUBSET Q
           /\ S \subseteq Leading(Q, arrows, S)
           /\ \A x \in arrows : x[2] \in Leading(Q, arrows, S)
                                  => x[1] \in Leading(Q, arrows, S)
<1> DEFINE More(T) == T \cup {x[1] : x \in {x \in arrows : x[2] \in T}}
           Table(f) == f = [T \in SUBSET Q |-> IF More(T) = T THEN T ELSE f[More(T)]]
           e == CHOOSE f : Table(f)
           Closed(T) == \A x \in arrows : x[2] \in T => x[1] \in T
           Hull(T) == {q \in Q : \A U \in SUBSET Q : T \subseteq U /\ Closed(U) => q \in U}
<1>1. ASSUME NEW T \in SUBSET Q
      PROVE  /\ More(T) \in SUBSET Q /\ T \subseteq More(T)
             /\ (More(T) = T) <=> Closed(T)
  OBVIOUS
<1>2. \E f : Table(f)
  <2> DEFINE f == [T \in SUBSET Q |-> Hull(T)]
  <2>1. ASSUME NEW T \in SUBSET Q
        PROVE  f[T] = IF More(T) = T THEN T ELSE f[More(T)]
    <3>1. f[T] = Hull(T) /\ f[More(T)] = Hull(More(T))  BY <1>1
    <3>2. CASE More(T) = T
      <4>1. Closed(T)  BY <1>1, <3>2
      <4>2. Hull(T) \subseteq T  BY <4>1
      <4>3. T \subseteq Hull(T)  OBVIOUS
      <4> QED  BY <3>1, <3>2, <4>2, <4>3
    <3>3. CASE More(T) # T
      <4>1. \A U \in SUBSET Q : Closed(U) => (T \subseteq U <=> More(T) \subseteq U)
        OBVIOUS
      <4>2. Hull(T) = Hull(More(T))
        <5> HIDE DEF More, Closed
        <5> QED  BY <4>1
      <4> QED  BY <3>1, <3>3, <4>2
    <3> QED  BY <3>2, <3>3
  <2>2. f = [T \in SUBSET Q |-> IF More(T) = T THEN T ELSE f[More(T)]]
    <3> HIDE DEF More, Hull
    <3> QED  BY <2>1
  <2> QED  BY <2>2
<1>3. Table(e)  BY <1>2
<1>4. \A T \in SUBSET Q : e[T] = IF More(T) = T THEN T ELSE e[More(T)]
  <2> HIDE DEF e, More
  <2> QED  BY <1>3
<1>5. Leading(Q, arrows, S) = e[S]  BY DEF Leading
<1> HIDE DEF e, Table
<1> DEFINE Fine(T) == e[T] \in SUBSET Q /\ T \subseteq e[T] /\ Closed(e[T])
           B == {n \in Nat : \E T \in SUBSET Q : Cardinality(Q \ T) = n /\ ~Fine(T)}
<1>6. B = {}
  <2> SUFFICES ASSUME B # {} PROVE FALSE  OBVIOUS
  <2>1. PICK n \in B : \A m \in B : n <= m
    <3>1. B \in SUBSET Nat  OBVIOUS
    <3> HIDE DEF B
    <3> QED  BY <3>1, Least
  <2>2. PICK T \in SUBSET Q : Cardinality(Q \ T) = n /\ ~Fine(T)  OBVIOUS
  <2> DEFINE T2 == More(T)
  <2>3. T2 \in SUBSET Q /\ T \subseteq T2 /\ (T2 = T <=> Closed(T))  BY <1>1
  <2>4. e[T] = IF T2 = T THEN T ELSE e[T2]  BY <1>4
  <2> HIDE DEF T2, More
  <2>5. CASE T2 = T  BY <2>2, <2>3, <2>4, <2>5
  <2>6. CASE T2 # T
    <3> DEFINE U == Q \ T
               U2 == Q \ T2
    <3>1. U2 \in SUBSET U /\ U2 # U  BY <2>3, <2>6
    <3>2. IsFiniteSet(U)
      <4>1. U \in SUBSET Q  OBVIOUS
      <4> QED  BY <4>1, FS_Subset
    <3> HIDE DEF U, U2
    <3>3. /\ Cardinality(U2) <= Cardinality(U) /\ Cardinality(U) # Cardinality(U2)
          /\ IsFiniteSet(U2)
      BY <3>1, <3>2, FS_Subset
    <3>4. Cardinality(U) \in Nat /\ Cardinality(U2) \in Nat
      BY <3>2, <3>3, FS_CardinalityType
    <3>5. Cardinality(U) = n  BY <2>2 DEF U
    <3>6. ~(n <= Cardinality(U2))  BY <3>3, <3>4, <3>5
    <3>7. Cardinality(U2) \notin B
      <4> HIDE DEF B
      <4> QED  BY <2>1, <3>6
    <3>8. Fine(T2)
      <4> HIDE DEF Fine
      <4> QED  BY <2>3, <3>4, <3>7 DEF U2
    <3>9. Fine(T)  BY <2>3, <2>4, <2>6, <3>8
    <3> QED  BY <2>2, <3>9
  <2> QED  BY <2>5, <2>6
<1>7. Fine(S)
  <2>1. Q \ S \in SUBSET Q  OBVIOUS
  <2>2. Cardinality(Q \ S) \in Nat  BY <2>1, FS_Subset, FS_CardinalityType
  <2> HIDE DEF Fine
  <2> QED  BY <1>6, <2>2
<1> QED  BY <1>5, <1>7

(* The order of finitely many pairs of numbers. *)
PairBefore(l, m) == l[1] < m[1] \/ (l[1] = m[1] /\ l[2] < m[2])

(* InOrder lists every pair once, and nothing else. *)
LEMMA InOrderLists ==
    ASSUME NEW S \in SUBSET (Nat \X Nat), IsFiniteSet(S)
    PROVE  /\ InOrder(S) \in Seq(S) /\ Len(InOrder(S)) = Cardinality(S)
           /\ \A m \in S : \E k \in 1..Len(InOrder(S)) : InOrder(S)[k] = m
           /\ IsOnce(InOrder(S))
<1> DEFINE c == Cardinality(S)
           Less(m) == {l \in S : PairBefore(l, m)}
           rank == [m \in S |-> Cardinality(Less(m)) + 1]
<1>1. c \in Nat  BY FS_CardinalityType
<1>2. ASSUME NEW m \in S
      PROVE  /\ IsFiniteSet(Less(m)) /\ Cardinality(Less(m)) \in Nat
             /\ Cardinality(Less(m)) < c
  <2>1. Less(m) \in SUBSET S  OBVIOUS
  <2>2. m \notin Less(m)  BY DEF PairBefore
  <2>3. Less(m) # S  BY <2>2
  <2> HIDE DEF Less
  <2>4. /\ IsFiniteSet(Less(m)) /\ Cardinality(Less(m)) <= c
        /\ c # Cardinality(Less(m))
    BY <2>1, <2>3, FS_Subset
  <2>5. Cardinality(Less(m)) \in Nat  BY <2>4, FS_CardinalityType
  <2> QED  BY <1>1, <2>4, <2>5
<1>3. ASSUME NEW l \in S, NEW m \in S, PairBefore(l, m)
      PROVE  Cardinality(Less(l)) < Cardinality(Less(m))
  <2>1. Less(l) \in SUBSET Less(m)
    <3>1. \A x \in S : PairBefore(x, l) => PairBefore(x, m)
      BY <1>3 DEF PairBefore
    <3> QED  BY <3>1
  <2>2. l \in Less(m) /\ l \notin Less(l)  BY <1>3 DEF PairBefore
  <2>3. Less(l) # Less(m)  BY <2>2
  <2> HIDE DEF Less
  <2>4. /\ Cardinality(Less(l)) <= Cardinality(Less(m))
        /\ Cardinality(Less(l)) # Cardinality(Less(m))
    BY <1>2, <2>1, <2>3, FS_Subset
  <2> QED  BY <1>2, <2>4
<1>4. rank \in [S -> 1..c]  BY <1>1, <1>2
<1>5. \A l, m \in S : rank[l] = rank[m] => l = m
  <2> SUFFICES ASSUME NEW l \in S, NEW m \in S, rank[l] = rank[m], l # m PROVE FALSE
    OBVIOUS
  <2>1. PairBefore(l, m) \/ PairBefore(m, l)
    <3>1. /\ l = <<l[1], l[2]>> /\ m = <<m[1], m[2]>>
          /\ l[1] \in Nat /\ l[2] \in Nat /\ m[1] \in Nat /\ m[2] \in Nat
      OBVIOUS
    <3> QED  BY <3>1 DEF PairBefore
  <2>2. Cardinality(Less(l)) = Cardinality(Less(m))
    <3>1. Cardinality(Less(l)) + 1 = Cardinality(Less(m)) + 1  OBVIOUS
    <3> HIDE DEF Less
    <3> QED  BY <1>2, <3>1
  <2> HIDE DEF Less
  <2> QED  BY <1>2, <1>3, <2>1, <2>2
<1>6. IsFiniteSet(1..c) /\ Cardinality(1..c) = c
  <2>1. 1 \in Int /\ c \in Int  BY <1>1
  <2>2. IsFiniteSet(1..c) /\ Cardinality(1..c) = IF 1 > c THEN 0 ELSE c - 1 + 1
    BY <2>1, FS_Interval
  <2> QED  BY <1>1, <2>2
<1>7. \A k \in 1..c : \E m \in S : rank[m] = k
  <2> HIDE DEF rank, c
  <2>1. rank \in Injection(S, 1..c)  BY <1>4, <1>5 DEF Injection, IsInjective
  <2>2. rank \in Surjection(S, 1..c)  BY <1>6, <2>1, FS_Injection DEF c
  <2> QED  BY <2>2 DEF Surjection
<1> DEFINE o == InOrder(S)
<1>8. o = [k \in 1..c |-> CHOOSE m \in S : Cardinality(Less(m)) = k - 1]
  BY DEF InOrder, PairBefore
<1>9. ASSUME NEW k \in 1..c PROVE o[k] \in S /\ rank[o[k]] = k
  <2>1. PICK m \in S : rank[m] = k  BY <1>7
  <2>2. Cardinality(Less(m)) = k - 1
    <3>1. Cardinality(Less(m)) + 1 = k  BY <2>1
    <3> HIDE DEF Less
    <3> QED  BY <1>2, <3>1
  <2>3. o[k] \in S /\ Cardinality(Less(o[k])) = k - 1
    <3>1. o[k] = CHOOSE x \in S : Cardinality(Less(x)) = k - 1
      <4> HIDE DEF o, Less
      <4> QED  BY <1>8
    <3> HIDE DEF o, Less
    <3> QED  BY <2>2, <3>1
  <2>4. rank[o[k]] = Cardinality(Less(o[k])) + 1
    <3> HIDE DEF o, Less
    <3> QED  BY <2>3
  <2> HIDE DEF o, Less, rank
  <2> QED  BY <2>3, <2>4
<1>10. DOMAIN o = 1..c
  <2> HIDE DEF o, Less
  <2> QED  BY <1>8
<1>11. o \in Seq(S) /\ Len(o) = c
  <2>1. o \in [1..c -> S]
    <3>1. o = [k \in 1..c |-> o[k]]
      <4> HIDE DEF o, Less
      <4> QED  BY <1>8
    <3> HIDE DEF o, Less, rank
    <3> QED  BY <1>9, <3>1
  <2> HIDE DEF o
  <2> QED  BY <1>1, <2>1, SeqDef, LenProperties
<1>12. \A m \in S : \E k \in 1..c : o[k] = m
  <2> TAKE m \in S
  <2>1. rank[m] \in 1..c  BY <1>4
  <2> HIDE DEF o, rank
  <2>2. o[rank[m]] \in S /\ rank[o[rank[m]]] = rank[m]  BY <1>9, <2>1
  <2> QED  BY <1>5, <2>1, <2>2
<1>13. \A k, m \in 1..c : o[k] = o[m] => k = m
  <2> HIDE DEF o, rank
  <2> QED  BY <1>9
<1> HIDE DEF o
<1>14. IsOnce(o)  BY <1>11, <1>13 DEF IsOnce
<1> QED  BY <1>11, <1>12, <1>14 DEF o

-----------------------------------------------------------------------------
(* Compositions.                                                           *)

IsAutomaton(A) ==
    /\ IsFiniteSet(States(A))
    /\ \A s \in States(A) :
         /\ Len(A.out[s]) \in Nat
         /\ \A k \in 1..Len(A.out[s]) : A.out[s][k].to \in States(A)

GoodMatches(A, B, q) == {m \in Matches(A, B, q) : Joined(A, B, q, m).to \in Good(A, B)}
MovesOf(A, B)   == Moves(A, B, Good(A, B))
ReachedOf(A, B) == Reached(A, B, Good(A, B), MovesOf(A, B))
First(A, B)     == <<A.start, B.start, 0>>

(* There are finitely many states and moves, and a move leads to a state. *)
LEMMA MatchesJoin ==
    ASSUME NEW A, NEW B, IsAutomaton(A), IsAutomaton(B), NEW q \in Pairs(A, B)
    PROVE  /\ Matches(A, B, q) \in SUBSET (Nat \X Nat) /\ IsFiniteSet(Matches(A, B, q))
           /\ \A m \in Matches(A, B, q) : Joined(A, B, q, m).to \in Pairs(A, B)
<1>1. /\ q = <<q[1], q[2], q[3]>> /\ q[1] \in States(A) /\ q[2] \in States(B)
      /\ q[3] \in {0, 1}
  BY DEF Pairs
<1> DEFINE x == Len(A.out[q[1]])
           z == Len(B.out[q[2]])
<1>2. x \in Nat /\ z \in Nat  BY <1>1 DEF IsAutomaton
<1> DEFINE S == (0..x) \X (0..z)
<1>3. Matches(A, B, q) \in SUBSET S  BY DEF Matches
<1>4. IsFiniteSet(S)
  <2>1. 0 \in Int /\ x \in Int /\ z \in Int  BY <1>2
  <2> HIDE DEF x, z
  <2>2. IsFiniteSet(0..x) /\ IsFiniteSet(0..z)  BY <2>1, FS_Interval
  <2> QED  BY <2>2, FS_Product
<1>5. IsFiniteSet(Matches(A, B, q))
  <2> HIDE DEF S
  <2> QED  BY <1>3, <1>4, FS_Subset
<1>6. Matches(A, B, q) \in SUBSET (Nat \X Nat)  BY <1>2, <1>3
<1>7. ASSUME NEW m \in Matches(A, B, q) PROVE Joined(A, B, q, m).to \in Pairs(A, B)
  <2>1. m[1] \in 0..x /\ m[2] \in 0..z  BY <1>3
  <2> DEFINE s == IF m[1] = 0 THEN q[1] ELSE A.out[q[1]][m[1]].to
             t == IF m[2] = 0 THEN q[2] ELSE B.out[q[2]][m[2]].to
  <2>2. s \in States(A)
    <3>1. CASE m[1] = 0  BY <1>1, <3>1
    <3>2. CASE m[1] # 0
      <4>1. m[1] \in 1..x  BY <1>2, <2>1, <3>2
      <4> QED  BY <1>1, <3>2, <4>1 DEF IsAutomaton
    <3> QED  BY <3>1, <3>2
  <2>3. t \in States(B)
    <3>1. CASE m[2] = 0  BY <1>1, <3>1
    <3>2. CASE m[2] # 0
      <4>1. m[2] \in 1..z  BY <1>2, <2>1, <3>2
      <4> QED  BY <1>1, <3>2, <4>1 DEF IsAutomaton
    <3> QED  BY <3>1, <3>2
  <2>4. \E f \in {0, 1} : Joined(A, B, q, m).to = <<s, t, f>>
    BY DEF Joined, FstArc
  <2> HIDE DEF s, t
  <2> QED  BY <2>2, <2>3, <2>4 DEF Pairs
<1> QED  BY <1>5, <1>6, <1>7

(* A state that moves to a good one is good. *)
LEMMA GoodStates ==
    ASSUME NEW A, NEW B, IsAutomaton(A), IsAutomaton(B)
    PROVE  /\ Good(A, B) \in SUBSET Pairs(A, B) /\ IsFiniteSet(Good(A, B))
           /\ \A q \in Pairs(A, B) : q[1] \in A.final /\ q[2] \in B.final
                                       => q \in Good(A, B)
           /\ \A q \in Pairs(A, B) : \A m \in Matches(A, B, q) :
                Joined(A, B, q, m).to \in Good(A, B) => q \in Good(A, B)
<1> DEFINE Q == Pairs(A, B)
           arrows == UNION {{<<q, Joined(A, B, q, m).to>> : m \in Matches(A, B, q)} : q \in Q}
           S == {q \in Q : q[1] \in A.final /\ q[2] \in B.final}
           G == Leading(Q, arrows, S)
<1>1. Good(A, B) = G  BY DEF Good
<1>2. IsFiniteSet(Q)
  <2>1. IsFiniteSet(States(A)) /\ IsFiniteSet(States(B))  BY DEF IsAutomaton
  <2>2. IsFiniteSet({0, 1})
    <3>1. IsFiniteSet({0}) /\ {0, 1} = {0} \cup {1}  BY FS_Singleton
    <3> QED  BY <3>1, FS_AddElement
  <2> DEFINE two == {0, 1}
  <2>3. IsFiniteSet(two)  BY <2>2
  <2> DEFINE T == (States(A) \X States(B)) \X two
             f == [p \in T |-> <<p[1][1], p[1][2], p[2]>>]
  <2>4. \A p \in T : f[p] \in Q  BY DEF Pairs
  <2>5. \A q \in Q : \E p \in T : f[p] = q
    <3> TAKE q \in Q
    <3>1. /\ q = <<q[1], q[2], q[3]>> /\ q[1] \in States(A) /\ q[2] \in States(B)
          /\ q[3] \in two
      BY DEF Pairs
    <3> DEFINE p == <<<<q[1], q[2]>>, q[3]>>
    <3>2. p \in T  BY <3>1
    <3>3. f[p] = <<q[1], q[2], q[3]>>  BY <3>2
    <3> HIDE DEF p, f, T
    <3> QED  BY <3>1, <3>2, <3>3
  <2>6. f \in Surjection(T, Q) /\ IsFiniteSet(T)
    <3>1. f \in [T -> Q]
      <4> HIDE DEF T, Q
      <4>1. f = [p \in T |-> f[p]]  OBVIOUS
      <4> HIDE DEF f
      <4> QED  BY <2>4, <4>1
    <3> HIDE DEF two
    <3>2. IsFiniteSet(T)  BY <2>1, <2>3, FS_Product
    <3> HIDE DEF f, T, Q
    <3> QED  BY <2>5, <3>1, <3>2 DEF Surjection
  <2> HIDE DEF f, Q, T
  <2> QED  BY <2>6, FS_Surjection
<1>3. S \in SUBSET Q  OBVIOUS
<1>4. \A x \in arrows : x[1] \in Q
  <2> HIDE DEF Q
  <2> QED  OBVIOUS
<1>5. \A q \in Q : \A m \in Matches(A, B, q) : <<q, Joined(A, B, q, m).to>> \in arrows
  <2> HIDE DEF Q
  <2> QED  OBVIOUS
<1> HIDE DEF Q, arrows, S
<1>6. /\ G \in SUBSET Q /\ S \subseteq G
      /\ \A x \in arrows : x[2] \in G => x[1] \in G
  BY <1>2, <1>3, <1>4, LeadingClosed
<1> HIDE DEF G
<1>7. IsFiniteSet(G)  BY <1>2, <1>6, FS_Subset
<1>8. ASSUME NEW q \in Q, NEW m \in Matches(A, B, q), Joined(A, B, q, m).to \in G
      PROVE  q \in G
  <2> DEFINE x == <<q, Joined(A, B, q, m).to>>
  <2>1. x \in arrows /\ x[2] \in G /\ x[1] = q  BY <1>5, <1>8
  <2> HIDE DEF x
  <2> QED  BY <1>6, <2>1
<1> QED  BY <1>1, <1>6, <1>7, <1>8 DEF Q, S

(* The moves of a good state are its matches into good states. *)
LEMMA MovesList ==
    ASSUME NEW A, NEW B, IsAutomaton(A), IsAutomaton(B), NEW q \in Good(A, B)
    PROVE  /\ MovesOf(A, B)[q] \in Seq(GoodMatches(A, B, q)) /\ IsOnce(MovesOf(A, B)[q])
           /\ \A m \in GoodMatches(A, B, q) :
                \E k \in 1..Len(MovesOf(A, B)[q]) : MovesOf(A, B)[q][k] = m
<1> DEFINE S == GoodMatches(A, B, q)
<1>1. q \in Pairs(A, B)  BY GoodStates
<1>2. S \in SUBSET Matches(A, B, q)  BY DEF GoodMatches
<1>3. MovesOf(A, B)[q] = InOrder(S)  BY DEF MovesOf, Moves, GoodMatches
<1> HIDE DEF S
<1>4. S \in SUBSET (Nat \X Nat) /\ IsFiniteSet(S)
  BY <1>1, <1>2, MatchesJoin, FS_Subset
<1> QED  BY <1>3, <1>4, InOrderLists DEF S

(* The states that are left are good, each is there once, and what follows *)
(* one of them is there.                                                   *)
LEMMA ReachedStates ==
    ASSUME NEW A, NEW B, IsAutomaton(A), IsAutomaton(B)
    PROVE  /\ ReachedOf(A, B) \in Seq(Good(A, B)) /\ IsOnce(ReachedOf(A, B))
           /\ First(A, B) \in Good(A, B) =>
                /\ 1 \in 1..Len(ReachedOf(A, B)) /\ ReachedOf(A, B)[1] = First(A, B)
           /\ \A i \in 1..Len(ReachedOf(A, B)) :
                LET q == ReachedOf(A, B)[i]
                IN  \A m \in GoodMatches(A, B, q) :
                      Joined(A, B, q, m).to \in Range(ReachedOf(A, B))
<1> DEFINE G == Good(A, B)
           M == MovesOf(A, B)
           R == ReachedOf(A, B)
           next == [q \in G |-> [k \in 1..Len(M[q]) |-> Joined(A, B, q, M[q][k]).to]]
<1>1. R = IF First(A, B) \notin G THEN <<>> ELSE Found(next, First(A, B))
  BY DEF ReachedOf, Reached, First
<1>2. CASE First(A, B) \notin G
  <2>1. R = <<>>  BY <1>1, <1>2
  <2> QED  BY <1>2, <2>1 DEF IsOnce
<1>3. CASE First(A, B) \in G
  <2>1. R = Found(next, First(A, B))  BY <1>1, <1>3
  <2>2. ASSUME NEW q \in G
        PROVE  /\ next[q] \in Seq(G) /\ Len(next[q]) = Len(M[q])
               /\ \A k \in 1..Len(M[q]) : next[q][k] = Joined(A, B, q, M[q][k]).to
    <3> DEFINE t == [k \in 1..Len(M[q]) |-> Joined(A, B, q, M[q][k]).to]
    <3>1. M[q] \in Seq(GoodMatches(A, B, q))  BY MovesList
    <3>2. \A k \in 1..Len(M[q]) : Joined(A, B, q, M[q][k]).to \in G
      BY <3>1 DEF GoodMatches
    <3>3. Len(M[q]) \in Nat  BY <3>1
    <3>4. t \in [1..Len(M[q]) -> G]
      <4> HIDE DEF G, M
      <4> QED  BY <3>2
    <3>5. next[q] = t  OBVIOUS
    <3>6. \A k \in 1..Len(M[q]) : t[k] = Joined(A, B, q, M[q][k]).to  OBVIOUS
    <3> HIDE DEF t, G, M
    <3>7. t \in Seq(G) /\ Len(t) = Len(M[q])  BY <3>3, <3>4, SeqDef, LenProperties
    <3> QED  BY <3>5, <3>6, <3>7
  <2>3. next \in [G -> Seq(G)]
    <3>1. next = [q \in G |-> next[q]]  OBVIOUS
    <3> HIDE DEF next, G, M
    <3> QED  BY <2>2, <3>1
  <2>4. IsFiniteSet(G)  BY GoodStates
  <2> DEFINE s == First(A, B)
             F == Found(next, s)
  <2>5. s \in G  BY <1>3
  <2> HIDE DEF next, G, s, R
  <2>6. /\ F \in Seq(G) /\ IsOnce(F) /\ 1 \in 1..Len(F) /\ F[1] = s
        /\ \A i \in 1..Len(F) : \A k \in 1..Len(next[F[i]]) : next[F[i]][k] \in Range(F)
    BY <2>3, <2>4, <2>5, FoundSequence
  <2>7. R = F  BY <2>1 DEF s
  <2> HIDE DEF F
  <2>8. ASSUME NEW i \in 1..Len(F), NEW m \in GoodMatches(A, B, F[i])
        PROVE  Joined(A, B, F[i], m).to \in Range(F)
    <3>1. F[i] \in G  BY <2>6
    <3>2. PICK k \in 1..Len(M[F[i]]) : M[F[i]][k] = m  BY <3>1, MovesList DEF G
    <3> HIDE DEF M
    <3>3. next[F[i]][k] = Joined(A, B, F[i], m).to /\ k \in 1..Len(next[F[i]])
      BY <2>2, <3>1, <3>2
    <3> QED  BY <2>6, <3>3
  <2> QED  BY <2>6, <2>7, <2>8 DEF R, G, s
<1> QED  BY <1>2, <1>3

(* Arc k of state n of a composition, and the match it comes from. *)
Origin(A, B, n) == ReachedOf(A, B)[n + 1]
OriginMatch(A, B, n, k) == MovesOf(A, B)[Origin(A, B, n)][k]

(* A composition has the states that are left, and of each the moves. *)
LEMMA ComposeShape ==
    ASSUME NEW A, NEW B, IsAutomaton(A), IsAutomaton(B)
    PROVE  LET C == Compose(A, B)
               R == ReachedOf(A, B)
           IN  /\ C.start = 0 /\ Len(R) \in Nat /\ States(C) = 0..(Len(R) - 1)
               /\ C.final = {n \in States(C) : /\ Origin(A, B, n)[1] \in A.final
                                               /\ Origin(A, B, n)[2] \in B.final}
               /\ \A n \in States(C) :
                    /\ Origin(A, B, n) \in Good(A, B) /\ Origin(A, B, n) \in Pairs(A, B)
                    /\ Len(C.out[n]) = Len(MovesOf(A, B)[Origin(A, B, n)])
                    /\ Len(C.out[n]) \in Nat
                    /\ \A k \in 1..Len(C.out[n]) :
                         LET m == OriginMatch(A, B, n, k)
                             j == Joined(A, B, Origin(A, B, n), m)
                         IN  /\ m \in Matches(A, B, Origin(A, B, n))
                             /\ C.out[n][k] = FstArc(j.in, j.out, j.w, PlaceIn(R, j.to))
                             /\ C.out[n][k].to \in States(C)
                             /\ Origin(A, B, C.out[n][k].to) = j.to
<1> DEFINE C == Compose(A, B)
           R == ReachedOf(A, B)
           M == MovesOf(A, B)
           Out(q) == [k \in 1..Len(M[q]) |->
                        [Joined(A, B, q, M[q][k]) EXCEPT !.to = PlaceIn(R, @)]]
<1>1. C = [start |-> 0,
           final |-> {n \in 0..(Len(R) - 1) : R[n + 1][1] \in A.final
                                              /\ R[n + 1][2] \in B.final},
           out   |-> [n \in 0..(Len(R) - 1) |-> Out(R[n + 1])]]
  BY DEF Compose, ReachedOf, MovesOf
<1>2. R \in Seq(Good(A, B)) /\ Len(R) \in Nat /\ DOMAIN R = 1..Len(R)
  <2>1. R \in Seq(Good(A, B))  BY ReachedStates
  <2> HIDE DEF R
  <2> QED  BY <2>1
<1>3. States(C) = 0..(Len(R) - 1)
  <2> HIDE DEF R, M, Out
  <2> QED  BY <1>1 DEF States
<1>4. /\ C.start = 0
      /\ C.final = {n \in States(C) : R[n + 1][1] \in A.final /\ R[n + 1][2] \in B.final}
      /\ \A n \in States(C) : C.out[n] = Out(R[n + 1])
  <2> HIDE DEF R, M, Out
  <2> QED  BY <1>1, <1>3 DEF States
<1> HIDE DEF C
<1>5. ASSUME NEW n \in States(C)
      PROVE  LET q == R[n + 1]
             IN  /\ q \in Good(A, B) /\ q \in Pairs(A, B)
                 /\ Len(C.out[n]) = Len(M[q]) /\ Len(C.out[n]) \in Nat
                 /\ \A k \in 1..Len(C.out[n]) :
                      LET j == Joined(A, B, q, M[q][k])
                      IN  /\ M[q][k] \in Matches(A, B, q)
                          /\ C.out[n][k] = FstArc(j.in, j.out, j.w, PlaceIn(R, j.to))
                          /\ C.out[n][k].to \in States(C)
                          /\ R[C.out[n][k].to + 1] = j.to
  <2> DEFINE q == R[n + 1]
  <2>1. n + 1 \in 1..Len(R)  BY <1>2, <1>3
  <2>2. q \in Good(A, B)  BY <1>2, <2>1
  <2>3. q \in Pairs(A, B)  BY <2>2, GoodStates
  <2>4. M[q] \in Seq(GoodMatches(A, B, q))  BY <2>2, MovesList
  <2>5. C.out[n] = Out(q)  BY <1>4
  <2>6. \A m \in GoodMatches(A, B, q) : Joined(A, B, q, m).to \in Range(R)
    BY <2>1, ReachedStates
  <2> HIDE DEF q, R, M
  <2>7. Len(M[q]) \in Nat /\ \A k \in 1..Len(M[q]) : M[q][k] \in GoodMatches(A, B, q)
    BY <2>4
  <2>8. Len(C.out[n]) = Len(M[q])
    <3> DEFINE L == Len(M[q])
               f(k) == [Joined(A, B, q, M[q][k]) EXCEPT !.to = PlaceIn(R, @)]
    <3>1. Out(q) = [k \in 1..L |-> f(k)]  OBVIOUS
    <3>2. L \in Nat  BY <2>7
    <3> HIDE DEF L, f
    <3>3. Len([k \in 1..L |-> f(k)]) = L  BY <3>2
    <3> QED  BY <2>5, <3>1, <3>3 DEF L
  <2>9. ASSUME NEW k \in 1..Len(M[q])
        PROVE  LET j == Joined(A, B, q, M[q][k])
               IN  /\ M[q][k] \in Matches(A, B, q)
                   /\ C.out[n][k] = FstArc(j.in, j.out, j.w, PlaceIn(R, j.to))
                   /\ C.out[n][k].to \in States(C)
                   /\ R[C.out[n][k].to + 1] = j.to
    <3> DEFINE j == Joined(A, B, q, M[q][k])
    <3>1. M[q][k] \in Matches(A, B, q) /\ j.to \in Range(R)
      BY <2>6, <2>7 DEF GoodMatches
    <3>2. C.out[n][k] = [j EXCEPT !.to = PlaceIn(R, @)]  BY <2>5
    <3>3. j = FstArc(j.in, j.out, j.w, j.to)  BY DEF Joined, FstArc
    <3> HIDE DEF j, Out
    <3>4. C.out[n][k] = FstArc(j.in, j.out, j.w, PlaceIn(R, j.to))
      BY <3>2, <3>3 DEF FstArc
    <3>5. PICK i \in 1..Len(R) : R[i] = j.to  BY <1>2, <3>1 DEF Range
    <3>6. i - 1 \in 0..(Len(R) - 1) /\ (i - 1) + 1 = i  BY <1>2
    <3>7. \E p \in 0..(Len(R) - 1) : R[p + 1] = j.to  BY <3>5, <3>6
    <3>8. PlaceIn(R, j.to) \in 0..(Len(R) - 1) /\ R[PlaceIn(R, j.to) + 1] = j.to
      BY <3>7 DEF PlaceIn
    <3>9. C.out[n][k].to = PlaceIn(R, j.to)  BY <3>4 DEF FstArc
    <3> QED  BY <1>3, <3>1, <3>4, <3>8, <3>9 DEF j
  <2> QED  BY <2>2, <2>3, <2>7, <2>8, <2>9 DEF q
<1> QED  BY <1>2, <1>3, <1>4, <1>5 DEF Origin, OriginMatch, C, R, M

(* A composition is an automaton again. *)
LEMMA ComposeAutomaton ==
    ASSUME NEW A, NEW B, IsAutomaton(A), IsAutomaton(B)
    PROVE  IsAutomaton(Compose(A, B))
<1> DEFINE C == Compose(A, B)
           L == Len(ReachedOf(A, B))
<1>1. /\ L \in Nat /\ States(C) = 0..(L - 1)
      /\ \A n \in States(C) :
           /\ Len(C.out[n]) \in Nat
           /\ \A k \in 1..Len(C.out[n]) : C.out[n][k].to \in States(C)
  BY ComposeShape
<1>2. IsFiniteSet(States(C))
  <2> HIDE DEF C, L
  <2>1. 0 \in Int /\ L - 1 \in Int  BY <1>1
  <2>2. IsFiniteSet(0..(L - 1))  BY <2>1, FS_Interval
  <2> QED  BY <1>1, <2>2
<1> QED  BY <1>1, <1>2 DEF IsAutomaton

-----------------------------------------------------------------------------
(* Automata that differ in their weights alone.                            *)

SameArc(x, y) == x.in = y.in /\ x.out = y.out /\ x.to = y.to

Alike(A, B) ==
    /\ A.start = B.start /\ A.final = B.final /\ States(A) = States(B)
    /\ \A s \in States(A) :
         /\ Len(A.out[s]) = Len(B.out[s])
         /\ \A k \in 1..Len(A.out[s]) : SameArc(A.out[s][k], B.out[s][k])

(* They match alike, and what they join leads to the same states. *)
LEMMA JoinedAlike ==
    ASSUME NEW A, NEW B, NEW A2, NEW B2, Alike(A, A2), Alike(B, B2),
           IsAutomaton(A), IsAutomaton(B), NEW q \in Pairs(A, B)
    PROVE  /\ Matches(A2, B2, q) = Matches(A, B, q)
           /\ \A m \in Matches(A, B, q) :
                SameArc(Joined(A, B, q, m), Joined(A2, B2, q, m))
<1> DEFINE xs == A.out[q[1]]
           zs == B.out[q[2]]
           xs2 == A2.out[q[1]]
           zs2 == B2.out[q[2]]
<1>1. q[1] \in States(A) /\ q[2] \in States(B)  BY DEF Pairs
<1>2. Len(xs) \in Nat /\ Len(zs) \in Nat  BY <1>1 DEF IsAutomaton
<1>3. /\ Len(xs2) = Len(xs) /\ Len(zs2) = Len(zs)
      /\ \A k \in 1..Len(xs) : SameArc(xs[k], xs2[k])
      /\ \A k \in 1..Len(zs) : SameArc(zs[k], zs2[k])
  BY <1>1 DEF Alike
<1> DEFINE Fit(x, z, m) ==
             \/ m[1] = 0 /\ m[2] # 0 /\ z[m[2]].in = Eps
             \/ m[1] # 0 /\ m[2] # 0 /\ x[m[1]].out # Eps /\ z[m[2]].in = x[m[1]].out
             \/ m[1] # 0 /\ m[2] = 0 /\ x[m[1]].out = Eps /\ q[3] = 0
<1>4. /\ Matches(A, B, q) = {m \in (0..Len(xs)) \X (0..Len(zs)) : Fit(xs, zs, m)}
      /\ Matches(A2, B2, q) = {m \in (0..Len(xs2)) \X (0..Len(zs2)) : Fit(xs2, zs2, m)}
  BY DEF Matches
<1>5. ASSUME NEW m \in (0..Len(xs)) \X (0..Len(zs))
      PROVE  /\ m[1] # 0 => m[1] \in 1..Len(xs)
             /\ m[2] # 0 => m[2] \in 1..Len(zs)
  <2> HIDE DEF xs, zs
  <2> QED  BY <1>2
<1>6. Matches(A2, B2, q) = Matches(A, B, q)
  <2> HIDE DEF xs, zs, xs2, zs2
  <2>1. ASSUME NEW m \in (0..Len(xs)) \X (0..Len(zs))
        PROVE  Fit(xs, zs, m) <=> Fit(xs2, zs2, m)
    BY <1>3, <1>5 DEF SameArc
  <2> HIDE DEF Fit
  <2> QED  BY <1>3, <1>4, <2>1
<1>7. ASSUME NEW m \in Matches(A, B, q)
      PROVE  SameArc(Joined(A, B, q, m), Joined(A2, B2, q, m))
  <2>1. m \in (0..Len(xs)) \X (0..Len(zs))  BY <1>4
  <2>2. /\ m[1] # 0 => SameArc(xs[m[1]], xs2[m[1]])
        /\ m[2] # 0 => SameArc(zs[m[2]], zs2[m[2]])
    <3> HIDE DEF xs, zs, xs2, zs2
    <3> QED  BY <1>3, <1>5, <2>1
  <2>3. (\E n \in 1..Len(xs) : xs[n].out = Eps) <=> (\E n \in 1..Len(xs2) : xs2[n].out = Eps)
    <3> HIDE DEF xs, zs, xs2, zs2
    <3> QED  BY <1>3 DEF SameArc
  <2> DEFINE lone  == m[1] = 0 /\ \E n \in 1..Len(xs) : xs[n].out = Eps
             lone2 == m[1] = 0 /\ \E n \in 1..Len(xs2) : xs2[n].out = Eps
             f  == IF lone THEN 1 ELSE 0
             f2 == IF lone2 THEN 1 ELSE 0
             x  == IF m[1] = 0 THEN FstArc(Eps, Eps, One, q[1]) ELSE xs[m[1]]
             x2 == IF m[1] = 0 THEN FstArc(Eps, Eps, One, q[1]) ELSE xs2[m[1]]
             z  == IF m[2] = 0 THEN FstArc(Eps, Eps, One, q[2]) ELSE zs[m[2]]
             z2 == IF m[2] = 0 THEN FstArc(Eps, Eps, One, q[2]) ELSE zs2[m[2]]
  <2>4. f = f2  BY <2>3
  <2>5. SameArc(x, x2) /\ SameArc(z, z2)  BY <2>2 DEF SameArc
  <2>6. /\ Joined(A, B, q, m) = FstArc(x.in, z.out, Times(x.w, z.w), <<x.to, z.to, f>>)
        /\ Joined(A2, B2, q, m)
             = FstArc(x2.in, z2.out, Times(x2.w, z2.w), <<x2.to, z2.to, f2>>)
    BY DEF Joined
  <2> HIDE DEF x, x2, z, z2, f, f2
  <2> QED  BY <2>4, <2>5, <2>6 DEF SameArc, FstArc
<1> QED  BY <1>6, <1>7

(* Their compositions have the same states in the same order, with moves that *)
(* come from the same matches.                                                *)
LEMMA ComposeAlike ==
    ASSUME NEW A, NEW B, NEW A2, NEW B2, Alike(A, A2), Alike(B, B2),
           IsAutomaton(A), IsAutomaton(B), IsAutomaton(A2), IsAutomaton(B2)
    PROVE  /\ Good(A2, B2) = Good(A, B)
           /\ MovesOf(A2, B2) = MovesOf(A, B)
           /\ ReachedOf(A2, B2) = ReachedOf(A, B)
           /\ Alike(Compose(A, B), Compose(A2, B2))
<1> DEFINE Q == Pairs(A, B)
           To(q, m) == Joined(A, B, q, m).to
           To2(q, m) == Joined(A2, B2, q, m).to
<1>1. Pairs(A2, B2) = Q  BY DEF Pairs, Alike
<1>2. \A q \in Q : /\ Matches(A2, B2, q) = Matches(A, B, q)
                   /\ \A m \in Matches(A, B, q) :
                        SameArc(Joined(A, B, q, m), Joined(A2, B2, q, m))
  BY JoinedAlike
<1>3. \A q \in Q : \A m \in Matches(A, B, q) : To2(q, m) = To(q, m)
  BY <1>2 DEF SameArc
<1>4. Good(A2, B2) = Good(A, B)
  <2> DEFINE arrows == UNION {{<<q, To(q, m)>> : m \in Matches(A, B, q)} : q \in Q}
             arrows2 == UNION {{<<q, To2(q, m)>> : m \in Matches(A2, B2, q)} : q \in Q}
             S == {q \in Q : q[1] \in A.final /\ q[2] \in B.final}
             S2 == {q \in Q : q[1] \in A2.final /\ q[2] \in B2.final}
  <2>1. arrows = arrows2
    <3> DEFINE Row(q) == {<<q, To(q, m)>> : m \in Matches(A, B, q)}
               Row2(q) == {<<q, To2(q, m)>> : m \in Matches(A2, B2, q)}
    <3>1. \A q \in Q : Row(q) = Row2(q)
      <4> HIDE DEF To, To2, Q
      <4> QED  BY <1>2, <1>3
    <3>2. UNION {Row(q) : q \in Q} = UNION {Row2(q) : q \in Q}
      <4> HIDE DEF Row, Row2, Q
      <4> QED  BY <3>1
    <3> QED  BY <3>2
  <2>2. S = S2  BY DEF Alike
  <2>3. Good(A, B) = Leading(Q, arrows, S)  BY DEF Good
  <2>4. Good(A2, B2) = Leading(Q, arrows2, S2)
    <3> HIDE DEF Q
    <3> QED  BY <1>1 DEF Good
  <2> HIDE DEF arrows, arrows2, S, S2, Q
  <2> QED  BY <2>1, <2>2, <2>3, <2>4
<1> DEFINE G == Good(A, B)
           M == MovesOf(A, B)
           R == ReachedOf(A, B)
<1>5. G \in SUBSET Q  BY GoodStates
<1>6. \A q \in G : GoodMatches(A2, B2, q) = GoodMatches(A, B, q)
  <2> TAKE q \in G
  <2>1. /\ GoodMatches(A, B, q) = {m \in Matches(A, B, q) : To(q, m) \in G}
        /\ GoodMatches(A2, B2, q) = {m \in Matches(A2, B2, q) : To2(q, m) \in G}
    BY <1>4 DEF GoodMatches
  <2>2. q \in Q  BY <1>5
  <2> HIDE DEF To, To2, G, Q
  <2> QED  BY <1>2, <1>3, <2>1, <2>2
<1>7. MovesOf(A2, B2) = M
  <2>1. /\ M = [q \in G |-> InOrder(GoodMatches(A, B, q))]
        /\ MovesOf(A2, B2) = [q \in G |-> InOrder(GoodMatches(A2, B2, q))]
    BY <1>4 DEF MovesOf, Moves, GoodMatches
  <2> HIDE DEF M, G
  <2> QED  BY <1>6, <2>1
<1>8. ReachedOf(A2, B2) = R
  <2> DEFINE Follow(q) == [k \in 1..Len(M[q]) |-> To(q, M[q][k])]
             Follow2(q) == [k \in 1..Len(M[q]) |-> To2(q, M[q][k])]
             next == [q \in G |-> Follow(q)]
             next2 == [q \in G |-> Follow2(q)]
  <2>1. ASSUME NEW q \in G PROVE Follow(q) = Follow2(q)
    <3>1. M[q] \in Seq(GoodMatches(A, B, q))  BY MovesList
    <3>2. \A k \in 1..Len(M[q]) : M[q][k] \in Matches(A, B, q)
      <4> HIDE DEF M
      <4> QED  BY <3>1 DEF GoodMatches
    <3>3. q \in Q  BY <1>5
    <3>4. \A k \in 1..Len(M[q]) : To(q, M[q][k]) = To2(q, M[q][k])
      <4> HIDE DEF M, Q, To, To2
      <4> QED  BY <1>3, <3>2, <3>3
    <3> HIDE DEF M, To, To2
    <3> QED  BY <3>4
  <2>2. next = next2
    <3> HIDE DEF Follow, Follow2, G
    <3> QED  BY <2>1
  <2>3. First(A2, B2) = First(A, B)  BY DEF First, Alike
  <2>4. R = IF First(A, B) \notin G THEN <<>> ELSE Found(next, First(A, B))
    BY DEF ReachedOf, Reached, First
  <2>5. ReachedOf(A2, B2)
          = IF First(A2, B2) \notin G THEN <<>> ELSE Found(next2, First(A2, B2))
    BY <1>4, <1>7 DEF ReachedOf, Reached, First
  <2> HIDE DEF next, next2, G, R
  <2> QED  BY <2>2, <2>3, <2>4, <2>5
<1> DEFINE C == Compose(A, B)
           C2 == Compose(A2, B2)
<1>9. States(C) = States(C2) /\ C.start = C2.start
  BY <1>8, ComposeShape
<1>10. \A n \in States(C) : Origin(A2, B2, n) = Origin(A, B, n)
  BY <1>8 DEF Origin
<1>11. C.final = C2.final
  <2>1. /\ C.final = {n \in States(C) : /\ Origin(A, B, n)[1] \in A.final
                                        /\ Origin(A, B, n)[2] \in B.final}
        /\ C2.final = {n \in States(C2) : /\ Origin(A2, B2, n)[1] \in A2.final
                                          /\ Origin(A2, B2, n)[2] \in B2.final}
    BY ComposeShape
  <2>2. A.final = A2.final /\ B.final = B2.final  BY DEF Alike
  <2> HIDE DEF C, C2
  <2> QED  BY <1>9, <1>10, <2>1, <2>2
<1>12. ASSUME NEW n \in States(C)
       PROVE  /\ Len(C.out[n]) = Len(C2.out[n])
              /\ \A k \in 1..Len(C.out[n]) : SameArc(C.out[n][k], C2.out[n][k])
  <2>1. n \in States(C2)  BY <1>9
  <2> DEFINE q == Origin(A, B, n)
  <2>2. /\ q \in Q /\ Len(C.out[n]) = Len(M[q])
        /\ \A k \in 1..Len(C.out[n]) :
             LET j == Joined(A, B, q, M[q][k])
             IN  /\ M[q][k] \in Matches(A, B, q)
                 /\ C.out[n][k] = FstArc(j.in, j.out, j.w, PlaceIn(R, j.to))
    BY ComposeShape DEF OriginMatch
  <2>3. /\ Len(C2.out[n]) = Len(M[q])
        /\ \A k \in 1..Len(C2.out[n]) :
             LET j == Joined(A2, B2, q, M[q][k])
             IN  C2.out[n][k] = FstArc(j.in, j.out, j.w, PlaceIn(R, j.to))
    BY <1>7, <1>8, <1>10, <2>1, ComposeShape DEF OriginMatch
  <2> HIDE DEF q, C, C2, M, R, Q
  <2>4. ASSUME NEW k \in 1..Len(C.out[n]) PROVE SameArc(C.out[n][k], C2.out[n][k])
    <3> DEFINE j == Joined(A, B, q, M[q][k])
               j2 == Joined(A2, B2, q, M[q][k])
    <3>1. /\ C.out[n][k] = FstArc(j.in, j.out, j.w, PlaceIn(R, j.to))
          /\ M[q][k] \in Matches(A, B, q)
      BY <2>2
    <3>2. C2.out[n][k] = FstArc(j2.in, j2.out, j2.w, PlaceIn(R, j2.to))
      BY <2>2, <2>3
    <3>3. SameArc(j, j2)  BY <1>2, <2>2, <3>1
    <3> HIDE DEF j, j2
    <3> QED  BY <3>1, <3>2, <3>3 DEF SameArc, FstArc
  <2> QED  BY <2>2, <2>3, <2>4
<1>13. Alike(C, C2)  BY <1>9, <1>11, <1>12 DEF Alike
<1> QED  BY <1>4, <1>7, <1>8, <1>13

-----------------------------------------------------------------------------
(* Chains, and the composition of an automaton with a chain on either side. *)

LEMMA ChainShape ==
    ASSUME NEW D, NEW u \in Seq(D)
    PROVE  /\ IsAutomaton(Chain(u)) /\ States(Chain(u)) = 0..Len(u)
           /\ Chain(u).start = 0 /\ Chain(u).final = {Len(u)}
           /\ \A i \in 0..Len(u) : Len(Chain(u).out[i]) = IF i < Len(u) THEN 1 ELSE 0
           /\ \A i \in 0..(Len(u) - 1) :
                Chain(u).out[i][1] = FstArc(u[i + 1], u[i + 1], One, i + 1)
<1> DEFINE L == Len(u)
           Out(q) == IF q < L THEN <<FstArc(u[q + 1], u[q + 1], One, q + 1)>> ELSE <<>>
           A == Chain(u)
<1>1. L \in Nat  OBVIOUS
<1>2. /\ A.start = 0 /\ A.final = {L} /\ A.out = [q \in 0..L |-> Out(q)]
  BY DEF Chain
<1>3. States(A) = 0..L
  <2> HIDE DEF A, Out, L
  <2> QED  BY <1>2 DEF States
<1>4. \A i \in 0..L : A.out[i] = Out(i)
  <2> HIDE DEF A, Out
  <2> QED  BY <1>2
<1>5. ASSUME NEW i \in 0..L
      PROVE  /\ Len(A.out[i]) = IF i < L THEN 1 ELSE 0
             /\ i < L => A.out[i][1] = FstArc(u[i + 1], u[i + 1], One, i + 1)
  <2> DEFINE e == FstArc(u[i + 1], u[i + 1], One, i + 1)
  <2>1. Out(i) = IF i < L THEN <<e>> ELSE <<>>  OBVIOUS
  <2>2. A.out[i] = IF i < L THEN <<e>> ELSE <<>>
    <3> HIDE DEF A, Out, e, L
    <3> QED  BY <1>4, <2>1
  <2> HIDE DEF A, Out, e, L
  <2>3. CASE i < L
    <3>1. A.out[i] = <<e>>  BY <2>2, <2>3
    <3>2. Len(A.out[i]) = 1 /\ A.out[i][1] = e  BY <3>1
    <3> QED  BY <2>3, <3>2 DEF e
  <2>4. CASE ~(i < L)
    <3>1. A.out[i] = <<>>  BY <2>2, <2>4
    <3> QED  BY <2>4, <3>1
  <2> QED  BY <2>3, <2>4
<1>6. IsFiniteSet(0..L)
  <2> HIDE DEF L
  <2>1. 0 \in Int /\ L \in Int  BY <1>1
  <2> QED  BY <2>1, FS_Interval
<1>7. ASSUME NEW i \in 0..L
      PROVE  /\ Len(A.out[i]) \in Nat
             /\ \A k \in 1..Len(A.out[i]) : A.out[i][k].to \in 0..L
  <2> HIDE DEF A, L
  <2>1. CASE i < L
    <3>1. Len(A.out[i]) = 1 /\ A.out[i][1] = FstArc(u[i + 1], u[i + 1], One, i + 1)
      BY <1>5, <2>1
    <3>2. A.out[i][1].to = i + 1 /\ i + 1 \in 0..L
      BY <1>1, <2>1, <3>1 DEF FstArc
    <3>3. \A k \in 1..1 : k = 1  OBVIOUS
    <3> QED  BY <3>1, <3>2, <3>3
  <2>2. CASE ~(i < L)
    <3>1. Len(A.out[i]) = 0  BY <1>5, <2>2
    <3>2. \A k \in 1..0 : FALSE  OBVIOUS
    <3> QED  BY <3>1, <3>2
  <2> QED  BY <2>1, <2>2
<1>8. IsAutomaton(A)
  <2> HIDE DEF A, L
  <2> QED  BY <1>3, <1>6, <1>7 DEF IsAutomaton
<1>9. \A i \in 0..(L - 1) : i \in 0..L /\ i < L  BY <1>1
<1> QED  BY <1>2, <1>3, <1>5, <1>8, <1>9

(* A chain to the left: each move takes one arc of M, with its labels, and   *)
(* goes on along the chain if the arc reads.                                 *)
LEMMA ChainFirst ==
    ASSUME NEW D, NEW u \in Seq(D), Eps \notin D, NEW M, IsAutomaton(M),
           NEW q \in Pairs(Chain(u), M)
    PROVE  /\ \A m \in Matches(Chain(u), M, q) :
                /\ m[1] \in {0, 1} /\ m[2] \in 1..Len(M.out[q[2]])
                /\ LET e == M.out[q[2]][m[2]]
                   IN  Joined(Chain(u), M, q, m)
                         = FstArc(e.in, e.out, Times(One, e.w), <<q[1] + m[1], e.to, 0>>)
           /\ \A k \in 1..Len(M.out[q[2]]) :
                /\ M.out[q[2]][k].in = Eps => << 0, k >> \in Matches(Chain(u), M, q)
                /\ q[1] < Len(u) /\ u[q[1] + 1] = M.out[q[2]][k].in
                     => << 1, k >> \in Matches(Chain(u), M, q)
<1> DEFINE A == Chain(u)
           i == q[1]
           xs == A.out[i]
           zs == M.out[q[2]]
<1>1. i \in 0..Len(u) /\ q[2] \in States(M) /\ Len(u) \in Nat
  BY ChainShape DEF Pairs
<1>2. Len(zs) \in Nat  BY <1>1 DEF IsAutomaton
<1>3. /\ Len(xs) = IF i < Len(u) THEN 1 ELSE 0
      /\ i < Len(u) => xs[1] = FstArc(u[i + 1], u[i + 1], One, i + 1) /\ u[i + 1] # Eps
  <2>1. i < Len(u) => i \in 0..(Len(u) - 1) /\ u[i + 1] \in D  BY <1>1
  <2> QED  BY <1>1, <2>1, ChainShape
<1>4. Matches(A, M, q) =
        {m \in (0..Len(xs)) \X (0..Len(zs)) :
           \/ m[1] = 0 /\ m[2] # 0 /\ zs[m[2]].in = Eps
           \/ m[1] # 0 /\ m[2] # 0 /\ xs[m[1]].out # Eps /\ zs[m[2]].in = xs[m[1]].out
           \/ m[1] # 0 /\ m[2] = 0 /\ xs[m[1]].out = Eps /\ q[3] = 0}
  BY DEF Matches
<1>5. \A n \in 1..Len(xs) : n = 1 /\ i < Len(u) /\ xs[n].out # Eps
  <2> HIDE DEF xs, i
  <2> QED  BY <1>1, <1>3 DEF FstArc
<1>6. ASSUME NEW m \in Matches(A, M, q)
      PROVE  /\ m[1] \in {0, 1} /\ m[2] \in 1..Len(zs)
             /\ LET e == zs[m[2]]
                IN  Joined(A, M, q, m)
                      = FstArc(e.in, e.out, Times(One, e.w), <<i + m[1], e.to, 0>>)
  <2>1. /\ m[1] \in 0..Len(xs) /\ m[2] \in 0..Len(zs)
        /\ \/ m[1] = 0 /\ m[2] # 0 /\ zs[m[2]].in = Eps
           \/ m[1] # 0 /\ m[2] # 0 /\ xs[m[1]].out # Eps /\ zs[m[2]].in = xs[m[1]].out
           \/ m[1] # 0 /\ m[2] = 0 /\ xs[m[1]].out = Eps /\ q[3] = 0
    <3> HIDE DEF xs, zs, A
    <3> QED  BY <1>4
  <2>2. m[1] # 0 => m[1] \in 1..Len(xs)
    <3> HIDE DEF xs, i
    <3> QED  BY <1>3, <2>1
  <2>3. m[1] # 0 => m[1] = 1 /\ i < Len(u) /\ xs[1].out # Eps
    <3> HIDE DEF xs, i
    <3> QED  BY <1>5, <2>2
  <2>4. m[2] # 0 /\ m[2] \in 1..Len(zs)
    <3> HIDE DEF xs, i, zs
    <3> QED  BY <1>2, <2>1, <2>3
  <2>5. ~(m[1] = 0 /\ \E n \in 1..Len(xs) : xs[n].out = Eps)
    <3> HIDE DEF xs, i, zs
    <3> QED  BY <1>5
  <2> DEFINE e == zs[m[2]]
             x == IF m[1] = 0 THEN FstArc(Eps, Eps, One, i) ELSE xs[m[1]]
  <2>6. Joined(A, M, q, m) = FstArc(x.in, e.out, Times(x.w, e.w), <<x.to, e.to, 0>>)
    BY <2>4, <2>5 DEF Joined
  <2>7. x.in = e.in /\ x.w = One /\ x.to = i + m[1]
    <3> HIDE DEF xs, i, zs
    <3>1. CASE m[1] = 0
      <4>1. e.in = Eps  BY <2>1, <3>1
      <4>2. x = FstArc(Eps, Eps, One, i)  BY <3>1
      <4>3. i + m[1] = i  BY <1>1, <3>1
      <4> HIDE DEF x
      <4> QED  BY <4>1, <4>2, <4>3 DEF FstArc
    <3>2. CASE m[1] # 0
      <4>1. x = FstArc(u[i + 1], u[i + 1], One, i + 1) /\ m[1] = 1
        BY <1>3, <2>3, <3>2
      <4>2. e.in = xs[1].out  BY <2>1, <2>3, <2>4, <3>2
      <4>3. xs[1].out = u[i + 1]  BY <1>3, <2>3, <3>2 DEF FstArc
      <4> HIDE DEF x
      <4> QED  BY <4>1, <4>2, <4>3 DEF FstArc
    <3> QED  BY <3>1, <3>2
  <2> HIDE DEF x, e, zs, xs, A
  <2> QED  BY <2>3, <2>4, <2>6, <2>7 DEF e
<1>7. ASSUME NEW k \in 1..Len(zs)
      PROVE  /\ zs[k].in = Eps => << 0, k >> \in Matches(A, M, q)
             /\ i < Len(u) /\ u[i + 1] = zs[k].in => << 1, k >> \in Matches(A, M, q)
  <2>1. k \in 0..Len(zs) /\ k # 0 /\ 0 \in 0..Len(xs)
    <3> HIDE DEF xs, i, zs
    <3> QED  BY <1>1, <1>2, <1>3
  <2>2. ASSUME zs[k].in = Eps PROVE << 0, k >> \in Matches(A, M, q)
    <3> HIDE DEF xs, i, zs, A
    <3> QED  BY <1>4, <2>1, <2>2
  <2>3. ASSUME i < Len(u), u[i + 1] = zs[k].in PROVE << 1, k >> \in Matches(A, M, q)
    <3>1. 1 \in 0..Len(xs) /\ xs[1].out = u[i + 1] /\ u[i + 1] # Eps
      <4> HIDE DEF xs, i, zs, A
      <4> QED  BY <1>3, <2>3 DEF FstArc
    <3> HIDE DEF xs, i, zs, A
    <3> QED  BY <1>4, <2>1, <2>3, <3>1
  <2> QED  BY <2>2, <2>3
<1> QED  BY <1>6, <1>7

(* A chain to the right: each move takes one arc of C, with its labels, and  *)
(* goes on along the chain if the arc writes.                                *)
LEMMA ChainSecond ==
    ASSUME NEW D, NEW v \in Seq(D), Eps \notin D, NEW C, IsAutomaton(C),
           NEW q \in Pairs(C, Chain(v))
    PROVE  /\ \A m \in Matches(C, Chain(v), q) :
                /\ m[1] \in 1..Len(C.out[q[1]]) /\ m[2] \in {0, 1}
                /\ LET e == C.out[q[1]][m[1]]
                   IN  Joined(C, Chain(v), q, m)
                         = FstArc(e.in, e.out, Times(e.w, One), <<e.to, q[2] + m[2], 0>>)
           /\ \A k \in 1..Len(C.out[q[1]]) :
                /\ C.out[q[1]][k].out = Eps /\ q[3] = 0
                     => << k, 0 >> \in Matches(C, Chain(v), q)
                /\ q[2] < Len(v) /\ v[q[2] + 1] = C.out[q[1]][k].out
                     => << k, 1 >> \in Matches(C, Chain(v), q)
<1> DEFINE B == Chain(v)
           j == q[2]
           xs == C.out[q[1]]
           zs == B.out[j]
<1>1. j \in 0..Len(v) /\ q[1] \in States(C) /\ Len(v) \in Nat
  BY ChainShape DEF Pairs
<1>2. Len(xs) \in Nat  BY <1>1 DEF IsAutomaton
<1>3. /\ Len(zs) = IF j < Len(v) THEN 1 ELSE 0
      /\ j < Len(v) => zs[1] = FstArc(v[j + 1], v[j + 1], One, j + 1) /\ v[j + 1] # Eps
  <2>1. j < Len(v) => j \in 0..(Len(v) - 1) /\ v[j + 1] \in D  BY <1>1
  <2> QED  BY <1>1, <2>1, ChainShape
<1>4. Matches(C, B, q) =
        {m \in (0..Len(xs)) \X (0..Len(zs)) :
           \/ m[1] = 0 /\ m[2] # 0 /\ zs[m[2]].in = Eps
           \/ m[1] # 0 /\ m[2] # 0 /\ xs[m[1]].out # Eps /\ zs[m[2]].in = xs[m[1]].out
           \/ m[1] # 0 /\ m[2] = 0 /\ xs[m[1]].out = Eps /\ q[3] = 0}
  BY DEF Matches
<1>5. \A n \in 1..Len(zs) : n = 1 /\ j < Len(v) /\ zs[n].in # Eps
  <2> HIDE DEF zs, j
  <2> QED  BY <1>1, <1>3 DEF FstArc
<1>6. ASSUME NEW m \in Matches(C, B, q)
      PROVE  /\ m[1] \in 1..Len(xs) /\ m[2] \in {0, 1}
             /\ LET e == xs[m[1]]
                IN  Joined(C, B, q, m)
                      = FstArc(e.in, e.out, Times(e.w, One), <<e.to, j + m[2], 0>>)
  <2>1. /\ m[1] \in 0..Len(xs) /\ m[2] \in 0..Len(zs)
        /\ \/ m[1] = 0 /\ m[2] # 0 /\ zs[m[2]].in = Eps
           \/ m[1] # 0 /\ m[2] # 0 /\ xs[m[1]].out # Eps /\ zs[m[2]].in = xs[m[1]].out
           \/ m[1] # 0 /\ m[2] = 0 /\ xs[m[1]].out = Eps /\ q[3] = 0
    <3> HIDE DEF xs, zs, B
    <3> QED  BY <1>4
  <2>2. m[2] # 0 => m[2] \in 1..Len(zs)
    <3> HIDE DEF zs, j
    <3> QED  BY <1>3, <2>1
  <2>3. m[2] # 0 => m[2] = 1 /\ j < Len(v) /\ zs[1].in # Eps
    <3> HIDE DEF zs, j
    <3> QED  BY <1>5, <2>2
  <2>4. m[1] # 0 /\ m[1] \in 1..Len(xs)
    <3> HIDE DEF xs, j, zs
    <3> QED  BY <1>2, <2>1, <2>3
  <2> DEFINE e == xs[m[1]]
             z == IF m[2] = 0 THEN FstArc(Eps, Eps, One, j) ELSE zs[m[2]]
  <2>5. Joined(C, B, q, m) = FstArc(e.in, z.out, Times(e.w, z.w), <<e.to, z.to, 0>>)
    BY <2>4 DEF Joined
  <2>6. z.out = e.out /\ z.w = One /\ z.to = j + m[2]
    <3> HIDE DEF xs, j, zs
    <3>1. CASE m[2] = 0
      <4>1. e.out = Eps  BY <2>1, <2>4, <3>1
      <4>2. z = FstArc(Eps, Eps, One, j)  BY <3>1
      <4>3. j + m[2] = j  BY <1>1, <3>1
      <4> HIDE DEF z
      <4> QED  BY <4>1, <4>2, <4>3 DEF FstArc
    <3>2. CASE m[2] # 0
      <4>1. z = FstArc(v[j + 1], v[j + 1], One, j + 1) /\ m[2] = 1
        BY <1>3, <2>3, <3>2
      <4>2. e.out = zs[1].in  BY <2>1, <2>3, <2>4, <3>2
      <4>3. zs[1].in = v[j + 1]  BY <1>3, <2>3, <3>2 DEF FstArc
      <4> HIDE DEF z
      <4> QED  BY <4>1, <4>2, <4>3 DEF FstArc
    <3> QED  BY <3>1, <3>2
  <2> HIDE DEF z, e, zs, xs, B
  <2> QED  BY <2>3, <2>4, <2>5, <2>6 DEF e
<1>7. ASSUME NEW k \in 1..Len(xs)
      PROVE  /\ xs[k].out = Eps /\ q[3] = 0 => << k, 0 >> \in Matches(C, B, q)
             /\ j < Len(v) /\ v[j + 1] = xs[k].out => << k, 1 >> \in Matches(C, B, q)
  <2>1. k \in 0..Len(xs) /\ k # 0 /\ 0 \in 0..Len(zs)
    <3> HIDE DEF xs, j, zs
    <3> QED  BY <1>1, <1>2, <1>3
  <2>2. ASSUME xs[k].out = Eps, q[3] = 0 PROVE << k, 0 >> \in Matches(C, B, q)
    <3> HIDE DEF xs, j, zs, B
    <3> QED  BY <1>4, <2>1, <2>2
  <2>3. ASSUME j < Len(v), v[j + 1] = xs[k].out PROVE << k, 1 >> \in Matches(C, B, q)
    <3>1. 1 \in 0..Len(zs) /\ zs[1].in = v[j + 1] /\ v[j + 1] # Eps
      <4> HIDE DEF xs, j, zs, B
      <4> QED  BY <1>3, <2>3 DEF FstArc
    <3> HIDE DEF xs, j, zs, B
    <3> QED  BY <1>4, <2>1, <2>3, <3>1
  <2> QED  BY <2>2, <2>3
<1> QED  BY <1>6, <1>7

(* A weight is not changed by the weights 1 of the chains; nor is the number *)
(* it carries, if the weight itself is 1.                                    *)
LEMMA TimesOne ==
    ASSUME NEW w
    PROVE  /\ Times(Times(One, w), One).p = w.p
           /\ w.p = <<1, 1>> => Times(Times(One, w), One).r = w.r
<1> DEFINE one == <<1, 1>>
           zero == <<0, 1>>
<1>1. \A x : Product(one, x) = x /\ Product(x, one) = x  BY DEF Product
<1>2. \A x : Sum(x, zero) = x /\ Sum(zero, x) = x  BY DEF Sum
<1>3. One.p = one /\ One.r = zero  BY DEF One
<1>4. /\ Times(One, w).p = Product(One.p, w.p)
      /\ Times(One, w).r = Sum(Product(One.p, w.r), Product(w.p, One.r))
  BY DEF Times
<1> DEFINE x == Times(One, w)
<1>5. /\ Times(x, One).p = Product(x.p, One.p)
      /\ Times(x, One).r = Sum(Product(x.p, One.r), Product(One.p, x.r))
  BY DEF Times
<1> HIDE DEF x, one, zero
<1>6. x.p = w.p  BY <1>1, <1>3, <1>4 DEF x
<1>7. Times(x, One).p = w.p  BY <1>1, <1>3, <1>5, <1>6
<1>8. ASSUME w.p = one PROVE Times(x, One).r = w.r
  <2>1. x.r = w.r  BY <1>1, <1>2, <1>3, <1>4, <1>8 DEF x
  <2>2. Times(x, One).r = x.r  BY <1>1, <1>2, <1>3, <1>5, <1>6, <1>8
  <2> QED  BY <2>1, <2>2
<1> QED  BY <1>7, <1>8 DEF x, one

(* Arc k of state n of a composition, again: a match of the state it is.     *)
LEMMA ComposeArc ==
    ASSUME NEW A, NEW B, IsAutomaton(A), IsAutomaton(B),
           NEW n \in States(Compose(A, B)), NEW k \in 1..Len(Compose(A, B).out[n])
    PROVE  LET q == Origin(A, B, n)
               m == OriginMatch(A, B, n, k)
               j == Joined(A, B, q, m)
               e == Compose(A, B).out[n][k]
           IN  /\ q \in Pairs(A, B) /\ m \in Matches(A, B, q)
               /\ e = FstArc(j.in, j.out, j.w, PlaceIn(ReachedOf(A, B), j.to))
               /\ e.to \in States(Compose(A, B)) /\ Origin(A, B, e.to) = j.to
BY ComposeShape

(* A composition that is not empty begins where its parts begin. *)
LEMMA StartOfComposition ==
    ASSUME NEW A, NEW B, IsAutomaton(A), IsAutomaton(B)
    PROVE  /\ States(Compose(A, B)) = {} <=> First(A, B) \notin Good(A, B)
           /\ States(Compose(A, B)) # {}
                => 0 \in States(Compose(A, B)) /\ Origin(A, B, 0) = First(A, B)
<1> DEFINE R == ReachedOf(A, B)
<1>1. Len(R) \in Nat /\ States(Compose(A, B)) = 0..(Len(R) - 1)  BY ComposeShape
<1>2. CASE First(A, B) \in Good(A, B)
  <2>1. 1 \in 1..Len(R) /\ R[1] = First(A, B)  BY <1>2, ReachedStates
  <2>2. 0 \in 0..(Len(R) - 1) /\ 0 + 1 = 1  BY <1>1, <2>1
  <2> QED  BY <1>1, <1>2, <2>1, <2>2 DEF Origin
<1>3. CASE First(A, B) \notin Good(A, B)
  <2>1. R = <<>>  BY <1>3 DEF ReachedOf, Reached, First
  <2>2. Len(R) = 0  BY <2>1
  <2> HIDE DEF R
  <2>3. 0..(Len(R) - 1) = {}  BY <2>2
  <2> QED  BY <1>1, <1>3, <2>3
<1> QED  BY <1>2, <1>3

-----------------------------------------------------------------------------
(* The lattice of two words: its states and arcs are those of the machine.  *)

LatticeOf(u, M, v) == Compose(Compose(Chain(u), M), Chain(v))

(* The state and the arc of M of which n is a state and k an arc. *)
Inner(u, M, v, n) == Origin(Compose(Chain(u), M), Chain(v), n)[1]

Place(u, M, v, n) == Origin(Chain(u), M, Inner(u, M, v, n))[2]

ArcAt(u, M, v, n, k) ==
    OriginMatch(Chain(u), M, Inner(u, M, v, n),
                OriginMatch(Compose(Chain(u), M), Chain(v), n, k)[1])[2]

(* The arcs of L, and where it starts, as the machine has them. *)
ArcsFrom(u, M, v, L) ==
    /\ L.start = 0
    /\ 0 \in States(L) => Place(u, M, v, 0) = M.start
    /\ \A n \in States(L) : \A k \in 1..Len(L.out[n]) :
         LET e == M.out[Place(u, M, v, n)][ArcAt(u, M, v, n, k)]
         IN  /\ Place(u, M, v, n) \in States(M)
             /\ ArcAt(u, M, v, n, k) \in 1..Len(M.out[Place(u, M, v, n)])
             /\ L.out[n][k].in = e.in /\ L.out[n][k].out = e.out
             /\ L.out[n][k].w = Times(Times(One, e.w), One)
             /\ L.out[n][k].to \in States(L)
             /\ Place(u, M, v, L.out[n][k].to) = e.to

LEMMA LatticeArcs ==
    ASSUME NEW D, Eps \notin D, NEW u \in Seq(D), NEW v \in Seq(D),
           NEW M, IsAutomaton(M)
    PROVE  ArcsFrom(u, M, v, LatticeOf(u, M, v))
<1> DEFINE A == Chain(u)
           B == Chain(v)
           C == Compose(A, M)
           L == Compose(C, B)
<1>1. IsAutomaton(A) /\ IsAutomaton(B) /\ A.start = 0 /\ B.start = 0  BY ChainShape
<1>2. IsAutomaton(C)  BY <1>1, ComposeAutomaton
<1> HIDE DEF A, B, C, L
<1>3. ASSUME NEW n \in States(L)
      PROVE  /\ Origin(C, B, n) \in Pairs(C, B)
             /\ Origin(C, B, n)[1] \in States(C)
             /\ Origin(A, M, Origin(C, B, n)[1]) \in Pairs(A, M)
             /\ Place(u, M, v, n) = Origin(A, M, Origin(C, B, n)[1])[2]
             /\ Place(u, M, v, n) \in States(M)
  <2>1. Origin(C, B, n) \in Pairs(C, B)  BY <1>1, <1>2, ComposeShape DEF L
  <2>2. Origin(C, B, n)[1] \in States(C)  BY <2>1 DEF Pairs
  <2>3. Origin(A, M, Origin(C, B, n)[1]) \in Pairs(A, M)
    BY <1>1, <2>2, ComposeShape DEF C
  <2>4. Origin(A, M, Origin(C, B, n)[1])[2] \in States(M)  BY <2>3 DEF Pairs
  <2>5. Place(u, M, v, n) = Origin(A, M, Origin(C, B, n)[1])[2]
    BY DEF Place, Inner, A, B, C
  <2> QED  BY <2>1, <2>2, <2>3, <2>4, <2>5
<1>4. ASSUME 0 \in States(L) PROVE Place(u, M, v, 0) = M.start
  <2>1. Origin(C, B, 0) = First(C, B)  BY <1>1, <1>2, <1>4, StartOfComposition DEF L
  <2>2. Origin(C, B, 0)[1] = 0
    <3>1. C.start = 0  BY <1>1, ComposeShape DEF C
    <3> QED  BY <2>1, <3>1 DEF First
  <2>3. Origin(A, M, 0) = First(A, M)
    BY <1>1, <1>3, <1>4, <2>2, StartOfComposition DEF C
  <2> QED  BY <1>3, <1>4, <2>2, <2>3 DEF First
<1>5. ASSUME NEW n \in States(L), NEW k \in 1..Len(L.out[n])
      PROVE  LET e == M.out[Place(u, M, v, n)][ArcAt(u, M, v, n, k)]
             IN  /\ ArcAt(u, M, v, n, k) \in 1..Len(M.out[Place(u, M, v, n)])
                 /\ L.out[n][k].in = e.in /\ L.out[n][k].out = e.out
                 /\ L.out[n][k].w = Times(Times(One, e.w), One)
                 /\ L.out[n][k].to \in States(L)
                 /\ Place(u, M, v, L.out[n][k].to) = e.to
  <2> DEFINE q == Origin(C, B, n)
             m == OriginMatch(C, B, n, k)
             o == Joined(C, B, q, m)
             p == q[1]
             x == C.out[p][m[1]]
             r == Origin(A, M, p)
             l == OriginMatch(A, M, p, m[1])
             i == Joined(A, M, r, l)
             e == M.out[r[2]][l[2]]
  <2>1. /\ q \in Pairs(C, B) /\ m \in Matches(C, B, q)
        /\ L.out[n][k] = FstArc(o.in, o.out, o.w, PlaceIn(ReachedOf(C, B), o.to))
        /\ L.out[n][k].to \in States(L) /\ Origin(C, B, L.out[n][k].to) = o.to
    BY <1>1, <1>2, ComposeShape DEF L
  <2>2. /\ m[1] \in 1..Len(C.out[p])
        /\ o = FstArc(x.in, x.out, Times(x.w, One), <<x.to, q[2] + m[2], 0>>)
    <3> HIDE DEF q, m, C
    <3>1. q \in Pairs(C, Chain(v)) /\ m \in Matches(C, Chain(v), q)  BY <2>1 DEF B
    <3> QED  BY ONLY <1>2, <3>1, v \in Seq(D), Eps \notin D, ChainSecond DEF o, x, p, B
  <2>3. p \in States(C)  BY <1>3
  <2>4. /\ r \in Pairs(A, M) /\ l \in Matches(A, M, r)
        /\ x = FstArc(i.in, i.out, i.w, PlaceIn(ReachedOf(A, M), i.to))
        /\ Origin(A, M, x.to) = i.to
    <3> DEFINE h == m[1]
    <3>1. p \in States(Compose(A, M)) /\ h \in 1..Len(Compose(A, M).out[p])
      BY <2>2, <2>3 DEF C
    <3> HIDE DEF h, p
    <3> QED  BY ONLY <1>1, IsAutomaton(M), <3>1, ComposeArc DEF r, l, i, x, h, C
  <2>5. /\ l[2] \in 1..Len(M.out[r[2]])
        /\ i = FstArc(e.in, e.out, Times(One, e.w), <<r[1] + l[1], e.to, 0>>)
    <3> HIDE DEF r, l
    <3>1. r \in Pairs(Chain(u), M) /\ l \in Matches(Chain(u), M, r)  BY <2>4 DEF A
    <3> QED  BY ONLY <3>1, ChainFirst, IsAutomaton(M), u \in Seq(D), Eps \notin D DEF i, e, A
  <2>6. Place(u, M, v, n) = r[2] /\ ArcAt(u, M, v, n, k) = l[2]
    BY <1>3 DEF ArcAt, Inner, A, B, C
  <2>7. /\ L.out[n][k].in = e.in /\ L.out[n][k].out = e.out
        /\ L.out[n][k].w = Times(Times(One, e.w), One)
    <3> HIDE DEF q, m, o, p, x, r, l, i, e
    <3>1. x.in = e.in /\ x.out = e.out /\ x.w = Times(One, e.w)
      BY <2>4, <2>5 DEF FstArc
    <3> QED  BY <2>1, <2>2, <3>1 DEF FstArc
  <2>8. Place(u, M, v, L.out[n][k].to) = e.to
    <3> DEFINE t == L.out[n][k].to
    <3>1. t \in States(L) /\ Origin(C, B, t) = o.to  BY <2>1
    <3>2. Place(u, M, v, t) = Origin(A, M, Origin(C, B, t)[1])[2]  BY <1>3, <3>1
    <3> HIDE DEF q, m, o, p, x, r, l, i, e, t
    <3>3. o.to[1] = x.to  BY <2>2 DEF FstArc
    <3>4. i.to[2] = e.to  BY <2>5 DEF FstArc
    <3> QED  BY <2>4, <3>1, <3>2, <3>3, <3>4 DEF t
  <2> QED  BY <2>1, <2>5, <2>6, <2>7, <2>8
<1>6. L.start = 0  BY <1>1, <1>2, ComposeShape DEF L
<1> QED  BY <1>3, <1>4, <1>5, <1>6 DEF ArcsFrom, LatticeOf, L, C, A, B

LEMMA AlikeItself == ASSUME NEW A PROVE Alike(A, A)
BY DEF Alike, SameArc

(* Machines that differ in their weights alone give lattices whose states  *)
(* and arcs come from the same states and arcs.                            *)
LEMMA LatticesAlike ==
    ASSUME NEW D, NEW u \in Seq(D), NEW v \in Seq(D),
           NEW M, NEW M2, IsAutomaton(M), IsAutomaton(M2), Alike(M, M2)
    PROVE  LET L == LatticeOf(u, M, v)
               L2 == LatticeOf(u, M2, v)
           IN  /\ States(L2) = States(L)
               /\ \A n \in States(L) :
                    /\ Len(L2.out[n]) = Len(L.out[n])
                    /\ Place(u, M2, v, n) = Place(u, M, v, n)
                    /\ \A k : ArcAt(u, M2, v, n, k) = ArcAt(u, M, v, n, k)
<1> DEFINE A == Chain(u)
           B == Chain(v)
           C == Compose(A, M)
           C2 == Compose(A, M2)
<1>1. IsAutomaton(A) /\ IsAutomaton(B) /\ Alike(A, A) /\ Alike(B, B)
  BY ChainShape, AlikeItself
<1> HIDE DEF A, B
<1>2. /\ MovesOf(A, M2) = MovesOf(A, M) /\ ReachedOf(A, M2) = ReachedOf(A, M)
      /\ Alike(C, C2)
  BY <1>1, ComposeAlike
<1>3. IsAutomaton(C) /\ IsAutomaton(C2)  BY <1>1, ComposeAutomaton
<1> HIDE DEF C, C2
<1>4. /\ MovesOf(C2, B) = MovesOf(C, B) /\ ReachedOf(C2, B) = ReachedOf(C, B)
      /\ Alike(Compose(C, B), Compose(C2, B))
  BY <1>1, <1>2, <1>3, ComposeAlike
<1>5. /\ States(Compose(C2, B)) = States(Compose(C, B))
      /\ \A n \in States(Compose(C, B)) :
           Len(Compose(C2, B).out[n]) = Len(Compose(C, B).out[n])
  BY <1>4 DEF Alike
<1>6. \A n : Origin(C2, B, n) = Origin(C, B, n)  BY <1>4 DEF Origin
<1>7. \A n, k : OriginMatch(C2, B, n, k) = OriginMatch(C, B, n, k)
  BY <1>4, <1>6 DEF OriginMatch
<1>8. \A n : Origin(A, M2, n) = Origin(A, M, n)  BY <1>2 DEF Origin
<1>9. \A n, k : OriginMatch(A, M2, n, k) = OriginMatch(A, M, n, k)
  BY <1>2, <1>8 DEF OriginMatch
<1>10. \A n : Inner(u, M2, v, n) = Inner(u, M, v, n)
  BY <1>6 DEF Inner, A, B, C, C2
<1>11. \A n : Place(u, M2, v, n) = Place(u, M, v, n)
  BY <1>8, <1>10 DEF Place, A
<1>12. ASSUME NEW n, NEW k PROVE ArcAt(u, M2, v, n, k) = ArcAt(u, M, v, n, k)
  <2> DEFINE h == OriginMatch(C, B, n, k)[1]
  <2>1. ArcAt(u, M, v, n, k) = OriginMatch(A, M, Inner(u, M, v, n), h)[2]
    BY DEF ArcAt, A, B, C
  <2>2. ArcAt(u, M2, v, n, k) = OriginMatch(A, M2, Inner(u, M2, v, n), h)[2]
    BY <1>7 DEF ArcAt, A, B, C2
  <2> HIDE DEF h
  <2> QED  BY <1>9, <1>10, <2>1, <2>2
<1> QED  BY <1>5, <1>11, <1>12 DEF LatticeOf, A, B, C, C2

-----------------------------------------------------------------------------
(* A walk through an automaton between two words: from each place of T, a    *)
(* position in u, a state and a position in v, an arc that reads and writes  *)
(* what comes next leads to a place of T that is nearer to the end, or the   *)
(* end is reached.                                                           *)
Reads(t, i, word, x) == \/ x = Eps /\ i = t
                        \/ t < Len(word) /\ x = word[t + 1] /\ i = t + 1

Goes(u, M, v, t, k, t2) ==
    /\ k \in 1..Len(M.out[t[2]]) /\ M.out[t[2]][k].to = t2[2]
    /\ Reads(t[1], t2[1], u, M.out[t[2]][k].in)
    /\ Reads(t[3], t2[3], v, M.out[t[2]][k].out)

WalkToEnd(u, M, v, T, left) ==
    /\ T \in SUBSET ((0..Len(u)) \X States(M) \X (0..Len(v)))
    /\ left \in [T -> Nat]
    /\ \A t \in T :
         \/ t[1] = Len(u) /\ t[2] \in M.final /\ t[3] = Len(v)
         \/ \E t2 \in T : left[t2] < left[t] /\ \E k : Goes(u, M, v, t, k, t2)

(* A property of places that walks pass on backwards holds of all of them. *)
LEMMA AlongTheWalk ==
    ASSUME NEW T, NEW left \in [T -> Nat], NEW P,
           \A t \in T : (\A t2 \in T : left[t2] < left[t] => t2 \in P) => t \in P
    PROVE  T \subseteq P
<1> SUFFICES ASSUME T \ P # {} PROVE FALSE  OBVIOUS
<1> DEFINE S == {left[t] : t \in T \ P}
<1>1. S \in SUBSET Nat /\ S # {}  OBVIOUS
<1> HIDE DEF S
<1>2. PICK x \in S : \A y \in S : x <= y  BY <1>1, Least
<1>3. PICK t \in T \ P : left[t] = x  BY DEF S
<1>4. ASSUME NEW t2 \in T, left[t2] < left[t] PROVE t2 \in P
  <2>1. left[t2] \in Nat /\ left[t] \in Nat  OBVIOUS
  <2>2. t2 \notin P => left[t2] \in S  BY DEF S
  <2> QED  BY <1>2, <1>3, <1>4, <2>1, <2>2
<1> QED  BY <1>3, <1>4

(* On every place of a walk the chain of u and M are on a path to the end. *)
LEMMA WalkBefore ==
    ASSUME NEW D, NEW u \in Seq(D), NEW v, Eps \notin D, NEW M, IsAutomaton(M),
           NEW T, NEW left, WalkToEnd(u, M, v, T, left)
    PROVE  \A t \in T : <<t[1], t[2], 0>> \in Good(Chain(u), M)
<1> DEFINE A == Chain(u)
           P == {t \in T : <<t[1], t[2], 0>> \in Good(A, M)}
<1>1. /\ IsAutomaton(A) /\ States(A) = 0..Len(u) /\ A.final = {Len(u)} /\ Len(u) \in Nat
  BY ChainShape
<1>2. ASSUME NEW t \in T
      PROVE  /\ t[1] \in 0..Len(u) /\ t[2] \in States(M)
             /\ <<t[1], t[2], 0>> \in Pairs(A, M)
  BY <1>1 DEF WalkToEnd, Pairs
<1>3. ASSUME NEW t \in T, \A t2 \in T : left[t2] < left[t] => t2 \in P
      PROVE  t \in P
  <2> DEFINE q == <<t[1], t[2], 0>>
  <2>1. q \in Pairs(A, M) /\ q[1] = t[1] /\ q[2] = t[2] /\ q[3] = 0  BY <1>2
  <2>2. CASE t[1] = Len(u) /\ t[2] \in M.final
    <3>1. q[1] \in A.final /\ q[2] \in M.final  BY <1>1, <2>1, <2>2
    <3> HIDE DEF q, A
    <3>2. q \in Good(A, M)  BY <1>1, <2>1, <3>1, GoodStates
    <3> QED  BY <3>2 DEF P, q
  <2>3. CASE \E t2 \in T : left[t2] < left[t] /\ \E k : Goes(u, M, v, t, k, t2)
    <3>0. PICK t2 \in T : left[t2] < left[t] /\ \E k : Goes(u, M, v, t, k, t2)  BY <2>3
    <3>1. PICK k : left[t2] < left[t] /\ Goes(u, M, v, t, k, t2)  BY <3>0
    <3>2. <<t2[1], t2[2], 0>> \in Good(A, M)  BY <1>3, <3>1
    <3> DEFINE e == M.out[t[2]][k]
    <3>3. k \in 1..Len(M.out[t[2]]) /\ e.to = t2[2] /\ Reads(t[1], t2[1], u, e.in)
      BY <3>1 DEF Goes
    <3>4. PICK n \in {0, 1} : t2[1] = t[1] + n /\ <<n, k>> \in Matches(A, M, q)
      <4> HIDE DEF q, A
      <4>0. t[1] \in Nat
        <5>1. t[1] \in 0..Len(u)  BY <1>2
        <5> QED  BY <1>1, <5>1
      <4>1. /\ e.in = Eps => << 0, k >> \in Matches(A, M, q)
            /\ q[1] < Len(u) /\ u[q[1] + 1] = e.in => << 1, k >> \in Matches(A, M, q)
        BY <2>1, <3>3, ChainFirst DEF A
      <4>2. CASE e.in = Eps /\ t2[1] = t[1]
        <5>1. t2[1] = t[1] + 0  BY <4>0, <4>2
        <5> QED  BY <4>1, <4>2, <5>1
      <4>3. CASE t[1] < Len(u) /\ e.in = u[t[1] + 1] /\ t2[1] = t[1] + 1
        BY <2>1, <4>1, <4>3
      <4> QED  BY <3>3, <4>2, <4>3 DEF Reads
    <3> DEFINE m == <<n, k>>
    <3>5. Joined(A, M, q, m).to = <<t2[1], t2[2], 0>>
      <4>1. m \in Matches(A, M, q) /\ m[1] = n /\ m[2] = k  BY <3>4
      <4> HIDE DEF q, A, m
      <4> DEFINE a(x) == M.out[q[2]][x[2]]
      <4>2. \A x \in Matches(A, M, q) :
              Joined(A, M, q, x)
                = FstArc(a(x).in, a(x).out, Times(One, a(x).w), <<q[1] + x[1], a(x).to, 0>>)
        <5>1. q \in Pairs(Chain(u), M)  BY <2>1 DEF A
        <5> QED  BY ONLY <5>1, u \in Seq(D), Eps \notin D, IsAutomaton(M), ChainFirst DEF A, a
      <4>3. Joined(A, M, q, m)
              = FstArc(a(m).in, a(m).out, Times(One, a(m).w), <<q[1] + m[1], a(m).to, 0>>)
        <5> HIDE DEF a
        <5> QED  BY <4>1, <4>2
      <4> QED  BY <2>1, <3>3, <3>4, <4>1, <4>3 DEF FstArc
    <3> HIDE DEF q, A
    <3>6. q \in Good(A, M)  BY <1>1, <2>1, <3>2, <3>4, <3>5, GoodStates
    <3> QED  BY <3>6 DEF P, q
  <2> QED  BY <2>2, <2>3 DEF WalkToEnd
<1>4. T \subseteq P
  <2>1. left \in [T -> Nat]  BY DEF WalkToEnd
  <2> HIDE DEF P
  <2> QED  BY <1>3, <2>1, AlongTheWalk
<1> QED  BY <1>4

(* And so are their composition and the chain of v. *)
LEMMA WalkAfter ==
    ASSUME NEW D, NEW u \in Seq(D), NEW v \in Seq(D), Eps \notin D, NEW M, IsAutomaton(M),
           NEW T, NEW left, WalkToEnd(u, M, v, T, left)
    PROVE  LET C == Compose(Chain(u), M)
           IN  \A t \in T : \A n \in States(C) :
                 Origin(Chain(u), M, n) = <<t[1], t[2], 0>>
                   => <<n, t[3], 0>> \in Good(C, Chain(v))
<1> DEFINE A == Chain(u)
           C == Compose(A, M)
           B == Chain(v)
           At(n, t) == Origin(A, M, n) = <<t[1], t[2], 0>>
           P == {t \in T : \A n \in States(C) : At(n, t) => <<n, t[3], 0>> \in Good(C, B)}
<1>1. /\ IsAutomaton(A) /\ A.final = {Len(u)} /\ Len(u) \in Nat
      /\ IsAutomaton(B) /\ States(B) = 0..Len(v) /\ B.final = {Len(v)} /\ Len(v) \in Nat
  BY ChainShape
<1>2. IsAutomaton(C)  BY <1>1, ComposeAutomaton
<1>3. /\ C.final = {n \in States(C) : /\ Origin(A, M, n)[1] \in A.final
                                      /\ Origin(A, M, n)[2] \in M.final}
      /\ \A n \in States(C) :
           /\ Origin(A, M, n) \in Good(A, M) /\ Origin(A, M, n) \in Pairs(A, M)
           /\ Len(C.out[n]) = Len(MovesOf(A, M)[Origin(A, M, n)])
           /\ \A k \in 1..Len(C.out[n]) :
                LET m == OriginMatch(A, M, n, k)
                    j == Joined(A, M, Origin(A, M, n), m)
                IN  /\ C.out[n][k] = FstArc(j.in, j.out, j.w, PlaceIn(ReachedOf(A, M), j.to))
                    /\ C.out[n][k].to \in States(C)
                    /\ Origin(A, M, C.out[n][k].to) = j.to
  <2> HIDE DEF A
  <2> QED  BY <1>1, ComposeShape
<1>4. \A t \in T : <<t[1], t[2], 0>> \in Good(A, M)  BY WalkBefore
<1>5. ASSUME NEW t \in T
      PROVE  t[1] \in 0..Len(u) /\ t[2] \in States(M) /\ t[3] \in 0..Len(v)
  BY DEF WalkToEnd
<1> HIDE DEF A, B, C
<1>6. ASSUME NEW t \in T, \A t2 \in T : left[t2] < left[t] => t2 \in P,
             NEW n \in States(C), At(n, t)
      PROVE  <<n, t[3], 0>> \in Good(C, B)
  <2> DEFINE p == <<t[1], t[2], 0>>
             q == <<n, t[3], 0>>
  <2>1. /\ q \in Pairs(C, B) /\ q[1] = n /\ q[2] = t[3] /\ q[3] = 0
        /\ p[1] = t[1] /\ p[2] = t[2] /\ p[3] = 0
    BY <1>1, <1>5 DEF Pairs
  <2>2. CASE t[1] = Len(u) /\ t[2] \in M.final /\ t[3] = Len(v)
    <3>1. n \in C.final
      <4>1. Origin(A, M, n)[1] = t[1] /\ Origin(A, M, n)[2] = t[2]  BY <1>6
      <4> QED  BY <1>1, <1>3, <2>2, <4>1
    <3>2. q[1] \in C.final /\ q[2] \in B.final  BY <1>1, <2>1, <2>2, <3>1
    <3> HIDE DEF q
    <3>3. q \in Good(C, B)  BY <1>1, <1>2, <2>1, <3>2, GoodStates
    <3> QED  BY <3>3 DEF q
  <2>3. CASE \E t2 \in T : left[t2] < left[t] /\ \E k : Goes(u, M, v, t, k, t2)
    <3>0. PICK t2 \in T : left[t2] < left[t] /\ \E k : Goes(u, M, v, t, k, t2)  BY <2>3
    <3>1. PICK k : left[t2] < left[t] /\ Goes(u, M, v, t, k, t2)  BY <3>0
    <3>2. t2 \in P /\ <<t2[1], t2[2], 0>> \in Good(A, M)  BY <1>4, <1>6, <3>1
    <3> DEFINE e == M.out[t[2]][k]
    <3>3. /\ k \in 1..Len(M.out[t[2]]) /\ e.to = t2[2]
          /\ Reads(t[1], t2[1], u, e.in) /\ Reads(t[3], t2[3], v, e.out)
      BY <3>1 DEF Goes
    <3>4. p \in Good(A, M) /\ p \in Pairs(A, M) /\ Origin(A, M, n) = p
      BY <1>3, <1>6
    <3>5. PICK i \in {0, 1} : t2[1] = t[1] + i /\ <<i, k>> \in Matches(A, M, p)
      <4> HIDE DEF p
      <4>0. t[1] \in Nat  BY <1>1, <1>5
      <4>1. /\ e.in = Eps => << 0, k >> \in Matches(A, M, p)
            /\ p[1] < Len(u) /\ u[p[1] + 1] = e.in => << 1, k >> \in Matches(A, M, p)
        BY <2>1, <3>3, <3>4, ChainFirst DEF A
      <4>2. CASE e.in = Eps /\ t2[1] = t[1]
        <5>1. t2[1] = t[1] + 0  BY <4>0, <4>2
        <5> QED  BY <4>1, <4>2, <5>1
      <4>3. CASE t[1] < Len(u) /\ e.in = u[t[1] + 1] /\ t2[1] = t[1] + 1
        BY <2>1, <4>1, <4>3
      <4> QED  BY <3>3, <4>2, <4>3 DEF Reads
    <3> DEFINE m == <<i, k>>
    <3>6. /\ m \in Matches(A, M, p)
          /\ Joined(A, M, p, m).to = <<t2[1], t2[2], 0>> /\ Joined(A, M, p, m).out = e.out
      <4>1. m \in Matches(A, M, p) /\ m[1] = i /\ m[2] = k  BY <3>5
      <4> HIDE DEF p, m
      <4> DEFINE a(x) == M.out[p[2]][x[2]]
      <4>2. \A x \in Matches(A, M, p) :
              Joined(A, M, p, x)
                = FstArc(a(x).in, a(x).out, Times(One, a(x).w), <<p[1] + x[1], a(x).to, 0>>)
        BY <3>4, ChainFirst DEF A
      <4>3. Joined(A, M, p, m)
              = FstArc(a(m).in, a(m).out, Times(One, a(m).w), <<p[1] + m[1], a(m).to, 0>>)
        <5> HIDE DEF a
        <5> QED  BY <4>1, <4>2
      <4> QED  BY <2>1, <3>3, <3>5, <4>1, <4>3 DEF FstArc
    <3> HIDE DEF m, p, q
    <3>7. m \in GoodMatches(A, M, p)  BY <3>2, <3>6 DEF GoodMatches
    <3>8. PICK c \in 1..Len(MovesOf(A, M)[p]) : MovesOf(A, M)[p][c] = m
      BY <1>1, <3>4, <3>7, MovesList
    <3> DEFINE f == C.out[n][c]
    <3>9. /\ c \in 1..Len(C.out[n]) /\ f.out = e.out
          /\ f.to \in States(C) /\ Origin(A, M, f.to) = <<t2[1], t2[2], 0>>
      <4>1. c \in 1..Len(C.out[n])  BY <1>3, <3>4, <3>8
      <4>2. OriginMatch(A, M, n, c) = m  BY <3>4, <3>8 DEF OriginMatch
      <4> DEFINE j == Joined(A, M, p, m)
      <4>3. /\ f = FstArc(j.in, j.out, j.w, PlaceIn(ReachedOf(A, M), j.to))
            /\ f.to \in States(C) /\ Origin(A, M, f.to) = j.to
        BY <1>3, <3>4, <4>1, <4>2
      <4>4. f.out = j.out
        <5> HIDE DEF f, j
        <5> QED  BY <4>3 DEF FstArc
      <4> QED  BY <3>6, <4>1, <4>3, <4>4
    <3> HIDE DEF f
    <3>10. <<f.to, t2[3], 0>> \in Good(C, B)  BY <3>2, <3>9
    <3>11. PICK l \in {0, 1} : t2[3] = t[3] + l /\ <<c, l>> \in Matches(C, B, q)
      <4>0. t[3] \in Nat  BY <1>1, <1>5
      <4>1. /\ C.out[q[1]][c].out = Eps /\ q[3] = 0 => << c, 0 >> \in Matches(C, B, q)
            /\ q[2] < Len(v) /\ v[q[2] + 1] = C.out[q[1]][c].out
                 => << c, 1 >> \in Matches(C, B, q)
        BY <1>2, <2>1, <3>9, ChainSecond DEF B
      <4>2. C.out[q[1]][c].out = e.out  BY <2>1, <3>9 DEF f
      <4>3. CASE e.out = Eps /\ t2[3] = t[3]
        <5>1. t2[3] = t[3] + 0  BY <4>0, <4>3
        <5> QED  BY <2>1, <4>1, <4>2, <4>3, <5>1
      <4>4. CASE t[3] < Len(v) /\ e.out = v[t[3] + 1] /\ t2[3] = t[3] + 1
        BY <2>1, <4>1, <4>2, <4>4
      <4> QED  BY <3>3, <4>3, <4>4 DEF Reads
    <3> DEFINE x == <<c, l>>
    <3>12. Joined(C, B, q, x).to = <<f.to, t2[3], 0>>
      <4>1. x \in Matches(C, B, q) /\ x[1] = c /\ x[2] = l  BY <3>11
      <4> HIDE DEF x
      <4> DEFINE a(y) == C.out[q[1]][y[1]]
      <4>2. \A y \in Matches(C, B, q) :
              Joined(C, B, q, y)
                = FstArc(a(y).in, a(y).out, Times(a(y).w, One), <<a(y).to, q[2] + y[2], 0>>)
        <5>1. q \in Pairs(C, Chain(v))  BY <2>1 DEF B
        <5> QED  BY ONLY <5>1, v \in Seq(D), Eps \notin D, <1>2, ChainSecond DEF B, a
      <4>3. Joined(C, B, q, x)
              = FstArc(a(x).in, a(x).out, Times(a(x).w, One), <<a(x).to, q[2] + x[2], 0>>)
        <5> HIDE DEF a
        <5> QED  BY <4>1, <4>2
      <4> QED  BY <2>1, <3>11, <4>1, <4>3 DEF FstArc, f
    <3>13. q \in Good(C, B)  BY <1>1, <1>2, <2>1, <3>10, <3>11, <3>12, GoodStates
    <3> QED  BY <3>13 DEF q
  <2> QED  BY <2>2, <2>3 DEF WalkToEnd
<1>7. T \subseteq P
  <2>1. left \in [T -> Nat]  BY DEF WalkToEnd
  <2>2. \A t \in T : (\A t2 \in T : left[t2] < left[t] => t2 \in P) => t \in P
    BY <1>6
  <2> HIDE DEF P
  <2> QED  BY <2>1, <2>2, AlongTheWalk
<1> QED  BY <1>7 DEF A, B, C

(* If a walk begins at the beginning, the lattice of the words has a path. *)
LEMMA WalkGivesLattice ==
    ASSUME NEW D, NEW u \in Seq(D), NEW v \in Seq(D), Eps \notin D, NEW M, IsAutomaton(M),
           NEW T, NEW left, WalkToEnd(u, M, v, T, left),
           NEW t \in T, t[1] = 0, t[2] = M.start, t[3] = 0
    PROVE  States(LatticeOf(u, M, v)) # {}
<1> DEFINE A == Chain(u)
           C == Compose(A, M)
           B == Chain(v)
<1>1. IsAutomaton(A) /\ A.start = 0 /\ IsAutomaton(B) /\ B.start = 0  BY ChainShape
<1>2. <<t[1], t[2], 0>> \in Good(A, M)  BY WalkBefore
<1>3. \A n \in States(C) :
        Origin(A, M, n) = <<t[1], t[2], 0>> => <<n, t[3], 0>> \in Good(C, B)
  BY WalkAfter
<1>4. IsAutomaton(C) /\ C.start = 0  BY <1>1, ComposeAutomaton, ComposeShape
<1> HIDE DEF A, B
<1>5. First(A, M) = <<t[1], t[2], 0>>  BY <1>1 DEF First
<1>6. 0 \in States(C) /\ Origin(A, M, 0) = First(A, M)
  BY <1>1, <1>2, <1>5, StartOfComposition
<1> HIDE DEF C
<1>7. <<0, 0, 0>> \in Good(C, B)  BY <1>3, <1>5, <1>6
<1>8. First(C, B) \in Good(C, B)  BY <1>1, <1>4, <1>7 DEF First
<1>9. States(Compose(C, B)) # {}  BY <1>1, <1>4, <1>8, StartOfComposition
<1> QED  BY <1>9 DEF LatticeOf, A, B, C

-----------------------------------------------------------------------------
(* The machine as the E-step composes it. *)

LEMMA MachineShape ==
    ASSUME Finished, start \in 1..Len(arcs), NEW w
    PROVE  LET M == MachineWith(w)
           IN  /\ IsAutomaton(M) /\ States(M) = 0..Len(arcs)
               /\ M.start = start /\ M.final = {0} /\ Len(M.out[0]) = 0
               /\ \A s \in 1..Len(arcs) :
                    /\ Len(M.out[s]) = Len(arcs[s])
                    /\ \A k \in 1..Len(arcs[s]) :
                         M.out[s][k] = FstArc(arcs[s][k].in, arcs[s][k].out,
                                              w[s][k], arcs[s][k].to)
<1> DEFINE M == MachineWith(w)
           S == Len(arcs)
           Row(s) == [k \in 1..Len(arcs[s]) |->
                        FstArc(arcs[s][k].in, arcs[s][k].out, w[s][k], arcs[s][k].to)]
           Out(s) == IF s = 0 THEN <<>> ELSE Row(s)
<1>1. /\ S \in Nat /\ \A s \in 1..S : Len(arcs[s]) \in Nat
      /\ \A s \in 1..S : \A k \in 1..Len(arcs[s]) : arcs[s][k].to \in 0..S
  BY BHere DEF Finished, MachineInv, BInv, ArcsInv
<1>2. /\ M.start = start /\ M.final = {0} /\ M.out = [s \in 0..S |-> Out(s)]
  BY DEF MachineWith
<1>3. States(M) = 0..S /\ \A s \in 0..S : M.out[s] = Out(s)
  <2> HIDE DEF M, S, Out
  <2> QED  BY <1>2 DEF States
<1>4. Len(M.out[0]) = 0
  <2>1. Out(0) = <<>> /\ 0 \in 0..S  BY <1>1
  <2> HIDE DEF M, S, Out
  <2> QED  BY <1>3, <2>1
<1>5. ASSUME NEW s \in 1..S
      PROVE  /\ Len(M.out[s]) = Len(arcs[s])
             /\ \A k \in 1..Len(arcs[s]) :
                  /\ M.out[s][k] = FstArc(arcs[s][k].in, arcs[s][k].out,
                                          w[s][k], arcs[s][k].to)
                  /\ M.out[s][k].to \in 0..S
  <2>1. Out(s) = Row(s) /\ s \in 0..S  BY <1>1
  <2>2. M.out[s] = Row(s)
    <3> HIDE DEF M, S, Out, Row
    <3> QED  BY <1>3, <2>1
  <2> DEFINE L == Len(arcs[s])
             f(k) == FstArc(arcs[s][k].in, arcs[s][k].out, w[s][k], arcs[s][k].to)
  <2>3. Row(s) = [k \in 1..L |-> f(k)] /\ L \in Nat  BY <1>1
  <2>4. Len([k \in 1..L |-> f(k)]) = L /\ \A k \in 1..L : [n \in 1..L |-> f(n)][k] = f(k)
    <3> HIDE DEF L, f
    <3> QED  BY <2>3
  <2>5. \A k \in 1..L : f(k).to \in 0..S  BY <1>1 DEF FstArc
  <2> HIDE DEF M, S, Out, Row, f
  <2>6. Len(M.out[s]) = L /\ \A k \in 1..L : M.out[s][k] = f(k)
    BY <2>2, <2>3, <2>4
  <2> QED  BY <2>5, <2>6 DEF f
<1>6. IsFiniteSet(0..S)
  <2> HIDE DEF S
  <2>1. 0 \in Int /\ S \in Int  BY <1>1
  <2> QED  BY <2>1, FS_Interval
<1>7. IsAutomaton(M)
  <2> HIDE DEF M, S
  <2>1. ASSUME NEW s \in 0..S
        PROVE  /\ Len(M.out[s]) \in Nat
               /\ \A k \in 1..Len(M.out[s]) : M.out[s][k].to \in 0..S
    <3>1. CASE s = 0
      <4>1. \A k \in 1..0 : FALSE  OBVIOUS
      <4> QED  BY <1>4, <3>1, <4>1
    <3>2. CASE s # 0
      <4>1. s \in 1..S  BY <3>2
      <4> QED  BY <1>1, <1>5, <4>1
    <3> QED  BY <3>1, <3>2
  <2> QED  BY <1>3, <1>6, <2>1 DEF IsAutomaton
<1> QED  BY <1>2, <1>3, <1>4, <1>5, <1>7

LEMMA MachinesAlike ==
    ASSUME Finished, start \in 1..Len(arcs), NEW w, NEW x
    PROVE  Alike(MachineWith(w), MachineWith(x))
<1> DEFINE M == MachineWith(w)
           M2 == MachineWith(x)
           Arc(s, k, y) == FstArc(arcs[s][k].in, arcs[s][k].out, y[s][k], arcs[s][k].to)
<1>1. /\ States(M) = 0..Len(arcs) /\ M.start = start /\ M.final = {0} /\ Len(M.out[0]) = 0
      /\ \A s \in 1..Len(arcs) : /\ Len(M.out[s]) = Len(arcs[s])
                                 /\ \A k \in 1..Len(arcs[s]) : M.out[s][k] = Arc(s, k, w)
  BY MachineShape
<1>2. /\ States(M2) = 0..Len(arcs) /\ M2.start = start /\ M2.final = {0} /\ Len(M2.out[0]) = 0
      /\ \A s \in 1..Len(arcs) : /\ Len(M2.out[s]) = Len(arcs[s])
                                 /\ \A k \in 1..Len(arcs[s]) : M2.out[s][k] = Arc(s, k, x)
  BY MachineShape
<1>3. \A s, k : SameArc(Arc(s, k, w), Arc(s, k, x))  BY DEF SameArc, FstArc
<1>4. Len(arcs) \in Nat  BY BHere DEF Finished, MachineInv
<1> HIDE DEF M, M2, Arc
<1>5. ASSUME NEW s \in 0..Len(arcs)
      PROVE  /\ Len(M.out[s]) = Len(M2.out[s])
             /\ \A k \in 1..Len(M.out[s]) : SameArc(M.out[s][k], M2.out[s][k])
  <2>1. CASE s = 0
    <3>1. \A k \in 1..0 : FALSE  OBVIOUS
    <3> QED  BY <1>1, <1>2, <2>1, <3>1
  <2>2. CASE s # 0
    <3>1. s \in 1..Len(arcs)  BY <1>4, <2>2
    <3>2. Len(M.out[s]) = Len(arcs[s]) /\ Len(M2.out[s]) = Len(arcs[s])
      BY <1>1, <1>2, <3>1
    <3>3. ASSUME NEW k \in 1..Len(arcs[s]) PROVE SameArc(M.out[s][k], M2.out[s][k])
      <4>1. M.out[s][k] = Arc(s, k, w)  BY <1>1, <3>1
      <4>2. M2.out[s][k] = Arc(s, k, x)  BY <1>2, <3>1
      <4> QED  BY <1>3, <4>1, <4>2
    <3> QED  BY <3>2, <3>3
  <2> QED  BY <2>1, <2>2
<1> QED  BY <1>1, <1>2, <1>5 DEF Alike, M, M2

-----------------------------------------------------------------------------
(* What the script leaves when it has set the initial state. *)

StartInv == stage # "contexts" => /\ DOMAIN lookup = AllContexts
                                  /\ start = lookup[InitialContext]

LEMMA NextStart == BInv /\ StartInv /\ [Next]_vars => StartInv'
<1> SUFFICES ASSUME BInv, StartInv, [Next]_vars PROVE StartInv'  OBVIOUS
<1>1. stage # "KeyError"  BY DEF BInv, StageInv
<1>2. CASE AddContext  BY <1>2 DEF AddContext, StartInv
<1>3. CASE SetInitial
  <2>1. Numbered = AllContexts  BY <1>3 DEF SetInitial, Numbered
  <2> QED  BY <1>3, <2>1, BHere, InitialContextListed DEF SetInitial, StartInv
<1>4. CASE \/ AddBoldArcs \/ StartNonBold \/ AddNonBoldArcs
           \/ StartLabels \/ LabelArc \/ LabelState \/ Exit \/ UNCHANGED vars
  <2>1. UNCHANGED <<lookup, start>> /\ (stage' # "contexts" => stage # "contexts")
    BY <1>4 DEF AddBoldArcs, StartNonBold, AddNonBoldArcs, AddArcs, StartLabels,
                LabelArc, LabelState, Exit, vars
  <2> QED  BY <2>1 DEF StartInv
<1> QED  BY <1>2, <1>3, <1>4 DEF Next

(* Once built, the machine starts in the state of the initial context. *)
LEMMA StartHere ==
    ASSUME Finished, StartInv
    PROVE  start = lookup[InitialContext] /\ start \in 1..Len(arcs)
<1>1. lookup \in [AllContexts -> 1..Len(arcs)]
  BY DEF Finished, MachineInv, BInv, TableInv, Numbered
<1> QED  BY <1>1, InitialContextListed DEF Finished, StartInv

-----------------------------------------------------------------------------
(* The E-step never looks at a machine that changes: the lattices are those *)
(* of the finished machine, and final_log is one of them with other weights. *)

LEMMA ArcsBeforeSteps ==
    ASSUME NEW A, NEW L \in Nat, States(A) = 0..(L - 1),
           \A s \in States(A) : Len(A.out[s]) \in Nat
    PROVE  /\ Cardinality(States(A)) = L /\ ArcsBefore(A)[0] = 0
           /\ \A k \in 1..L : ArcsBefore(A)[k] = ArcsBefore(A)[k - 1] + Len(A.out[k - 1])
<1> DEFINE Table(f) == f = [s \in 0..L |-> IF s = 0 THEN 0
                                           ELSE f[s - 1] + Len(A.out[s - 1])]
           step == [x \in (1..L) \X Nat |-> x[2] + Len(A.out[x[1] - 1])]
           e == CHOOSE f : Table(f)
<1>1. Cardinality(States(A)) = L
  <2>1. 0 \in Int /\ L - 1 \in Int  OBVIOUS
  <2>2. Cardinality(0..(L - 1)) = IF 0 > L - 1 THEN 0 ELSE (L - 1) - 0 + 1
    BY <2>1, FS_Interval
  <2> QED  BY <2>2
<1>2. \A k \in 1..L : k - 1 \in 0..(L - 1) /\ Len(A.out[k - 1]) \in Nat  OBVIOUS
<1>3. step \in [(1..L) \X Nat -> Nat]
  <2>1. \A x \in (1..L) \X Nat : x[2] + Len(A.out[x[1] - 1]) \in Nat
    <3> TAKE x \in (1..L) \X Nat
    <3>1. x[1] \in 1..L /\ x[2] \in Nat  OBVIOUS
    <3> DEFINE m == Len(A.out[x[1] - 1])
    <3>2. m \in Nat  BY <1>2, <3>1
    <3> HIDE DEF m
    <3>3. x[2] + m \in Nat  BY ONLY <3>1, <3>2
    <3> QED  BY <3>3 DEF m
  <2> QED  BY <2>1
<1>4. \E f : Table(f)
  <2>1. PICK f \in [0..L -> Nat] : Steps(f, L, 0, step)
    <3> DEFINE V == Nat
    <3>1. L \in Nat /\ 0 \in V /\ step \in [(1..L) \X V -> V]  BY <1>3
    <3> HIDE DEF V, step
    <3>2. \E f \in [0..L -> V] : Steps(f, L, 0, step)  BY ONLY <3>1, RecursionUp
    <3> QED  BY <3>2 DEF V
  <2>2. ASSUME NEW s \in 0..L
        PROVE  f[s] = IF s = 0 THEN 0 ELSE f[s - 1] + Len(A.out[s - 1])
    <3>1. CASE s # 0
      <4>1. s \in 1..L /\ s - 1 \in 0..L  BY <3>1
      <4>2. f[s - 1] \in Nat  BY <4>1
      <4>3. step[<<s, f[s - 1]>>] = f[s - 1] + Len(A.out[s - 1])  BY <4>1, <4>2
      <4> QED  BY <2>1, <3>1, <4>1, <4>3 DEF Steps
    <3> QED  BY <2>1, <3>1 DEF Steps
  <2>3. f = [s \in 0..L |-> IF s = 0 THEN 0 ELSE f[s - 1] + Len(A.out[s - 1])]
    BY <2>2
  <2> QED  BY <2>3
<1>5. Table(e)  BY <1>4
<1>6. \A s \in 0..L : e[s] = IF s = 0 THEN 0 ELSE e[s - 1] + Len(A.out[s - 1])
  <2> HIDE DEF e
  <2> QED  BY <1>5
<1>7. ArcsBefore(A) = e  BY <1>1 DEF ArcsBefore
<1> HIDE DEF e
<1> QED  BY <1>1, <1>6, <1>7

Phases == {"build", "outer", "exemplar", "count", "Undefined"}

LatticeInv ==
    /\ phase \in Phases /\ ex \in 0..N
    /\ phase # "build" =>
         /\ Loaded /\ data \in [1..N -> Exemplars]
         /\ lattices = [n \in 1..N |-> Lattice(data[n], FeatureWeights)]
    /\ phase = "count" =>
         /\ ex < N /\ log = Lattice(data[ex + 1], LogWeights(score))
         /\ States(log) # {}
         /\ state \in 0..Cardinality(States(log))
         /\ latticeArc = ArcsBefore(log)[state]

CountInv == FeatInv /\ StartInv /\ LatticeInv

(* A finished machine is composed with a pair of words to this. *)
LEMMA LatticeHere ==
    ASSUME FeatInv, StartInv, Loaded, NEW d \in Exemplars, NEW w
    PROVE  /\ Finished /\ start \in 1..Len(arcs)
           /\ d[1] \in Seq(Upper \cup V2) /\ d[2] \in Seq(Upper \cup V2)
           /\ Eps \notin Upper \cup V2
           /\ IsAutomaton(MachineWith(w))
           /\ Lattice(d, w) = LatticeOf(d[1], MachineWith(w), d[2])
           /\ Lattice(d, w).start = 0
           /\ \E L \in Nat : States(Lattice(d, w)) = 0..(L - 1)
           /\ \A s \in States(Lattice(d, w)) : Len(Lattice(d, w).out[s]) \in Nat
<1> DEFINE D == Upper \cup V2
           u == d[1]
           v == d[2]
           M == MachineWith(w)
<1>1. Finished /\ start \in 1..Len(arcs)  BY WhenLoaded, StartHere
<1>2. d[1] \in Seq(Upper) /\ d[2] \in Seq(V2)  BY ExemplarsAssumption
<1>3. u \in Seq(D) /\ v \in Seq(D)
  <2>1. Upper \subseteq D /\ V2 \subseteq D  OBVIOUS
  <2> HIDE DEF D, u, v
  <2>2. u \in Seq(Upper) /\ v \in Seq(V2)  BY <1>2 DEF u, v
  <2>3. \A k \in 1..Len(u) : u[k] \in D  BY <2>1, <2>2
  <2>4. \A k \in 1..Len(v) : v[k] \in D  BY <2>1, <2>2
  <2> QED  BY <2>2, <2>3, <2>4
<1>4. Eps \notin D  BY EpsAssumption DEF Upper
<1>5. IsAutomaton(M)  BY <1>1, MachineShape
<1>6. Lattice(d, w) = LatticeOf(u, M, v)  BY DEF Lattice, LatticeOf
<1> HIDE DEF u, v, M, D
<1>7. IsAutomaton(Chain(u)) /\ IsAutomaton(Chain(v))  BY <1>3, ChainShape
<1>8. IsAutomaton(Compose(Chain(u), M))  BY <1>5, <1>7, ComposeAutomaton
<1> DEFINE C == Compose(Chain(u), M)
           B == Chain(v)
<1> HIDE DEF C, B
<1>9. IsAutomaton(C) /\ IsAutomaton(B)  BY <1>7, <1>8 DEF C, B
<1>10. /\ Compose(C, B).start = 0
       /\ \E L \in Nat : States(Compose(C, B)) = 0..(L - 1)
       /\ \A s \in States(Compose(C, B)) : Len(Compose(C, B).out[s]) \in Nat
  BY <1>9, ComposeShape
<1> QED  BY <1>1, <1>3, <1>4, <1>5, <1>6, <1>10 DEF LatticeOf, C, B, D, u, v, M

(* The arcs of both lattices of an exemplar are those of the machine, and    *)
(* the numbers in the one are the numbers of the arcs whose weights the      *)
(* other has.                                                                *)
PlaceOf(d, w, s) == Place(d[1], MachineWith(w), d[2], s)

CreditOf(d, w, s, k) ==
    LET c == ArcAt(d[1], MachineWith(w), d[2], s, k)
    IN  [id |-> IdOf(PlaceOf(d, w, s), c), src |-> PlaceOf(d, w, s), arc |-> c]

ArcsCredited(d, w, L, F) ==
    /\ States(F) = States(L)
    /\ 0 \in States(L) => PlaceOf(d, w, 0) = start
    /\ \A s \in States(L) : \A k \in 1..Len(L.out[s]) :
         LET r == CreditOf(d, w, s, k)
             a == arcs[r.src][r.arc]
         IN  /\ r \in Arcs /\ r.src = PlaceOf(d, w, s)
             /\ k <= Len(F.out[s])
             /\ r.id = TrainerId(F.out[s][k].w.r[1] \div F.out[s][k].w.r[2])
             /\ L.out[s][k].w.p = w[r.src][r.arc].p
             /\ L.out[s][k].in = a.in /\ L.out[s][k].out = a.out
             /\ L.out[s][k].to \in States(L) /\ PlaceOf(d, w, L.out[s][k].to) = a.to

LEMMA Credits ==
    ASSUME FeatInv, StartInv, Loaded, NEW d \in Exemplars, NEW w
    PROVE  ArcsCredited(d, w, Lattice(d, w), Lattice(d, FeatureWeights))
<1> DEFINE D == Upper \cup V2
           u == d[1]
           v == d[2]
           M == MachineWith(w)
           M2 == MachineWith(FeatureWeights)
           L == Lattice(d, w)
           F == Lattice(d, FeatureWeights)
           At(s) == Place(u, M, v, s)
           Arc(s, k) == ArcAt(u, M, v, s, k)
<1>1. /\ Finished /\ start \in 1..Len(arcs)
      /\ u \in Seq(D) /\ v \in Seq(D) /\ Eps \notin D
      /\ IsAutomaton(M) /\ IsAutomaton(M2)
      /\ L = LatticeOf(u, M, v) /\ F = LatticeOf(u, M2, v)
  BY LatticeHere
<1>2. Alike(M, M2)  BY <1>1, MachinesAlike
<1> DEFINE Edge1(s, k, y) == FstArc(arcs[s][k].in, arcs[s][k].out, y[s][k], arcs[s][k].to)
<1>3. /\ States(M) = 0..Len(arcs) /\ M.start = start /\ Len(M.out[0]) = 0
      /\ \A s \in 1..Len(arcs) : /\ Len(M.out[s]) = Len(arcs[s])
                                 /\ \A k \in 1..Len(arcs[s]) : M.out[s][k] = Edge1(s, k, w)
  BY <1>1, MachineShape
<1>4. \A s \in 1..Len(arcs) : \A k \in 1..Len(arcs[s]) :
        M2.out[s][k] = Edge1(s, k, FeatureWeights)
  BY <1>1, MachineShape
<1>5. Len(arcs) \in Nat /\ \A s \in 1..Len(arcs) : Len(arcs[s]) \in Nat
  BY <1>1, BHere DEF Finished, MachineInv
<1> HIDE DEF M, M2, D, u, v, L, F, At, Arc, Edge1
<1>6. /\ 0 \in States(L) => At(0) = start
      /\ \A s \in States(L) : \A k \in 1..Len(L.out[s]) :
           LET e == M.out[At(s)][Arc(s, k)]
           IN  /\ At(s) \in States(M) /\ Arc(s, k) \in 1..Len(M.out[At(s)])
               /\ L.out[s][k].in = e.in /\ L.out[s][k].out = e.out
               /\ L.out[s][k].w = Times(Times(One, e.w), One)
               /\ L.out[s][k].to \in States(L) /\ At(L.out[s][k].to) = e.to
  <2>1. ArcsFrom(u, M, v, L)  BY ONLY <1>1, LatticeArcs
  <2> QED  BY <1>3, <2>1 DEF ArcsFrom, At, Arc
<1>7. /\ States(F) = States(L)
      /\ \A s \in States(L) :
           /\ Len(F.out[s]) = Len(L.out[s]) /\ Place(u, M2, v, s) = At(s)
           /\ \A k : ArcAt(u, M2, v, s, k) = Arc(s, k)
  BY <1>1, <1>2, LatticesAlike DEF At, Arc
<1>8. \A s \in States(F) : \A k \in 1..Len(F.out[s]) :
        F.out[s][k].w
          = Times(Times(One, M2.out[Place(u, M2, v, s)][ArcAt(u, M2, v, s, k)].w), One)
  <2>1. ArcsFrom(u, M2, v, F)  BY ONLY <1>1, LatticeArcs
  <2> QED  BY <2>1 DEF ArcsFrom
<1>9. ASSUME NEW s \in States(L), NEW k \in 1..Len(L.out[s])
      PROVE  LET a == arcs[At(s)][Arc(s, k)]
             IN  /\ [id |-> IdOf(At(s), Arc(s, k)), src |-> At(s), arc |-> Arc(s, k)] \in Arcs
                 /\ k <= Len(F.out[s])
                 /\ IdOf(At(s), Arc(s, k)) = TrainerId(F.out[s][k].w.r[1] \div F.out[s][k].w.r[2])
                 /\ L.out[s][k].w.p = w[At(s)][Arc(s, k)].p
                 /\ L.out[s][k].in = a.in /\ L.out[s][k].out = a.out
                 /\ L.out[s][k].to \in States(L) /\ At(L.out[s][k].to) = a.to
  <2> DEFINE n == At(s)
             c == Arc(s, k)
             id == IdOf(n, c)
             e == M.out[n][c]
             f == M2.out[n][c]
  <2>1. /\ n \in States(M) /\ c \in 1..Len(M.out[n])
        /\ L.out[s][k].in = e.in /\ L.out[s][k].out = e.out
        /\ L.out[s][k].w = Times(Times(One, e.w), One)
        /\ L.out[s][k].to \in States(L) /\ At(L.out[s][k].to) = e.to
    BY <1>6
  <2>2. F.out[s][k].w = Times(Times(One, f.w), One) /\ k <= Len(F.out[s])
    <3>1. s \in States(F) /\ k \in 1..Len(F.out[s])  BY <1>7
    <3>2. Len(L.out[s]) \in Nat  BY <1>1, LatticeHere
    <3> QED  BY <1>7, <1>8, <3>1, <3>2
  <2> HIDE DEF n, c, id
  <2>3. n \in 1..Len(arcs) /\ c \in 1..Len(arcs[n])
    <3>1. n # 0
      <4>1. n = 0 => c \in 1..0  BY <1>3, <2>1
      <4>2. ~(c \in 1..0)  OBVIOUS
      <4> QED  BY <4>1, <4>2
    <3>2. n \in 1..Len(arcs)  BY <1>3, <1>5, <2>1, <3>1
    <3> QED  BY <1>3, <2>1, <3>2
  <2>4. e = Edge1(n, c, w) /\ f = Edge1(n, c, FeatureWeights)  BY <1>3, <1>4, <2>3
  <2>5. <<n, c>> \in ArcPlaces  BY <2>3 DEF ArcPlaces
  <2>6. id \in Nat
    <3>1. PICK m \in 1..Len(lines) : <<n, c>> = <<lines[m].src, lines[m].arc>>
      BY <1>1, <2>5, FinishedHere
    <3>2. IdOf(lines[m].src, lines[m].arc) = m - 1  BY <1>1, NumberOfLine
    <3>3. Len(lines) \in Nat  BY <1>1, FinishedHere
    <3>4. id = m - 1  BY <3>1, <3>2 DEF id
    <3> QED  BY <3>3, <3>4
  <2>7. [id |-> id, src |-> n, arc |-> c] \in Arcs  BY <2>5 DEF Arcs, id
  <2>8. FeatureWeights[n][c] = [p |-> <<1, 1>>, r |-> <<id + 1, 1>>]
    BY <2>3 DEF FeatureWeights, Stored, id
  <2>9. e.w = w[n][c] /\ e.in = arcs[n][c].in /\ e.out = arcs[n][c].out /\ e.to = arcs[n][c].to
    BY <2>4 DEF Edge1, FstArc
  <2>10. f.w.p = <<1, 1>> /\ f.w.r = <<id + 1, 1>>
    <3>1. f.w = FeatureWeights[n][c]  BY <2>4 DEF Edge1, FstArc
    <3> QED  BY <2>8, <3>1
  <2> DEFINE x == F.out[s][k].w.r
  <2>11. x = <<id + 1, 1>>
    <3> HIDE DEF f
    <3> QED  BY <2>2, <2>10, TimesOne
  <2>12. id = TrainerId(x[1] \div x[2])
    <3>1. (id + 1) \div 1 = id + 1  BY <2>6
    <3>2. x[1] = id + 1 /\ x[2] = 1  BY <2>11
    <3> HIDE DEF x
    <3> QED  BY <2>6, <3>1, <3>2 DEF TrainerId
  <2>13. L.out[s][k].w.p = w[n][c].p
    <3> HIDE DEF e
    <3> QED  BY <2>1, <2>9, TimesOne
  <2>14. id = TrainerId(F.out[s][k].w.r[1] \div F.out[s][k].w.r[2])  BY <2>12
  <2> QED  BY <2>1, <2>2, <2>7, <2>9, <2>13, <2>14 DEF n, c, id
<1>10. /\ States(F) = States(L)
       /\ 0 \in States(L) => PlaceOf(d, w, 0) = start
  BY <1>6, <1>7 DEF At, PlaceOf, M, u, v
<1>11. \A s, k : CreditOf(d, w, s, k) = [id |-> IdOf(At(s), Arc(s, k)), src |-> At(s),
                                         arc |-> Arc(s, k)]
  BY DEF CreditOf, At, Arc, PlaceOf, M, u, v
<1>12. \A s : PlaceOf(d, w, s) = At(s)  BY DEF PlaceOf, At, M, u, v
<1>13. ArcsCredited(d, w, L, F)
  <2>1. 0 \in States(L) => PlaceOf(d, w, 0) = start  BY <1>10
  <2>2. ASSUME NEW s \in States(L), NEW k \in 1..Len(L.out[s])
        PROVE  LET r == CreditOf(d, w, s, k)
                   a == arcs[r.src][r.arc]
               IN  /\ r \in Arcs /\ r.src = PlaceOf(d, w, s)
                   /\ k <= Len(F.out[s])
                   /\ r.id = TrainerId(F.out[s][k].w.r[1] \div F.out[s][k].w.r[2])
                   /\ L.out[s][k].w.p = w[r.src][r.arc].p
                   /\ L.out[s][k].in = a.in /\ L.out[s][k].out = a.out
                   /\ L.out[s][k].to \in States(L)
                   /\ PlaceOf(d, w, L.out[s][k].to) = a.to
    <3>1. CreditOf(d, w, s, k) = [id |-> IdOf(At(s), Arc(s, k)), src |-> At(s),
                                  arc |-> Arc(s, k)]
      BY <1>11
    <3> HIDE DEF At, Arc, L, F
    <3>2. /\ CreditOf(d, w, s, k).src = At(s) /\ CreditOf(d, w, s, k).arc = Arc(s, k)
          /\ CreditOf(d, w, s, k).id = IdOf(At(s), Arc(s, k))
      BY <3>1
    <3>3. PlaceOf(d, w, L.out[s][k].to) = At(L.out[s][k].to) /\ PlaceOf(d, w, s) = At(s)
      BY <1>12
    <3> QED  BY <1>9, <3>1, <3>2, <3>3
  <2> QED  BY <1>10, <2>1, <2>2 DEF ArcsCredited
<1> QED  BY <1>13 DEF L, F

-----------------------------------------------------------------------------
(* The steps of the E-step. *)

LEMMA InitCountInv == CountInit => CountInv
<1> SUFFICES ASSUME CountInit PROVE CountInv  OBVIOUS
<1>1. FeatInv  BY InitFeatInv DEF CountInit
<1>2. stage = "contexts"  BY DEF CountInit, FeatInit, Init
<1>3. StartInv  BY <1>2 DEF StartInv
<1>4. LatticeInv  BY NAssumption DEF CountInit, LatticeInv, Phases
<1> QED  BY <1>1, <1>3, <1>4 DEF CountInv

(* When FeatureReader is done nothing is left to be done for the machine. *)
LEMMA LoadedStill ==
    ASSUME FeatInv, Loaded, [FeatNext]_<<vars, featVars>>
    PROVE  UNCHANGED <<vars, featVars>>
<1>1. /\ stage = "done" /\ Len(featLines) = Len(lines) /\ Len(lines) \in Nat
  BY WhenLoaded DEF FeatInv, ReadInv, Finished
<1>2. CASE Next /\ UNCHANGED featVars
  BY <1>1, <1>2 DEF Next, AddContext, SetInitial, AddBoldArcs, StartNonBold,
                    AddNonBoldArcs, StartLabels, LabelArc, LabelState, Exit
<1>3. CASE FeaturizeLine  BY <1>1, <1>3 DEF FeaturizeLine
<1>4. CASE ReadLine  BY <1>4 DEF ReadLine
<1>5. CASE CloseFile  BY <1>5 DEF CloseFile
<1> QED  BY <1>2, <1>3, <1>4, <1>5 DEF FeatNext

(* Lattices of a machine that stands. *)
LEMMA SameLattices ==
    ASSUME UNCHANGED <<vars, featVars>>
    PROVE  /\ Loaded' <=> Loaded
           /\ \A d : Lattice(d, FeatureWeights)' = Lattice(d, FeatureWeights)
           /\ UNCHANGED score =>
                \A d : Lattice(d, LogWeights(score))' = Lattice(d, LogWeights(score))
<1>1. UNCHANGED <<arcs, start, numFeatures>>  BY DEF vars, featVars, readVars
<1>2. \A s, k : IdOf(s, k)' = IdOf(s, k)  BY <1>1 DEF IdOf, ArcPlaces
<1>3. FeatureWeights' = FeatureWeights  BY <1>1, <1>2 DEF FeatureWeights
<1>4. MachineWith(FeatureWeights)' = MachineWith(FeatureWeights)
  BY <1>1, <1>3 DEF MachineWith
<1>5. \A d : Lattice(d, FeatureWeights)' = Lattice(d, FeatureWeights)
  BY <1>4 DEF Lattice
<1>6. ASSUME UNCHANGED score
      PROVE  \A d : Lattice(d, LogWeights(score))' = Lattice(d, LogWeights(score))
  <2>1. LogWeights(score)' = LogWeights(score)  BY <1>1, <1>6 DEF LogWeights
  <2>2. MachineWith(LogWeights(score))' = MachineWith(LogWeights(score))
    BY <1>1, <2>1 DEF MachineWith
  <2> QED  BY <2>2 DEF Lattice
<1> QED  BY <1>1, <1>5, <1>6 DEF Loaded

LEMMA StandStill ==
    ASSUME CountInv, UNCHANGED <<vars, featVars>>
    PROVE  FeatInv' /\ StartInv'
<1>1. FeatInv'  BY NextFeatInv DEF CountInv
<1>2. UNCHANGED vars /\ BInv  BY DEF CountInv, FeatInv, MachineInv
<1>3. StartInv'  BY <1>2, NextStart DEF CountInv
<1> QED  BY <1>1, <1>3

LEMMA BuildCounts == CountInv /\ [FeatNext]_<<vars, featVars>> /\ UNCHANGED countVars => CountInv'
<1> SUFFICES ASSUME CountInv, [FeatNext]_<<vars, featVars>>, UNCHANGED countVars
             PROVE  CountInv'
  OBVIOUS
<1>1. FeatInv'  BY NextFeatInv DEF CountInv
<1>2. UNCHANGED <<phase, data, score, lattices, ex, log, alpha, beta,
                  state, latticeArc, observed>>
  BY DEF countVars
<1>3. [Next]_vars
  BY DEF FeatNext, FeaturizeLine, ReadLine, CloseFile
<1>4. StartInv'  BY <1>3, NextStart DEF CountInv, FeatInv, MachineInv
<1>5. LatticeInv'
  <2>1. CASE phase = "build"  BY <1>2, <2>1 DEF CountInv, LatticeInv
  <2>2. CASE phase # "build"
    <3>1. UNCHANGED <<vars, featVars>>
      BY <2>2, LoadedStill DEF CountInv, LatticeInv
    <3>2. /\ Loaded' <=> Loaded
          /\ \A d : Lattice(d, FeatureWeights)' = Lattice(d, FeatureWeights)
          /\ \A d : Lattice(d, LogWeights(score))' = Lattice(d, LogWeights(score))
      BY <1>2, <3>1, SameLattices
    <3>3. ArcsBefore(log)' = ArcsBefore(log) /\ States(log)' = States(log)
      BY <1>2 DEF ArcsBefore, States
    <3>4. (data[ex + 1])' = data[ex + 1]  BY <1>2
    <3> QED  BY <1>2, <2>2, <3>2, <3>3 DEF CountInv, LatticeInv
  <2> QED  BY <2>1, <2>2
<1> QED  BY <1>1, <1>4, <1>5 DEF CountInv

(* The steps of the trainer leave the script's state, and so the machine,    *)
(* alone.                                                                    *)
LEMMA AddTrainingDataStep == LatticeInv /\ UNCHANGED <<vars, featVars>> /\ AddTrainingData => LatticeInv'
<1> SUFFICES ASSUME LatticeInv, UNCHANGED <<vars, featVars>>, AddTrainingData
             PROVE  LatticeInv'
  OBVIOUS
<1>1. /\ phase' = "outer" /\ ex' = ex /\ Loaded
      /\ data' \in [1..N -> Exemplars]
      /\ lattices' = [n \in 1..N |-> Lattice(data'[n], FeatureWeights)]
  BY DEF AddTrainingData
<1>2. Loaded' /\ \A d : Lattice(d, FeatureWeights)' = Lattice(d, FeatureWeights)
  BY <1>1, SameLattices
<1>3. [n \in 1..N |-> Lattice(data[n], FeatureWeights)]'
        = [n \in 1..N |-> Lattice(data'[n], FeatureWeights)]
  BY <1>2
<1> QED  BY <1>1, <1>2, <1>3 DEF LatticeInv, Phases

(* What the lattices are does not depend on the step. *)
LEMMA LatticesStay ==
    ASSUME LatticeInv, phase # "build", UNCHANGED <<vars, featVars>>,
           UNCHANGED <<data, score, lattices>>
    PROVE  /\ Loaded' /\ (data \in [1..N -> Exemplars])'
           /\ (lattices = [n \in 1..N |-> Lattice(data[n], FeatureWeights)])'
           /\ \A d : Lattice(d, LogWeights(score))' = Lattice(d, LogWeights(score))
<1>1. /\ Loaded' /\ \A d : Lattice(d, FeatureWeights)' = Lattice(d, FeatureWeights)
      /\ \A d : Lattice(d, LogWeights(score))' = Lattice(d, LogWeights(score))
  BY SameLattices DEF LatticeInv
<1>2. [n \in 1..N |-> Lattice(data[n], FeatureWeights)]'
        = [n \in 1..N |-> Lattice(data[n], FeatureWeights)]
  BY <1>1
<1> QED  BY <1>1, <1>2 DEF LatticeInv

LEMMA BeginIterationStep == LatticeInv /\ UNCHANGED <<vars, featVars>> /\ BeginIteration => LatticeInv'
<1> SUFFICES ASSUME LatticeInv, UNCHANGED <<vars, featVars>>, BeginIteration
             PROVE  LatticeInv'
  OBVIOUS
<1>1. /\ phase = "outer" /\ phase' = "exemplar" /\ ex' = 0
      /\ UNCHANGED <<data, score, lattices>>
  BY DEF BeginIteration
<1> QED  BY <1>1, LatticesStay, NAssumption DEF LatticeInv, Phases

LEMMA ComposeExemplarStep == CountInv /\ UNCHANGED <<vars, featVars>> /\ ComposeExemplar => LatticeInv'
<1> SUFFICES ASSUME CountInv, UNCHANGED <<vars, featVars>>, ComposeExemplar
             PROVE  LatticeInv'
  OBVIOUS
<1>1. /\ phase = "exemplar" /\ ex < N /\ ex' = ex /\ state' = 0 /\ latticeArc' = 0
      /\ log' = Lattice(data[ex + 1], LogWeights(score))
      /\ phase' \in {"Undefined", "count"}
      /\ phase' = "count" => States(log') # {}
      /\ UNCHANGED <<data, score, lattices>>
  BY DEF ComposeExemplar
<1>2. LatticeInv /\ Loaded  BY <1>1 DEF CountInv, LatticeInv
<1>3. data[ex + 1] \in Exemplars  BY <1>1, <1>2, NAssumption DEF LatticeInv
<1>4. \A d : Lattice(d, LogWeights(score))' = Lattice(d, LogWeights(score))
  BY <1>1, <1>2, LatticesStay
<1>5. log' = Lattice(data[ex + 1], LogWeights(score))'  BY <1>1, <1>4
<1>6. /\ \E L \in Nat : States(log') = 0..(L - 1)
      /\ \A s \in States(log') : Len(log'.out[s]) \in Nat
  BY <1>1, <1>2, <1>3, LatticeHere DEF CountInv
<1>7. Cardinality(States(log')) \in Nat /\ ArcsBefore(log')[0] = 0
  BY <1>6, ArcsBeforeSteps
<1> QED  BY <1>1, <1>2, <1>5, <1>7, LatticesStay DEF LatticeInv, Phases

(* The walk over the lattice of features counts arcs of final_log: it comes  *)
(* to the end of both.                                                       *)
LEMMA CountLatticeStateStep ==
    CountInv /\ UNCHANGED <<vars, featVars>> /\ CountLatticeState => LatticeInv'
<1> SUFFICES ASSUME CountInv, UNCHANGED <<vars, featVars>>, CountLatticeState
             PROVE  LatticeInv'
  OBVIOUS
<1>1. /\ phase = "count" /\ state \in States(lattices[ex + 1])
      /\ latticeArc' = latticeArc + Len(log.out[state]) /\ state' = state + 1
      /\ UNCHANGED <<phase, data, score, lattices, ex, log>>
  BY DEF CountLatticeState
<1>2. /\ LatticeInv /\ Loaded /\ ex < N /\ ex \in 0..N
      /\ data \in [1..N -> Exemplars]
      /\ log = Lattice(data[ex + 1], LogWeights(score))
      /\ lattices = [n \in 1..N |-> Lattice(data[n], FeatureWeights)]
      /\ States(log) # {} /\ state \in 0..Cardinality(States(log))
      /\ latticeArc = ArcsBefore(log)[state]
  BY <1>1 DEF CountInv, LatticeInv
<1>3. ex + 1 \in 1..N  BY <1>2, NAssumption
<1> DEFINE d == data[ex + 1]
<1>4. d \in Exemplars /\ lattices[ex + 1] = Lattice(d, FeatureWeights)  BY <1>2, <1>3
<1>5. States(lattices[ex + 1]) = States(log)
  <2>1. FeatInv /\ StartInv /\ Loaded  BY <1>2 DEF CountInv
  <2>2. ArcsCredited(d, LogWeights(score), Lattice(d, LogWeights(score)),
                     Lattice(d, FeatureWeights))
    BY <1>4, <2>1, Credits
  <2>3. ArcsCredited(d, LogWeights(score), log, lattices[ex + 1])  BY <1>2, <1>4, <2>2
  <2> QED  BY ONLY <2>3 DEF ArcsCredited
<1>6. PICK L \in Nat : States(log) = 0..(L - 1)
  BY <1>2, <1>4, LatticeHere DEF CountInv
<1>7. \A s \in States(log) : Len(log.out[s]) \in Nat
  BY <1>2, <1>4, LatticeHere DEF CountInv
<1>8. /\ Cardinality(States(log)) = L
      /\ \A k \in 1..L : ArcsBefore(log)[k] = ArcsBefore(log)[k - 1] + Len(log.out[k - 1])
  BY <1>6, <1>7, ArcsBeforeSteps
<1>9. state' \in 1..L /\ state' - 1 = state  BY <1>1, <1>5, <1>6
<1>10. latticeArc' = ArcsBefore(log)[state']  BY <1>1, <1>2, <1>8, <1>9
<1>11. state' \in 0..Cardinality(States(log))  BY <1>8, <1>9
<1>12. ArcsBefore(log)' = ArcsBefore(log) /\ States(log)' = States(log)
  BY <1>1 DEF ArcsBefore, States
<1>13. log' = Lattice(data[ex + 1], LogWeights(score))'
  BY <1>1, <1>2, SameLattices
<1> QED  BY <1>1, <1>2, <1>10, <1>11, <1>12, <1>13, LatticesStay DEF LatticeInv

LEMMA EndExemplarStep == LatticeInv /\ UNCHANGED <<vars, featVars>> /\ EndExemplar => LatticeInv'
<1> SUFFICES ASSUME LatticeInv, UNCHANGED <<vars, featVars>>, EndExemplar
             PROVE  LatticeInv'
  OBVIOUS
<1>1. /\ phase = "count" /\ phase' = "exemplar" /\ ex' = ex + 1
      /\ UNCHANGED <<data, score, lattices>>
  BY DEF EndExemplar
<1>2. ex' \in 0..N  BY <1>1, NAssumption DEF LatticeInv
<1> QED  BY <1>1, <1>2, LatticesStay DEF LatticeInv, Phases

LEMMA NextCountInv == CountInv /\ [CountNext]_<<vars, featVars, countVars>> => CountInv'
<1> SUFFICES ASSUME CountInv, [CountNext]_<<vars, featVars, countVars>> PROVE CountInv'
  OBVIOUS
<1>1. CASE /\ [FeatNext]_<<vars, featVars>>
           /\ UNCHANGED countVars
  BY <1>1, BuildCounts
<1>2. CASE /\ UNCHANGED <<vars, featVars>>
           /\ \/ AddTrainingData \/ BeginIteration \/ ComposeExemplar
              \/ CountLatticeState \/ EndExemplar
  <2>1. FeatInv' /\ StartInv'  BY <1>2, StandStill
  <2>2. LatticeInv'
    BY <1>2, AddTrainingDataStep, BeginIterationStep, ComposeExemplarStep,
       CountLatticeStateStep, EndExemplarStep DEF CountInv
  <2> QED  BY <2>1, <2>2 DEF CountInv
<1> QED  BY <1>1, <1>2 DEF CountNext

LEMMA CountInvHolds == CountSpec => []CountInv
BY InitCountInv, NextCountInv, PTL DEF CountSpec

(* The k-th arc of a state of final_log is credited to the arc of the        *)
(* machine that it was made from, for every exemplar, machine and weights.   *)
THEOREM CountsCreditTheirArcs == CountSpec => []CreditedToItsArc
<1>1. ASSUME CountInv PROVE CreditedToItsArc
  <2> USE <1>1
  <2> SUFFICES ASSUME phase = "count"
               PROVE  /\ States(lattices[ex + 1]) = States(log)
                      /\ \A s \in States(log) : \A k \in 1..Len(log.out[s]) :
                           LET e == log.out[s][k]
                           IN  \E r \in Arcs :
                                 LET a == arcs[r.src][r.arc]
                                 IN  /\ r.id = Mapper(s, k)
                                     /\ e.w.p = LogWeights(score)[r.src][r.arc].p
                                     /\ e.in = a.in /\ e.out = a.out
                                     /\ s = log.start => r.src = start
                                     /\ \A m \in 1..Len(log.out[e.to]) :
                                          \E q \in Arcs : q.id = Mapper(e.to, m) /\ q.src = a.to
    BY DEF CreditedToItsArc
  <2> DEFINE d == data[ex + 1]
             w == LogWeights(score)
             F == Lattice(d, FeatureWeights)
             r(s, k) == CreditOf(d, w, s, k)
  <2>1. /\ FeatInv /\ StartInv /\ Loaded /\ ex + 1 \in 1..N
        /\ data \in [1..N -> Exemplars] /\ log = Lattice(d, w)
        /\ lattices = [n \in 1..N |-> Lattice(data[n], FeatureWeights)]
    BY NAssumption DEF CountInv, LatticeInv
  <2>2. d \in Exemplars /\ lattices[ex + 1] = F  BY <2>1
  <2>3. log.start = 0 /\ \A s \in States(log) : Len(log.out[s]) \in Nat
    BY <2>1, <2>2, LatticeHere
  <2>4. ArcsCredited(d, w, log, F)  BY <2>1, <2>2, Credits
  <2>5. \A s \in States(log) : \A k \in 1..Len(log.out[s]) : Mapper(s, k) = r(s, k).id
    <3> HIDE DEF d, w, F
    <3> QED  BY <2>2, <2>4 DEF Mapper, ArcsCredited
  <2> HIDE DEF d, w, F
  <2>7. ASSUME NEW s \in States(log), NEW k \in 1..Len(log.out[s])
        PROVE  LET e == log.out[s][k]
               IN  \E p \in Arcs :
                     LET a == arcs[p.src][p.arc]
                     IN  /\ p.id = Mapper(s, k)
                         /\ e.w.p = w[p.src][p.arc].p
                         /\ e.in = a.in /\ e.out = a.out
                         /\ s = log.start => p.src = start
                         /\ \A m \in 1..Len(log.out[e.to]) :
                              \E q \in Arcs : q.id = Mapper(e.to, m) /\ q.src = a.to
    <3> DEFINE e == log.out[s][k]
               p == r(s, k)
               a == arcs[p.src][p.arc]
    <3>1. /\ p \in Arcs /\ p.id = Mapper(s, k) /\ e.w.p = w[p.src][p.arc].p
          /\ e.in = a.in /\ e.out = a.out /\ e.to \in States(log)
          /\ PlaceOf(d, w, e.to) = a.to /\ p.src = PlaceOf(d, w, s)
      BY <2>4, <2>5 DEF ArcsCredited
    <3>2. s = log.start => p.src = start  BY <2>3, <2>4, <3>1 DEF ArcsCredited
    <3>3. ASSUME NEW m \in 1..Len(log.out[e.to])
          PROVE  \E q \in Arcs : q.id = Mapper(e.to, m) /\ q.src = a.to
      <4>1. /\ r(e.to, m) \in Arcs /\ r(e.to, m).id = Mapper(e.to, m)
            /\ r(e.to, m).src = a.to
        BY <2>4, <2>5, <3>1 DEF ArcsCredited
      <4> QED  BY <4>1
    <3> QED  BY <3>1, <3>2, <3>3
  <2>8. States(lattices[ex + 1]) = States(log)  BY <2>2, <2>4 DEF ArcsCredited
  <2> QED  BY <2>7, <2>8 DEF w
<1> QED  BY <1>1, CountInvHolds, PTL

-----------------------------------------------------------------------------
(* Between the words of an exemplar the edit machine always goes on: it      *)
(* absorbs what it has not read while its window is not full, writes what is *)
(* left to write, deletes the letters in its window, and finds itself in     *)
(* front of the boundary symbols when all is read.                           *)

IsUpperWord(u) ==
    /\ u \in Seq(Upper) /\ UrcMax <= Len(u)
    /\ \A k \in 1..Len(u) : u[k] = Sharp <=> k > Len(u) - UrcMax

(* The window of context c ends at position i of u. *)
Live(u, v, i, c, j) ==
    /\ c \in AllContexts /\ i \in 0..Len(u) /\ j \in 0..Len(v)
    /\ Len(c.urc) <= i
    /\ \A k \in 1..Len(c.urc) : c.urc[k] = u[i - Len(c.urc) + k]
    /\ Len(c.urc) = i \/ Len(c.urc) >= UrcMax - 1
    /\ i = Len(u) => Len(c.urc) = UrcMax

Togo(u, v, i, c, j) == 2 * (Len(u) - i) + (Len(v) - j) + Len(c.urc) + 1

GoesOn(u, v, i, c, j, e) ==
    \E i2 \in 0..Len(u), j2 \in 0..Len(v) :
      /\ Reads(i, i2, u, e.in) /\ Reads(j, j2, v, e.out)
      /\ Live(u, v, i2, e.to, j2) /\ Togo(u, v, i2, e.to, j2) < Togo(u, v, i, c, j)

LEMMA LiveHere ==
    ASSUME NEW u, IsUpperWord(u), NEW v \in Seq(V2), NEW i, NEW c, NEW j, Live(u, v, i, c, j)
    PROVE  /\ UrcMax \in Nat \ {0} /\ Len(u) \in Nat /\ Len(v) \in Nat /\ UrcMax <= Len(u)
           /\ i \in Nat /\ i <= Len(u) /\ j \in Nat /\ j <= Len(v)
           /\ c.urc \in Seq(Upper) /\ Len(c.urc) \in Nat /\ Len(c.urc) <= UrcMax
           /\ Len(c.urc) <= i /\ SharpAtEnd(c.urc)
           /\ IsBold(c) <=> Len(c.urc) = UrcMax
           /\ Togo(u, v, i, c, j) \in Nat
<1>1. UrcMax \in Nat \ {0}  BY MaxAssumption, TopologyAssumption
<1>2. /\ Len(u) \in Nat /\ UrcMax <= Len(u) /\ Len(v) \in Nat  BY DEF IsUpperWord
<1>3. /\ c \in AllContexts /\ i \in 0..Len(u) /\ j \in 0..Len(v) /\ Len(c.urc) <= i
  BY DEF Live
<1>4. /\ c.urc \in Seq(Upper) /\ Len(c.urc) \in 0..UrcMax /\ SharpAtEnd(c.urc)
      /\ IsBold(c) <=> Len(c.urc) = UrcMax
  BY <1>3, AllContextsComplete, ContextWindows
<1>5. Togo(u, v, i, c, j) \in Nat
  <2>1. Len(u) - i \in Nat /\ Len(v) - j \in Nat /\ Len(c.urc) \in Nat
    BY <1>1, <1>2, <1>3, <1>4
  <2> DEFINE a == Len(u) - i
             b == Len(v) - j
             n == Len(c.urc)
  <2>2. Togo(u, v, i, c, j) = 2 * a + b + n + 1  BY DEF Togo
  <2> HIDE DEF a, b, n
  <2>3. a \in Nat /\ b \in Nat /\ n \in Nat  BY <2>1 DEF a, b, n
  <2> QED  BY <2>2, <2>3
<1> QED  BY <1>1, <1>2, <1>3, <1>4, <1>5

LEMMA AbsorbsOn ==
    ASSUME NEW u, IsUpperWord(u), NEW v \in Seq(V2), NEW i, NEW c, NEW j,
           Live(u, v, i, c, j), ~IsBold(c)
    PROVE  \E k \in 1..Len(EdgesOf(c)) : GoesOn(u, v, i, c, j, EdgesOf(c)[k])
<1> DEFINE n == Len(c.urc)
           x == u[i + 1]
           t == Append(c.urc, x)
           e == Edge(AbsTarget(c, x), x, Eps, "ABS")
<1>1. /\ UrcMax \in Nat \ {0} /\ Len(u) \in Nat /\ Len(v) \in Nat
      /\ i \in Nat /\ i <= Len(u) /\ j \in Nat /\ j <= Len(v)
      /\ c.urc \in Seq(Upper) /\ n \in Nat /\ n < UrcMax /\ n <= i /\ c \in AllContexts
      /\ UrcMax <= Len(u)
  <2>1. n <= UrcMax /\ n # UrcMax /\ n \in Nat /\ UrcMax \in Nat  BY LiveHere
  <2>2. n < UrcMax  BY <2>1
  <2> QED  BY <2>2, LiveHere DEF Live
<1>2. /\ i < Len(u) /\ i + 1 \in 1..Len(u)
      /\ \A k \in 1..n : c.urc[k] = u[i - n + k]
      /\ n = i \/ n >= UrcMax - 1
  <2>1. /\ \A k \in 1..n : c.urc[k] = u[i - n + k]
        /\ n = i \/ n >= UrcMax - 1
        /\ i = Len(u) => n = UrcMax
    BY DEF Live
  <2> HIDE DEF n
  <2>2. i # Len(u)  BY <1>1, <2>1
  <2>3. i < Len(u) /\ i + 1 \in 1..Len(u)  BY <1>1, <2>2
  <2> QED  BY <2>1, <2>3
<1>3. x \in Upper  BY <1>2 DEF IsUpperWord
<1>4. AddReverse(c.urc, x, UrcMax) = t  BY <1>1, <1>3, AddReverseAppends
<1>5. /\ Len(t) = n + 1 /\ \A k \in 1..n : t[k] = c.urc[k]
      /\ t[n + 1] = x
  BY <1>1, <1>3, AppendProperties
<1>6. \A k \in 1..(n + 1) : t[k] = u[i - n + k] /\ i - n + k \in 1..Len(u)
  <2> TAKE k \in 1..(n + 1)
  <2>1. i - n + k \in 1..Len(u)  BY <1>1, <1>2
  <2>2. CASE k = n + 1
    <3>0. i \in Nat /\ n \in Nat  BY <1>1
    <3>1. i - n + k = i + 1
      <4> HIDE DEF n
      <4> QED  BY <2>2, <3>0
    <3> HIDE DEF t, n
    <3> QED  BY <1>5, <2>1, <2>2, <3>1
  <2>3. CASE k # n + 1
    <3>1. k \in 1..n  BY <1>1, <2>3
    <3> HIDE DEF t, n
    <3> QED  BY <1>2, <1>5, <2>1, <3>1
  <2> QED  BY <2>2, <2>3
<1> HIDE DEF n, t, x
<1>7. SharpAtEnd(t)
  <2> SUFFICES ASSUME NEW a \in 1..(n + 1), NEW b \in 1..(n + 1), a < b, t[a] = Sharp
               PROVE  t[b] = Sharp
    BY <1>5 DEF SharpAtEnd
  <2>1. u[i - n + a] = Sharp /\ i - n + a \in 1..Len(u) /\ i - n + b \in 1..Len(u)
    BY <1>6
  <2>2. i - n + a > Len(u) - UrcMax  BY <2>1 DEF IsUpperWord
  <2>3. i - n + b > Len(u) - UrcMax  BY <1>1, <2>2
  <2>4. u[i - n + b] = Sharp  BY <2>1, <2>3 DEF IsUpperWord
  <2> QED  BY <1>6, <2>4
<1>8. CanAbsorb(c, x)  BY <1>1, <1>4, <1>7 DEF CanAbsorb
<1>9. PICK k \in 1..Len(EdgesOf(c)) : EdgesOf(c)[k] = e
  BY <1>3, <1>8, AbsorptionAdded DEF EdgesOf
<1>10. e \in Absorptions(c)  BY <1>3, <1>8 DEF Absorptions
<1>11. /\ e.to \in AllContexts /\ e.to.urc = t /\ e.in = x /\ e.out = Eps
  <2>1. e \in ContextArcs  BY <1>1, <1>10, AbsorptionsToContexts
  <2>2. e.to.urc = t  BY <1>4 DEF Edge, AbsTarget
  <2> QED  BY <2>1, <2>2 DEF ContextArcs, Edge
<1> HIDE DEF e
<1>12. Live(u, v, i + 1, e.to, j)
  <2>1. \A m \in 1..(n + 1) : t[m] = u[(i + 1) - (n + 1) + m]
    <3> TAKE m \in 1..(n + 1)
    <3>1. (i + 1) - (n + 1) + m = i - n + m  BY <1>1
    <3> QED  BY <1>6, <3>1
  <2>2. /\ i + 1 \in 0..Len(u) /\ j \in 0..Len(v) /\ n + 1 <= i + 1
        /\ n + 1 = i + 1 \/ n + 1 >= UrcMax - 1
        /\ i + 1 = Len(u) => n + 1 = UrcMax
    BY <1>1, <1>2
  <2> QED  BY <1>5, <1>11, <2>1, <2>2 DEF Live
<1>13. Togo(u, v, i + 1, e.to, j) < Togo(u, v, i, c, j)
  <2>1. Togo(u, v, i + 1, e.to, j) = 2 * (Len(u) - (i + 1)) + (Len(v) - j) + (n + 1) + 1
    BY <1>5, <1>11 DEF Togo
  <2>2. Togo(u, v, i, c, j) = 2 * (Len(u) - i) + (Len(v) - j) + n + 1  BY DEF Togo, n
  <2> QED  BY <1>1, <2>1, <2>2
<1>14. Reads(i, i + 1, u, e.in) /\ Reads(j, j, v, e.out)
  BY <1>2, <1>11 DEF Reads, x
<1>15. i + 1 \in 0..Len(u) /\ j \in 0..Len(v)  BY <1>1, <1>2
<1> QED  BY <1>9, <1>12, <1>13, <1>14, <1>15 DEF GoesOn

LEMMA InsertsOn ==
    ASSUME NEW u, IsUpperWord(u), NEW v \in Seq(V2), NEW i, NEW c, NEW j,
           Live(u, v, i, c, j), IsBold(c), j < Len(v)
    PROVE  \E k \in 1..Len(EdgesOf(c)) : GoesOn(u, v, i, c, j, EdgesOf(c)[k])
<1> DEFINE x == v[j + 1]
           e == Edge(InsTarget(c, x), Eps, x, "INS")
<1>1. /\ i \in Nat /\ i <= Len(u) /\ Len(u) \in Nat /\ Len(v) \in Nat
      /\ j \in Nat /\ c \in AllContexts /\ Len(c.urc) \in Nat
  BY LiveHere DEF Live
<1>2. x \in V2
  <2>1. j + 1 \in 1..Len(v)  BY <1>1
  <2> QED  BY <2>1
<1> HIDE DEF x
<1>3. PICK k \in 1..Len(EdgesOf(c)) : EdgesOf(c)[k] = e
  BY <1>2, InsertionAdded DEF EdgesOf
<1>4. /\ e.to \in AllContexts /\ e.to.urc = c.urc /\ e.in = Eps /\ e.out = x
  <2>1. e \in Insertions(c)  BY <1>2 DEF Insertions
  <2>2. e \in ContextArcs /\ e.to.urc = c.urc  BY <1>1, <2>1, InsertionsToContexts
  <2> QED  BY <2>2 DEF ContextArcs, Edge
<1> HIDE DEF e
<1>5. i \in 0..Len(u) /\ j + 1 \in 0..Len(v)  BY <1>1
<1>6. Live(u, v, i, e.to, j + 1)  BY <1>4, <1>5 DEF Live
<1>7. Togo(u, v, i, e.to, j + 1) < Togo(u, v, i, c, j)
  <2> DEFINE a == 2 * (Len(u) - i)
             n == Len(c.urc)
             m == Len(v)
  <2>1. Togo(u, v, i, e.to, j + 1) = a + (m - (j + 1)) + n + 1  BY <1>4 DEF Togo
  <2>2. Togo(u, v, i, c, j) = a + (m - j) + n + 1  BY DEF Togo
  <2>3. a \in Int /\ n \in Int /\ m \in Int /\ j \in Int  BY <1>1
  <2> HIDE DEF a, n, m
  <2> QED  BY <2>1, <2>2, <2>3
<1>8. Reads(i, i, u, e.in) /\ Reads(j, j + 1, v, e.out)  BY <1>4 DEF Reads, x
<1> QED  BY <1>3, <1>5, <1>6, <1>7, <1>8 DEF GoesOn

LEMMA DeletesOn ==
    ASSUME NEW u, IsUpperWord(u), NEW v \in Seq(V2), NEW i, NEW c, NEW j,
           Live(u, v, i, c, j), IsBold(c), CanRead(c)
    PROVE  \E k \in 1..Len(EdgesOf(c)) : GoesOn(u, v, i, c, j, EdgesOf(c)[k])
<1> DEFINE n == UrcMax
           t == Bump2(c.urc)
           e == Edge(DelTarget(c), Eps, Eps, "DEL")
<1>1. /\ n \in Nat \ {0} /\ Len(u) \in Nat /\ Len(v) \in Nat /\ n <= Len(u)
      /\ i \in Nat /\ i <= Len(u) /\ j \in Nat /\ j <= Len(v)
      /\ c.urc \in Seq(Upper) /\ Len(c.urc) = n /\ n <= i /\ c \in AllContexts
      /\ \A k \in 1..n : c.urc[k] = u[i - n + k]
  <2>1. Len(c.urc) = n  BY LiveHere
  <2>2. c \in AllContexts /\ \A k \in 1..n : c.urc[k] = u[i - n + k]  BY <2>1 DEF Live
  <2> QED  BY <2>1, <2>2, LiveHere
<1>2. c.urc # <<>> /\ c.urc[1] # Sharp  BY DEF CanRead
<1>3. Len(t) = n - 1 /\ \A k \in 1..(n - 1) : t[k] = c.urc[k + 1]
  <2>1. c.urc \in Seq(Upper) /\ c.urc # <<>> /\ Len(c.urc) = n  BY <1>1, <1>2
  <2> HIDE DEF n
  <2> QED  BY ONLY <2>1, Bump2Shifts DEF t
<1> HIDE DEF t, n
<1>4. i < Len(u)
  <2>1. i - n + 1 \in 1..Len(u) /\ 1 \in 1..n  BY <1>1
  <2>2. u[i - n + 1] # Sharp  BY <1>1, <1>2, <2>1
  <2>3. ~(i - n + 1 > Len(u) - n)  BY <2>1, <2>2 DEF IsUpperWord, n
  <2> QED  BY <1>1, <2>3
<1>5. PICK m \in 1..Len(EdgesOf(c)) : EdgesOf(c)[m] = e
  BY <1>1, DeletionAdded DEF EdgesOf
<1>6. /\ e.to \in AllContexts /\ e.to.urc = t /\ e.in = Eps /\ e.out = Eps
  <2>1. e \in Deletions(c)  BY DEF Deletions
  <2>2. e \in ContextArcs  BY <1>1, <2>1, ReadingEditsToContexts
  <2>3. e.to.urc = t  BY DEF Edge, DelTarget, t
  <2> QED  BY <2>2, <2>3 DEF ContextArcs, Edge
<1> HIDE DEF e
<1>7. i \in 0..Len(u) /\ j \in 0..Len(v)  BY <1>1
<1>8. Live(u, v, i, e.to, j)
  <2>1. \A k \in 1..(n - 1) : t[k] = u[i - (n - 1) + k]
    <3> TAKE k \in 1..(n - 1)
    <3>0. i \in Nat /\ n \in Nat \ {0}  BY <1>1
    <3>1. k + 1 \in 1..n /\ i - n + (k + 1) = i - (n - 1) + k  BY <3>0
    <3>2. t[k] = c.urc[k + 1] /\ c.urc[k + 1] = u[i - n + (k + 1)]  BY <1>1, <1>3, <3>1
    <3> QED  BY <3>1, <3>2
  <2>2. n - 1 <= i /\ n - 1 >= n - 1  BY <1>1
  <2>3. e.to.urc = t /\ Len(e.to.urc) = n - 1  BY <1>3, <1>6
  <2>4. i # Len(u)  BY <1>1, <1>4
  <2> QED  BY <1>6, <1>7, <2>1, <2>2, <2>3, <2>4 DEF Live, n
<1>9. Togo(u, v, i, e.to, j) < Togo(u, v, i, c, j)
  <2>1. Togo(u, v, i, e.to, j) = 2 * (Len(u) - i) + (Len(v) - j) + (n - 1) + 1
    BY <1>3, <1>6 DEF Togo
  <2>2. Togo(u, v, i, c, j) = 2 * (Len(u) - i) + (Len(v) - j) + n + 1  BY <1>1 DEF Togo
  <2> QED  BY <1>1, <2>1, <2>2
<1>10. Reads(i, i, u, e.in) /\ Reads(j, j, v, e.out)  BY <1>6 DEF Reads
<1> QED  BY <1>5, <1>7, <1>8, <1>9, <1>10 DEF GoesOn

LEMMA EndsThere ==
    ASSUME NEW u, IsUpperWord(u), NEW v \in Seq(V2), NEW i, NEW c, NEW j,
           Live(u, v, i, c, j), IsBold(c), ~CanRead(c)
    PROVE  HasFinalArc(c) /\ i = Len(u)
<1> DEFINE n == UrcMax
<1>1. /\ n \in Nat \ {0} /\ Len(u) \in Nat /\ n <= Len(u) /\ i \in Nat /\ i <= Len(u)
      /\ c.urc \in Seq(Upper) /\ Len(c.urc) = n /\ n <= i /\ SharpAtEnd(c.urc)
      /\ \A k \in 1..n : c.urc[k] = u[i - n + k]
  <2>1. Len(c.urc) = n  BY LiveHere
  <2>2. \A k \in 1..n : c.urc[k] = u[i - n + k]  BY <2>1 DEF Live
  <2> QED  BY <2>1, <2>2, LiveHere
<1>2. c.urc # <<>>  BY <1>1
<1>3. c.urc[1] = Sharp  BY <1>2 DEF CanRead
<1>4. 1 \in 1..n /\ i - n + 1 \in 1..Len(u)  BY <1>1
<1>5. i - n + 1 > Len(u) - n  BY <1>1, <1>3, <1>4 DEF IsUpperWord
<1>6. i = Len(u)  BY <1>1, <1>5
<1>7. AllSharp(c.urc)
  <2> SUFFICES ASSUME NEW k \in 1..n PROVE c.urc[k] = Sharp  BY <1>1 DEF AllSharp
  <2>1. CASE k = 1  BY <1>3, <2>1
  <2>2. CASE k # 1
    <3>1. 1 < k  BY <1>1, <2>2
    <3> QED  BY <1>1, <1>3, <1>4, <3>1 DEF SharpAtEnd
  <2> QED  BY <2>1, <2>2
<1> QED  BY <1>1, <1>6, <1>7 DEF HasFinalArc

(* So every place from which it goes on is on a walk to the end, and the     *)
(* lattice of an exemplar has a path.                                        *)
LEMMA LatticesHavePaths ==
    ASSUME FeatInv, StartInv, CompleteInv, Loaded, NEW d \in Exemplars, NEW w
    PROVE  States(Lattice(d, w)) # {}
<1> DEFINE u == d[1]
           v == d[2]
           M == MachineWith(w)
           D == Upper \cup V2
           ContextAt(s) == CHOOSE c \in AllContexts : lookup[c] = s
           Place3 == (0..Len(u)) \X (0..Len(arcs)) \X (0..Len(v))
           T == {t \in Place3 :
                   \/ t[2] = 0 /\ t[1] = Len(u) /\ t[3] = Len(v)
                   \/ t[2] # 0 /\ Live(u, v, t[1], ContextAt(t[2]), t[3])}
           left == [t \in T |-> IF t[2] = 0 THEN 0
                                ELSE Togo(u, v, t[1], ContextAt(t[2]), t[3])]
<1>1. /\ Finished /\ start \in 1..Len(arcs) /\ u \in Seq(D) /\ v \in Seq(D) /\ Eps \notin D
      /\ IsAutomaton(M) /\ Lattice(d, w) = LatticeOf(u, M, v)
  BY LatticeHere
<1>2. IsUpperWord(u) /\ v \in Seq(V2)  BY ExemplarsAssumption DEF IsUpperWord
<1>3. start = lookup[InitialContext]  BY <1>1, StartHere
<1>4. /\ lookup \in [AllContexts -> 1..Len(arcs)] /\ Len(arcs) \in Nat
      /\ \A c, e \in AllContexts : lookup[c] = lookup[e] => c = e
      /\ \A s \in 1..Len(arcs) : \E c \in AllContexts : lookup[c] = s
      /\ Numbered = AllContexts /\ Unvisited = {}
  BY <1>1, BHere DEF Finished, MachineInv, BInv, TableInv, StageInv, Numbered, Unvisited
<1>5. /\ States(M) = 0..Len(arcs) /\ M.start = start /\ M.final = {0}
      /\ \A s \in 1..Len(arcs) :
           /\ Len(M.out[s]) = Len(arcs[s])
           /\ \A k \in 1..Len(arcs[s]) :
                M.out[s][k] = FstArc(arcs[s][k].in, arcs[s][k].out, w[s][k], arcs[s][k].to)
  BY <1>1, MachineShape
<1> HIDE DEF u, v, M, D
<1>6. ASSUME NEW s \in 1..Len(arcs)
      PROVE  ContextAt(s) \in AllContexts /\ lookup[ContextAt(s)] = s
  BY <1>4
<1>7. \A c \in AllContexts : lookup[c] \in 1..Len(arcs) /\ ContextAt(lookup[c]) = c
  <2> TAKE c \in AllContexts
  <2>1. lookup[c] \in 1..Len(arcs)  BY <1>4
  <2>2. ContextAt(lookup[c]) \in AllContexts /\ lookup[ContextAt(lookup[c])] = lookup[c]
    BY <1>6, <2>1
  <2> HIDE DEF ContextAt
  <2> QED  BY <1>4, <2>1, <2>2
<1> HIDE DEF ContextAt
<1>8. Len(u) \in Nat /\ Len(v) \in Nat  BY <1>2 DEF IsUpperWord
<1>9. ASSUME NEW t \in T, t[2] # 0
      PROVE  /\ t[2] \in 1..Len(arcs) /\ t[1] \in 0..Len(u) /\ t[3] \in 0..Len(v)
             /\ Live(u, v, t[1], ContextAt(t[2]), t[3])
             /\ left[t] = Togo(u, v, t[1], ContextAt(t[2]), t[3])
  <2>1. t \in Place3 /\ Live(u, v, t[1], ContextAt(t[2]), t[3])  BY <1>9
  <2>2. t[2] \in 0..Len(arcs) /\ t[1] \in 0..Len(u) /\ t[3] \in 0..Len(v)  BY <2>1
  <2>3. t[2] \in 1..Len(arcs)  BY <1>4, <1>9, <2>2
  <2>4. left[t] = Togo(u, v, t[1], ContextAt(t[2]), t[3])  BY <1>9
  <2> QED  BY <2>1, <2>2, <2>3, <2>4
<1>10. ASSUME NEW i \in 0..Len(u), NEW c, NEW j \in 0..Len(v), Live(u, v, i, c, j)
       PROVE  /\ <<i, lookup[c], j>> \in T
              /\ left[<<i, lookup[c], j>>] = Togo(u, v, i, c, j)
              /\ Togo(u, v, i, c, j) \in Nat
  <2>1. c \in AllContexts  BY <1>10 DEF Live
  <2>2. lookup[c] \in 1..Len(arcs) /\ ContextAt(lookup[c]) = c  BY <1>7, <2>1
  <2>3. <<i, lookup[c], j>> \in Place3 /\ lookup[c] # 0  BY <1>4, <2>2
  <2>4. <<i, lookup[c], j>> \in T  BY <1>10, <2>2, <2>3
  <2>5. left[<<i, lookup[c], j>>] = Togo(u, v, i, c, j)  BY <2>2, <2>3, <2>4
  <2>6. Togo(u, v, i, c, j) \in Nat  BY <1>2, <1>10, LiveHere
  <2> QED  BY <2>4, <2>5, <2>6
<1> DEFINE End == <<Len(u), 0, Len(v)>>
<1>11. End \in T /\ left[End] = 0
  <2>1. End \in Place3  BY <1>4, <1>8
  <2> QED  BY <2>1
<1>12. T \in SUBSET ((0..Len(u)) \X States(M) \X (0..Len(v)))  BY <1>5
<1>13. left \in [T -> Nat]
  <2>1. ASSUME NEW t \in T
        PROVE  (IF t[2] = 0 THEN 0 ELSE Togo(u, v, t[1], ContextAt(t[2]), t[3])) \in Nat
    <3>1. t[2] # 0 => Live(u, v, t[1], ContextAt(t[2]), t[3])  BY <1>9
    <3> HIDE DEF T
    <3>2. t[2] # 0 => Togo(u, v, t[1], ContextAt(t[2]), t[3]) \in Nat
      BY <1>2, <3>1, LiveHere
    <3> QED  BY <3>2
  <2> QED  BY <2>1
<1> HIDE DEF T, left, Place3
<1>14. ASSUME NEW t \in T
       PROVE  \/ t[1] = Len(u) /\ t[2] \in M.final /\ t[3] = Len(v)
              \/ \E t2 \in T : left[t2] < left[t] /\ \E k : Goes(u, M, v, t, k, t2)
  <2>1. CASE t[2] = 0
    <3>1. t[1] = Len(u) /\ t[3] = Len(v)  BY <2>1 DEF T
    <3> QED  BY <1>5, <2>1, <3>1
  <2>2. CASE t[2] # 0
    <3> DEFINE i == t[1]
               s == t[2]
               j == t[3]
               c == ContextAt(s)
    <3>1. /\ s \in 1..Len(arcs) /\ c \in AllContexts /\ lookup[c] = s
          /\ i \in 0..Len(u) /\ j \in 0..Len(v)
          /\ Live(u, v, i, c, j) /\ left[t] = Togo(u, v, i, c, j)
      BY <1>6, <1>9, <2>2
    <3> HIDE DEF i, s, j, c
    <3>2. ASSUME NEW x, NEW y, NEW n, LeadsTo(c, n, x, y)
          PROVE  \E k \in 1..Len(M.out[s]) :
                    M.out[s][k].to = n /\ M.out[s][k].in = x /\ M.out[s][k].out = y
      <4>1. PICK k \in 1..Len(arcs[s]) :
              arcs[s][k].to = n /\ arcs[s][k].in = x /\ arcs[s][k].out = y
        BY <3>1, <3>2 DEF LeadsTo
      <4>2. k \in 1..Len(M.out[s])
            /\ M.out[s][k] = FstArc(arcs[s][k].in, arcs[s][k].out, w[s][k], arcs[s][k].to)
        BY <1>5, <3>1
      <4> QED  BY <4>1, <4>2 DEF FstArc
    <3>3. ASSUME \E k \in 1..Len(EdgesOf(c)) : GoesOn(u, v, i, c, j, EdgesOf(c)[k])
          PROVE  \E t2 \in T : left[t2] < left[t] /\ \E k : Goes(u, M, v, t, k, t2)
      <4>1. PICK k \in 1..Len(EdgesOf(c)) : GoesOn(u, v, i, c, j, EdgesOf(c)[k])
        BY <3>3
      <4> DEFINE e == EdgesOf(c)[k]
      <4>2. LeadsTo(c, lookup[e.to], e.in, e.out)  BY <1>4, <3>1 DEF CompleteInv
      <4>3. PICK i2 \in 0..Len(u), j2 \in 0..Len(v) :
              /\ Reads(i, i2, u, e.in) /\ Reads(j, j2, v, e.out)
              /\ Live(u, v, i2, e.to, j2) /\ Togo(u, v, i2, e.to, j2) < Togo(u, v, i, c, j)
        BY <4>1 DEF GoesOn
      <4> HIDE DEF e
      <4>4. PICK m \in 1..Len(M.out[s]) : /\ M.out[s][m].to = lookup[e.to]
                                          /\ M.out[s][m].in = e.in
                                          /\ M.out[s][m].out = e.out
        BY <3>2, <4>2
      <4> DEFINE t2 == <<i2, lookup[e.to], j2>>
      <4>5. t2 \in T /\ left[t2] < left[t]  BY <1>10, <3>1, <4>3
      <4>6. Goes(u, M, v, t, m, t2)  BY <4>3, <4>4 DEF Goes, i, s, j
      <4> QED  BY <4>5, <4>6
    <3>4. CASE ~IsBold(c)  BY <1>2, <3>1, <3>3, <3>4, AbsorbsOn
    <3>5. CASE IsBold(c) /\ j < Len(v)  BY <1>2, <3>1, <3>3, <3>5, InsertsOn
    <3>6. CASE IsBold(c) /\ CanRead(c)  BY <1>2, <3>1, <3>3, <3>6, DeletesOn
    <3>7. CASE IsBold(c) /\ ~(j < Len(v)) /\ ~CanRead(c)
      <4>1. HasFinalArc(c) /\ i = Len(u)  BY <1>2, <3>1, <3>7, EndsThere
      <4>2. j = Len(v)  BY <1>8, <3>1, <3>7
      <4>3. LeadsTo(c, 0, Eps, Eps)  BY <1>4, <3>1, <4>1 DEF CompleteInv
      <4>4. PICK m \in 1..Len(M.out[s]) : /\ M.out[s][m].to = 0
                                          /\ M.out[s][m].in = Eps /\ M.out[s][m].out = Eps
        BY <3>2, <4>3
      <4>5. Goes(u, M, v, t, m, End)  BY <4>1, <4>2, <4>4 DEF Goes, Reads, i, s, j
      <4>6. 0 < left[t]
        <5>1. Togo(u, v, i, c, j) = 2 * (Len(u) - i) + (Len(v) - j) + Len(c.urc) + 1
          BY DEF Togo
        <5>2. Len(c.urc) \in Nat  BY <1>2, <3>1, LiveHere
        <5> QED  BY <1>8, <3>1, <4>1, <4>2, <5>1, <5>2
      <4> QED  BY <1>11, <4>5, <4>6
    <3> QED  BY <3>4, <3>5, <3>6, <3>7
  <2> QED  BY <2>1, <2>2
<1>15. WalkToEnd(u, M, v, T, left)  BY <1>12, <1>13, <1>14 DEF WalkToEnd
<1> DEFINE t0 == <<0, lookup[InitialContext], 0>>
<1>16. t0 \in T
  <2> DEFINE c == InitialContext
  <2>1. c \in AllContexts /\ c.urc = <<>>
    BY InitialContextListed DEF InitialContext
  <2> HIDE DEF c
  <2>2. Len(c.urc) = 0  BY <2>1
  <2>3. 0 \in 0..Len(u) /\ 0 \in 0..Len(v) /\ 0 # Len(u)
    BY <1>2, <1>8, MaxAssumption, TopologyAssumption DEF IsUpperWord
  <2>4. \A k \in 1..0 : FALSE  OBVIOUS
  <2>5. Live(u, v, 0, c, 0)  BY <2>1, <2>2, <2>3, <2>4 DEF Live
  <2>6. <<0, lookup[c], 0>> \in T  BY <1>10, <2>3, <2>5
  <2> QED  BY <2>6 DEF c
<1>17. t0[1] = 0 /\ t0[2] = M.start /\ t0[3] = 0  BY <1>3, <1>5
<1>18. States(LatticeOf(u, M, v)) # {}
  <2> HIDE DEF t0
  <2> QED  BY <1>1, <1>15, <1>16, <1>17, WalkGivesLattice
<1> QED  BY <1>1, <1>18

-----------------------------------------------------------------------------
(* The lattice of an exemplar is never empty. *)

PathInv == CountInv /\ CompleteInv /\ phase # "Undefined"

LEMMA NextPathInv == PathInv /\ [CountNext]_<<vars, featVars, countVars>> => PathInv'
<1> SUFFICES ASSUME PathInv, [CountNext]_<<vars, featVars, countVars>> PROVE PathInv'
  OBVIOUS
<1>1. CountInv'  BY NextCountInv DEF PathInv
<1>2. CompleteInv'
  <2>1. [Next]_vars
    BY DEF CountNext, FeatNext, FeaturizeLine, ReadLine, CloseFile
  <2> QED  BY <2>1, NextComplete DEF PathInv, CountInv, FeatInv, MachineInv
<1>3. CASE ComposeExemplar
  <2>1. /\ phase = "exemplar" /\ ex < N /\ log' = Lattice(data[ex + 1], LogWeights(score))
        /\ phase' = IF States(log') = {} THEN "Undefined" ELSE "count"
    BY <1>3 DEF ComposeExemplar
  <2>2. Loaded /\ data \in [1..N -> Exemplars] /\ ex \in 0..N
    BY <2>1 DEF PathInv, CountInv, LatticeInv
  <2>3. data[ex + 1] \in Exemplars  BY <2>1, <2>2, NAssumption
  <2>4. States(log') # {}
    BY <2>1, <2>2, <2>3, LatticesHavePaths DEF PathInv, CountInv
  <2> QED  BY <1>1, <1>2, <2>1, <2>4 DEF PathInv
<1>4. CASE ~ComposeExemplar
  <2>1. phase' # "Undefined"
    BY <1>4 DEF CountNext, countVars, AddTrainingData, BeginIteration,
                CountLatticeState, EndExemplar, PathInv
  <2> QED  BY <1>1, <1>2, <2>1 DEF PathInv
<1> QED  BY <1>3, <1>4

LEMMA PathInvHolds == CountSpec => []PathInv
<1>1. CountInit => PathInv
  BY InitCountInv, InitComplete DEF PathInv, CountInit, FeatInit
<1> QED  BY <1>1, NextPathInv, PTL DEF CountSpec

(* For all alphabets and topologies, the machine has a path for every        *)
(* exemplar: alpha[0] is never read of an empty lattice.                     *)
THEOREM ExemplarsHavePaths == CountSpec => []LatticeNotEmpty
<1>1. PathInv => LatticeNotEmpty  BY DEF PathInv, LatticeNotEmpty
<1> QED  BY <1>1, PathInvHolds, PTL

(* arc_id of calculate_observed_counts starts anew for every exemplar and     *)
(* counts the arcs of the states that are done with.                         *)
THEOREM CountsTypeCorrect == CountSpec => []CountTypeOK
<1>1. PathInv => CountTypeOK
  BY DEF PathInv, CountInv, LatticeInv, Phases, CountTypeOK
<1> QED  BY <1>1, PathInvHolds, PTL

=============================================================================
