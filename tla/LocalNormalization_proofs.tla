---------------------- MODULE LocalNormalization_proofs ----------------------
(***************************************************************************)
(* The weights of competing arcs are a distribution and their expected     *)
(* counts add up to the observed ones, for every machine, every feature    *)
(* map, and all weights and counts.                                        *)
(***************************************************************************)
EXTENDS LocalNormalization, SequenceTheorems, FiniteSetTheorems,
        WellFoundedInduction, TLAPS

-----------------------------------------------------------------------------
(* Sums. *)

(* The sets f[x] for x in S, taken together. *)
LEMMA FiniteUnion ==
    ASSUME NEW S, IsFiniteSet(S), NEW f, \A x \in S : IsFiniteSet(f[x])
    PROVE  IsFiniteSet(UNION {f[x] : x \in S})
<1> DEFINE X == {f[x] : x \in S}
           g == [x \in S |-> f[x]]
<1>1. g \in [S -> X] /\ \A y \in X : \E x \in S : g[x] = y  OBVIOUS
<1>2. \A y \in X : IsFiniteSet(y)  OBVIOUS
<1> HIDE DEF g, X
<1>3. IsFiniteSet(X)  BY <1>1, FS_Surjection DEF Surjection
<1> QED  BY <1>2, <1>3, FS_UNION DEF X

(* The pairs that SumOver counts. *)
Pairs(A, v) == UNION {{b} \X (1..v[b]) : b \in A}

LEMMA PairsFinite ==
    ASSUME NEW A, IsFiniteSet(A), NEW v, \A b \in A : v[b] \in Nat
    PROVE  IsFiniteSet(Pairs(A, v)) /\ SumOver(A, v) \in Nat
<1> DEFINE f == [b \in A |-> {b} \X (1..v[b])]
<1>1. ASSUME NEW b \in A PROVE IsFiniteSet(f[b])
  <2>1. IsFiniteSet(1..v[b])  BY FS_Interval
  <2>2. IsFiniteSet({b})  BY FS_Singleton
  <2> QED  BY <2>1, <2>2, FS_Product
<1>2. Pairs(A, v) = UNION {f[b] : b \in A}  BY DEF Pairs
<1> HIDE DEF f
<1>3. IsFiniteSet(Pairs(A, v))  BY <1>1, <1>2, FiniteUnion
<1>4. SumOver(A, v) = Cardinality(Pairs(A, v))  BY DEF SumOver, Pairs
<1> QED  BY <1>3, <1>4, FS_CardinalityType

LEMMA SumEmpty == ASSUME NEW v PROVE SumOver({}, v) = 0
BY FS_EmptySet DEF SumOver

(* A sum with one more summand. *)
LEMMA SumAdd ==
    ASSUME NEW A, IsFiniteSet(A), NEW v, NEW x, x \notin A,
           \A b \in A \cup {x} : v[b] \in Nat
    PROVE  SumOver(A \cup {x}, v) = SumOver(A, v) + v[x]
<1> DEFINE P == Pairs(A, v)
           Q == {x} \X (1..v[x])
<1>1. IsFiniteSet(P)  BY PairsFinite
<1>2. IsFiniteSet(Q) /\ Cardinality(Q) = v[x]
  <2>1. v[x] \in Nat /\ v[x] \in Int /\ 1 \in Int  OBVIOUS
  <2>2. /\ IsFiniteSet(1..v[x])
        /\ Cardinality(1..v[x]) = IF 1 > v[x] THEN 0 ELSE v[x] - 1 + 1
    BY <2>1, FS_Interval
  <2>3. Cardinality(1..v[x]) = v[x]  BY <2>1, <2>2
  <2>4. IsFiniteSet({x}) /\ Cardinality({x}) = 1  BY FS_Singleton
  <2>5. /\ IsFiniteSet(Q)
        /\ Cardinality(Q) = Cardinality({x}) * Cardinality(1..v[x])
    BY <2>2, <2>4, FS_Product
  <2> QED  BY <2>1, <2>3, <2>4, <2>5
<1>3. Pairs(A \cup {x}, v) = P \cup Q  BY DEF Pairs
<1>4. P \cap Q = {}  BY DEF Pairs
<1> HIDE DEF P, Q
<1>5. Cardinality(P \cap Q) = 0  BY <1>4, FS_EmptySet
<1>6. Cardinality(P \cup Q) = Cardinality(P) + Cardinality(Q) - Cardinality(P \cap Q)
  BY <1>1, <1>2, FS_Union
<1>7. Cardinality(P) \in Nat /\ Cardinality(Q) \in Nat
  BY <1>1, <1>2, FS_CardinalityType
<1>8. /\ SumOver(A, v) = Cardinality(P)
      /\ SumOver(A \cup {x}, v) = Cardinality(P \cup Q)
  BY <1>3 DEF SumOver, Pairs, P
<1> QED  BY <1>2, <1>5, <1>6, <1>7, <1>8

(* Equal summands give equal sums. *)
LEMMA SumEqual ==
    ASSUME NEW A, NEW v, NEW w, \A b \in A : v[b] = w[b]
    PROVE  SumOver(A, v) = SumOver(A, w)
<1>1. {{b} \X (1..v[b]) : b \in A} = {{b} \X (1..w[b]) : b \in A}  OBVIOUS
<1> QED  BY <1>1 DEF SumOver

(* A common factor of the summands is one of the sum. *)
LEMMA SumScaled ==
    ASSUME NEW A, IsFiniteSet(A), NEW v, NEW w, NEW t \in Nat,
           \A b \in A : v[b] \in Nat /\ w[b] = t * v[b]
    PROVE  SumOver(A, w) = t * SumOver(A, v)
<1> DEFINE Bad == {B \in FiniteSubsetsOf(A) : SumOver(B, w) # t * SumOver(B, v)}
<1> SUFFICES ASSUME Bad # {} PROVE FALSE
  BY DEF FiniteSubsetsOf
<1>1. PICK B \in Bad : \A C \in Bad : ~ (<<C, B>> \in StrictSubsetOrdering(A))
  <2>1. IsWellFoundedOn(StrictSubsetOrdering(A), FiniteSubsetsOf(A))
    BY FS_StrictSubsetOrderingWellFounded
  <2>2. Bad \in SUBSET FiniteSubsetsOf(A)  OBVIOUS
  <2> HIDE DEF Bad
  <2> QED  BY <2>1, <2>2, WFMin
<1>2. /\ B \in SUBSET A /\ IsFiniteSet(B)
      /\ SumOver(B, w) # t * SumOver(B, v)
  BY DEF FiniteSubsetsOf
<1>3. B # {}
  <2>1. SumOver({}, w) = 0 /\ SumOver({}, v) = 0  BY SumEmpty
  <2>2. t * 0 = 0  OBVIOUS
  <2> QED  BY <2>1, <2>2
<1>4. PICK x \in B : TRUE  BY <1>3
<1> DEFINE C == B \ {x}
<1>5. C \in SUBSET A /\ IsFiniteSet(C) /\ B = C \cup {x} /\ x \notin C
  BY <1>2, <1>4, FS_RemoveElement
<1>6. <<C, B>> \in StrictSubsetOrdering(A)
  BY <1>2, <1>5 DEF StrictSubsetOrdering
<1> HIDE DEF C
<1>7. SumOver(C, w) = t * SumOver(C, v)
  BY <1>1, <1>5, <1>6 DEF FiniteSubsetsOf
<1>8. \A b \in B : v[b] \in Nat /\ w[b] \in Nat  BY <1>2
<1> HIDE DEF Bad
<1>9. /\ SumOver(B, w) = SumOver(C, w) + w[x]
      /\ SumOver(B, v) = SumOver(C, v) + v[x]
  <2>1. \A b \in C \cup {x} : v[b] \in Nat /\ w[b] \in Nat  BY <1>5, <1>8
  <2>2. SumOver(C \cup {x}, w) = SumOver(C, w) + w[x]  BY <1>5, <2>1, SumAdd
  <2>3. SumOver(C \cup {x}, v) = SumOver(C, v) + v[x]  BY <1>5, <2>1, SumAdd
  <2> QED  BY <1>5, <2>2, <2>3
<1>10. SumOver(C, v) \in Nat /\ v[x] \in Nat /\ w[x] = t * v[x]
  BY <1>2, <1>4, <1>5, <1>8, PairsFinite
<1>11. t * (SumOver(C, v) + v[x]) = t * SumOver(C, v) + t * v[x]
  BY <1>10
<1> QED  BY <1>2, <1>7, <1>9, <1>10, <1>11

-----------------------------------------------------------------------------
(* The order in which the iterators visit the arcs. *)

Machine == machine \in Machines

LEMMA MachineHere ==
    ASSUME Machine
    PROVE  /\ machine \in Seq(Seq(Nat)) /\ Len(machine) \in Nat
           /\ \A q \in 1..Len(machine) :
                machine[q] \in Seq(Nat) /\ Len(machine[q]) \in Nat
BY MachineAssumption DEF Machine

LEMMA PlacesHere ==
    ASSUME Machine
    PROVE  \A p : p \in Places <=>
             /\ p = <<p[1], p[2]>>
             /\ p[1] \in 1..Len(machine) /\ p[2] \in 1..Len(machine[p[1]])
<1> TAKE p
<1>1. p \in Places <=> \E q \in 1..Len(machine) : p \in {q} \X (1..Len(machine[q]))
  BY DEF Places
<1> QED  BY <1>1

LEMMA PlacesFinite ==
    ASSUME Machine
    PROVE  /\ IsFiniteSet(Places) /\ NumArcs \in Nat
           /\ \A q, j : /\ IsFiniteSet(Before(q, j)) /\ Before(q, j) \in SUBSET Places
                        /\ Cardinality(Before(q, j)) \in 0..NumArcs
<1> DEFINE f == [q \in 1..Len(machine) |-> {q} \X (1..Len(machine[q]))]
<1>1. IsFiniteSet(1..Len(machine))  BY MachineHere, FS_Interval
<1>2. ASSUME NEW q \in 1..Len(machine) PROVE IsFiniteSet(f[q])
  <2>1. IsFiniteSet(1..Len(machine[q]))
    <3>1. 1 \in Int /\ Len(machine[q]) \in Int  BY MachineHere
    <3> QED  BY <3>1, FS_Interval
  <2>2. IsFiniteSet({q})  BY FS_Singleton
  <2> QED  BY <2>1, <2>2, FS_Product
<1>3. Places = UNION {f[q] : q \in 1..Len(machine)}  BY DEF Places
<1> HIDE DEF f
<1>4. IsFiniteSet(Places)  BY <1>1, <1>2, <1>3, FiniteUnion
<1>5. NumArcs \in Nat  BY <1>4, FS_CardinalityType DEF NumArcs
<1>6. ASSUME NEW q, NEW j
      PROVE  /\ IsFiniteSet(Before(q, j)) /\ Before(q, j) \in SUBSET Places
             /\ Cardinality(Before(q, j)) \in 0..NumArcs
  <2>1. Before(q, j) \in SUBSET Places  BY DEF Before
  <2>2. IsFiniteSet(Before(q, j)) /\ Cardinality(Before(q, j)) <= NumArcs
    BY <1>4, <2>1, FS_Subset DEF NumArcs
  <2>3. Cardinality(Before(q, j)) \in Nat  BY <2>2, FS_CardinalityType
  <2> QED  BY <1>5, <2>1, <2>2, <2>3
<1> QED  BY <1>4, <1>5, <1>6

(* The number of arcs before a place. *)
Count(q, j) == Cardinality(Before(q, j))

LEMMA CountStart == ASSUME Machine PROVE Count(1, 1) = 0
<1>1. Before(1, 1) = {}  BY MachineHere, PlacesHere DEF Before
<1> QED  BY <1>1, FS_EmptySet DEF Count

LEMMA CountArcs ==
    ASSUME Machine, NEW q \in 1..Len(machine), NEW j \in 1..Len(machine[q])
    PROVE  Count(q, j + 1) = Count(q, j) + 1 /\ Count(q, j) \in ArcIds
<1>1. <<q, j>> \in Places  BY PlacesHere
<1>2. Before(q, j + 1) = Before(q, j) \cup {<<q, j>>}
  <2>1. ASSUME NEW p \in Places
        PROVE  p \in Before(q, j + 1) <=> p \in Before(q, j) \/ p = <<q, j>>
    <3>1. p = <<p[1], p[2]>> /\ p[1] \in Nat /\ p[2] \in Nat
      BY MachineHere, PlacesHere
    <3>2. q \in Nat /\ j \in Nat  BY MachineHere
    <3> QED  BY <3>1, <3>2 DEF Before
  <2> QED  BY <1>1, <2>1 DEF Before
<1>3. <<q, j>> \notin Before(q, j)  BY MachineHere DEF Before
<1>4. Count(q, j + 1) = Count(q, j) + 1
  BY <1>2, <1>3, PlacesFinite, FS_AddElement DEF Count
<1>5. Count(q, j) \in 0..NumArcs /\ Count(q, j + 1) \in 0..NumArcs /\ NumArcs \in Nat
  BY PlacesFinite DEF Count
<1> QED  BY <1>4, <1>5 DEF ArcIds

LEMMA CountStates ==
    ASSUME Machine, NEW q \in 1..Len(machine)
    PROVE  Count(q + 1, 1) = Count(q, Len(machine[q]) + 1)
<1>1. ASSUME NEW p \in Places
      PROVE  p \in Before(q + 1, 1) <=> p \in Before(q, Len(machine[q]) + 1)
  <2>1. /\ p[1] \in Nat /\ p[2] \in Nat /\ q \in Nat /\ p[2] >= 1
        /\ p[2] <= Len(machine[p[1]]) /\ Len(machine[q]) \in Nat
    BY MachineHere, PlacesHere
  <2> QED  BY <2>1 DEF Before
<1>2. Before(q + 1, 1) = Before(q, Len(machine[q]) + 1)  BY <1>1 DEF Before
<1> QED  BY <1>2 DEF Count

LEMMA CountEnd == ASSUME Machine PROVE Count(Len(machine) + 1, 1) = NumArcs
<1>1. ASSUME NEW p \in Places PROVE p \in Before(Len(machine) + 1, 1)
  <2>1. p[1] \in Nat /\ p[1] <= Len(machine) /\ Len(machine) \in Nat
    BY MachineHere, PlacesHere
  <2> QED  BY <2>1 DEF Before
<1>2. Before(Len(machine) + 1, 1) = Places  BY <1>1 DEF Before
<1> QED  BY <1>2 DEF Count, NumArcs

(* An earlier place has a smaller number. *)
LEMMA CountEarlier ==
    ASSUME Machine, NEW p \in Places, NEW q \in Nat, NEW j \in Nat,
           p[1] < q \/ (p[1] = q /\ p[2] < j)
    PROVE  Count(p[1], p[2]) < Count(q, j)
<1>1. p[1] \in Nat /\ p[2] \in Nat  BY MachineHere, PlacesHere
<1>2. Before(p[1], p[2]) \in SUBSET Before(q, j)
  <2>1. ASSUME NEW r \in Before(p[1], p[2]) PROVE r \in Before(q, j)
    <3>1. r \in Places /\ r[1] \in Nat /\ r[2] \in Nat
      BY MachineHere, PlacesHere DEF Before
    <3> QED  BY <1>1, <3>1 DEF Before
  <2> QED  BY <2>1
<1>3. p \in Before(q, j) /\ p \notin Before(p[1], p[2])  BY <1>1 DEF Before
<1>4. /\ Cardinality(Before(p[1], p[2])) <= Cardinality(Before(q, j))
      /\ Cardinality(Before(p[1], p[2])) # Cardinality(Before(q, j))
  BY <1>2, <1>3, PlacesFinite, FS_Subset
<1>5. /\ Cardinality(Before(p[1], p[2])) \in Nat
      /\ Cardinality(Before(q, j)) \in Nat
  BY PlacesFinite
<1> QED  BY <1>4, <1>5 DEF Count

(* The numbers of the places are the arc ids. *)
LEMMA PlaceOfArc ==
    ASSUME Machine
    PROVE  /\ \A a \in ArcIds : PlaceOf(a) \in Places
                                /\ Count(PlaceOf(a)[1], PlaceOf(a)[2]) = a
           /\ \A p \in Places : PlaceOf(Count(p[1], p[2])) = p
<1> DEFINE f == [p \in Places |-> Count(p[1], p[2])]
<1>1. ASSUME NEW p \in Places, NEW r \in Places, f[p] = f[r]
      PROVE  p = r
  <2>1. /\ p = <<p[1], p[2]>> /\ p[1] \in Nat /\ p[2] \in Nat
        /\ r = <<r[1], r[2]>> /\ r[1] \in Nat /\ r[2] \in Nat
    BY MachineHere, PlacesHere
  <2>2. Count(p[1], p[2]) \in Nat /\ Count(r[1], r[2]) \in Nat
    BY PlacesFinite DEF Count
  <2>3. Count(p[1], p[2]) = Count(r[1], r[2])  BY <1>1
  <2>4. ~(p[1] < r[1] \/ (p[1] = r[1] /\ p[2] < r[2]))
    BY <2>1, <2>2, <2>3, CountEarlier
  <2>5. ~(r[1] < p[1] \/ (r[1] = p[1] /\ r[2] < p[2]))
    BY <2>1, <2>2, <2>3, CountEarlier
  <2>6. p[1] = r[1] /\ p[2] = r[2]  BY <2>1, <2>4, <2>5
  <2> QED  BY <2>1, <2>6
<1>2. f \in [Places -> ArcIds]
  <2>1. ASSUME NEW p \in Places PROVE Count(p[1], p[2]) \in ArcIds
    BY PlacesHere, CountArcs
  <2> QED  BY <2>1
<1>3. IsFiniteSet(ArcIds) /\ Cardinality(ArcIds) = NumArcs
  <2>1. 0 \in Int /\ NumArcs - 1 \in Int /\ NumArcs \in Nat  BY PlacesFinite
  <2>2. Cardinality(0..(NumArcs - 1)) = NumArcs  BY <2>1, FS_Interval
  <2> QED  BY <2>1, <2>2, FS_Interval DEF ArcIds
<1>4. f \in Surjection(Places, ArcIds)
  <2>1. f \in Injection(Places, ArcIds)
    BY <1>1, <1>2 DEF Injection, IsInjective
  <2>2. Cardinality(Places) = Cardinality(ArcIds)  BY <1>3 DEF NumArcs
  <2> HIDE DEF f
  <2> QED  BY <1>3, <2>1, <2>2, FS_Injection
<1>5. ASSUME NEW a \in ArcIds
      PROVE  PlaceOf(a) \in Places /\ Count(PlaceOf(a)[1], PlaceOf(a)[2]) = a
  <2>1. \E p \in Places : Cardinality(Before(p[1], p[2])) = a
    BY <1>4 DEF Surjection, Count
  <2> QED  BY <2>1 DEF PlaceOf, Count
<1>6. ASSUME NEW p \in Places PROVE PlaceOf(Count(p[1], p[2])) = p
  <2>1. Count(p[1], p[2]) \in ArcIds  BY <1>2
  <2> DEFINE r == PlaceOf(Count(p[1], p[2]))
  <2>2. r \in Places /\ Count(r[1], r[2]) = Count(p[1], p[2])  BY <1>5, <2>1
  <2>3. f[r] = f[p]  BY <2>2
  <2> QED  BY <1>1, <2>2, <2>3
<1> QED  BY <1>5, <1>6

-----------------------------------------------------------------------------
(* The inductive invariant: the array has the sums over the arcs that the   *)
(* first loop has passed, and the arcs that the second loop has passed have *)
(* their weights or counts.                                                 *)

(* The arcs out of state q with input label l, and those numbered below n. *)
Rivals(q, l) == {b \in ArcIds : PlaceOf(b)[1] = q /\ LabelAt(PlaceOf(b)) = l}
Added(q, l, n) == {b \in Rivals(q, l) : b < n}

Scores == [b \in ArcIds |-> Score(b)]
Values == [b \in ArcIds |-> Value(b)]

Weighed(a) == prob[a] = <<Score(a), SumOver(Group(a), Scores)>>
Counted(a) ==
    expected[a] = <<SumOver(Group(a), observed) * Score(a),
                    SumOver(Group(a), Scores)>>

PositionInv ==
    /\ TypeOK /\ DOMAIN features = ArcIds /\ size \in Nat
    /\ IF s <= Len(machine) THEN at \in 1..(Len(machine[s]) + 1)
       ELSE at = 1 /\ loop = 1
    /\ loop = 2 => /\ tmpArcId = Count(s + 1, 1)
                   /\ \A j \in 1..Len(machine[s]) : machine[s][j] < size
    /\ loop = 1 => \A j \in 1..(at - 1) : machine[s][j] < size

TotalInv ==
    pc \in {"weigh", "count"} =>
        \A l \in 0..(size - 1) : total[l] = SumOver(Added(s, l, tmpArcId), Values)

ProbInv == \A a \in ArcIds : pc = "weigh" => (a < arcId => Weighed(a))
NormalInv == pc # "weigh" => \A a \in ArcIds : Weighed(a)

ExpectedInv ==
    /\ pc = "count" =>
         \A a \in ArcIds : IF a < arcId THEN Counted(a) ELSE expected[a] = <<0, 1>>
    /\ pc = "gradient" => \A a \in ArcIds : Counted(a)

NInv == PositionInv /\ TotalInv /\ ProbInv /\ NormalInv /\ ExpectedInv

(* Scores and counts are numbers that can be added up. *)
LEMMA DataHere ==
    ASSUME PositionInv
    PROVE  /\ Machine /\ IsFiniteSet(ArcIds)
           /\ \A a \in ArcIds : /\ Score(a) \in Nat \ {0} /\ observed[a] \in Nat
                                /\ Value(a) \in Nat
           /\ \A a : IsFiniteSet(Group(a)) /\ Group(a) \in SUBSET ArcIds
           /\ \A q, l, n : /\ IsFiniteSet(Added(q, l, n))
                           /\ Added(q, l, n) \in SUBSET ArcIds
<1>1. Machine  BY DEF PositionInv, TypeOK, Machine
<1>2. IsFiniteSet(ArcIds)
  <2>1. 0 \in Int /\ NumArcs - 1 \in Int  BY <1>1, PlacesFinite
  <2> QED  BY <2>1, FS_Interval DEF ArcIds
<1>3. ASSUME NEW a \in ArcIds
      PROVE  Score(a) \in Nat \ {0} /\ observed[a] \in Nat /\ Value(a) \in Nat
  <2>1. features[a] \in Vectors
    BY <1>3, ValueAssumption DEF PositionInv, TypeOK
  <2>2. weights \in Weights  BY DEF PositionInv, TypeOK
  <2>3. Score(a) \in Nat \ {0}  BY <2>1, <2>2, ValueAssumption DEF Score
  <2>4. observed[a] \in Nat
    <3>1. observed \in [ArcIds -> CountValues \cup {0}]  BY DEF PositionInv, TypeOK
    <3>2. observed[a] \in CountValues \cup {0}  BY <1>3, <3>1
    <3>3. \A c \in CountValues : c \in Nat  BY ValueAssumption
    <3>4. observed[a] \in CountValues \/ observed[a] = 0  BY <3>2
    <3> QED  BY <3>3, <3>4
  <2> QED  BY <2>3, <2>4 DEF Value
<1>4. \A a : Group(a) \in SUBSET ArcIds  BY DEF Group
<1>5. \A q, l, n : Added(q, l, n) \in SUBSET ArcIds  BY DEF Added, Rivals
<1> QED  BY <1>1, <1>2, <1>3, <1>4, <1>5, FS_Subset

(* The machine and its numbering do not change. *)
LEMMA SameMachine ==
    ASSUME UNCHANGED machine
    PROVE  /\ Places' = Places /\ NumArcs' = NumArcs /\ ArcIds' = ArcIds
           /\ \A q, j : Before(q, j)' = Before(q, j) /\ Count(q, j)' = Count(q, j)
           /\ \A a : PlaceOf(a)' = PlaceOf(a) /\ Group(a)' = Group(a)
           /\ \A q, l, n : Added(q, l, n)' = Added(q, l, n)
<1>1. Places' = Places  BY DEF Places
<1>2. NumArcs' = NumArcs  BY <1>1 DEF NumArcs
<1>3. ArcIds' = ArcIds  BY <1>2 DEF ArcIds
<1>4. \A q, j : Before(q, j)' = Before(q, j)  BY <1>1 DEF Before
<1>5. \A q, j : Count(q, j)' = Count(q, j)  BY <1>4 DEF Count
<1>6. \A a : PlaceOf(a)' = PlaceOf(a)  BY <1>1, <1>4 DEF PlaceOf
<1>7. \A a : LabelAt(PlaceOf(a))' = LabelAt(PlaceOf(a))  BY <1>6 DEF LabelAt
<1>8. \A a : Group(a)' = Group(a)  BY <1>3, <1>6, <1>7 DEF Group
<1>9. \A q, l, n : Added(q, l, n)' = Added(q, l, n)
  BY <1>3, <1>6, <1>7 DEF Added, Rivals
<1> QED  BY <1>1, <1>2, <1>3, <1>4, <1>5, <1>6, <1>8, <1>9

(* The arc that the iterator is at. *)
LEMMA ArcHere ==
    ASSUME PositionInv, s <= Len(machine), at <= Len(machine[s])
    PROVE  LET a == Count(s, at)
           IN  /\ a \in ArcIds /\ a \in Nat /\ Count(s, at + 1) = a + 1
               /\ PlaceOf(a) = <<s, at>> /\ LabelAt(PlaceOf(a)) = Label
               /\ Label \in Nat /\ Group(a) = Rivals(s, Label)
               /\ s \in 1..Len(machine) /\ at \in 1..Len(machine[s])
<1> DEFINE a == Count(s, at)
<1>1. Machine  BY DataHere
<1>2. s \in 1..Len(machine) /\ at \in 1..Len(machine[s])
  BY <1>1, MachineHere DEF PositionInv, TypeOK
<1>3. a \in ArcIds /\ Count(s, at + 1) = a + 1  BY <1>1, <1>2, CountArcs
<1>4. <<s, at>> \in Places  BY <1>1, <1>2, PlacesHere
<1>5. PlaceOf(a) = <<s, at>>
  <2> DEFINE p == <<s, at>>
  <2>1. PlaceOf(Count(p[1], p[2])) = p  BY <1>1, <1>4, PlaceOfArc
  <2> QED  BY <2>1
<1>6. LabelAt(PlaceOf(a)) = Label  BY <1>5 DEF LabelAt, Label
<1>7. Label \in Nat  BY <1>1, <1>2, MachineHere DEF Label
<1>8. Group(a) = Rivals(s, Label)  BY <1>5, <1>6 DEF Group, Rivals
<1>9. a \in Nat  BY <1>3 DEF ArcIds
<1> QED  BY <1>2, <1>3, <1>5, <1>6, <1>7, <1>8, <1>9

(* When the first loop over the arcs of a state is done, all rivals are in. *)
LEMMA AllAdded ==
    ASSUME Machine, NEW q \in 1..Len(machine), NEW l
    PROVE  Added(q, l, Count(q + 1, 1)) = Rivals(q, l)
<1>1. ASSUME NEW b \in Rivals(q, l) PROVE b < Count(q + 1, 1)
  <2>1. b \in ArcIds /\ PlaceOf(b)[1] = q  BY DEF Rivals
  <2>2. PlaceOf(b) \in Places /\ Count(PlaceOf(b)[1], PlaceOf(b)[2]) = b
    BY <2>1, PlaceOfArc
  <2>3. q \in Nat /\ q + 1 \in Nat /\ q < q + 1 /\ 1 \in Nat  BY MachineHere
  <2> QED  BY <2>1, <2>2, <2>3, CountEarlier
<1> QED  BY <1>1 DEF Added

(* Before a state's first arc is added its sums are empty, and so are those *)
(* of the end of the machine.                                               *)
LEMMA NothingAdded ==
    ASSUME Machine, NEW q \in Nat \ {0}, NEW l
    PROVE  Added(q, l, Count(q, 1)) = {}
<1> SUFFICES ASSUME NEW b \in Rivals(q, l), b < Count(q, 1) PROVE FALSE
  BY DEF Added
<1>1. b \in ArcIds /\ PlaceOf(b)[1] = q  BY DEF Rivals
<1> DEFINE p == PlaceOf(b)
<1>2. p \in Places /\ Count(p[1], p[2]) = b  BY <1>1, PlaceOfArc
<1> HIDE DEF p
<1>3. /\ p[1] = q /\ p[1] \in 1..Len(machine) /\ p[2] \in 1..Len(machine[p[1]])
      /\ Len(machine) \in Nat /\ Len(machine[p[1]]) \in Nat
  BY <1>1, <1>2, MachineHere, PlacesHere DEF p
<1>4. Before(q, 1) \in SUBSET Before(p[1], p[2])
  <2>1. ASSUME NEW r \in Before(q, 1) PROVE r \in Before(p[1], p[2])
    <3>1. r \in Places /\ r[1] \in Nat /\ r[2] \in Nat /\ r[2] >= 1
      BY MachineHere, PlacesHere DEF Before
    <3>2. r[1] < q  BY <3>1 DEF Before
    <3> QED  BY <1>3, <3>1, <3>2 DEF Before
  <2> QED  BY <2>1
<1>5. Count(q, 1) <= Count(p[1], p[2])
  BY <1>4, PlacesFinite, FS_Subset DEF Count
<1>6. Count(q, 1) \in Nat /\ Count(p[1], p[2]) \in Nat  BY PlacesFinite DEF Count
<1> QED  BY <1>2, <1>5, <1>6

(* A sum is at least one of its summands. *)
LEMMA SumAtLeast ==
    ASSUME NEW A, IsFiniteSet(A), NEW v, \A b \in A : v[b] \in Nat, NEW x \in A
    PROVE  SumOver(A, v) >= v[x] /\ SumOver(A, v) \in Nat
<1> DEFINE C == A \ {x}
<1>1. IsFiniteSet(C) /\ A = C \cup {x} /\ x \notin C  BY FS_RemoveElement
<1> HIDE DEF C
<1>2. \A b \in C \cup {x} : v[b] \in Nat  BY <1>1
<1>3. SumOver(C \cup {x}, v) = SumOver(C, v) + v[x]  BY <1>1, <1>2, SumAdd
<1>4. SumOver(C, v) \in Nat  BY <1>1, <1>2, PairsFinite
<1> QED  BY <1>1, <1>3, <1>4

-----------------------------------------------------------------------------
(* The steps. *)

(* The scores do not change with the weights and features. *)
LEMMA SameScores ==
    ASSUME UNCHANGED <<machine, features, weights>>
    PROVE  /\ \A a : Score(a)' = Score(a) /\ Group(a)' = Group(a)
           /\ Scores' = Scores /\ ArcIds' = ArcIds
<1>1. \A a : Score(a)' = Score(a)  BY DEF Score
<1>2. ArcIds' = ArcIds /\ \A a : Group(a)' = Group(a)  BY SameMachine
<1>3. Scores' = Scores  BY <1>1, <1>2 DEF Scores
<1> QED  BY <1>1, <1>2, <1>3

LEMMA SameWeighed ==
    ASSUME UNCHANGED <<machine, features, weights>>,
           NEW a, prob'[a] = prob[a], Weighed(a)
    PROVE  Weighed(a)'
BY SameScores DEF Weighed

LEMMA SameCounted ==
    ASSUME UNCHANGED <<machine, features, weights, observed>>,
           NEW a, expected'[a] = expected[a], Counted(a)
    PROVE  Counted(a)'
BY SameScores DEF Counted

(* The steps that only move the iterators and the first counter keep the *)
(* weights and counts.                                                   *)
LEMMA SameResults ==
    ASSUME NInv, UNCHANGED <<pc, data, expected, prob, arcId>>
    PROVE  ProbInv' /\ NormalInv' /\ ExpectedInv'
<1>1. UNCHANGED <<machine, features, weights, observed>>  BY DEF data
<1>2. ArcIds' = ArcIds  BY <1>1, SameMachine
<1>3. ASSUME NEW a, Weighed(a) PROVE Weighed(a)'  BY <1>1, <1>3, SameWeighed
<1>4. ASSUME NEW a, Counted(a) PROVE Counted(a)'  BY <1>1, <1>4, SameCounted
<1>5. ProbInv'  BY <1>2, <1>3 DEF NInv, ProbInv
<1>6. NormalInv'  BY <1>2, <1>3 DEF NInv, NormalInv
<1>7. ExpectedInv'  BY <1>2, <1>4 DEF NInv, ExpectedInv
<1> QED  BY <1>5, <1>6, <1>7

LEMMA SameValues ==
    ASSUME UNCHANGED <<pc, data>> PROVE Values' = Values
<1>1. UNCHANGED <<machine, features, weights, observed>>  BY DEF data
<1>2. \A a : Value(a)' = Value(a)  BY <1>1, SameScores DEF Value
<1> QED  BY <1>1, <1>2, SameMachine DEF Values

(* An empty array has the sums over no arcs. *)
LEMMA ZeroSums ==
    ASSUME NEW n \in Nat, NEW q \in Nat \ {0}, Machine, NEW v
    PROVE  /\ DOMAIN Zeros(n) = 0..(n - 1)
           /\ \A l \in 0..(n - 1) : Zeros(n)[l] = SumOver(Added(q, l, Count(q, 1)), v)
BY NothingAdded, SumEmpty DEF Zeros

LEMMA InitNInv == ASSUME Init PROVE NInv
<1>1. Machine  BY DEF Init, Machine
<1>2. Count(1, 1) = 0 /\ NumArcs \in Nat /\ Len(machine) \in Nat
  BY <1>1, CountStart, PlacesFinite, MachineHere
<1>3. Cardinality(Before(1, 1)) = 0  BY <1>2 DEF Count
<1>4. TypeOK
  BY <1>2, <1>3, ValueAssumption DEF Init, TypeOK, Zeros, FirstSize
<1>5. PositionInv
  <2>1. \A q \in 1..Len(machine) : Len(machine[q]) \in Nat  BY <1>1, MachineHere
  <2> QED  BY <1>2, <1>4, <2>1 DEF Init, PositionInv, FirstSize
<1>6. TotalInv
  <2>1. s = 1 /\ tmpArcId = Count(1, 1) /\ total = Zeros(size) /\ size \in Nat
    BY <1>2 DEF Init, FirstSize
  <2>2. 1 \in Nat \ {0}  OBVIOUS
  <2> QED  BY <1>1, <2>1, <2>2, ZeroSums DEF TotalInv
<1>7. ProbInv  BY DEF Init, ProbInv, ArcIds
<1>8. NormalInv /\ ExpectedInv  BY DEF Init, NormalInv, ExpectedInv
<1> QED  BY <1>5, <1>6, <1>7, <1>8 DEF NInv

(* The counters after a step, by the numbering before it. *)
LEMMA CountersNext ==
    ASSUME UNCHANGED machine
    PROVE  /\ Cardinality(Before(s, at))' = Count(s', at')
           /\ Cardinality(Before(s, 1))' = Count(s', 1)
           /\ Count(s + 1, 1)' = Count(s' + 1, 1)
BY SameMachine DEF Count

LEMMA AddArcStep == ASSUME NInv, AddArc PROVE NInv'
<1> USE DEF NInv
<1> DEFINE a == Count(s, at)
<1>1. /\ UNCHANGED <<pc, after, data, expected, prob, s, loop, arcId, size>>
      /\ pc \in {"weigh", "count"} /\ loop = 1
      /\ s <= Len(machine) /\ at <= Len(machine[s]) /\ Label < size
      /\ tmpArcId' = tmpArcId + 1 /\ at' = at + 1
      /\ total' = [total EXCEPT ![Label] = LogAdd(@, Value(tmpArcId))]
  BY DEF AddArc, Running
<1>2. UNCHANGED <<machine, features, weights, observed>>  BY <1>1 DEF data
<1>3. /\ Machine /\ size \in Nat /\ tmpArcId = a
      /\ arcId = Count(s, 1) /\ DOMAIN total = 0..(size - 1)
  BY <1>1, DataHere DEF PositionInv, TypeOK, Count
<1>4. /\ a \in ArcIds /\ a \in Nat /\ Count(s, at + 1) = a + 1
      /\ PlaceOf(a) = <<s, at>> /\ LabelAt(PlaceOf(a)) = Label
      /\ Label \in Nat
      /\ s \in 1..Len(machine) /\ at \in 1..Len(machine[s])
  BY <1>1, ArcHere
<1>5. Len(machine) \in Nat /\ Len(machine[s]) \in Nat
  BY <1>3, <1>4, MachineHere
<1> HIDE DEF a
<1>6. Label \in 0..(size - 1)  BY <1>1, <1>3, <1>4
<1>7. ArcIds' = ArcIds  BY <1>2, SameMachine
<1>8. PositionInv'
  <2>1. TypeOK'
    <3>1. /\ tmpArcId' = Cardinality(Before(s, at))'
          /\ arcId' = Cardinality(Before(s, 1))'
      BY <1>1, <1>2, <1>3, <1>4, CountersNext DEF Count
    <3>2. DOMAIN total' = 0..(size' - 1)  BY <1>1, <1>3
    <3> QED  BY <1>1, <1>2, <1>7, <3>1, <3>2 DEF PositionInv, TypeOK
  <2>2. at' \in 1..(Len(machine[s]) + 1)  BY <1>1, <1>4, <1>5
  <2>3. \A j \in 1..(at' - 1) : machine[s][j] < size
    <3>1. ASSUME NEW j \in 1..(at' - 1), j # at PROVE machine[s][j] < size
      <4>1. j \in 1..(at - 1)  BY <1>1, <1>4, <1>5, <3>1
      <4> QED  BY <1>1, <4>1 DEF PositionInv
    <3> QED  BY <1>1, <3>1 DEF Label
  <2> QED  BY <1>1, <1>2, <1>7, <2>1, <2>2, <2>3 DEF PositionInv
<1>9. TotalInv'
  <2>1. ASSUME NEW l \in 0..(size - 1)
        PROVE  total'[l] = SumOver(Added(s, l, a + 1), Values)
    <3>1. total[l] = SumOver(Added(s, l, a), Values)
      BY <1>1, <1>3, <2>1 DEF TotalInv
    <3>2. /\ IsFiniteSet(Added(s, l, a)) /\ Added(s, l, a) \in SUBSET ArcIds
          /\ \A b \in ArcIds : Value(b) \in Nat
      BY DataHere
    <3>3. \A b \in ArcIds : Values[b] = Value(b) /\ Values[b] \in Nat
      BY <3>2 DEF Values
    <3>4. \A b \in Rivals(s, l) : b \in Int  BY DEF ArcIds, Rivals
    <3>5. CASE l = Label
      <4>1. a \in Rivals(s, l)  BY <1>4, <3>5 DEF Rivals
      <4>2. /\ Added(s, l, a + 1) = Added(s, l, a) \cup {a}
            /\ a \notin Added(s, l, a)
        <5>1. \A b \in Rivals(s, l) : b < a + 1 <=> b < a \/ b = a
          BY <1>4, <3>4
        <5>2. ~ (a < a)  BY <1>4
        <5>3. \A b : b \in Added(s, l, a + 1) <=> b \in Rivals(s, l) /\ b < a + 1
          BY DEF Added
        <5>4. \A b : b \in Added(s, l, a) <=> b \in Rivals(s, l) /\ b < a
          BY DEF Added
        <5> QED  BY <4>1, <5>1, <5>2, <5>3, <5>4
      <4>3. SumOver(Added(s, l, a + 1), Values)
              = SumOver(Added(s, l, a), Values) + Values[a]
        <5>1. \A b \in Added(s, l, a) \cup {a} : Values[b] \in Nat
          BY <1>4, <3>2, <3>3
        <5>2. SumOver(Added(s, l, a) \cup {a}, Values)
                = SumOver(Added(s, l, a), Values) + Values[a]
          BY <3>2, <4>2, <5>1, SumAdd
        <5> QED  BY <4>2, <5>2
      <4>4. total[l] \in Nat /\ Value(a) \in Nat
        BY <1>4, <3>1, <3>2, <3>3, PairsFinite
      <4>5. LogAdd(total[l], Value(a)) = total[l] + Value(a)
        BY <4>4, SentinelAssumption DEF LogAdd
      <4>6. total'[l] = LogAdd(total[l], Value(a))
        BY <1>1, <1>3, <2>1, <3>5
      <4> QED  BY <1>4, <3>1, <3>3, <4>3, <4>5, <4>6
    <3>6. CASE l # Label
      <4>1. a \notin Rivals(s, l)  BY <1>4, <3>6 DEF Rivals
      <4>2. Added(s, l, a + 1) = Added(s, l, a)
        <5>1. \A b \in Rivals(s, l) : b < a + 1 <=> b < a
          BY <1>4, <3>4, <4>1
        <5> QED  BY <5>1 DEF Added
      <4>3. total'[l] = total[l]  BY <1>1, <1>3, <2>1, <3>6
      <4> QED  BY <3>1, <4>2, <4>3
    <3> QED  BY <3>5, <3>6
  <2>2. Values' = Values  BY <1>1, SameValues
  <2>3. \A q, l, n : Added(q, l, n)' = Added(q, l, n)  BY <1>2, SameMachine
  <2>4. s' = s /\ tmpArcId' = a + 1 /\ size' = size  BY <1>1, <1>3
  <2> QED  BY <2>1, <2>2, <2>3, <2>4 DEF TotalInv
<1> QED  BY <1>1, <1>8, <1>9, SameResults

LEMMA EndFirstStep == ASSUME NInv, EndFirst PROVE NInv'
<1> USE DEF NInv
<1>1. /\ UNCHANGED <<pc, after, data, expected, prob, s, tmpArcId, arcId, size, total>>
      /\ s <= Len(machine) /\ at > Len(machine[s])
      /\ loop = 1 /\ loop' = 2 /\ at' = 1
  BY DEF EndFirst, Running
<1>2. UNCHANGED <<machine, features, weights, observed>>  BY <1>1 DEF data
<1>3. Machine /\ tmpArcId = Count(s, at) /\ arcId = Count(s, 1)
  BY <1>1, DataHere DEF PositionInv, TypeOK, Count
<1>4. s \in 1..Len(machine) /\ Len(machine) \in Nat /\ Len(machine[s]) \in Nat
  BY <1>1, <1>3, MachineHere DEF PositionInv, TypeOK
<1>5. at = Len(machine[s]) + 1  BY <1>1, <1>4 DEF PositionInv
<1>6. ArcIds' = ArcIds  BY <1>2, SameMachine
<1>7. PositionInv'
  <2>1. TypeOK'
    <3>1. arcId' = Cardinality(Before(s, at))'
      BY <1>1, <1>2, <1>3, CountersNext
    <3> QED  BY <1>1, <1>2, <1>6, <3>1 DEF PositionInv, TypeOK
  <2>2. tmpArcId' = Count(s + 1, 1)'
    BY <1>1, <1>2, <1>3, <1>4, <1>5, CountStates, CountersNext
  <2>3. \A j \in 1..Len(machine[s]) : machine[s][j] < size
    BY <1>1, <1>4, <1>5 DEF PositionInv
  <2> QED  BY <1>1, <1>2, <1>4, <1>6, <2>1, <2>2, <2>3 DEF PositionInv
<1>8. TotalInv'
  <2>1. Values' = Values  BY <1>1, SameValues
  <2>2. \A q, l, n : Added(q, l, n)' = Added(q, l, n)  BY <1>2, SameMachine
  <2> QED  BY <1>1, <2>1, <2>2 DEF TotalInv
<1> QED  BY <1>1, <1>7, <1>8, SameResults


(* An arc of the second loop: the array has the sum over the arc's group. *)
LEMMA SecondLoop ==
    ASSUME NInv, Running, loop = 2, at <= Len(machine[s])
    PROVE  LET a == Count(s, at)
           IN  /\ a \in ArcIds /\ a \in Nat /\ arcId = a
               /\ Count(s, at + 1) = a + 1
               /\ s \in 1..Len(machine) /\ at \in 1..Len(machine[s])
               /\ total[Label] = SumOver(Group(a), Values)
<1> USE DEF NInv
<1> DEFINE a == Count(s, at)
<1>1. s <= Len(machine) /\ pc \in {"weigh", "count"}  BY DEF Running
<1>2. /\ a \in ArcIds /\ a \in Nat /\ Count(s, at + 1) = a + 1
      /\ Label \in Nat /\ Group(a) = Rivals(s, Label)
      /\ s \in 1..Len(machine) /\ at \in 1..Len(machine[s])
  BY <1>1, ArcHere
<1>3. arcId = a  BY DEF PositionInv, TypeOK, Count
<1> HIDE DEF a
<1>4. Machine /\ tmpArcId = Count(s + 1, 1)  BY DataHere DEF PositionInv
<1>5. Added(s, Label, tmpArcId) = Group(a)  BY <1>2, <1>4, AllAdded
<1>6. Label \in 0..(size - 1)
  <2>1. Label < size /\ size \in Nat  BY <1>2 DEF PositionInv, Label
  <2> QED  BY <1>2, <2>1
<1>7. total[Label] = SumOver(Added(s, Label, tmpArcId), Values)
  BY <1>1, <1>6 DEF TotalInv
<1> QED  BY <1>2, <1>3, <1>5, <1>7 DEF a

(* The position after an arc of the second loop. *)
LEMMA SecondLoopPosition ==
    ASSUME NInv, Running, loop = 2, at <= Len(machine[s]),
           UNCHANGED <<pc, after, data, s, loop, tmpArcId, size, total>>,
           arcId' = arcId + 1, at' = at + 1,
           DOMAIN expected' = DOMAIN expected, DOMAIN prob' = DOMAIN prob
    PROVE  PositionInv' /\ TotalInv'
<1> USE DEF NInv
<1>1. UNCHANGED <<machine, features, weights, observed>>  BY DEF data
<1>2. /\ arcId = Count(s, at) /\ Count(s, at + 1) = Count(s, at) + 1
      /\ s \in 1..Len(machine) /\ at \in 1..Len(machine[s])
  BY SecondLoop
<1>3. Machine  BY DataHere
<1>4. Len(machine) \in Nat /\ Len(machine[s]) \in Nat  BY <1>2, <1>3, MachineHere
<1>5. ArcIds' = ArcIds  BY <1>1, SameMachine
<1>6. PositionInv'
  <2>1. TypeOK'
    <3>1. arcId' = Cardinality(Before(s, at))'
      BY <1>1, <1>2, CountersNext
    <3> QED  BY <1>1, <1>5, <3>1 DEF PositionInv, TypeOK
  <2>2. tmpArcId' = Count(s + 1, 1)'  BY <1>1, CountersNext DEF PositionInv
  <2>3. at' \in 1..(Len(machine[s]) + 1)  BY <1>2, <1>4
  <2> QED  BY <1>1, <1>2, <1>4, <1>5, <2>1, <2>2, <2>3 DEF PositionInv
<1>7. TotalInv'
  <2>1. Values' = Values  BY SameValues
  <2>2. \A q, l, n : Added(q, l, n)' = Added(q, l, n)  BY <1>1, SameMachine
  <2> QED  BY <2>1, <2>2 DEF TotalInv
<1> QED  BY <1>6, <1>7

LEMMA WeighArcStep == ASSUME NInv, WeighArc PROVE NInv'
<1> USE DEF NInv
<1> DEFINE a == Count(s, at)
<1>1. /\ UNCHANGED <<pc, after, data, expected, s, loop, tmpArcId, size, total>>
      /\ Running /\ pc = "weigh" /\ loop = 2 /\ at <= Len(machine[s])
      /\ prob' = [prob EXCEPT ![arcId] = <<Score(arcId), total[Label]>>]
      /\ arcId' = arcId + 1 /\ at' = at + 1
  BY DEF WeighArc
<1>2. UNCHANGED <<machine, features, weights, observed>>  BY <1>1 DEF data
<1>3. /\ a \in ArcIds /\ a \in Nat /\ arcId = a
      /\ total[Label] = SumOver(Group(a), Values)
  BY <1>1, SecondLoop
<1> HIDE DEF a
<1>4. PositionInv' /\ TotalInv'  BY <1>1, SecondLoopPosition
<1>5. DOMAIN prob = ArcIds /\ ArcIds' = ArcIds
  BY <1>2, SameMachine DEF PositionInv, TypeOK
<1>6. ASSUME NEW b, b = a PROVE Weighed(b)'
  <2>1. Values = Scores  BY <1>1 DEF Values, Scores, Value
  <2>2. prob'[b] = <<Score(b), SumOver(Group(b), Scores)>>
    BY <1>1, <1>3, <1>5, <1>6, <2>1
  <2> QED  BY <1>2, <2>2, SameScores DEF Weighed
<1>7. ProbInv'
  <2>1. ASSUME NEW b \in ArcIds, b < a + 1 PROVE Weighed(b)'
    <3>1. CASE b = a  BY <1>6, <3>1
    <3>2. CASE b # a
      <4>1. b < a  BY <1>3, <2>1, <3>2 DEF ArcIds
      <4>2. Weighed(b)  BY <1>1, <1>3, <2>1, <4>1 DEF ProbInv
      <4>3. prob'[b] = prob[b]  BY <1>1, <1>3, <1>5, <2>1, <3>2
      <4> QED  BY <1>2, <4>2, <4>3, SameWeighed
    <3> QED  BY <3>1, <3>2
  <2> QED  BY <1>1, <1>3, <1>5, <2>1 DEF ProbInv
<1>8. NormalInv' /\ ExpectedInv'  BY <1>1 DEF NormalInv, ExpectedInv
<1> QED  BY <1>4, <1>7, <1>8

LEMMA CountArcStep == ASSUME NInv, CountArc PROVE NInv'
<1> USE DEF NInv
<1> DEFINE a == Count(s, at)
           T == SumOver(Group(a), observed)
           S == SumOver(Group(a), Scores)
<1>1. /\ UNCHANGED <<pc, after, data, prob, s, loop, tmpArcId, size, total>>
      /\ Running /\ pc = "count" /\ loop = 2 /\ at <= Len(machine[s])
      /\ expected' = [expected EXCEPT ![arcId] =
             LogAddFractions(@, <<total[Label] * prob[arcId][1], prob[arcId][2]>>)]
      /\ arcId' = arcId + 1 /\ at' = at + 1
  BY DEF CountArc
<1>2. UNCHANGED <<machine, features, weights, observed>>  BY <1>1 DEF data
<1>3. /\ a \in ArcIds /\ a \in Nat /\ arcId = a
      /\ total[Label] = SumOver(Group(a), Values)
  BY <1>1, SecondLoop
<1> HIDE DEF a
<1>4. DOMAIN expected = ArcIds /\ ArcIds' = ArcIds
  BY <1>2, SameMachine DEF PositionInv, TypeOK
<1>5. PositionInv' /\ TotalInv'  BY <1>1, SecondLoopPosition
<1>6. total[Label] = T
  <2>1. observed \in [ArcIds -> CountValues \cup {0}]  BY DEF PositionInv, TypeOK
  <2>2. Values = observed  BY <1>1, <2>1 DEF Values, Value
  <2> QED  BY <1>3, <2>2
<1>7. prob[a] = <<Score(a), S>>  BY <1>1, <1>3 DEF NormalInv, Weighed
<1>8. T \in Nat /\ S \in Nat /\ S > 0 /\ Score(a) \in Nat
  <2>1. /\ IsFiniteSet(Group(a)) /\ Group(a) \in SUBSET ArcIds
        /\ \A b \in ArcIds : Score(b) \in Nat \ {0} /\ observed[b] \in Nat
    BY DataHere
  <2>2. a \in Group(a)  BY <1>3 DEF Group
  <2>3. \A b \in ArcIds : Scores[b] = Score(b)  BY DEF Scores
  <2>4. \A b \in Group(a) : Scores[b] \in Nat /\ observed[b] \in Nat
    BY <2>1, <2>3
  <2>5. S >= Scores[a] /\ S \in Nat  BY <2>1, <2>2, <2>4, SumAtLeast
  <2>6. T \in Nat  BY <2>1, <2>4, PairsFinite
  <2>7. Scores[a] \in Nat \ {0}  BY <1>3, <2>1, <2>3
  <2> QED  BY <1>3, <2>1, <2>5, <2>6, <2>7
<1> HIDE DEF T, S
<1>9. expected[a] = <<0, 1>>  BY <1>1, <1>3 DEF ExpectedInv, ArcIds
<1>10. LogAddFractions(<<0, 1>>, <<T * Score(a), S>>) = <<T * Score(a), S>>
  <2> DEFINE n == T * Score(a)
  <2>1. n \in Nat  BY <1>8
  <2> HIDE DEF n
  <2>2. E \in Int /\ E < 0  BY SentinelAssumption
  <2>3. 0 # E * 1  BY <2>2
  <2>4. n # E * S  BY <1>8, <2>1, <2>2
  <2>5. 0 * S + n * 1 = n /\ 1 * S = S  BY <1>8, <2>1
  <2>6. LogAddFractions(<<0, 1>>, <<n, S>>) = <<n, S>>
    BY <2>3, <2>4, <2>5 DEF LogAddFractions
  <2> QED  BY <2>6 DEF n
<1>11. ASSUME NEW b, b = a PROVE Counted(b)'
  <2>1. expected'[a] = <<T * Score(a), S>>
    BY <1>1, <1>3, <1>4, <1>6, <1>7, <1>9, <1>10
  <2>2. expected'[b] = <<SumOver(Group(b), observed) * Score(b),
                         SumOver(Group(b), Scores)>>
    BY <1>11, <2>1 DEF T, S
  <2> QED  BY <1>2, <2>2, SameScores DEF Counted
<1>12. ExpectedInv'
  <2>1. ASSUME NEW b \in ArcIds
        PROVE  IF b < a + 1 THEN Counted(b)' ELSE expected'[b] = <<0, 1>>
    <3>1. CASE b = a  BY <1>3, <1>11, <3>1
    <3>2. CASE b # a
      <4>1. b < a + 1 <=> b < a  BY <1>3, <2>1, <3>2 DEF ArcIds
      <4>2. expected'[b] = expected[b]  BY <1>1, <1>3, <1>4, <2>1, <3>2
      <4>3. IF b < a THEN Counted(b) ELSE expected[b] = <<0, 1>>
        BY <1>1, <1>3, <2>1 DEF ExpectedInv
      <4> QED  BY <1>2, <4>1, <4>2, <4>3, SameCounted
    <3> QED  BY <3>1, <3>2
  <2> QED  BY <1>1, <1>3, <1>4, <2>1 DEF ExpectedInv
<1>13. ProbInv' /\ NormalInv'
  <2>1. ASSUME NEW b \in ArcIds PROVE Weighed(b)'
    <3>1. Weighed(b)  BY <1>1, <2>1 DEF NormalInv
    <3> QED  BY <1>1, <1>2, <3>1, SameWeighed
  <2> QED  BY <1>1, <1>4, <2>1 DEF ProbInv, NormalInv
<1> QED  BY <1>5, <1>12, <1>13

LEMMA NextStateStep == ASSUME NInv, NextState PROVE NInv'
<1> USE DEF NInv
<1>1. /\ UNCHANGED <<pc, after, data, expected, prob, arcId, size>>
      /\ s <= Len(machine) /\ loop = 2 /\ at > Len(machine[s])
      /\ s' = s + 1 /\ loop' = 1 /\ at' = 1
      /\ tmpArcId' = arcId /\ total' = Zeros(size)
  BY DEF NextState, Running
<1>2. UNCHANGED <<machine, features, weights, observed>>  BY <1>1 DEF data
<1>3. Machine /\ arcId = Count(s, at) /\ size \in Nat
  BY <1>1, DataHere DEF PositionInv, TypeOK, Count
<1>4. s \in 1..Len(machine) /\ Len(machine) \in Nat /\ Len(machine[s]) \in Nat
  BY <1>1, <1>3, MachineHere DEF PositionInv, TypeOK
<1>5. at = Len(machine[s]) + 1  BY <1>1, <1>4 DEF PositionInv
<1>6. ArcIds' = ArcIds  BY <1>2, SameMachine
<1>7. arcId = Count(s + 1, 1)  BY <1>3, <1>4, <1>5, CountStates
<1>8. s + 1 \in Nat \ {0}  BY <1>4
<1>9. PositionInv'
  <2>1. TypeOK'
    <3>1. /\ tmpArcId' = Cardinality(Before(s, at))'
          /\ arcId' = Cardinality(Before(s, 1))'
      BY <1>1, <1>2, <1>7, CountersNext
    <3>2. DOMAIN total' = 0..(size' - 1)  BY <1>1, <1>3, <1>8, ZeroSums
    <3>3. s' \in 1..(Len(machine) + 1)  BY <1>1, <1>4
    <3> QED  BY <1>1, <1>2, <1>6, <3>1, <3>2, <3>3 DEF PositionInv, TypeOK
  <2>2. s' <= Len(machine) => Len(machine[s']) \in Nat
    BY <1>1, <1>3, <1>4, MachineHere
  <2> QED  BY <1>1, <1>2, <1>3, <1>6, <2>1, <2>2 DEF PositionInv
<1>10. TotalInv'
  <2>1. \A l \in 0..(size - 1) :
          Zeros(size)[l] = SumOver(Added(s + 1, l, Count(s + 1, 1)), Values)
    BY <1>3, <1>8, ZeroSums
  <2>2. Values' = Values  BY <1>1, SameValues
  <2>3. \A q, l, n : Added(q, l, n)' = Added(q, l, n)  BY <1>2, SameMachine
  <2> QED  BY <1>1, <1>7, <2>1, <2>2, <2>3 DEF TotalInv
<1> QED  BY <1>1, <1>9, <1>10, SameResults


(* When the loops have passed the last state, all arcs have been passed. *)
LEMMA PassedAll ==
    ASSUME NInv, s > Len(machine)
    PROVE  arcId = NumArcs /\ \A a \in ArcIds : a < arcId
<1>1. Machine /\ Len(machine) \in Nat  BY DataHere, MachineHere DEF NInv
<1>2. s = Len(machine) + 1 /\ loop = 1
  BY <1>1 DEF NInv, PositionInv, TypeOK
<1>3. arcId = Count(s, 1)  BY <1>2 DEF NInv, PositionInv, TypeOK, Count
<1>4. arcId = NumArcs /\ NumArcs \in Nat  BY <1>1, <1>2, <1>3, CountEnd, PlacesFinite
<1> QED  BY <1>4 DEF ArcIds

(* Where the loops start anew. *)
LEMMA RestartPosition ==
    ASSUME NInv, NEW n \in Nat, Restart(n), UNCHANGED <<machine, features, observed>>,
           pc' \in {"weigh", "count", "ready"}, after' \in {"ready", "count"},
           weights' \in Weights,
           DOMAIN expected' = ArcIds, DOMAIN prob' = ArcIds
    PROVE  PositionInv' /\ TotalInv' /\ arcId' = 0 /\ ArcIds' = ArcIds
<1>1. Machine /\ Len(machine) \in Nat /\ ArcIds' = ArcIds
  BY DataHere, MachineHere, SameMachine DEF NInv
<1>2. /\ s' = 1 /\ loop' = 1 /\ at' = 1 /\ tmpArcId' = 0 /\ arcId' = 0
      /\ size' = n /\ total' = Zeros(n)
  BY DEF Restart
<1>3. Count(1, 1) = 0  BY <1>1, CountStart
<1>4. PositionInv'
  <2>1. TypeOK'
    <3>1. /\ tmpArcId' = Cardinality(Before(s, at))'
          /\ arcId' = Cardinality(Before(s, 1))'
      BY <1>2, <1>3, CountersNext
    <3>2. DOMAIN total' = 0..(size' - 1)  BY <1>2 DEF Zeros
    <3>3. s' \in 1..(Len(machine) + 1)  BY <1>1, <1>2
    <3> QED  BY <1>1, <1>2, <3>1, <3>2, <3>3 DEF NInv, PositionInv, TypeOK
  <2>2. s' <= Len(machine) => Len(machine[s']) \in Nat  BY <1>1, <1>2, MachineHere
  <2> QED  BY <1>1, <1>2, <2>1, <2>2 DEF NInv, PositionInv
<1>5. TotalInv'
  <2>1. 1 \in Nat \ {0}  OBVIOUS
  <2> DEFINE v == Values'
  <2> HIDE DEF v
  <2>2. \A l \in 0..(n - 1) : Zeros(n)[l] = SumOver(Added(1, l, Count(1, 1)), v)
    BY <1>1, <2>1, ZeroSums
  <2>3. \A q, l, m : Added(q, l, m)' = Added(q, l, m)  BY SameMachine
  <2> QED  BY <1>2, <1>3, <2>2, <2>3 DEF TotalInv, v
<1> QED  BY <1>1, <1>2, <1>4, <1>5

LEMMA EndWeighStep == ASSUME NInv, EndWeigh PROVE NInv'
<1>1. /\ pc = "weigh" /\ s > Len(machine) /\ pc' = after
      /\ Restart(size) /\ UNCHANGED <<after, data, prob>>
      /\ expected' = IF after = "count" THEN [a \in ArcIds |-> <<0, 1>>] ELSE expected
  BY DEF EndWeigh
<1>2. UNCHANGED <<machine, features, weights, observed>>  BY <1>1 DEF data
<1>3. /\ size \in Nat /\ after \in {"ready", "count"} /\ weights \in Weights
      /\ DOMAIN prob = ArcIds /\ DOMAIN expected = ArcIds
  BY DEF NInv, PositionInv, TypeOK
<1>4. PositionInv' /\ TotalInv' /\ arcId' = 0 /\ ArcIds' = ArcIds
  BY <1>1, <1>2, <1>3, RestartPosition
<1>5. ASSUME NEW a \in ArcIds PROVE Weighed(a)'
  <2>1. Weighed(a)  BY <1>1, <1>5, PassedAll DEF NInv, ProbInv
  <2> QED  BY <1>1, <1>2, <2>1, SameWeighed
<1>6. ProbInv' /\ NormalInv'  BY <1>4, <1>5 DEF ProbInv, NormalInv
<1>7. ExpectedInv'
  <2>1. \A a \in ArcIds : ~ (a < arcId')  BY <1>4 DEF ArcIds
  <2> QED  BY <1>1, <1>3, <1>4, <2>1 DEF ExpectedInv
<1> QED  BY <1>4, <1>6, <1>7 DEF NInv

LEMMA EndCountStep == ASSUME NInv, EndCount PROVE NInv'
<1>1. /\ pc = "count" /\ s > Len(machine) /\ pc' = "gradient"
      /\ UNCHANGED <<after, data, expected, prob, loopVars>>
  BY DEF EndCount
<1>2. UNCHANGED <<machine, features, weights, observed, s, loop, at, tmpArcId, arcId, size, total>>
  BY <1>1 DEF data, loopVars
<1>3. ArcIds' = ArcIds  BY <1>2, SameMachine
<1>4. PositionInv'
  <2>1. /\ Cardinality(Before(s, at))' = Cardinality(Before(s, at))
        /\ Cardinality(Before(s, 1))' = Cardinality(Before(s, 1))
        /\ Count(s + 1, 1)' = Count(s + 1, 1)
    BY <1>2, CountersNext DEF Count
  <2> QED  BY <1>1, <1>2, <1>3, <2>1 DEF NInv, PositionInv, TypeOK
<1>5. TotalInv' /\ ProbInv'  BY <1>1 DEF TotalInv, ProbInv
<1>6. NormalInv'
  <2>1. ASSUME NEW a \in ArcIds PROVE Weighed(a)'
    <3>1. Weighed(a)  BY <1>1, <2>1 DEF NInv, NormalInv
    <3> QED  BY <1>1, <1>2, <3>1, SameWeighed
  <2> QED  BY <1>3, <2>1 DEF NormalInv
<1>7. ExpectedInv'
  <2>1. ASSUME NEW a \in ArcIds PROVE Counted(a)'
    <3>1. Counted(a)  BY <1>1, <2>1, PassedAll DEF NInv, ExpectedInv
    <3> QED  BY <1>1, <1>2, <3>1, SameCounted
  <2> QED  BY <1>1, <1>3, <2>1 DEF ExpectedInv
<1> QED  BY <1>4, <1>5, <1>6, <1>7 DEF NInv

LEMMA EStepStep == ASSUME NInv, EStep PROVE NInv'
<1>1. /\ pc \in {"ready", "gradient"} /\ pc' = "ready"
      /\ observed' \in [ArcIds -> CountValues]
      /\ UNCHANGED <<after, machine, features, weights, expected, prob, loopVars>>
  BY DEF EStep
<1>2. UNCHANGED <<s, loop, at, tmpArcId, arcId, size, total>>  BY <1>1 DEF loopVars
<1>3. ArcIds' = ArcIds  BY <1>1, SameMachine
<1>4. PositionInv'
  <2>1. /\ Cardinality(Before(s, at))' = Cardinality(Before(s, at))
        /\ Cardinality(Before(s, 1))' = Cardinality(Before(s, 1))
        /\ Count(s + 1, 1)' = Count(s + 1, 1)
    BY <1>1, <1>2, CountersNext DEF Count
  <2>2. observed' \in [ArcIds' -> CountValues \cup {0}]  BY <1>1, <1>3
  <2> QED  BY <1>1, <1>2, <1>3, <2>1, <2>2 DEF NInv, PositionInv, TypeOK
<1>5. TotalInv' /\ ProbInv' /\ ExpectedInv'
  BY <1>1 DEF TotalInv, ProbInv, ExpectedInv
<1>6. NormalInv'
  <2>1. ASSUME NEW a \in ArcIds PROVE Weighed(a)'
    <3>1. Weighed(a)  BY <1>1, <2>1 DEF NInv, NormalInv
    <3> QED  BY <1>1, <3>1, SameWeighed
  <2> QED  BY <1>3, <2>1 DEF NormalInv
<1> QED  BY <1>4, <1>5, <1>6 DEF NInv

LEMMA CallStep ==
    ASSUME NInv, NEW next \in {"ready", "count"}, Call(next) PROVE NInv'
<1>1. /\ weights' \in Weights /\ pc' = "weigh" /\ after' = next
      /\ Restart(SymbolBound)
      /\ UNCHANGED <<machine, features, observed, expected, prob>>
  BY DEF Call
<1>2. DOMAIN prob = ArcIds /\ DOMAIN expected = ArcIds /\ SymbolBound \in Nat
  BY ValueAssumption DEF NInv, PositionInv, TypeOK
<1>3. PositionInv' /\ TotalInv' /\ arcId' = 0 /\ ArcIds' = ArcIds
  BY <1>1, <1>2, RestartPosition
<1>4. ProbInv'
  <2>1. \A a \in ArcIds : ~ (a < arcId')  BY <1>3 DEF ArcIds
  <2> QED  BY <1>3, <2>1 DEF ProbInv
<1>5. NormalInv' /\ ExpectedInv'  BY <1>1 DEF NormalInv, ExpectedInv
<1> QED  BY <1>3, <1>4, <1>5 DEF NInv

LEMMA StutterStep == ASSUME NInv, UNCHANGED vars PROVE NInv'
<1>1. UNCHANGED <<pc, after, data, expected, prob, s, loop, at, tmpArcId, arcId, size, total>>
  BY DEF vars, loopVars
<1>2. UNCHANGED <<machine, features, weights, observed>>  BY <1>1 DEF data
<1>3. ArcIds' = ArcIds  BY <1>2, SameMachine
<1>4. PositionInv'
  <2>1. /\ Cardinality(Before(s, at))' = Cardinality(Before(s, at))
        /\ Cardinality(Before(s, 1))' = Cardinality(Before(s, 1))
        /\ Count(s + 1, 1)' = Count(s + 1, 1)
    BY <1>1, <1>2, CountersNext DEF Count
  <2> QED  BY <1>1, <1>2, <1>3, <2>1 DEF NInv, PositionInv, TypeOK
<1>5. TotalInv'
  <2>1. Values' = Values  BY <1>1, SameValues
  <2>2. \A q, l, n : Added(q, l, n)' = Added(q, l, n)  BY <1>2, SameMachine
  <2> QED  BY <1>1, <2>1, <2>2 DEF NInv, TotalInv
<1> QED  BY <1>1, <1>4, <1>5, SameResults DEF NInv

(* The invariant holds in every state. *)
LEMMA NInvHolds == Spec => []NInv
<1>1. NInv /\ [Next]_vars => NInv'
  <2> SUFFICES ASSUME NInv, [Next]_vars PROVE NInv'
    OBVIOUS
  <2>1. CASE AddArc  BY <2>1, AddArcStep
  <2>2. CASE EndFirst  BY <2>2, EndFirstStep
  <2>3. CASE WeighArc  BY <2>3, WeighArcStep
  <2>4. CASE CountArc  BY <2>4, CountArcStep
  <2>5. CASE NextState  BY <2>5, NextStateStep
  <2>6. CASE EndWeigh  BY <2>6, EndWeighStep
  <2>7. CASE EndCount  BY <2>7, EndCountStep
  <2>8. CASE EStep  BY <2>8, EStepStep
  <2>9. CASE Value2  BY <2>9, CallStep DEF Value2
  <2>10. CASE Gradient2  BY <2>10, CallStep DEF Gradient2
  <2>11. CASE UNCHANGED vars  BY <2>11, StutterStep
  <2> QED  BY <2>1, <2>2, <2>3, <2>4, <2>5, <2>6, <2>7, <2>8, <2>9, <2>10, <2>11 DEF Next
<1> QED  BY <1>1, InitNInv, PTL DEF Spec

-----------------------------------------------------------------------------
(* The results. *)

(* The type invariant: the counters by which the loops find an arc's data  *)
(* always equal the number of arcs their iterators have passed             *)
(* (wfst-train-local-fast.cpp:317-344, 78-101).                            *)
THEOREM LoopsTypeCorrect == Spec => []TypeOK
<1>1. NInv => TypeOK  BY DEF NInv, PositionInv
<1> QED  BY <1>1, NInvHolds, PTL

(* After update_arc_weights an arc's weight is its score divided by the sum *)
(* of the scores of the arcs with its state and input label.                *)
THEOREM WeightsNormalised == Spec => []Normalised
<1>1. NInv => Normalised
  BY DEF NInv, NormalInv, Normalised, Weighed, Scores
<1> QED  BY <1>1, NInvHolds, PTL

(* Arcs of one group compete with the same arcs. *)
LEMMA SameGroup ==
    ASSUME NEW a \in ArcIds, NEW b \in Group(a) PROVE Group(b) = Group(a)
BY DEF Group

(* What gradient2 expects of the arcs of one group adds up to what was *)
(* observed on them.                                                   *)
THEOREM ExpectedCountsConserved == Spec => []CountsConserved
<1>1. NInv => CountsConserved
  <2> SUFFICES ASSUME NInv, pc = "gradient", NEW a \in ArcIds
               PROVE  LET numerators == [b \in ArcIds |-> expected[b][1]]
                          common == prob[a][2]
                      IN  /\ \A b \in Group(a) : expected[b][2] = common
                          /\ SumOver(Group(a), numerators)
                               = common * SumOver(Group(a), observed)
    BY DEF CountsConserved
  <2> DEFINE numerators == [b \in ArcIds |-> expected[b][1]]
             G == Group(a)
             T == SumOver(G, observed)
             S == SumOver(G, Scores)
  <2>1. /\ IsFiniteSet(G) /\ G \in SUBSET ArcIds
        /\ \A b \in ArcIds : Score(b) \in Nat \ {0} /\ observed[b] \in Nat
    BY DataHere DEF NInv
  <2>2. prob[a] = <<Score(a), S>>  BY DEF NInv, NormalInv, Weighed
  <2>3. ASSUME NEW b \in G PROVE expected[b] = <<T * Score(b), S>>
    <3>1. b \in ArcIds /\ Group(b) = G  BY <2>1, SameGroup
    <3>2. Counted(b)  BY <3>1 DEF NInv, ExpectedInv
    <3> QED  BY <3>1, <3>2 DEF Counted
  <2>4. \A b \in G : Scores[b] = Score(b) /\ Scores[b] \in Nat
    BY <2>1 DEF Scores
  <2>5. \A b \in G : numerators[b] = T * Scores[b]  BY <2>1, <2>3, <2>4
  <2>6. T \in Nat /\ S \in Nat
    <3>1. \A b \in G : observed[b] \in Nat  BY <2>1
    <3> HIDE DEF G
    <3> QED  BY <2>1, <2>4, <3>1, PairsFinite
  <2> HIDE DEF G, T, S, numerators
  <2>7. SumOver(G, numerators) = T * SumOver(G, Scores)
    BY <2>1, <2>4, <2>5, <2>6, SumScaled
  <2>8. SumOver(G, numerators) = S * T  BY <2>6, <2>7 DEF S
  <2>9. \A b \in G : expected[b][2] = prob[a][2]  BY <2>2, <2>3
  <2>10. prob[a][2] = S  BY <2>2
  <2> QED  BY <2>8, <2>9, <2>10 DEF G, T, numerators
<1> QED  BY <1>1, NInvHolds, PTL
=============================================================================
