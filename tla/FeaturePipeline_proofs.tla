----------------------- MODULE FeaturePipeline_proofs -----------------------
(***************************************************************************)
(* What holds of context_edit.py and of the features built on it, for      *)
(* every pair of finite alphabets and every supported topology.            *)
(*   - main() never looks up a context it has not numbered, no state mixes *)
(*     edits with absorptions, arc_to_action names the action each arc was *)
(*     added for, and from every state arcs lead to state 0.               *)
(*   - featurize.py, FeatureReader and the iteration over the machine      *)
(*     number the arcs alike, so that every arc has its own features, and  *)
(*     the full context feature of an edit is the feature of one arc.      *)
(***************************************************************************)
EXTENDS FeaturePipeline, ContextEdit_proofs, FiniteSetTheorems

-----------------------------------------------------------------------------
(* The machine builder, main() of context_edit.py. *)

(* The largest of some numbers is one of them. *)
LEMMA MaxMember ==
    ASSUME NEW n \in Nat, NEW S \in SUBSET (0..n), S # {}
    PROVE  Max(S) \in S /\ \A k \in S : k <= Max(S)
<1> DEFINE T == {n - k : k \in S}
           R == {ss \in Nat \X Nat : ss[1] < ss[2]}
<1>1. T \in SUBSET Nat /\ T # {}
  <2>1. \A k \in S : n - k \in Nat /\ n - k \in T  OBVIOUS
  <2>2. PICK k \in S : TRUE  OBVIOUS
  <2> QED  BY <2>1, <2>2
<1>2. PICK x \in T : \A z \in T : ~ (<<z, x>> \in R)
  <2>1. R = OpToRel(<, Nat)  BY Zenon DEF OpToRel
  <2>2. IsWellFoundedOn(R, Nat)  BY <2>1, NatLessThanWellFounded
  <2> HIDE DEF T, R
  <2> QED  BY <1>1, <2>2, WFMin
<1>3. \A z \in T : x <= z
  <2> TAKE z \in T
  <2>1. x \in Nat /\ z \in Nat  BY <1>1
  <2>2. ~(z < x)  BY <1>2, <2>1
  <2> QED  BY <2>1, <2>2
<1>4. PICK m \in S : x = n - m  OBVIOUS
<1>5. \A k \in S : m >= k
  <2> TAKE k \in S
  <2>1. n - k \in T  OBVIOUS
  <2>2. k \in Nat /\ m \in Nat  OBVIOUS
  <2> QED  BY <1>3, <1>4, <2>1, <2>2
<1>6. Max(S) \in S /\ \A k \in S : Max(S) >= k  BY <1>5 DEF Max
<1>7. \A k \in S : k \in Nat  OBVIOUS
<1> QED  BY <1>6, <1>7

(* SetToSeq lists elements of the set. *)
LEMMA SetToSeqElements ==
    ASSUME NEW S, IsFiniteSet(S)
    PROVE  SetToSeq(S) \in Seq(S)
<1>1. /\ Cardinality(S) \in Nat
      /\ \E f \in [1..Cardinality(S) -> S] : IsInjective(f)
  BY FS_CardinalityType DEF ExistsBijection, Bijection, Injection
<1>2. SetToSeq(S) \in [1..Cardinality(S) -> S]  BY <1>1 DEF SetToSeq
<1> QED  BY <1>1, <1>2, SeqDef

(* A sequence that fits is one of the windows the loops go through. *)
LEMMA WindowListed ==
    ASSUME NEW S, NEW n \in Nat, NEW t \in Seq(S), Len(t) <= n
    PROVE  t \in BoundedSeq(S, n)
<1>1. t \in [1..Len(t) -> S] /\ Len(t) \in 0..n  BY LenProperties
<1> QED  BY <1>1 DEF BoundedSeq, SeqOf

(* The loops go through every context. *)
LEMMA AllContextsComplete ==
    ASSUME NEW c
    PROVE  c \in AllContexts <=> IsContext(c)
<1>1. ASSUME IsContext(c) PROVE c \in AllContexts
  <2>1. /\ c = [ulc |-> c.ulc, urc |-> c.urc, llc |-> c.llc]
        /\ c.ulc \in BoundedSeq(Upper, UlcMax)
        /\ c.urc \in BoundedSeq(Upper, UrcMax)
        /\ c.llc \in BoundedSeq(Lower, LlcMax)
    BY <1>1, ContextWindows, WindowListed, MaxAssumption
  <2> QED  BY <1>1, <2>1 DEF AllContexts
<1> QED  BY <1>1 DEF AllContexts

(* The context with boundary symbols on the left is one of them. *)
LEMMA InitialContextListed == InitialContext \in AllContexts
<1> DEFINE u == IF UlcMax > 0 THEN <<Sharp>> ELSE <<>>
           l == IF LlcMax > 0 THEN <<Sharp>> ELSE <<>>
<1>1. u \in Seq(Upper) /\ Len(u) = UlcMax
  <2>1. CASE UlcMax = 0  BY <2>1
  <2>2. CASE UlcMax = 1  BY <2>2 DEF Upper
  <2> QED  BY <2>1, <2>2, TopologyAssumption
<1>2. l \in Seq(Lower) /\ Len(l) = LlcMax
  <2>1. CASE LlcMax = 0  BY <2>1
  <2>2. CASE LlcMax = 1  BY <2>2 DEF Lower
  <2> QED  BY <2>1, <2>2, TopologyAssumption
<1>3. <<>> \in Seq(Upper) /\ Len(<<>>) <= UrcMax /\ SharpAtEnd(<<>>)
  BY MaxAssumption DEF SharpAtEnd
<1>4. InitialContext = [ulc |-> u, urc |-> <<>>, llc |-> l]
  BY DEF InitialContext
<1> HIDE DEF u, l
<1> QED  BY <1>1, <1>2, <1>3, <1>4, ContextFrom, AllContextsComplete

-----------------------------------------------------------------------------
(* What the second and third loop add for a context: arcs to contexts that *)
(* read nothing exactly when the context is bold, and of which two with    *)
(* the same target and labels are the same edit.                           *)

ContextArcs == [to : AllContexts, in : Upper \cup {Eps},
                out : V2 \cup {Eps}, by : Actions]

GoodEdges(c, edges) ==
    /\ edges \in Seq(ContextArcs)
    /\ \A k \in 1..Len(edges) : edges[k].in = Eps <=> IsBold(c)
    /\ \A k, m \in 1..Len(edges) :
         (/\ edges[k].to = edges[m].to
          /\ edges[k].in = edges[m].in
          /\ edges[k].out = edges[m].out) => edges[k].by = edges[m].by

Insertions(c)    == {Edge(InsTarget(c, v), Eps, v, "INS") : v \in V2}
Substitutions(c) == {Edge(SubTarget(c, v), Eps, v, "SUB") : v \in V2}
Deletions(c)     == {Edge(DelTarget(c), Eps, Eps, "DEL")}
Absorptions(c)   == {Edge(AbsTarget(c, s), s, Eps, "ABS") :
                        s \in {x \in Upper : CanAbsorb(c, x)}}

(* An insertion keeps the right window. *)
LEMMA InsertionsToContexts ==
    ASSUME NEW c \in AllContexts, NEW e \in Insertions(c)
    PROVE  /\ e \in ContextArcs /\ e.in = Eps /\ e.by = "INS"
           /\ e.to.urc = c.urc
<1> USE AllContextsComplete, ContextWindows
<1>1. PICK v \in V2 : e = Edge(InsTarget(c, v), Eps, v, "INS")
  BY DEF Insertions
<1> DEFINE l == Bump(c.llc, v, LlcMax)
<1>2. l \in Seq(Lower) /\ Len(l) = LlcMax
  <2>1. v \in Lower  BY DEF Lower
  <2>2. l = IF LlcMax = 0 THEN <<>> ELSE <<v>>
    BY <2>1, LeftWindowShifts, TopologyAssumption
  <2> QED  BY <2>1, <2>2, TopologyAssumption
<1>3. e.to = [ulc |-> c.ulc, urc |-> c.urc, llc |-> l]
  BY <1>1 DEF Edge, InsTarget
<1> HIDE DEF l
<1>4. e.to \in AllContexts  BY <1>2, <1>3, ContextFrom
<1> QED  BY <1>1, <1>3, <1>4 DEF ContextArcs, Edge, Actions

(* An edit that reads makes the right window shorter. *)
LEMMA ReadingEditsToContexts ==
    ASSUME NEW c \in AllContexts, CanRead(c),
           NEW e \in Substitutions(c) \cup Deletions(c)
    PROVE  /\ e \in ContextArcs /\ e.in = Eps
           /\ e.to.urc # c.urc
           /\ e \in Substitutions(c) => e.out \in V2 /\ e.by = "SUB"
           /\ e \in Deletions(c) => e.out = Eps /\ e.by = "DEL"
<1> USE AllContextsComplete, ContextWindows
<1>1. /\ c.urc # <<>> /\ c.urc[1] \in Upper
      /\ Len(c.urc) \in 0..UrcMax /\ SharpAtEnd(c.urc)
  BY DEF CanRead
<1> DEFINE r == Bump2(c.urc)
<1>2. r \in Seq(Upper) /\ Len(r) = Len(c.urc) - 1 /\ Len(r) <= UrcMax
      /\ SharpAtEnd(r)
  BY <1>1, Bump2Shifts, SharpAtEndShifts, MaxAssumption
<1>3. r # c.urc  BY <1>2
<1> HIDE DEF r
<1> DEFINE u == IF UlcMax = 0 THEN <<>> ELSE <<c.urc[1]>>
<1>4. /\ u \in Seq(Upper) /\ Len(u) = UlcMax
      /\ u = Add(Bump2(c.ulc), c.urc[1], UlcMax)
      /\ u = Add(c.ulc, c.urc[1], UlcMax)
  BY <1>1, LeftWindowShifts, TopologyAssumption
<1> HIDE DEF u
<1>5. CASE e \in Substitutions(c)
  <2>1. PICK v \in V2 : e = Edge(SubTarget(c, v), Eps, v, "SUB")
    BY <1>5 DEF Substitutions
  <2> DEFINE l == Bump(c.llc, v, LlcMax)
  <2>2. l \in Seq(Lower) /\ Len(l) = LlcMax
    <3>1. v \in Lower  BY DEF Lower
    <3>2. l = IF LlcMax = 0 THEN <<>> ELSE <<v>>
      BY <3>1, LeftWindowShifts, TopologyAssumption
    <3> QED  BY <3>1, <3>2, TopologyAssumption
  <2>3. e.to = [ulc |-> u, urc |-> r, llc |-> l]
    BY <1>4, <2>1 DEF Edge, SubTarget, r
  <2> HIDE DEF l
  <2>4. e.to \in AllContexts  BY <1>2, <1>4, <2>2, <2>3, ContextFrom
  <2>5. e.out # Eps  BY <2>1, EpsAssumption DEF Edge
  <2>6. e \notin Deletions(c)  BY <2>5 DEF Deletions, Edge
  <2> QED  BY <1>3, <2>1, <2>3, <2>4, <2>6 DEF ContextArcs, Edge, Actions
<1>6. CASE e \in Deletions(c)
  <2>1. e = Edge(DelTarget(c), Eps, Eps, "DEL")  BY <1>6 DEF Deletions
  <2>2. e.to = [ulc |-> u, urc |-> r, llc |-> c.llc]
    BY <1>4, <2>1 DEF Edge, DelTarget, r
  <2>3. e.to \in AllContexts  BY <1>2, <1>4, <2>2, ContextFrom
  <2>4. e \notin Substitutions(c)
    BY <2>1, EpsAssumption DEF Substitutions, Edge
  <2> QED  BY <1>3, <2>1, <2>2, <2>3, <2>4 DEF ContextArcs, Edge, Actions
<1> QED  BY <1>5, <1>6

(* An absorption makes the right window longer. *)
LEMMA AbsorptionsToContexts ==
    ASSUME NEW c \in AllContexts, ~IsBold(c), NEW e \in Absorptions(c)
    PROVE  e \in ContextArcs /\ e.in # Eps /\ e.by = "ABS"
<1> USE AllContextsComplete, ContextWindows
<1>1. PICK s \in Upper : CanAbsorb(c, s) /\ e = Edge(AbsTarget(c, s), s, Eps, "ABS")
  BY DEF Absorptions
<1> DEFINE r == AddReverse(c.urc, s, UrcMax)
<1>2. r \in Seq(Upper) /\ Len(r) <= UrcMax
  <2>1. Len(c.urc) < UrcMax /\ c.urc \in Seq(Upper)  BY MaxAssumption
  <2>2. r = Append(c.urc, s)  BY <2>1, AddReverseAppends, MaxAssumption
  <2> QED  BY <2>1, <2>2, MaxAssumption
<1>3. SharpAtEnd(r)  BY <1>1 DEF CanAbsorb
<1>4. e.to = [ulc |-> c.ulc, urc |-> r, llc |-> c.llc]
  BY <1>1 DEF Edge, AbsTarget
<1> HIDE DEF r
<1>5. e.to \in AllContexts  BY <1>2, <1>3, <1>4, ContextFrom
<1>6. s # Eps  BY EpsAssumption DEF Upper
<1> QED  BY <1>1, <1>5, <1>6 DEF ContextArcs, Edge, Actions

(* The arcs of the second loop. *)
LEMMA BoldEdgesGood ==
    ASSUME NEW c \in AllContexts, IsBold(c)
    PROVE  GoodEdges(c, BoldEdges(c))
<1> DEFINE v   == SetToSeq(V2)
           ins == [k \in 1..Len(v) |-> Edge(InsTarget(c, v[k]), Eps, v[k], "INS")]
           sub == [k \in 1..Len(v) |-> Edge(SubTarget(c, v[k]), Eps, v[k], "SUB")]
           del == <<Edge(DelTarget(c), Eps, Eps, "DEL")>>
           E   == BoldEdges(c)
           All == Insertions(c) \cup
                  IF CanRead(c) THEN Substitutions(c) \cup Deletions(c) ELSE {}
<1>1. E = IF CanRead(c) THEN ins \o sub \o del ELSE ins
  BY DEF BoldEdges
<1>2. v \in Seq(V2)  BY SetToSeqElements, AlphabetAssumption
<1>3. Len(v) \in Nat /\ \A k \in 1..Len(v) : v[k] \in V2
  <2> HIDE DEF v
  <2> QED  BY <1>2
<1> HIDE DEF v
<1>4. ins \in Seq(Insertions(c))
  <2>1. ins \in [1..Len(v) -> Insertions(c)]  BY <1>3 DEF Insertions
  <2> QED  BY <1>3, <2>1, SeqDef
<1>5. sub \in Seq(Substitutions(c))
  <2>1. sub \in [1..Len(v) -> Substitutions(c)]  BY <1>3 DEF Substitutions
  <2> QED  BY <1>3, <2>1, SeqDef
<1>6. del \in Seq(Deletions(c))  BY DEF Deletions
<1> HIDE DEF ins, sub, del, E
<1>7. E \in Seq(All)
  <2>1. CASE CanRead(c)
    <3>1. ins \in Seq(All) /\ sub \in Seq(All) /\ del \in Seq(All)
      BY <1>4, <1>5, <1>6, <2>1, SeqMonotonic
    <3> HIDE DEF All
    <3>2. ins \o sub \o del \in Seq(All)  BY <3>1, ConcatProperties
    <3> QED  BY <1>1, <2>1, <3>2
  <2>2. CASE ~CanRead(c)
    <3>1. ins \in Seq(All)  BY <1>4, <2>2
    <3> QED  BY <1>1, <2>2, <3>1
  <2> QED  BY <2>1, <2>2
<1>8. \A e \in All : e \in ContextArcs /\ e.in = Eps
  BY InsertionsToContexts, ReadingEditsToContexts
<1>9. ASSUME NEW e \in All, NEW f \in All, e.to = f.to, e.out = f.out
      PROVE  e.by = f.by
  <2>1. CASE e \in Insertions(c) /\ f \in Insertions(c)
    BY <2>1, InsertionsToContexts
  <2>2. CASE e \notin Insertions(c) /\ f \in Insertions(c)
    <3>1. CanRead(c) /\ e \in Substitutions(c) \cup Deletions(c)  BY <2>2
    <3> QED  BY <1>9, <2>2, <3>1, InsertionsToContexts, ReadingEditsToContexts
  <2>3. CASE e \in Insertions(c) /\ f \notin Insertions(c)
    <3>1. CanRead(c) /\ f \in Substitutions(c) \cup Deletions(c)  BY <2>3
    <3> QED  BY <1>9, <2>3, <3>1, InsertionsToContexts, ReadingEditsToContexts
  <2>4. CASE e \notin Insertions(c) /\ f \notin Insertions(c)
    <3>1. CanRead(c) /\ e \in Substitutions(c) \cup Deletions(c)
                     /\ f \in Substitutions(c) \cup Deletions(c)
      BY <2>4
    <3> QED  BY <1>9, <3>1, ReadingEditsToContexts, EpsAssumption
  <2> QED  BY <2>1, <2>2, <2>3, <2>4
<1> HIDE DEF All
<1>10. E \in Seq(ContextArcs)
  <2>1. All \subseteq ContextArcs  BY <1>8
  <2> QED  BY <1>7, <2>1, SeqMonotonic
<1>11. \A k \in 1..Len(E) : E[k] \in All  BY <1>7, ElementOfSeq
<1>12. GoodEdges(c, E)  BY <1>8, <1>9, <1>10, <1>11 DEF GoodEdges
<1> QED  BY <1>12 DEF E

(* The arcs of the third loop. *)
LEMMA NonBoldEdgesGood ==
    ASSUME NEW c \in AllContexts, ~IsBold(c)
    PROVE  GoodEdges(c, NonBoldEdges(c))
<1> DEFINE Legal(S) == SetToSeq({s \in S : CanAbsorb(c, s)})
           A == {s \in Upper : CanAbsorb(c, s)}
           v == Legal(V1) \o Legal({Sharp})
           E == NonBoldEdges(c)
<1>1. E = [k \in 1..Len(v) |-> Edge(AbsTarget(c, v[k]), v[k], Eps, "ABS")]
  BY DEF NonBoldEdges
<1>2. v \in Seq(A)
  <2>1. ASSUME NEW S, S \subseteq Upper, IsFiniteSet(S)
        PROVE  Legal(S) \in Seq(A)
    <3> DEFINE T == {s \in S : CanAbsorb(c, s)}
    <3>1. T \in SUBSET S /\ T \subseteq A  BY <2>1
    <3>2. IsFiniteSet(T)  BY <2>1, <3>1, FS_Subset
    <3> HIDE DEF T, A
    <3>3. SetToSeq(T) \in Seq(A)  BY <3>1, <3>2, SetToSeqElements, SeqMonotonic
    <3> QED  BY <3>3 DEF T
  <2>2. Legal(V1) \in Seq(A)  BY <2>1, AlphabetAssumption DEF Upper
  <2>3. Legal({Sharp}) \in Seq(A)  BY <2>1, FS_Singleton DEF Upper
  <2> HIDE DEF A, Legal
  <2> QED  BY <2>2, <2>3, ConcatProperties
<1>3. Len(v) \in Nat /\ \A k \in 1..Len(v) : v[k] \in A
  <2> HIDE DEF v, A
  <2> QED  BY <1>2
<1> HIDE DEF v
<1>4. E \in Seq(Absorptions(c))
  <2>1. E \in [1..Len(v) -> Absorptions(c)]  BY <1>1, <1>3 DEF Absorptions
  <2> QED  BY <1>3, <2>1, SeqDef
<1> HIDE DEF E
<1>5. \A e \in Absorptions(c) : e \in ContextArcs /\ e.in # Eps /\ e.by = "ABS"
  BY AbsorptionsToContexts
<1>6. E \in Seq(ContextArcs)
  <2>1. Absorptions(c) \subseteq ContextArcs  BY <1>5
  <2> QED  BY <1>4, <2>1, SeqMonotonic
<1>7. \A k \in 1..Len(E) : E[k] \in Absorptions(c)  BY <1>4, ElementOfSeq
<1>8. GoodEdges(c, E)  BY <1>5, <1>6, <1>7 DEF GoodEdges
<1> QED  BY <1>8 DEF E

-----------------------------------------------------------------------------
(* The machine while it is built, state by state. *)

ArcRecords == [to : Nat, in : Upper \cup {Eps}, out : V2 \cup {Eps}, by : Actions]

(* What the arcs of context c are once numbered, when n is its number. *)
GoodArcs(c, n, L, new) ==
    /\ new \in Seq(ArcRecords)
    /\ \A k \in 1..Len(new) : /\ new[k].to \in 1..L
                              /\ new[k].in = Eps <=> IsBold(c)
    /\ \A k, m \in 1..Len(new) :
         ArcKey(n, new[k]) = ArcKey(n, new[m]) => new[k].by = new[m].by

(* The numbers and the labels of a context's arcs. *)
LEMMA NumberedArcs ==
    ASSUME NEW c, NEW edges, GoodEdges(c, edges), NEW L \in Nat,
           NEW table \in [AllContexts -> 1..L],
           \A d, e \in AllContexts : table[d] = table[e] => d = e,
           NEW n, NEW new, new = Number(table, edges)
    PROVE  GoodArcs(c, n, L, new)
<1>1. edges \in Seq(ContextArcs) /\ Len(edges) \in Nat  BY DEF GoodEdges
<1>2. \A k \in 1..Len(edges) : /\ edges[k] \in ContextArcs
                               /\ edges[k].to \in AllContexts
                               /\ edges[k].to # FinalState
  <2>1. \A k \in 1..Len(edges) : edges[k] \in ContextArcs
    BY <1>1, ElementOfSeq
  <2>2. FinalState \notin AllContexts
    BY AllContextsComplete, FinalAssumption
  <2> QED  BY <2>1, <2>2 DEF ContextArcs
<1>3. new = [k \in 1..Len(edges) |->
               [to |-> table[edges[k].to], in |-> edges[k].in,
                out |-> edges[k].out, by |-> edges[k].by]]
  BY <1>2 DEF Number, Edge
<1>4. new \in Seq(ArcRecords) /\ Len(new) = Len(edges)
  <2>1. \A k \in 1..Len(edges) : table[edges[k].to] \in Nat  BY <1>2
  <2>2. new \in [1..Len(edges) -> ArcRecords]
    BY <1>2, <1>3, <2>1 DEF ArcRecords, ContextArcs
  <2>3. new \in Seq(ArcRecords)  BY <1>1, <2>2, SeqDef
  <2>4. DOMAIN new = 1..Len(new) /\ DOMAIN new = 1..Len(edges) /\ Len(new) \in Nat
    BY <1>3, <2>3, LenProperties
  <2> QED  BY <1>1, <2>3, <2>4
<1>5. \A k \in 1..Len(new) : /\ new[k].to = table[edges[k].to]
                             /\ new[k].in = edges[k].in
                             /\ new[k].out = edges[k].out
                             /\ new[k].by = edges[k].by
  BY <1>3, <1>4
<1>6. \A k \in 1..Len(new) : new[k].to \in 1..L /\ (new[k].in = Eps <=> IsBold(c))
  BY <1>2, <1>4, <1>5 DEF GoodEdges
<1>7. ASSUME NEW k \in 1..Len(new), NEW m \in 1..Len(new),
             ArcKey(n, new[k]) = ArcKey(n, new[m])
      PROVE  new[k].by = new[m].by
  <2>1. /\ new[k].to = new[m].to /\ new[k].in = new[m].in
        /\ new[k].out = new[m].out
    BY <1>7 DEF ArcKey
  <2>2. edges[k].to = edges[m].to  BY <1>2, <1>4, <1>5, <2>1
  <2> QED  BY <1>4, <1>5, <2>1, <2>2 DEF GoodEdges
<1> QED  BY <1>4, <1>6, <1>7 DEF GoodArcs

(* arc_map learns the new arcs and forgets no arc with another key. *)
LEMMA MappedLearns ==
    ASSUME NEW n, NEW new \in Seq(ArcRecords),
           \A k, m \in 1..Len(new) :
             ArcKey(n, new[k]) = ArcKey(n, new[m]) => new[k].by = new[m].by
    PROVE  LET M == Mapped(n, new)
           IN  /\ \A k \in 1..Len(new) : /\ ArcKey(n, new[k]) \in DOMAIN M
                                         /\ M[ArcKey(n, new[k])] = new[k].by
               /\ \A key \in DOMAIN arcMap :
                    (\A k \in 1..Len(new) : ArcKey(n, new[k]) # key) =>
                       key \in DOMAIN M /\ M[key] = arcMap[key]
<1> DEFINE Same(key) == {k \in 1..Len(new) : ArcKey(n, new[k]) = key}
           D == DOMAIN arcMap \cup {ArcKey(n, new[k]) : k \in 1..Len(new)}
           M == Mapped(n, new)
<1>1. M = [key \in D |-> IF Same(key) = {} THEN arcMap[key]
                                           ELSE new[Max(Same(key))].by]
  BY DEF Mapped
<1>2. Len(new) \in Nat  OBVIOUS
<1> HIDE DEF M
<1>3. ASSUME NEW k \in 1..Len(new)
      PROVE  /\ ArcKey(n, new[k]) \in DOMAIN M
             /\ M[ArcKey(n, new[k])] = new[k].by
  <2> DEFINE key == ArcKey(n, new[k])
             S   == Same(key)
  <2>1. key \in D /\ k \in S /\ S \in SUBSET (1..Len(new))  OBVIOUS
  <2>2. \A m \in S : ArcKey(n, new[m]) = key  OBVIOUS
  <2>3. M[key] = new[Max(S)].by /\ key \in DOMAIN M  BY <1>1, <2>1
  <2>4. S # {}  BY <2>1
  <2>5. Max(S) \in S
    <3>1. S \in SUBSET (0..Len(new))  BY <1>2, <2>1
    <3> HIDE DEF S
    <3> QED  BY <1>2, <2>4, <3>1, MaxMember
  <2>6. new[Max(S)].by = new[k].by
    <3> DEFINE m == Max(S)
    <3>1. m \in 1..Len(new) /\ ArcKey(n, new[m]) = ArcKey(n, new[k])
      BY <2>1, <2>2, <2>5
    <3> HIDE DEF m
    <3>2. new[m].by = new[k].by  BY <3>1
    <3> QED  BY <3>2 DEF m
  <2> QED  BY <2>3, <2>6
<1>4. ASSUME NEW key \in DOMAIN arcMap,
             \A k \in 1..Len(new) : ArcKey(n, new[k]) # key
      PROVE  key \in DOMAIN M /\ M[key] = arcMap[key]
  <2>1. key \in D /\ Same(key) = {}  BY <1>4
  <2> HIDE DEF D, Same
  <2> QED  BY <1>1, <2>1
<1> QED  BY <1>3, <1>4 DEF M

-----------------------------------------------------------------------------
(* The inductive invariant.  The script finds the contexts of its second   *)
(* and third loop numbered because every context is numbered first, and    *)
(* arc_map keeps the edits apart because the numbering is one-to-one and   *)
(* a context that has not been visited has at most its arc to state 0.     *)

Numbered == IF stage = "contexts" THEN AllContexts \ pending ELSE AllContexts

Unvisited == {c \in Numbered : \/ stage = "contexts" \/ c \in pending
                               \/ stage = "bold" /\ ~IsBold(c)}

StageInv ==
    /\ stage \in Stages \ {"KeyError"}
    /\ pending \subseteq AllContexts
    /\ stage = "bold" => \A c \in pending : IsBold(c)
    /\ stage = "nonbold" => \A c \in pending : ~IsBold(c)
    /\ stage \in {"label", "done"} => pending = {}
    /\ start \in (1..Len(arcs)) \cup {NoState}

TableInv ==
    /\ arcs \in Seq(Seq(ArcRecords))
    /\ lookup \in [Numbered -> 1..Len(arcs)]
    /\ \A c, d \in Numbered : lookup[c] = lookup[d] => c = d
    /\ \A n \in 1..Len(arcs) : \E c \in Numbered : lookup[c] = n

ArcsInv ==
    /\ \A n \in 1..Len(arcs) : \A k \in 1..Len(arcs[n]) :
         arcs[n][k].to \in 0..Len(arcs)
    /\ \A c \in Numbered : \A k \in 1..Len(arcs[lookup[c]]) :
         /\ arcs[lookup[c]][k].in = Eps <=> IsBold(c)
         /\ c \in Unvisited => arcs[lookup[c]][k].to = 0

MapInv ==
    \A n \in 1..Len(arcs) : \A k \in 1..Len(arcs[n]) :
        /\ ArcKey(n, arcs[n][k]) \in DOMAIN arcMap
        /\ arcMap[ArcKey(n, arcs[n][k])] = arcs[n][k].by

LinesInv ==
    /\ arcId \in Nat
    /\ at \in (Nat \ {0}) \X (Nat \ {0})
    /\ stage \in {"contexts", "bold", "nonbold"} => lines = <<>> /\ arcId = 0
    /\ lines \in Seq([id : Nat, src : Nat, arc : Nat, act : Actions])
    /\ Len(lines) = arcId
    /\ \A n \in 1..Len(lines) :
         /\ lines[n].id = n - 1
         /\ lines[n].src \in 1..Len(arcs)
         /\ lines[n].arc \in 1..Len(arcs[lines[n].src])
         /\ lines[n].act = arcs[lines[n].src][lines[n].arc].by

(* The last loop, when it has come to p, has been at arc k of state s. *)
Passed(p, s, k) == s < p[1] \/ (s = p[1] /\ k < p[2])

OrderInv ==
    /\ \A n \in 1..Len(lines) : Passed(at, lines[n].src, lines[n].arc)
    /\ \A n \in 2..Len(lines) :
         \/ lines[n - 1].src < lines[n].src
         \/ lines[n - 1].src = lines[n].src /\ lines[n - 1].arc < lines[n].arc
    /\ stage \in {"label", "done"} =>
         \A s \in 1..Len(arcs) : \A k \in 1..Len(arcs[s]) :
            Passed(at, s, k) =>
               \E n \in 1..Len(lines) : lines[n].src = s /\ lines[n].arc = k
    /\ stage = "done" => at[1] > Len(arcs)

BInv == StageInv /\ TableInv /\ ArcsInv /\ MapInv /\ LinesInv /\ OrderInv

LEMMA InitBInv == Init => BInv
<1> SUFFICES ASSUME Init PROVE BInv  OBVIOUS
<1>1. Numbered = {}  BY DEF Init, Numbered
<1>2. StageInv  BY DEF Init, StageInv, Stages
<1>3. TableInv
  <2>1. arcs \in Seq(Seq(ArcRecords)) /\ Len(arcs) = 0  BY DEF Init
  <2>2. lookup = <<>>  BY DEF Init
  <2>3. DOMAIN lookup = {}  BY <2>2
  <2>4. lookup \in [Numbered -> 1..Len(arcs)]  BY <1>1, <2>2, <2>3
  <2> QED  BY <1>1, <2>1, <2>4 DEF TableInv
<1>4. ArcsInv  BY <1>1 DEF Init, ArcsInv
<1>5. MapInv  BY DEF Init, MapInv
<1>6. LinesInv  BY DEF Init, LinesInv
<1>7. OrderInv  BY DEF Init, OrderInv
<1> QED  BY <1>2, <1>3, <1>4, <1>5, <1>6, <1>7 DEF BInv

(* Before the last loop there is nothing to say of the lines. *)
LEMMA NoLines ==
    ASSUME LinesInv', stage' \in {"contexts", "bold", "nonbold"}
    PROVE  OrderInv'
<1>1. lines' = <<>> /\ stage' \notin {"label", "done"}  BY DEF LinesInv
<1>2. Len(lines') = 0  BY <1>1
<1> QED  BY <1>1, <1>2 DEF OrderInv

(* The facts about the machine that every loop starts from. *)
LEMMA BHere ==
    ASSUME BInv
    PROVE  /\ Len(arcs) \in Nat
           /\ \A n \in 1..Len(arcs) : /\ arcs[n] \in Seq(ArcRecords)
                                      /\ Len(arcs[n]) \in Nat
           /\ DOMAIN lookup = Numbered
           /\ Numbered \subseteq AllContexts
<1>1. arcs \in Seq(Seq(ArcRecords)) /\ lookup \in [Numbered -> 1..Len(arcs)]
  BY DEF BInv, TableInv
<1>2. Len(arcs) \in Nat /\ \A n \in 1..Len(arcs) : arcs[n] \in Seq(ArcRecords)
  BY <1>1, ElementOfSeq
<1> QED  BY <1>1, <1>2 DEF Numbered

(* A context gets the next number, and an arc to state 0 if it is one at *)
(* which the word has been read: such a context is bold.                 *)
LEMMA AddContextStep == BInv /\ AddContext => BInv'
<1> SUFFICES ASSUME BInv, AddContext PROVE BInv'  OBVIOUS
<1> USE BHere
<1> DEFINE n == Len(arcs) + 1
<1>1. PICK c \in pending :
        /\ lookup' = [x \in DOMAIN lookup \cup {c} |-> IF x = c THEN n ELSE lookup[x]]
        /\ arcs' = Append(arcs, Number(<<>>, FinalEdges(c)))
        /\ arcMap' = Mapped(n, Number(<<>>, FinalEdges(c)))
        /\ pending' = pending \ {c}
  BY DEF AddContext, NextState
<1> DEFINE new == Number(<<>>, FinalEdges(c))
<1>2. /\ stage = "contexts" /\ stage' = stage /\ start' = start
      /\ lines' = lines /\ arcId' = arcId /\ at' = at
      /\ c \in AllContexts
  BY DEF AddContext, BInv, StageInv
<1>3. new = IF HasFinalArc(c)
              THEN <<[to |-> 0, in |-> Eps, out |-> Eps, by |-> "FINAL"]>>
              ELSE <<>>
  BY DEF Number, FinalEdges, Edge
<1>4. /\ new \in Seq(ArcRecords) /\ Len(new) \in Nat
      /\ \A k \in 1..Len(new) : /\ new[k].to = 0 /\ new[k].in = Eps
                                /\ new[k].by = "FINAL" /\ IsBold(c)
  <2>1. CASE HasFinalArc(c)
    <3>1. IsBold(c)
      BY <1>2, <2>1, AllContextsComplete, ContextWindows DEF HasFinalArc
    <3> DEFINE r == [to |-> 0, in |-> Eps, out |-> Eps, by |-> "FINAL"]
    <3>2. r \in ArcRecords /\ r.to = 0 /\ r.in = Eps /\ r.by = "FINAL"
      BY DEF ArcRecords, Actions
    <3>3. new = <<r>>  BY <1>3, <2>1
    <3> HIDE DEF r, new
    <3> QED  BY <3>1, <3>2, <3>3
  <2>2. CASE ~HasFinalArc(c)
    <3>1. new = <<>>  BY <1>3, <2>2
    <3> HIDE DEF new
    <3> QED  BY <3>1
  <2> QED  BY <2>1, <2>2
<1> HIDE DEF new
<1>5. /\ \A k, m \in 1..Len(new) :
           ArcKey(n, new[k]) = ArcKey(n, new[m]) => new[k].by = new[m].by
  BY <1>4
<1>6. /\ arcs' \in Seq(Seq(ArcRecords)) /\ Len(arcs') = n
      /\ \A m \in 1..Len(arcs) : arcs'[m] = arcs[m]
      /\ arcs'[n] = new
  <2>1. arcs' = Append(arcs, new)  BY <1>1 DEF new
  <2>2. arcs \in Seq(Seq(ArcRecords))  BY DEF BInv, TableInv
  <2> QED  BY <1>4, <2>1, <2>2, AppendProperties
<1>7. /\ Numbered' = Numbered \cup {c} /\ c \notin Numbered
      /\ lookup' \in [Numbered' -> 1..n]
      /\ lookup'[c] = n
      /\ \A d \in Numbered : lookup'[d] = lookup[d] /\ lookup[d] \in 1..Len(arcs)
  <2>1. Numbered' = Numbered \cup {c} /\ c \notin Numbered
    BY <1>1, <1>2 DEF Numbered
  <2>2. lookup \in [Numbered -> 1..Len(arcs)]  BY DEF BInv, TableInv
  <2> QED  BY <1>1, <2>1, <2>2
<1>8. StageInv'  BY <1>1, <1>2, <1>6 DEF BInv, StageInv
<1>9. TableInv'
  <2>1. \A d, e \in Numbered' : lookup'[d] = lookup'[e] => d = e
    <3>1. \A d, e \in Numbered : lookup[d] = lookup[e] => d = e
      BY DEF BInv, TableInv
    <3> QED  BY <1>7, <3>1
  <2>2. \A m \in 1..n : \E d \in Numbered' : lookup'[d] = m
    <3>1. \A m \in 1..Len(arcs) : \E d \in Numbered : lookup[d] = m
      BY DEF BInv, TableInv
    <3> QED  BY <1>7, <3>1
  <2> QED  BY <1>6, <1>7, <2>1, <2>2 DEF TableInv
<1>10. ArcsInv'
  <2>1. \A m \in 1..Len(arcs') : \A k \in 1..Len(arcs'[m]) :
          arcs'[m][k].to \in 0..Len(arcs')
    <3> SUFFICES ASSUME NEW m \in 1..Len(arcs'), NEW k \in 1..Len(arcs'[m])
                 PROVE  arcs'[m][k].to \in 0..n
      BY <1>6
    <3>1. CASE m = n
      <4>1. arcs'[m][k].to = 0  BY <1>4, <1>6, <3>1
      <4> QED  BY <4>1
    <3>2. CASE m # n
      <4>1. m \in 1..Len(arcs) /\ arcs'[m] = arcs[m]  BY <1>6, <3>2
      <4>2. arcs[m][k].to \in 0..Len(arcs)  BY <4>1 DEF BInv, ArcsInv
      <4> QED  BY <4>1, <4>2
    <3> QED  BY <3>1, <3>2
  <2>2. ASSUME NEW d \in Numbered', NEW k \in 1..Len(arcs'[lookup'[d]])
        PROVE  /\ arcs'[lookup'[d]][k].in = Eps <=> IsBold(d)
               /\ arcs'[lookup'[d]][k].to = 0
    <3>1. CASE d = c  BY <1>4, <1>6, <1>7, <2>2, <3>1
    <3>2. CASE d # c
      <4>1. d \in Numbered /\ d \in Unvisited
        BY <1>2, <1>7, <3>2 DEF Unvisited
      <4>2. arcs'[lookup'[d]] = arcs[lookup[d]]  BY <1>6, <1>7, <4>1
      <4> QED  BY <2>2, <4>1, <4>2 DEF BInv, ArcsInv
    <3> QED  BY <3>1, <3>2
  <2> QED  BY <2>1, <2>2 DEF ArcsInv
<1>11. MapInv'
  <2> SUFFICES ASSUME NEW m \in 1..Len(arcs'), NEW k \in 1..Len(arcs'[m])
               PROVE  /\ ArcKey(m, arcs'[m][k]) \in DOMAIN arcMap'
                      /\ arcMap'[ArcKey(m, arcs'[m][k])] = arcs'[m][k].by
    BY DEF MapInv, ArcKey
  <2>1. arcMap' = Mapped(n, new)  BY <1>1 DEF new
  <2>2. CASE m = n
    <3>1. /\ \A i, j \in 1..Len(new) :
               ArcKey(n, new[i]) = ArcKey(n, new[j]) => new[i].by = new[j].by
          /\ Len(new) \in Nat /\ arcs'[m] = new /\ k \in 1..Len(new)
      BY <1>4, <1>5, <1>6, <2>2
    <3>2. \A i \in 1..Len(new) : /\ ArcKey(n, new[i]) \in DOMAIN Mapped(n, new)
                                 /\ Mapped(n, new)[ArcKey(n, new[i])] = new[i].by
      <4>1. new \in Seq(ArcRecords)  BY <1>4
      <4>2. \A i, j \in 1..Len(new) :
               ArcKey(n, new[i]) = ArcKey(n, new[j]) => new[i].by = new[j].by
        BY <3>1
      <4> HIDE DEF n
      <4> QED  BY ONLY <4>1, <4>2, MappedLearns
    <3> QED  BY <2>1, <2>2, <3>1, <3>2
  <2>3. CASE m # n
    <3>1. m \in 1..Len(arcs) /\ arcs'[m] = arcs[m]  BY <1>6, <2>3
    <3>2. /\ ArcKey(m, arcs[m][k]) \in DOMAIN arcMap
          /\ arcMap[ArcKey(m, arcs[m][k])] = arcs[m][k].by
      BY <3>1 DEF BInv, MapInv
    <3>3. \A i \in 1..Len(new) : ArcKey(n, new[i]) # ArcKey(m, arcs[m][k])
      BY <2>3 DEF ArcKey
    <3> QED  BY <1>4, <1>5, <2>1, <3>1, <3>2, <3>3, MappedLearns
  <2> QED  BY <2>2, <2>3
<1>12. LinesInv'
  <2>1. lines = <<>> /\ arcId = 0  BY <1>2 DEF BInv, LinesInv
  <2> QED  BY <1>2, <2>1 DEF BInv, LinesInv
<1>13. OrderInv'  BY <1>2, <1>12, NoLines
<1> QED  BY <1>8, <1>9, <1>10, <1>11, <1>12, <1>13 DEF BInv

(* A visit adds the arcs of its context and finds every target numbered. *)
LEMMA AddArcsStep ==
    ASSUME BInv, stage \in {"bold", "nonbold"}, NEW c \in pending,
           NEW edges, GoodEdges(c, edges), AddArcs(c, edges)
    PROVE  BInv'
<1> USE BHere
<1>1. Numbered = AllContexts /\ c \in AllContexts /\ c \in Unvisited
  BY DEF Numbered, Unvisited, BInv, StageInv
<1> DEFINE n   == lookup[c]
           L   == Len(arcs)
           new == Number(lookup, edges)
           old == arcs[n]
<1>2. Resolvable(edges)
  <2>1. edges \in Seq(ContextArcs)  BY DEF GoodEdges
  <2>2. \A k \in 1..Len(edges) : edges[k] \in ContextArcs
    BY <2>1, ElementOfSeq
  <2> QED  BY <1>1, <2>2 DEF Resolvable, ContextArcs
<1>3. /\ arcs' = [arcs EXCEPT ![n] = @ \o new]
      /\ arcMap' = Mapped(n, new)
      /\ pending' = pending \ {c}
      /\ UNCHANGED <<stage, order, lookup, start, lines, arcId, at>>
  BY <1>2 DEF AddArcs
<1>4. /\ lookup \in [AllContexts -> 1..L]
      /\ \A d, e \in AllContexts : lookup[d] = lookup[e] => d = e
      /\ \A m \in 1..L : \E d \in AllContexts : lookup[d] = m
      /\ arcs \in Seq(Seq(ArcRecords))
  BY <1>1 DEF BInv, TableInv
<1>5. L \in Nat /\ n \in 1..L /\ old \in Seq(ArcRecords) /\ Len(old) \in Nat
  BY <1>1, <1>4
<1>6. /\ new \in Seq(ArcRecords)
      /\ \A k \in 1..Len(new) : /\ new[k].to \in 1..L
                                /\ new[k].in = Eps <=> IsBold(c)
      /\ \A k, m \in 1..Len(new) :
           ArcKey(n, new[k]) = ArcKey(n, new[m]) => new[k].by = new[m].by
  <2>1. new = Number(lookup, edges)  OBVIOUS
  <2> HIDE DEF n, L, new, old
  <2>2. L \in Nat  BY <1>5
  <2>3. lookup \in [AllContexts -> 1..L]  BY <1>4
  <2>4. \A d, e \in AllContexts : lookup[d] = lookup[e] => d = e  BY <1>4
  <2>5. GoodArcs(c, n, L, new)  BY <2>1, <2>2, <2>3, <2>4, NumberedArcs
  <2> QED  BY <2>5 DEF GoodArcs
<1> HIDE DEF n, L, new, old
<1>7. /\ old \o new \in Seq(ArcRecords)
      /\ Len(old \o new) = Len(old) + Len(new) /\ Len(new) \in Nat
      /\ \A k \in 1..(Len(old) + Len(new)) :
           (old \o new)[k] = IF k <= Len(old) THEN old[k] ELSE new[k - Len(old)]
  BY <1>5, <1>6, ConcatProperties
<1>8. /\ arcs' \in Seq(Seq(ArcRecords)) /\ Len(arcs') = L
      /\ arcs'[n] = old \o new
      /\ \A m \in 1..L : m # n => arcs'[m] = arcs[m]
  <2>1. arcs' = [arcs EXCEPT ![n] = old \o new]  BY <1>3 DEF old
  <2>2. DOMAIN arcs = 1..L  BY <1>4 DEF L
  <2>3. n \in 1..Len(arcs)  BY <1>5 DEF L
  <2>4. arcs' \in Seq(Seq(ArcRecords)) /\ Len(arcs') = L
    BY <1>4, <1>7, <2>1, <2>3, ExceptSeq DEF L
  <2> QED  BY <1>5, <2>1, <2>2, <2>4
<1>9. \A k \in 1..Len(arcs'[n]) :
        \/ k \in 1..Len(old) /\ arcs'[n][k] = old[k]
        \/ k - Len(old) \in 1..Len(new) /\ arcs'[n][k] = new[k - Len(old)]
  BY <1>5, <1>7, <1>8
<1>10. \A k \in 1..Len(old) : /\ old[k].to = 0
                              /\ old[k].in = Eps <=> IsBold(c)
  BY <1>1 DEF BInv, ArcsInv, n, old
<1>11. Numbered' = AllContexts /\ Unvisited' \subseteq Unvisited /\ c \notin Unvisited'
  <2>1. stage' = stage /\ pending' = pending \ {c}  BY <1>3
  <2>2. Numbered' = AllContexts  BY <2>1 DEF Numbered
  <2>3. stage = "bold" => IsBold(c)  BY DEF BInv, StageInv
  <2> QED  BY <1>1, <2>1, <2>2, <2>3 DEF Unvisited
<1>12. StageInv'
  <2>1. stage' = stage /\ start' = start /\ pending' \subseteq pending  BY <1>3
  <2>2. Len(arcs') = Len(arcs)  BY <1>8 DEF L
  <2> QED  BY <2>1, <2>2 DEF BInv, StageInv
<1>13. TableInv'  BY <1>3, <1>4, <1>8, <1>11 DEF TableInv
<1>14. ArcsInv'
  <2>1. ASSUME NEW m \in 1..Len(arcs'), NEW k \in 1..Len(arcs'[m])
        PROVE  arcs'[m][k].to \in 0..Len(arcs')
    <3>1. CASE m = n
      <4>1. arcs'[m][k].to \in 0..L
        <5>1. CASE k \in 1..Len(old) /\ arcs'[n][k] = old[k]
          BY <1>5, <1>10, <3>1, <5>1
        <5>2. CASE k - Len(old) \in 1..Len(new) /\ arcs'[n][k] = new[k - Len(old)]
          <6>1. new[k - Len(old)].to \in 1..L  BY <1>6, <5>2
          <6> QED  BY <1>5, <3>1, <5>2, <6>1
        <5> QED  BY <1>9, <2>1, <3>1, <5>1, <5>2
      <4> QED  BY <1>8, <4>1
    <3>2. CASE m # n
      <4>1. m \in 1..L /\ arcs'[m] = arcs[m]  BY <1>8, <3>2
      <4>2. arcs[m][k].to \in 0..L  BY <2>1, <4>1 DEF BInv, ArcsInv, L
      <4> QED  BY <1>8, <4>1, <4>2
    <3> QED  BY <3>1, <3>2
  <2>2. ASSUME NEW d \in AllContexts, NEW k \in 1..Len(arcs'[lookup[d]])
        PROVE  /\ arcs'[lookup[d]][k].in = Eps <=> IsBold(d)
               /\ d \in Unvisited' => arcs'[lookup[d]][k].to = 0
    <3>1. CASE d = c
      <4>1. arcs'[n][k].in = Eps <=> IsBold(c)
        BY <1>6, <1>9, <1>10, <2>2, <3>1 DEF n
      <4> QED  BY <1>11, <3>1, <4>1 DEF n
    <3>2. CASE d # c
      <4>1. lookup[d] \in 1..L /\ lookup[d] # n
        BY <1>1, <1>4, <3>2 DEF n
      <4>2. arcs'[lookup[d]] = arcs[lookup[d]]  BY <1>8, <4>1
      <4> QED  BY <1>1, <1>11, <2>2, <4>2 DEF BInv, ArcsInv
    <3> QED  BY <3>1, <3>2
  <2>3. lookup' = lookup  BY <1>3
  <2> QED  BY <1>11, <2>1, <2>2, <2>3 DEF ArcsInv
<1>15. MapInv'
  <2> SUFFICES ASSUME NEW m \in 1..Len(arcs'), NEW k \in 1..Len(arcs'[m])
               PROVE  /\ ArcKey(m, arcs'[m][k]) \in DOMAIN arcMap'
                      /\ arcMap'[ArcKey(m, arcs'[m][k])] = arcs'[m][k].by
    BY DEF MapInv, ArcKey
  <2>1. CASE m = n /\ k - Len(old) \in 1..Len(new)
                   /\ arcs'[n][k] = new[k - Len(old)]
    <3>1. \A i \in 1..Len(new) : /\ ArcKey(n, new[i]) \in DOMAIN arcMap'
                                 /\ arcMap'[ArcKey(n, new[i])] = new[i].by
      BY <1>3, <1>6, MappedLearns
    <3> QED  BY <2>1, <3>1
  <2>2. ASSUME ArcKey(m, arcs'[m][k]) \in DOMAIN arcMap,
               arcMap[ArcKey(m, arcs'[m][k])] = arcs'[m][k].by,
               m = n => arcs'[m][k].to = 0
        PROVE  /\ ArcKey(m, arcs'[m][k]) \in DOMAIN arcMap'
               /\ arcMap'[ArcKey(m, arcs'[m][k])] = arcs'[m][k].by
    <3>1. \A i \in 1..Len(new) : ArcKey(n, new[i]) # ArcKey(m, arcs'[m][k])
      <4> TAKE i \in 1..Len(new)
      <4>1. new[i].to # 0  BY <1>5, <1>6
      <4> QED  BY <2>2, <4>1 DEF ArcKey
    <3> QED  BY <1>3, <1>6, <2>2, <3>1, MappedLearns
  <2>3. CASE m = n /\ k \in 1..Len(old) /\ arcs'[n][k] = old[k]
    <3>1. /\ ArcKey(n, old[k]) \in DOMAIN arcMap
          /\ arcMap[ArcKey(n, old[k])] = old[k].by
      BY <1>5, <2>3 DEF BInv, MapInv, L, old
    <3> QED  BY <1>10, <2>2, <2>3, <3>1
  <2>4. CASE m # n
    <3>1. m \in 1..L /\ arcs'[m] = arcs[m]  BY <1>8, <2>4
    <3>2. /\ ArcKey(m, arcs[m][k]) \in DOMAIN arcMap
          /\ arcMap[ArcKey(m, arcs[m][k])] = arcs[m][k].by
      BY <3>1 DEF BInv, MapInv, L
    <3> QED  BY <2>2, <2>4, <3>1, <3>2
  <2> QED  BY <1>9, <2>1, <2>3, <2>4
<1>16. LinesInv'
  <2>1. lines = <<>> /\ arcId = 0  BY DEF BInv, LinesInv
  <2> QED  BY <1>3, <2>1 DEF BInv, LinesInv
<1>17. OrderInv'  BY <1>3, <1>16, NoLines
<1> QED  BY <1>12, <1>13, <1>14, <1>15, <1>16, <1>17 DEF BInv

(* The steps between the loops leave the machine alone. *)
LEMMA MachineUnchanged ==
    ASSUME BInv, UNCHANGED <<lookup, arcs, arcMap>>,
           Numbered' = Numbered, Unvisited' \subseteq Unvisited
    PROVE  TableInv' /\ ArcsInv' /\ MapInv'
<1>1. TableInv'  BY DEF BInv, TableInv
<1>2. ArcsInv'
  <2>1. ASSUME NEW c \in Numbered, NEW k \in 1..Len(arcs[lookup[c]])
        PROVE  /\ arcs[lookup[c]][k].in = Eps <=> IsBold(c)
               /\ c \in Unvisited' => arcs[lookup[c]][k].to = 0
    BY <2>1 DEF BInv, ArcsInv
  <2>2. \A n \in 1..Len(arcs) : \A k \in 1..Len(arcs[n]) :
          arcs[n][k].to \in 0..Len(arcs)
    BY DEF BInv, ArcsInv
  <2> QED  BY <2>1, <2>2 DEF ArcsInv
<1>3. MapInv'
  <2>1. ASSUME NEW n \in 1..Len(arcs), NEW k \in 1..Len(arcs[n])
        PROVE  /\ ArcKey(n, arcs[n][k]) \in DOMAIN arcMap
               /\ arcMap[ArcKey(n, arcs[n][k])] = arcs[n][k].by
    BY DEF BInv, MapInv
  <2> QED  BY <2>1 DEF MapInv, ArcKey
<1> QED  BY <1>1, <1>2, <1>3

(* The initial context is among the numbered ones. *)
LEMMA SetInitialStep == BInv /\ SetInitial => BInv'
<1> SUFFICES ASSUME BInv, SetInitial PROVE BInv'  OBVIOUS
<1> USE BHere
<1>1. stage = "contexts" /\ pending = {} /\ Numbered = AllContexts
  BY DEF SetInitial, Numbered
<1>2. /\ start' = lookup[InitialContext] /\ stage' = "bold"
      /\ pending' = {c \in AllContexts : IsBold(c)}
      /\ UNCHANGED <<order, lookup, arcs, arcMap, lines, arcId, at>>
  BY <1>1, InitialContextListed DEF SetInitial, BoldContexts
<1>3. start' \in 1..Len(arcs)
  BY <1>1, <1>2, InitialContextListed DEF BInv, TableInv
<1>4. StageInv'  BY <1>2, <1>3 DEF StageInv, Stages
<1>5. Numbered' = Numbered /\ Unvisited' \subseteq Unvisited
  <2>1. Numbered' = AllContexts  BY <1>2 DEF Numbered
  <2>2. Unvisited = AllContexts  BY <1>1 DEF Unvisited
  <2>3. Unvisited' \subseteq AllContexts  BY <2>1 DEF Unvisited
  <2> QED  BY <1>1, <2>1, <2>2, <2>3
<1>6. TableInv' /\ ArcsInv' /\ MapInv'  BY <1>2, <1>5, MachineUnchanged
<1>7. LinesInv'  BY <1>1, <1>2 DEF BInv, LinesInv
<1>8. OrderInv'  BY <1>2, <1>7, NoLines
<1> QED  BY <1>4, <1>6, <1>7, <1>8 DEF BInv

LEMMA StartNonBoldStep == BInv /\ StartNonBold => BInv'
<1> SUFFICES ASSUME BInv, StartNonBold PROVE BInv'  OBVIOUS
<1> USE BHere
<1>1. stage = "bold" /\ pending = {} /\ Numbered = AllContexts
  BY DEF StartNonBold, Numbered
<1>2. /\ stage' = "nonbold"
      /\ pending' = {c \in AllContexts : ~IsBold(c)}
      /\ UNCHANGED <<order, lookup, start, arcs, arcMap, lines, arcId, at>>
  BY <1>1 DEF StartNonBold, NonBoldContexts, BoldContexts
<1>3. StageInv'  BY <1>2 DEF BInv, StageInv, Stages
<1>4. Numbered' = Numbered /\ Unvisited' \subseteq Unvisited
  <2>1. Numbered' = AllContexts  BY <1>2 DEF Numbered
  <2>2. Unvisited' \subseteq {c \in AllContexts : ~IsBold(c)}
    BY <1>2, <2>1 DEF Unvisited
  <2>3. {c \in AllContexts : ~IsBold(c)} \subseteq Unvisited
    BY <1>1 DEF Unvisited
  <2> QED  BY <1>1, <2>1, <2>2, <2>3
<1>5. TableInv' /\ ArcsInv' /\ MapInv'  BY <1>2, <1>4, MachineUnchanged
<1>6. LinesInv'  BY <1>1, <1>2 DEF BInv, LinesInv
<1>7. OrderInv'  BY <1>2, <1>6, NoLines
<1> QED  BY <1>3, <1>5, <1>6, <1>7 DEF BInv

LEMMA StartLabelsStep == BInv /\ StartLabels => BInv'
<1> SUFFICES ASSUME BInv, StartLabels PROVE BInv'  OBVIOUS
<1> USE BHere
<1>1. /\ stage = "nonbold" /\ pending = {} /\ stage' = "label" /\ at' = <<1, 1>>
      /\ UNCHANGED <<order, pending, lookup, start, arcs, arcMap, lines, arcId>>
  BY DEF StartLabels
<1>2. StageInv'  BY <1>1 DEF BInv, StageInv, Stages
<1>3. Numbered' = Numbered /\ Unvisited' \subseteq Unvisited
  <2>1. Numbered' = AllContexts /\ Numbered = AllContexts
    BY <1>1 DEF Numbered
  <2>2. Unvisited' = {}  BY <1>1 DEF Unvisited
  <2> QED  BY <2>1, <2>2
<1>4. TableInv' /\ ArcsInv' /\ MapInv'  BY <1>1, <1>3, MachineUnchanged
<1>5. LinesInv'  BY <1>1 DEF BInv, LinesInv
<1>6. OrderInv'
  <2>1. lines' = <<>> /\ stage' # "done"  BY <1>1 DEF BInv, LinesInv
  <2>2. Len(lines') = 0  BY <2>1
  <2>3. \A s \in 1..Len(arcs') : \A k \in 1..Len(arcs'[s]) : ~Passed(at', s, k)
    BY <1>1 DEF Passed
  <2> QED  BY <2>1, <2>2, <2>3 DEF OrderInv
<1> QED  BY <1>2, <1>4, <1>5, <1>6 DEF BInv

(* arc_map knows the arc, so it gets its line. *)
LEMMA LabelArcStep == BInv /\ LabelArc => BInv'
<1> SUFFICES ASSUME BInv, LabelArc PROVE BInv'  OBVIOUS
<1> USE BHere
<1> DEFINE n == at[1]
           k == at[2]
           e == arcs[n][k]
           line == [id |-> arcId, src |-> n, arc |-> k, act |-> e.by]
<1>1. /\ stage = "label" /\ n \in 1..Len(arcs) /\ k \in 1..Len(arcs[n])
      /\ n \in Nat \ {0} /\ k \in Nat \ {0}
      /\ arcId' = arcId + 1 /\ at' = <<n, k + 1>>
      /\ UNCHANGED <<stage, order, pending, lookup, start, arcs, arcMap>>
  BY DEF LabelArc, BInv, LinesInv
<1>2. e \in ArcRecords /\ e.by \in Actions
  <2>1. arcs[n] \in Seq(ArcRecords)  BY <1>1
  <2>2. e \in ArcRecords  BY <1>1, <2>1, ElementOfSeq
  <2> QED  BY <2>2 DEF ArcRecords
<1>3. lines' = Append(lines, line)
  <2>1. /\ ArcKey(n, e) \in DOMAIN arcMap
        /\ arcMap[ArcKey(n, e)] = e.by
    BY <1>1 DEF BInv, MapInv
  <2> QED  BY <2>1 DEF LabelArc
<1> DEFINE Lines == [id : Nat, src : Nat, arc : Nat, act : Actions]
<1>4. /\ lines \in Seq(Lines) /\ Len(lines) = arcId /\ arcId \in Nat
      /\ line \in Lines
  BY <1>1, <1>2 DEF BInv, LinesInv
<1>5. /\ line.id = arcId /\ line.src = n /\ line.arc = k
      /\ line.act = arcs[n][k].by
  OBVIOUS
<1> HIDE DEF line, Lines, e, n, k
<1>6. /\ lines' \in Seq(Lines) /\ Len(lines') = arcId + 1
      /\ \A m \in 1..Len(lines) : lines'[m] = lines[m]
      /\ lines'[arcId + 1] = line
  BY <1>3, <1>4, AppendProperties
<1>7. ASSUME NEW m \in 1..Len(lines')
      PROVE  /\ lines'[m].id = m - 1
             /\ lines'[m].src \in 1..Len(arcs)
             /\ lines'[m].arc \in 1..Len(arcs[lines'[m].src])
             /\ lines'[m].act = arcs[lines'[m].src][lines'[m].arc].by
  <2>1. CASE m = arcId + 1  BY <1>1, <1>4, <1>5, <1>6, <2>1
  <2>2. CASE m # arcId + 1
    <3>1. m \in 1..Len(lines) /\ lines'[m] = lines[m]
      BY <1>4, <1>6, <1>7, <2>2
    <3> QED  BY <3>1 DEF BInv, LinesInv
  <2> QED  BY <2>1, <2>2
<1>8. LinesInv'
  <2>1. at' \in (Nat \ {0}) \X (Nat \ {0})  BY <1>1
  <2>2. stage' \notin {"contexts", "bold", "nonbold"}  BY <1>1
  <2>3. arcs' = arcs /\ arcId' = arcId + 1  BY <1>1
  <2>4. arcId' \in Nat /\ Len(lines') = arcId'  BY <1>4, <1>6, <2>3
  <2>5. lines' \in Seq([id : Nat, src : Nat, arc : Nat, act : Actions])
    BY <1>6 DEF Lines
  <2>6. \A m \in 1..Len(lines') :
          /\ lines'[m].id = m - 1
          /\ lines'[m].src \in 1..Len(arcs')
          /\ lines'[m].arc \in 1..Len(arcs'[lines'[m].src])
          /\ lines'[m].act = arcs'[lines'[m].src][lines'[m].arc].by
    BY <1>7, <2>3
  <2> QED  BY <2>1, <2>2, <2>4, <2>5, <2>6 DEF LinesInv
<1>9. StageInv'  BY <1>1 DEF BInv, StageInv
<1>10. Numbered' = Numbered /\ Unvisited' \subseteq Unvisited
  BY <1>1 DEF Numbered, Unvisited
<1>11. TableInv' /\ ArcsInv' /\ MapInv'  BY <1>1, <1>10, MachineUnchanged
<1>12. \A s, i : s \in Nat /\ i \in Nat =>
           (Passed(at', s, i) <=> Passed(at, s, i) \/ (s = n /\ i = k))
  BY <1>1 DEF Passed, n, k
<1>13. \A m \in 1..Len(lines) :
         /\ lines[m].src \in Nat /\ lines[m].arc \in Nat
         /\ Passed(at, lines[m].src, lines[m].arc)
  <2> TAKE m \in 1..Len(lines)
  <2>1. lines[m] \in Lines  BY <1>4, ElementOfSeq
  <2>2. Passed(at, lines[m].src, lines[m].arc)  BY DEF BInv, OrderInv
  <2> QED  BY <2>1, <2>2 DEF Lines
<1>14. OrderInv'
  <2>1. ASSUME NEW m \in 1..Len(lines')
        PROVE  Passed(at', lines'[m].src, lines'[m].arc)
    <3>1. CASE m = arcId + 1  BY <1>1, <1>5, <1>6, <1>12, <3>1
    <3>2. CASE m # arcId + 1
      <4>1. m \in 1..Len(lines) /\ lines'[m] = lines[m]
        BY <1>4, <1>6, <2>1, <3>2
      <4> QED  BY <1>12, <1>13, <4>1
    <3> QED  BY <3>1, <3>2
  <2>2. ASSUME NEW m \in 2..Len(lines')
        PROVE  \/ lines'[m - 1].src < lines'[m].src
               \/ /\ lines'[m - 1].src = lines'[m].src
                  /\ lines'[m - 1].arc < lines'[m].arc
    <3>1. m - 1 \in 1..Len(lines) /\ lines'[m - 1] = lines[m - 1]
      BY <1>4, <1>6, <2>2
    <3>2. CASE m = arcId + 1
      <4>1. lines'[m].src = n /\ lines'[m].arc = k  BY <1>5, <1>6, <3>2
      <4>2. Passed(at, lines[m - 1].src, lines[m - 1].arc)  BY <1>13, <3>1
      <4> QED  BY <3>1, <4>1, <4>2 DEF Passed, n, k
    <3>3. CASE m # arcId + 1
      <4>1. m \in 2..Len(lines) /\ lines'[m] = lines[m]
        BY <1>4, <1>6, <2>2, <3>3
      <4> QED  BY <3>1, <4>1 DEF BInv, OrderInv
    <3> QED  BY <3>2, <3>3
  <2>3. ASSUME NEW s \in 1..Len(arcs), NEW i \in 1..Len(arcs[s]), Passed(at', s, i)
        PROVE  \E m \in 1..Len(lines') : lines'[m].src = s /\ lines'[m].arc = i
    <3>1. CASE s = n /\ i = k
      <4>1. arcId + 1 \in 1..Len(lines')  BY <1>4, <1>6
      <4> QED  BY <1>5, <1>6, <3>1, <4>1
    <3>2. CASE ~(s = n /\ i = k)
      <4>1. Passed(at, s, i)  BY <1>12, <2>3, <3>2
      <4>2. PICK m \in 1..Len(lines) : lines[m].src = s /\ lines[m].arc = i
        BY <1>1, <4>1 DEF BInv, OrderInv
      <4>3. m \in 1..Len(lines') /\ lines'[m] = lines[m]  BY <1>4, <1>6
      <4> QED  BY <4>2, <4>3
    <3> QED  BY <3>1, <3>2
  <2> QED  BY <1>1, <2>1, <2>2, <2>3 DEF OrderInv
<1> QED  BY <1>8, <1>9, <1>11, <1>14 DEF BInv

LEMMA LabelStateStep == BInv /\ (LabelState \/ Exit \/ UNCHANGED vars) => BInv'
<1> SUFFICES ASSUME BInv, LabelState \/ Exit \/ UNCHANGED vars PROVE BInv'  OBVIOUS
<1> USE BHere
<1>1. /\ stage' = stage \/ (stage = "label" /\ stage' = "done" /\ at[1] > Len(arcs))
      /\ \/ at' = at
         \/ at' = <<at[1] + 1, 1>> /\ at[2] > Len(arcs[at[1]]) /\ stage = "label"
      /\ UNCHANGED <<pending, lookup, start, arcs, arcMap, lines, arcId>>
  BY DEF LabelState, Exit, vars
<1>2. StageInv'  BY <1>1 DEF BInv, StageInv, Stages
<1>3. at' \in (Nat \ {0}) \X (Nat \ {0})
  <2>1. at \in (Nat \ {0}) \X (Nat \ {0})  BY DEF BInv, LinesInv
  <2> QED  BY <1>1, <2>1
<1>4. LinesInv'  BY <1>1, <1>3 DEF BInv, LinesInv
<1>5. Numbered' = Numbered /\ Unvisited' \subseteq Unvisited
  BY <1>1 DEF Numbered, Unvisited
<1>6. TableInv' /\ ArcsInv' /\ MapInv'  BY <1>1, <1>5, MachineUnchanged
<1>7. at[1] \in Nat /\ at[2] \in Nat  BY DEF BInv, LinesInv
<1>8. \A s \in 1..Len(arcs) : \A k \in 1..Len(arcs[s]) :
        Passed(at', s, k) <=> Passed(at, s, k)
  <2> TAKE s \in 1..Len(arcs)
  <2> TAKE k \in 1..Len(arcs[s])
  <2>1. s \in Nat /\ k \in Nat /\ k <= Len(arcs[s])  OBVIOUS
  <2>2. CASE at' = at  BY <2>2 DEF Passed
  <2>3. CASE at' = <<at[1] + 1, 1>> /\ at[2] > Len(arcs[at[1]])
    BY <1>7, <2>1, <2>3 DEF Passed
  <2> QED  BY <1>1, <2>2, <2>3
<1>9. OrderInv'
  <2>1. ASSUME NEW n \in 1..Len(lines)
        PROVE  Passed(at', lines[n].src, lines[n].arc)
    <3>1. /\ lines[n].src \in 1..Len(arcs)
          /\ lines[n].arc \in 1..Len(arcs[lines[n].src])
          /\ Passed(at, lines[n].src, lines[n].arc)
      BY DEF BInv, LinesInv, OrderInv
    <3> QED  BY <1>8, <3>1
  <2>2. stage' \in {"label", "done"} => stage \in {"label", "done"}  BY <1>1
  <2>3. stage' = "done" => at'[1] > Len(arcs)
    BY <1>1, <1>7 DEF BInv, OrderInv
  <2> QED  BY <1>1, <1>8, <2>1, <2>2, <2>3 DEF BInv, OrderInv
<1> QED  BY <1>2, <1>4, <1>6, <1>9 DEF BInv

-----------------------------------------------------------------------------

LEMMA NextBInv == BInv /\ [Next]_vars => BInv'
<1> SUFFICES ASSUME BInv, [Next]_vars PROVE BInv'  OBVIOUS
<1>1. CASE AddContext  BY <1>1, AddContextStep
<1>2. CASE SetInitial  BY <1>2, SetInitialStep
<1>3. CASE AddBoldArcs
  <2>1. PICK c \in pending : AddArcs(c, BoldEdges(c)) /\ stage = "bold"
    BY <1>3 DEF AddBoldArcs
  <2>2. c \in AllContexts /\ IsBold(c)  BY <2>1 DEF BInv, StageInv
  <2> QED  BY <2>1, <2>2, BoldEdgesGood, AddArcsStep
<1>4. CASE StartNonBold  BY <1>4, StartNonBoldStep
<1>5. CASE AddNonBoldArcs
  <2>1. PICK c \in pending : AddArcs(c, NonBoldEdges(c)) /\ stage = "nonbold"
    BY <1>5 DEF AddNonBoldArcs
  <2>2. c \in AllContexts /\ ~IsBold(c)  BY <2>1 DEF BInv, StageInv
  <2> QED  BY <2>1, <2>2, NonBoldEdgesGood, AddArcsStep
<1>6. CASE StartLabels  BY <1>6, StartLabelsStep
<1>7. CASE LabelArc  BY <1>7, LabelArcStep
<1>8. CASE LabelState \/ Exit \/ UNCHANGED vars  BY <1>8, LabelStateStep
<1> QED
  BY <1>1, <1>2, <1>3, <1>4, <1>5, <1>6, <1>7, <1>8 DEF Next

LEMMA BInvHolds == Spec => []BInv
BY InitBInv, NextBInv, PTL DEF Spec

(* The invariant gives the types of the script's variables. *)
LEMMA BInvType == BInv => TypeOK
<1> SUFFICES ASSUME BInv PROVE TypeOK  OBVIOUS
<1> USE BHere
<1>1. /\ stage \in Stages /\ arcId \in Nat
      /\ start \in (1..Len(arcs)) \cup {NoState}
  BY DEF BInv, StageInv, LinesInv
<1>2. \A c \in DOMAIN lookup : lookup[c] \in 1..Len(arcs)
  BY DEF BInv, TableInv
<1>3. ASSUME NEW n \in 1..Len(arcs), NEW k \in 1..Len(arcs[n])
      PROVE  arcs[n][k] \in [to : 0..Len(arcs), in : Upper \cup {Eps},
                             out : V2 \cup {Eps}, by : Actions]
  <2>1. arcs[n][k] \in ArcRecords  BY <1>3, ElementOfSeq
  <2>2. arcs[n][k].to \in 0..Len(arcs)  BY <1>3 DEF BInv, ArcsInv
  <2> QED  BY <2>1, <2>2 DEF ArcRecords
<1> QED  BY <1>1, <1>2, <1>3 DEF TypeOK

(* The variables of the script keep their types: every number in the table *)
(* and every target of an arc is a state of the machine.                   *)
THEOREM BuilderTypeCorrect == Spec => []TypeOK
BY BInvType, BInvHolds, PTL

(* The script never looks up a context that it has not numbered. *)
THEOREM LookupsSucceed == Spec => []NoKeyError
<1>1. BInv => NoKeyError  BY DEF BInv, StageInv, NoKeyError
<1> QED  BY <1>1, BInvHolds, PTL

(* The arcs of a state all read the empty string or all read a symbol. *)
THEOREM EditsApart == Spec => []EditsDoNotCompete
<1>1. ASSUME BInv PROVE EditsDoNotCompete
  <2> SUFFICES ASSUME NEW n \in 1..Len(arcs),
                      NEW k \in 1..Len(arcs[n]), NEW m \in 1..Len(arcs[n]),
                      arcs[n][k].in = Eps
               PROVE  arcs[n][m].in = Eps
    BY DEF EditsDoNotCompete
  <2>1. PICK c \in Numbered : lookup[c] = n  BY <1>1 DEF BInv, TableInv
  <2> QED  BY <1>1, <2>1 DEF BInv, ArcsInv
<1> QED  BY <1>1, BInvHolds, PTL

(* Every arc has its line in arc_to_action, at the place of its number,    *)
(* and the line names the edit that the arc was added for.                 *)
THEOREM ArcToActionTold == Spec => []ArcToActionCorrect
<1>1. ASSUME BInv PROVE ArcToActionCorrect
  <2>1. stage = "done" =>
          \A s \in 1..Len(arcs) : \A k \in 1..Len(arcs[s]) : Passed(at, s, k)
    <3>1. at[1] \in Nat /\ Len(arcs) \in Nat  BY <1>1, BHere DEF BInv, LinesInv
    <3> QED  BY <1>1, <3>1 DEF BInv, OrderInv, Passed
  <2> QED  BY <1>1, <2>1 DEF BInv, LinesInv, OrderInv, ArcToActionCorrect
<1> QED  BY <1>1, BInvHolds, PTL

-----------------------------------------------------------------------------
(* State 0 can be reached.  From a context with letters in its right window *)
(* boundary symbols and then deletions lead to one with boundary symbols    *)
(* only, which has a FINAL arc.                                             *)

(* The second loop lets a context that can read delete. *)
LEMMA DeletionAdded ==
    ASSUME NEW c \in AllContexts, IsBold(c), CanRead(c)
    PROVE  \E k \in 1..Len(BoldEdges(c)) :
              BoldEdges(c)[k] = Edge(DelTarget(c), Eps, Eps, "DEL")
<1> DEFINE v   == SetToSeq(V2)
           ins == [k \in 1..Len(v) |-> Edge(InsTarget(c, v[k]), Eps, v[k], "INS")]
           sub == [k \in 1..Len(v) |-> Edge(SubTarget(c, v[k]), Eps, v[k], "SUB")]
           e   == Edge(DelTarget(c), Eps, Eps, "DEL")
           All == Insertions(c) \cup Substitutions(c) \cup Deletions(c)
<1>1. BoldEdges(c) = ins \o sub \o <<e>>  BY DEF BoldEdges
<1>2. v \in Seq(V2)  BY SetToSeqElements, AlphabetAssumption
<1>3. Len(v) \in Nat /\ \A k \in 1..Len(v) : v[k] \in V2
  <2> HIDE DEF v
  <2> QED  BY <1>2
<1> HIDE DEF v
<1>4. ins \in Seq(All) /\ sub \in Seq(All)
  <2>1. ins \in [1..Len(v) -> All] /\ sub \in [1..Len(v) -> All]
    BY <1>3 DEF Insertions, Substitutions
  <2> QED  BY <1>3, <2>1, SeqDef
<1>5. e \in All  BY DEF Deletions
<1> HIDE DEF ins, sub, e, All
<1>6. ins \o sub \in Seq(All)  BY <1>4, ConcatProperties
<1> DEFINE first == ins \o sub
<1> HIDE DEF first
<1>7. first \in Seq(All) /\ Len(first) \in Nat  BY <1>6 DEF first
<1>8. first \o <<e>> = Append(first, e)  BY <1>5, <1>7
<1>9. BoldEdges(c) = Append(first, e)  BY <1>1, <1>8 DEF first
<1>10. /\ Len(Append(first, e)) = Len(first) + 1
       /\ Append(first, e)[Len(first) + 1] = e
  BY <1>5, <1>7, AppendProperties
<1>11. Len(first) + 1 \in 1..Len(BoldEdges(c))  BY <1>7, <1>9, <1>10
<1> QED  BY <1>9, <1>10, <1>11 DEF e

(* SetToSeq lists every element. *)
LEMMA SetToSeqCovers ==
    ASSUME NEW S, IsFiniteSet(S), NEW x \in S
    PROVE  \E k \in 1..Len(SetToSeq(S)) : SetToSeq(S)[k] = x
<1> DEFINE n == Cardinality(S)
           t == SetToSeq(S)
<1>1. n \in Nat /\ \E f \in [1..n -> S] : IsInjective(f)
  BY FS_CardinalityType DEF ExistsBijection, Bijection, Injection
<1>2. t \in [1..n -> S] /\ IsInjective(t)  BY <1>1 DEF SetToSeq
<1>3. Cardinality(1..n) = n
  <2>1. 1 \in Int /\ n \in Int  BY <1>1
  <2>2. Cardinality(1..n) = IF 1 > n THEN 0 ELSE n - 1 + 1  BY <2>1, FS_Interval
  <2> QED  BY <1>1, <2>2
<1> HIDE DEF t
<1>4. t \in Injection(1..n, S)  BY <1>2 DEF Injection, IsInjective
<1>5. t \in Surjection(1..n, S)  BY <1>3, <1>4, FS_Injection
<1>6. \E k \in 1..n : t[k] = x  BY <1>5 DEF Surjection
<1>7. Len(t) = n  BY <1>1, <1>2, SeqDef, LenProperties
<1> QED  BY <1>6, <1>7 DEF t

(* The second loop lets a context insert each lower symbol. *)
LEMMA InsertionAdded ==
    ASSUME NEW c, NEW x \in V2
    PROVE  \E k \in 1..Len(BoldEdges(c)) :
              BoldEdges(c)[k] = Edge(InsTarget(c, x), Eps, x, "INS")
<1> DEFINE v    == SetToSeq(V2)
           ins  == [k \in 1..Len(v) |-> Edge(InsTarget(c, v[k]), Eps, v[k], "INS")]
           sub  == [k \in 1..Len(v) |-> Edge(SubTarget(c, v[k]), Eps, v[k], "SUB")]
           e    == Edge(DelTarget(c), Eps, Eps, "DEL")
           All  == Insertions(c) \cup Substitutions(c) \cup Deletions(c)
<1>1. BoldEdges(c) = IF CanRead(c) THEN ins \o sub \o <<e>> ELSE ins
  BY DEF BoldEdges
<1>2. PICK n \in 1..Len(v) : v[n] = x
  BY SetToSeqCovers, AlphabetAssumption
<1>3. v \in Seq(V2)  BY SetToSeqElements, AlphabetAssumption
<1>4. Len(v) \in Nat /\ \A k \in 1..Len(v) : v[k] \in V2
  <2> HIDE DEF v
  <2> QED  BY <1>3
<1> HIDE DEF v
<1>5. ins \in Seq(All) /\ sub \in Seq(All)
  <2>1. ins \in [1..Len(v) -> All] /\ sub \in [1..Len(v) -> All]
    BY <1>4 DEF Insertions, Substitutions
  <2> QED  BY <1>4, <2>1, SeqDef
<1>6. Len(ins) = Len(v) /\ ins[n] = Edge(InsTarget(c, x), Eps, x, "INS")
  BY <1>2, <1>4
<1>7. e \in All  BY DEF Deletions
<1> HIDE DEF ins, sub, e, All
<1> DEFINE rest == sub \o <<e>>
<1>8. rest \in Seq(All) /\ ins \o sub \o <<e>> = ins \o rest
  BY <1>5, <1>7
<1> HIDE DEF rest
<1>9. /\ Len(ins \o rest) = Len(ins) + Len(rest) /\ Len(rest) \in Nat
      /\ \A k \in 1..(Len(ins) + Len(rest)) :
           (ins \o rest)[k] = IF k <= Len(ins) THEN ins[k] ELSE rest[k - Len(ins)]
  BY <1>5, <1>8, ConcatProperties
<1>10. n \in 1..Len(ins \o rest) /\ (ins \o rest)[n] = ins[n]
  BY <1>2, <1>4, <1>6, <1>9
<1> QED  BY <1>1, <1>2, <1>6, <1>8, <1>10

(* The third loop lets a context absorb the symbols it can. *)
LEMMA AbsorptionAdded ==
    ASSUME NEW c, NEW x \in Upper, CanAbsorb(c, x)
    PROVE  \E k \in 1..Len(NonBoldEdges(c)) :
              NonBoldEdges(c)[k] = Edge(AbsTarget(c, x), x, Eps, "ABS")
<1> DEFINE T(S)  == {s \in S : CanAbsorb(c, s)}
           first == SetToSeq(T(V1))
           last  == SetToSeq(T({Sharp}))
           v     == first \o last
<1>1. NonBoldEdges(c) = [k \in 1..Len(v) |-> Edge(AbsTarget(c, v[k]), v[k], Eps, "ABS")]
  BY DEF NonBoldEdges
<1>2. ASSUME NEW S \in {V1, {Sharp}}
      PROVE  /\ IsFiniteSet(T(S)) /\ SetToSeq(T(S)) \in Seq(Upper)
             /\ x \in S => \E k \in 1..Len(SetToSeq(T(S))) : SetToSeq(T(S))[k] = x
  <2>1. T(S) \in SUBSET S /\ T(S) \subseteq Upper  BY DEF Upper
  <2>2. IsFiniteSet(S)  BY AlphabetAssumption, FS_Singleton
  <2>3. x \in S => x \in T(S)  OBVIOUS
  <2> HIDE DEF T
  <2>4. IsFiniteSet(T(S))  BY <2>1, <2>2, FS_Subset
  <2>5. SetToSeq(T(S)) \in Seq(Upper)  BY <2>1, <2>4, SetToSeqElements, SeqMonotonic
  <2> QED  BY <2>3, <2>4, <2>5, SetToSeqCovers
<1>3. /\ first \in Seq(Upper) /\ last \in Seq(Upper)
      /\ \/ \E k \in 1..Len(first) : first[k] = x
         \/ \E k \in 1..Len(last) : last[k] = x
  <2>1. x \in V1 \/ x \in {Sharp}  BY DEF Upper
  <2> HIDE DEF T
  <2> QED  BY <1>2, <2>1
<1> HIDE DEF T, first, last
<1>4. /\ Len(v) = Len(first) + Len(last) /\ Len(first) \in Nat /\ Len(last) \in Nat
      /\ \A k \in 1..(Len(first) + Len(last)) :
           v[k] = IF k <= Len(first) THEN first[k] ELSE last[k - Len(first)]
  BY <1>3, ConcatProperties
<1>5. \E k \in 1..Len(v) : v[k] = x
  <2>1. CASE \E k \in 1..Len(first) : first[k] = x
    <3>1. PICK k \in 1..Len(first) : first[k] = x  BY <2>1
    <3>2. k \in 1..(Len(first) + Len(last)) /\ k <= Len(first)  BY <1>4
    <3> QED  BY <1>4, <3>1, <3>2
  <2>2. CASE \E k \in 1..Len(last) : last[k] = x
    <3>1. PICK k \in 1..Len(last) : last[k] = x  BY <2>2
    <3> DEFINE m == Len(first) + k
    <3>2. /\ m \in 1..(Len(first) + Len(last)) /\ ~(m <= Len(first))
          /\ m - Len(first) = k
      BY <1>4
    <3> QED  BY <1>4, <3>1, <3>2
  <2> QED  BY <1>3, <2>1, <2>2
<1> HIDE DEF v
<1>6. Len(v) \in Nat  BY <1>4
<1>7. PICK k \in 1..Len(v) : v[k] = x  BY <1>5
<1>8. Len(NonBoldEdges(c)) = Len(v)  BY <1>1, <1>6
<1> QED  BY <1>1, <1>7, <1>8

(* How many letters stand in front of the boundary symbols of a window. *)
Letters(t, n) == n \in 0..Len(t) /\ \A i \in 1..Len(t) : t[i] # Sharp <=> i <= n

LEMMA LettersFirst ==
    ASSUME NEW t \in Seq(Upper), SharpAtEnd(t)
    PROVE  \E n \in 0..Len(t) : Letters(t, n)
<1> DEFINE B == {i \in 1..Len(t) : t[i] = Sharp}
<1>1. CASE B = {}
  <2>1. Letters(t, Len(t))  BY <1>1 DEF Letters
  <2> QED  BY <2>1
<1>2. CASE B # {}
  <2> DEFINE R == {ss \in Nat \X Nat : ss[1] < ss[2]}
  <2>1. R = OpToRel(<, Nat)  BY Zenon DEF OpToRel
  <2>2. IsWellFoundedOn(R, Nat)  BY <2>1, NatLessThanWellFounded
  <2>3. B \in SUBSET Nat  OBVIOUS
  <2>4. PICK b \in B : \A z \in B : ~ (<<z, b>> \in R)
    <3> HIDE DEF B, R
    <3> QED  BY <1>2, <2>2, <2>3, WFMin
  <2>5. b \in 1..Len(t) /\ t[b] = Sharp /\ \A z \in B : ~ (z < b)
    BY <2>3, <2>4
  <2>6. ASSUME NEW i \in 1..Len(t) PROVE t[i] # Sharp <=> i <= b - 1
    <3>1. CASE i < b  BY <2>5, <3>1
    <3>2. CASE i = b  BY <2>5, <3>2
    <3>3. CASE i > b  BY <2>5, <3>3 DEF SharpAtEnd
    <3> QED  BY <2>5, <3>1, <3>2, <3>3
  <2>7. Letters(t, b - 1)  BY <2>5, <2>6 DEF Letters
  <2> QED  BY <2>5, <2>7
<1> QED  BY <1>1, <1>2

(* A set of contexts that FINAL, DEL and the absorption of a boundary symbol *)
(* do not leave is empty.                                                    *)
LEMMA NoTrap ==
    ASSUME NEW U \in SUBSET AllContexts,
           \A c \in U : /\ ~HasFinalArc(c)
                        /\ IsBold(c) /\ CanRead(c) => DelTarget(c) \in U
                        /\ ~IsBold(c) /\ CanAbsorb(c, Sharp) => AbsTarget(c, Sharp) \in U
    PROVE  U = {}
<1> DEFINE Togo(c, n) == 2 * n + UrcMax - Len(c.urc)
           P == {p \in U \X (0..UrcMax) : Letters(p[1].urc, p[2])}
           M == {Togo(p[1], p[2]) : p \in P}
           R == {ss \in Nat \X Nat : ss[1] < ss[2]}
<1> SUFFICES ASSUME U # {} PROVE FALSE  OBVIOUS
<1>1. \A c \in U : /\ c.urc \in Seq(Upper) /\ Len(c.urc) \in 0..UrcMax
                   /\ SharpAtEnd(c.urc)
                   /\ IsBold(c) <=> Len(c.urc) = UrcMax
  BY AllContextsComplete, ContextWindows
<1>2. UrcMax \in Nat \ {0}  BY MaxAssumption, TopologyAssumption
<1>3. ASSUME NEW c \in U, NEW n, Letters(c.urc, n)
      PROVE  /\ <<c, n>> \in P /\ n \in Nat /\ n <= Len(c.urc)
             /\ Togo(c, n) \in M /\ Togo(c, n) \in Nat
  <2>1. n \in 0..Len(c.urc)  BY <1>3 DEF Letters
  <2>2. n \in 0..UrcMax  BY <1>1, <1>2, <2>1
  <2>3. <<c, n>> \in P  BY <1>3, <2>2
  <2>4. Togo(c, n) \in Nat  BY <1>1, <1>2, <2>1
  <2>5. Togo(<<c, n>>[1], <<c, n>>[2]) \in M  BY <2>3
  <2> QED  BY <1>1, <2>1, <2>3, <2>4, <2>5
<1>4. M \in SUBSET Nat /\ M # {}
  <2>1. ASSUME NEW p \in P PROVE Togo(p[1], p[2]) \in Nat
    BY <1>3
  <2>2. PICK c \in U : TRUE  OBVIOUS
  <2>3. PICK n \in 0..Len(c.urc) : Letters(c.urc, n)  BY <1>1, LettersFirst
  <2>4. Togo(c, n) \in M  BY <1>3, <2>3
  <2> QED  BY <2>1, <2>4
<1>5. PICK x \in M : \A z \in M : ~ (<<z, x>> \in R)
  <2>1. R = OpToRel(<, Nat)  BY Zenon DEF OpToRel
  <2>2. IsWellFoundedOn(R, Nat)  BY <2>1, NatLessThanWellFounded
  <2> HIDE DEF M, R
  <2> QED  BY <1>4, <2>2, WFMin
<1>6. PICK p \in P : x = Togo(p[1], p[2])  OBVIOUS
<1> DEFINE c == p[1]
           n == p[2]
<1>7. c \in U /\ Letters(c.urc, n) /\ x = Togo(c, n) /\ n \in Nat
  BY <1>3, <1>6
<1> HIDE DEF c, n
<1>8. ASSUME NEW d \in U, NEW m, Letters(d.urc, m), Togo(d, m) < Togo(c, n)
      PROVE  FALSE
  <2>1. Togo(d, m) \in M /\ Togo(d, m) \in Nat /\ Togo(c, n) \in Nat
    BY <1>3, <1>7, <1>8
  <2> QED  BY <1>5, <1>7, <1>8, <2>1
<1> DEFINE t == c.urc
<1>9. /\ t \in Seq(Upper) /\ Len(t) \in 0..UrcMax /\ SharpAtEnd(t)
      /\ IsBold(c) <=> Len(t) = UrcMax
      /\ n \in 0..Len(t) /\ \A i \in 1..Len(t) : t[i] # Sharp <=> i <= n
  BY <1>1, <1>7 DEF Letters
<1>10. CASE ~IsBold(c)
  <2> DEFINE d == AbsTarget(c, Sharp)
             r == Append(t, Sharp)
  <2>1. Sharp \in Upper /\ Len(t) < UrcMax  BY <1>2, <1>9, <1>10 DEF Upper
  <2>2. AddReverse(t, Sharp, UrcMax) = r
    <3> HIDE DEF t
    <3> QED  BY <1>2, <1>9, <2>1, AddReverseAppends
  <2>3. /\ r \in Seq(Upper) /\ Len(r) = Len(t) + 1 /\ r[Len(t) + 1] = Sharp
        /\ \A i \in 1..Len(t) : r[i] = t[i]
    <3> HIDE DEF t
    <3> QED  BY <1>9, <2>1, AppendProperties
  <2>4. SharpAtEnd(r)
    <3> HIDE DEF t, r
    <3> SUFFICES ASSUME NEW i \in 1..Len(r), NEW k \in 1..Len(r), i < k, r[i] = Sharp
                 PROVE  r[k] = Sharp
      BY DEF SharpAtEnd
    <3>1. CASE k = Len(t) + 1  BY <2>3, <3>1
    <3>2. CASE k # Len(t) + 1
      <4>1. k \in 1..Len(t) /\ i \in 1..Len(t)  BY <1>9, <2>3, <3>2
      <4> QED  BY <1>9, <2>3, <4>1 DEF SharpAtEnd
    <3> QED  BY <3>1, <3>2
  <2>5. CanAbsorb(c, Sharp)  BY <1>2, <2>2, <2>4 DEF CanAbsorb
  <2>6. d \in U /\ d.urc = r  BY <1>7, <1>10, <2>2, <2>5 DEF AbsTarget
  <2> HIDE DEF d
  <2>7. Letters(d.urc, n)
    <3> HIDE DEF t, r
    <3>1. ASSUME NEW i \in 1..Len(r) PROVE r[i] # Sharp <=> i <= n
      <4>1. CASE i = Len(t) + 1  BY <1>9, <2>3, <4>1
      <4>2. CASE i # Len(t) + 1
        <5>1. i \in 1..Len(t)  BY <1>9, <2>3, <4>2
        <5> QED  BY <1>9, <2>3, <5>1
      <4> QED  BY <4>1, <4>2
    <3>2. n \in 0..Len(r)  BY <1>9, <2>3
    <3> QED  BY <2>6, <3>1, <3>2 DEF Letters
  <2>8. Togo(d, n) < Togo(c, n)
    <3>1. Len(d.urc) = Len(c.urc) + 1 /\ Len(c.urc) \in Nat
      BY <1>2, <1>9, <2>3, <2>6
    <3>2. /\ Togo(d, n) = 2 * n + UrcMax - Len(d.urc)
          /\ Togo(c, n) = 2 * n + UrcMax - Len(c.urc)
      OBVIOUS
    <3>3. n \in Int /\ UrcMax \in Int  BY <1>2, <1>7
    <3> DEFINE k == Len(c.urc)
               m == Len(d.urc)
    <3>4. m = k + 1 /\ k \in Int  BY <3>1
    <3>5. Togo(d, n) = 2 * n + UrcMax - m /\ Togo(c, n) = 2 * n + UrcMax - k
      BY <3>2
    <3> HIDE DEF k, m, n, Togo
    <3>6. 2 * n + UrcMax - m < 2 * n + UrcMax - k  BY ONLY <3>3, <3>4
    <3> QED  BY ONLY <3>5, <3>6
  <2> QED  BY <1>8, <2>6, <2>7, <2>8
<1>11. CASE IsBold(c) /\ CanRead(c)
  <2> DEFINE d == DelTarget(c)
             r == Bump2(t)
  <2>1. d \in U /\ d.urc = r  BY <1>7, <1>11 DEF DelTarget
  <2> HIDE DEF d
  <2>2. t # <<>> /\ t[1] # Sharp  BY <1>11 DEF CanRead
  <2>3. Len(t) = UrcMax /\ 1 \in 1..Len(t)  BY <1>2, <1>9, <1>11
  <2>4. n \in 1..Len(t)  BY <1>9, <2>2, <2>3
  <2>5. Len(r) = Len(t) - 1 /\ \A i \in 1..Len(r) : r[i] = t[i + 1]
    <3> HIDE DEF t
    <3> QED  BY <1>9, <2>2, Bump2Shifts
  <2>6. Letters(d.urc, n - 1)
    <3> HIDE DEF t, r
    <3>1. ASSUME NEW i \in 1..Len(r) PROVE r[i] # Sharp <=> i <= n - 1
      <4>1. i + 1 \in 1..Len(t) /\ r[i] = t[i + 1]  BY <1>9, <2>5
      <4> QED  BY <1>9, <4>1
    <3>2. n - 1 \in 0..Len(r)  BY <1>9, <2>4, <2>5
    <3> QED  BY <2>1, <3>1, <3>2 DEF Letters
  <2>7. Togo(d, n - 1) < Togo(c, n)
    <3>1. Len(d.urc) = Len(c.urc) - 1 /\ Len(c.urc) \in Nat
      BY <1>2, <1>9, <2>1, <2>5
    <3>2. n \in Nat  BY <1>7
    <3> HIDE DEF n
    <3>3. 2 * (n - 1) = 2 * n - 2 /\ 2 * n \in Nat  BY <3>2
    <3> DEFINE k == 2 * (n - 1)
               l == 2 * n
               u == Len(c.urc)
               w == Len(d.urc)
    <3>4. k = l - 2 /\ l \in Nat /\ w = u - 1 /\ u \in Nat  BY <3>1, <3>3
    <3> HIDE DEF k, l, u, w
    <3>5. k + UrcMax - w < l + UrcMax - u  BY <1>2, <3>4
    <3> QED  BY <3>5 DEF k, l, u, w
  <2> QED  BY <1>8, <2>1, <2>6, <2>7
<1>12. CASE IsBold(c) /\ ~CanRead(c)
  <2>1. Len(t) = UrcMax /\ 1 \in 1..Len(t)  BY <1>2, <1>9, <1>12
  <2>2. t # <<>>  BY <1>9, <2>1
  <2>3. t[1] = Sharp  BY <1>12, <2>2 DEF CanRead
  <2>4. AllSharp(t)
    <3> SUFFICES ASSUME NEW i \in 1..Len(t) PROVE t[i] = Sharp
      BY DEF AllSharp
    <3>1. CASE i = 1  BY <2>3, <3>1
    <3>2. CASE i # 1  BY <1>9, <2>1, <2>3, <3>2 DEF SharpAtEnd
    <3> QED  BY <3>1, <3>2
  <2> QED  BY <1>7, <2>1, <2>4 DEF HasFinalArc
<1> QED  BY <1>10, <1>11, <1>12

-----------------------------------------------------------------------------
(* The machine has these arcs once their loop has visited the context. *)

EdgesOf(c) == IF IsBold(c) THEN BoldEdges(c) ELSE NonBoldEdges(c)

LeadsTo(c, n, x, y) ==
    \E k \in 1..Len(arcs[lookup[c]]) :
        LET a == arcs[lookup[c]][k] IN a.to = n /\ a.in = x /\ a.out = y

CompleteInv ==
    /\ \A c \in Numbered : HasFinalArc(c) => LeadsTo(c, 0, Eps, Eps)
    /\ \A c \in Numbered \ Unvisited : \A k \in 1..Len(EdgesOf(c)) :
         LET e == EdgesOf(c)[k] IN LeadsTo(c, lookup[e.to], e.in, e.out)

LEMMA EdgesOfGood == ASSUME NEW c \in AllContexts PROVE GoodEdges(c, EdgesOf(c))
BY BoldEdgesGood, NonBoldEdgesGood DEF EdgesOf

LEMMA AddContextComplete ==
    ASSUME BInv, CompleteInv, AddContext PROVE CompleteInv'
<1> USE BHere
<1> DEFINE n == Len(arcs) + 1
<1>1. PICK c \in pending :
        /\ lookup' = [x \in DOMAIN lookup \cup {c} |-> IF x = c THEN n ELSE lookup[x]]
        /\ arcs' = Append(arcs, Number(<<>>, FinalEdges(c)))
        /\ pending' = pending \ {c}
  BY DEF AddContext, NextState
<1> DEFINE new == Number(<<>>, FinalEdges(c))
<1>2. stage = "contexts" /\ stage' = "contexts" /\ c \in AllContexts
  BY DEF AddContext, BInv, StageInv
<1>3. Numbered' = Numbered \cup {c} /\ c \notin Numbered
  BY <1>1, <1>2 DEF Numbered
<1>4. HasFinalArc(c) => /\ Len(new) = 1 /\ new[1].to = 0
                        /\ new[1].in = Eps /\ new[1].out = Eps
  BY DEF Number, FinalEdges, Edge
<1> HIDE DEF new
<1>5. arcs'[n] = new /\ \A m \in 1..Len(arcs) : arcs'[m] = arcs[m]
  <2>1. arcs' = Append(arcs, new)  BY <1>1 DEF new
  <2>2. arcs \in Seq(Seq(ArcRecords))  BY DEF BInv, TableInv
  <2>3. new \in Seq(ArcRecords)
    <3>1. CASE HasFinalArc(c)
      <4> DEFINE r == [to |-> 0, in |-> Eps, out |-> Eps, by |-> "FINAL"]
      <4>1. r \in ArcRecords  BY DEF ArcRecords, Actions
      <4>2. new = <<r>>  BY <3>1 DEF new, Number, FinalEdges, Edge
      <4> HIDE DEF r
      <4> QED  BY <4>1, <4>2
    <3>2. CASE ~HasFinalArc(c)
      <4>1. new = <<>>  BY <3>2 DEF new, Number, FinalEdges
      <4> QED  BY <4>1
    <3> QED  BY <3>1, <3>2
  <2> QED  BY <2>1, <2>2, <2>3, AppendProperties
<1>6. /\ lookup'[c] = n
      /\ \A d \in Numbered : lookup'[d] = lookup[d] /\ lookup[d] \in 1..Len(arcs)
  <2>1. lookup \in [Numbered -> 1..Len(arcs)]  BY DEF BInv, TableInv
  <2> QED  BY <1>1, <1>3, <2>1
<1>7. ASSUME NEW d \in Numbered', HasFinalArc(d) PROVE LeadsTo(d, 0, Eps, Eps)'
  <2>1. CASE d = c
    <3>1. arcs'[lookup'[d]] = new  BY <1>5, <1>6, <2>1
    <3>2. /\ Len(new) = 1 /\ new[1].to = 0
          /\ new[1].in = Eps /\ new[1].out = Eps
      BY <1>4, <1>7, <2>1
    <3>3. 1 \in 1..Len(arcs'[lookup'[d]])  BY <3>1, <3>2
    <3> QED  BY <3>1, <3>2, <3>3 DEF LeadsTo
  <2>2. CASE d # c
    <3>1. d \in Numbered  BY <1>3, <2>2
    <3>2. arcs'[lookup'[d]] = arcs[lookup[d]]  BY <1>5, <1>6, <3>1
    <3>3. LeadsTo(d, 0, Eps, Eps)  BY <1>7, <3>1 DEF CompleteInv
    <3> QED  BY <3>2, <3>3 DEF LeadsTo
  <2> QED  BY <2>1, <2>2
<1>8. Numbered' \ Unvisited' = {}  BY <1>2 DEF Unvisited
<1> QED  BY <1>7, <1>8 DEF CompleteInv

LEMMA AddArcsComplete ==
    ASSUME BInv, CompleteInv, stage \in {"bold", "nonbold"}, NEW c \in pending,
           AddArcs(c, EdgesOf(c))
    PROVE  CompleteInv'
<1> USE BHere
<1> DEFINE n     == lookup[c]
           L     == Len(arcs)
           edges == EdgesOf(c)
           new   == Number(lookup, edges)
           old   == arcs[n]
<1>1. Numbered = AllContexts /\ c \in AllContexts
  BY DEF Numbered, BInv, StageInv
<1>2. /\ GoodEdges(c, edges) /\ edges \in Seq(ContextArcs) /\ Len(edges) \in Nat
      /\ \A k \in 1..Len(edges) : edges[k].to \in AllContexts
  <2>1. GoodEdges(c, EdgesOf(c))  BY <1>1, EdgesOfGood
  <2> HIDE DEF edges
  <2>2. GoodEdges(c, edges)  BY <2>1 DEF edges
  <2>3. edges \in Seq(ContextArcs)  BY <2>2 DEF GoodEdges
  <2>4. \A k \in 1..Len(edges) : edges[k] \in ContextArcs
    BY <2>3, ElementOfSeq
  <2> QED  BY <2>2, <2>3, <2>4 DEF ContextArcs
<1> HIDE DEF edges
<1>3. Resolvable(edges)  BY <1>1, <1>2 DEF Resolvable
<1>4. /\ arcs' = [arcs EXCEPT ![n] = @ \o new]
      /\ pending' = pending \ {c}
      /\ UNCHANGED <<stage, lookup>>
  BY <1>3 DEF AddArcs, edges
<1>5. /\ lookup \in [AllContexts -> 1..L]
      /\ \A d, e \in AllContexts : lookup[d] = lookup[e] => d = e
      /\ arcs \in Seq(Seq(ArcRecords))
  BY <1>1 DEF BInv, TableInv
<1>6. L \in Nat /\ n \in 1..L /\ old \in Seq(ArcRecords) /\ Len(old) \in Nat
  BY <1>1, <1>5
<1>7. /\ Len(new) = Len(edges)
      /\ \A k \in 1..Len(edges) : /\ new[k].to = lookup[edges[k].to]
                                 /\ new[k].in = edges[k].in
                                 /\ new[k].out = edges[k].out
  <2>1. \A k \in 1..Len(edges) : edges[k].to # FinalState
    BY <1>2, AllContextsComplete, FinalAssumption
  <2> QED  BY <1>2, <2>1 DEF Number, Edge
<1>8. new \in Seq(ArcRecords)
  <2>1. new = Number(lookup, edges)  OBVIOUS
  <2> HIDE DEF n, L, new, old
  <2>2. GoodArcs(c, n, L, new)  BY <1>2, <1>5, <1>6, <2>1, NumberedArcs
  <2> QED  BY <2>2 DEF GoodArcs
<1> HIDE DEF n, L, new, old
<1>9. /\ Len(old \o new) = Len(old) + Len(new) /\ Len(new) \in Nat
      /\ \A k \in 1..(Len(old) + Len(new)) :
           (old \o new)[k] = IF k <= Len(old) THEN old[k] ELSE new[k - Len(old)]
  BY <1>6, <1>8, ConcatProperties
<1>10. /\ arcs'[n] = old \o new
       /\ \A m \in 1..L : m # n => arcs'[m] = arcs[m]
  <2>1. arcs' = [arcs EXCEPT ![n] = old \o new]  BY <1>4 DEF old
  <2>2. DOMAIN arcs = 1..L  BY <1>5 DEF L
  <2> QED  BY <1>6, <2>1, <2>2
<1>11. ASSUME NEW d \in AllContexts, NEW m, NEW x, NEW y, LeadsTo(d, m, x, y)
       PROVE  LeadsTo(d, m, x, y)'
  <2>1. lookup[d] \in 1..L /\ lookup' = lookup  BY <1>4, <1>5
  <2>2. CASE lookup[d] = n
    <3>1. PICK k \in 1..Len(old) : old[k].to = m /\ old[k].in = x /\ old[k].out = y
      BY <1>11, <2>2 DEF LeadsTo, old
    <3>2. k \in 1..(Len(old) + Len(new)) /\ (old \o new)[k] = old[k]
      BY <1>6, <1>9, <3>1
    <3> QED  BY <1>9, <1>10, <2>1, <2>2, <3>1, <3>2 DEF LeadsTo
  <2>3. CASE lookup[d] # n
    <3>1. arcs'[lookup[d]] = arcs[lookup[d]]  BY <1>10, <2>1, <2>3
    <3> QED  BY <1>11, <2>1, <3>1 DEF LeadsTo
  <2> QED  BY <2>2, <2>3
<1>12. ASSUME NEW k \in 1..Len(edges)
       PROVE  \E m \in 1..Len(arcs'[n]) :
                 LET a == arcs'[n][m]
                 IN  /\ a.to = lookup[edges[k].to]
                     /\ a.in = edges[k].in /\ a.out = edges[k].out
  <2> DEFINE m == Len(old) + k
  <2>1. m \in 1..(Len(old) + Len(new)) /\ ~ (m <= Len(old)) /\ m - Len(old) = k
    BY <1>2, <1>6, <1>7, <1>9
  <2>2. (old \o new)[m] = new[k]  BY <1>9, <2>1
  <2>3. m \in 1..Len(arcs'[n]) /\ arcs'[n][m] = new[k]
    BY <1>9, <1>10, <2>1, <2>2
  <2> QED  BY <1>7, <2>3
<1>13. /\ Numbered' = AllContexts
       /\ \A d \in AllContexts : d \notin Unvisited' => d = c \/ d \notin Unvisited
  <2>1. Numbered' = AllContexts  BY <1>4 DEF Numbered
  <2> QED  BY <1>1, <1>4, <2>1 DEF Unvisited
<1>14. ASSUME NEW d \in AllContexts, HasFinalArc(d) PROVE LeadsTo(d, 0, Eps, Eps)'
  BY <1>1, <1>11, <1>14 DEF CompleteInv
<1>15. ASSUME NEW d \in AllContexts, d \notin Unvisited', NEW k \in 1..Len(EdgesOf(d))
       PROVE  (LET e == EdgesOf(d)[k] IN LeadsTo(d, lookup[e.to], e.in, e.out))'
  <2>1. lookup' = lookup  BY <1>4
  <2>2. CASE d = c
    <3> DEFINE e == EdgesOf(c)[k]
    <3>1. k \in 1..Len(edges) /\ edges[k] = e  BY <2>2 DEF edges
    <3>2. PICK m \in 1..Len(arcs'[n]) : /\ arcs'[n][m].to = lookup[e.to]
                                       /\ arcs'[n][m].in = e.in
                                       /\ arcs'[n][m].out = e.out
      BY <1>12, <3>1
    <3>3. e' = e  BY DEF EdgesOf, BoldEdges, NonBoldEdges
    <3> QED  BY <2>1, <2>2, <3>2, <3>3 DEF LeadsTo, n
  <2>3. CASE d # c
    <3> DEFINE e == EdgesOf(d)[k]
    <3>1. LeadsTo(d, lookup[e.to], e.in, e.out)
      BY <1>1, <1>13, <1>15, <2>3 DEF CompleteInv
    <3>2. PICK m : m = lookup[e.to]  OBVIOUS
    <3>3. LeadsTo(d, m, e.in, e.out)  BY <3>1, <3>2
    <3>4. LeadsTo(d, m, e.in, e.out)'  BY <1>11, <3>3
    <3> QED  BY <2>1, <3>2, <3>4 DEF LeadsTo
  <2> QED  BY <2>2, <2>3
<1> QED  BY <1>13, <1>14, <1>15 DEF CompleteInv

(* The other steps leave the machine alone and visit nothing. *)
LEMMA OthersComplete ==
    ASSUME BInv, CompleteInv, UNCHANGED <<lookup, arcs>>, Numbered' = Numbered,
           Unvisited' = Unvisited
    PROVE  CompleteInv'
BY DEF CompleteInv, LeadsTo

LEMMA NextComplete == BInv /\ CompleteInv /\ [Next]_vars => CompleteInv'
<1> SUFFICES ASSUME BInv, CompleteInv, [Next]_vars PROVE CompleteInv'  OBVIOUS
<1>1. CASE AddContext  BY <1>1, AddContextComplete
<1>2. CASE AddBoldArcs
  <2>1. PICK c \in pending : AddArcs(c, BoldEdges(c)) /\ stage = "bold"
    BY <1>2 DEF AddBoldArcs
  <2>2. EdgesOf(c) = BoldEdges(c)  BY <2>1 DEF BInv, StageInv, EdgesOf
  <2> QED  BY <2>1, <2>2, AddArcsComplete
<1>3. CASE AddNonBoldArcs
  <2>1. PICK c \in pending : AddArcs(c, NonBoldEdges(c)) /\ stage = "nonbold"
    BY <1>3 DEF AddNonBoldArcs
  <2>2. EdgesOf(c) = NonBoldEdges(c)  BY <2>1 DEF BInv, StageInv, EdgesOf
  <2> QED  BY <2>1, <2>2, AddArcsComplete
<1>4. CASE SetInitial
  <2>1. stage = "contexts" /\ pending = {} /\ Numbered = AllContexts
    BY <1>4 DEF SetInitial, Numbered
  <2>2. /\ stage' = "bold" /\ pending' = {c \in AllContexts : IsBold(c)}
        /\ UNCHANGED <<lookup, arcs>>
    BY <1>4, <2>1, BHere, InitialContextListed DEF SetInitial, BoldContexts
  <2>3. Numbered' = Numbered /\ Unvisited' = Unvisited
    BY <2>1, <2>2 DEF Numbered, Unvisited
  <2> QED  BY <2>2, <2>3, OthersComplete
<1>5. CASE StartNonBold
  <2>1. stage = "bold" /\ pending = {} /\ Numbered = AllContexts
    BY <1>5 DEF StartNonBold, Numbered
  <2>2. /\ stage' = "nonbold" /\ pending' = {c \in AllContexts : ~IsBold(c)}
        /\ UNCHANGED <<lookup, arcs>>
    BY <1>5, <2>1, BHere DEF StartNonBold, NonBoldContexts, BoldContexts
  <2>3. Numbered' = Numbered /\ Unvisited' = Unvisited
    BY <2>1, <2>2 DEF Numbered, Unvisited
  <2> QED  BY <2>2, <2>3, OthersComplete
<1>6. CASE StartLabels \/ LabelArc \/ LabelState \/ Exit \/ UNCHANGED vars
  <2>1. /\ UNCHANGED <<lookup, arcs, pending>>
        /\ \/ stage' = stage
           \/ stage = "nonbold" /\ stage' = "label"
           \/ stage = "label" /\ stage' = "done"
    BY <1>6 DEF StartLabels, LabelArc, LabelState, Exit, vars
  <2>2. Numbered' = Numbered /\ Unvisited' = Unvisited
    BY <2>1 DEF Numbered, Unvisited
  <2> QED  BY <2>1, <2>2, OthersComplete
<1> QED  BY <1>1, <1>2, <1>3, <1>4, <1>5, <1>6 DEF Next

LEMMA InitComplete == Init => CompleteInv
BY DEF Init, CompleteInv, Numbered

LEMMA CompleteInvHolds == Spec => []CompleteInv
BY InitComplete, NextComplete, BInvHolds, PTL DEF Spec

(* When the machine is finished, arcs lead out of every set of states. *)
LEMMA NoClosedSet ==
    ASSUME BInv, CompleteInv, stage = "done", NEW W \in SUBSET (1..Len(arcs)),
           \A n \in W : \A k \in 1..Len(arcs[n]) : arcs[n][k].to \in W
    PROVE  W = {}
<1> DEFINE U == {c \in AllContexts : lookup[c] \in W}
<1>1. Numbered = AllContexts /\ Unvisited = {}
  BY DEF Numbered, Unvisited, BInv, StageInv
<1>2. ASSUME NEW c \in U, NEW n, NEW x, NEW y, LeadsTo(c, n, x, y) PROVE n \in W
  BY <1>2 DEF LeadsTo
<1>3. ASSUME NEW c \in U, NEW k \in 1..Len(EdgesOf(c))
      PROVE  EdgesOf(c)[k].to \in U
  <2>1. GoodEdges(c, EdgesOf(c))  BY EdgesOfGood
  <2>2. EdgesOf(c)[k] \in ContextArcs
    <3>1. EdgesOf(c) \in Seq(ContextArcs)  BY <2>1 DEF GoodEdges
    <3> QED  BY <3>1, ElementOfSeq
  <2> DEFINE e == EdgesOf(c)[k]
  <2>3. LeadsTo(c, lookup[e.to], e.in, e.out)  BY <1>1 DEF CompleteInv
  <2> QED  BY <1>2, <2>2, <2>3 DEF ContextArcs
<1>4. \A c \in U : ~HasFinalArc(c)
  <2>1. \A c \in U : HasFinalArc(c) => LeadsTo(c, 0, Eps, Eps)  BY <1>1 DEF CompleteInv
  <2>2. 0 \notin W  OBVIOUS
  <2> QED  BY <1>2, <2>1, <2>2
<1>5. ASSUME NEW c \in U, IsBold(c), CanRead(c) PROVE DelTarget(c) \in U
  <2>1. EdgesOf(c) = BoldEdges(c) /\ c \in AllContexts  BY <1>5 DEF EdgesOf
  <2>2. PICK k \in 1..Len(BoldEdges(c)) : BoldEdges(c)[k].to = DelTarget(c)
    <3> HIDE DEF U
    <3>1. c \in AllContexts  BY <2>1
    <3>2. PICK k \in 1..Len(BoldEdges(c)) :
            BoldEdges(c)[k] = Edge(DelTarget(c), Eps, Eps, "DEL")
      BY <1>5, <3>1, DeletionAdded
    <3> QED  BY <3>2 DEF Edge
  <2> QED  BY <1>3, <2>1, <2>2
<1>6. ASSUME NEW c \in U, ~IsBold(c), CanAbsorb(c, Sharp)
      PROVE  AbsTarget(c, Sharp) \in U
  <2>1. EdgesOf(c) = NonBoldEdges(c) /\ c \in AllContexts  BY <1>6 DEF EdgesOf
  <2>2. PICK k \in 1..Len(NonBoldEdges(c)) :
          NonBoldEdges(c)[k].to = AbsTarget(c, Sharp)
    <3> HIDE DEF U
    <3>1. Sharp \in Upper  BY DEF Upper
    <3>2. PICK k \in 1..Len(NonBoldEdges(c)) :
            NonBoldEdges(c)[k] = Edge(AbsTarget(c, Sharp), Sharp, Eps, "ABS")
      BY <1>6, <3>1, AbsorptionAdded
    <3> QED  BY <3>2 DEF Edge
  <2> QED  BY <1>3, <2>1, <2>2
<1>7. U \in SUBSET AllContexts  OBVIOUS
<1> HIDE DEF U
<1>8. U = {}  BY <1>4, <1>5, <1>6, <1>7, NoTrap
<1>9. \A n \in 1..Len(arcs) : \E c \in AllContexts : lookup[c] = n
  BY <1>1 DEF BInv, TableInv
<1> QED  BY <1>8, <1>9 DEF U

(* Within is what its equation says. *)
LEMMA WithinStages ==
    ASSUME Len(arcs) \in Nat
    PROVE  /\ Within[0] = {0}
           /\ \A d \in 1..Len(arcs) :
                 Within[d] = Within[d - 1] \cup Predecessors(Within[d - 1])
<1> DEFINE L == Len(arcs)
           Stage(f, d) == IF d = 0 THEN {0} ELSE f[d - 1] \cup Predecessors(f[d - 1])
           Staged(f, m) == f = [d \in 0..m |-> Stage(f, d)]
           B == {m \in 0..L : ~ \E f : Staged(f, m)}
           R == {ss \in Nat \X Nat : ss[1] < ss[2]}
<1>1. B = {}
  <2> SUFFICES ASSUME B # {} PROVE FALSE  OBVIOUS
  <2>1. R = OpToRel(<, Nat)  BY Zenon DEF OpToRel
  <2>2. IsWellFoundedOn(R, Nat)  BY <2>1, NatLessThanWellFounded
  <2>3. B \in SUBSET Nat  OBVIOUS
  <2>4. PICK b \in B : \A z \in B : ~ (<<z, b>> \in R)
    <3> HIDE DEF B, R
    <3> QED  BY <2>2, <2>3, WFMin
  <2>5. b \in 0..L /\ ~ \E f : Staged(f, b)  OBVIOUS
  <2>6. CASE b = 0
    <3> DEFINE f == [d \in 0..0 |-> {0}]
    <3>1. f = [d \in 0..0 |-> Stage(f, d)]
      <4>1. \A d \in 0..0 : Stage(f, d) = {0}  OBVIOUS
      <4> QED  BY <4>1
    <3>2. Staged(f, b)  BY <2>6, <3>1
    <3> QED  BY <2>5, <3>2
  <2>7. CASE b # 0
    <3>1. b - 1 \in 0..L /\ b \in Nat /\ b - 1 \in Nat  BY <2>5, <2>7
    <3>2. ~ (b - 1 \in B)
      <4>1. b - 1 < b  BY <3>1
      <4> HIDE DEF B
      <4> QED  BY <2>4, <3>1, <4>1
    <3>3. PICK f : Staged(f, b - 1)  BY <3>1, <3>2
    <3> DEFINE g == [d \in 0..b |-> IF d = b THEN Stage(f, b) ELSE f[d]]
    <3>4. ASSUME NEW d \in 0..b PROVE g[d] = Stage(g, d)
      <4>1. CASE d = 0
        <5>1. g[d] = f[d] /\ f[d] = Stage(f, d)  BY <2>7, <3>1, <3>3, <4>1
        <5> QED  BY <4>1, <5>1
      <4>2. CASE d # 0
        <5>1. d - 1 \in 0..(b - 1) /\ d - 1 \in 0..b /\ d - 1 # b
          BY <3>1, <4>2
        <5>2. g[d - 1] = f[d - 1]  BY <5>1
        <5>3. Stage(g, d) = Stage(f, d)  BY <4>2, <5>2
        <5>4. CASE d = b  BY <5>3, <5>4
        <5>5. CASE d # b
          <6>1. d \in 0..(b - 1)  BY <3>1, <5>5
          <6>2. f[d] = Stage(f, d)  BY <3>3, <6>1
          <6> QED  BY <5>3, <5>5, <6>2
        <5> QED  BY <5>4, <5>5
      <4> QED  BY <4>1, <4>2
    <3>5. Staged(g, b)
      <4>1. g = [d \in 0..b |-> g[d]]  OBVIOUS
      <4> HIDE DEF g, Stage
      <4> QED  BY <3>4, <4>1
    <3> QED  BY <2>5, <3>5
  <2> QED  BY <2>6, <2>7
<1>2. \E f : Staged(f, L)
  <2>1. L \in 0..L  OBVIOUS
  <2> HIDE DEF Staged
  <2> QED  BY <1>1, <2>1
<1>3. Within = CHOOSE f : Staged(f, L)  BY DEF Within
<1>4. Within = [d \in 0..L |-> Stage(Within, d)]
  <2> HIDE DEF Stage
  <2>1. Staged(Within, L)
    <3> HIDE DEF Staged
    <3> QED  BY <1>2, <1>3
  <2> QED  BY <2>1
<1>5. \A d \in 0..L : Within[d] = Stage(Within, d)
  <2> HIDE DEF Stage
  <2> QED  BY <1>4
<1>6. Within[0] = {0}
  <2>1. 0 \in 0..L /\ Stage(Within, 0) = {0}  OBVIOUS
  <2> HIDE DEF Stage
  <2> QED  BY <1>5, <2>1
<1>7. ASSUME NEW d \in 1..L
      PROVE Within[d] = Within[d - 1] \cup Predecessors(Within[d - 1])
  <2>1. d \in 0..L /\ d # 0  OBVIOUS
  <2> QED  BY <1>5, <2>1
<1> QED  BY <1>6, <1>7

(* Only the set of all states holds state 0 and its own predecessors. *)
LEMMA PredecessorsTakeAll ==
    ASSUME BInv, CompleteInv, stage = "done",
           NEW S \in SUBSET (0..Len(arcs)), 0 \in S, Predecessors(S) \subseteq S
    PROVE  S = 0..Len(arcs)
<1> DEFINE W == (0..Len(arcs)) \ S
<1>1. W \in SUBSET (1..Len(arcs))  BY BHere
<1>2. ASSUME NEW n \in W, NEW k \in 1..Len(arcs[n]) PROVE arcs[n][k].to \in W
  <2>1. n \in 1..Len(arcs) /\ n \notin S  BY <1>1
  <2>2. arcs[n][k].to \in 0..Len(arcs)  BY <2>1 DEF BInv, ArcsInv
  <2>3. arcs[n][k].to \notin S  BY <2>1 DEF Predecessors
  <2> QED  BY <2>2, <2>3
<1> HIDE DEF W
<1>3. W = {}  BY <1>1, <1>2, NoClosedSet
<1> QED  BY <1>3 DEF W

(* So each further arc brings a further state, until there is none left. *)
LEMMA AllWithin ==
    ASSUME BInv, CompleteInv, stage = "done"
    PROVE  Within[Len(arcs)] = 0..Len(arcs)
<1> DEFINE L == Len(arcs)
           B == {d \in 0..L : ~ (/\ Within[d] \in SUBSET (0..L)
                                 /\ 0 \in Within[d]
                                 /\ Cardinality(Within[d]) >= d + 1)}
           R == {ss \in Nat \X Nat : ss[1] < ss[2]}
<1>1. L \in Nat  BY BHere
<1>2. /\ Within[0] = {0}
      /\ \A d \in 1..L : Within[d] = Within[d - 1] \cup Predecessors(Within[d - 1])
  BY <1>1, WithinStages
<1>3. IsFiniteSet(0..L) /\ Cardinality(0..L) = L + 1
  BY <1>1, FS_Interval
<1> HIDE DEF L
<1>4. B = {}
  <2> SUFFICES ASSUME B # {} PROVE FALSE  OBVIOUS
  <2>1. R = OpToRel(<, Nat)  BY Zenon DEF OpToRel
  <2>2. IsWellFoundedOn(R, Nat)  BY <2>1, NatLessThanWellFounded
  <2>3. B \in SUBSET Nat  OBVIOUS
  <2>4. PICK b \in B : \A z \in B : ~ (<<z, b>> \in R)
    <3> HIDE DEF B, R
    <3> QED  BY <2>2, <2>3, WFMin
  <2>5. b \in 0..L /\ b \in Nat  BY <1>1
  <2>6. CASE b = 0
    <3>1. Cardinality({0}) = 1  BY FS_Singleton
    <3>2. {0} \in SUBSET (0..L)  BY <1>1
    <3>3. Within[b] = {0} /\ b + 1 = 1  BY <1>2, <2>6
    <3>4. Cardinality(Within[b]) >= b + 1  BY <3>1, <3>3
    <3> QED  BY <3>2, <3>3, <3>4
  <2>7. CASE b # 0
    <3> DEFINE S == Within[b - 1]
               T == Within[b]
    <3>1. b \in 1..L /\ b - 1 \in 0..L /\ b - 1 \in Nat  BY <1>1, <2>5, <2>7
    <3>2. ~ (b - 1 \in B)
      <4>1. b - 1 < b  BY <3>1
      <4> HIDE DEF B
      <4> QED  BY <2>4, <2>5, <3>1, <4>1
    <3>3. S \in SUBSET (0..L) /\ 0 \in S /\ Cardinality(S) >= b - 1 + 1
      BY <3>1, <3>2
    <3>4. T = S \cup Predecessors(S)  BY <1>2, <3>1
    <3>5. Predecessors(S) \subseteq 1..L  BY DEF Predecessors, L
    <3>6. T \in SUBSET (0..L) /\ 0 \in T  BY <1>1, <3>3, <3>4, <3>5
    <3>7. ~ (Cardinality(T) >= b + 1)  BY <2>5, <3>6
    <3> HIDE DEF B, S, T
    <3>8. IsFiniteSet(S) /\ IsFiniteSet(T) /\ Cardinality(S) \in Nat
      BY <1>3, <3>3, <3>6, FS_Subset, FS_CardinalityType
    <3>9. CASE Predecessors(S) \subseteq S
      <4>1. S = 0..L  BY <3>3, <3>9, PredecessorsTakeAll DEF L
      <4>2. T = 0..L  BY <3>4, <3>9, <4>1
      <4> QED  BY <1>1, <1>3, <3>1, <3>7, <4>2
    <3>10. CASE ~ (Predecessors(S) \subseteq S)
      <4>1. S \in SUBSET T /\ S # T  BY <3>4, <3>10
      <4>2. Cardinality(S) < Cardinality(T) /\ Cardinality(T) \in Nat
        BY <3>8, <4>1, FS_Subset, FS_CardinalityType
      <4> QED  BY <3>1, <3>3, <3>7, <3>8, <4>2
    <3> QED  BY <3>9, <3>10
  <2> QED  BY <2>6, <2>7
<1>5. L \in 0..L /\ L \notin B  BY <1>1, <1>4
<1>6. Within[L] \in SUBSET (0..L) /\ Cardinality(Within[L]) >= L + 1  BY <1>5
<1>7. Within[L] = 0..L
  <2> HIDE DEF B
  <2> DEFINE T == Within[L]
  <2>1. T \in SUBSET (0..L) /\ Cardinality(T) >= L + 1  BY <1>6
  <2> HIDE DEF T
  <2>2. /\ IsFiniteSet(T)
        /\ Cardinality(T) <= Cardinality(0..L)
        /\ Cardinality(0..L) = Cardinality(T) => 0..L = T
    BY <1>3, <2>1, FS_Subset
  <2>3. Cardinality(T) \in Nat  BY <2>2, FS_CardinalityType
  <2>4. T = 0..L  BY <1>1, <1>3, <2>1, <2>2, <2>3
  <2> QED  BY <2>4 DEF T
<1> QED  BY <1>7 DEF L

(* No state of the finished machine is a dead end: from each of them, for   *)
(* every pair of alphabets and every topology, arcs lead to state 0, so no  *)
(* probability that the normalisation hands out is lost on a path which     *)
(* ends nowhere.                                                            *)
THEOREM StateZeroReachable == Spec => []Coaccessible
<1>1. BInv /\ CompleteInv => Coaccessible  BY AllWithin DEF Coaccessible
<1> QED  BY <1>1, BInvHolds, CompleteInvHolds, PTL

-----------------------------------------------------------------------------
(* The edits of a context.  Beyond what BInv says of the edges of a loop:  *)
(* an edit is one that is possible in its context, and a context has one   *)
(* edit of a kind for each symbol it can write.                            *)

Fits(c, e) ==
    /\ e.by = "INS" => e.out \in V2
    /\ e.by = "SUB" => e.out \in V2 /\ CanRead(c)
    /\ e.by = "DEL" => e.out = Eps /\ CanRead(c)
    /\ e.by = "FINAL" => e.out = Eps /\ HasFinalArc(c)

SameEdit(e, f) == e.by # "ABS" /\ e.by = f.by /\ e.out = f.out

EditEdges(c, edges) ==
    /\ \A k \in 1..Len(edges) : Fits(c, edges[k]) /\ edges[k].by # "FINAL"
    /\ \A k, m \in 1..Len(edges) : SameEdit(edges[k], edges[m]) => k = m

(* There are n numbers from 1 to n. *)
LEMMA CountUpTo ==
    ASSUME NEW n \in Nat
    PROVE  IsFiniteSet(1..n) /\ Cardinality(1..n) = n
<1>1. 1 \in Int /\ n \in Int  OBVIOUS
<1>2. Cardinality(1..n) = IF 1 > n THEN 0 ELSE n - 1 + 1  BY <1>1, FS_Interval
<1>3. IsFiniteSet(1..n)  BY <1>1, FS_Interval
<1> QED  BY <1>2, <1>3

(* SetToSeq lists every element once. *)
LEMMA SetToSeqOnce ==
    ASSUME NEW S, IsFiniteSet(S)
    PROVE  \A k, m \in 1..Len(SetToSeq(S)) :
             SetToSeq(S)[k] = SetToSeq(S)[m] => k = m
<1>1. /\ Cardinality(S) \in Nat
      /\ \E f \in [1..Cardinality(S) -> S] : IsInjective(f)
  BY FS_CardinalityType DEF ExistsBijection, Bijection, Injection, IsInjective
<1>2. /\ SetToSeq(S) \in [1..Cardinality(S) -> S]
      /\ IsInjective(SetToSeq(S))
  BY <1>1 DEF SetToSeq
<1>3. Len(SetToSeq(S)) = Cardinality(S)  BY <1>1, <1>2, SeqDef, LenProperties
<1> QED  BY <1>2, <1>3 DEF IsInjective

(* The second loop adds an insertion and a substitution per lower symbol *)
(* and one deletion.                                                     *)
LEMMA BoldEdgesEdit ==
    ASSUME NEW c
    PROVE  EditEdges(c, BoldEdges(c))
<1> DEFINE v   == SetToSeq(V2)
           ins == [k \in 1..Len(v) |-> Edge(InsTarget(c, v[k]), Eps, v[k], "INS")]
           sub == [k \in 1..Len(v) |-> Edge(SubTarget(c, v[k]), Eps, v[k], "SUB")]
           del == <<Edge(DelTarget(c), Eps, Eps, "DEL")>>
           E   == BoldEdges(c)
           L   == Len(v)
<1>1. E = IF CanRead(c) THEN ins \o sub \o del ELSE ins
  BY DEF BoldEdges
<1>2. /\ L \in Nat
      /\ \A k \in 1..L : v[k] \in V2
      /\ \A k, m \in 1..L : v[k] = v[m] => k = m
  <2>1. v \in Seq(V2)  BY SetToSeqElements, AlphabetAssumption
  <2>2. \A k, m \in 1..Len(v) : v[k] = v[m] => k = m
    BY SetToSeqOnce, AlphabetAssumption
  <2> HIDE DEF v
  <2> QED  BY <2>1, <2>2
<1> HIDE DEF v, L
<1>3. /\ Len(ins) = L
      /\ \A k \in 1..L : ins[k].by = "INS" /\ ins[k].out = v[k]
  BY <1>2 DEF Edge, L
<1>4. /\ Len(sub) = L
      /\ \A k \in 1..L : sub[k].by = "SUB" /\ sub[k].out = v[k]
  BY <1>2 DEF Edge, L
<1>5. Len(del) = 1 /\ del[1].by = "DEL" /\ del[1].out = Eps  BY DEF Edge
<1>6. /\ Len(E) = IF CanRead(c) THEN 2 * L + 1 ELSE L
      /\ \A k \in 1..L : E[k] = ins[k]
      /\ CanRead(c) => /\ \A k \in (L + 1)..(2 * L) : E[k] = sub[k - L]
                       /\ E[2 * L + 1] = del[1]
  <2>1. CASE CanRead(c)
    <3> DEFINE X == {ins[k] : k \in 1..L} \cup {sub[k] : k \in 1..L} \cup {del[1]}
    <3>1. ins \in Seq(X) /\ sub \in Seq(X) /\ del \in Seq(X)
      <4>1. ins \in [1..L -> X] /\ sub \in [1..L -> X]  BY DEF L
      <4>2. ins \in Seq(X) /\ sub \in Seq(X)
        <5> HIDE DEF ins, sub, del, X
        <5> QED  BY <1>2, <4>1, SeqDef
      <4>3. \E x \in X : del = <<x>>  OBVIOUS
      <4>4. del \in Seq(X)
        <5> HIDE DEF del, X
        <5> QED  BY <4>3
      <4> QED  BY <4>2, <4>4
    <3> HIDE DEF ins, sub, del, X, E
    <3>2. /\ ins \o sub \in Seq(X) /\ Len(ins \o sub) = Len(ins) + Len(sub)
          /\ \A k \in 1..(Len(ins) + Len(sub)) : (ins \o sub)[k]
               = IF k <= Len(ins) THEN ins[k] ELSE sub[k - Len(ins)]
      BY <3>1, ConcatProperties
    <3> DEFINE both == ins \o sub
    <3>3. /\ Len(both \o del) = Len(both) + Len(del)
          /\ \A k \in 1..(Len(both) + Len(del)) : (both \o del)[k]
               = IF k <= Len(both) THEN both[k] ELSE del[k - Len(both)]
      <4> HIDE DEF both
      <4> QED  BY <3>1, <3>2, ConcatProperties DEF both
    <3>4. E = both \o del  BY <1>1, <2>1 DEF both
    <3>5. /\ Len(both) = 2 * L
          /\ \A k \in 1..(2 * L) : both[k] = IF k <= L THEN ins[k] ELSE sub[k - L]
      BY <1>2, <1>3, <1>4, <3>2
    <3> HIDE DEF both
    <3>6. /\ Len(E) = 2 * L + 1
          /\ \A k \in 1..(2 * L + 1) :
               E[k] = IF k <= 2 * L THEN both[k] ELSE del[k - 2 * L]
      BY <1>5, <3>3, <3>4, <3>5
    <3>7. \A k \in 1..L : E[k] = ins[k]  BY <1>2, <3>5, <3>6
    <3>8. \A k \in (L + 1)..(2 * L) : E[k] = sub[k - L]  BY <1>2, <3>5, <3>6
    <3>9. E[2 * L + 1] = del[1]  BY <1>2, <3>6
    <3> QED  BY <2>1, <3>6, <3>7, <3>8, <3>9
  <2>2. CASE ~CanRead(c)  BY <1>1, <1>3, <2>2
  <2> QED  BY <2>1, <2>2
<1> HIDE DEF ins, sub, del, E
<1>7. \A k \in 1..Len(E) :
        \/ k \in 1..L /\ E[k].by = "INS" /\ E[k].out = v[k]
        \/ /\ CanRead(c) /\ k \in (L + 1)..(2 * L)
           /\ E[k].by = "SUB" /\ E[k].out = v[k - L]
        \/ CanRead(c) /\ k = 2 * L + 1 /\ E[k].by = "DEL" /\ E[k].out = Eps
  <2> TAKE k \in 1..Len(E)
  <2>1. CASE k \in 1..L  BY <1>3, <1>6, <2>1
  <2>2. CASE k \in (L + 1)..(2 * L) /\ CanRead(c)
    <3>1. k - L \in 1..L  BY <1>2, <2>2
    <3> QED  BY <1>4, <1>6, <2>2, <3>1
  <2>3. CASE k = 2 * L + 1 /\ CanRead(c)  BY <1>5, <1>6, <2>3
  <2> QED  BY <1>2, <1>6, <2>1, <2>2, <2>3
<1>8. \A k \in 1..Len(E) : Fits(c, E[k]) /\ E[k].by # "FINAL"
  <2> TAKE k \in 1..Len(E)
  <2>1. k \in (L + 1)..(2 * L) => k - L \in 1..L  BY <1>2
  <2> QED  BY <1>2, <1>7, <2>1 DEF Fits
<1>9. \A k, m \in 1..Len(E) : SameEdit(E[k], E[m]) => k = m
  <2> SUFFICES ASSUME NEW k \in 1..Len(E), NEW m \in 1..Len(E), SameEdit(E[k], E[m])
               PROVE  k = m
    OBVIOUS
  <2>1. E[k].by = E[m].by /\ E[k].out = E[m].out  BY DEF SameEdit
  <2>2. CASE E[k].by = "INS"  BY <1>2, <1>7, <2>1, <2>2
  <2>3. CASE E[k].by = "SUB"
    <3>1. /\ k \in (L + 1)..(2 * L) /\ E[k].out = v[k - L]
          /\ m \in (L + 1)..(2 * L) /\ E[m].out = v[m - L]
      BY <1>7, <2>1, <2>3
    <3>2. k - L \in 1..L /\ m - L \in 1..L  BY <1>2, <3>1
    <3>3. k - L = m - L  BY <1>2, <2>1, <3>1, <3>2
    <3> QED  BY <1>2, <3>1, <3>3
  <2>4. CASE E[k].by = "DEL"  BY <1>7, <2>1, <2>4
  <2> QED  BY <1>7, <2>2, <2>3, <2>4
<1>10. EditEdges(c, E)  BY <1>8, <1>9 DEF EditEdges
<1> QED  BY <1>10 DEF E

(* The third loop adds absorptions only. *)
LEMMA NonBoldEdgesEdit ==
    ASSUME NEW c \in AllContexts, ~IsBold(c)
    PROVE  EditEdges(c, NonBoldEdges(c))
<1> DEFINE E == NonBoldEdges(c)
<1>1. \A k \in 1..Len(E) : E[k].by = "ABS"
  <2>1. E \in Seq(ContextArcs)  BY NonBoldEdgesGood DEF GoodEdges
  <2>2. PICK w : E = [k \in 1..Len(w) |-> Edge(AbsTarget(c, w[k]), w[k], Eps, "ABS")]
    BY DEF NonBoldEdges
  <2>3. DOMAIN E = 1..Len(E)  BY <2>1
  <2>4. DOMAIN E = 1..Len(w)  BY <2>2
  <2>5. \A k \in DOMAIN E : E[k].by = "ABS"  BY <2>2, <2>4 DEF Edge
  <2> QED  BY <2>3, <2>5
<1> HIDE DEF E
<1>2. EditEdges(c, E)  BY <1>1 DEF EditEdges, Fits, SameEdit
<1> QED  BY <1>2 DEF E

-----------------------------------------------------------------------------
(* The machine while it is built: its arcs are edits of their contexts, and *)
(* the lines are in the order of the arcs.                                  *)

(* The arcs of a context; a fresh one has not been visited by its loop. *)
ArcsOf(c, own, fresh) ==
    /\ \A k \in 1..Len(own) : Fits(c, own[k])
    /\ \A k, m \in 1..Len(own) : SameEdit(own[k], own[m]) => k = m
    /\ fresh => \A k \in 1..Len(own) : own[k].by = "FINAL"

EditInv == \A c \in Numbered : ArcsOf(c, arcs[lookup[c]], c \in Unvisited)

Earlier(s, k, t, m) == s < t \/ (s = t /\ k < m)

LinesApart ==
    \A n, m \in 1..Len(lines) :
        n < m => Earlier(lines[n].src, lines[n].arc, lines[m].src, lines[m].arc)

MachineInv == BInv /\ EditInv /\ LinesApart

(* A context that gets its number has its FINAL arc or none. *)
LEMMA AddContextEdit == BInv /\ EditInv /\ AddContext => EditInv'
<1> SUFFICES ASSUME BInv, EditInv, AddContext PROVE EditInv'  OBVIOUS
<1> USE BHere
<1> DEFINE n == Len(arcs) + 1
<1>1. PICK c \in pending :
        /\ lookup' = [x \in DOMAIN lookup \cup {c} |-> IF x = c THEN n ELSE lookup[x]]
        /\ arcs' = Append(arcs, Number(<<>>, FinalEdges(c)))
        /\ pending' = pending \ {c}
  BY DEF AddContext, NextState
<1>2. stage = "contexts" /\ stage' = stage /\ c \in AllContexts
  BY DEF AddContext, BInv, StageInv
<1> DEFINE new == Number(<<>>, FinalEdges(c))
<1>3. new = IF HasFinalArc(c)
              THEN <<[to |-> 0, in |-> Eps, out |-> Eps, by |-> "FINAL"]>>
              ELSE <<>>
  BY DEF Number, FinalEdges, Edge
<1>4. /\ Len(new) \in {0, 1}
      /\ \A k \in 1..Len(new) :
           new[k].by = "FINAL" /\ new[k].out = Eps /\ HasFinalArc(c)
  BY <1>3
<1>5. /\ Numbered' = Numbered \cup {c} /\ c \notin Numbered
      /\ \A d \in Numbered : lookup'[d] = lookup[d] /\ lookup[d] \in 1..Len(arcs)
      /\ lookup'[c] = n
  <2>1. Numbered' = Numbered \cup {c} /\ c \notin Numbered
    BY <1>1, <1>2 DEF Numbered
  <2>2. lookup \in [Numbered -> 1..Len(arcs)]  BY DEF BInv, TableInv
  <2> QED  BY <1>1, <2>1, <2>2
<1> HIDE DEF new
<1>6. arcs'[n] = new /\ \A m \in 1..Len(arcs) : arcs'[m] = arcs[m]
  <2>1. arcs \in Seq(Seq(ArcRecords))  BY DEF BInv, TableInv
  <2>2. arcs' = Append(arcs, new)  BY <1>1 DEF new
  <2> QED  BY <2>1, <2>2
<1>7. Numbered \subseteq Unvisited  BY <1>2 DEF Unvisited
<1> SUFFICES ASSUME NEW d \in Numbered'
             PROVE  ArcsOf(d, arcs'[lookup'[d]], d \in Unvisited')
  BY DEF EditInv, ArcsOf, Fits, CanRead, HasFinalArc, SameEdit, AllSharp
<1>8. CASE d = c
  <2>1. ArcsOf(c, new, TRUE)  BY <1>4 DEF ArcsOf, Fits
  <2> QED  BY <1>5, <1>6, <1>8, <2>1 DEF ArcsOf
<1>9. CASE d # c
  <2>1. d \in Numbered /\ d \in Unvisited  BY <1>5, <1>7, <1>9
  <2>2. ArcsOf(d, arcs[lookup[d]], TRUE)  BY <2>1 DEF EditInv
  <2>3. arcs'[lookup'[d]] = arcs[lookup[d]]  BY <1>5, <1>6, <2>1
  <2> QED  BY <2>2, <2>3 DEF ArcsOf
<1> QED  BY <1>8, <1>9

(* A visit adds edits to a context that had none. *)
LEMMA AddArcsEdit ==
    ASSUME BInv, EditInv, stage \in {"bold", "nonbold"}, NEW c \in pending,
           NEW edges, GoodEdges(c, edges), EditEdges(c, edges), AddArcs(c, edges)
    PROVE  EditInv'
<1> USE BHere
<1>1. Numbered = AllContexts /\ c \in AllContexts /\ c \in Unvisited
  BY DEF Numbered, Unvisited, BInv, StageInv
<1> DEFINE n   == lookup[c]
           new == Number(lookup, edges)
           old == arcs[n]
<1>2. edges \in Seq(ContextArcs) /\ \A k \in 1..Len(edges) : edges[k] \in ContextArcs
  <2>1. edges \in Seq(ContextArcs)  BY DEF GoodEdges
  <2> QED  BY <2>1, ElementOfSeq
<1>3. /\ arcs' = [arcs EXCEPT ![n] = @ \o new]
      /\ pending' = pending \ {c}
      /\ stage' = stage /\ lookup' = lookup
  <2>1. Resolvable(edges)  BY <1>1, <1>2 DEF Resolvable, ContextArcs
  <2> QED  BY <2>1 DEF AddArcs
<1>4. /\ lookup \in [AllContexts -> 1..Len(arcs)]
      /\ \A d, e \in AllContexts : lookup[d] = lookup[e] => d = e
      /\ arcs \in Seq(Seq(ArcRecords))
  BY <1>1 DEF BInv, TableInv
<1>5. n \in 1..Len(arcs) /\ old \in Seq(ArcRecords)  BY <1>1, <1>4
<1>6. /\ new \in Seq(ArcRecords) /\ Len(new) = Len(edges)
      /\ \A k \in 1..Len(new) : new[k].by = edges[k].by /\ new[k].out = edges[k].out
  <2>1. new \in Seq(ArcRecords)
    <3>1. GoodArcs(c, n, Len(arcs), new)  BY <1>1, <1>4, NumberedArcs
    <3> QED  BY <3>1 DEF GoodArcs
  <2>2. DOMAIN new = 1..Len(edges)  BY DEF Number
  <2>3. \A k \in 1..Len(edges) : new[k].by = edges[k].by /\ new[k].out = edges[k].out
    BY DEF Number, Edge
  <2> HIDE DEF new
  <2>4. Len(new) = Len(edges)  BY <1>2, <2>1, <2>2
  <2> QED  BY <2>1, <2>3, <2>4
<1> HIDE DEF n, new, old
<1> DEFINE own == old \o new
<1>7. /\ Len(own) = Len(old) + Len(new) /\ Len(old) \in Nat /\ Len(new) \in Nat
      /\ \A k \in 1..Len(own) :
           \/ k \in 1..Len(old) /\ own[k] = old[k]
           \/ k - Len(old) \in 1..Len(new) /\ own[k] = new[k - Len(old)]
  <2>1. /\ Len(own) = Len(old) + Len(new)
        /\ \A k \in 1..(Len(old) + Len(new)) :
             own[k] = IF k <= Len(old) THEN old[k] ELSE new[k - Len(old)]
    <3>1. old \in Seq(ArcRecords) /\ new \in Seq(ArcRecords)  BY <1>5, <1>6
    <3> QED  BY ONLY <3>1, ConcatProperties
  <2>2. Len(old) \in Nat /\ Len(new) \in Nat  BY <1>5, <1>6
  <2> HIDE DEF own
  <2> QED  BY <2>1, <2>2
<1>8. arcs'[n] = own /\ \A m \in 1..Len(arcs) : m # n => arcs'[m] = arcs[m]
  <2>1. arcs' = [arcs EXCEPT ![n] = own]  BY <1>3 DEF old
  <2>2. DOMAIN arcs = 1..Len(arcs)  BY <1>4
  <2> HIDE DEF own
  <2> QED  BY <1>5, <2>1, <2>2
<1> HIDE DEF own
<1>9. ArcsOf(c, old, TRUE)  BY <1>1 DEF EditInv, n, old
<1>10. /\ \A k \in 1..Len(new) : Fits(c, new[k]) /\ new[k].by # "FINAL"
       /\ \A k, m \in 1..Len(new) : SameEdit(new[k], new[m]) => k = m
  BY <1>6 DEF EditEdges, Fits, SameEdit
<1>11. ArcsOf(c, own, FALSE)
  <2>1. \A k \in 1..Len(own) : Fits(c, own[k])
    BY <1>7, <1>9, <1>10 DEF ArcsOf
  <2>2. ASSUME NEW k \in 1..Len(own), NEW m \in 1..Len(own), SameEdit(own[k], own[m])
        PROVE  k = m
    <3>1. own[k].by = own[m].by  BY <2>2 DEF SameEdit
    <3>2. CASE k \in 1..Len(old) /\ own[k] = old[k]
      <4>1. own[k].by = "FINAL"  BY <1>9, <3>2 DEF ArcsOf
      <4>2. m \in 1..Len(old) /\ own[m] = old[m]  BY <1>7, <1>10, <3>1, <4>1
      <4> QED  BY <1>9, <2>2, <3>2, <4>2 DEF ArcsOf
    <3>3. CASE k - Len(old) \in 1..Len(new) /\ own[k] = new[k - Len(old)]
      <4>1. own[k].by # "FINAL"  BY <1>10, <3>3
      <4>2. m - Len(old) \in 1..Len(new) /\ own[m] = new[m - Len(old)]
        BY <1>7, <1>9, <3>1, <4>1 DEF ArcsOf
      <4>3. k - Len(old) = m - Len(old)  BY <1>10, <2>2, <3>3, <4>2
      <4> QED  BY <1>7, <4>3
    <3> QED  BY <1>7, <3>2, <3>3
  <2> QED  BY <2>1, <2>2 DEF ArcsOf
<1>12. Numbered' = AllContexts /\ Unvisited' \subseteq Unvisited /\ c \notin Unvisited'
  <2>1. Numbered' = AllContexts  BY <1>3 DEF Numbered
  <2>2. stage = "bold" => IsBold(c)  BY DEF BInv, StageInv
  <2> QED  BY <1>1, <1>3, <2>1, <2>2 DEF Unvisited
<1>13. ASSUME NEW d \in AllContexts
       PROVE  ArcsOf(d, arcs'[lookup'[d]], d \in Unvisited')
  <2>1. CASE d = c  BY <1>3, <1>8, <1>11, <1>12, <2>1 DEF ArcsOf, n
  <2>2. CASE d # c
    <3>1. lookup[d] \in 1..Len(arcs) /\ lookup[d] # n  BY <1>1, <1>4, <2>2 DEF n
    <3>2. arcs'[lookup'[d]] = arcs[lookup[d]]  BY <1>3, <1>8, <3>1
    <3>3. ArcsOf(d, arcs[lookup[d]], d \in Unvisited)  BY <1>1 DEF EditInv
    <3> QED  BY <1>12, <3>2, <3>3 DEF ArcsOf
  <2> QED  BY <2>1, <2>2
<1> QED  BY <1>12, <1>13 DEF EditInv

(* The other steps give no arc to a context. *)
LEMMA QuietEdit ==
    ASSUME BInv, EditInv, UNCHANGED <<lookup, arcs>>,
           Numbered' = Numbered, Unvisited' \subseteq Unvisited
    PROVE  EditInv'
<1> SUFFICES ASSUME NEW c \in Numbered
             PROVE  ArcsOf(c, arcs[lookup[c]], c \in Unvisited')
  BY DEF EditInv
<1>1. ArcsOf(c, arcs[lookup[c]], c \in Unvisited)  BY DEF EditInv
<1> QED  BY <1>1 DEF ArcsOf

LEMMA NextEdit == BInv /\ EditInv /\ [Next]_vars => EditInv'
<1> SUFFICES ASSUME BInv, EditInv, [Next]_vars PROVE EditInv'  OBVIOUS
<1> USE BHere
<1>1. CASE AddContext  BY <1>1, AddContextEdit
<1>2. CASE SetInitial
  <2>1. stage = "contexts" /\ pending = {} /\ Numbered = AllContexts
    BY <1>2 DEF SetInitial, Numbered
  <2>2. stage' = "bold" /\ UNCHANGED <<lookup, arcs>>
    BY <1>2, <2>1, InitialContextListed DEF SetInitial
  <2>3. Numbered' = Numbered /\ Unvisited' \subseteq Unvisited
    BY <2>1, <2>2 DEF Numbered, Unvisited
  <2> QED  BY <2>2, <2>3, QuietEdit
<1>3. CASE AddBoldArcs
  <2>1. PICK c \in pending : AddArcs(c, BoldEdges(c)) /\ stage = "bold"
    BY <1>3 DEF AddBoldArcs
  <2>2. c \in AllContexts /\ IsBold(c)  BY <2>1 DEF BInv, StageInv
  <2> QED  BY <2>1, <2>2, BoldEdgesGood, BoldEdgesEdit, AddArcsEdit
<1>4. CASE StartNonBold
  <2>1. stage = "bold" /\ pending = {} /\ Numbered = AllContexts
    BY <1>4 DEF StartNonBold, Numbered
  <2>2. /\ stage' = "nonbold" /\ UNCHANGED <<lookup, arcs>>
        /\ pending' = {c \in AllContexts : ~IsBold(c)}
    BY <1>4, <2>1 DEF StartNonBold, NonBoldContexts, BoldContexts
  <2>3. Numbered' = Numbered /\ Unvisited' \subseteq Unvisited
    BY <2>1, <2>2 DEF Numbered, Unvisited
  <2> QED  BY <2>2, <2>3, QuietEdit
<1>5. CASE AddNonBoldArcs
  <2>1. PICK c \in pending : AddArcs(c, NonBoldEdges(c)) /\ stage = "nonbold"
    BY <1>5 DEF AddNonBoldArcs
  <2>2. c \in AllContexts /\ ~IsBold(c)  BY <2>1 DEF BInv, StageInv
  <2> QED  BY <2>1, <2>2, NonBoldEdgesGood, NonBoldEdgesEdit, AddArcsEdit
<1>6. CASE StartLabels \/ LabelArc \/ LabelState \/ Exit \/ UNCHANGED vars
  <2>1. /\ UNCHANGED <<lookup, arcs, pending>>
        /\ \/ stage' = stage
           \/ stage = "nonbold" /\ stage' = "label"
           \/ stage = "label" /\ stage' = "done"
    BY <1>6 DEF StartLabels, LabelArc, LabelState, Exit, vars
  <2>2. Numbered' = Numbered /\ Unvisited' \subseteq Unvisited
    BY <2>1 DEF Numbered, Unvisited
  <2> QED  BY <2>1, <2>2, QuietEdit
<1> QED  BY <1>1, <1>2, <1>3, <1>4, <1>5, <1>6 DEF Next

(* A new line is at the place the last loop has come to, which is after the *)
(* places of all the lines before.                                          *)
LEMMA NextLines == BInv /\ LinesApart /\ [Next]_vars => LinesApart'
<1> SUFFICES ASSUME BInv, LinesApart, [Next]_vars PROVE LinesApart'  OBVIOUS
<1>1. CASE lines' = lines  BY <1>1 DEF LinesApart, Earlier
<1>2. CASE LabelArc /\ lines' # lines
  <2>1. PICK act : lines' = Append(lines, [id |-> arcId, src |-> at[1],
                                           arc |-> at[2], act |-> act])
    BY <1>2 DEF LabelArc
  <2> DEFINE line == [id |-> arcId, src |-> at[1], arc |-> at[2], act |-> act]
             L    == Len(lines)
  <2>2. /\ L \in Nat /\ Len(lines') = L + 1
        /\ lines'[L + 1] = line
        /\ \A n \in 1..L : lines'[n] = lines[n]
    <3>1. lines \in Seq([id : Nat, src : Nat, arc : Nat, act : Actions])
      BY DEF BInv, LinesInv
    <3> HIDE DEF line
    <3>2. lines' = Append(lines, line)  BY <2>1 DEF line
    <3> QED  BY <3>1, <3>2
  <2>3. \A n \in 1..L : Earlier(lines[n].src, lines[n].arc, at[1], at[2])
    BY DEF BInv, OrderInv, Passed, Earlier
  <2>4. line.src = at[1] /\ line.arc = at[2]  OBVIOUS
  <2> HIDE DEF line
  <2> SUFFICES ASSUME NEW n \in 1..(L + 1), NEW m \in 1..(L + 1), n < m
               PROVE  Earlier(lines'[n].src, lines'[n].arc, lines'[m].src, lines'[m].arc)
    BY <2>2 DEF LinesApart, Earlier
  <2>5. n \in 1..L /\ lines'[n] = lines[n]  BY <2>2
  <2>6. CASE m = L + 1  BY <2>2, <2>3, <2>4, <2>5, <2>6
  <2>7. CASE m # L + 1
    <3>1. m \in 1..L /\ lines'[m] = lines[m]  BY <2>2, <2>7
    <3> QED  BY <2>5, <3>1 DEF LinesApart
  <2> QED  BY <2>6, <2>7
<1>3. lines' = lines \/ LabelArc
  BY DEF Next, AddContext, SetInitial, AddBoldArcs, StartNonBold, AddNonBoldArcs,
         AddArcs, StartLabels, LabelState, Exit, vars
<1> QED  BY <1>1, <1>2, <1>3

LEMMA InitMachineInv == Init => MachineInv
<1> SUFFICES ASSUME Init PROVE MachineInv  OBVIOUS
<1>1. Numbered = {} /\ lines = <<>>  BY DEF Init, Numbered
<1> QED  BY <1>1, InitBInv DEF MachineInv, EditInv, LinesApart

LEMMA NextMachineInv == MachineInv /\ [Next]_vars => MachineInv'
BY NextBInv, NextEdit, NextLines DEF MachineInv

-----------------------------------------------------------------------------
(* The finished machine: the lines are its arcs, in the order in which C++ *)
(* counts them.                                                            *)

Finished == MachineInv /\ stage = "done"

LineRecords == [id : Nat, src : Nat, arc : Nat, act : Actions]

LEMMA FinishedHere ==
    ASSUME Finished
    PROVE  /\ Numbered = AllContexts /\ DOMAIN lookup = AllContexts
           /\ Len(lines) \in Nat
           /\ \A n \in 1..Len(lines) :
                /\ lines[n].id = n - 1
                /\ lines[n].src \in 1..Len(arcs) /\ lines[n].src \in Nat
                /\ lines[n].arc \in 1..Len(arcs[lines[n].src]) /\ lines[n].arc \in Nat
                /\ lines[n].act = arcs[lines[n].src][lines[n].arc].by
                /\ <<lines[n].src, lines[n].arc>> \in ArcPlaces
           /\ \A p \in ArcPlaces :
                \E n \in 1..Len(lines) : p = <<lines[n].src, lines[n].arc>>
<1> USE BHere DEF Finished, MachineInv
<1>1. Numbered = AllContexts  BY DEF Numbered
<1>2. Len(lines) \in Nat  BY DEF BInv, LinesInv
<1>3. ASSUME NEW n \in 1..Len(lines)
      PROVE  /\ lines[n].id = n - 1
             /\ lines[n].src \in 1..Len(arcs) /\ lines[n].src \in Nat
             /\ lines[n].arc \in 1..Len(arcs[lines[n].src]) /\ lines[n].arc \in Nat
             /\ lines[n].act = arcs[lines[n].src][lines[n].arc].by
             /\ <<lines[n].src, lines[n].arc>> \in ArcPlaces
  <2>1. /\ lines[n].id = n - 1
        /\ lines[n].src \in 1..Len(arcs)
        /\ lines[n].arc \in 1..Len(arcs[lines[n].src])
        /\ lines[n].act = arcs[lines[n].src][lines[n].arc].by
    BY DEF BInv, LinesInv
  <2> QED  BY <2>1 DEF ArcPlaces
<1>4. ASSUME NEW p \in ArcPlaces
      PROVE  \E n \in 1..Len(lines) : p = <<lines[n].src, lines[n].arc>>
  <2>1. PICK s \in 1..Len(arcs) : p \in {s} \X (1..Len(arcs[s]))  BY DEF ArcPlaces
  <2>2. p = <<s, p[2]>> /\ p[2] \in 1..Len(arcs[s])  BY <2>1
  <2>3. Passed(at, s, p[2])
    <3>1. at[1] \in Nat /\ Len(arcs) \in Nat  BY DEF BInv, LinesInv
    <3> QED  BY <2>1, <3>1 DEF BInv, OrderInv, Passed
  <2>4. PICK n \in 1..Len(lines) : lines[n].src = s /\ lines[n].arc = p[2]
    BY <2>2, <2>3 DEF BInv, OrderInv
  <2> QED  BY <2>2, <2>4
<1> QED  BY <1>1, <1>2, <1>3, <1>4

(* The arc of a line has the number of the line. *)
LEMMA NumberOfLine ==
    ASSUME Finished, NEW n \in 1..Len(lines)
    PROVE  IdOf(lines[n].src, lines[n].arc) = n - 1
<1> USE FinishedHere
<1> DEFINE Place(j) == <<lines[j].src, lines[j].arc>>
           before == {p \in ArcPlaces : p[1] < lines[n].src \/
                                        (p[1] = lines[n].src /\ p[2] < lines[n].arc)}
           f == [j \in 1..(n - 1) |-> Place(j)]
<1>1. \A j \in 1..(n - 1) : j \in 1..Len(lines) /\ j < n  OBVIOUS
<1>2. \A j, m \in 1..Len(lines) :
        j < m => Earlier(lines[j].src, lines[j].arc, lines[m].src, lines[m].arc)
  BY DEF Finished, MachineInv, LinesApart
<1>3. f \in [1..(n - 1) -> before]
  <2>1. \A j \in 1..(n - 1) : Place(j) \in before  BY <1>1, <1>2 DEF Earlier
  <2> QED  BY <2>1
<1>4. ASSUME NEW j \in 1..(n - 1), NEW m \in 1..(n - 1), f[j] = f[m]
      PROVE  j = m
  <2>1. lines[j].src = lines[m].src /\ lines[j].arc = lines[m].arc  BY <1>4
  <2>2. /\ lines[j].src \in Nat /\ lines[j].arc \in Nat
        /\ j \in 1..Len(lines) /\ m \in 1..Len(lines)
    BY <1>1
  <2>3. ~(j < m) /\ ~(m < j)  BY <1>2, <2>1, <2>2 DEF Earlier
  <2> QED  BY <2>3
<1>5. ASSUME NEW p \in before
      PROVE  \E j \in 1..(n - 1) : f[j] = p
  <2>1. PICK j \in 1..Len(lines) : p = Place(j)  OBVIOUS
  <2>2. /\ lines[j].src \in Nat /\ lines[j].arc \in Nat
        /\ lines[n].src \in Nat /\ lines[n].arc \in Nat
        /\ Earlier(lines[j].src, lines[j].arc, lines[n].src, lines[n].arc)
    BY <2>1 DEF Earlier
  <2>3. ~(n < j)  BY <1>2, <2>2 DEF Earlier
  <2>4. n # j  BY <2>2 DEF Earlier
  <2>5. j \in 1..(n - 1)  BY <2>3, <2>4
  <2> QED  BY <2>1, <2>5
<1>6. IdOf(lines[n].src, lines[n].arc) = Cardinality(before)  BY DEF IdOf
<1> HIDE DEF f, before
<1>7. f \in Bijection(1..(n - 1), before)
  BY <1>3, <1>4, <1>5 DEF Bijection, Injection, Surjection, IsInjective
<1>8. IsFiniteSet(1..(n - 1)) /\ Cardinality(1..(n - 1)) = n - 1
  BY CountUpTo
<1>9. Cardinality(before) = n - 1
  BY <1>7, <1>8, FS_Bijection DEF ExistsBijection
<1> QED  BY <1>6, <1>9

(* There are as many arcs as lines. *)
LEMMA ArcsAreLines ==
    ASSUME Finished
    PROVE  /\ \A r \in Arcs : \E n \in 1..Len(lines) :
                r = [id |-> n - 1, src |-> lines[n].src, arc |-> lines[n].arc]
           /\ Cardinality(Arcs) = Len(lines)
<1> USE FinishedHere
<1> DEFINE Number1(n) == [id |-> n - 1, src |-> lines[n].src, arc |-> lines[n].arc]
           f == [n \in 1..Len(lines) |-> Number1(n)]
<1>1. ASSUME NEW r \in Arcs PROVE \E n \in 1..Len(lines) : r = Number1(n)
  <2>1. PICK p \in ArcPlaces : r = [id |-> IdOf(p[1], p[2]), src |-> p[1], arc |-> p[2]]
    BY DEF Arcs
  <2>2. PICK n \in 1..Len(lines) : p = <<lines[n].src, lines[n].arc>>  OBVIOUS
  <2>3. IdOf(p[1], p[2]) = n - 1  BY <2>2, NumberOfLine
  <2> QED  BY <2>1, <2>2, <2>3
<1>2. ASSUME NEW n \in 1..Len(lines) PROVE Number1(n) \in Arcs
  <2>1. <<lines[n].src, lines[n].arc>> \in ArcPlaces  OBVIOUS
  <2>2. IdOf(lines[n].src, lines[n].arc) = n - 1  BY NumberOfLine
  <2> DEFINE p == <<lines[n].src, lines[n].arc>>
  <2>3. Number1(n) = [id |-> IdOf(p[1], p[2]), src |-> p[1], arc |-> p[2]]  BY <2>2
  <2> QED  BY <2>1, <2>3 DEF Arcs
<1>3. f \in Bijection(1..Len(lines), Arcs)
  <2>1. f \in [1..Len(lines) -> Arcs]  BY <1>2
  <2>2. \A n, m \in 1..Len(lines) : f[n] = f[m] => n = m
    <3> SUFFICES ASSUME NEW n \in 1..Len(lines), NEW m \in 1..Len(lines), f[n] = f[m]
                 PROVE  n = m
      OBVIOUS
    <3>1. n - 1 = m - 1  OBVIOUS
    <3> QED  BY <3>1
  <2>3. \A r \in Arcs : \E n \in 1..Len(lines) : f[n] = r  BY <1>1
  <2> HIDE DEF f
  <2> QED  BY <2>1, <2>2, <2>3 DEF Bijection, Injection, Surjection, IsInjective
<1>4. Cardinality(Arcs) = Len(lines)
  <2>1. IsFiniteSet(1..Len(lines)) /\ Cardinality(1..Len(lines)) = Len(lines)
    BY CountUpTo
  <2> QED  BY <1>3, <2>1, FS_Bijection DEF ExistsBijection
<1> QED  BY <1>1, <1>4

-----------------------------------------------------------------------------
(* The five fields of a line tell its arc from all others. *)

ArcOf(line) == arcs[line.src][line.arc]

(* featurize.py sees the context of the state and an edit possible there. *)
LEMMA LineEdit ==
    ASSUME Finished, NEW n \in 1..Len(lines)
    PROVE  LET c == ContextOf(lines[n].src)
           IN  /\ c \in AllContexts /\ lookup[c] = lines[n].src
               /\ Fits(c, ArcOf(lines[n]))
               /\ lines[n].act = ArcOf(lines[n]).by /\ lines[n].act \in Actions
<1> USE FinishedHere
<1>1. lines[n].src \in 1..Len(arcs)  OBVIOUS
<1>2. \E c \in DOMAIN lookup : lookup[c] = lines[n].src
  BY <1>1 DEF Finished, MachineInv, BInv, TableInv
<1> DEFINE c == ContextOf(lines[n].src)
<1>3. c \in AllContexts /\ lookup[c] = lines[n].src  BY <1>2 DEF ContextOf
<1> HIDE DEF c
<1>4. ArcsOf(c, arcs[lookup[c]], c \in Unvisited)
  BY <1>3 DEF Finished, MachineInv, EditInv
<1>5. Fits(c, ArcOf(lines[n]))  BY <1>3, <1>4 DEF ArcsOf, ArcOf
<1>6. lines[n].act = ArcOf(lines[n]).by  BY DEF ArcOf
<1>7. lines[n].act \in Actions
  <2>1. lines \in Seq(LineRecords)
    BY DEF Finished, MachineInv, BInv, LinesInv, LineRecords
  <2>2. lines[n] \in LineRecords  BY <2>1, ElementOfSeq
  <2> QED  BY <2>2 DEF LineRecords
<1> QED  BY <1>3, <1>5, <1>6, <1>7 DEF c

(* A sequence is its first element and the rest. *)
LEMMA HeadAndTail ==
    ASSUME NEW S, NEW s \in Seq(S), NEW t \in Seq(S), s # <<>>, t # <<>>,
           s[1] = t[1], Tail(s) = Tail(t)
    PROVE  s = t
<1>1. /\ Len(Tail(s)) = Len(s) - 1 /\ Len(Tail(t)) = Len(t) - 1
      /\ Len(s) \in Nat /\ Len(t) \in Nat
  OBVIOUS
<1>2. Len(s) = Len(t)
  <2>1. Len(Tail(s)) = Len(Tail(t))  BY Zenon
  <2>2. Len(s) - 1 = Len(t) - 1  BY <1>1, <2>1, Zenon
  <2>3. \A p, q \in Nat : p - 1 = q - 1 => p = q  OBVIOUS
  <2> QED  BY <1>1, <2>2, <2>3, Zenon
<1>3. ASSUME NEW k \in 1..Len(s) PROVE s[k] = t[k]
  <2>1. CASE k = 1  BY <2>1
  <2>2. CASE k # 1
    <3>1. k - 1 \in 1..Len(Tail(s)) /\ k - 1 \in 1..Len(Tail(t))
      BY <1>1, <1>2, <2>2
    <3>2. s[k] = Tail(s)[k - 1] /\ t[k] = Tail(t)[k - 1]  BY <3>1
    <3> QED  BY <3>2
  <2> QED  BY <2>1, <2>2
<1> QED  BY <1>2, <1>3, SeqEqual

(* Every edit but an insertion is at a context with something to the right, *)
(* a boundary symbol when it is the end of the word.                        *)
LEMMA NothingButInsertions ==
    ASSUME NEW c \in AllContexts, NEW e, Fits(c, e), e.by \in {"SUB", "DEL", "FINAL"}
    PROVE  /\ c.urc \in Seq(Upper) /\ c.urc # <<>> /\ c.urc[1] # Eps
           /\ c.urc[1] = Sharp <=> e.by = "FINAL"
<1>1. c.urc \in Seq(Upper)  BY AllContextsComplete, ContextWindows
<1>2. c.urc # <<>> /\ (c.urc[1] = Sharp <=> e.by = "FINAL")
  <2>1. CASE e.by \in {"SUB", "DEL"}  BY <2>1 DEF Fits, CanRead
  <2>2. CASE e.by = "FINAL"
    <3>1. Len(c.urc) = UrcMax /\ AllSharp(c.urc)  BY <2>2 DEF Fits, HasFinalArc
    <3>2. 1 \in 1..Len(c.urc)  BY <3>1, MaxAssumption, TopologyAssumption
    <3> QED  BY <1>1, <2>2, <3>1, <3>2 DEF AllSharp
  <2> QED  BY <2>1, <2>2
<1>3. c.urc[1] \in Upper  BY <1>1, <1>2
<1> QED  BY <1>1, <1>2, <1>3, EpsAssumption DEF Upper

LEMMA FieldsApart ==
    ASSUME Finished, NEW n \in 1..Len(lines), NEW m \in 1..Len(lines),
           lines[n].act # "ABS", lines[m].act # "ABS",
           Fields(lines[n]) = Fields(lines[m])
    PROVE  n = m
<1> USE FinishedHere
<1> DEFINE c == ContextOf(lines[n].src)
           d == ContextOf(lines[m].src)
           e == ArcOf(lines[n])
           f == ArcOf(lines[m])
<1>1. /\ c \in AllContexts /\ lookup[c] = lines[n].src /\ Fits(c, e)
      /\ lines[n].act = e.by
      /\ e.by \in {"INS", "SUB", "DEL", "FINAL"}
  BY LineEdit DEF Actions
<1>2. /\ d \in AllContexts /\ lookup[d] = lines[m].src /\ Fits(d, f)
      /\ lines[m].act = f.by
      /\ f.by \in {"INS", "SUB", "DEL", "FINAL"}
  BY LineEdit DEF Actions
<1> DEFINE F(u, g) == IF g.by = "INS"
                        THEN <<Eps, g.out, u.ulc, u.urc, u.llc>>
                        ELSE <<u.urc[1], g.out, u.ulc, Tail(u.urc), u.llc>>
<1>3. Fields(lines[n]) = F(c, e)  BY <1>1 DEF Fields, ArcOf
<1>4. Fields(lines[m]) = F(d, f)  BY <1>2 DEF Fields, ArcOf
<1> HIDE DEF c, d, e, f
<1>5. /\ e.out = f.out /\ c.ulc = d.ulc /\ c.llc = d.llc
      /\ (IF e.by = "INS" THEN Eps ELSE c.urc[1])
           = (IF f.by = "INS" THEN Eps ELSE d.urc[1])
      /\ (IF e.by = "INS" THEN c.urc ELSE Tail(c.urc))
           = (IF f.by = "INS" THEN d.urc ELSE Tail(d.urc))
  <2>1. \A u, g : /\ F(u, g)[1] = IF g.by = "INS" THEN Eps ELSE u.urc[1]
                  /\ F(u, g)[2] = g.out
                  /\ F(u, g)[3] = u.ulc
                  /\ F(u, g)[4] = IF g.by = "INS" THEN u.urc ELSE Tail(u.urc)
                  /\ F(u, g)[5] = u.llc
    OBVIOUS
  <2>2. F(c, e) = F(d, f)  BY <1>3, <1>4
  <2> HIDE DEF F
  <2> QED  BY <2>1, <2>2
<1>6. e.by = "INS" <=> f.by = "INS"
  BY <1>1, <1>2, <1>5, NothingButInsertions
<1>7. c.urc = d.urc
  <2>1. CASE e.by = "INS"  BY <1>5, <1>6, <2>1
  <2>2. CASE e.by # "INS"
    <3>1. e.by \in {"SUB", "DEL", "FINAL"} /\ f.by \in {"SUB", "DEL", "FINAL"}
      BY <1>1, <1>2, <1>6, <2>2
    <3>2. /\ c.urc \in Seq(Upper) /\ c.urc # <<>>
          /\ d.urc \in Seq(Upper) /\ d.urc # <<>>
      BY <1>1, <1>2, <3>1, NothingButInsertions
    <3>3. c.urc[1] = d.urc[1] /\ Tail(c.urc) = Tail(d.urc)  BY <1>5, <1>6, <2>2
    <3> QED  BY <3>2, <3>3, HeadAndTail
  <2> QED  BY <2>1, <2>2
<1>8. c = d
  <2>1. c = [ulc |-> c.ulc, urc |-> c.urc, llc |-> c.llc]
    BY <1>1, AllContextsComplete, ContextWindows
  <2>2. d = [ulc |-> d.ulc, urc |-> d.urc, llc |-> d.llc]
    BY <1>2, AllContextsComplete, ContextWindows
  <2> QED  BY <1>5, <1>7, <2>1, <2>2
<1>9. e.by = f.by
  <2>1. Eps \notin V2  BY EpsAssumption
  <2>2. CASE e.by = "INS"  BY <1>6, <2>2
  <2>3. CASE e.by = "SUB"
    <3>1. f.out \in V2 /\ f.by # "INS"  BY <1>1, <1>5, <1>6, <2>3 DEF Fits
    <3> QED  BY <1>2, <2>1, <2>3, <3>1 DEF Fits
  <2>4. CASE e.by = "DEL" \/ e.by = "FINAL"
    <3>1. f.out \notin V2 /\ f.by # "INS"  BY <1>1, <1>5, <1>6, <2>1, <2>4 DEF Fits
    <3>2. f.by \in {"DEL", "FINAL"}  BY <1>2, <3>1 DEF Fits
    <3>3. e.by = "FINAL" <=> f.by = "FINAL"
      BY <1>1, <1>2, <1>8, <2>4, <3>2, NothingButInsertions
    <3> QED  BY <2>4, <3>2, <3>3
  <2> QED  BY <1>1, <2>2, <2>3, <2>4
<1>10. lines[n].src = lines[m].src  BY <1>1, <1>2, <1>8
<1>11. lines[n].arc = lines[m].arc
  <2>1. ArcsOf(c, arcs[lookup[c]], c \in Unvisited)
    BY <1>1 DEF Finished, MachineInv, EditInv
  <2>2. e = arcs[lookup[c]][lines[n].arc] /\ f = arcs[lookup[c]][lines[m].arc]
    BY <1>1, <1>10 DEF e, f, ArcOf
  <2>3. SameEdit(e, f)  BY <1>1, <1>5, <1>9 DEF SameEdit
  <2>4. /\ lines[n].arc \in 1..Len(arcs[lookup[c]])
        /\ lines[m].arc \in 1..Len(arcs[lookup[c]])
    BY <1>1, <1>10
  <2> QED  BY <2>1, <2>2, <2>3, <2>4 DEF ArcsOf
<1>12. ~(n < m) /\ ~(m < n)
  <2>1. /\ lines[n].src \in Nat /\ lines[n].arc \in Nat  OBVIOUS
  <2> QED  BY <1>10, <1>11, <2>1 DEF Finished, MachineInv, LinesApart, Earlier
<1> QED  BY <1>12

-----------------------------------------------------------------------------
(* features_seen.  Its numbers are 1, 2, ... without a gap, one per template. *)

IsTable(table) ==
    /\ IsFiniteSet(DOMAIN table)
    /\ table \in [DOMAIN table -> 1..Cardinality(DOMAIN table)]
    /\ \A f, g \in DOMAIN table : table[f] = table[g] => f = g

(* The smallest of some indices. *)
LEMMA LeastMember ==
    ASSUME NEW n \in Nat, NEW S \in SUBSET (1..n), S # {}
    PROVE  \E k \in S : \A m \in S : k <= m
<1> DEFINE T == {n - k : k \in S}
<1>1. T \in SUBSET (0..n) /\ T # {}
  <2>1. \A k \in S : n - k \in 0..n /\ n - k \in T  OBVIOUS
  <2> QED  BY <2>1
<1>2. Max(T) \in T /\ \A x \in T : x <= Max(T)
  <2> HIDE DEF T
  <2> QED  BY <1>1, MaxMember
<1>3. PICK k \in S : Max(T) = n - k  BY <1>2
<1>4. ASSUME NEW m \in S PROVE k <= m
  <2>1. n - m <= n - k
    <3>1. n - m \in T  OBVIOUS
    <3> QED  BY <1>2, <1>3, <3>1
  <2>2. k \in Nat /\ m \in Nat  OBVIOUS
  <2> QED  BY <2>1, <2>2
<1> QED  BY <1>4

(* After a line the table is one again, knows the templates of the line, and *)
(* has kept the numbers it had.                                              *)
LEMMA NumberTemplatesExtends ==
    ASSUME NEW table, IsTable(table), NEW feats, NEW n \in Nat,
           Len(feats) = n
    PROVE  LET new == NumberTemplates(table, feats)
           IN  /\ IsTable(new)
               /\ \A k \in 1..n : feats[k] \in DOMAIN new
               /\ \A f \in DOMAIN table : f \in DOMAIN new /\ new[f] = table[f]
<1> DEFINE old == DOMAIN table
           UpTo(k) == {feats[m] : m \in 1..k} \ old
           First(f) == CHOOSE k \in 1..Len(feats) :
                           feats[k] = f /\ f \notin UpTo(k - 1)
           new == NumberTemplates(table, feats)
           C == Cardinality(old)
           R(f) == Cardinality(UpTo(First(f)))
<1>1. new = [f \in old \cup UpTo(n) |-> IF f \in old THEN table[f] ELSE C + R(f)]
  BY DEF NumberTemplates
<1>2. \A k \in Nat : UpTo(k + 1) = UpTo(k) \cup ({feats[k + 1]} \ old)
  <2> TAKE k \in Nat
  <2>1. 1..(k + 1) = 1..k \cup {k + 1}  OBVIOUS
  <2> QED  BY <2>1
<1>3. \A k, m \in Nat : k <= m => UpTo(k) \subseteq UpTo(m)
  <2>1. \A k, m \in Nat : k <= m => 1..k \subseteq 1..m  OBVIOUS
  <2> QED  BY <2>1
<1>4. ASSUME NEW f \in UpTo(n)
      PROVE  /\ First(f) \in 1..n /\ feats[First(f)] = f
             /\ f \notin UpTo(First(f) - 1)
             /\ f \notin old
  <2> DEFINE S == {k \in 1..n : feats[k] = f}
  <2>1. S \in SUBSET (1..n) /\ S # {}  OBVIOUS
  <2>2. PICK k \in S : \A m \in S : k <= m
    <3> HIDE DEF S
    <3> QED  BY <2>1, LeastMember
  <2>3. f \notin UpTo(k - 1)
    <3>1. \A m \in 1..(k - 1) : m \in 1..n /\ m < k /\ ~(k <= m)  OBVIOUS
    <3> QED  BY <2>2, <3>1
  <2>4. \E j \in 1..Len(feats) : feats[j] = f /\ f \notin UpTo(j - 1)
    BY <2>2, <2>3
  <2>5. First(f) \in 1..Len(feats) /\ feats[First(f)] = f /\ f \notin UpTo(First(f) - 1)
    <3> HIDE DEF UpTo
    <3> QED  BY <2>4
  <2> QED  BY <2>5
<1>5. IsFiniteSet(UpTo(n)) /\ \A k \in 0..n : IsFiniteSet(UpTo(k))
  <2> DEFINE g == [k \in 1..n |-> feats[k]]
             X == {feats[m] : m \in 1..n}
  <2>1. g \in Surjection(1..n, X)
    <3>1. g \in [1..n -> X] /\ \A x \in X : \E k \in 1..n : g[k] = x  OBVIOUS
    <3> HIDE DEF g, X
    <3> QED  BY <3>1 DEF Surjection
  <2>2. IsFiniteSet(X)
    <3> HIDE DEF g, X
    <3> QED  BY <2>1, CountUpTo, FS_Surjection
  <2>3. IsFiniteSet(UpTo(n))
    <3>1. UpTo(n) \in SUBSET X  OBVIOUS
    <3> HIDE DEF UpTo, X
    <3> QED  BY <2>2, <3>1, FS_Subset
  <2>4. \A k \in 0..n : UpTo(k) \in SUBSET UpTo(n)  BY <1>3
  <2> HIDE DEF UpTo
  <2> QED  BY <2>3, <2>4, FS_Subset
<1> HIDE DEF UpTo, First, new
<1>6. /\ IsFiniteSet(old) /\ C \in Nat
      /\ table \in [old -> 1..C]
      /\ \A f, g \in old : table[f] = table[g] => f = g
  BY FS_CardinalityType DEF IsTable
<1>7. ASSUME NEW f \in UpTo(n), NEW g \in UpTo(n), First(f) < First(g)
      PROVE  R(f) < R(g)
  <2>1. First(f) \in 1..n /\ First(g) \in 1..n  BY <1>4
  <2> DEFINE k == First(g) - 1
  <2>2. k \in Nat /\ First(g) = k + 1 /\ First(f) <= k /\ First(f) \in Nat
        /\ k \in 0..n /\ First(f) \in 0..n
    BY <1>7, <2>1
  <2>3. UpTo(First(f)) \in SUBSET UpTo(k)  BY <1>3, <2>2
  <2>4. R(f) <= Cardinality(UpTo(k))  BY <1>5, <2>2, <2>3, FS_Subset
  <2>5. feats[k + 1] = g /\ g \notin old /\ g \notin UpTo(k)  BY <1>4, <2>2
  <2> HIDE DEF k
  <2>6. UpTo(First(g)) = UpTo(k) \cup {g}
    <3>1. UpTo(k + 1) = UpTo(k) \cup ({g} \ old)  BY <1>2, <2>2, <2>5
    <3>2. {g} \ old = {g}  BY <2>5
    <3> QED  BY <2>2, <3>1, <3>2
  <2>7. R(g) = Cardinality(UpTo(k)) + 1  BY <1>5, <2>2, <2>5, <2>6, FS_AddElement
  <2>8. R(f) \in Nat /\ Cardinality(UpTo(k)) \in Nat
    BY <1>5, <2>2, FS_CardinalityType
  <2> QED  BY <2>4, <2>7, <2>8
<1>8. ASSUME NEW f \in UpTo(n)
      PROVE  R(f) \in 1..Cardinality(UpTo(n))
  <2>1. First(f) \in 1..n /\ First(f) \in 0..n /\ First(f) <= n /\ First(f) \in Nat
    BY <1>4
  <2>2. UpTo(First(f)) \in SUBSET UpTo(n)  BY <1>3, <2>1
  <2>3. R(f) <= Cardinality(UpTo(n))  BY <1>5, <2>2, FS_Subset
  <2>4. f \in UpTo(First(f))  BY <1>4, <2>1 DEF UpTo
  <2>5. R(f) \in Nat /\ R(f) # 0  BY <1>5, <2>1, <2>4, FS_CardinalityType, FS_EmptySet
  <2>6. Cardinality(UpTo(n)) \in Nat  BY <1>5, FS_CardinalityType
  <2> QED  BY <2>3, <2>5, <2>6
<1>9. /\ IsFiniteSet(DOMAIN new) /\ DOMAIN new = old \cup UpTo(n)
      /\ Cardinality(DOMAIN new) = C + Cardinality(UpTo(n))
      /\ Cardinality(UpTo(n)) \in Nat
  <2>1. DOMAIN new = old \cup UpTo(n)  BY <1>1
  <2>2. old \cap UpTo(n) = {}  BY <1>4
  <2>3. Cardinality(old \cap UpTo(n)) = 0  BY <2>2, FS_EmptySet
  <2>4. IsFiniteSet(old \cup UpTo(n))  BY <1>5, <1>6, FS_Union
  <2>5. Cardinality(old \cup UpTo(n))
          = C + Cardinality(UpTo(n)) - Cardinality(old \cap UpTo(n))
    BY <1>5, <1>6, FS_Union
  <2>6. Cardinality(UpTo(n)) \in Nat  BY <1>5, FS_CardinalityType
  <2> QED  BY <1>6, <2>1, <2>3, <2>4, <2>5, <2>6
<1>10. \A f \in DOMAIN new :
         /\ f \in old => new[f] = table[f] /\ new[f] \in 1..C
         /\ f \notin old => /\ f \in UpTo(n) /\ new[f] = C + R(f)
                            /\ R(f) \in 1..Cardinality(UpTo(n))
  BY <1>1, <1>6, <1>8, <1>9
<1> HIDE DEF R, C
<1>11. new \in [DOMAIN new -> 1..Cardinality(DOMAIN new)]
  <2>1. \A f \in DOMAIN new : new[f] \in 1..Cardinality(DOMAIN new)
    <3> TAKE f \in DOMAIN new
    <3>1. CASE f \in old  BY <1>6, <1>9, <1>10, <3>1
    <3>2. CASE f \notin old  BY <1>6, <1>9, <1>10, <3>2
    <3> QED  BY <3>1, <3>2
  <2> QED  BY <1>1, <2>1
<1>12. ASSUME NEW f \in DOMAIN new, NEW g \in DOMAIN new, new[f] = new[g]
       PROVE  f = g
  <2>1. CASE f \in old /\ g \in old  BY <1>6, <1>10, <1>12, <2>1
  <2>2. CASE f \in old /\ g \notin old  BY <1>6, <1>9, <1>10, <1>12, <2>2
  <2>3. CASE f \notin old /\ g \in old  BY <1>6, <1>9, <1>10, <1>12, <2>3
  <2>4. CASE f \notin old /\ g \notin old
    <3>1. /\ f \in UpTo(n) /\ g \in UpTo(n)
          /\ C + R(f) = C + R(g) /\ R(f) \in Nat /\ R(g) \in Nat
      BY <1>9, <1>10, <1>12, <2>4
    <3>2. R(f) = R(g)  BY <1>6, <3>1
    <3>3. /\ First(f) \in Nat /\ First(g) \in Nat
          /\ feats[First(f)] = f /\ feats[First(g)] = g
      BY <1>4, <3>1
    <3>4. First(f) = First(g)  BY <1>7, <3>1, <3>2, <3>3
    <3> QED  BY <3>3, <3>4
  <2> QED  BY <2>1, <2>2, <2>3, <2>4
<1>13. IsTable(new)  BY <1>9, <1>11, <1>12 DEF IsTable
<1>14. \A k \in 1..n : feats[k] \in DOMAIN new  BY <1>9 DEF UpTo
<1>15. \A f \in old : f \in DOMAIN new /\ new[f] = table[f]  BY <1>9, <1>10
<1> QED  BY <1>13, <1>14, <1>15 DEF new

-----------------------------------------------------------------------------
(* The inductive invariant of the pipeline: every printed line has the      *)
(* numbers of the templates of its arc, and what FeatureReader has stored   *)
(* are the printed features, position by position.                          *)

(* The n-th printed line has the numbers of the templates of the n-th line. *)
Printed(n) ==
    LET feats == featLines[n].feats
        t(k) == Templates(lines[n])[k]
    IN  IF lines[n].act = "ABS" THEN feats = <<0>>
        ELSE /\ \A k \in 1..Len(Kept) : t(k) \in DOMAIN seen
             /\ feats = [k \in 1..Len(Kept) |-> seen[t(k)]]

PrintedInv ==
    /\ stage # "done" => featLines = <<>>
    /\ featLines \in Seq([id : Nat, feats : Seq(Nat)])
    /\ Len(featLines) <= Len(lines)
    /\ \A n \in 1..Len(featLines) : Printed(n)

ReadInv ==
    /\ linesRead \in 0..Len(featLines)
    /\ linesRead > 0 \/ Loaded => stage = "done" /\ Len(featLines) = Len(lines)
    /\ Loaded => linesRead = Len(featLines) /\ numFeatures = featureMax + 1
    /\ numFeatures \in Nat /\ featureMax \in Nat
    /\ features \in Seq(Seq(Nat)) /\ Len(features) = linesRead
    /\ \A n \in 1..linesRead : features[n] = featLines[n].feats
    /\ \A n \in 1..linesRead : \A k \in 1..Len(features[n]) :
         features[n][k] <= featureMax

FeatInv == MachineInv /\ IsTable(seen) /\ PrintedInv /\ ReadInv

LEMMA InitFeatInv == FeatInit => FeatInv
<1> SUFFICES ASSUME FeatInit PROVE FeatInv  OBVIOUS
<1>1. MachineInv  BY InitMachineInv DEF FeatInit
<1>2. IsTable(seen)
  <2>1. DOMAIN seen = {}  BY DEF FeatInit
  <2>2. seen = [f \in DOMAIN seen |-> seen[f]]  BY DEF FeatInit
  <2> QED  BY <2>1, <2>2, FS_EmptySet DEF IsTable
<1>3. Len(lines) \in Nat  BY <1>1 DEF MachineInv, BInv, LinesInv
<1>4. PrintedInv  BY <1>3 DEF FeatInit, PrintedInv
<1>5. ReadInv  BY DEF FeatInit, ReadInv, Loaded
<1> QED  BY <1>1, <1>2, <1>4, <1>5 DEF FeatInv

(* A printed line stays right while the table grows. *)
LEMMA PrintedKept ==
    ASSUME UNCHANGED <<lookup, arcs, lines>>, NEW n, Printed(n),
           featLines'[n] = featLines[n],
           \A f \in DOMAIN seen : f \in DOMAIN seen' /\ seen'[f] = seen[f]
    PROVE  Printed(n)'
<1> DEFINE t(k) == Templates(lines[n])[k]
<1>1. Templates(lines[n])' = Templates(lines[n])
  BY DEF Templates, Fields, ContextOf
<1>2. \A k : t(k)' = t(k)  BY <1>1
<1> HIDE DEF t
<1>3. CASE lines[n].act = "ABS"  BY <1>3 DEF Printed
<1>4. CASE lines[n].act # "ABS"
  <2>1. /\ \A k \in 1..Len(Kept) : t(k) \in DOMAIN seen
        /\ featLines[n].feats = [k \in 1..Len(Kept) |-> seen[t(k)]]
    BY <1>4 DEF Printed, t
  <2>2. /\ \A k \in 1..Len(Kept) : t(k) \in DOMAIN seen'
        /\ featLines[n].feats = [k \in 1..Len(Kept) |-> seen'[t(k)]]
    BY <2>1
  <2> QED  BY <1>1, <1>4, <2>2 DEF Printed, t
<1> QED  BY <1>3, <1>4

(* While the script runs nothing is read or printed; afterwards it does not *)
(* touch the machine any more.                                              *)
LEMMA BuildStep == FeatInv /\ [Next]_vars /\ UNCHANGED featVars => FeatInv'
<1> SUFFICES ASSUME FeatInv, [Next]_vars, UNCHANGED featVars PROVE FeatInv'
  OBVIOUS
<1> USE DEF FeatInv
<1>1. MachineInv'  BY NextMachineInv
<1>2. UNCHANGED <<featLines, seen, linesRead, featureMax, features, numFeatures>>
  BY DEF featVars, readVars
<1>3. IsTable(seen)'  BY <1>2 DEF IsTable
<1>4. CASE stage = "done"
  <2>1. UNCHANGED vars
    BY <1>4 DEF Next, AddContext, SetInitial, AddBoldArcs, StartNonBold,
                AddNonBoldArcs, StartLabels, LabelArc, LabelState, Exit
  <2>2. UNCHANGED <<lookup, arcs, lines, stage>>  BY <2>1 DEF vars
  <2>3. \A n \in 1..Len(featLines) : Printed(n)'
    BY <1>2, <2>2, PrintedKept DEF PrintedInv
  <2>4. PrintedInv'  BY <1>2, <2>2, <2>3 DEF PrintedInv
  <2>5. ReadInv'  BY <1>2, <2>2 DEF ReadInv, Loaded
  <2> QED  BY <1>1, <1>3, <2>4, <2>5
<1>5. CASE stage # "done"
  <2>1. featLines = <<>> /\ linesRead = 0 /\ ~Loaded
    BY <1>5 DEF PrintedInv, ReadInv
  <2>2. Len(lines') \in Nat  BY <1>1 DEF MachineInv, BInv, LinesInv
  <2>3. PrintedInv'  BY <1>2, <2>1, <2>2 DEF PrintedInv
  <2>4. ReadInv'  BY <1>2, <2>1 DEF ReadInv, Loaded
  <2> QED  BY <1>1, <1>3, <2>3, <2>4
<1> QED  BY <1>4, <1>5

(* The machine's invariant is kept by a step that leaves the script alone. *)
LEMMA MachineStands == MachineInv /\ UNCHANGED vars => MachineInv'
BY NextMachineInv

(* A printed line has the numbers of the templates of its arc, and no number *)
(* of an earlier line changes.                                               *)
LEMMA FeaturizeLineStep == FeatInv /\ FeaturizeLine => FeatInv'
<1> SUFFICES ASSUME FeatInv, FeaturizeLine PROVE FeatInv'  OBVIOUS
<1> USE DEF FeatInv
<1> PICK L : L = Len(featLines)  OBVIOUS
<1>1. /\ stage = "done" /\ L < Len(lines) /\ UNCHANGED <<vars, readVars>>
      /\ L \in Nat /\ Len(lines) \in Nat
      /\ featLines \in Seq([id : Nat, feats : Seq(Nat)])
  BY DEF FeaturizeLine, PrintedInv, MachineInv, BInv, LinesInv
<1>2. UNCHANGED <<lookup, arcs, lines, stage>>
      /\ UNCHANGED <<linesRead, featureMax, features, numFeatures>>
  BY <1>1 DEF vars, readVars
<1>3. MachineInv'  BY <1>1, MachineStands
<1>4. linesRead = 0 /\ ~Loaded  BY <1>1 DEF ReadInv
<1> DEFINE line == lines[L + 1]
           t == Templates(line)
<1>5. line.id \in Nat
  <2>1. \A k \in 1..Len(lines) : lines[k].id = k - 1
    BY DEF MachineInv, BInv, LinesInv
  <2>2. L + 1 \in 1..Len(lines)  BY <1>1
  <2> HIDE DEF FeatInv
  <2>3. lines[L + 1].id = (L + 1) - 1  BY <2>1, <2>2
  <2> QED  BY <1>1, <2>3
<1>6. Len(Kept) = 14 /\ Len(t) = 14
  <2>1. Len(Kept) = 14  BY DEF Kept
  <2>2. t = [k \in 1..14 |-> [p \in 1..5 |-> IF p \in Kept[k] THEN <<Fields(line)[p]>>
                                            ELSE <<Nine>>]]
    BY <2>1 DEF Templates
  <2> HIDE DEF line
  <2> QED  BY <2>1, <2>2
<1>7. Templates(lines[L + 1])' = t  BY <1>2 DEF Templates, Fields, ContextOf
<1>8. \E feats \in Seq(Nat) :
        /\ featLines' = Append(featLines, [id |-> line.id, feats |-> feats])
        /\ IsTable(seen')
        /\ \A f \in DOMAIN seen : f \in DOMAIN seen' /\ seen'[f] = seen[f]
        /\ IF line.act = "ABS" THEN feats = <<0>>
           ELSE /\ \A k \in 1..14 : t[k] \in DOMAIN seen'
                /\ feats = [k \in 1..14 |-> seen'[t[k]]]
  <2>1. CASE line.act = "ABS"
    <3>1. featLines' = Append(featLines, [id |-> line.id, feats |-> <<0>>])
          /\ seen' = seen
      BY <2>1 DEF FeaturizeLine
    <3>2. <<0>> \in Seq(Nat)  OBVIOUS
    <3> QED  BY <2>1, <3>1, <3>2
  <2>2. CASE line.act # "ABS"
    <3> DEFINE feats == [k \in 1..14 |-> seen'[t[k]]]
    <3>1. /\ seen' = NumberTemplates(seen, t)
          /\ featLines' = Append(featLines, [id |-> line.id, feats |-> feats])
      BY <1>6, <2>2 DEF FeaturizeLine
    <3> HIDE DEF t, line
    <3>2. /\ IsTable(seen')
          /\ \A k \in 1..14 : t[k] \in DOMAIN seen'
          /\ \A f \in DOMAIN seen : f \in DOMAIN seen' /\ seen'[f] = seen[f]
      <4>1. IsTable(seen) /\ 14 \in Nat  OBVIOUS
      <4> QED  BY <1>6, <3>1, <4>1, NumberTemplatesExtends
    <3>3. feats \in Seq(Nat)
      <4>1. Cardinality(DOMAIN seen') \in Nat  BY <3>2, FS_CardinalityType DEF IsTable
      <4>2. seen' \in [DOMAIN seen' -> 1..Cardinality(DOMAIN seen')]
        BY <3>2 DEF IsTable
      <4>4. 1..Cardinality(DOMAIN seen') \subseteq Nat  BY <4>1
      <4>5. \A f \in DOMAIN seen' : seen'[f] \in Nat  BY <4>2, <4>4
      <4>3. feats \in [1..14 -> Nat]  BY <3>2, <4>5
      <4> HIDE DEF feats
      <4> QED  BY <4>3, SeqDef
    <3> QED  BY <2>2, <3>1, <3>2, <3>3
  <2> QED  BY <2>1, <2>2
<1>9. PICK feats \in Seq(Nat) :
        /\ featLines' = Append(featLines, [id |-> line.id, feats |-> feats])
        /\ IsTable(seen')
        /\ \A f \in DOMAIN seen : f \in DOMAIN seen' /\ seen'[f] = seen[f]
        /\ IF line.act = "ABS" THEN feats = <<0>>
           ELSE /\ \A k \in 1..14 : t[k] \in DOMAIN seen'
                /\ feats = [k \in 1..14 |-> seen'[t[k]]]
  BY <1>8
<1> DEFINE new == [id |-> line.id, feats |-> feats]
<1>10. new \in [id : Nat, feats : Seq(Nat)] /\ new.feats = feats  BY <1>5
<1> HIDE DEF new, line, t
<1>11. /\ featLines' \in Seq([id : Nat, feats : Seq(Nat)])
       /\ Len(featLines') = L + 1
       /\ featLines'[L + 1] = new
       /\ \A n \in 1..L : featLines'[n] = featLines[n]
  BY <1>1, <1>9, <1>10 DEF new
<1>12. ASSUME NEW n \in 1..(L + 1) PROVE Printed(n)'
  <2>1. CASE n = L + 1
    <3>1. featLines'[n].feats = feats /\ lines'[n] = line
      BY <1>2, <1>10, <1>11, <2>1 DEF line
    <3> QED  BY <1>6, <1>7, <1>9, <2>1, <3>1 DEF Printed
  <2>2. CASE n # L + 1
    <3>1. n \in 1..L /\ Printed(n)  BY <1>1, <2>2 DEF PrintedInv
    <3> QED  BY <1>2, <1>9, <1>11, <3>1, PrintedKept
  <2> QED  BY <2>1, <2>2
<1>13. PrintedInv'  BY <1>1, <1>2, <1>11, <1>12 DEF PrintedInv
<1>14. ReadInv'  BY <1>1, <1>2, <1>4, <1>11 DEF ReadInv, Loaded
<1>15. IsTable(seen)'
  <2>1. IsTable(seen')  BY <1>9
  <2> QED  BY <2>1 DEF IsTable
<1> QED  BY <1>3, <1>13, <1>14, <1>15

(* The numbers on a printed line are 0 or in the table. *)
LEMMA NumbersInTable ==
    ASSUME IsTable(seen), NEW n, Printed(n)
    PROVE  /\ featLines[n].feats # <<>>
           /\ \A k \in 1..Len(featLines[n].feats) :
                featLines[n].feats[k] \in 0..Cardinality(DOMAIN seen)
<1> DEFINE feats == featLines[n].feats
           C == Cardinality(DOMAIN seen)
<1>1. Len(Kept) = 14  BY DEF Kept
<1>2. seen \in [DOMAIN seen -> 1..C] /\ C \in Nat
  BY FS_CardinalityType DEF IsTable
<1>3. CASE lines[n].act = "ABS"
  <2>1. feats = <<0>>  BY <1>3 DEF Printed
  <2> HIDE DEF feats
  <2>2. feats # <<>> /\ \A k \in 1..Len(feats) : feats[k] = 0  BY <2>1
  <2> QED  BY <1>2, <2>2 DEF feats
<1>4. CASE lines[n].act # "ABS"
  <2> DEFINE t == Templates(lines[n])
  <2>1. /\ \A k \in 1..14 : t[k] \in DOMAIN seen
        /\ feats = [k \in 1..14 |-> seen[t[k]]]
    BY <1>1, <1>4 DEF Printed
  <2> HIDE DEF feats, t, C
  <2>2. DOMAIN feats = 1..14 /\ Len(feats) = 14  BY <2>1
  <2>3. \A k \in 1..14 : feats[k] \in 1..C  BY <1>2, <2>1
  <2>4. feats # <<>>  BY <2>2
  <2>5. \A k \in 1..Len(feats) : feats[k] \in 0..C  BY <1>2, <2>2, <2>3
  <2> QED  BY <2>4, <2>5 DEF feats, C
<1> QED  BY <1>3, <1>4

(* The reader stores the features of the next line, and keeps the largest. *)
LEMMA ReadLineStep == FeatInv /\ ReadLine => FeatInv'
<1> SUFFICES ASSUME FeatInv, ReadLine PROVE FeatInv'  OBVIOUS
<1> USE DEF FeatInv
<1> DEFINE n == linesRead + 1
           feats == featLines[n].feats
<1>1. /\ stage = "done" /\ Len(featLines) = Len(lines) /\ ~Loaded
      /\ linesRead < Len(featLines) /\ linesRead' = n
      /\ UNCHANGED <<vars, featLines, seen, numFeatures>>
  BY DEF ReadLine
<1>2. UNCHANGED <<lookup, arcs, lines, stage>>  BY <1>1 DEF vars
<1>3. MachineInv'  BY <1>1, MachineStands
<1>4. IsTable(seen)'  BY <1>1 DEF IsTable
<1>5. /\ Len(featLines) \in Nat /\ linesRead \in Nat /\ n \in Nat
      /\ featLines \in Seq([id : Nat, feats : Seq(Nat)])
  BY DEF PrintedInv, ReadInv
<1>6. \A m \in 1..Len(featLines) : Printed(m)'
  <2>1. \A f \in DOMAIN seen : f \in DOMAIN seen' /\ seen'[f] = seen[f]  BY <1>1
  <2> QED  BY <1>1, <1>2, <2>1, PrintedKept DEF PrintedInv
<1>7. PrintedInv'  BY <1>1, <1>2, <1>6 DEF PrintedInv
<1>8. feats \in Seq(Nat)
  <2>1. n \in 1..Len(featLines)  BY <1>1, <1>5
  <2> HIDE DEF n, FeatInv
  <2>2. featLines[n] \in [id : Nat, feats : Seq(Nat)]
    BY <1>5, <2>1, ElementOfSeq
  <2> QED  BY <2>2
<1> DEFINE C == Cardinality(DOMAIN seen)
<1>9. feats # <<>> /\ \A k \in 1..Len(feats) : feats[k] \in 0..C
  <2>1. Printed(n)  BY <1>1, <1>5 DEF PrintedInv
  <2> QED  BY <2>1, NumbersInTable
<1>10. features' = Append(features, feats)
       /\ featureMax' = Max({featureMax} \cup Range(feats))
  BY <1>9 DEF ReadLine
<1>11. C \in Nat  BY FS_CardinalityType DEF IsTable
<1> HIDE DEF C, feats
<1>12. /\ featureMax' \in Nat /\ featureMax <= featureMax' /\ featureMax \in Nat
       /\ \A k \in 1..Len(feats) : feats[k] <= featureMax'
  <2> DEFINE S == {featureMax} \cup Range(feats)
  <2>1. featureMax \in Nat  BY DEF ReadInv
  <2>2. \A x \in Range(feats) : \E k \in 1..Len(feats) : x = feats[k]
    BY <1>8 DEF Range
  <2>3. \A k \in 1..Len(feats) : feats[k] \in Range(feats)
    BY <1>8 DEF Range
  <2>4. featureMax + C \in Nat  BY <1>11, <2>1
  <2>5. S \in SUBSET (0..(featureMax + C)) /\ S # {}
    BY <1>9, <1>11, <2>1, <2>2
  <2>6. Max(S) \in S /\ \A k \in S : k <= Max(S)  BY <2>4, <2>5, MaxMember
  <2>7. featureMax' = Max(S)  BY <1>10
  <2>8. featureMax \in S /\ \A k \in 1..Len(feats) : feats[k] \in S  BY <2>3
  <2>9. \A k \in S : k \in Nat  BY <2>4, <2>5
  <2> HIDE DEF S
  <2> QED  BY <2>1, <2>6, <2>7, <2>8, <2>9
<1>13. /\ features' \in Seq(Seq(Nat)) /\ Len(features') = n
       /\ features'[n] = feats
       /\ \A m \in 1..linesRead : features'[m] = features[m]
  BY <1>8, <1>10 DEF ReadInv
<1>14. ASSUME NEW m \in 1..n PROVE features'[m] = featLines'[m].feats
  <2>1. featLines' = featLines  BY <1>1
  <2>2. CASE m = n  BY <1>13, <2>1, <2>2 DEF feats
  <2>3. CASE m # n
    <3>1. m \in 1..linesRead  BY <1>5, <2>3
    <3>2. features[m] = featLines[m].feats  BY <3>1 DEF ReadInv
    <3> QED  BY <1>13, <2>1, <3>1, <3>2
  <2> QED  BY <2>2, <2>3
<1>15. ASSUME NEW m \in 1..n, NEW k \in 1..Len(features'[m])
       PROVE  features'[m][k] <= featureMax'
  <2>1. CASE m = n  BY <1>12, <1>13, <1>15, <2>1
  <2>2. CASE m # n
    <3>1. m \in 1..linesRead  BY <1>5, <2>2
    <3>2. features'[m] = features[m] /\ features[m] \in Seq(Nat)
      BY <1>13, <3>1 DEF ReadInv
    <3>3. features[m][k] <= featureMax /\ features[m][k] \in Nat
      BY <1>15, <3>1, <3>2 DEF ReadInv
    <3> QED  BY <1>12, <3>2, <3>3
  <2> QED  BY <2>1, <2>2
<1>16. ReadInv'
  <2>1. numFeatures' = numFeatures /\ numFeatures = 0 /\ ~(Loaded')
    BY <1>1 DEF Loaded
  <2>2. linesRead' \in 0..Len(featLines)  BY <1>1, <1>5
  <2> HIDE DEF n, FeatInv
  <2>3. /\ stage' = "done" /\ Len(featLines') = Len(lines')
        /\ numFeatures' \in Nat /\ featureMax' \in Nat
        /\ features' \in Seq(Seq(Nat)) /\ Len(features') = linesRead'
    BY <1>1, <1>2, <1>12, <1>13, <2>1
  <2>4. featLines' = featLines /\ linesRead' = n  BY <1>1
  <2>5. /\ \A m \in 1..linesRead' : features'[m] = featLines'[m].feats
        /\ \A m \in 1..linesRead' : \A k \in 1..Len(features'[m]) :
             features'[m][k] <= featureMax'
    BY <1>14, <1>15, <2>4
  <2>6. linesRead' \in 0..Len(featLines')  BY <2>2, <2>4
  <2> QED  BY <2>1, <2>3, <2>5, <2>6 DEF ReadInv
<1> QED  BY <1>3, <1>4, <1>7, <1>16

(* The number of features is fixed at the end of the file. *)
LEMMA CloseFileStep == FeatInv /\ CloseFile => FeatInv'
<1> SUFFICES ASSUME FeatInv, CloseFile PROVE FeatInv'  OBVIOUS
<1> USE DEF FeatInv
<1>1. /\ stage = "done" /\ Len(featLines) = Len(lines)
      /\ linesRead = Len(featLines) /\ numFeatures' = featureMax + 1
      /\ UNCHANGED <<vars, featLines, seen, linesRead, featureMax, features>>
  BY DEF CloseFile, CountFeatures
<1>2. UNCHANGED <<lookup, arcs, lines, stage>>  BY <1>1 DEF vars
<1>3. MachineInv'  BY <1>1, MachineStands
<1>4. IsTable(seen)'  BY <1>1 DEF IsTable
<1>5. \A m \in 1..Len(featLines) : Printed(m)'
  <2>1. \A f \in DOMAIN seen : f \in DOMAIN seen' /\ seen'[f] = seen[f]  BY <1>1
  <2> QED  BY <1>1, <1>2, <2>1, PrintedKept DEF PrintedInv
<1>6. PrintedInv'  BY <1>1, <1>2, <1>5 DEF PrintedInv
<1>7. ReadInv'  BY <1>1, <1>2 DEF ReadInv
<1> QED  BY <1>3, <1>4, <1>6, <1>7

LEMMA NextFeatInv == FeatInv /\ [FeatNext]_<<vars, featVars>> => FeatInv'
<1> SUFFICES ASSUME FeatInv, [FeatNext]_<<vars, featVars>> PROVE FeatInv'
  OBVIOUS
<1>1. CASE Next /\ UNCHANGED featVars  BY <1>1, BuildStep
<1>2. CASE FeaturizeLine  BY <1>2, FeaturizeLineStep
<1>3. CASE ReadLine  BY <1>3, ReadLineStep
<1>4. CASE CloseFile  BY <1>4, CloseFileStep
<1>5. CASE UNCHANGED <<vars, featVars>>
  <2>1. UNCHANGED vars /\ UNCHANGED featVars  BY <1>5
  <2> QED  BY <2>1, BuildStep
<1> QED  BY <1>1, <1>2, <1>3, <1>4, <1>5 DEF FeatNext

LEMMA FeatInvHolds == FeatSpec => []FeatInv
BY InitFeatInv, NextFeatInv, PTL DEF FeatSpec

-----------------------------------------------------------------------------
(* What FeatureReader has when it has read the whole file. *)

LEMMA WhenLoaded ==
    ASSUME FeatInv, Loaded
    PROVE  /\ Finished
           /\ Len(features) = Len(lines) /\ Len(lines) \in Nat
           /\ \A n \in 1..Len(lines) :
                Printed(n) /\ features[n] = featLines[n].feats
<1>1. /\ linesRead = Len(featLines) /\ stage = "done"
      /\ Len(featLines) = Len(lines) /\ linesRead \in Nat
  BY DEF FeatInv, ReadInv, PrintedInv
<1> QED  BY <1>1 DEF FeatInv, ReadInv, PrintedInv, Finished

(* Every stored feature has its place in the weights and in the symbol table *)
(* of the feature numbers: FeatureReader counts one more than the largest.   *)
THEOREM FeaturesTypeCorrect == FeatSpec => []FeatTypeOK
<1>1. ASSUME FeatInv PROVE FeatTypeOK
  <2> USE <1>1
  <2>1. TypeOK  BY BInvType DEF FeatInv, MachineInv
  <2>2. numFeatures \in Nat  BY DEF FeatInv, ReadInv
  <2>3. ASSUME Loaded, NEW n \in 1..Len(features), NEW k \in 1..Len(features[n])
        PROVE  features[n][k] \in 0..(numFeatures - 1)
    <3>1. /\ numFeatures = featureMax + 1 /\ featureMax \in Nat
          /\ features \in Seq(Seq(Nat)) /\ features[n][k] <= featureMax
      BY <2>3 DEF FeatInv, ReadInv
    <3>2. features[n] \in Seq(Nat)  BY <2>3, <3>1
    <3>3. features[n][k] \in Nat  BY <2>3, <3>2
    <3> QED  BY ONLY <3>1, <3>3
  <2> QED  BY <2>1, <2>2, <2>3 DEF FeatTypeOK
<1> QED  BY <1>1, FeatInvHolds, PTL

(* The features the trainer multiplies for an arc are the ones featurize.py *)
(* printed for that arc: the three numberings, by the lines of              *)
(* arc_to_action, by the lines of the feature file and by the iteration     *)
(* over the machine, agree.                                                 *)
THEOREM ArcsHaveTheirFeatures == FeatSpec => []FeaturesOfTheArc
<1>1. ASSUME FeatInv, Loaded
      PROVE  /\ Len(features) = Cardinality(Arcs)
             /\ \A r \in Arcs :
                  LET line == [src |-> r.src, arc |-> r.arc, act |-> By(r)]
                      feats == features[TrainerId(Stored(r)) + 1]
                  IN  IF By(r) = "ABS" THEN feats = <<0>>
                      ELSE feats = [k \in 1..Len(Kept) |-> seen[Templates(line)[k]]]
  <2>1. Finished /\ Len(features) = Len(lines)  BY <1>1, WhenLoaded
  <2>2. Len(features) = Cardinality(Arcs)  BY <2>1, ArcsAreLines
  <2>3. ASSUME NEW r \in Arcs
        PROVE  LET line == [src |-> r.src, arc |-> r.arc, act |-> By(r)]
                   feats == features[TrainerId(Stored(r)) + 1]
               IN  IF By(r) = "ABS" THEN feats = <<0>>
                   ELSE feats = [k \in 1..Len(Kept) |-> seen[Templates(line)[k]]]
    <3> DEFINE line == [src |-> r.src, arc |-> r.arc, act |-> By(r)]
               feats == features[TrainerId(Stored(r)) + 1]
    <3>1. PICK n \in 1..Len(lines) :
            r = [id |-> n - 1, src |-> lines[n].src, arc |-> lines[n].arc]
      BY <2>1, ArcsAreLines
    <3>2. lines[n].act = By(r)  BY <2>1, <3>1, FinishedHere DEF By
    <3>3. TrainerId(Stored(r)) + 1 = n  BY <3>1 DEF TrainerId, Stored
    <3>4. Printed(n) /\ feats = featLines[n].feats
      BY <1>1, <3>1, <3>3, WhenLoaded
    <3>5. Templates(lines[n]) = Templates(line)
      <4>1. line.src = lines[n].src /\ line.arc = lines[n].arc
            /\ line.act = lines[n].act
        BY <3>1, <3>2
      <4> HIDE DEF line
      <4>2. Fields(lines[n]) = Fields(line)  BY <4>1 DEF Fields
      <4> QED  BY <4>2 DEF Templates
    <3> HIDE DEF line, feats
    <3>6. IF By(r) = "ABS" THEN feats = <<0>>
          ELSE feats = [k \in 1..Len(Kept) |-> seen[Templates(line)[k]]]
      BY <3>2, <3>4, <3>5 DEF Printed
    <3> QED  BY <3>6 DEF line, feats
  <2> QED  BY <2>2, <2>3
<1>2. FeatInv => FeaturesOfTheArc  BY <1>1 DEF FeaturesOfTheArc
<1> QED  BY <1>2, FeatInvHolds, PTL

(* The full context feature tells the arcs apart: two edits never share it,  *)
(* and an absorption has the number no template gets.                        *)
THEOREM EditsHaveTheirOwnFeature == FeatSpec => []FullContextIsOwn
<1>1. ASSUME FeatInv, Loaded,
             NEW n \in 1..Len(features), NEW m \in 1..Len(features),
             n # m, features[n] # << 0 >>
      PROVE  features[n][1] # features[m][1]
  <2>1. /\ Finished /\ Len(features) = Len(lines)
        /\ Printed(n) /\ features[n] = featLines[n].feats
        /\ Printed(m) /\ features[m] = featLines[m].feats
        /\ n \in 1..Len(lines) /\ m \in 1..Len(lines)
    BY <1>1, WhenLoaded
  <2>2. Len(Kept) = 14  BY DEF Kept
  <2> DEFINE t(j) == Templates(lines[j])[1]
             C == Cardinality(DOMAIN seen)
  <2>3. /\ seen \in [DOMAIN seen -> 1..C] /\ C \in Nat
        /\ \A f, g \in DOMAIN seen : seen[f] = seen[g] => f = g
    BY <1>1, FS_CardinalityType DEF FeatInv, IsTable
  <2>4. ASSUME NEW j, Printed(j), lines[j].act # "ABS"
        PROVE  /\ t(j) \in DOMAIN seen
               /\ featLines[j].feats[1] = seen[t(j)]
    <3> DEFINE u == Templates(lines[j])
    <3>1. /\ \A k \in 1..14 : u[k] \in DOMAIN seen
          /\ featLines[j].feats = [k \in 1..14 |-> seen[u[k]]]
      BY <2>2, <2>4 DEF Printed
    <3> HIDE DEF u
    <3> QED  BY <3>1 DEF u
  <2>5. \A j : t(j) = [p \in 1..5 |-> <<Fields(lines[j])[p]>>]
    <3> TAKE j
    <3> DEFINE F == Fields(lines[j])
    <3>1. Kept[1] = {1, 2, 3, 4, 5}  BY DEF Kept
    <3> HIDE DEF F
    <3>2. t(j) = [p \in 1..5 |-> IF p \in Kept[1] THEN <<F[p]>> ELSE <<Nine>>]
      BY <2>2 DEF Templates, F
    <3>3. \A p \in 1..5 : p \in Kept[1]  BY <3>1
    <3> QED  BY <3>2, <3>3 DEF F
  <2>6. lines[n].act # "ABS"  BY <1>1, <2>1 DEF Printed
  <2>7. t(n) \in DOMAIN seen /\ features[n][1] = seen[t(n)]
    BY <2>1, <2>4, <2>6
  <2>8. CASE lines[m].act = "ABS"
    <3>1. features[m] = <<0>>  BY <2>1, <2>8 DEF Printed
    <3>2. features[m][1] = 0  BY <3>1
    <3>3. features[n][1] \in 1..C  BY <2>3, <2>7
    <3> QED  BY <2>3, <3>2, <3>3
  <2>9. CASE lines[m].act # "ABS"
    <3>1. t(m) \in DOMAIN seen /\ features[m][1] = seen[t(m)]
      BY <2>1, <2>4, <2>9
    <3>2. t(n) # t(m)
      <4> SUFFICES ASSUME t(n) = t(m) PROVE FALSE  OBVIOUS
      <4> DEFINE F == Fields(lines[n])
                 G == Fields(lines[m])
      <4>1. [p \in 1..5 |-> <<F[p]>>] = [p \in 1..5 |-> <<G[p]>>]  BY <2>5
      <4> HIDE DEF t
      <4>2. DOMAIN F = 1..5 /\ DOMAIN G = 1..5
            /\ F = [p \in 1..5 |-> F[p]] /\ G = [p \in 1..5 |-> G[p]]
        <5> DEFINE c(j) == ContextOf(lines[j].src)
                   o(j) == arcs[lines[j].src][lines[j].arc].out
        <5>1. \A j : Fields(lines[j]) = IF lines[j].act = "INS"
                 THEN <<Eps, o(j), c(j).ulc, c(j).urc, c(j).llc>>
                 ELSE <<c(j).urc[1], o(j), c(j).ulc, Tail(c(j).urc), c(j).llc>>
          BY DEF Fields
        <5> HIDE DEF c, o
        <5>2. ASSUME NEW T, NEW v, NEW w, NEW x, NEW y, NEW z,
                     T = <<v, w, x, y, z>>
              PROVE  DOMAIN T = 1..5 /\ T = [p \in 1..5 |-> T[p]]
          <6>1. DOMAIN T = 1..5  BY <5>2
          <6>2. T = [p \in DOMAIN T |-> T[p]]  BY <5>2
          <6> QED  BY <6>1, <6>2
        <5>3. \E v, w, x, y, z : F = <<v, w, x, y, z>>  BY <5>1
        <5>4. \E v, w, x, y, z : G = <<v, w, x, y, z>>  BY <5>1
        <5> HIDE DEF F, G
        <5>5. DOMAIN F = 1..5 /\ F = [p \in 1..5 |-> F[p]]  BY <5>2, <5>3
        <5>6. DOMAIN G = 1..5 /\ G = [p \in 1..5 |-> G[p]]  BY <5>2, <5>4
        <5> QED  BY <5>5, <5>6
      <4> HIDE DEF F, G
      <4>3. \A p \in 1..5 : <<F[p]>> = <<G[p]>>  BY <4>1
      <4>4. \A p \in 1..5 : F[p] = G[p]  BY <4>3
      <4>5. F = G  BY <4>2, <4>4
      <4> QED  BY <1>1, <2>1, <2>6, <2>9, <4>5, FieldsApart DEF F, G
    <3> HIDE DEF t
    <3> QED  BY <2>3, <2>7, <3>1, <3>2
  <2> QED  BY <2>8, <2>9
<1>2. FeatInv => FullContextIsOwn  BY <1>1 DEF FullContextIsOwn
<1> QED  BY <1>2, FeatInvHolds, PTL

=============================================================================
