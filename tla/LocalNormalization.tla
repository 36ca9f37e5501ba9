------------------------- MODULE LocalNormalization -------------------------
(***************************************************************************)
(* The arithmetic of WFST_Trainer_Local: update_arc_weights makes the arcs *)
(* with one input label out of one state a distribution, and               *)
(* calculate_expected_counts shares out what was observed on such a group. *)
(* Both go twice over the arcs of each state, first to add up per input    *)
(* label in an array, and find the data of an arc by counting arcs as they *)
(* go.                                                                     *)
(*                                                                         *)
(* A log value is modelled by the number it is the logarithm of: the score *)
(* exp(-weights.features) of an arc and a count are small naturals,        *)
(* -DBL_MAX is 0, an arc's probability and an expected count are fractions *)
(* <<numerator, denominator>>.                                             *)
(***************************************************************************)
EXTENDS Integers, Sequences, FiniteSets

CONSTANTS Machines,     \* machines: for each state, its arcs' input labels
          FeatureMaps,  \* feature maps: for each arc, its feature vector
          Vectors,      \* feature vectors
          Weights,      \* weight vectors
          Zero,         \* the weights 0.0
          Product,      \* Product[w][v]: exp(-w.v), as a natural
          CountValues,  \* values of an observed count
          SymbolBound,  \* symbol_bound
          E             \* the number whose logarithm is the constant 1.0

ASSUME MachineAssumption == Machines \subseteq Seq(Seq(Nat))
ASSUME ValueAssumption == /\ Zero \in Weights
                          /\ Product \in [Weights -> [Vectors -> Nat \ {0}]]
                          /\ \A f \in FeatureMaps : \A a \in DOMAIN f : f[a] \in Vectors
                          /\ CountValues \subseteq Nat
                          /\ SymbolBound \in Nat
\* No sum of scores or of counts is e, the number logadd takes for nothing.
ASSUME SentinelAssumption == E \in Int \ Nat

VARIABLES pc,        \* "weigh", "count", "ready" or "gradient"
          after,     \* what runs after "weigh"
          machine,   \* fst
          features,  \* features
          weights,   \* weights
          observed,  \* observed_counts
          expected,  \* expected_counts
          prob,      \* the weights of the arcs of fst
          s,         \* state_id
          loop,      \* which of the two loops over the arcs of s is running
          at,        \* the arc of s its ArcIterator is at
          tmpArcId,  \* tmp_arc_id, of the first loop
          arcId,     \* arc_id, of the second
          size,      \* the length of the array the loops add up in
          total      \* that array

data == <<machine, features, weights, observed>>
loopVars == <<s, loop, at, tmpArcId, arcId, size, total>>
vars == <<pc, after, data, expected, prob, loopVars>>

\* The arcs, each by its state and its place there, and those that the
\* iterators visit before place j of state q.
Places == UNION {{q} \X (1..Len(machine[q])) : q \in 1..Len(machine)}
Before(q, j) == {p \in Places : p[1] < q \/ (p[1] = q /\ p[2] < j)}

NumArcs == Cardinality(Places)
ArcIds == 0..(NumArcs - 1)

\* logadd(lna, lnb)
LogAdd(a, b) == IF a = E THEN b ELSE IF b = E THEN a ELSE a + b

\* logadd of two fractions.
LogAddFractions(a, b) ==
    IF a[1] = E * a[2] THEN b
    ELSE IF b[1] = E * b[2] THEN a
    ELSE <<a[1] * b[2] + b[1] * a[2], a[2] * b[2]>>

\* exp(-mult_features_by_weights(arc_id, weights))
Score(a) == Product[weights][features[a]]

\* The array of update_arc_weights() has num_arcs elements.
FirstSize == NumArcs

Zeros(n) == [l \in 0..(n - 1) |-> 0]

----------------------------------------------------------------------------
\* The loops

Running == pc \in {"weigh", "count"} /\ s <= Len(machine)
Label == machine[s][at]

\* What the first loop adds up.
Value(a) == IF pc = "weigh" THEN Score(a) ELSE observed[a]

\* Mutant of Restart: arc_id is a member and not set to 0.
RestartKeepingId(n) ==
    /\ s' = 1 /\ loop' = 1 /\ at' = 1
    /\ tmpArcId' = arcId /\ UNCHANGED arcId
    /\ size' = n /\ total' = Zeros(n)

\* The loops start, with an array of n elements.
Restart(n) ==
    /\ s' = 1 /\ loop' = 1 /\ at' = 1
    /\ tmpArcId' = 0 /\ arcId' = 0
    /\ size' = n /\ total' = Zeros(n)

\* The constructor calls update_arc_weights() on the weights 0.0.
Init == /\ machine \in Machines
        /\ features \in {f \in FeatureMaps : DOMAIN f = ArcIds}
        /\ weights = Zero
        /\ observed = [a \in ArcIds |-> 0]
        /\ expected = [a \in ArcIds |-> <<0, 1>>]
        /\ prob = [a \in ArcIds |-> <<1, 1>>]
        /\ pc = "weigh" /\ after = "ready"
        /\ s = 1 /\ loop = 1 /\ at = 1
        /\ tmpArcId = 0 /\ arcId = 0
        /\ size = FirstSize /\ total = Zeros(FirstSize)

\* The first loop.  A label that is no index of the array is undefined
\* behaviour, of which the model says no more: it stops, where the program does
\* not.
AddArc ==
    /\ Running /\ loop = 1 /\ at <= Len(machine[s]) /\ Label < size
    /\ total' = [total EXCEPT ![Label] = LogAdd(@, Value(tmpArcId))]
    /\ tmpArcId' = tmpArcId + 1
    /\ at' = at + 1
    /\ UNCHANGED <<pc, after, data, expected, prob, s, loop, arcId, size>>

EndFirst ==
    /\ Running /\ loop = 1 /\ at > Len(machine[s])
    /\ loop' = 2 /\ at' = 1
    /\ UNCHANGED <<pc, after, data, expected, prob, s, tmpArcId, arcId, size, total>>

\* The second loop of update_arc_weights.
WeighArc ==
    /\ Running /\ pc = "weigh" /\ loop = 2 /\ at <= Len(machine[s])
    /\ prob' = [prob EXCEPT ![arcId] = <<Score(arcId), total[Label]>>]
    /\ arcId' = arcId + 1
    /\ at' = at + 1
    /\ UNCHANGED <<pc, after, data, expected, s, loop, tmpArcId, size, total>>

\* The second loop of calculate_expected_counts.
CountArc ==
    /\ Running /\ pc = "count" /\ loop = 2 /\ at <= Len(machine[s])
    /\ expected' = [expected EXCEPT ![arcId] =
           LogAddFractions(@, <<total[Label] * prob[arcId][1], prob[arcId][2]>>)]
    /\ arcId' = arcId + 1
    /\ at' = at + 1
    /\ UNCHANGED <<pc, after, data, prob, s, loop, tmpArcId, size, total>>

\* Mutant of NextState: tmp_arc_id starts at 0.
NextStateFromZero ==
    /\ Running /\ loop = 2 /\ at > Len(machine[s])
    /\ s' = s + 1 /\ loop' = 1 /\ at' = 1
    /\ tmpArcId' = 0
    /\ total' = Zeros(size)
    /\ UNCHANGED <<pc, after, data, expected, prob, arcId, size>>

NextState ==
    /\ Running /\ loop = 2 /\ at > Len(machine[s])
    /\ s' = s + 1 /\ loop' = 1 /\ at' = 1
    /\ tmpArcId' = arcId
    /\ total' = Zeros(size)
    /\ UNCHANGED <<pc, after, data, expected, prob, arcId, size>>

----------------------------------------------------------------------------
\* The functions

\* Mutant of EndWeigh: expected_counts is not reset.
EndWeighKeepingCounts ==
    /\ pc = "weigh" /\ s > Len(machine)
    /\ pc' = after
    /\ Restart(size)
    /\ UNCHANGED <<after, data, prob, expected>>

\* update_arc_weights returns; gradient2 resets expected_counts and calls
\* calculate_expected_counts, which declares an array of symbol_bound elements,
\* as long as the one before.
EndWeigh ==
    /\ pc = "weigh" /\ s > Len(machine)
    /\ pc' = after
    /\ Restart(size)
    /\ expected' = IF after = "count" THEN [a \in ArcIds |-> <<0, 1>>] ELSE expected
    /\ UNCHANGED <<after, data, prob>>

EndCount ==
    /\ pc = "count" /\ s > Len(machine)
    /\ pc' = "gradient"
    /\ UNCHANGED <<after, data, expected, prob, loopVars>>

\* The E-step of train leaves new observed counts.
EStep ==
    /\ pc \in {"ready", "gradient"}
    /\ observed' \in [ArcIds -> CountValues]
    /\ pc' = "ready"
    /\ UNCHANGED <<after, machine, features, weights, expected, prob, loopVars>>

\* value2 and gradient2 start with update_arc_weights(weights), which declares
\* an array of symbol_bound elements.
Call(next) ==
    /\ pc \in {"ready", "gradient"}
    /\ weights' \in Weights
    /\ pc' = "weigh" /\ after' = next
    /\ Restart(SymbolBound)
    /\ UNCHANGED <<machine, features, observed, expected, prob>>

Value2 == Call("ready")
Gradient2 == Call("count")

Next == \/ AddArc \/ EndFirst \/ WeighArc \/ CountArc \/ NextState
        \/ EndWeigh \/ EndCount
        \/ EStep \/ Value2 \/ Gradient2

Spec == Init /\ [][Next]_vars

----------------------------------------------------------------------------
PlaceOf(a) == CHOOSE p \in Places : Cardinality(Before(p[1], p[2])) = a
LabelAt(p) == machine[p[1]][p[2]]

\* The arcs that compete with arc a: same state, same input label.
Group(a) == {b \in ArcIds : /\ PlaceOf(b)[1] = PlaceOf(a)[1]
                            /\ LabelAt(PlaceOf(b)) = LabelAt(PlaceOf(a))}

\* The sum of v[b] for b in A, as the number of the pairs of an element and a
\* number from 1 to its value.
SumOver(A, v) == Cardinality(UNION {{b} \X (1..v[b]) : b \in A})

\* Types, and the counters together: each of the two loops has counted exactly
\* the arcs its iterator has left behind (wfst-train-local-fast.cpp:317-344,
\* 78-101), which is how an arc is matched with its features and counts.
TypeOK ==
    /\ pc \in {"weigh", "count", "ready", "gradient"}
    /\ after \in {"ready", "count"}
    /\ machine \in Machines /\ features \in FeatureMaps
    /\ weights \in Weights
    /\ observed \in [ArcIds -> CountValues \cup {0}]
    /\ DOMAIN expected = ArcIds /\ DOMAIN prob = ArcIds
    /\ s \in 1..(Len(machine) + 1) /\ loop \in {1, 2}
    /\ DOMAIN total = 0..(size - 1)
    /\ loop = 1 => /\ tmpArcId = Cardinality(Before(s, at))
                   /\ arcId = Cardinality(Before(s, 1))
    /\ loop = 2 => arcId = Cardinality(Before(s, at))

\* Whenever update_arc_weights has run, the weight of each arc is the score of
\* its own features over the sum of the scores of the arcs it competes with
\* (wfst-train-local-fast.cpp:316-347, 355-380): a conditional distribution per
\* state and input label, which value2's likelihood takes for granted.
Normalised ==
    pc \in {"ready", "count", "gradient"} =>
        LET scores == [b \in ArcIds |-> Score(b)]
        IN  \A a \in ArcIds : prob[a] = <<Score(a), SumOver(Group(a), scores)>>

\* When gradient2 uses the two counts, each group of competing arcs is expected
\* to be traversed exactly as often as it was observed
\* (wfst-train-local-fast.cpp:77-102, 199-203), so a feature shared by the
\* whole group gets gradient 0 from the data.
CountsConserved ==
    pc = "gradient" =>
        LET numerators == [b \in ArcIds |-> expected[b][1]]
        IN  \A a \in ArcIds :
              LET common == prob[a][2]
              IN  /\ \A b \in Group(a) : expected[b][2] = common
                  /\ SumOver(Group(a), numerators)
                       = common * SumOver(Group(a), observed)

\* wfst-train-local-fast.cpp:399 of the constructor: symbol_bound is "the highest
\* integer id assigned to a symbol in the symbol table".  On a machine none of
\* whose labels is greater, the arrays of symbol_bound elements in
\* update_arc_weights and calculate_expected_counts (lines 360, 84) then have an
\* element for every label the loops come to.
SymbolBoundSuffices ==
    (\A p \in Places : LabelAt(p) <= SymbolBound) =>
        (Running /\ at <= Len(machine[s]) /\ size = SymbolBound => Label < size)
=============================================================================
