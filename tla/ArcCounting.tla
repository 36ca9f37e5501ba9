---------------------------- MODULE ArcCounting ----------------------------
(***************************************************************************)
(* The E-step over the machine that context_edit.py wrote.  add_training_  *)
(* data composes every exemplar with a copy of the machine whose weights   *)
(* carry arc numbers; train composes it again with the arc weights, runs   *)
(* the forward and the backward algorithm, and calculate_observed_counts   *)
(* walks over both compositions at once.  Only the position of an arc in   *)
(* one tells which arc of the machine an arc of the other came from.       *)
(***************************************************************************)
EXTENDS FeaturePipeline, Composition

CONSTANTS Exemplars,    \* pairs of an upper string, with its boundaries, and a lower
          N,            \* data_formatted.size()
          Scores        \* for state s, arc k: exp(-mult_features_by_weights(arc))

ASSUME NAssumption == N \in Nat \ {0}

\* An upper string is letters and then as many boundary symbols as the right
\* window holds; a lower one is letters.
ASSUME ExemplarsAssumption ==
    \A e \in Exemplars :
        /\ e[1] \in Seq(Upper) /\ e[2] \in Seq(V2)
        /\ UrcMax <= Len(e[1])
        /\ \A k \in 1..Len(e[1]) : e[1][k] = Sharp <=> k > Len(e[1]) - UrcMax

VARIABLES phase,      \* "build", "outer", "exemplar", "count", "Undefined"
          data,       \* data_formatted
          score,      \* the scores of the weights being used
          lattices,   \* data_formatted_features
          ex,         \* exemplar_num
          log,        \* final_log
          alpha,      \* forward sums, by lattice state
          beta,       \* backward sums
          state,      \* siter of calculate_observed_counts
          latticeArc, \* arc_id of calculate_observed_counts
          observed    \* observed_counts

countVars == <<phase, data, score, lattices, ex, log, alpha, beta,
               state, latticeArc, observed>>

----------------------------------------------------------------------------
\* The machine of context_edit.py with a weight for arc k of state s.
MachineWith(weight) ==
    [start |-> start, final |-> {0},
     out |-> [s \in 0..Len(arcs) |->
                IF s = 0 THEN <<>>
                ELSE [k \in 1..Len(arcs[s]) |->
                        FstArc(arcs[s][k].in, arcs[s][k].out, weight[s][k],
                               arcs[s][k].to)]]]

\* Mutant of LogWeights: the group is that of the output label.
LogWeightsByOutput(sc) ==
    [s \in 1..Len(arcs) |-> [k \in 1..Len(arcs[s]) |->
        LET rivals == {m \in 1..Len(arcs[s]) : arcs[s][m].out = arcs[s][k].out}
            total == SumFunctionOnSet(sc[s], rivals)
        IN  [p |-> Reduced(sc[s][k], total), r |-> <<0, 1>>]]]

\* update_arc_weights: an arc's share of its state and input label.
LogWeights(sc) ==
    [s \in 1..Len(arcs) |-> [k \in 1..Len(arcs[s]) |->
        LET rivals == {m \in 1..Len(arcs[s]) : arcs[s][m].in = arcs[s][k].in}
            total == SumFunctionOnSet(sc[s], rivals)
        IN  [p |-> Reduced(sc[s][k], total), r |-> <<0, 1>>]]]

\* Mutant of FeatureWeights: the number of the state, not of the arc.
FeatureWeightsByState ==
    [s \in 1..Len(arcs) |-> [k \in 1..Len(arcs[s]) |->
        [p |-> <<1, 1>>, r |-> <<s, 1>>]]]

\* map_to_feature_arcs(zero = false): the arc's number rides in the weight.
FeatureWeights ==
    [s \in 1..Len(arcs) |-> [k \in 1..Len(arcs[s]) |->
        [p |-> <<1, 1>>, r |-> <<Stored([id |-> IdOf(s, k)]), 1>>]]]

Lattice(exemplar, weight) ==
    Compose(Compose(Chain(exemplar[1]), MachineWith(weight)), Chain(exemplar[2]))

----------------------------------------------------------------------------
CountInit == /\ FeatInit
             /\ phase = "build"
             /\ data = <<>> /\ score = <<>> /\ lattices = <<>>
             /\ ex = 0 /\ log = <<>> /\ alpha = <<>> /\ beta = <<>>
             /\ state = 0 /\ latticeArc = 0 /\ observed = <<>>

\* The constructor: update_arc_weights, and add_training_data, in which the
\* strings become chains and the machine carries its arc numbers.
AddTrainingData ==
    /\ phase = "build" /\ Loaded
    /\ \E d \in [1..N -> Exemplars], sc \in Scores :
         /\ data' = d
         /\ score' = sc
         /\ lattices' = [n \in 1..N |-> Lattice(d[n], FeatureWeights)]
    /\ phase' = "outer"
    /\ UNCHANGED <<ex, log, alpha, beta, state, latticeArc, observed>>

\* train: observed_counts start from nothing.
BeginIteration ==
    /\ phase = "outer"
    /\ observed' = [id \in {r.id : r \in Arcs} |-> <<0, 1>>]
    /\ ex' = 0
    /\ phase' = "exemplar"
    /\ UNCHANGED <<data, score, lattices, log, alpha, beta, state, latticeArc>>

\* Mutant of ComposeExemplar: arc_id goes on from the previous exemplar.
ComposeExemplarKeepingArc ==
    /\ phase = "exemplar" /\ ex < N
    /\ log' = Lattice(data[ex + 1], LogWeights(score))
    /\ alpha' = Forward(log')
    /\ beta' = Backward(log')
    /\ state' = 0
    /\ phase' = IF States(log') = {} THEN "Undefined" ELSE "count"
    /\ UNCHANGED <<data, score, lattices, ex, observed, latticeArc>>

\* train: compose the next exemplar and run forward and backward.  If there
\* is no path, alpha is empty and reading alpha[0] is undefined behaviour.
ComposeExemplar ==
    /\ phase = "exemplar" /\ ex < N
    /\ log' = Lattice(data[ex + 1], LogWeights(score))
    /\ alpha' = Forward(log')
    /\ beta' = Backward(log')
    /\ state' = 0
    /\ latticeArc' = 0
    /\ phase' = IF States(log') = {} THEN "Undefined" ELSE "count"
    /\ UNCHANGED <<data, score, lattices, ex, observed>>

\* Mutant of Traversed: beta of the arc's source.
TraversedFromSource(k) ==
    Quotient(Product(Product(alpha[state], log.out[state][k].w.p), beta[state]),
             Product(alpha[0], beta[0]))

\* The probability that arc k of the state is taken: val / Z.
Traversed(k) ==
    Quotient(Product(Product(alpha[state], log.out[state][k].w.p),
                     beta[log.out[state][k].to]),
             Product(alpha[0], beta[0]))

\* arc_mapper: the number on the k-th arc of state s in the lattice of
\* features; a std::map gives 0 for a key it does not have.
Mapper(s, k) ==
    LET out == lattices[ex + 1].out[s]
    IN  IF k <= Len(out) THEN TrainerId(out[k].w.r[1] \div out[k].w.r[2]) ELSE 0

\* calculate_observed_counts, for one state of the lattice of features.
CountLatticeState ==
    /\ phase = "count" /\ state \in States(lattices[ex + 1])
    /\ observed' = FoldLeft(LAMBDA obs, k : [obs EXCEPT ![Mapper(state, k)] = Sum(@, Traversed(k))],
                            observed, [k \in 1..Len(log.out[state]) |-> k])
    /\ latticeArc' = latticeArc + Len(log.out[state])
    /\ state' = state + 1
    /\ UNCHANGED <<phase, data, score, lattices, ex, log, alpha, beta>>

EndExemplar ==
    /\ phase = "count" /\ state \notin States(lattices[ex + 1])
    /\ ex' = ex + 1
    /\ phase' = "exemplar"
    /\ UNCHANGED <<data, score, lattices, log, alpha, beta, state, latticeArc, observed>>

CountNext ==
    \/ FeatNext /\ UNCHANGED countVars
    \/ /\ UNCHANGED <<vars, featVars>>
       /\ \/ AddTrainingData \/ BeginIteration \/ ComposeExemplar
          \/ CountLatticeState \/ EndExemplar

CountSpec == CountInit /\ [][CountNext]_<<vars, featVars, countVars>>

----------------------------------------------------------------------------
\* The arcs of the states before s.
ArcsBefore(fst) ==
    LET before[s \in 0..Cardinality(States(fst))] ==
            IF s = 0 THEN 0 ELSE before[s - 1] + Len(fst.out[s - 1])
    IN  before

\* The loops stay in their ranges, and arc_id has counted the arcs of the states
\* that calculate_observed_counts has done with.
CountTypeOK ==
    /\ phase \in {"build", "outer", "exemplar", "count"}
    /\ ex \in 0..N
    /\ phase = "count" => latticeArc = ArcsBefore(log)[state]

\* An exemplar over the alphabets always has a path, so that alpha[0] is
\* there to be read.
LatticeNotEmpty == phase # "Undefined"

\* calculate_observed_counts walks over two compositions, made with different
\* weights, as if they were one.  Each arc it comes to has the weight and the
\* labels of the machine's arc whose number it reads, and the arcs it reads the
\* numbers of along a path are a path of the machine.
CreditedToItsArc ==
    LET w == LogWeights(score)
        known == Arcs
    IN  phase = "count" =>
          /\ States(lattices[ex + 1]) = States(log)
          /\ \A s \in States(log) : \A k \in 1..Len(log.out[s]) :
               LET e == log.out[s][k]
               IN  \E r \in known :
                     LET arc == arcs[r.src][r.arc]
                     IN  /\ r.id = Mapper(s, k)
                         /\ e.w.p = w[r.src][r.arc].p
                         /\ e.in = arc.in /\ e.out = arc.out
                         /\ s = log.start => r.src = start
                         /\ \A m \in 1..Len(log.out[e.to]) :
                              \E q \in known : q.id = Mapper(e.to, m) /\ q.src = arc.to
============================================================================
