---------------------------- MODULE LogEvaluator ----------------------------
(***************************************************************************)
(* What sandbox.cpp reports of a trained machine in the log semiring: the  *)
(* log_loss and the expected_edit_distance of Evaluator, over the machine  *)
(* that was written, and trained on other words.  As in ArcCounting, a     *)
(* number stands for its negative logarithm, so that a sum of values is a  *)
(* product here.                                                           *)
(***************************************************************************)
EXTENDS PathCounts

CONSTANTS TestExemplars,  \* what test_data consists of, like Exemplars
          EditWeight      \* the weight of an edit: its negative logarithm is 1

VARIABLES call,        \* "train", "log_loss", "expected_edit_distance", "return"
          test,        \* test_data
          it,          \* exemplars of test_data that the loop has seen
          step,        \* what comes next: "final", "pre_final_edit", "final_edit",
                       \* "distance"
          final,       \* the machine composed last
          logLoss,     \* log_loss
          expectedEdit \* edit_dist of expected_edit_distance

evalVars == <<call, test, it, step, final, logLoss, expectedEdit>>

----------------------------------------------------------------------------
\* The sum over the paths that go on from paths with the weights x, a sequence
\* with the sum for the paths that end in state t at t + 1.
RECURSIVE Continued(_, _)
Continued(fst, x) ==
    LET Into(t) == SumOf(LAMBDA e : Product(x[e[1] + 1], fst.out[e[1]][e[2]].w.p),
                         ArcsInto(fst, t))
        next == FoldLeft(LAMBDA sums, y : Append(sums, Into(Len(sums))), <<>>, x)
    IN  IF \A t \in DOMAIN x : x[t][1] = 0 THEN <<0, 1>>
        ELSE Sum(SumOf(LAMBDA q : x[q + 1], fst.final), Continued(fst, next))

\* ShortestDistance(fst): the sum over all its paths, by their lengths.
TotalWeight(fst) ==
    Continued(fst, [n \in 1..Cardinality(States(fst)) |->
                      IF n = fst.start + 1 THEN <<1, 1>> ELSE <<0, 1>>])

\* Both symbol tables of the machine; in all experiments they are equal.
Symbols == V1 \cup V2 \cup {Sharp}

\* edit_dist_log.
EditDistLog ==
    LET Edit(in, out, p) == FstArc(in, out, [p |-> p, r |-> <<0, 1>>], 0)
        deletions == {Edit(s, Eps, EditWeight) : s \in Symbols}
        insertions == {Edit(Eps, s, EditWeight) : s \in Symbols}
        substitutions == {Edit(s, t, IF s = t THEN <<1, 1>> ELSE EditWeight) :
                             s \in Symbols, t \in Symbols}
    IN  [start |-> 0, final |-> {0},
         out |-> 0 :> FoldSet(LAMBDA e, es : Append(es, e), <<>>,
                              deletions \cup insertions \cup substitutions)]

\* Project(fst, 2)
ProjectOutput(fst) ==
    [fst EXCEPT !.out = [s \in States(fst) |->
        [k \in DOMAIN fst.out[s] |-> [fst.out[s][k] EXCEPT !.in = fst.out[s][k].out]]]]

----------------------------------------------------------------------------
EvalInit == /\ CountInit
            /\ call = "train" /\ step = "final"
            /\ test = <<>> /\ it = 0 /\ final = <<>>
            /\ logLoss = <<1, 1>> /\ expectedEdit = <<1, 1>>

\* train has returned, with whatever weights the M-step left on the arcs, and
\* the Evaluator is made.
Evaluate ==
    /\ call = "train" /\ phase = "exemplar" /\ ex = N
    /\ test' \in [1..N -> TestExemplars]
    /\ score' \in Scores
    /\ call' = "log_loss"
    /\ phase' = "build"
    /\ data' = <<>> /\ lattices' = <<>> /\ ex' = 0 /\ log' = <<>> /\ alpha' = <<>>
    /\ beta' = <<>> /\ state' = 0 /\ latticeArc' = 0 /\ observed' = <<>>
    /\ UNCHANGED <<vars, featVars, step, it, final, logLoss, expectedEdit>>

\* Both loops begin with the lattice of the exemplar.
ComposeFinal ==
    /\ call \in {"log_loss", "expected_edit_distance"}
    /\ step = "final" /\ it < N
    /\ final' = Lattice(test[it + 1], LogWeights(score))
    /\ step' = IF call = "log_loss" THEN "distance" ELSE "pre_final_edit"
    /\ UNCHANGED <<call, test, it, logLoss, expectedEdit>>

ComposePreFinalEdit ==
    /\ step = "pre_final_edit"
    /\ final' = Compose(ProjectOutput(final), EditDistLog)
    /\ step' = "final_edit"
    /\ UNCHANGED <<call, test, it, logLoss, expectedEdit>>

ComposeFinalEdit ==
    /\ step = "final_edit"
    /\ final' = Compose(final, Chain(test[it + 1][2]))
    /\ step' = "distance"
    /\ UNCHANGED <<call, test, it, logLoss, expectedEdit>>

\* Mutant of AddDistance: the last exemplar only.
KeepLastDistance ==
    /\ step = "distance"
    /\ IF call = "log_loss"
       THEN logLoss' = TotalWeight(final) /\ UNCHANGED expectedEdit
       ELSE expectedEdit' = TotalWeight(final) /\ UNCHANGED logLoss
    /\ it' = it + 1
    /\ step' = "final" /\ final' = <<>>
    /\ UNCHANGED <<call, test>>

\* Both loops end by adding the shortest distance of the exemplar.
AddDistance ==
    /\ step = "distance"
    /\ IF call = "log_loss"
       THEN logLoss' = Product(logLoss, TotalWeight(final)) /\ UNCHANGED expectedEdit
       ELSE expectedEdit' = Product(expectedEdit, TotalWeight(final)) /\ UNCHANGED logLoss
    /\ it' = it + 1
    /\ step' = "final" /\ final' = <<>>
    /\ UNCHANGED <<call, test>>

\* log_loss returns, or expected_edit_distance.  (main calls one_best_edit in
\* between, which changes nothing here; Evaluator has it.)
ReturnScore ==
    /\ call \in {"log_loss", "expected_edit_distance"}
    /\ step = "final" /\ it = N
    /\ call' = IF call = "log_loss" THEN "expected_edit_distance" ELSE "return"
    /\ it' = 0
    /\ UNCHANGED <<test, step, final, logLoss, expectedEdit>>

EvalNext ==
    \/ call = "train" /\ CountNext /\ UNCHANGED evalVars
    \/ Evaluate
    \/ /\ \/ ComposeFinal \/ ComposePreFinalEdit \/ ComposeFinalEdit
          \/ AddDistance \/ ReturnScore
       /\ UNCHANGED <<vars, featVars, countVars>>

EvalSpec == EvalInit /\ [][EvalNext]_<<vars, featVars, countVars, evalVars>>

----------------------------------------------------------------------------
ProductOf(f(_), S) == FoldSet(LAMBDA e, acc : Product(f(e), acc), <<1, 1>>, S)

\* The probability the machine gives to an exemplar: over its paths.
Likelihood(exemplar) ==
    WeightOfPaths(LAMBDA p : <<1, 1>>, Paths(start, exemplar[1], exemplar[2]))

\* log_loss (evaluator.h:353-369) is the negative logarithm of the probability
\* of the test data: no path is lost and none counts twice in the compositions.
LogLossIsLikelihood ==
    call \in {"expected_edit_distance", "return"} =>
        logLoss = ProductOf(LAMBDA n : Likelihood(test[n]), 1..N)

\* The arcs leaving a state are normalised one input label at a time
\* (update_arc_weights), and yet the lower words an upper word can become have
\* probabilities that do not add up to more than 1: no state offers a choice
\* between two labels at the same place of the upper word.
ConditionalDistribution ==
    call = "log_loss" /\ it = 0 =>
        \A w \in {e[1] : e \in Exemplars} :
            LET total == SumOf(Likelihood, {e \in Exemplars : e[1] = w})
            IN  total[1] <= total[2]

\* A path with more than half of the probability is the best there is, so its
\* output is the one best.
GoldIsOneBest(exemplar) ==
    \E p \in Paths(start, exemplar[1], exemplar[2]) :
        LET w == WeightOfPaths(LAMBDA q : <<1, 1>>, {p}) IN 2 * w[1] > w[2]

\* evaluator.h:317-323 of expected_edit_distance: "computes the edit distance from
\* the gold example to the one best", which is 0 when the machine's one best is
\* the gold word of every exemplar.
ExpectedEditIsToTheOneBest ==
    call = "return" /\ (\A n \in 1..N : GoldIsOneBest(test[n]))
        => expectedEdit = <<1, 1>>
=============================================================================
