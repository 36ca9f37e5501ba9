----------------------------- MODULE EMTrainer -----------------------------
(***************************************************************************)
(* WFST_Trainer_Local::train: an outer EM loop whose M-step is a           *)
(* dlib::find_min over value2 and gradient2.  Both have a side effect: they*)
(* write the point they are asked about into the arc weights of the very   *)
(* machine that the E-step composes with, while find_min moves its own     *)
(* copy of the weights (tmp_weights) and may return to a point other than  *)
(* the last one it evaluated.  The model tracks which point is where.      *)
(*                                                                         *)
(* A weight vector is an element of Theta.  A count is known by the        *)
(* exemplar and the point it was computed from.                            *)
(***************************************************************************)
EXTENDS Integers, Sequences

CONSTANTS Theta,        \* weight vectors
          Theta0,       \* the weights main() starts with, all 0.0
          N,            \* data_formatted.size()
          OuterMax,     \* outer_max_iterations
          InnerMax,     \* inner_max_iterations: 5 in the experiments (dlib takes
                        \* 0 for no limit, which is left out)
          LineMax,      \* lbfgs_search_strategy::get_max_line_search_iterations
          Debug         \* debug_mode

ASSUME ThetaAssumption == Theta0 \in Theta
ASSUME BoundAssumption == /\ N \in Nat \ {0} /\ OuterMax \in Nat
                          /\ InnerMax \in Nat \ {0} /\ LineMax \in Nat \ {0}
ASSUME DebugAssumption == Debug \in BOOLEAN

VARIABLES pc,         \* where train and find_min are
          outer,      \* iteration_num
          ex,         \* exemplar_num
          arcTheta,   \* the point the arcs of *fst realise
          tmp,        \* tmp_weights, find_min's x
          weights,    \* the member weights
          observed,   \* what is added up in observed_counts
          expected,   \* what is added up in expected_counts
          inner,      \* _cur_iter of the stop strategy
          prev,       \* the point whose value is _prev_funct_value
          fval,       \* the point whose value is find_min's f_value
          grad,       \* find_min's g: the point asked for and what it was made of
          tried,      \* points this line search knows the value of
          itr         \* itr of line_search

vars == <<pc, outer, ex, arcTheta, tmp, weights, observed, expected,
          inner, prev, fval, grad, tried, itr>>

findMin == <<inner, prev, fval, grad, tried, itr>>

\* The constructor: update_arc_weights() realises the initial weights.
Init == /\ pc = "outer"
        /\ outer = 0
        /\ ex = 0
        /\ arcTheta = Theta0
        /\ tmp = Theta0
        /\ weights = Theta0
        /\ observed = <<>>
        /\ expected = <<>>
        /\ inner = 0
        /\ prev = Theta0 /\ fval = Theta0
        /\ grad = [at |-> Theta0, expected |-> <<>>]
        /\ tried = {}
        /\ itr = 0

----------------------------------------------------------------------------
\* The outer loop.

\* Mutant of BeginIteration: the counts are not reset.
BeginIterationKeepingCounts ==
    /\ pc = "outer" /\ outer < OuterMax
    /\ ex' = 0
    /\ pc' = "estep"
    /\ UNCHANGED <<outer, arcTheta, tmp, weights, observed, expected, findMin>>

\* for (iteration_num ...): reset observed_counts.
BeginIteration ==
    /\ pc = "outer" /\ outer < OuterMax
    /\ observed' = <<>>
    /\ ex' = 0
    /\ pc' = "estep"
    /\ UNCHANGED <<outer, arcTheta, tmp, weights, expected, findMin>>

\* compose the next exemplar with *fst and calculate_observed_counts.
CountExemplar ==
    /\ pc = "estep" /\ ex < N
    /\ observed' = Append(observed, [ex |-> ex, theta |-> arcTheta])
    /\ ex' = ex + 1
    /\ UNCHANGED <<pc, outer, arcTheta, tmp, weights, expected, findMin>>

\* find_min starts with a new stop strategy.
BeginFindMin ==
    /\ pc = "estep" /\ ex >= N
    /\ inner' = 0
    /\ pc' = "value"
    /\ UNCHANGED <<outer, ex, arcTheta, tmp, weights, observed, expected,
                   prev, fval, grad, tried, itr>>

\* Mutant of MStep: the arcs are left as the minimisation left them.
MStepWithoutUpdate ==
    /\ pc = "mstep"
    /\ outer' = outer + 1
    /\ pc' = "outer"
    /\ UNCHANGED <<ex, arcTheta, tmp, weights, observed, expected, findMin>>

\* M-step: update_arc_weights(tmp_weights).
MStep ==
    /\ pc = "mstep"
    /\ arcTheta' = tmp
    /\ outer' = outer + 1
    /\ pc' = "outer"
    /\ UNCHANGED <<ex, tmp, weights, observed, expected, findMin>>

Return ==
    /\ pc = "outer" /\ outer >= OuterMax
    /\ pc' = "done"
    /\ UNCHANGED <<outer, ex, arcTheta, tmp, weights, observed, expected, findMin>>

----------------------------------------------------------------------------
\* The objective.

\* value2: update_arc_weights, then the likelihood of the data.
Value2(x) == /\ arcTheta' = x
             /\ fval' = x

\* Mutant of Gradient2: expected_counts are not reset.
Gradient2KeepingCounts(x) ==
    /\ expected' = Append(expected, [theta |-> x, observed |-> observed])
    /\ grad' = [at |-> x, expected |-> expected']
    /\ IF Debug THEN arcTheta' \in Theta ELSE arcTheta' = x

\* gradient2: update_arc_weights, reset expected_counts and recompute them
\* from observed_counts.  In debug mode dlib::derivative then calls value2
\* around x, and the arcs stay where its last call put them.
Gradient2(x) ==
    /\ expected' = <<[theta |-> x, observed |-> observed]>>
    /\ grad' = [at |-> x, expected |-> expected']
    /\ IF Debug THEN arcTheta' \in Theta ELSE arcTheta' = x

----------------------------------------------------------------------------
\* dlib::find_min and line_search, as far as train depends on them.

\* f_value = f(x)
FirstValue ==
    /\ pc = "value"
    /\ Value2(tmp)
    /\ pc' = "gradient"
    /\ UNCHANGED <<outer, ex, tmp, weights, observed, expected,
                   inner, prev, grad, tried, itr>>

\* g = der(x)
FirstGradient ==
    /\ pc = "gradient"
    /\ Gradient2(tmp)
    /\ pc' = "check"
    /\ UNCHANGED <<outer, ex, tmp, weights, observed,
                   inner, prev, fval, tried, itr>>

\* Mutant of Continue: the iterations are not counted.
ContinueUncounted ==
    /\ pc = "check"
    /\ inner' = 1
    /\ inner > 0 => fval # prev
    /\ prev' = fval
    /\ tried' = {tmp}
    /\ itr' = 0
    /\ pc' = "search"
    /\ UNCHANGED <<outer, ex, arcTheta, tmp, weights, observed, expected, fval, grad>>

\* Mutant of Continue: the iterations are counted and not compared.
ContinueUnlimited ==
    /\ pc = "check"
    /\ inner' = inner + 1
    /\ inner > 0 => fval # prev
    /\ prev' = fval
    /\ tried' = {tmp}
    /\ itr' = 0
    /\ pc' = "search"
    /\ UNCHANGED <<outer, ex, arcTheta, tmp, weights, observed, expected, fval, grad>>

\* objective_delta_stop_strategy: the first call continues; a later one
\* stops at the iteration limit or when the value has moved too little,
\* which it has when it is the value of the same point.
Continue ==
    /\ pc = "check"
    /\ inner' = inner + 1
    /\ inner > 0 => inner' <= InnerMax /\ fval # prev
    /\ prev' = fval
    /\ tried' = {tmp}
    /\ itr' = 0
    /\ pc' = "search"
    /\ UNCHANGED <<outer, ex, arcTheta, tmp, weights, observed, expected, fval, grad>>

Stop ==
    /\ pc = "check"
    /\ inner > 0
    /\ inner' = inner + 1
    /\ pc' = "mstep"
    /\ UNCHANGED <<outer, ex, arcTheta, tmp, weights, observed, expected,
                   prev, fval, grad, tried, itr>>

\* line_search on a zero gradient returns 0 before it evaluates anything.
NoStep ==
    /\ pc = "search" /\ itr = 0
    /\ pc' = "check"
    /\ UNCHANGED <<outer, ex, arcTheta, tmp, weights, observed, expected, findMin>>

\* val = f(alpha): the bracketing phase may use up max_iter, and sectioning
\* still evaluates once.
TrialValue ==
    /\ pc = "search" /\ itr <= LineMax
    /\ \E x \in Theta : Value2(x)
    /\ itr' = itr + 1
    /\ pc' = "trial"
    /\ UNCHANGED <<outer, ex, tmp, weights, observed, expected, inner, prev, grad, tried>>

\* val_der = der(alpha)
TrialGradient ==
    /\ pc = "trial"
    /\ Gradient2(fval)
    /\ tried' = tried \cup {fval}
    /\ pc' = "search"
    /\ UNCHANGED <<outer, ex, tmp, weights, observed, inner, prev, fval, itr>>

\* x += alpha * s: line_search returns alpha, the last point tried, or b,
\* an end of its bracket, which is a point it tried before.
TakeStep ==
    /\ pc = "search" /\ itr > 0
    /\ tmp' \in tried
    /\ pc' = "check"
    /\ UNCHANGED <<outer, ex, arcTheta, weights, observed, expected, findMin>>

Next == \/ BeginIteration \/ CountExemplar \/ BeginFindMin \/ MStep \/ Return
        \/ FirstValue \/ FirstGradient \/ Continue \/ Stop
        \/ NoStep \/ TrialValue \/ TrialGradient \/ TakeStep

Spec == Init /\ [][Next]_vars

\* train runs on its one thread until it returns.
FairSpec == Spec /\ WF_vars(Next)

----------------------------------------------------------------------------
Counts == [ex : 0..(N - 1), theta : Theta]

TypeOK ==
    /\ pc \in {"outer", "estep", "value", "gradient", "check",
               "search", "trial", "mstep", "done"}
    /\ outer \in 0..OuterMax /\ ex \in 0..N
    /\ arcTheta \in Theta /\ tmp \in Theta /\ weights \in Theta
    /\ observed \in Seq(Counts) /\ Len(observed) <= N
    /\ expected \in Seq([theta : Theta, observed : Seq(Counts)])
    /\ inner \in 0..(InnerMax + 1)
    /\ prev \in Theta /\ fval \in Theta
    /\ grad \in [at : Theta, expected : Seq([theta : Theta, observed : Seq(Counts)])]
    /\ tried \subseteq Theta
    /\ itr \in 0..(LineMax + 1)

\* Between iterations the machine realises exactly the weights find_min
\* settled on, whatever it evaluated last: the next E-step, and the
\* evaluator after the last iteration, see the trained model.
ArcsRealiseWeights ==
    pc \in {"outer", "estep", "done"} => arcTheta = tmp

\* The counts the gradient uses are those of one E-step: each exemplar once,
\* in order, all of them under the one model the iteration started from.
OneEStep ==
    pc \notin {"outer", "done"} =>
        /\ \A n \in 1..Len(observed) :
              /\ observed[n].ex = n - 1
              /\ observed[n].theta = observed[1].theta
        /\ Len(observed) = ex
        /\ pc # "estep" => ex = N

\* A gradient handed to find_min is built from the expected counts under
\* the point it asked about, once, and from this iteration's E-step.
GradientOfOnePoint ==
    pc \in {"check", "search", "trial"} =>
        grad.expected = <<[theta |-> grad.at, observed |-> observed]>>

\* wfst-train-local-fast.cpp:170-171 of gradient2: "the weight vector where
\* the gradient should be computed", "the gradient value at that point".
\* value2 is the likelihood under the point it is asked about alone, so its
\* gradient there is made of counts observed under that point.
GradientAtThatPoint ==
    pc \in {"check", "search", "trial"} =>
        \A n \in 1..Len(observed) : observed[n].theta = grad.at

\* Training returns.
Terminates == <>(pc = "done")
=============================================================================
