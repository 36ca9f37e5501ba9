-------------------------- MODULE EMTrainer_proofs --------------------------
(***************************************************************************)
(* The safety properties of the trainer, for every set of weight vectors,  *)
(* every number of exemplars and all iteration limits.                     *)
(***************************************************************************)
EXTENDS EMTrainer, TLAPS

Minimising == {"check", "search", "trial"}

(* Where the trainer is.  The counters are compared with their limits in a *)
(* different action from the one that advances them, and during the E-step *)
(* the arcs do not move.                                                   *)
Progress ==
    /\ pc \notin {"outer", "done"} => outer < OuterMax
    /\ pc \in {"value", "gradient"} => inner = 0
    /\ pc \in Minimising => inner <= InnerMax
    /\ pc = "estep" => \A n \in 1..Len(observed) : observed[n].theta = arcTheta

(* The inductive invariant.  The type invariant needs OneEStep and Progress *)
(* for the bounds of the counters, OneEStep needs Progress for the points. *)
IInv == TypeOK /\ ArcsRealiseWeights /\ OneEStep /\ GradientOfOnePoint /\ Progress

-----------------------------------------------------------------------------

(* Before the first iteration nothing has been counted. *)
LEMMA InitIInv == Init => IInv
<1> SUFFICES ASSUME Init PROVE IInv  OBVIOUS
<1> USE ThetaAssumption, BoundAssumption DEF Init
<1>1. TypeOK  BY DEF TypeOK, Counts
<1>2. ArcsRealiseWeights /\ OneEStep /\ GradientOfOnePoint
  BY DEF ArcsRealiseWeights, OneEStep, GradientOfOnePoint
<1>3. Progress  BY DEF Progress, Minimising
<1> QED  BY <1>1, <1>2, <1>3 DEF IInv

(* The reset of the counts: from here on they are those of one E-step. *)
LEMMA BeginIterationStep == IInv /\ BeginIteration => IInv'
<1> SUFFICES ASSUME IInv, BeginIteration PROVE IInv'  OBVIOUS
<1> USE BoundAssumption DEF BeginIteration, findMin, IInv
<1>1. TypeOK'  BY DEF TypeOK, Counts
<1>2. (ArcsRealiseWeights /\ OneEStep /\ GradientOfOnePoint)'
  BY DEF ArcsRealiseWeights, OneEStep, GradientOfOnePoint
<1>3. Progress'  BY DEF Progress, Minimising, TypeOK
<1> QED  BY <1>1, <1>2, <1>3

(* An exemplar is counted under the model the E-step began with. *)
LEMMA CountExemplarStep == IInv /\ CountExemplar => IInv'
<1> SUFFICES ASSUME IInv, CountExemplar PROVE IInv'  OBVIOUS
<1> USE BoundAssumption DEF CountExemplar, findMin
<1> DEFINE new == [ex |-> ex, theta |-> arcTheta]
<1>1. ex \in 0..(N - 1) /\ arcTheta \in Theta /\ observed \in Seq(Counts) /\ Len(observed) = ex
  BY DEF IInv, TypeOK, OneEStep
<1>2. new \in Counts  BY <1>1 DEF Counts
<1>3. observed' \in Seq(Counts) /\ Len(observed') = ex + 1  BY <1>1, <1>2
<1>4. /\ \A n \in 1..ex : observed'[n] = observed[n]
      /\ observed'[ex + 1] = new
  BY <1>1, <1>2
<1>5. \A n \in 1..Len(observed') : observed'[n].ex = n - 1 /\ observed'[n].theta = arcTheta'
  <2> SUFFICES ASSUME NEW n \in 1..(ex + 1)
               PROVE  observed'[n].ex = n - 1 /\ observed'[n].theta = arcTheta
    BY <1>3
  <2>1. CASE n \in 1..ex
    BY <2>1, <1>1, <1>4 DEF IInv, OneEStep, Progress
  <2>2. CASE n = ex + 1
    BY <2>2, <1>1, <1>4
  <2> QED  BY <2>1, <2>2, <1>1
<1>6. TypeOK'  BY <1>1, <1>3 DEF IInv, TypeOK
<1>7. OneEStep'  BY <1>3, <1>5, <1>1 DEF OneEStep
<1>8. (ArcsRealiseWeights /\ GradientOfOnePoint)'
  BY DEF IInv, ArcsRealiseWeights, GradientOfOnePoint
<1>9. Progress'  BY <1>5 DEF IInv, Progress, Minimising
<1> QED  BY <1>6, <1>7, <1>8, <1>9 DEF IInv

(* Steps that change neither a count nor a gradient. *)
LEMMA ControlStep ==
    IInv /\ (BeginFindMin \/ Return \/ Continue \/ Stop \/ NoStep \/ TakeStep) => IInv'
<1> SUFFICES ASSUME IInv, BeginFindMin \/ Return \/ Continue \/ Stop \/ NoStep \/ TakeStep
             PROVE  IInv'
  OBVIOUS
<1> USE BoundAssumption
             DEF BeginFindMin, Return, Continue, Stop, NoStep, TakeStep, findMin, IInv
<1>1. TypeOK'  BY DEF TypeOK, Progress, Minimising
<1>2. ArcsRealiseWeights'  BY DEF ArcsRealiseWeights
<1>3. OneEStep'  BY DEF OneEStep, TypeOK
<1>4. GradientOfOnePoint'  BY DEF GradientOfOnePoint
<1>5. Progress'  BY DEF Progress, Minimising, TypeOK
<1> QED  BY <1>1, <1>2, <1>3, <1>4, <1>5

(* The M-step puts the arcs back to the weights find_min returned. *)
LEMMA MStepStep == IInv /\ MStep => IInv'
<1> SUFFICES ASSUME IInv, MStep PROVE IInv'  OBVIOUS
<1> USE BoundAssumption DEF MStep, findMin, IInv
<1>1. TypeOK'  BY DEF TypeOK, Progress
<1>2. (ArcsRealiseWeights /\ OneEStep /\ GradientOfOnePoint)'
  BY DEF ArcsRealiseWeights, OneEStep, GradientOfOnePoint
<1>3. Progress'  BY DEF Progress, Minimising
<1> QED  BY <1>1, <1>2, <1>3

(* A value moves the arcs, which the counts already made do not notice. *)
LEMMA ValueStep == IInv /\ (FirstValue \/ TrialValue) => IInv'
<1> SUFFICES ASSUME IInv, FirstValue \/ TrialValue PROVE IInv'  OBVIOUS
<1> USE BoundAssumption DEF FirstValue, TrialValue, Value2, IInv
<1>1. TypeOK'  BY DEF TypeOK
<1>2. (ArcsRealiseWeights /\ OneEStep)'  BY DEF ArcsRealiseWeights, OneEStep
<1>3. GradientOfOnePoint'  BY DEF GradientOfOnePoint
<1>4. Progress'  BY DEF Progress, Minimising
<1> QED  BY <1>1, <1>2, <1>3, <1>4

(* A gradient is made of counts that were reset for it. *)
LEMMA GradientStep == IInv /\ (FirstGradient \/ TrialGradient) => IInv'
<1> SUFFICES ASSUME IInv, FirstGradient \/ TrialGradient PROVE IInv'  OBVIOUS
<1> PICK x \in Theta : Gradient2(x) /\ observed' = observed
  BY DEF FirstGradient, TrialGradient, IInv, TypeOK
<1> USE BoundAssumption DEF FirstGradient, TrialGradient
<1>1. /\ expected' = <<[theta |-> x, observed |-> observed]>>
      /\ grad' = [at |-> x, expected |-> expected']
      /\ arcTheta' \in Theta
  BY DEF Gradient2
<1>2. [theta |-> x, observed |-> observed] \in [theta : Theta, observed : Seq(Counts)]
  BY DEF IInv, TypeOK
<1>3. expected' \in Seq([theta : Theta, observed : Seq(Counts)])
  BY <1>1, <1>2
<1>4. TypeOK'  BY <1>1, <1>3 DEF IInv, TypeOK
<1>5. (ArcsRealiseWeights /\ OneEStep)'  BY DEF IInv, ArcsRealiseWeights, OneEStep
<1>6. GradientOfOnePoint'  BY <1>1 DEF GradientOfOnePoint
<1>7. Progress'  BY DEF IInv, Progress, Minimising
<1> QED  BY <1>4, <1>5, <1>6, <1>7 DEF IInv

(* No step leaves the inductive invariant. *)
LEMMA NextIInv == IInv /\ [Next]_vars => IInv'
<1> SUFFICES ASSUME IInv, [Next]_vars PROVE IInv'  OBVIOUS
<1>1. CASE BeginIteration  BY <1>1, BeginIterationStep
<1>2. CASE CountExemplar  BY <1>2, CountExemplarStep
<1>3. CASE MStep  BY <1>3, MStepStep
<1>4. CASE BeginFindMin \/ Return \/ Continue \/ Stop \/ NoStep \/ TakeStep
  BY <1>4, ControlStep
<1>5. CASE FirstValue \/ TrialValue  BY <1>5, ValueStep
<1>6. CASE FirstGradient \/ TrialGradient  BY <1>6, GradientStep
<1>7. CASE UNCHANGED vars
  BY <1>7 DEF vars, findMin, IInv, TypeOK, ArcsRealiseWeights, OneEStep,
              GradientOfOnePoint, Progress
<1> QED  BY <1>1, <1>2, <1>3, <1>4, <1>5, <1>6, <1>7 DEF Next

-----------------------------------------------------------------------------

(* The trainer's variables keep their types, and its counters their bounds *)
(* (wfst-train-local-fast.cpp:235-301).                                    *)
THEOREM TypeCorrect == Spec => []TypeOK
<1>1. IInv => TypeOK  BY DEF IInv
<1> QED  BY <1>1, InitIInv, NextIInv, PTL DEF Spec

(* Between iterations the arcs of *fst have the weights find_min settled   *)
(* on, whatever value2 and gradient2 wrote into them last                  *)
(* (wfst-train-local-fast.cpp:299).                                        *)
THEOREM ArcsRealiseWeightsCorrect == Spec => []ArcsRealiseWeights
<1>1. IInv => ArcsRealiseWeights  BY DEF IInv
<1> QED  BY <1>1, InitIInv, NextIInv, PTL DEF Spec

(* The counts in use are those of one E-step: every exemplar once, all of  *)
(* them under one model (wfst-train-local-fast.cpp:262-277).               *)
THEOREM OneEStepCorrect == Spec => []OneEStep
<1>1. IInv => OneEStep  BY DEF IInv
<1> QED  BY <1>1, InitIInv, NextIInv, PTL DEF Spec

(* A gradient is made of the expected counts of the point it was asked for *)
(* and of the current observed counts (wfst-train-local-fast.cpp:199-203). *)
THEOREM GradientOfOnePointCorrect == Spec => []GradientOfOnePoint
<1>1. IInv => GradientOfOnePoint  BY DEF IInv
<1> QED  BY <1>1, InitIInv, NextIInv, PTL DEF Spec
=============================================================================
