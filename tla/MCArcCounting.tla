--------------------------- MODULE MCArcCounting ---------------------------
(***************************************************************************)
(* Instances of LogEvaluator: all pairs of words up to the bounds, and       *)
(* scores with which the arcs of a state, and states, have different        *)
(* weights.                                                                 *)
(***************************************************************************)
EXTENDS LogEvaluator

CONSTANTS a, b,          \* letters
          MaxWord,       \* bound on the length of an upper word
          MaxOutput,     \* bound on the length of a lower word
          MaxTestWord,   \* bound on the length of an upper word of the test data
          MaxStates,     \* bound on the states of the machine
          MaxArcs        \* bound on the arcs of a state

\* Words that are not empty; the upper one ends with a boundary symbol.
MCExemplars ==
    {<<Append(w, Sharp), y>> : w \in UNION {[1..n -> V1] : n \in 1..MaxWord},
                               y \in UNION {[1..n -> V2] : n \in 1..MaxOutput}}

MCTestExemplars == {e \in MCExemplars : Len(e[1]) <= MaxTestWord + 1}

MCScores == {[s \in 1..MaxStates |-> [k \in 1..MaxArcs |-> 1 + ((s + k) % m)]] :
                m \in {1, 3}}

\* One arc of a state outweighs the others, the same in every other state, so
\* that a path can have more than half of the probability.
MCSkewedScores ==
    {[s \in 1..MaxStates |-> [k \in 1..MaxArcs |-> IF k = heavy[s % 2] THEN 10 ELSE 1]] :
        heavy \in [{0, 1} -> 1..MaxArcs]}

MCEditWeight == <<1, 2>>
============================================================================
