----------------------------- MODULE Evaluator -----------------------------
(***************************************************************************)
(* The part of Evaluator that measures edit distance: the constructor      *)
(* builds edit_dist_std, a machine with one state whose loops are the      *)
(* edits, and one_best_edit adds up, over the test data, the shortest      *)
(* distance of gold o edit_dist_std o one-best.                            *)
(*                                                                         *)
(* A symbol is its id; 0 is <EPS>.  What the trained machine decodes is    *)
(* any of the given paths, as its output labels with the epsilons of the   *)
(* ABS, DEL and FINAL arcs.  OpenFST's Compose, ShortestDistance and       *)
(* Reverse are modelled by what they compute on chains.                    *)
(***************************************************************************)
EXTENDS Integers, SequencesExt

CONSTANTS InSyms,     \* ids of isymbols, without 0
          OutSyms,    \* ids of osymbols, without 0
          Golds,      \* lower words of test data
          Paths,      \* output labels of best paths
          N,          \* test_data.size()
          Infinity    \* the distance of words that no path relates

ASSUME SymsAssumption == InSyms \subseteq Nat \ {0} /\ OutSyms \subseteq Nat \ {0}
ASSUME WordAssumption == /\ Golds \subseteq Seq(OutSyms)
                         /\ Paths \subseteq Seq(OutSyms \cup {0})
ASSUME SizeAssumption ==
    /\ N \in Nat /\ Infinity \in Nat
    /\ \A u \in Golds, v \in Paths : Len(u) + Len(v) < Infinity

VARIABLES stage,      \* the loop that is running
          arcs,       \* edit_dist_std: [in, out, cost]
          test,       \* test_data, with the best path of each exemplar
          ex,         \* it
          editDist    \* edit_dist

vars == <<stage, arcs, test, ex, editDist>>

Arc(in, out, cost) == [in |-> in, out |-> out, cost |-> cost]

----------------------------------------------------------------------------
\* What it costs to read in and write out.
CostsOf(in, out) == {e.cost : e \in {a \in arcs : a.in = in /\ a.out = out}}

\* Shortest distance of chain(u) o edit_dist_std o chain(v).  A state of the
\* composition is the number of symbols of u and of labels of v that are behind
\* it, d its distance from the start.  The arcs into the state <<m, n>> are edits,
\* and an epsilon of v is passed without one.
Through(d, u, v, m, n) ==
    LET deletions == IF m = 0 THEN {}
                     ELSE {d[<<m - 1, n>>] + c : c \in CostsOf(u[m], 0)}
        insertions == IF n = 0 THEN {}
                      ELSE {d[<<m, n - 1>>] + c : c \in CostsOf(0, v[n])}
        matches == IF m = 0 \/ n = 0 THEN {}
                   ELSE {d[<<m - 1, n - 1>>] + c : c \in CostsOf(u[m], v[n])}
        skips == IF n > 0 /\ v[n] = 0 THEN {d[<<m, n - 1>>]} ELSE {}
    IN  deletions \cup insertions \cup matches \cup skips

Distance(u, v) ==
    LET d[s \in (0..Len(u)) \X (0..Len(v))] ==
            IF s = <<0, 0>> THEN 0
            ELSE Min({Infinity} \cup Through(d, u, v, s[1], s[2]))
    IN  d[<<Len(u), Len(v)>>]

----------------------------------------------------------------------------
Init == /\ stage = "deletions"
        /\ arcs = {}
        /\ test \in [1..N -> [gold : Golds, best : Paths]]
        /\ ex = 1
        /\ editDist = 0

\* The three loops of the constructor.
AddDeletions ==
    /\ stage = "deletions"
    /\ arcs' = arcs \cup {Arc(s, 0, 1) : s \in InSyms}
    /\ stage' = "insertions"
    /\ UNCHANGED <<test, ex, editDist>>

\* Mutant of AddInsertions: label and weight in the wrong order.
AddSwappedInsertions ==
    /\ stage = "insertions"
    /\ arcs' = arcs \cup {Arc(0, 1, s) : s \in OutSyms}
    /\ stage' = "substitutions"
    /\ UNCHANGED <<test, ex, editDist>>

AddInsertions ==
    /\ stage = "insertions"
    /\ arcs' = arcs \cup {Arc(0, s, 1) : s \in OutSyms}
    /\ stage' = "substitutions"
    /\ UNCHANGED <<test, ex, editDist>>

\* Mutant of AddSubstitutions: equal symbols cost as much as different ones.
AddCostlySubstitutions ==
    /\ stage = "substitutions"
    /\ arcs' = arcs \cup {Arc(s, t, 1) : s \in InSyms, t \in OutSyms}
    /\ stage' = "score"
    /\ UNCHANGED <<test, ex, editDist>>

AddSubstitutions ==
    /\ stage = "substitutions"
    /\ arcs' = arcs \cup {Arc(s, t, IF s = t THEN 0 ELSE 1) : s \in InSyms, t \in OutSyms}
    /\ stage' = "score"
    /\ UNCHANGED <<test, ex, editDist>>

\* The chain that is composed last: Project to the output side, then Reverse.
Composed(best) == Reverse(best)

\* Mutant of ScoreExemplar: the distance replaces the sum.
ScoreLastExemplar ==
    /\ stage = "score" /\ ex <= N
    /\ editDist' = Distance(test[ex].gold, Composed(test[ex].best))
    /\ ex' = ex + 1
    /\ UNCHANGED <<stage, arcs, test>>

\* One pass of the loop of one_best_edit.
ScoreExemplar ==
    /\ stage = "score" /\ ex <= N
    /\ editDist' = editDist + Distance(test[ex].gold, Composed(test[ex].best))
    /\ ex' = ex + 1
    /\ UNCHANGED <<stage, arcs, test>>

Return ==
    /\ stage = "score" /\ ex > N
    /\ stage' = "done"
    /\ UNCHANGED <<arcs, test, ex, editDist>>

Next == AddDeletions \/ AddInsertions \/ AddSubstitutions \/ ScoreExemplar \/ Return

Spec == Init /\ [][Next]_vars

----------------------------------------------------------------------------
\* Levenshtein distance of the words that two chains of labels spell, defined
\* without the machine: choose which letters of the two are matched with each
\* other, in order; every letter that is left over and every match of different
\* letters costs 1.
Letters(labels) == {k \in 1..Len(labels) : labels[k] # 0}

Monotone(M) == \A p, q \in M : p # q => (p[1] < q[1] /\ p[2] < q[2])
                                        \/ (q[1] < p[1] /\ q[2] < p[2])

Levenshtein(u, v) ==
    LET Cost(M) == Cardinality(Letters(u)) + Cardinality(Letters(v))
                     - 2 * Cardinality(M)
                     + Cardinality({p \in M : u[p[1]] # v[p[2]]})
    IN  Min({Cost(M) : M \in {S \in SUBSET (Letters(u) \X Letters(v)) : Monotone(S)}})

Total(d) ==
    LET sum[k \in 0..N] == IF k = 0 THEN 0 ELSE sum[k - 1] + d[k]
    IN  sum[N]

TypeOK ==
    /\ stage \in {"deletions", "insertions", "substitutions", "score", "done"}
    /\ arcs \subseteq [in : InSyms \cup {0}, out : OutSyms \cup {0}, cost : {0, 1}]
    /\ ex \in 1..(N + 1)
    /\ editDist \in 0..(Infinity * (ex - 1))

\* The machine the constructor builds measures Levenshtein distance: what
\* one_best_edit returns (evaluator.h:290-315) is the sum of the distances of
\* the gold words from the words composed with them, the epsilons of the best
\* paths notwithstanding (RmEpsilon is commented out, line 307).
EditsAreLevenshtein ==
    stage = "done" =>
        editDist = Total([k \in 1..N |-> Levenshtein(test[k].gold,
                                                     Composed(test[k].best))])

\* evaluator.h:283-289: "computes the edit distance from the gold example to the
\* one best".
EditDistanceToTheOneBest ==
    stage = "done" =>
        editDist = Total([k \in 1..N |-> Levenshtein(test[k].gold, test[k].best)])
=============================================================================
