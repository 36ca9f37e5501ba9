----------------------------- MODULE PathCounts -----------------------------
(***************************************************************************)
(* What the E-step promises, without compositions: the paths of the        *)
(* machine over a pair of words, enumerated, and what they say of the      *)
(* counts.                                                                 *)
(***************************************************************************)
EXTENDS ArcCounting

\* The paths from state n that read u and write v, as sequences of <<state, arc>>.
RECURSIVE Paths(_, _, _)
Paths(n, u, v) ==
    IF n = 0 THEN IF u = <<>> /\ v = <<>> THEN {<<>>} ELSE {}
    ELSE LET Fits(x, t) == x = Eps \/ (t # <<>> /\ t[1] = x)
             Rest(x, t) == IF x = Eps THEN t ELSE Tail(t)
             usable == {k \in 1..Len(arcs[n]) : /\ Fits(arcs[n][k].in, u)
                                                /\ Fits(arcs[n][k].out, v)}
         IN  UNION {{<<<<n, k>>>> \o p :
                       p \in Paths(arcs[n][k].to, Rest(arcs[n][k].in, u),
                                                  Rest(arcs[n][k].out, v))} :
                     k \in usable}

ExemplarPaths(n) == Paths(start, data[n][1], data[n][2])

\* The sum of f over the paths in ps, each times its weight.
WeightOfPaths(f(_), ps) ==
    LET w == LogWeights(score)
    IN  SumOf(LAMBDA p : FoldLeft(LAMBDA x, e : Product(x, w[e[1]][e[2]].p), f(p), p), ps)

Occurrences(r, p) == Cardinality({m \in 1..Len(p) : p[m] = <<r.src, r.arc>>})

\* After each exemplar, an arc's observed count is the expected number of
\* times the arc is taken, over all the paths of the machine for the
\* exemplars so far: forward and backward sums are of the right paths, and
\* the arc number of every lattice arc is that of the arc it came from.
CountsArePathCounts ==
    phase = "exemplar" =>
        \A r \in Arcs :
            LET Taken(n) ==
                  LET ps == ExemplarPaths(n)
                  IN  Quotient(WeightOfPaths(LAMBDA p : <<Occurrences(r, p), 1>>, ps),
                               WeightOfPaths(LAMBDA p : <<1, 1>>, ps))
            IN  observed[r.id] = SumOf(Taken, 1..ex)

\* Nothing is lost or credited to another kind of arc, by the names that
\* arc_to_action gives: every exemplar ends once, absorbs its whole upper
\* string, and reads and writes every letter once.
CountsOfActions ==
    LET Total(acts) ==
          SumOf(LAMBDA r : observed[r.id],
                {r \in Arcs : ActionsNamed({r.id}) \cap acts # {}})
        Size(f(_)) == <<MapThenSumSet(f, 1..ex), 1>>
        Letters(n) == SelectSeq(data[n][1], LAMBDA x : x # Sharp)
    IN  phase = "exemplar" =>
            /\ Total({"FINAL"})      = <<ex, 1>>
            /\ Total({"ABS"})        = Size(LAMBDA n : Len(data[n][1]))
            /\ Total({"SUB", "DEL"}) = Size(LAMBDA n : Len(Letters(n)))
            /\ Total({"INS", "SUB"}) = Size(LAMBDA n : Len(data[n][2]))

RECURSIVE Delannoy(_, _)
Delannoy(m, n) ==
    IF m = 0 \/ n = 0 THEN 1
    ELSE Delannoy(m - 1, n) + Delannoy(m, n - 1) + Delannoy(m - 1, n - 1)

\* The machine has exactly one path for every way to edit one word into the
\* other: no edit sequence is impossible in some context and none counts
\* twice, so that the sum over paths is the probability of the pair.
OnePathPerEditScript ==
    phase = "outer" =>
        \A n \in 1..N :
            LET w == SelectSeq(data[n][1], LAMBDA x : x # Sharp)
            IN  Cardinality(ExemplarPaths(n)) = Delannoy(Len(w), Len(data[n][2]))

=============================================================================
