---------------------------- MODULE Composition ----------------------------
(***************************************************************************)
(* Weighted automata and their composition, as the trainer and the         *)
(* evaluator use them of OpenFST.  A log weight is modelled by the number   *)
(* it is the negative logarithm of, a fraction <<numerator, denominator>>.  *)
(* A weight of either semiring is a pair [p, r] of the expectation          *)
(* semiring; r is 0 in a log weight.                                        *)
(***************************************************************************)
EXTENDS ContextEdit, SequencesExt

----------------------------------------------------------------------------
\* Fractions, kept in lowest terms.

gcd[p \in Nat \X Nat] == IF p[2] = 0 THEN p[1] ELSE gcd[<<p[2], p[1] % p[2]>>]

Gcd(m, n) == gcd[<<m, n>>]

Reduced(n, d) == LET g == Gcd(n, d) IN <<n \div g, d \div g>>

\* Nothing is computed for a factor 1 or a summand 0.
Product(x, z) ==
    LET g == Gcd(x[1], z[2])
        h == Gcd(z[1], x[2])
    IN  CASE x = <<1, 1>> -> z
          [] z = <<1, 1>> -> x
          [] OTHER -> Reduced((x[1] \div g) * (z[1] \div h), (x[2] \div h) * (z[2] \div g))

\* logadd, and the sum of the semiring
Sum(x, z) ==
    LET g == Gcd(x[2], z[2])
    IN  CASE x = <<0, 1>> -> z
          [] z = <<0, 1>> -> x
          [] OTHER -> Reduced(x[1] * (z[2] \div g) + z[1] * (x[2] \div g),
                              x[2] * (z[2] \div g))

Quotient(x, z) == Product(x, <<z[2], z[1]>>)

SumOf(f(_), S) == FoldSet(LAMBDA e, acc : Sum(f(e), acc), <<0, 1>>, S)

\* Weights.

One == [p |-> <<1, 1>>, r |-> <<0, 1>>]

\* ExpectationWeight::Times
Times(x, z) == [p |-> Product(x.p, z.p),
                r |-> Sum(Product(x.p, z.r), Product(z.p, x.r))]

----------------------------------------------------------------------------
\* Automata: states 0..n, for each the sequence of its arcs.

FstArc(in, out, weight, to) == [in |-> in, out |-> out, w |-> weight, to |-> to]

States(fst) == DOMAIN fst.out

\* string_to_logfst; map_to_feature_arcs(zero = true) gives the same.
Chain(s) ==
    [start |-> 0, final |-> {Len(s)},
     out |-> [q \in 0..Len(s) |->
                IF q < Len(s) THEN <<FstArc(s[q + 1], s[q + 1], One, q + 1)>> ELSE <<>>]]

ArcsInto(fst, t) ==
    {e \in UNION {{s} \X DOMAIN fst.out[s] : s \in States(fst)} :
        fst.out[e[1]][e[2]].to = t}

\* ShortestDistance: sums over the paths from the start to a state ...
Forward(fst) ==
    LET alphas[t \in States(fst)] ==
            Sum(IF t = fst.start THEN <<1, 1>> ELSE <<0, 1>>,
                SumOf(LAMBDA e : Product(alphas[e[1]], fst.out[e[1]][e[2]].w.p),
                      ArcsInto(fst, t)))
    IN  alphas

\* ... and, reversed, from a state to the end.
Backward(fst) ==
    LET betas[s \in States(fst)] ==
            Sum(IF s \in fst.final THEN <<1, 1>> ELSE <<0, 1>>,
                SumOf(LAMBDA k : Product(fst.out[s][k].w.p, betas[fst.out[s][k].to]),
                      1..Len(fst.out[s])))
    IN  betas

----------------------------------------------------------------------------
\* fst::Compose, with Connect.  A state of the composition of A and B is a triple
\* <<s, t, f>> of a state of A, one of B and the filter.

Pairs(A, B) == States(A) \X States(B) \X {0, 1}

\* The pairs of arcs that are taken together, 0 for an automaton that stays where
\* it is: B moves alone on an empty input, A on an empty output, or both on one
\* symbol.  The filter keeps paths that differ only in the order of lone moves
\* from counting twice: A does not move alone after B has (f = 1).
Matches(A, B, q) ==
    LET xs == A.out[q[1]]
        zs == B.out[q[2]]
    IN  {m \in (0..Len(xs)) \X (0..Len(zs)) :
           \/ m[1] = 0 /\ m[2] # 0 /\ zs[m[2]].in = Eps
           \/ m[1] # 0 /\ m[2] # 0 /\ xs[m[1]].out # Eps /\ zs[m[2]].in = xs[m[1]].out
           \/ m[1] # 0 /\ m[2] = 0 /\ xs[m[1]].out = Eps /\ q[3] = 0}

\* The arc for a pair of arcs, to a triple.
Joined(A, B, q, m) ==
    LET Idle(s) == FstArc(Eps, Eps, One, s)
        x == IF m[1] = 0 THEN Idle(q[1]) ELSE A.out[q[1]][m[1]]
        z == IF m[2] = 0 THEN Idle(q[2]) ELSE B.out[q[2]][m[2]]
        lone == m[1] = 0 /\ \E n \in 1..Len(A.out[q[1]]) : A.out[q[1]][n].out = Eps
    IN  FstArc(x.in, z.out, Times(x.w, z.w), <<x.to, z.to, IF lone THEN 1 ELSE 0>>)

\* The states of Q from which one in S can be reached.
Leading(Q, arrows, S) ==
    LET leading[T \in SUBSET Q] ==
          LET more == T \cup {e[1] : e \in {e \in arrows : e[2] \in T}}
          IN  IF more = T THEN T ELSE leading[more]
    IN  leading[S]

\* Connect: the states on a path to a final one.
Good(A, B) ==
    Leading(Pairs(A, B),
            UNION {{<<q, Joined(A, B, q, m).to>> : m \in Matches(A, B, q)} :
                      q \in Pairs(A, B)},
            {q \in Pairs(A, B) : q[1] \in A.final /\ q[2] \in B.final})

\* A finite set of pairs of numbers, in the order of the loops over them.
InOrder(S) ==
    LET Before(l, m) == l[1] < m[1] \/ (l[1] = m[1] /\ l[2] < m[2])
    IN  [k \in 1..Cardinality(S) |->
           CHOOSE m \in S : Cardinality({l \in S : Before(l, m)}) = k - 1]

\* The moves between good states, in the order of the arcs.
Moves(A, B, good) ==
    [q \in good |-> InOrder({m \in Matches(A, B, q) : Joined(A, B, q, m).to \in good})]

\* The states of s and, after them, those of t that are not there yet.
Extended(s, t) ==
    LET extended[n \in 0..Len(t)] ==
          IF n = 0 THEN s
          ELSE LET r == extended[n - 1]
               IN  IF t[n] \in Range(r) THEN r ELSE Append(r, t[n])
    IN  extended[Len(t)]

\* The states in the order in which they are found from the first one.
Found(next, first) ==
    LET found[n \in 0..Cardinality(DOMAIN next)] ==
          IF n = 0 THEN <<first>>
          ELSE LET r == found[n - 1]
               IN  IF n > Len(r) THEN r ELSE Extended(r, next[r[n]])
    IN  found[Cardinality(DOMAIN next)]

\* The states that are left, if there is a path, in the order of their numbers.
Reached(A, B, good, moves) ==
    LET first == <<A.start, B.start, 0>>
        Follow(q) == [k \in 1..Len(moves[q]) |-> Joined(A, B, q, moves[q][k]).to]
    IN  IF first \notin good THEN <<>>
        ELSE Found([q \in good |-> Follow(q)], first)

PlaceIn(reached, q) == CHOOSE n \in 0..(Len(reached) - 1) : reached[n + 1] = q

Compose(A, B) ==
    LET good    == Good(A, B)
        moves   == Moves(A, B, good)
        reached == Reached(A, B, good, moves)
        Out(q) == [k \in 1..Len(moves[q]) |->
                     [Joined(A, B, q, moves[q][k]) EXCEPT !.to = PlaceIn(reached, @)]]
    IN  [start |-> 0,
         final |-> {n \in 0..(Len(reached) - 1) : reached[n + 1][1] \in A.final
                                               /\ reached[n + 1][2] \in B.final},
         out   |-> [n \in 0..(Len(reached) - 1) |-> Out(reached[n + 1])]]
============================================================================
