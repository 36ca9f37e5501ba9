--------------------------- MODULE MachineBuilder ---------------------------
(***************************************************************************)
(* main() of python_src/context_edit.py: numbers the contexts, adds the    *)
(* arcs of the contextual edit machine, remembers in arc_map which edit    *)
(* each arc is, and writes arc_to_action, the file that tells featurize.py *)
(* and the aligner what arc number n does.  A lookup of a context that was *)
(* never numbered is a KeyError and ends the script.                       *)
(***************************************************************************)
EXTENDS ContextEdit, SequencesExt

CONSTANT NoState      \* the machine has no initial state yet

ASSUME AlphabetAssumption == IsFiniteSet(V1) /\ IsFiniteSet(V2)

VARIABLES stage,      \* which loop of main() is running
          order,      \* the places of the symbols in the two Python sets
          pending,    \* contexts the current loop has still to visit
          lookup,     \* all_lookup: context -> state number
          start,      \* the state whose .initial was set
          arcs,       \* per state number, its arcs in the order added
          arcMap,     \* arc_map: <<src, dst, ilabel, olabel>> -> action
          lines,      \* the lines of arc_to_action
          arcId,      \* arc_id of the last loop
          at          \* the state and the arc the last loop has come to

vars == <<stage, order, pending, lookup, start, arcs, arcMap, lines, arcId, at>>

----------------------------------------------------------------------------
\* The contexts in the order of the six nested loops.  The order inside
\* itertools.product is that of the Python sets set(V1 + ['#']) and
\* set(V2 + ['#']): ru and rl give each symbol its place in them.

AllContexts ==
    LET Windows(S, n) == BoundedSeq(S, n)
    IN  {c \in [ulc : Windows(Upper, UlcMax), urc : Windows(Upper, UrcMax),
                llc : Windows(Lower, LlcMax)] : IsContext(c)}

Orders(S) == {f \in [S -> 1..Cardinality(S)] : IsInjective(f)}

SortKey(c, ru, rl) ==
    LET Rank(t, r) == [k \in 1..Len(t) |-> r[t[k]]]
    IN  <<UlcMax - Len(c.ulc), LlcMax - Len(c.llc), UrcMax - Len(c.urc)>>
          \o Rank(c.ulc, ru) \o Rank(c.llc, rl) \o Rank(c.urc, ru)

LexLess(s, t) == \E k \in 1..Len(s) : /\ \A n \in 1..(k - 1) : s[n] = t[n]
                                      /\ s[k] < t[k]

\* No context comes before c in the nested loops.
Earliest(c, S, ru, rl) ==
    \A d \in S : ~LexLess(SortKey(d, ru, rl), SortKey(c, ru, rl))

----------------------------------------------------------------------------
\* The arcs one pass of a loop adds, by target context, in program order.

Edge(target, in, out, act) == [to |-> target, in |-> in, out |-> out, by |-> act]

\* Mutant of BoldEdges: insertions, too, need a symbol to read.
BoldEdgesReading(c) ==
    LET v == SetToSeq(V2)
        ins == [k \in 1..Len(v) |-> Edge(InsTarget(c, v[k]), Eps, v[k], "INS")]
        sub == [k \in 1..Len(v) |-> Edge(SubTarget(c, v[k]), Eps, v[k], "SUB")]
        del == <<Edge(DelTarget(c), Eps, Eps, "DEL")>>
    IN  IF CanRead(c) THEN ins \o sub \o del ELSE <<>>

BoldEdges(c) ==
    LET v == SetToSeq(V2)
        ins == [k \in 1..Len(v) |-> Edge(InsTarget(c, v[k]), Eps, v[k], "INS")]
        sub == [k \in 1..Len(v) |-> Edge(SubTarget(c, v[k]), Eps, v[k], "SUB")]
        del == <<Edge(DelTarget(c), Eps, Eps, "DEL")>>
    IN  IF CanRead(c) THEN ins \o sub \o del ELSE ins

NonBoldEdges(c) ==
    LET Legal(S) == SetToSeq({s \in S : CanAbsorb(c, s)})
        v == Legal(V1) \o Legal({Sharp})
    IN  [k \in 1..Len(v) |-> Edge(AbsTarget(c, v[k]), v[k], Eps, "ABS")]

FinalEdges(c) ==
    IF HasFinalArc(c) THEN <<Edge(FinalState, Eps, Eps, "FINAL")>> ELSE <<>>

\* Edges with state numbers for contexts.
Number(table, edges) ==
    [k \in 1..Len(edges) |->
        LET e == edges[k]
        IN  Edge(IF e.to = FinalState THEN 0 ELSE table[e.to], e.in, e.out, e.by)]

Resolvable(edges) ==
    \A k \in 1..Len(edges) : edges[k].to \in DOMAIN lookup \cup {FinalState}

\* Mutant of ArcKey: the output label is not part of the key.
ArcKeyWithoutOutput(n, e) == <<n, e.to, e.in>>

ArcKey(n, e) == <<n, e.to, e.in, e.out>>

\* arc_map after the assignments for a state's new arcs: a later arc with
\* the same key takes the entry over.
Mapped(n, edges) ==
    [key \in DOMAIN arcMap \cup {ArcKey(n, edges[k]) : k \in 1..Len(edges)} |->
        LET same == {k \in 1..Len(edges) : ArcKey(n, edges[k]) = key}
        IN  IF same = {} THEN arcMap[key] ELSE edges[Max(same)].by]

----------------------------------------------------------------------------
Init == /\ stage = "contexts"
        /\ order \in Orders(Upper) \X Orders(Lower)
        /\ pending = AllContexts
        /\ lookup = <<>>
        /\ start = NoState
        /\ arcs = <<>>
        /\ arcMap = <<>>
        /\ lines = <<>>
        /\ arcId = 0
        /\ at = <<1, 1>>

\* Mutant of NextState: state 0 is not kept for FINAL.
NextStateFromZero == Len(arcs)
\* state_num
NextState == Len(arcs) + 1

\* One pass of the nested loops: number a context, add its FINAL arc.
AddContext ==
    /\ stage = "contexts"
    /\ \E c \in pending :
         /\ Earliest(c, pending, order[1], order[2])
         /\ LET n == NextState
                new == Number(<<>>, FinalEdges(c))
            IN  /\ lookup' = [x \in DOMAIN lookup \cup {c} |->
                                 IF x = c THEN n ELSE lookup[x]]
                /\ arcs' = Append(arcs, new)
                /\ arcMap' = Mapped(n, new)
         /\ pending' = pending \ {c}
    /\ UNCHANGED <<stage, order, start, lines, arcId, at>>

BoldContexts == {c \in DOMAIN lookup : IsBold(c)}
NonBoldContexts == DOMAIN lookup \ BoldContexts

SetInitial ==
    /\ stage = "contexts"
    /\ pending = {}
    /\ IF InitialContext \in DOMAIN lookup
         THEN start' = lookup[InitialContext] /\ stage' = "bold"
              /\ pending' = BoldContexts
         ELSE stage' = "KeyError" /\ UNCHANGED <<start, pending>>
    /\ UNCHANGED <<order, lookup, arcs, arcMap, lines, arcId, at>>

\* A pass of "for state in bold_lookup" or "for state in non_bold_lookup",
\* in dictionary order.
AddArcs(c, edges) ==
    IF Resolvable(edges)
      THEN LET n == lookup[c]
               new == Number(lookup, edges)
           IN  /\ arcs' = [arcs EXCEPT ![n] = @ \o new]
               /\ arcMap' = Mapped(n, new)
               /\ pending' = pending \ {c}
               /\ UNCHANGED <<stage, order, lookup, start, lines, arcId, at>>
      ELSE /\ stage' = "KeyError"
           /\ UNCHANGED <<order, pending, lookup, start, arcs, arcMap, lines, arcId, at>>

AddBoldArcs == stage = "bold" /\ \E c \in pending : AddArcs(c, BoldEdges(c))

StartNonBold == /\ stage = "bold"
                /\ pending = {}
                /\ stage' = "nonbold"
                /\ pending' = NonBoldContexts
                /\ UNCHANGED <<order, lookup, start, arcs, arcMap, lines, arcId, at>>

AddNonBoldArcs == stage = "nonbold" /\ \E c \in pending : AddArcs(c, NonBoldEdges(c))

StartLabels == /\ stage = "nonbold"
               /\ pending = {}
               /\ stage' = "label"
               /\ at' = <<1, 1>>     \* state 0 has no arcs
               /\ UNCHANGED <<order, pending, lookup, start, arcs, arcMap, lines, arcId>>

\* "for arc in state": a line for an arc that arc_map knows; arc_id also
\* counts the others.
LabelArc ==
    /\ stage = "label" /\ at[1] <= Len(arcs) /\ at[2] <= Len(arcs[at[1]])
    /\ LET key == ArcKey(at[1], arcs[at[1]][at[2]])
       IN  lines' = IF key \in DOMAIN arcMap
                      THEN Append(lines, [id |-> arcId, src |-> at[1], arc |-> at[2],
                                          act |-> arcMap[key]])
                      ELSE lines
    /\ arcId' = arcId + 1
    /\ at' = <<at[1], at[2] + 1>>
    /\ UNCHANGED <<stage, order, pending, lookup, start, arcs, arcMap>>

\* "for state in contextual_edit"
LabelState ==
    /\ stage = "label" /\ at[1] <= Len(arcs) /\ at[2] > Len(arcs[at[1]])
    /\ at' = <<at[1] + 1, 1>>
    /\ UNCHANGED <<stage, order, pending, lookup, start, arcs, arcMap, lines, arcId>>

Exit == /\ stage = "label"
        /\ at[1] > Len(arcs)
        /\ stage' = "done"
        /\ UNCHANGED <<order, pending, lookup, start, arcs, arcMap, lines, arcId, at>>

Next == \/ AddContext \/ SetInitial
        \/ AddBoldArcs \/ StartNonBold \/ AddNonBoldArcs
        \/ StartLabels \/ LabelArc \/ LabelState \/ Exit

Spec == Init /\ [][Next]_vars

----------------------------------------------------------------------------
Actions == {"INS", "SUB", "DEL", "ABS", "FINAL"}

Stages == {"contexts", "bold", "nonbold", "label", "done", "KeyError"}

TypeOK ==
    /\ stage \in Stages
    /\ DOMAIN lookup \subseteq AllContexts
    /\ \A c \in DOMAIN lookup : lookup[c] \in 1..Len(arcs)
    /\ \A n \in 1..Len(arcs) : \A k \in 1..Len(arcs[n]) :
         arcs[n][k] \in [to : 0..Len(arcs), in : Upper \cup {Eps},
                         out : V2 \cup {Eps}, by : Actions]
    /\ start \in (1..Len(arcs)) \cup {NoState}
    /\ arcId \in Nat

\* Every context an arc leads to, and the initial one, has been numbered:
\* the filters of the loops and the window helpers agree.
NoKeyError == stage # "KeyError"

\* arc_to_action tells the truth: its lines number the arcs of the machine
\* in the order in which C++ iterates over them, none is without a line, and
\* the action is the one the arc was added for, although arc_map is keyed
\* by labels that several arcs of a state could share.
ArcToActionCorrect ==
    /\ \A n \in 1..Len(lines) :
         /\ lines[n].id = n - 1
         /\ lines[n].act = arcs[lines[n].src][lines[n].arc].by
    /\ \A n \in 2..Len(lines) :
         \/ lines[n - 1].src < lines[n].src
         \/ lines[n - 1].src = lines[n].src /\ lines[n - 1].arc < lines[n].arc
    /\ stage = "done" =>
         \A s \in 1..Len(arcs) : \A k \in 1..Len(arcs[s]) :
            \E n \in 1..Len(lines) : lines[n].src = s /\ lines[n].arc = k

\* An edit and an absorption never compete: the arcs of a state read either
\* all of them the empty string or all of them a symbol.  The per-state,
\* per-input-label normalisation of update_arc_weights is a distribution
\* over what can happen next only because of this.
EditsDoNotCompete ==
    \A n \in 1..Len(arcs) : \A k, m \in 1..Len(arcs[n]) :
        arcs[n][k].in = Eps => arcs[n][m].in = Eps

\* The states with an arc into S.
Predecessors(S) ==
    {n \in 1..Len(arcs) : \E k \in 1..Len(arcs[n]) : arcs[n][k].to \in S}

\* The states from which at most d arcs lead to state 0.
Within[d \in 0..Len(arcs)] ==
    IF d = 0 THEN {0}
    ELSE LET nearer == Within[d - 1] IN nearer \cup Predecessors(nearer)

\* Once built, state 0 can be reached from every state: no probability is
\* given to a path that can never be completed.
Coaccessible == stage = "done" => Within[Len(arcs)] = 0..Len(arcs)
============================================================================
