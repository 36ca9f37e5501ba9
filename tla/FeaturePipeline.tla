-------------------------- MODULE FeaturePipeline --------------------------
(***************************************************************************)
(* How an arc of the machine gets its features.  context_edit.py writes    *)
(* arc_to_action (module MachineBuilder), featurize.py turns each of its   *)
(* lines into a line of feature numbers, FeatureReader stores these lines  *)
(* by position (it parses the arc number and does not use it), and the     *)
(* C++ side numbers the arcs again by iterating over the machine.          *)
(* Nothing but the order of the lines ties a feature vector to its arc.    *)
(***************************************************************************)
EXTENDS MachineBuilder

CONSTANT Nine       \* the marker '9' of a position that is backed off

VARIABLES featLines,    \* lines printed by featurize.py: [id, feats]
          seen,         \* features_seen: template -> number
          linesRead,    \* how often getline has returned a line
          featureMax,   \* feature_max
          features,     \* FeatureReader::features, by position
          numFeatures   \* FeatureReader::number_features; 0 until it is set

readVars == <<linesRead, featureMax, features, numFeatures>>
featVars == <<featLines, seen, readVars>>

FeatInit == /\ Init
            /\ featLines = <<>> /\ seen = <<>>
            /\ linesRead = 0 /\ featureMax = 0
            /\ features = <<>> /\ numFeatures = 0

ContextOf(n) == CHOOSE c \in DOMAIN lookup : lookup[c] = n

\* The five fields of a line that featurize.py looks at: what the edit
\* reads (s), writes (t), and the context of its source without s.
Fields(line) ==
    LET c == ContextOf(line.src)
        t == arcs[line.src][line.arc].out
    IN  IF line.act = "INS"
          THEN <<Eps, t, c.ulc, c.urc, c.llc>>
          ELSE <<c.urc[1], t, c.ulc, Tail(c.urc), c.llc>>

\* The fields each of the 14 backoff templates keeps, in program order.
Kept == << {1, 2, 3, 4, 5},
           {1, 2, 4, 5}, {1, 2, 3, 5}, {1, 2, 3, 4},
           {1, 2, 5}, {1, 2, 3}, {1, 2, 4}, {1, 2},
           {2, 3, 4}, {2, 3, 4, 5},
           {1, 3, 4, 5}, {1, 4, 5}, {1, 3, 5}, {1, 5} >>

\* Mutant of Templates: what is written is backed off everywhere.
TemplatesWithoutOutput(line) ==
    [k \in 1..Len(Kept) |->
        [p \in 1..5 |-> IF p \in Kept[k] \ {2} THEN <<Fields(line)[p]>> ELSE <<Nine>>]]

\* The templates of a line.  A kept field and the marker are never mixed up:
\* the alphabets of the shipped symbol tables contain no digit.
Templates(line) ==
    [k \in 1..Len(Kept) |->
        [p \in 1..5 |-> IF p \in Kept[k] THEN <<Fields(line)[p]>> ELSE <<Nine>>]]

\* features_seen after a line: the templates that are not in the table get the
\* next numbers, in the order in which they are met in the line.  Number 0 is
\* the feature of the ABS arcs.
NumberTemplates(table, feats) ==
    LET old == DOMAIN table
        UpTo(k) == {feats[m] : m \in 1..k} \ old
        First(f) == CHOOSE k \in 1..Len(feats) :
                        feats[k] = f /\ f \notin UpTo(k - 1)
    IN  [f \in old \cup UpTo(Len(feats)) |->
            IF f \in old THEN table[f]
            ELSE Cardinality(old) + Cardinality(UpTo(First(f)))]

\* Mutant of FeaturizeLine: no features on an arc on which nothing fires.
FeaturizeSomeLine ==
    /\ stage = "done" /\ Len(featLines) < Len(lines)
    /\ LET line == lines[Len(featLines) + 1]
           feats == Templates(line)
       IN  IF line.act = "ABS"
             THEN /\ featLines' = Append(featLines, [id |-> line.id, feats |-> <<>>])
                  /\ UNCHANGED seen
             ELSE /\ seen' = NumberTemplates(seen, feats)
                  /\ featLines' = Append(featLines,
                        [id |-> line.id,
                         feats |-> [k \in 1..Len(feats) |-> seen'[feats[k]]]])
    /\ UNCHANGED <<vars, readVars>>

\* featurize.py: one line in, one line out.
FeaturizeLine ==
    /\ stage = "done" /\ Len(featLines) < Len(lines)
    /\ LET line == lines[Len(featLines) + 1]
           feats == Templates(line)
       IN  IF line.act = "ABS"
             THEN /\ featLines' = Append(featLines, [id |-> line.id, feats |-> <<0>>])
                  /\ UNCHANGED seen
             ELSE /\ seen' = NumberTemplates(seen, feats)
                  /\ featLines' = Append(featLines,
                        [id |-> line.id,
                         feats |-> [k \in 1..Len(feats) |-> seen'[feats[k]]]])
    /\ UNCHANGED <<vars, readVars>>

\* Mutant of CountFeatures: the numbers start at 1.
CountFeaturesFromOne(largest) == largest

\* number_features: there is a feature 0.
CountFeatures(largest) == largest + 1

\* FeatureReader has read the whole file.
Loaded == numFeatures # 0

\* FeatureReader, one line: if it has two tab-separated fields (<<>> stands
\* for no second field), the features go to the next position.
ReadLine ==
    /\ stage = "done" /\ Len(featLines) = Len(lines)
    /\ ~Loaded /\ linesRead < Len(featLines)
    /\ LET feats == featLines[linesRead + 1].feats
       IN  IF feats # <<>>
             THEN /\ features' = Append(features, feats)
                  /\ featureMax' = Max({featureMax} \cup Range(feats))
             ELSE UNCHANGED <<features, featureMax>>
    /\ linesRead' = linesRead + 1
    /\ UNCHANGED <<vars, featLines, seen, numFeatures>>

CloseFile ==
    /\ stage = "done" /\ Len(featLines) = Len(lines)
    /\ ~Loaded /\ linesRead = Len(featLines)
    /\ numFeatures' = CountFeatures(featureMax)
    /\ UNCHANGED <<vars, featLines, seen, linesRead, featureMax, features>>

FeatNext == \/ Next /\ UNCHANGED featVars
            \/ FeaturizeLine
            \/ ReadLine
            \/ CloseFile

FeatSpec == FeatInit /\ [][FeatNext]_<<vars, featVars>>

----------------------------------------------------------------------------
\* Arc numbers in C++.

\* The arcs, each by its state and its place among the state's arcs.
ArcPlaces == UNION {{s} \X (1..Len(arcs[s])) : s \in 1..Len(arcs)}

\* arc_id when StateIterator and ArcIterator have come to arc k of state s:
\* it has counted the arcs before that one.
IdOf(s, k) == Cardinality({p \in ArcPlaces : p[1] < s \/ (p[1] = s /\ p[2] < k)})

Arcs == {[id |-> IdOf(p[1], p[2]), src |-> p[1], arc |-> p[2]] : p \in ArcPlaces}

By(r) == arcs[r.src][r.arc].by

\* map_to_feature_arcs stores arc_id + 1 on an arc, so that its logarithm is
\* finite.
Stored(r) == r.id + 1

\* calculate_observed_counts takes the 1 off again.
TrainerId(v) == v - 1

\* What main() and aligner() find in arc_to_action under a name.
ActionsNamed(names) == {lines[n].act : n \in {m \in 1..Len(lines) : lines[m].id \in names}}

----------------------------------------------------------------------------
FeatTypeOK ==
    /\ TypeOK
    /\ numFeatures \in Nat
    /\ Loaded => \A n \in 1..Len(features) : \A k \in 1..Len(features[n]) :
                    features[n][k] \in 0..(numFeatures - 1)

\* The features the trainer multiplies for an arc, and those it credits
\* with the arc's counts, are the ones featurize.py made for that very arc.
FeaturesOfTheArc ==
    Loaded =>
        /\ Len(features) = Cardinality(Arcs)
        /\ \A r \in Arcs :
             LET line == [src |-> r.src, arc |-> r.arc, act |-> By(r)]
                 feats == features[TrainerId(Stored(r)) + 1]
             IN  IF By(r) = "ABS" THEN feats = <<0>>
                 ELSE feats = [k \in 1..Len(Kept) |-> seen[Templates(line)[k]]]

\* The full-context feature of an edit fires on no other arc: with all
\* templates the model can give every edit in every context a weight of
\* its own.
FullContextIsOwn ==
    Loaded => \A n, m \in 1..Len(features) :
        (n # m /\ features[n] # <<0>>) => features[n][1] # features[m][1]
============================================================================
