------------------------ MODULE MCLocalNormalization ------------------------
\* Small instances of LocalNormalization for TLC.  Label 0 is <EPS>.
EXTENDS LocalNormalization, FiniteSetsExt

\* One state whose arcs compete in two groups that interleave; two states that
\* use the same labels; a state without arcs between two others.
MCMachines == {<< <<0, 1, 0>> >>, << <<0, 1>>, <<1, 0>> >>,
               << <<1, 0, 1>>, <<>>, <<0>> >>}

MCFeatures == {"f", "g"}
MCVectors == SUBSET MCFeatures

\* exp(-w) of each feature's weight w.
MCWeights == [MCFeatures -> {1, 2}]
MCZero == [f \in MCFeatures |-> 1]
MCProduct ==
    [w \in MCWeights |-> [v \in MCVectors |->
        MapThenFoldSet(LAMBDA x, y : x * y, 1, LAMBDA f : w[f],
                       LAMBDA F : CHOOSE f \in F : TRUE, v)]]

\* The arcs of a group share a feature, differ in one, or have none at all.
MCFeatureMaps ==
    {[a \in 0..n |-> F[a + 1]] :
        n \in {2, 3}, F \in {<<{"f"}, {"g"}, {"f", "g"}, {"f"}>>,
                            <<{"f", "g"}, {}, {"g"}, {"g"}>>}}

MCE == -1
=============================================================================
