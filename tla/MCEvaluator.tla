---------------------------- MODULE MCEvaluator ----------------------------
\* Test data for Evaluator over the ids 1 ('#') to 3.
EXTENDS Evaluator

MCGolds == {<<2>>, <<2, 3>>, <<2, 2>>, <<3, 2, 2>>, <<2, 3, 2>>}
MCPaths == {<<0>>, <<0, 2>>, <<3, 0>>, <<2, 3>>, <<3, 2>>, <<0, 2, 2>>, <<2, 0, 3>>,
            <<3, 2, 2>>, <<0, 0, 2, 3>>, <<2, 2, 3, 3>>}
=============================================================================
