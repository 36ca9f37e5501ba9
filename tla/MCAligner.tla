---------------------------- MODULE MCAligner ----------------------------
(***************************************************************************)
(* Instances of Aligner: all pairs of an upper word over {a, b} and a      *)
(* lower word over {b, c}, up to the bounds, in one topology per cfg.      *)
(***************************************************************************)
EXTENDS Aligner

CONSTANTS a, b, c,      \* letters
          MaxWord,     \* bound on the length of an upper word
          MaxOutput    \* bound on the length of a lower word

WordsUpTo(S, n) == UNION {[1..k -> S] : k \in 0..n}

MCWords   == WordsUpTo(V1, MaxWord)
MCOutputs == WordsUpTo(V2, MaxOutput)

=============================================================================
