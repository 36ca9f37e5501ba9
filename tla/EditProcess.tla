---------------------------- MODULE EditProcess ----------------------------
(***************************************************************************)
(* What the contextual edit machine promises: it rewrites the upper word   *)
(* into the lower word by a sequence of edits.  Each edit reads at most    *)
(* one upper symbol and writes at most one lower symbol, never neither,    *)
(* both words are traversed from left to right, nothing is skipped, and    *)
(* the process stops only after the whole upper word has been read.        *)
(***************************************************************************)
EXTENDS Integers, Sequences

CONSTANTS Words,    \* the upper words
          Outputs   \* the lower words

VARIABLES w,     \* the upper word
          y,     \* the lower word
          i,     \* symbols of w read so far
          j,     \* symbols of y written so far
          done   \* the process has stopped

vars == <<w, y, i, j, done>>

Init == /\ w \in Words
        /\ y \in Outputs
        /\ i = 0 /\ j = 0
        /\ done = FALSE

Insert == /\ ~done
          /\ j < Len(y)
          /\ j' = j + 1
          /\ UNCHANGED <<w, y, i, done>>

Substitute == /\ ~done
              /\ i < Len(w) /\ j < Len(y)
              /\ i' = i + 1 /\ j' = j + 1
              /\ UNCHANGED <<w, y, done>>

Delete == /\ ~done
          /\ i < Len(w)
          /\ i' = i + 1
          /\ UNCHANGED <<w, y, j, done>>

Stop == /\ ~done
        /\ i = Len(w)
        /\ done' = TRUE
        /\ UNCHANGED <<w, y, i, j>>

Next == Insert \/ Substitute \/ Delete \/ Stop

Spec == Init /\ [][Next]_vars
============================================================================
