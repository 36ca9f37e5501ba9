----------------------------- MODULE Transducer -----------------------------
(***************************************************************************)
(* A path through the lattice that the trainer and the evaluator build for *)
(* one exemplar: Compose(exemplar.first, *fst, &medial) followed by        *)
(* Compose(medial, exemplar.second, &final) (calculate_observed_counts's   *)
(* caller, value2, log_loss).  A lattice state is a position on the upper  *)
(* tape, a state of the edit machine and a position in the lower word; one *)
(* action per kind of arc of the machine.                                  *)
(*                                                                         *)
(* The upper tape is the word followed by the boundary symbols the data    *)
(* files carry (data/typos/train1.2 for two symbols of right context).     *)
(***************************************************************************)
EXTENDS ContextEdit

CONSTANTS Words,     \* the upper words, without their boundary symbols
          Outputs,   \* the lower words
          Pad        \* boundary symbols at the end of an upper string

ASSUME DataAssumption == /\ Words \subseteq Seq(V1)
                         /\ Outputs \subseteq Seq(V2)
                         /\ Pad = UrcMax

VARIABLES w,      \* the upper word
          y,      \* the lower word
          ctx,    \* the state of the machine
          pos,    \* symbols of the upper tape absorbed so far
          j       \* symbols of the lower word written so far

vars == <<w, y, ctx, pos, j>>

TapeLen == Len(w) + Pad
Tape(k) == IF k <= Len(w) THEN w[k] ELSE Sharp

Init == /\ w \in Words
        /\ y \in Outputs
        /\ ctx = InitialContext
        /\ pos = 0
        /\ j = 0

\* ABS: a non-bold state absorbs the next symbol of the tape.
Absorb == /\ ctx # FinalState
          /\ ~IsBold(ctx)
          /\ pos < TapeLen
          /\ CanAbsorb(ctx, Tape(pos + 1))
          /\ ctx' = AbsTarget(ctx, Tape(pos + 1))
          /\ pos' = pos + 1
          /\ UNCHANGED <<w, y, j>>

\* INS: a bold state writes the next lower symbol.
Insert == /\ ctx # FinalState
          /\ IsBold(ctx)
          /\ j < Len(y)
          /\ ctx' = InsTarget(ctx, y[j + 1])
          /\ j' = j + 1
          /\ UNCHANGED <<w, y, pos>>

\* SUB: a bold state reads a symbol and writes the next lower one.
Substitute == /\ ctx # FinalState
              /\ IsBold(ctx)
              /\ CanRead(ctx)
              /\ j < Len(y)
              /\ ctx' = SubTarget(ctx, y[j + 1])
              /\ j' = j + 1
              /\ UNCHANGED <<w, y, pos>>

\* DEL: a bold state reads a symbol and writes nothing.
Delete == /\ ctx # FinalState
          /\ IsBold(ctx)
          /\ CanRead(ctx)
          /\ ctx' = DelTarget(ctx)
          /\ UNCHANGED <<w, y, pos, j>>

\* FINAL: to state 0.  It reads and writes nothing.
Finish == /\ ctx # FinalState
          /\ HasFinalArc(ctx)
          /\ ctx' = FinalState
          /\ UNCHANGED <<w, y, pos, j>>

Next == Absorb \/ Insert \/ Substitute \/ Delete \/ Finish

Spec == Init /\ [][Next]_vars

\* A path is followed to its end.
FairSpec == Spec /\ WF_vars(Next)

----------------------------------------------------------------------------
\* Symbols of the word that edits have read: what has been absorbed and has
\* left the right window again.
Read == IF ctx = FinalState THEN Len(w) ELSE pos - Len(ctx.urc)

TypeOK ==
    /\ w \in Words /\ y \in Outputs
    /\ ctx = FinalState \/ IsContext(ctx)
    /\ pos \in 0..TapeLen
    /\ j \in 0..Len(y)

\* The right window is what stands on the tape right of the last symbol
\* read, although it is filled by ABS and emptied by SUB and DEL (and by
\* the truncation in add_reverse, which must never lose a symbol).
RightWindow ==
    ctx # FinalState =>
        /\ Read \in 0..Len(w)
        /\ \A k \in 1..Len(ctx.urc) : ctx.urc[k] = Tape(Read + k)

\* The left windows are the last symbol read and the last symbol written:
\* the features of an arc describe the context its edit really has.
LeftWindows ==
    ctx # FinalState =>
        /\ UlcMax = 1 =>
              ctx.ulc = <<IF Read = 0 THEN Sharp ELSE w[Read]>>
        /\ LlcMax = 1 =>
              ctx.llc = <<IF j = 0 THEN Sharp ELSE y[j]>>

\* The machine reaches state 0 only after it has absorbed the whole tape,
\* so no path accepts a proper prefix of the upper word.
FinalReadsAll == ctx = FinalState => pos = TapeLen

\* No path over the upper word gets stuck: whatever is edited on the way, it
\* ends in state 0 (context_edit.py:301-404).  LatticeNotEmpty of ArcCounting says
\* it of both words together.
ReachesFinal == <>(ctx = FinalState)

\* Refinement: a path is a run of the edit process (ABS arcs are stuttering
\* steps), so the lattice of an exemplar is exactly a set of edit sequences.
Edits == INSTANCE EditProcess WITH i <- Read, done <- (ctx = FinalState)
ImplementsEditProcess == Edits!Spec

=============================================================================
