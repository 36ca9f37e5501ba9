------------------------------ MODULE Aligner ------------------------------
(***************************************************************************)
(* aligner() of sandbox.cpp, run along a path of the machine: it rebuilds  *)
(* the upper and the lower string, column by column, from the actions of   *)
(* the arcs alone.  Absorbed symbols wait in a queue until the edit that   *)
(* reads them.  The aligner reads the arcs of a decoded path one after the *)
(* other, so each arc of the path is one step of both.                     *)
(***************************************************************************)
EXTENDS Transducer, FiniteSets

CONSTANTS Blank,        \* the column filler " "
          Undefined     \* front() of an empty queue: undefined behaviour

ASSUME BlankAssumption == /\ Blank \notin V1 \cup V2 \cup {Sharp}
                          /\ Undefined \notin V1 \cup {Sharp, Blank}

VARIABLES queue,        \* upper
          upperString,  \* upper_string
          lowerString   \* lower_string

alignVars == <<queue, upperString, lowerString>>

Front == IF queue = <<>> THEN Undefined ELSE Head(queue)

AlignInit == /\ Init
             /\ queue = <<>> /\ upperString = <<>> /\ lowerString = <<>>

Column(up, low) == /\ upperString' = Append(upperString, up)
                   /\ lowerString' = Append(lowerString, low)

\* ABS: push; the shadowed upper_char in the <EPS> branch has no effect, and
\* an ABS arc never reads <EPS>.
AlignAbsorb == /\ Absorb
               /\ queue' = Append(queue, Tape(pos + 1))
               /\ UNCHANGED <<upperString, lowerString>>

\* INS: nothing above the symbol written.
AlignInsert == /\ Insert
               /\ Column(Blank, y[j + 1])
               /\ UNCHANGED queue

\* Mutant of PopFront: the symbol read stays in the queue.
KeepFront == UNCHANGED queue

\* The edit has read the front of the queue.
PopFront == queue' = IF queue = <<>> THEN queue ELSE Tail(queue)

AlignSubstitute == Substitute /\ Column(Front, y[j + 1]) /\ PopFront

AlignDelete == Delete /\ Column(Front, Blank) /\ PopFront

\* FINAL: one more column with the boundary symbol above a blank; no pop.
AlignFinish == Finish /\ Column(Front, Blank) /\ UNCHANGED queue

AlignNext == \/ AlignAbsorb \/ AlignInsert \/ AlignSubstitute
             \/ AlignDelete \/ AlignFinish

AlignSpec == AlignInit /\ [][AlignNext]_<<vars, alignVars>>

\* A path is followed to its end.
AlignFairSpec == AlignSpec /\ WF_<<vars, alignVars>>(AlignNext)

----------------------------------------------------------------------------
\* The columns of s that are not blank, from left to right, are t.
Spells(s, t) ==
    LET letters == {k \in 1..Len(s) : s[k] # Blank}
    IN  /\ Cardinality(letters) = Len(t)
        /\ \A k \in letters : s[k] = t[Cardinality({m \in letters : m <= k})]

\* The queue always holds the right window of the machine's state, so it is
\* never empty when an edit asks for its front.
QueueIsRightWindow ==
    /\ ctx # FinalState => queue = ctx.urc
    /\ \A k \in 1..Len(upperString) : upperString[k] # Undefined

\* The two strings are an alignment of what has been read with what has
\* been written: equally long, no column empty on both sides except under
\* the boundary, and without the blanks they are the two words.
IsAlignment ==
    LET above == SubSeq(w, 1, Read)
    IN  /\ Len(upperString) = Len(lowerString)
        /\ Spells(lowerString, SubSeq(y, 1, j))
        /\ Spells(upperString,
                  IF ctx = FinalState THEN Append(above, Sharp) ELSE above)
        /\ \A k \in 1..Len(upperString) :
              (upperString[k] = Blank \/ upperString[k] = Sharp)
                => (lowerString[k] = Blank) = (upperString[k] = Sharp)

=============================================================================
