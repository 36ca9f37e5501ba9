---------------------------- MODULE ContextEdit ----------------------------
(***************************************************************************)
(* The topology of the contextual edit machine that                        *)
(* python_src/context_edit.py writes.  A state is a context: a window of   *)
(* upper symbols to the left of the edit point (ulc), a window of upper    *)
(* symbols to its right (urc), and a window of lower symbols already       *)
(* written (llc).  Left windows hold the most recent symbol first.  An arc *)
(* either absorbs one upper symbol into urc, or performs one edit.         *)
(***************************************************************************)
EXTENDS Integers, Sequences

CONSTANTS V1,           \* the upper alphabet (syms_in)
          V2,           \* the lower alphabet (syms_out)
          Sharp,        \* STOP_START_CHAR, the word boundary
          Eps,          \* <EPS>, label 0 of both symbol tables
          FinalState,   \* state 0, the only final state
          UlcMax,       \* ulc_max, sys.argv[1]
          UrcMax,       \* urc_max, sys.argv[2]
          LlcMax        \* llc_max, sys.argv[3]

ASSUME SharpAssumption == Sharp \notin V1 \cup V2
ASSUME EpsAssumption   == Eps \notin V1 \cup V2 \cup {Sharp}
ASSUME MaxAssumption   == UlcMax \in Nat /\ UrcMax \in Nat /\ LlcMax \in Nat

\* The topologies the machine is well formed for: bump and bump2 replace the
\* most recent symbol of a left window, which is right for windows of at
\* most one symbol, and an edit that reads needs a right window.
ASSUME TopologyAssumption == UlcMax \in {0, 1} /\ LlcMax \in {0, 1} /\ UrcMax # 0

Upper == V1 \cup {Sharp}
Lower == V2 \cup {Sharp}

----------------------------------------------------------------------------
\* The helpers on windows.

\* sharp_at_end: after a boundary symbol only boundary symbols follow.
SharpAtEnd(t) ==
    \A i, k \in 1..Len(t) : (i < k /\ t[i] = Sharp) => t[k] = Sharp

\* sharp_at_beginning: before a boundary symbol there are only boundary symbols.
SharpAtBeginning(t) ==
    \A i, k \in 1..Len(t) : (i < k /\ t[k] = Sharp) => t[i] = Sharp

\* all_stop_start
AllSharp(t) == \A i \in 1..Len(t) : t[i] = Sharp

\* Mutant of Truncate: the slice is one symbol too long.
TruncateLate(t, limit) ==
    SubSeq(t, 1, IF Len(t) < limit + 1 THEN Len(t) ELSE limit + 1)

\* The slice [0:limit] of the helpers below.
Truncate(t, limit) == SubSeq(t, 1, IF Len(t) < limit THEN Len(t) ELSE limit)

\* bump2: drop the first symbol.
Bump2(t) == IF t = <<>> THEN <<>> ELSE Tail(t)

\* add: put a symbol in front.
Add(t, new, limit) == Truncate(<<new>> \o t, limit)

\* add_reverse: put a symbol at the end.
AddReverse(t, new, limit) == Truncate(Append(t, new), limit)

\* Mutant of Bump: the window keeps its oldest symbol.
BumpKeepingOldest(t, new, limit) == Truncate(Append(t, new), limit)

\* bump: replace the first symbol.
Bump(t, new, limit) == Truncate(<<new>> \o Bump2(t), limit)

----------------------------------------------------------------------------
\* States.

\* The filters of the six nested loops over the contexts.
IsContext(c) ==
    /\ c \in [ulc : Seq(Upper), urc : Seq(Upper), llc : Seq(Lower)]
    /\ Len(c.ulc) <= UlcMax
    /\ Len(c.urc) <= UrcMax
    /\ Len(c.llc) <= LlcMax
    /\ SharpAtBeginning(c.ulc)
    /\ SharpAtEnd(c.urc)
    /\ UlcMax > 0 => c.ulc # <<>>
    /\ LlcMax > 0 => c.llc # <<>>

\* State 0 stands for no context.
ASSUME FinalAssumption == ~IsContext(FinalState)

\* All windows full: the state at which an edit can be performed.
IsBold(c) ==
    /\ Len(c.ulc) = UlcMax
    /\ Len(c.urc) = UrcMax
    /\ Len(c.llc) = LlcMax

InitialContext ==
    [ulc |-> IF UlcMax > 0 THEN <<Sharp>> ELSE <<>>,
     urc |-> <<>>,
     llc |-> IF LlcMax > 0 THEN <<Sharp>> ELSE <<>>]

\* Mutant of HasFinalArc: the window need not be full.
HasFinalArcEarly(c) == AllSharp(c.urc)

\* The condition under which a context gets a FINAL arc to state 0.
HasFinalArc(c) == Len(c.urc) = UrcMax /\ AllSharp(c.urc)

\* Mutant of CanRead: a boundary symbol can be read.
CanReadSharp(c) == c.urc # <<>>

\* The skip before SUBSTITUTION and DELETION: there must be a real symbol
\* to read.
CanRead(c) == c.urc # <<>> /\ c.urc[1] # Sharp

\* Mutants of CanAbsorb: never a boundary symbol; a letter after one.
CanAbsorbLetters(c, v1) ==
    v1 # Sharp /\ SharpAtEnd(AddReverse(c.urc, v1, UrcMax))
CanAbsorbAfterSharp(c, v1) == ~(v1 = Sharp /\ UrcMax = 0)

\* The skips before ABS: no boundary symbol when there is no right context,
\* and no context that has a letter after a boundary symbol.
CanAbsorb(c, v1) ==
    /\ ~(v1 = Sharp /\ UrcMax = 0)
    /\ SharpAtEnd(AddReverse(c.urc, v1, UrcMax))

----------------------------------------------------------------------------
\* The target of each kind of arc.

InsTarget(c, v2) == [ulc |-> c.ulc,
                     urc |-> c.urc,
                     llc |-> Bump(c.llc, v2, LlcMax)]

SubTarget(c, v2) == [ulc |-> Add(Bump2(c.ulc), c.urc[1], UlcMax),
                     urc |-> Bump2(c.urc),
                     llc |-> Bump(c.llc, v2, LlcMax)]

DelTarget(c) == [ulc |-> Add(c.ulc, c.urc[1], UlcMax),
                 urc |-> Bump2(c.urc),
                 llc |-> c.llc]

AbsTarget(c, v1) == [ulc |-> c.ulc,
                     urc |-> AddReverse(c.urc, v1, UrcMax),
                     llc |-> c.llc]

============================================================================
