-------------------------- MODULE Transducer_proofs --------------------------
(***************************************************************************)
(* Every path through the lattice of an exemplar is a run of the edit      *)
(* process, for every alphabet, every word and every supported topology;   *)
(* and the aligner rebuilds an alignment of the two words from the arcs of *)
(* the path alone: its queue is the right window, and its strings spell    *)
(* what the path has read and written.                                     *)
(***************************************************************************)
EXTENDS Aligner, ContextEdit_proofs, FiniteSetTheorems

(* The inductive invariant: the conjunction of what the runs check.  None  *)
(* of its parts is inductive alone: an edit keeps the right window only    *)
(* because SUB and DEL never read a boundary symbol, and FINAL is taken    *)
(* with the tape absorbed only because the right window is on the tape.    *)
IInv == TypeOK /\ RightWindow /\ LeftWindows /\ FinalReadsAll

-----------------------------------------------------------------------------

(* The tape holds the word and then only boundary symbols. *)
LEMMA TapeSymbols ==
    ASSUME TypeOK, NEW k \in 1..TapeLen
    PROVE  /\ Tape(k) \in Upper
           /\ Tape(k) = Sharp <=> k > Len(w)
<1>1. w \in Seq(V1) /\ Len(w) \in Nat  BY DataAssumption DEF TypeOK
<1>2. Pad \in Nat  BY DataAssumption, MaxAssumption
<1>3. CASE k <= Len(w)
  <2>1. w[k] \in V1  BY <1>1, <1>3
  <2> QED  BY <1>1, <1>3, <2>1, SharpAssumption DEF Tape, Upper
<1>4. CASE k > Len(w)
  BY <1>1, <1>4 DEF Tape, Upper
<1> QED  BY <1>1, <1>3, <1>4

(* The symbol that a reading edit reads is the next one of the word. *)
LEMMA ReadsWord ==
    ASSUME IInv, ctx # FinalState, CanRead(ctx)
    PROVE  /\ Read + 1 \in 1..Len(w)
           /\ ctx.urc[1] = w[Read + 1]
           /\ ctx.urc[1] \in Upper
<1>1. IsContext(ctx)  BY DEF IInv, TypeOK
<1>2. ctx.urc \in Seq(Upper) /\ 1 \in 1..Len(ctx.urc)
  BY <1>1, ContextWindows DEF CanRead
<1>3. /\ Read = pos - Len(ctx.urc) /\ Read \in 0..Len(w)
      /\ ctx.urc[1] = Tape(Read + 1)
  BY <1>2 DEF IInv, RightWindow, Read
<1>4. Len(w) \in Nat /\ pos \in 0..TapeLen
  BY DataAssumption DEF IInv, TypeOK
<1>5. Read + 1 \in 1..TapeLen
  <2>1. Len(ctx.urc) \in Nat /\ Len(ctx.urc) >= 1  BY <1>2
  <2>2. TapeLen \in Nat  BY <1>4, DataAssumption, MaxAssumption DEF TapeLen
  <2>3. Read + 1 <= pos /\ Read \in Nat  BY <1>3, <1>4, <2>1
  <2> QED  BY <1>4, <2>2, <2>3
<1>6. Read + 1 <= Len(w)
  <2>1. TypeOK /\ Tape(Read + 1) # Sharp  BY <1>3 DEF IInv, CanRead
  <2>2. ~(Read + 1 > Len(w))  BY <2>1, <1>5, TapeSymbols
  <2>3. Read \in Int /\ Len(w) \in Nat  BY <1>3, <1>4
  <2> QED  BY <2>2, <2>3
<1>7. ctx.urc[1] = w[Read + 1]  BY <1>3, <1>6 DEF Tape
<1>8. ctx.urc[1] \in Upper  BY <1>2
<1>9. Read + 1 \in 1..Len(w)  BY <1>3, <1>4, <1>6
<1> QED  BY <1>7, <1>8, <1>9

(* A path starts with the invariant. *)
LEMMA InitIInv == Init => IInv /\ ctx # FinalState /\ Read = 0
<1> SUFFICES ASSUME Init PROVE IInv /\ ctx # FinalState /\ Read = 0  OBVIOUS
<1> DEFINE u == IF UlcMax > 0 THEN <<Sharp>> ELSE <<>>
           l == IF LlcMax > 0 THEN <<Sharp>> ELSE <<>>
<1>1. u \in Seq(Upper) /\ Len(u) = UlcMax
  <2>1. CASE UlcMax = 0  BY <2>1
  <2>2. CASE UlcMax = 1  BY <2>2 DEF Upper
  <2> QED  BY <2>1, <2>2, TopologyAssumption
<1>2. l \in Seq(Lower) /\ Len(l) = LlcMax
  <2>1. CASE LlcMax = 0  BY <2>1
  <2>2. CASE LlcMax = 1  BY <2>2 DEF Lower
  <2> QED  BY <2>1, <2>2, TopologyAssumption
<1>3. <<>> \in Seq(Upper) /\ Len(<<>>) <= UrcMax /\ SharpAtEnd(<<>>)
  BY MaxAssumption DEF SharpAtEnd
<1>4. ctx = [ulc |-> u, urc |-> <<>>, llc |-> l]
  BY DEF Init, InitialContext
<1> HIDE DEF u, l
<1>5. IsContext(ctx) /\ ctx # FinalState
  BY <1>1, <1>2, <1>3, <1>4, ContextFrom
<1>6. Len(w) \in Nat /\ Len(y) \in Nat  BY DataAssumption DEF Init
<1>7. ctx.urc = <<>> /\ Read = 0
  <2>1. ctx.urc = <<>>  BY <1>4
  <2>2. Len(ctx.urc) = 0  BY <2>1
  <2>3. Read = pos - Len(ctx.urc)  BY <1>5 DEF Read
  <2> QED  BY <2>1, <2>2, <2>3 DEF Init
<1>8. TypeOK
  BY <1>5, <1>6, DataAssumption, MaxAssumption DEF TypeOK, Init, TapeLen
<1>9. RightWindow  BY <1>6, <1>7 DEF RightWindow
<1>10. LeftWindows  BY <1>4, <1>7 DEF LeftWindows, Init, u, l
<1> QED  BY <1>5, <1>7, <1>8, <1>9, <1>10 DEF IInv, FinalReadsAll

-----------------------------------------------------------------------------

(* What a step that stays in the machine has to establish. *)
LEMMA StepIInv ==
    ASSUME IInv, UNCHANGED <<w, y>>,
           NEW u \in Seq(Upper), Len(u) = UlcMax,
           NEW r \in Seq(Upper), Len(r) <= UrcMax, SharpAtEnd(r),
           NEW l \in Seq(Lower), Len(l) = LlcMax,
           ctx' = [ulc |-> u, urc |-> r, llc |-> l],
           pos' \in 0..TapeLen, j' \in 0..Len(y),
           NEW n \in 0..Len(w), n = pos' - Len(r),
           \A k \in 1..Len(r) : r[k] = Tape(n + k),
           UlcMax = 1 => u = <<IF n = 0 THEN Sharp ELSE w[n]>>,
           LlcMax = 1 => l = <<IF j' = 0 THEN Sharp ELSE y[j']>>
    PROVE  IInv' /\ ctx' # FinalState /\ Read' = n
<1>1. IsContext(ctx') /\ ctx' # FinalState  BY ContextFrom
<1>2. ctx'.ulc = u /\ ctx'.urc = r /\ ctx'.llc = l  OBVIOUS
<1>3. Read' = n  BY <1>1, <1>2 DEF Read
<1>4. TypeOK'  BY <1>1 DEF IInv, TypeOK, TapeLen
<1>5. RightWindow'
  <2>1. \A k \in 1..Len(ctx'.urc) : ctx'.urc[k] = (Tape(n + k))'
    BY <1>2 DEF Tape
  <2> QED  BY <1>2, <1>3, <2>1 DEF RightWindow, Tape
<1>6. LeftWindows'  BY <1>2, <1>3 DEF LeftWindows
<1> QED  BY <1>1, <1>3, <1>4, <1>5, <1>6 DEF IInv, FinalReadsAll

(* The facts about the current state that every action starts from. *)
LEMMA Here ==
    ASSUME IInv, ctx # FinalState
    PROVE  /\ IsContext(ctx)
           /\ pos \in 0..TapeLen /\ TapeLen = Len(w) + UrcMax
           /\ Len(w) \in Nat /\ Len(y) \in Nat /\ UrcMax \in Nat
           /\ w \in Seq(V1) /\ y \in Seq(V2)
           /\ j \in 0..Len(y)
           /\ Read = pos - Len(ctx.urc) /\ Read \in 0..Len(w)
           /\ \A k \in 1..Len(ctx.urc) : ctx.urc[k] = Tape(Read + k)
           /\ UlcMax = 1 => ctx.ulc = <<IF Read = 0 THEN Sharp ELSE w[Read]>>
           /\ LlcMax = 1 => ctx.llc = <<IF j = 0 THEN Sharp ELSE y[j]>>
<1>1. w \in Seq(V1) /\ y \in Seq(V2)
  BY DataAssumption DEF IInv, TypeOK
<1> QED
  BY <1>1, MaxAssumption, DataAssumption
  DEF IInv, TypeOK, RightWindow, LeftWindows, Read, TapeLen

(* ABS: the window grows by the next symbol of the tape, nothing is read. *)
LEMMA AbsorbStep ==
    ASSUME IInv, Absorb
    PROVE  IInv' /\ ctx' # FinalState /\ Read' = Read
<1>0. ctx # FinalState  BY DEF Absorb
<1> USE <1>0, Here
<1> DEFINE v == Tape(pos + 1)
           r == Append(ctx.urc, v)
<1>1. pos + 1 \in 1..TapeLen  BY DEF Absorb
<1>2. v \in Upper  BY <1>1, TapeSymbols DEF IInv
<1>3. Len(ctx.urc) < UrcMax /\ ctx.urc \in Seq(Upper)
  BY ContextWindows DEF Absorb
<1> HIDE DEF v
<1>4. AddReverse(ctx.urc, v, UrcMax) = r
  BY <1>2, <1>3, AddReverseAppends
<1>5. r \in Seq(Upper) /\ Len(r) = Len(ctx.urc) + 1  BY <1>2, <1>3
<1>6. SharpAtEnd(r)  BY <1>4 DEF Absorb, CanAbsorb, v
<1>7. ctx' = [ulc |-> ctx.ulc, urc |-> r, llc |-> ctx.llc]
  BY <1>4 DEF Absorb, AbsTarget, v
<1>8. \A k \in 1..Len(r) : r[k] = Tape(Read + k)
  <2> SUFFICES ASSUME NEW k \in 1..Len(r) PROVE r[k] = Tape(Read + k)
    OBVIOUS
  <2>1. CASE k <= Len(ctx.urc)
    <3>1. k \in 1..Len(ctx.urc)  BY <1>3, <2>1
    <3>2. r[k] = ctx.urc[k]  BY <1>2, <1>3, <3>1
    <3>3. ctx.urc[k] = Tape(Read + k)  BY <3>1
    <3> QED  BY <3>2, <3>3
  <2>2. CASE k = Len(ctx.urc) + 1
    <3>1. r[k] = v  BY <1>2, <1>3, <2>2
    <3>2. Read + k = pos + 1  BY <1>3, <2>2
    <3> QED  BY <3>1, <3>2 DEF v
  <2>3. k <= Len(ctx.urc) \/ k = Len(ctx.urc) + 1
    <3>1. k \in 1..(Len(ctx.urc) + 1) /\ Len(ctx.urc) \in Nat
      BY <1>3, <1>5
    <3> QED  BY <3>1
  <2> HIDE DEF r
  <2> QED  BY <2>1, <2>2, <2>3
<1>9. /\ UNCHANGED <<w, y>> /\ j' = j
      /\ pos' = pos + 1 /\ pos' \in 0..TapeLen
      /\ Read = pos' - Len(r)
  <2>1. UNCHANGED <<w, y>> /\ j' = j /\ pos' = pos + 1  BY <1>1 DEF Absorb
  <2>2. pos' \in 0..TapeLen  BY <1>1, <2>1
  <2>3. Read = pos' - Len(r)
    <3>1. Read = pos - Len(ctx.urc) /\ pos \in Int  OBVIOUS
    <3>2. Len(ctx.urc) \in Int /\ Len(r) = Len(ctx.urc) + 1  BY <1>3, <1>5
    <3> QED  BY ONLY <2>1, <3>1, <3>2
  <2> QED  BY <2>1, <2>2, <2>3
<1>10. /\ ctx.ulc \in Seq(Upper) /\ Len(ctx.ulc) = UlcMax
       /\ ctx.llc \in Seq(Lower) /\ Len(ctx.llc) = LlcMax
       /\ Len(r) <= UrcMax
  BY <1>3, <1>5, ContextWindows
<1> HIDE DEF r
<1>11. LlcMax = 1 => ctx.llc = <<IF j' = 0 THEN Sharp ELSE y[j']>>
  BY <1>9
<1>12. IInv  OBVIOUS
<1>13. Read \in 0..Len(w) /\ j' \in 0..Len(y)  BY <1>9
<1>14. UlcMax = 1 => ctx.ulc = <<IF Read = 0 THEN Sharp ELSE w[Read]>>  OBVIOUS
<1> QED
  BY ONLY <1>5, <1>6, <1>7, <1>8, <1>9, <1>10, <1>11, <1>12, <1>13, <1>14, StepIInv

(* INS: the lower window moves to the symbol written. *)
LEMMA InsertStep ==
    ASSUME IInv, Insert
    PROVE  IInv' /\ ctx' # FinalState /\ Read' = Read
<1>0. ctx # FinalState  BY DEF Insert
<1> USE <1>0, Here
<1> DEFINE v == y[j + 1]
           l == Bump(ctx.llc, v, LlcMax)
<1>1. v \in Lower /\ j + 1 \in 1..Len(y)  BY DEF Insert, Lower
<1>2. /\ ctx.ulc \in Seq(Upper) /\ Len(ctx.ulc) = UlcMax
      /\ ctx.urc \in Seq(Upper) /\ Len(ctx.urc) <= UrcMax
      /\ SharpAtEnd(ctx.urc)
      /\ ctx.llc \in Seq(Lower)
  BY ContextWindows
<1> HIDE DEF v
<1>3. l = IF LlcMax = 0 THEN <<>> ELSE <<v>>
  BY <1>1, <1>2, LeftWindowShifts, TopologyAssumption
<1>4. l \in Seq(Lower) /\ Len(l) = LlcMax
  BY <1>1, <1>3, TopologyAssumption
<1>5. ctx' = [ulc |-> ctx.ulc, urc |-> ctx.urc, llc |-> l]
  BY DEF Insert, InsTarget, v
<1>6. UNCHANGED <<w, y>> /\ pos' = pos /\ j' = j + 1 /\ j' \in 0..Len(y)
  BY <1>1 DEF Insert
<1>7. LlcMax = 1 => l = <<IF j' = 0 THEN Sharp ELSE y[j']>>
  BY <1>3, <1>6 DEF v
<1> HIDE DEF l
<1> QED  BY <1>2, <1>4, <1>5, <1>6, <1>7, StepIInv

(* What SUB and DEL have in common: the first symbol of the right window *)
(* is read and becomes the left window.                                  *)
LEMMA ReadStep ==
    ASSUME IInv, ctx # FinalState, CanRead(ctx), UNCHANGED <<w, y, pos>>,
           NEW l \in Seq(Lower), Len(l) = LlcMax,
           NEW u, u = IF UlcMax = 0 THEN <<>> ELSE <<ctx.urc[1]>>,
           ctx' = [ulc |-> u, urc |-> Bump2(ctx.urc), llc |-> l],
           j' \in 0..Len(y),
           LlcMax = 1 => l = <<IF j' = 0 THEN Sharp ELSE y[j']>>
    PROVE  IInv' /\ ctx' # FinalState /\ Read' = Read + 1 /\ Read + 1 \in 1..Len(w)
<1> USE Here
<1> DEFINE r == Bump2(ctx.urc)
           n == Read + 1
<1>1. n \in 1..Len(w) /\ ctx.urc[1] = w[n] /\ ctx.urc[1] \in Upper
  BY ReadsWord
<1>2. /\ ctx.urc \in Seq(Upper) /\ ctx.urc # <<>> /\ SharpAtEnd(ctx.urc)
      /\ Len(ctx.urc) \in 1..UrcMax
  BY ContextWindows DEF CanRead
<1>3. /\ r \in Seq(Upper) /\ Len(r) = Len(ctx.urc) - 1
      /\ \A k \in 1..Len(r) : r[k] = ctx.urc[k + 1]
  BY <1>2, Bump2Shifts
<1>4. SharpAtEnd(r)  BY <1>2, SharpAtEndShifts
<1> HIDE DEF r
<1>5. \A k \in 1..Len(r) : r[k] = Tape(n + k)
  <2> SUFFICES ASSUME NEW k \in 1..Len(r) PROVE r[k] = Tape(n + k)
    OBVIOUS
  <2>1. k + 1 \in 1..Len(ctx.urc)  BY <1>2, <1>3
  <2>2. ctx.urc[k + 1] = Tape(Read + (k + 1))  BY <2>1
  <2>3. Read + (k + 1) = n + k  OBVIOUS
  <2> QED  BY <1>3, <2>2, <2>3
<1>6. u \in Seq(Upper) /\ Len(u) = UlcMax
  BY <1>1, TopologyAssumption
<1>7. UlcMax = 1 => u = <<IF n = 0 THEN Sharp ELSE w[n]>>
  BY <1>1
<1>8. /\ n \in 0..Len(w) /\ n = pos' - Len(r) /\ Len(r) <= UrcMax
      /\ pos' \in 0..TapeLen
  <2>1. n \in 0..Len(w)  BY <1>1
  <2>2. Len(r) <= UrcMax
    <3>1. UrcMax \in Nat  OBVIOUS
    <3> QED  BY ONLY <1>2, <1>3, <3>1
  <2>3. n = pos' - Len(r)
    <3>1. Read = pos - Len(ctx.urc) /\ pos' = pos /\ pos \in Int  OBVIOUS
    <3>2. Len(ctx.urc) \in Int /\ Len(r) = Len(ctx.urc) - 1  BY <1>2, <1>3
    <3> QED  BY ONLY <3>1, <3>2 DEF n
  <2>4. pos' \in 0..TapeLen  OBVIOUS
  <2> QED  BY <2>1, <2>2, <2>3, <2>4
<1>9. ctx' = [ulc |-> u, urc |-> r, llc |-> l]  BY DEF r
<1> HIDE DEF n
<1>10. IInv' /\ ctx' # FinalState /\ Read' = n
  <2>1. IInv /\ UNCHANGED <<w, y>> /\ l \in Seq(Lower) /\ Len(l) = LlcMax
    OBVIOUS
  <2>2. /\ j' \in 0..Len(y)
        /\ LlcMax = 1 => l = <<IF j' = 0 THEN Sharp ELSE y[j']>>
    OBVIOUS
  <2> QED
    BY ONLY <1>3, <1>4, <1>5, <1>6, <1>7, <1>8, <1>9, <2>1, <2>2, StepIInv
<1> QED  BY <1>1, <1>10 DEF n

(* SUB *)
LEMMA SubstituteStep ==
    ASSUME IInv, Substitute
    PROVE  /\ IInv' /\ ctx' # FinalState
           /\ Read' = Read + 1 /\ Read + 1 \in 1..Len(w)
<1>0. ctx # FinalState /\ CanRead(ctx)  BY DEF Substitute
<1> USE <1>0, Here
<1> DEFINE v == y[j + 1]
           l == Bump(ctx.llc, v, LlcMax)
           u == Add(Bump2(ctx.ulc), ctx.urc[1], UlcMax)
<1>1. v \in Lower /\ j + 1 \in 1..Len(y)  BY DEF Substitute, Lower
<1>2. /\ ctx.ulc \in Seq(Upper) /\ ctx.llc \in Seq(Lower)
      /\ ctx.urc[1] \in Upper
  BY ContextWindows, ReadsWord
<1>3. u = IF UlcMax = 0 THEN <<>> ELSE <<ctx.urc[1]>>
  BY <1>2, LeftWindowShifts, TopologyAssumption
<1> HIDE DEF v
<1>4. l = IF LlcMax = 0 THEN <<>> ELSE <<v>>
  BY <1>1, <1>2, LeftWindowShifts, TopologyAssumption
<1>5. l \in Seq(Lower) /\ Len(l) = LlcMax
  BY <1>1, <1>4, TopologyAssumption
<1>6. ctx' = [ulc |-> u, urc |-> Bump2(ctx.urc), llc |-> l]
  BY DEF Substitute, SubTarget, v
<1>7. UNCHANGED <<w, y, pos>> /\ j' = j + 1 /\ j' \in 0..Len(y)
  BY <1>1 DEF Substitute
<1>8. LlcMax = 1 => l = <<IF j' = 0 THEN Sharp ELSE y[j']>>
  BY <1>4, <1>7, <1>1 DEF v
<1> HIDE DEF l, u
<1> QED  BY <1>3, <1>5, <1>6, <1>7, <1>8, ReadStep

(* DEL *)
LEMMA DeleteStep ==
    ASSUME IInv, Delete
    PROVE  /\ IInv' /\ ctx' # FinalState
           /\ Read' = Read + 1 /\ Read + 1 \in 1..Len(w)
<1>0. ctx # FinalState /\ CanRead(ctx)  BY DEF Delete
<1> USE <1>0, Here
<1> DEFINE u == Add(ctx.ulc, ctx.urc[1], UlcMax)
<1>1. /\ ctx.ulc \in Seq(Upper)
      /\ ctx.llc \in Seq(Lower) /\ Len(ctx.llc) = LlcMax
      /\ ctx.urc[1] \in Upper
  BY ContextWindows, ReadsWord
<1>2. u = IF UlcMax = 0 THEN <<>> ELSE <<ctx.urc[1]>>
  BY <1>1, LeftWindowShifts, TopologyAssumption
<1>3. ctx' = [ulc |-> u, urc |-> Bump2(ctx.urc), llc |-> ctx.llc]
  BY DEF Delete, DelTarget
<1>4. UNCHANGED <<w, y, pos>> /\ j' = j  BY DEF Delete
<1>5. LlcMax = 1 => ctx.llc = <<IF j' = 0 THEN Sharp ELSE y[j']>>
  BY <1>4
<1> HIDE DEF u
<1> QED  BY <1>1, <1>2, <1>3, <1>4, <1>5, ReadStep

(* FINAL: a full right window of boundary symbols ends the tape. *)
LEMMA FinishStep ==
    ASSUME IInv, Finish
    PROVE  IInv' /\ ctx' = FinalState /\ Read = Len(w) /\ Read' = Len(w)
<1>0. ctx # FinalState  BY DEF Finish
<1> USE <1>0, Here
<1>1. Len(ctx.urc) = UrcMax /\ ctx.urc[1] = Sharp /\ UrcMax >= 1
  <2>1. UrcMax >= 1  BY MaxAssumption, TopologyAssumption
  <2>2. Len(ctx.urc) = UrcMax  BY DEF Finish, HasFinalArc
  <2>3. 1 \in 1..Len(ctx.urc)  BY <2>1, <2>2, MaxAssumption
  <2>4. ctx.urc[1] = Sharp  BY <2>3 DEF Finish, HasFinalArc, AllSharp
  <2> QED  BY <2>1, <2>2, <2>4
<1>2. Tape(Read + 1) = Sharp  BY <1>1
<1>3. Read + 1 \in 1..TapeLen  BY <1>1
<1>4. Read + 1 > Len(w)  BY <1>2, <1>3, TapeSymbols DEF IInv
<1>5. Read = Len(w) /\ pos = TapeLen  BY <1>1, <1>4
<1>6. /\ ctx' = FinalState /\ UNCHANGED <<w, y, pos, j>>
      /\ TapeLen' = TapeLen
  BY DEF Finish, TapeLen
<1>7. TypeOK'  BY <1>6 DEF IInv, TypeOK
<1>8. RightWindow' /\ LeftWindows' /\ FinalReadsAll'
  BY <1>5, <1>6 DEF RightWindow, LeftWindows, FinalReadsAll
<1> QED  BY <1>5, <1>6, <1>7, <1>8 DEF IInv, Read

-----------------------------------------------------------------------------

LEMMA NextIInv == IInv /\ [Next]_vars => IInv'
<1> SUFFICES ASSUME IInv, [Next]_vars PROVE IInv'  OBVIOUS
<1>1. CASE Absorb      BY <1>1, AbsorbStep
<1>2. CASE Insert      BY <1>2, InsertStep
<1>3. CASE Substitute  BY <1>3, SubstituteStep
<1>4. CASE Delete      BY <1>4, DeleteStep
<1>5. CASE Finish      BY <1>5, FinishStep
<1>6. CASE UNCHANGED vars
  <2>1. UNCHANGED <<w, y, ctx, pos, j>>  BY <1>6 DEF vars
  <2>2. Read' = Read /\ TapeLen' = TapeLen  BY <2>1 DEF Read, TapeLen
  <2>3. RightWindow'  BY <2>1, <2>2 DEF IInv, RightWindow, Tape
  <2>4. TypeOK'  BY <2>1, <2>2 DEF IInv, TypeOK
  <2>5. LeftWindows' /\ FinalReadsAll'
    BY <2>1, <2>2 DEF IInv, LeftWindows, FinalReadsAll
  <2> QED  BY <2>3, <2>4, <2>5 DEF IInv
<1> QED  BY <1>1, <1>2, <1>3, <1>4, <1>5, <1>6 DEF Next

(* Type correctness: the context is always one of the machine's states. *)
THEOREM TypeCorrect == Spec => []TypeOK
<1>1. IInv => TypeOK  BY DEF IInv
<1> QED  BY InitIInv, NextIInv, <1>1, PTL DEF Spec

(* The right window of context_edit.py's machine is always the text to the *)
(* right of the last symbol read.                                          *)
THEOREM RightWindowCorrect == Spec => []RightWindow
<1>1. IInv => RightWindow  BY DEF IInv
<1> QED  BY InitIInv, NextIInv, <1>1, PTL DEF Spec

(* The left windows are always the last symbol read and the last written. *)
THEOREM LeftWindowsCorrect == Spec => []LeftWindows
<1>1. IInv => LeftWindows  BY DEF IInv
<1> QED  BY InitIInv, NextIInv, <1>1, PTL DEF Spec

(* State 0 is reached only with the whole upper tape absorbed. *)
THEOREM FinalReadsAllCorrect == Spec => []FinalReadsAll
<1>1. IInv => FinalReadsAll  BY DEF IInv
<1> QED  BY InitIInv, NextIInv, <1>1, PTL DEF Spec

-----------------------------------------------------------------------------
(* Refinement: initial states and steps map to those of the edit process. *)

LEMMA InitRefines == Init => Edits!Init
<1> SUFFICES ASSUME Init PROVE Edits!Init  OBVIOUS
<1>1. ctx # FinalState /\ Read = 0  BY InitIInv
<1> QED  BY <1>1 DEF Init, Edits!Init

LEMMA NextRefines == IInv /\ [Next]_vars => [Edits!Next]_Edits!vars
<1> SUFFICES ASSUME IInv, [Next]_vars PROVE [Edits!Next]_Edits!vars
  OBVIOUS
<1>1. CASE Absorb
  <2>1. /\ ctx # FinalState /\ ctx' # FinalState /\ Read' = Read
        /\ UNCHANGED <<w, y, j>>
    BY <1>1, AbsorbStep DEF Absorb
  <2> QED  BY <2>1 DEF Edits!vars
<1>2. CASE Insert
  <2>1. /\ ctx # FinalState /\ ctx' # FinalState /\ Read' = Read
        /\ j < Len(y) /\ j' = j + 1 /\ UNCHANGED <<w, y>>
    BY <1>2, InsertStep DEF Insert
  <2>2. Edits!Insert  BY <2>1 DEF Edits!Insert
  <2> QED  BY <2>2 DEF Edits!Next
<1>3. CASE Substitute
  <2>1. /\ ctx # FinalState /\ ctx' # FinalState
        /\ Read' = Read + 1 /\ Read + 1 \in 1..Len(w)
        /\ j < Len(y) /\ j' = j + 1 /\ UNCHANGED <<w, y>>
    BY <1>3, SubstituteStep DEF Substitute
  <2>2. Read < Len(w)  BY <2>1, Here
  <2>3. Edits!Substitute  BY <2>1, <2>2 DEF Edits!Substitute
  <2> QED  BY <2>3 DEF Edits!Next
<1>4. CASE Delete
  <2>1. /\ ctx # FinalState /\ ctx' # FinalState
        /\ Read' = Read + 1 /\ Read + 1 \in 1..Len(w)
        /\ UNCHANGED <<w, y, j>>
    BY <1>4, DeleteStep DEF Delete
  <2>2. Read < Len(w)  BY <2>1, Here
  <2>3. Edits!Delete  BY <2>1, <2>2 DEF Edits!Delete
  <2> QED  BY <2>3 DEF Edits!Next
<1>5. CASE Finish
  <2>1. /\ ctx # FinalState /\ ctx' = FinalState
        /\ Read = Len(w) /\ Read' = Len(w)
        /\ UNCHANGED <<w, y, j>>
    BY <1>5, FinishStep DEF Finish
  <2>2. Edits!Stop  BY <2>1 DEF Edits!Stop
  <2> QED  BY <2>2 DEF Edits!Next
<1>6. CASE UNCHANGED vars
  BY <1>6 DEF vars, Read, Edits!vars
<1> QED  BY <1>1, <1>2, <1>3, <1>4, <1>5, <1>6 DEF Next

(* The machine implements the edit process. *)
THEOREM Refinement == Spec => ImplementsEditProcess
<1>1. Spec => []IInv  BY InitIInv, NextIInv, PTL DEF Spec
<1> QED
  BY <1>1, InitRefines, NextRefines, PTL
  DEF Spec, ImplementsEditProcess, Edits!Spec

-----------------------------------------------------------------------------
(* The aligner.                                                            *)

(* The aligner's own variables hold symbols, blanks and what it takes from *)
(* its queue.                                                              *)
AlignTypeOK == /\ TypeOK
               /\ queue \in Seq(Upper)
               /\ upperString \in Seq(Upper \cup {Blank, Undefined})
               /\ lowerString \in Seq(V2 \cup {Blank})

(* The queue is the right window only while the windows tell the truth, so *)
(* the inductive invariant contains that of the machine.                   *)
AInv == IInv /\ AlignTypeOK /\ QueueIsRightWindow /\ IsAlignment

-----------------------------------------------------------------------------
(* Spelling, one column more. *)

Letters(s) == {k \in 1..Len(s) : s[k] # Blank}
Ordinal(s, k) == Cardinality({m \in Letters(s) : m <= k})

LEMMA SpellsDef ==
    ASSUME NEW s, NEW t
    PROVE  Spells(s, t) <=> /\ Cardinality(Letters(s)) = Len(t)
                            /\ \A k \in Letters(s) : s[k] = t[Ordinal(s, k)]
BY DEF Spells, Letters, Ordinal

(* The letters of a sequence, and those up to one of them, can be counted. *)
LEMMA LettersFinite ==
    ASSUME NEW S, NEW s \in Seq(S)
    PROVE  /\ IsFiniteSet(Letters(s))
           /\ \A k \in Letters(s) :
                /\ Ordinal(s, k) \in Nat
                /\ Ordinal(s, k) >= 1
                /\ Ordinal(s, k) <= Cardinality(Letters(s))
<1>1. Len(s) \in Nat  OBVIOUS
<1>2. IsFiniteSet(1..Len(s))  BY <1>1, FS_Interval
<1>3. IsFiniteSet(Letters(s))
  <2>1. Letters(s) \in SUBSET (1..Len(s))  BY DEF Letters
  <2> QED  BY <1>2, <2>1, FS_Subset
<1>4. ASSUME NEW k \in Letters(s)
      PROVE  /\ Ordinal(s, k) \in Nat
             /\ Ordinal(s, k) >= 1
             /\ Ordinal(s, k) <= Cardinality(Letters(s))
  <2> DEFINE T == {m \in Letters(s) : m <= k}
  <2>1. T \in SUBSET Letters(s) /\ k \in T  BY <1>1 DEF Letters
  <2>2. IsFiniteSet(T) /\ Cardinality(T) <= Cardinality(Letters(s))
    BY <1>3, <2>1, FS_Subset
  <2>3. Cardinality(T) \in Nat  BY <2>2, FS_CardinalityType
  <2>4. Cardinality(T) # 0  BY <2>1, <2>2, FS_EmptySet
  <2> QED  BY <2>2, <2>3, <2>4 DEF Ordinal
<1> QED  BY <1>3, <1>4

(* A blank column spells nothing. *)
LEMMA SpellsBlank ==
    ASSUME NEW S, NEW s \in Seq(S), NEW t, Spells(s, t), Blank \in S
    PROVE  Spells(Append(s, Blank), t)
<1> DEFINE u == Append(s, Blank)
<1>1. /\ Len(u) = Len(s) + 1 /\ Len(s) \in Nat
      /\ \A k \in 1..Len(s) : u[k] = s[k]
      /\ u[Len(s) + 1] = Blank
  OBVIOUS
<1> HIDE DEF u
<1>2. Letters(u) = Letters(s)  BY <1>1 DEF Letters
<1>3. \A k \in Letters(u) : u[k] = s[k] /\ Ordinal(u, k) = Ordinal(s, k)
  BY <1>1, <1>2 DEF Ordinal, Letters
<1>4. Spells(u, t)  BY <1>2, <1>3, SpellsDef
<1> QED  BY <1>4 DEF u

(* A column with a letter spells one letter more. *)
LEMMA SpellsLetter ==
    ASSUME NEW S, NEW s \in Seq(S), NEW T, NEW t \in Seq(T), Spells(s, t),
           NEW e, e \in S, e \in T, e # Blank
    PROVE  Spells(Append(s, e), Append(t, e))
<1> DEFINE u == Append(s, e)
           n == Len(s) + 1
           x == Append(t, e)
<1>1. /\ Len(u) = n /\ Len(s) \in Nat /\ n \in Nat /\ n \notin 1..Len(s)
      /\ \A k \in 1..Len(s) : u[k] = s[k]
      /\ u[n] = e
      /\ Len(x) = Len(t) + 1 /\ Len(t) \in Nat /\ x[Len(t) + 1] = e
      /\ \A k \in 1..Len(t) : x[k] = t[k]
  OBVIOUS
<1> HIDE DEF u, x
<1>2. /\ Cardinality(Letters(s)) = Len(t) /\ IsFiniteSet(Letters(s))
      /\ \A k \in Letters(s) : s[k] = t[Ordinal(s, k)]
      /\ \A k \in Letters(s) : Ordinal(s, k) \in 1..Len(t)
  <2>1. Cardinality(Letters(s)) = Len(t) /\ \A k \in Letters(s) : s[k] = t[Ordinal(s, k)]
    BY SpellsDef
  <2>2. /\ IsFiniteSet(Letters(s))
        /\ \A k \in Letters(s) : /\ Ordinal(s, k) \in Nat /\ Ordinal(s, k) >= 1
                                 /\ Ordinal(s, k) <= Cardinality(Letters(s))
    BY LettersFinite
  <2> QED  BY <1>1, <2>1, <2>2
<1>3. Letters(u) = Letters(s) \cup {n} /\ n \notin Letters(s)
  BY <1>1 DEF Letters
<1>4. Cardinality(Letters(u)) = Len(x)
  BY <1>1, <1>2, <1>3, FS_AddElement
<1>5. ASSUME NEW k \in Letters(u) PROVE u[k] = x[Ordinal(u, k)]
  <2>1. CASE k \in Letters(s)
    <3>1. k \in 1..Len(s)  BY <2>1 DEF Letters
    <3>2. {m \in Letters(u) : m <= k} = {m \in Letters(s) : m <= k}
      BY <1>1, <1>3, <3>1 DEF Letters
    <3>3. Ordinal(u, k) = Ordinal(s, k)  BY <3>2 DEF Ordinal
    <3> QED  BY <1>1, <1>2, <2>1, <3>1, <3>3
  <2>2. CASE k = n
    <3>1. {m \in Letters(u) : m <= k} = Letters(u)
      BY <1>1, <2>2 DEF Letters
    <3>2. Ordinal(u, k) = Len(t) + 1  BY <1>1, <1>4, <3>1 DEF Ordinal
    <3> QED  BY <1>1, <2>2, <3>2
  <2> QED  BY <1>3, <2>1, <2>2
<1>6. Spells(u, x)  BY <1>4, <1>5, SpellsDef
<1> QED  BY <1>6 DEF u, x

(* A prefix of a word and its next letter make the next prefix. *)
LEMMA PrefixGrows ==
    ASSUME NEW S, NEW s \in Seq(S), NEW n \in Nat, n + 1 \in 1..Len(s)
    PROVE  /\ SubSeq(s, 1, n) \in Seq(S)
           /\ SubSeq(s, 1, n + 1) = Append(SubSeq(s, 1, n), s[n + 1])
<1> DEFINE p == SubSeq(s, 1, n)
           q == SubSeq(s, 1, n + 1)
<1>1. /\ p \in Seq(S) /\ Len(p) = n /\ \A k \in 1..n : p[k] = s[k]
      /\ q \in Seq(S) /\ Len(q) = n + 1 /\ \A k \in 1..(n + 1) : q[k] = s[k]
  OBVIOUS
<1>2. s[n + 1] \in S  OBVIOUS
<1> HIDE DEF p, q
<1>3. /\ Append(p, s[n + 1]) \in Seq(S) /\ Len(Append(p, s[n + 1])) = n + 1
      /\ \A k \in 1..(n + 1) : Append(p, s[n + 1])[k] = q[k]
  BY <1>1, <1>2
<1>4. q = Append(p, s[n + 1])  BY <1>1, <1>3
<1> QED  BY <1>1, <1>4 DEF p, q

-----------------------------------------------------------------------------
(* The steps. *)

UpperChars == Upper \cup {Blank, Undefined}
LowerChars == V2 \cup {Blank}

(* What the strings have to spell. *)
Above == IF ctx = FinalState THEN Append(SubSeq(w, 1, Read), Sharp)
                             ELSE SubSeq(w, 1, Read)
Below == SubSeq(y, 1, j)

(* A column that is legal keeps the strings legal, if it spells as much as *)
(* the step has read and written.                                          *)
LEMMA ColumnStep ==
    ASSUME AInv, IInv',
           NEW up \in Upper \cup {Blank}, NEW low \in LowerChars, Column(up, low),
           (up = Blank \/ up = Sharp) => (low = Blank) = (up = Sharp),
           Spells(Append(upperString, up), Above'),
           Spells(Append(lowerString, low), Below'),
           queue' \in Seq(Upper), ctx' # FinalState => queue' = ctx'.urc
    PROVE  AInv'
<1>1. /\ upperString \in Seq(UpperChars) /\ lowerString \in Seq(LowerChars)
      /\ Len(upperString) = Len(lowerString)
      /\ \A k \in 1..Len(upperString) :
            /\ upperString[k] # Undefined
            /\ (upperString[k] = Blank \/ upperString[k] = Sharp)
                  => (lowerString[k] = Blank) = (upperString[k] = Sharp)
  BY DEF AInv, AlignTypeOK, QueueIsRightWindow, IsAlignment, UpperChars, LowerChars
<1>2. up # Undefined /\ up \in UpperChars
  BY BlankAssumption DEF UpperChars, Upper
<1>3. upperString' = Append(upperString, up) /\ lowerString' = Append(lowerString, low)
  BY DEF Column
<1>4. /\ upperString' \in Seq(UpperChars) /\ lowerString' \in Seq(LowerChars)
      /\ Len(upperString') = Len(upperString) + 1
      /\ Len(lowerString') = Len(upperString')
      /\ \A k \in 1..Len(upperString) : /\ upperString'[k] = upperString[k]
                                        /\ lowerString'[k] = lowerString[k]
      /\ upperString'[Len(upperString) + 1] = up
      /\ lowerString'[Len(upperString) + 1] = low
  BY <1>1, <1>2, <1>3
<1>5. ASSUME NEW k \in 1..Len(upperString')
      PROVE  /\ upperString'[k] # Undefined
             /\ (upperString'[k] = Blank \/ upperString'[k] = Sharp)
                   => (lowerString'[k] = Blank) = (upperString'[k] = Sharp)
  <2>1. CASE k \in 1..Len(upperString)  BY <1>1, <1>4, <2>1
  <2>2. CASE k = Len(upperString) + 1   BY <1>2, <1>4, <2>2
  <2>3. Len(upperString) \in Nat  BY <1>1
  <2> QED  BY <1>4, <2>1, <2>2, <2>3
<1>6. AlignTypeOK'
  BY <1>4 DEF AlignTypeOK, IInv, UpperChars, LowerChars, Upper
<1>7. QueueIsRightWindow'  BY <1>5 DEF QueueIsRightWindow
<1>8. IsAlignment'
  BY <1>3, <1>4, <1>5 DEF IsAlignment, Above, Below
<1> QED  BY <1>6, <1>7, <1>8 DEF AInv

(* What every step starts from. *)
LEMMA AlignHere ==
    ASSUME AInv, ctx # FinalState
    PROVE  /\ IInv /\ IsContext(ctx) /\ queue = ctx.urc /\ queue \in Seq(Upper)
           /\ upperString \in Seq(UpperChars) /\ lowerString \in Seq(LowerChars)
           /\ w \in Seq(V1) /\ y \in Seq(V2) /\ Read \in 0..Len(w) /\ j \in 0..Len(y)
           /\ Spells(upperString, SubSeq(w, 1, Read))
           /\ Spells(lowerString, SubSeq(y, 1, j))
<1>1. IInv  BY DEF AInv
<1> QED
  BY <1>1, Here
  DEF AInv, AlignTypeOK, QueueIsRightWindow, IsAlignment, UpperChars, LowerChars

LEMMA AlignAbsorbStep == ASSUME AInv, AlignAbsorb PROVE AInv'
<1>0. ctx # FinalState /\ Absorb  BY DEF AlignAbsorb, Absorb
<1>1. IInv' /\ ctx' # FinalState /\ Read' = Read
  BY <1>0, AlignHere, AbsorbStep
<1>2. ctx'.urc = Append(queue, Tape(pos + 1)) /\ Tape(pos + 1) \in Upper
  <2> USE <1>0, AlignHere
  <2>1. pos + 1 \in 1..TapeLen  BY Here DEF Absorb
  <2>2. Tape(pos + 1) \in Upper  BY <2>1, TapeSymbols DEF IInv
  <2>3. Len(ctx.urc) < UrcMax /\ ctx.urc \in Seq(Upper) /\ UrcMax \in Nat
    BY ContextWindows, MaxAssumption DEF Absorb
  <2>4. AddReverse(ctx.urc, Tape(pos + 1), UrcMax) = Append(ctx.urc, Tape(pos + 1))
    BY <2>2, <2>3, AddReverseAppends
  <2>5. ctx' = AbsTarget(ctx, Tape(pos + 1))  BY DEF Absorb
  <2> QED  BY <2>2, <2>4, <2>5 DEF AbsTarget
<1>3. /\ queue' = Append(queue, Tape(pos + 1)) /\ UNCHANGED <<upperString, lowerString>>
      /\ UNCHANGED <<w, y, j>>
  BY DEF AlignAbsorb, Absorb
<1>4. queue' \in Seq(Upper) /\ queue' = ctx'.urc
  BY <1>0, <1>2, <1>3, AlignHere
<1>5. AlignTypeOK'  BY <1>1, <1>3, <1>4 DEF AInv, IInv, AlignTypeOK
<1>6. QueueIsRightWindow'  BY <1>3, <1>4 DEF AInv, QueueIsRightWindow
<1>7. IsAlignment'  BY <1>0, <1>1, <1>3 DEF AInv, IsAlignment
<1> QED  BY <1>1, <1>5, <1>6, <1>7 DEF AInv

(* Writing a letter lets the lower string spell one letter more. *)
LEMMA Writes ==
    ASSUME AInv, ctx # FinalState, j < Len(y), j' = j + 1, y' = y
    PROVE  /\ y[j + 1] \in V2 /\ y[j + 1] # Blank
           /\ Spells(Append(lowerString, y[j + 1]), Below')
<1> USE AlignHere
<1>1. j + 1 \in 1..Len(y) /\ j \in Nat  OBVIOUS
<1>2. y[j + 1] \in V2 /\ y[j + 1] # Blank  BY <1>1, BlankAssumption
<1>3. /\ SubSeq(y, 1, j) \in Seq(V2)
      /\ SubSeq(y, 1, j + 1) = Append(SubSeq(y, 1, j), y[j + 1])
  BY <1>1, PrefixGrows
<1>4. Spells(Append(lowerString, y[j + 1]), Append(SubSeq(y, 1, j), y[j + 1]))
  BY <1>2, <1>3, SpellsLetter DEF LowerChars
<1> QED  BY <1>2, <1>3, <1>4 DEF Below

(* Writing nothing leaves a blank. *)
LEMMA WritesNothing ==
    ASSUME AInv, ctx # FinalState, UNCHANGED <<y, j>>
    PROVE  Spells(Append(lowerString, Blank), Below')
BY AlignHere, SpellsBlank DEF Below, LowerChars

(* Reading takes the next letter from the queue. *)
LEMMA Reads ==
    ASSUME AInv, ctx # FinalState, CanRead(ctx), w' = w, ctx' # FinalState,
           Read' = Read + 1, PopFront, ctx'.urc = Bump2(ctx.urc)
    PROVE  /\ Front \in Upper /\ Front # Blank /\ Front # Sharp
           /\ Spells(Append(upperString, Front), Above')
           /\ queue' \in Seq(Upper) /\ queue' = ctx'.urc
<1> USE AlignHere
<1>1. queue # <<>> /\ Front = queue[1]  BY DEF CanRead, Front
<1>2. Read + 1 \in 1..Len(w) /\ ctx.urc[1] = w[Read + 1]
  BY ReadsWord
<1>3. Front = w[Read + 1] /\ Front \in V1  BY <1>1, <1>2
<1>4. Front \in Upper /\ Front # Blank /\ Front # Sharp
  BY <1>3, BlankAssumption, SharpAssumption DEF Upper
<1>5. /\ SubSeq(w, 1, Read) \in Seq(V1)
      /\ SubSeq(w, 1, Read + 1) = Append(SubSeq(w, 1, Read), w[Read + 1])
  <2>1. w \in Seq(V1) /\ Read \in Nat  OBVIOUS
  <2> QED  BY <1>2, <2>1, PrefixGrows
<1>6. Spells(Append(upperString, Front), Append(SubSeq(w, 1, Read), Front))
  BY <1>3, <1>4, <1>5, SpellsLetter DEF UpperChars
<1>7. Above' = Append(SubSeq(w, 1, Read), Front)  BY <1>3, <1>5 DEF Above
<1>8. queue' \in Seq(Upper) /\ queue' = ctx'.urc
  BY <1>1 DEF PopFront, Bump2
<1> QED  BY <1>4, <1>6, <1>7, <1>8

LEMMA AlignInsertStep == ASSUME AInv, AlignInsert PROVE AInv'
<1>0. Insert /\ ctx # FinalState /\ j < Len(y) /\ j' = j + 1 /\ UNCHANGED <<w, y>>
  BY DEF AlignInsert, Insert
<1>1. IInv' /\ ctx' # FinalState /\ Read' = Read
  BY <1>0, AlignHere, InsertStep
<1>2. Column(Blank, y[j + 1]) /\ queue' = queue  BY DEF AlignInsert
<1>3. queue' \in Seq(Upper) /\ queue' = ctx'.urc
  BY <1>0, <1>2, AlignHere DEF Insert, InsTarget
<1>4. Spells(Append(upperString, Blank), Above')
  BY <1>0, <1>1, AlignHere, SpellsBlank DEF Above, UpperChars
<1>5. y[j + 1] \in V2 /\ y[j + 1] # Blank /\ Spells(Append(lowerString, y[j + 1]), Below')
  BY <1>0, Writes
<1>6. Blank # Sharp  BY BlankAssumption
<1> QED  BY <1>1, <1>2, <1>3, <1>4, <1>5, <1>6, ColumnStep DEF LowerChars

LEMMA AlignSubstituteStep == ASSUME AInv, AlignSubstitute PROVE AInv'
<1>0. /\ Substitute /\ ctx # FinalState /\ CanRead(ctx) /\ PopFront
      /\ j < Len(y) /\ j' = j + 1 /\ UNCHANGED <<w, y>>
  BY DEF AlignSubstitute, Substitute
<1>1. IInv' /\ ctx' # FinalState /\ Read' = Read + 1
  BY <1>0, AlignHere, SubstituteStep
<1>2. Column(Front, y[j + 1])  BY DEF AlignSubstitute
<1>3. ctx'.urc = Bump2(ctx.urc)  BY <1>0 DEF Substitute, SubTarget
<1>4. /\ Front \in Upper /\ Front # Blank /\ Front # Sharp
      /\ Spells(Append(upperString, Front), Above')
      /\ queue' \in Seq(Upper) /\ queue' = ctx'.urc
  BY <1>0, <1>1, <1>3, Reads
<1>5. y[j + 1] \in V2 /\ y[j + 1] # Blank /\ Spells(Append(lowerString, y[j + 1]), Below')
  BY <1>0, Writes
<1> QED  BY <1>1, <1>2, <1>4, <1>5, ColumnStep DEF LowerChars

LEMMA AlignDeleteStep == ASSUME AInv, AlignDelete PROVE AInv'
<1>0. /\ Delete /\ ctx # FinalState /\ CanRead(ctx) /\ PopFront
      /\ UNCHANGED <<w, y, j>>
  BY DEF AlignDelete, Delete
<1>1. IInv' /\ ctx' # FinalState /\ Read' = Read + 1
  BY <1>0, AlignHere, DeleteStep
<1>2. Column(Front, Blank)  BY DEF AlignDelete
<1>3. ctx'.urc = Bump2(ctx.urc)  BY <1>0 DEF Delete, DelTarget
<1>4. /\ Front \in Upper /\ Front # Blank /\ Front # Sharp
      /\ Spells(Append(upperString, Front), Above')
      /\ queue' \in Seq(Upper) /\ queue' = ctx'.urc
  BY <1>0, <1>1, <1>3, Reads
<1>5. Spells(Append(lowerString, Blank), Below')  BY <1>0, WritesNothing
<1> QED  BY <1>1, <1>2, <1>4, <1>5, ColumnStep DEF LowerChars

(* The last column has the boundary symbol over a blank. *)
LEMMA AlignFinishStep == ASSUME AInv, AlignFinish PROVE AInv'
<1>0. Finish /\ ctx # FinalState /\ UNCHANGED <<w, y, j>>
  BY DEF AlignFinish, Finish
<1>1. IInv' /\ ctx' = FinalState /\ Read' = Len(w) /\ Read = Len(w)
  BY <1>0, AlignHere, FinishStep
<1>2. Column(Front, Blank) /\ queue' = queue  BY DEF AlignFinish
<1>3. Front = Sharp
  <2>1. Len(queue) = UrcMax /\ AllSharp(queue) /\ UrcMax # 0 /\ UrcMax \in Nat
    BY <1>0, AlignHere, TopologyAssumption, MaxAssumption DEF Finish, HasFinalArc
  <2>2. queue # <<>> /\ queue[1] = Sharp
    BY <1>0, <2>1, AlignHere DEF AllSharp
  <2> QED  BY <2>2 DEF Front
<1>4. Sharp # Blank /\ Sharp \in Upper  BY BlankAssumption DEF Upper
<1>5. Above' = Append(SubSeq(w, 1, Read), Sharp)  BY <1>0, <1>1 DEF Above
<1>6. SubSeq(w, 1, Read) \in Seq(V1 \cup {Sharp})
  BY <1>0, AlignHere
<1>7. Spells(Append(upperString, Sharp), Above')
  BY <1>0, <1>4, <1>5, <1>6, AlignHere, SpellsLetter DEF UpperChars
<1>8. Spells(Append(lowerString, Blank), Below')  BY <1>0, WritesNothing
<1>9. queue' \in Seq(Upper)  BY <1>0, <1>2, AlignHere
<1> QED  BY <1>1, <1>2, <1>3, <1>4, <1>7, <1>8, <1>9, ColumnStep DEF LowerChars

LEMMA InitAInv == AlignInit => AInv
<1> SUFFICES ASSUME AlignInit PROVE AInv  OBVIOUS
<1>1. Init /\ queue = <<>> /\ upperString = <<>> /\ lowerString = <<>>
  BY DEF AlignInit
<1>2. IInv /\ ctx # FinalState /\ Read = 0  BY <1>1, InitIInv
<1>3. ctx.urc = <<>> /\ j = 0  BY <1>1 DEF Init, InitialContext
<1>4. \A s : Len(s) = 0 => Spells(<<>>, s)
  <2>1. Letters(<<>>) = {}  BY DEF Letters
  <2>2. Cardinality(Letters(<<>>)) = 0  BY <2>1, FS_EmptySet
  <2> QED  BY <2>1, <2>2, SpellsDef
<1>5. w \in Seq(V1) /\ y \in Seq(V2)  BY <1>2, Here
<1>6. Len(SubSeq(w, 1, 0)) = 0 /\ Len(SubSeq(y, 1, 0)) = 0  BY <1>5
<1>7. AlignTypeOK  BY <1>1, <1>2 DEF AlignTypeOK, IInv
<1>8. QueueIsRightWindow  BY <1>1, <1>3 DEF QueueIsRightWindow
<1>9. IsAlignment
  <2>1. Spells(upperString, SubSeq(w, 1, Read)) /\ Spells(lowerString, SubSeq(y, 1, j))
    BY <1>1, <1>2, <1>3, <1>4, <1>6
  <2>2. Len(upperString) = Len(lowerString) /\ 1..Len(upperString) = {}
    BY <1>1
  <2> QED  BY <1>2, <2>1, <2>2 DEF IsAlignment
<1> QED  BY <1>2, <1>7, <1>8, <1>9 DEF AInv

LEMMA NextAInv == AInv /\ [AlignNext]_<<vars, alignVars>> => AInv'
<1> SUFFICES ASSUME AInv, [AlignNext]_<<vars, alignVars>> PROVE AInv'  OBVIOUS
<1>1. CASE AlignAbsorb      BY <1>1, AlignAbsorbStep
<1>2. CASE AlignInsert      BY <1>2, AlignInsertStep
<1>3. CASE AlignSubstitute  BY <1>3, AlignSubstituteStep
<1>4. CASE AlignDelete      BY <1>4, AlignDeleteStep
<1>5. CASE AlignFinish      BY <1>5, AlignFinishStep
<1>6. CASE UNCHANGED <<vars, alignVars>>
  <2>1. IInv'
    <3>1. [Next]_vars  BY <1>6
    <3> QED  BY <3>1, NextIInv DEF AInv
  <2>2. UNCHANGED <<w, y, ctx, pos, j, queue, upperString, lowerString>>
    BY <1>6 DEF vars, alignVars
  <2>3. Read' = Read  BY <2>2 DEF Read
  <2>4. AlignTypeOK'  BY <2>1, <2>2 DEF AInv, AlignTypeOK, IInv
  <2>5. QueueIsRightWindow'  BY <2>2 DEF AInv, QueueIsRightWindow
  <2>6. IsAlignment'  BY <2>2, <2>3 DEF AInv, IsAlignment
  <2> QED  BY <2>1, <2>4, <2>5, <2>6 DEF AInv
<1> QED  BY <1>1, <1>2, <1>3, <1>4, <1>5, <1>6 DEF AlignNext

-----------------------------------------------------------------------------
(* aligner() never takes the front of an empty queue, and what it takes is *)
(* the first symbol of the right window.                                   *)
THEOREM QueueCorrect == AlignSpec => []QueueIsRightWindow
<1>1. AInv => QueueIsRightWindow  BY DEF AInv
<1> QED  BY InitAInv, NextAInv, <1>1, PTL DEF AlignSpec

(* The two strings are an alignment of what has been read and written. *)
THEOREM AlignmentCorrect == AlignSpec => []IsAlignment
<1>1. AInv => IsAlignment  BY DEF AInv
<1> QED  BY InitAInv, NextAInv, <1>1, PTL DEF AlignSpec
=============================================================================
