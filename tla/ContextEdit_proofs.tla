------------------------- MODULE ContextEdit_proofs -------------------------
(***************************************************************************)
(* What the window helpers of the edit machine return, for windows of the  *)
(* lengths the machine is well formed for.                                 *)
(***************************************************************************)
EXTENDS ContextEdit, SequenceTheorems, TLAPS

(* The slice [0:limit] keeps a window that fits. *)
LEMMA TruncateFits ==
    ASSUME NEW S, NEW t \in Seq(S), NEW n \in Nat, Len(t) <= n
    PROVE  Truncate(t, n) = t
<1>1. (IF Len(t) < n THEN Len(t) ELSE n) = Len(t)  OBVIOUS
<1>2. SubSeq(t, 1, Len(t)) = t  OBVIOUS
<1> QED  BY <1>1, <1>2 DEF Truncate

(* The slice of a window of at most one symbol. *)
LEMMA TruncateOne ==
    ASSUME NEW S, NEW v \in S, NEW t \in Seq(S), NEW n \in {0, 1}
    PROVE  Truncate(<<v>> \o t, n) = IF n = 0 THEN <<>> ELSE <<v>>
<1> DEFINE u == <<v>> \o t
<1>1. u \in Seq(S) /\ Len(u) = 1 + Len(t) /\ u[1] = v  OBVIOUS
<1> HIDE DEF u
<1>2. CASE n = 0
  <2>1. SubSeq(u, 1, 0) = <<>>  BY <1>1
  <2> QED  BY <1>1, <1>2, <2>1 DEF Truncate, u
<1>3. CASE n = 1
  <2>1. (IF Len(u) < 1 THEN Len(u) ELSE 1) = 1  BY <1>1
  <2> DEFINE p == SubSeq(u, 1, 1)
             q == <<v>>
  <2>2. p \in Seq(S) /\ Len(p) = 1 /\ p[1] = v  BY <1>1
  <2>3. q \in Seq(S) /\ Len(q) = 1 /\ q[1] = v  OBVIOUS
  <2> HIDE DEF p, q
  <2>4. \A i \in 1..Len(p) : p[i] = q[i]  BY <2>2, <2>3
  <2>5. p = q  BY <2>2, <2>3, <2>4, SeqEqual
  <2> QED  BY <1>1, <1>3, <2>1, <2>5 DEF Truncate, u, p, q
<1> QED  BY <1>2, <1>3

(* bump2 returns a window, one symbol shorter, of the symbols that follow. *)
LEMMA Bump2Shifts ==
    ASSUME NEW S, NEW t \in Seq(S)
    PROVE  /\ Bump2(t) \in Seq(S)
           /\ t # <<>> => /\ Len(Bump2(t)) = Len(t) - 1
                          /\ \A k \in 1..Len(Bump2(t)) : Bump2(t)[k] = t[k + 1]
BY DEF Bump2

(* add_reverse appends when the window is not full. *)
LEMMA AddReverseAppends ==
    ASSUME NEW S, NEW t \in Seq(S), NEW v \in S, NEW n \in Nat, Len(t) < n
    PROVE  AddReverse(t, v, n) = Append(t, v)
<1>1. Append(t, v) \in Seq(S) /\ Len(Append(t, v)) <= n  OBVIOUS
<1> QED  BY <1>1, TruncateFits DEF AddReverse

(* In a left window of at most one symbol, add, bump and add after bump2 *)
(* all make the new symbol the most recent one.                          *)
LEMMA LeftWindowShifts ==
    ASSUME NEW S, NEW t \in Seq(S), NEW v \in S, NEW n \in {0, 1}
    PROVE  LET one == IF n = 0 THEN <<>> ELSE <<v>>
           IN  /\ Add(t, v, n) = one
               /\ Add(Bump2(t), v, n) = one
               /\ Bump(t, v, n) = one
<1>1. Bump2(t) \in Seq(S)  BY Bump2Shifts
<1> QED  BY <1>1, TruncateOne DEF Add, Bump

(* Boundary symbols stay at the end when the first symbol leaves. *)
LEMMA SharpAtEndShifts ==
    ASSUME NEW S, NEW t \in Seq(S), t # <<>>, SharpAtEnd(t)
    PROVE  SharpAtEnd(Bump2(t))
<1>1. /\ Len(Bump2(t)) = Len(t) - 1
      /\ \A k \in 1..Len(Bump2(t)) : Bump2(t)[k] = t[k + 1]
  BY Bump2Shifts
<1> SUFFICES ASSUME NEW p \in 1..Len(Bump2(t)), NEW q \in 1..Len(Bump2(t)),
                    p < q, Bump2(t)[p] = Sharp
             PROVE  Bump2(t)[q] = Sharp
  BY DEF SharpAtEnd
<1>2. p + 1 \in 1..Len(t) /\ q + 1 \in 1..Len(t) /\ p + 1 < q + 1
      /\ t[p + 1] = Sharp
  BY <1>1
<1>3. t[q + 1] = Sharp  BY <1>2 DEF SharpAtEnd
<1> QED  BY <1>1, <1>3

(* A left window of one symbol meets the sharp condition. *)
LEMMA SharpAtBeginningOne ==
    ASSUME NEW S, NEW t \in Seq(S), Len(t) \in {0, 1}
    PROVE  SharpAtBeginning(t)
BY DEF SharpAtBeginning

-----------------------------------------------------------------------------
(* The windows of a context, with the lengths the topology fixes. *)
LEMMA ContextWindows ==
    ASSUME NEW c, IsContext(c)
    PROVE  /\ c = [ulc |-> c.ulc, urc |-> c.urc, llc |-> c.llc]
           /\ c.ulc \in Seq(Upper) /\ Len(c.ulc) = UlcMax
           /\ c.urc \in Seq(Upper) /\ Len(c.urc) \in 0..UrcMax
           /\ c.llc \in Seq(Lower) /\ Len(c.llc) = LlcMax
           /\ SharpAtEnd(c.urc)
           /\ IsBold(c) <=> Len(c.urc) = UrcMax
<1>1. c \in [ulc : Seq(Upper), urc : Seq(Upper), llc : Seq(Lower)]
  BY DEF IsContext
<1>2. c.ulc \in Seq(Upper) /\ c.urc \in Seq(Upper) /\ c.llc \in Seq(Lower)
  BY <1>1
<1>3. Len(c.ulc) = UlcMax
  BY <1>2, TopologyAssumption DEF IsContext
<1>4. Len(c.llc) = LlcMax
  BY <1>2, TopologyAssumption DEF IsContext
<1> QED  BY <1>1, <1>2, <1>3, <1>4, MaxAssumption DEF IsContext, IsBold

(* How to build a context from its windows. *)
LEMMA ContextFrom ==
    ASSUME NEW u \in Seq(Upper), Len(u) = UlcMax,
           NEW r \in Seq(Upper), Len(r) <= UrcMax, SharpAtEnd(r),
           NEW l \in Seq(Lower), Len(l) = LlcMax
    PROVE  /\ IsContext([ulc |-> u, urc |-> r, llc |-> l])
           /\ [ulc |-> u, urc |-> r, llc |-> l] # FinalState
<1>1. SharpAtBeginning(u)
  <2>1. Len(u) \in {0, 1}  BY TopologyAssumption
  <2> QED  BY <2>1, SharpAtBeginningOne
<1>2. IsContext([ulc |-> u, urc |-> r, llc |-> l])
  BY <1>1, TopologyAssumption, MaxAssumption DEF IsContext
<1> QED  BY <1>2, FinalAssumption
=============================================================================
