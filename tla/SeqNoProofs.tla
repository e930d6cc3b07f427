---------------------------- MODULE SeqNoProofs ----------------------------
(***************************************************************************)
(* Proofs about the sequence number circle, for every MaxSeqNo and SeqNoTH *)
(* of the shape the program uses.  The inductive invariant says what the   *)
(* code relies on without storing it: the far end of a window is the near  *)
(* end advanced by the number of packets in between.                       *)
(***************************************************************************)
EXTENDS SeqNo, TLAPS

\* Type correctness, and hi is lo advanced by width.
WindowInv == TypeOK /\ hi = IncSeqBy(lo, width)

\* A jump stays on the circle.
LEMMA IncByCloses ==
    ASSUME NEW s \in SeqNos, NEW n \in 0 .. SeqNoTH
    PROVE  IncSeqBy(s, n) \in SeqNos
    BY SeqNoAssumption DEF SeqNos, IncSeqBy

\* Two jumps make one: the far end seen from a near end that has moved.
LEMMA IncByAdds ==
    ASSUME NEW s \in SeqNos, NEW n \in 0 .. SeqNoTH, NEW k \in 0 .. n
    PROVE  IncSeqBy(IncSeqBy(s, k), n - k) = IncSeqBy(s, n)
    BY SeqNoAssumption DEF SeqNos, IncSeqBy

\* seqoff measures any jump shorter than the threshold, in both directions.
LEMMA OffsetOfJump ==
    ASSUME NEW s \in SeqNos, NEW n \in 0 .. SeqNoTH - 1
    PROVE  /\ SeqOff(s, IncSeqBy(s, n)) = n
           /\ SeqOff(IncSeqBy(s, n), s) = -n
    BY SeqNoAssumption DEF SeqNos, IncSeqBy, SeqOff, Abs

\* The window invariant is kept by every step of the two counters.
THEOREM WindowInvariant == Spec => []WindowInv
<1>1. Init => WindowInv
    BY SeqNoAssumption DEF Init, WindowInv, TypeOK, SeqNos, IncSeqBy
<1>2. WindowInv /\ [Next]_vars => WindowInv'
  <2> SUFFICES ASSUME WindowInv, [Next]_vars PROVE WindowInv'
      OBVIOUS
  <2> USE SeqNoAssumption
  <2>1. CASE Advance
    <3>1. PICK n \in 1 .. SeqNoTH - 1 - width : /\ hi' = IncSeqBy(hi, n)
                                                /\ width' = width + n
                                                /\ lo' = lo
        BY <2>1 DEF Advance
    <3>2. /\ width' \in 0 .. SeqNoTH - 1 /\ width' \in 0 .. SeqNoTH
          /\ width \in 0 .. width' /\ n \in 0 .. SeqNoTH /\ n = width' - width
        BY <3>1 DEF WindowInv, TypeOK
    <3>3. hi' \in SeqNos
        BY <3>1, <3>2, IncByCloses DEF WindowInv, TypeOK
    <3>4. hi' = IncSeqBy(lo, width')
        BY <3>1, <3>2, IncByAdds DEF WindowInv, TypeOK
    <3>5. QED
        BY <3>1, <3>2, <3>3, <3>4 DEF WindowInv, TypeOK
  <2>2. CASE Acknowledge
    <3>1. PICK n \in 1 .. width : /\ lo' = IncSeqBy(lo, n)
                                  /\ width' = width - n
                                  /\ hi' = hi
        BY <2>2 DEF Acknowledge
    <3>2. width \in 0 .. SeqNoTH /\ n \in 0 .. width /\ n \in 0 .. SeqNoTH
        BY <3>1 DEF WindowInv, TypeOK
    <3>3. lo' \in SeqNos
        BY <3>1, <3>2, IncByCloses DEF WindowInv, TypeOK
    <3>4. IncSeqBy(lo', width') = hi'
        BY <3>1, <3>2, IncByAdds DEF WindowInv, TypeOK
    <3>5. QED
        BY <3>1, <3>2, <3>3, <3>4 DEF WindowInv, TypeOK
  <2>3. CASE UNCHANGED vars
      BY <2>3 DEF vars, WindowInv, TypeOK
  <2>4. QED
      BY <2>1, <2>2, <2>3 DEF Next
<1>3. QED
    BY <1>1, <1>2, PTL DEF Spec

\* Whatever the position of the window on the circle, seqoff returns the number
\* of packets in it: the counters may be reasoned about as plain integers.
THEOREM OffsetIsWidthAlways == Spec => []OffsetIsWidth
<1>1. WindowInv => OffsetIsWidth
    BY OffsetOfJump DEF WindowInv, TypeOK, OffsetIsWidth
<1>2. QED
    BY <1>1, WindowInvariant, PTL

\* seqcmp agrees with the true order of the two ends of every window.
THEOREM CompareIsOrderAlways == Spec => []CompareIsOrder
<1>1. WindowInv => CompareIsOrder
    BY SeqNoAssumption
    DEF WindowInv, TypeOK, CompareIsOrder, SeqCmp, IncSeqBy, SeqNos, Abs
<1>2. QED
    BY <1>1, WindowInvariant, PTL

\* The counters of a window stay on the circle and their distance below the threshold.
THEOREM WindowTypes == Spec => []TypeOK
<1>1. WindowInv => TypeOK
    BY DEF WindowInv
<1>2. QED
    BY <1>1, WindowInvariant, PTL

\* seqlen agrees with seqoff on every window.
THEOREM LengthAlways == Spec => []LengthCountsBothEnds
<1>1. WindowInv => LengthCountsBothEnds
    BY SeqNoAssumption
    DEF WindowInv, TypeOK, LengthCountsBothEnds, SeqLen, SeqOff, IncSeqBy, SeqNos, Abs
<1>2. QED
    BY <1>1, WindowInvariant, PTL

\* incseq by an offset agrees with seqoff on every window, and decseq undoes incseq.
THEOREM JumpAlways == Spec => []JumpLandsOnEnd
<1>1. WindowInv => JumpLandsOnEnd
    BY SeqNoAssumption
    DEF WindowInv, TypeOK, JumpLandsOnEnd, SeqOff, IncSeqBy, SeqNos, Abs, IncSeq, DecSeq
<1>2. QED
    BY <1>1, WindowInvariant, PTL

\* All of it together: between the ends of a window the circle is like the integers,
\* which is what the other modules take for granted.
THEOREM ArithmeticAlways == Spec => []WindowArithmetic
    BY OffsetIsWidthAlways, CompareIsOrderAlways, LengthAlways, JumpAlways, PTL DEF WindowArithmetic
=============================================================================
