------------------------------- MODULE SeqNo -------------------------------
(***************************************************************************)
(* CSeqNo: the packet sequence numbers of UDT live on a circle of          *)
(* MaxSeqNo + 1 numbers.  Two of them are compared by their plain          *)
(* difference when it is below SeqNoTH, and the other way round otherwise. *)
(* The program uses MaxSeqNo = 2^31 - 1 and SeqNoTH = 2^30 - 1; everything *)
(* below holds for every circle of that shape, so a small one is checked.  *)
(*                                                                         *)
(* The state of this module is the pair of counters every window of the    *)
(* protocol is made of (m_iSndLastDataAck and m_iSndCurrSeqNo + 1, or      *)
(* m_iRcvLastAck and m_iRcvCurrSeqNo + 1): lo trails hi, hi advances when  *)
(* a packet is sent or arrives, lo jumps over what was acknowledged.       *)
(* "width" is the number of packets really between them, which the code    *)
(* never stores: it only ever computes it from lo and hi.                  *)
(***************************************************************************)
EXTENDS Integers

CONSTANTS MaxSeqNo,   \* CSeqNo::m_iMaxSeqNo, the largest sequence number
          SeqNoTH     \* CSeqNo::m_iSeqNoTH, the comparison threshold

ASSUME SeqNoAssumption ==
    /\ SeqNoTH \in Nat \ {0}
    /\ MaxSeqNo = 2 * SeqNoTH + 1

SeqNos == 0 .. MaxSeqNo

Abs(n) == IF n < 0 THEN -n ELSE n

\* Mistake: the wrap is forgotten.
SeqOffLinear(seq1, seq2) == seq2 - seq1

\* Positive when seq1 comes after seq2, negative when it comes before it.
SeqCmp(seq1, seq2) ==
    IF Abs(seq1 - seq2) < SeqNoTH THEN seq1 - seq2 ELSE seq2 - seq1

\* Number of packets from seq1 to seq2, both included.
SeqLen(seq1, seq2) ==
    IF seq1 =< seq2 THEN seq2 - seq1 + 1 ELSE seq2 - seq1 + MaxSeqNo + 2

\* Signed distance from seq1 to seq2.
SeqOff(seq1, seq2) ==
    IF Abs(seq1 - seq2) < SeqNoTH THEN seq2 - seq1
    ELSE IF seq1 < seq2 THEN seq2 - seq1 - MaxSeqNo - 1
    ELSE seq2 - seq1 + MaxSeqNo + 1

IncSeq(seq) == IF seq = MaxSeqNo THEN 0 ELSE seq + 1

DecSeq(seq) == IF seq = 0 THEN MaxSeqNo ELSE seq - 1

IncSeqBy(seq, inc) ==
    IF MaxSeqNo - seq >= inc THEN seq + inc ELSE seq - MaxSeqNo + inc - 1

\* The n numbers from seq on, and those from seq1 to seq2.
From(seq, n) == {IncSeqBy(seq, i) : i \in 0 .. n - 1}
Between(seq1, seq2) == From(seq1, SeqLen(seq1, seq2))

-----------------------------------------------------------------------------
VARIABLES lo, hi, width

vars == <<lo, hi, width>>

Init ==
    /\ lo \in SeqNos
    /\ hi = lo
    /\ width = 0

\* A packet is sent, or one is received after others that are missing.  The protocol
\* keeps a window below the threshold of the comparison: that bound is the guard.
Advance ==
    \E n \in 1 .. SeqNoTH - 1 - width :
        /\ hi' = IncSeqBy(hi, n)
        /\ width' = width + n
        /\ lo' = lo

\* An acknowledgement covers the first n packets of the window.
Acknowledge ==
    \E n \in 1 .. width :
        /\ lo' = IncSeqBy(lo, n)
        /\ width' = width - n
        /\ hi' = hi

Next == Advance \/ Acknowledge

Spec == Init /\ [][Next]_vars

-----------------------------------------------------------------------------
TypeOK ==
    /\ lo \in SeqNos
    /\ hi \in SeqNos
    /\ width \in 0 .. SeqNoTH - 1

\* The distance the code computes with seqoff is the number of packets that
\* are really in the window, wherever on the circle the window lies, and in
\* the other direction it is its opposite.
OffsetIsWidth ==
    /\ SeqOff(lo, hi) = width
    /\ SeqOff(hi, lo) = -width

\* seqcmp orders the two ends of a window as they were counted: the far end
\* compares greater exactly when the window is not empty.
CompareIsOrder ==
    /\ SeqCmp(hi, lo) > 0 <=> width > 0
    /\ SeqCmp(lo, hi) < 0 <=> width > 0
    /\ SeqCmp(lo, hi) = 0 <=> width = 0

\* seqlen counts a window including both ends, so it agrees with seqoff; this
\* is what lets packData compare a window size with a length (core.cpp:2316).
LengthCountsBothEnds == SeqLen(lo, hi) = SeqOff(lo, hi) + 1

\* Jumping by the width lands on the far end, and one step back from it is the
\* last packet of the window (decseq undoes incseq, across zero too).
JumpLandsOnEnd ==
    /\ IncSeqBy(lo, width) = hi
    /\ DecSeq(IncSeq(hi)) = hi
    /\ width > 0 => SeqOff(lo, DecSeq(hi)) = width - 1

\* Within a window the circle can be used like the integers.
WindowArithmetic ==
    OffsetIsWidth /\ CompareIsOrder /\ LengthCountsBothEnds /\ JumpLandsOnEnd
=============================================================================
