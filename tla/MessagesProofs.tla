---------------------------- MODULE MessagesProofs ----------------------------
(***************************************************************************)
(* What is proved of messages (CRcvBuffer with sendmsg and recvmsg, none   *)
(* of which has a time to live): for every size of the buffer and of the   *)
(* messages, and whatever the network loses, repeats and reorders, a slot  *)
(* of the ring holds the packet its number says, recvmsg returns whole     *)
(* messages, nothing twice, and in order what is to be in order.           *)
(*                                                                         *)
(* The invariant says which number m_iStartPos stands for, and derives     *)
(* from it what every slot holds, what scanMsg has found and what was      *)
(* read.  scanMsg's searches are proved to find what they look for with    *)
(* the lemmas on the least and the greatest of a set of numbers.           *)
(***************************************************************************)
EXTENDS Messages, WellFoundedInduction, SequenceTheorems, TLAPS

-----------------------------------------------------------------------------
(* Positions of the ring. *)

\* The distance of a slot from the first one that is kept.
Offset(k) == (k - startPos) % RcvBufSize

\* A position and the slot it is at, for what lies within three turns of the ring.
LEMMA Wrap ==
    ASSUME NEW x \in Int, - RcvBufSize =< x, x < 3 * RcvBufSize
    PROVE  /\ At(x) = IF x < 0 THEN x + RcvBufSize
                      ELSE IF x < RcvBufSize THEN x
                      ELSE IF x < 2 * RcvBufSize THEN x - RcvBufSize
                      ELSE x - 2 * RcvBufSize
           /\ At(x) \in Slots
<1>0. RcvBufSize \in Nat /\ RcvBufSize >= 2
    BY MessagesAssumption
<1>1. CASE x < 0
    BY <1>0, <1>1 DEF At, Slots
<1>2. CASE 0 =< x /\ x < RcvBufSize
    BY <1>0, <1>2 DEF At, Slots
<1>3. CASE RcvBufSize =< x /\ x < 2 * RcvBufSize
    BY <1>0, <1>3 DEF At, Slots
<1>4. CASE 2 * RcvBufSize =< x
    BY <1>0, <1>4 DEF At, Slots
<1>5. QED
    BY <1>0, <1>1, <1>2, <1>3, <1>4

-----------------------------------------------------------------------------
(* Induction: a set of numbers that is not empty has a least one, and, when *)
(* it is bounded, a greatest one.                                           *)

Before == {p \in Nat \X Nat : p[1] < p[2]}

\* Any set of numbers that is not empty has a least element.
LEMMA Least ==
    ASSUME NEW T, T \subseteq Nat, T # {}
    PROVE  \E n \in T : \A m \in T : n =< m
<1>1. IsWellFoundedOn(Before, Nat)
    BY NatLessThanWellFounded DEF OpToRel, Before
<1>2. PICK n \in T : \A m \in T : ~ (<<m, n>> \in Before)
    BY <1>1, WFMin
<1>3. ASSUME NEW m \in T PROVE n =< m
    <2>1. m \in Nat /\ n \in Nat /\ <<m, n>> \in Nat \X Nat
        OBVIOUS
    <2>2. ~(m < n)
        BY <1>2, <2>1 DEF Before
    <2>3. QED
        BY <2>1, <2>2
<1>4. QED
    BY <1>3

\* ... and, when it is bounded, a greatest one.
LEMMA Greatest ==
    ASSUME NEW N \in Nat, NEW T, T \subseteq 0 .. N, T # {}
    PROVE  \E n \in T : \A m \in T : m =< n
<1> DEFINE D == {N - m : m \in T}
<1>1. D \subseteq Nat /\ D # {}
    OBVIOUS
<1>2. PICK d \in D : \A e \in D : d =< e
    BY <1>1, Least
<1>3. PICK n \in T : d = N - n
    OBVIOUS
<1>4. \A m \in T : d =< N - m
    BY <1>2
<1>5. \A m \in T : m =< n
    BY <1>3, <1>4
<1>6. QED
    BY <1>5

-----------------------------------------------------------------------------
(* The inductive invariant. *)

\* The number of the packet at m_iStartPos.
StartNo == rcvLastAck - RcvDataSize

Beginning(i) == blocks[i].first
Ending(i) == blocks[i].last

\* The blocks are whole messages, one after the other.
BlocksInv ==
    /\ blocks \in Seq(Blocks) /\ Len(blocks) =< MaxBlocks
    /\ \A i \in 1 .. Len(blocks) : blocks[i].msg \in 1 .. i
    /\ blocks # << >> => Beginning(1) /\ Ending(Len(blocks))
    /\ \A i \in 1 .. Len(blocks) - 1 : Ending(i) <=> Beginning(i + 1)
    /\ \A i, j \in 1 .. Len(blocks) :
           i =< j /\ (\A k \in i + 1 .. j : ~ Beginning(k)) =>
               blocks[i].msg = blocks[j].msg /\ blocks[i].order = blocks[j].order

\* Without a time to live, a block has the number that its place in the buffer says.
SenderInv ==
    /\ expired = {} /\ firstBlock = sndLastAck /\ currBlock = sndCurrSeqNo + 1
    /\ sndLastAck \in Nat /\ 1 =< sndLastAck /\ sndLastAck =< sndCurrSeqNo + 1
    /\ sndCurrSeqNo \in Nat /\ sndCurrSeqNo =< Len(blocks)
    /\ sndLossList \subseteq sndLastAck .. sndCurrSeqNo

NetInv ==
    \A p \in net :
        /\ p.kind \in {"data", "loss", "ack"}
        /\ p.kind = "data" => p.seq \in 1 .. sndCurrSeqNo /\ p.block = blocks[p.seq]
        /\ p.kind = "loss" => p.lo \in Nat /\ p.hi \in 0 .. sndCurrSeqNo
        /\ p.kind = "ack" => p.ack \in 1 .. sndCurrSeqNo + 1

\* The receiver's numbers, and that all it holds is within one turn of the ring, less one.
RingInv ==
    /\ startPos \in Slots /\ lastAckPos \in Slots
    /\ rcvLastAck \in Nat /\ StartNo >= 1
    /\ rcvCurrSeqNo \in Nat /\ rcvCurrSeqNo >= rcvLastAck - 1 /\ rcvCurrSeqNo =< sndCurrSeqNo
    /\ maxPos = IF rcvCurrSeqNo >= rcvLastAck THEN rcvCurrSeqNo - rcvLastAck ELSE 0
    /\ rcvCurrSeqNo - StartNo =< RcvBufSize - 2
    /\ rcvLossList \subseteq rcvLastAck .. rcvCurrSeqNo

\* What a unit that holds something holds.
Holds(u) ==
    /\ u = [flag |-> u.flag, seq |-> u.seq, block |-> u.block]
    /\ u.flag \in {1, 2}
    /\ u.seq \in 1 .. rcvCurrSeqNo
    /\ u.block = blocks[u.seq]

HeldInv ==
    /\ units = [k \in Slots |-> units[k]]
    /\ \A k \in Slots : units[k] = Empty \/ (Holds(units[k]) /\ units[k].seq = StartNo + Offset(k))

FoundSize == (found.to + 1 - found.from) % RcvBufSize

\* A message that was found: from number s on, n packets, which nobody has read.
Whole(s, n) ==
    /\ s + n - 1 =< rcvCurrSeqNo
    /\ \A i \in 1 .. n :
           /\ units[At(found.from + i - 1)].flag = 1
           /\ units[At(found.from + i - 1)].seq = s + i - 1
           /\ Beginning(s + i - 1) <=> i = 1
           /\ Ending(s + i - 1) <=> i = n
           /\ blocks[s + i - 1].msg = blocks[s].msg
           /\ blocks[s + i - 1].order = blocks[s].order

FoundInv ==
    found # Nothing =>
        /\ found.from \in Slots /\ found.to \in Slots /\ found.passack \in BOOLEAN
        /\ FoundSize = 0 => found.passack
        /\ FoundSize # 0 =>
               \E s \in Nat :
                   /\ s >= StartNo /\ Whole(s, FoundSize)
                   /\ found.passack => ~ blocks[s].order
                   /\ ~ found.passack => /\ found.from = startPos /\ s = StartNo
                                         /\ s + FoundSize =< rcvLastAck

\* Number n was read: it is behind m_iStartPos, or its unit is marked.
WasRead(n) == n < StartNo \/ \E k \in Slots : units[k].flag = 2 /\ units[k].seq = n

\* What recvmsg returned.
Returned(r) ==
    /\ r # << >>
    /\ \A k \in DOMAIN r :
           /\ r[k].seq \in Nat /\ WasRead(r[k].seq)
           /\ r[k].seq = r[1].seq + k - 1
           /\ r[k].block.msg = r[1].block.msg
           /\ r[k].block.first <=> k = 1
           /\ r[k].block.last <=> k = Len(r)
    /\ r[1].block.order => r[1].seq < StartNo

HistoryInv ==
    /\ arrived \subseteq Blocks
    /\ received \in Seq(Seq(Units))
    /\ \A i \in DOMAIN received : Returned(received[i])
    /\ ReadInOrder

MInv ==
    /\ BlocksInv /\ SenderInv /\ NetInv
    /\ RingInv /\ HeldInv /\ FoundInv /\ HistoryInv

-----------------------------------------------------------------------------
(* What the positions say about the numbers. *)

\* The distance of a slot, without the remainder.
LEMMA OffsetOf ==
    ASSUME startPos \in Slots, NEW k \in Slots
    PROVE  /\ Offset(k) = IF k >= startPos THEN k - startPos ELSE k - startPos + RcvBufSize
           /\ Offset(k) \in 0 .. RcvBufSize - 1
           /\ At(startPos + Offset(k)) = k
<1>0. RcvBufSize \in Nat /\ RcvBufSize >= 2
    BY MessagesAssumption
<1>1. k - startPos \in Int /\ - RcvBufSize =< k - startPos /\ k - startPos < RcvBufSize
      /\ k \in Nat /\ startPos \in Nat /\ k < RcvBufSize /\ startPos < RcvBufSize
    BY <1>0 DEF Slots
<1>2. Offset(k) = At(k - startPos)
    BY DEF Offset, At
<1>3. Offset(k) = IF k >= startPos THEN k - startPos ELSE k - startPos + RcvBufSize
    BY <1>0, <1>1, <1>2, Wrap
<1>4. startPos + Offset(k) \in Int /\ 0 =< startPos + Offset(k) /\ startPos + Offset(k) < 2 * RcvBufSize
    BY <1>0, <1>1, <1>3
<1>5. At(startPos + Offset(k)) = k
    BY <1>0, <1>1, <1>3, <1>4, Wrap
<1>6. QED
    BY <1>0, <1>1, <1>3, <1>5

\* ... and the slot at a distance.
LEMMA SlotAt ==
    ASSUME startPos \in Slots, NEW d \in 0 .. RcvBufSize - 1
    PROVE  At(startPos + d) \in Slots /\ Offset(At(startPos + d)) = d
<1>0. RcvBufSize \in Nat /\ RcvBufSize >= 2
    BY MessagesAssumption
<1>1. startPos + d \in Int /\ 0 =< startPos + d /\ startPos + d < 2 * RcvBufSize
      /\ startPos \in Nat /\ startPos < RcvBufSize /\ d \in Nat
    BY <1>0 DEF Slots
<1>2. At(startPos + d) \in Slots
      /\ At(startPos + d) = IF startPos + d < RcvBufSize THEN startPos + d ELSE startPos + d - RcvBufSize
    BY <1>0, <1>1, Wrap
<1>3. QED
    BY <1>0, <1>1, <1>2, OffsetOf

\* The receiver's positions and numbers as plain sums, and their bounds.
LEMMA RingNumbers ==
    ASSUME RingInv
    PROVE  /\ RcvBufSize \in Nat /\ RcvBufSize >= 2
           /\ startPos \in Nat /\ startPos < RcvBufSize /\ lastAckPos \in Nat
           /\ lastAckPos < RcvBufSize
           /\ RcvDataSize = IF lastAckPos >= startPos THEN lastAckPos - startPos
                            ELSE lastAckPos - startPos + RcvBufSize
           /\ RcvDataSize \in Nat /\ RcvDataSize < RcvBufSize
           /\ StartNo = rcvLastAck - RcvDataSize /\ StartNo \in Nat
           /\ maxPos \in Nat /\ RcvDataSize + maxPos =< RcvBufSize - 1
           /\ rcvCurrSeqNo =< rcvLastAck + maxPos
<1>0. RcvBufSize \in Nat /\ RcvBufSize >= 2
    BY MessagesAssumption
<1>1. /\ startPos \in Nat /\ startPos < RcvBufSize
      /\ lastAckPos \in Nat /\ lastAckPos < RcvBufSize
    BY <1>0 DEF RingInv, Slots
<1>2. RcvDataSize = Offset(lastAckPos)
    BY DEF RcvDataSize, Offset
<1>3. /\ RcvDataSize = IF lastAckPos >= startPos THEN lastAckPos - startPos
                       ELSE lastAckPos - startPos + RcvBufSize
      /\ RcvDataSize \in 0 .. RcvBufSize - 1
    BY <1>2, OffsetOf DEF RingInv
<1>4. rcvLastAck \in Nat /\ rcvCurrSeqNo \in Nat /\ rcvCurrSeqNo >= rcvLastAck - 1
      /\ rcvCurrSeqNo - StartNo =< RcvBufSize - 2 /\ StartNo >= 1
      /\ maxPos = IF rcvCurrSeqNo >= rcvLastAck THEN rcvCurrSeqNo - rcvLastAck ELSE 0
    BY DEF RingInv
<1>5. StartNo = rcvLastAck - RcvDataSize
    BY DEF StartNo
<1> HIDE DEF StartNo
<1>6. QED
    BY <1>0, <1>1, <1>3, <1>4, <1>5

\* How many packets were found.
LEMMA SizeOfFound ==
    ASSUME found.from \in Slots, found.to \in Slots
    PROVE  /\ FoundSize \in Nat /\ FoundSize < RcvBufSize
           /\ FoundSize = LET n == found.to + 1 - found.from
                          IN IF n < 0 THEN n + RcvBufSize ELSE IF n < RcvBufSize THEN n ELSE 0
<1>0. RcvBufSize \in Nat /\ RcvBufSize >= 2
    BY MessagesAssumption
<1> DEFINE n == found.to + 1 - found.from
<1>1. n \in Int /\ - RcvBufSize < n /\ n =< RcvBufSize
    BY <1>0 DEF Slots
<1>2. FoundSize = At(n)
    BY DEF FoundSize, At
<1> HIDE DEF n
<1>3. /\ FoundSize \in Nat /\ FoundSize < RcvBufSize
      /\ FoundSize = IF n < 0 THEN n + RcvBufSize ELSE IF n < RcvBufSize THEN n ELSE 0
    BY <1>0, <1>1, <1>2, Wrap
<1>4. QED
    BY <1>3 DEF n

-----------------------------------------------------------------------------
(* The sender. *)

\* Sending adds nothing to the network but the packet sent.
LEMMA SentOnly ==
    ASSUME NEW n, NEW p, NEW m \in SendTo(n, p)
    PROVE  m \subseteq n \cup {p}
BY DEF SendTo

rcvVars == <<seqVars, bufVars, appVars>>

\* The receiver and what it has are not disturbed when the sender writes or sends.
LEMMA ReceiverRests ==
    ASSUME MInv, UNCHANGED rcvVars, sndCurrSeqNo' \in Nat, sndCurrSeqNo =< sndCurrSeqNo',
           \A i \in 1 .. Len(blocks) : blocks'[i] = blocks[i]
    PROVE  RingInv' /\ HeldInv' /\ FoundInv' /\ HistoryInv'
<1> USE DEF rcvVars, seqVars, bufVars, appVars
<1>1. RingInv'
    BY DEF MInv, RingInv, StartNo, RcvDataSize, Slots, SenderInv
<1>2. \A i \in 1 .. rcvCurrSeqNo : i \in 1 .. Len(blocks) /\ blocks'[i] = blocks[i]
    BY DEF MInv, RingInv, SenderInv, BlocksInv
<1>3. HeldInv'
    BY <1>2 DEF MInv, HeldInv, Holds, StartNo, RcvDataSize, Offset
<1>4. FoundInv'
    <2> SUFFICES ASSUME found # Nothing, FoundSize # 0
                 PROVE \E s \in Nat :
                   /\ s >= StartNo /\ Whole(s, FoundSize)'
                   /\ found.passack => ~ blocks'[s].order
                   /\ ~ found.passack => /\ found.from = startPos /\ s = StartNo
                                         /\ s + FoundSize =< rcvLastAck
        BY DEF MInv, FoundInv, StartNo, RcvDataSize, FoundSize
    <2>1. PICK s \in Nat :
                   /\ s >= StartNo /\ Whole(s, FoundSize)
                   /\ found.passack => ~ blocks[s].order
                   /\ ~ found.passack => /\ found.from = startPos /\ s = StartNo
                                         /\ s + FoundSize =< rcvLastAck
        BY DEF MInv, FoundInv
    <2>2. FoundSize \in Nat /\ FoundSize >= 1 /\ StartNo >= 1 /\ StartNo \in Int /\ rcvCurrSeqNo \in Nat
        BY RingNumbers, SizeOfFound DEF MInv, FoundInv, RingInv
    <2>3. \A i \in 1 .. FoundSize : s + i - 1 \in 1 .. rcvCurrSeqNo
        BY <2>1, <2>2 DEF Whole
    <2>4. \A i \in 1 .. FoundSize : blocks'[s + i - 1] = blocks[s + i - 1]
        BY <1>2, <2>3
    <2>5. blocks'[s] = blocks[s]
        <3>1. 1 \in 1 .. FoundSize /\ s + 1 - 1 = s
            BY <2>1, <2>2
        <3>2. s \in 1 .. rcvCurrSeqNo
            BY <2>3, <3>1
        <3>3. QED
            BY <1>2, <3>2
    <2>6. Whole(s, FoundSize)'
        BY <2>1, <2>4, <2>5 DEF Whole, Beginning, Ending, FoundSize
    <2>7. QED
        BY <2>1, <2>5, <2>6
<1>5. HistoryInv'
    <2>1. HistoryInv /\ UNCHANGED <<arrived, received, units, startPos, lastAckPos, rcvLastAck>>
        BY DEF MInv
    <2>2. \A r : Returned(r) => Returned(r)'
        BY <2>1 DEF Returned, WasRead, StartNo, RcvDataSize
    <2>3. ReadInOrder'
        <3>1. ReadOnce' <=> ReadOnce
            <4>1. received' = received
                BY <2>1
            <4>2. \A r : NumbersOf(r)' = NumbersOf(r)
                BY DEF NumbersOf
            <4>3. QED
                BY <4>1, <4>2 DEF ReadOnce
        <3>2. QED
            BY <2>1, <3>1 DEF HistoryInv, ReadInOrder
    <2>4. QED
        BY <2>1, <2>2, <2>3 DEF HistoryInv
<1>6. QED
    BY <1>1, <1>3, <1>4, <1>5

\* The blocks of a new message.
NewMessage(c, size, order) ==
    /\ c \in Seq(Blocks) /\ Len(c) = size
    /\ \A i \in 1 .. size : /\ c[i].msg = LastMsg + 1
                            /\ c[i].order = order
                            /\ c[i].first <=> i = 1
                            /\ c[i].last <=> i = size

\* What sendmsg puts into the send buffer.
LEMMA CutIs ==
    ASSUME NEW size \in Nat \ {0}, NEW order \in BOOLEAN, NEW mortal \in BOOLEAN,
           LastMsg \in Nat, LastMsg < MaxBlocks
    PROVE  NewMessage(Cut(size, order, mortal), size, order)
<1> DEFINE B(i) == [msg |-> LastMsg + 1, first |-> i = 1, last |-> i = size,
                    order |-> order, mortal |-> mortal]
<1>1. \A i \in 1 .. size : B(i) \in Blocks
    <2> SUFFICES ASSUME NEW i \in 1 .. size PROVE B(i) \in Blocks
        OBVIOUS
    <2>1. LastMsg + 1 \in Messages \cup {0}
        BY MessagesAssumption DEF Messages
    <2>2. (i = 1) \in BOOLEAN /\ (i = size) \in BOOLEAN
        BY Zenon
    <2>3. QED
        BY <2>1, <2>2, Zenon DEF Blocks
<1>2. \A i \in 1 .. size : Cut(size, order, mortal)[i] = B(i)
    BY DEF Cut
<1>3. \A i \in 1 .. size : /\ B(i).msg = LastMsg + 1
                           /\ B(i).order = order
                           /\ B(i).first <=> i = 1
                           /\ B(i).last <=> i = size
    OBVIOUS
<1>4. Cut(size, order, mortal) = [i \in 1 .. size |-> B(i)]
    BY DEF Cut
<1> HIDE DEF B
<1>5. Cut(size, order, mortal) \in Seq(Blocks) /\ Len(Cut(size, order, mortal)) = size
    BY <1>1, <1>4
<1>6. QED
    BY <1>2, <1>3, <1>5 DEF NewMessage

\* sendmsg appends one whole message.
LEMMA SendMsgKeeps ==
    ASSUME MInv, NEW size \in Sizes, NEW order \in Orders, NEW mortal \in Mortal,
           SendMsg(size, order, mortal)
    PROVE  MInv'
<1> DEFINE n == Len(blocks)
           c == Cut(size, order, mortal)
<1>1. /\ n + size =< MaxBlocks /\ blocks' = blocks \o c
      /\ UNCHANGED <<firstBlock, currBlock, expired, sndCurrSeqNo, sndLastAck, sndLossList, net>>
      /\ UNCHANGED rcvVars
    BY DEF SendMsg, rcvVars
<1>2. /\ blocks \in Seq(Blocks) /\ n \in Nat /\ size \in Nat \ {0}
      /\ order \in BOOLEAN /\ mortal \in BOOLEAN
    BY MessagesAssumption DEF MInv, BlocksInv
<1>3. LastMsg \in 0 .. n /\ LastMsg < MaxBlocks
    <2>1. CASE blocks = << >>
        BY <1>1, <1>2, <2>1, MessagesAssumption DEF LastMsg
    <2>2. CASE blocks # << >>
        <3>1. n \in 1 .. n
            BY <1>2, <2>2
        <3>2. LastMsg = blocks[n].msg
            BY <2>2 DEF LastMsg, Last
        <3>3. LastMsg \in 1 .. n
            BY <3>1, <3>2 DEF MInv, BlocksInv
        <3>4. QED
            BY <1>1, <1>2, <3>3, MessagesAssumption
    <2>3. QED
        BY <2>1, <2>2
<1>4. NewMessage(c, size, order)
    <2>1. size \in Nat \ {0} /\ order \in BOOLEAN /\ mortal \in BOOLEAN
        BY <1>2
    <2>2. LastMsg \in Nat /\ LastMsg < MaxBlocks
        BY <1>2, <1>3
    <2>3. QED
        BY <2>1, <2>2, CutIs
<1> HIDE DEF c
<1>5. /\ blocks' \in Seq(Blocks) /\ Len(blocks') = n + size
      /\ \A i \in 1 .. n : blocks'[i] = blocks[i]
      /\ \A i \in 1 .. size : blocks'[n + i] = c[i]
    <2>1. blocks' = blocks \o c /\ c \in Seq(Blocks) /\ Len(c) = size
        BY <1>1, <1>4 DEF NewMessage
    <2>2. /\ blocks' \in Seq(Blocks) /\ Len(blocks') = n + size
          /\ \A i \in 1 .. n + size : blocks'[i] = IF i =< n THEN blocks[i] ELSE c[i - n]
        BY <1>2, <2>1, ConcatProperties
    <2>3. ASSUME NEW i \in 1 .. n PROVE blocks'[i] = blocks[i]
        <3>1. i \in 1 .. n + size /\ i =< n
            BY <1>2
        <3>2. QED
            BY <2>2, <3>1
    <2>4. ASSUME NEW i \in 1 .. size PROVE blocks'[n + i] = c[i]
        <3>1. n + i \in 1 .. n + size /\ ~(n + i =< n) /\ (n + i) - n = i
            BY <1>2
        <3>2. QED
            BY <2>2, <3>1
    <2>5. QED
        BY <2>2, <2>3, <2>4
<1>6. \A i \in n + 1 .. n + size :
          /\ blocks'[i].msg = LastMsg + 1
          /\ blocks'[i].order = order
          /\ blocks'[i].first <=> i = n + 1
          /\ blocks'[i].last <=> i = n + size
    <2> SUFFICES ASSUME NEW i \in n + 1 .. n + size
                 PROVE  /\ blocks'[i].msg = LastMsg + 1
                        /\ blocks'[i].order = order
                        /\ blocks'[i].first <=> i = n + 1
                        /\ blocks'[i].last <=> i = n + size
        OBVIOUS
    <2>1. i - n \in 1 .. size /\ i = n + (i - n)
        BY <1>2
    <2>2. blocks'[i] = c[i - n]
        BY <1>5, <2>1
    <2>3. (i - n = 1 <=> i = n + 1) /\ (i - n = size <=> i = n + size)
        BY <1>2
    <2>4. QED
        BY <1>4, <2>1, <2>2, <2>3 DEF NewMessage
<1>7. BlocksInv'
    <2>0. BlocksInv
        BY DEF MInv
    <2>1. \A i \in 1 .. Len(blocks') : blocks'[i].msg \in 1 .. i
        <3> SUFFICES ASSUME NEW i \in 1 .. n + size PROVE blocks'[i].msg \in 1 .. i
            BY <1>5
        <3>1. CASE i =< n
            <4>1. i \in 1 .. n
                BY <1>2, <3>1
            <4>2. blocks'[i] = blocks[i]
                BY <1>5, <4>1
            <4>3. blocks[i].msg \in 1 .. i
                BY <2>0, <4>1 DEF BlocksInv
            <4>4. QED
                BY <4>2, <4>3
        <3>2. CASE i > n
            BY <1>2, <1>3, <1>6, <3>2
        <3>3. QED
            BY <1>2, <3>1, <3>2
    <2>2. Beginning(1)' /\ Ending(Len(blocks))'
        <3>1. Ending(Len(blocks))'
            BY <1>2, <1>5, <1>6 DEF Ending
        <3>2. CASE n = 0
            <4>1. 1 \in n + 1 .. n + size /\ 1 = n + 1
                BY <1>2, <3>2
            <4>2. QED
                BY <1>6, <3>1, <4>1 DEF Beginning
        <3>3. CASE n # 0
            <4>1. 1 \in 1 .. n /\ blocks # << >>
                BY <1>2, <3>3
            <4>2. QED
                BY <1>5, <2>0, <3>1, <4>1 DEF BlocksInv, Beginning
        <3>4. QED
            BY <3>1, <3>2, <3>3
    <2>3. ASSUME NEW i \in 1 .. Len(blocks') - 1
          PROVE  Ending(i)' <=> Beginning(i + 1)'
        <3>0. i \in Nat /\ i >= 1 /\ i < n + size
            BY <1>2, <1>5
        <3>1. CASE i < n
            <4>1. i \in 1 .. n - 1 /\ i \in 1 .. n /\ i + 1 \in 1 .. n
                BY <1>2, <3>0, <3>1
            <4>2. Ending(i) <=> Beginning(i + 1)
                BY <2>0, <4>1 DEF BlocksInv
            <4>3. QED
                BY <1>5, <4>1, <4>2 DEF Beginning, Ending
        <3>2. CASE i = n
            <4>1. Ending(n)
                BY <1>2, <2>0, <3>0, <3>2 DEF BlocksInv
            <4>2. i \in 1 .. n /\ i + 1 \in n + 1 .. n + size
                BY <1>2, <3>0, <3>2
            <4>3. QED
                BY <1>5, <1>6, <3>2, <4>1, <4>2 DEF Beginning, Ending
        <3>3. CASE i > n
            <4>1. i \in n + 1 .. n + size /\ i + 1 \in n + 1 .. n + size /\ i # n + size /\ i + 1 # n + 1
                BY <1>2, <3>0, <3>3
            <4>2. QED
                BY <1>6, <4>1 DEF Beginning, Ending
        <3>4. QED
            BY <1>2, <3>0, <3>1, <3>2, <3>3
    <2>4. ASSUME NEW i \in 1 .. Len(blocks'), NEW j \in 1 .. Len(blocks'), i =< j,
                 \A k \in i + 1 .. j : ~ Beginning(k)'
          PROVE  blocks'[i].msg = blocks'[j].msg /\ blocks'[i].order = blocks'[j].order
        <3>0. i \in Nat /\ i >= 1 /\ j \in Nat /\ j =< n + size
            BY <1>2, <1>5
        <3>1. CASE j =< n
            <4>1. i \in 1 .. n /\ j \in 1 .. n
                BY <1>2, <2>4, <3>0, <3>1
            <4>2. \A k \in i + 1 .. j : k \in 1 .. n
                BY <4>1, <1>2
            <4>3. \A k \in i + 1 .. j : ~ Beginning(k)
                BY <1>5, <2>4, <4>2 DEF Beginning
            <4>4. blocks[i].msg = blocks[j].msg /\ blocks[i].order = blocks[j].order
                BY <2>0, <2>4, <4>1, <4>3 DEF BlocksInv
            <4>5. QED
                BY <1>5, <4>1, <4>4
        <3>2. CASE j > n /\ i > n
            <4>1. i \in n + 1 .. n + size /\ j \in n + 1 .. n + size
                BY <1>2, <1>5, <3>0, <3>2
            <4>2. QED
                BY <1>6, <4>1
        <3>3. CASE j > n /\ i =< n
            <4>1. n + 1 \in i + 1 .. j /\ n + 1 \in n + 1 .. n + size
                BY <1>2, <3>0, <3>3
            <4>2. blocks'[n + 1].first
                BY <1>6, <4>1
            <4>3. QED
                BY <2>4, <4>1, <4>2 DEF Beginning
        <3>4. QED
            BY <1>2, <3>0, <3>1, <3>2, <3>3
    <2>5. QED
        BY <1>1, <1>2, <1>5, <2>1, <2>2, <2>3, <2>4 DEF BlocksInv, Beginning, Ending
<1>8. SenderInv'
    BY <1>1, <1>2, <1>5 DEF MInv, SenderInv
<1>9. NetInv'
    <2>1. \A i \in 1 .. sndCurrSeqNo : i \in 1 .. n
        BY <1>2 DEF MInv, SenderInv
    <2>2. QED
        BY <1>1, <1>5, <2>1 DEF MInv, NetInv
<1>10. RingInv' /\ HeldInv' /\ FoundInv' /\ HistoryInv'
    BY <1>1, <1>5, ReceiverRests DEF MInv, SenderInv
<1>11. QED
    BY <1>7, <1>8, <1>9, <1>10 DEF MInv

\* What the sender's steps need to say of the network and of the send buffer.
LEMMA SenderKeeps ==
    ASSUME MInv, UNCHANGED rcvVars, UNCHANGED blocks, SenderInv', NetInv', sndCurrSeqNo =< sndCurrSeqNo'
    PROVE  MInv'
<1>1. BlocksInv'
    BY DEF MInv, BlocksInv, Beginning, Ending
<1>2. sndCurrSeqNo' \in Nat
    BY DEF SenderInv
<1>3. \A i \in 1 .. Len(blocks) : blocks'[i] = blocks[i]
    OBVIOUS
<1>4. RingInv' /\ HeldInv' /\ FoundInv' /\ HistoryInv'
    BY <1>2, <1>3, ReceiverRests
<1>5. QED
    BY <1>1, <1>4 DEF MInv

\* A packet goes out with the number of its block.
LEMMA PackNewKeeps ==
    ASSUME MInv, PackNew
    PROVE  MInv'
<1>1. /\ currBlock \in 1 .. Len(blocks) /\ currBlock' = currBlock + 1
      /\ sndCurrSeqNo' = sndCurrSeqNo + 1
      /\ net' \in SendTo(net, Data(sndCurrSeqNo', blocks[currBlock]))
      /\ UNCHANGED <<blocks, firstBlock, expired, sndLastAck, sndLossList>>
      /\ UNCHANGED rcvVars
    BY DEF PackNew, rcvVars, MInv, BlocksInv
<1>2. SenderInv /\ NetInv
    BY DEF MInv
<1>3. sndCurrSeqNo \in Nat /\ currBlock = sndCurrSeqNo + 1 /\ sndCurrSeqNo' =< Len(blocks)
    BY <1>1, <1>2 DEF SenderInv
<1>4. Len(blocks) \in Nat
    BY DEF MInv, BlocksInv
<1>5. SenderInv'
    BY <1>1, <1>2, <1>3, <1>4 DEF SenderInv
<1>6. NetInv'
    <2>1. net' \subseteq net \cup {Data(sndCurrSeqNo', blocks[currBlock])}
        BY <1>1, SentOnly
    <2>2. \A p \in net : /\ p.kind \in {"data", "loss", "ack"}
                         /\ p.kind = "data" => p.seq \in 1 .. sndCurrSeqNo' /\ p.block = blocks[p.seq]
                         /\ p.kind = "loss" => p.lo \in Nat /\ p.hi \in 0 .. sndCurrSeqNo'
                         /\ p.kind = "ack" => p.ack \in 1 .. sndCurrSeqNo' + 1
        BY <1>1, <1>2, <1>3 DEF NetInv
    <2>3. QED
        BY <1>1, <1>3, <2>1, <2>2 DEF NetInv, Data
<1>7. QED
    BY <1>1, <1>3, <1>5, <1>6, SenderKeeps

\* Nothing is dropped, for no time to live is over.
LEMMA PackLostKeeps ==
    ASSUME MInv, PackLost
    PROVE  MInv'
<1> DEFINE seq == CHOOSE s \in sndLossList : \A t \in sndLossList : s =< t
           i == firstBlock + (seq - sndLastAck)
<1>1. SenderInv /\ NetInv /\ expired = {} /\ sndLossList \subseteq Nat /\ sndLossList # {}
    BY DEF MInv, SenderInv, PackLost
<1>2. seq \in sndLossList
    BY <1>1, Least
<1>3. /\ sndLossList' = sndLossList \ {seq} /\ net' \in SendTo(net, Data(seq, Block(i)))
      /\ UNCHANGED <<blocks, firstBlock, currBlock, expired, sndCurrSeqNo, sndLastAck>>
      /\ UNCHANGED rcvVars
    BY <1>1 DEF PackLost, rcvVars
<1> HIDE DEF seq
<1>4. seq \in 1 .. sndCurrSeqNo /\ i = seq
    BY <1>1, <1>2 DEF SenderInv
<1> HIDE DEF i
<1>5. Block(i) = blocks[seq]
    BY <1>1, <1>4 DEF SenderInv, MInv, BlocksInv, Block
<1>6. SenderInv'
    BY <1>1, <1>3 DEF SenderInv
<1>7. NetInv'
    <2>1. net' \subseteq net \cup {Data(seq, blocks[seq])}
        BY <1>3, <1>5, SentOnly
    <2>2. QED
        BY <1>1, <1>3, <1>4, <2>1 DEF NetInv, Data
<1>8. QED
    BY <1>1, <1>3, <1>6, <1>7, SenderKeeps DEF SenderInv

\* An acknowledgement is of what was sent, so what is kept and what is lost fit it.
LEMMA RecvAckKeeps ==
    ASSUME MInv, RecvAck
    PROVE  MInv'
<1>1. SenderInv /\ NetInv
    BY DEF MInv
<1>2. PICK p \in net :
         /\ p.kind = "ack" /\ Arrives(p)
         /\ IF p.ack > sndLastAck
            THEN /\ firstBlock' = firstBlock + (p.ack - sndLastAck)
                 /\ sndLastAck' = p.ack
                 /\ sndLossList' = {s \in sndLossList : s >= p.ack}
            ELSE UNCHANGED <<firstBlock, sndLastAck, sndLossList>>
    BY DEF RecvAck
<1>3. UNCHANGED <<blocks, currBlock, expired, sndCurrSeqNo>> /\ UNCHANGED rcvVars
    BY DEF RecvAck, rcvVars
<1>4. p.ack \in 1 .. sndCurrSeqNo + 1 /\ net' \subseteq net
    BY <1>1, <1>2 DEF NetInv, Arrives
<1>5. SenderInv'
    <2>1. CASE p.ack > sndLastAck
        <3>1. sndLossList' \subseteq p.ack .. sndCurrSeqNo
            <4>1. sndLossList' = {s \in sndLossList : s >= p.ack}
                BY <1>2, <2>1
            <4>2. sndLossList \subseteq sndLastAck .. sndCurrSeqNo /\ sndLastAck \in Int /\ sndCurrSeqNo \in Int
                BY <1>1 DEF SenderInv
            <4>3. p.ack \in Int
                BY <1>1, <1>4 DEF SenderInv
            <4>4. ASSUME NEW x \in sndLossList' PROVE x \in p.ack .. sndCurrSeqNo
                <5>1. x \in sndLossList /\ x >= p.ack
                    BY <4>1
                <5>2. QED
                    BY <4>2, <4>3, <5>1
            <4>5. QED
                BY <4>4
        <3>2. QED
            BY <1>1, <1>2, <1>3, <1>4, <2>1, <3>1 DEF SenderInv
    <2>2. CASE ~(p.ack > sndLastAck)
        BY <1>1, <1>2, <1>3, <2>2 DEF SenderInv
    <2>3. QED
        BY <2>1, <2>2
<1>6. NetInv'
    BY <1>1, <1>3, <1>4 DEF NetInv
<1>7. QED
    BY <1>1, <1>3, <1>5, <1>6, SenderKeeps DEF SenderInv

\* Only packets that were sent and are kept get into the loss list.
LEMMA RecvLossReportKeeps ==
    ASSUME MInv, RecvLossReport
    PROVE  MInv'
<1>1. SenderInv /\ NetInv
    BY DEF MInv
<1>2. PICK p \in net :
         /\ p.kind = "loss" /\ Arrives(p)
         /\ sndLossList' = sndLossList \cup {s \in p.lo .. p.hi : s >= sndLastAck}
    BY DEF RecvLossReport
<1>3. /\ UNCHANGED <<blocks, firstBlock, currBlock, expired, sndCurrSeqNo, sndLastAck>>
      /\ UNCHANGED rcvVars
    BY DEF RecvLossReport, rcvVars
<1>4. p.lo \in Nat /\ p.hi \in 0 .. sndCurrSeqNo /\ net' \subseteq net
    BY <1>1, <1>2 DEF NetInv, Arrives
<1>5. SenderInv'
    <2>1. sndLossList' \subseteq sndLastAck .. sndCurrSeqNo
        <3>1. sndLossList' = sndLossList \cup {s \in p.lo .. p.hi : s >= sndLastAck}
            BY <1>2
        <3>2. sndLossList \subseteq sndLastAck .. sndCurrSeqNo /\ sndLastAck \in Int /\ sndCurrSeqNo \in Int
            BY <1>1 DEF SenderInv
        <3>3. p.lo \in Int /\ p.hi \in Int /\ p.hi =< sndCurrSeqNo
            BY <1>4, <3>2
        <3>4. ASSUME NEW x \in sndLossList' PROVE x \in sndLastAck .. sndCurrSeqNo
            <4>1. CASE x \in sndLossList
                BY <3>2, <4>1
            <4>2. CASE x \in p.lo .. p.hi /\ x >= sndLastAck
                BY <3>2, <3>3, <4>2
            <4>3. QED
                BY <3>1, <4>1, <4>2
        <3>5. QED
            BY <3>4
    <2>2. QED
        BY <1>1, <1>3, <2>1 DEF SenderInv
<1>6. NetInv'
    BY <1>1, <1>3, <1>4 DEF NetInv
<1>7. QED
    BY <1>1, <1>3, <1>5, <1>6, SenderKeeps DEF SenderInv

\* After a silence all that is not acknowledged is lost.
LEMMA SndExpireKeeps ==
    ASSUME MInv, SndExpire
    PROVE  MInv'
<1>1. SenderInv /\ NetInv
    BY DEF MInv
<1>2. /\ sndLossList' = sndLastAck .. sndCurrSeqNo
      /\ UNCHANGED <<blocks, firstBlock, currBlock, expired, sndCurrSeqNo, sndLastAck, net>>
      /\ UNCHANGED rcvVars
    BY DEF SndExpire, rcvVars
<1>3. SenderInv'
    BY <1>1, <1>2 DEF SenderInv
<1>4. NetInv'
    BY <1>1, <1>2 DEF NetInv
<1>5. QED
    BY <1>1, <1>2, <1>3, <1>4, SenderKeeps DEF SenderInv

\* The network loses a packet.
LEMMA LoseKeeps ==
    ASSUME MInv, Lose
    PROVE  MInv'
<1>1. SenderInv /\ NetInv
    BY DEF MInv
<1>2. net' \subseteq net /\ UNCHANGED sndVars /\ UNCHANGED rcvVars
    BY DEF Lose, rcvVars
<1>3. SenderInv'
    BY <1>1, <1>2 DEF SenderInv, sndVars
<1>4. NetInv'
    BY <1>1, <1>2 DEF NetInv, sndVars
<1>5. QED
    BY <1>1, <1>2, <1>3, <1>4, SenderKeeps DEF SenderInv, sndVars

-----------------------------------------------------------------------------
(* The receiver takes packets and acknowledges them.                       *)

\* What was found and what was read stay as they are when units are added and more is
\* acknowledged.
LEMMA FoundStays ==
    ASSUME MInv, UNCHANGED <<blocks, startPos, found, received>>, StartNo' = StartNo,
           rcvLastAck' \in Int, rcvLastAck =< rcvLastAck',
           rcvCurrSeqNo' \in Int, rcvCurrSeqNo =< rcvCurrSeqNo',
           \A k \in Slots : units[k] = Empty \/ units'[k] = units[k],
           arrived' \subseteq Blocks
    PROVE  FoundInv' /\ HistoryInv'
<1>0. /\ RingInv /\ RcvBufSize \in Nat /\ RcvBufSize >= 2 /\ rcvLastAck \in Int
      /\ rcvCurrSeqNo \in Int /\ StartNo \in Int
    BY RingNumbers DEF MInv, RingInv
<1>1. \A k \in Slots : units[k].flag # 0 => units'[k] = units[k]
    BY DEF Empty
<1>2. FoundInv'
    <2> SUFFICES ASSUME found # Nothing, FoundSize # 0
                 PROVE \E s \in Nat :
                   /\ s >= StartNo /\ Whole(s, FoundSize)'
                   /\ found.passack => ~ blocks[s].order
                   /\ ~ found.passack => /\ found.from = startPos /\ s = StartNo
                                         /\ s + FoundSize =< rcvLastAck'
        BY DEF MInv, FoundInv, FoundSize
    <2>1. PICK s \in Nat :
                   /\ s >= StartNo /\ Whole(s, FoundSize)
                   /\ found.passack => ~ blocks[s].order
                   /\ ~ found.passack => /\ found.from = startPos /\ s = StartNo
                                         /\ s + FoundSize =< rcvLastAck
        BY DEF MInv, FoundInv
    <2>2. /\ FoundSize \in Nat /\ FoundSize >= 1 /\ FoundSize < RcvBufSize
          /\ found.from \in Slots /\ found.to \in Slots
        BY SizeOfFound DEF MInv, FoundInv
    <2>3. \A i \in 1 .. FoundSize : At(found.from + i - 1) \in Slots
        <3> SUFFICES ASSUME NEW i \in 1 .. FoundSize PROVE At(found.from + i - 1) \in Slots
            OBVIOUS
        <3>1. found.from + i - 1 \in Int /\ 0 =< found.from + i - 1 /\ found.from + i - 1 < 3 * RcvBufSize
            BY <1>0, <2>2 DEF Slots
        <3>2. QED
            BY <1>0, <3>1, Wrap
    <2>4. \A i \in 1 .. FoundSize : units'[At(found.from + i - 1)] = units[At(found.from + i - 1)]
        <3> SUFFICES ASSUME NEW i \in 1 .. FoundSize
                     PROVE  units'[At(found.from + i - 1)] = units[At(found.from + i - 1)]
            OBVIOUS
        <3>1. units[At(found.from + i - 1)].flag = 1
            BY <2>1 DEF Whole
        <3>2. QED
            BY <1>1, <2>3, <3>1
    <2>5. s + FoundSize - 1 =< rcvCurrSeqNo'
        BY <1>0, <2>1, <2>2 DEF Whole
    <2>6. Whole(s, FoundSize)'
        BY <2>1, <2>4, <2>5 DEF Whole, Beginning, Ending, FoundSize, At
    <2>7. ~ found.passack => s + FoundSize =< rcvLastAck'
        BY <1>0, <2>1, <2>2
    <2>8. QED
        BY <2>1, <2>6, <2>7
<1>3. HistoryInv'
    <2>1. HistoryInv
        BY DEF MInv
    <2>2. \A n : WasRead(n) => WasRead(n)'
        BY <1>1 DEF WasRead
    <2>3. \A r : Returned(r) => Returned(r)'
        BY <2>2 DEF Returned
    <2>4. ReadInOrder'
        <3>1. \A r : NumbersOf(r)' = NumbersOf(r)
            BY DEF NumbersOf
        <3>2. QED
            BY <2>1, <3>1 DEF HistoryInv, ReadInOrder, ReadOnce
    <2>5. QED
        BY <2>1, <2>3, <2>4 DEF HistoryInv
<1>4. QED
    BY <1>2, <1>3

\* An acknowledgement moves m_iLastAckPos as far as m_iRcvLastAck.
LEMMA SendAckKeeps ==
    ASSUME MInv, SendAck
    PROVE  MInv'
<1> DEFINE n == NextAck - rcvLastAck
<1>1. RingInv /\ SenderInv /\ NetInv /\ HeldInv /\ BlocksInv
    BY DEF MInv
<1>2. /\ NextAck >= rcvLastAck /\ rcvLastAck' = NextAck
      /\ lastAckPos' = At(lastAckPos + n)
      /\ maxPos' = IF maxPos < n THEN 0 ELSE maxPos - n
      /\ net' \in SendTo(net, AckPacket(NextAck))
      /\ UNCHANGED <<units, startPos, rcvCurrSeqNo, rcvLossList, arrived, found, received>>
      /\ UNCHANGED <<blocks, firstBlock, currBlock, expired, sndCurrSeqNo, sndLastAck, sndLossList>>
    BY DEF SendAck, AckData, At, appVars, sndVars
<1>3. /\ RcvBufSize \in Nat /\ RcvBufSize >= 2
      /\ startPos \in Nat /\ startPos < RcvBufSize /\ lastAckPos \in Nat
      /\ lastAckPos < RcvBufSize
      /\ RcvDataSize = IF lastAckPos >= startPos THEN lastAckPos - startPos
                       ELSE lastAckPos - startPos + RcvBufSize
      /\ RcvDataSize \in Nat /\ RcvDataSize < RcvBufSize
      /\ StartNo = rcvLastAck - RcvDataSize /\ StartNo \in Nat /\ StartNo >= 1
      /\ maxPos \in Nat /\ rcvLastAck \in Nat /\ rcvCurrSeqNo \in Nat
      /\ rcvCurrSeqNo >= rcvLastAck - 1 /\ rcvCurrSeqNo =< sndCurrSeqNo /\ sndCurrSeqNo \in Nat
      /\ maxPos = IF rcvCurrSeqNo >= rcvLastAck THEN rcvCurrSeqNo - rcvLastAck ELSE 0
      /\ rcvCurrSeqNo - StartNo =< RcvBufSize - 2
      /\ rcvLossList \subseteq rcvLastAck .. rcvCurrSeqNo
    BY <1>1, RingNumbers DEF RingInv, SenderInv
<1>4. NextAck \in rcvLastAck .. rcvCurrSeqNo + 1 /\ \A t \in rcvLossList : NextAck =< t
    <2>1. CASE rcvLossList = {}
        BY <1>3, <2>1 DEF NextAck
    <2>2. CASE rcvLossList # {}
        <3>1. rcvLossList \subseteq Nat
            BY <1>3
        <3>2. NextAck \in rcvLossList /\ \A t \in rcvLossList : NextAck =< t
            BY <2>2, <3>1, Least DEF NextAck
        <3>3. QED
            BY <1>3, <3>2
    <2>3. QED
        BY <2>1, <2>2
<1> HIDE DEF NextAck
<1>5. n \in Nat /\ RcvDataSize + n =< RcvBufSize - 1 /\ NextAck = rcvLastAck + n
    BY <1>3, <1>4
<1> HIDE DEF n
<1>6. /\ lastAckPos' \in Nat /\ lastAckPos' < RcvBufSize /\ lastAckPos' \in Slots
      /\ lastAckPos' = IF lastAckPos + n < RcvBufSize THEN lastAckPos + n
                       ELSE lastAckPos + n - RcvBufSize
    <2>0. PICK x \in Int :
              /\ x = lastAckPos + n /\ - RcvBufSize =< x /\ x < 3 * RcvBufSize
              /\ 0 =< x /\ x < 2 * RcvBufSize
        BY <1>3, <1>5
    <2>1. /\ At(x) = IF x < RcvBufSize THEN x ELSE x - RcvBufSize
          /\ At(x) \in Slots
        BY <1>3, <2>0, Wrap
    <2>2. /\ At(lastAckPos + n) = IF lastAckPos + n < RcvBufSize THEN lastAckPos + n
                                  ELSE lastAckPos + n - RcvBufSize
          /\ At(lastAckPos + n) \in Slots
        BY <1>3, <1>5, <2>0, <2>1
    <2>3. QED
        BY <1>2, <1>3, <1>5, <2>2
<1>7. RcvDataSize' = RcvDataSize + n
    <2>1. startPos' = startPos /\ startPos \in Slots
        BY <1>1, <1>2 DEF RingInv
    <2>2. RcvDataSize' = At(lastAckPos' - startPos)
        BY <2>1 DEF RcvDataSize, At
    <2>3. lastAckPos' - startPos \in Int /\ - RcvBufSize =< lastAckPos' - startPos
          /\ lastAckPos' - startPos < RcvBufSize
        BY <1>3, <1>6
    <2>4. At(lastAckPos' - startPos) = IF lastAckPos' - startPos < 0
                                       THEN lastAckPos' - startPos + RcvBufSize
                                       ELSE lastAckPos' - startPos
        BY <1>3, <2>3, Wrap
    <2>5. QED
        BY <1>3, <1>5, <1>6, <2>2, <2>4
<1>8. StartNo' = StartNo
    BY <1>2, <1>3, <1>5, <1>7 DEF StartNo
<1>9. RingInv'
    <2>1. startPos' \in Slots /\ lastAckPos' \in Slots
        BY <1>1, <1>2, <1>6 DEF RingInv, Slots
    <2>2. rcvLastAck' \in Nat /\ StartNo' >= 1 /\ rcvCurrSeqNo' \in Nat
          /\ rcvCurrSeqNo' >= rcvLastAck' - 1 /\ rcvCurrSeqNo' =< sndCurrSeqNo'
          /\ rcvCurrSeqNo' - StartNo' =< RcvBufSize - 2
        BY <1>2, <1>3, <1>4, <1>8
    <2>3. maxPos' = IF rcvCurrSeqNo' >= rcvLastAck' THEN rcvCurrSeqNo' - rcvLastAck' ELSE 0
        BY <1>2, <1>3, <1>4, <1>5
    <2>4. rcvLossList' \subseteq rcvLastAck' .. rcvCurrSeqNo'
        BY <1>2, <1>3, <1>4
    <2>5. QED
        BY <2>1, <2>2, <2>3, <2>4 DEF RingInv
<1>10. HeldInv'
    BY <1>1, <1>2, <1>8 DEF HeldInv, Holds, Offset, Slots
<1>11. FoundInv' /\ HistoryInv'
    <2>1. rcvLastAck =< rcvLastAck' /\ rcvLastAck' \in Int
        BY <1>2, <1>3, <1>4
    <2>2. rcvCurrSeqNo' \in Int /\ rcvCurrSeqNo =< rcvCurrSeqNo' /\ arrived' \subseteq Blocks
        BY <1>2, <1>3 DEF MInv, HistoryInv
    <2>3. QED
        BY <1>2, <1>8, <2>1, <2>2, FoundStays
<1>12. BlocksInv' /\ SenderInv'
    BY <1>1, <1>2 DEF BlocksInv, SenderInv, Beginning, Ending
<1>13. NetInv'
    <2>1. net' \subseteq net \cup {AckPacket(NextAck)}
        BY <1>2, SentOnly
    <2>2. NextAck \in 1 .. sndCurrSeqNo + 1
        BY <1>3, <1>4
    <2>3. QED
        BY <1>1, <1>2, <2>1, <2>2 DEF NetInv, AckPacket
<1>14. QED
    BY <1>9, <1>10, <1>11, <1>12, <1>13 DEF MInv

\* The slot of a packet there is room for.
LEMMA DataSlot ==
    ASSUME RingInv, NEW seq \in Int, seq - rcvLastAck \in 0 .. AvailBufSize - 1
    PROVE  /\ SlotOf(seq) \in Slots /\ StartNo + Offset(SlotOf(seq)) = seq
           /\ seq >= rcvLastAck /\ seq - StartNo =< RcvBufSize - 2
<1> DEFINE d == seq - rcvLastAck
<1>1. /\ RcvBufSize \in Nat /\ RcvBufSize >= 2
      /\ startPos \in Nat /\ startPos < RcvBufSize /\ lastAckPos \in Nat
      /\ lastAckPos < RcvBufSize
      /\ RcvDataSize = IF lastAckPos >= startPos THEN lastAckPos - startPos
                       ELSE lastAckPos - startPos + RcvBufSize
      /\ RcvDataSize \in Nat /\ RcvDataSize < RcvBufSize
      /\ StartNo = rcvLastAck - RcvDataSize /\ StartNo \in Nat /\ rcvLastAck \in Nat
    BY RingNumbers DEF RingInv
<1>2. d \in Nat /\ RcvDataSize + d =< RcvBufSize - 2 /\ seq = rcvLastAck + d
    BY <1>1 DEF AvailBufSize
<1>3. SlotOf(seq) = At(lastAckPos + d)
    <2>1. lastAckPos + seq - rcvLastAck = lastAckPos + d
        BY <1>1
    <2>2. QED
        BY <2>1, Zenon DEF SlotOf, At
<1> HIDE DEF d
<1>4. /\ At(lastAckPos + d) \in Slots
      /\ At(lastAckPos + d) = IF lastAckPos + d < RcvBufSize THEN lastAckPos + d
                              ELSE lastAckPos + d - RcvBufSize
    <2>1. PICK x \in Int :
              /\ x = lastAckPos + d /\ - RcvBufSize =< x /\ x < 3 * RcvBufSize
              /\ 0 =< x /\ x < 2 * RcvBufSize
        BY <1>1, <1>2
    <2>2. /\ At(x) = IF x < RcvBufSize THEN x ELSE x - RcvBufSize
          /\ At(x) \in Slots
        BY <1>1, <2>1, Wrap
    <2>3. QED
        BY <1>1, <1>2, <2>1, <2>2
<1>5. Offset(At(lastAckPos + d)) = RcvDataSize + d
    <2>1. startPos \in Slots
        BY DEF RingInv
    <2>2. Offset(At(lastAckPos + d)) = IF At(lastAckPos + d) >= startPos
                                       THEN At(lastAckPos + d) - startPos
                                       ELSE At(lastAckPos + d) - startPos + RcvBufSize
        BY <1>4, <2>1, OffsetOf
    <2>3. QED
        BY <1>1, <1>2, <1>4, <2>2
<1>6. QED
    BY <1>1, <1>2, <1>3, <1>4, <1>5

\* A packet goes into the slot of its number, or there is one there already.
LEMMA RecvDataKeeps ==
    ASSUME MInv, RecvData
    PROVE  MInv'
<1>1. RingInv /\ SenderInv /\ NetInv /\ HeldInv /\ BlocksInv
    BY DEF MInv
<1>2. PICK p \in net :
         /\ p.kind = "data"
         /\ p.seq - rcvLastAck \in 0 .. AvailBufSize - 1
         /\ maxPos' = Farthest(p.seq)
         /\ IF units[SlotOf(p.seq)] # Empty
            THEN /\ Arrives(p)
                 /\ UNCHANGED <<units, arrived, rcvLossList, rcvCurrSeqNo>>
            ELSE /\ units' = [units EXCEPT ![SlotOf(p.seq)] =
                                  [flag |-> 1, seq |-> p.seq, block |-> p.block]]
                 /\ arrived' = arrived \cup {p.block}
                 /\ \E rest \in {net, net \ {p}} :
                      IF p.seq > rcvCurrSeqNo + 1
                      THEN /\ rcvLossList' = rcvLossList \cup (rcvCurrSeqNo + 1 .. p.seq - 1)
                           /\ net' \in SendTo(rest, LossReport(rcvCurrSeqNo + 1, p.seq - 1))
                      ELSE /\ rcvLossList' = rcvLossList \ {p.seq}
                           /\ net' = rest
                 /\ rcvCurrSeqNo' = IF p.seq > rcvCurrSeqNo THEN p.seq ELSE rcvCurrSeqNo
    BY DEF RecvData
<1>3. /\ UNCHANGED <<blocks, firstBlock, currBlock, expired, sndCurrSeqNo, sndLastAck, sndLossList>>
      /\ UNCHANGED <<startPos, lastAckPos, rcvLastAck, found, received>>
    BY DEF RecvData, sndVars, appVars
<1> DEFINE seq == p.seq
           slot == SlotOf(seq)
           c == rcvCurrSeqNo
<1>4. seq \in 1 .. sndCurrSeqNo /\ p.block = blocks[seq]
    BY <1>1, <1>2 DEF NetInv
<1>5. /\ RcvBufSize \in Nat /\ RcvBufSize >= 2
      /\ StartNo = rcvLastAck - RcvDataSize /\ StartNo \in Nat /\ StartNo >= 1
      /\ maxPos \in Nat /\ rcvLastAck \in Nat /\ c \in Nat /\ RcvDataSize \in Nat
      /\ c >= rcvLastAck - 1 /\ c =< sndCurrSeqNo /\ sndCurrSeqNo \in Nat
      /\ maxPos = IF c >= rcvLastAck THEN c - rcvLastAck ELSE 0
      /\ c - StartNo =< RcvBufSize - 2
      /\ rcvLossList \subseteq rcvLastAck .. c
    BY <1>1, RingNumbers DEF RingInv, SenderInv
<1>6. /\ slot \in Slots /\ StartNo + Offset(slot) = seq
      /\ seq >= rcvLastAck /\ seq - StartNo =< RcvBufSize - 2
    BY <1>1, <1>2, <1>4, DataSlot
<1>7. blocks[seq] \in Blocks
    BY <1>1, <1>4 DEF BlocksInv, SenderInv
<1>8. /\ StartNo' = StartNo /\ RcvDataSize' = RcvDataSize
      /\ \A k : Offset(k)' = Offset(k)
    BY <1>3 DEF StartNo, RcvDataSize, Offset
<1>9. maxPos' = IF seq - rcvLastAck > maxPos THEN seq - rcvLastAck ELSE maxPos
    BY <1>2 DEF Farthest
<1>10. BlocksInv' /\ SenderInv'
    BY <1>1, <1>3 DEF BlocksInv, SenderInv, Beginning, Ending
<1>11. CASE units[slot] # Empty
    <2>1. /\ Arrives(p) /\ UNCHANGED <<units, arrived, rcvLossList, rcvCurrSeqNo>>
        BY <1>2, <1>11
    <2>2. seq =< c
        BY <1>1, <1>6, <1>11 DEF HeldInv, Holds
    <2>3. maxPos' = maxPos
        BY <1>4, <1>5, <1>6, <1>9, <2>2
    <2>4. RingInv'
        BY <1>1, <1>3, <1>8, <2>1, <2>3 DEF RingInv
    <2>5. HeldInv'
        BY <1>1, <1>3, <1>8, <2>1 DEF HeldInv, Holds
    <2>6. NetInv'
        BY <1>1, <1>3, <2>1 DEF NetInv, Arrives
    <2>7. FoundInv' /\ HistoryInv'
        BY <1>3, <1>5, <1>8, <2>1, FoundStays DEF MInv, HistoryInv
    <2>8. QED
        BY <1>10, <2>4, <2>5, <2>6, <2>7 DEF MInv
<1>12. CASE units[slot] = Empty
    <2> DEFINE u == [flag |-> 1, seq |-> seq, block |-> blocks[seq]]
    <2>1. /\ units' = [units EXCEPT ![slot] = u]
          /\ arrived' = arrived \cup {blocks[seq]}
          /\ rcvCurrSeqNo' = IF seq > c THEN seq ELSE c
        BY <1>2, <1>4, <1>12
    <2>2. /\ rcvLossList' \subseteq rcvLossList \cup (c + 1 .. seq - 1)
          /\ net' \subseteq net \cup {LossReport(c + 1, seq - 1)}
        <3>1. PICK rest \in {net, net \ {p}} :
                      IF seq > c + 1
                      THEN /\ rcvLossList' = rcvLossList \cup (c + 1 .. seq - 1)
                           /\ net' \in SendTo(rest, LossReport(c + 1, seq - 1))
                      ELSE /\ rcvLossList' = rcvLossList \ {seq}
                           /\ net' = rest
            BY <1>2, <1>12
        <3>2. CASE seq > c + 1
            BY <3>1, <3>2, SentOnly
        <3>3. CASE ~ (seq > c + 1)
            BY <3>1, <3>3
        <3>4. QED
            BY <3>2, <3>3
    <2> DEFINE d == rcvCurrSeqNo'
    <2>3. d \in Nat /\ d >= c /\ d >= seq /\ d =< sndCurrSeqNo /\ (d = c \/ d = seq)
        BY <1>4, <1>5, <2>1
    <2>4. RingInv'
        <3>1. startPos' \in Slots /\ lastAckPos' \in Slots
            BY <1>1, <1>3 DEF RingInv
        <3>2. rcvLastAck' \in Nat /\ StartNo' >= 1 /\ d \in Nat /\ d >= rcvLastAck' - 1
              /\ d =< sndCurrSeqNo'
            BY <1>3, <1>5, <1>6, <1>8, <2>3
        <3>5. d - StartNo' =< RcvBufSize - 2
            BY <1>5, <1>6, <1>8, <2>3
        <3>3. maxPos' = IF d >= rcvLastAck' THEN d - rcvLastAck' ELSE 0
            BY <1>3, <1>4, <1>5, <1>6, <1>9, <2>3
        <3>4. rcvLossList' \subseteq rcvLastAck' .. d
            <4>1. \A x \in rcvLossList : x \in rcvLastAck .. d
                BY <1>5, <2>3
            <4>2. \A x \in c + 1 .. seq - 1 : x \in rcvLastAck .. d
                BY <1>4, <1>5, <2>3
            <4>3. QED
                BY <1>3, <2>2, <4>1, <4>2
        <3>6. QED
            BY <3>1, <3>2, <3>3, <3>4, <3>5 DEF RingInv
    <2>5. units = [k \in Slots |-> units[k]]
        BY <1>1 DEF HeldInv
    <2>6. /\ units' = [k \in Slots |-> IF k = slot THEN u ELSE units[k]]
          /\ \A k \in Slots : units'[k] = IF k = slot THEN u ELSE units[k]
        BY <2>1, <2>5
    <2>7. HeldInv'
        <3>1. units' = [k \in Slots |-> units'[k]]
            BY <2>6
        <3>2. ASSUME NEW k \in Slots, k # slot
              PROVE  units'[k] = Empty \/ (Holds(units[k])' /\ units'[k].seq = StartNo + Offset(k))
            <4>1. units'[k] = units[k]
                BY <2>6, <3>2
            <4>2. units[k] = Empty \/ (Holds(units[k]) /\ units[k].seq = StartNo + Offset(k))
                BY <1>1 DEF HeldInv
            <4>3. Holds(units[k]) => Holds(units[k])'
                BY <1>3, <1>5, <2>3, <4>1 DEF Holds
            <4>4. QED
                BY <4>1, <4>2, <4>3
        <3>3. ASSUME NEW k \in Slots, k = slot
              PROVE  Holds(units[k])' /\ units'[k].seq = StartNo + Offset(k)
            <4>1. units'[k] = u
                BY <2>6, <3>3
            <4>2. /\ u.flag = 1 /\ u.seq = seq /\ u.block = blocks[seq]
                  /\ u = [flag |-> u.flag, seq |-> u.seq, block |-> u.block]
                OBVIOUS
            <4>3. seq \in 1 .. rcvCurrSeqNo'
                BY <1>4, <2>3
            <4> HIDE DEF u
            <4>4. Holds(units[k])'
                BY <1>3, <4>1, <4>2, <4>3 DEF Holds
            <4>5. QED
                BY <1>6, <3>3, <4>1, <4>2, <4>4
        <3>4. ASSUME NEW k \in Slots
              PROVE  units'[k] = Empty \/ (Holds(units[k])' /\ units'[k].seq = StartNo' + Offset(k)')
            <4>1. Offset(k)' = Offset(k) /\ StartNo' = StartNo
                BY <1>8
            <4>2. CASE k = slot
                BY <3>3, <4>1, <4>2
            <4>3. CASE k # slot
                BY <3>2, <4>1, <4>3
            <4>4. QED
                BY <4>2, <4>3
        <3>5. QED
            BY <3>1, <3>4 DEF HeldInv
    <2>8. NetInv'
        <3>1. LossReport(c + 1, seq - 1).lo \in Nat /\ LossReport(c + 1, seq - 1).hi \in 0 .. sndCurrSeqNo
              /\ LossReport(c + 1, seq - 1).kind = "loss"
            BY <1>4, <1>5 DEF LossReport
        <3>2. QED
            BY <1>1, <1>3, <2>2, <3>1 DEF NetInv
    <2>9. FoundInv' /\ HistoryInv'
        <3>1. arrived' \subseteq Blocks
            BY <1>7, <2>1 DEF MInv, HistoryInv
        <3>2. \A k \in Slots : units[k] = Empty \/ units'[k] = units[k]
            BY <1>12, <2>6
        <3>3. rcvLastAck' \in Int /\ rcvLastAck =< rcvLastAck' /\ rcvCurrSeqNo' \in Int
              /\ rcvCurrSeqNo =< rcvCurrSeqNo'
            BY <1>3, <1>5, <2>3
        <3>4. QED
            BY <1>3, <1>8, <3>1, <3>2, <3>3, FoundStays
    <2>10. QED
        BY <1>10, <2>4, <2>7, <2>8, <2>9 DEF MInv
<1>13. QED
    BY <1>11, <1>12

-----------------------------------------------------------------------------
(* m_iStartPos moves.                                                      *)

\* The slots of the first d positions.
LEMMA FrontSlots ==
    ASSUME startPos \in Slots, NEW d \in 0 .. RcvBufSize - 1, NEW k \in Slots
    PROVE  (\E i \in 0 .. d - 1 : k = At(startPos + i)) <=> Offset(k) < d
<1>0. RcvBufSize \in Nat /\ RcvBufSize >= 2
    BY MessagesAssumption
<1>1. ASSUME NEW i \in 0 .. d - 1, k = At(startPos + i)
      PROVE  Offset(k) < d
    <2>1. i \in 0 .. RcvBufSize - 1
        BY <1>0
    <2>2. Offset(k) = i
        BY <1>1, <2>1, SlotAt
    <2>3. QED
        BY <1>0, <2>2
<1>2. ASSUME Offset(k) < d
      PROVE  \E i \in 0 .. d - 1 : k = At(startPos + i)
    <2>1. Offset(k) \in 0 .. RcvBufSize - 1 /\ At(startPos + Offset(k)) = k
        BY OffsetOf
    <2>2. Offset(k) \in 0 .. d - 1
        BY <1>0, <1>2, <2>1
    <2>3. QED
        BY <2>1, <2>2
<1>3. QED
    BY <1>1, <1>2

\* What m_iStartPos leaves behind is free, and nothing else changes but the places that
\* are counted from it.
FrontGoes(d) ==
    /\ startPos' = At(startPos + d)
    /\ units' = [k \in Slots |-> IF Offset(k) < d THEN Empty ELSE units[k]]
    /\ UNCHANGED <<blocks, lastAckPos, maxPos, rcvCurrSeqNo, rcvLastAck, rcvLossList, sndCurrSeqNo>>

\* Then what is held keeps its numbers, and what was read stays read.
LEMMA FrontMoves ==
    ASSUME MInv, NEW d \in Nat, d =< RcvDataSize, FrontGoes(d)
    PROVE  /\ RingInv' /\ HeldInv'
           /\ RcvDataSize' = RcvDataSize - d /\ StartNo' = StartNo + d
           /\ \A n \in Int : WasRead(n) => WasRead(n)'
<1>1. RingInv /\ HeldInv
    BY DEF MInv
<1>2. /\ startPos' = At(startPos + d)
      /\ units' = [k \in Slots |-> IF Offset(k) < d THEN Empty ELSE units[k]]
      /\ UNCHANGED <<blocks, lastAckPos, maxPos, rcvCurrSeqNo, rcvLastAck, rcvLossList, sndCurrSeqNo>>
    BY DEF FrontGoes
<1>3. /\ RcvBufSize \in Nat /\ RcvBufSize >= 2
      /\ startPos \in Nat /\ startPos < RcvBufSize /\ lastAckPos \in Nat
      /\ lastAckPos < RcvBufSize
      /\ RcvDataSize = IF lastAckPos >= startPos THEN lastAckPos - startPos
                       ELSE lastAckPos - startPos + RcvBufSize
      /\ RcvDataSize \in Nat /\ RcvDataSize < RcvBufSize
      /\ StartNo = rcvLastAck - RcvDataSize /\ StartNo \in Nat /\ rcvLastAck \in Nat
      /\ StartNo >= 1 /\ rcvCurrSeqNo \in Nat /\ rcvCurrSeqNo - StartNo =< RcvBufSize - 2
    BY <1>1, RingNumbers DEF RingInv
<1>4. /\ startPos' \in Slots /\ startPos' \in Nat /\ startPos' < RcvBufSize
      /\ startPos' = IF startPos + d < RcvBufSize THEN startPos + d ELSE startPos + d - RcvBufSize
    <2>1. PICK x \in Int : /\ x = startPos + d /\ - RcvBufSize =< x /\ x < 3 * RcvBufSize
                           /\ 0 =< x /\ x < 2 * RcvBufSize
        BY <1>3
    <2>2. /\ At(x) = IF x < RcvBufSize THEN x ELSE x - RcvBufSize
          /\ At(x) \in Slots
        BY <1>3, <2>1, Wrap
    <2>3. startPos' = At(x)
        BY <1>2, <1>3, <2>1
    <2>4. QED
        BY <1>3, <2>1, <2>2, <2>3
<1>5. RcvDataSize' = RcvDataSize - d
    <2>1. RcvDataSize' = At(lastAckPos - startPos')
        BY <1>2 DEF RcvDataSize, At
    <2>0. /\ lastAckPos - startPos' \in Int /\ - RcvBufSize =< lastAckPos - startPos'
          /\ lastAckPos - startPos' < RcvBufSize
        BY <1>3, <1>4
    <2>2. PICK y \in Int : y = lastAckPos - startPos' /\ - RcvBufSize =< y /\ y < 3 * RcvBufSize
                           /\ y < RcvBufSize
        BY <1>3, <2>0
    <2>3. At(y) = IF y < 0 THEN y + RcvBufSize ELSE y
        BY <1>3, <2>2, Wrap
    <2>4. RcvDataSize' = At(y)
        BY <1>3, <1>4, <2>1, <2>2
    <2>5. QED
        BY <1>3, <1>4, <2>2, <2>3, <2>4
<1>6. StartNo' = StartNo + d
    <2>1. StartNo' = rcvLastAck - RcvDataSize'
        BY <1>2 DEF StartNo
    <2>2. QED
        BY <1>3, <1>5, <2>1
<1>7. ASSUME NEW k \in Slots, Offset(k) >= d
      PROVE  Offset(k)' = Offset(k) - d
    <2>1. Offset(k)' = At(k - startPos')
        BY DEF Offset, At
    <2>0. /\ k - startPos' \in Int /\ - RcvBufSize =< k - startPos' /\ k - startPos' < RcvBufSize
        BY <1>3, <1>4 DEF Slots
    <2>2. PICK y \in Int : y = k - startPos' /\ - RcvBufSize =< y /\ y < 3 * RcvBufSize
                           /\ y < RcvBufSize
        BY <1>3, <2>0
    <2>3. At(y) = IF y < 0 THEN y + RcvBufSize ELSE y
        BY <1>3, <2>2, Wrap
    <2>4. Offset(k)' = At(y)
        BY <1>3, <1>4, <2>1, <2>2
    <2>5. Offset(k) = IF k >= startPos THEN k - startPos ELSE k - startPos + RcvBufSize
        BY <1>1, OffsetOf DEF RingInv
    <2>6. k \in Nat /\ k < RcvBufSize
        BY <1>3 DEF Slots
    <2>7. QED
        BY <1>3, <1>4, <1>7, <2>2, <2>3, <2>4, <2>5, <2>6
<1>8. \A k \in Slots : Offset(k) \in Int
    BY <1>1, OffsetOf DEF RingInv
<1>9. RingInv'
    BY <1>1, <1>2, <1>3, <1>4, <1>6 DEF RingInv
<1>10. HeldInv'
    <2>1. units' = [k \in Slots |-> units'[k]]
        BY <1>2
    <2>2. ASSUME NEW k \in Slots
          PROVE  units'[k] = Empty \/ (Holds(units[k])' /\ units'[k].seq = StartNo' + Offset(k)')
        <3>1. CASE Offset(k) < d
            BY <1>2, <3>1
        <3>2. CASE ~(Offset(k) < d)
            <4>1. units'[k] = units[k]
                BY <1>2, <3>2
            <4>2. Offset(k)' = Offset(k) - d /\ Offset(k) \in Int
                BY <1>7, <1>8, <3>2
            <4>3. units[k] = Empty \/ (Holds(units[k]) /\ units[k].seq = StartNo + Offset(k))
                BY <1>1 DEF HeldInv
            <4>4. Holds(units[k]) => Holds(units[k])'
                BY <1>2, <4>1 DEF Holds
            <4>5. StartNo + Offset(k) = StartNo' + Offset(k)'
                BY <1>3, <1>6, <4>2
            <4>6. QED
                BY <4>1, <4>3, <4>4, <4>5
        <3>3. QED
            BY <3>1, <3>2
    <2>3. QED
        BY <2>1, <2>2 DEF HeldInv
<1>11. ASSUME NEW n \in Int, WasRead(n)
       PROVE  WasRead(n)'
    <2>1. CASE n < StartNo
        <3>1. n < StartNo'
            BY <1>3, <1>6, <2>1
        <3>2. QED
            BY <3>1 DEF WasRead
    <2>2. CASE ~(n < StartNo)
        <3>1. PICK k \in Slots : units[k].flag = 2 /\ units[k].seq = n
            BY <1>11, <2>2 DEF WasRead
        <3>2. CASE Offset(k) < d
            <4>1. units[k].seq = StartNo + Offset(k)
                BY <1>1, <3>1 DEF HeldInv, Empty
            <4>2. n < StartNo'
                BY <1>3, <1>6, <1>8, <3>1, <3>2, <4>1
            <4>3. QED
                BY <4>2 DEF WasRead
        <3>3. CASE ~(Offset(k) < d)
            <4>1. units'[k] = units[k]
                BY <1>2, <3>3
            <4>2. QED
                BY <3>1, <4>1 DEF WasRead
        <3>4. QED
            BY <3>2, <3>3
    <2>3. QED
        BY <2>1, <2>2
<1>12. QED
    BY <1>5, <1>6, <1>9, <1>10, <1>11

-----------------------------------------------------------------------------
(* recvmsg copies a message.                                               *)

\* Every slot has its type.
LEMMA UnitsTyped ==
    ASSUME BlocksInv, SenderInv, RingInv, HeldInv
    PROVE  \A k \in Slots : units[k] \in Units
<1> SUFFICES ASSUME NEW k \in Slots PROVE units[k] \in Units
    OBVIOUS
<1>1. CASE units[k] = Empty
    BY <1>1 DEF Units
<1>2. CASE units[k] # Empty
    <2> DEFINE u == units[k]
    <2>1. Holds(u)
        BY <1>2 DEF HeldInv
    <2>2. u = [flag |-> u.flag, seq |-> u.seq, block |-> u.block] /\ u.flag \in {1, 2, 3}
        BY <2>1 DEF Holds
    <2>3. u.seq \in 1 .. Len(blocks) /\ Len(blocks) \in Nat /\ Len(blocks) =< MaxBlocks
        BY <2>1 DEF Holds, RingInv, SenderInv, BlocksInv
    <2>4. u.block \in Blocks
        <3>1. u.block = blocks[u.seq]
            BY <2>1 DEF Holds
        <3>2. QED
            BY <2>3, <3>1 DEF BlocksInv
    <2>5. u.seq \in Numbers
        BY <2>3, MessagesAssumption DEF Numbers
    <2> HIDE DEF u
    <2>6. u \in [flag : {1, 2, 3}, seq : Numbers, block : Blocks]
        BY <2>2, <2>4, <2>5
    <2>7. QED
        BY <2>6 DEF Units, u
<1>3. QED
    BY <1>1, <1>2

\* A packet whose unit is not marked was not read.
LEMMA NotRead ==
    ASSUME RingInv, HeldInv, NEW k \in Slots, units[k].flag = 1
    PROVE  ~ WasRead(units[k].seq)
<1>1. units[k].seq = StartNo + Offset(k)
    BY DEF HeldInv, Empty
<1>2. \A j \in Slots : Offset(j) \in Nat /\ At(startPos + Offset(j)) = j
    BY OffsetOf, MessagesAssumption DEF RingInv
<1>3. StartNo \in Nat
    BY RingNumbers
<1>4. ~(units[k].seq < StartNo)
    BY <1>1, <1>2, <1>3
<1>5. ASSUME NEW j \in Slots, units[j].flag = 2, units[j].seq = units[k].seq
      PROVE  FALSE
    <2>1. units[j].seq = StartNo + Offset(j)
        BY <1>5 DEF HeldInv, Empty
    <2>2. Offset(j) = Offset(k)
        BY <1>1, <1>2, <1>3, <1>5, <2>1
    <2>3. j = k
        BY <1>2, <2>2
    <2>4. QED
        BY <1>5, <2>3
<1>6. QED
    BY <1>4, <1>5 DEF WasRead

\* One more message is returned.
LEMMA HistoryGrows ==
    ASSUME MInv, NEW r \in Seq(Units), received' = Append(received, r), UNCHANGED arrived,
           Returned(r)', \A k \in DOMAIN r : ~ WasRead(r[k].seq), r[1].seq >= StartNo,
           StartNo' \in Int, StartNo' >= StartNo,
           \A n \in Int : WasRead(n) => WasRead(n)'
    PROVE  HistoryInv'
<1> DEFINE m == Len(received)
<1>1. HistoryInv /\ RingInv /\ StartNo \in Nat
    BY RingNumbers DEF MInv
<1>2. received \in Seq(Seq(Units)) /\ m \in Nat /\ DOMAIN received = 1 .. m
    BY <1>1 DEF HistoryInv
<1>3. /\ received' \in Seq(Seq(Units)) /\ DOMAIN received' = 1 .. m + 1
      /\ received'[m + 1] = r
      /\ \A i \in 1 .. m : received'[i] = received[i]
    BY <1>2
<1>4. \A i \in 1 .. m : Returned(received[i])
    BY <1>1, <1>2 DEF HistoryInv
<1>5. ASSUME NEW q, q \in Seq(Units), Returned(q)
      PROVE  Returned(q)'
    <2>1. 1 \in DOMAIN q
        BY <1>5 DEF Returned
    <2>2. q[1].seq \in Nat
        BY <1>5, <2>1 DEF Returned
    <2>3. q[1].block.order => q[1].seq < StartNo'
        BY <1>1, <1>5, <2>2 DEF Returned
    <2>4. \A k \in DOMAIN q : q[k].seq \in Int /\ WasRead(q[k].seq)'
        BY <1>5 DEF Returned
    <2>5. QED
        BY <1>5, <2>3, <2>4 DEF Returned
<1>6. ASSUME NEW i \in 1 .. m + 1
      PROVE  Returned(received[i])'
    <2>1. CASE i \in 1 .. m
        <3>1. PICK q : q = received[i] /\ q \in Seq(Units) /\ Returned(q)
            BY <1>2, <1>4, <2>1
        <3>2. Returned(q)'
            BY <1>5, <3>1
        <3>3. received'[i] = q
            BY <1>3, <2>1, <3>1
        <3>4. QED
            BY <3>2, <3>3
    <2>2. CASE i = m + 1
        BY <1>3, <2>2
    <2>3. QED
        BY <1>2, <2>1, <2>2
<1>7. \A i \in 1 .. m : NumbersOf(received[i]) \cap NumbersOf(r) = {}
    <2> SUFFICES ASSUME NEW i \in 1 .. m, NEW x \in NumbersOf(received[i]), x \in NumbersOf(r)
                 PROVE  FALSE
        OBVIOUS
    <2>1. PICK a \in DOMAIN received[i] : x = received[i][a].seq
        BY DEF NumbersOf
    <2>2. WasRead(x)
        BY <1>4, <2>1 DEF Returned
    <2>3. PICK b \in DOMAIN r : x = r[b].seq
        BY DEF NumbersOf
    <2>4. QED
        BY <2>2, <2>3
<1>8. ReadOnce'
    <2>1. \A i, j \in 1 .. m : i # j => NumbersOf(received[i]) \cap NumbersOf(received[j]) = {}
        BY <1>1, <1>2 DEF HistoryInv, ReadInOrder, ReadOnce
    <2>2. \A q : NumbersOf(q)' = NumbersOf(q)
        BY DEF NumbersOf
    <2>3. ASSUME NEW i \in 1 .. m + 1, NEW j \in 1 .. m + 1, i # j
          PROVE  NumbersOf(received'[i]) \cap NumbersOf(received'[j]) = {}
        <3>1. CASE i \in 1 .. m /\ j \in 1 .. m
            BY <1>3, <2>1, <2>3, <3>1
        <3>2. CASE i \in 1 .. m /\ j = m + 1
            BY <1>3, <1>7, <3>2
        <3>3. CASE i = m + 1 /\ j \in 1 .. m
            BY <1>3, <1>7, <3>3
        <3>4. (i \in 1 .. m \/ i = m + 1) /\ (j \in 1 .. m \/ j = m + 1)
            BY <1>2
        <3>5. QED
            BY <2>3, <3>1, <3>2, <3>3, <3>4
    <2>4. QED
        BY <1>3, <2>2, <2>3 DEF ReadOnce
<1>9. ASSUME NEW i \in DOMAIN received', NEW j \in DOMAIN received', i < j,
             received'[i][1].block.order
      PROVE  received'[i][1].seq < received'[j][1].seq
    <2>1. i \in 1 .. m /\ received'[i] = received[i]
        BY <1>2, <1>3, <1>9
    <2>2. CASE j \in 1 .. m
        BY <1>1, <1>2, <1>3, <1>9, <2>1, <2>2 DEF HistoryInv, ReadInOrder
    <2>3. CASE j = m + 1
        <3>1. received[i] # << >> /\ received[i] \in Seq(Units)
            BY <1>2, <1>4, <2>1 DEF Returned
        <3>2. received[i][1].seq < StartNo /\ received[i][1].seq \in Nat
            <4>1. 1 \in DOMAIN received[i]
                BY <1>2, <2>1, <3>1
            <4>2. QED
                BY <1>4, <1>9, <2>1, <4>1 DEF Returned
        <3>3. r[1].seq \in Nat
            BY DEF Returned
        <3>4. QED
            BY <1>1, <1>3, <2>1, <2>3, <3>1, <3>2, <3>3
    <2>4. QED
        BY <1>2, <1>3, <2>2, <2>3
<1>10. ReadInOrder'
    BY <1>8, <1>9 DEF ReadInOrder
<1>11. QED
    BY <1>1, <1>3, <1>6, <1>10 DEF HistoryInv

\* What was found: its slots and their units.
LEMMA FoundIs ==
    ASSUME MInv, found # Nothing, NEW s \in Nat, Whole(s, FoundSize), FoundSize # 0
    PROVE  /\ DOMAIN Found = 1 .. FoundSize /\ FoundSize \in Nat /\ FoundSize >= 1
           /\ FoundSize < RcvBufSize
           /\ \A i \in 1 .. FoundSize :
                /\ Found[i] = At(found.from + i - 1) /\ Found[i] \in Slots
                /\ units[Found[i]] \in Units
                /\ units[Found[i]].flag = 1
                /\ units[Found[i]].seq = s + i - 1
                /\ units[Found[i]].block = blocks[s + i - 1]
           /\ \A k : k \in ToSet(Found) <=> \E i \in 1 .. FoundSize : k = At(found.from + i - 1)
<1> DEFINE F == FoundSize
<1>1. /\ F \in Nat /\ F >= 1 /\ F < RcvBufSize /\ found.from \in Slots
      /\ RcvBufSize \in Nat /\ RcvBufSize >= 2
    BY SizeOfFound, MessagesAssumption DEF MInv, FoundInv
<1>2. /\ Found = [i \in 1 .. F |-> At(found.from + i - 1)]
      /\ DOMAIN Found = 1 .. F
    BY DEF Found, FoundSize
<1>3. \A k : k \in ToSet(Found) <=> \E i \in 1 .. F : k = At(found.from + i - 1)
    BY <1>2 DEF ToSet
<1> HIDE DEF F
<1>4. ASSUME NEW i \in 1 .. F
      PROVE  /\ Found[i] = At(found.from + i - 1) /\ Found[i] \in Slots
             /\ units[Found[i]] \in Units
             /\ units[Found[i]].flag = 1
             /\ units[Found[i]].seq = s + i - 1
             /\ units[Found[i]].block = blocks[s + i - 1]
    <2>1. Found[i] = At(found.from + i - 1)
        BY <1>2
    <2>2. Found[i] \in Slots
        <3>1. PICK x \in Int : x = found.from + i - 1 /\ - RcvBufSize =< x /\ x < 3 * RcvBufSize
            BY <1>1 DEF Slots
        <3>2. At(x) \in Slots
            BY <3>1, Wrap
        <3>3. QED
            BY <1>1, <2>1, <3>1, <3>2 DEF Slots
    <2>3. units[Found[i]].flag = 1 /\ units[Found[i]].seq = s + i - 1
        BY <2>1 DEF Whole, F
    <2>4. Holds(units[Found[i]])
        BY <2>2, <2>3 DEF MInv, HeldInv, Empty
    <2>5. units[Found[i]].block = blocks[s + i - 1]
        BY <2>3, <2>4 DEF Holds
    <2>6. QED
        BY <2>1, <2>2, <2>3, <2>5, UnitsTyped DEF MInv
<1>5. QED
    BY <1>1, <1>2, <1>3, <1>4 DEF F

\* What readMsg copies.
Taken == [i \in DOMAIN Found |-> units[Found[i]]]

\* ... consecutive numbers of one message, none of which was read before.
LEMMA TakenIs ==
    ASSUME MInv, found # Nothing, NEW s \in Nat, s >= StartNo, Whole(s, FoundSize), FoundSize # 0
    PROVE  /\ Taken \in Seq(Units) /\ Taken # << >> /\ Len(Taken) = FoundSize
           /\ DOMAIN Taken = 1 .. FoundSize
           /\ Taken[1].block.order = blocks[s].order
           /\ Taken[1].seq = s
           /\ \A k \in 1 .. FoundSize :
                /\ Taken[k].seq = s + k - 1
                /\ Taken[k].seq \in Nat
                /\ ~ WasRead(Taken[k].seq)
                /\ Taken[k].seq = Taken[1].seq + k - 1
                /\ Taken[k].block.msg = Taken[1].block.msg
                /\ Taken[k].block.first <=> k = 1
                /\ Taken[k].block.last <=> k = FoundSize
<1> DEFINE F == FoundSize
<1>1. /\ DOMAIN Found = 1 .. F /\ F \in Nat /\ F >= 1
      /\ \A i \in 1 .. F :
                /\ Found[i] \in Slots
                /\ units[Found[i]] \in Units
                /\ units[Found[i]].flag = 1
                /\ units[Found[i]].seq = s + i - 1
                /\ units[Found[i]].block = blocks[s + i - 1]
    BY FoundIs
<1> HIDE DEF F
<1>2. Taken = [i \in 1 .. F |-> units[Found[i]]]
    BY <1>1 DEF Taken
<1>3. /\ Taken \in Seq(Units) /\ Taken # << >> /\ Len(Taken) = F /\ DOMAIN Taken = 1 .. F
    <2>1. Taken \in Seq(Units) /\ Len(Taken) = F /\ DOMAIN Taken = 1 .. F
        BY <1>1, <1>2
    <2>2. QED
        BY <1>1, <2>1
<1>4. \A i \in 1 .. F : /\ Taken[i].seq = s + i - 1
                        /\ Taken[i].block = blocks[s + i - 1]
                        /\ Taken[i] = units[Found[i]]
    BY <1>1, <1>2
<1>5. 1 \in 1 .. F /\ s + 1 - 1 = s
    BY <1>1
<1>6. Taken[1].seq = s /\ Taken[1].block = blocks[s]
    BY <1>4, <1>5
<1>7. ASSUME NEW k \in 1 .. F
      PROVE  /\ Taken[k].seq \in Nat
             /\ ~ WasRead(Taken[k].seq)
             /\ Taken[k].seq = Taken[1].seq + k - 1
             /\ Taken[k].block.msg = Taken[1].block.msg
             /\ Taken[k].block.first <=> k = 1
             /\ Taken[k].block.last <=> k = F
    <2>1. Taken[k].seq = s + k - 1 /\ Taken[k].block = blocks[s + k - 1]
        BY <1>4
    <2>2. ~ WasRead(Taken[k].seq)
        BY <1>1, <1>4, NotRead DEF MInv
    <2>3. /\ blocks[s + k - 1].first <=> k = 1
          /\ blocks[s + k - 1].last <=> k = F
          /\ blocks[s + k - 1].msg = blocks[s].msg
        BY DEF Whole, Beginning, Ending, F
    <2>4. Taken[k].seq \in Nat
        BY <1>1, <2>1
    <2>5. QED
        BY <1>6, <2>1, <2>2, <2>3, <2>4
<1>8. QED
    BY <1>1, <1>3, <1>4, <1>6, <1>7 DEF F

\* The history is as it was.
LEMMA HistoryStays ==
    ASSUME MInv, UNCHANGED <<received, arrived>>, StartNo' \in Int, StartNo' >= StartNo,
           \A n \in Int : WasRead(n) => WasRead(n)'
    PROVE  HistoryInv'
<1> DEFINE m == Len(received)
<1>1. HistoryInv /\ RingInv /\ StartNo \in Nat
    BY RingNumbers DEF MInv
<1>2. received \in Seq(Seq(Units)) /\ m \in Nat /\ DOMAIN received = 1 .. m
    BY <1>1 DEF HistoryInv
<1>3. \A i \in 1 .. m : Returned(received[i])
    BY <1>1, <1>2 DEF HistoryInv
<1>4. ASSUME NEW q, q \in Seq(Units), Returned(q)
      PROVE  Returned(q)'
    <2>1. 1 \in DOMAIN q
        BY <1>4 DEF Returned
    <2>2. q[1].seq \in Nat
        BY <1>4, <2>1 DEF Returned
    <2>3. q[1].block.order => q[1].seq < StartNo'
        BY <1>1, <1>4, <2>2 DEF Returned
    <2>4. \A k \in DOMAIN q : q[k].seq \in Int /\ WasRead(q[k].seq)'
        BY <1>4 DEF Returned
    <2>5. QED
        BY <1>4, <2>3, <2>4 DEF Returned
<1>5. ASSUME NEW i \in 1 .. m
      PROVE  Returned(received[i])'
    <2>1. PICK q : q = received[i] /\ q \in Seq(Units) /\ Returned(q)
        BY <1>2, <1>3
    <2>2. Returned(q)'
        BY <1>4, <2>1
    <2>3. received'[i] = q
        BY <2>1
    <2>4. QED
        BY <2>2, <2>3
<1>6. ReadInOrder'
    <2>1. \A q : NumbersOf(q)' = NumbersOf(q)
        BY DEF NumbersOf
    <2>2. QED
        BY <1>1, <2>1 DEF HistoryInv, ReadInOrder, ReadOnce
<1>7. QED
    BY <1>1, <1>2, <1>5, <1>6 DEF HistoryInv

\* A message is copied and its units are marked or freed.
LEMMA RecvTakeKeeps ==
    ASSUME MInv, RecvTake
    PROVE  MInv'
<1>1. RingInv /\ SenderInv /\ NetInv /\ HeldInv /\ BlocksInv /\ FoundInv
    BY DEF MInv
<1>2. /\ found # Nothing /\ found' = Nothing
      /\ received' = IF Found = << >> THEN received ELSE Append(received, Taken)
      /\ IF found.passack
         THEN /\ units' = MarkRead
              /\ UNCHANGED startPos
         ELSE /\ units' = [k \in Slots |-> IF k \in ToSet(Found) THEN Empty ELSE units[k]]
              /\ startPos' = At(found.to + 1)
      /\ UNCHANGED <<blocks, firstBlock, currBlock, expired, sndCurrSeqNo, sndLastAck, sndLossList>>
      /\ UNCHANGED <<net, lastAckPos, maxPos, rcvCurrSeqNo, rcvLastAck, rcvLossList, arrived>>
    BY DEF RecvTake, Taken, sndVars, seqVars
<1>3. BlocksInv' /\ SenderInv' /\ NetInv'
    BY <1>1, <1>2 DEF BlocksInv, SenderInv, Beginning, Ending, NetInv
<1>4. FoundInv'
    BY <1>2 DEF FoundInv
<1>5. /\ RcvBufSize \in Nat /\ RcvBufSize >= 2
      /\ startPos \in Nat /\ startPos < RcvBufSize /\ startPos \in Slots
      /\ RcvDataSize \in Nat /\ RcvDataSize < RcvBufSize
      /\ StartNo = rcvLastAck - RcvDataSize /\ StartNo \in Nat /\ rcvLastAck \in Nat
    BY <1>1, RingNumbers DEF RingInv
<1>6. /\ found.from \in Slots /\ found.to \in Slots /\ found.passack \in BOOLEAN
      /\ FoundSize = 0 => found.passack
    BY <1>1, <1>2 DEF FoundInv
<1>7. /\ FoundSize \in Nat /\ FoundSize < RcvBufSize
      /\ FoundSize = LET n == found.to + 1 - found.from
                     IN IF n < 0 THEN n + RcvBufSize ELSE IF n < RcvBufSize THEN n ELSE 0
    BY <1>6, SizeOfFound
<1>8. CASE FoundSize = 0
    <2>1. Found = << >> /\ ToSet(Found) = {}
        <3>1. DOMAIN Found = 1 .. 0
            BY <1>8 DEF Found, FoundSize
        <3>2. Found = [i \in 1 .. 0 |-> At(found.from + i - 1)]
            BY <1>8 DEF Found, FoundSize
        <3>3. Found = << >>
            BY <3>2
        <3>4. QED
            BY <3>1, <3>3 DEF ToSet
    <2>2. units' = units /\ UNCHANGED <<startPos, received>>
        <3>1. units = [k \in Slots |-> units[k]]
            BY <1>1 DEF HeldInv
        <3>2. MarkRead = [k \in Slots |-> units[k]]
            BY <2>1 DEF MarkRead
        <3>3. QED
            BY <1>2, <1>6, <1>8, <2>1, <3>1, <3>2
    <2>3. /\ StartNo' = StartNo /\ RcvDataSize' = RcvDataSize
          /\ \A k : Offset(k)' = Offset(k)
          /\ \A n : WasRead(n)' = WasRead(n)
        BY <1>2, <2>2 DEF StartNo, RcvDataSize, Offset, WasRead
    <2>4. RingInv' /\ HeldInv'
        BY <1>1, <1>2, <2>2, <2>3 DEF RingInv, HeldInv, Holds
    <2>5. HistoryInv'
        BY <1>2, <1>5, <2>2, <2>3, HistoryStays
    <2>6. QED
        BY <1>3, <1>4, <2>4, <2>5 DEF MInv
<1>9. CASE FoundSize # 0
    <2>1. PICK s \in Nat :
              /\ s >= StartNo /\ Whole(s, FoundSize)
              /\ found.passack => ~ blocks[s].order
              /\ ~ found.passack => /\ found.from = startPos /\ s = StartNo
                                    /\ s + FoundSize =< rcvLastAck
        BY <1>1, <1>2, <1>9 DEF FoundInv
    <2>2. PICK r \in Seq(Units) :
              /\ r = Taken /\ r # << >> /\ Len(r) = FoundSize
              /\ DOMAIN r = 1 .. FoundSize
              /\ r[1].block.order = blocks[s].order
              /\ r[1].seq = s
              /\ \A k \in 1 .. FoundSize :
                   /\ r[k].seq = s + k - 1
                   /\ r[k].seq \in Nat
                   /\ ~ WasRead(r[k].seq)
                   /\ r[k].seq = r[1].seq + k - 1
                   /\ r[k].block.msg = r[1].block.msg
                   /\ r[k].block.first <=> k = 1
                   /\ r[k].block.last <=> k = FoundSize
        BY <1>2, <1>9, <2>1, TakenIs
    <2>3. /\ DOMAIN Found = 1 .. FoundSize /\ FoundSize >= 1
          /\ \A i \in 1 .. FoundSize :
                /\ Found[i] = At(found.from + i - 1) /\ Found[i] \in Slots
                /\ units[Found[i]].flag = 1
                /\ units[Found[i]].seq = s + i - 1
          /\ \A k : k \in ToSet(Found) <=> \E i \in 1 .. FoundSize : k = At(found.from + i - 1)
        BY <1>2, <1>9, <2>1, FoundIs
    <2>4. received' = Append(received, r)
        <3>1. 1 \in DOMAIN Found
            BY <1>7, <2>3
        <3>2. Found # << >>
            BY <3>1
        <3>3. QED
            BY <1>2, <2>2, <3>2
    <2>5. CASE found.passack
        <3>1. UNCHANGED startPos /\ units' = MarkRead
            BY <1>2, <2>5
        <3>2. /\ StartNo' = StartNo /\ RcvDataSize' = RcvDataSize
              /\ \A k : Offset(k)' = Offset(k)
            BY <1>2, <3>1 DEF StartNo, RcvDataSize, Offset
        <3>3. RingInv'
            BY <1>1, <1>2, <3>1, <3>2 DEF RingInv
        <3>4. \A k \in Slots : units'[k] = IF k \in ToSet(Found) THEN [units[k] EXCEPT !.flag = 2]
                                           ELSE units[k]
            BY <3>1 DEF MarkRead
        <3>5. \A k \in Slots : units[k] # Empty => Holds(units[k]) /\ units[k].seq = StartNo + Offset(k)
            BY <1>1 DEF HeldInv
        <3>6. ASSUME NEW k \in Slots, k \in ToSet(Found)
              PROVE  /\ units[k].flag = 1 /\ Holds(units[k]) /\ units'[k] = [units[k] EXCEPT !.flag = 2]
                     /\ units'[k] = [flag |-> 2, seq |-> units[k].seq, block |-> units[k].block]
            <4>1. units[k].flag = 1
                BY <2>3, <3>6
            <4>2. Holds(units[k])
                BY <3>5, <4>1 DEF Empty
            <4>3. units[k] = [flag |-> units[k].flag, seq |-> units[k].seq, block |-> units[k].block]
                BY <4>2 DEF Holds
            <4>4. [units[k] EXCEPT !.flag = 2] = [flag |-> 2, seq |-> units[k].seq, block |-> units[k].block]
                BY <4>3
            <4>5. QED
                BY <3>4, <3>6, <4>1, <4>2, <4>4
        <3>7. HeldInv'
            <4>1. units' = [k \in Slots |-> units'[k]]
                BY <3>1 DEF MarkRead
            <4>2. ASSUME NEW k \in Slots
                  PROVE  units'[k] = Empty \/ (Holds(units[k])' /\ units'[k].seq = StartNo' + Offset(k)')
                <5>1. CASE k \in ToSet(Found)
                    <6>1. Holds(units[k]) /\ units[k].seq = StartNo + Offset(k)
                        <7>1. units[k].flag = 1
                            BY <3>6, <5>1
                        <7>2. units[k] # Empty
                            BY <7>1 DEF Empty
                        <7>3. QED
                            BY <3>5, <7>2
                    <6>2. units'[k] = [flag |-> 2, seq |-> units[k].seq, block |-> units[k].block]
                        BY <3>6, <5>1
                    <6>3. Holds(units[k])'
                        BY <1>2, <6>1, <6>2 DEF Holds
                    <6>4. units'[k].seq = units[k].seq
                        BY <6>2
                    <6>5. QED
                        BY <3>2, <6>1, <6>3, <6>4
                <5>2. CASE k \notin ToSet(Found)
                    <6>1. units'[k] = units[k]
                        BY <3>4, <5>2
                    <6>2. Holds(units[k]) => Holds(units[k])'
                        BY <1>2, <6>1 DEF Holds
                    <6>3. QED
                        BY <3>2, <3>5, <6>1, <6>2
                <5>3. QED
                    BY <5>1, <5>2
            <4>3. QED
                BY <4>1, <4>2 DEF HeldInv
        <3>8. \A n \in Int : WasRead(n) => WasRead(n)'
            <4>1. ASSUME NEW k \in Slots, units[k].flag = 2 PROVE units'[k] = units[k]
                <5>1. ASSUME k \in ToSet(Found) PROVE FALSE
                    <6>1. units[k].flag = 1
                        BY <2>3, <5>1
                    <6>2. QED
                        BY <4>1, <6>1
                <5>2. QED
                    BY <3>4, <5>1
            <4>2. QED
                BY <3>2, <4>1 DEF WasRead
        <3>9. Returned(r)'
            <4>1. ASSUME NEW k \in 1 .. FoundSize PROVE WasRead(r[k].seq)'
                <5>1. Found[k] \in Slots /\ Found[k] \in ToSet(Found) /\ units[Found[k]].seq = r[k].seq
                    BY <2>2, <2>3
                <5>2. units'[Found[k]].flag = 2 /\ units'[Found[k]].seq = r[k].seq
                    BY <3>6, <5>1
                <5>3. QED
                    BY <5>1, <5>2 DEF WasRead
            <4>2. ~ r[1].block.order
                BY <2>1, <2>2, <2>5
            <4>3. QED
                BY <2>2, <4>1, <4>2 DEF Returned
        <3>10. HistoryInv'
            <4>1. StartNo' \in Int /\ StartNo' >= StartNo
                BY <1>5, <3>2
            <4>2. QED
                BY <1>2, <2>1, <2>2, <2>4, <3>8, <3>9, <4>1, HistoryGrows
        <3>11. QED
            BY <1>3, <1>4, <3>3, <3>7, <3>10 DEF MInv
    <2>6. CASE ~ found.passack
        <3>1. /\ found.from = startPos /\ s = StartNo /\ FoundSize =< RcvDataSize
              /\ startPos' = At(found.to + 1)
              /\ units' = [k \in Slots |-> IF k \in ToSet(Found) THEN Empty ELSE units[k]]
            BY <1>2, <1>5, <1>7, <2>1, <2>6
        <3>2. At(found.to + 1) = At(startPos + FoundSize)
            <4>1. PICK t \in Nat : t = found.to /\ t < RcvBufSize
                BY <1>5, <1>6 DEF Slots
            <4>2. PICK F \in Nat : F = FoundSize /\ F < RcvBufSize
                BY <1>7
            <4>3. F = t + 1 - startPos \/ F = t + 1 - startPos + RcvBufSize
                <5>1. /\ F # 0
                      /\ F = LET n == t + 1 - startPos
                             IN IF n < 0 THEN n + RcvBufSize ELSE IF n < RcvBufSize THEN n ELSE 0
                    BY <1>7, <1>9, <3>1, <4>1, <4>2
                <5>2. QED
                    BY <5>1
            <4>4. PICK x \in Int : x = t + 1 /\ - RcvBufSize =< x /\ x < 3 * RcvBufSize
                                  /\ 0 =< x /\ x =< RcvBufSize
                BY <1>5, <4>1
            <4>5. PICK y \in Int : y = startPos + F /\ - RcvBufSize =< y /\ y < 3 * RcvBufSize
                                  /\ 0 =< y /\ y < 2 * RcvBufSize
                BY <1>5, <4>2
            <4>6. x = y \/ x = y - RcvBufSize
                BY <1>5, <4>3, <4>4, <4>5
            <4>7. At(x) = At(y)
                BY <1>5, <4>4, <4>5, <4>6, Wrap
            <4>8. QED
                BY <1>5, <4>1, <4>2, <4>4, <4>5, <4>7
        <3>3. ASSUME NEW k \in Slots
              PROVE  k \in ToSet(Found) <=> Offset(k) < FoundSize
            <4>1. FoundSize \in 0 .. RcvBufSize - 1
                BY <1>5, <1>7
            <4>2. (\E i \in 0 .. FoundSize - 1 : k = At(startPos + i)) <=> Offset(k) < FoundSize
                BY <1>5, <4>1, FrontSlots
            <4>3. (\E i \in 1 .. FoundSize : k = At(startPos + i - 1))
                     <=> (\E i \in 0 .. FoundSize - 1 : k = At(startPos + i))
                <5>1. ASSUME NEW i \in 1 .. FoundSize, k = At(startPos + i - 1)
                      PROVE  \E j \in 0 .. FoundSize - 1 : k = At(startPos + j)
                    <6>1. i - 1 \in 0 .. FoundSize - 1 /\ startPos + i - 1 = startPos + (i - 1)
                        BY <1>5, <1>7
                    <6>2. QED
                        BY <5>1, <6>1
                <5>2. ASSUME NEW j \in 0 .. FoundSize - 1, k = At(startPos + j)
                      PROVE  \E i \in 1 .. FoundSize : k = At(startPos + i - 1)
                    <6>1. j + 1 \in 1 .. FoundSize /\ startPos + (j + 1) - 1 = startPos + j
                        BY <1>5, <1>7
                    <6>2. QED
                        BY <5>2, <6>1
                <5>3. QED
                    BY <5>1, <5>2
            <4>4. QED
                BY <2>3, <3>1, <4>2, <4>3
        <3>4. FrontGoes(FoundSize)
            BY <1>2, <3>1, <3>2, <3>3 DEF FrontGoes
        <3>5. PICK d \in Nat : d = FoundSize /\ d =< RcvDataSize /\ d >= 1 /\ FrontGoes(d)
            <4>1. FoundSize \in Nat /\ FoundSize =< RcvDataSize /\ FoundSize >= 1
                BY <1>7, <2>3, <3>1
            <4>2. QED
                BY <3>4, <4>1
        <3>6. /\ RingInv' /\ HeldInv' /\ StartNo' = StartNo + d
              /\ \A n \in Int : WasRead(n) => WasRead(n)'
            BY <3>5, FrontMoves
        <3>7. Returned(r)'
            <4>1. ASSUME NEW k \in 1 .. FoundSize PROVE WasRead(r[k].seq)'
                <5>1. r[k].seq = s + k - 1
                    BY <2>2
                <5>2. r[k].seq < StartNo'
                    BY <1>5, <1>7, <3>1, <3>5, <3>6, <5>1
                <5>3. QED
                    BY <5>2 DEF WasRead
            <4>2. r[1].seq < StartNo'
                BY <1>5, <2>2, <3>1, <3>5, <3>6
            <4>3. QED
                BY <2>2, <4>1, <4>2 DEF Returned
        <3>8. HistoryInv'
            <4>1. StartNo' \in Int /\ StartNo' >= StartNo
                BY <1>5, <3>5, <3>6
            <4>2. QED
                BY <1>2, <2>1, <2>2, <2>4, <3>6, <3>7, <4>1, HistoryGrows
        <3>9. QED
            BY <1>3, <1>4, <3>6, <3>8 DEF MInv
    <2>7. QED
        BY <1>6, <2>5, <2>6
<1>10. QED
    BY <1>8, <1>9

-----------------------------------------------------------------------------
(* recvmsg looks for a message.                                            *)

\* The number of the packet at a position, counted on from m_iStartPos without a wrap.
No(k) == StartNo + (k - startPos)

Starts(k) == units[At(k)].block.first
Stops(k) == units[At(k)].block.last

\* The slot at a position of the turn that begins at m_iStartPos.
LEMMA Position ==
    ASSUME RingInv, NEW k \in startPos .. startPos + RcvBufSize - 1
    PROVE  /\ At(k) \in Slots /\ At(k) = IF k < RcvBufSize THEN k ELSE k - RcvBufSize
           /\ Offset(At(k)) = k - startPos
<1>1. RcvBufSize \in Nat /\ RcvBufSize >= 2 /\ startPos \in Nat /\ startPos < RcvBufSize /\ startPos \in Slots
    BY RingNumbers DEF RingInv
<1>2. k \in Int /\ - RcvBufSize =< k /\ k < 3 * RcvBufSize /\ 0 =< k /\ k < 2 * RcvBufSize
    BY <1>1
<1>3. At(k) \in Slots /\ At(k) = IF k < RcvBufSize THEN k ELSE k - RcvBufSize
    BY <1>1, <1>2, Wrap
<1>4. PICK d \in 0 .. RcvBufSize - 1 : d = k - startPos
    BY <1>1
<1>5. startPos + d = k
    BY <1>1, <1>4
<1>6. Offset(At(startPos + d)) = d
    BY <1>1, SlotAt
<1>7. QED
    BY <1>3, <1>4, <1>5, <1>6

\* A unit that is there and was not read holds the block of its number.
LEMMA GoodIs ==
    ASSUME MInv, NEW k \in startPos .. startPos + RcvBufSize - 1, Good(k)
    PROVE  /\ units[At(k)].flag = 1 /\ units[At(k)].seq = No(k)
           /\ No(k) \in 1 .. rcvCurrSeqNo /\ No(k) \in 1 .. Len(blocks)
           /\ units[At(k)].block = blocks[No(k)]
           /\ k - startPos =< RcvBufSize - 2
<1>1. RingInv /\ HeldInv /\ SenderInv /\ BlocksInv
    BY DEF MInv
<1>2. At(k) \in Slots /\ Offset(At(k)) = k - startPos
    BY <1>1, Position
<1>3. units[At(k)].flag = 1 /\ units[At(k)] # Empty
    BY DEF Good, Empty
<1>4. Holds(units[At(k)]) /\ units[At(k)].seq = No(k)
    BY <1>1, <1>2, <1>3 DEF HeldInv, No
<1>5. No(k) \in 1 .. rcvCurrSeqNo /\ units[At(k)].block = blocks[No(k)]
    BY <1>4 DEF Holds
<1>6. rcvCurrSeqNo =< Len(blocks) /\ rcvCurrSeqNo \in Nat /\ Len(blocks) \in Nat
    BY <1>1 DEF RingInv, SenderInv, BlocksInv
<1>7. No(k) =< rcvCurrSeqNo /\ rcvCurrSeqNo - StartNo =< RcvBufSize - 2 /\ StartNo \in Nat
      /\ RcvBufSize \in Nat /\ startPos \in Nat
    BY <1>1, <1>5, <1>6, RingNumbers DEF RingInv
<1>8. k - startPos =< RcvBufSize - 2
    BY <1>6, <1>7 DEF No
<1>9. No(k) \in 1 .. Len(blocks)
    BY <1>5, <1>6
<1>10. QED
    BY <1>3, <1>4, <1>5, <1>8, <1>9

\* A message may begin at j for a unit at k.
Opens(j, k) == Good(j) /\ Starts(j) /\ \A i \in j .. k : Good(i)

\* BeginOf finds the last beginning there is for k, if there is one.
LEMMA BeginOfIs ==
    ASSUME NEW start \in Nat, NEW k \in Nat
    PROVE  /\ BeginOf(start, k) # -1 =>
                  /\ BeginOf(start, k) \in start .. k /\ Opens(BeginOf(start, k), k)
                  /\ \A j \in start .. k : Opens(j, k) => j =< BeginOf(start, k)
           /\ \A j \in start .. k : Opens(j, k) => BeginOf(start, k) # -1
<1> DEFINE H == {j \in start .. k : Good(j) /\ units[At(j)].block.first /\ \A i \in j .. k : Good(i)}
<1>1. /\ H \subseteq 0 .. k /\ H \subseteq start .. k
      /\ \A j \in H : Opens(j, k)
      /\ \A j \in start .. k : Opens(j, k) => j \in H
    BY DEF Opens, Starts
<1>2. BeginOf(start, k) = IF H = {} THEN -1 ELSE CHOOSE h \in H : \A j \in H : j =< h
    BY DEF BeginOf
<1> HIDE DEF H
<1>3. CASE H = {}
    BY <1>1, <1>2, <1>3
<1>4. CASE H # {}
    <2>1. \E h \in H : \A j \in H : j =< h
        BY <1>1, <1>4, Greatest
    <2>2. BeginOf(start, k) \in H /\ \A j \in H : j =< BeginOf(start, k)
        BY <1>2, <1>4, <2>1
    <2>3. BeginOf(start, k) # -1
        BY <1>1, <2>2
    <2>4. QED
        BY <1>1, <2>2, <2>3
<1>5. QED
    BY <1>3, <1>4

\* From where the message of a last packet begins up to there is one message.
LEMMA OneMessage ==
    ASSUME MInv, NEW start \in Nat, start >= startPos,
           NEW e \in start .. startPos + RcvBufSize - 1, Good(e), Stops(e),
           BeginOf(start, e) # -1
    PROVE  \E h \in start .. e :
             /\ h = BeginOf(start, e) /\ Opens(h, e)
             /\ \A q \in h .. e :
                  /\ Good(q)
                  /\ Beginning(No(q)) <=> q = h
                  /\ Ending(No(q)) <=> q = e
                  /\ blocks[No(q)].msg = blocks[No(h)].msg
                  /\ blocks[No(q)].order = blocks[No(h)].order
<1>1. /\ RcvBufSize \in Nat /\ startPos \in Nat /\ StartNo \in Nat
      /\ BlocksInv /\ RingInv
    BY RingNumbers DEF MInv
<1>2. e \in Nat /\ e >= start /\ e \in startPos .. startPos + RcvBufSize - 1
    BY <1>1
<1>3. PICK h \in start .. e :
          /\ h = BeginOf(start, e) /\ Opens(h, e)
          /\ \A j \in start .. e : Opens(j, e) => j =< h
    BY <1>2, BeginOfIs
<1>4. ASSUME NEW q \in h .. e
      PROVE  /\ Good(q) /\ q \in startPos .. startPos + RcvBufSize - 1 /\ q \in Int
             /\ No(q) \in 1 .. Len(blocks) /\ units[At(q)].block = blocks[No(q)]
    <2>1. Good(q)
        BY <1>3 DEF Opens
    <2>2. q \in startPos .. startPos + RcvBufSize - 1 /\ q \in Int
        BY <1>1, <1>2
    <2>3. QED
        BY <2>1, <2>2, GoodIs
<1>5. Beginning(No(h))
    <2>1. h \in h .. e
        BY <1>2
    <2>2. QED
        BY <1>3, <1>4, <2>1 DEF Opens, Starts, Beginning
<1>6. ASSUME NEW q \in h .. e, q # h
      PROVE  ~ Beginning(No(q))
    <2>1. q \in start .. e /\ q > h /\ q \in Int /\ h \in Int
        BY <1>2, <1>6
    <2>2. \A i \in q .. e : Good(i)
        BY <1>4, <2>1
    <2>3. ~ Opens(q, e)
        BY <1>3, <2>1
    <2>4. ~ Starts(q)
        BY <1>4, <2>2, <2>3 DEF Opens
    <2>5. QED
        BY <1>4, <2>4 DEF Starts, Beginning
<1>7. Ending(No(e))
    <2>1. e \in h .. e
        BY <1>2
    <2>2. QED
        BY <1>4, <2>1 DEF Stops, Ending
<1>8. ASSUME NEW q \in h .. e, q # e
      PROVE  ~ Ending(No(q))
    <2>1. q + 1 \in h .. e /\ q + 1 # h /\ q \in Int
        BY <1>2, <1>8
    <2>2. ~ Beginning(No(q + 1))
        BY <1>6, <2>1
    <2>3. No(q + 1) = No(q) + 1
        BY <1>1, <2>1 DEF No
    <2>4. No(q) \in 1 .. Len(blocks) - 1
        <3>1. No(q) \in 1 .. Len(blocks) /\ No(q + 1) \in 1 .. Len(blocks)
            BY <1>4, <2>1
        <3>2. Len(blocks) \in Nat
            BY <1>1 DEF BlocksInv
        <3>3. QED
            BY <2>3, <3>1, <3>2
    <2>5. QED
        BY <1>1, <2>2, <2>3, <2>4 DEF BlocksInv
<1>9. ASSUME NEW q \in h .. e
      PROVE  blocks[No(q)].msg = blocks[No(h)].msg /\ blocks[No(q)].order = blocks[No(h)].order
    <2>1. h \in h .. e /\ h \in Int /\ q \in Int /\ h =< q
        BY <1>2
    <2>2. No(h) \in 1 .. Len(blocks) /\ No(q) \in 1 .. Len(blocks)
        BY <1>4, <2>1
    <2>3. No(h) =< No(q)
        BY <1>1, <2>1 DEF No
    <2>4. ASSUME NEW x \in No(h) + 1 .. No(q)
          PROVE  ~ Beginning(x)
        <3>1. PICK y \in Int : y = x - StartNo + startPos
            BY <1>1, <2>1 DEF No
        <3>2. x = No(y) /\ y \in h .. e /\ y # h
            BY <1>1, <1>2, <2>1, <3>1 DEF No
        <3>3. QED
            BY <1>6, <3>2
    <2>5. QED
        BY <1>1, <2>2, <2>3, <2>4 DEF BlocksInv
<1>10. QED
    BY <1>3, <1>4, <1>5, <1>6, <1>7, <1>8, <1>9

\* scanMsg's first loop ends at the first message that begins, or where nothing is
\* acknowledged any more.
LEMMA NewStartIs ==
    ASSUME RingInv
    PROVE  /\ NewStart \in startPos .. startPos + RcvDataSize
           /\ NewStart = startPos + RcvDataSize \/ BeginsMessage(NewStart)
<1> DEFINE K == {k \in startPos .. startPos + RcvDataSize :
                     k = startPos + RcvDataSize \/ BeginsMessage(k)}
<1>1. startPos \in Nat /\ RcvDataSize \in Nat
    BY RingNumbers
<1>2. K \subseteq Nat /\ startPos + RcvDataSize \in K
    BY <1>1
<1>3. \A k : k \in K <=> /\ k \in startPos .. startPos + RcvDataSize
                         /\ k = startPos + RcvDataSize \/ BeginsMessage(k)
    OBVIOUS
<1> HIDE DEF K
<1>4. PICK n \in K : \A m \in K : n =< m
    BY <1>2, Least
<1>5. /\ n \in startPos .. startPos + RcvDataSize
      /\ n = startPos + RcvDataSize \/ BeginsMessage(n)
    BY <1>3, <1>4
<1>6. \A j \in startPos .. n - 1 : ~ BeginsMessage(j)
    <2> SUFFICES ASSUME NEW j \in startPos .. n - 1, BeginsMessage(j) PROVE FALSE
        OBVIOUS
    <2>1. j \in startPos .. startPos + RcvDataSize /\ ~(n =< j)
        BY <1>1, <1>5
    <2>2. j \in K
        BY <1>3, <2>1
    <2>3. QED
        BY <1>4, <2>1, <2>2
<1>7. \E k \in startPos .. startPos + RcvDataSize :
          /\ k = startPos + RcvDataSize \/ BeginsMessage(k)
          /\ \A j \in startPos .. k - 1 : ~ BeginsMessage(j)
    BY <1>5, <1>6
<1>8. QED
    BY <1>7 DEF NewStart

\* The ends scanMsg may find.
MayEnd(start, k) ==
    Good(k) /\ Stops(k) /\ BeginOf(start, k) # -1 /\ MayRead(k, k >= startPos + RcvDataSize)

\* What scanMsg finds: a message, or what does not fit.
LEMMA ScanIs ==
    ASSUME RingInv, NEW start \in startPos .. startPos + RcvDataSize, Scan(start) # Nothing
    PROVE  \/ \E e \in start .. startPos + RcvDataSize + maxPos :
                /\ MayEnd(start, e)
                /\ \A j \in start .. startPos + RcvDataSize + maxPos : MayEnd(start, j) => e =< j
                /\ Scan(start) = [from |-> At(BeginOf(start, e)), to |-> At(e),
                                  passack |-> e >= startPos + RcvDataSize]
           \/ \E h \in Nat :
                /\ At(startPos + RcvDataSize + maxPos + 2) = At(h)
                /\ h =< startPos + RcvDataSize + maxPos
                /\ Scan(start) = [from |-> At(h), to |-> At(startPos + RcvDataSize + maxPos + 1),
                                  passack |-> TRUE]
<1> DEFINE acked == startPos + RcvDataSize
           n == maxPos + (acked - start)
           E == {k \in start .. start + n :
                    Good(k) /\ units[At(k)].block.last /\ BeginOf(start, k) # -1 /\ MayRead(k, k >= acked)}
           q == start + n + 1
<1>1. startPos \in Nat /\ RcvDataSize \in Nat /\ maxPos \in Nat /\ start \in Nat
    BY RingNumbers
<1>2. start + n = startPos + RcvDataSize + maxPos /\ q = startPos + RcvDataSize + maxPos + 1
      /\ q + 1 = startPos + RcvDataSize + maxPos + 2 /\ start + n \in Nat /\ start =< start + n
    BY <1>1
<1>3. Scan(start) = IF E # {}
                    THEN LET e == CHOOSE k \in E : \A j \in E : k =< j
                         IN [from |-> At(BeginOf(start, e)), to |-> At(e), passack |-> e >= acked]
                    ELSE LET h == BeginOf(start, start + n)
                         IN IF h # -1 /\ At(q + 1) = At(h)
                            THEN [from |-> At(h), to |-> At(q), passack |-> TRUE]
                            ELSE Nothing
    BY DEF Scan
<1>4. \A k : k \in E <=> k \in start .. start + n /\ MayEnd(start, k)
    BY DEF MayEnd, Stops
<1> HIDE DEF E, n, q
<1>5. CASE E # {}
    <2>1. E \subseteq Nat
        BY <1>1, <1>2, <1>4
    <2>2. PICK e \in E : e = CHOOSE k \in E : \A j \in E : k =< j
        <3>1. \E k \in E : \A j \in E : k =< j
            BY <1>5, <2>1, Least
        <3>2. QED
            BY <3>1
    <2>3. \A j \in E : e =< j
        <3>1. \E k \in E : \A j \in E : k =< j
            BY <1>5, <2>1, Least
        <3>2. QED
            BY <2>2, <3>1
    <2>4. Scan(start) = [from |-> At(BeginOf(start, e)), to |-> At(e), passack |-> e >= acked]
        BY <1>3, <1>5, <2>2
    <2>5. QED
        BY <1>2, <1>4, <2>3, <2>4
<1>6. CASE E = {}
    <2>1. PICK h : h = BeginOf(start, start + n)
        OBVIOUS
    <2>2. /\ h # -1 /\ At(q + 1) = At(h)
          /\ Scan(start) = [from |-> At(h), to |-> At(q), passack |-> TRUE]
        BY <1>3, <1>6, <2>1
    <2>3. h \in start .. start + n
        BY <1>1, <1>2, <2>1, <2>2, BeginOfIs
    <2>4. h \in Nat /\ h =< start + n
        BY <1>1, <1>2, <2>3
    <2>5. QED
        BY <1>2, <2>2, <2>4
<1>7. QED
    BY <1>5, <1>6

\* A message that was found among what is acknowledged is at the new start.
LEMMA FirstIsFound ==
    ASSUME MInv, NEW start \in startPos .. startPos + RcvDataSize,
           start = startPos + RcvDataSize \/ BeginsMessage(start),
           NEW e \in start .. startPos + RcvDataSize + maxPos, e < startPos + RcvDataSize,
           \A j \in start .. startPos + RcvDataSize + maxPos : MayEnd(start, j) => e =< j,
           NEW h \in start .. e, h = BeginOf(start, e), Opens(h, e)
    PROVE  h = start
<1> DEFINE acked == startPos + RcvDataSize
<1>1. /\ RcvBufSize \in Nat /\ startPos \in Nat /\ StartNo \in Nat /\ RcvDataSize \in Nat
      /\ maxPos \in Nat /\ RcvDataSize + maxPos =< RcvBufSize - 1 /\ start \in Nat
      /\ e \in Nat /\ h \in Nat
      /\ RingInv /\ BlocksInv
    BY RingNumbers DEF MInv
<1>2. SUFFICES ASSUME h # start PROVE FALSE
    OBVIOUS
<1>3. h > start /\ start < acked
    BY <1>1, <1>2
<1>4. PICK f \in start .. acked - 1 :
          /\ \A j \in start .. f : Good(j)
          /\ Stops(f) \/ f = acked - 1
    BY <1>1, <1>3 DEF BeginsMessage, Stops
<1>5. Good(start) /\ Starts(start)
    BY <1>1, <1>3 DEF BeginsMessage, Starts
<1>6. ASSUME NEW x \in start .. e - 1, \A j \in start .. x : Good(j), Stops(x)
      PROVE  FALSE
    <2>1. x \in Nat /\ x < acked /\ x >= start /\ x < e /\ x \in start .. acked + maxPos
        BY <1>1
    <2>2. Opens(start, x)
        BY <1>5, <1>6 DEF Opens
    <2>3. start \in start .. x
        BY <1>1, <2>1
    <2>4. BeginOf(start, x) # -1
        BY <1>1, <2>1, <2>2, <2>3, BeginOfIs
    <2>5. Good(x)
        BY <1>6, <2>1, <1>1
    <2>6. MayRead(x, x >= acked)
        BY <1>1, <2>1 DEF MayRead
    <2>7. MayEnd(start, x)
        BY <1>6, <2>4, <2>5, <2>6 DEF MayEnd
    <2>8. e =< x
        BY <2>1, <2>7
    <2>9. QED
        BY <1>1, <2>1, <2>8
<1>7. CASE h - 1 =< f
    <2>1. h - 1 \in start .. e - 1 /\ h - 1 \in start .. f /\ f \in Nat
        BY <1>1, <1>3, <1>4, <1>7
    <2>2. \A j \in start .. h - 1 : Good(j)
        BY <1>1, <1>4, <2>1
    <2>3. Stops(h - 1)
        <3>1. h - 1 \in startPos .. startPos + RcvBufSize - 1 /\ h \in startPos .. startPos + RcvBufSize - 1
            BY <1>1, <1>3
        <3>2. Good(h - 1) /\ Good(h) /\ Starts(h)
            BY <1>1, <1>4, <2>1 DEF Opens
        <3>3. /\ No(h - 1) \in 1 .. Len(blocks) /\ units[At(h - 1)].block = blocks[No(h - 1)]
              /\ No(h) \in 1 .. Len(blocks) /\ units[At(h)].block = blocks[No(h)]
            BY <3>1, <3>2, GoodIs
        <3>4. No(h) = No(h - 1) + 1
            BY <1>1 DEF No
        <3>5. No(h - 1) \in 1 .. Len(blocks) - 1
            <4>1. Len(blocks) \in Nat
                BY <1>1 DEF BlocksInv
            <4>2. QED
                BY <3>3, <3>4, <4>1
        <3>6. Beginning(No(h))
            BY <3>2, <3>3 DEF Starts, Beginning
        <3>7. Ending(No(h - 1))
            BY <1>1, <3>4, <3>5, <3>6 DEF BlocksInv
        <3>8. QED
            BY <3>3, <3>7 DEF Stops, Ending
    <2>4. QED
        BY <1>6, <2>1, <2>2, <2>3
<1>8. CASE ~(h - 1 =< f)
    <2>1. f \in start .. e - 1 /\ f # acked - 1
        BY <1>1, <1>3, <1>4, <1>8
    <2>2. QED
        BY <1>4, <1>6, <2>1
<1>9. QED
    BY <1>7, <1>8

\* The size of what lies between two positions, and the slot of a position within.
LEMMA Between ==
    ASSUME RingInv, NEW h \in startPos .. startPos + RcvBufSize - 2,
           NEW e \in h .. startPos + RcvBufSize - 2
    PROVE  /\ At(At(e) + 1 - At(h)) = e - h + 1
           /\ \A q \in h .. e : At(At(h) + (q - h)) = At(q)
<1>1. RcvBufSize \in Nat /\ RcvBufSize >= 2 /\ startPos \in Nat /\ startPos < RcvBufSize
    BY RingNumbers
<1>2. h \in Nat /\ e \in Nat /\ h =< e /\ h >= startPos /\ e =< startPos + RcvBufSize - 2
    BY <1>1
<1>3. PICK a \in Nat : a = At(h) /\ a < RcvBufSize /\ (a = IF h < RcvBufSize THEN h ELSE h - RcvBufSize)
    <2>1. h \in startPos .. startPos + RcvBufSize - 1
        BY <1>1, <1>2
    <2>2. At(h) = IF h < RcvBufSize THEN h ELSE h - RcvBufSize
        BY <2>1, Position
    <2>3. At(h) \in Nat /\ At(h) < RcvBufSize
        BY <1>1, <1>2, <2>2
    <2>4. QED
        BY <2>2, <2>3
<1>4. ASSUME NEW q \in h .. e
      PROVE  /\ At(q) \in Nat /\ At(q) < RcvBufSize
             /\ At(q) = IF q < RcvBufSize THEN q ELSE q - RcvBufSize
    <2>1. q \in startPos .. startPos + RcvBufSize - 1 /\ q \in Nat
        BY <1>1, <1>2
    <2>2. At(q) = IF q < RcvBufSize THEN q ELSE q - RcvBufSize
        BY <2>1, Position
    <2>3. QED
        BY <1>1, <1>2, <2>1, <2>2
<1>5. At(At(e) + 1 - At(h)) = e - h + 1
    <2>1. PICK b \in Nat : b = At(e) /\ b < RcvBufSize /\ (b = IF e < RcvBufSize THEN e ELSE e - RcvBufSize)
        <3>1. e \in h .. e
            BY <1>2
        <3>2. QED
            BY <1>4, <3>1
    <2>2. PICK x \in Int : x = b + 1 - a
        OBVIOUS
    <2>3. - RcvBufSize =< x /\ x < 3 * RcvBufSize
        BY <1>1, <1>3, <2>1, <2>2
    <2>4. x = e - h + 1 \/ x = e - h + 1 - RcvBufSize
        BY <1>1, <1>2, <1>3, <2>1, <2>2
    <2>5. e - h + 1 \in Nat /\ e - h + 1 < RcvBufSize /\ e - h + 1 >= 1
        BY <1>1, <1>2
    <2>6. At(x) = e - h + 1
        BY <1>1, <2>2, <2>3, <2>4, <2>5, Wrap
    <2>7. QED
        BY <1>3, <2>1, <2>2, <2>6
<1>6. ASSUME NEW q \in h .. e
      PROVE  At(At(h) + (q - h)) = At(q)
    <2>1. PICK b \in Nat : b = At(q) /\ b < RcvBufSize /\ (b = IF q < RcvBufSize THEN q ELSE q - RcvBufSize)
        BY <1>4
    <2>2. PICK x \in Int : x = a + (q - h)
        BY <1>2
    <2>3. q \in Nat /\ h =< q /\ q =< e
        BY <1>2
    <2>4. - RcvBufSize =< x /\ x < 3 * RcvBufSize
        BY <1>1, <1>2, <1>3, <2>2, <2>3
    <2>5. x = b \/ x = b + RcvBufSize
        BY <1>1, <1>2, <1>3, <2>1, <2>2, <2>3
    <2>6. At(x) = b
        BY <1>1, <2>1, <2>2, <2>4, <2>5, Wrap
    <2>7. QED
        BY <1>3, <2>1, <2>2, <2>6
<1>7. QED
    BY <1>5, <1>6

\* What scanMsg finds is a message that is whole, or a part of none.
LEMMA RecvLookKeeps ==
    ASSUME MInv, RecvLook
    PROVE  MInv'
<1>1. RingInv /\ SenderInv /\ NetInv /\ HeldInv /\ BlocksInv
    BY DEF MInv
<1>2. /\ RcvBufSize \in Nat /\ RcvBufSize >= 2 /\ startPos \in Slots
      /\ startPos \in Nat /\ startPos < RcvBufSize
      /\ RcvDataSize \in Nat /\ RcvDataSize < RcvBufSize
      /\ StartNo = rcvLastAck - RcvDataSize /\ StartNo \in Nat /\ StartNo >= 1
      /\ rcvLastAck \in Nat
      /\ maxPos \in Nat /\ RcvDataSize + maxPos =< RcvBufSize - 1 /\ rcvCurrSeqNo \in Nat
    BY <1>1, RingNumbers DEF RingInv
<1>3. PICK start \in startPos .. startPos + RcvDataSize :
          /\ start = NewStart
          /\ start = startPos + RcvDataSize \/ BeginsMessage(start)
    BY <1>1, NewStartIs
<1>4. /\ startPos' = At(start)
      /\ units' = [k \in Slots |-> IF k \in {At(j) : j \in startPos .. start - 1} THEN Empty ELSE units[k]]
      /\ found' \in {Scan(start), Nothing}
      /\ UNCHANGED <<blocks, firstBlock, currBlock, expired, sndCurrSeqNo, sndLastAck, sndLossList>>
      /\ UNCHANGED <<net, lastAckPos, maxPos, rcvCurrSeqNo, rcvLastAck, rcvLossList, arrived, received>>
    BY <1>3 DEF RecvLook, sndVars, seqVars
<1>5. BlocksInv' /\ SenderInv' /\ NetInv'
    BY <1>1, <1>4 DEF BlocksInv, SenderInv, Beginning, Ending, NetInv
<1>6. PICK d \in Nat : d = start - startPos /\ start = startPos + d /\ d =< RcvDataSize
                       /\ d \in 0 .. RcvBufSize - 1 /\ start \in Nat
    BY <1>2
<1>7. ASSUME NEW k \in Slots
      PROVE  k \in {At(j) : j \in startPos .. start - 1} <=> Offset(k) < d
    <2>1. (\E i \in 0 .. d - 1 : k = At(startPos + i)) <=> Offset(k) < d
        BY <1>2, <1>6, FrontSlots
    <2>2. ASSUME NEW i \in 0 .. d - 1, k = At(startPos + i)
          PROVE  k \in {At(j) : j \in startPos .. start - 1}
        <3>1. startPos + i \in startPos .. start - 1
            BY <1>2, <1>6
        <3>2. QED
            BY <2>2, <3>1
    <2>3. ASSUME NEW j \in startPos .. start - 1, k = At(j)
          PROVE  \E i \in 0 .. d - 1 : k = At(startPos + i)
        <3>1. j - startPos \in 0 .. d - 1 /\ startPos + (j - startPos) = j
            BY <1>2, <1>6
        <3>2. QED
            BY <2>3, <3>1
    <2>4. QED
        BY <2>1, <2>2, <2>3
<1>8. FrontGoes(d)
    BY <1>4, <1>6, <1>7 DEF FrontGoes
<1>9. /\ RingInv' /\ HeldInv' /\ RcvDataSize' = RcvDataSize - d /\ StartNo' = StartNo + d
      /\ \A n \in Int : WasRead(n) => WasRead(n)'
    BY <1>6, <1>8, FrontMoves
<1>10. HistoryInv'
    <2>1. StartNo' \in Int /\ StartNo' >= StartNo
        BY <1>2, <1>6, <1>9
    <2>2. QED
        BY <1>4, <1>9, <2>1, HistoryStays
<1>11. CASE found' = Nothing
    BY <1>5, <1>9, <1>10, <1>11 DEF MInv, FoundInv
<1>12. CASE found' = Scan(start) /\ Scan(start) # Nothing
    <2> DEFINE far == startPos + RcvDataSize + maxPos
    <2>1. CASE \E e \in start .. far :
                /\ MayEnd(start, e)
                /\ \A j \in start .. far : MayEnd(start, j) => e =< j
                /\ Scan(start) = [from |-> At(BeginOf(start, e)), to |-> At(e),
                                  passack |-> e >= startPos + RcvDataSize]
        <3>1. PICK e \in start .. far :
                /\ MayEnd(start, e)
                /\ \A j \in start .. far : MayEnd(start, j) => e =< j
                /\ Scan(start) = [from |-> At(BeginOf(start, e)), to |-> At(e),
                                  passack |-> e >= startPos + RcvDataSize]
            BY <2>1
        <3>2. /\ e \in Nat /\ e >= start /\ e \in start .. startPos + RcvBufSize - 1
              /\ e \in startPos .. startPos + RcvBufSize - 1
              /\ Good(e) /\ Stops(e) /\ BeginOf(start, e) # -1
              /\ MayRead(e, e >= startPos + RcvDataSize)
            BY <1>2, <1>6, <3>1 DEF MayEnd
        <3>3. start \in Nat /\ start >= startPos
            BY <1>2, <1>6
        <3>4. PICK h \in start .. e :
                 /\ h = BeginOf(start, e) /\ Opens(h, e)
                 /\ \A q \in h .. e :
                      /\ Good(q)
                      /\ Beginning(No(q)) <=> q = h
                      /\ Ending(No(q)) <=> q = e
                      /\ blocks[No(q)].msg = blocks[No(h)].msg
                      /\ blocks[No(q)].order = blocks[No(h)].order
            BY <3>2, <3>3, OneMessage
        <3>5. /\ units[At(e)].block = blocks[No(e)] /\ e =< startPos + RcvBufSize - 2
              /\ No(e) =< rcvCurrSeqNo
            <4>1. e - startPos =< RcvBufSize - 2
                BY <3>2, GoodIs
            <4>2. No(e) \in 1 .. rcvCurrSeqNo /\ units[At(e)].block = blocks[No(e)]
                BY <3>2, GoodIs
            <4>3. QED
                BY <1>2, <3>2, <4>1, <4>2
        <3>6. /\ h \in startPos .. startPos + RcvBufSize - 2
              /\ e \in h .. startPos + RcvBufSize - 2
              /\ h \in Nat /\ h >= start /\ h =< e
            BY <1>2, <3>2, <3>3, <3>5
        <3>7. found' = [from |-> At(h), to |-> At(e), passack |-> e >= startPos + RcvDataSize]
            BY <1>12, <3>1, <3>4
        <3>8. PICK F \in Nat : F = e - h + 1 /\ F >= 1
            BY <3>2, <3>6
        <3>9. FoundSize' = F
            <4>1. FoundSize' = At(found'.to + 1 - found'.from)
                BY DEF FoundSize, At
            <4>2. found'.to = At(e) /\ found'.from = At(h)
                BY <3>7
            <4>3. At(At(e) + 1 - At(h)) = e - h + 1
                BY <1>1, <3>6, Between
            <4>4. QED
                BY <3>8, <4>1, <4>2, <4>3
        <3>10. PICK s \in Nat : s = No(h) /\ s >= StartNo'
            BY <1>2, <1>6, <1>9, <3>6 DEF No
        <3>11. ASSUME NEW i \in 1 .. F
               PROVE  \E q \in h .. e :
                         /\ q = h + (i - 1) /\ At(found'.from + i - 1) = At(q)
                         /\ No(q) = s + i - 1
                         /\ units'[At(q)] = units[At(q)]
                         /\ units[At(q)].flag = 1 /\ units[At(q)].seq = No(q)
            <4>1. PICK q \in h .. e : q = h + (i - 1)
                BY <3>6, <3>8
            <4>2. q \in Nat /\ q - h = i - 1 /\ q >= start /\ q =< e /\ q >= startPos
                  /\ q \in startPos .. startPos + RcvBufSize - 1
                BY <1>2, <3>3, <3>6, <4>1
            <4>3. At(At(h) + (q - h)) = At(q)
                BY <1>1, <3>6, Between
            <4>4. At(found'.from + i - 1) = At(q)
                <5>1. found'.from = At(h)
                    BY <3>7
                <5>2. At(h) \in Slots
                    <6>1. h \in startPos .. startPos + RcvBufSize - 1
                        BY <1>2, <3>6
                    <6>2. QED
                        BY <1>1, <6>1, Position
                <5>3. At(h) + i - 1 = At(h) + (q - h)
                    BY <1>2, <4>2, <5>2 DEF Slots
                <5>4. QED
                    BY <4>3, <5>1, <5>3
            <4>5. No(q) = s + i - 1
                BY <1>2, <3>6, <3>10, <4>1, <4>2 DEF No
            <4>6. Good(q)
                BY <3>4
            <4>7. units[At(q)].flag = 1 /\ units[At(q)].seq = No(q)
                BY <4>2, <4>6, GoodIs
            <4>8. units'[At(q)] = units[At(q)]
                <5>1. At(q) \in Slots /\ Offset(At(q)) = q - startPos
                    BY <1>1, <4>2, Position
                <5>2. ~ (Offset(At(q)) < d)
                    BY <1>2, <1>6, <4>2, <5>1
                <5>3. QED
                    BY <1>8, <5>1, <5>2 DEF FrontGoes
            <4>9. QED
                BY <4>1, <4>4, <4>5, <4>7, <4>8
        <3>12. Whole(s, F)'
            <4>1. s + F - 1 =< rcvCurrSeqNo'
                <5>1. No(e) = s + F - 1
                    BY <1>2, <3>2, <3>6, <3>8, <3>10 DEF No
                <5>2. QED
                    BY <1>4, <3>5, <5>1
            <4>2. ASSUME NEW i \in 1 .. F
                  PROVE  /\ units'[At(found'.from + i - 1)].flag = 1
                         /\ units'[At(found'.from + i - 1)].seq = s + i - 1
                         /\ blocks[s + i - 1].first <=> i = 1
                         /\ blocks[s + i - 1].last <=> i = F
                         /\ blocks[s + i - 1].msg = blocks[s].msg
                         /\ blocks[s + i - 1].order = blocks[s].order
                <5>1. PICK q \in h .. e :
                         /\ q = h + (i - 1) /\ At(found'.from + i - 1) = At(q)
                         /\ No(q) = s + i - 1
                         /\ units'[At(q)] = units[At(q)]
                         /\ units[At(q)].flag = 1 /\ units[At(q)].seq = No(q)
                    BY <3>11
                <5>2. (q = h <=> i = 1) /\ (q = e <=> i = F)
                    BY <3>6, <3>8, <5>1
                <5>3. /\ blocks[No(q)].first <=> q = h
                      /\ blocks[No(q)].last <=> q = e
                      /\ blocks[No(q)].msg = blocks[No(h)].msg
                      /\ blocks[No(q)].order = blocks[No(h)].order
                    BY <3>4 DEF Beginning, Ending
                <5>4. QED
                    BY <3>10, <5>1, <5>2, <5>3
            <4>3. QED
                BY <1>4, <4>1, <4>2 DEF Whole, Beginning, Ending, At
        <3>13. /\ found'.from \in Slots /\ found'.to \in Slots /\ found'.passack \in BOOLEAN
               /\ found'.passack = (e >= startPos + RcvDataSize)
            <4>1. h \in startPos .. startPos + RcvBufSize - 1
                BY <1>2, <3>6
            <4>2. At(h) \in Slots /\ At(e) \in Slots
                BY <1>1, <3>2, <4>1, Position
            <4>3. QED
                BY <3>7, <4>2
        <3>14. ASSUME found'.passack
               PROVE  ~ blocks[s].order
            <4>1. ~ units[At(e)].block.order
                BY <3>2, <3>13, <3>14 DEF MayRead
            <4>2. e \in h .. e
                BY <3>6
            <4>3. blocks[No(e)].order = blocks[No(h)].order
                BY <3>4, <4>2
            <4>4. QED
                BY <3>5, <3>10, <4>1, <4>3
        <3>15. ASSUME ~ found'.passack
               PROVE  found'.from = startPos' /\ s = StartNo' /\ s + F =< rcvLastAck'
            <4>1. e < startPos + RcvDataSize
                <5>1. ~ (e >= startPos + RcvDataSize)
                    BY <3>13, <3>15, Zenon
                <5>2. QED
                    BY <1>2, <3>2, <5>1
            <4>2. h = start
                BY <1>3, <3>1, <3>4, <4>1, FirstIsFound
            <4>3. found'.from = startPos'
                BY <1>4, <3>7, <4>2
            <4>4. s = StartNo'
                BY <1>2, <1>6, <1>9, <3>10, <4>2 DEF No
            <4>5. s + F =< rcvLastAck'
                <5>1. s = StartNo + (h - startPos)
                    BY <3>10 DEF No
                <5>2. s + F = StartNo + (e + 1 - startPos)
                    BY <1>2, <3>2, <3>6, <3>8, <5>1
                <5>3. s + F =< rcvLastAck
                    BY <1>2, <3>2, <4>1, <5>2
                <5>4. QED
                    BY <1>4, <5>3
            <4>6. QED
                BY <4>3, <4>4, <4>5
        <3>16. FoundInv'
            <4>1. Whole(s, FoundSize)'
                BY <3>9, <3>12 DEF Whole
            <4>2. FoundSize' # 0
                BY <3>8, <3>9
            <4>3. found'.passack => ~ blocks'[s].order
                BY <1>4, <3>14
            <4>4. ~ found'.passack => found'.from = startPos' /\ s = StartNo' /\ s + FoundSize' =< rcvLastAck'
                BY <3>9, <3>15
            <4>5. QED
                BY <3>10, <3>13, <4>1, <4>2, <4>3, <4>4 DEF FoundInv
        <3>17. QED
            BY <1>5, <1>9, <1>10, <3>16 DEF MInv
    <2>2. CASE \E h \in Nat :
                /\ At(far + 2) = At(h)
                /\ h =< far
                /\ Scan(start) = [from |-> At(h), to |-> At(far + 1), passack |-> TRUE]
        <3>1. PICK h \in Nat :
                /\ At(far + 2) = At(h)
                /\ h =< far
                /\ Scan(start) = [from |-> At(h), to |-> At(far + 1), passack |-> TRUE]
            BY <2>2
        <3>2. PICK q \in Nat : q = far + 1 /\ q =< startPos + RcvBufSize
            BY <1>2
        <3>3. found'.from = At(q + 1) /\ found'.to = At(q) /\ found'.passack = TRUE
            <4>1. far + 2 = q + 1
                BY <1>2, <3>2
            <4>2. QED
                BY <1>12, <3>1, <3>2, <4>1
        <3>4. /\ - RcvBufSize =< q /\ q < 2 * RcvBufSize /\ q < 3 * RcvBufSize
              /\ - RcvBufSize =< q + 1 /\ q + 1 < 3 * RcvBufSize
            BY <1>2, <3>2
        <3>5. /\ At(q) \in Slots /\ At(q) = IF q < RcvBufSize THEN q ELSE q - RcvBufSize
            BY <1>2, <3>4, Wrap
        <3>6. PICK r \in Int : r = q + 1
            OBVIOUS
        <3>7. /\ At(r) \in Slots
              /\ At(r) = IF r < RcvBufSize THEN r ELSE IF r < 2 * RcvBufSize THEN r - RcvBufSize
                         ELSE r - 2 * RcvBufSize
            BY <1>2, <3>4, <3>6, Wrap
        <3>8. PICK x \in Int : x = At(q) + 1 - At(r) /\ (x = 0 \/ x = RcvBufSize)
            BY <1>2, <3>4, <3>5, <3>6, <3>7
        <3>9. At(x) = 0
            BY <1>2, <3>8, Wrap
        <3>10. FoundSize' = 0
            <4>1. FoundSize' = At(found'.to + 1 - found'.from)
                BY DEF FoundSize, At
            <4>2. QED
                BY <3>3, <3>6, <3>8, <3>9, <4>1
        <3>11. FoundInv'
            BY <3>3, <3>5, <3>6, <3>7, <3>10 DEF FoundInv, Slots
        <3>12. QED
            BY <1>5, <1>9, <1>10, <3>11 DEF MInv
    <2>3. QED
        BY <1>1, <1>12, <2>1, <2>2, ScanIs
<1>13. QED
    BY <1>4, <1>11, <1>12

-----------------------------------------------------------------------------
(* The invariant is inductive.                                             *)

\* An empty connection satisfies the invariant.
LEMMA InitHolds ==
    ASSUME Init
    PROVE  MInv
<1> USE DEF Init
<1>1. RcvBufSize \in Nat /\ RcvBufSize >= 2 /\ 0 \in Slots
    BY MessagesAssumption DEF Slots
<1>2. BlocksInv
    BY MessagesAssumption DEF BlocksInv
<1>3. SenderInv
    BY DEF SenderInv
<1>4. NetInv
    BY DEF NetInv
<1>5. RcvDataSize = 0 /\ StartNo = 1
    <2>1. 0 % RcvBufSize = 0
        BY <1>1
    <2>2. RcvDataSize = 0
        BY <2>1 DEF RcvDataSize
    <2>3. QED
        BY <2>2 DEF StartNo
<1>6. RingInv
    BY <1>1, <1>5 DEF RingInv
<1>7. HeldInv
    BY DEF HeldInv
<1>8. FoundInv
    BY DEF FoundInv
<1>9. HistoryInv
    BY DEF HistoryInv, ReadInOrder, ReadOnce
<1>10. QED
    BY <1>2, <1>3, <1>4, <1>6, <1>7, <1>8, <1>9 DEF MInv

\* Every step keeps the invariant.
LEMMA NextKeeps ==
    ASSUME MInv, [Next]_vars
    PROVE  MInv'
<1>1. CASE \E size \in Sizes, order \in Orders, mortal \in Mortal : SendMsg(size, order, mortal)
    BY <1>1, SendMsgKeeps
<1>2. CASE PackLost
    BY <1>2, PackLostKeeps
<1>3. CASE PackNew
    BY <1>3, PackNewKeeps
<1>4. CASE RecvAck
    BY <1>4, RecvAckKeeps
<1>5. CASE RecvLossReport
    BY <1>5, RecvLossReportKeeps
<1>6. CASE SndExpire
    BY <1>6, SndExpireKeeps
<1>7. CASE RecvData
    BY <1>7, RecvDataKeeps
<1>8. CASE SendAck
    BY <1>8, SendAckKeeps
<1>9. CASE RecvLook
    BY <1>9, RecvLookKeeps
<1>10. CASE RecvTake
    BY <1>10, RecvTakeKeeps
<1>11. CASE Lose
    BY <1>11, LoseKeeps
<1>12. CASE UNCHANGED vars
    <2>1. UNCHANGED sndVars /\ UNCHANGED net /\ UNCHANGED rcvVars
        BY <1>12 DEF vars, rcvVars
    <2>2. SenderInv' /\ NetInv' /\ sndCurrSeqNo =< sndCurrSeqNo' /\ UNCHANGED blocks
        BY <2>1 DEF MInv, SenderInv, NetInv, sndVars
    <2>3. QED
        BY <2>1, <2>2, SenderKeeps
<1>13. QED
    BY <1>1, <1>2, <1>3, <1>4, <1>5, <1>6, <1>7, <1>8, <1>9, <1>10, <1>11, <1>12 DEF Next

-----------------------------------------------------------------------------
(* What follows from it.                                                   *)

\* The invariant implies the types.
LEMMA TypesHold ==
    ASSUME MInv
    PROVE  TypeOK
<1>1. /\ BlocksInv /\ SenderInv /\ NetInv /\ RingInv /\ HeldInv /\ HistoryInv
      /\ MaxBlocks \in Nat /\ MaxBlocks >= 1
    BY MessagesAssumption DEF MInv
<1>2. /\ RcvBufSize \in Nat /\ RcvDataSize \in Nat /\ maxPos \in Nat
      /\ RcvDataSize + maxPos =< RcvBufSize - 1
      /\ StartNo = rcvLastAck - RcvDataSize /\ StartNo \in Nat /\ StartNo >= 1
      /\ rcvCurrSeqNo \in Nat /\ rcvLastAck \in Nat
    BY <1>1, RingNumbers DEF RingInv
<1>3. Len(blocks) \in Nat /\ Len(blocks) =< MaxBlocks /\ DOMAIN blocks = 1 .. Len(blocks)
    BY <1>1 DEF BlocksInv
<1>4. /\ sndCurrSeqNo \in Nat /\ sndCurrSeqNo =< Len(blocks) /\ sndLastAck \in Nat
      /\ 1 =< sndLastAck /\ sndLastAck =< sndCurrSeqNo + 1
    BY <1>1 DEF SenderInv
<1>5. \A i \in DOMAIN blocks : blocks[i] \in Blocks
    BY <1>1, <1>3 DEF BlocksInv
<1>6. /\ firstBlock \in Nat /\ currBlock \in 1 .. Len(blocks) + 1 /\ expired \subseteq Messages
      /\ sndCurrSeqNo \in {0} \cup Numbers /\ sndLastAck \in Numbers
    <2>1. firstBlock = sndLastAck /\ currBlock = sndCurrSeqNo + 1 /\ expired = {}
        BY <1>1 DEF SenderInv
    <2>2. sndCurrSeqNo =< 3 * MaxBlocks /\ sndLastAck =< 3 * MaxBlocks
        BY <1>1, <1>3, <1>4
    <2>3. QED
        BY <1>1, <1>3, <1>4, <2>1, <2>2 DEF Numbers
<1>7. sndLossList \subseteq 1 .. sndCurrSeqNo
    BY <1>1, <1>4 DEF SenderInv
<1>8. \A p \in net : /\ p.kind = "ack" => p.ack =< sndCurrSeqNo + 1
                     /\ p.kind \in {"loss", "drop"} => p.hi =< sndCurrSeqNo
                     /\ p.kind = "data" => p.seq =< sndCurrSeqNo
    BY <1>1, <1>4 DEF NetInv
<1>9. \A k \in Slots : units[k] \in Units
    BY <1>1, UnitsTyped
<1>10. {startPos, lastAckPos, maxPos} \subseteq Slots
    BY <1>1, <1>2 DEF RingInv, Slots
<1>11. rcvCurrSeqNo \in 0 .. sndCurrSeqNo /\ rcvLastAck \in 1 .. sndCurrSeqNo + 1
    BY <1>1, <1>2, <1>4 DEF RingInv
<1>12. rcvLossList \subseteq rcvLastAck .. rcvCurrSeqNo /\ arrived \subseteq Blocks
    BY <1>1 DEF RingInv, HistoryInv
<1>13. QED
    BY <1>5, <1>6, <1>7, <1>8, <1>9, <1>10, <1>11, <1>12 DEF TypeOK

\* ... that slots follow numbers,
LEMMA SlotsHold ==
    ASSUME MInv
    PROVE  SlotsFollowNumbers
<1>1. RingInv /\ HeldInv
    BY DEF MInv
<1>2. /\ RcvDataSize \in Nat /\ maxPos \in Nat /\ startPos \in Slots
      /\ StartNo = rcvLastAck - RcvDataSize /\ StartNo \in Nat /\ rcvLastAck \in Nat
      /\ rcvCurrSeqNo =< rcvLastAck + maxPos /\ rcvCurrSeqNo \in Nat /\ RcvBufSize \in Nat
    BY <1>1, RingNumbers DEF RingInv
<1>3. ASSUME NEW k \in Slots, units[k] # Empty
      PROVE  /\ units[k].seq - rcvLastAck = Offset(k) - RcvDataSize
             /\ Offset(k) =< RcvDataSize + maxPos
    <2>1. Offset(k) \in Nat
        BY <1>2, OffsetOf
    <2>2. units[k].seq = StartNo + Offset(k) /\ units[k].seq =< rcvCurrSeqNo /\ units[k].seq \in Nat
        BY <1>1, <1>2, <1>3 DEF HeldInv, Holds
    <2>3. QED
        BY <1>2, <2>1, <2>2
<1>4. QED
    BY <1>3 DEF SlotsFollowNumbers, Offset

\* ... that messages are read whole,
LEMMA WholeHolds ==
    ASSUME MInv
    PROVE  ReadWhole
<1>1. FoundIsThere
    <2> SUFFICES ASSUME found # Nothing, NEW k \in ToSet(Found) PROVE units[k] # Empty
        BY DEF FoundIsThere
    <2>1. found.from \in Slots /\ found.to \in Slots
        BY DEF MInv, FoundInv
    <2>2. DOMAIN Found = 1 .. FoundSize /\ FoundSize \in Nat
        BY <2>1, SizeOfFound DEF Found, FoundSize
    <2>3. FoundSize # 0
        BY <2>2 DEF ToSet
    <2>4. PICK s \in Nat : Whole(s, FoundSize)
        BY <2>3 DEF MInv, FoundInv
    <2>5. PICK i \in 1 .. FoundSize : k = Found[i]
        BY <2>2 DEF ToSet
    <2>6. units[Found[i]].flag = 1
        BY <2>3, <2>4, FoundIs
    <2>7. QED
        BY <2>5, <2>6 DEF Empty
<1>2. ASSUME NEW i \in DOMAIN received, NEW k \in DOMAIN received[i]
      PROVE  /\ received[i][k].seq = received[i][1].seq + k - 1
             /\ received[i][k].block.msg = received[i][1].block.msg
             /\ received[i][k].block.first <=> k = 1
             /\ received[i][k].block.last <=> k = Len(received[i])
    BY DEF MInv, HistoryInv, Returned
<1>3. QED
    BY <1>1, <1>2 DEF ReadWhole

\* MInv holds in every state of every behaviour.
LEMMA Inductive == Spec => []MInv
BY InitHolds, NextKeeps, PTL DEF Spec

\* Every variable keeps its type, and neither an ACK nor a loss report names more than was
\* sent: for every size of the buffer, of the messages and of the network.
THEOREM TypeCorrect == Spec => []TypeOK
BY Inductive, TypesHold, PTL

\* A packet stays in the slot its number says, however scanMsg, readMsg and ackData move
\* the positions of the ring, and within the reach of scanMsg.
THEOREM SlotsAreRight == Spec => []SlotsFollowNumbers
BY Inductive, SlotsHold, PTL

\* recvmsg returns whole messages: consecutive packets from the first of a message to the
\* last of the same one, and what it found is there when it copies it.
THEOREM MessagesAreWhole == Spec => []ReadWhole
BY Inductive, WholeHolds, PTL

\* ... and that they are read once and in order.
LEMMA OrderHolds ==
    ASSUME MInv
    PROVE  ReadInOrder
BY DEF MInv, HistoryInv

\* No packet is read twice, also when it was read ahead of others, and a message that is
\* to be read in order is read after all that comes before it and is read at all.
THEOREM MessagesInOrder == Spec => []ReadInOrder
BY Inductive, OrderHolds, PTL
=============================================================================
