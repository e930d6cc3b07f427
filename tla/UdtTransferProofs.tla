------------------------- MODULE UdtTransferProofs -------------------------
(***************************************************************************)
(* Proofs about UdtTransfer, for every initial sequence number, buffer     *)
(* size, window, congestion window and bound of the model.                 *)
(*                                                                         *)
(* The properties are not inductive by themselves: what makes them hold is *)
(* spread over two hosts and the packets between them.  IndInv collects it *)
(* in six parts: the sender's counters, the packet in the sending worker's *)
(* hands and the ACK in the receiving worker's, the receiver's buffer, the *)
(* order of the acknowledgement numbers across the hosts, and what any     *)
(* packet still under way may say.                                         *)
(***************************************************************************)
EXTENDS UdtTransfer, TLAPS, WellFoundedInduction

\* The sender's counters follow each other, and number its buffer.
SenderInv ==
    /\ ISN =< sndLastDataAck
    /\ sndLastDataAck =< sndLastAck
    /\ BlocksMatchNumbers
    /\ LossesInBuffer
    /\ PeerNeverDistrusted

\* What the worker holds was sent before, or is about to be, and is looked up
\* in the right block.
WorkerInv ==
    /\ worker \in {"lost", "packed"} => ISN =< pktSeqNo /\ pktSeqNo =< sndCurrSeqNo
    /\ worker = "packed" => pktData = pktSeqNo - ISN

\* An ACK in hand is one the receiver has passed, and once it is checked it is in
\* m_iSndLastAck.
HandInv ==
    /\ ackStep # "none" => ackNo =< rcvLastAck
    /\ ackStep = "free" => ackNo =< sndLastAck

\* What the sender has freed or is about to free: an ACK2 says no more.
Promised == IF ackStep = "none" THEN sndLastDataAck ELSE Larger(sndLastDataAck, ackNo)

\* The receiver's buffer: no hole below m_iRcvLastAck, and above it the holes
\* are the loss list; a slot holds the packet of its number.
ReceiverInv ==
    /\ StartSeqNo =< rcvLastAck /\ rcvLastAck =< rcvCurrSeqNo + 1
    /\ rcvCurrSeqNo =< sndCurrSeqNo
    /\ \A s \in Held : /\ StartSeqNo =< s /\ s =< rcvCurrSeqNo
                       /\ rcvBuffer[s] = s - ISN
    /\ \A s \in StartSeqNo .. rcvLastAck - 1 : s \in Held
    /\ rcvLossList = {s \in rcvLastAck .. rcvCurrSeqNo : s \notin Held}
    /\ DeliveredInOrder

\* All packets before x have arrived: what an ACK of x claims.
Arrived(x) == x =< rcvCurrSeqNo + 1 /\ \A s \in rcvLossList : x =< s

\* The chain of acknowledgement numbers through both hosts.
AckInv ==
    /\ rcvLastAckAck =< Promised
    /\ sndLastDataAck =< rcvLastAck
    /\ Arrived(sndLastAck)

\* What a packet may say, however late it arrives.
PacketOK(p) ==
    /\ p.type = "data" => /\ ISN =< p.seq /\ p.seq =< sndCurrSeqNo
                          /\ p.data = p.seq - ISN \/ p.seq < rcvLastAck
    /\ p.type = "lite" => Arrived(p.ack)
    /\ p.type = "ack" => p.ack =< rcvLastAck
    /\ p.type = "ack2" => p.ack =< Promised
    /\ p.type = "nak" => p.first =< p.last /\ p.last =< rcvCurrSeqNo

NetInv == \A p \in net : PacketOK(p)

IndInv ==
    /\ TypeOK
    /\ SenderInv
    /\ WorkerInv
    /\ HandInv
    /\ ReceiverInv
    /\ AckInv
    /\ NetInv

-----------------------------------------------------------------------------
\* A nonempty set of integers with a lower bound has a least element.
LEMMA LeastInt ==
    ASSUME NEW S \in SUBSET Int, NEW b \in Int, \A s \in S : b =< s, S # {}
    PROVE  \E m \in S : \A t \in S : m =< t
<1> DEFINE T == {s - b : s \in S}
           R == {ss \in Nat \X Nat : ss[1] < ss[2]}
<1>1. T \subseteq Nat
    OBVIOUS
<1>2. T # {}
    OBVIOUS
<1>3. IsWellFoundedOn(R, Nat)
  <2>1. R = OpToRel(<, Nat)
      BY Zenon DEF OpToRel
  <2>2. QED
      BY <2>1, NatLessThanWellFounded, Zenon
<1> HIDE DEF T
<1>4. PICK x \in T : \A y \in T : ~ (<<y, x>> \in R)
  <2> HIDE DEF R
  <2> QED
      BY <1>1, <1>2, <1>3, WFMin, Zenon
<1>5. \A y \in T : x =< y
  <2> SUFFICES ASSUME NEW y \in T, y < x PROVE FALSE
      BY <1>1
  <2>1. <<y, x>> \in Nat \X Nat /\ <<y, x>>[1] < <<y, x>>[2]
      BY <1>1
  <2>2. <<y, x>> \in R
      BY <2>1, Zenon DEF R
  <2>3. QED
      BY <1>4, <2>2
<1>6. PICK m \in S : x = m - b
    BY <1>4 DEF T
<1>7. \A t \in S : m =< t
  <2> SUFFICES ASSUME NEW t \in S PROVE m =< t
      OBVIOUS
  <2>1. t - b \in T
      BY DEF T
  <2>2. QED
      BY <1>5, <1>6, <2>1
<1>8. QED
    BY <1>6, <1>7

\* Whatever is lost on the way, sending adds at most the packet sent.
LEMMA SendToAdds ==
    ASSUME NEW n, NEW p, NEW n2 \in SendTo(n, p)
    PROVE  n2 \subseteq n \cup {p}
    BY DEF SendTo

\* The fields of a packet of each type.
LEMMA PacketFields ==
    ASSUME NEW p \in Message
    PROVE  /\ p.type = "data" => p.seq \in Int /\ p.data \in Int
           /\ p.type \in {"lite", "ack", "ack2"} => p.ack \in Int
           /\ p.type = "ack" => p.window \in Int
           /\ p.type = "nak" => p.first \in Int /\ p.last \in Int
    BY DEF Message

\* The packets the two hosts make are well formed.
LEMMA PacketsMade ==
    /\ \A s, d \in Int : Data(s, d) \in Message /\ Data(s, d).type = "data"
                         /\ Data(s, d).seq = s /\ Data(s, d).data = d
    /\ \A a \in Int : LiteAck(a) \in Message /\ LiteAck(a).type = "lite" /\ LiteAck(a).ack = a
    /\ \A a, w \in Int : FullAck(a, w) \in Message /\ FullAck(a, w).type = "ack"
                         /\ FullAck(a, w).ack = a
    /\ \A a \in Int : Ack2(a) \in Message /\ Ack2(a).type = "ack2" /\ Ack2(a).ack = a
    /\ \A f, l \in Int : Nak(f, l) \in Message /\ Nak(f, l).type = "nak"
                         /\ Nak(f, l).first = f /\ Nak(f, l).last = l
    /\ \A h \in {"snd", "rcv"} : KeepAlive(h) \in Message /\ KeepAlive(h).type = "alive"
    BY DEF Message, Data, LiteAck, FullAck, Ack2, Nak, KeepAlive

\* The number an ACK carries is at most everything seen, and no loss is below it.
LEMMA AckPointFacts ==
    ASSUME TypeOK, ReceiverInv
    PROVE  /\ AckPoint \in Int
           /\ rcvLastAck =< AckPoint
           /\ Arrived(AckPoint)
<1> USE DEF TypeOK, ReceiverTypeOK
<1>1. CASE rcvLossList = {}
    BY <1>1 DEF TypeOK, ReceiverInv, AckPoint, Arrived
<1>2. CASE rcvLossList # {}
  <2>1. \A s \in rcvLossList : s \in Int /\ rcvLastAck =< s /\ s =< rcvCurrSeqNo
      BY DEF TypeOK, ReceiverInv
  <2>2. \E m \in rcvLossList : \A t \in rcvLossList : m =< t
      BY <1>2, <2>1, LeastInt DEF TypeOK
  <2>3. AckPoint \in rcvLossList /\ \A t \in rcvLossList : AckPoint =< t
      BY <1>2, <2>2 DEF AckPoint
  <2>4. QED
      BY <2>1, <2>3 DEF Arrived, TypeOK
<1>3. QED
    BY <1>1, <1>2

\* What is promised is a number, and no less than what is freed.
LEMMA PromisedFacts ==
    ASSUME SenderTypeOK
    PROVE  Promised \in Int /\ sndLastDataAck =< Promised
    BY DEF SenderTypeOK, Promised, Larger

-----------------------------------------------------------------------------
\* No step takes back what a counter or an acknowledgement has said.
Monotone ==
    /\ sndCurrSeqNo =< sndCurrSeqNo'
    /\ Promised =< Promised'
    /\ rcvLastAck =< rcvLastAck'
    /\ rcvCurrSeqNo =< rcvCurrSeqNo'
    /\ \A x \in Int : Arrived(x) => Arrived(x)'

\* Then what the packets under way say stays true, and only the packets added
\* need a look.
LEMMA NetStays ==
    ASSUME TypeOK, TypeOK', NetInv, Monotone, NEW new, net' \subseteq net \cup new,
           \A p \in new : PacketOK(p)'
    PROVE  NetInv'
<1> SUFFICES ASSUME NEW p \in net, PacketOK(p) PROVE PacketOK(p)'
    BY DEF NetInv
<1> p \in Message
    BY DEF TypeOK
<1>1. /\ sndCurrSeqNo \in Int /\ sndCurrSeqNo' \in Int
      /\ Promised \in Int /\ Promised' \in Int
      /\ rcvLastAck \in Int /\ rcvLastAck' \in Int
      /\ rcvCurrSeqNo \in Int /\ rcvCurrSeqNo' \in Int
  <2>1. Promised \in Int
      BY PromisedFacts DEF TypeOK
  <2>2. Promised' \in Int
      BY DEF TypeOK, SenderTypeOK, Promised, Larger
  <2>3. QED
      BY <2>1, <2>2 DEF TypeOK, SenderTypeOK, ReceiverTypeOK
<1>2. CASE p.type = "data"
  <2>1. p.seq \in Int /\ p.data \in Int
      BY <1>2, PacketFields
  <2>2. QED
      BY <1>1, <1>2, <2>1, TransferAssumption DEF PacketOK, Monotone
<1>3. CASE p.type \in {"lite", "ack", "ack2"}
  <2>1. p.ack \in Int
      BY <1>3, PacketFields
  <2>2. QED
      BY <1>1, <1>3, <2>1 DEF PacketOK, Monotone
<1>4. CASE p.type \in {"nak", "alive"}
  <2>1. p.type = "nak" => p.first \in Int /\ p.last \in Int
      BY PacketFields
  <2>2. QED
      BY <1>1, <1>4, <2>1 DEF PacketOK, Monotone
<1>5. QED
    BY <1>2, <1>3, <1>4 DEF Message

\* The receiver's side of the invariant does not look at what the application,
\* the worker or a timer of the sender do.
LEMMA ReceiverUntouched ==
    ASSUME TypeOK, ReceiverInv, UNCHANGED rcvVars, sndCurrSeqNo' \in Int,
           sndCurrSeqNo =< sndCurrSeqNo'
    PROVE  /\ ReceiverTypeOK'
           /\ ReceiverInv'
           /\ \A x \in Int : Arrived(x) <=> Arrived(x)'
<1> USE DEF rcvVars, rcvDataVars, rcvSeqVars, rcvLifeVars
<1>1. Held' = Held /\ StartSeqNo' = StartSeqNo
    BY DEF Held, StartSeqNo
<1>0. ReceiverTypeOK'
    BY <1>1 DEF TypeOK, ReceiverTypeOK
<1>2. DeliveredInOrder' <=> DeliveredInOrder
    BY DEF DeliveredInOrder
<1>3. ReceiverInv'
    BY <1>1, <1>2 DEF ReceiverInv, TypeOK, ReceiverTypeOK, SenderTypeOK
<1>4. \A x \in Int : Arrived(x) <=> Arrived(x)'
    BY DEF Arrived
<1>5. QED
    BY <1>0, <1>3, <1>4

\* What a step of the sending host has to show: its own side, and that any
\* packet it sends is true.
LEMMA SenderStep ==
    ASSUME IndInv, UNCHANGED rcvVars,
           SenderTypeOK', SenderInv', WorkerInv', HandInv',
           sndCurrSeqNo =< sndCurrSeqNo', Promised =< Promised',
           sndLastDataAck' =< rcvLastAck, Arrived(sndLastAck'),
           NEW new \in SUBSET Message, net' \subseteq net \cup new,
           \A p \in new : PacketOK(p)'
    PROVE  IndInv'
<1>1. /\ ReceiverTypeOK' /\ ReceiverInv'
      /\ \A x \in Int : Arrived(x) <=> Arrived(x)'
    BY ReceiverUntouched DEF IndInv, TypeOK, SenderTypeOK
<1>2. TypeOK'
    BY <1>1 DEF IndInv, TypeOK
<1>3. UNCHANGED <<rcvCurrSeqNo, rcvLastAck, rcvLastAckAck, rcvLossList>>
    BY DEF rcvVars, rcvSeqVars
<1>4. AckInv'
  <2>1. Promised \in Int /\ Promised' \in Int
      BY <1>2, PromisedFacts DEF IndInv, TypeOK, SenderTypeOK, Promised, Larger
  <2>2. rcvLastAckAck' =< Promised'
      BY <1>3, <2>1 DEF IndInv, AckInv, TypeOK, ReceiverTypeOK
  <2>3. QED
      BY <1>2, <1>3, <2>2 DEF IndInv, AckInv, Arrived, TypeOK, SenderTypeOK, ReceiverTypeOK
<1>5. Monotone
    BY <1>1, <1>3 DEF Monotone, IndInv, TypeOK, SenderTypeOK, ReceiverTypeOK
<1>6. NetInv'
    BY <1>2, <1>5, NetStays DEF IndInv
<1>7. QED
    BY <1>1, <1>2, <1>4, <1>6 DEF IndInv

\* What a step of the receiving host has to show.
LEMMA ReceiverStep ==
    ASSUME IndInv, UNCHANGED sndVars,
           ReceiverTypeOK', ReceiverInv',
           rcvLastAck =< rcvLastAck', rcvCurrSeqNo =< rcvCurrSeqNo',
           rcvLastAckAck' =< Promised,
           \A x \in Int : Arrived(x) => Arrived(x)',
           NEW new \in SUBSET Message, net' \subseteq net \cup new,
           \A p \in new : PacketOK(p)'
    PROVE  IndInv'
<1>1. /\ UNCHANGED sndBufVars /\ UNCHANGED sndSeqVars /\ UNCHANGED onSndList
      /\ UNCHANGED sndLifeVars /\ UNCHANGED ackVars /\ UNCHANGED workerVars
    BY DEF sndVars
<1>2. SenderTypeOK' /\ SenderInv' /\ WorkerInv'
    BY <1>1 DEF IndInv, TypeOK, SenderTypeOK, SenderInv, WorkerInv, BlocksMatchNumbers,
                LossesInBuffer, PeerNeverDistrusted, sndBufVars, sndSeqVars, sndLifeVars, ackVars,
                workerVars
<1>3. TypeOK'
    BY <1>2 DEF IndInv, TypeOK
<1>4. UNCHANGED <<sndCurrSeqNo, sndLastAck, sndLastDataAck, ackStep, ackNo>> /\ Promised' = Promised
    BY <1>1 DEF sndSeqVars, ackVars, Promised, Larger
<1>5. AckInv'
  <2>1. Arrived(sndLastAck)'
      BY <1>4 DEF IndInv, AckInv, TypeOK, SenderTypeOK
  <2>2. QED
      BY <1>3, <1>4, <2>1 DEF IndInv, AckInv, TypeOK, SenderTypeOK, ReceiverTypeOK
<1>6. Monotone
    BY <1>4, PromisedFacts DEF Monotone, IndInv, TypeOK, SenderTypeOK, ReceiverTypeOK
<1>7. NetInv'
    BY <1>3, <1>6, NetStays DEF IndInv
<1>8. HandInv'
    BY <1>3, <1>4 DEF IndInv, HandInv, TypeOK, SenderTypeOK, ReceiverTypeOK
<1>9. QED
    BY <1>2, <1>3, <1>5, <1>7, <1>8 DEF IndInv

-----------------------------------------------------------------------------
(* The steps of the sending host.                                          *)

\* A step that sends nothing.
LEMMA SenderStepQuiet ==
    ASSUME IndInv, UNCHANGED rcvVars, net' \subseteq net,
           SenderTypeOK', SenderInv', WorkerInv', HandInv',
           sndCurrSeqNo =< sndCurrSeqNo', Promised =< Promised',
           sndLastDataAck' =< rcvLastAck, Arrived(sndLastAck')
    PROVE  IndInv'
<1> DEFINE new == {}
<1>1. new \in SUBSET Message /\ net' \subseteq net \cup new /\ \A p \in new : PacketOK(p)'
    OBVIOUS
<1> HIDE DEF new
<1>2. QED
    BY <1>1, SenderStep

\* A step of another thread of the sender leaves the ACK in hand alone.
LEMMA HandAlone ==
    ASSUME IndInv, UNCHANGED <<sndLastDataAck, ackStep, ackNo>>, UNCHANGED rcvVars,
           sndLastAck' \in Int, sndLastAck =< sndLastAck'
    PROVE  Promised =< Promised' /\ HandInv'
<1>1. Promised' = Promised /\ Promised \in Int
    BY PromisedFacts DEF IndInv, TypeOK, Promised, Larger
<1>2. rcvLastAck' = rcvLastAck /\ rcvLastAck \in Int /\ ackNo \in Int /\ sndLastAck \in Int
    BY DEF rcvVars, rcvSeqVars, IndInv, TypeOK, SenderTypeOK, ReceiverTypeOK
<1>3. QED
    BY <1>1, <1>2 DEF IndInv, HandInv

\* A step that leaves the numbers of the sender alone has no more to show than
\* the other variables it writes.
LEMMA NumbersAlone ==
    ASSUME IndInv, UNCHANGED <<sndCurrSeqNo, sndLastDataAck, sndLastAck>>,
           UNCHANGED <<ackStep, ackNo, ackWindow>>, UNCHANGED rcvVars
    PROVE  /\ sndCurrSeqNo =< sndCurrSeqNo' /\ Promised =< Promised' /\ HandInv'
           /\ sndLastDataAck' =< rcvLastAck /\ Arrived(sndLastAck')
<1>1. Arrived(sndLastAck) /\ sndLastDataAck =< rcvLastAck
    BY DEF IndInv, AckInv
<1>2. sndCurrSeqNo \in Int /\ sndLastDataAck \in Int /\ sndLastAck \in Int
    BY DEF IndInv, TypeOK, SenderTypeOK
<1>3. Promised =< Promised' /\ HandInv'
    BY <1>2, HandAlone
<1>4. QED
    BY <1>1, <1>2, <1>3

\* send: the buffer takes more packets, never more than it has room for.
LEMMA AppSendKeeps ==
    ASSUME IndInv, AppSend
    PROVE  IndInv'
<1>1. /\ UNCHANGED <<bufFirst, bufCurr, sndCurrSeqNo, sndLastAck, sndLastDataAck>>
      /\ UNCHANGED <<flowWindowSize, sndLossList, sndEXP, sndState>>
      /\ UNCHANGED <<worker, pktSeqNo, pktData>>
      /\ UNCHANGED <<ackStep, ackNo, ackWindow>> /\ UNCHANGED rcvVars /\ net' = net /\ onSndList' = TRUE
    BY DEF AppSend, ackVars, sndSeqVars, sndLifeVars, workerVars
<1>2. /\ written \in Int /\ bufFirst \in Int /\ bufCurr \in Int
      /\ 0 =< written /\ 0 =< written - bufFirst
    BY DEF IndInv, TypeOK, SenderTypeOK
<1>3. PICK n \in 1 .. Smaller(SndBufSize - BufCount, MaxWritten - written) : written' = written + n
    BY DEF AppSend
<1>4. /\ written' \in 0 .. MaxWritten /\ written =< written'
      /\ written' - bufFirst \in 0 .. SndBufSize
    BY <1>2, <1>3, TransferAssumption DEF Smaller, BufCount
<1>5. SenderTypeOK'
    BY <1>1, <1>4 DEF IndInv, TypeOK, SenderTypeOK
<1>6. SenderInv'
    BY <1>1, <1>2, <1>4 DEF IndInv, SenderInv, BlocksMatchNumbers, LossesInBuffer, PeerNeverDistrusted
<1>7. WorkerInv'
    BY <1>1 DEF IndInv, WorkerInv
<1>8. QED
    BY <1>1, <1>5, <1>6, <1>7, NumbersAlone, SenderStepQuiet

\* CSndUList::pop and getLostSeq: a loss is in the buffer when it is taken.
LEMMA PopKeeps ==
    ASSUME IndInv, Pop
    PROVE  IndInv'
<1>1. /\ UNCHANGED <<written, bufFirst, bufCurr, sndCurrSeqNo, sndLastAck, sndLastDataAck>>
      /\ UNCHANGED <<flowWindowSize, sndEXP, sndState, pktData>>
      /\ UNCHANGED <<ackStep, ackNo, ackWindow>> /\ UNCHANGED rcvVars /\ net' = net /\ onSndList' = FALSE
    BY DEF Pop, ackVars, sndBufVars, sndLifeVars
<1>2. /\ sndLossList' \subseteq sndLossList
      /\ \/ worker' = "lost" /\ pktSeqNo' \in sndLossList
         \/ worker' = "new" /\ pktSeqNo' = pktSeqNo
    BY DEF Pop
<1>3. SenderTypeOK'
    BY <1>1, <1>2 DEF IndInv, TypeOK, SenderTypeOK
<1>4. SenderInv'
    BY <1>1, <1>2 DEF IndInv, SenderInv, BlocksMatchNumbers, LossesInBuffer, PeerNeverDistrusted
<1>5. WorkerInv'
  <2>1. /\ ISN =< sndLastDataAck
        /\ \A s \in sndLossList : sndLastDataAck =< s /\ s =< sndCurrSeqNo
      BY DEF IndInv, SenderInv, LossesInBuffer
  <2>2. sndLastDataAck \in Int /\ sndLossList \subseteq Int
      BY DEF IndInv, TypeOK, SenderTypeOK
  <2>3. pktSeqNo' \in sndLossList => ISN =< pktSeqNo' /\ pktSeqNo' =< sndCurrSeqNo
      BY <2>1, <2>2, TransferAssumption
  <2>4. worker' # "packed" /\ (worker' = "lost" => pktSeqNo' \in sndLossList)
      BY <1>2
  <2>5. QED
      BY <1>1, <2>3, <2>4 DEF WorkerInv
<1>6. QED
    BY <1>1, <1>3, <1>4, <1>5, NumbersAlone, SenderStepQuiet

\* packData, retransmission: the block is that of the number, for the first
\* block is that of m_iSndLastDataAck.
LEMMA PackLostKeeps ==
    ASSUME IndInv, PackLost
    PROVE  IndInv'
<1>1. /\ UNCHANGED <<written, bufFirst, bufCurr, sndCurrSeqNo, sndLastAck, sndLastDataAck>>
      /\ UNCHANGED <<flowWindowSize, sndLossList, sndEXP, sndState, pktSeqNo>>
      /\ UNCHANGED <<ackStep, ackNo, ackWindow>> /\ UNCHANGED rcvVars /\ net' = net
    BY DEF PackLost, ackVars, sndBufVars, sndSeqVars, sndLifeVars
<1>2. bufFirst = sndLastDataAck - ISN /\ ISN =< pktSeqNo /\ pktSeqNo =< sndCurrSeqNo
    BY DEF IndInv, SenderInv, BlocksMatchNumbers, WorkerInv, PackLost
<1>3. sndLastDataAck \in Int /\ pktSeqNo \in Int
    BY DEF IndInv, TypeOK, SenderTypeOK
<1>4. \/ worker' = "idle" /\ pktData' = pktData /\ onSndList' = onSndList
      \/ worker' = "packed" /\ pktData' = bufFirst + (pktSeqNo - sndLastDataAck) /\ onSndList' = TRUE
    BY DEF PackLost
<1>5. worker' = "packed" => pktData' = pktSeqNo - ISN
    BY <1>2, <1>3, <1>4, TransferAssumption
<1>6. pktData' \in Int
    BY <1>3, <1>4, <1>5, TransferAssumption DEF IndInv, TypeOK, SenderTypeOK
<1>7. SenderTypeOK'
    BY <1>1, <1>4, <1>6 DEF IndInv, TypeOK, SenderTypeOK
<1>8. SenderInv'
    BY <1>1 DEF IndInv, SenderInv, BlocksMatchNumbers, LossesInBuffer, PeerNeverDistrusted
<1>9. WorkerInv'
    BY <1>1, <1>2, <1>4, <1>5 DEF WorkerInv
<1>10. QED
    BY <1>1, <1>7, <1>8, <1>9, NumbersAlone, SenderStepQuiet

\* packData, new packet: number and block advance together.
LEMMA PackNewKeeps ==
    ASSUME IndInv, PackNew
    PROVE  IndInv'
<1>1. /\ UNCHANGED <<written, bufFirst, sndLastAck, sndLastDataAck, flowWindowSize>>
      /\ UNCHANGED <<sndLossList, sndEXP, sndState>>
      /\ UNCHANGED <<ackStep, ackNo, ackWindow>> /\ UNCHANGED rcvVars /\ net' = net
    BY DEF PackNew, ackVars, sndLifeVars
<1>2. /\ bufCurr = sndCurrSeqNo + 1 - ISN /\ bufFirst =< bufCurr
      /\ bufFirst = sndLastDataAck - ISN /\ ISN =< sndLastDataAck
    BY DEF IndInv, SenderInv, BlocksMatchNumbers
<1>3. /\ bufCurr \in Int /\ sndCurrSeqNo \in Int /\ bufFirst \in Int /\ written \in Int
      /\ sndLastDataAck \in Int /\ sndLossList \subseteq Int
    BY DEF IndInv, TypeOK, SenderTypeOK
<1>4. CASE /\ bufCurr < written
           /\ pktData' = bufCurr /\ bufCurr' = bufCurr + 1
           /\ sndCurrSeqNo' = sndCurrSeqNo + 1 /\ pktSeqNo' = sndCurrSeqNo + 1
           /\ worker' = "packed" /\ onSndList' = TRUE
  <2>1. SenderTypeOK'
      BY <1>1, <1>3, <1>4 DEF IndInv, TypeOK, SenderTypeOK
  <2>2. SenderInv'
    <3>1. BlocksMatchNumbers'
        BY <1>1, <1>2, <1>3, <1>4, TransferAssumption DEF BlocksMatchNumbers
    <3>2. LossesInBuffer'
        BY <1>1, <1>3, <1>4 DEF IndInv, SenderInv, LossesInBuffer
    <3>3. QED
        BY <1>1, <3>1, <3>2 DEF IndInv, SenderInv, PeerNeverDistrusted
  <2>3. WorkerInv'
      BY <1>2, <1>3, <1>4, TransferAssumption DEF WorkerInv
  <2>4. /\ sndCurrSeqNo =< sndCurrSeqNo'
        /\ sndLastDataAck' =< rcvLastAck /\ Arrived(sndLastAck')
      BY <1>1, <1>3, <1>4 DEF IndInv, AckInv
  <2>5. Promised =< Promised' /\ HandInv'
    <3>1. sndLastAck' \in Int /\ sndLastAck =< sndLastAck'
        BY <1>1 DEF IndInv, TypeOK, SenderTypeOK
    <3>2. QED
        BY <1>1, <3>1, HandAlone
  <2>6. QED
      BY <1>1, <2>1, <2>2, <2>3, <2>4, <2>5, SenderStepQuiet
<1>5. CASE worker' = "idle" /\ UNCHANGED <<bufCurr, sndCurrSeqNo, pktSeqNo, pktData, onSndList>>
  <2>1. SenderTypeOK'
      BY <1>1, <1>5 DEF IndInv, TypeOK, SenderTypeOK
  <2>2. SenderInv'
      BY <1>1, <1>5 DEF IndInv, SenderInv, BlocksMatchNumbers, LossesInBuffer, PeerNeverDistrusted
  <2>3. WorkerInv'
      BY <1>5 DEF WorkerInv
  <2>4. QED
      BY <1>1, <1>5, <2>1, <2>2, <2>3, NumbersAlone, SenderStepQuiet
<1>6. QED
    BY <1>4, <1>5 DEF PackNew

\* The channel: the payload is that of the number, or the block was freed, and
\* then the receiver has the packet and will not look at this copy.
LEMMA TransmitKeeps ==
    ASSUME IndInv, Transmit
    PROVE  IndInv'
<1>1. /\ UNCHANGED <<written, bufFirst, bufCurr, sndCurrSeqNo, sndLastAck, sndLastDataAck>>
      /\ UNCHANGED <<flowWindowSize, sndLossList, onSndList, sndEXP, sndState, pktSeqNo, pktData>>
      /\ UNCHANGED <<ackStep, ackNo, ackWindow>> /\ UNCHANGED rcvVars /\ worker = "packed" /\ worker' = "idle"
    BY DEF Transmit, ackVars, sndBufVars, sndSeqVars, sndLifeVars
<1>2. /\ bufFirst = sndLastDataAck - ISN /\ sndLastDataAck =< rcvLastAck
      /\ ISN =< pktSeqNo /\ pktSeqNo =< sndCurrSeqNo /\ pktData = pktSeqNo - ISN
    BY <1>1 DEF IndInv, SenderInv, BlocksMatchNumbers, WorkerInv, AckInv
<1>3. /\ bufFirst \in Int /\ sndLastDataAck \in Int /\ pktSeqNo \in Int /\ pktData \in Int
      /\ rcvLastAck \in Int
    BY DEF IndInv, TypeOK, SenderTypeOK, ReceiverTypeOK
<1>4. PICK data \in PayloadRead : net' \in SendTo(net, Data(pktSeqNo, data))
    BY DEF Transmit
<1>5. data \in Int /\ (data = pktData \/ pktData < bufFirst)
    BY <1>3 DEF PayloadRead, Torn
<1>6. data = pktSeqNo - ISN \/ pktSeqNo < rcvLastAck
    BY <1>2, <1>3, <1>5, TransferAssumption
<1>7. PICK p \in Message : /\ p = Data(pktSeqNo, data)
                           /\ p.type = "data" /\ p.seq = pktSeqNo /\ p.data = data
    BY <1>3, <1>5, PacketsMade
<1>8. net' \subseteq net \cup {p}
    BY <1>4, <1>7, SendToAdds
<1>9. rcvLastAck' = rcvLastAck
    BY <1>1 DEF rcvVars, rcvSeqVars
<1>10. PacketOK(p)'
    BY <1>1, <1>2, <1>6, <1>7, <1>9 DEF PacketOK
<1>11. SenderTypeOK'
    BY <1>1 DEF IndInv, TypeOK, SenderTypeOK
<1>12. SenderInv'
    BY <1>1 DEF IndInv, SenderInv, BlocksMatchNumbers, LossesInBuffer, PeerNeverDistrusted
<1>13. WorkerInv'
    BY <1>1 DEF WorkerInv
<1>14. {p} \in SUBSET Message /\ \A q \in {p} : PacketOK(q)'
    BY <1>7, <1>10
<1>15. QED
    BY <1>1, <1>8, <1>11, <1>12, <1>13, <1>14, NumbersAlone, SenderStep

\* processCtrl, lite ACK: m_iSndLastAck moves, to a number all before has arrived.
LEMMA RecvLiteAckKeeps ==
    ASSUME IndInv, RecvLiteAck
    PROVE  IndInv'
<1>1. /\ UNCHANGED <<written, bufFirst, bufCurr, sndCurrSeqNo, sndLastDataAck>>
      /\ UNCHANGED <<sndLossList, onSndList, sndState, worker, pktSeqNo, pktData>>
      /\ UNCHANGED <<ackStep, ackNo, ackWindow>> /\ UNCHANGED rcvVars /\ sndEXP' = 1
    BY DEF RecvLiteAck, ackVars, sndBufVars, workerVars
<1>2. PICK p \in net :
         /\ p.type = "lite"
         /\ Arrives(p, net')
         /\ IF p.ack >= sndLastAck
            THEN /\ flowWindowSize' = flowWindowSize - (p.ack - sndLastAck)
                 /\ sndLastAck' = p.ack
            ELSE UNCHANGED <<flowWindowSize, sndLastAck>>
    BY Zenon DEF RecvLiteAck
<1>3. p \in Message /\ PacketOK(p) /\ net' \subseteq net
    BY <1>2 DEF IndInv, TypeOK, NetInv, Arrives
<1>4. p.ack \in Int /\ Arrived(p.ack)
    BY <1>2, <1>3, PacketFields DEF PacketOK
<1>5. /\ sndLastAck \in Int /\ sndLastDataAck \in Int /\ sndCurrSeqNo \in Int
      /\ flowWindowSize \in Int /\ sndLastDataAck =< sndLastAck /\ Arrived(sndLastAck)
      /\ sndLastDataAck =< rcvLastAck
    BY DEF IndInv, TypeOK, SenderTypeOK, SenderInv, AckInv
<1>6. /\ sndLastAck' \in Int /\ sndLastAck =< sndLastAck' /\ Arrived(sndLastAck')
      /\ flowWindowSize' \in Int
    BY <1>2, <1>4, <1>5
<1>7. SenderTypeOK'
    BY <1>1, <1>6 DEF IndInv, TypeOK, SenderTypeOK
<1>8. SenderInv'
  <2>1. sndLastDataAck' =< sndLastAck'
      BY <1>1, <1>5, <1>6
  <2>2. QED
      BY <1>1, <2>1 DEF IndInv, SenderInv, BlocksMatchNumbers, LossesInBuffer, PeerNeverDistrusted
<1>9. WorkerInv'
    BY <1>1 DEF IndInv, WorkerInv
<1>10. Promised =< Promised' /\ HandInv'
    BY <1>1, <1>6, HandAlone
<1>11. QED
    BY <1>1, <1>3, <1>5, <1>6, <1>7, <1>8, <1>9, <1>10, SenderStepQuiet

\* processCtrl, ACK taken: from here on its ACK2 promises what it says.
LEMMA RecvFullAckKeeps ==
    ASSUME IndInv, RecvFullAck
    PROVE  IndInv'
<1>1. PICK p \in net : RecvFullAckPacket(p)
    BY DEF RecvFullAck
<1>2. PICK rest \in SUBSET net :
         Arrives(p, rest) /\ net' \in {rest} \cup SendTo(rest, Ack2(p.ack))
    BY <1>1, Zenon DEF RecvFullAckPacket
<1>3. /\ UNCHANGED <<written, bufFirst, bufCurr, sndCurrSeqNo, sndLastAck, sndLastDataAck>>
      /\ UNCHANGED <<flowWindowSize, sndLossList, onSndList, sndState, worker, pktSeqNo, pktData>>
      /\ UNCHANGED rcvVars /\ sndEXP' = 1 /\ p.type = "ack"
      /\ ackStep = "none" /\ ackStep' = "check" /\ ackNo' = p.ack /\ ackWindow' = p.window
    BY <1>1 DEF RecvFullAckPacket, SndListens, sndBufVars, sndSeqVars, workerVars
<1>4. /\ p \in Message /\ PacketOK(p)
      /\ p.ack \in Int /\ p.window \in Int /\ p.ack =< rcvLastAck
  <2>1. p \in Message /\ PacketOK(p)
      BY DEF IndInv, TypeOK, NetInv
  <2>2. QED
      BY <1>3, <2>1, PacketFields DEF PacketOK
<1>5. /\ sndLastDataAck \in Int /\ sndCurrSeqNo \in Int /\ rcvLastAck' = rcvLastAck
      /\ sndLastDataAck =< rcvLastAck /\ Arrived(sndLastAck)
    BY <1>3 DEF IndInv, TypeOK, SenderTypeOK, AckInv, rcvVars, rcvSeqVars
<1>6. SenderTypeOK'
    BY <1>3, <1>4 DEF IndInv, TypeOK, SenderTypeOK
<1>7. SenderInv'
    BY <1>3 DEF IndInv, SenderInv, BlocksMatchNumbers, LossesInBuffer, PeerNeverDistrusted
<1>8. WorkerInv'
    BY <1>3 DEF IndInv, WorkerInv
<1>9. HandInv'
    BY <1>3, <1>4, <1>5 DEF HandInv
<1>10. Promised =< Promised' /\ p.ack =< Promised'
    BY <1>3, <1>4, <1>5 DEF Promised, Larger
<1>11. net' \subseteq net \cup {Ack2(p.ack)}
    BY <1>2, SendToAdds
<1>12. PacketOK(Ack2(p.ack))'
    BY <1>4, <1>10, PacketsMade DEF PacketOK
<1>13. {Ack2(p.ack)} \in SUBSET Message /\ \A q \in {Ack2(p.ack)} : PacketOK(q)'
    BY <1>4, <1>12, PacketsMade
<1>14. sndCurrSeqNo =< sndCurrSeqNo' /\ sndLastDataAck' =< rcvLastAck /\ Arrived(sndLastAck')
    BY <1>3, <1>5
<1>15. QED
    BY <1>3, <1>6, <1>7, <1>8, <1>9, <1>10, <1>11, <1>13, <1>14, SenderStep

\* processCtrl, ACK checked: its number is one the receiver has passed, so the
\* check of core.cpp:1998 does not fire.
LEMMA CheckAckKeeps ==
    ASSUME IndInv, CheckAck
    PROVE  IndInv'
<1>1. /\ UNCHANGED <<written, bufFirst, bufCurr, sndCurrSeqNo, sndLastDataAck, sndLossList>>
      /\ UNCHANGED <<onSndList, sndEXP, worker, pktSeqNo, pktData>>
      /\ UNCHANGED rcvVars /\ net' = net /\ ackStep = "check"
    BY DEF CheckAck, sndBufVars, workerVars
<1>2. /\ sndLastAck \in Int /\ sndLastDataAck \in Int /\ sndCurrSeqNo \in Int
      /\ ackNo \in Int /\ ackWindow \in Int /\ flowWindowSize \in Int
      /\ rcvLastAck \in Int /\ rcvCurrSeqNo \in Int
    BY DEF IndInv, TypeOK, SenderTypeOK, ReceiverTypeOK
<1>3. /\ ackNo =< rcvLastAck /\ sndLastDataAck =< sndLastAck /\ sndLastDataAck =< rcvLastAck
      /\ rcvLastAck =< rcvCurrSeqNo + 1 /\ rcvCurrSeqNo =< sndCurrSeqNo
    BY <1>1 DEF IndInv, HandInv, SenderInv, ReceiverInv, AckInv
<1>4. ~ AckTooFar(ackNo)
    BY <1>2, <1>3 DEF AckTooFar
<1>5. /\ IF ackNo >= sndLastAck
         THEN flowWindowSize' = ackWindow /\ sndLastAck' = ackNo
         ELSE UNCHANGED <<flowWindowSize, sndLastAck>>
      /\ ackStep' = "free" /\ ackWindow' = 0 /\ sndState' = sndState /\ ackNo' = ackNo
    BY <1>4 DEF CheckAck
<1>6. /\ sndLastAck' \in Int /\ sndLastAck =< sndLastAck' /\ ackNo =< sndLastAck'
      /\ sndLastAck' = sndLastAck \/ sndLastAck' = ackNo
      /\ flowWindowSize' \in Int
    BY <1>2, <1>5
<1>7. SenderTypeOK'
    BY <1>1, <1>5, <1>6 DEF IndInv, TypeOK, SenderTypeOK
<1>8. SenderInv'
  <2>1. sndLastDataAck' =< sndLastAck'
      BY <1>1, <1>2, <1>3, <1>6
  <2>2. QED
      BY <1>1, <1>5, <2>1 DEF IndInv, SenderInv, BlocksMatchNumbers, LossesInBuffer, PeerNeverDistrusted
<1>9. WorkerInv'
    BY <1>1 DEF IndInv, WorkerInv
<1>10. rcvLastAck' = rcvLastAck
    BY <1>1 DEF rcvVars, rcvSeqVars
<1>11. HandInv'
    BY <1>3, <1>5, <1>6, <1>10 DEF HandInv
<1>12. Promised =< Promised'
  <2>1. Promised' = Promised
      BY <1>1, <1>5 DEF Promised, Larger
  <2>2. Promised \in Int
      BY PromisedFacts DEF IndInv, TypeOK
  <2>3. QED
      BY <2>1, <2>2
<1>13. Arrived(sndLastAck')
  <2>1. Arrived(sndLastAck) /\ \A s \in rcvLossList : rcvLastAck =< s /\ s \in Int
      BY DEF IndInv, AckInv, ReceiverInv, TypeOK, ReceiverTypeOK
  <2>2. QED
      BY <1>2, <1>3, <1>6, <2>1 DEF Arrived
<1>14. QED
    BY <1>1, <1>2, <1>3, <1>7, <1>8, <1>9, <1>11, <1>12, <1>13, SenderStepQuiet

\* processCtrl, ACK acted upon: what is freed has been received, and the ACK2 is
\* made good.
LEMMA FreeAckedKeeps ==
    ASSUME IndInv, FreeAcked
    PROVE  IndInv'
<1>1. /\ UNCHANGED <<written, bufCurr, sndCurrSeqNo, sndLastAck, flowWindowSize, sndEXP, sndState>>
      /\ UNCHANGED <<worker, pktSeqNo, pktData>>
      /\ UNCHANGED rcvVars /\ net' = net
      /\ ackStep = "free" /\ ackStep' = "none" /\ ackNo' = ISN /\ ackWindow' = 0
    BY DEF FreeAcked, AckDone, sndLifeVars, workerVars
<1>2. IF ackNo > sndLastDataAck
      THEN /\ bufFirst' = bufFirst + (ackNo - sndLastDataAck)
           /\ sndLastDataAck' = ackNo
           /\ sndLossList' = {s \in sndLossList : s >= ackNo}
           /\ onSndList' = TRUE
      ELSE UNCHANGED <<bufFirst, sndLastDataAck, sndLossList, onSndList>>
    BY DEF FreeAcked
<1>3. /\ sndLastAck \in Int /\ sndLastDataAck \in Int /\ sndCurrSeqNo \in Int /\ ackNo \in Int
      /\ bufFirst \in Int /\ bufCurr \in Int /\ written \in Int
      /\ rcvLastAck \in Int /\ rcvCurrSeqNo \in Int
      /\ sndLossList \subseteq Int
    BY DEF IndInv, TypeOK, SenderTypeOK, ReceiverTypeOK
<1>4. /\ ISN =< sndLastDataAck /\ sndLastDataAck =< sndLastAck
      /\ bufFirst = sndLastDataAck - ISN /\ bufCurr = sndCurrSeqNo + 1 - ISN
      /\ bufCurr =< written /\ bufFirst =< bufCurr
      /\ rcvLastAck =< rcvCurrSeqNo + 1 /\ rcvCurrSeqNo =< sndCurrSeqNo
      /\ sndLastDataAck =< rcvLastAck /\ Arrived(sndLastAck)
      /\ ackNo =< rcvLastAck /\ ackNo =< sndLastAck
    BY <1>1 DEF IndInv, SenderInv, BlocksMatchNumbers, ReceiverInv, AckInv, HandInv
<1>5. /\ sndLastDataAck' \in Int /\ sndLastDataAck =< sndLastDataAck'
      /\ ackNo =< sndLastDataAck' /\ sndLastDataAck' =< rcvLastAck
      /\ sndLastDataAck' =< sndLastAck
      /\ sndLastDataAck' = sndLastDataAck \/ sndLastDataAck' = ackNo
    BY <1>2, <1>3, <1>4
<1>6. /\ bufFirst' = sndLastDataAck' - ISN
      /\ bufFirst' \in Int /\ bufFirst =< bufFirst' /\ bufFirst' =< bufCurr
    BY <1>2, <1>3, <1>4, TransferAssumption
<1>7. /\ sndLossList' \subseteq sndLossList /\ \A s \in sndLossList' : sndLastDataAck' =< s
      /\ onSndList' \in BOOLEAN
  <2>1. CASE ackNo > sndLastDataAck
      BY <1>2, <1>3, <2>1
  <2>2. CASE ~ (ackNo > sndLastDataAck)
      BY <1>2, <2>2 DEF IndInv, SenderInv, LossesInBuffer, TypeOK, SenderTypeOK
  <2>3. QED
      BY <2>1, <2>2
<1>8. SenderTypeOK'
  <2>1. written' - bufFirst' \in 0 .. SndBufSize
    <3>1. written - bufFirst =< SndBufSize
        BY <1>3, TransferAssumption DEF IndInv, TypeOK, SenderTypeOK
    <3>2. written' = written /\ SndBufSize \in Int
        BY <1>1, TransferAssumption
    <3>3. 0 =< written' - bufFirst' /\ written' - bufFirst' =< SndBufSize
        BY <1>3, <1>4, <1>6, <3>1, <3>2
    <3>4. QED
        BY <1>3, <1>6, <3>2, <3>3
  <2>2. ackStep' \in {"none", "check", "free"} /\ ackNo' \in Int /\ ackWindow' \in Int
      BY <1>1, TransferAssumption
  <2>3. sndLossList' \subseteq Int
      BY <1>3, <1>7, Zenon
  <2>4. QED
      BY <1>1, <1>5, <1>6, <1>7, <2>1, <2>2, <2>3 DEF IndInv, TypeOK, SenderTypeOK
<1>9. SenderInv'
  <2>1. ISN =< sndLastDataAck' /\ sndLastDataAck' =< sndLastAck'
      BY <1>1, <1>3, <1>4, <1>5, TransferAssumption
  <2>2. BlocksMatchNumbers'
      BY <1>1, <1>4, <1>6 DEF BlocksMatchNumbers
  <2>3. LossesInBuffer'
      BY <1>1, <1>7 DEF IndInv, SenderInv, LossesInBuffer
  <2>4. QED
      BY <1>1, <2>1, <2>2, <2>3 DEF IndInv, SenderInv, PeerNeverDistrusted
<1>10. WorkerInv'
    BY <1>1 DEF IndInv, WorkerInv
<1>11. HandInv'
    BY <1>1 DEF HandInv
<1>12. Promised =< Promised'
    BY <1>1, <1>3, <1>5 DEF Promised, Larger
<1>13. sndCurrSeqNo =< sndCurrSeqNo' /\ Arrived(sndLastAck')
    BY <1>1, <1>3, <1>4
<1>14. QED
    BY <1>1, <1>5, <1>8, <1>9, <1>10, <1>11, <1>12, <1>13, SenderStepQuiet

\* processCtrl, NAK: the range was sent, so the check of core.cpp:2140 does not
\* fire, and what is acknowledged already is cut off.
LEMMA RecvNakKeeps ==
    ASSUME IndInv, RecvNak
    PROVE  IndInv'
<1>1. /\ UNCHANGED <<written, bufFirst, bufCurr, sndCurrSeqNo, sndLastAck, sndLastDataAck>>
      /\ UNCHANGED <<flowWindowSize, worker, pktSeqNo, pktData>>
      /\ UNCHANGED <<ackStep, ackNo, ackWindow>> /\ UNCHANGED rcvVars /\ sndEXP' = 1
    BY DEF RecvNak, ackVars, sndBufVars, workerVars
<1>2. PICK p \in net :
         /\ p.type = "nak"
         /\ Arrives(p, net')
         /\ IF p.first > p.last \/ p.last > sndCurrSeqNo
            THEN sndState' = "insecure" /\ UNCHANGED <<sndLossList, onSndList>>
            ELSE /\ sndLossList' = sndLossList \cup NakRange(p.first, p.last)
                 /\ onSndList' = TRUE
                 /\ UNCHANGED sndState
    BY Zenon DEF RecvNak
<1>3. p \in Message /\ PacketOK(p) /\ net' \subseteq net
    BY <1>2 DEF IndInv, TypeOK, NetInv, Arrives
<1>4. /\ p.first \in Int /\ p.last \in Int
      /\ p.first =< p.last /\ p.last =< rcvCurrSeqNo
    BY <1>2, <1>3, PacketFields DEF PacketOK
<1>5. /\ sndLastAck \in Int /\ sndLastDataAck \in Int /\ sndCurrSeqNo \in Int /\ rcvCurrSeqNo \in Int
      /\ rcvCurrSeqNo =< sndCurrSeqNo /\ sndLastDataAck =< sndLastAck
    BY DEF IndInv, TypeOK, SenderTypeOK, ReceiverTypeOK, SenderInv, ReceiverInv
<1>6. /\ sndLossList' = sndLossList \cup NakRange(p.first, p.last)
      /\ onSndList' = TRUE /\ sndState' = sndState
    BY <1>2, <1>4, <1>5
<1>7. \A s \in NakRange(p.first, p.last) : s \in Int /\ sndLastDataAck =< s /\ s =< sndCurrSeqNo
    BY <1>4, <1>5 DEF NakRange, Larger
<1>8. SenderTypeOK'
    BY <1>1, <1>6, <1>7 DEF IndInv, TypeOK, SenderTypeOK
<1>9. LossesInBuffer'
    BY <1>1, <1>6, <1>7 DEF IndInv, SenderInv, LossesInBuffer
<1>10. SenderInv'
    BY <1>1, <1>6, <1>9 DEF IndInv, SenderInv, BlocksMatchNumbers, PeerNeverDistrusted
<1>11. WorkerInv'
    BY <1>1 DEF IndInv, WorkerInv
<1>12. QED
    BY <1>1, <1>3, <1>8, <1>10, <1>11, NumbersAlone, SenderStepQuiet

\* checkTimers, EXP: what is put on the loss list is in the buffer.
LEMMA SndExpireKeeps ==
    ASSUME IndInv, SndExpire
    PROVE  IndInv'
<1>1. /\ UNCHANGED <<written, bufFirst, bufCurr, sndCurrSeqNo, sndLastAck, sndLastDataAck>>
      /\ UNCHANGED <<flowWindowSize, worker, pktSeqNo, pktData>>
      /\ UNCHANGED <<ackStep, ackNo, ackWindow>> /\ UNCHANGED rcvVars
    BY DEF SndExpire, ackVars, sndBufVars, workerVars
<1>2. /\ sndLossList' = sndLossList \/ sndLossList' = sndLastAck .. sndCurrSeqNo
      /\ onSndList' \in BOOLEAN
      /\ sndState' = sndState \/ sndState' = "broken"
    BY DEF SndExpire, IndInv, TypeOK, SenderTypeOK
<1>3. sndEXP' \in Nat
    BY TransferAssumption DEF SndExpire, Smaller, IndInv, TypeOK, SenderTypeOK
<1>4. /\ sndLastAck \in Int /\ sndLastDataAck \in Int /\ sndCurrSeqNo \in Int
      /\ sndLastDataAck =< sndLastAck
    BY DEF IndInv, TypeOK, SenderTypeOK, SenderInv
<1>5. SenderTypeOK'
  <2>1. sndLossList' \subseteq Int
    <3>1. sndLossList \subseteq Int
        BY DEF IndInv, TypeOK, SenderTypeOK
    <3>2. sndLastAck .. sndCurrSeqNo \subseteq Int
        BY <1>4
    <3>3. QED
        BY <1>2, <3>1, <3>2, Zenon
  <2>2. QED
      BY <1>1, <1>2, <1>3, <2>1, Zenon DEF IndInv, TypeOK, SenderTypeOK
<1>6. LossesInBuffer'
    BY <1>1, <1>2, <1>4 DEF IndInv, SenderInv, LossesInBuffer
<1>7. SenderInv'
    BY <1>1, <1>2, <1>6 DEF IndInv, SenderInv, BlocksMatchNumbers, PeerNeverDistrusted
<1>8. WorkerInv'
    BY <1>1 DEF IndInv, WorkerInv
<1> DEFINE k == KeepAlive("rcv")
<1>9. net' \subseteq net \cup {k}
    BY SendToAdds DEF SndExpire
<1>10. k \in Message /\ k.type = "alive"
    BY PacketsMade
<1> HIDE DEF k
<1>11. {k} \in SUBSET Message /\ \A q \in {k} : PacketOK(q)'
    BY <1>10 DEF PacketOK, k, KeepAlive
<1>12. QED
    BY <1>1, <1>5, <1>7, <1>8, <1>9, <1>11, NumbersAlone, SenderStep

\* Any other packet only resets m_iEXPCount.
LEMMA SndRecvKeepAliveKeeps ==
    ASSUME IndInv, SndRecvKeepAlive
    PROVE  IndInv'
<1>1. /\ UNCHANGED <<written, bufFirst, bufCurr, sndCurrSeqNo, sndLastAck, sndLastDataAck>>
      /\ UNCHANGED <<flowWindowSize, sndLossList, onSndList, sndState, worker, pktSeqNo, pktData>>
      /\ UNCHANGED <<ackStep, ackNo, ackWindow>> /\ UNCHANGED rcvVars /\ sndEXP' = 1 /\ net' \subseteq net
    BY DEF SndRecvKeepAlive, ackVars, sndBufVars, sndSeqVars, workerVars, Arrives
<1>2. SenderTypeOK'
    BY <1>1 DEF IndInv, TypeOK, SenderTypeOK
<1>3. SenderInv'
    BY <1>1 DEF IndInv, SenderInv, BlocksMatchNumbers, LossesInBuffer, PeerNeverDistrusted
<1>4. WorkerInv'
    BY <1>1 DEF IndInv, WorkerInv
<1>5. QED
    BY <1>1, <1>2, <1>3, <1>4, NumbersAlone, SenderStepQuiet

-----------------------------------------------------------------------------
(* The steps of the receiving host.                                        *)

\* A step of the receiver that neither stores, releases nor reads a packet.
LEMMA BufferAlone ==
    ASSUME IndInv, UNCHANGED sndVars, UNCHANGED rcvDataVars,
           UNCHANGED <<rcvCurrSeqNo, rcvLastAck, rcvLossList>>,
           rcvLastAckAck' \in Int, rcvLastAckAck' =< Promised,
           rcvEXP' \in Nat, rcvState' \in {"open", "broken"},
           NEW new \in SUBSET Message, net' \subseteq net \cup new,
           \A p \in new : PacketOK(p)'
    PROVE  IndInv'
<1>1. UNCHANGED <<rcvBuffer, delivered>> /\ sndCurrSeqNo' = sndCurrSeqNo
    BY DEF rcvDataVars, sndVars, sndSeqVars
<1>2. Held' = Held /\ StartSeqNo' = StartSeqNo
    BY <1>1 DEF Held, StartSeqNo
<1>3. ReceiverTypeOK'
    BY <1>1, <1>2 DEF IndInv, TypeOK, ReceiverTypeOK
<1>4. ReceiverInv'
    BY <1>1, <1>2 DEF IndInv, ReceiverInv, DeliveredInOrder
<1>5. rcvLastAck =< rcvLastAck' /\ rcvCurrSeqNo =< rcvCurrSeqNo'
    BY DEF IndInv, TypeOK, ReceiverTypeOK
<1>6. \A x \in Int : Arrived(x) => Arrived(x)'
    BY DEF Arrived
<1>7. QED
    BY <1>3, <1>4, <1>5, <1>6, ReceiverStep

\* processCtrl, ACK2: the sender made it of an ACK it has acted upon, or is
\* about to.
LEMMA RecvAck2Keeps ==
    ASSUME IndInv, RecvAck2
    PROVE  IndInv'
<1>1. PICK p \in net : RecvAck2Packet(p)
    BY DEF RecvAck2
<1>2. p \in Message /\ PacketOK(p) /\ p.type = "ack2" /\ net' \subseteq net
    BY <1>1 DEF IndInv, TypeOK, NetInv, RecvAck2Packet, Arrives
<1>3. p.ack \in Int /\ p.ack =< Promised
    BY <1>2, PacketFields DEF PacketOK
<1>4. rcvLastAckAck \in Int /\ rcvLastAckAck =< Promised /\ Promised \in Int
    BY PromisedFacts DEF IndInv, TypeOK, ReceiverTypeOK, AckInv
<1>5. rcvLastAckAck' \in Int /\ rcvLastAckAck' =< Promised
    BY <1>1, <1>3, <1>4 DEF RecvAck2Packet, Larger
<1>6. /\ UNCHANGED sndVars /\ UNCHANGED rcvDataVars
      /\ UNCHANGED <<rcvCurrSeqNo, rcvLastAck, rcvLossList>>
      /\ rcvEXP' = 1 /\ rcvState' = rcvState
    BY <1>1 DEF RecvAck2Packet
<1>7. rcvEXP' \in Nat /\ rcvState' \in {"open", "broken"}
    BY <1>6 DEF IndInv, TypeOK, ReceiverTypeOK
<1>8. QED
  <2>1. {} \in SUBSET Message /\ net' \subseteq net \cup {} /\ \A q \in {} : PacketOK(q)'
      BY <1>2
  <2>2. QED
      BY <1>5, <1>6, <1>7, <2>1, BufferAlone

\* Any other packet only resets m_iEXPCount.
LEMMA RcvRecvKeepAliveKeeps ==
    ASSUME IndInv, RcvRecvKeepAlive
    PROVE  IndInv'
<1>1. /\ UNCHANGED sndVars /\ UNCHANGED rcvDataVars
      /\ UNCHANGED <<rcvCurrSeqNo, rcvLastAck, rcvLossList, rcvLastAckAck>>
      /\ rcvEXP' = 1 /\ rcvState' = rcvState /\ net' \subseteq net
    BY DEF RcvRecvKeepAlive, rcvSeqVars, Arrives
<1>2. /\ rcvEXP' \in Nat /\ rcvState' \in {"open", "broken"}
      /\ rcvLastAckAck' \in Int /\ rcvLastAckAck' =< Promised
    BY <1>1 DEF IndInv, TypeOK, ReceiverTypeOK, AckInv
<1>3. {} \in SUBSET Message /\ net' \subseteq net \cup {} /\ \A q \in {} : PacketOK(q)'
    BY <1>1
<1>4. QED
    BY <1>1, <1>2, <1>3, BufferAlone

\* sendCtrl(2), lite: it says no more than what has arrived.
LEMMA SendLiteAckKeeps ==
    ASSUME IndInv, SendLiteAck
    PROVE  IndInv'
<1>1. /\ UNCHANGED sndVars /\ UNCHANGED rcvDataVars
      /\ UNCHANGED <<rcvCurrSeqNo, rcvLastAck, rcvLossList, rcvLastAckAck, rcvEXP, rcvState>>
    BY DEF SendLiteAck, rcvVars, rcvSeqVars, rcvLifeVars
<1>2. AckPoint \in Int /\ Arrived(AckPoint)
    BY AckPointFacts DEF IndInv
<1>3. PICK p \in Message : p = LiteAck(AckPoint) /\ p.type = "lite" /\ p.ack = AckPoint
    BY <1>2, PacketsMade
<1>4. net' \subseteq net \cup {p}
    BY <1>3, SendToAdds DEF SendLiteAck
<1>5. PacketOK(p)'
    BY <1>1, <1>2, <1>3 DEF PacketOK, Arrived
<1>6. /\ rcvEXP' \in Nat /\ rcvState' \in {"open", "broken"}
      /\ rcvLastAckAck' \in Int /\ rcvLastAckAck' =< Promised
    BY <1>1 DEF IndInv, TypeOK, ReceiverTypeOK, AckInv
<1>7. {p} \in SUBSET Message /\ \A q \in {p} : PacketOK(q)'
    BY <1>5
<1>8. QED
    BY <1>1, <1>4, <1>6, <1>7, BufferAlone

\* sendCtrl(2): what is released to the application is all before the first
\* loss, and there every slot is filled.
LEMMA SendFullAckKeeps ==
    ASSUME IndInv, SendFullAck
    PROVE  IndInv'
<1>1. /\ UNCHANGED sndVars /\ UNCHANGED <<rcvBuffer, delivered>>
      /\ UNCHANGED <<rcvCurrSeqNo, rcvLossList, rcvLastAckAck, rcvEXP, rcvState>>
      /\ rcvLastAck' = AckPoint
    BY DEF SendFullAck, rcvDataVars, rcvLifeVars
<1>2. AckPoint \in Int /\ Arrived(AckPoint) /\ rcvLastAck =< AckPoint
    BY AckPointFacts DEF IndInv
<1>3. Held' = Held /\ StartSeqNo' = StartSeqNo /\ sndCurrSeqNo' = sndCurrSeqNo
    BY <1>1 DEF Held, StartSeqNo, sndVars, sndSeqVars
<1>4. /\ rcvLastAck \in Int /\ rcvCurrSeqNo \in Int /\ rcvLossList \subseteq Int
      /\ StartSeqNo \in Int /\ rcvLastAckAck \in Int
    BY TransferAssumption DEF IndInv, TypeOK, ReceiverTypeOK, StartSeqNo
<1>5. ReceiverTypeOK'
    BY <1>1, <1>2, <1>3 DEF IndInv, TypeOK, ReceiverTypeOK
<1>6. ReceiverInv'
  <2>1. /\ StartSeqNo =< rcvLastAck
        /\ \A s \in StartSeqNo .. rcvLastAck - 1 : s \in Held
        /\ rcvLossList = {s \in rcvLastAck .. rcvCurrSeqNo : s \notin Held}
      BY DEF IndInv, ReceiverInv
  <2>2. \A s \in rcvLastAck .. AckPoint - 1 : s \in Held
      BY <1>2, <1>4, <2>1 DEF Arrived
  <2>3. \A s \in StartSeqNo .. AckPoint - 1 : s \in Held
      BY <1>2, <1>4, <2>1, <2>2
  <2>4. rcvLossList = {s \in AckPoint .. rcvCurrSeqNo : s \notin Held}
      BY <1>2, <1>4, <2>1, <2>2 DEF Arrived
  <2>5. StartSeqNo =< AckPoint /\ AckPoint =< rcvCurrSeqNo + 1
      BY <1>2, <1>4, <2>1 DEF Arrived
  <2>6. \A s \in Held : /\ StartSeqNo =< s /\ s =< rcvCurrSeqNo
                         /\ rcvBuffer[s] = s - ISN
      BY DEF IndInv, ReceiverInv
  <2>7. rcvCurrSeqNo =< sndCurrSeqNo /\ DeliveredInOrder'
      BY <1>1 DEF IndInv, ReceiverInv, DeliveredInOrder
  <2>8. QED
      BY <1>1, <1>3, <2>3, <2>4, <2>5, <2>6, <2>7 DEF ReceiverInv
<1>7. PICK p \in Message : /\ p = FullAck(AckPoint, AckWindow(AckPoint))
                           /\ p.type = "ack" /\ p.ack = AckPoint
  <2>1. AckWindow(AckPoint) \in Int
      BY <1>2, <1>4, TransferAssumption DEF AckWindow, Larger
  <2>2. QED
      BY <1>2, <2>1, PacketsMade
<1>8. net' \subseteq net \cup {p}
    BY <1>1, <1>7, SendToAdds DEF SendFullAck
<1>9. {p} \in SUBSET Message /\ \A q \in {p} : PacketOK(q)'
    BY <1>1, <1>2, <1>7 DEF PacketOK
<1>10. \A x \in Int : Arrived(x) => Arrived(x)'
    BY <1>1 DEF Arrived
<1>11. /\ rcvLastAck =< rcvLastAck' /\ rcvCurrSeqNo =< rcvCurrSeqNo'
       /\ rcvLastAckAck' =< Promised
    BY <1>1, <1>2, <1>4 DEF IndInv, AckInv
<1>12. QED
    BY <1>1, <1>5, <1>6, <1>8, <1>9, <1>10, <1>11, ReceiverStep

\* checkTimers, EXP: a keep-alive, or the end.
LEMMA RcvExpireKeeps ==
    ASSUME IndInv, RcvExpire
    PROVE  IndInv'
<1>1. /\ UNCHANGED sndVars /\ UNCHANGED rcvDataVars
      /\ UNCHANGED <<rcvCurrSeqNo, rcvLastAck, rcvLossList, rcvLastAckAck>>
      /\ rcvState' = rcvState \/ rcvState' = "broken"
    BY DEF RcvExpire, rcvSeqVars
<1>2. rcvEXP' \in Nat
    BY TransferAssumption DEF RcvExpire, Smaller, IndInv, TypeOK, ReceiverTypeOK
<1>3. PICK p \in Message : p = KeepAlive("snd") /\ p.type = "alive"
    BY PacketsMade
<1>4. net' \subseteq net \cup {p}
    BY <1>3, SendToAdds DEF RcvExpire
<1>5. {p} \in SUBSET Message /\ \A q \in {p} : PacketOK(q)'
    BY <1>3 DEF PacketOK
<1>6. /\ rcvState' \in {"open", "broken"}
      /\ rcvLastAckAck' \in Int /\ rcvLastAckAck' =< Promised
    BY <1>1 DEF IndInv, TypeOK, ReceiverTypeOK, AckInv
<1>7. QED
    BY <1>1, <1>2, <1>4, <1>5, <1>6, BufferAlone

\* recv: the slot at m_iStartPos holds the packet whose number is next.
LEMMA AppRecvKeeps ==
    ASSUME IndInv, AppRecv
    PROVE  IndInv'
<1>1. /\ UNCHANGED sndVars /\ net' = net
      /\ UNCHANGED <<rcvCurrSeqNo, rcvLastAck, rcvLossList, rcvLastAckAck, rcvEXP, rcvState>>
      /\ StartSeqNo < rcvLastAck
      /\ delivered' = Append(delivered, UnitAt(StartSeqNo))
      /\ rcvBuffer' = [s \in Held \ {StartSeqNo} |-> rcvBuffer[s]]
    BY DEF AppRecv, rcvSeqVars, rcvLifeVars
<1>2. /\ rcvLastAck \in Int /\ rcvCurrSeqNo \in Int /\ Held \subseteq Int
      /\ delivered \in Seq(Int) /\ Len(delivered) \in Nat
      /\ StartSeqNo \in Int /\ rcvLastAckAck \in Int
    BY TransferAssumption DEF IndInv, TypeOK, ReceiverTypeOK, StartSeqNo
<1>3. /\ StartSeqNo =< rcvLastAck /\ rcvLastAck =< rcvCurrSeqNo + 1
      /\ rcvCurrSeqNo =< sndCurrSeqNo
      /\ \A s \in Held : /\ StartSeqNo =< s /\ s =< rcvCurrSeqNo
                         /\ rcvBuffer[s] = s - ISN
      /\ \A s \in StartSeqNo .. rcvLastAck - 1 : s \in Held
      /\ rcvLossList = {s \in rcvLastAck .. rcvCurrSeqNo : s \notin Held}
      /\ DeliveredInOrder
    BY DEF IndInv, ReceiverInv
<1>4. UnitAt(StartSeqNo) = Len(delivered)
  <2>1. StartSeqNo \in Held
      BY <1>1, <1>2, <1>3
  <2>2. StartSeqNo - ISN = Len(delivered)
      BY <1>2, TransferAssumption DEF StartSeqNo
  <2>3. QED
      BY <1>3, <2>1, <2>2 DEF UnitAt
<1>5. /\ delivered' \in Seq(Int) /\ Len(delivered') = Len(delivered) + 1
      /\ \A i \in 1 .. Len(delivered) : delivered'[i] = delivered[i]
      /\ delivered'[Len(delivered) + 1] = Len(delivered)
    BY <1>1, <1>2, <1>4
<1>6. StartSeqNo' = StartSeqNo + 1
    BY <1>2, <1>5, TransferAssumption DEF StartSeqNo
<1>7. Held' = Held \ {StartSeqNo} /\ \A s \in Held' : rcvBuffer'[s] = rcvBuffer[s]
    BY <1>1 DEF Held
<1>8. ReceiverTypeOK'
  <2>1. rcvBuffer' \in [Held' -> Int]
    <3>1. \A s \in Held : rcvBuffer[s] \in Int
        BY DEF IndInv, TypeOK, ReceiverTypeOK
    <3>2. QED
        BY <1>1, <1>7, <3>1
  <2>2. Held' \subseteq Int
      BY <1>2, <1>7
  <2>3. QED
      BY <1>1, <1>5, <2>1, <2>2 DEF IndInv, TypeOK, ReceiverTypeOK
<1>9. ReceiverInv'
  <2>1. DeliveredInOrder'
      BY <1>2, <1>3, <1>5 DEF DeliveredInOrder
  <2>2. rcvLossList = {s \in rcvLastAck .. rcvCurrSeqNo : s \notin Held'}
      BY <1>1, <1>2, <1>3, <1>7
  <2>3. \A s \in StartSeqNo' .. rcvLastAck - 1 : s \in Held'
      BY <1>1, <1>2, <1>3, <1>6, <1>7
  <2>4. \A s \in Held' : /\ StartSeqNo' =< s /\ s =< rcvCurrSeqNo
                         /\ rcvBuffer'[s] = s - ISN
      BY <1>2, <1>3, <1>6, <1>7
  <2>5. StartSeqNo' =< rcvLastAck
      BY <1>1, <1>2, <1>6
  <2>6. sndCurrSeqNo' = sndCurrSeqNo
      BY <1>1 DEF sndVars, sndSeqVars
  <2>7. QED
      BY <1>1, <1>3, <2>1, <2>2, <2>3, <2>4, <2>5, <2>6 DEF ReceiverInv
<1>10. \A x \in Int : Arrived(x) => Arrived(x)'
    BY <1>1 DEF Arrived
<1>11. /\ rcvLastAck =< rcvLastAck' /\ rcvCurrSeqNo =< rcvCurrSeqNo'
       /\ rcvLastAckAck' =< Promised
    BY <1>1, <1>2 DEF IndInv, AckInv
<1>12. {} \in SUBSET Message /\ net' \subseteq net \cup {} /\ \A q \in {} : PacketOK(q)'
    BY <1>1
<1>13. QED
    BY <1>1, <1>8, <1>9, <1>10, <1>11, <1>12, ReceiverStep

\* processData: a packet that fits carries its own block, and the loss list
\* stays the list of the holes.
LEMMA StoreDataKeeps ==
    ASSUME IndInv, NEW p \in net, p.type = "data", Fits(p.seq), UNCHANGED sndVars,
           NEW rest \in SUBSET net, StoreData(p, rest),
           UNCHANGED <<delivered, rcvLastAck, rcvLastAckAck, rcvState>>, rcvEXP' = 1
    PROVE  IndInv'
<1>1. p \in Message /\ PacketOK(p) /\ p.seq \in Int /\ p.data \in Int
  <2>1. p \in Message /\ PacketOK(p)
      BY DEF IndInv, TypeOK, NetInv
  <2>2. QED
      BY <2>1, PacketFields
<1>2. /\ rcvLastAck \in Int /\ rcvCurrSeqNo \in Int /\ Held \subseteq Int
      /\ rcvLossList \subseteq Int /\ StartSeqNo \in Int
      /\ \A s \in Held : rcvBuffer[s] \in Int
    BY TransferAssumption DEF IndInv, TypeOK, ReceiverTypeOK, StartSeqNo
<1>3. p.seq =< sndCurrSeqNo /\ rcvLastAck =< p.seq /\ p.seq \notin Held /\ p.data = p.seq - ISN
    BY <1>1, <1>2 DEF PacketOK, Fits
<1>4. /\ StartSeqNo =< rcvLastAck /\ rcvLastAck =< rcvCurrSeqNo + 1
      /\ rcvCurrSeqNo =< sndCurrSeqNo
      /\ \A s \in Held : /\ StartSeqNo =< s /\ s =< rcvCurrSeqNo
                         /\ rcvBuffer[s] = s - ISN
      /\ \A s \in StartSeqNo .. rcvLastAck - 1 : s \in Held
      /\ rcvLossList = {s \in rcvLastAck .. rcvCurrSeqNo : s \notin Held}
      /\ DeliveredInOrder
    BY DEF IndInv, ReceiverInv
<1>5. rcvBuffer' = [s \in Held \cup {p.seq} |-> IF s = p.seq THEN p.data ELSE rcvBuffer[s]]
    BY DEF StoreData
<1>6. /\ Held' = Held \cup {p.seq} /\ rcvBuffer'[p.seq] = p.seq - ISN
      /\ \A s \in Held : rcvBuffer'[s] = rcvBuffer[s]
    BY <1>3, <1>5 DEF Held
<1>7. StartSeqNo' = StartSeqNo /\ DeliveredInOrder' /\ sndCurrSeqNo' = sndCurrSeqNo
    BY <1>4 DEF StartSeqNo, DeliveredInOrder, sndVars, sndSeqVars
<1>8. rcvBuffer' \in [Held' -> Int] /\ Held' \subseteq Int
    BY <1>1, <1>2, <1>5, <1>6
<1>9. /\ \A s \in StartSeqNo' .. rcvLastAck' - 1 : s \in Held'
      /\ \A s \in Held' : StartSeqNo' =< s /\ rcvBuffer'[s] = s - ISN
    BY <1>1, <1>2, <1>3, <1>4, <1>6, <1>7
<1>10. CASE p.seq > rcvCurrSeqNo
  <2>1. /\ rcvCurrSeqNo' = p.seq
        /\ rcvLossList' = rcvLossList \cup (rcvCurrSeqNo + 1 .. p.seq - 1)
        /\ net' \in IF p.seq > rcvCurrSeqNo + 1
                    THEN SendTo(rest, Nak(rcvCurrSeqNo + 1, p.seq - 1))
                    ELSE {rest}
      BY <1>10 DEF StoreData
  <2>2. rcvLossList' = {s \in rcvLastAck .. p.seq : s \notin Held'}
      BY <1>1, <1>2, <1>3, <1>4, <1>6, <1>10, <2>1
  <2>3. \A s \in Held' : s =< p.seq
      BY <1>1, <1>2, <1>4, <1>6, <1>10
  <2>4. ReceiverTypeOK'
    <3>1. rcvLossList' \subseteq Int
        BY <2>2, <1>1, <1>2
    <3>2. QED
        BY <1>1, <1>8, <2>1, <3>1 DEF IndInv, TypeOK, ReceiverTypeOK
  <2>5. StartSeqNo' =< rcvLastAck' /\ rcvLastAck' =< rcvCurrSeqNo' + 1
      BY <1>1, <1>2, <1>3, <1>4, <1>7, <2>1
  <2>6. ReceiverInv'
      BY <1>3, <1>7, <1>9, <2>1, <2>2, <2>3, <2>5 DEF ReceiverInv
  <2>7. \A x \in Int : Arrived(x) => Arrived(x)'
      BY <1>1, <1>2, <1>10, <2>1 DEF Arrived
  <2>8. rcvCurrSeqNo =< rcvCurrSeqNo'
      BY <1>1, <1>2, <1>10, <2>1
  <2>9. CASE p.seq > rcvCurrSeqNo + 1
    <3>1. PICK q \in Message : /\ q = Nak(rcvCurrSeqNo + 1, p.seq - 1) /\ q.type = "nak"
                               /\ q.first = rcvCurrSeqNo + 1 /\ q.last = p.seq - 1
        BY <1>1, <1>2, PacketsMade
    <3>2. net' \subseteq net \cup {q}
        BY <2>1, <2>9, <3>1, SendToAdds
    <3>3. q.first =< q.last /\ q.last =< rcvCurrSeqNo'
        BY <1>1, <1>2, <2>1, <2>9, <3>1
    <3>4. {q} \in SUBSET Message /\ \A r \in {q} : PacketOK(r)'
        BY <3>1, <3>3 DEF PacketOK
    <3>5. rcvLastAck =< rcvLastAck' /\ rcvLastAckAck' =< Promised
        BY <1>2 DEF IndInv, AckInv
    <3>6. QED
        BY <2>4, <2>6, <2>7, <2>8, <3>2, <3>4, <3>5, ReceiverStep
  <2>10. CASE ~ (p.seq > rcvCurrSeqNo + 1)
    <3>1. {} \in SUBSET Message /\ net' \subseteq net \cup {} /\ \A r \in {} : PacketOK(r)'
        BY <2>1, <2>10
    <3>2. rcvLastAck =< rcvLastAck' /\ rcvLastAckAck' =< Promised
        BY <1>2 DEF IndInv, AckInv
    <3>3. QED
        BY <2>4, <2>6, <2>7, <2>8, <3>1, <3>2, ReceiverStep
  <2>11. QED
      BY <2>9, <2>10
<1>11. CASE ~ (p.seq > rcvCurrSeqNo)
  <2>1. rcvCurrSeqNo' = rcvCurrSeqNo /\ rcvLossList' = rcvLossList \ {p.seq} /\ net' = rest
      BY <1>11 DEF StoreData
  <2>2. rcvLossList' = {s \in rcvLastAck .. rcvCurrSeqNo : s \notin Held'}
      BY <1>1, <1>2, <1>3, <1>4, <1>6, <1>11, <2>1
  <2>3. \A s \in Held' : s =< rcvCurrSeqNo
      BY <1>1, <1>2, <1>4, <1>6, <1>11
  <2>4. ReceiverTypeOK'
      BY <1>2, <1>8, <2>1 DEF IndInv, TypeOK, ReceiverTypeOK
  <2>5. ReceiverInv'
      BY <1>4, <1>7, <1>9, <2>1, <2>2, <2>3 DEF ReceiverInv
  <2>6. \A x \in Int : Arrived(x) => Arrived(x)'
      BY <2>1 DEF Arrived
  <2>7. {} \in SUBSET Message /\ net' \subseteq net \cup {} /\ \A r \in {} : PacketOK(r)'
      BY <2>1
  <2>8. /\ rcvLastAck =< rcvLastAck' /\ rcvCurrSeqNo =< rcvCurrSeqNo'
        /\ rcvLastAckAck' =< Promised
      BY <1>2, <2>1 DEF IndInv, AckInv
  <2>9. QED
      BY <2>4, <2>5, <2>6, <2>7, <2>8, ReceiverStep
<1>12. QED
    BY <1>10, <1>11

\* processData: store what fits, drop what does not.
LEMMA RecvDataKeeps ==
    ASSUME IndInv, RecvData
    PROVE  IndInv'
<1>1. PICK p \in net : RecvDataPacket(p)
    BY DEF RecvData
<1>2. PICK rest \in SUBSET net :
         /\ Arrives(p, rest)
         /\ IF Fits(p.seq)
            THEN StoreData(p, rest)
            ELSE net' = rest /\ UNCHANGED <<rcvBuffer, rcvCurrSeqNo, rcvLossList>>
    BY <1>1, Zenon DEF RecvDataPacket
<1>3. /\ p.type = "data" /\ rcvEXP' = 1 /\ UNCHANGED sndVars
      /\ UNCHANGED <<delivered, rcvLastAck, rcvLastAckAck, rcvState>>
    BY <1>1 DEF RecvDataPacket
<1>4. CASE Fits(p.seq)
    BY <1>2, <1>3, <1>4, StoreDataKeeps
<1>5. CASE ~ Fits(p.seq)
  <2>1. net' \subseteq net /\ UNCHANGED <<rcvBuffer, rcvCurrSeqNo, rcvLossList>>
      BY <1>2, <1>5
  <2>2. UNCHANGED rcvDataVars /\ UNCHANGED <<rcvCurrSeqNo, rcvLastAck, rcvLossList>>
      BY <1>3, <2>1 DEF rcvDataVars
  <2>3. /\ rcvLastAckAck' \in Int /\ rcvLastAckAck' =< Promised
        /\ rcvEXP' \in Nat /\ rcvState' \in {"open", "broken"}
      BY <1>3 DEF IndInv, TypeOK, ReceiverTypeOK, AckInv
  <2>4. {} \in SUBSET Message /\ net' \subseteq net \cup {} /\ \A r \in {} : PacketOK(r)'
      BY <2>1
  <2>5. QED
      BY <1>3, <2>2, <2>3, <2>4, BufferAlone
<1>6. QED
    BY <1>4, <1>5

-----------------------------------------------------------------------------
(* The whole connection.                                                   *)

\* The network only takes away.
LEMMA LoseKeeps ==
    ASSUME IndInv, UNCHANGED <<sndVars, rcvVars>>, net' \subseteq net
    PROVE  IndInv'
<1>1. /\ UNCHANGED sndVars /\ UNCHANGED rcvDataVars
      /\ UNCHANGED <<rcvCurrSeqNo, rcvLastAck, rcvLossList, rcvLastAckAck, rcvEXP, rcvState>>
    BY DEF rcvVars, rcvSeqVars, rcvLifeVars
<1>2. /\ rcvLastAckAck' \in Int /\ rcvLastAckAck' =< Promised
      /\ rcvEXP' \in Nat /\ rcvState' \in {"open", "broken"}
    BY <1>1 DEF IndInv, TypeOK, ReceiverTypeOK, AckInv
<1>3. {} \in SUBSET Message /\ net' \subseteq net \cup {} /\ \A r \in {} : PacketOK(r)'
    OBVIOUS
<1>4. QED
    BY <1>1, <1>2, <1>3, BufferAlone

\* A new connection: both hosts have agreed on ISN and nothing has been sent.
LEMMA InitGives == Init => IndInv
<1> SUFFICES ASSUME Init PROVE IndInv
    OBVIOUS
<1>1. Held = {} /\ StartSeqNo = ISN
    BY TransferAssumption DEF Init, Held, StartSeqNo
<1>2. TypeOK
  <2>1. SenderTypeOK
    <3>1. /\ 0 \in 0 .. MaxWritten /\ 0 - 0 \in 0 .. SndBufSize
          /\ ISN \in Int /\ ISN - 1 \in Int /\ FlightFlagSize \in Int
          /\ 0 \in Int /\ 1 \in Nat
        BY TransferAssumption
    <3>2. written - bufFirst \in 0 .. SndBufSize
        BY <3>1 DEF Init
    <3>3. QED
        BY <3>1, <3>2, Zenon DEF Init, SenderTypeOK
  <2>2. rcvBuffer \in [Held -> Int] /\ delivered \in Seq(Int)
      BY DEF Init, Held
  <2>3. ReceiverTypeOK
      BY <1>1, <2>2, TransferAssumption DEF Init, ReceiverTypeOK
  <2>4. QED
      BY <2>1, <2>3 DEF Init, TypeOK
<1>3. SenderInv
    BY TransferAssumption DEF Init, SenderInv, BlocksMatchNumbers, LossesInBuffer, PeerNeverDistrusted
<1>4. WorkerInv /\ HandInv
    BY DEF Init, WorkerInv, HandInv
<1>5. ReceiverInv
  <2>1. DeliveredInOrder
      BY DEF Init, DeliveredInOrder
  <2>2. QED
      BY <1>1, <2>1, TransferAssumption DEF Init, ReceiverInv
<1>6. AckInv
    BY TransferAssumption DEF Init, AckInv, Arrived, Promised
<1>7. NetInv
    BY DEF Init, NetInv
<1>8. QED
    BY <1>2, <1>3, <1>4, <1>5, <1>6, <1>7 DEF IndInv

\* Every step of either host, or of the network, keeps the invariant.
LEMMA NextKeeps == IndInv /\ [Next]_vars => IndInv'
<1> SUFFICES ASSUME IndInv, [Next]_vars PROVE IndInv'
    OBVIOUS
<1>1. CASE SenderNext
    BY <1>1, AppSendKeeps, PopKeeps, PackLostKeeps, PackNewKeeps, TransmitKeeps, RecvLiteAckKeeps,
       RecvFullAckKeeps, CheckAckKeeps, FreeAckedKeeps, RecvNakKeeps, SndRecvKeepAliveKeeps, SndExpireKeeps DEF SenderNext
<1>2. CASE ReceiverNext
    BY <1>2, RecvDataKeeps, RecvAck2Keeps, RcvRecvKeepAliveKeeps, SendLiteAckKeeps,
       SendFullAckKeeps, RcvExpireKeeps, AppRecvKeeps DEF ReceiverNext
<1>3. CASE Lose
    BY <1>3, LoseKeeps DEF Lose
<1>4. CASE UNCHANGED vars
    BY <1>4, LoseKeeps DEF vars
<1>5. QED
    BY <1>1, <1>2, <1>3, <1>4 DEF Next

\* The invariant holds in every behaviour of the connection.
THEOREM IndInvariant == Spec => []IndInv
<1>1. QED
    BY InitGives, NextKeeps, PTL DEF Spec

\* Every variable keeps its type, and send() never overfills its buffer.
THEOREM TypeCorrect == Spec => []TypeOK
<1>1. IndInv => TypeOK
    BY DEF IndInv
<1>2. QED
    BY <1>1, IndInvariant, PTL

\* What recv() returns is the stream that send() accepted, for every window,
\* buffer, loss, delay, duplication and reordering.
THEOREM InOrder == Spec => []DeliveredInOrder
<1>1. IndInv => DeliveredInOrder
    BY DEF IndInv, ReceiverInv
<1>2. QED
    BY <1>1, IndInvariant, PTL

\* The sender frees no packet the receiver has not got (core.cpp:2025-2033).
THEOREM FreedSafely == Spec => []FreedOnlyWhenHeld
<1>1. IndInv => FreedOnlyWhenHeld
  <2> SUFFICES ASSUME IndInv PROVE FreedOnlyWhenHeld
      OBVIOUS
  <2>1. /\ sndLastDataAck \in Int /\ rcvLastAck \in Int /\ StartSeqNo \in Int /\ ISN \in Int
        /\ sndLastDataAck =< rcvLastAck
        /\ \A s \in StartSeqNo .. rcvLastAck - 1 : s \in Held
      BY TransferAssumption
      DEF IndInv, TypeOK, SenderTypeOK, ReceiverTypeOK, StartSeqNo, AckInv, ReceiverInv
  <2>2. QED
      BY <2>1 DEF FreedOnlyWhenHeld
<1>2. QED
    BY <1>1, IndInvariant, PTL

\* Sequence numbers and buffer positions never drift apart.
THEOREM NumbersMatch == Spec => []BlocksMatchNumbers
<1>1. IndInv => BlocksMatchNumbers
    BY DEF IndInv, SenderInv
<1>2. QED
    BY <1>1, IndInvariant, PTL

\* The checks of core.cpp:2028 and 2140-2152 against an attack or a bug never
\* fire between two hosts that run this code.
THEOREM NeverDistrusted == Spec => []PeerNeverDistrusted
<1>1. IndInv => PeerNeverDistrusted
    BY DEF IndInv, SenderInv
<1>2. QED
    BY <1>1, IndInvariant, PTL

\* The receiver's loss list is exactly the holes of its buffer.
THEOREM HolesListed == Spec => []LossListIsHoles
<1>1. IndInv => LossListIsHoles
  <2> SUFFICES ASSUME IndInv PROVE LossListIsHoles
      OBVIOUS
  <2>1. /\ rcvCurrSeqNo \in Int /\ rcvLastAck \in Int /\ StartSeqNo \in Int
        /\ StartSeqNo =< rcvLastAck
        /\ \A s \in StartSeqNo .. rcvLastAck - 1 : s \in Held
        /\ rcvLossList = {s \in rcvLastAck .. rcvCurrSeqNo : s \notin Held}
      BY TransferAssumption DEF IndInv, TypeOK, ReceiverTypeOK, StartSeqNo, ReceiverInv
  <2>2. QED
      BY <2>1 DEF LossListIsHoles
<1>2. QED
    BY <1>1, IndInvariant, PTL

\* An ACK is repeated until the sender has freed what it acknowledges, or has
\* this very ACK, or a later one, in hand to do so.
THEOREM RepeatedUntilFreed == Spec => []RepeatUntilFreed
<1>1. IndInv => RepeatUntilFreed
  <2> SUFFICES ASSUME IndInv PROVE RepeatUntilFreed
      OBVIOUS
  <2>1. /\ rcvLastAckAck \in Int /\ sndLastDataAck \in Int /\ ackNo \in Int
        /\ rcvLastAckAck =< Promised
      BY DEF IndInv, TypeOK, SenderTypeOK, ReceiverTypeOK, AckInv
  <2>2. QED
      BY <2>1 DEF RepeatUntilFreed, Promised, Larger
<1>2. QED
    BY <1>1, IndInvariant, PTL

\* A number on the sender's loss list names a packet of its buffer.
THEOREM LossesFound == Spec => []LossesInBuffer
<1>1. IndInv => LossesInBuffer
    BY DEF IndInv, SenderInv
<1>2. QED
    BY <1>1, IndInvariant, PTL

-----------------------------------------------------------------------------
(* The ring buffer of the receiver.                                        *)

\* All that is held lies within one turn of the ring, read to unread.
InRing == \A s \in Held : s < StartSeqNo + RcvBufSize - 1

\* Within one turn, a slot has one number.
LEMMA OneTurn ==
    ASSUME NEW n \in Nat \ {0}, NEW d \in Int, -n < d, d < n, d % n = 0
    PROVE  d = 0
<1>1. CASE 0 =< d
    BY <1>1
<1>2. CASE d < 0
    BY <1>2
<1>3. QED
    BY <1>1, <1>2

\* getAvailBufSize keeps what processData stores within one turn of the ring.
LEMMA RingKeeps == IndInv /\ IndInv' /\ InRing /\ [Next]_vars => InRing'
<1> SUFFICES ASSUME IndInv, IndInv', InRing, [Next]_vars PROVE InRing'
    OBVIOUS
<1>1. /\ Held \subseteq Int /\ Held' \subseteq Int /\ RcvBufSize \in Int
      /\ StartSeqNo \in Int /\ StartSeqNo' \in Int /\ rcvLastAck \in Int
    BY TransferAssumption DEF IndInv, TypeOK, ReceiverTypeOK, StartSeqNo
<1>2. CASE UNCHANGED <<rcvBuffer, delivered>>
    BY <1>2 DEF InRing, Held, StartSeqNo
<1>3. CASE RecvData
  <2>1. PICK p \in net : RecvDataPacket(p)
      BY <1>3 DEF RecvData
  <2>2. /\ StartSeqNo' = StartSeqNo
        /\ UNCHANGED rcvBuffer \/ (Fits(p.seq) /\ Held' = Held \cup {p.seq})
      BY <2>1 DEF RecvDataPacket, StoreData, StartSeqNo, Held
  <2>3. CASE UNCHANGED rcvBuffer
      BY <2>2, <2>3 DEF InRing, Held
  <2>4. CASE Fits(p.seq) /\ Held' = Held \cup {p.seq}
    <3>1. p.seq \in Int
        BY <1>1, <2>4
    <3>2. p.seq < StartSeqNo + RcvBufSize - 1
        BY <1>1, <2>4, <3>1 DEF Fits, AvailBufSize
    <3>3. QED
        BY <2>2, <2>4, <3>2 DEF InRing
  <2>5. QED
      BY <2>2, <2>3, <2>4
<1>4. CASE AppRecv
  <2>1. Held' \subseteq Held
      BY <1>4 DEF AppRecv, Held
  <2>2. StartSeqNo' = StartSeqNo + 1
    <3>1. delivered \in Seq(Int) /\ Len(delivered') = Len(delivered) + 1
        BY <1>4 DEF AppRecv, IndInv, TypeOK, ReceiverTypeOK
    <3>2. QED
        BY <3>1, TransferAssumption DEF StartSeqNo
  <2>3. QED
      BY <1>1, <2>1, <2>2 DEF InRing
<1>5. CASE SenderNext \/ Lose \/ SendLiteAck \/ UNCHANGED vars
  <2>1. UNCHANGED rcvVars
      BY <1>5 DEF SenderNext, AppSend, Pop, PackLost, PackNew, Transmit, RecvLiteAck, RecvFullAck,
                  RecvFullAckPacket, CheckAck, FreeAcked, RecvNak, SndRecvKeepAlive, SndExpire,
                  Lose, SendLiteAck, vars
  <2>2. QED
      BY <1>2, <2>1 DEF rcvVars, rcvDataVars
<1>6. CASE RecvAck2 \/ RcvRecvKeepAlive \/ SendFullAck \/ RcvExpire
  <2>1. UNCHANGED rcvDataVars
      BY <1>6 DEF RecvAck2, RecvAck2Packet, RcvRecvKeepAlive, SendFullAck, RcvExpire
  <2>2. QED
      BY <1>2, <2>1 DEF rcvDataVars
<1>7. QED
    BY <1>3, <1>4, <1>5, <1>6 DEF Next, ReceiverNext

\* Two packets never compete for one slot of CRcvBuffer.
THEOREM SlotsNeverShared == Spec => []SlotsDistinct
<1>1. Init => InRing
    BY DEF Init, InRing, Held
<1>2. IndInv /\ InRing => SlotsDistinct
  <2> SUFFICES ASSUME IndInv, InRing, NEW s \in Held, NEW t \in Held, (s - t) % RcvBufSize = 0
               PROVE  s = t
      BY DEF SlotsDistinct
  <2>1. /\ s \in Int /\ t \in Int /\ StartSeqNo \in Int /\ RcvBufSize \in Nat \ {0}
        /\ StartSeqNo =< s /\ s < StartSeqNo + RcvBufSize - 1
        /\ StartSeqNo =< t /\ t < StartSeqNo + RcvBufSize - 1
      BY TransferAssumption
      DEF IndInv, TypeOK, ReceiverTypeOK, ReceiverInv, StartSeqNo, InRing
  <2>2. s - t \in Int /\ -RcvBufSize < s - t /\ s - t < RcvBufSize
      BY <2>1
  <2>3. s - t = 0
      BY <2>1, <2>2, OneTurn
  <2>4. QED
      BY <2>1, <2>3
<1>3. QED
    BY <1>1, <1>2, RingKeeps, IndInvariant, PTL DEF Spec

-----------------------------------------------------------------------------
(* The connection implements the stream.                                   *)

\* A new connection is an empty stream.
LEMMA StreamStarts == Init => Stream!Init
    BY TransferAssumption DEF Init, Stream!Init

\* What the stream sees of a state: naturals that follow each other.
StreamInv ==
    /\ written \in Nat /\ rcvLastAck - ISN \in Nat /\ bufFirst \in Nat
    /\ bufFirst =< rcvLastAck - ISN /\ rcvLastAck - ISN =< written
    /\ ISN \in Int /\ rcvLastAck \in Int

\* It follows from the order of the counters of both hosts.
LEMMA StreamFacts == IndInv => StreamInv
<1> SUFFICES ASSUME IndInv PROVE StreamInv
    OBVIOUS
<1>1. /\ ISN \in Int /\ written \in Int /\ rcvLastAck \in Int /\ bufFirst \in Int /\ bufCurr \in Int
      /\ rcvCurrSeqNo \in Int /\ sndCurrSeqNo \in Int /\ sndLastDataAck \in Int
    BY TransferAssumption DEF IndInv, TypeOK, SenderTypeOK, ReceiverTypeOK
<1>2. /\ ISN =< sndLastDataAck /\ sndLastDataAck =< rcvLastAck
      /\ bufFirst = sndLastDataAck - ISN /\ bufCurr = sndCurrSeqNo + 1 - ISN
      /\ bufCurr =< written
      /\ rcvLastAck =< rcvCurrSeqNo + 1 /\ rcvCurrSeqNo =< sndCurrSeqNo
    BY DEF IndInv, SenderInv, BlocksMatchNumbers, ReceiverInv, AckInv
<1>3. QED
    BY <1>1, <1>2 DEF StreamInv

\* Every step of the connection is a step of the stream or invisible in it.
LEMMA StreamSteps ==
    IndInv /\ IndInv' /\ StreamInv /\ StreamInv' /\ [Next]_vars => [Stream!Next]_(Stream!vars)
<1> SUFFICES ASSUME IndInv, IndInv', StreamInv, StreamInv', [Next]_vars
             PROVE  Stream!Next \/ UNCHANGED <<written, rcvLastAck, bufFirst, delivered>>
    BY DEF Stream!vars
<1>1. /\ written \in Nat /\ bufFirst \in Nat /\ rcvLastAck - ISN \in Nat
      /\ written' \in Nat /\ bufFirst' \in Nat /\ rcvLastAck' - ISN \in Nat
      /\ bufFirst' =< rcvLastAck' - ISN /\ rcvLastAck' - ISN =< written'
      /\ ISN \in Int /\ rcvLastAck \in Int /\ rcvLastAck' \in Int
    BY DEF StreamInv
<1>2. CASE AppSend
  <2>1. UNCHANGED <<bufFirst, rcvLastAck, delivered>>
      BY <1>2 DEF AppSend, rcvVars, rcvSeqVars, rcvDataVars
  <2>2. PICK n \in 1 .. Smaller(SndBufSize - BufCount, MaxWritten - written) : written' = written + n
      BY <1>2 DEF AppSend
  <2>3. written' > written
      BY <1>1, <2>2
  <2>4. Stream!Write
      BY <1>1, <2>1, <2>3 DEF Stream!Write
  <2>5. QED
      BY <2>4 DEF Stream!Next
<1>3. CASE SendFullAck
  <2>1. UNCHANGED <<written, bufFirst, delivered>> /\ rcvLastAck =< rcvLastAck'
      BY <1>3 DEF SendFullAck, sndVars, sndBufVars, rcvDataVars
  <2>2. CASE rcvLastAck' = rcvLastAck
      BY <2>1, <2>2
  <2>3. CASE rcvLastAck' # rcvLastAck
    <3>1. rcvLastAck' - ISN > rcvLastAck - ISN
      <4>1. /\ ISN \in Int /\ rcvLastAck \in Int /\ rcvLastAck' \in Int
            /\ rcvLastAck =< rcvLastAck'
          BY <1>1, <2>1
      <4>2. \A a, b, c \in Int : a =< b /\ b # a => b - c > a - c
          OBVIOUS
      <4>3. QED
          BY <2>3, <4>1, <4>2, Zenon
    <3>2. Stream!Accept
        BY <1>1, <2>1, <3>1 DEF Stream!Accept
    <3>3. QED
        BY <3>2 DEF Stream!Next
  <2>4. QED
      BY <2>2, <2>3
<1>4. CASE FreeAcked
  <2>1. UNCHANGED <<written, rcvLastAck, delivered>>
      BY <1>4 DEF FreeAcked, rcvVars, rcvSeqVars, rcvDataVars
  <2>2. bufFirst =< bufFirst'
    <3>1. ackNo \in Int /\ sndLastDataAck \in Int
        BY DEF IndInv, TypeOK, SenderTypeOK
    <3>2. bufFirst' = bufFirst \/ (ackNo > sndLastDataAck /\ bufFirst' = bufFirst + (ackNo - sndLastDataAck))
        BY <1>4 DEF FreeAcked
    <3>3. QED
        BY <1>1, <3>1, <3>2
  <2>3. CASE bufFirst' = bufFirst
      BY <2>1, <2>3
  <2>4. CASE bufFirst' # bufFirst
    <3>1. bufFirst' > bufFirst
        BY <1>1, <2>2, <2>4
    <3>2. Stream!Free
        BY <1>1, <2>1, <3>1 DEF Stream!Free
    <3>3. QED
        BY <3>2 DEF Stream!Next
  <2>5. QED
      BY <2>3, <2>4
<1>5. CASE AppRecv
  <2>1. /\ UNCHANGED <<written, bufFirst, rcvLastAck>>
        /\ StartSeqNo < rcvLastAck /\ delivered' = Append(delivered, UnitAt(StartSeqNo))
      BY <1>5 DEF AppRecv, sndVars, sndBufVars, rcvSeqVars
  <2>2. delivered \in Seq(Int) /\ DeliveredInOrder'
      BY DEF IndInv, TypeOK, ReceiverTypeOK, ReceiverInv
  <2>3. /\ Len(delivered) \in Nat /\ Len(delivered') = Len(delivered) + 1
        /\ delivered'[Len(delivered) + 1] = UnitAt(StartSeqNo)
      BY <2>1, <2>2
  <2>4. delivered'[Len(delivered) + 1] = Len(delivered) + 1 - 1
      BY <2>2, <2>3 DEF DeliveredInOrder
  <2>5. UnitAt(StartSeqNo) = Len(delivered)
      BY <2>3, <2>4
  <2>6. Len(delivered) < rcvLastAck - ISN
      BY <1>1, <2>1, <2>3 DEF StartSeqNo
  <2>7. Stream!Read
      BY <2>1, <2>5, <2>6 DEF Stream!Read
  <2>8. QED
      BY <2>7 DEF Stream!Next
<1>6. CASE \/ RecvLiteAck \/ RecvFullAck \/ CheckAck \/ RecvNak \/ SndRecvKeepAlive \/ SndExpire
           \/ Pop \/ PackLost \/ PackNew \/ Transmit
  <2>1. written' = written /\ bufFirst' = bufFirst /\ UNCHANGED rcvVars
      BY <1>6 DEF Pop, PackLost, PackNew, Transmit, RecvLiteAck, RecvFullAck, RecvFullAckPacket,
                  CheckAck, RecvNak, SndRecvKeepAlive, SndExpire, sndBufVars
  <2>2. QED
      BY <2>1 DEF rcvVars, rcvSeqVars, rcvDataVars
<1>7. CASE RecvData \/ RecvAck2 \/ RcvRecvKeepAlive \/ SendLiteAck \/ RcvExpire
  <2>1. UNCHANGED <<rcvLastAck, delivered>> /\ UNCHANGED sndVars
      BY <1>7 DEF RecvData, RecvDataPacket, RecvAck2, RecvAck2Packet, RcvRecvKeepAlive,
                  SendLiteAck, RcvExpire, rcvVars, rcvSeqVars, rcvDataVars
  <2>2. QED
      BY <2>1 DEF sndVars, sndBufVars
<1>8. CASE Lose \/ UNCHANGED vars
    BY <1>8 DEF Lose, vars, sndVars, sndBufVars, rcvVars, rcvSeqVars, rcvDataVars
<1>9. QED
    BY <1>2, <1>3, <1>4, <1>5, <1>6, <1>7, <1>8 DEF Next, SenderNext, ReceiverNext

\* A UDT connection is a reliable stream.
THEOREM Implements == Spec => StreamSpec
<1>1. QED
    BY StreamStarts, StreamFacts, StreamSteps, IndInvariant, PTL DEF Spec, StreamSpec, Stream!Spec

=============================================================================
