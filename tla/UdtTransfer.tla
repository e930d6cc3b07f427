---------------------------- MODULE UdtTransfer ----------------------------
(***************************************************************************)
(* One direction of an established UDT connection: the application of one  *)
(* host writes packets, the application of the other reads them.  Between  *)
(* them run, on each host, threads that share the CUDT object without one  *)
(* common lock:                                                            *)
(*   - the application thread (AppSend, AppRecv);                          *)
(*   - the sending worker of CSndQueue, which calls packData and then the  *)
(*     channel (Pop, PackLost, PackNew, Transmit: four steps, because an   *)
(*     ACK, a NAK or a timer may be handled between any two of them);      *)
(*   - the receiving worker of CRcvQueue, which handles one arriving       *)
(*     packet, or the timers of one socket, at a time (the other actions). *)
(*     A full ACK takes it three steps (RecvFullAck, CheckAck, FreeAcked), *)
(*     for the ACK2 is on its way before anything is looked at, and for    *)
(*     the buffer it waits for a lock the sending worker may hold.         *)
(* The network loses, duplicates, delays and reorders.                     *)
(*                                                                         *)
(* Sequence numbers are plain integers from ISN here; module SeqNo shows   *)
(* that the comparisons of the code agree with them within any window.     *)
(* A payload is the index of the packet in the application's stream, so    *)
(* the number in a packet and what it carries are two different things:    *)
(* the code relates them only by positions in CSndBuffer and CRcvBuffer.   *)
(* The stream has no message boundaries and no time to live.               *)
(***************************************************************************)
EXTENDS Integers, Sequences, FiniteSets

CONSTANTS
    ISN,                \* m_iISN, the first sequence number of the connection
    SndBufSize,         \* m_iSndBufSize, packets send() may leave in CSndBuffer
    RcvBufSize,         \* m_iRcvBufSize, slots of CRcvBuffer
    FlightFlagSize,     \* initial m_iFlowWindowSize, from the handshake
    CongestionWindows,  \* values m_dCongestionWindow may have
    MaxEXP,             \* expirations without an answer that break a connection
    MayGiveUp,          \* whether the peer can also be silent for 5 s
    MaxWritten,         \* bound of the model: packets the application writes
    NetCapacity         \* bound of the model: packets in flight at once

ASSUME TransferAssumption ==
    /\ ISN \in Int
    /\ SndBufSize \in Nat \ {0}
    /\ RcvBufSize \in Nat \ {0}
    /\ FlightFlagSize \in Nat
    /\ CongestionWindows \subseteq Nat
    /\ MaxEXP \in Nat
    /\ MayGiveUp \in BOOLEAN
    /\ MaxWritten \in Nat
    /\ NetCapacity \in Nat

VARIABLES
    \* CSndBuffer: the packets bufFirst .. written - 1 of the stream
    written,            \* packets the application has put in, m_pLastBlock
    bufFirst,           \* index of the packet in m_pFirstBlock
    bufCurr,            \* index of the packet in m_pCurrBlock, the next new one
    \* the sending side of CUDT
    sndCurrSeqNo, sndLastAck, sndLastDataAck, flowWindowSize,
    sndLossList,        \* the numbers in CSndLossList
    onSndList,          \* m_pSNode->m_iHeapLoc >= 0: the worker may pop us
    sndEXP, sndState,
    \* the receiving worker of the sending host
    ackStep,            \* where it is in the handling of a full ACK
    ackNo, ackWindow,   \* what that ACK says, ack and window size
    \* the sending worker
    worker,             \* where it is in CSndUList::pop, packData and sendto
    pktSeqNo, pktData,  \* the packet it holds: m_iSeqNo, block of m_pcData
    \* CRcvBuffer: what is held, by sequence number, and what was read
    rcvBuffer, delivered,
    \* the receiving side of the peer's CUDT
    rcvCurrSeqNo, rcvLastAck, rcvLastAckAck,
    rcvLossList,        \* the numbers in CRcvLossList
    rcvEXP, rcvState,
    \* the network
    net

sndBufVars == <<written, bufFirst, bufCurr>>
sndSeqVars == <<sndCurrSeqNo, sndLastAck, sndLastDataAck, flowWindowSize, sndLossList>>
workerVars == <<worker, pktSeqNo, pktData>>
sndLifeVars == <<sndEXP, sndState>>
ackVars == <<ackStep, ackNo, ackWindow>>
sndVars == <<sndBufVars, sndSeqVars, onSndList, sndLifeVars, ackVars, workerVars>>
rcvDataVars == <<rcvBuffer, delivered>>
rcvSeqVars == <<rcvCurrSeqNo, rcvLastAck, rcvLastAckAck, rcvLossList>>
rcvLifeVars == <<rcvEXP, rcvState>>
rcvVars == <<rcvDataVars, rcvSeqVars, rcvLifeVars>>
vars == <<sndVars, rcvVars, net>>

-----------------------------------------------------------------------------
Larger(a, b) == IF a >= b THEN a ELSE b
Smaller(a, b) == IF a =< b THEN a ELSE b

\* Bytes that are no packet of the stream: a block read while it is reused.
Torn == -1

\* Packets on the wire.  The ACK sub-sequence number only leads the ACK2 back
\* to the number the ACK carried (CACKWindow), so the ACK2 carries that number.
Data(seq, data) == [type |-> "data", seq |-> seq, data |-> data]
LiteAck(ack) == [type |-> "lite", ack |-> ack]
FullAck(ack, window) == [type |-> "ack", ack |-> ack, window |-> window]
Ack2(ack) == [type |-> "ack2", ack |-> ack]
Nak(first, last) == [type |-> "nak", first |-> first, last |-> last]
KeepAlive(to) == [type |-> "alive", to |-> to]

\* sendto of a datagram: when too many are under way, one of them is lost.
SendTo(n, p) ==
    IF Cardinality(n \cup {p}) =< NetCapacity THEN {n \cup {p}}
    ELSE {n} \cup {(n \ {q}) \cup {p} : q \in n}

\* recvfrom takes a packet of the network; the network may deliver it again.
Arrives(p, rest) == p \in net /\ (rest = net \ {p} \/ rest = net)

Lose ==
    /\ \E p \in net : net' = net \ {p}
    /\ UNCHANGED <<sndVars, rcvVars>>

-----------------------------------------------------------------------------
(* The sending host: application thread.                                   *)

\* Mistake: counts the packets handed to the worker instead of all of them.
BufCountSent == bufCurr - bufFirst

BufCount == written - bufFirst           \* CSndBuffer::getCurrBufSize

\* send: addBuffer of n packets once there is room, then the socket is put on
\* the sending list.
AppSend ==
    /\ sndState = "open"
    /\ \E n \in 1 .. Smaller(SndBufSize - BufCount, MaxWritten - written) :
           written' = written + n
    /\ onSndList' = TRUE
    /\ UNCHANGED <<bufFirst, bufCurr, sndSeqVars, sndLifeVars, ackVars, workerVars, rcvVars, net>>

-----------------------------------------------------------------------------
(* The sending host: sending worker.                                       *)

IsFirstLost(s) == s \in sndLossList /\ \A t \in sndLossList : s =< t

\* CSndUList::pop takes the socket off the list and enters packData, which asks
\* the loss list first (getLostSeq).
Pop ==
    /\ worker = "idle"
    /\ onSndList
    /\ sndState = "open"
    /\ onSndList' = FALSE
    /\ \/ /\ \E s \in sndLossList :
                /\ IsFirstLost(s)
                /\ sndLossList' = sndLossList \ {s}
                /\ pktSeqNo' = s
          /\ worker' = "lost"
       \/ /\ sndLossList = {}
          /\ worker' = "new"
          /\ UNCHANGED <<sndLossList, pktSeqNo>>
    /\ UNCHANGED <<sndBufVars, sndCurrSeqNo, sndLastAck, sndLastDataAck, flowWindowSize,
                   sndLifeVars, ackVars, pktData, rcvVars, net>>

\* Mistake: the distance is taken from the wrong one of the two last ACKs.
PackLostFromLastAck ==
    /\ worker = "lost"
    /\ IF pktSeqNo < sndLastAck
       THEN worker' = "idle" /\ UNCHANGED <<pktData, onSndList>>
       ELSE /\ pktData' = bufFirst + (pktSeqNo - sndLastAck)
            /\ worker' = "packed"
            /\ onSndList' = TRUE
    /\ UNCHANGED <<sndBufVars, sndSeqVars, sndLifeVars, ackVars, pktSeqNo, rcvVars, net>>

\* The retransmission, under m_AckLock: the packet is found by its distance from
\* m_iSndLastDataAck, unless an ACK has freed it since the loss was taken.
PackLost ==
    /\ worker = "lost"
    /\ IF pktSeqNo < sndLastDataAck
       THEN worker' = "idle" /\ UNCHANGED <<pktData, onSndList>>
       ELSE /\ pktData' = bufFirst + (pktSeqNo - sndLastDataAck)
            /\ worker' = "packed"
            /\ onSndList' = TRUE
    /\ UNCHANGED <<sndBufVars, sndSeqVars, sndLifeVars, ackVars, pktSeqNo, rcvVars, net>>

WindowAllows(cw) ==
    Smaller(flowWindowSize, cw) >= (sndCurrSeqNo + 1) - sndLastAck + 1

\* A new packet, if the flow and congestion windows allow it and there is one;
\* otherwise the socket stays off the list until something puts it back.
PackNew ==
    /\ worker = "new"
    /\ \E cw \in CongestionWindows :
         IF WindowAllows(cw) /\ bufCurr < written
         THEN /\ pktData' = bufCurr
              /\ bufCurr' = bufCurr + 1
              /\ sndCurrSeqNo' = sndCurrSeqNo + 1
              /\ pktSeqNo' = sndCurrSeqNo + 1
              /\ worker' = "packed"
              /\ onSndList' = TRUE
         ELSE /\ worker' = "idle"
              /\ UNCHANGED <<bufCurr, sndCurrSeqNo, pktSeqNo, pktData, onSndList>>
    /\ UNCHANGED <<written, bufFirst, sndLastAck, sndLastDataAck, flowWindowSize,
                   sndLossList, sndLifeVars, ackVars, rcvVars, net>>

\* The block of a packet is only safe from reuse while it is not acknowledged;
\* the channel reads it without any lock.
PayloadRead == IF pktData >= bufFirst THEN {pktData} ELSE {pktData, Torn}

Transmit ==
    /\ worker = "packed"
    /\ worker' = "idle"
    /\ \E data \in PayloadRead : net' \in SendTo(net, Data(pktSeqNo, data))
    /\ UNCHANGED <<sndBufVars, sndSeqVars, onSndList, sndLifeVars, ackVars, pktSeqNo, pktData,
                   rcvVars>>

-----------------------------------------------------------------------------
(* The sending host: receiving worker.                                     *)

\* It takes the next packet, or looks at the timers, when it is through with
\* the last one.
SndListens == sndState = "open" /\ ackStep = "none"

\* processCtrl, lite ACK: only the window moves, the buffer is not freed.
RecvLiteAck ==
    /\ SndListens
    /\ \E p \in net :
         /\ p.type = "lite"
         /\ Arrives(p, net')
         /\ IF p.ack >= sndLastAck
            THEN /\ flowWindowSize' = flowWindowSize - (p.ack - sndLastAck)
                 /\ sndLastAck' = p.ack
            ELSE UNCHANGED <<flowWindowSize, sndLastAck>>
    /\ sndEXP' = 1
    /\ UNCHANGED <<sndBufVars, sndCurrSeqNo, sndLastDataAck, sndLossList, onSndList,
                   sndState, ackVars, workerVars, rcvVars>>

\* Full ACK.  The ACK2 is sent before anything is looked at, but not for every ACK.
RecvFullAckPacket(p) ==
    /\ SndListens
    /\ p.type = "ack"
    /\ \E rest \in SUBSET net :
         Arrives(p, rest) /\ net' \in {rest} \cup SendTo(rest, Ack2(p.ack))
    /\ ackStep' = "check" /\ ackNo' = p.ack /\ ackWindow' = p.window
    /\ sndEXP' = 1
    /\ UNCHANGED <<sndBufVars, sndSeqVars, onSndList, sndState, workerVars, rcvVars>>

RecvFullAck == \E p \in net : RecvFullAckPacket(p)

\* Mistake: off by one.
AckTooFarByOne(ack) == ack > sndCurrSeqNo

\* An ACK can go one past the last packet sent, and no further.
AckTooFar(ack) == ack > sndCurrSeqNo + 1

\* The ACK is done with; what it said is forgotten.
AckDone == ackStep' = "none" /\ ackNo' = ISN /\ ackWindow' = 0

\* The check of the ACK, then m_iFlowWindowSize and m_iSndLastAck, without a
\* lock: the sender is then as a lite ACK leaves it.
CheckAck ==
    /\ ackStep = "check"
    /\ IF AckTooFar(ackNo)
       THEN sndState' = "insecure" /\ AckDone /\ UNCHANGED <<flowWindowSize, sndLastAck>>
       ELSE /\ IF ackNo >= sndLastAck
               THEN flowWindowSize' = ackWindow /\ sndLastAck' = ackNo
               ELSE UNCHANGED <<flowWindowSize, sndLastAck>>
            /\ ackStep' = "free" /\ ackWindow' = 0
            /\ UNCHANGED <<sndState, ackNo>>
    /\ UNCHANGED <<sndBufVars, sndCurrSeqNo, sndLastDataAck, sndLossList, onSndList, sndEXP,
                   workerVars, rcvVars, net>>

\* Mistake: the lite ACK's progress is not freed by the full ACK that follows.
FreeAckedFromLastAck ==
    /\ ackStep = "free"
    /\ IF ackNo > sndLastDataAck
       THEN /\ bufFirst' = bufFirst + (ackNo - sndLastAck)
            /\ sndLastDataAck' = ackNo
            /\ sndLossList' = {s \in sndLossList : s >= ackNo}
            /\ onSndList' = TRUE
       ELSE UNCHANGED <<bufFirst, sndLastDataAck, sndLossList, onSndList>>
    /\ AckDone
    /\ UNCHANGED <<written, bufCurr, sndCurrSeqNo, sndLastAck, flowWindowSize, sndLifeVars,
                   workerVars, rcvVars, net>>

\* Under m_AckLock, which packData holds for a retransmission, the buffer is
\* freed up to the ACK; then the socket is put on the sending list.
FreeAcked ==
    /\ ackStep = "free"
    /\ IF ackNo > sndLastDataAck
       THEN /\ bufFirst' = bufFirst + (ackNo - sndLastDataAck)
            /\ sndLastDataAck' = ackNo
            /\ sndLossList' = {s \in sndLossList : s >= ackNo}
            /\ onSndList' = TRUE
       ELSE UNCHANGED <<bufFirst, sndLastDataAck, sndLossList, onSndList>>
    /\ AckDone
    /\ UNCHANGED <<written, bufCurr, sndCurrSeqNo, sndLastAck, flowWindowSize, sndLifeVars,
                   workerVars, rcvVars, net>>

\* Mistake: a NAK that comes late is not cut down to what is not acknowledged.
NakRangeUncut(first, last) == first .. last

\* processCtrl, NAK: the part of the range not acknowledged yet is lost.
NakRange(first, last) == Larger(first, sndLastAck) .. last

RecvNak ==
    /\ SndListens
    /\ \E p \in net :
         /\ p.type = "nak"
         /\ Arrives(p, net')
         /\ IF p.first > p.last \/ p.last > sndCurrSeqNo
            THEN sndState' = "insecure" /\ UNCHANGED <<sndLossList, onSndList>>
            ELSE /\ sndLossList' = sndLossList \cup NakRange(p.first, p.last)
                 /\ onSndList' = TRUE
                 /\ UNCHANGED sndState
    /\ sndEXP' = 1
    /\ UNCHANGED <<sndBufVars, sndCurrSeqNo, sndLastAck, sndLastDataAck, flowWindowSize,
                   ackVars, workerVars, rcvVars>>

\* checkTimers, EXP: give up after too many and too long, else have everything not
\* yet acknowledged sent again, or show a sign of life if there is nothing to send.
SndExpire ==
    /\ SndListens
    /\ \E silent \in {FALSE, MayGiveUp} :
       IF silent /\ sndEXP > MaxEXP
       THEN /\ sndState' = "broken"
            /\ onSndList' = TRUE
            /\ UNCHANGED <<sndEXP, sndLossList, net>>
       ELSE /\ sndEXP' = Smaller(sndEXP, MaxEXP) + 1
            /\ IF BufCount > 0
               THEN /\ sndLossList' = IF sndLossList = {} THEN sndLastAck .. sndCurrSeqNo
                                                          ELSE sndLossList
                    /\ onSndList' = TRUE
                    /\ UNCHANGED net
               ELSE /\ net' \in SendTo(net, KeepAlive("rcv"))
                    /\ UNCHANGED <<sndLossList, onSndList>>
            /\ UNCHANGED sndState
    /\ UNCHANGED <<sndBufVars, sndCurrSeqNo, sndLastAck, sndLastDataAck, flowWindowSize,
                   ackVars, workerVars, rcvVars>>

\* Any other packet of the peer only shows that it is alive.
SndRecvKeepAlive ==
    /\ SndListens
    /\ Arrives(KeepAlive("snd"), net')
    /\ sndEXP' = 1
    /\ UNCHANGED <<sndBufVars, sndSeqVars, onSndList, sndState, ackVars, workerVars, rcvVars>>

-----------------------------------------------------------------------------
(* The receiving host.                                                     *)

Held == DOMAIN rcvBuffer
StartSeqNo == ISN + Len(delivered)       \* number of the packet at m_iStartPos

\* Mistake: what the application has not read yet is taken for free.
AvailBufSizeUnread == RcvBufSize - 1

AvailBufSize == RcvBufSize - (rcvLastAck - StartSeqNo) - 1

\* The slot of the packet is in the buffer, and nothing is in it yet.
Fits(seq) ==
    /\ seq >= rcvLastAck
    /\ seq - rcvLastAck < AvailBufSize
    /\ seq \notin Held

\* Mistake: the packet that reveals a hole is put on the loss list with it.
StoreDataWithSelf(p, rest) ==
    /\ rcvBuffer' = [s \in Held \cup {p.seq} |-> IF s = p.seq THEN p.data ELSE rcvBuffer[s]]
    /\ IF p.seq > rcvCurrSeqNo
       THEN /\ rcvCurrSeqNo' = p.seq
            /\ rcvLossList' = rcvLossList \cup
                   (IF p.seq > rcvCurrSeqNo + 1 THEN rcvCurrSeqNo + 1 .. p.seq ELSE {})
            /\ net' \in IF p.seq > rcvCurrSeqNo + 1
                        THEN SendTo(rest, Nak(rcvCurrSeqNo + 1, p.seq))
                        ELSE {rest}
       ELSE /\ rcvLossList' = rcvLossList \ {p.seq}
            /\ net' = rest
            /\ UNCHANGED rcvCurrSeqNo

\* processData: store the packet, then detect and report the numbers skipped
\* since the largest one seen, or strike this one from the loss list.
StoreData(p, rest) ==
    /\ rcvBuffer' = [s \in Held \cup {p.seq} |-> IF s = p.seq THEN p.data ELSE rcvBuffer[s]]
    /\ IF p.seq > rcvCurrSeqNo
       THEN /\ rcvCurrSeqNo' = p.seq
            /\ rcvLossList' = rcvLossList \cup (rcvCurrSeqNo + 1 .. p.seq - 1)
            /\ net' \in IF p.seq > rcvCurrSeqNo + 1
                        THEN SendTo(rest, Nak(rcvCurrSeqNo + 1, p.seq - 1))
                        ELSE {rest}
       ELSE /\ rcvLossList' = rcvLossList \ {p.seq}
            /\ net' = rest
            /\ UNCHANGED rcvCurrSeqNo

RecvDataPacket(p) ==
    /\ rcvState = "open"
    /\ p.type = "data"
    /\ \E rest \in SUBSET net :
         /\ Arrives(p, rest)
         /\ IF Fits(p.seq)
            THEN StoreData(p, rest)
            ELSE net' = rest /\ UNCHANGED <<rcvBuffer, rcvCurrSeqNo, rcvLossList>>
    /\ rcvEXP' = 1
    /\ UNCHANGED <<sndVars, delivered, rcvLastAck, rcvLastAckAck, rcvState>>

RecvData == \E p \in net : RecvDataPacket(p)

\* Mistake: holes are acknowledged with the rest.
AckPointPastLosses == rcvCurrSeqNo + 1

\* What an ACK acknowledges: all before the first loss, or all that came.
AckPoint ==
    IF rcvLossList = {} THEN rcvCurrSeqNo + 1
    ELSE CHOOSE s \in rcvLossList : \A t \in rcvLossList : s =< t

\* sendCtrl(2), lite: the packet count reached the self-clocking interval.
SendLiteAck ==
    /\ rcvState = "open"
    /\ AckPoint # rcvLastAckAck
    /\ net' \in SendTo(net, LiteAck(AckPoint))
    /\ UNCHANGED <<sndVars, rcvVars>>

\* Mistake: no minimum window, a full buffer closes it.
AckWindowMayClose(ack) == RcvBufSize - (ack - StartSeqNo) - 1

\* sendCtrl(2): release to the application what has become contiguous, or
\* repeat the last ACK (after a round trip time) until its ACK2 has come.
\* The window is 2 packets at least, even when the buffer is full.
AckWindow(ack) == Larger(2, RcvBufSize - (ack - StartSeqNo) - 1)

SendFullAck ==
    /\ rcvState = "open"
    /\ AckPoint # rcvLastAckAck
    /\ AckPoint >= rcvLastAck
    /\ rcvLastAck' = AckPoint
    /\ net' \in IF rcvLastAck' > rcvLastAckAck
                THEN SendTo(net, FullAck(rcvLastAck', AckWindow(rcvLastAck')))
                ELSE {net}
    /\ UNCHANGED <<sndVars, rcvDataVars, rcvCurrSeqNo, rcvLastAckAck, rcvLossList, rcvLifeVars>>

\* Mistake: any ACK2 stands for the last ACK sent, not for the one it answers.
RecvAck2OfLast(p) ==
    /\ rcvState = "open"
    /\ p.type = "ack2"
    /\ Arrives(p, net')
    /\ rcvLastAckAck' = rcvLastAck
    /\ rcvEXP' = 1
    /\ UNCHANGED <<sndVars, rcvDataVars, rcvCurrSeqNo, rcvLastAck, rcvLossList, rcvState>>

\* processCtrl, ACK2: the sender has this ACK, it need not be repeated.
RecvAck2Packet(p) ==
    /\ rcvState = "open"
    /\ p.type = "ack2"
    /\ Arrives(p, net')
    /\ rcvLastAckAck' = Larger(rcvLastAckAck, p.ack)
    /\ rcvEXP' = 1
    /\ UNCHANGED <<sndVars, rcvDataVars, rcvCurrSeqNo, rcvLastAck, rcvLossList, rcvState>>

RecvAck2 == \E p \in net : RecvAck2Packet(p)

RcvRecvKeepAlive ==
    /\ rcvState = "open"
    /\ Arrives(KeepAlive("rcv"), net')
    /\ rcvEXP' = 1
    /\ UNCHANGED <<sndVars, rcvDataVars, rcvSeqVars, rcvState>>

\* checkTimers, EXP, of a host that has nothing to send.
RcvExpire ==
    /\ rcvState = "open"
    /\ \E silent \in {FALSE, MayGiveUp} :
       IF silent /\ rcvEXP > MaxEXP
       THEN rcvState' = "broken" /\ UNCHANGED <<rcvEXP, net>>
       ELSE /\ rcvEXP' = Smaller(rcvEXP, MaxEXP) + 1
            /\ net' \in SendTo(net, KeepAlive("snd"))
            /\ UNCHANGED rcvState
    /\ UNCHANGED <<sndVars, rcvDataVars, rcvSeqVars>>

\* recv: the packet at m_iStartPos, if an ACK has released it.  What arrived
\* before the connection broke can still be read.
UnitAt(s) == IF s \in Held THEN rcvBuffer[s] ELSE Torn

AppRecv ==
    /\ StartSeqNo < rcvLastAck
    /\ delivered' = Append(delivered, UnitAt(StartSeqNo))
    /\ rcvBuffer' = [s \in Held \ {StartSeqNo} |-> rcvBuffer[s]]
    /\ UNCHANGED <<sndVars, rcvSeqVars, rcvLifeVars, net>>

-----------------------------------------------------------------------------
Init ==
    /\ written = 0 /\ bufFirst = 0 /\ bufCurr = 0
    /\ sndCurrSeqNo = ISN - 1
    /\ sndLastAck = ISN /\ sndLastDataAck = ISN
    /\ flowWindowSize = FlightFlagSize
    /\ sndLossList = {}
    /\ onSndList = FALSE
    /\ sndEXP = 1 /\ sndState = "open"
    /\ ackStep = "none" /\ ackNo = ISN /\ ackWindow = 0
    /\ worker = "idle" /\ pktSeqNo = ISN - 1 /\ pktData = 0
    /\ rcvBuffer = [s \in {} |-> 0] /\ delivered = <<>>
    /\ rcvCurrSeqNo = ISN - 1
    /\ rcvLastAck = ISN /\ rcvLastAckAck = ISN
    /\ rcvLossList = {}
    /\ rcvEXP = 1 /\ rcvState = "open"
    /\ net = {}

SenderNext ==
    \/ AppSend
    \/ Pop \/ PackLost \/ PackNew \/ Transmit
    \/ RecvLiteAck \/ RecvFullAck \/ CheckAck \/ FreeAcked
    \/ RecvNak \/ SndRecvKeepAlive \/ SndExpire

ReceiverNext ==
    \/ RecvData \/ RecvAck2 \/ RcvRecvKeepAlive
    \/ SendLiteAck \/ SendFullAck \/ RcvExpire
    \/ AppRecv

Next == SenderNext \/ ReceiverNext \/ Lose

Spec == Init /\ [][Next]_vars

-----------------------------------------------------------------------------
(***************************************************************************)
(* Fairness.  The workers run for ever, and the application keeps reading: *)
(* weak fairness.  The timer of the sender is looked at between the        *)
(* packets its receiving worker handles, however many copies of them the   *)
(* network makes: strong fairness.  The network is fair-lossy: what is     *)
(* sent again and again is not lost every time, neither at sendto nor on   *)
(* the way: strong fairness, assumed of no more than the packet the        *)
(* receiver waits for, its last ACK and the ACK2 of that.  The ACK reaches *)
(* a worker that listens: one that is busy finds it in the socket buffer   *)
(* later.  Lite ACKs, NAKs and keep-alives may all be lost.                *)
(***************************************************************************)
TransmitAwaited ==
    pktSeqNo = AckPoint /\ Transmit /\ \E p \in net' : p.type = "data" /\ p.seq = AckPoint
RecvAwaited ==
    \E p \in net : p.type = "data" /\ p.seq = AckPoint /\ RecvDataPacket(p)
SendLastAck ==
    SendFullAck /\ ackStep = "none" /\ \E p \in net' : p.type = "ack" /\ p.ack = rcvLastAck'
RecvLastAck ==
    \E p \in net : /\ p.type = "ack" /\ p.ack = rcvLastAck
                   /\ RecvFullAckPacket(p)
                   /\ \E q \in net' : q.type = "ack2" /\ q.ack = rcvLastAck
RecvLastAck2 ==
    \E p \in net : p.type = "ack2" /\ p.ack = rcvLastAck /\ RecvAck2Packet(p)

Fairness ==
    /\ WF_vars(Pop) /\ WF_vars(PackLost) /\ WF_vars(PackNew) /\ WF_vars(Transmit)
    /\ WF_vars(CheckAck) /\ WF_vars(FreeAcked)
    /\ WF_vars(SendFullAck) /\ WF_vars(AppRecv)
    /\ SF_vars(SndExpire)
    /\ SF_vars(TransmitAwaited) /\ SF_vars(RecvAwaited)
    /\ SF_vars(SendLastAck) /\ SF_vars(RecvLastAck) /\ SF_vars(RecvLastAck2)

FairSpec == Spec /\ Fairness

-----------------------------------------------------------------------------
(* Properties.                                                             *)

Message ==
         [type : {"data"}, seq : Int, data : Int]
    \cup [type : {"lite"}, ack : Int]
    \cup [type : {"ack"}, ack : Int, window : Int]
    \cup [type : {"ack2"}, ack : Int]
    \cup [type : {"nak"}, first : Int, last : Int]
    \cup [type : {"alive"}, to : {"snd", "rcv"}]

SenderTypeOK ==
    /\ written \in 0 .. MaxWritten
    /\ bufFirst \in Int /\ bufCurr \in Int /\ written - bufFirst \in 0 .. SndBufSize
    /\ sndCurrSeqNo \in Int /\ sndLastAck \in Int /\ sndLastDataAck \in Int
    /\ flowWindowSize \in Int
    /\ sndLossList \subseteq Int
    /\ onSndList \in BOOLEAN
    /\ sndEXP \in Nat /\ sndState \in {"open", "broken", "insecure"}
    /\ ackStep \in {"none", "check", "free"} /\ ackNo \in Int /\ ackWindow \in Int
    /\ worker \in {"idle", "lost", "new", "packed"}
    /\ pktSeqNo \in Int /\ pktData \in Int

ReceiverTypeOK ==
    /\ Held \subseteq Int /\ rcvBuffer \in [Held -> Int]
    /\ delivered \in Seq(Int)
    /\ rcvCurrSeqNo \in Int /\ rcvLastAck \in Int /\ rcvLastAckAck \in Int
    /\ rcvLossList \subseteq Int
    /\ rcvEXP \in Nat /\ rcvState \in {"open", "broken"}

\* Every variable has its type, and send never leaves more than it may in the
\* send buffer.
TypeOK == SenderTypeOK /\ ReceiverTypeOK /\ net \subseteq Message

\* What recv returns is the stream that send accepted: every packet once, in
\* order, and never the bytes of a block that was reused while being resent.
DeliveredInOrder == \A i \in 1 .. Len(delivered) : delivered[i] = i - 1

\* The sender forgets a packet only when the receiver holds it and all before
\* it, whatever the order in which ACKs and lite ACKs arrive.
FreedOnlyWhenHeld ==
    /\ sndLastDataAck =< rcvLastAck
    /\ \A s \in ISN .. sndLastDataAck - 1 : s < StartSeqNo \/ s \in Held

\* Sequence numbers and buffer positions never drift apart: the block at
\* distance k from the first one is the packet numbered sndLastDataAck + k, and
\* the next new block is the packet numbered sndCurrSeqNo + 1 (packData relies
\* on it at core.cpp:2280 and core.cpp:2316).
BlocksMatchNumbers ==
    /\ bufFirst = sndLastDataAck - ISN
    /\ bufCurr = sndCurrSeqNo + 1 - ISN
    /\ bufFirst =< bufCurr /\ bufCurr =< written

\* The checks "this should not happen: attack or bug" of processCtrl never fire
\* between two hosts that both run this code, however packets are reordered.
PeerNeverDistrusted == sndState # "insecure"

\* The receiver's loss list is exactly the set of holes below the largest
\* number seen, so that the number an ACK carries is the end of what is held.
LossListIsHoles ==
    rcvLossList = {s \in StartSeqNo .. rcvCurrSeqNo : s \notin Held}

\* The receiver stops repeating an ACK only once the sender has freed what it
\* acknowledged, or is about to: between the ACK2 (core.cpp:1989) and the lock
\* (core.cpp:2014) the receiver may be ahead of the sender's buffer, but by no
\* more than the ACK the sender's worker has in hand.
RepeatUntilFreed ==
    \/ rcvLastAckAck =< sndLastDataAck
    \/ ackStep # "none" /\ rcvLastAckAck =< ackNo

\* Whatever the window advertised (2 at least, even for a full buffer), two
\* packets never compete for one slot of the receiver's ring buffer.
SlotsDistinct ==
    \A s, t \in Held : (s - t) % RcvBufSize = 0 => s = t

\* The sender's loss list only names packets it can still find in its buffer
\* and has already sent once.
LossesInBuffer ==
    \A s \in sndLossList : sndLastDataAck =< s /\ s =< sndCurrSeqNo

\* The connection is a reliable stream: hiding packets and acknowledgements,
\* every step is one of the abstract pipe or invisible.
Stream == INSTANCE ReliableStream WITH
              accepted <- rcvLastAck - ISN,
              freed <- bufFirst
StreamSpec == Stream!Spec

\* As long as no host gives up on the other one, everything written is delivered
\* in the end and the sender's buffer is empty (the linger loop of close waits
\* for that): no loss of data, ACKs or NAKs, no full buffer, no closed window and
\* no lost wake-up of the sending list can stall a connection for ever.
EventuallyDrained == <>[](Len(delivered) = written /\ bufFirst = written)
=============================================================================
