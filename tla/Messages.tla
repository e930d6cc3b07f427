------------------------------- MODULE Messages -------------------------------
(***************************************************************************)
(* Messages over a connection of type UDT_DGRAM: sendmsg cuts a message    *)
(* into packets, recvmsg puts it together again.  A message may be read    *)
(* ahead of those before it unless it is sent in order, and one with a     *)
(* time to live is dropped when that is over and a packet of it has to be  *)
(* sent again.  Then the sender tells the receiver not to wait for it, and *)
(* both skip its sequence numbers.                                         *)
(*                                                                         *)
(* Packets and control packets may be lost, repeated and reordered.        *)
(* Sequence numbers are integers from 1 on (module SeqNo says why that is  *)
(* enough), loss lists are sets (module LossLists).  Flow and congestion   *)
(* windows do not restrict here: what the receiver has no room for is lost.*)
(***************************************************************************)
EXTENDS Integers, Sequences, FiniteSets, SequencesExt

CONSTANTS
    RcvBufSize,   \* m_iSize of CRcvBuffer
    Sizes,        \* packets of a message
    Orders,       \* whether a message is to be read in order: a set of Booleans
    Mortal,       \* whether a message has a time to live: a set of Booleans
    MaxBlocks,    \* bound of the model: packets written
    NetCapacity   \* bound of the model: packets under way

ASSUME MessagesAssumption ==
    /\ RcvBufSize \in Nat \ {0, 1} /\ MaxBlocks \in Nat \ {0} /\ NetCapacity \in Nat \ {0}
    /\ Sizes \subseteq Nat \ {0} /\ Orders \subseteq BOOLEAN /\ Mortal \subseteq BOOLEAN

VARIABLES
    \* the sender
    blocks,         \* everything sendmsg has put into the send buffer
    firstBlock,     \* m_pFirstBlock: the oldest block that is kept
    currBlock,      \* m_pCurrBlock: the next one to be sent
    expired,        \* messages whose time to live is over
    sndCurrSeqNo,   \* m_iSndCurrSeqNo
    sndLastAck,     \* m_iSndLastAck and m_iSndLastDataAck
    sndLossList,
    net,
    \* the receiver
    units,          \* m_pUnit
    startPos,       \* m_iStartPos
    lastAckPos,     \* m_iLastAckPos
    maxPos,         \* m_iMaxPos
    rcvCurrSeqNo,   \* m_iRcvCurrSeqNo
    rcvLastAck,     \* m_iRcvLastAck
    rcvLossList,
    arrived,        \* the blocks of the packets that were taken (history)
    found,          \* what recvmsg has found and is about to copy
    received        \* what recvmsg has returned (history)

sndVars == <<blocks, firstBlock, currBlock, expired, sndCurrSeqNo, sndLastAck, sndLossList>>
seqVars == <<rcvCurrSeqNo, rcvLastAck, rcvLossList, arrived>>
bufVars == <<units, startPos, lastAckPos, maxPos>>
appVars == <<found, received>>
vars == <<sndVars, net, seqVars, bufVars, appVars>>

Slots == 0 .. RcvBufSize - 1
Empty == [flag |-> 0]
Nothing == [from |-> -1, to |-> -1, passack |-> FALSE]

Data(seq, b) == [kind |-> "data", seq |-> seq, block |-> b]
DropRequest(msg, lo, hi) == [kind |-> "drop", msg |-> msg, lo |-> lo, hi |-> hi]
LossReport(lo, hi) == [kind |-> "loss", lo |-> lo, hi |-> hi]
AckPacket(n) == [kind |-> "ack", ack |-> n]

\* What becomes of the network when p is sent: one packet is lost when it is full.
SendTo(n, p) ==
    IF Cardinality(n \cup {p}) =< NetCapacity THEN {n \cup {p}}
    ELSE {(n \ {q}) \cup {p} : q \in n}

\* A packet of the network arrives, for the last time or not.
Arrives(p) == p \in net /\ net' \in {net, net \ {p}}

Lose ==
    /\ \E p \in net : net' = net \ {p}
    /\ UNCHANGED <<sndVars, seqVars, bufVars, appVars>>

-----------------------------------------------------------------------------
(* The sender.                                                             *)

LastMsg == IF blocks = <<>> THEN 0 ELSE Last(blocks).msg

\* The packets of a message: CSndBuffer::addBuffer.
Cut(size, order, mortal) ==
    [i \in 1 .. size |-> [msg |-> LastMsg + 1, first |-> i = 1, last |-> i = size,
                          order |-> order, mortal |-> mortal]]

SendMsg(size, order, mortal) ==
    /\ Len(blocks) + size =< MaxBlocks
    /\ blocks' = blocks \o Cut(size, order, mortal)
    /\ UNCHANGED <<firstBlock, currBlock, expired, sndCurrSeqNo, sndLastAck, sndLossList, net,
                   seqVars, bufVars, appVars>>

\* The time to live of a message is over.
Expire(i) ==
    /\ blocks[i].mortal
    /\ expired' = expired \cup {blocks[i].msg}
    /\ UNCHANGED <<blocks, firstBlock, currBlock, sndCurrSeqNo, sndLastAck, sndLossList, net,
                   seqVars, bufVars, appVars>>

\* A block of the ring that holds no message: what it does hold is of no message the
\* receiver knows.
Unwritten == [msg |-> 0, first |-> FALSE, last |-> FALSE, order |-> FALSE, mortal |-> FALSE]

Block(i) == IF i \in DOMAIN blocks THEN blocks[i] ELSE Unwritten

\* The last block of the message of block i.
EndOf(i) == CHOOSE e \in i .. Len(blocks) :
    /\ blocks[e].msg = blocks[i].msg
    /\ e = Len(blocks) \/ blocks[e + 1].msg # blocks[i].msg

\* packData finds the message too old: drop request, loss list, m_pCurrBlock (moved in
\* readData) and m_iSndCurrSeqNo.
DropMessage(seq, i) ==
    LET e == EndOf(i)
        hi == seq + (e - i + 1)
    IN /\ net' \in SendTo(net, DropRequest(blocks[i].msg, seq, hi))
       /\ sndLossList' = {s \in sndLossList : s > hi}
       /\ currBlock' = IF currBlock \in i + 1 .. e THEN e + 1 ELSE currBlock
       /\ sndCurrSeqNo' = IF sndCurrSeqNo < hi + 1 THEN hi + 1 ELSE sndCurrSeqNo

\* packData when a packet is lost, in one step: module UdtTransfer has what may come
\* between.
PackLost ==
    /\ sndLossList # {}
    /\ LET seq == CHOOSE s \in sndLossList : \A t \in sndLossList : s =< t
           i == firstBlock + (seq - sndLastAck)
       IN IF Block(i).mortal /\ Block(i).msg \in expired
          THEN DropMessage(seq, i)
          ELSE /\ sndLossList' = sndLossList \ {seq}
               /\ net' \in SendTo(net, Data(seq, Block(i)))
               /\ UNCHANGED <<currBlock, sndCurrSeqNo>>
    /\ UNCHANGED <<blocks, firstBlock, expired, sndLastAck, seqVars, bufVars, appVars>>

PackNew ==
    /\ sndLossList = {}
    /\ currBlock \in DOMAIN blocks
    /\ currBlock' = currBlock + 1
    /\ sndCurrSeqNo' = sndCurrSeqNo + 1
    /\ net' \in SendTo(net, Data(sndCurrSeqNo', blocks[currBlock]))
    /\ UNCHANGED <<blocks, firstBlock, expired, sndLastAck, sndLossList, seqVars, bufVars, appVars>>

RecvAck ==
    /\ \E p \in net :
         /\ p.kind = "ack" /\ Arrives(p)
         /\ IF p.ack > sndLastAck
            THEN /\ firstBlock' = firstBlock + (p.ack - sndLastAck)
                 /\ sndLastAck' = p.ack
                 /\ sndLossList' = {s \in sndLossList : s >= p.ack}
            ELSE UNCHANGED <<firstBlock, sndLastAck, sndLossList>>
    /\ UNCHANGED <<blocks, currBlock, expired, sndCurrSeqNo, seqVars, bufVars, appVars>>

RecvLossReport ==
    /\ \E p \in net :
         /\ p.kind = "loss" /\ Arrives(p)
         /\ sndLossList' = sndLossList \cup {s \in p.lo .. p.hi : s >= sndLastAck}
    /\ UNCHANGED <<blocks, firstBlock, currBlock, expired, sndCurrSeqNo, sndLastAck, seqVars,
                   bufVars, appVars>>

\* checkTimers, after a silence.
SndExpire ==
    /\ firstBlock \in DOMAIN blocks
    /\ sndCurrSeqNo + 1 # sndLastAck /\ sndLossList = {}
    /\ sndLossList' = sndLastAck .. sndCurrSeqNo
    /\ UNCHANGED <<blocks, firstBlock, currBlock, expired, sndCurrSeqNo, sndLastAck, net, seqVars,
                   bufVars, appVars>>

-----------------------------------------------------------------------------
(* The receiver: processData, sendCtrl(2) and processCtrl(7).              *)

RcvDataSize == (lastAckPos - startPos) % RcvBufSize
AvailBufSize == RcvBufSize - RcvDataSize - 1

\* Mistake: offsets count from what is unread.
SlotFromStart(seq) == (startPos + seq - rcvLastAck) % RcvBufSize

SlotOf(seq) == (lastAckPos + seq - rcvLastAck) % RcvBufSize

\* m_iMaxPos with a packet of this number.
Farthest(seq) == IF seq - rcvLastAck > maxPos THEN seq - rcvLastAck ELSE maxPos

\* CRcvBuffer::addData refuses what is there already, but counts it.
RecvData ==
    /\ \E p \in net :
         /\ p.kind = "data"
         /\ p.seq - rcvLastAck \in 0 .. AvailBufSize - 1
         /\ maxPos' = Farthest(p.seq)
         /\ IF units[SlotOf(p.seq)] # Empty
            THEN /\ Arrives(p)
                 /\ UNCHANGED <<units, arrived, rcvLossList, rcvCurrSeqNo>>
            ELSE /\ units' = [units EXCEPT ![SlotOf(p.seq)] =
                                  [flag |-> 1, seq |-> p.seq, block |-> p.block]]
                 /\ arrived' = arrived \cup {p.block}
                 /\ \E rest \in {net, net \ {p}} :
                      IF p.seq > rcvCurrSeqNo + 1
                      THEN /\ rcvLossList' = rcvLossList \cup (rcvCurrSeqNo + 1 .. p.seq - 1)
                           /\ net' \in SendTo(rest, LossReport(rcvCurrSeqNo + 1, p.seq - 1))
                      ELSE /\ rcvLossList' = rcvLossList \ {p.seq}
                           /\ net' = rest
                 /\ rcvCurrSeqNo' = IF p.seq > rcvCurrSeqNo THEN p.seq ELSE rcvCurrSeqNo
    /\ UNCHANGED <<sndVars, startPos, lastAckPos, rcvLastAck, appVars>>

\* Mistake: losses are not looked for.
NextAckOfLast == rcvCurrSeqNo + 1

NextAck == IF rcvLossList = {} THEN rcvCurrSeqNo + 1
           ELSE CHOOSE s \in rcvLossList : \A t \in rcvLossList : s =< t

\* CRcvBuffer::ackData.
AckData(n) ==
    /\ lastAckPos' = (lastAckPos + n) % RcvBufSize
    /\ maxPos' = IF maxPos < n THEN 0 ELSE maxPos - n

SendAck ==
    /\ NextAck >= rcvLastAck
    /\ rcvLastAck' = NextAck
    /\ AckData(NextAck - rcvLastAck)
    /\ net' \in SendTo(net, AckPacket(NextAck))
    /\ UNCHANGED <<sndVars, units, startPos, rcvCurrSeqNo, rcvLossList, arrived, appVars>>

\* CRcvBuffer::dropMsg.  The number it looks for comes without the bits for boundary and
\* order that a unit has with its number.
Dropped(msg) ==
    LET last == (lastAckPos + maxPos - startPos) % RcvBufSize
    IN {k \in Slots :
           /\ (k - startPos) % RcvBufSize < last
           /\ units[k] # Empty
           /\ LET b == units[k].block IN b.msg = msg /\ ~ (b.first \/ b.last \/ b.order)}

RecvDropRequest ==
    /\ \E p \in net :
         /\ p.kind = "drop" /\ Arrives(p)
         /\ units' = [k \in Slots |-> IF k \in Dropped(p.msg) THEN [units[k] EXCEPT !.flag = 3]
                                      ELSE units[k]]
         /\ rcvLossList' = rcvLossList \ (p.lo .. p.hi)
         /\ rcvCurrSeqNo' = IF p.lo =< rcvCurrSeqNo + 1 /\ p.hi > rcvCurrSeqNo THEN p.hi
                            ELSE rcvCurrSeqNo
    /\ UNCHANGED <<sndVars, startPos, lastAckPos, maxPos, rcvLastAck, arrived, appVars>>

-----------------------------------------------------------------------------
(* The receiver: recvmsg.  CRcvBuffer::scanMsg throws away what cannot be  *)
(* read any more and looks for a message, readMsg copies it; the worker    *)
(* may come between.                                                       *)

At(k) == k % RcvBufSize
Good(k) == units[At(k)].flag = 1

\* scanMsg, first loop: the unit at k begins a message of which nothing is missing up
\* to its end or to the last acknowledged unit.
BeginsMessage(k) ==
    /\ Good(k) /\ units[At(k)].block.first
    /\ \E e \in k .. startPos + RcvDataSize - 1 :
         /\ \A j \in k .. e : Good(j)
         /\ units[At(e)].block.last \/ e = startPos + RcvDataSize - 1

\* The position the loop ends at, counted on from m_iStartPos without a wrap.
NewStart == CHOOSE k \in startPos .. startPos + RcvDataSize :
    /\ k = startPos + RcvDataSize \/ BeginsMessage(k)
    /\ \A j \in startPos .. k - 1 : ~ BeginsMessage(j)

\* Mistake: a message that begins does not replace one that has begun.
BeginOfFirst(start, k) ==
    LET heads == {j \in start .. k : Good(j) /\ units[At(j)].block.first /\ \A i \in j .. k : Good(i)}
    IN IF heads = {} THEN -1 ELSE CHOOSE h \in heads : \A j \in heads : h =< j

\* Where the message begins that the unit at k belongs to: nothing is missing since.
BeginOf(start, k) ==
    LET heads == {j \in start .. k : Good(j) /\ units[At(j)].block.first /\ \A i \in j .. k : Good(i)}
    IN IF heads = {} THEN -1 ELSE CHOOSE h \in heads : \A j \in heads : j =< h

\* Mistake: an ordered message is read ahead of those before it.
MayReadAny(k, passack) == TRUE

\* A message that ends at k may be read.
MayRead(k, passack) == ~passack \/ ~units[At(k)].block.order

\* scanMsg, second loop: the first end of a message that is whole and may be read.
Scan(start) ==
    LET acked == startPos + RcvDataSize
        n == maxPos + (acked - start)
        PassAck(k) == k >= acked
        Ends == {k \in start .. start + n :
                    Good(k) /\ units[At(k)].block.last /\ BeginOf(start, k) # -1 /\ MayRead(k, PassAck(k))}
    IN IF Ends # {}
       THEN LET e == CHOOSE k \in Ends : \A j \in Ends : k =< j
            IN [from |-> At(BeginOf(start, e)), to |-> At(e), passack |-> PassAck(e)]
       ELSE \* "if the message is larger than the receiver buffer, return part of it"
            LET h == BeginOf(start, start + n)
                q == start + n + 1
            IN IF h # -1 /\ At(q + 1) = At(h)
               THEN [from |-> At(h), to |-> At(q), passack |-> TRUE]
               ELSE Nothing

\* getRcvMsgNum only looks.
RecvLook ==
    /\ found = Nothing
    /\ startPos # lastAckPos \/ maxPos > 0
    /\ LET start == NewStart
           bad == {At(k) : k \in startPos .. start - 1}
       IN /\ startPos' = At(start)
          /\ units' = [k \in Slots |-> IF k \in bad THEN Empty ELSE units[k]]
          /\ found' \in {Scan(start), Nothing}
    /\ UNCHANGED <<sndVars, net, lastAckPos, maxPos, seqVars, received>>

\* The slots of what was found, in order; none where the part of a message was to be
\* returned, for readMsg takes it for read.
Found == [i \in 1 .. (found.to + 1 - found.from) % RcvBufSize |-> At(found.from + i - 1)]

\* What is read ahead stays, marked, until it is acknowledged.
MarkRead == [k \in Slots |-> IF k \in ToSet(Found) THEN [units[k] EXCEPT !.flag = 2] ELSE units[k]]

RecvTake ==
    /\ found # Nothing
    /\ received' = IF Found = <<>> THEN received
                   ELSE Append(received, [i \in DOMAIN Found |-> units[Found[i]]])
    /\ IF found.passack
       THEN /\ units' = MarkRead
            /\ UNCHANGED startPos
       ELSE /\ units' = [k \in Slots |-> IF k \in ToSet(Found) THEN Empty ELSE units[k]]
            /\ startPos' = At(found.to + 1)
    /\ found' = Nothing
    /\ UNCHANGED <<sndVars, net, lastAckPos, maxPos, seqVars>>

-----------------------------------------------------------------------------
Init ==
    /\ blocks = <<>> /\ firstBlock = 1 /\ currBlock = 1 /\ expired = {}
    /\ sndCurrSeqNo = 0 /\ sndLastAck = 1 /\ sndLossList = {}
    /\ net = {}
    /\ units = [k \in Slots |-> Empty]
    /\ startPos = 0 /\ lastAckPos = 0 /\ maxPos = 0
    /\ rcvCurrSeqNo = 0 /\ rcvLastAck = 1 /\ rcvLossList = {}
    /\ arrived = {} /\ found = Nothing /\ received = <<>>

Next ==
    \/ \E size \in Sizes, order \in Orders, mortal \in Mortal : SendMsg(size, order, mortal)
    \/ PackLost \/ PackNew \/ RecvAck \/ RecvLossReport \/ SndExpire
    \/ RecvData \/ SendAck \/ RecvLook \/ RecvTake
    \/ Lose

Spec == Init /\ [][Next]_vars

\* Messages with a time to live, which may be over.
DropNext ==
    \/ Next
    \/ \E i \in DOMAIN blocks : Expire(i)
    \/ RecvDropRequest

DropSpec == Init /\ [][DropNext]_vars

-----------------------------------------------------------------------------
Numbers == 1 .. 3 * MaxBlocks
Messages == 1 .. MaxBlocks
Blocks == [msg : Messages \cup {0}, first : BOOLEAN, last : BOOLEAN, order : BOOLEAN, mortal : BOOLEAN]
Units == {Empty} \cup [flag : {1, 2, 3}, seq : Numbers, block : Blocks]

\* Every variable has its type, and neither an ACK nor a loss report names more than
\* was sent (for which the sender would break the connection).
TypeOK ==
    /\ \A i \in DOMAIN blocks : blocks[i] \in Blocks
    /\ firstBlock \in Nat /\ currBlock \in 1 .. Len(blocks) + 1 /\ expired \subseteq Messages
    /\ sndCurrSeqNo \in {0} \cup Numbers /\ sndLastAck \in Numbers
    /\ sndLossList \subseteq 1 .. sndCurrSeqNo
    /\ \A p \in net : /\ p.kind = "ack" => p.ack =< sndCurrSeqNo + 1
                      /\ p.kind \in {"loss", "drop"} => p.hi =< sndCurrSeqNo
                      /\ p.kind = "data" => p.seq =< sndCurrSeqNo
    /\ \A k \in Slots : units[k] \in Units
    /\ {startPos, lastAckPos, maxPos} \subseteq Slots
    /\ rcvCurrSeqNo \in 0 .. sndCurrSeqNo /\ rcvLastAck \in 1 .. sndCurrSeqNo + 1
    /\ rcvLossList \subseteq rcvLastAck .. rcvCurrSeqNo
    /\ arrived \subseteq Blocks

\* A packet is in the slot its number says, however the positions have moved; what is
\* behind the acknowledged units has been skipped, read or acknowledged.  And nothing is
\* out of the reach of scanMsg, where it would stay for ever and take the place of a
\* later packet.
SlotsFollowNumbers ==
    \A k \in Slots : units[k] # Empty =>
        /\ units[k].seq - rcvLastAck = ((k - startPos) % RcvBufSize) - RcvDataSize
        /\ (k - startPos) % RcvBufSize =< RcvDataSize + maxPos

\* What recvmsg has found is there when it copies it.
FoundIsThere == \A k \in ToSet(Found) : found # Nothing => units[k] # Empty

NumbersOf(r) == {r[i].seq : i \in DOMAIN r}

\* No packet is read twice, although one that was read ahead of others stays in the
\* buffer and is acknowledged later.
ReadOnce ==
    \A i, j \in DOMAIN received : i # j => NumbersOf(received[i]) \cap NumbersOf(received[j]) = {}

\* What recvmsg has found is still there when it copies it; and it returns packets of
\* consecutive numbers, from the first of a message to the last of the same one.
ReadWhole ==
    /\ FoundIsThere
    /\ \A i \in DOMAIN received :
           LET r == received[i]
           IN \A k \in DOMAIN r : /\ r[k].seq = r[1].seq + k - 1
                                  /\ r[k].block.msg = r[1].block.msg
                                  /\ r[k].block.first <=> k = 1
                                  /\ r[k].block.last <=> k = Len(r)

\* Nothing is read twice, and a message that is to be read in order is read after
\* everything before it that was read at all.
ReadInOrder ==
    /\ ReadOnce
    /\ \A i, j \in DOMAIN received :
           i < j /\ received[i][1].block.order => received[i][1].seq < received[j][1].seq

\* ttl: "Default is -1, which means infinite" (sendmsg.htm:32), and "Lost packets in the
\* message will be retransmitted before TTL expires" (94): a block of a message without
\* a time to live is freed only when the receiver has got it.
FreedWhenArrived ==
    \A i \in DOMAIN blocks : i < firstBlock => blocks[i].mortal \/ blocks[i] \in arrived
=============================================================================
