----------------------------- MODULE LossLists ------------------------------
(***************************************************************************)
(* CSndLossList and CRcvLossList: sets of sequence numbers kept as ranges  *)
(* in linked arrays.  A range that starts at s lies in the slot as far from*)
(* the head's as s is from the number there, modulo the size of the array, *)
(* so that a number is found without a search; a range that loses its first*)
(* number moves to the next slot.                                          *)
(*                                                                         *)
(* A list is a record whose field "node" maps the slots in use to a range  *)
(* and the links to its neighbours; a slot with m_piData1 = -1 is not in   *)
(* its domain, and a range of one number has last = first where the code   *)
(* has m_piData2 = -1.                                                     *)
(*                                                                         *)
(* The two lists are driven as CUDT drives them, inside the window of      *)
(* numbers lo .. hi that are not acknowledged, anywhere on the circle.     *)
(***************************************************************************)
EXTENDS SeqNo, Sequences, FiniteSets, SequencesExt

CONSTANTS ListSize,     \* m_iSize, slots of an array
          WindowLimit,  \* numbers the receive buffer has room for, m_iRcvBufSize - 1
          DropsAcross   \* whether a drop request may go from before the largest number
                        \* to beyond 0

\* The receive buffer is not greater than the flight size, of which the lists have a
\* slot each (core.cpp:294), and than the numbers that can be compared.
ASSUME ListAssumption ==
    /\ ListSize \in Nat /\ WindowLimit \in Nat
    /\ WindowLimit =< ListSize /\ WindowLimit < SeqNoTH
    /\ DropsAcross \in BOOLEAN

VARIABLES snd,   \* m_pSndLossList
          rcv,   \* m_pRcvLossList
          missing, resend   \* the sets the lists stand for

None == -1

EmptySnd == [node |-> <<>>, head |-> None, length |-> 0, hint |-> None]
EmptyRcv == [node |-> <<>>, head |-> None, tail |-> None, length |-> 0]

\* The slot of a number, given the slot and the number of the head.
SlotOf(l, seq) == (l.head + SeqOff(l.node[l.head].first, seq) + ListSize) % ListSize

\* Mistake: the slot after the last one is outside the array.
NextSlotNoWrap(slot) == slot + 1

NextSlot(slot) == (slot + 1) % ListSize

Starts(l, slot, seq) == slot \in DOMAIN l.node /\ l.node[slot].first = seq

\* The slots in the order of their links, from a given one on.
ChainFrom(l, slot) ==
    LET walk[n \in 0 .. ListSize] ==
            IF n = 0 THEN <<slot>>
            ELSE LET sofar == walk[n - 1]
                     next == l.node[sofar[Len(sofar)]].next
                 IN IF next = None THEN sofar ELSE Append(sofar, next)
    IN IF slot = None THEN <<>> ELSE walk[ListSize]

Chain(l) == ChainFrom(l, l.head)

\* The last slot from "slot" on whose successor does not start before seq.
Prior(l, slot, seq) ==
    LET chain == ChainFrom(l, slot)
        Stops(i) == i = Len(chain) \/ SeqCmp(l.node[chain[i + 1]].first, seq) >= 0
    IN chain[CHOOSE i \in DOMAIN chain : Stops(i) /\ \A j \in 1 .. i - 1 : ~Stops(j)]

Without(node, slots) == [s \in DOMAIN node \ slots |-> node[s]]
With(node, slot, value) ==
    [s \in DOMAIN node \cup {slot} |-> IF s = slot THEN value ELSE node[s]]

-----------------------------------------------------------------------------
(* CSndLossList                                                            *)

SndNode(s1, s2, next) == [first |-> s1, last |-> s2, next |-> next]

\* Mistake: the numbers two overlapping ranges share are counted twice.
SwallowCountingTwice(l, loc) ==
    LET a == l.node[loc]
        b == l.node[a.next]
        longer == SeqCmp(b.last, a.last) > 0
    IN [l EXCEPT !.node = With(Without(@, {a.next}), loc,
                               SndNode(a.first, IF longer THEN b.last ELSE a.last, b.next)),
                 !.length = @ - (IF longer THEN 0 ELSE SeqLen(b.first, b.last))]

\* insert, last part: the range at loc takes in the one that follows it.
Swallow(l, loc) ==
    LET a == l.node[loc]
        b == l.node[a.next]
        longer == SeqCmp(b.last, a.last) > 0
        shared == IF SeqCmp(b.first, a.last) > 0 THEN 0
                  ELSE SeqLen(b.first, IF longer THEN a.last ELSE b.last)
    IN [l EXCEPT !.node = With(Without(@, {a.next}), loc,
                               SndNode(a.first, IF longer THEN b.last ELSE a.last, b.next)),
                 !.length = @ - shared]

\* insert's loop: only a range of more than one number takes in others.
Coalesce(l, loc) ==
    LET Touches(m) == LET a == m.node[loc]
                      IN /\ a.next # None /\ a.last # a.first
                         /\ SeqCmp(m.node[a.next].first, IncSeq(a.last)) =< 0
        after[n \in 0 .. ListSize] ==
            IF n = 0 THEN l
            ELSE LET m == after[n - 1] IN IF Touches(m) THEN Swallow(m, loc) ELSE m
    IN after[ListSize]

\* insert: the range at slot i is made to reach as far as s2, or left alone.
Extend(l, i, s2) ==
    LET a == l.node[i]
    IN IF SeqCmp(s2, a.last) =< 0 THEN [l EXCEPT !.hint = i]
       ELSE Coalesce([l EXCEPT !.hint = i, !.node[i].last = s2,
                               !.length = @ + SeqLen(a.last, s2) - 1], i)

\* insert, when nothing that is there overlaps the beginning of the range.
Link(l, loc, s1, s2, next) ==
    Coalesce([l EXCEPT !.node = With(@, loc, SndNode(s1, s2, next)), !.hint = loc,
                       !.length = @ + SeqLen(s1, s2)], loc)

SndInsert(l, s1, s2) ==
    IF l.length = 0
    THEN [node |-> [s \in {0} |-> SndNode(s1, s2, None)], head |-> 0,
          length |-> SeqLen(s1, s2), hint |-> 0]
    ELSE LET loc == SlotOf(l, s1)
             start == IF l.hint # None /\ SeqCmp(l.node[l.hint].first, s1) < 0
                      THEN l.hint ELSE l.head
             i == Prior(l, start, s1)
         IN IF SeqOff(l.node[l.head].first, s1) < 0
            THEN [Link(l, loc, s1, s2, l.head) EXCEPT !.head = loc]
            ELSE IF Starts(l, loc, s1) THEN Extend(l, loc, s2)
            ELSE IF SeqCmp(l.node[i].last, s1) < 0
            THEN Link([l EXCEPT !.node[i].next = loc], loc, s1, s2, l.node[i].next)
            ELSE Extend(l, i, s2)

\* Mistake: the position of the last insertion outlives its node.
HintKept(l, gone) == l.hint

\* m_iLastInsertPos is given up with the node it names.
HintAfter(l, gone) == IF l.hint \in gone THEN None ELSE l.hint

\* remove: everything up to seq goes.  The range that reaches beyond seq, if
\* there is one, goes on in the slot after that of seq.
SndRemove(l, seq) ==
    IF l.length = 0 \/ SeqOff(l.node[l.head].first, seq) < 0 THEN l
    ELSE LET loc == SlotOf(l, seq)
             p == IF Starts(l, loc, seq) THEN loc ELSE Prior(l, l.head, seq)
             cut == SeqCmp(l.node[p].last, seq) > 0
             chain == Chain(l)
             gone == {chain[i] : i \in 1 .. CHOOSE k \in DOMAIN chain : chain[k] = p}
             Counted(s) == SeqLen(l.node[s].first, IF s = p /\ cut THEN seq ELSE l.node[s].last)
             kept == Without(l.node, gone)
         IN [node |-> IF cut
                      THEN With(kept, NextSlot(loc),
                                SndNode(IncSeq(seq), l.node[p].last, l.node[p].next))
                      ELSE kept,
             head |-> IF cut THEN NextSlot(loc) ELSE l.node[p].next,
             length |-> l.length - SumFunction([s \in gone |-> Counted(s)]),
             hint |-> HintAfter(l, gone)]

\* getLostSeq: the first number, which is taken out.
FirstLost(l) == l.node[l.head].first
TakeFirst(l) == SndRemove(l, FirstLost(l))
-----------------------------------------------------------------------------
(* CRcvLossList                                                            *)

RcvNode(s1, s2, prior, next) == [first |-> s1, last |-> s2, prior |-> prior, next |-> next]

\* insert: s1 is beyond everything in the list.
RcvInsert(l, s1, s2) ==
    IF l.length = 0
    THEN [node |-> [s \in {0} |-> RcvNode(s1, s2, None, None)], head |-> 0, tail |-> 0,
          length |-> SeqLen(s1, s2)]
    ELSE LET loc == SlotOf(l, s1)
             t == l.node[l.tail]
             longer == [l EXCEPT !.length = @ + SeqLen(s1, s2)]
         IN IF t.last # t.first /\ IncSeq(t.last) = s1
            THEN [longer EXCEPT !.node[l.tail].last = s2]
            ELSE [longer EXCEPT !.node = With([@ EXCEPT ![l.tail].next = loc], loc,
                                              RcvNode(s1, s2, l.tail, None)),
                                !.tail = loc]

\* The range in a slot is replaced by another one, at the same place of the
\* list: both its neighbours, or the ends of the list, follow.
Replace(l, slot, to, value) ==
    LET old == l.node[slot]
        moved == With(Without(l.node, {slot}), to, value)
        linked == [s \in DOMAIN moved |->
                      IF s = old.prior THEN [moved[s] EXCEPT !.next = to]
                      ELSE IF s = old.next THEN [moved[s] EXCEPT !.prior = to]
                      ELSE moved[s]]
    IN [l EXCEPT !.node = linked,
                 !.head = IF @ = slot THEN to ELSE @,
                 !.tail = IF @ = slot THEN to ELSE @]

\* A range of one number is taken out of the list.
Unlink(l, slot) ==
    LET old == l.node[slot]
        kept == Without(l.node, {slot})
    IN [l EXCEPT !.node = [s \in DOMAIN kept |->
                              IF s = old.prior THEN [kept[s] EXCEPT !.next = old.next]
                              ELSE IF s = old.next THEN [kept[s] EXCEPT !.prior = old.prior]
                              ELSE kept[s]],
                 !.head = IF @ = slot THEN old.next ELSE @,
                 !.tail = IF @ = slot THEN old.prior ELSE @]

\* A number inside a range: what follows it becomes a range of its own.
Split(l, i, loc, seq) ==
    LET old == l.node[i]
        rest == RcvNode(IncSeq(seq), old.last, i, old.next)
        cut == [l.node EXCEPT ![i].last = DecSeq(seq), ![i].next = NextSlot(loc)]
    IN [l EXCEPT !.node = [s \in DOMAIN cut \cup {NextSlot(loc)} |->
                              IF s = NextSlot(loc) THEN rest
                              ELSE IF s = old.next THEN [cut[s] EXCEPT !.prior = NextSlot(loc)]
                              ELSE cut[s]],
                 !.tail = IF @ = i THEN NextSlot(loc) ELSE @]

\* The nearest slot before loc that is in use, wherever its range belongs.
SlotBefore(l, loc) ==
    LET At(k) == (loc - k + ListSize) % ListSize
    IN At(CHOOSE k \in 1 .. ListSize : /\ At(k) \in DOMAIN l.node
                                       /\ \A j \in 1 .. k - 1 : At(j) \notin DOMAIN l.node)

\* remove, of a number that is in the list.
RcvTakeOut(l, seq) ==
    LET loc == SlotOf(l, seq)
        i == SlotBefore(l, loc)
    IN IF Starts(l, loc, seq)
       THEN IF l.node[loc].last = seq THEN Unlink(l, loc)
            ELSE Replace(l, loc, NextSlot(loc), [l.node[loc] EXCEPT !.first = IncSeq(seq)])
       ELSE IF l.node[i].last = seq THEN [l EXCEPT !.node[i].last = DecSeq(seq)]
       ELSE Split(l, i, loc, seq)

\* remove: a number before the head, or in no range, is not in the list.
RcvHas(l, seq) ==
    /\ l.length # 0
    /\ SeqOff(l.node[l.head].first, seq) >= 0
    /\ LET loc == SlotOf(l, seq)
           before == l.node[SlotBefore(l, loc)]
       IN \/ Starts(l, loc, seq)
          \/ before.last # before.first /\ SeqCmp(seq, before.last) =< 0

\* An emptied list keeps its tail, which insert() sets before it is read.
RcvRemove(l, seq) ==
    IF ~RcvHas(l, seq) THEN l
    ELSE IF l.length = 1 THEN EmptyRcv
    ELSE [RcvTakeOut(l, seq) EXCEPT !.length = @ - 1]

\* The numbers remove(seqno1, seqno2) goes through.  Across the wrap it stops
\* short of the largest number.
RangeRemoved(s1, s2) ==
    LET Upwards(n1, n2) == [i \in 1 .. n2 - n1 + 1 |-> n1 + i - 1]
    IN IF s1 =< s2 THEN Upwards(s1, s2)
       ELSE Upwards(s1, MaxSeqNo - 1) \o Upwards(0, s2)

RcvRemoveRange(l, s1, s2) == FoldLeft(RcvRemove, l, RangeRemoved(s1, s2))

-----------------------------------------------------------------------------
(* The lists in use.  "missing" and "resend" are what they stand for.      *)

listVars == <<lo, hi, width, snd, rcv, missing, resend>>

Unacked == From(lo, width)

ListInit ==
    /\ Init
    /\ snd = EmptySnd /\ rcv = EmptyRcv
    /\ missing = {} /\ resend = {}

\* processData: a packet arrives after k others that did not, and the buffer has room
\* for all of them.
Arrive ==
    \E k \in 0 .. WindowLimit - 1 - width :
        /\ hi' = IncSeqBy(hi, k + 1)
        /\ width' = width + k + 1
        /\ rcv' = IF k = 0 THEN rcv ELSE RcvInsert(rcv, hi, IncSeqBy(hi, k - 1))
        /\ missing' = missing \cup From(hi, k)
        /\ UNCHANGED <<lo, snd, resend>>

\* processData: a packet arrives that is not beyond all others.
ArriveLate ==
    /\ \E seq \in Unacked :
           /\ rcv' = RcvRemove(rcv, seq)
           /\ missing' = missing \ {seq}
    /\ UNCHANGED <<vars, snd, resend>>

\* A report of one range arrives, when the range was lost or at any time until
\* it is acknowledged; or the timer has everything sent again.
RecvReport ==
    /\ \E s1, s2 \in Unacked :
           /\ SeqOff(s1, s2) >= 0
           /\ snd' = SndInsert(snd, s1, s2)
           /\ resend' = resend \cup Between(s1, s2)
    /\ UNCHANGED <<vars, rcv, missing>>

\* packData takes the first number, to send it again.
Resend ==
    /\ snd.length > 0
    /\ snd' = TakeFirst(snd)
    /\ resend' = resend \ {FirstLost(snd)}
    /\ UNCHANGED <<vars, rcv, missing>>

\* An acknowledgement: what was in order at the receiver when it was sent.
Ack ==
    LET ack == IF rcv.length = 0 THEN hi ELSE FirstLost(rcv)
    IN /\ ack # lo
       /\ lo' = ack
       /\ width' = SeqOff(ack, hi)
       /\ snd' = SndRemove(snd, DecSeq(ack))
       /\ resend' = resend \ From(lo, SeqOff(lo, ack))
       /\ UNCHANGED <<hi, rcv, missing>>

\* A drop request for the numbers of a message, which are to be removed all.
RecvDropRequest ==
    /\ \E s1, s2 \in Unacked :
           /\ SeqOff(s1, s2) >= 0
           /\ DropsAcross \/ s1 =< s2
           /\ rcv' = RcvRemoveRange(rcv, s1, s2)
           /\ missing' = missing \ Between(s1, s2)
    /\ UNCHANGED <<vars, snd, resend>>

ListNext ==
    \/ Arrive \/ ArriveLate \/ RecvReport \/ Resend \/ Ack \/ RecvDropRequest

ListSpec == ListInit /\ [][ListNext]_listVars

-----------------------------------------------------------------------------
\* The window, and slots inside the arrays.
ListTypeOK ==
    /\ TypeOK
    /\ missing \cup resend \subseteq Unacked
    /\ DOMAIN snd.node \cup DOMAIN rcv.node \subseteq 0 .. ListSize - 1
    /\ {snd.head, snd.hint} \subseteq DOMAIN snd.node \cup {None}
    /\ {rcv.head, rcv.tail} \subseteq DOMAIN rcv.node \cup {None}

\* The numbers that can be reached from the head are those put in and not taken
\* out, the first of them is the oldest, and the length counts them: the list
\* of ranges can be used as the set UdtTransfer has instead.  The length, kept
\* by addition at every change, decides whether there is anything to send.
StandsFor(l, S) ==
    /\ UNION {Between(l.node[s].first, l.node[s].last) : s \in ToSet(Chain(l))} = S
    /\ l.length = Cardinality(S)
    /\ S # {} => \A seq \in S : SeqOff(FirstLost(l), seq) >= 0

ListsAreSets == StandsFor(snd, resend) /\ StandsFor(rcv, missing)

\* Every range lies where its first number says, and the links meet the slots in
\* use in the order of the numbers.
InPlace(l) ==
    LET chain == Chain(l)
    IN /\ ToSet(chain) = DOMAIN l.node
       /\ \A i \in DOMAIN chain : chain[i] = SlotOf(l, l.node[chain[i]].first)
       /\ \A i \in 1 .. Len(chain) - 1 :
              SeqCmp(l.node[chain[i]].last, l.node[chain[i + 1]].first) < 0

\* The receiver's list is linked both ways, and the tail, behind which the next
\* loss goes, ends it.
LinkedBothWays ==
    LET chain == Chain(rcv)
    IN /\ chain # <<>> => rcv.tail = chain[Len(chain)]
       /\ \A i \in DOMAIN chain :
              rcv.node[chain[i]].prior = IF i = 1 THEN None ELSE chain[i - 1]

\* Both lists find a number by its distance from the head instead of searching
\* for it, which works only while everything lies and is linked as it should.
SlotsFollowNumbers == InPlace(snd) /\ InPlace(rcv) /\ LinkedBothWays
=============================================================================
