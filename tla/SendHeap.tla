------------------------------ MODULE SendHeap ------------------------------
(***************************************************************************)
(* CSndUList: the sockets of a UDP port that want to send, in a heap       *)
(* ordered by the time they want to send at.                               *)
(*                                                                         *)
(* The heap is a sequence, and a position of the code plus one is an index *)
(* of it: 0 is m_iHeapLoc = -1.  Here its operations are called in any     *)
(* order; SendSchedule says who calls them when, and what follows for the  *)
(* worker.                                                                 *)
(***************************************************************************)
EXTENDS Integers, Sequences, FiniteSets

CONSTANTS
    Sockets,      \* sockets of the port
    Intervals,    \* what may lie between two packets of a socket
    MaxTime       \* bound of the model: the clock stops there

ASSUME HeapAssumption ==
    /\ IsFiniteSet(Sockets)
    /\ Intervals \subseteq Nat
    /\ MaxTime \in Nat \ {0}

VARIABLES
    heap,         \* m_pHeap, up to m_iLastEntry
    loc,          \* m_iHeapLoc of each socket's node, plus one
    time,         \* m_llTimeStamp of each socket's node, while it is on the heap
    now           \* the clock

heapVars == <<heap, loc, time>>

\* Mistake: at once is the time 0, which is also what an empty list answers.
TimeZero == 0

\* The time stamp of what should be sent at once.
AtOnce == 1

-----------------------------------------------------------------------------
(* The heap: its nodes, the place each socket believes its node is at, and *)
(* the times.  A node that moves up or down takes the place of each node   *)
(* it passes, and that one's place is adjusted.                            *)

HeapNow == [nodes |-> heap, at |-> loc, time |-> time]

Earliest(S) == CHOOSE p \in S : \A q \in S : p =< q
Latest(S) == CHOOSE p \in S : \A q \in S : p >= q

\* Places of the node at place i on its way up.
WayUp(h, t, i) ==
    LET way[q \in 1 .. i] ==
            {q} \cup IF q = 1 \/ t[h[q \div 2]] =< t[h[i]] THEN {} ELSE way[q \div 2]
    IN way[i]

\* The earlier one of the two below a place.
Below(h, t, q) ==
    IF 2 * q + 1 =< Len(h) /\ t[h[2 * q]] > t[h[2 * q + 1]] THEN 2 * q + 1 ELSE 2 * q

\* Places of the node at place i on its way down.
WayDown(h, t, i) ==
    LET way[q \in 1 .. Len(h)] ==
            {q} \cup IF 2 * q > Len(h) \/ t[h[i]] =< t[h[Below(h, t, q)]] THEN {}
                     ELSE way[Below(h, t, q)]
    IN IF i > Len(h) THEN {} ELSE way[i]

\* The sockets whose nodes now lie on the way have been told so.
Told(at, h, way) ==
    [u \in Sockets |-> IF \E q \in way : h[q] = u THEN CHOOSE q \in way : h[q] = u ELSE at[u]]

\* insert_, without waking anybody.
insert_(H, ts, u) ==
    IF H.at[u] # 0 THEN H
    ELSE LET t == [H.time EXCEPT ![u] = ts]
             h == Append(H.nodes, u)
             way == WayUp(h, t, Len(h))
             new == [q \in DOMAIN h |-> IF q \notin way THEN h[q]
                                        ELSE IF q = Earliest(way) THEN u ELSE h[q \div 2]]
         IN [nodes |-> new, at |-> Told(H.at, new, way), time |-> t]

\* Mistake: the node that fills the gap is not told its place when it stays there.
RemoveUntold(H, u) ==
    IF H.at[u] = 0 THEN H
    ELSE LET i == H.at[u]
             h == SubSeq([H.nodes EXCEPT ![i] = H.nodes[Len(H.nodes)]], 1, Len(H.nodes) - 1)
             way == WayDown(h, H.time, i)
             new == [q \in DOMAIN h |-> IF q \notin way THEN h[q]
                                        ELSE IF q = Latest(way) THEN h[i]
                                        ELSE h[CHOOSE p \in way : p \div 2 = q]]
         IN [nodes |-> new,
             at |-> [Told(H.at, new, way \ {i}) EXCEPT ![u] = 0],
             time |-> [H.time EXCEPT ![u] = AtOnce]]

\* remove_, without waking anybody: the last node fills the gap, and sinks.
remove_(H, u) ==
    IF H.at[u] = 0 THEN H
    ELSE LET i == H.at[u]
             h == SubSeq([H.nodes EXCEPT ![i] = H.nodes[Len(H.nodes)]], 1, Len(H.nodes) - 1)
             way == WayDown(h, H.time, i)
             new == [q \in DOMAIN h |-> IF q \notin way THEN h[q]
                                        ELSE IF q = Latest(way) THEN h[i]
                                        ELSE h[CHOOSE p \in way : p \div 2 = q]]
         IN [nodes |-> new,
             at |-> [Told(H.at, new, way) EXCEPT ![u] = 0],
             time |-> [H.time EXCEPT ![u] = AtOnce]]

SetHeap(H) == heap' = H.nodes /\ loc' = H.at /\ time' = H.time

\* The heap after update(u, reschedule).
Updated(u, reschedule) ==
    IF loc[u] = 0 THEN insert_(HeapNow, AtOnce, u)
    ELSE IF ~reschedule THEN HeapNow
    ELSE IF loc[u] = 1 THEN [HeapNow EXCEPT !.time[u] = AtOnce]
    ELSE insert_(remove_(HeapNow, u), AtOnce, u)

-----------------------------------------------------------------------------
(* Calls in any order: there is something to send, the first socket's time *)
(* has come, a socket is closed. *)

HeapInit ==
    /\ heap = << >>
    /\ loc = [u \in Sockets |-> 0]
    /\ time = [u \in Sockets |-> AtOnce]
    /\ now = AtOnce

HeapUpdate(u, reschedule) == SetHeap(Updated(u, reschedule)) /\ UNCHANGED now

\* pop, of a socket that has something to send, or has not.
HeapPop ==
    /\ heap # << >>
    /\ now >= time[heap[1]]
    /\ \/ SetHeap(remove_(HeapNow, heap[1]))
       \/ \E d \in {d \in Intervals : now + d =< MaxTime} :
              SetHeap(insert_(remove_(HeapNow, heap[1]), now + d, heap[1]))
    /\ UNCHANGED now

HeapRemove(u) == SetHeap(remove_(HeapNow, u)) /\ UNCHANGED now

HeapTick == now < MaxTime /\ now' = now + 1 /\ UNCHANGED heapVars

HeapNext ==
    \/ \E u \in Sockets : HeapRemove(u) \/ \E reschedule \in BOOLEAN : HeapUpdate(u, reschedule)
    \/ HeapPop
    \/ HeapTick

HeapSpec == HeapInit /\ [][HeapNext]_<<heapVars, now>>

-----------------------------------------------------------------------------
HeapTypeOK ==
    /\ heap \in Seq(Sockets)
    /\ loc \in [Sockets -> 0 .. Cardinality(Sockets)]
    /\ time \in [Sockets -> 1 .. MaxTime]
    /\ now \in 1 .. MaxTime

\* Every socket's node knows its place: a place other than none is where the node
\* is, and a node on the heap has one.  remove_() trusts it to find what it removes.
HeapAgrees ==
    /\ \A i \in DOMAIN heap : loc[heap[i]] = i
    /\ \A u \in Sockets : loc[u] # 0 => loc[u] \in DOMAIN heap /\ heap[loc[u]] = u

\* The first socket of the heap is the one that wants to send first: the worker
\* sleeps until its time, and pop() serves no other.
FirstIsEarliest == \A i \in DOMAIN heap : time[heap[1]] =< time[heap[i]]
=============================================================================
