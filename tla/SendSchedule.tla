---------------------------- MODULE SendSchedule ----------------------------
(***************************************************************************)
(* The sockets of a UDP port that have something to send: CSndUList keeps  *)
(* them in a heap ordered by the time they want to send at, the worker of  *)
(* CSndQueue sleeps until the first of these times or, without any, waits  *)
(* on a condition variable; whoever has data, a loss or a timeout to       *)
(* handle updates the heap and wakes the worker.                           *)
(*                                                                         *)
(* The heap itself is in SendHeap.  The code is followed lock by lock: what *)
(* happens under m_ListLock is one step, except that the signal to the     *)
(* worker is given under m_WindowLock in a second one; m_iLastEntry and    *)
(* m_ullSchedTime are also read and written without a lock.                *)
(***************************************************************************)
EXTENDS SendHeap

CONSTANTS
    Callers,      \* threads that update the heap: applications, receiving worker
    MaxCalls      \* bound of the model: times that there is something more to send

ASSUME ScheduleAssumption == MaxCalls \in Nat

VARIABLES
    sndData,      \* packets of each socket that packData would find and may send
    dropped,      \* sockets it left off the heap with more to send, after a message
                  \* whose time to live was over (history of the model)
    link,         \* whether each socket is connected, broken or closed
    worker,       \* where the worker is
    chosen,       \* ts, the time it has read, as long as it is of use
    schedTime,    \* m_ullSchedTime of the timer, while the worker sleeps
    caller,       \* where each caller is, and with which socket
    queue,        \* the destructor of CSndQueue
    calls         \* how often there was something more to send

vars == <<heap, loc, time, now, sndData, dropped, link, worker, chosen, schedTime, caller,
          queue, calls>>

\* m_bConnected && !m_bBroken.
connected == {u \in Sockets : link[u] = "up"}

Idle == [at |-> "idle"]

-----------------------------------------------------------------------------
\* CTimer::interrupt: the worker's sleep ends now.  What it does to a worker that is
\* not asleep is overwritten by sleepto.
Interrupt(condition) ==
    schedTime' = IF condition /\ worker = "asleep" THEN now ELSE schedTime

\* Nobody holds m_ListLock between two steps but who is about to signal the worker.
ListFree == \A c \in Callers : caller[c].at # "signal"

-----------------------------------------------------------------------------
(* The callers: send() and sendmsg(), an acknowledgement, a loss report,   *)
(* an expiration, a broken connection; and close().                        *)

\* There is something more to send, and the caller is about to say so.
Supply(c, u, hurry) ==
    /\ caller[c].at = "idle"
    /\ u \in connected
    /\ calls < MaxCalls
    /\ calls' = calls + 1
    /\ sndData' = [sndData EXCEPT ![u] = @ + 1]
    /\ caller' = [caller EXCEPT ![c] = [at |-> "update", sock |-> u, hurry |-> hurry]]
    /\ UNCHANGED <<heapVars, now, dropped, link, worker, chosen, schedTime, queue>>

\* The connection is broken, and the worker shall drop it at once.
Break(c, u) ==
    /\ caller[c].at = "idle"
    /\ u \in connected
    /\ link' = [link EXCEPT ![u] = "broken"]
    /\ caller' = [caller EXCEPT ![c] = [at |-> "update", sock |-> u, hurry |-> TRUE]]
    /\ UNCHANGED <<heapVars, now, sndData, dropped, worker, chosen, schedTime, queue, calls>>

\* checkTimers, after a silence of the peer: while there is something left to send,
\* the socket is put on the heap again.
Expire(c, u) ==
    /\ caller[c].at = "idle"
    /\ u \in connected
    /\ sndData[u] > 0
    /\ caller' = [caller EXCEPT ![c] = [at |-> "update", sock |-> u, hurry |-> TRUE]]
    /\ UNCHANGED <<heapVars, now, sndData, dropped, link, worker, chosen, schedTime, queue, calls>>

\* update(u, reschedule).
Update(c) ==
    /\ caller[c].at = "update"
    /\ ListFree
    /\ \E u \in {caller[c].sock} : \E H \in {Updated(u, caller[c].hurry)} :
          /\ SetHeap(H)
          /\ Interrupt(/\ loc[u] = 0 \/ caller[c].hurry
                       /\ H.at[u] = 1 \/ (loc[u] = 2 /\ Len(heap) = 2))
          /\ dropped' = dropped \ {u}
          /\ caller' = [caller EXCEPT ![c] = IF loc[u] = 0 /\ heap = << >>
                                             THEN [at |-> "signal"] ELSE Idle]
    /\ UNCHANGED <<now, sndData, link, worker, chosen, queue, calls>>

\* The first entry of the list: the worker may be waiting for one.
Signal(c) ==
    /\ caller[c].at = "signal"
    /\ worker' = IF worker = "waiting" THEN "ask" ELSE worker
    /\ caller' = [caller EXCEPT ![c] = Idle]
    /\ UNCHANGED <<heapVars, now, sndData, dropped, link, chosen, schedTime, queue, calls>>

\* close() takes the socket off the list ...
Close(c, u) ==
    /\ caller[c].at = "idle"
    /\ link[u] # "closed"
    /\ ListFree
    /\ \E H \in {remove_(HeapNow, u)} : SetHeap(H) /\ Interrupt(Len(H.nodes) = 1)
    /\ caller' = [caller EXCEPT ![c] = [at |-> "close", sock |-> u]]
    /\ UNCHANGED <<now, sndData, dropped, link, worker, chosen, queue, calls>>

\* ... and disconnects it later: it may have come back meanwhile.
Disconnect(c) ==
    /\ caller[c].at = "close"
    /\ link' = [link EXCEPT ![caller[c].sock] = "closed"]
    /\ caller' = [caller EXCEPT ![c] = Idle]
    /\ UNCHANGED <<heapVars, now, sndData, dropped, worker, chosen, schedTime, queue, calls>>

-----------------------------------------------------------------------------
(* The worker of CSndQueue. *)

Closing == queue # "open"

\* Mistake: it does not look whether the queue is being closed.
AskForever ==
    /\ worker = "ask" /\ ListFree
    /\ chosen' = IF heap = << >> THEN 0 ELSE time[heap[1]]
    /\ worker' = IF chosen' = 0 THEN "test" ELSE "compare"
    /\ UNCHANGED <<heapVars, now, sndData, dropped, link, schedTime, caller, queue, calls>>

\* while (!m_bClosing), and getNextProcTime.
WorkerAsk ==
    /\ worker = "ask"
    /\ \/ Closing /\ worker' = "gone" /\ UNCHANGED chosen
       \/ /\ ~Closing /\ ListFree
          /\ chosen' = IF heap = << >> THEN 0 ELSE time[heap[1]]
          /\ worker' = IF chosen' = 0 THEN "test" ELSE "compare"
    /\ UNCHANGED <<heapVars, now, sndData, dropped, link, schedTime, caller, queue, calls>>

\* The time it has read is compared with the clock ...
WorkerCompare ==
    /\ worker = "compare"
    /\ worker' = IF now < chosen THEN "sleepto" ELSE "pop"
    /\ chosen' = IF now < chosen THEN chosen ELSE 0
    /\ UNCHANGED <<heapVars, now, sndData, dropped, link, schedTime, caller, queue, calls>>

\* ... and becomes the end of its sleep: an interruption before this step is lost.
WorkerSleepTo ==
    /\ worker = "sleepto"
    /\ schedTime' = chosen
    /\ chosen' = 0
    /\ worker' = "asleep"
    /\ UNCHANGED <<heapVars, now, sndData, dropped, link, caller, queue, calls>>

WorkerAwake ==
    /\ worker = "asleep"
    /\ now >= schedTime
    /\ worker' = "pop"
    /\ schedTime' = 0
    /\ UNCHANGED <<heapVars, now, sndData, dropped, link, chosen, caller, queue, calls>>

\* packData is not called, has nothing to send, has dropped a message whose time to
\* live was over, or has taken a loss that an ACK freed before it had the lock: the
\* thread with that ACK is about to update the heap.
NothingPacked(u) ==
    \/ /\ u \notin connected \/ sndData[u] = 0
       /\ UNCHANGED <<sndData, dropped>>
    \/ /\ u \in connected
       /\ \E left \in 0 .. sndData[u] - 1 :
             /\ sndData' = [sndData EXCEPT ![u] = left]
             /\ dropped' = IF left > 0 THEN dropped \cup {u} ELSE dropped
    \/ /\ u \in connected /\ sndData[u] > 0
       /\ \E c \in Callers : caller[c].at = "update" /\ caller[c].sock = u
       /\ sndData' = [sndData EXCEPT ![u] = @ - 1]
       /\ UNCHANGED dropped

\* packData has a packet, and says when the next one may be sent.
Packed(u, next) ==
    /\ u \in connected /\ sndData[u] > 0
    /\ next \in {now + d : d \in Intervals} /\ next =< MaxTime
    /\ sndData' = [sndData EXCEPT ![u] = @ - 1]
    /\ UNCHANGED dropped

\* Mistake: pop looks at the connection before it takes the node out.
PopCheckedFirst ==
    /\ worker = "pop"
    /\ ListFree
    /\ IF heap = << >> \/ now < time[heap[1]] \/ heap[1] \notin connected
       THEN UNCHANGED <<heapVars, sndData, dropped, schedTime>>
       ELSE \E u \in {heap[1]} : \E H \in {remove_(HeapNow, u)} :
            \/ NothingPacked(u) /\ SetHeap(H) /\ Interrupt(Len(H.nodes) = 1)
            \/ \E next \in 0 .. MaxTime : \E I \in {insert_(H, next, u)} :
                   /\ Packed(u, next)
                   /\ SetHeap(I)
                   /\ Interrupt(Len(H.nodes) = 1 \/ I.at[u] = 1)
    /\ worker' = "ask"
    /\ UNCHANGED <<now, link, chosen, caller, queue, calls>>

\* pop: the first socket is taken out when its time has come; it goes back, with
\* its next time, only when it was connected and packData had a packet for it.
WorkerPop ==
    /\ worker = "pop"
    /\ ListFree
    /\ IF heap = << >> \/ now < time[heap[1]]
       THEN UNCHANGED <<heapVars, sndData, dropped, schedTime>>
       ELSE \E u \in {heap[1]} : \E H \in {remove_(HeapNow, u)} :
            \/ NothingPacked(u) /\ SetHeap(H) /\ Interrupt(Len(H.nodes) = 1)
            \/ \E next \in 0 .. MaxTime : \E I \in {insert_(H, next, u)} :
                   /\ Packed(u, next)
                   /\ SetHeap(I)
                   /\ Interrupt(Len(H.nodes) = 1 \/ I.at[u] = 1)
    /\ worker' = "ask"
    /\ UNCHANGED <<now, link, chosen, caller, queue, calls>>

\* Mistake: it waits because it has read 0, whatever happened since.
WaitUntested ==
    /\ worker = "test"
    /\ worker' = "waiting"
    /\ UNCHANGED <<heapVars, now, sndData, dropped, link, chosen, schedTime, caller, queue, calls>>

\* Under m_WindowLock: m_bClosing and m_iLastEntry are read again before it waits.
WorkerTest ==
    /\ worker = "test"
    /\ worker' = IF ~Closing /\ heap = << >> THEN "waiting" ELSE "ask"
    /\ UNCHANGED <<heapVars, now, sndData, dropped, link, chosen, schedTime, caller, queue, calls>>

-----------------------------------------------------------------------------
(* The destructor, once the sockets of the port are gone: they are deleted *)
(* a second after they were closed, and none is on the heap any more.      *)

QueueClose ==
    /\ queue = "open"
    /\ connected = {} /\ heap = << >>
    /\ \A c \in Callers : caller[c].at = "idle"
    /\ queue' = "closing"
    /\ UNCHANGED <<heapVars, now, sndData, dropped, link, worker, chosen, schedTime, caller, calls>>

QueueSignal ==
    /\ queue = "closing"
    /\ queue' = "joining"
    /\ worker' = IF worker = "waiting" THEN "ask" ELSE worker
    /\ UNCHANGED <<heapVars, now, sndData, dropped, link, chosen, schedTime, caller, calls>>

QueueJoin ==
    /\ queue = "joining"
    /\ worker = "gone"
    /\ queue' = "gone"
    /\ UNCHANGED <<heapVars, now, sndData, dropped, link, worker, chosen, schedTime, caller, calls>>

Tick ==
    /\ now < MaxTime
    /\ now' = now + 1
    /\ UNCHANGED <<heapVars, sndData, dropped, link, worker, chosen, schedTime, caller, queue, calls>>

Finished == queue = "gone" /\ now = MaxTime /\ UNCHANGED vars

-----------------------------------------------------------------------------
Init ==
    /\ HeapInit
    /\ sndData = [u \in Sockets |-> 0]
    /\ dropped = {}
    /\ link = [u \in Sockets |-> "up"]
    /\ worker = "ask"
    /\ chosen = 0
    /\ schedTime = 0
    /\ caller = [c \in Callers |-> Idle]
    /\ queue = "open"
    /\ calls = 0

WorkerStep ==
    \/ WorkerAsk \/ WorkerCompare \/ WorkerSleepTo \/ WorkerAwake \/ WorkerPop \/ WorkerTest

CallerStep(c) == Update(c) \/ Signal(c) \/ Disconnect(c)

Next ==
    \/ \E c \in Callers, u \in Sockets, hurry \in BOOLEAN : Supply(c, u, hurry)
    \/ \E c \in Callers, u \in Sockets : Break(c, u) \/ Close(c, u) \/ Expire(c, u)
    \/ \E c \in Callers : CallerStep(c)
    \/ WorkerStep
    \/ QueueClose \/ QueueSignal \/ QueueJoin
    \/ Tick
    \/ Finished

Spec == Init /\ [][Next]_vars

\* The timer of a socket that was left off the heap after a drop.
ExpireDropped(u) == u \in dropped /\ \E c \in Callers : Expire(c, u)

\* Threads run, and get the locks they wait for; the clock goes on.  The timer is
\* relied upon for what a drop leaves behind and for nothing else.
Fairness ==
    /\ WF_vars(WorkerStep)
    /\ \A c \in Callers : WF_vars(CallerStep(c))
    /\ WF_vars(QueueSignal) /\ WF_vars(QueueJoin)
    /\ \A u \in Sockets : WF_vars(ExpireDropped(u))
    /\ WF_vars(Tick)

LiveSpec == Spec /\ Fairness

-----------------------------------------------------------------------------
TypeOK ==
    /\ HeapTypeOK
    /\ sndData \in [Sockets -> 0 .. MaxCalls]
    /\ dropped \subseteq Sockets
    /\ link \in [Sockets -> {"up", "broken", "closed"}]
    /\ worker \in {"ask", "compare", "sleepto", "asleep", "pop", "test", "waiting", "gone"}
    /\ chosen \in 0 .. MaxTime
    /\ schedTime \in 0 .. MaxTime
    /\ caller \in [Callers -> {Idle, [at |-> "signal"]}
                              \cup [at : {"update"}, sock : Sockets, hurry : BOOLEAN]
                              \cup [at : {"close"}, sock : Sockets]]
    /\ queue \in {"open", "closing", "joining", "gone"}
    /\ calls \in 0 .. MaxCalls

\* The worker does not wait for an entry while there is one, nor while the queue is
\* being closed, unless a signal is on its way.
WorkerWoken ==
    worker = "waiting" =>
        /\ heap = << >> \/ ~ListFree
        /\ queue \in {"open", "closing"}

\* A connected socket with something to send is on the heap, or somebody is about to
\* put it there, or it is being closed, or its last message was dropped and nothing
\* has put it back since: pop() and update() may come in any order.
SocketsKept ==
    \A u \in connected \ dropped :
        sndData[u] > 0 =>
            \/ \E i \in DOMAIN heap : heap[i] = u
            \/ \E c \in Callers : caller[c].at \in {"update", "close"} /\ caller[c].sock = u

\* Between the list, which one lock protects, and the condition variable, which has
\* another one, neither a socket nor the worker is forgotten.
NobodyForgotten == SocketsKept /\ WorkerWoken

\* What a socket has to send is sent or dropped, unless the connection ends before,
\* with no help of its timer but after a drop; and a socket
\* that is not connected any more leaves the heap, so that its node can be deleted.
Served ==
    \A u \in Sockets :
        /\ sndData[u] > 0 ~> (sndData[u] = 0 \/ u \notin connected)
        /\ u \notin connected ~> (\A i \in DOMAIN heap : heap[i] # u)

\* The worker ends when the queue is closed: the destructor, which joins it, returns.
WorkerExits == queue = "closing" ~> queue = "gone"
=============================================================================
