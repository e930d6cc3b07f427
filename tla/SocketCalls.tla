----------------------------- MODULE SocketCalls -----------------------------
(***************************************************************************)
(* How the calls of an application on one connected socket meet the        *)
(* threads of the library: a thread in send(), a thread in recv(), the     *)
(* receiving worker that releases data, frees the send buffer or ends the  *)
(* connection, and a thread in close().                                    *)
(*                                                                         *)
(* They share flags that no lock protects, two locks that a call holds     *)
(* while it lasts (m_SendLock, m_RecvLock), two condition variables with   *)
(* their own locks (m_SendBlockCond, m_RecvDataCond), and the entries of   *)
(* the socket in the event sets of an epoll.  What the packets are is the  *)
(* matter of UdtTransfer; here only their number in the buffers counts.    *)
(*                                                                         *)
(* A lock is written with the one who holds it, or "none".  A condition    *)
(* variable is where a thread is: "waiting", and "woken" when it still has *)
(* to take the lock again.                                                 *)
(***************************************************************************)
EXTENDS Integers

CONSTANTS
    SndBufSize,     \* m_iSndBufSize
    RcvBufSize,     \* what the receiver can hold
    Blocking,       \* m_bSynSending and m_bSynRecving
    Timed,          \* m_iSndTimeOut >= 0 and m_iRcvTimeOut >= 0
    PeerErrors      \* whether the peer reports errors (packet type 8)

ASSUME CallsAssumption ==
    /\ SndBufSize \in Nat \ {0} /\ RcvBufSize \in Nat \ {0}
    /\ Blocking \in BOOLEAN /\ Timed \in BOOLEAN /\ PeerErrors \in BOOLEAN

VARIABLES
    connected, broken, closing, opened, peerHealth,   \* m_bConnected, ...
    sndSize, rcvSize,           \* getCurrBufSize, getRcvDataSize
    sendLock, recvLock,         \* m_SendLock, m_RecvLock
    sendBlockLock, recvDataLock,\* the locks of the condition variables
    sndPc, sndResult,           \* the call of send
    rcvPc, rcvResult,           \* the call of recv
    workPc, job,                \* the receiving worker, and what it began with
    closePc,                    \* the call of close
    watched,                    \* the socket is in m_sUDTSocksIn, m_sUDTSocksOut
    reads, writes               \* the socket is in m_sUDTReads, m_sUDTWrites

flags == <<connected, broken, closing, opened, peerHealth>>
sizes == <<sndSize, rcvSize>>
locks == <<sendLock, recvLock, sendBlockLock, recvDataLock>>
sndCall == <<sndPc, sndResult>>
rcvCall == <<rcvPc, rcvResult>>
work == <<workPc, job>>
events == <<watched, reads, writes>>
vars == <<flags, sizes, locks, sndCall, rcvCall, work, closePc, events>>

Alive == connected /\ ~ broken /\ ~ closing
Full == sndSize >= SndBufSize

-----------------------------------------------------------------------------
(* send().                                                                 *)

SndReturn(result) ==
    /\ sndPc' = "out" /\ sndResult' = result
    /\ sendLock' = "none"

\* The flags are looked at before m_SendLock is taken.
SndCall ==
    /\ sndPc = "out"
    /\ IF Alive THEN sndPc' = "lock" /\ UNCHANGED sndResult
                ELSE sndPc' = "out" /\ sndResult' = "error"
    /\ UNCHANGED <<flags, sizes, locks, rcvCall, work, closePc, events>>

SndLock ==
    /\ sndPc = "lock"
    /\ sendLock = "none"
    /\ IF Full /\ ~ Blocking
       THEN SndReturn("error")
       ELSE /\ sendLock' = "snd"
            /\ sndPc' = IF Full THEN "block" ELSE "add"
            /\ UNCHANGED <<sndResult>>
    /\ UNCHANGED <<flags, sizes, recvLock, sendBlockLock, recvDataLock, rcvCall, work, closePc,
                   events>>

\* pthread_mutex_lock, or the way out of pthread_cond_wait.
SndBlock ==
    /\ sndPc \in {"block", "woken"}
    /\ sendBlockLock = "none"
    /\ sendBlockLock' = "snd"
    /\ sndPc' = "test"
    /\ UNCHANGED <<flags, sizes, sendLock, recvLock, recvDataLock, sndResult, rcvCall,
                   work, closePc, events>>

\* The condition of the while loop, with m_SendBlockLock held; the time may be
\* over whenever there is a time limit.
SndTest ==
    /\ sndPc = "test"
    /\ \E expired \in {FALSE, Timed} :
         IF Alive /\ Full /\ peerHealth /\ ~ expired
         THEN sndPc' = "sleep" /\ UNCHANGED sendBlockLock
         ELSE sndPc' = "status" /\ sendBlockLock' = "none"
    /\ UNCHANGED <<flags, sizes, sendLock, recvLock, recvDataLock, sndResult, rcvCall,
                   work, closePc, events>>

\* pthread_cond_wait lets the lock go.
SndSleep ==
    /\ sndPc = "sleep"
    /\ sndPc' = "waiting"
    /\ sendBlockLock' = "none"
    /\ UNCHANGED <<flags, sizes, sendLock, recvLock, recvDataLock, sndResult, rcvCall,
                   work, closePc, events>>

\* The time out, or a wake-up for no reason, which POSIX allows.
SndWake ==
    /\ sndPc = "waiting"
    /\ sndPc' = "woken"
    /\ UNCHANGED <<flags, sizes, locks, sndResult, rcvCall, work, closePc, events>>

SndStatus ==
    /\ sndPc = "status"
    /\ IF ~ Alive \/ ~ peerHealth \/ Full
       THEN SndReturn(IF ~ Alive \/ ~ peerHealth \/ Timed THEN "error" ELSE "zero")
       ELSE sndPc' = "add" /\ UNCHANGED <<sendLock, sndResult>>
    /\ peerHealth' = (peerHealth \/ Alive)
    /\ UNCHANGED <<connected, broken, closing, opened, sizes, recvLock, sendBlockLock, recvDataLock,
                   rcvCall, work, closePc, events>>

\* Mistake: as much as an empty buffer has room for.
SndAddUnlimited ==
    /\ sndPc = "add"
    /\ \E n \in 1 .. SndBufSize : sndSize' = sndSize + n
    /\ sndPc' = "added"
    /\ UNCHANGED <<flags, rcvSize, locks, sndResult, rcvCall, work, closePc, events>>

\* addBuffer of what there is room for.
SndAdd ==
    /\ sndPc = "add"
    /\ \E n \in 1 .. SndBufSize - sndSize : sndSize' = sndSize + n
    /\ sndPc' = "added"
    /\ UNCHANGED <<flags, rcvSize, locks, sndResult, rcvCall, work, closePc, events>>

\* Only a full buffer takes the socket out of the writable ones, in a step of
\* its own.
SndAdded ==
    /\ sndPc = "added"
    /\ IF Full THEN sndPc' = "clear" /\ UNCHANGED <<sendLock, sndResult>>
               ELSE SndReturn("some")
    /\ UNCHANGED <<flags, sizes, recvLock, sendBlockLock, recvDataLock, rcvCall, work, closePc,
                   events>>

SndClear ==
    /\ sndPc = "clear"
    /\ writes' = FALSE
    /\ SndReturn("some")
    /\ UNCHANGED <<flags, sizes, recvLock, sendBlockLock, recvDataLock, rcvCall, work, closePc,
                   watched, reads>>

-----------------------------------------------------------------------------
(* recv().                                                                 *)

RcvReturn(result) ==
    /\ rcvPc' = "out" /\ rcvResult' = result
    /\ recvLock' = "none"

\* What arrived before the connection broke can still be read.
Readable == connected /\ (rcvSize > 0 \/ (~ broken /\ ~ closing))

RcvCall ==
    /\ rcvPc = "out"
    /\ IF Readable THEN rcvPc' = "lock" /\ UNCHANGED rcvResult
                   ELSE rcvPc' = "out" /\ rcvResult' = "error"
    /\ UNCHANGED <<flags, sizes, locks, sndCall, work, closePc, events>>

RcvLock ==
    /\ rcvPc = "lock"
    /\ recvLock = "none"
    /\ IF rcvSize = 0 /\ ~ Blocking
       THEN RcvReturn("error")
       ELSE /\ recvLock' = "rcv"
            /\ rcvPc' = IF rcvSize = 0 THEN "block" ELSE "status"
            /\ UNCHANGED <<rcvResult>>
    /\ UNCHANGED <<flags, sizes, sendLock, sendBlockLock, recvDataLock, sndCall, work, closePc,
                   events>>

RcvBlock ==
    /\ rcvPc \in {"block", "woken"}
    /\ recvDataLock = "none"
    /\ recvDataLock' = "rcv"
    /\ rcvPc' \in IF rcvPc = "woken" /\ Timed THEN {"test", "expired"} ELSE {"test"}
    /\ UNCHANGED <<flags, sizes, sendLock, recvLock, sendBlockLock, rcvResult, sndCall,
                   work, closePc, events>>

\* Mistake: the lock is let go before the thread counts as waiting.
RcvTestUnlocked ==
    /\ rcvPc \in {"test", "expired"}
    /\ rcvPc' = IF rcvPc = "test" /\ Alive /\ rcvSize = 0 THEN "sleep" ELSE "status"
    /\ recvDataLock' = "none"
    /\ UNCHANGED <<flags, sizes, sendLock, recvLock, sendBlockLock, rcvResult, sndCall,
                   work, closePc, events>>

RcvTest ==
    /\ rcvPc \in {"test", "expired"}
    /\ IF rcvPc = "test" /\ Alive /\ rcvSize = 0
       THEN rcvPc' = "sleep" /\ UNCHANGED recvDataLock
       ELSE rcvPc' = "status" /\ recvDataLock' = "none"
    /\ UNCHANGED <<flags, sizes, sendLock, recvLock, sendBlockLock, rcvResult, sndCall,
                   work, closePc, events>>

RcvSleep ==
    /\ rcvPc = "sleep"
    /\ rcvPc' = "waiting"
    /\ recvDataLock' = "none"
    /\ UNCHANGED <<flags, sizes, sendLock, recvLock, sendBlockLock, rcvResult, sndCall,
                   work, closePc, events>>

RcvWake ==
    /\ rcvPc = "waiting"
    /\ rcvPc' = "woken"
    /\ UNCHANGED <<flags, sizes, locks, rcvResult, sndCall, work, closePc, events>>

\* Mistake: what has ended the wait is not looked at again.
RcvStatusAssumed ==
    /\ rcvPc = "status"
    /\ rcvPc' = "read"
    /\ UNCHANGED <<flags, sizes, locks, rcvResult, sndCall, work, closePc, events>>

RcvStatus ==
    /\ rcvPc = "status"
    /\ IF Readable THEN rcvPc' = "read" /\ UNCHANGED <<recvLock, rcvResult>>
                   ELSE RcvReturn("error")
    /\ UNCHANGED <<flags, sizes, sendLock, sendBlockLock, recvDataLock, sndCall, work, closePc,
                   events>>

\* readBuffer; an empty one gives nothing, which a time limit makes an error.
RcvRead ==
    /\ rcvPc = "read"
    /\ IF rcvSize > 0
       THEN /\ \E n \in 1 .. rcvSize : rcvSize' = rcvSize - n
            /\ rcvResult' = "some"
       ELSE /\ rcvResult' = IF Timed THEN "error" ELSE "zero"
            /\ UNCHANGED rcvSize
    /\ rcvPc' = "drained"
    /\ UNCHANGED <<flags, sndSize, locks, sndCall, work, closePc, events>>

\* Only an empty buffer takes the socket out of the readable ones, in a step of
\* its own.
RcvDrained ==
    /\ rcvPc = "drained"
    /\ IF rcvSize = 0 THEN rcvPc' = "clear" /\ UNCHANGED <<recvLock, rcvResult>>
                      ELSE RcvReturn(rcvResult)
    /\ UNCHANGED <<flags, sizes, sendLock, sendBlockLock, recvDataLock, sndCall, work, closePc,
                   events>>

RcvClear ==
    /\ rcvPc = "clear"
    /\ reads' = FALSE
    /\ RcvReturn(rcvResult)
    /\ UNCHANGED <<flags, sizes, sendLock, sendBlockLock, recvDataLock, sndCall, work, closePc,
                   watched, writes>>

-----------------------------------------------------------------------------
(* Waking up: pthread_cond_signal with the lock of the condition variable  *)
(* held, for one waiting thread if there is one.                           *)

SignalSend ==
    /\ sendBlockLock = "none"
    /\ sndPc' = IF sndPc = "waiting" THEN "woken" ELSE sndPc

SignalRecv ==
    /\ recvDataLock = "none"
    /\ rcvPc' = IF rcvPc = "waiting" THEN "woken" ELSE rcvPc

\* Mistake: waits for the calls without waking them up.
ReleaseSilently(step) ==
    \/ /\ step \in {"wakeSnd", "wakeRcv"}
       /\ UNCHANGED <<sndPc, rcvPc>>
    \/ /\ step = "passSnd" /\ sendLock = "none"
       /\ UNCHANGED <<sndPc, rcvPc>>
    \/ /\ step = "passRcv" /\ recvLock = "none"
       /\ UNCHANGED <<sndPc, rcvPc>>

\* releaseSynch: signal, and wait until the call has left, for either of them.
Release(step) ==
    \/ /\ step = "wakeSnd" /\ SignalSend
       /\ UNCHANGED <<rcvPc>>
    \/ /\ step = "passSnd" /\ sendLock = "none"
       /\ UNCHANGED <<sndPc, rcvPc>>
    \/ /\ step = "wakeRcv" /\ SignalRecv
       /\ UNCHANGED <<sndPc>>
    \/ /\ step = "passRcv" /\ recvLock = "none"
       /\ UNCHANGED <<sndPc, rcvPc>>

AfterRelease(step, last) ==
    CASE step = "wakeSnd" -> "passSnd" [] step = "passSnd" -> "wakeRcv"
      [] step = "wakeRcv" -> "passRcv" [] step = "passRcv" -> last

-----------------------------------------------------------------------------
(* The receiving worker.  It looks at the flags, and not again while it    *)
(* handles a packet and then the timers, or the timers of a socket it has  *)
(* not heard of for some time.                                             *)

WorkBegin ==
    /\ workPc = "idle" /\ Alive
    /\ job' \in {"packet", "silence"}
    /\ workPc' = IF job' = "packet" THEN "packet" ELSE "timers"
    /\ UNCHANGED <<flags, sizes, locks, sndCall, rcvCall, closePc, events>>

\* A packet or a timer that changes nothing here.
WorkPass ==
    /\ workPc \in {"packet", "timers", "silence"}
    /\ workPc' = CASE workPc = "packet" -> "timers"
                   [] workPc = "timers" /\ job = "silence" -> "silence"
                   [] OTHER -> "idle"
    /\ UNCHANGED <<flags, sizes, locks, sndCall, rcvCall, job, closePc, events>>

\* processCtrl, ACK: frees a part of the send buffer.
WorkFree ==
    /\ workPc = "packet"
    /\ \E n \in 1 .. sndSize : sndSize' = sndSize - n
    /\ workPc' = "signalSnd"
    /\ UNCHANGED <<flags, rcvSize, locks, sndCall, rcvCall, job, closePc, events>>

WorkSignalSnd ==
    /\ workPc = "signalSnd"
    /\ IF Blocking THEN SignalSend ELSE UNCHANGED sndPc
    /\ workPc' = "writable"
    /\ UNCHANGED <<flags, sizes, locks, sndResult, rcvCall, job, closePc, events>>

WorkWritable ==
    /\ workPc = "writable"
    /\ writes' = (writes \/ watched)
    /\ workPc' = "timers"
    /\ UNCHANGED <<flags, sizes, locks, sndCall, rcvCall, job, closePc, watched, reads>>

\* processCtrl, peer error: the flag is cleared and nothing else is done.
WorkPeerError ==
    /\ workPc = "packet" /\ PeerErrors
    /\ peerHealth' = FALSE
    /\ workPc' = "timers"
    /\ UNCHANGED <<connected, broken, closing, opened, sizes, locks, sndCall, rcvCall, job,
                   closePc, events>>

\* checkTimers, sendCtrl(2): releases data to the application.
WorkAckData ==
    /\ workPc = "timers"
    /\ \E n \in 1 .. RcvBufSize - rcvSize : rcvSize' = rcvSize + n
    /\ workPc' = "signalRcv"
    /\ UNCHANGED <<flags, sndSize, locks, sndCall, rcvCall, job, closePc, events>>

WorkSignalRcv ==
    /\ workPc = "signalRcv"
    /\ IF Blocking THEN SignalRecv ELSE UNCHANGED rcvPc
    /\ workPc' = "readable"
    /\ UNCHANGED <<flags, sizes, locks, sndCall, rcvResult, job, closePc, events>>

WorkReadable ==
    /\ workPc = "readable"
    /\ reads' = (reads \/ watched)
    /\ workPc' = IF job = "silence" THEN "silence" ELSE "idle"
    /\ UNCHANGED <<flags, sizes, locks, sndCall, rcvCall, job, closePc, watched, writes>>

\* Mistake: the flags alone, as after an acknowledgement that makes no sense.
WorkEndSilently ==
    /\ workPc \in {"packet", "silence"}
    /\ closing' = TRUE /\ broken' = TRUE
    /\ workPc' = IF job = "silence" THEN "events" ELSE "timers"
    /\ UNCHANGED <<connected, opened, peerHealth, sizes, locks, sndCall, rcvCall, job, closePc, events>>

\* processCtrl, shutdown, and checkTimers when the peer has been silent for too
\* long: the same flags, the same wake-ups.
WorkEnd ==
    /\ workPc \in {"packet", "silence"}
    /\ closing' = TRUE /\ broken' = TRUE
    /\ workPc' = "wakeSnd"
    /\ UNCHANGED <<connected, opened, peerHealth, sizes, locks, sndCall, rcvCall, job, closePc, events>>

WorkRelease ==
    /\ Release(workPc)
    /\ workPc' = AfterRelease(workPc, IF job = "silence" THEN "events" ELSE "timers")
    /\ UNCHANGED <<flags, sizes, locks, sndResult, rcvResult, job, closePc, events>>

\* Only the time out tells the epolls.
WorkEvents ==
    /\ workPc = "events"
    /\ reads' = (reads \/ watched) /\ writes' = (writes \/ watched)
    /\ workPc' = "idle"
    /\ UNCHANGED <<flags, sizes, locks, sndCall, rcvCall, job, closePc, watched>>

-----------------------------------------------------------------------------
(* close(), once it does not linger any more.                              *)

\* The UDT_EPOLL_ERR event is lost on every epoll, for none watches for it
\* (add_usock puts nothing into m_sUDTSocksEx); then remove_usock.
CloseCall ==
    /\ closePc = "out"
    /\ opened
    /\ watched' = FALSE
    /\ closePc' = "flag"
    /\ UNCHANGED <<flags, sizes, locks, sndCall, rcvCall, work, reads, writes>>

CloseFlag ==
    /\ closePc = "flag"
    /\ closing' = TRUE
    /\ closePc' = "wakeSnd"
    /\ UNCHANGED <<connected, broken, opened, peerHealth, sizes, locks, sndCall, rcvCall, work, events>>

CloseRelease ==
    /\ Release(closePc)
    /\ closePc' = AfterRelease(closePc, "disconnect")
    /\ UNCHANGED <<flags, sizes, locks, sndResult, rcvResult, work, events>>

CloseDisconnect ==
    /\ closePc = "disconnect"
    /\ connected' = FALSE
    /\ closePc' = "lockSnd"
    /\ UNCHANGED <<broken, closing, opened, peerHealth, sizes, locks, sndCall, rcvCall, work, events>>

\* "waiting all send and recv calls to stop"
CloseLockSnd ==
    /\ closePc = "lockSnd"
    /\ sendLock = "none"
    /\ sendLock' = "close"
    /\ closePc' = "lockRcv"
    /\ UNCHANGED <<flags, sizes, recvLock, sendBlockLock, recvDataLock, sndCall, rcvCall, work, events>>

CloseLockRcv ==
    /\ closePc = "lockRcv"
    /\ recvLock = "none"
    /\ opened' = FALSE
    /\ sendLock' = "none"
    /\ closePc' = "out"
    /\ UNCHANGED <<connected, broken, closing, peerHealth, sizes, recvLock, sendBlockLock, recvDataLock,
                   sndCall, rcvCall, work, events>>

-----------------------------------------------------------------------------
Init ==
    /\ connected = TRUE /\ broken = FALSE /\ closing = FALSE /\ opened = TRUE /\ peerHealth = TRUE
    /\ sndSize = 0 /\ rcvSize = 0
    /\ sendLock = "none" /\ recvLock = "none" /\ sendBlockLock = "none" /\ recvDataLock = "none"
    /\ sndPc = "out" /\ sndResult = "none"
    /\ rcvPc = "out" /\ rcvResult = "none"
    /\ workPc = "idle" /\ job = "packet" /\ closePc = "out"
    /\ watched = TRUE /\ reads = FALSE /\ writes = TRUE

SndStep == SndLock \/ SndBlock \/ SndTest \/ SndSleep \/ SndStatus \/ SndAdd \/ SndAdded \/ SndClear
RcvStep == RcvLock \/ RcvBlock \/ RcvTest \/ RcvSleep \/ RcvStatus \/ RcvRead \/ RcvDrained \/ RcvClear
WorkStep == WorkPass \/ WorkSignalRcv \/ WorkReadable \/ WorkSignalSnd \/ WorkWritable \/ WorkRelease \/ WorkEvents
CloseStep == CloseFlag \/ CloseRelease \/ CloseDisconnect \/ CloseLockSnd \/ CloseLockRcv

Next ==
    \/ SndCall \/ SndStep \/ SndWake
    \/ RcvCall \/ RcvStep \/ RcvWake
    \/ WorkBegin \/ WorkFree \/ WorkPeerError \/ WorkAckData \/ WorkEnd \/ WorkStep
    \/ CloseCall \/ CloseStep

Spec == Init /\ [][Next]_vars

-----------------------------------------------------------------------------
(***************************************************************************)
(* Fairness.  A call that has begun goes on, and so do the worker and      *)
(* close(); strong fairness for those that need a lock a waiting call may  *)
(* take again and again: a mutex starves nobody for ever.  Nothing says    *)
(* that the application calls, that the peer sends anything, or that a     *)
(* thread ever wakes up by itself.                                         *)
(***************************************************************************)
Fairness ==
    /\ WF_vars(SndStep) /\ WF_vars(RcvStep)
    /\ SF_vars(WorkStep) /\ SF_vars(CloseStep)

FairSpec == Spec /\ Fairness

-----------------------------------------------------------------------------
(* Properties.                                                             *)

CallPcs == {"out", "lock", "block", "test", "sleep", "waiting", "woken", "status"}
ReleasePcs == {"wakeSnd", "passSnd", "wakeRcv", "passRcv"}

\* Every variable has its type, no buffer holds more than it may, and a lock is
\* held by the one whose step it is.
TypeOK ==
    /\ flags \in BOOLEAN \X BOOLEAN \X BOOLEAN \X BOOLEAN \X BOOLEAN
    /\ sndSize \in 0 .. SndBufSize /\ rcvSize \in 0 .. RcvBufSize
    /\ sndPc \in CallPcs \cup {"add", "added", "clear"}
    /\ rcvPc \in CallPcs \cup {"expired", "read", "drained", "clear"}
    /\ {sndResult, rcvResult} \subseteq {"none", "some", "zero", "error"}
    /\ workPc \in ReleasePcs \cup {"idle", "packet", "signalSnd", "writable", "timers", "signalRcv",
                                   "readable", "silence", "events"}
    /\ job \in {"packet", "silence"}
    /\ closePc \in {"out", "flag", "disconnect", "lockSnd", "lockRcv"} \cup ReleasePcs
    /\ events \in BOOLEAN \X BOOLEAN \X BOOLEAN
    /\ sendLock = IF sndPc \notin {"out", "lock"} THEN "snd"
                  ELSE IF closePc = "lockRcv" THEN "close" ELSE "none"
    /\ recvLock = IF rcvPc \notin {"out", "lock"} THEN "rcv" ELSE "none"
    /\ sendBlockLock = IF sndPc \in {"test", "sleep"} THEN "snd" ELSE "none"
    /\ recvDataLock = IF rcvPc \in {"test", "expired", "sleep"} THEN "rcv" ELSE "none"

\* No wake-up is lost: once the worker and close() have done all they had to do,
\* a thread still waits only for what has really not happened yet.  (A peer
\* error is the exception: see PeerErrorUnblocks.)
NoLostWakeup ==
    workPc = "idle" /\ closePc = "out" =>
        /\ sndPc = "waiting" => Alive /\ Full
        /\ rcvPc = "waiting" => Alive /\ rcvSize = 0

\* A call returns something or fails; it never returns 0, which the application
\* would read as an orderly end, whichever flag it saw at which moment.
NeverZero == sndResult # "zero" /\ rcvResult # "zero"

\* Nobody waits for ever for somebody who waits: close() returns, and the worker,
\* which serves all other sockets too, gets away from the calls of this one.
NobodyStuck ==
    /\ closePc # "out" ~> closePc = "out"
    /\ workPc # "idle" ~> workPc = "idle"

\* However the connection ends, no call stays in it.
CallsReturnAtTheEnd ==
    /\ ~ Alive /\ sndPc # "out" ~> sndPc = "out"
    /\ ~ Alive /\ rcvPc # "out" ~> rcvPc = "out"

\* "if recvfile() failes (e.g., due to disk fail), blcoked sendfile/send should
\* return immediately" (core.cpp:2245).
PeerErrorUnblocks == ~ peerHealth /\ sndPc = "waiting" ~> sndPc # "waiting"
=============================================================================
