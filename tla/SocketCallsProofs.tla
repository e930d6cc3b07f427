-------------------------- MODULE SocketCallsProofs --------------------------
(***************************************************************************)
(* Proofs about the calls on one socket, for buffers of any size, with or  *)
(* without time limits, blocking or not.                                   *)
(*                                                                         *)
(* That no wake-up is lost needs an invariant about every step and not only*)
(* about the end: whoever ends the reason to wait is still to signal the   *)
(* condition variable.  That no call returns 0 needs another one: what a   *)
(* call found when its wait ended stays true, because the other threads    *)
(* only ever change it in its favour.                                      *)
(***************************************************************************)
EXTENDS SocketCalls, TLAPS

\* Somebody is still to signal m_SendBlockCond, or m_RecvDataCond.
SndSignalDue == workPc \in {"signalSnd", "wakeSnd"} \/ closePc = "wakeSnd"
RcvSignalDue == \/ workPc \in {"signalRcv", "wakeSnd", "passSnd", "wakeRcv"}
                \/ closePc \in {"wakeSnd", "passSnd", "wakeRcv"}

\* close() has raised m_bClosing once it releases the calls.
ClosingFlagged == closePc \notin {"out", "flag"} => closing

\* Only a call of a blocking socket comes to wait.
WaitsIfBlocking ==
    ~ Blocking => /\ sndPc \notin {"block", "test", "sleep", "waiting", "woken", "status"}
                  /\ rcvPc \notin {"block", "test", "expired", "sleep", "waiting", "woken"}

\* A thread that is about to wait, or waits, has a reason to, or will be told.
WaitInv ==
    /\ sndPc \in {"sleep", "waiting"} => (Alive /\ Full) \/ SndSignalDue
    /\ rcvPc \in {"sleep", "waiting"} => (Alive /\ rcvSize = 0) \/ RcvSignalDue

\* What ended the wait of a call is still so when it looks again, and the room or the
\* data it has seen then is still there when it uses it.
ReasonInv ==
    /\ sndPc = "status" => ~ Alive \/ ~ Full \/ ~ peerHealth \/ Timed
    /\ sndPc = "add" => ~ Full
    /\ rcvPc = "status" => ~ Alive \/ rcvSize > 0 \/ Timed
    /\ rcvPc = "expired" => Timed
    /\ rcvPc = "read" => rcvSize > 0 \/ Timed

\* TypeOK, with the flags and the events taken apart.
FlagTypes ==
    /\ connected \in BOOLEAN /\ broken \in BOOLEAN /\ closing \in BOOLEAN
    /\ opened \in BOOLEAN /\ peerHealth \in BOOLEAN
    /\ watched \in BOOLEAN /\ reads \in BOOLEAN /\ writes \in BOOLEAN

CallTypes ==
    /\ sndSize \in 0 .. SndBufSize /\ rcvSize \in 0 .. RcvBufSize
    /\ sndPc \in CallPcs \cup {"add", "added", "clear"}
    /\ rcvPc \in CallPcs \cup {"expired", "read", "drained", "clear"}
    /\ sndResult \in {"none", "some", "error"}
    /\ rcvResult \in {"none", "some", "error"}
    /\ workPc \in ReleasePcs \cup {"idle", "packet", "signalSnd", "writable", "timers", "signalRcv",
                                   "readable", "silence", "events"}
    /\ job \in {"packet", "silence"}
    /\ closePc \in {"out", "flag", "disconnect", "lockSnd", "lockRcv"} \cup ReleasePcs

LockTypes ==
    /\ sendLock = IF sndPc \notin {"out", "lock"} THEN "snd"
                  ELSE IF closePc = "lockRcv" THEN "close" ELSE "none"
    /\ recvLock = IF rcvPc \notin {"out", "lock"} THEN "rcv" ELSE "none"
    /\ sendBlockLock = IF sndPc \in {"test", "sleep"} THEN "snd" ELSE "none"
    /\ recvDataLock = IF rcvPc \in {"test", "expired", "sleep"} THEN "rcv" ELSE "none"

\* m_SendLock is not held twice, which no variable could show.
Exclusion == closePc = "lockRcv" => sndPc \in {"out", "lock"}

\* The inductive invariant.
CallsInv ==
    /\ FlagTypes
    /\ CallTypes
    /\ LockTypes
    /\ Exclusion
    /\ ClosingFlagged
    /\ WaitsIfBlocking
    /\ WaitInv
    /\ ReasonInv

\* It says all that the properties do.
LEMMA Implied == CallsInv => TypeOK /\ NoLostWakeup /\ NeverZero
<1>1. FlagTypes => /\ flags \in BOOLEAN \X BOOLEAN \X BOOLEAN \X BOOLEAN \X BOOLEAN
                   /\ events \in BOOLEAN \X BOOLEAN \X BOOLEAN
    BY DEF FlagTypes, flags, events
<1>2. CallsInv => TypeOK
    BY <1>1 DEF CallsInv, CallTypes, LockTypes, TypeOK
<1>3. CallsInv => NoLostWakeup
    BY DEF CallsInv, WaitInv, SndSignalDue, RcvSignalDue, NoLostWakeup
<1>4. CallsInv => NeverZero
    BY DEF CallsInv, CallTypes, NeverZero
<1>5. QED
    BY <1>2, <1>3, <1>4

\* It holds when the connection is set up.
LEMMA Initially == Init => CallsInv
<1> SUFFICES ASSUME Init PROVE CallsInv
    OBVIOUS
<1>1. FlagTypes
    BY Zenon DEF Init, FlagTypes
<1>2. CallTypes /\ LockTypes /\ Exclusion
    BY CallsAssumption DEF Init, CallTypes, LockTypes, Exclusion, CallPcs, ReleasePcs
<1>3. ClosingFlagged /\ WaitsIfBlocking /\ WaitInv /\ ReasonInv
    BY DEF Init, ClosingFlagged, WaitsIfBlocking, WaitInv, ReasonInv
<1>4. QED
    BY <1>1, <1>2, <1>3 DEF CallsInv

-----------------------------------------------------------------------------
\* No step of send() breaks the invariant.
LEMMA SndKeeps ==
    CallsInv /\ (SndCall \/ SndStep \/ SndWake) => CallsInv'
<1> SUFFICES ASSUME CallsInv, SndCall \/ SndStep \/ SndWake PROVE CallsInv'
    OBVIOUS
<1> USE CallsAssumption
    DEF CallsInv, flags, sizes, locks, sndCall, rcvCall, work, events, Alive, Full
<1>1. CASE SndCall
    BY <1>1 DEF FlagTypes, CallTypes, LockTypes, Exclusion, CallPcs, ReleasePcs, ClosingFlagged,
       WaitsIfBlocking, WaitInv, ReasonInv, SndSignalDue, RcvSignalDue, SndCall
<1>2. CASE SndLock
    BY <1>2 DEF FlagTypes, CallTypes, LockTypes, Exclusion, CallPcs, ReleasePcs, ClosingFlagged,
       WaitsIfBlocking, WaitInv, ReasonInv, SndSignalDue, RcvSignalDue, SndLock, SndReturn
<1>3. CASE SndBlock
    BY <1>3 DEF FlagTypes, CallTypes, LockTypes, Exclusion, CallPcs, ReleasePcs, ClosingFlagged,
       WaitsIfBlocking, WaitInv, ReasonInv, SndSignalDue, RcvSignalDue, SndBlock
<1>4. CASE SndTest
  <2>1. FlagTypes' /\ CallTypes' /\ LockTypes' /\ Exclusion'
    BY <1>4 DEF FlagTypes, CallTypes, LockTypes, Exclusion, CallPcs, ReleasePcs, SndTest
  <2>2. ClosingFlagged' /\ WaitsIfBlocking' /\ WaitInv'
    BY <1>4 DEF CallTypes, LockTypes, ClosingFlagged, WaitsIfBlocking, WaitInv,
       SndSignalDue, RcvSignalDue, SndTest
  <2>3. PICK expired \in {FALSE, Timed} :
            IF Alive /\ Full /\ peerHealth /\ ~ expired
            THEN sndPc' = "sleep" /\ UNCHANGED sendBlockLock
            ELSE sndPc' = "status" /\ sendBlockLock' = "none"
    BY <1>4 DEF SndTest
  <2>4. expired => Timed
    BY <2>3, Zenon
  <2>5. UNCHANGED <<connected, broken, closing, peerHealth, sndSize, rcvSize, rcvPc>>
    BY <1>4 DEF SndTest
  <2>6. sndPc' = "status" => ~ Alive \/ ~ Full \/ ~ peerHealth \/ Timed
    <3>1. CASE Alive /\ Full /\ peerHealth /\ ~ expired
        BY <2>3, <3>1
    <3>2. CASE ~ (Alive /\ Full /\ peerHealth /\ ~ expired)
        BY <2>4, <3>2, Zenon
    <3>3. QED
        BY <3>1, <3>2, Zenon
  <2>7. sndPc' # "add"
    BY <2>3
  <2>8. ReasonInv'
    BY <2>5, <2>6, <2>7, Zenon DEF ReasonInv
  <2>9. QED
    BY <2>1, <2>2, <2>8
<1>5. CASE SndSleep
    BY <1>5 DEF FlagTypes, CallTypes, LockTypes, Exclusion, CallPcs, ReleasePcs, ClosingFlagged,
       WaitsIfBlocking, WaitInv, ReasonInv, SndSignalDue, RcvSignalDue, SndSleep
<1>6. CASE SndWake
    BY <1>6 DEF FlagTypes, CallTypes, LockTypes, Exclusion, CallPcs, ReleasePcs, ClosingFlagged,
       WaitsIfBlocking, WaitInv, ReasonInv, SndSignalDue, RcvSignalDue, SndWake
<1>7. CASE SndStatus
  <2>1. FlagTypes'
    BY <1>7, Zenon DEF FlagTypes, SndStatus, SndReturn
  <2>2. CallTypes' /\ LockTypes' /\ Exclusion'
    BY <1>7 DEF CallTypes, LockTypes, Exclusion, CallPcs, ReleasePcs, ReasonInv, SndStatus,
       SndReturn
  <2>3. ClosingFlagged' /\ WaitsIfBlocking' /\ WaitInv' /\ ReasonInv'
    BY <1>7 DEF CallTypes, LockTypes, ClosingFlagged, WaitsIfBlocking, WaitInv, ReasonInv,
       SndSignalDue, RcvSignalDue, SndStatus, SndReturn
  <2>4. QED
    BY <2>1, <2>2, <2>3
<1>8. CASE SndAdd
    BY <1>8 DEF FlagTypes, CallTypes, LockTypes, Exclusion, CallPcs, ReleasePcs, ClosingFlagged,
       WaitsIfBlocking, WaitInv, ReasonInv, SndSignalDue, RcvSignalDue, SndAdd
<1>9. CASE SndAdded
  <2>1. FlagTypes'
    BY <1>9, Zenon DEF FlagTypes, SndAdded, SndReturn
  <2>2. CallTypes' /\ LockTypes' /\ Exclusion'
    BY <1>9 DEF CallTypes, LockTypes, Exclusion, CallPcs, ReleasePcs, ReasonInv, SndAdded,
       SndReturn
  <2>3. ClosingFlagged' /\ WaitsIfBlocking' /\ WaitInv' /\ ReasonInv'
    BY <1>9 DEF CallTypes, LockTypes, ClosingFlagged, WaitsIfBlocking, WaitInv, ReasonInv,
       SndSignalDue, RcvSignalDue, SndAdded, SndReturn
  <2>4. QED
    BY <2>1, <2>2, <2>3
<1>10. CASE SndClear
  <2>1. FlagTypes'
    BY <1>10, Zenon DEF FlagTypes, SndClear, SndReturn
  <2>2. CallTypes' /\ LockTypes' /\ Exclusion'
    BY <1>10 DEF CallTypes, LockTypes, Exclusion, CallPcs, ReleasePcs, ReasonInv, SndClear,
       SndReturn
  <2>3. ClosingFlagged' /\ WaitsIfBlocking' /\ WaitInv' /\ ReasonInv'
    BY <1>10 DEF CallTypes, LockTypes, ClosingFlagged, WaitsIfBlocking, WaitInv, ReasonInv,
       SndSignalDue, RcvSignalDue, SndClear, SndReturn
  <2>4. QED
    BY <2>1, <2>2, <2>3
<1>11. QED
    BY <1>1, <1>2, <1>3, <1>4, <1>5, <1>6, <1>7, <1>8, <1>9, <1>10 DEF SndStep

\* No step of recv() does.
LEMMA RcvKeeps ==
    CallsInv /\ (RcvCall \/ RcvStep \/ RcvWake) => CallsInv'
<1> SUFFICES ASSUME CallsInv, RcvCall \/ RcvStep \/ RcvWake PROVE CallsInv'
    OBVIOUS
<1> USE CallsAssumption
    DEF CallsInv, flags, sizes, locks, sndCall, rcvCall, work, events, Alive, Full
<1>1. CASE RcvCall
    BY <1>1 DEF FlagTypes, CallTypes, LockTypes, Exclusion, CallPcs, ReleasePcs, ClosingFlagged,
       WaitsIfBlocking, WaitInv, ReasonInv, SndSignalDue, RcvSignalDue, RcvCall, Readable
<1>2. CASE RcvLock
    BY <1>2 DEF FlagTypes, CallTypes, LockTypes, Exclusion, CallPcs, ReleasePcs, ClosingFlagged,
       WaitsIfBlocking, WaitInv, ReasonInv, SndSignalDue, RcvSignalDue, RcvLock, RcvReturn
<1>3. CASE RcvBlock
    BY <1>3 DEF FlagTypes, CallTypes, LockTypes, Exclusion, CallPcs, ReleasePcs, ClosingFlagged,
       WaitsIfBlocking, WaitInv, ReasonInv, SndSignalDue, RcvSignalDue, RcvBlock
<1>4. CASE RcvTest
    BY <1>4 DEF FlagTypes, CallTypes, LockTypes, Exclusion, CallPcs, ReleasePcs, ClosingFlagged,
       WaitsIfBlocking, WaitInv, ReasonInv, SndSignalDue, RcvSignalDue, RcvTest
<1>5. CASE RcvSleep
    BY <1>5 DEF FlagTypes, CallTypes, LockTypes, Exclusion, CallPcs, ReleasePcs, ClosingFlagged,
       WaitsIfBlocking, WaitInv, ReasonInv, SndSignalDue, RcvSignalDue, RcvSleep
<1>6. CASE RcvWake
    BY <1>6 DEF FlagTypes, CallTypes, LockTypes, Exclusion, CallPcs, ReleasePcs, ClosingFlagged,
       WaitsIfBlocking, WaitInv, ReasonInv, SndSignalDue, RcvSignalDue, RcvWake
<1>7. CASE RcvStatus
    BY <1>7 DEF FlagTypes, CallTypes, LockTypes, Exclusion, CallPcs, ReleasePcs, ClosingFlagged,
       WaitsIfBlocking, WaitInv, ReasonInv, SndSignalDue, RcvSignalDue, RcvStatus, RcvReturn,
       Readable
<1>8. CASE RcvRead
    BY <1>8 DEF FlagTypes, CallTypes, LockTypes, Exclusion, CallPcs, ReleasePcs, ClosingFlagged,
       WaitsIfBlocking, WaitInv, ReasonInv, SndSignalDue, RcvSignalDue, RcvRead
<1>9. CASE RcvDrained
    BY <1>9 DEF FlagTypes, CallTypes, LockTypes, Exclusion, CallPcs, ReleasePcs, ClosingFlagged,
       WaitsIfBlocking, WaitInv, ReasonInv, SndSignalDue, RcvSignalDue, RcvDrained, RcvReturn
<1>10. CASE RcvClear
  <2>1. FlagTypes'
    BY <1>10, Zenon DEF FlagTypes, RcvClear, RcvReturn
  <2>2. CallTypes' /\ LockTypes' /\ Exclusion'
    BY <1>10 DEF CallTypes, LockTypes, Exclusion, CallPcs, ReleasePcs, ReasonInv, RcvClear,
       RcvReturn
  <2>3. ClosingFlagged' /\ WaitsIfBlocking' /\ WaitInv' /\ ReasonInv'
    BY <1>10 DEF CallTypes, LockTypes, ClosingFlagged, WaitsIfBlocking, WaitInv, ReasonInv,
       SndSignalDue, RcvSignalDue, RcvClear, RcvReturn
  <2>4. QED
    BY <2>1, <2>2, <2>3
<1>11. QED
    BY <1>1, <1>2, <1>3, <1>4, <1>5, <1>6, <1>7, <1>8, <1>9, <1>10 DEF RcvStep

\* Nor one of the worker: before the reason to wait is gone, the signal is due.
LEMMA WorkKeeps ==
    /\ CallsInv
    /\ WorkBegin \/ WorkFree \/ WorkPeerError \/ WorkAckData \/ WorkEnd \/ WorkStep
    => CallsInv'
<1> SUFFICES ASSUME CallsInv,
                    WorkBegin \/ WorkFree \/ WorkPeerError \/ WorkAckData \/ WorkEnd \/ WorkStep
             PROVE  CallsInv'
    OBVIOUS
<1> USE CallsAssumption
    DEF CallsInv, flags, sizes, locks, sndCall, rcvCall, work, events, Alive, Full
<1>1. CASE WorkBegin
    BY <1>1 DEF FlagTypes, CallTypes, LockTypes, Exclusion, CallPcs, ReleasePcs, ClosingFlagged,
       WaitsIfBlocking, WaitInv, ReasonInv, SndSignalDue, RcvSignalDue, WorkBegin
<1>2. CASE WorkPass
    BY <1>2 DEF FlagTypes, CallTypes, LockTypes, Exclusion, CallPcs, ReleasePcs, ClosingFlagged,
       WaitsIfBlocking, WaitInv, ReasonInv, SndSignalDue, RcvSignalDue, WorkPass
<1>3. CASE WorkFree
    BY <1>3 DEF FlagTypes, CallTypes, LockTypes, Exclusion, CallPcs, ReleasePcs, ClosingFlagged,
       WaitsIfBlocking, WaitInv, ReasonInv, SndSignalDue, RcvSignalDue, WorkFree
<1>4. CASE WorkSignalSnd
    BY <1>4 DEF FlagTypes, CallTypes, LockTypes, Exclusion, CallPcs, ReleasePcs, ClosingFlagged,
       WaitsIfBlocking, WaitInv, ReasonInv, SndSignalDue, RcvSignalDue, WorkSignalSnd, SignalSend
<1>5. CASE WorkWritable
    BY <1>5 DEF FlagTypes, CallTypes, LockTypes, Exclusion, CallPcs, ReleasePcs, ClosingFlagged,
       WaitsIfBlocking, WaitInv, ReasonInv, SndSignalDue, RcvSignalDue, WorkWritable
<1>6. CASE WorkPeerError
  <2>1. FlagTypes'
    BY <1>6, Zenon DEF FlagTypes, WorkPeerError
  <2>2. CallTypes' /\ LockTypes' /\ Exclusion'
    BY <1>6 DEF CallTypes, LockTypes, Exclusion, CallPcs, ReleasePcs, ReasonInv, WorkPeerError
  <2>3. ClosingFlagged' /\ WaitsIfBlocking' /\ WaitInv' /\ ReasonInv'
    BY <1>6 DEF CallTypes, LockTypes, ClosingFlagged, WaitsIfBlocking, WaitInv, ReasonInv,
       SndSignalDue, RcvSignalDue, WorkPeerError
  <2>4. QED
    BY <2>1, <2>2, <2>3
<1>7. CASE WorkAckData
    BY <1>7 DEF FlagTypes, CallTypes, LockTypes, Exclusion, CallPcs, ReleasePcs, ClosingFlagged,
       WaitsIfBlocking, WaitInv, ReasonInv, SndSignalDue, RcvSignalDue, WorkAckData
<1>8. CASE WorkSignalRcv
    BY <1>8 DEF FlagTypes, CallTypes, LockTypes, Exclusion, CallPcs, ReleasePcs, ClosingFlagged,
       WaitsIfBlocking, WaitInv, ReasonInv, SndSignalDue, RcvSignalDue, WorkSignalRcv, SignalRecv
<1>9. CASE WorkReadable
    BY <1>9 DEF FlagTypes, CallTypes, LockTypes, Exclusion, CallPcs, ReleasePcs, ClosingFlagged,
       WaitsIfBlocking, WaitInv, ReasonInv, SndSignalDue, RcvSignalDue, WorkReadable
<1>10. CASE WorkEnd
    BY <1>10 DEF FlagTypes, CallTypes, LockTypes, Exclusion, CallPcs, ReleasePcs, ClosingFlagged,
       WaitsIfBlocking, WaitInv, ReasonInv, SndSignalDue, RcvSignalDue, WorkEnd
<1>11. CASE WorkRelease
    BY <1>11 DEF FlagTypes, CallTypes, LockTypes, Exclusion, CallPcs, ReleasePcs, ClosingFlagged,
       WaitsIfBlocking, WaitInv, ReasonInv, SndSignalDue, RcvSignalDue, WorkRelease, SignalSend,
       SignalRecv, Release, AfterRelease
<1>12. CASE WorkEvents
    BY <1>12 DEF FlagTypes, CallTypes, LockTypes, Exclusion, CallPcs, ReleasePcs, ClosingFlagged,
       WaitsIfBlocking, WaitInv, ReasonInv, SndSignalDue, RcvSignalDue, WorkEvents
<1>13. QED
    BY <1>1, <1>2, <1>3, <1>4, <1>5, <1>6, <1>7, <1>8, <1>9, <1>10, <1>11, <1>12 DEF WorkStep

\* Nor one of close().
LEMMA CloseKeeps ==
    CallsInv /\ (CloseCall \/ CloseStep) => CallsInv'
<1> SUFFICES ASSUME CallsInv, CloseCall \/ CloseStep PROVE CallsInv'
    OBVIOUS
<1> USE CallsAssumption
    DEF CallsInv, flags, sizes, locks, sndCall, rcvCall, work, events, Alive, Full
<1>1. CASE CloseCall
  <2>1. FlagTypes'
    BY <1>1, Zenon DEF FlagTypes, CloseCall
  <2>2. CallTypes' /\ LockTypes' /\ Exclusion'
    BY <1>1 DEF CallTypes, LockTypes, Exclusion, CallPcs, ReleasePcs, ReasonInv, CloseCall
  <2>3. ClosingFlagged' /\ WaitsIfBlocking' /\ WaitInv' /\ ReasonInv'
    BY <1>1 DEF CallTypes, LockTypes, ClosingFlagged, WaitsIfBlocking, WaitInv, ReasonInv,
       SndSignalDue, RcvSignalDue, CloseCall
  <2>4. QED
    BY <2>1, <2>2, <2>3
<1>2. CASE CloseFlag
    BY <1>2 DEF FlagTypes, CallTypes, LockTypes, Exclusion, CallPcs, ReleasePcs, ClosingFlagged,
       WaitsIfBlocking, WaitInv, ReasonInv, SndSignalDue, RcvSignalDue, CloseFlag
<1>3. CASE CloseRelease
    BY <1>3 DEF FlagTypes, CallTypes, LockTypes, Exclusion, CallPcs, ReleasePcs, ClosingFlagged,
       WaitsIfBlocking, WaitInv, ReasonInv, SndSignalDue, RcvSignalDue, CloseRelease, SignalSend,
       SignalRecv, Release, AfterRelease
<1>4. CASE CloseDisconnect
  <2>1. FlagTypes'
    BY <1>4, Zenon DEF FlagTypes, CloseDisconnect
  <2>2. CallTypes' /\ LockTypes' /\ Exclusion'
    BY <1>4 DEF CallTypes, LockTypes, Exclusion, CallPcs, ReleasePcs, ReasonInv, CloseDisconnect
  <2>3. ClosingFlagged' /\ WaitsIfBlocking' /\ WaitInv' /\ ReasonInv'
    BY <1>4 DEF CallTypes, LockTypes, ClosingFlagged, WaitsIfBlocking, WaitInv, ReasonInv,
       SndSignalDue, RcvSignalDue, CloseDisconnect
  <2>4. QED
    BY <2>1, <2>2, <2>3
<1>5. CASE CloseLockSnd
    BY <1>5 DEF FlagTypes, CallTypes, LockTypes, Exclusion, CallPcs, ReleasePcs, ClosingFlagged,
       WaitsIfBlocking, WaitInv, ReasonInv, SndSignalDue, RcvSignalDue, CloseLockSnd
<1>6. CASE CloseLockRcv
  <2>1. FlagTypes'
    BY <1>6, Zenon DEF FlagTypes, CloseLockRcv
  <2>2. CallTypes' /\ LockTypes' /\ Exclusion'
    BY <1>6 DEF CallTypes, LockTypes, Exclusion, CallPcs, ReleasePcs, ReasonInv, CloseLockRcv
  <2>3. ClosingFlagged' /\ WaitsIfBlocking' /\ WaitInv' /\ ReasonInv'
    BY <1>6 DEF CallTypes, LockTypes, ClosingFlagged, WaitsIfBlocking, WaitInv, ReasonInv,
       SndSignalDue, RcvSignalDue, CloseLockRcv
  <2>4. QED
    BY <2>1, <2>2, <2>3
<1>7. QED
    BY <1>1, <1>2, <1>3, <1>4, <1>5, <1>6 DEF CloseStep

\* Types, wake-ups and results hold in every state the invariant allows, and the
\* invariant is kept by every step.
THEOREM CallsInvariant == Spec => []CallsInv
<1>1. CallsInv /\ [Next]_vars => CallsInv'
  <2>1. CallsInv /\ Next => CallsInv'
    BY SndKeeps, RcvKeeps, WorkKeeps, CloseKeeps DEF Next
  <2>2. CallsInv /\ UNCHANGED vars => CallsInv'
    BY DEF CallsInv, FlagTypes, CallTypes, LockTypes, Exclusion, ClosingFlagged, WaitsIfBlocking,
       WaitInv, ReasonInv, SndSignalDue, RcvSignalDue, Alive, Full, vars, flags, sizes, locks,
       sndCall,
       rcvCall, work, events
  <2>3. QED
    BY <2>1, <2>2
<1>2. QED
    BY Initially, <1>1, PTL DEF Spec

\* Every lock is held by the thread whose step it is, and no buffer overflows.
THEOREM CallTypesCorrect == Spec => []TypeOK
    BY CallsInvariant, Implied, PTL

\* When the worker and close() are done, a call waits only for what has not happened.
THEOREM WakeUpsArrive == Spec => []NoLostWakeup
    BY CallsInvariant, Implied, PTL

\* No call returns 0, whichever flags it saw in which order.
THEOREM ZeroNeverReturned == Spec => []NeverZero
    BY CallsInvariant, Implied, PTL
=============================================================================
