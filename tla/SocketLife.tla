----------------------------- MODULE SocketLife -----------------------------
(***************************************************************************)
(* CUDTUnited: the life of the sockets of a program, from socket() or the  *)
(* request of a peer until the garbage collector deletes them.             *)
(*                                                                         *)
(* A socket is in m_Sockets ("open") or in m_ClosedSockets ("closed"),     *)
(* uses a multiplexer (a UDP port with its two queues), and may wait in    *)
(* the queue of a listener to be accepted.  Three kinds of threads work on *)
(* this: the application's calls, the receiving worker of each port, which *)
(* handles requests of peers, and the garbage collector.  What happens     *)
(* under one lock is one step; the garbage collector keeps m_ControlLock   *)
(* over several.                                                           *)
(*                                                                         *)
(* Sockets are numbered in the order they are made.  The number of a       *)
(* multiplexer is that of the socket it was made for; 0 is no socket.  Of  *)
(* a socket that is deleted nothing is kept but that it was there, and the *)
(* listener it came from.                                                  *)
(***************************************************************************)
EXTENDS Naturals, FiniteSets

CONSTANTS
    MaxSockets,   \* bound of the model: sockets made
    MaxOwn,       \* bound of the model: those the application makes
    Peers,        \* hosts that ask for a connection, again and again
    BackLog,      \* m_uiBackLog of every listener
    Accepters     \* threads of the application that call accept()

ASSUME LifeAssumption ==
    /\ MaxSockets \in Nat /\ MaxOwn \in Nat
    /\ BackLog \in Nat \ {0}
    /\ "nobody" \notin Peers
    /\ IsFiniteSet(Accepters)

Sockets == 1 .. MaxSockets

VARIABLES
    place,        \* where each socket is
    status,       \* m_Status
    broken,       \* m_bBroken
    closing,      \* m_bClosing: CUDT::close has been through
    mux,          \* m_iMuxID, or 0
    home,         \* m_ListenSocket, or 0
    peer,         \* who asked for it, for a socket of a listener
    onList,       \* m_bOnList of its node
    known,        \* what the worker has it in: m_vNewEntry, the list and hash table, nothing
    queued,       \* m_pQueuedSockets
    handed,       \* sockets accept() has returned, or is about to
    refs,         \* m_iRefCount of each multiplexer
    listener,     \* m_pListener of each multiplexer's receiving queue, or 0
    worker,       \* where each receiving worker is
    accepter,     \* where each accept() call is
    closer,       \* sockets whose close() waits for m_ControlLock
    gc,           \* where the garbage collector is, m_ControlLock in hand unless idle
    crashed       \* memory that is gone has been used

socketVars == <<status, broken, closing, mux, home, peer>>
workerVars == <<onList, known>>
vars == <<place, socketVars, workerVars, queued, handed, refs, listener, worker, accepter,
          closer, gc, crashed>>

Idle == [at |-> "idle"]
LockFree == gc = Idle
Running == ~crashed

Fresh(i) == place[i] = "none" /\ \A j \in Sockets : j < i => place[j] # "none"

\* locate(u) finds it.
Located(i) == place[i] = "open" /\ status[i] # "closed"

\* Sockets of the application that it may name in a call.
Own(i) == home[i] = 0 \/ i \in handed

-----------------------------------------------------------------------------
(* Calls of the application. *)

NewSocket(i) ==
    /\ Running /\ LockFree
    /\ Fresh(i)
    /\ Cardinality({j \in Sockets : place[j] # "none" /\ home[j] = 0}) < MaxOwn
    /\ place' = [place EXCEPT ![i] = "open"]
    /\ status' = [status EXCEPT ![i] = "init"]
    /\ UNCHANGED <<broken, closing, mux, home, peer, workerVars, queued, handed, refs, listener,
                   worker, accepter, closer, gc, crashed>>

\* Mistake: a multiplexer that is shared is not counted again.
TakeMuxUncounted(i, m) ==
    /\ mux' = [mux EXCEPT ![i] = m]
    /\ refs' = [refs EXCEPT ![m] = 1]

\* updateMux.
TakeMux(i, m) ==
    /\ mux' = [mux EXCEPT ![i] = m]
    /\ refs' = [refs EXCEPT ![m] = @ + 1]

\* bind, or the binding that connect does: a multiplexer of its own, or one that is
\* there already and reusable.
Bind(i, m) ==
    /\ Running /\ LockFree
    /\ Located(i) /\ status[i] = "init" /\ i \notin closer
    /\ m = i \/ refs[m] > 0
    /\ status' = [status EXCEPT ![i] = "opened"]
    /\ TakeMux(i, m)
    /\ UNCHANGED <<place, broken, closing, home, peer, workerVars, queued, handed, listener,
                   worker, accepter, closer, gc, crashed>>

Listen(i) ==
    /\ Running /\ LockFree
    /\ Located(i) /\ status[i] = "opened" /\ i \notin closer
    /\ listener[mux[i]] = 0
    /\ status' = [status EXCEPT ![i] = "listening"]
    /\ listener' = [listener EXCEPT ![mux[i]] = i]
    /\ UNCHANGED <<place, broken, closing, mux, home, peer, workerVars, queued, handed, refs,
                   worker, accepter, closer, gc, crashed>>

\* The flag goes up before the worker is told: it covers the time until it knows.
Register(i) ==
    /\ onList' = [onList EXCEPT ![i] = TRUE]
    /\ known' = [known EXCEPT ![i] = "entry"]

\* A connect() that succeeds.
Connect(i) ==
    /\ Running /\ LockFree
    /\ Located(i) /\ status[i] = "opened" /\ i \notin closer
    /\ status' = [status EXCEPT ![i] = "connected"]
    /\ Register(i)
    /\ UNCHANGED <<place, broken, closing, mux, home, peer, queued, handed, refs, listener,
                   worker, accepter, closer, gc, crashed>>

\* close() of a listener leaves everything but the waiting accept() calls to the
\* garbage collector.
CloseListener(i) ==
    /\ Running /\ LockFree
    /\ Located(i) /\ status[i] = "listening" /\ ~broken[i]
    /\ broken' = [broken EXCEPT ![i] = TRUE]
    /\ accepter' = [a \in Accepters |->
           IF accepter[a] = [at |-> "waiting", sock |-> i] THEN [at |-> "look", sock |-> i]
           ELSE accepter[a]]
    /\ UNCHANGED <<place, status, closing, mux, home, peer, workerVars, queued, handed, refs,
                   listener, worker, closer, gc, crashed>>

\* close() of another socket: CUDT::close ...
Close(i) ==
    /\ Running /\ LockFree
    /\ Located(i) /\ status[i] # "listening" /\ Own(i)
    /\ i \notin closer
    /\ closing' = [closing EXCEPT ![i] = TRUE]
    /\ closer' = closer \cup {i}
    /\ UNCHANGED <<place, status, broken, mux, home, peer, workerVars, queued, handed, refs,
                   listener, worker, accepter, gc, crashed>>

\* ... and then, once it has m_ControlLock, the move to m_ClosedSockets, unless the
\* garbage collector was faster.
CloseMove(i) ==
    /\ Running /\ LockFree
    /\ i \in closer
    /\ closer' = closer \ {i}
    /\ IF Located(i)
       THEN /\ place' = [place EXCEPT ![i] = "closed"]
            /\ status' = [status EXCEPT ![i] = "closed"]
       ELSE UNCHANGED <<place, status>>
    /\ UNCHANGED <<broken, closing, mux, home, peer, workerVars, queued, handed, refs, listener,
                   worker, accepter, gc, crashed>>

AcceptCall(a, i) ==
    /\ Running /\ LockFree
    /\ accepter[a] = Idle
    /\ Located(i) /\ status[i] = "listening"
    /\ accepter' = [accepter EXCEPT ![a] = [at |-> "look", sock |-> i]]
    /\ UNCHANGED <<place, socketVars, workerVars, queued, handed, refs, listener, worker, closer,
                   gc, crashed>>

\* Under m_AcceptLock: the listener is gone, or a connection is there, or it waits.
AcceptLook(a) ==
    /\ Running
    /\ accepter[a].at = "look"
    /\ LET i == accepter[a].sock
       IN IF status[i] # "listening" \/ broken[i]
          THEN /\ accepter' = [accepter EXCEPT ![a] = Idle]
               /\ UNCHANGED <<queued, handed>>
          ELSE IF queued[i] # {}
          THEN \* begin() of the set: the ids are given out downwards
               \E u \in queued[i] :
                   /\ \A v \in queued[i] : v =< u
                   /\ queued' = [queued EXCEPT ![i] = @ \ {u}]
                   /\ handed' = handed \cup {u}
                   /\ accepter' = [accepter EXCEPT ![a] = [at |-> "found", sock |-> u]]
          ELSE /\ accepter' = [accepter EXCEPT ![a] = [at |-> "waiting", sock |-> i]]
               /\ UNCHANGED <<queued, handed>>
    /\ UNCHANGED <<place, socketVars, workerVars, refs, listener, worker, closer, gc, crashed>>

\* The address of the peer is read from what locate() returns, which may be NULL.
AcceptAddress(a) ==
    /\ Running /\ LockFree
    /\ accepter[a].at = "found"
    /\ IF Located(accepter[a].sock)
       THEN accepter' = [accepter EXCEPT ![a] = Idle] /\ UNCHANGED crashed
       ELSE crashed' = TRUE /\ UNCHANGED accepter
    /\ UNCHANGED <<place, socketVars, workerVars, queued, handed, refs, listener, worker, closer,
                   gc>>

-----------------------------------------------------------------------------
(* The receiving worker of a multiplexer. *)

\* A request passes the listener's tests of cookie and version.  Nothing keeps the
\* listener from being deleted while the worker is in its listen().
ListenCalled(m, p) ==
    /\ Running
    /\ worker[m] = Idle /\ refs[m] > 0
    /\ listener[m] # 0 /\ ~closing[listener[m]]
    /\ worker' = [worker EXCEPT ![m] = [at |-> "locate", sock |-> listener[m], peer |-> p]]
    /\ UNCHANGED <<place, socketVars, workerVars, queued, handed, refs, listener, accepter,
                   closer, gc, crashed>>

\* newConnection begins: the listener is looked up.
LocateListener(m) ==
    /\ Running /\ LockFree
    /\ worker[m].at = "locate" /\ place[worker[m].sock] # "deleted"
    /\ worker' = [worker EXCEPT ![m] = IF Located(worker[m].sock) THEN [@ EXCEPT !.at = "check"]
                                       ELSE Idle]
    /\ UNCHANGED <<place, socketVars, workerVars, queued, handed, refs, listener, accepter,
                   closer, gc, crashed>>

\* A connection that exists is answered for; one that is broken is given up for a
\* new one; a full queue refuses.
CheckPeer(m) ==
    /\ Running /\ LockFree
    /\ worker[m].at = "check" /\ place[worker[m].sock] # "deleted"
    /\ LET l == worker[m].sock
           same == {k \in Sockets : place[k] = "open" /\ peer[k] = worker[m].peer}
           gone == {k \in same : broken[k] /\ \A j \in same : j =< k}
           go == same = {} \/ gone # {}
       IN /\ status' = [j \in Sockets |-> IF j \in gone THEN "closed" ELSE status[j]]
          /\ queued' = [queued EXCEPT ![l] = @ \ gone]
          /\ worker' = [worker EXCEPT ![m] =
                 IF go /\ Cardinality(queued[l] \ gone) < BackLog THEN [@ EXCEPT !.at = "create"]
                 ELSE Idle]
    /\ UNCHANGED <<place, broken, closing, mux, home, peer, workerVars, handed, refs, listener,
                   accepter, closer, gc, crashed>>

\* No memory for a socket.
RefuseConnection(m) ==
    /\ Running
    /\ worker[m].at = "create" /\ place[worker[m].sock] # "deleted"
    /\ worker' = [worker EXCEPT ![m] = Idle]
    /\ UNCHANGED <<place, socketVars, workerVars, queued, handed, refs, listener, accepter, closer,
                   gc, crashed>>

\* The new socket takes the listener's multiplexer and becomes connected; when that
\* fails, it is closed and forgotten, and nobody gives the multiplexer back.
CreateConnection(m, i) ==
    /\ Running /\ LockFree
    /\ worker[m].at = "create" /\ place[worker[m].sock] # "deleted"
    /\ Fresh(i)
    /\ TakeMux(i, m)
    /\ home' = [home EXCEPT ![i] = worker[m].sock]
    /\ peer' = [peer EXCEPT ![i] = worker[m].peer]
    /\ \/ /\ place' = [place EXCEPT ![i] = "made"]
          /\ status' = [status EXCEPT ![i] = "connected"]
          /\ Register(i)
          /\ worker' = [worker EXCEPT ![m] = [at |-> "publish", sock |-> @.sock, new |-> i]]
       \/ /\ place' = [place EXCEPT ![i] = "lost"]
          /\ status' = [status EXCEPT ![i] = "closed"]
          /\ worker' = [worker EXCEPT ![m] = Idle]
          /\ UNCHANGED workerVars
    /\ UNCHANGED <<broken, closing, queued, handed, listener, accepter, closer, gc, crashed>>

\* It is put into m_Sockets ...
PublishConnection(m) ==
    /\ Running /\ LockFree
    /\ worker[m].at = "publish" /\ place[worker[m].sock] # "deleted"
    /\ place' = [place EXCEPT ![worker[m].new] = "open"]
    /\ worker' = [worker EXCEPT ![m].at = "enqueue"]
    /\ UNCHANGED <<socketVars, workerVars, queued, handed, refs, listener, accepter, closer, gc,
                   crashed>>

\* Mistake: nobody is told of the new connection.
EnqueueUnsignalled(m) ==
    /\ Running
    /\ worker[m].at = "enqueue" /\ place[worker[m].sock] # "deleted"
    /\ queued' = [queued EXCEPT ![worker[m].sock] = @ \cup {worker[m].new}]
    /\ worker' = [worker EXCEPT ![m] = Idle]
    /\ UNCHANGED <<place, socketVars, workerVars, handed, refs, listener, accepter, closer, gc,
                   crashed>>

\* ... and then, under m_AcceptLock, into the listener's queue ...
EnqueueConnection(m) ==
    /\ Running
    /\ worker[m].at = "enqueue" /\ place[worker[m].sock] # "deleted"
    /\ queued' = [queued EXCEPT ![worker[m].sock] = @ \cup {worker[m].new}]
    /\ worker' = [worker EXCEPT ![m] = [at |-> "wake", sock |-> @.sock]]
    /\ UNCHANGED <<place, socketVars, workerVars, handed, refs, listener, accepter, closer, gc,
                   crashed>>

\* ... and one accept() call that waits is woken.
WakeAccepter(m) ==
    /\ Running
    /\ worker[m].at = "wake" /\ place[worker[m].sock] # "deleted"
    /\ LET waiting == {a \in Accepters : accepter[a] = [at |-> "waiting", sock |-> worker[m].sock]}
       IN IF waiting = {} THEN UNCHANGED accepter
          ELSE \E a \in waiting : accepter' = [accepter EXCEPT ![a].at = "look"]
    /\ worker' = [worker EXCEPT ![m] = Idle]
    /\ UNCHANGED <<place, socketVars, workerVars, queued, handed, refs, listener, closer, gc,
                   crashed>>

\* The listener was deleted under the worker's feet: what follows is not defined.
WorkerCrash(m) ==
    /\ Running
    /\ worker[m] # Idle /\ place[worker[m].sock] = "deleted"
    /\ crashed' = TRUE
    /\ UNCHANGED <<place, socketVars, workerVars, queued, handed, refs, listener, worker,
                   accepter, closer, gc>>

\* A new entry goes into the list and the hash table.
TakeEntry(i) ==
    /\ Running
    /\ known[i] = "entry" /\ worker[mux[i]] = Idle
    /\ known' = [known EXCEPT ![i] = "list"]
    /\ UNCHANGED <<place, socketVars, onList, queued, handed, refs, listener, worker, accepter,
                   closer, gc, crashed>>

\* A shutdown of the peer, or too many expirations.
PeerBreaks(i) ==
    /\ Running
    /\ known[i] = "list" /\ worker[mux[i]] = Idle
    /\ ~broken[i] /\ ~closing[i]
    /\ broken' = [broken EXCEPT ![i] = TRUE]
    /\ closing' = [closing EXCEPT ![i] = TRUE]
    /\ UNCHANGED <<place, status, mux, home, peer, workerVars, queued, handed, refs, listener,
                   worker, accepter, closer, gc, crashed>>

\* The worker drops a socket that has ended, and lowers the flag last.
DropEnded(i) ==
    /\ Running
    /\ known[i] = "list" /\ worker[mux[i]] = Idle
    /\ broken[i] \/ closing[i]
    /\ known' = [known EXCEPT ![i] = "no"]
    /\ onList' = [onList EXCEPT ![i] = FALSE]
    /\ UNCHANGED <<place, socketVars, queued, handed, refs, listener, worker, accepter, closer,
                   gc, crashed>>

-----------------------------------------------------------------------------
(* The garbage collector: checkBrokenSockets and removeSocket.  What it    *)
(* does to several sockets in one pass is done here to one after another.  *)

\* A broken socket goes to m_ClosedSockets; one that still holds data, or a
\* listener, is given some time first.
CollectBroken(i) ==
    /\ Running /\ LockFree
    /\ place[i] = "open" /\ broken[i]
    /\ status' = [status EXCEPT ![i] = "closed"]
    /\ gc' = [at |-> "dequeue", sock |-> i]
    /\ UNCHANGED <<place, broken, closing, mux, home, peer, workerVars, queued, handed, refs,
                   listener, worker, accepter, closer, crashed>>

\* Mistake: the listener is looked for among the open sockets only.
DequeueFromOpen ==
    /\ Running
    /\ gc.at = "dequeue"
    /\ LET i == gc.sock
       IN /\ queued' = [l \in Sockets |-> IF l = home[i] /\ place[l] = "open"
                                          THEN queued[l] \ {i} ELSE queued[l]]
          /\ place' = [place EXCEPT ![i] = "closed"]
    /\ gc' = Idle
    /\ UNCHANGED <<socketVars, workerVars, handed, refs, listener, worker, accepter, closer,
                   crashed>>

\* It leaves the queue of its listener, if there still is one.
DequeueBroken ==
    /\ Running
    /\ gc.at = "dequeue"
    /\ LET i == gc.sock
       IN /\ queued' = [l \in Sockets |-> IF l = home[i] /\ place[l] \in {"open", "closed"}
                                          THEN queued[l] \ {i} ELSE queued[l]]
          /\ place' = [place EXCEPT ![i] = "closed"]
    /\ gc' = Idle
    /\ UNCHANGED <<socketVars, workerVars, handed, refs, listener, worker, accepter, closer,
                   crashed>>

\* A second after it was closed no call is inside the socket any more.
NobodyInside(i) ==
    /\ i \notin closer
    /\ \A a \in Accepters : accepter[a] # Idle => accepter[a].sock # i

\* Mistake: connections that wait for accept() are left alone.
NoOrphans(i) == {}

\* Connections that go with a listener.
Orphans(i) == queued[i]

\* A closed socket is deleted once the worker has dropped it.  The connections in the
\* queue of a listener are closed first; the last socket takes the multiplexer along.
RemoveClosed(i) ==
    /\ Running /\ LockFree
    /\ place[i] = "closed" /\ ~onList[i] /\ NobodyInside(i)
    /\ LET orphans == Orphans(i)
           m == mux[i]
       IN /\ crashed' = (\E q \in orphans : place[q] # "open")
          /\ place' = [j \in Sockets |-> IF j = i THEN "deleted"
                                         ELSE IF j \in orphans THEN "closed" ELSE place[j]]
          /\ status' = [j \in Sockets |-> IF j \in orphans THEN "closed" ELSE status[j]]
          /\ broken' = [j \in Sockets |-> (broken[j] \/ j \in orphans) /\ j # i]
          /\ closing' = [j \in Sockets |-> (closing[j] \/ j \in orphans) /\ j # i]
          /\ mux' = [mux EXCEPT ![i] = 0]
          /\ peer' = [peer EXCEPT ![i] = "nobody"]
          /\ handed' = handed \ {i}
          /\ queued' = [queued EXCEPT ![i] = {}]
          /\ listener' = [n \in Sockets |-> IF listener[n] = i THEN 0 ELSE listener[n]]
          /\ refs' = [n \in Sockets |-> IF n = m THEN refs[n] - 1 ELSE refs[n]]
          /\ gc' = IF m # 0 /\ refs'[m] = 0 THEN [at |-> "join", sock |-> m] ELSE Idle
    /\ UNCHANGED <<home, workerVars, worker, accepter, closer>>

\* The multiplexer's queue waits for its worker, with m_ControlLock in hand.
JoinWorker ==
    /\ Running
    /\ gc.at = "join" /\ worker[gc.sock] = Idle
    /\ gc' = Idle
    /\ UNCHANGED <<place, socketVars, workerVars, queued, handed, refs, listener, worker, accepter,
                   closer, crashed>>

Finished == ~Running /\ UNCHANGED vars

-----------------------------------------------------------------------------
Init ==
    /\ place = [i \in Sockets |-> "none"]
    /\ status = [i \in Sockets |-> "init"]
    /\ broken = [i \in Sockets |-> FALSE]
    /\ closing = [i \in Sockets |-> FALSE]
    /\ mux = [i \in Sockets |-> 0]
    /\ home = [i \in Sockets |-> 0]
    /\ peer = [i \in Sockets |-> "nobody"]
    /\ onList = [i \in Sockets |-> FALSE]
    /\ known = [i \in Sockets |-> "no"]
    /\ queued = [i \in Sockets |-> {}]
    /\ handed = {}
    /\ refs = [i \in Sockets |-> 0]
    /\ listener = [i \in Sockets |-> 0]
    /\ worker = [i \in Sockets |-> Idle]
    /\ accepter = [a \in Accepters |-> Idle]
    /\ closer = {}
    /\ gc = Idle
    /\ crashed = FALSE

AcceptStep(a) == AcceptLook(a) \/ AcceptAddress(a)

RequestStep(m) ==
    \/ LocateListener(m) \/ CheckPeer(m) \/ RefuseConnection(m) \/ \E i \in Sockets : CreateConnection(m, i)
    \/ PublishConnection(m) \/ EnqueueConnection(m) \/ WakeAccepter(m) \/ WorkerCrash(m)

CollectorStep ==
    \/ \E i \in Sockets : CollectBroken(i) \/ RemoveClosed(i)
    \/ DequeueBroken \/ JoinWorker

Next ==
    \/ \E i \in Sockets : NewSocket(i) \/ Listen(i) \/ Connect(i) \/ CloseListener(i) \/ Close(i)
    \/ \E i, m \in Sockets : Bind(i, m)
    \/ \E i \in Sockets : CloseMove(i)
    \/ \E a \in Accepters, i \in Sockets : AcceptCall(a, i)
    \/ \E a \in Accepters : AcceptStep(a)
    \/ \E m \in Sockets, p \in Peers : ListenCalled(m, p)
    \/ \E m \in Sockets : RequestStep(m)
    \/ \E i \in Sockets : TakeEntry(i) \/ PeerBreaks(i) \/ DropEnded(i)
    \/ CollectorStep
    \/ Finished

Spec == Init /\ [][Next]_vars

\* The threads of the library run, and calls of the application go on; whether a
\* request comes, a peer breaks or a socket is closed is up to others.
Fairness ==
    /\ \A a \in Accepters : WF_vars(AcceptStep(a))
    /\ \A i \in Sockets : WF_vars(CloseMove(i)) /\ SF_vars(TakeEntry(i)) /\ SF_vars(DropEnded(i))
    /\ \A m \in Sockets : WF_vars(RequestStep(m))
    /\ WF_vars(CollectorStep)

LiveSpec == Spec /\ Fairness

-----------------------------------------------------------------------------
TypeOK ==
    /\ place \in [Sockets -> {"none", "made", "open", "closed", "deleted", "lost"}]
    /\ status \in [Sockets -> {"init", "opened", "listening", "connected", "closed"}]
    /\ broken \in [Sockets -> BOOLEAN]
    /\ closing \in [Sockets -> BOOLEAN]
    /\ mux \in [Sockets -> 0 .. MaxSockets]
    /\ home \in [Sockets -> 0 .. MaxSockets]
    /\ peer \in [Sockets -> Peers \cup {"nobody"}]
    /\ onList \in [Sockets -> BOOLEAN]
    /\ known \in [Sockets -> {"no", "entry", "list"}]
    /\ queued \in [Sockets -> SUBSET Sockets]
    /\ handed \in SUBSET Sockets
    /\ refs \in [Sockets -> 0 .. MaxSockets]
    /\ listener \in [Sockets -> 0 .. MaxSockets]
    /\ worker \in [Sockets -> {Idle} \cup [at : {"locate", "check", "create"}, sock : Sockets,
                                           peer : Peers]
                                    \cup [at : {"publish", "enqueue"}, sock : Sockets, new : Sockets]
                                    \cup [at : {"wake"}, sock : Sockets]]
    /\ accepter \in [Accepters -> {Idle} \cup [at : {"look", "waiting", "found"}, sock : Sockets]]
    /\ closer \in SUBSET Sockets
    /\ gc \in {Idle} \cup [at : {"dequeue", "join"}, sock : Sockets]
    /\ crashed \in BOOLEAN

\* A connection in a listener's queue is among the open sockets: removeSocket reads
\* m_Sockets[*q] of each of them without looking whether there is one.
QueuedIsOpen ==
    \A l \in Sockets : \A q \in queued[l] :
        place[q] = "open" \/ ~Running

\* A multiplexer counts the sockets that use it, from the time they get it until they
\* are deleted; so it is never taken away from one.
MuxCounted ==
    \A m \in Sockets :
        refs[m] = Cardinality({i \in Sockets : mux[i] = m /\ place[i] \notin {"none", "deleted"}})

\* The worker has nothing of a socket that is deleted.
DeletedIsForgotten == \A i \in Sockets : place[i] = "deleted" => known[i] = "no"

\* Whatever still leads to a socket or a multiplexer leads to one that is there.
NothingDangles == QueuedIsOpen /\ MuxCounted /\ DeletedIsForgotten

\* An accept() call does not wait while its listener is closed, or a connection is
\* queued, unless it is about to be woken.
AcceptWoken ==
    \A a \in Accepters :
        accepter[a].at = "waiting" =>
            LET l == accepter[a].sock
            IN /\ status[l] = "listening" /\ ~broken[l]
               /\ \/ queued[l] = {}
                  \/ \E m \in Sockets : worker[m].at = "wake" /\ worker[m].sock = l
                  \/ \E b \in Accepters : accepter[b] = [at |-> "look", sock |-> l]

\* The listener whose listen() the worker is in is not deleted meanwhile: a closed
\* socket is kept for a second so that nobody uses what is gone.
ListenerStays == \A m \in Sockets : worker[m] # Idle => place[worker[m].sock] # "deleted"

\* A closed socket is deleted in the end; and when a listener is closed, the
\* connections nobody accepted go with it.
ClosedIsDeleted ==
    \A i \in Sockets :
        /\ place[i] = "closed" ~> (place[i] = "deleted" \/ ~Running)
        /\ (home[i] # 0 /\ i \notin handed /\ place[i] = "open" /\ broken[home[i]])
            ~> (place[i] = "deleted" \/ i \in handed \/ ~Running)
=============================================================================
