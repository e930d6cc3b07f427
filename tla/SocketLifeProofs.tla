--------------------------- MODULE SocketLifeProofs ---------------------------
(***************************************************************************)
(* Proofs about the life of sockets, for any number of sockets, ports,     *)
(* peers and accept() calls and every length of the listeners' queues.     *)
(*                                                                         *)
(* That a queue leads to open sockets only is not inductive: the socket in *)
(* a queue must not be closed by anybody but the collector, which is so    *)
(* because only accept() hands it to the application, and the worker that  *)
(* is making it has it in no queue yet (QueueInv, CallInv, NewInv).  That  *)
(* accept() is woken needs a count: for every connection that is queued    *)
(* while a call waits, the worker or another call is to look (WaitInv).    *)
(***************************************************************************)
EXTENDS SocketLife, FiniteSetTheorems, TLAPS

\* The sockets that use a multiplexer.
Users(m) == {i \in Sockets : mux[i] = m /\ place[i] \notin {"none", "deleted"}}

\* Who will look into the queue of a listener: the worker is about to wake one, or an
\* accept() call is about to look.
Wakers(l) == {m \in Sockets : worker[m].at = "wake" /\ worker[m].sock = l}
Lookers(l) == {b \in Accepters : accepter[b] = [at |-> "look", sock |-> l]}
Waits(a) == accepter[a].at = "waiting"

WorkerStates ==
    {Idle} \cup [at : {"locate", "check", "create"}, sock : Sockets, peer : Peers]
           \cup [at : {"publish", "enqueue"}, sock : Sockets, new : Sockets]
           \cup [at : {"wake"}, sock : Sockets]

AccepterStates == {Idle} \cup [at : {"look", "waiting", "found"}, sock : Sockets]

\* Types of what is known of each socket.
SocketTypes ==
    /\ place \in [Sockets -> {"none", "made", "open", "closed", "deleted", "lost"}]
    /\ status \in [Sockets -> {"init", "opened", "listening", "connected", "closed"}]
    /\ broken \in [Sockets -> BOOLEAN]
    /\ closing \in [Sockets -> BOOLEAN]
    /\ mux \in [Sockets -> 0 .. MaxSockets]
    /\ home \in [Sockets -> 0 .. MaxSockets]
    /\ peer \in [Sockets -> Peers \cup {"nobody"}]
    /\ onList \in [Sockets -> BOOLEAN]
    /\ known \in [Sockets -> {"no", "entry", "list"}]

\* Types of the rest.  How large refs can be follows from MuxCounted.
TableTypes ==
    /\ queued \in [Sockets -> SUBSET Sockets]
    /\ handed \in SUBSET Sockets
    /\ refs \in [Sockets -> Nat]
    /\ listener \in [Sockets -> 0 .. MaxSockets]
    /\ worker \in [Sockets -> WorkerStates]
    /\ accepter \in [Accepters -> AccepterStates]
    /\ closer \in SUBSET Sockets
    /\ gc \in {Idle} \cup [at : {"dequeue", "join"}, sock : Sockets]
    /\ crashed \in BOOLEAN

\* How far a socket can be: one that is not there has no past, one that is not connected
\* yet was made by the application, and the worker knows those whose flag is up.
SocketInv ==
    \A i \in Sockets :
        /\ place[i] = "none" => status[i] = "init" /\ home[i] = 0 /\ ~broken[i]
        /\ status[i] = "init" => mux[i] = 0
        /\ status[i] \in {"init", "opened", "listening"} =>
               home[i] = 0 /\ peer[i] = "nobody" /\ known[i] = "no"
        /\ ~onList[i] => known[i] = "no"
        /\ place[i] = "deleted" => known[i] = "no"

\* Sockets that the application holds, and those whose close() is not done.
CallInv ==
    /\ \A i \in handed : place[i] \in {"open", "closed"}
    /\ \A i \in closer : Own(i) /\ status[i] # "listening" /\ place[i] \in {"open", "closed"}

\* A connection in a queue is open, came from this listener and was not handed out.
QueueInv ==
    \A l \in Sockets :
        /\ \A q \in queued[l] : home[q] = l /\ place[q] = "open" /\ q \notin handed
        /\ queued[l] # {} => place[l] \in {"open", "closed"}

\* Where a multiplexer and its worker find a listener.
ListenerInv ==
    \A m \in Sockets :
        /\ listener[m] # 0 => place[listener[m]] \in {"open", "closed"}
        /\ worker[m] # Idle => place[worker[m].sock] \in {"open", "closed", "deleted"}

\* The new socket in the hands of a worker is nobody else's yet.
InHand(n) ==
    /\ mux[n] \in Sockets /\ worker[mux[n]] # Idle
    /\ home[n] # 0 /\ place[n] \in {"made", "open"}
    /\ status[n] = "connected" /\ known[n] = "entry" /\ ~broken[n]
    /\ n \notin handed /\ \A l \in Sockets : n \notin queued[l]

NewInv ==
    \A m \in Sockets :
        worker[m].at \in {"publish", "enqueue"} =>
            LET n == worker[m].new
            IN /\ InHand(n)
               /\ mux[n] = m /\ home[n] = worker[m].sock
               /\ place[n] = (IF worker[m].at = "publish" THEN "made" ELSE "open")

\* The socket that the collector is about to take out of its listener's queue.
CollectorInv == gc.at = "dequeue" => place[gc.sock] = "open" /\ broken[gc.sock]

\* While an accept() call waits, its listener is open, and for every connection in the
\* queue somebody will look.
WaitInv ==
    \A a \in Accepters :
        Waits(a) =>
            LET l == accepter[a].sock
            IN /\ status[l] = "listening" /\ ~broken[l]
               /\ Cardinality(queued[l]) =< Cardinality(Wakers(l)) + Cardinality(Lookers(l))

\* The inductive invariant.
LifeInv ==
    /\ SocketTypes
    /\ TableTypes
    /\ SocketInv
    /\ CallInv
    /\ QueueInv
    /\ ListenerInv
    /\ NewInv
    /\ CollectorInv
    /\ MuxCounted
    /\ WaitInv

-----------------------------------------------------------------------------
\* Sets that are counted are finite.
LEMMA Finite ==
    /\ IsFiniteSet(Sockets) /\ Cardinality(Sockets) = MaxSockets
    /\ 0 \notin Sockets /\ Sockets \subseteq 0 .. MaxSockets
<1>1. MaxSockets \in Nat
    BY LifeAssumption
<1>2. QED
    BY <1>1, FS_Interval DEF Sockets

\* A set that is contained in another one has not more elements.
LEMMA Fewer ==
    ASSUME NEW S, IsFiniteSet(S), NEW T \in SUBSET S
    PROVE  /\ Cardinality(T) \in Nat /\ Cardinality(S) \in Nat
           /\ Cardinality(T) =< Cardinality(S)
    BY FS_Subset, FS_CardinalityType

\* The invariant says all that the properties do.
LEMMA Implied == LifeInv => TypeOK /\ NothingDangles /\ AcceptWoken
<1> SUFFICES ASSUME LifeInv PROVE TypeOK /\ NothingDangles /\ AcceptWoken
    OBVIOUS
<1>1. TypeOK
    <2>1. ASSUME NEW m \in Sockets PROVE refs[m] \in 0 .. MaxSockets
        <3>1. refs[m] = Cardinality(Users(m))
            BY DEF LifeInv, MuxCounted, Users
        <3>2. Users(m) \subseteq Sockets
            BY DEF Users
        <3>3. QED
            BY <3>1, <3>2, Finite, Fewer
    <2>2. refs \in [Sockets -> 0 .. MaxSockets]
        BY <2>1 DEF LifeInv, TableTypes
    <2>3. QED
        BY <2>2 DEF LifeInv, SocketTypes, TableTypes, WorkerStates, AccepterStates, TypeOK
<1>2. NothingDangles
    BY DEF LifeInv, QueueInv, SocketInv, NothingDangles, QueuedIsOpen, DeletedIsForgotten
<1>3. AcceptWoken
    <2> SUFFICES ASSUME NEW a \in Accepters, accepter[a].at = "waiting"
                 PROVE  LET l == accepter[a].sock
                        IN /\ status[l] = "listening" /\ ~broken[l]
                           /\ \/ queued[l] = {}
                              \/ \E m \in Sockets : worker[m].at = "wake" /\ worker[m].sock = l
                              \/ \E b \in Accepters : accepter[b] = [at |-> "look", sock |-> l]
        BY DEF AcceptWoken
    <2> DEFINE l == accepter[a].sock
    <2>1. /\ status[l] = "listening" /\ ~broken[l]
          /\ Cardinality(queued[l]) =< Cardinality(Wakers(l)) + Cardinality(Lookers(l))
        BY DEF LifeInv, WaitInv, Waits
    <2>2. l \in Sockets
        BY DEF LifeInv, TableTypes, AccepterStates, Idle
    <2>3. ASSUME Wakers(l) = {}, Lookers(l) = {} PROVE queued[l] = {}
        <3>1. Cardinality(queued[l]) =< 0
            BY <2>1, <2>3, FS_EmptySet
        <3>2. queued[l] \in SUBSET Sockets
            BY <2>2 DEF LifeInv, TableTypes
        <3>3. IsFiniteSet(queued[l]) /\ Cardinality(queued[l]) = 0
            BY <3>1, <3>2, Finite, FS_Subset, FS_CardinalityType
        <3>4. QED
            BY <3>3, FS_EmptySet
    <2>4. QED
        BY <2>1, <2>3 DEF Wakers, Lookers
<1>4. QED
    BY <1>1, <1>2, <1>3

\* It holds before there is any socket.
LEMMA Initially == Init => LifeInv
<1> SUFFICES ASSUME Init PROVE LifeInv
    OBVIOUS
<1> USE Finite, LifeAssumption DEF Init, Idle
<1>1. SocketTypes
    BY DEF SocketTypes
<1>2. TableTypes
    <2>1. crashed \in BOOLEAN
        BY Zenon
    <2>2. worker \in [Sockets -> WorkerStates] /\ accepter \in [Accepters -> AccepterStates]
        BY DEF WorkerStates, AccepterStates
    <2>3. queued \in [Sockets -> SUBSET Sockets] /\ refs \in [Sockets -> Nat]
        OBVIOUS
    <2>4. listener \in [Sockets -> 0 .. MaxSockets]
        OBVIOUS
    <2>5. QED
        BY <2>1, <2>2, <2>3, <2>4 DEF TableTypes
<1>3. SocketInv /\ CallInv /\ QueueInv
    BY DEF SocketInv, CallInv, QueueInv
<1>4. ListenerInv /\ NewInv /\ CollectorInv
    BY DEF ListenerInv, NewInv, InHand, CollectorInv
<1>5. MuxCounted
    BY FS_EmptySet DEF MuxCounted
<1>6. WaitInv
    BY DEF WaitInv, Waits
<1>7. QED
    BY <1>1, <1>2, <1>3, <1>4, <1>5, <1>6 DEF LifeInv

\* A multiplexer whose users do not change is still counted ...
LEMMA MuxFrame ==
    ASSUME LifeInv, refs' = refs, \A m \in Sockets : Users(m)' = Users(m)
    PROVE  MuxCounted'
    BY DEF LifeInv, MuxCounted, Users

\* ... and so it is when it gets one more ...
LEMMA MuxMore ==
    ASSUME LifeInv, NEW m \in Sockets, NEW i \in Sockets, i \notin Users(m),
           refs' = [refs EXCEPT ![m] = @ + 1],
           Users(m)' = Users(m) \cup {i},
           \A k \in Sockets \ {m} : Users(k)' = Users(k)
    PROVE  MuxCounted'
<1> SUFFICES ASSUME NEW k \in Sockets PROVE refs'[k] = Cardinality(Users(k)')
    BY DEF MuxCounted, Users
<1>1. IsFiniteSet(Users(m))
    BY Finite, FS_Subset DEF Users
<1>2. refs[k] = Cardinality(Users(k)) /\ refs \in [Sockets -> Nat]
    BY DEF LifeInv, MuxCounted, Users, TableTypes
<1>3. CASE k = m
    BY <1>1, <1>2, <1>3, FS_AddElement
<1>4. CASE k # m
    BY <1>2, <1>4
<1>5. QED
    BY <1>3, <1>4

\* ... or one less.
LEMMA MuxLess ==
    ASSUME LifeInv, NEW m \in Sockets, NEW i \in Users(m),
           refs' = [n \in Sockets |-> IF n = m THEN refs[n] - 1 ELSE refs[n]],
           Users(m)' = Users(m) \ {i},
           \A k \in Sockets \ {m} : Users(k)' = Users(k)
    PROVE  MuxCounted' /\ refs[m] - 1 \in Nat
<1>1. IsFiniteSet(Users(m))
    BY Finite, FS_Subset DEF Users
<1>2. \A k \in Sockets : refs[k] = Cardinality(Users(k)) /\ refs[k] \in Nat
    BY DEF LifeInv, MuxCounted, Users, TableTypes
<1>3. refs[m] - 1 \in Nat /\ refs[m] - 1 = Cardinality(Users(m)')
    <2>1. Cardinality(Users(m) \ {i}) = Cardinality(Users(m)) - 1
        BY <1>1, FS_RemoveElement
    <2>2. Cardinality(Users(m) \ {i}) \in Nat
        BY <1>1, FS_RemoveElement, FS_CardinalityType
    <2>3. QED
        BY <1>2, <2>1, <2>2
<1>4. ASSUME NEW k \in Sockets PROVE refs'[k] = Cardinality(Users(k)')
    <2>1. CASE k = m
        BY <1>3, <2>1
    <2>2. CASE k # m
        BY <1>2, <2>2
    <2>3. QED
        BY <2>1, <2>2
<1>5. QED
    BY <1>3, <1>4 DEF MuxCounted, Users

\* The new socket of a worker stays in its hands if nobody touches such a socket.
LEMMA NewFrame ==
    ASSUME LifeInv,
           \A m \in Sockets : worker'[m].at \in {"publish", "enqueue"} => worker'[m] = worker[m],
           \A n \in Sockets : InHand(n) =>
               /\ mux'[n] = mux[n] /\ home'[n] = home[n] /\ place'[n] = place[n]
               /\ status'[n] = "connected" /\ known'[n] = "entry" /\ ~broken'[n]
               /\ n \notin handed' /\ \A l \in Sockets : n \notin queued'[l]
    PROVE  NewInv'
<1> SUFFICES ASSUME NEW m \in Sockets, worker'[m].at \in {"publish", "enqueue"},
                    NEW n, n = worker'[m].new
             PROVE  /\ InHand(n)' /\ mux'[n] = m /\ home'[n] = worker'[m].sock
                    /\ place'[n] = (IF worker'[m].at = "publish" THEN "made" ELSE "open")
    BY DEF NewInv
<1>1. worker'[m] = worker[m] /\ worker[m].at \in {"publish", "enqueue"} /\ n = worker[m].new
    OBVIOUS
<1>2. worker[m] # Idle /\ n \in Sockets
    BY <1>1 DEF LifeInv, TableTypes, WorkerStates, Idle
<1>3. /\ InHand(n) /\ mux[n] = m /\ home[n] = worker[m].sock
      /\ place[n] = (IF worker[m].at = "publish" THEN "made" ELSE "open")
    BY <1>1 DEF LifeInv, NewInv
<1>4. QED
    BY <1>1, <1>2, <1>3 DEF InHand

\* What is known of a call that waits.
LEMMA WaitUse ==
    ASSUME LifeInv, NEW a \in Accepters, NEW l, accepter[a].at = "waiting", l = accepter[a].sock
    PROVE  /\ l \in Sockets /\ accepter[a] = [at |-> "waiting", sock |-> l]
           /\ status[l] = "listening" /\ ~broken[l]
           /\ Cardinality(queued[l]) =< Cardinality(Wakers(l)) + Cardinality(Lookers(l))
<1>1. l \in Sockets /\ accepter[a] = [at |-> "waiting", sock |-> l]
    BY DEF LifeInv, TableTypes, AccepterStates, Idle
<1>2. QED
    BY <1>1 DEF LifeInv, WaitInv, Waits

\* What must be after a step of every call that waits then.
LEMMA WaitIntro ==
    ASSUME \A a \in Accepters : \A l : accepter'[a].at = "waiting" /\ l = accepter'[a].sock =>
               /\ status'[l] = "listening" /\ ~broken'[l]
               /\ Cardinality(queued'[l]) =< Cardinality(Wakers(l)') + Cardinality(Lookers(l)')
    PROVE  WaitInv'
    BY DEF WaitInv, Waits, Wakers, Lookers

\* The sets whose elements are counted are finite.
LEMMA WaitFinite ==
    ASSUME LifeInv, NEW l \in Sockets
    PROVE  IsFiniteSet(queued[l]) /\ IsFiniteSet(Wakers(l)) /\ IsFiniteSet(Lookers(l))
<1>1. queued[l] \in SUBSET Sockets
    BY DEF LifeInv, TableTypes
<1>2. Wakers(l) \in SUBSET Sockets /\ Lookers(l) \in SUBSET Accepters
    BY DEF Wakers, Lookers
<1>3. QED
    BY <1>1, <1>2, Finite, LifeAssumption, FS_Subset

\* A call that waited before still may, if there is not more to look at and no fewer look.
LEMMA WaitFrame ==
    ASSUME LifeInv,
           \A a \in Accepters : accepter'[a].at = "waiting" => accepter'[a] = accepter[a],
           \A l \in Sockets : status[l] = "listening" /\ ~broken[l] =>
                                   status'[l] = "listening" /\ ~broken'[l],
           \A l \in Sockets : /\ queued'[l] \subseteq queued[l]
                              /\ Wakers(l) \subseteq Wakers(l)' /\ Lookers(l) \subseteq Lookers(l)'
    PROVE  WaitInv'
<1>1. ASSUME NEW a \in Accepters, NEW l, accepter'[a].at = "waiting", l = accepter'[a].sock
      PROVE  /\ status'[l] = "listening" /\ ~broken'[l]
             /\ Cardinality(queued'[l]) =< Cardinality(Wakers(l)') + Cardinality(Lookers(l)')
    <2>1. /\ l \in Sockets /\ status[l] = "listening" /\ ~broken[l]
          /\ Cardinality(queued[l]) =< Cardinality(Wakers(l)) + Cardinality(Lookers(l))
        BY <1>1, WaitUse
    <2>2. IsFiniteSet(queued[l]) /\ IsFiniteSet(Wakers(l)') /\ IsFiniteSet(Lookers(l)')
        <3>1. Wakers(l)' \in SUBSET Sockets /\ Lookers(l)' \in SUBSET Accepters
            BY DEF Wakers, Lookers
        <3>2. QED
            BY <2>1, <3>1, WaitFinite, Finite, LifeAssumption, FS_Subset
    <2>3. /\ Cardinality(queued'[l]) \in Nat /\ Cardinality(queued[l]) \in Nat
          /\ Cardinality(queued'[l]) =< Cardinality(queued[l])
        BY <2>1, <2>2, Fewer
    <2>4. /\ Cardinality(Wakers(l)) \in Nat /\ Cardinality(Wakers(l)') \in Nat
          /\ Cardinality(Wakers(l)) =< Cardinality(Wakers(l)')
        BY <2>1, <2>2, Fewer
    <2>5. /\ Cardinality(Lookers(l)) \in Nat /\ Cardinality(Lookers(l)') \in Nat
          /\ Cardinality(Lookers(l)) =< Cardinality(Lookers(l)')
        BY <2>1, <2>2, Fewer
    <2>6. QED
        BY <2>1, <2>3, <2>4, <2>5
<1>2. QED
    BY <1>1, WaitIntro

\* socket().
LEMMA NewSocketKeeps ==
    ASSUME LifeInv, NEW i \in Sockets, NewSocket(i)
    PROVE  LifeInv'
<1> USE Finite, LifeAssumption DEF LifeInv, socketVars, workerVars, Running, LockFree, Idle
<1>1. SocketTypes'
    BY DEF SocketTypes, NewSocket, Fresh, Located
<1>2. TableTypes'
    BY DEF TableTypes, WorkerStates, AccepterStates, NewSocket, Fresh, Located
<1>3. SocketInv'
    BY DEF SocketInv, SocketTypes, NewSocket, Fresh, Located
<1>4. CallInv'
    BY DEF CallInv, Own, SocketTypes, TableTypes, NewSocket, Fresh, Located
<1>5. QueueInv'
    BY DEF QueueInv, SocketTypes, TableTypes, NewSocket, Fresh, Located
<1>6. ListenerInv'
    BY DEF ListenerInv, SocketTypes, TableTypes, NewSocket, Fresh, Located
<1>7. NewInv'
    BY DEF NewInv, InHand, SocketTypes, TableTypes, NewSocket, Fresh, Located
<1>8. CollectorInv'
    BY DEF CollectorInv, SocketTypes, TableTypes, NewSocket, Fresh, Located
<1>9. MuxCounted'
    <2>1. \A k \in Sockets : Users(k)' = Users(k)
        BY DEF Users, SocketInv, SocketTypes, Fresh, NewSocket
    <2>2. QED
        BY <2>1, MuxFrame DEF Fresh, NewSocket
<1>10. WaitInv'
    <2>1. \A b \in Accepters : accepter'[b].at = "waiting" => accepter'[b] = accepter[b]
        BY DEF SocketTypes, TableTypes, AccepterStates, WorkerStates, Fresh, NewSocket
    <2>2. \A l \in Sockets : status[l] = "listening" /\ ~broken[l] =>
                                status'[l] = "listening" /\ ~broken'[l]
        BY DEF SocketTypes, SocketInv, Fresh, NewSocket
    <2>3. \A l \in Sockets : /\ queued'[l] \subseteq queued[l]
                           /\ Wakers(l) \subseteq Wakers(l)' /\ Lookers(l) \subseteq Lookers(l)'
        BY DEF Wakers, Lookers, SocketTypes, TableTypes, AccepterStates, WorkerStates, Fresh,
           NewSocket
    <2>4. QED
        BY <2>1, <2>2, <2>3, WaitFrame
<1>11. QED
    BY <1>1, <1>2, <1>3, <1>4, <1>5, <1>6, <1>7, <1>8, <1>9, <1>10 DEF LifeInv

\* bind().
LEMMA BindKeeps ==
    ASSUME LifeInv, NEW i \in Sockets, NEW m \in Sockets, Bind(i, m)
    PROVE  LifeInv'
<1> USE Finite, LifeAssumption DEF LifeInv, socketVars, workerVars, Running, LockFree, Idle
<1>1. SocketTypes'
    BY DEF SocketTypes, Bind, Located, TakeMux
<1>2. TableTypes'
    BY DEF TableTypes, WorkerStates, AccepterStates, Bind, Located, TakeMux
<1>3. SocketInv'
    BY DEF SocketInv, SocketTypes, Bind, Located, TakeMux
<1>4. CallInv'
    BY DEF CallInv, Own, SocketTypes, TableTypes, Bind, Located, TakeMux
<1>5. QueueInv'
    BY DEF QueueInv, SocketTypes, TableTypes, Bind, Located, TakeMux
<1>6. ListenerInv'
    BY DEF ListenerInv, SocketTypes, TableTypes, Bind, Located, TakeMux
<1>7. NewInv'
    BY DEF NewInv, InHand, SocketTypes, TableTypes, Bind, Located, TakeMux
<1>8. CollectorInv'
    BY DEF CollectorInv, SocketTypes, TableTypes, Bind, Located, TakeMux
<1>9. MuxCounted'
    <2>1. mux[i] = 0 /\ place[i] = "open"
        BY DEF SocketInv, Located, Bind
    <2>2. i \notin Users(m) /\ Users(m)' = Users(m) \cup {i}
        BY <2>1 DEF Users, SocketTypes, TakeMux, Bind
    <2>3. \A k \in Sockets \ {m} : Users(k)' = Users(k)
        BY <2>1 DEF Users, SocketTypes, TakeMux, Bind
    <2>4. QED
        BY <2>2, <2>3, MuxMore DEF TakeMux, Bind
<1>10. WaitInv'
    BY WaitFrame DEF Wakers, Lookers, SocketTypes, TableTypes, Bind, Located, TakeMux
<1>11. QED
    BY <1>1, <1>2, <1>3, <1>4, <1>5, <1>6, <1>7, <1>8, <1>9, <1>10 DEF LifeInv

\* listen().
LEMMA ListenKeeps ==
    ASSUME LifeInv, NEW i \in Sockets, Listen(i)
    PROVE  LifeInv'
<1> USE Finite, LifeAssumption DEF LifeInv, socketVars, workerVars, Running, LockFree, Idle
<1>1. SocketTypes'
    BY DEF SocketTypes, Listen, Located
<1>2. TableTypes'
    BY DEF TableTypes, WorkerStates, AccepterStates, Listen, Located
<1>3. SocketInv'
    BY DEF SocketInv, SocketTypes, Listen, Located
<1>4. CallInv'
    BY DEF CallInv, Own, SocketTypes, TableTypes, Listen, Located
<1>5. QueueInv'
    BY DEF QueueInv, SocketTypes, TableTypes, Listen, Located
<1>6. ListenerInv'
    BY DEF ListenerInv, SocketTypes, TableTypes, Listen, Located
<1>7. NewInv'
    BY DEF NewInv, InHand, SocketTypes, TableTypes, Listen, Located
<1>8. CollectorInv'
    BY DEF CollectorInv, SocketTypes, TableTypes, Listen, Located
<1>9. MuxCounted'
    BY MuxFrame DEF Users, SocketTypes, Listen, Located
<1>10. WaitInv'
    BY WaitFrame DEF Wakers, Lookers, SocketTypes, TableTypes, Listen, Located
<1>11. QED
    BY <1>1, <1>2, <1>3, <1>4, <1>5, <1>6, <1>7, <1>8, <1>9, <1>10 DEF LifeInv

\* A connect() that succeeds.
LEMMA ConnectKeeps ==
    ASSUME LifeInv, NEW i \in Sockets, Connect(i)
    PROVE  LifeInv'
<1> USE Finite, LifeAssumption DEF LifeInv, socketVars, workerVars, Running, LockFree, Idle
<1>1. SocketTypes'
    BY DEF SocketTypes, Connect, Located, Register
<1>2. TableTypes'
    BY DEF TableTypes, WorkerStates, AccepterStates, Connect, Located, Register
<1>3. SocketInv'
    BY DEF SocketInv, SocketTypes, Connect, Located, Register
<1>4. CallInv'
    BY DEF CallInv, Own, SocketTypes, TableTypes, Connect, Located, Register
<1>5. QueueInv'
    BY DEF QueueInv, SocketTypes, TableTypes, Connect, Located, Register
<1>6. ListenerInv'
    BY DEF ListenerInv, SocketTypes, TableTypes, Connect, Located, Register
<1>7. NewInv'
    BY DEF NewInv, InHand, SocketTypes, TableTypes, Connect, Located, Register
<1>8. CollectorInv'
    BY DEF CollectorInv, SocketTypes, TableTypes, Connect, Located, Register
<1>9. MuxCounted'
    BY MuxFrame DEF Users, SocketTypes, Connect, Located, Register
<1>10. WaitInv'
    BY WaitFrame DEF Wakers, Lookers, SocketTypes, TableTypes, Connect, Located, Register
<1>11. QED
    BY <1>1, <1>2, <1>3, <1>4, <1>5, <1>6, <1>7, <1>8, <1>9, <1>10 DEF LifeInv

\* close() of a listener ends the waits for it.
LEMMA CloseListenerKeeps ==
    ASSUME LifeInv, NEW i \in Sockets, CloseListener(i)
    PROVE  LifeInv'
<1> USE Finite, LifeAssumption DEF LifeInv, socketVars, workerVars, Running, LockFree, Idle
<1>1. SocketTypes'
    BY DEF SocketTypes, CloseListener, Located
<1>2. TableTypes'
    BY DEF TableTypes, WorkerStates, AccepterStates, CloseListener, Located
<1>3. SocketInv'
    BY DEF SocketInv, SocketTypes, CloseListener, Located
<1>4. CallInv'
    BY DEF CallInv, Own, SocketTypes, TableTypes, CloseListener, Located
<1>5. QueueInv'
    BY DEF QueueInv, SocketTypes, TableTypes, CloseListener, Located
<1>6. ListenerInv'
    BY DEF ListenerInv, SocketTypes, TableTypes, CloseListener, Located
<1>7. NewInv'
    BY DEF NewInv, InHand, SocketTypes, TableTypes, CloseListener, Located
<1>8. CollectorInv'
    BY DEF CollectorInv, SocketTypes, TableTypes, CloseListener, Located
<1>9. MuxCounted'
    BY MuxFrame DEF Users, SocketTypes, CloseListener, Located
<1>10. WaitInv'
    <2>1. ASSUME NEW b \in Accepters, NEW l, accepter'[b].at = "waiting", l = accepter'[b].sock
          PROVE  /\ status'[l] = "listening" /\ ~broken'[l]
                 /\ Cardinality(queued'[l]) =< Cardinality(Wakers(l)') + Cardinality(Lookers(l)')
        <3>1. accepter[b] = accepter'[b] /\ l \in Sockets /\ l # i
            BY <2>1 DEF TableTypes, AccepterStates, CloseListener
        <3>2. /\ status[l] = "listening" /\ ~broken[l]
              /\ Cardinality(queued[l]) =< Cardinality(Wakers(l)) + Cardinality(Lookers(l))
            BY <2>1, <3>1, WaitUse
        <3>3. Wakers(l)' = Wakers(l) /\ Lookers(l)' = Lookers(l)
            BY <3>1 DEF Wakers, Lookers, TableTypes, AccepterStates, CloseListener
        <3>4. QED
            BY <3>1, <3>2, <3>3 DEF SocketTypes, CloseListener
    <2>2. QED
        BY <2>1, WaitIntro
<1>11. QED
    BY <1>1, <1>2, <1>3, <1>4, <1>5, <1>6, <1>7, <1>8, <1>9, <1>10 DEF LifeInv

\* close() of another socket begins.
LEMMA CloseKeeps ==
    ASSUME LifeInv, NEW i \in Sockets, Close(i)
    PROVE  LifeInv'
<1> USE Finite, LifeAssumption DEF LifeInv, socketVars, workerVars, Running, LockFree, Idle
<1>1. SocketTypes'
    BY DEF SocketTypes, Close, Located
<1>2. TableTypes'
    BY DEF TableTypes, WorkerStates, AccepterStates, Close, Located
<1>3. SocketInv'
    BY DEF SocketInv, SocketTypes, Close, Located
<1>4. CallInv'
    BY DEF CallInv, Own, SocketTypes, TableTypes, Close, Located
<1>5. QueueInv'
    BY DEF QueueInv, SocketTypes, TableTypes, Close, Located
<1>6. ListenerInv'
    BY DEF ListenerInv, SocketTypes, TableTypes, Close, Located
<1>7. NewInv'
    BY DEF NewInv, InHand, SocketTypes, TableTypes, Close, Located
<1>8. CollectorInv'
    BY DEF CollectorInv, SocketTypes, TableTypes, Close, Located
<1>9. MuxCounted'
    BY MuxFrame DEF Users, SocketTypes, Close, Located
<1>10. WaitInv'
    BY WaitFrame DEF Wakers, Lookers, SocketTypes, TableTypes, Close, Located
<1>11. QED
    BY <1>1, <1>2, <1>3, <1>4, <1>5, <1>6, <1>7, <1>8, <1>9, <1>10 DEF LifeInv

\* close() moves the socket away ...
LEMMA CloseMoveFound ==
    ASSUME LifeInv, NEW i \in Sockets, CloseMove(i), Located(i)
    PROVE  LifeInv'
<1> USE Finite, LifeAssumption DEF LifeInv, socketVars, workerVars, Running, LockFree, Idle
<1>a. /\ closer' = closer \ {i}
      /\ place' = [place EXCEPT ![i] = "closed"] /\ status' = [status EXCEPT ![i] = "closed"]
      /\ UNCHANGED <<broken, closing, mux, home, peer, onList, known, queued, handed, refs, listener,
                     worker, accepter, gc, crashed>>
    BY DEF CloseMove
<1>b. /\ place[i] = "open" /\ i \in closer /\ LockFree
      /\ home[i] = 0 \/ i \in handed
      /\ status[i] # "listening"
    BY DEF CallInv, Own, Located, CloseMove
<1>1. SocketTypes'
    BY <1>a, <1>b DEF SocketTypes
<1>2. TableTypes'
    BY <1>a, <1>b DEF TableTypes, WorkerStates, AccepterStates
<1>3. SocketInv'
    BY <1>a, <1>b DEF SocketInv, SocketTypes
<1>4. CallInv'
    BY <1>a, <1>b DEF CallInv, Own, SocketTypes, TableTypes
<1>5. QueueInv'
    BY <1>a, <1>b DEF QueueInv, SocketTypes, TableTypes
<1>6. ListenerInv'
    BY <1>a, <1>b DEF ListenerInv, SocketTypes, TableTypes
<1>7. NewInv'
    <2>1. ASSUME NEW n \in Sockets, InHand(n)
          PROVE  /\ mux'[n] = mux[n] /\ home'[n] = home[n] /\ place'[n] = place[n]
                 /\ status'[n] = "connected" /\ known'[n] = "entry" /\ ~broken'[n]
                 /\ n \notin handed' /\ \A l \in Sockets : n \notin queued'[l]
        BY <2>1, <1>a, <1>b
           DEF InHand, SocketInv, CallInv, Own, QueueInv, CollectorInv, SocketTypes, TableTypes,
           Idle
    <2>2. \A k \in Sockets : worker'[k].at \in {"publish", "enqueue"} => worker'[k] = worker[k]
        BY <1>a, <1>b DEF TableTypes, WorkerStates, Idle
    <2>3. QED
        BY <2>1, <2>2, NewFrame
<1>8. CollectorInv'
    BY <1>a, <1>b DEF CollectorInv, SocketTypes, TableTypes
<1>9. MuxCounted'
    BY MuxFrame, <1>a, <1>b DEF Users, SocketTypes
<1>10. WaitInv'
    <2>1. \A b \in Accepters : accepter'[b].at = "waiting" => accepter'[b] = accepter[b]
        BY <1>a DEF SocketTypes, TableTypes, AccepterStates, WorkerStates, Idle
    <2>2. \A l \in Sockets : status[l] = "listening" /\ ~broken[l] =>
                                status'[l] = "listening" /\ ~broken'[l]
        BY <1>a, <1>b DEF SocketTypes, Idle
    <2>3. \A l \in Sockets : /\ queued'[l] \subseteq queued[l]
                           /\ Wakers(l) \subseteq Wakers(l)' /\ Lookers(l) \subseteq Lookers(l)'
        BY <1>a DEF Wakers, Lookers, SocketTypes, TableTypes, AccepterStates, WorkerStates, Idle
    <2>4. QED
        BY <2>1, <2>2, <2>3, WaitFrame
<1>11. QED
    BY <1>1, <1>2, <1>3, <1>4, <1>5, <1>6, <1>7, <1>8, <1>9, <1>10 DEF LifeInv

\* ... unless the collector was faster.
LEMMA CloseMoveLate ==
    ASSUME LifeInv, NEW i \in Sockets, CloseMove(i), ~Located(i)
    PROVE  LifeInv'
<1> USE Finite, LifeAssumption DEF LifeInv, socketVars, workerVars, Running, LockFree, Idle
<1>a. /\ closer' = closer \ {i}
      /\ UNCHANGED <<place, status>>
      /\ UNCHANGED <<broken, closing, mux, home, peer, onList, known, queued, handed, refs, listener,
                     worker, accepter, gc, crashed>>
    BY DEF CloseMove
<1>1. SocketTypes'
    BY <1>a DEF SocketTypes
<1>2. TableTypes'
    BY <1>a DEF TableTypes, WorkerStates, AccepterStates
<1>3. SocketInv'
    BY <1>a DEF SocketInv, SocketTypes
<1>4. CallInv'
    BY <1>a DEF CallInv, Own, SocketTypes, TableTypes
<1>5. QueueInv'
    BY <1>a DEF QueueInv, SocketTypes, TableTypes
<1>6. ListenerInv'
    BY <1>a DEF ListenerInv, SocketTypes, TableTypes
<1>7. NewInv'
    BY <1>a DEF NewInv, InHand, SocketTypes, TableTypes
<1>8. CollectorInv'
    BY <1>a DEF CollectorInv, SocketTypes, TableTypes
<1>9. MuxCounted'
    BY MuxFrame, <1>a DEF Users, SocketTypes
<1>10. WaitInv'
    BY WaitFrame, <1>a DEF Wakers, Lookers, SocketTypes, TableTypes
<1>11. QED
    BY <1>1, <1>2, <1>3, <1>4, <1>5, <1>6, <1>7, <1>8, <1>9, <1>10 DEF LifeInv

\* accept() begins.
LEMMA AcceptCallKeeps ==
    ASSUME LifeInv, NEW a \in Accepters, NEW i \in Sockets, AcceptCall(a, i)
    PROVE  LifeInv'
<1> USE Finite, LifeAssumption DEF LifeInv, socketVars, workerVars, Running, LockFree, Idle
<1>1. SocketTypes'
    BY DEF SocketTypes, AcceptCall, Located
<1>2. TableTypes'
    BY DEF TableTypes, WorkerStates, AccepterStates, AcceptCall, Located
<1>3. SocketInv'
    BY DEF SocketInv, SocketTypes, AcceptCall, Located
<1>4. CallInv'
    BY DEF CallInv, Own, SocketTypes, TableTypes, AcceptCall, Located
<1>5. QueueInv'
    BY DEF QueueInv, SocketTypes, TableTypes, AcceptCall, Located
<1>6. ListenerInv'
    BY DEF ListenerInv, SocketTypes, TableTypes, AcceptCall, Located
<1>7. NewInv'
    BY DEF NewInv, InHand, SocketTypes, TableTypes, AcceptCall, Located
<1>8. CollectorInv'
    BY DEF CollectorInv, SocketTypes, TableTypes, AcceptCall, Located
<1>9. MuxCounted'
    BY MuxFrame DEF Users, SocketTypes, AcceptCall, Located
<1>10. WaitInv'
    BY WaitFrame DEF Wakers, Lookers, SocketTypes, TableTypes, AcceptCall, Located
<1>11. QED
    BY <1>1, <1>2, <1>3, <1>4, <1>5, <1>6, <1>7, <1>8, <1>9, <1>10 DEF LifeInv

\* accept() looks into the queue of a listener that is closed, and fails ...
LEMMA AcceptFails ==
    ASSUME LifeInv, NEW a \in Accepters, AcceptLook(a), NEW i \in Sockets,
           accepter[a] = [at |-> "look", sock |-> i],
           status[i] # "listening" \/ broken[i]
    PROVE  LifeInv'
<1> USE Finite, LifeAssumption DEF LifeInv, socketVars, workerVars, Running, LockFree, Idle
<1>a. /\ accepter' = [accepter EXCEPT ![a] = Idle] /\ UNCHANGED <<queued, handed>>
      /\ UNCHANGED <<place, status, broken, closing, mux, home, peer, onList, known, refs, listener,
                     worker, closer, gc, crashed>>
    BY DEF AcceptLook
<1>1. SocketTypes'
    BY <1>a DEF SocketTypes
<1>2. TableTypes'
    BY <1>a DEF TableTypes, WorkerStates, AccepterStates
<1>3. SocketInv'
    BY <1>a DEF SocketInv, SocketTypes
<1>4. CallInv'
    BY <1>a DEF CallInv, Own, SocketTypes, TableTypes
<1>5. QueueInv'
    BY <1>a DEF QueueInv, SocketTypes, TableTypes
<1>6. ListenerInv'
    BY <1>a DEF ListenerInv, SocketTypes, TableTypes
<1>7. NewInv'
    BY <1>a DEF NewInv, InHand, SocketTypes, TableTypes
<1>8. CollectorInv'
    BY <1>a DEF CollectorInv, SocketTypes, TableTypes
<1>9. MuxCounted'
    BY MuxFrame, <1>a DEF Users, SocketTypes
<1>10. WaitInv'
    <2>1. ASSUME NEW b \in Accepters, NEW l, accepter'[b].at = "waiting", l = accepter'[b].sock
          PROVE  /\ status'[l] = "listening" /\ ~broken'[l]
                 /\ Cardinality(queued'[l]) =< Cardinality(Wakers(l)') + Cardinality(Lookers(l)')
        <3>1. accepter[b] = accepter'[b] /\ l \in Sockets /\ b # a
            BY <1>a, <2>1 DEF TableTypes, AccepterStates
        <3>2. /\ status[l] = "listening" /\ ~broken[l]
              /\ Cardinality(queued[l]) =< Cardinality(Wakers(l)) + Cardinality(Lookers(l))
            BY <2>1, <3>1, WaitUse
        <3>3. l # i
            BY <3>2
        <3>4. Wakers(l)' = Wakers(l) /\ Lookers(l)' = Lookers(l)
            BY <1>a, <3>3 DEF Wakers, Lookers, TableTypes
        <3>5. QED
            BY <1>a, <3>2, <3>4
    <2>2. QED
        BY <2>1, WaitIntro
<1>11. QED
    BY <1>1, <1>2, <1>3, <1>4, <1>5, <1>6, <1>7, <1>8, <1>9, <1>10 DEF LifeInv

\* ... or finds nothing, and waits ...
LEMMA AcceptWaits ==
    ASSUME LifeInv, NEW a \in Accepters, AcceptLook(a), NEW i \in Sockets,
           accepter[a] = [at |-> "look", sock |-> i],
           status[i] = "listening", ~broken[i], queued[i] = {}
    PROVE  LifeInv'
<1> USE Finite, LifeAssumption DEF LifeInv, socketVars, workerVars, Running, LockFree, Idle
<1>a. /\ accepter' = [accepter EXCEPT ![a] = [at |-> "waiting", sock |-> i]]
      /\ UNCHANGED <<queued, handed>>
      /\ UNCHANGED <<place, status, broken, closing, mux, home, peer, onList, known, refs, listener,
                     worker, closer, gc, crashed>>
    BY DEF AcceptLook
<1>1. SocketTypes'
    BY <1>a DEF SocketTypes
<1>2. TableTypes'
    BY <1>a DEF TableTypes, WorkerStates, AccepterStates
<1>3. SocketInv'
    BY <1>a DEF SocketInv, SocketTypes
<1>4. CallInv'
    BY <1>a DEF CallInv, Own, SocketTypes, TableTypes
<1>5. QueueInv'
    BY <1>a DEF QueueInv, SocketTypes, TableTypes
<1>6. ListenerInv'
    BY <1>a DEF ListenerInv, SocketTypes, TableTypes
<1>7. NewInv'
    BY <1>a DEF NewInv, InHand, SocketTypes, TableTypes
<1>8. CollectorInv'
    BY <1>a DEF CollectorInv, SocketTypes, TableTypes
<1>9. MuxCounted'
    BY MuxFrame, <1>a DEF Users, SocketTypes
<1>10. WaitInv'
    <2>1. ASSUME NEW b \in Accepters, NEW l, accepter'[b].at = "waiting", l = accepter'[b].sock
          PROVE  /\ status'[l] = "listening" /\ ~broken'[l]
                 /\ Cardinality(queued'[l]) =< Cardinality(Wakers(l)') + Cardinality(Lookers(l)')
        <3>1. CASE l = i
            <4>1. Cardinality(queued'[l]) = 0
                BY <1>a, <3>1, FS_EmptySet
            <4>2. Wakers(l)' \in SUBSET Sockets /\ Lookers(l)' \in SUBSET Accepters
                BY DEF Wakers, Lookers
            <4>3. Cardinality(Wakers(l)') \in Nat /\ Cardinality(Lookers(l)') \in Nat
                BY <4>2, Fewer
            <4>4. QED
                BY <1>a, <3>1, <4>1, <4>3
        <3>2. CASE l # i
            <4>1. accepter[b] = accepter'[b] /\ l \in Sockets
                BY <1>a, <2>1, <3>2 DEF TableTypes, AccepterStates
            <4>2. /\ status[l] = "listening" /\ ~broken[l]
                  /\ Cardinality(queued[l]) =< Cardinality(Wakers(l)) + Cardinality(Lookers(l))
                BY <2>1, <4>1, WaitUse
            <4>3. Wakers(l)' = Wakers(l) /\ Lookers(l)' = Lookers(l)
                BY <1>a, <3>2 DEF Wakers, Lookers, TableTypes
            <4>4. QED
                BY <1>a, <4>2, <4>3
        <3>3. QED
            BY <3>1, <3>2
    <2>2. QED
        BY <2>1, WaitIntro
<1>11. QED
    BY <1>1, <1>2, <1>3, <1>4, <1>5, <1>6, <1>7, <1>8, <1>9, <1>10 DEF LifeInv

\* ... or takes a connection.
LEMMA AcceptTakes ==
    ASSUME LifeInv, NEW a \in Accepters, AcceptLook(a), NEW i \in Sockets,
           accepter[a] = [at |-> "look", sock |-> i],
           status[i] = "listening", ~broken[i], queued[i] # {}
    PROVE  LifeInv'
<1> USE Finite, LifeAssumption DEF LifeInv, socketVars, workerVars, Running, LockFree, Idle
<1>a. PICK u \in queued[i] :
          /\ queued' = [queued EXCEPT ![i] = @ \ {u}]
          /\ handed' = handed \cup {u}
          /\ accepter' = [accepter EXCEPT ![a] = [at |-> "found", sock |-> u]]
    BY DEF AcceptLook
<1>b. UNCHANGED <<place, status, broken, closing, mux, home, peer, onList, known, refs, listener,
                     worker, closer, gc, crashed>>
    BY DEF AcceptLook
<1>c. u \in Sockets
    BY DEF TableTypes
<1>1. SocketTypes'
    BY <1>a, <1>b, <1>c DEF SocketTypes
<1>2. TableTypes'
    BY <1>a, <1>b, <1>c DEF TableTypes, WorkerStates, AccepterStates
<1>3. SocketInv'
    BY <1>a, <1>b, <1>c DEF SocketInv, SocketTypes
<1>4. CallInv'
    BY <1>a, <1>b, <1>c DEF CallInv, Own, QueueInv, TableTypes
<1>5. QueueInv'
    BY <1>a, <1>b, <1>c DEF QueueInv, TableTypes
<1>6. ListenerInv'
    BY <1>a, <1>b, <1>c DEF ListenerInv, SocketTypes, TableTypes
<1>7. NewInv'
    <2>1. ASSUME NEW n \in Sockets, InHand(n)
          PROVE  /\ mux'[n] = mux[n] /\ home'[n] = home[n] /\ place'[n] = place[n]
                 /\ status'[n] = "connected" /\ known'[n] = "entry" /\ ~broken'[n]
                 /\ n \notin handed' /\ \A l \in Sockets : n \notin queued'[l]
        BY <2>1, <1>a, <1>b, <1>c
           DEF InHand, SocketInv, CallInv, Own, QueueInv, CollectorInv, SocketTypes, TableTypes,
           Idle
    <2>2. \A k \in Sockets : worker'[k].at \in {"publish", "enqueue"} => worker'[k] = worker[k]
        BY <1>a, <1>b, <1>c DEF TableTypes, WorkerStates, Idle
    <2>3. QED
        BY <2>1, <2>2, NewFrame
<1>8. CollectorInv'
    BY <1>a, <1>b, <1>c DEF CollectorInv, SocketTypes, TableTypes
<1>9. MuxCounted'
    BY MuxFrame, <1>a, <1>b, <1>c DEF Users, SocketTypes
<1>10. WaitInv'
    <2>1. ASSUME NEW b \in Accepters, NEW l, accepter'[b].at = "waiting", l = accepter'[b].sock
          PROVE  /\ status'[l] = "listening" /\ ~broken'[l]
                 /\ Cardinality(queued'[l]) =< Cardinality(Wakers(l)') + Cardinality(Lookers(l)')
        <3>1. accepter[b] = accepter'[b] /\ l \in Sockets /\ b # a
            BY <1>a, <1>b, <2>1 DEF TableTypes, AccepterStates
        <3>2. /\ status[l] = "listening" /\ ~broken[l]
              /\ Cardinality(queued[l]) =< Cardinality(Wakers(l)) + Cardinality(Lookers(l))
            BY <2>1, <3>1, WaitUse
        <3>3. Wakers(l)' = Wakers(l)
            BY <1>b DEF Wakers
        <3>4. CASE l = i
            <4>1. a \in Lookers(l) /\ Lookers(l)' = Lookers(l) \ {a} /\ queued'[l] = queued[l] \ {u}
                BY <1>a, <3>4 DEF Lookers, TableTypes
            <4>2. /\ IsFiniteSet(queued[l]) /\ IsFiniteSet(Lookers(l)) /\ IsFiniteSet(Wakers(l))
                BY <3>1, WaitFinite
            <4>3. /\ Cardinality(Lookers(l)') = Cardinality(Lookers(l)) - 1
                  /\ Cardinality(queued'[l]) = Cardinality(queued[l]) - 1
                <5>1. Cardinality(Lookers(l) \ {a}) = Cardinality(Lookers(l)) - 1
                    BY <4>1, <4>2, FS_RemoveElement
                <5>2. Cardinality(queued[l] \ {u}) = Cardinality(queued[l]) - 1
                    BY <3>4, <4>2, FS_RemoveElement
                <5>3. QED
                    BY <4>1, <5>1, <5>2
            <4>4. /\ Cardinality(Lookers(l)) \in Nat /\ Cardinality(queued[l]) \in Nat
                  /\ Cardinality(Wakers(l)) \in Nat
                BY <4>2, FS_CardinalityType
            <4>5. QED
                BY <1>b, <3>2, <3>3, <4>3, <4>4
        <3>5. CASE l # i
            <4>1. Lookers(l)' = Lookers(l) /\ queued'[l] = queued[l]
                BY <1>a, <3>1, <3>5 DEF Lookers, TableTypes
            <4>2. QED
                BY <1>b, <3>2, <3>3, <4>1
        <3>6. QED
            BY <3>4, <3>5
    <2>2. QED
        BY <2>1, WaitIntro
<1>11. QED
    BY <1>1, <1>2, <1>3, <1>4, <1>5, <1>6, <1>7, <1>8, <1>9, <1>10 DEF LifeInv

\* accept() reads the peer's address.
LEMMA AcceptAddressKeeps ==
    ASSUME LifeInv, NEW a \in Accepters, AcceptAddress(a)
    PROVE  LifeInv'
<1> USE Finite, LifeAssumption DEF LifeInv, socketVars, workerVars, Running, LockFree, Idle
<1>1. SocketTypes'
    BY DEF SocketTypes, AcceptAddress, Located
<1>2. TableTypes'
    BY DEF TableTypes, WorkerStates, AccepterStates, AcceptAddress, Located
<1>3. SocketInv'
    BY DEF SocketInv, SocketTypes, AcceptAddress, Located
<1>4. CallInv'
    BY DEF CallInv, Own, SocketTypes, TableTypes, AcceptAddress, Located
<1>5. QueueInv'
    BY DEF QueueInv, SocketTypes, TableTypes, AcceptAddress, Located
<1>6. ListenerInv'
    BY DEF ListenerInv, SocketTypes, TableTypes, AcceptAddress, Located
<1>7. NewInv'
    BY DEF NewInv, InHand, SocketTypes, TableTypes, AcceptAddress, Located
<1>8. CollectorInv'
    BY DEF CollectorInv, SocketTypes, TableTypes, AcceptAddress, Located
<1>9. MuxCounted'
    BY MuxFrame DEF Users, SocketTypes, AcceptAddress, Located
<1>10. WaitInv'
    BY WaitFrame DEF Wakers, Lookers, SocketTypes, TableTypes, AcceptAddress, Located
<1>11. QED
    BY <1>1, <1>2, <1>3, <1>4, <1>5, <1>6, <1>7, <1>8, <1>9, <1>10 DEF LifeInv

\* A request comes to the worker.
LEMMA ListenCalledKeeps ==
    ASSUME LifeInv, NEW m \in Sockets, NEW p \in Peers, ListenCalled(m, p)
    PROVE  LifeInv'
<1> USE Finite, LifeAssumption DEF LifeInv, socketVars, workerVars, Running, LockFree, Idle
<1>1. SocketTypes'
    BY DEF SocketTypes, ListenCalled
<1>2. TableTypes'
    <2>1. listener[m] \in Sockets
        BY DEF TableTypes, Sockets, ListenCalled
    <2>2. worker' \in [Sockets -> WorkerStates]
        BY <2>1 DEF TableTypes, WorkerStates, ListenCalled
    <2>3. QED
        BY <2>2 DEF TableTypes, ListenCalled
<1>3. SocketInv'
    BY DEF SocketInv, SocketTypes, ListenCalled
<1>4. CallInv'
    BY DEF CallInv, Own, SocketTypes, TableTypes, ListenCalled
<1>5. QueueInv'
    BY DEF QueueInv, SocketTypes, TableTypes, ListenCalled
<1>6. ListenerInv'
    BY DEF ListenerInv, SocketTypes, TableTypes, ListenCalled
<1>7. NewInv'
    BY DEF NewInv, InHand, SocketTypes, TableTypes, ListenCalled
<1>8. CollectorInv'
    BY DEF CollectorInv, SocketTypes, TableTypes, ListenCalled
<1>9. MuxCounted'
    BY MuxFrame DEF Users, SocketTypes, ListenCalled
<1>10. WaitInv'
    BY WaitFrame DEF Wakers, Lookers, SocketTypes, TableTypes, ListenCalled
<1>11. QED
    BY <1>1, <1>2, <1>3, <1>4, <1>5, <1>6, <1>7, <1>8, <1>9, <1>10 DEF LifeInv

\* newConnection() looks up the listener.
LEMMA LocateListenerKeeps ==
    ASSUME LifeInv, NEW m \in Sockets, LocateListener(m)
    PROVE  LifeInv'
<1> USE Finite, LifeAssumption DEF LifeInv, socketVars, workerVars, Running, LockFree, Idle
<1>1. SocketTypes'
    BY DEF SocketTypes, LocateListener, Located
<1>2. TableTypes'
    BY DEF TableTypes, WorkerStates, AccepterStates, LocateListener, Located
<1>3. SocketInv'
    BY DEF SocketInv, SocketTypes, LocateListener, Located
<1>4. CallInv'
    BY DEF CallInv, Own, SocketTypes, TableTypes, LocateListener, Located
<1>5. QueueInv'
    BY DEF QueueInv, SocketTypes, TableTypes, LocateListener, Located
<1>6. ListenerInv'
    BY DEF ListenerInv, SocketTypes, TableTypes, LocateListener, Located
<1>7. NewInv'
    <2>1. ASSUME NEW n \in Sockets, InHand(n)
          PROVE  /\ mux'[n] = mux[n] /\ home'[n] = home[n] /\ place'[n] = place[n]
                 /\ status'[n] = "connected" /\ known'[n] = "entry" /\ ~broken'[n]
                 /\ n \notin handed' /\ \A l \in Sockets : n \notin queued'[l]
        BY <2>1
           DEF InHand, SocketInv, CallInv, Own, QueueInv, CollectorInv, SocketTypes, TableTypes,
           Located, LocateListener
    <2>2. \A k \in Sockets : worker'[k].at \in {"publish", "enqueue"} => worker'[k] = worker[k]
        BY DEF TableTypes, WorkerStates, Located, LocateListener
    <2>3. QED
        BY <2>1, <2>2, NewFrame
<1>8. CollectorInv'
    BY DEF CollectorInv, SocketTypes, TableTypes, LocateListener, Located
<1>9. MuxCounted'
    BY MuxFrame DEF Users, SocketTypes, LocateListener, Located
<1>10. WaitInv'
    BY WaitFrame DEF Wakers, Lookers, SocketTypes, TableTypes, LocateListener, Located
<1>11. QED
    BY <1>1, <1>2, <1>3, <1>4, <1>5, <1>6, <1>7, <1>8, <1>9, <1>10 DEF LifeInv

\* newConnection() looks for a connection that is there already.
LEMMA CheckPeerKeeps ==
    ASSUME LifeInv, NEW m \in Sockets, CheckPeer(m)
    PROVE  LifeInv'
<1> USE Finite, LifeAssumption DEF LifeInv, socketVars, workerVars, Running, LockFree, Idle
<1>1. SocketTypes'
    BY DEF SocketTypes, CheckPeer
<1>2. TableTypes'
    BY DEF TableTypes, WorkerStates, AccepterStates, CheckPeer
<1>3. SocketInv'
    BY DEF SocketInv, SocketTypes, CheckPeer
<1>4. CallInv'
    BY DEF CallInv, Own, SocketTypes, TableTypes, CheckPeer
<1>5. QueueInv'
    BY DEF QueueInv, SocketTypes, TableTypes, CheckPeer
<1>6. ListenerInv'
    BY DEF ListenerInv, SocketTypes, TableTypes, CheckPeer
<1>7. NewInv'
    <2>1. ASSUME NEW n \in Sockets, InHand(n)
          PROVE  /\ mux'[n] = mux[n] /\ home'[n] = home[n] /\ place'[n] = place[n]
                 /\ status'[n] = "connected" /\ known'[n] = "entry" /\ ~broken'[n]
                 /\ n \notin handed' /\ \A l \in Sockets : n \notin queued'[l]
        BY <2>1
           DEF InHand, SocketInv, CallInv, Own, QueueInv, CollectorInv, SocketTypes, TableTypes,
           CheckPeer
    <2>2. \A k \in Sockets : worker'[k].at \in {"publish", "enqueue"} => worker'[k] = worker[k]
        BY DEF TableTypes, WorkerStates, CheckPeer
    <2>3. QED
        BY <2>1, <2>2, NewFrame
<1>8. CollectorInv'
    BY DEF CollectorInv, SocketTypes, TableTypes, CheckPeer
<1>9. MuxCounted'
    BY MuxFrame DEF Users, SocketTypes, CheckPeer
<1>10. WaitInv'
    BY WaitFrame DEF Wakers, Lookers, SocketTypes, TableTypes, CheckPeer
<1>11. QED
    BY <1>1, <1>2, <1>3, <1>4, <1>5, <1>6, <1>7, <1>8, <1>9, <1>10 DEF LifeInv

\* newConnection() fails.
LEMMA RefuseConnectionKeeps ==
    ASSUME LifeInv, NEW m \in Sockets, RefuseConnection(m)
    PROVE  LifeInv'
<1> USE Finite, LifeAssumption DEF LifeInv, socketVars, workerVars, Running, LockFree, Idle
<1>1. SocketTypes'
    BY DEF SocketTypes, RefuseConnection
<1>2. TableTypes'
    BY DEF TableTypes, WorkerStates, AccepterStates, RefuseConnection
<1>3. SocketInv'
    BY DEF SocketInv, SocketTypes, RefuseConnection
<1>4. CallInv'
    BY DEF CallInv, Own, SocketTypes, TableTypes, RefuseConnection
<1>5. QueueInv'
    BY DEF QueueInv, SocketTypes, TableTypes, RefuseConnection
<1>6. ListenerInv'
    BY DEF ListenerInv, SocketTypes, TableTypes, RefuseConnection
<1>7. NewInv'
    BY DEF NewInv, InHand, SocketTypes, TableTypes, RefuseConnection
<1>8. CollectorInv'
    BY DEF CollectorInv, SocketTypes, TableTypes, RefuseConnection
<1>9. MuxCounted'
    BY MuxFrame DEF Users, SocketTypes, RefuseConnection
<1>10. WaitInv'
    BY WaitFrame DEF Wakers, Lookers, SocketTypes, TableTypes, RefuseConnection
<1>11. QED
    BY <1>1, <1>2, <1>3, <1>4, <1>5, <1>6, <1>7, <1>8, <1>9, <1>10 DEF LifeInv

\* newConnection() makes a socket ...
LEMMA CreateConnectionMade ==
    ASSUME LifeInv, NEW m \in Sockets, NEW i \in Sockets, CreateConnection(m, i), place'[i] = "made"
    PROVE  LifeInv'
<1> USE Finite, LifeAssumption DEF LifeInv, socketVars, workerVars, Running, LockFree, Idle
<1>a. PICK h \in Sockets, p \in Peers : worker[m] = [at |-> "create", sock |-> h, peer |-> p]
    <2>1. worker[m] \in WorkerStates /\ worker[m].at = "create"
        BY DEF TableTypes, CreateConnection
    <2>2. worker[m] \in [at : {"locate", "check", "create"}, sock : Sockets, peer : Peers]
        BY <2>1 DEF WorkerStates
    <2>3. /\ worker[m].sock \in Sockets /\ worker[m].peer \in Peers
          /\ worker[m] = [at |-> "create", sock |-> worker[m].sock, peer |-> worker[m].peer]
        BY <2>1, <2>2
    <2>4. QED
        BY <2>3
<1>b. /\ mux' = [mux EXCEPT ![i] = m] /\ refs' = [refs EXCEPT ![m] = @ + 1]
      /\ home' = [home EXCEPT ![i] = h] /\ peer' = [peer EXCEPT ![i] = p]
      /\ UNCHANGED <<broken, closing, queued, handed, listener, accepter, closer, gc, crashed>>
      /\ place' = [place EXCEPT ![i] = "made"] /\ status' = [status EXCEPT ![i] = "connected"]
      /\ onList' = [onList EXCEPT ![i] = TRUE] /\ known' = [known EXCEPT ![i] = "entry"]
      /\ worker' = [worker EXCEPT ![m] = [at |-> "publish", sock |-> h, new |-> i]]
    BY <1>a DEF SocketTypes, TakeMux, Register, CreateConnection
<1>c. /\ place[i] = "none" /\ status[i] = "init" /\ home[i] = 0 /\ mux[i] = 0 /\ known[i] = "no"
      /\ ~broken[i] /\ i # h /\ place[h] \in {"open", "closed"}
    BY <1>a DEF SocketInv, ListenerInv, Fresh, CreateConnection
<1>d. i \notin handed /\ \A j \in Sockets : i \notin queued[j]
    BY <1>c DEF CallInv, QueueInv, TableTypes
<1>1. SocketTypes'
    BY <1>a, <1>b, <1>c, <1>d DEF SocketTypes
<1>2. TableTypes'
    BY <1>a, <1>b, <1>c, <1>d DEF TableTypes, WorkerStates, AccepterStates
<1>3. SocketInv'
    BY <1>a, <1>b, <1>c, <1>d DEF SocketInv, SocketTypes
<1>4. CallInv'
    BY <1>a, <1>b, <1>c, <1>d DEF CallInv, Own, SocketTypes, TableTypes
<1>5. QueueInv'
    BY <1>a, <1>b, <1>c, <1>d DEF QueueInv, SocketTypes, TableTypes
<1>6. ListenerInv'
    <2>1. ASSUME NEW k \in Sockets, listener[k] # 0 PROVE place'[listener[k]] \in {"open", "closed"}
        BY <1>b, <1>c, <2>1 DEF ListenerInv, SocketTypes
    <2>2. ASSUME NEW k \in Sockets, worker'[k] # Idle
          PROVE  place'[worker'[k].sock] \in {"open", "closed", "deleted"}
        BY <1>a, <1>b, <1>c, <2>2 DEF ListenerInv, SocketTypes, TableTypes
    <2>3. QED
        BY <1>b, <2>1, <2>2 DEF ListenerInv
<1>7. NewInv'
    <2> SUFFICES ASSUME NEW k \in Sockets, worker'[k].at \in {"publish", "enqueue"},
                        NEW n, n = worker'[k].new
                 PROVE  /\ InHand(n)' /\ mux'[n] = k /\ home'[n] = worker'[k].sock
                        /\ place'[n] = (IF worker'[k].at = "publish" THEN "made" ELSE "open")
        BY DEF NewInv
    <2>1. CASE k = m
        BY <1>b, <1>c, <1>d, <2>1 DEF InHand, SocketTypes, TableTypes
    <2>2. CASE k # m
        <3>1. worker'[k] = worker[k] /\ worker[k].at \in {"publish", "enqueue"} /\ n = worker[k].new
            BY <2>2, <1>b DEF TableTypes
        <3>2. worker[k] # Idle /\ n \in Sockets
            BY <3>1 DEF TableTypes, WorkerStates
        <3>3. /\ InHand(n) /\ mux[n] = k /\ home[n] = worker[k].sock
              /\ place[n] = (IF worker[k].at = "publish" THEN "made" ELSE "open")
            BY <3>1 DEF NewInv
        <3>4. n # i
            BY <1>c, <3>3
        <3>5. QED
            BY <1>b, <2>2, <3>1, <3>2, <3>3, <3>4 DEF InHand, SocketTypes
    <2>3. QED
        BY <2>1, <2>2
<1>8. CollectorInv'
    BY <1>a, <1>b, <1>c, <1>d DEF CollectorInv, SocketTypes, TableTypes
<1>9. MuxCounted'
    <2>1. i \notin Users(m) /\ Users(m)' = Users(m) \cup {i}
        BY <1>b, <1>c DEF Users, SocketTypes
    <2>2. \A k \in Sockets \ {m} : Users(k)' = Users(k)
        BY <1>b, <1>c DEF Users, SocketTypes
    <2>3. QED
        BY <1>b, <2>1, <2>2, MuxMore
<1>10. WaitInv'
    <2>1. \A b \in Accepters : accepter'[b].at = "waiting" => accepter'[b] = accepter[b]
        BY <1>b DEF SocketTypes, TableTypes, AccepterStates, WorkerStates, Idle
    <2>2. \A l \in Sockets : status[l] = "listening" /\ ~broken[l] =>
                                status'[l] = "listening" /\ ~broken'[l]
        BY <1>b, <1>c DEF SocketTypes, Idle
    <2>3. \A l \in Sockets : /\ queued'[l] \subseteq queued[l]
                           /\ Wakers(l) \subseteq Wakers(l)' /\ Lookers(l) \subseteq Lookers(l)'
        BY <1>a, <1>b DEF Wakers, Lookers, SocketTypes, TableTypes, AccepterStates, WorkerStates,
           Idle
    <2>4. QED
        BY <2>1, <2>2, <2>3, WaitFrame
<1>11. QED
    BY <1>1, <1>2, <1>3, <1>4, <1>5, <1>6, <1>7, <1>8, <1>9, <1>10 DEF LifeInv

\* ... or loses it, with the multiplexer it took.
LEMMA CreateConnectionLost ==
    ASSUME LifeInv, NEW m \in Sockets, NEW i \in Sockets, CreateConnection(m, i), place'[i] = "lost"
    PROVE  LifeInv'
<1> USE Finite, LifeAssumption DEF LifeInv, socketVars, workerVars, Running, LockFree, Idle
<1>a. PICK h \in Sockets, p \in Peers : worker[m] = [at |-> "create", sock |-> h, peer |-> p]
    <2>1. worker[m] \in WorkerStates /\ worker[m].at = "create"
        BY DEF TableTypes, CreateConnection
    <2>2. worker[m] \in [at : {"locate", "check", "create"}, sock : Sockets, peer : Peers]
        BY <2>1 DEF WorkerStates
    <2>3. /\ worker[m].sock \in Sockets /\ worker[m].peer \in Peers
          /\ worker[m] = [at |-> "create", sock |-> worker[m].sock, peer |-> worker[m].peer]
        BY <2>1, <2>2
    <2>4. QED
        BY <2>3
<1>b. /\ mux' = [mux EXCEPT ![i] = m] /\ refs' = [refs EXCEPT ![m] = @ + 1]
      /\ home' = [home EXCEPT ![i] = h] /\ peer' = [peer EXCEPT ![i] = p]
      /\ UNCHANGED <<broken, closing, queued, handed, listener, accepter, closer, gc, crashed>>
      /\ place' = [place EXCEPT ![i] = "lost"] /\ status' = [status EXCEPT ![i] = "closed"]
      /\ UNCHANGED <<onList, known>>
      /\ worker' = [worker EXCEPT ![m] = Idle]
    BY <1>a DEF SocketTypes, TakeMux, Register, CreateConnection
<1>c. /\ place[i] = "none" /\ status[i] = "init" /\ home[i] = 0 /\ mux[i] = 0 /\ known[i] = "no"
      /\ ~broken[i] /\ i # h /\ place[h] \in {"open", "closed"}
    BY <1>a DEF SocketInv, ListenerInv, Fresh, CreateConnection
<1>d. i \notin handed /\ \A j \in Sockets : i \notin queued[j]
    BY <1>c DEF CallInv, QueueInv, TableTypes
<1>1. SocketTypes'
    BY <1>a, <1>b, <1>c, <1>d DEF SocketTypes
<1>2. TableTypes'
    BY <1>a, <1>b, <1>c, <1>d DEF TableTypes, WorkerStates, AccepterStates
<1>3. SocketInv'
    BY <1>a, <1>b, <1>c, <1>d DEF SocketInv, SocketTypes
<1>4. CallInv'
    BY <1>a, <1>b, <1>c, <1>d DEF CallInv, Own, SocketTypes, TableTypes
<1>5. QueueInv'
    BY <1>a, <1>b, <1>c, <1>d DEF QueueInv, SocketTypes, TableTypes
<1>6. ListenerInv'
    <2>1. ASSUME NEW k \in Sockets, listener[k] # 0 PROVE place'[listener[k]] \in {"open", "closed"}
        BY <1>b, <1>c, <2>1 DEF ListenerInv, SocketTypes
    <2>2. ASSUME NEW k \in Sockets, worker'[k] # Idle
          PROVE  place'[worker'[k].sock] \in {"open", "closed", "deleted"}
        BY <1>a, <1>b, <1>c, <2>2 DEF ListenerInv, SocketTypes, TableTypes
    <2>3. QED
        BY <1>b, <2>1, <2>2 DEF ListenerInv
<1>7. NewInv'
    <2> SUFFICES ASSUME NEW k \in Sockets, worker'[k].at \in {"publish", "enqueue"},
                        NEW n, n = worker'[k].new
                 PROVE  /\ InHand(n)' /\ mux'[n] = k /\ home'[n] = worker'[k].sock
                        /\ place'[n] = (IF worker'[k].at = "publish" THEN "made" ELSE "open")
        BY DEF NewInv
    <2>1. CASE k = m
        BY <1>b, <2>1 DEF TableTypes
    <2>2. CASE k # m
        <3>1. worker'[k] = worker[k] /\ worker[k].at \in {"publish", "enqueue"} /\ n = worker[k].new
            BY <2>2, <1>b DEF TableTypes
        <3>2. worker[k] # Idle /\ n \in Sockets
            BY <3>1 DEF TableTypes, WorkerStates
        <3>3. /\ InHand(n) /\ mux[n] = k /\ home[n] = worker[k].sock
              /\ place[n] = (IF worker[k].at = "publish" THEN "made" ELSE "open")
            BY <3>1 DEF NewInv
        <3>4. n # i
            BY <1>c, <3>3
        <3>5. QED
            BY <1>b, <2>2, <3>1, <3>2, <3>3, <3>4 DEF InHand, SocketTypes
    <2>3. QED
        BY <2>1, <2>2
<1>8. CollectorInv'
    BY <1>a, <1>b, <1>c, <1>d DEF CollectorInv, SocketTypes, TableTypes
<1>9. MuxCounted'
    <2>1. i \notin Users(m) /\ Users(m)' = Users(m) \cup {i}
        BY <1>b, <1>c DEF Users, SocketTypes
    <2>2. \A k \in Sockets \ {m} : Users(k)' = Users(k)
        BY <1>b, <1>c DEF Users, SocketTypes
    <2>3. QED
        BY <1>b, <2>1, <2>2, MuxMore
<1>10. WaitInv'
    <2>1. \A b \in Accepters : accepter'[b].at = "waiting" => accepter'[b] = accepter[b]
        BY <1>b DEF SocketTypes, TableTypes, AccepterStates, WorkerStates, Idle
    <2>2. \A l \in Sockets : status[l] = "listening" /\ ~broken[l] =>
                                status'[l] = "listening" /\ ~broken'[l]
        BY <1>b, <1>c DEF SocketTypes, Idle
    <2>3. \A l \in Sockets : /\ queued'[l] \subseteq queued[l]
                           /\ Wakers(l) \subseteq Wakers(l)' /\ Lookers(l) \subseteq Lookers(l)'
        BY <1>a, <1>b DEF Wakers, Lookers, SocketTypes, TableTypes, AccepterStates, WorkerStates,
           Idle
    <2>4. QED
        BY <2>1, <2>2, <2>3, WaitFrame
<1>11. QED
    BY <1>1, <1>2, <1>3, <1>4, <1>5, <1>6, <1>7, <1>8, <1>9, <1>10 DEF LifeInv

\* The new socket becomes an open one.
LEMMA PublishConnectionKeeps ==
    ASSUME LifeInv, NEW m \in Sockets, PublishConnection(m)
    PROVE  LifeInv'
<1> USE Finite, LifeAssumption DEF LifeInv, socketVars, workerVars, Running, LockFree, Idle
<1>a. PICK l \in Sockets, i \in Sockets : worker[m] = [at |-> "publish", sock |-> l, new |-> i]
    BY DEF TableTypes, WorkerStates, PublishConnection
<1>b. /\ place' = [place EXCEPT ![i] = "open"] /\ worker' = [worker EXCEPT ![m].at = "enqueue"]
      /\ UNCHANGED <<status, broken, closing, mux, home, peer, onList, known, queued, handed, refs,
                     listener, accepter, closer, gc, crashed>>
    BY <1>a DEF PublishConnection
<1>c. InHand(i) /\ mux[i] = m /\ home[i] = l /\ place[i] = "made"
    BY <1>a DEF NewInv
<1>1. SocketTypes'
    BY <1>a, <1>b, <1>c DEF SocketTypes
<1>2. TableTypes'
    BY <1>a, <1>b, <1>c DEF TableTypes, WorkerStates, AccepterStates
<1>3. SocketInv'
    BY <1>a, <1>b, <1>c DEF SocketInv, SocketTypes
<1>4. CallInv'
    BY <1>a, <1>b, <1>c DEF CallInv, Own, SocketTypes, TableTypes
<1>5. QueueInv'
    BY <1>a, <1>b, <1>c DEF QueueInv, SocketTypes, TableTypes
<1>6. ListenerInv'
    BY <1>a, <1>b, <1>c DEF ListenerInv, SocketTypes, TableTypes
<1>7. NewInv'
    <2> SUFFICES ASSUME NEW k \in Sockets, worker'[k].at \in {"publish", "enqueue"},
                        NEW n, n = worker'[k].new
                 PROVE  /\ InHand(n)' /\ mux'[n] = k /\ home'[n] = worker'[k].sock
                        /\ place'[n] = (IF worker'[k].at = "publish" THEN "made" ELSE "open")
        BY DEF NewInv
    <2>1. CASE k = m
        BY <1>a, <1>b, <1>c, <2>1 DEF InHand, SocketTypes, TableTypes
    <2>2. CASE k # m
        <3>1. worker'[k] = worker[k] /\ worker[k].at \in {"publish", "enqueue"} /\ n = worker[k].new
            BY <2>2, <1>b DEF TableTypes
        <3>2. worker[k] # Idle /\ n \in Sockets
            BY <3>1 DEF TableTypes, WorkerStates
        <3>3. /\ InHand(n) /\ mux[n] = k /\ home[n] = worker[k].sock
              /\ place[n] = (IF worker[k].at = "publish" THEN "made" ELSE "open")
            BY <3>1 DEF NewInv
        <3>4. n # i
            BY <1>c, <2>2, <3>3
        <3>5. QED
            BY <1>b, <2>2, <3>1, <3>2, <3>3, <3>4 DEF InHand, SocketTypes
    <2>3. QED
        BY <2>1, <2>2
<1>8. CollectorInv'
    BY <1>a, <1>b, <1>c DEF CollectorInv, SocketTypes, TableTypes
<1>9. MuxCounted'
    <2>1. \A k \in Sockets : Users(k)' = Users(k)
        BY <1>b, <1>c DEF Users, SocketTypes
    <2>2. QED
        BY <1>b, <2>1, MuxFrame
<1>10. WaitInv'
    BY WaitFrame, <1>a, <1>b, <1>c DEF Wakers, Lookers, SocketTypes, TableTypes
<1>11. QED
    BY <1>1, <1>2, <1>3, <1>4, <1>5, <1>6, <1>7, <1>8, <1>9, <1>10 DEF LifeInv

\* It is queued.
LEMMA EnqueueConnectionKeeps ==
    ASSUME LifeInv, NEW m \in Sockets, EnqueueConnection(m)
    PROVE  LifeInv'
<1> USE Finite, LifeAssumption DEF LifeInv, socketVars, workerVars, Running, LockFree, Idle
<1>a. PICK l \in Sockets, i \in Sockets : worker[m] = [at |-> "enqueue", sock |-> l, new |-> i]
    <2>1. worker[m] \in WorkerStates /\ worker[m].at = "enqueue"
        BY DEF TableTypes, EnqueueConnection
    <2>2. worker[m] \in [at : {"publish", "enqueue"}, sock : Sockets, new : Sockets]
        BY <2>1 DEF WorkerStates
    <2>3. /\ worker[m].sock \in Sockets /\ worker[m].new \in Sockets
          /\ worker[m] = [at |-> "enqueue", sock |-> worker[m].sock, new |-> worker[m].new]
        BY <2>1, <2>2
    <2>4. QED
        BY <2>3
<1>b. /\ queued' = [queued EXCEPT ![l] = @ \cup {i}]
      /\ worker' = [worker EXCEPT ![m] = [at |-> "wake", sock |-> l]]
      /\ UNCHANGED <<place, status, broken, closing, mux, home, peer, onList, known, handed, refs,
                     listener, accepter, closer, gc, crashed>>
    BY <1>a DEF EnqueueConnection
<1>c. InHand(i) /\ mux[i] = m /\ home[i] = l /\ place[i] = "open" /\ place[l] \in {"open", "closed"}
    BY <1>a DEF NewInv, ListenerInv, EnqueueConnection
<1>1. SocketTypes'
    BY <1>a, <1>b, <1>c DEF SocketTypes
<1>2. TableTypes'
    BY <1>a, <1>b, <1>c DEF TableTypes, WorkerStates, AccepterStates
<1>3. SocketInv'
    BY <1>a, <1>b, <1>c DEF SocketInv, SocketTypes
<1>4. CallInv'
    BY <1>a, <1>b, <1>c DEF CallInv, Own, SocketTypes, TableTypes
<1>5. QueueInv'
    BY <1>b, <1>c DEF QueueInv, InHand, TableTypes
<1>6. ListenerInv'
    BY <1>a, <1>b, <1>c DEF ListenerInv, SocketTypes, TableTypes
<1>7. NewInv'
    <2> SUFFICES ASSUME NEW k \in Sockets, worker'[k].at \in {"publish", "enqueue"},
                        NEW n, n = worker'[k].new
                 PROVE  /\ InHand(n)' /\ mux'[n] = k /\ home'[n] = worker'[k].sock
                        /\ place'[n] = (IF worker'[k].at = "publish" THEN "made" ELSE "open")
        BY DEF NewInv
    <2>1. CASE k = m
        BY <1>b, <2>1 DEF TableTypes
    <2>2. CASE k # m
        <3>1. worker'[k] = worker[k] /\ worker[k].at \in {"publish", "enqueue"} /\ n = worker[k].new
            BY <2>2, <1>b DEF TableTypes
        <3>2. worker[k] # Idle /\ n \in Sockets
            BY <3>1 DEF TableTypes, WorkerStates
        <3>3. /\ InHand(n) /\ mux[n] = k /\ home[n] = worker[k].sock
              /\ place[n] = (IF worker[k].at = "publish" THEN "made" ELSE "open")
            BY <3>1 DEF NewInv
        <3>4. n # i
            BY <1>c, <2>2, <3>3
        <3>5. QED
            BY <1>b, <2>2, <3>1, <3>2, <3>3, <3>4 DEF InHand, TableTypes
    <2>3. QED
        BY <2>1, <2>2
<1>8. CollectorInv'
    BY <1>a, <1>b, <1>c DEF CollectorInv, SocketTypes, TableTypes
<1>9. MuxCounted'
    BY MuxFrame, <1>a, <1>b, <1>c DEF Users, SocketTypes
<1>10. WaitInv'
    <2>1. ASSUME NEW b \in Accepters, NEW k, accepter'[b].at = "waiting", k = accepter'[b].sock
          PROVE  /\ status'[k] = "listening" /\ ~broken'[k]
                 /\ Cardinality(queued'[k]) =< Cardinality(Wakers(k)') + Cardinality(Lookers(k)')
        <3>1. /\ k \in Sockets /\ status[k] = "listening" /\ ~broken[k]
              /\ Cardinality(queued[k]) =< Cardinality(Wakers(k)) + Cardinality(Lookers(k))
            BY <1>b, <2>1, WaitUse
        <3>2. Lookers(k)' = Lookers(k)
            BY <1>b DEF Lookers
        <3>3. CASE k = l
            <4>1. m \notin Wakers(k) /\ Wakers(k)' = Wakers(k) \cup {m}
                BY <1>a, <1>b, <3>3 DEF Wakers, TableTypes
            <4>2. i \notin queued[k] /\ queued'[k] = queued[k] \cup {i}
                BY <1>b, <1>c, <3>3 DEF InHand, TableTypes
            <4>3. /\ IsFiniteSet(queued[k]) /\ IsFiniteSet(Lookers(k)) /\ IsFiniteSet(Wakers(k))
                BY <3>1, WaitFinite
            <4>4. /\ Cardinality(Wakers(k)') = Cardinality(Wakers(k)) + 1
                  /\ Cardinality(queued'[k]) = Cardinality(queued[k]) + 1
                BY <4>1, <4>2, <4>3, FS_AddElement
            <4>5. /\ Cardinality(Lookers(k)) \in Nat /\ Cardinality(queued[k]) \in Nat
                  /\ Cardinality(Wakers(k)) \in Nat
                BY <4>3, FS_CardinalityType
            <4>6. QED
                BY <1>b, <3>1, <3>2, <4>4, <4>5
        <3>4. CASE k # l
            <4>1. Wakers(k)' = Wakers(k) /\ queued'[k] = queued[k]
                BY <1>a, <1>b, <3>1, <3>4 DEF Wakers, TableTypes
            <4>2. QED
                BY <1>b, <3>1, <3>2, <4>1
        <3>5. QED
            BY <3>3, <3>4
    <2>2. QED
        BY <2>1, WaitIntro
<1>11. QED
    BY <1>1, <1>2, <1>3, <1>4, <1>5, <1>6, <1>7, <1>8, <1>9, <1>10 DEF LifeInv

\* One accept() call is woken.
LEMMA WakeAccepterKeeps ==
    ASSUME LifeInv, NEW m \in Sockets, WakeAccepter(m)
    PROVE  LifeInv'
<1> USE Finite, LifeAssumption DEF LifeInv, socketVars, workerVars, Running, LockFree, Idle
<1>a. PICK l \in Sockets : worker[m] = [at |-> "wake", sock |-> l]
    BY DEF TableTypes, WorkerStates, WakeAccepter
<1>b. /\ worker' = [worker EXCEPT ![m] = Idle]
      /\ UNCHANGED <<place, status, broken, closing, mux, home, peer, onList, known, queued, handed,
                     refs, listener, closer, gc, crashed>>
    BY DEF WakeAccepter
<1>c. \/ /\ \A c \in Accepters : accepter[c] # [at |-> "waiting", sock |-> l]
         /\ UNCHANGED accepter
      \/ \E c \in Accepters : /\ accepter[c] = [at |-> "waiting", sock |-> l]
                              /\ accepter' = [accepter EXCEPT ![c] = [at |-> "look", sock |-> l]]
    BY <1>a DEF TableTypes, WakeAccepter
<1>1. SocketTypes'
    BY <1>a, <1>b, <1>c DEF SocketTypes
<1>2. TableTypes'
    BY <1>a, <1>b, <1>c DEF TableTypes, WorkerStates, AccepterStates
<1>3. SocketInv'
    BY <1>a, <1>b, <1>c DEF SocketInv, SocketTypes
<1>4. CallInv'
    BY <1>a, <1>b, <1>c DEF CallInv, Own, SocketTypes, TableTypes
<1>5. QueueInv'
    BY <1>a, <1>b, <1>c DEF QueueInv, SocketTypes, TableTypes
<1>6. ListenerInv'
    BY <1>a, <1>b, <1>c DEF ListenerInv, SocketTypes, TableTypes
<1>7. NewInv'
    BY <1>a, <1>b, <1>c DEF NewInv, InHand, SocketTypes, TableTypes
<1>8. CollectorInv'
    BY <1>a, <1>b, <1>c DEF CollectorInv, SocketTypes, TableTypes
<1>9. MuxCounted'
    BY MuxFrame, <1>a, <1>b, <1>c DEF Users, SocketTypes
<1>10. WaitInv'
    <2>1. ASSUME NEW b \in Accepters, NEW k, accepter'[b].at = "waiting", k = accepter'[b].sock
          PROVE  /\ status'[k] = "listening" /\ ~broken'[k]
                 /\ Cardinality(queued'[k]) =< Cardinality(Wakers(k)') + Cardinality(Lookers(k)')
        <3>1. accepter'[b] = accepter[b]
            BY <1>c, <2>1 DEF TableTypes
        <3>2. /\ k \in Sockets /\ accepter[b] = [at |-> "waiting", sock |-> k]
              /\ status[k] = "listening" /\ ~broken[k]
              /\ Cardinality(queued[k]) =< Cardinality(Wakers(k)) + Cardinality(Lookers(k))
            BY <2>1, <3>1, WaitUse
        <3>3. CASE k = l
            <4>1. PICK c \in Accepters : /\ accepter[c] = [at |-> "waiting", sock |-> l]
                                        /\ accepter' = [accepter EXCEPT ![c] = [at |-> "look", sock |-> l]]
                BY <1>c, <3>2, <3>3
            <4>2. c \notin Lookers(k) /\ Lookers(k)' = Lookers(k) \cup {c}
                BY <3>3, <4>1 DEF Lookers, TableTypes
            <4>3. m \in Wakers(k) /\ Wakers(k)' = Wakers(k) \ {m}
                BY <1>a, <1>b, <3>3 DEF Wakers, TableTypes
            <4>4. IsFiniteSet(Lookers(k)) /\ IsFiniteSet(Wakers(k))
                BY <3>2, WaitFinite
            <4>5. /\ Cardinality(Wakers(k)') = Cardinality(Wakers(k)) - 1
                  /\ Cardinality(Lookers(k)') = Cardinality(Lookers(k)) + 1
                <5>1. Cardinality(Wakers(k) \ {m}) = Cardinality(Wakers(k)) - 1
                    BY <4>3, <4>4, FS_RemoveElement
                <5>2. Cardinality(Lookers(k) \cup {c}) = Cardinality(Lookers(k)) + 1
                    BY <4>2, <4>4, FS_AddElement
                <5>3. QED
                    BY <4>2, <4>3, <5>1, <5>2
            <4>6. Cardinality(Lookers(k)) \in Nat /\ Cardinality(Wakers(k)) \in Nat
                BY <4>4, FS_CardinalityType
            <4>7. QED
                BY <1>b, <3>2, <4>5, <4>6
        <3>4. CASE k # l
            <4>1. Wakers(k)' = Wakers(k)
                BY <1>a, <1>b, <3>4 DEF Wakers, TableTypes
            <4>2. Lookers(k)' = Lookers(k)
                BY <1>c, <3>4 DEF Lookers, TableTypes
            <4>3. QED
                BY <1>b, <3>2, <4>1, <4>2
        <3>5. QED
            BY <3>3, <3>4
    <2>2. QED
        BY <2>1, WaitIntro
<1>11. QED
    BY <1>1, <1>2, <1>3, <1>4, <1>5, <1>6, <1>7, <1>8, <1>9, <1>10 DEF LifeInv

\* The worker uses a listener that is deleted.
LEMMA WorkerCrashKeeps ==
    ASSUME LifeInv, NEW m \in Sockets, WorkerCrash(m)
    PROVE  LifeInv'
<1> USE Finite, LifeAssumption DEF LifeInv, socketVars, workerVars, Running, LockFree, Idle
<1>1. SocketTypes'
    BY DEF SocketTypes, WorkerCrash
<1>2. TableTypes'
    BY DEF TableTypes, WorkerStates, AccepterStates, WorkerCrash
<1>3. SocketInv'
    BY DEF SocketInv, SocketTypes, WorkerCrash
<1>4. CallInv'
    BY DEF CallInv, Own, SocketTypes, TableTypes, WorkerCrash
<1>5. QueueInv'
    BY DEF QueueInv, SocketTypes, TableTypes, WorkerCrash
<1>6. ListenerInv'
    BY DEF ListenerInv, SocketTypes, TableTypes, WorkerCrash
<1>7. NewInv'
    BY DEF NewInv, InHand, SocketTypes, TableTypes, WorkerCrash
<1>8. CollectorInv'
    BY DEF CollectorInv, SocketTypes, TableTypes, WorkerCrash
<1>9. MuxCounted'
    BY MuxFrame DEF Users, SocketTypes, WorkerCrash
<1>10. WaitInv'
    BY WaitFrame DEF Wakers, Lookers, SocketTypes, TableTypes, WorkerCrash
<1>11. QED
    BY <1>1, <1>2, <1>3, <1>4, <1>5, <1>6, <1>7, <1>8, <1>9, <1>10 DEF LifeInv

\* The worker lists a new entry.
LEMMA TakeEntryKeeps ==
    ASSUME LifeInv, NEW i \in Sockets, TakeEntry(i)
    PROVE  LifeInv'
<1> USE Finite, LifeAssumption DEF LifeInv, socketVars, workerVars, Running, LockFree, Idle
<1>1. SocketTypes'
    BY DEF SocketTypes, TakeEntry
<1>2. TableTypes'
    BY DEF TableTypes, WorkerStates, AccepterStates, TakeEntry
<1>3. SocketInv'
    BY DEF SocketInv, SocketTypes, TakeEntry
<1>4. CallInv'
    BY DEF CallInv, Own, SocketTypes, TableTypes, TakeEntry
<1>5. QueueInv'
    BY DEF QueueInv, SocketTypes, TableTypes, TakeEntry
<1>6. ListenerInv'
    BY DEF ListenerInv, SocketTypes, TableTypes, TakeEntry
<1>7. NewInv'
    BY DEF NewInv, InHand, SocketTypes, TableTypes, TakeEntry
<1>8. CollectorInv'
    BY DEF CollectorInv, SocketTypes, TableTypes, TakeEntry
<1>9. MuxCounted'
    BY MuxFrame DEF Users, SocketTypes, TakeEntry
<1>10. WaitInv'
    BY WaitFrame DEF Wakers, Lookers, SocketTypes, TableTypes, TakeEntry
<1>11. QED
    BY <1>1, <1>2, <1>3, <1>4, <1>5, <1>6, <1>7, <1>8, <1>9, <1>10 DEF LifeInv

\* A connection breaks.
LEMMA PeerBreaksKeeps ==
    ASSUME LifeInv, NEW i \in Sockets, PeerBreaks(i)
    PROVE  LifeInv'
<1> USE Finite, LifeAssumption DEF LifeInv, socketVars, workerVars, Running, LockFree, Idle
<1>1. SocketTypes'
    BY DEF SocketTypes, PeerBreaks
<1>2. TableTypes'
    BY DEF TableTypes, WorkerStates, AccepterStates, PeerBreaks
<1>3. SocketInv'
    BY DEF SocketInv, SocketTypes, PeerBreaks
<1>4. CallInv'
    BY DEF CallInv, Own, SocketTypes, TableTypes, PeerBreaks
<1>5. QueueInv'
    BY DEF QueueInv, SocketTypes, TableTypes, PeerBreaks
<1>6. ListenerInv'
    BY DEF ListenerInv, SocketTypes, TableTypes, PeerBreaks
<1>7. NewInv'
    BY DEF NewInv, InHand, SocketTypes, TableTypes, PeerBreaks
<1>8. CollectorInv'
    BY DEF CollectorInv, SocketTypes, TableTypes, PeerBreaks
<1>9. MuxCounted'
    BY MuxFrame DEF Users, SocketTypes, PeerBreaks
<1>10. WaitInv'
    <2>1. \A b \in Accepters : accepter'[b].at = "waiting" => accepter'[b] = accepter[b]
        BY DEF SocketTypes, TableTypes, AccepterStates, WorkerStates, PeerBreaks
    <2>2. \A l \in Sockets : status[l] = "listening" /\ ~broken[l] =>
                                status'[l] = "listening" /\ ~broken'[l]
        BY DEF SocketTypes, SocketInv, PeerBreaks
    <2>3. \A l \in Sockets : /\ queued'[l] \subseteq queued[l]
                           /\ Wakers(l) \subseteq Wakers(l)' /\ Lookers(l) \subseteq Lookers(l)'
        BY DEF Wakers, Lookers, SocketTypes, TableTypes, AccepterStates, WorkerStates, PeerBreaks
    <2>4. QED
        BY <2>1, <2>2, <2>3, WaitFrame
<1>11. QED
    BY <1>1, <1>2, <1>3, <1>4, <1>5, <1>6, <1>7, <1>8, <1>9, <1>10 DEF LifeInv

\* The worker drops a socket.
LEMMA DropEndedKeeps ==
    ASSUME LifeInv, NEW i \in Sockets, DropEnded(i)
    PROVE  LifeInv'
<1> USE Finite, LifeAssumption DEF LifeInv, socketVars, workerVars, Running, LockFree, Idle
<1>1. SocketTypes'
    BY DEF SocketTypes, DropEnded
<1>2. TableTypes'
    BY DEF TableTypes, WorkerStates, AccepterStates, DropEnded
<1>3. SocketInv'
    BY DEF SocketInv, SocketTypes, DropEnded
<1>4. CallInv'
    BY DEF CallInv, Own, SocketTypes, TableTypes, DropEnded
<1>5. QueueInv'
    BY DEF QueueInv, SocketTypes, TableTypes, DropEnded
<1>6. ListenerInv'
    BY DEF ListenerInv, SocketTypes, TableTypes, DropEnded
<1>7. NewInv'
    BY DEF NewInv, InHand, SocketTypes, TableTypes, DropEnded
<1>8. CollectorInv'
    BY DEF CollectorInv, SocketTypes, TableTypes, DropEnded
<1>9. MuxCounted'
    BY MuxFrame DEF Users, SocketTypes, DropEnded
<1>10. WaitInv'
    BY WaitFrame DEF Wakers, Lookers, SocketTypes, TableTypes, DropEnded
<1>11. QED
    BY <1>1, <1>2, <1>3, <1>4, <1>5, <1>6, <1>7, <1>8, <1>9, <1>10 DEF LifeInv

\* The collector finds a broken socket.
LEMMA CollectBrokenKeeps ==
    ASSUME LifeInv, NEW i \in Sockets, CollectBroken(i)
    PROVE  LifeInv'
<1> USE Finite, LifeAssumption DEF LifeInv, socketVars, workerVars, Running, LockFree, Idle
<1>1. SocketTypes'
    BY DEF SocketTypes, CollectBroken
<1>2. TableTypes'
    BY DEF TableTypes, WorkerStates, AccepterStates, CollectBroken
<1>3. SocketInv'
    BY DEF SocketInv, SocketTypes, CollectBroken
<1>4. CallInv'
    BY DEF CallInv, Own, SocketTypes, TableTypes, CollectBroken
<1>5. QueueInv'
    BY DEF QueueInv, SocketTypes, TableTypes, CollectBroken
<1>6. ListenerInv'
    BY DEF ListenerInv, SocketTypes, TableTypes, CollectBroken
<1>7. NewInv'
    BY DEF NewInv, InHand, SocketTypes, TableTypes, CollectBroken
<1>8. CollectorInv'
    BY DEF CollectorInv, SocketTypes, TableTypes, CollectBroken
<1>9. MuxCounted'
    BY MuxFrame DEF Users, SocketTypes, CollectBroken
<1>10. WaitInv'
    BY WaitFrame DEF Wakers, Lookers, SocketTypes, TableTypes, CollectBroken
<1>11. QED
    BY <1>1, <1>2, <1>3, <1>4, <1>5, <1>6, <1>7, <1>8, <1>9, <1>10 DEF LifeInv

\* It takes it out of its listener's queue.
LEMMA DequeueBrokenKeeps ==
    ASSUME LifeInv, DequeueBroken
    PROVE  LifeInv'
<1> USE Finite, LifeAssumption DEF LifeInv, socketVars, workerVars, Running, LockFree, Idle
<1>1. SocketTypes'
    BY DEF SocketTypes, DequeueBroken
<1>2. TableTypes'
    BY DEF TableTypes, WorkerStates, AccepterStates, DequeueBroken
<1>3. SocketInv'
    BY DEF SocketInv, SocketTypes, DequeueBroken
<1>4. CallInv'
    BY DEF CallInv, Own, SocketTypes, TableTypes, DequeueBroken
<1>5. QueueInv'
    BY DEF QueueInv, SocketTypes, TableTypes, DequeueBroken
<1>6. ListenerInv'
    BY DEF ListenerInv, SocketTypes, TableTypes, DequeueBroken
<1>7. NewInv'
    <2>1. ASSUME NEW n \in Sockets, InHand(n)
          PROVE  /\ mux'[n] = mux[n] /\ home'[n] = home[n] /\ place'[n] = place[n]
                 /\ status'[n] = "connected" /\ known'[n] = "entry" /\ ~broken'[n]
                 /\ n \notin handed' /\ \A l \in Sockets : n \notin queued'[l]
        BY <2>1
           DEF InHand, SocketInv, CallInv, Own, QueueInv, CollectorInv, SocketTypes, TableTypes,
           DequeueBroken
    <2>2. \A k \in Sockets : worker'[k].at \in {"publish", "enqueue"} => worker'[k] = worker[k]
        BY DEF TableTypes, WorkerStates, DequeueBroken
    <2>3. QED
        BY <2>1, <2>2, NewFrame
<1>8. CollectorInv'
    BY DEF CollectorInv, SocketTypes, TableTypes, DequeueBroken
<1>9. MuxCounted'
    <2>1. \A k \in Sockets : Users(k)' = Users(k)
        BY DEF Users, SocketInv, SocketTypes, CollectorInv, TableTypes, DequeueBroken
    <2>2. QED
        BY <2>1, MuxFrame DEF CollectorInv, TableTypes, DequeueBroken
<1>10. WaitInv'
    BY WaitFrame DEF Wakers, Lookers, SocketTypes, TableTypes, DequeueBroken
<1>11. QED
    BY <1>1, <1>2, <1>3, <1>4, <1>5, <1>6, <1>7, <1>8, <1>9, <1>10 DEF LifeInv

\* It deletes a closed socket, and closes the connections in its queue.
LEMMA RemoveClosedKeeps ==
    ASSUME LifeInv, NEW i \in Sockets, RemoveClosed(i)
    PROVE  LifeInv'
<1> USE Finite, LifeAssumption DEF LifeInv, socketVars, workerVars, Running, LockFree, Idle
<1>a. /\ place[i] = "closed" /\ known[i] = "no" /\ i \notin closer /\ gc = Idle
      /\ \A q \in queued[i] : home[q] = i /\ place[q] = "open" /\ q \notin handed /\ q # i
    BY DEF SocketInv, QueueInv, NobodyInside, RemoveClosed
<1>b. MuxCounted' /\ refs' \in [Sockets -> Nat]
    <2>1. refs' = [n \in Sockets |-> IF n = mux[i] THEN refs[n] - 1 ELSE refs[n]]
        BY DEF RemoveClosed
    <2>2. \A j \in Sockets : mux'[j] = (IF j = i THEN 0 ELSE mux[j])
        BY DEF SocketTypes, RemoveClosed
    <2>3. \A j \in Sockets : j # i => (place'[j] \in {"none", "deleted"} <=> place[j] \in {"none", "deleted"})
        BY <1>a DEF Orphans, RemoveClosed
    <2>4. \A k \in Sockets : Users(k)' = Users(k) \ {i}
        BY <2>2, <2>3 DEF Users
    <2>5. CASE mux[i] = 0
        <3>1. refs' = refs
            BY <2>1, <2>5 DEF TableTypes
        <3>2. \A k \in Sockets : i \notin Users(k)
            BY <2>5 DEF Users
        <3>3. \A k \in Sockets : Users(k)' = Users(k)
            BY <2>4, <3>2
        <3>4. QED
            BY <3>1, <3>3, MuxFrame DEF TableTypes
    <2>6. CASE mux[i] # 0
        <3>1. mux[i] \in Sockets
            BY <2>6 DEF SocketTypes, Sockets
        <3>2. PICK m \in Sockets : m = mux[i]
            BY <3>1
        <3>3. i \in Users(m) /\ \A k \in Sockets \ {m} : i \notin Users(k)
            BY <1>a, <3>2 DEF Users
        <3>4. refs' = [n \in Sockets |-> IF n = m THEN refs[n] - 1 ELSE refs[n]]
            BY <2>1, <3>2
        <3>5. MuxCounted' /\ refs[m] - 1 \in Nat
            BY <2>4, <3>3, <3>4, MuxLess
        <3>6. QED
            BY <3>4, <3>5 DEF TableTypes
    <2>7. QED
        BY <2>5, <2>6
<1>1. SocketTypes'
    BY DEF SocketTypes, Orphans, NobodyInside, RemoveClosed
<1>2. TableTypes'
    <2>1. crashed' \in BOOLEAN
        BY Zenon DEF RemoveClosed
    <2>2. queued' \in [Sockets -> SUBSET Sockets] /\ handed' \in SUBSET Sockets
        BY DEF TableTypes, RemoveClosed
    <2>3. listener' \in [Sockets -> 0 .. MaxSockets]
        BY DEF TableTypes, RemoveClosed
    <2>4. gc' \in {Idle} \cup [at : {"dequeue", "join"}, sock : Sockets]
        BY DEF SocketTypes, Sockets, RemoveClosed
    <2>5. QED
        BY <1>b, <2>1, <2>2, <2>3, <2>4 DEF TableTypes, RemoveClosed
<1>3. SocketInv'
    BY DEF SocketInv, SocketTypes, Orphans, NobodyInside, RemoveClosed
<1>4. CallInv'
    BY DEF CallInv, Own, SocketTypes, TableTypes, Orphans, NobodyInside, RemoveClosed
<1>5. QueueInv'
    BY DEF QueueInv, SocketTypes, TableTypes, Orphans, NobodyInside, RemoveClosed
<1>6. ListenerInv'
    <2>1. \A j \in Sockets : j # i /\ place[j] \in {"open", "closed"} => place'[j] \in {"open", "closed"}
        BY DEF RemoveClosed
    <2>2. \A j \in Sockets : place[j] \in {"open", "closed", "deleted"} =>
                                place'[j] \in {"open", "closed", "deleted"}
        BY DEF RemoveClosed
    <2>3. ASSUME NEW k \in Sockets, NEW j, j = listener'[k], j # 0 PROVE place'[j] \in {"open", "closed"}
        <3>1. j = listener[k] /\ j # i
            BY <2>3 DEF RemoveClosed
        <3>2. j \in 0 .. MaxSockets
            BY <3>1 DEF TableTypes
        <3>3. j \in Sockets /\ place[j] \in {"open", "closed"}
            BY <2>3, <3>1, <3>2 DEF ListenerInv, Sockets
        <3>4. QED
            BY <2>1, <3>1, <3>3
    <2>4. ASSUME NEW k \in Sockets, worker[k] # Idle, NEW j, j = worker[k].sock
          PROVE  place'[j] \in {"open", "closed", "deleted"}
        <3>1. j \in Sockets
            BY <2>4 DEF TableTypes, WorkerStates
        <3>2. QED
            BY <2>2, <2>4, <3>1 DEF ListenerInv
    <2>5. worker' = worker
        BY DEF RemoveClosed
    <2>6. QED
        BY <2>3, <2>4, <2>5 DEF ListenerInv
<1>7. NewInv'
    <2>1. ASSUME NEW n \in Sockets, InHand(n)
          PROVE  /\ mux'[n] = mux[n] /\ home'[n] = home[n] /\ place'[n] = place[n]
                 /\ status'[n] = "connected" /\ known'[n] = "entry" /\ ~broken'[n]
                 /\ n \notin handed' /\ \A l \in Sockets : n \notin queued'[l]
        BY <2>1, <1>a
           DEF InHand, SocketInv, CallInv, Own, QueueInv, CollectorInv, SocketTypes, TableTypes,
           Orphans, RemoveClosed
    <2>2. \A k \in Sockets : worker'[k].at \in {"publish", "enqueue"} => worker'[k] = worker[k]
        BY <1>a DEF TableTypes, WorkerStates, Orphans, RemoveClosed
    <2>3. QED
        BY <2>1, <2>2, NewFrame
<1>8. CollectorInv'
    BY DEF CollectorInv, SocketTypes, TableTypes, Orphans, NobodyInside, RemoveClosed
<1>9. MuxCounted'
    BY <1>b
<1>10. WaitInv'
    <2>1. \A b \in Accepters : accepter'[b].at = "waiting" => accepter'[b] = accepter[b]
        BY DEF SocketTypes, TableTypes, AccepterStates, WorkerStates, RemoveClosed
    <2>2. \A l \in Sockets : status[l] = "listening" /\ ~broken[l] =>
                                status'[l] = "listening" /\ ~broken'[l]
        BY <1>a DEF SocketTypes, SocketInv, Orphans, RemoveClosed
    <2>3. \A l \in Sockets : /\ queued'[l] \subseteq queued[l]
                           /\ Wakers(l) \subseteq Wakers(l)' /\ Lookers(l) \subseteq Lookers(l)'
        BY DEF Wakers, Lookers, SocketTypes, TableTypes, AccepterStates, WorkerStates,
           RemoveClosed
    <2>4. QED
        BY <2>1, <2>2, <2>3, WaitFrame
<1>11. QED
    BY <1>1, <1>2, <1>3, <1>4, <1>5, <1>6, <1>7, <1>8, <1>9, <1>10 DEF LifeInv

\* It has waited for a worker.
LEMMA JoinWorkerKeeps ==
    ASSUME LifeInv, JoinWorker
    PROVE  LifeInv'
<1> USE Finite, LifeAssumption DEF LifeInv, socketVars, workerVars, Running, LockFree, Idle
<1>1. SocketTypes'
    BY DEF SocketTypes, JoinWorker
<1>2. TableTypes'
    BY DEF TableTypes, WorkerStates, AccepterStates, JoinWorker
<1>3. SocketInv'
    BY DEF SocketInv, SocketTypes, JoinWorker
<1>4. CallInv'
    BY DEF CallInv, Own, SocketTypes, TableTypes, JoinWorker
<1>5. QueueInv'
    BY DEF QueueInv, SocketTypes, TableTypes, JoinWorker
<1>6. ListenerInv'
    BY DEF ListenerInv, SocketTypes, TableTypes, JoinWorker
<1>7. NewInv'
    BY DEF NewInv, InHand, SocketTypes, TableTypes, JoinWorker
<1>8. CollectorInv'
    BY DEF CollectorInv, SocketTypes, TableTypes, JoinWorker
<1>9. MuxCounted'
    BY MuxFrame DEF Users, SocketTypes, JoinWorker
<1>10. WaitInv'
    BY WaitFrame DEF Wakers, Lookers, SocketTypes, TableTypes, JoinWorker
<1>11. QED
    BY <1>1, <1>2, <1>3, <1>4, <1>5, <1>6, <1>7, <1>8, <1>9, <1>10 DEF LifeInv

-----------------------------------------------------------------------------
\* The invariant holds in every reachable state, whatever the number of sockets, peers
\* and accept() calls and however long the queues of listeners may get.
THEOREM LifeInvariant == Spec => []LifeInv
<1>1. Init => LifeInv
    BY Initially
<1>2. LifeInv /\ [Next]_vars => LifeInv'
    <2> SUFFICES ASSUME LifeInv, [Next]_vars PROVE LifeInv'
        OBVIOUS
    <2>1. ASSUME NEW i \in Sockets,
                 NewSocket(i) \/ Listen(i) \/ Connect(i) \/ CloseListener(i) \/ Close(i)
          PROVE  LifeInv'
        BY <2>1, NewSocketKeeps, ListenKeeps, ConnectKeeps, CloseListenerKeeps, CloseKeeps
    <2>2. ASSUME NEW i \in Sockets, NEW m \in Sockets, Bind(i, m) PROVE LifeInv'
        BY <2>2, BindKeeps
    <2>3. ASSUME NEW i \in Sockets, CloseMove(i) PROVE LifeInv'
        BY <2>3, CloseMoveFound, CloseMoveLate
    <2>4. ASSUME NEW a \in Accepters, NEW i \in Sockets, AcceptCall(a, i) PROVE LifeInv'
        BY <2>4, AcceptCallKeeps
    <2>5. ASSUME NEW a \in Accepters, AcceptStep(a) PROVE LifeInv'
        <3>1. CASE AcceptLook(a)
            <4>1. accepter[a] \in AccepterStates /\ accepter[a].at = "look"
                BY <3>1 DEF LifeInv, TableTypes, AcceptLook
            <4>2. PICK i \in Sockets : accepter[a] = [at |-> "look", sock |-> i]
                BY <4>1 DEF AccepterStates, Idle
            <4>3. QED
                BY <3>1, <4>2, AcceptFails, AcceptWaits, AcceptTakes
        <3>2. CASE AcceptAddress(a)
            BY <3>2, AcceptAddressKeeps
        <3>3. QED
            BY <2>5, <3>1, <3>2 DEF AcceptStep
    <2>6. ASSUME NEW m \in Sockets, NEW p \in Peers, ListenCalled(m, p) PROVE LifeInv'
        BY <2>6, ListenCalledKeeps
    <2>7. ASSUME NEW m \in Sockets, RequestStep(m) PROVE LifeInv'
        <3>1. ASSUME NEW i \in Sockets, CreateConnection(m, i) PROVE LifeInv'
            <4>1. place'[i] = "made" \/ place'[i] = "lost"
                BY <3>1 DEF CreateConnection, LifeInv, SocketTypes
            <4>2. QED
                BY <3>1, <4>1, CreateConnectionMade, CreateConnectionLost
        <3>2. QED
            BY <2>7, <3>1, LocateListenerKeeps, CheckPeerKeeps, RefuseConnectionKeeps,
               PublishConnectionKeeps, EnqueueConnectionKeeps, WakeAccepterKeeps, WorkerCrashKeeps
               DEF RequestStep
    <2>8. ASSUME NEW i \in Sockets, TakeEntry(i) \/ PeerBreaks(i) \/ DropEnded(i) PROVE LifeInv'
        BY <2>8, TakeEntryKeeps, PeerBreaksKeeps, DropEndedKeeps
    <2>9. CASE CollectorStep
        BY <2>9, CollectBrokenKeeps, RemoveClosedKeeps, DequeueBrokenKeeps, JoinWorkerKeeps
           DEF CollectorStep
    <2>10. CASE UNCHANGED vars
        BY <2>10 DEF vars, socketVars, workerVars, LifeInv, SocketTypes, TableTypes, SocketInv,
           CallInv, Own, QueueInv, ListenerInv, NewInv, InHand, CollectorInv, MuxCounted, WaitInv,
           Waits, Wakers, Lookers
    <2>11. CASE Finished
        BY <2>10, <2>11 DEF Finished
    <2>12. QED
        BY <2>1, <2>2, <2>3, <2>4, <2>5, <2>6, <2>7, <2>8, <2>9, <2>10, <2>11 DEF Next
<1>3. QED
    BY <1>1, <1>2, PTL DEF Spec

\* Every variable stays in its type: in particular no multiplexer ever counts below 0 or
\* more sockets than there are.
THEOREM TypesAlways == Spec => []TypeOK
    BY LifeInvariant, Implied, PTL

\* Whatever still leads to a socket or a multiplexer leads to one that is there: the
\* queues of listeners, the counts of multiplexers, the workers' lists.
THEOREM NothingDanglesAlways == Spec => []NothingDangles
    BY LifeInvariant, Implied, PTL

\* An accept() call waits only while its listener is open, and only while its queue is
\* empty or somebody is about to look into it.
THEOREM AcceptWokenAlways == Spec => []AcceptWoken
    BY LifeInvariant, Implied, PTL
===============================================================================
