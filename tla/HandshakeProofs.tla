--------------------------- MODULE HandshakeProofs ---------------------------
(***************************************************************************)
(* Proofs about setting up a connection, for any number of calls, of       *)
(* connections and of packets kept, blocking or not.                       *)
(*                                                                         *)
(* That a successful connect() agrees with the listener is not inductive:  *)
(* the socket it names was named by an answer, which may have arrived long *)
(* before it was used, so the invariant follows the answer from the packet *)
(* (NetInv) to m_ConnRes (AnswerInv) and to m_PeerID (CallInv).            *)
(***************************************************************************)
EXTENDS Handshake, SequenceTheorems, TLAPS

Connections == [isn : 1 .. calls, state : {"live", "over"}]

\* The socket id was created by the listener for the call isn.
MadeFor(id, isn) == id \in DOMAIN conns /\ conns[id].isn = isn

\* A request is one of the client's; an acceptance names a socket made for the call it
\* answers, however late it arrives.
NetInv ==
    \A p \in net : /\ p.kind = "request" => p.isn \in 1 .. calls
                   /\ p.kind = "answer" => p.type \in {"cookie", "accept", "reject"}
                   /\ p.kind = "answer" /\ p.type = "accept" => MadeFor(p.id, p.isn)

\* The listener has one socket for a call that is not over.
ConnsInv ==
    /\ conns \in Seq(Connections)
    /\ OneConnection

\* What m_ConnRes holds came from the listener, and is not replaced while it is used.
AnswerInv ==
    /\ res.type \in {"none", "cookie", "accept", "reject"}
    /\ res.type = "accept" => MadeFor(res.id, res.isn)
    /\ res.type # "accept" => res.id = 0
    /\ post # "none" => res.type \in {"accept", "reject"}
    /\ post \in {"flag", "complete"} => peer = res.id

\* A call that waits is that of a blocking socket, which is not closed meanwhile, and
\* only POST_CONNECT makes it connected.
CallInv ==
    /\ callPc = "wait" => /\ blocking /\ result = "none" /\ closePc = "out" /\ calls > 0
                          /\ post # "complete" => ~ connected
    /\ callPc = "out" /\ blocking => post = "none"
    /\ result = "ok" => callPc = "out" /\ blocking
    /\ SuccessAgrees

\* Types of the client's variables.
ClientTypes ==
    /\ status \in {"OPENED", "CONNECTING", "CONNECTED", "CLOSED"}
    /\ listed \in {"no", "new", "yes"}
    /\ req.type \in {"ask", "confirm"} /\ req = [type |-> req.type, cookie |-> req.cookie]
    /\ calls \in 0 .. MaxCalls /\ late \subseteq 1 .. calls
    /\ callPc \in {"out", "wait"} /\ result \in {"none", "started", "ok", "error"}
    /\ post \in {"none", "remove", "flag", "complete"}
    /\ closePc \in {"out", "connector", "disconnect", "move", "closed"}
    /\ minute \in 0 .. MaxMinute /\ peer \in 0 .. Len(conns)

\* The flags are Boolean, and the mode does not change.
FlagTypes ==
    /\ blocking \in Modes /\ closing \in BOOLEAN /\ connecting \in BOOLEAN
    /\ connected \in BOOLEAN /\ gone \in BOOLEAN /\ thrown \in BOOLEAN

\* The queue of connecting sockets and the packets kept for a call.
QueueTypes ==
    /\ entries \in Seq(1 .. calls)
    /\ \A i, j \in DOMAIN entries : i < j => entries[i] < entries[j]
    /\ stored \in Seq(FromServer) /\ Len(stored) =< MaxStored

\* The inductive invariant.
ShakeInv ==
    /\ ClientTypes
    /\ FlagTypes
    /\ QueueTypes
    /\ NetInv
    /\ ConnsInv
    /\ AnswerInv
    /\ CallInv

-----------------------------------------------------------------------------
\* It says all that the properties do.
LEMMA Implied == ShakeInv => TypeOK /\ OneConnection /\ SuccessAgrees
<1> SUFFICES ASSUME ShakeInv PROVE TypeOK /\ OneConnection /\ SuccessAgrees
    OBVIOUS
<1>1. \A i \in DOMAIN conns : conns[i] \in Connections
    BY DEF ShakeInv, ConnsInv
<1>2. {closing, connecting, connected, gone, thrown} \subseteq BOOLEAN
    BY Zenon DEF ShakeInv, FlagTypes
<1>3. TypeOK
    BY <1>1, <1>2 DEF ShakeInv, ClientTypes, FlagTypes, QueueTypes, AnswerInv, Connections, TypeOK
<1>4. QED
    BY <1>3 DEF ShakeInv, ConnsInv, CallInv

\* It holds before the first call.
LEMMA Initially == Init => ShakeInv
<1> SUFFICES ASSUME Init PROVE ShakeInv
    OBVIOUS
<1> USE HandshakeAssumption DEF Init
<1>1. ClientTypes /\ QueueTypes
    <2>1. blocking \in Modes /\ late \subseteq 1 .. calls /\ calls \in 0 .. MaxCalls
        OBVIOUS
    <2>2. entries \in Seq(1 .. calls) /\ stored \in Seq(FromServer)
        OBVIOUS
    <2>3. Len(stored) = 0 /\ DOMAIN entries = {} /\ Len(conns) = 0
        OBVIOUS
    <2>4. QED
        BY <2>1, <2>2, <2>3 DEF ClientTypes, QueueTypes
<1>flags. FlagTypes
    BY Zenon DEF FlagTypes
<1>2. NetInv /\ ConnsInv /\ AnswerInv
    BY DEF NetInv, ConnsInv, OneConnection, AnswerInv
<1>3. CallInv
    BY DEF CallInv, SuccessAgrees
<1>4. QED
    BY <1>1, <1>2, <1>3, <1>flags DEF ShakeInv

\* Taking the first entry away leaves an increasing sequence.
LEMMA ShorterQueue ==
    ASSUME NEW n \in Nat, NEW e \in Seq(1 .. n),
           \A i, j \in DOMAIN e : i < j => e[i] < e[j]
    PROVE  LET f == SubSeq(e, 2, Len(e))
           IN  f \in Seq(1 .. n) /\ \A i, j \in DOMAIN f : i < j => f[i] < f[j]
<1> DEFINE f == SubSeq(e, 2, Len(e))
<1>1. f \in Seq(1 .. n) /\ Len(f) = (IF 2 =< Len(e) THEN Len(e) - 1 ELSE 0)
    BY SubSeqProperties
<1>2. \A i \in 1 .. Len(f) : f[i] = e[i + 1]
    BY SubSeqProperties
<1>3. ASSUME NEW i \in DOMAIN f, NEW j \in DOMAIN f, i < j PROVE f[i] < f[j]
    <2>1. i \in Nat /\ j \in Nat /\ i + 1 \in DOMAIN e /\ j + 1 \in DOMAIN e
        BY <1>1, LenProperties
    <2>2. QED
        BY <2>1, <1>1, <1>2, <1>3
<1>4. QED
    BY <1>1, <1>3

\* So does an entry for a call that is later than all others.
LEMMA LongerQueue ==
    ASSUME NEW n \in Nat, NEW e \in Seq(1 .. n),
           \A i, j \in DOMAIN e : i < j => e[i] < e[j]
    PROVE  LET f == Append(e, n + 1)
           IN  f \in Seq(1 .. n + 1) /\ \A i, j \in DOMAIN f : i < j => f[i] < f[j]
<1> DEFINE f == Append(e, n + 1)
<1>1. e \in Seq(1 .. n + 1)
    OBVIOUS
<1>2. f \in Seq(1 .. n + 1) /\ DOMAIN f = 1 .. Len(e) + 1
    BY <1>1
<1>3. \A i \in 1 .. Len(e) : f[i] = e[i] /\ e[i] < n + 1
    BY <1>1
<1>4. f[Len(e) + 1] = n + 1
    BY <1>1
<1>5. ASSUME NEW i \in DOMAIN f, NEW j \in DOMAIN f, i < j PROVE f[i] < f[j]
    <2>1. i \in 1 .. Len(e) /\ i \in DOMAIN e
        BY <1>2, <1>5
    <2>2. CASE j = Len(e) + 1
        BY <2>1, <2>2, <1>3, <1>4
    <2>3. CASE j # Len(e) + 1
        <3>1. j \in 1 .. Len(e) /\ j \in DOMAIN e
            BY <1>2, <2>3
        <3>2. QED
            BY <2>1, <3>1, <1>3, <1>5
    <2>4. QED
        BY <2>2, <2>3
<1>6. QED
    BY <1>2, <1>5

\* A queue that is not empty has an entry of a call, so there was one.
LEMMA EntriesOfCalls == ShakeInv /\ entries # <<>> => calls > 0
<1>1. ASSUME ShakeInv, entries # <<>> PROVE calls > 0
    <2>1. Len(entries) > 0 /\ entries[1] \in 1 .. calls /\ calls \in Nat
        BY <1>1, HandshakeAssumption DEF ShakeInv, QueueTypes, ClientTypes
    <2>2. QED
        BY <2>1
<1>2. QED
    BY <1>1

\* A call of connect(): a new sequence number, and an entry for it.
LEMMA ConnectKeeps == ShakeInv /\ Connect /\ UNCHANGED blocking => ShakeInv'
<1> SUFFICES ASSUME ShakeInv, Connect, UNCHANGED blocking PROVE ShakeInv'
    OBVIOUS
<1> USE HandshakeAssumption DEF sock, shake, queue, call, steps, server, ShakeInv
<1>counted. calls \in Nat /\ calls' \in Nat /\ calls =< calls'
    BY DEF ClientTypes, Connect
<1>1. ClientTypes'
    BY DEF ClientTypes, AnswerInv, CallInv, MadeFor, ConnsInv, Connect, Request
<1>2. FlagTypes'
    BY Zenon DEF FlagTypes, Connect, Request
<1>3. QueueTypes'
    <2>1. stored' = stored /\ FromServer \subseteq FromServer'
        BY DEF FromServer, Connect, Request
    <2>2. stored' \in Seq(FromServer') /\ Len(stored') =< MaxStored
        BY <2>1 DEF QueueTypes
    <2>3. \/ entries' = entries /\ calls' = calls
          \/ entries' = Append(entries, calls + 1) /\ calls' = calls + 1
        BY DEF Connect
    <2>4. entries' \in Seq(1 .. calls') /\ \A i, j \in DOMAIN entries' : i < j => entries'[i] < entries'[j]
        BY <1>counted, <2>3, LongerQueue DEF QueueTypes
    <2>5. QED
        BY <2>2, <2>4 DEF QueueTypes
<1>4. NetInv'
    BY <1>counted DEF NetInv, MadeFor, Connect, Request
<1>5. ConnsInv'
    <2>1. Connections \subseteq Connections' /\ conns' = conns
        BY <1>counted DEF Connections, Connect
    <2>2. conns' \in Seq(Connections)'
        BY <2>1 DEF ConnsInv
    <2>3. QED
        BY <2>1, <2>2 DEF ConnsInv, OneConnection, Live
<1>6. AnswerInv'
    BY DEF AnswerInv, MadeFor, ConnsInv, CallInv, NetInv, QueueTypes, ClientTypes, Connect,
       Request
<1>7. CallInv'
    BY DEF CallInv, SuccessAgrees, AnswerInv, MadeFor, ConnsInv, ClientTypes, Connect, Request
<1>8. QED
    BY <1>1, <1>2, <1>3, <1>4, <1>5, <1>6, <1>7

\* A request again.
LEMMA CallResendKeeps == ShakeInv /\ CallResend /\ UNCHANGED blocking => ShakeInv'
<1> SUFFICES ASSUME ShakeInv, CallResend, UNCHANGED blocking PROVE ShakeInv'
    OBVIOUS
<1> USE HandshakeAssumption DEF sock, shake, queue, call, steps, server, ShakeInv
<1>1. ClientTypes'
    BY DEF ClientTypes, AnswerInv, CallInv, MadeFor, ConnsInv, CallResend, MyRequest, Request
<1>2. FlagTypes'
    BY Zenon DEF FlagTypes, CallResend, MyRequest, Request
<1>3. QueueTypes'
    BY DEF QueueTypes, FromServer, ClientTypes, CallResend, MyRequest, Request
<1>4. NetInv'
    BY DEF NetInv, MadeFor, CallInv, ClientTypes, CallResend, MyRequest, Request
<1>5. ConnsInv'
    BY DEF ConnsInv, Connections, OneConnection, Live, ClientTypes, CallResend, MyRequest, Request
<1>6. AnswerInv'
    BY DEF AnswerInv, MadeFor, ConnsInv, CallInv, NetInv, QueueTypes, ClientTypes, CallResend,
       MyRequest, Request
<1>7. CallInv'
    BY DEF CallInv, SuccessAgrees, AnswerInv, MadeFor, ConnsInv, ClientTypes, CallResend,
       MyRequest, Request
<1>8. QED
    BY <1>1, <1>2, <1>3, <1>4, <1>5, <1>6, <1>7

\* An answer for a waiting call: accepted, or the end of the loop.
LEMMA CallTakeKeeps == ShakeInv /\ CallTake /\ UNCHANGED blocking => ShakeInv'
<1> SUFFICES ASSUME ShakeInv, CallTake, UNCHANGED blocking PROVE ShakeInv'
    OBVIOUS
<1> USE HandshakeAssumption DEF sock, shake, queue, call, steps, server, ShakeInv
<1>1. ClientTypes'
    BY DEF ClientTypes, AnswerInv, CallInv, MadeFor, ConnsInv, CallTake, Answered, Return,
       Verdict, FromServer
<1>2. FlagTypes'
    BY Zenon DEF FlagTypes, CallTake, Answered, Return, Verdict, FromServer
<1>3. QueueTypes'
    BY DEF QueueTypes, FromServer, ClientTypes, CallTake, Answered, Return, Verdict, FromServer
<1>4. NetInv'
    BY DEF NetInv, MadeFor, ConnsInv, Connections, ClientTypes, CallTake, Answered, Return,
       Verdict, FromServer
<1>5. ConnsInv'
    BY DEF ConnsInv, Connections, OneConnection, Live, ClientTypes, CallTake, Answered, Return,
       Verdict, FromServer
<1>6. AnswerInv'
    BY DEF AnswerInv, MadeFor, ConnsInv, CallInv, NetInv, QueueTypes, ClientTypes, CallTake,
       Answered, Return, Verdict, FromServer
<1>7. CallInv'
    BY DEF CallInv, SuccessAgrees, AnswerInv, MadeFor, ConnsInv, ClientTypes, CallTake, Answered,
       Return, Verdict, FromServer
<1>8. QED
    BY <1>1, <1>2, <1>3, <1>4, <1>5, <1>6, <1>7

\* The call's time is over.
LEMMA CallExpireKeeps == ShakeInv /\ CallExpire /\ UNCHANGED blocking => ShakeInv'
<1> SUFFICES ASSUME ShakeInv, CallExpire, UNCHANGED blocking PROVE ShakeInv'
    OBVIOUS
<1> USE HandshakeAssumption DEF sock, shake, queue, call, steps, server, ShakeInv
<1>1. ClientTypes'
    BY DEF ClientTypes, AnswerInv, CallInv, MadeFor, ConnsInv, CallExpire, Return
<1>2. FlagTypes'
    BY Zenon DEF FlagTypes, CallExpire, Return
<1>3. QueueTypes'
    BY DEF QueueTypes, FromServer, ClientTypes, CallExpire, Return
<1>4. NetInv'
    BY DEF NetInv, MadeFor, ConnsInv, Connections, ClientTypes, CallExpire, Return
<1>5. ConnsInv'
    BY DEF ConnsInv, Connections, OneConnection, Live, ClientTypes, CallExpire, Return
<1>6. AnswerInv'
    BY DEF AnswerInv, MadeFor, ConnsInv, CallInv, NetInv, QueueTypes, ClientTypes, CallExpire,
       Return
<1>7. CallInv'
    BY DEF CallInv, SuccessAgrees, AnswerInv, MadeFor, ConnsInv, ClientTypes, CallExpire, Return
<1>8. QED
    BY <1>1, <1>2, <1>3, <1>4, <1>5, <1>6, <1>7

\* POST_CONNECT takes the answer's socket for the peer.
LEMMA PostRemoveKeeps == ShakeInv /\ PostRemove /\ UNCHANGED blocking => ShakeInv'
<1> SUFFICES ASSUME ShakeInv, PostRemove, UNCHANGED blocking PROVE ShakeInv'
    OBVIOUS
<1> USE HandshakeAssumption DEF sock, shake, queue, call, steps, server, ShakeInv
<1>1. ClientTypes'
    BY DEF ClientTypes, AnswerInv, CallInv, MadeFor, ConnsInv, PostRemove, RemoveConnector
<1>2. FlagTypes'
    BY Zenon DEF FlagTypes, PostRemove, RemoveConnector
<1>3. QueueTypes'
    <2>1. calls' = calls /\ calls \in Nat /\ stored' \in {<<>>, stored} /\ FromServer' = FromServer
        BY DEF ClientTypes, FromServer, PostRemove, RemoveConnector
    <2>2. entries' \in {entries, SubSeq(entries, 2, Len(entries))}
        BY DEF PostRemove, RemoveConnector
    <2>3. entries' \in Seq(1 .. calls) /\ \A i, j \in DOMAIN entries' : i < j => entries'[i] < entries'[j]
        BY <2>1, <2>2, ShorterQueue DEF QueueTypes
    <2>4. stored' \in Seq(FromServer) /\ Len(stored') =< MaxStored
        <3>1. CASE stored' = <<>>
            BY <3>1
        <3>2. CASE stored' = stored
            BY <3>2 DEF QueueTypes
        <3>3. QED
            BY <2>1, <3>1, <3>2
    <2>5. QED
        BY <2>1, <2>3, <2>4 DEF QueueTypes
<1>4. NetInv'
    BY DEF NetInv, MadeFor, ConnsInv, Connections, ClientTypes, PostRemove, RemoveConnector
<1>5. ConnsInv'
    BY DEF ConnsInv, Connections, OneConnection, Live, ClientTypes, PostRemove, RemoveConnector
<1>6. AnswerInv'
    BY DEF AnswerInv, MadeFor, ConnsInv, CallInv, NetInv, QueueTypes, ClientTypes, PostRemove,
       RemoveConnector
<1>7. CallInv'
    BY DEF CallInv, SuccessAgrees, AnswerInv, MadeFor, ConnsInv, ClientTypes, PostRemove,
       RemoveConnector
<1>8. QED
    BY <1>1, <1>2, <1>3, <1>4, <1>5, <1>6, <1>7

\* The socket is connected; its answer is still the one taken.
LEMMA PostFlagKeeps == ShakeInv /\ PostFlag /\ UNCHANGED blocking => ShakeInv'
<1> SUFFICES ASSUME ShakeInv, PostFlag, UNCHANGED blocking PROVE ShakeInv'
    OBVIOUS
<1> USE HandshakeAssumption DEF sock, shake, queue, call, steps, server, ShakeInv
<1>1. ClientTypes'
    BY DEF ClientTypes, AnswerInv, CallInv, MadeFor, ConnsInv, PostFlag
<1>2. FlagTypes'
    BY Zenon DEF FlagTypes, PostFlag
<1>3. QueueTypes'
    BY DEF QueueTypes, FromServer, ClientTypes, PostFlag
<1>4. NetInv'
    BY DEF NetInv, MadeFor, ConnsInv, Connections, ClientTypes, PostFlag
<1>5. ConnsInv'
    BY DEF ConnsInv, Connections, OneConnection, Live, ClientTypes, PostFlag
<1>6. AnswerInv'
    BY DEF AnswerInv, MadeFor, ConnsInv, CallInv, NetInv, QueueTypes, ClientTypes, PostFlag
<1>7. CallInv'
    BY DEF CallInv, SuccessAgrees, AnswerInv, MadeFor, ConnsInv, ClientTypes, PostFlag
<1>8. QED
    BY <1>1, <1>2, <1>3, <1>4, <1>5, <1>6, <1>7

\* A call that succeeds ends here.
LEMMA PostCompleteKeeps == ShakeInv /\ PostComplete /\ UNCHANGED blocking => ShakeInv'
<1> SUFFICES ASSUME ShakeInv, PostComplete, UNCHANGED blocking PROVE ShakeInv'
    OBVIOUS
<1> USE HandshakeAssumption DEF sock, shake, queue, call, steps, server, ShakeInv
<1>1. ClientTypes'
    BY DEF ClientTypes, AnswerInv, CallInv, MadeFor, ConnsInv, PostComplete, Return, Verdict
<1>2. FlagTypes'
    BY Zenon DEF FlagTypes, PostComplete, Return, Verdict
<1>3. QueueTypes'
    BY DEF QueueTypes, FromServer, ClientTypes, PostComplete, Return, Verdict
<1>4. NetInv'
    BY DEF NetInv, MadeFor, ConnsInv, Connections, ClientTypes, PostComplete, Return, Verdict
<1>5. ConnsInv'
    BY DEF ConnsInv, Connections, OneConnection, Live, ClientTypes, PostComplete, Return, Verdict
<1>6. AnswerInv'
    BY DEF AnswerInv, MadeFor, ConnsInv, CallInv, NetInv, QueueTypes, ClientTypes, PostComplete,
       Return, Verdict
<1>7. CallInv'
    BY DEF CallInv, SuccessAgrees, AnswerInv, MadeFor, ConnsInv, ClientTypes, PostComplete,
       Return, Verdict
<1>8. QED
    BY <1>1, <1>2, <1>3, <1>4, <1>5, <1>6, <1>7

\* The worker keeps a packet for the caller.
LEMMA WorkStoreKeeps == ShakeInv /\ WorkStore /\ UNCHANGED blocking => ShakeInv'
<1> SUFFICES ASSUME ShakeInv, WorkStore, UNCHANGED blocking PROVE ShakeInv'
    OBVIOUS
<1> USE HandshakeAssumption DEF sock, shake, queue, call, steps, server, ShakeInv
<1>1. ClientTypes'
    BY DEF ClientTypes, AnswerInv, CallInv, MadeFor, ConnsInv, WorkStore, Retrieved, FromServer
<1>2. FlagTypes'
    BY Zenon DEF FlagTypes, WorkStore, Retrieved, FromServer
<1>3. QueueTypes'
    BY DEF QueueTypes, FromServer, ClientTypes, WorkStore, Retrieved, FromServer
<1>4. NetInv'
    BY DEF NetInv, MadeFor, ConnsInv, Connections, ClientTypes, WorkStore, Retrieved, FromServer
<1>5. ConnsInv'
    BY DEF ConnsInv, Connections, OneConnection, Live, ClientTypes, WorkStore, Retrieved,
       FromServer
<1>6. AnswerInv'
    BY DEF AnswerInv, MadeFor, ConnsInv, CallInv, NetInv, QueueTypes, ClientTypes, WorkStore,
       Retrieved, FromServer
<1>7. CallInv'
    BY DEF CallInv, SuccessAgrees, AnswerInv, MadeFor, ConnsInv, ClientTypes, WorkStore,
       Retrieved, FromServer
<1>8. QED
    BY <1>1, <1>2, <1>3, <1>4, <1>5, <1>6, <1>7

\* The worker takes an answer itself.
LEMMA WorkAnswerKeeps == ShakeInv /\ WorkAnswer /\ UNCHANGED blocking => ShakeInv'
<1> SUFFICES ASSUME ShakeInv, WorkAnswer, UNCHANGED blocking PROVE ShakeInv'
    OBVIOUS
<1> USE HandshakeAssumption DEF sock, shake, queue, call, steps, server, ShakeInv
<1>1. ClientTypes'
    BY DEF ClientTypes, AnswerInv, CallInv, MadeFor, ConnsInv, WorkAnswer, Retrieved, Answered,
       FromServer
<1>2. FlagTypes'
    BY Zenon DEF FlagTypes, WorkAnswer, Retrieved, Answered, FromServer
<1>3. QueueTypes'
    BY DEF QueueTypes, FromServer, ClientTypes, WorkAnswer, Retrieved, Answered, FromServer
<1>4. NetInv'
    BY DEF NetInv, MadeFor, ConnsInv, Connections, ClientTypes, WorkAnswer, Retrieved, Answered,
       FromServer
<1>5. ConnsInv'
    BY DEF ConnsInv, Connections, OneConnection, Live, ClientTypes, WorkAnswer, Retrieved,
       Answered, FromServer
<1>6. AnswerInv'
    <2> PICK p \in FromServer : p.kind = "answer" /\ Answered(p) /\ entries # <<>>
        BY DEF WorkAnswer, Retrieved
    <2>1. p \in net /\ p.type \in {"cookie", "accept", "reject"}
        BY DEF FromServer, NetInv
    <2>2. p.type = "accept" => MadeFor(p.id, p.isn)
        BY <2>1 DEF FromServer, NetInv
    <2>3. conns' = conns /\ peer' = peer /\ post = "none"
        BY DEF WorkAnswer, Answered, Retrieved, WorkerFree
    <2>4. CASE p.type = "cookie"
        BY <2>1, <2>2, <2>3, <2>4 DEF AnswerInv, MadeFor, Answered
    <2>5. CASE p.type # "cookie"
        BY <2>1, <2>2, <2>3, <2>5 DEF AnswerInv, MadeFor, Answered
    <2>6. QED
        BY <2>4, <2>5
<1>7. CallInv'
    BY DEF CallInv, SuccessAgrees, AnswerInv, MadeFor, ConnsInv, ClientTypes, WorkAnswer,
       Retrieved, Answered, FromServer
<1>8. QED
    BY <1>1, <1>2, <1>3, <1>4, <1>5, <1>6, <1>7

\* The worker repeats a request.
LEMMA WorkUpdateKeeps == ShakeInv /\ WorkUpdate /\ UNCHANGED blocking => ShakeInv'
<1> SUFFICES ASSUME ShakeInv, WorkUpdate, UNCHANGED blocking PROVE ShakeInv'
    OBVIOUS
<1> USE HandshakeAssumption DEF sock, shake, queue, call, steps, server, ShakeInv
<1>counted. calls > 0
    BY EntriesOfCalls DEF WorkUpdate, WorkRetry
<1>1. ClientTypes'
    BY DEF ClientTypes, AnswerInv, CallInv, MadeFor, ConnsInv, WorkUpdate, WorkRetry, MyRequest,
       Request
<1>2. FlagTypes'
    BY Zenon DEF FlagTypes, WorkUpdate, WorkRetry, MyRequest, Request
<1>3. QueueTypes'
    BY DEF QueueTypes, FromServer, ClientTypes, WorkUpdate, WorkRetry, MyRequest, Request
<1>4. NetInv'
    BY <1>counted DEF NetInv, MadeFor, ClientTypes, WorkUpdate, WorkRetry, MyRequest, Request
<1>5. ConnsInv'
    BY DEF ConnsInv, Connections, OneConnection, Live, ClientTypes, WorkUpdate, WorkRetry,
       MyRequest, Request
<1>6. AnswerInv'
    BY DEF AnswerInv, MadeFor, ConnsInv, CallInv, NetInv, QueueTypes, ClientTypes, WorkUpdate,
       WorkRetry, MyRequest, Request
<1>7. CallInv'
    BY DEF CallInv, SuccessAgrees, AnswerInv, MadeFor, ConnsInv, ClientTypes, WorkUpdate,
       WorkRetry, MyRequest, Request
<1>8. QED
    BY <1>1, <1>2, <1>3, <1>4, <1>5, <1>6, <1>7

\* The worker gives up an attempt.
LEMMA WorkTimeOutKeeps == ShakeInv /\ WorkTimeOut /\ UNCHANGED blocking => ShakeInv'
<1> SUFFICES ASSUME ShakeInv, WorkTimeOut, UNCHANGED blocking PROVE ShakeInv'
    OBVIOUS
<1> USE HandshakeAssumption DEF sock, shake, queue, call, steps, server, ShakeInv
<1>1. ClientTypes'
    BY DEF ClientTypes, AnswerInv, CallInv, MadeFor, ConnsInv, WorkTimeOut, WorkExpire
<1>2. FlagTypes'
    BY Zenon DEF FlagTypes, WorkTimeOut, WorkExpire
<1>3. QueueTypes'
    BY DEF QueueTypes, FromServer, ClientTypes, WorkTimeOut, WorkExpire
<1>4. NetInv'
    BY DEF NetInv, MadeFor, ConnsInv, Connections, ClientTypes, WorkTimeOut, WorkExpire
<1>5. ConnsInv'
    BY DEF ConnsInv, Connections, OneConnection, Live, ClientTypes, WorkTimeOut, WorkExpire
<1>6. AnswerInv'
    BY DEF AnswerInv, MadeFor, ConnsInv, CallInv, NetInv, QueueTypes, ClientTypes, WorkTimeOut,
       WorkExpire
<1>7. CallInv'
    BY DEF CallInv, SuccessAgrees, AnswerInv, MadeFor, ConnsInv, ClientTypes, WorkTimeOut,
       WorkExpire
<1>8. QED
    BY <1>1, <1>2, <1>3, <1>4, <1>5, <1>6, <1>7

\* The new socket enters the lists.
LEMMA WorkListKeeps == ShakeInv /\ WorkList /\ UNCHANGED blocking => ShakeInv'
<1> SUFFICES ASSUME ShakeInv, WorkList, UNCHANGED blocking PROVE ShakeInv'
    OBVIOUS
<1> USE HandshakeAssumption DEF sock, shake, queue, call, steps, server, ShakeInv
<1>1. ClientTypes'
    BY DEF ClientTypes, AnswerInv, CallInv, MadeFor, ConnsInv, WorkList
<1>2. FlagTypes'
    BY Zenon DEF FlagTypes, WorkList
<1>3. QueueTypes'
    BY DEF QueueTypes, FromServer, ClientTypes, WorkList
<1>4. NetInv'
    BY DEF NetInv, MadeFor, ConnsInv, Connections, ClientTypes, WorkList
<1>5. ConnsInv'
    BY DEF ConnsInv, Connections, OneConnection, Live, ClientTypes, WorkList
<1>6. AnswerInv'
    BY DEF AnswerInv, MadeFor, ConnsInv, CallInv, NetInv, QueueTypes, ClientTypes, WorkList
<1>7. CallInv'
    BY DEF CallInv, SuccessAgrees, AnswerInv, MadeFor, ConnsInv, ClientTypes, WorkList
<1>8. QED
    BY <1>1, <1>2, <1>3, <1>4, <1>5, <1>6, <1>7

\* It leaves them.
LEMMA WorkUnlistKeeps == ShakeInv /\ WorkUnlist /\ UNCHANGED blocking => ShakeInv'
<1> SUFFICES ASSUME ShakeInv, WorkUnlist, UNCHANGED blocking PROVE ShakeInv'
    OBVIOUS
<1> USE HandshakeAssumption DEF sock, shake, queue, call, steps, server, ShakeInv
<1>1. ClientTypes'
    BY DEF ClientTypes, AnswerInv, CallInv, MadeFor, ConnsInv, WorkUnlist
<1>2. FlagTypes'
    BY Zenon DEF FlagTypes, WorkUnlist
<1>3. QueueTypes'
    BY DEF QueueTypes, FromServer, ClientTypes, WorkUnlist
<1>4. NetInv'
    BY DEF NetInv, MadeFor, ConnsInv, Connections, ClientTypes, WorkUnlist
<1>5. ConnsInv'
    BY DEF ConnsInv, Connections, OneConnection, Live, ClientTypes, WorkUnlist
<1>6. AnswerInv'
    BY DEF AnswerInv, MadeFor, ConnsInv, CallInv, NetInv, QueueTypes, ClientTypes, WorkUnlist
<1>7. CallInv'
    BY DEF CallInv, SuccessAgrees, AnswerInv, MadeFor, ConnsInv, ClientTypes, WorkUnlist
<1>8. QED
    BY <1>1, <1>2, <1>3, <1>4, <1>5, <1>6, <1>7

\* Time passes for a call.
LEMMA ExpireKeeps == ShakeInv /\ Expire /\ UNCHANGED blocking => ShakeInv'
<1> SUFFICES ASSUME ShakeInv, Expire, UNCHANGED blocking PROVE ShakeInv'
    OBVIOUS
<1> USE HandshakeAssumption DEF sock, shake, queue, call, steps, server, ShakeInv
<1>1. ClientTypes'
    BY DEF ClientTypes, AnswerInv, CallInv, MadeFor, ConnsInv, Expire
<1>2. FlagTypes'
    BY Zenon DEF FlagTypes, Expire
<1>3. QueueTypes'
    BY DEF QueueTypes, FromServer, ClientTypes, Expire
<1>4. NetInv'
    BY DEF NetInv, MadeFor, ConnsInv, Connections, ClientTypes, Expire
<1>5. ConnsInv'
    BY DEF ConnsInv, Connections, OneConnection, Live, ClientTypes, Expire
<1>6. AnswerInv'
    BY DEF AnswerInv, MadeFor, ConnsInv, CallInv, NetInv, QueueTypes, ClientTypes, Expire
<1>7. CallInv'
    BY DEF CallInv, SuccessAgrees, AnswerInv, MadeFor, ConnsInv, ClientTypes, Expire
<1>8. QED
    BY <1>1, <1>2, <1>3, <1>4, <1>5, <1>6, <1>7

\* close() begins, with no call waiting.
LEMMA CloseFlagKeeps == ShakeInv /\ CloseFlag /\ UNCHANGED blocking => ShakeInv'
<1> SUFFICES ASSUME ShakeInv, CloseFlag, UNCHANGED blocking PROVE ShakeInv'
    OBVIOUS
<1> USE HandshakeAssumption DEF sock, shake, queue, call, steps, server, ShakeInv
<1>1. ClientTypes'
    BY DEF ClientTypes, AnswerInv, CallInv, MadeFor, ConnsInv, CloseFlag
<1>2. FlagTypes'
    BY Zenon DEF FlagTypes, CloseFlag
<1>3. QueueTypes'
    BY DEF QueueTypes, FromServer, ClientTypes, CloseFlag
<1>4. NetInv'
    BY DEF NetInv, MadeFor, ConnsInv, Connections, ClientTypes, CloseFlag
<1>5. ConnsInv'
    BY DEF ConnsInv, Connections, OneConnection, Live, ClientTypes, CloseFlag
<1>6. AnswerInv'
    BY DEF AnswerInv, MadeFor, ConnsInv, CallInv, NetInv, QueueTypes, ClientTypes, CloseFlag
<1>7. CallInv'
    BY DEF CallInv, SuccessAgrees, AnswerInv, MadeFor, ConnsInv, ClientTypes, CloseFlag
<1>8. QED
    BY <1>1, <1>2, <1>3, <1>4, <1>5, <1>6, <1>7

\* close() removes the entry of a socket that connects.
LEMMA CloseConnectorKeeps == ShakeInv /\ CloseConnector /\ UNCHANGED blocking => ShakeInv'
<1> SUFFICES ASSUME ShakeInv, CloseConnector, UNCHANGED blocking PROVE ShakeInv'
    OBVIOUS
<1> USE HandshakeAssumption DEF sock, shake, queue, call, steps, server, ShakeInv
<1>1. ClientTypes'
    BY DEF ClientTypes, AnswerInv, CallInv, MadeFor, ConnsInv, CloseConnector, RemoveConnector
<1>2. FlagTypes'
    BY Zenon DEF FlagTypes, CloseConnector, RemoveConnector
<1>3. QueueTypes'
    <2>1. calls' = calls /\ calls \in Nat /\ stored' \in {<<>>, stored} /\ FromServer' = FromServer
        BY DEF ClientTypes, FromServer, CloseConnector, RemoveConnector
    <2>2. entries' \in {entries, SubSeq(entries, 2, Len(entries))}
        BY DEF CloseConnector, RemoveConnector
    <2>3. entries' \in Seq(1 .. calls) /\ \A i, j \in DOMAIN entries' : i < j => entries'[i] < entries'[j]
        BY <2>1, <2>2, ShorterQueue DEF QueueTypes
    <2>4. stored' \in Seq(FromServer) /\ Len(stored') =< MaxStored
        <3>1. CASE stored' = <<>>
            BY <3>1
        <3>2. CASE stored' = stored
            BY <3>2 DEF QueueTypes
        <3>3. QED
            BY <2>1, <3>1, <3>2
    <2>5. QED
        BY <2>1, <2>3, <2>4 DEF QueueTypes
<1>4. NetInv'
    BY DEF NetInv, MadeFor, ConnsInv, Connections, ClientTypes, CloseConnector, RemoveConnector
<1>5. ConnsInv'
    BY DEF ConnsInv, Connections, OneConnection, Live, ClientTypes, CloseConnector,
       RemoveConnector
<1>6. AnswerInv'
    BY DEF AnswerInv, MadeFor, ConnsInv, CallInv, NetInv, QueueTypes, ClientTypes, CloseConnector,
       RemoveConnector
<1>7. CallInv'
    BY DEF CallInv, SuccessAgrees, AnswerInv, MadeFor, ConnsInv, ClientTypes, CloseConnector,
       RemoveConnector
<1>8. QED
    BY <1>1, <1>2, <1>3, <1>4, <1>5, <1>6, <1>7

\* close() disconnects.
LEMMA CloseDisconnectKeeps == ShakeInv /\ CloseDisconnect /\ UNCHANGED blocking => ShakeInv'
<1> SUFFICES ASSUME ShakeInv, CloseDisconnect, UNCHANGED blocking PROVE ShakeInv'
    OBVIOUS
<1> USE HandshakeAssumption DEF sock, shake, queue, call, steps, server, ShakeInv
<1>1. ClientTypes'
    BY DEF ClientTypes, AnswerInv, CallInv, MadeFor, ConnsInv, CloseDisconnect
<1>2. FlagTypes'
    BY Zenon DEF FlagTypes, CloseDisconnect
<1>3. QueueTypes'
    BY DEF QueueTypes, FromServer, ClientTypes, CloseDisconnect
<1>4. NetInv'
    BY DEF NetInv, MadeFor, ConnsInv, Connections, ClientTypes, CloseDisconnect
<1>5. ConnsInv'
    BY DEF ConnsInv, Connections, OneConnection, Live, ClientTypes, CloseDisconnect
<1>6. AnswerInv'
    BY DEF AnswerInv, MadeFor, ConnsInv, CallInv, NetInv, QueueTypes, ClientTypes, CloseDisconnect
<1>7. CallInv'
    BY DEF CallInv, SuccessAgrees, AnswerInv, MadeFor, ConnsInv, ClientTypes, CloseDisconnect
<1>8. QED
    BY <1>1, <1>2, <1>3, <1>4, <1>5, <1>6, <1>7

\* close() moves the socket away.
LEMMA CloseMoveKeeps == ShakeInv /\ CloseMove /\ UNCHANGED blocking => ShakeInv'
<1> SUFFICES ASSUME ShakeInv, CloseMove, UNCHANGED blocking PROVE ShakeInv'
    OBVIOUS
<1> USE HandshakeAssumption DEF sock, shake, queue, call, steps, server, ShakeInv
<1>1. ClientTypes'
    BY DEF ClientTypes, AnswerInv, CallInv, MadeFor, ConnsInv, CloseMove
<1>2. FlagTypes'
    BY Zenon DEF FlagTypes, CloseMove
<1>3. QueueTypes'
    BY DEF QueueTypes, FromServer, ClientTypes, CloseMove
<1>4. NetInv'
    BY DEF NetInv, MadeFor, ConnsInv, Connections, ClientTypes, CloseMove
<1>5. ConnsInv'
    BY DEF ConnsInv, Connections, OneConnection, Live, ClientTypes, CloseMove
<1>6. AnswerInv'
    BY DEF AnswerInv, MadeFor, ConnsInv, CallInv, NetInv, QueueTypes, ClientTypes, CloseMove
<1>7. CallInv'
    BY DEF CallInv, SuccessAgrees, AnswerInv, MadeFor, ConnsInv, ClientTypes, CloseMove
<1>8. QED
    BY <1>1, <1>2, <1>3, <1>4, <1>5, <1>6, <1>7

\* The collector deletes it.
LEMMA CollectKeeps == ShakeInv /\ Collect /\ UNCHANGED blocking => ShakeInv'
<1> SUFFICES ASSUME ShakeInv, Collect, UNCHANGED blocking PROVE ShakeInv'
    OBVIOUS
<1> USE HandshakeAssumption DEF sock, shake, queue, call, steps, server, ShakeInv
<1>1. ClientTypes'
    BY DEF ClientTypes, AnswerInv, CallInv, MadeFor, ConnsInv, Collect
<1>2. FlagTypes'
    BY Zenon DEF FlagTypes, Collect
<1>3. QueueTypes'
    BY DEF QueueTypes, FromServer, ClientTypes, Collect
<1>4. NetInv'
    BY DEF NetInv, MadeFor, ConnsInv, Connections, ClientTypes, Collect
<1>5. ConnsInv'
    BY DEF ConnsInv, Connections, OneConnection, Live, ClientTypes, Collect
<1>6. AnswerInv'
    BY DEF AnswerInv, MadeFor, ConnsInv, CallInv, NetInv, QueueTypes, ClientTypes, Collect
<1>7. CallInv'
    BY DEF CallInv, SuccessAgrees, AnswerInv, MadeFor, ConnsInv, ClientTypes, Collect
<1>8. QED
    BY <1>1, <1>2, <1>3, <1>4, <1>5, <1>6, <1>7

\* The listener hands out a cookie.
LEMMA ListenAskKeeps == ShakeInv /\ ListenAsk /\ UNCHANGED blocking => ShakeInv'
<1> SUFFICES ASSUME ShakeInv, ListenAsk, UNCHANGED blocking PROVE ShakeInv'
    OBVIOUS
<1> USE HandshakeAssumption DEF sock, shake, queue, call, steps, server, ShakeInv
<1>1. ClientTypes'
    BY DEF ClientTypes, AnswerInv, CallInv, MadeFor, ConnsInv, ListenAsk, Cookie
<1>2. FlagTypes'
    BY Zenon DEF FlagTypes, ListenAsk, Cookie
<1>3. QueueTypes'
    BY DEF QueueTypes, FromServer, ClientTypes, ListenAsk, Cookie
<1>4. NetInv'
    BY DEF NetInv, MadeFor, ConnsInv, Connections, ClientTypes, ListenAsk, Cookie
<1>5. ConnsInv'
    BY DEF ConnsInv, Connections, OneConnection, Live, ClientTypes, ListenAsk, Cookie
<1>6. AnswerInv'
    BY DEF AnswerInv, MadeFor, ConnsInv, CallInv, NetInv, QueueTypes, ClientTypes, ListenAsk,
       Cookie
<1>7. CallInv'
    BY DEF CallInv, SuccessAgrees, AnswerInv, MadeFor, ConnsInv, ClientTypes, ListenAsk, Cookie
<1>8. QED
    BY <1>1, <1>2, <1>3, <1>4, <1>5, <1>6, <1>7

\* The listener recognises the call, refuses it or makes a socket for it.
LEMMA ListenConfirmKeeps == ShakeInv /\ (\E p \in net : ListenConfirm(p)) /\ UNCHANGED blocking => ShakeInv'
<1> SUFFICES ASSUME ShakeInv, NEW p \in net, ListenConfirm(p), UNCHANGED blocking PROVE ShakeInv'
    OBVIOUS
<1> USE HandshakeAssumption DEF sock, shake, queue, call, steps, server, ShakeInv
<1>counted. /\ conns \in Seq(Connections) /\ calls' = calls /\ p.isn \in 1 .. calls
            /\ \/ conns' = conns
               \/ Known(p.isn) = {} /\ conns' = Append(conns, [isn |-> p.isn, state |-> "live"])
    BY DEF ListenConfirm, NetInv, ConnsInv
<1>prefix. /\ Len(conns) =< Len(conns') /\ Len(conns) \in Nat /\ Len(conns') \in Nat
           /\ DOMAIN conns = 1 .. Len(conns) /\ DOMAIN conns' = 1 .. Len(conns')
           /\ \A i \in DOMAIN conns : conns'[i] = conns[i]
    BY <1>counted DEF Connections
<1>kept. \A id, isn : MadeFor(id, isn) => MadeFor(id, isn)'
    BY <1>prefix DEF MadeFor
<1>1. ClientTypes'
    BY DEF ClientTypes, AnswerInv, CallInv, MadeFor, ConnsInv, ListenConfirm, Known, Live, Accept,
       Reject
<1>2. FlagTypes'
    BY Zenon DEF FlagTypes, ListenConfirm, Known, Live, Accept, Reject
<1>3. QueueTypes'
    BY DEF QueueTypes, FromServer, ClientTypes, ListenConfirm, Known, Live, Accept, Reject
<1>4. NetInv'
    <2>1. SUFFICES ASSUME NEW q \in net', q \notin net
                   PROVE  /\ q.kind = "answer" /\ q.type \in {"accept", "reject"}
                          /\ q.type = "accept" => MadeFor(q.id, q.isn)'
        BY <1>counted, <1>kept DEF NetInv
    <2>2. CASE q = Reject(p.isn)
        BY <2>2 DEF Reject
    <2>3. CASE \E i \in Known(p.isn) : q = Accept(i, p.isn)
        <3>1. PICK i \in Known(p.isn) : q = Accept(i, p.isn)
            BY <2>3
        <3>2. MadeFor(i, p.isn)
            BY DEF Known, MadeFor
        <3>3. QED
            BY <3>1, <3>2, <1>kept DEF Accept
    <2>4. CASE /\ conns' = Append(conns, [isn |-> p.isn, state |-> "live"])
               /\ q = Accept(Len(conns'), p.isn)
        <3>1. Len(conns') \in DOMAIN conns' /\ conns'[Len(conns')].isn = p.isn
            BY <2>4, <1>counted
        <3>2. QED
            BY <2>4, <3>1 DEF Accept, MadeFor
    <2>5. QED
        BY <2>1, <2>2, <2>3, <2>4 DEF ListenConfirm
<1>5. ConnsInv'
    <2>1. Connections' = Connections
        BY <1>counted DEF Connections
    <2>2. CASE conns' = conns
        BY <2>1, <2>2 DEF ConnsInv, OneConnection, Live
    <2>3. CASE Known(p.isn) = {} /\ conns' = Append(conns, [isn |-> p.isn, state |-> "live"])
        <3>1. [isn |-> p.isn, state |-> "live"] \in Connections
            BY <1>counted DEF Connections
        <3>2. conns' \in Seq(Connections) /\ Len(conns') = Len(conns) + 1
            BY <1>counted, <2>3, <3>1
        <3>3. conns'[Len(conns) + 1].isn = p.isn
            BY <1>counted, <2>3
        <3>4. \A i \in DOMAIN conns : Live(i) => conns[i].isn # p.isn
            BY <2>3 DEF Known
        <3>5. \A i \in DOMAIN conns' : i = Len(conns) + 1 \/ i \in DOMAIN conns
            BY <3>2, <1>prefix
        <3>6. ASSUME NEW i \in DOMAIN conns', NEW j \in DOMAIN conns', Live(i)', Live(j)',
                     conns'[i].isn = conns'[j].isn
              PROVE  i = j
            <4>1. CASE i \in DOMAIN conns /\ j \in DOMAIN conns
                <5>1. Live(i) /\ Live(j) /\ conns[i].isn = conns[j].isn
                    BY <4>1, <3>6, <1>prefix DEF Live
                <5>2. QED
                    BY <4>1, <5>1 DEF ConnsInv, OneConnection
            <4>2. CASE i \in DOMAIN conns /\ j = Len(conns) + 1
                <5>1. Live(i) /\ conns[i].isn = p.isn
                    BY <4>2, <3>3, <3>6, <1>prefix DEF Live
                <5>2. QED
                    BY <4>2, <5>1, <3>4
            <4>3. CASE j \in DOMAIN conns /\ i = Len(conns) + 1
                <5>1. Live(j) /\ conns[j].isn = p.isn
                    BY <4>3, <3>3, <3>6, <1>prefix DEF Live
                <5>2. QED
                    BY <4>3, <5>1, <3>4
            <4>4. QED
                BY <3>5, <4>1, <4>2, <4>3
        <3>7. OneConnection'
            BY <3>6 DEF OneConnection
        <3>8. QED
            BY <3>2, <3>7, <2>1 DEF ConnsInv
    <2>4. QED
        BY <1>counted, <2>2, <2>3
<1>6. AnswerInv'
    BY <1>kept DEF AnswerInv, ListenConfirm
<1>7. CallInv'
    BY DEF CallInv, SuccessAgrees, AnswerInv, MadeFor, ConnsInv, ClientTypes, ListenConfirm,
       Known, Live, Accept, Reject
<1>8. QED
    BY <1>1, <1>2, <1>3, <1>4, <1>5, <1>6, <1>7

\* The peer sends data.
LEMMA ServerSendKeeps == ShakeInv /\ ServerSend /\ UNCHANGED blocking => ShakeInv'
<1> SUFFICES ASSUME ShakeInv, ServerSend, UNCHANGED blocking PROVE ShakeInv'
    OBVIOUS
<1> USE HandshakeAssumption DEF sock, shake, queue, call, steps, server, ShakeInv
<1>1. ClientTypes'
    BY DEF ClientTypes, AnswerInv, CallInv, MadeFor, ConnsInv, ServerSend, Data
<1>2. FlagTypes'
    BY Zenon DEF FlagTypes, ServerSend, Data
<1>3. QueueTypes'
    BY DEF QueueTypes, FromServer, ClientTypes, ServerSend, Data
<1>4. NetInv'
    BY DEF NetInv, MadeFor, ConnsInv, Connections, ClientTypes, ServerSend, Data
<1>5. ConnsInv'
    BY DEF ConnsInv, Connections, OneConnection, Live, ClientTypes, ServerSend, Data
<1>6. AnswerInv'
    BY DEF AnswerInv, MadeFor, ConnsInv, CallInv, NetInv, QueueTypes, ClientTypes, ServerSend,
       Data
<1>7. CallInv'
    BY DEF CallInv, SuccessAgrees, AnswerInv, MadeFor, ConnsInv, ClientTypes, ServerSend, Data
<1>8. QED
    BY <1>1, <1>2, <1>3, <1>4, <1>5, <1>6, <1>7

\* A connection of the listener ends.
LEMMA ServerEndKeeps == ShakeInv /\ ServerEnd /\ UNCHANGED blocking => ShakeInv'
<1> SUFFICES ASSUME ShakeInv, ServerEnd, UNCHANGED blocking PROVE ShakeInv'
    OBVIOUS
<1> USE HandshakeAssumption DEF sock, shake, queue, call, steps, server, ShakeInv
<1>1. ClientTypes'
    BY DEF ClientTypes, AnswerInv, CallInv, MadeFor, ConnsInv, ServerEnd, Live
<1>2. FlagTypes'
    BY Zenon DEF FlagTypes, ServerEnd, Live
<1>3. QueueTypes'
    BY DEF QueueTypes, FromServer, ClientTypes, ServerEnd, Live
<1>4. NetInv'
    BY DEF NetInv, MadeFor, ConnsInv, Connections, ClientTypes, ServerEnd, Live
<1>5. ConnsInv'
    <2> PICK k \in DOMAIN conns : Live(k) /\ conns' = [conns EXCEPT ![k].state = "over"]
        BY DEF ServerEnd
    <2>1. calls' = calls /\ Connections' = Connections
        BY DEF Connections, ServerEnd
    <2>2. /\ conns' \in Seq(Connections) /\ DOMAIN conns' = DOMAIN conns
          /\ \A i \in DOMAIN conns : conns'[i].isn = conns[i].isn
        <3>0. conns \in Seq(Connections) /\ conns[k] \in Connections
            BY DEF ConnsInv
        <3>1. conns \in Seq(Connections) /\ [conns[k] EXCEPT !.state = "over"] \in Connections
            BY <3>0 DEF Connections
        <3>2. DOMAIN conns' = DOMAIN conns /\ conns' = [conns EXCEPT ![k] = [conns[k] EXCEPT !.state = "over"]]
            OBVIOUS
        <3>3. conns' \in Seq(Connections)
            BY <3>1, <3>2
        <3>4. ASSUME NEW i \in DOMAIN conns PROVE conns'[i].isn = conns[i].isn
            <4>1. CASE i = k
                BY <3>0, <3>1, <3>2, <4>1 DEF Connections
            <4>2. CASE i # k
                BY <3>2, <4>2
            <4>3. QED
                BY <4>1, <4>2
        <3>5. QED
            BY <3>2, <3>3, <3>4
    <2>3. \A i \in DOMAIN conns : Live(i)' => Live(i)
        BY DEF ConnsInv, Connections, Live
    <2>4. OneConnection'
        BY <2>2, <2>3 DEF ConnsInv, OneConnection
    <2>5. QED
        BY <2>1, <2>2, <2>4 DEF ConnsInv
<1>6. AnswerInv'
    BY DEF AnswerInv, MadeFor, ConnsInv, CallInv, NetInv, QueueTypes, ClientTypes, ServerEnd, Live
<1>7. CallInv'
    BY DEF CallInv, SuccessAgrees, AnswerInv, MadeFor, ConnsInv, ClientTypes, ServerEnd, Live
<1>8. QED
    BY <1>1, <1>2, <1>3, <1>4, <1>5, <1>6, <1>7

\* A minute passes.
LEMMA TickKeeps == ShakeInv /\ Tick /\ UNCHANGED blocking => ShakeInv'
<1> SUFFICES ASSUME ShakeInv, Tick, UNCHANGED blocking PROVE ShakeInv'
    OBVIOUS
<1> USE HandshakeAssumption DEF sock, shake, queue, call, steps, server, ShakeInv
<1>1. ClientTypes'
    BY DEF ClientTypes, AnswerInv, CallInv, MadeFor, ConnsInv, Tick
<1>2. FlagTypes'
    BY Zenon DEF FlagTypes, Tick
<1>3. QueueTypes'
    BY DEF QueueTypes, FromServer, ClientTypes, Tick
<1>4. NetInv'
    BY DEF NetInv, MadeFor, ConnsInv, Connections, ClientTypes, Tick
<1>5. ConnsInv'
    BY DEF ConnsInv, Connections, OneConnection, Live, ClientTypes, Tick
<1>6. AnswerInv'
    BY DEF AnswerInv, MadeFor, ConnsInv, CallInv, NetInv, QueueTypes, ClientTypes, Tick
<1>7. CallInv'
    BY DEF CallInv, SuccessAgrees, AnswerInv, MadeFor, ConnsInv, ClientTypes, Tick
<1>8. QED
    BY <1>1, <1>2, <1>3, <1>4, <1>5, <1>6, <1>7

-----------------------------------------------------------------------------
\* The invariant holds in every state.
THEOREM ShakeInvariant == Spec => []ShakeInv
<1>1. Init => ShakeInv
    BY Initially
<1>2. ShakeInv /\ [Next]_vars => ShakeInv'
    <2> SUFFICES ASSUME ShakeInv, [Next]_vars PROVE ShakeInv'
        OBVIOUS
    <2>1. CASE Next
        <3>1. UNCHANGED blocking
            BY <2>1 DEF Next, Running
        <3>2. QED
            BY <2>1, <3>1, ConnectKeeps, CallResendKeeps, CallTakeKeeps, CallExpireKeeps,
               PostRemoveKeeps, PostFlagKeeps, PostCompleteKeeps, WorkStoreKeeps, WorkAnswerKeeps,
               WorkUpdateKeeps, WorkTimeOutKeeps, WorkListKeeps, WorkUnlistKeeps, ExpireKeeps,
               CloseFlagKeeps, CloseConnectorKeeps, CloseDisconnectKeeps, CloseMoveKeeps,
               CollectKeeps, ListenAskKeeps, ListenConfirmKeeps, ServerSendKeeps, ServerEndKeeps,
               TickKeeps
               DEF Next, Running, PostStep
    <2>2. CASE UNCHANGED vars
        <3> USE <2>2 DEF vars, sock, shake, queue, call, steps, server, ShakeInv
        <3>1. ClientTypes' /\ FlagTypes'
            BY DEF ClientTypes, FlagTypes
        <3>2. QueueTypes'
            BY DEF QueueTypes, FromServer
        <3>3. NetInv'
            BY DEF NetInv, MadeFor
        <3>4. ConnsInv'
            BY DEF ConnsInv, Connections, OneConnection, Live
        <3>5. AnswerInv' /\ CallInv'
            BY DEF AnswerInv, CallInv, MadeFor, SuccessAgrees
        <3>6. QED
            BY <3>1, <3>2, <3>3, <3>4, <3>5
    <2>3. QED
        BY <2>1, <2>2
<1>3. QED
    BY <1>1, <1>2, PTL DEF Spec

\* Every variable of the handshake has its type, and no call of connect() has
\* more than one entry among those that are connecting (TypeOK).
THEOREM TypesCorrect == Spec => []TypeOK
<1>1. ShakeInv => TypeOK
    BY Implied
<1>2. QED
    BY <1>1, ShakeInvariant, PTL

\* A call of connect() has at most one connection at the listener that is not over,
\* however often and late its requests arrive (OneConnection).
THEOREM OneConnectionAlways == Spec => []OneConnection
<1>1. ShakeInv => OneConnection
    BY Implied
<1>2. QED
    BY <1>1, ShakeInvariant, PTL

\* A blocking connect() that succeeded and is connected talks to a socket the listener
\* made for this very call (SuccessAgrees).
THEOREM SuccessAgreesAlways == Spec => []SuccessAgrees
<1>1. ShakeInv => SuccessAgrees
    BY Implied
<1>2. QED
    BY <1>1, ShakeInvariant, PTL

-----------------------------------------------------------------------------
(* Where the cookies come from. *)

\* The listener has sent the cookie k to this client.
CookieSent(k) == \E c \in 1 .. calls : Cookie(k, c) \in net

\* A cookie that the client confirms, now or when a packet arrives again, is one that
\* the listener has sent it; and the listener sends the text of one minute.
CookieInv ==
    /\ \A p \in net : p.kind = "request" /\ p.type = "confirm" => CookieSent(p.cookie)
    /\ \A p \in net : p.kind = "answer" /\ p.type = "cookie" =>
           /\ p.isn \in 1 .. calls /\ p = Cookie(p.cookie, p.isn)
           /\ \E t \in Int : p.cookie = CookieText(t)
    /\ req.type = "confirm" => CookieSent(req.cookie)

\* A step that sends no cookie and takes none keeps it, if what it sends confirms at
\* most the cookie that the client has.
LEMMA CookieKept ==
    ASSUME CookieInv, net \subseteq net', calls \in Nat, calls' \in Nat, calls =< calls',
           req' = req \/ req'.type = "ask",
           \A p \in net' : p \in net \/ /\ p.kind = "request" /\ p.type = "confirm" => p = MyRequest
                                        /\ ~ (p.kind = "answer" /\ p.type = "cookie")
    PROVE  CookieInv'
<1>1. \A k : CookieSent(k) => CookieSent(k)'
    BY DEF CookieSent
<1>2. req'.type = "confirm" => CookieSent(req.cookie)'
    <2>1. req'.type = "confirm" => req' = req
        OBVIOUS
    <2>2. QED
        BY <1>1, <2>1 DEF CookieInv, CookieSent
<1>3. ASSUME NEW p \in net', p.kind = "request", p.type = "confirm"
      PROVE  CookieSent(p.cookie)'
    <2>1. CASE p \in net
        BY <1>1, <1>3, <2>1 DEF CookieInv
    <2>2. CASE p \notin net
        <3>1. p = MyRequest
            BY <1>3, <2>2
        <3>2. p.cookie = req.cookie /\ req.type = "confirm"
            BY <1>3, <3>1 DEF MyRequest, Request
        <3>3. QED
            BY <1>1, <3>2 DEF CookieInv
    <2>3. QED
        BY <2>1, <2>2
<1>4. ASSUME NEW p \in net', p.kind = "answer", p.type = "cookie"
      PROVE  /\ p.isn \in 1 .. calls' /\ p = Cookie(p.cookie, p.isn)
             /\ \E t \in Int : p.cookie = CookieText(t)
    <2>1. p \in net
        BY <1>4
    <2>2. /\ p.isn \in 1 .. calls /\ p = Cookie(p.cookie, p.isn)
          /\ \E t \in Int : p.cookie = CookieText(t)
        BY <1>4, <2>1 DEF CookieInv
    <2>3. QED
        BY <2>2
<1>5. QED
    BY <1>2, <1>3, <1>4 DEF CookieInv, CookieText, Cookie, CookieSent

\* connect(response) takes a cookie from a packet that the listener has sent.
LEMMA CookieTaken ==
    ASSUME ShakeInv, CookieInv, NEW p \in FromServer, p.kind = "answer", Answered(p),
           UNCHANGED <<net, calls>>
    PROVE  CookieInv'
<1>1. \A k : CookieSent(k)' <=> CookieSent(k)
    BY DEF CookieSent
<1>2. CASE p.type = "cookie"
    <2>1. req' = [type |-> "confirm", cookie |-> p.cookie]
        BY <1>2 DEF Answered
    <2>2. p \in net /\ p.isn \in 1 .. calls /\ p = Cookie(p.cookie, p.isn)
        BY <1>2 DEF FromServer, CookieInv
    <2>3. CookieSent(p.cookie)
        BY <2>2 DEF CookieSent
    <2>4. CookieSent(req.cookie)'
        BY <1>1, <2>1, <2>3 DEF CookieSent
    <2>5. QED
        BY <1>1, <2>4 DEF CookieInv, CookieText, Cookie, CookieSent
<1>3. CASE p.type # "cookie"
    <2>1. req' = req
        BY <1>3 DEF Answered
    <2>2. QED
        BY <1>1, <2>1 DEF CookieInv, CookieText, Cookie, CookieSent
<1>4. QED
    BY <1>2, <1>3

\* Every step keeps it.
LEMMA CookieStep == ShakeInv /\ CookieInv /\ [Next]_vars => CookieInv'
<1> SUFFICES ASSUME ShakeInv, CookieInv, [Next]_vars PROVE CookieInv'
    OBVIOUS
<1>0. calls \in Nat
    BY HandshakeAssumption DEF ShakeInv, ClientTypes
<1> USE DEF sock, shake, queue, call, steps, server
<1>1. CASE Connect
    <2>1. \/ UNCHANGED <<req, calls, net>>
          \/ /\ calls' = calls + 1 /\ req'.type = "ask"
             /\ net' = net \cup {Request("ask", req.cookie, calls')}
        BY <1>1 DEF Connect, ShakeInv, ClientTypes
    <2>2. QED
        BY <1>0, <2>1, CookieKept DEF Request
<1>2. CASE CallResend \/ WorkUpdate
    <2>1. net' = net \cup {MyRequest} /\ UNCHANGED <<req, calls>>
        BY <1>2 DEF CallResend, WorkUpdate, WorkRetry
    <2>2. QED
        BY <1>0, <2>1, CookieKept DEF MyRequest, Request
<1>3. CASE CallTake
    <2>1. CASE connecting /\ Head(stored).kind = "answer"
        <3>1. Head(stored) \in FromServer
            BY <1>3 DEF CallTake, ShakeInv, QueueTypes
        <3>2. Answered(Head(stored)) /\ UNCHANGED <<net, calls>>
            BY <1>3, <2>1 DEF CallTake
        <3>3. QED
            BY <2>1, <3>1, <3>2, CookieTaken
    <2>2. CASE ~ (connecting /\ Head(stored).kind = "answer")
        <3>1. UNCHANGED <<req, net, calls>>
            BY <1>3, <2>2 DEF CallTake, Return
        <3>2. QED
            BY <1>0, <3>1, CookieKept
    <2>3. QED
        BY <2>1, <2>2
<1>4. CASE WorkAnswer
    <2>1. PICK p \in net : Retrieved(p) /\ p.kind = "answer" /\ Answered(p)
        BY <1>4 DEF WorkAnswer
    <2>2. p \in FromServer /\ UNCHANGED <<net, calls>>
        BY <1>4, <2>1 DEF WorkAnswer, Retrieved
    <2>3. QED
        BY <2>1, <2>2, CookieTaken
<1>5. CASE ListenAsk
    <2>1. PICK p \in net : /\ p.kind = "request" /\ p.type = "ask"
                           /\ net' = net \cup {Cookie(CookieText(minute), p.isn)}
        BY <1>5 DEF ListenAsk
    <2>2. p.isn \in 1 .. calls /\ UNCHANGED <<req, calls>> /\ minute \in Int
        BY <1>5, <2>1, HandshakeAssumption DEF ListenAsk, ShakeInv, NetInv, ClientTypes
    <2>3. \A k : CookieSent(k) => CookieSent(k)'
        BY <2>1, <2>2 DEF CookieSent
    <2> DEFINE q == Cookie(CookieText(minute), p.isn)
    <2>4. /\ q.kind = "answer" /\ q.isn = p.isn /\ q.cookie = CookieText(minute)
          /\ q = Cookie(q.cookie, q.isn)
        BY DEF Cookie
    <2>5. \A r \in net' : r \in net \/ r = q
        BY <2>1
    <2> HIDE DEF q
    <2>6. \A r \in net' : r.kind = "request" /\ r.type = "confirm" => CookieSent(r.cookie)'
        BY <2>3, <2>4, <2>5 DEF CookieInv
    <2>7. \A r \in net' : r.kind = "answer" /\ r.type = "cookie" =>
              /\ r.isn \in 1 .. calls' /\ r = Cookie(r.cookie, r.isn)
              /\ \E t \in Int : r.cookie = CookieText(t)
        BY <2>2, <2>4, <2>5 DEF CookieInv
    <2>8. req'.type = "confirm" => CookieSent(req.cookie)'
        BY <2>2, <2>3 DEF CookieInv, CookieSent
    <2>9. QED
        BY <2>6, <2>7, <2>8 DEF CookieInv, CookieText, Cookie, CookieSent
<1>6. CASE \E p \in net : ListenConfirm(p)
    <2>1. /\ UNCHANGED <<req, calls>>
          /\ \E i, s : net' \in {net \cup {Accept(i, s)}, net \cup {Reject(s)}}
        BY <1>6 DEF ListenConfirm
    <2>2. QED
        BY <1>0, <2>1, CookieKept DEF Accept, Reject
<1>7. CASE ServerSend
    <2>1. UNCHANGED <<req, calls>> /\ \E i \in DOMAIN conns : net' = net \cup {Data(i)}
        BY <1>7 DEF ServerSend
    <2>2. QED
        BY <1>0, <2>1, CookieKept DEF Data
<1>8. CASE \/ CallExpire \/ PostStep \/ WorkStore \/ WorkTimeOut \/ WorkList \/ WorkUnlist
           \/ Expire \/ CloseFlag \/ CloseConnector \/ CloseDisconnect \/ CloseMove \/ Collect
           \/ ServerEnd \/ Tick \/ UNCHANGED vars
    <2>1. UNCHANGED <<req, calls, net>>
        BY <1>8 DEF CallExpire, Return, PostStep, PostRemove, PostFlag, PostComplete, WorkStore,
           WorkTimeOut, WorkExpire, WorkList, WorkUnlist, Expire, CloseFlag, CloseConnector,
           CloseDisconnect, CloseMove, Collect, ServerEnd, Tick, vars
    <2>2. QED
        BY <1>0, <2>1, CookieKept
<1>9. QED
    BY <1>1, <1>2, <1>3, <1>4, <1>5, <1>6, <1>7, <1>8 DEF Next, Running

\* A connection is only made for a confirmation, whose cookie was sent in this minute: what
\* the listener accepts besides is no text that it ever sends.
LEMMA FreshStep ==
    ASSUME ShakeInv, CookieInv, [Next]_vars, Len(conns') > Len(conns)
    PROVE  \E t \in {minute - 1, minute}, c \in 1 .. calls : Cookie(CookieText(t), c) \in net
<1> USE DEF sock, shake, queue, call, steps, server
<1>1. conns # conns'
    BY DEF ShakeInv, ConnsInv
<1>2. ~ ServerEnd
    <2> SUFFICES ASSUME ServerEnd PROVE FALSE
        OBVIOUS
    <2>1. PICK i \in DOMAIN conns : conns' = [conns EXCEPT ![i].state = "over"]
        BY DEF ServerEnd
    <2>2. Len(conns') = Len(conns)
        BY <2>1 DEF ShakeInv, ConnsInv
    <2>3. QED
        BY <2>2 DEF ShakeInv, ConnsInv
<1>3. \E p \in net : ListenConfirm(p)
    BY <1>1, <1>2 DEF Next, Running, vars, Connect, CallResend, CallTake, CallExpire, Return, PostStep,
       PostRemove, PostFlag, PostComplete, WorkStore, WorkAnswer, WorkUpdate, WorkRetry,
       WorkTimeOut, WorkExpire, WorkList, WorkUnlist, Expire, CloseFlag, CloseConnector,
       CloseDisconnect, CloseMove, Collect, ListenAsk, ServerSend, Tick
<1>4. PICK p \in net : ListenConfirm(p)
    BY <1>3
<1>5. CookieSent(p.cookie) /\ CookieGood(p.cookie)
    BY <1>4 DEF ListenConfirm, CookieInv
<1>6. PICK c \in 1 .. calls : Cookie(p.cookie, c) \in net
    BY <1>5 DEF CookieSent
<1>7. PICK t \in Int : p.cookie = CookieText(t)
    <2> DEFINE q == Cookie(p.cookie, c)
    <2>1. q.kind = "answer" /\ q.type = "cookie" /\ q.cookie = p.cookie
        BY DEF Cookie
    <2> HIDE DEF q
    <2>2. QED
        BY <1>6, <2>1 DEF CookieInv, q
<1>8. p.cookie = CookieText(minute)
    BY <1>5, <1>7 DEF CookieGood, CookieText
<1>9. QED
    BY <1>6, <1>8

\* CookieIsFresh: no connection is made for a client whose confirmation carries a cookie
\* of an earlier minute, however late and however often its packets arrive.
THEOREM CookieIsFreshAlways == Spec => CookieIsFresh
<1>1. Init => CookieInv
    BY DEF Init, CookieInv
<1>2. ShakeInv /\ CookieInv /\ [Next]_vars => CookieInv'
    BY CookieStep
<1>3. ShakeInv /\ CookieInv /\ [Next]_vars =>
          [Len(conns') > Len(conns) =>
              \E t \in {minute - 1, minute}, c \in 1 .. calls : Cookie(CookieText(t), c) \in net]_vars
    BY FreshStep
<1>4. QED
    BY <1>1, <1>2, <1>3, ShakeInvariant, PTL DEF Spec, CookieIsFresh
=============================================================================
