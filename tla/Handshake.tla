------------------------------ MODULE Handshake ------------------------------
(***************************************************************************)
(* Setting up a connection in the regular mode: a client socket that       *)
(* connects, once or again, and a listening socket.  On the client's host  *)
(* the application (connect, close), the receiving worker, which looks     *)
(* after the sockets that are connecting (CRendezvousQueue), and the       *)
(* garbage collector share the socket.  On the server's host the receiving *)
(* worker handles one request at a time.                                   *)
(*                                                                         *)
(* A packet that was sent stays in net: it may arrive at any time, again,  *)
(* or never.  A request and its answers carry the initial sequence number, *)
(* which connect() draws anew: here it is the number of the call.          *)
(***************************************************************************)
EXTENDS Integers, Sequences, FiniteSets

CONSTANTS
    Modes,          \* which values m_bSynRecving of the client may have
    MaxCalls,       \* bound of the model: calls of connect()
    MaxConns,       \* bound of the model: sockets the listener creates
    MaxStored,      \* packets kept for a waiting connect(), 17 in the code
    MaxMinute       \* bound of the model: changes of the cookie's secret

ASSUME HandshakeAssumption ==
    /\ Modes \subseteq BOOLEAN
    /\ {MaxCalls, MaxConns, MaxStored, MaxMinute} \subseteq Nat

VARIABLES
    \* the client's CUDTSocket and CUDT
    blocking,       \* m_bSynRecving
    status,         \* m_Status; CLOSED is also: not in m_Sockets any more
    closing, connecting, connected,
    listed,         \* "no", "new" in m_vNewEntry, "yes" in CRcvUList and CHash
    gone,           \* deleted
    req,            \* m_ConnReq: its type and its cookie
    res,            \* m_ConnRes
    peer,           \* m_PeerID
    calls,          \* calls of connect() so far
    late,           \* those whose time to live is over
    entries,        \* m_lRendezvousID: the calls that have an entry, in order
    stored,         \* m_mBuffer: packets for a waiting connect()
    callPc, result, \* the call of connect()
    post,           \* where connect(response) is, once an answer is accepted
    closePc,        \* the call of close()
    thrown,         \* an exception left connect(response), which may throw none
    \* the listener's host
    minute,         \* time since the listener started
    conns,          \* the sockets it has created for this client
    net

sock == <<status, closing, connecting, connected, listed, gone>>
shake == <<req, res, peer>>
queue == <<entries, stored>>
call == <<calls, callPc, result>>
steps == <<post, closePc, thrown>>
server == <<minute, conns>>
vars == <<blocking, sock, shake, late, queue, call, steps, server, net>>

-----------------------------------------------------------------------------
(* Packets.                                                                *)

\* Types 1 and -1 of a request, with cookie and sequence number.
Request(type, cookie, isn) == [kind |-> "request", type |-> type, cookie |-> cookie, isn |-> isn]
\* What the listener answers: a cookie, the socket created, or type 1002.
Cookie(cookie, isn) == [kind |-> "answer", type |-> "cookie", cookie |-> cookie, isn |-> isn]
Accept(id, isn) == [kind |-> "answer", type |-> "accept", id |-> id, isn |-> isn]
Reject(isn) == [kind |-> "answer", type |-> "reject", isn |-> isn]
\* Anything else the new socket sends to its peer.
Data(id) == [kind |-> "data", id |-> id]

MyRequest == Request(req.type, req.cookie, calls)
FromServer == {p \in net : p.kind \in {"answer", "data"}}

\* The cookie is the MD5 of a text that ends in the minute; the same texts have
\* the same MD5 and others have not.
CookieText(t) == <<t>>

-----------------------------------------------------------------------------
(* The client's application: connect().                                    *)

\* A call is refused on a socket that connects or is connected.  m_ConnRes keeps
\* what an earlier call received, and so does the cookie.
Connect ==
    /\ callPc = "out" /\ closePc = "out" /\ status = "OPENED"
    /\ IF connecting \/ connected
       THEN result' = "error" /\ UNCHANGED <<sock, shake, entries, calls, callPc, net>>
       ELSE /\ calls < MaxCalls
            /\ calls' = calls + 1
            /\ entries' = Append(entries, calls')
            /\ req' = [req EXCEPT !.type = "ask"]
            /\ net' = net \cup {Request("ask", req.cookie, calls')}
            /\ connecting' = TRUE /\ status' = "CONNECTING"
            /\ IF blocking THEN callPc' = "wait" /\ result' = "none"
                           ELSE callPc' = "out" /\ result' = "started"
            /\ UNCHANGED <<closing, connected, listed, gone, res, peer>>
    /\ UNCHANGED <<late, stored, steps, server>>

\* Mistake: the check of the sequence number is left out.
VerdictOfType(answer) == IF answer.type = "reject" THEN "error" ELSE "ok"

\* What connect() makes of the answers once its loop has ended without a timeout.
Verdict(answer) ==
    IF answer.type = "reject" \/ answer.isn # calls THEN "error" ELSE "ok"

\* The end of the call, where an error makes the socket OPENED again.
Return(verdict, now) ==
    /\ callPc' = "out" /\ result' = verdict
    /\ status' = IF verdict = "error" THEN "OPENED" ELSE now
    /\ UNCHANGED calls

\* One request every 250 ms.
CallResend ==
    /\ callPc = "wait" /\ post = "none"
    /\ net' = net \cup {MyRequest}
    /\ UNCHANGED <<sock, shake, late, queue, call, steps, server>>

\* connect(response), up to the jump to POST_CONNECT.  The type of the answer is
\* only compared with the one that brings a cookie.
Answered(p) ==
    /\ res' = [type |-> p.type, isn |-> p.isn, id |-> IF p.type = "accept" THEN p.id ELSE 0]
    /\ IF p.type = "cookie"
       THEN req' = [type |-> "confirm", cookie |-> p.cookie] /\ UNCHANGED post
       ELSE post' = "remove" /\ UNCHANGED req
    /\ UNCHANGED peer

\* The loop goes on after an answer with a cookie, ends for everything else, and
\* for an answer that is accepted it ends after the steps of POST_CONNECT.
CallTake ==
    /\ callPc = "wait" /\ post = "none" /\ stored # <<>>
    /\ stored' = Tail(stored)
    /\ IF connecting /\ Head(stored).kind = "answer"
       THEN Answered(Head(stored)) /\ UNCHANGED <<status, call>>
       ELSE Return(Verdict(res), status) /\ UNCHANGED <<shake, post>>
    /\ UNCHANGED <<closing, connecting, connected, listed, gone, late, entries, closePc, thrown,
                   server, net>>

\* Mistake: the time limit ends when the first answer arrives.
CallExpireAsking ==
    /\ callPc = "wait" /\ post = "none" /\ calls \in late /\ req.type = "ask"
    /\ Return("error", status)
    /\ UNCHANGED <<closing, connecting, connected, listed, gone, shake, late, queue, steps, server, net>>

\* Mistake: the entry is taken away as well, and with it who would clear connecting.
CallExpireRemoving ==
    /\ callPc = "wait" /\ post = "none" /\ calls \in late
    /\ Return("error", status)
    /\ entries' = SubSeq(entries, 2, Len(entries)) /\ stored' = <<>>
    /\ UNCHANGED <<closing, connecting, connected, listed, gone, shake, late, steps, server, net>>

CallExpire ==
    /\ callPc = "wait" /\ post = "none" /\ calls \in late
    /\ Return("error", status)
    /\ UNCHANGED <<closing, connecting, connected, listed, gone, shake, late, queue, steps, server, net>>

-----------------------------------------------------------------------------
(* POST_CONNECT: by the caller of a blocking connect(), by the worker for  *)
(* the others.  m_ConnectionLock is not held.                              *)

\* removeConnector erases the first entry of the socket, if any, and the packets kept.
RemoveConnector ==
    /\ entries' = SubSeq(entries, 2, Len(entries))
    /\ stored' = <<>>

PostRemove ==
    /\ post = "remove"
    /\ RemoveConnector
    /\ peer' = res.id
    /\ post' = "flag"
    /\ UNCHANGED <<sock, req, res, late, call, closePc, thrown, server, net>>

PostFlag ==
    /\ post = "flag"
    /\ connecting' = FALSE /\ connected' = TRUE /\ listed' = "new"
    /\ post' = "complete"
    /\ UNCHANGED <<status, closing, gone, shake, late, queue, call, closePc, thrown, server, net>>

\* connect_complete throws when the socket is closed.
PostComplete ==
    /\ post = "complete"
    /\ post' = "none"
    /\ thrown' = (status = "CLOSED")
    /\ LET now == IF status = "CLOSED" THEN status ELSE "CONNECTED" IN
         IF blocking THEN Return(Verdict(res), now) ELSE status' = now /\ UNCHANGED call
    /\ UNCHANGED <<closing, connecting, connected, listed, gone, shake, late, queue, closePc, server, net>>

-----------------------------------------------------------------------------
(* The client's receiving worker.  While it is in connect(response) it     *)
(* does nothing else.                                                      *)

WorkerFree == blocking \/ post = "none"

\* A packet for a socket that is not in the hash table goes to the first entry.
Retrieved(p) == p \in FromServer /\ WorkerFree /\ listed # "yes" /\ entries # <<>>

\* Mistake: any number of packets is kept.
WorkStoreAll ==
    /\ blocking
    /\ \E p \in net : Retrieved(p) /\ stored' = Append(stored, p)
    /\ UNCHANGED <<sock, shake, late, entries, call, steps, server, net>>

WorkStore ==
    /\ blocking /\ Len(stored) < MaxStored
    /\ \E p \in net : Retrieved(p) /\ stored' = Append(stored, p)
    /\ UNCHANGED <<sock, shake, late, entries, call, steps, server, net>>

WorkAnswer ==
    /\ ~ blocking /\ connecting
    /\ \E p \in net : Retrieved(p) /\ p.kind = "answer" /\ Answered(p)
    /\ UNCHANGED <<sock, late, queue, call, closePc, thrown, server, net>>

\* updateConnStatus, one entry: a request again, or the end of its time.
WorkRetry(c) ==
    /\ WorkerFree /\ c \notin late
    /\ net' = net \cup {MyRequest}
    /\ UNCHANGED <<sock, shake, late, queue, call, steps, server>>

WorkExpire(c) ==
    /\ WorkerFree /\ c \in late
    /\ connecting' = FALSE
    /\ UNCHANGED <<status, closing, connected, listed, gone, shake, late, queue, call, steps, server, net>>

WorkUpdate == \E i \in 1 .. Len(entries) : WorkRetry(entries[i])
WorkTimeOut == \E i \in 1 .. Len(entries) : WorkExpire(entries[i])

\* A new entry goes into the lists.
WorkList ==
    /\ WorkerFree /\ listed = "new"
    /\ listed' = "yes"
    /\ UNCHANGED <<status, closing, connecting, connected, gone, shake, late, queue, call, steps, server,
                   net>>

\* One that is over leaves them.
WorkUnlist ==
    /\ WorkerFree /\ listed = "yes" /\ (~ connected \/ closing)
    /\ listed' = "no"
    /\ UNCHANGED <<status, closing, connecting, connected, gone, shake, late, queue, call, steps, server,
                   net>>

\* The time to live of a call is over (3 s).
Expire ==
    /\ \E c \in 1 .. calls : late' = late \cup {c}
    /\ UNCHANGED <<sock, shake, queue, call, steps, server, net>>

-----------------------------------------------------------------------------
(* close(), and the garbage collector.  A blocking connect() holds the     *)
(* lock of the socket that close() takes (CUDTSocket::m_ControlLock).      *)

CloseFlag ==
    /\ closePc = "out" /\ callPc = "out" /\ status # "CLOSED"
    /\ closing' = TRUE
    /\ closePc' = "connector"
    /\ UNCHANGED <<status, connecting, connected, listed, gone, shake, late, queue, call, post, thrown,
                   server, net>>

CloseConnector ==
    /\ closePc = "connector"
    /\ IF connecting THEN RemoveConnector ELSE UNCHANGED queue
    /\ closePc' = "disconnect"
    /\ UNCHANGED <<sock, shake, late, call, post, thrown, server, net>>

CloseDisconnect ==
    /\ closePc = "disconnect"
    /\ connected' = FALSE
    /\ closePc' = "move"
    /\ UNCHANGED <<status, closing, connecting, listed, gone, shake, late, queue, call, post, thrown,
                   server, net>>

CloseMove ==
    /\ closePc = "move"
    /\ status' = "CLOSED"
    /\ closePc' = "closed"
    /\ UNCHANGED <<closing, connecting, connected, listed, gone, shake, late, queue, call, post, thrown,
                   server, net>>

\* A second after the socket was closed, which is taken to be longer than the
\* worker stays in connect(response).
Collect ==
    /\ closePc = "closed" /\ listed = "no" /\ post = "none"
    /\ gone' = TRUE
    /\ UNCHANGED <<status, closing, connecting, connected, listed, shake, late, queue, call, steps, server,
                   net>>

-----------------------------------------------------------------------------
(* The listener's host.                                                    *)

\* Mistake: any cookie will do.
CookieAny(cookie) == TRUE

\* The texts whose MD5 the listener accepts: for the minute before, the text is
\* written behind the one of this minute.
CookieGood(cookie) == cookie \in {CookieText(minute), CookieText(minute) \o CookieText(minute - 1)}

ListenAsk ==
    /\ \E p \in net : /\ p.kind = "request" /\ p.type = "ask"
                      /\ net' = net \cup {Cookie(CookieText(minute), p.isn)}
    /\ UNCHANGED <<sock, shake, late, queue, call, steps, server>>

Live(i) == conns[i].state = "live"

\* Mistake: no connection is recognised.
KnownNever(isn) == {}

\* newConnection: an answer again, another one when the old one has broken, or
\* a refusal when too many wait to be accepted (or the versions differ).
Known(isn) == {i \in DOMAIN conns : Live(i) /\ conns[i].isn = isn}

ListenConfirm(p) ==
    /\ p.kind = "request" /\ p.type = "confirm" /\ CookieGood(p.cookie)
    /\ IF Known(p.isn) # {}
       THEN /\ \E i \in Known(p.isn) : net' = net \cup {Accept(i, p.isn)}
            /\ UNCHANGED conns
       ELSE \/ net' = net \cup {Reject(p.isn)} /\ UNCHANGED conns
            \/ /\ Len(conns) < MaxConns
               /\ conns' = Append(conns, [isn |-> p.isn, state |-> "live"])
               /\ net' = net \cup {Accept(Len(conns'), p.isn)}
    /\ UNCHANGED <<sock, shake, late, queue, call, steps, minute>>

\* The new socket sends something to its peer.
ServerSend ==
    /\ \E i \in DOMAIN conns : Live(i) /\ net' = net \cup {Data(i)}
    /\ UNCHANGED <<sock, shake, late, queue, call, steps, server>>

\* It breaks, after a silence or a shutdown, or is closed.
ServerEnd ==
    /\ \E i \in DOMAIN conns : Live(i) /\ conns' = [conns EXCEPT ![i].state = "over"]
    /\ UNCHANGED <<sock, shake, late, queue, call, steps, minute, net>>

Tick ==
    /\ minute < MaxMinute
    /\ minute' = minute + 1
    /\ UNCHANGED <<sock, shake, late, queue, call, steps, conns, net>>

-----------------------------------------------------------------------------
Init ==
    /\ blocking \in Modes
    /\ status = "OPENED" /\ closing = FALSE /\ connecting = FALSE /\ connected = FALSE
    /\ listed = "no" /\ gone = FALSE
    /\ req = [type |-> "ask", cookie |-> <<>>] /\ res = [type |-> "none", isn |-> 0, id |-> 0]
    /\ peer = 0 /\ calls = 0 /\ late = {} /\ entries = <<>> /\ stored = <<>>
    /\ callPc = "out" /\ result = "none" /\ post = "none" /\ closePc = "out" /\ thrown = FALSE
    /\ minute = 0 /\ conns = <<>> /\ net = {}

PostStep == PostRemove \/ PostFlag \/ PostComplete

\* An exception that leaves connect(response) ends the program.
Running(action) == ~ thrown /\ action /\ UNCHANGED blocking

Next == Running(
    \/ Connect \/ CallResend \/ CallTake \/ CallExpire \/ PostStep
    \/ WorkStore \/ WorkAnswer \/ WorkUpdate \/ WorkTimeOut \/ WorkList \/ WorkUnlist \/ Expire
    \/ CloseFlag \/ CloseConnector \/ CloseDisconnect \/ CloseMove \/ Collect
    \/ ListenAsk \/ (\E p \in net : ListenConfirm(p)) \/ ServerSend \/ ServerEnd \/ Tick)

Spec == Init /\ [][Next]_vars

\* Time passes, a thread in connect() goes on and the worker looks at its entries.
\* Nothing is assumed about the network and the server.
FairSpec ==
    /\ Spec
    /\ WF_vars(Running(Expire)) /\ WF_vars(Running(WorkTimeOut))
    /\ WF_vars(Running(CallTake)) /\ WF_vars(Running(CallExpire)) /\ WF_vars(Running(PostStep))

-----------------------------------------------------------------------------
(* Properties.                                                             *)

\* Every variable has its type, an established connection is listed, and no
\* call has more than one entry among those that are connecting.
TypeOK ==
    /\ status \in {"OPENED", "CONNECTING", "CONNECTED", "CLOSED"}
    /\ blocking \in Modes /\ {closing, connecting, connected, gone, thrown} \subseteq BOOLEAN
    /\ listed \in {"no", "new", "yes"}
    /\ req.type \in {"ask", "confirm"} /\ res.type \in {"none", "cookie", "accept", "reject"}
    /\ calls \in 0 .. MaxCalls /\ late \subseteq 1 .. calls
    /\ entries \in Seq(1 .. calls) /\ \A i, j \in DOMAIN entries : i < j => entries[i] < entries[j]
    /\ stored \in Seq(FromServer) /\ Len(stored) =< MaxStored
    /\ callPc \in {"out", "wait"} /\ result \in {"none", "started", "ok", "error"}
    /\ post \in {"none", "remove", "flag", "complete"}
    /\ closePc \in {"out", "connector", "disconnect", "move", "closed"}
    /\ minute \in 0 .. MaxMinute /\ peer \in 0 .. Len(conns)
    /\ \A i \in DOMAIN conns : conns[i] \in [isn : 1 .. calls, state : {"live", "over"}]

\* However often its requests arrive, a call of connect() has at most one
\* connection at the listener that is not over.
OneConnection == \A i, j \in DOMAIN conns :
    Live(i) /\ Live(j) /\ conns[i].isn = conns[j].isn => i = j

\* A connect() that succeeded and a connection that was made mean the same
\* thing: the peer is a socket the listener created for this very call, not for
\* an earlier one whose answer came late.
SuccessAgrees ==
    result = "ok" /\ connected =>
        peer \in DOMAIN conns /\ conns[peer].isn = calls

\* The listener creates no socket for a client that it has not sent a cookie in
\* this minute or the one before: an old request that arrives again, with a
\* cookie that was good then, is not enough.
CookieIsFresh ==
    [][Len(conns') > Len(conns) =>
           \E t \in {minute - 1, minute}, c \in 1 .. calls : Cookie(CookieText(t), c) \in net]_vars

\* connect() returns, whatever the server and the network do.
CallReturns == callPc = "wait" ~> callPc = "out"

\* A socket does not stay connecting, where connect() is refused: somebody clears
\* the flag, the call, the worker or (by forgetting the socket) close().
ConnectingEnds == connecting ~> ~ connecting \/ closing

\* "If success, 0 is returned; otherwise, UDT::ERROR is returned" (connect.htm).
SuccessIsConnected == result = "ok" /\ closePc = "out" => connected

\* Complete in the background means complete (connect.htm): a socket that is
\* CONNECTED was not refused by the peer.
CompletedIsAccepted == status = "CONNECTED" /\ callPc = "out" => res.type # "reject"

\* A closed socket is kept for a while "in order to prevent other methods from
\* accessing invalid address" (api.cpp:850): no entry leads to a deleted one.
NoEntryOfTheDead == gone => entries = <<>>

\* "secret changes every one minute" (core.cpp:2465): a cookie is accepted until
\* the next change but one.
CookieLivesAMinute == \A t \in 0 .. minute : minute - t =< 1 => CookieGood(CookieText(t))
=============================================================================
