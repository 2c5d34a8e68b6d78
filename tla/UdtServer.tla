----------------------------- MODULE UdtServer ------------------------------
(***************************************************************************)
(* The echo server of server_udt on top of the library's epoll: one thread *)
(* waits, reads what is readable into a queue per connection, and sends    *)
(* from the queues to what is writable.  It asks for writability only      *)
(* while it has something to send, by taking the socket out of the epoll   *)
(* and putting it back.                                                    *)
(*                                                                         *)
(* The library is seen through what it does to the epoll table (CEPoll):   *)
(* the receive-queue thread announces messages, room and failures, one at  *)
(* a time and after the fact; the collector destroys broken sockets.  A    *)
(* call of the library is cut where it looks first and signals later.      *)
(* Messages are numbered by their client.                                  *)
(***************************************************************************)
EXTENDS CEPoll, Sequences

CONSTANTS
    Listener,  \* listen_sock_
    Quota,     \* messages each client sends
    SndMax     \* m_iSndBufSize, in messages

Conns == Socks \ {Listener}

ASSUME UdtServerAssumption ==
    /\ Listener \in Socks /\ MaxPolls = 1
    /\ Quota \in [Conns -> Nat] /\ SndMax \in Nat \ {0}

VARIABLES
    link,      \* a connection: "none", "queued" (m_pQueuedSockets), "open"
               \* (accepted), "closed" (m_ClosedSockets), "gone" (deleted)
    broken,    \* sockets with m_bBroken
    silent,    \* ... those given up because the peer was silent
    polled,    \* sockets with udt_eid_ in their m_sPollID
    arrived,   \* messages acknowledged in the receive buffer so far
    taken,     \* ... and read by recvmsg
    sndBuf,    \* messages in the library's send buffer
    echoed,    \* messages the client has got back
    rcvq,      \* the receive-queue thread: the socket, and what it will announce
    muted,     \* auxiliary: sockets whose readiness a call has taken away although
               \* there is data, room or a failure to report
    srv,       \* the server's thread
    readfds, writefds,
    msgBuf,    \* SendMsgBuf: the queue of each connection
    withWrite  \* events_with_write_

libVars == <<link, broken, silent, arrived, echoed>>
queueVars == <<msgBuf, withWrite>>
fdVars == <<readfds, writefds>>
serverVars == <<epollVars, libVars, polled, taken, sndBuf, rcvq, muted, srv, fdVars, queueVars>>

NoWork == [sock |-> Listener, what |-> {}]
At(p) == srv.pc = p
Do(p, u) == [pc |-> p, u |-> u, msg |-> 0, more |-> FALSE, ev |-> {}]
Goto(p) == srv' = [srv EXCEPT !.pc = p]

UdtServerInit ==
    /\ idSeed = 1 /\ mPolls = {1}
    /\ socksIn = [e \in Eids |-> {Listener}]
    /\ socksOut = NoSocks /\ reads = NoSocks /\ writes = NoSocks
    /\ link = [u \in Conns |-> "none"] /\ broken = {} /\ silent = {}
    /\ polled = {Listener} /\ muted = {}
    /\ arrived = [u \in Conns |-> 0] /\ taken = [u \in Conns |-> 0]
    /\ sndBuf = [u \in Conns |-> <<>>] /\ echoed = [u \in Conns |-> <<>>]
    /\ rcvq = NoWork
    /\ srv = Do("wait", Listener) /\ readfds = {} /\ writefds = {}
    /\ msgBuf = [u \in Conns |-> <<>>] /\ withWrite = {}

PollIDs(u) == IF u \in polled THEN {1} ELSE {}
Located(u) == u = Listener \/ link[u] \in {"queued", "open"}
Works(u) == link[u] \in {"queued", "open"} /\ u \notin broken
Unread(u) == arrived[u] - taken[u]

-----------------------------------------------------------------------------
(* The library's threads.                                                  *)

\* newConnection: the socket is queued, the listener readable.
Connect(u) ==
    /\ rcvq = NoWork /\ link[u] = "none"
    /\ link' = [link EXCEPT ![u] = "queued"]
    /\ EnableRead(Listener, PollIDs(Listener))
    /\ UNCHANGED <<broken, silent, polled, arrived, taken, sndBuf, echoed, rcvq, muted,
                   srv, fdVars, queueVars>>

\* A whole message is acknowledged.
Arrive(u) ==
    /\ rcvq = NoWork /\ Works(u) /\ arrived[u] < Quota[u]
    /\ arrived' = [arrived EXCEPT ![u] = @ + 1]
    /\ rcvq' = [sock |-> u, what |-> {"in"}]
    /\ UNCHANGED <<epollVars, link, broken, silent, polled, taken, sndBuf, echoed, muted,
                   srv, fdVars, queueVars>>

\* The client has got a message and acknowledges it.
Ack(u) ==
    /\ rcvq = NoWork /\ Works(u) /\ sndBuf[u] # <<>>
    /\ echoed' = [echoed EXCEPT ![u] = Append(@, Head(sndBuf[u]))]
    /\ sndBuf' = [sndBuf EXCEPT ![u] = Tail(@)]
    /\ rcvq' = [sock |-> u, what |-> {"out"}]
    /\ UNCHANGED <<epollVars, link, broken, silent, polled, arrived, taken, muted,
                   srv, fdVars, queueVars>>

\* The client closes its end: nobody is told.
PeerShutdown(u) ==
    /\ rcvq = NoWork /\ Works(u)
    /\ broken' = broken \cup {u}
    /\ UNCHANGED <<epollVars, link, silent, polled, arrived, taken, sndBuf, echoed, rcvq,
                   muted, srv, fdVars, queueVars>>

\* Mutant of PeerSilent: it breaks the socket as PeerShutdown does.
PeerSilentUnannounced(u) ==
    /\ rcvq = NoWork /\ Works(u)
    /\ broken' = broken \cup {u} /\ silent' = silent \cup {u}
    /\ UNCHANGED rcvq
    /\ UNCHANGED <<epollVars, link, polled, arrived, taken, sndBuf, echoed, muted,
                   srv, fdVars, queueVars>>

\* The client has been silent for too long.
PeerSilent(u) ==
    /\ rcvq = NoWork /\ Works(u)
    /\ broken' = broken \cup {u} /\ silent' = silent \cup {u}
    /\ rcvq' = [sock |-> u, what |-> {"in", "out"}]
    /\ UNCHANGED <<epollVars, link, polled, arrived, taken, sndBuf, echoed, muted,
                   srv, fdVars, queueVars>>

AnnounceRead ==
    /\ "in" \in rcvq.what
    /\ EnableRead(rcvq.sock, PollIDs(rcvq.sock))
    /\ rcvq' = IF rcvq.what = {"in"} THEN NoWork ELSE [rcvq EXCEPT !.what = @ \ {"in"}]
    /\ UNCHANGED <<libVars, polled, taken, sndBuf, muted, srv, fdVars, queueVars>>

AnnounceWrite ==
    /\ rcvq.what = {"out"}
    /\ EnableWrite(rcvq.sock, PollIDs(rcvq.sock))
    /\ rcvq' = NoWork
    /\ UNCHANGED <<libVars, polled, taken, sndBuf, muted, srv, fdVars, queueVars>>

\* checkBrokenSockets: the socket can no longer be located.
Collect(u) ==
    /\ u \in broken /\ link[u] \in {"queued", "open"}
    /\ link' = [link EXCEPT ![u] = "closed"]
    /\ UNCHANGED <<epollVars, broken, silent, polled, arrived, taken, sndBuf, echoed, rcvq,
                   muted, srv, fdVars, queueVars>>

\* Mutant of Destroy: the epolls keep the socket.
DestroyOnly(u) ==
    /\ link[u] = "closed" /\ rcvq.sock # u /\ (srv.u # u \/ At("wait"))
    /\ link' = [link EXCEPT ![u] = "gone"]
    /\ polled' = polled \ {u}
    /\ UNCHANGED <<epollVars, broken, silent, arrived, taken, sndBuf, echoed, rcvq, muted,
                   srv, fdVars, queueVars>>

\* removeSocket, a second later, when no call on the socket is under way: close
\* takes it from the epolls it knows of.
Destroy(u) ==
    /\ link[u] = "closed" /\ rcvq.sock # u /\ (srv.u # u \/ At("wait"))
    /\ link' = [link EXCEPT ![u] = "gone"]
    /\ polled' = polled \ {u}
    /\ IF u \in polled THEN RemoveUsock(1, u) ELSE UNCHANGED epollVars
    /\ UNCHANGED <<broken, silent, arrived, taken, sndBuf, echoed, rcvq, muted,
                   srv, fdVars, queueVars>>

-----------------------------------------------------------------------------
(* The calls the server makes.                                             *)

\* epoll_add_usock: locate, add_usock and the registration in addEPoll ...
AddToPoll ==
    /\ At("add")
    /\ IF Located(srv.u)
       THEN /\ AddUsock(1, srv.u, srv.ev) /\ polled' = polled \cup {srv.u}
            /\ Goto("addCheck")
       ELSE Goto("turn") /\ UNCHANGED <<epollVars, polled>>
    /\ UNCHANGED <<libVars, taken, sndBuf, rcvq, muted, fdVars, queueVars>>

\* ... then its look at the buffers, which it spares a broken socket.
AddCheck ==
    /\ At("addCheck")
    /\ IF srv.u \in broken
       THEN muted' = muted \cup {srv.u} /\ UNCHANGED epollVars
       ELSE /\ reads' = IF Unread(srv.u) > 0 THEN [reads EXCEPT ![1] = @ \cup {srv.u}] ELSE reads
            /\ writes' = IF Len(sndBuf[srv.u]) < SndMax /\ srv.u \in socksOut[1]
                         THEN [writes EXCEPT ![1] = @ \cup {srv.u}] ELSE writes
            /\ UNCHANGED <<idSeed, mPolls, socksIn, socksOut, muted>>
    /\ Goto("turn")
    /\ UNCHANGED <<libVars, polled, taken, sndBuf, rcvq, fdVars, queueVars>>

\* epoll_remove_usock, which never fails.
Unwatch(u) ==
    /\ RemoveUsock(1, u) /\ polled' = polled \ {u}

\* recvmsg without waiting, up to its last look at the receive buffer.
Recvmsg(u) ==
    LET n == taken[u] + 1
        msg == IF Unread(u) > 0 THEN n ELSE 0
    IN IF ~Located(u)
       THEN srv' = Do("lost", u) /\ UNCHANGED taken
       ELSE /\ taken' = [taken EXCEPT ![u] = IF msg = 0 THEN @ ELSE n]
            /\ srv' = [pc |-> IF Unread(u) > 1 THEN "queue"
                              ELSE IF msg > 0 THEN "disQueue"
                              ELSE IF u \in broken THEN "disLost" ELSE "disNext",
                       u |-> u, msg |-> msg, more |-> Unread(u) > 1, ev |-> {}]

\* recvmsg ends with disable_read when it has seen no further message.
RecvDisable ==
    /\ srv.pc \in {"disQueue", "disLost", "disNext"}
    /\ DisableRead(srv.u, PollIDs(srv.u))
    /\ muted' = IF Unread(srv.u) > 0 \/ srv.u \in broken THEN muted \cup {srv.u} ELSE muted
    /\ Goto(CASE At("disQueue") -> "queue" [] At("disLost") -> "lost"
              [] OTHER -> "turn")
    /\ UNCHANGED <<libVars, polled, taken, sndBuf, rcvq, fdVars, queueVars>>

\* sendmsg ends with disable_write when it has seen the buffer full.
SendDisable ==
    /\ At("disSend")
    /\ DisableWrite(srv.u, PollIDs(srv.u))
    /\ muted' = IF Len(sndBuf[srv.u]) < SndMax \/ srv.u \in broken THEN muted \cup {srv.u} ELSE muted
    /\ Goto("send")
    /\ UNCHANGED <<libVars, polled, taken, sndBuf, rcvq, fdVars, queueVars>>

-----------------------------------------------------------------------------
(* The server's loop.                                                      *)

\* epoll_wait returns copies of what is ready; with nothing ready it waits.
Wait ==
    /\ At("wait") /\ reads[1] \cup writes[1] # {}
    /\ readfds' = reads[1] /\ writefds' = writes[1]
    /\ srv' = Do("turn", Listener)
    /\ UNCHANGED <<epollVars, libVars, polled, taken, sndBuf, rcvq, muted, queueVars>>

TurnOver ==
    /\ At("turn") /\ readfds = {} /\ writefds = {} /\ ~srv.more
    /\ srv' = Do("wait", Listener)
    /\ UNCHANGED <<epollVars, libVars, polled, taken, sndBuf, rcvq, muted, fdVars, queueVars>>

\* HandleReadFds, the listener: one connection is accepted in a turn.  The library
\* makes the listener unreadable when its queue is empty.
HandleListener ==
    /\ At("turn") /\ Listener \in readfds /\ ~srv.more
    /\ readfds' = readfds \ {Listener}
    /\ LET queued == {u \in Conns : link[u] = "queued"}
       IN /\ IF queued = {} THEN srv' = Do("turn", Listener) /\ UNCHANGED link
             ELSE \E u \in queued : /\ link' = [link EXCEPT ![u] = "open"]
                                    /\ srv' = [Do("add", u) EXCEPT !.ev = {"in"}]
          /\ IF \E u \in Conns : link'[u] = "queued" THEN UNCHANGED epollVars
             ELSE DisableRead(Listener, PollIDs(Listener))
    /\ UNCHANGED <<broken, silent, arrived, echoed, polled, taken, sndBuf, rcvq, muted,
                   writefds, queueVars>>

\* HandleReadFds, a connection: RecvMsg ...
HandleRead(u) ==
    /\ At("turn") /\ u # Listener
    /\ IF srv.more THEN u = srv.u /\ UNCHANGED readfds
       ELSE u \in readfds /\ readfds' = readfds \ {u}
    /\ Recvmsg(u)
    /\ UNCHANGED <<epollVars, libVars, polled, sndBuf, rcvq, muted, writefds, queueVars>>

\* ... which takes a socket that has failed out of the epoll ...
DropReader ==
    /\ At("lost")
    /\ Unwatch(srv.u)
    /\ srv' = Do("turn", Listener)
    /\ UNCHANGED <<libVars, taken, sndBuf, rcvq, muted, fdVars, queueVars>>

\* Mutant of AddMsgToSendBuf: while further messages wait, writing is not watched.
AddMsgUnwatched ==
    /\ At("queue")
    /\ msgBuf' = [msgBuf EXCEPT ![srv.u] = Append(@, srv.msg)]
    /\ withWrite' = withWrite \cup {srv.u}
    /\ srv' = [srv EXCEPT !.pc = IF srv.u \in withWrite \/ msgBuf[srv.u] # <<>> \/ srv.more
                                 THEN "turn" ELSE "add",
                          !.msg = 0, !.ev = {"in", "out"}]
    /\ UNCHANGED <<epollVars, libVars, polled, taken, sndBuf, rcvq, muted, fdVars>>

\* ... and AddMsgToSendBuf: from the first message on the socket is watched for
\* writing.
AddMsgToSendBuf ==
    /\ At("queue")
    /\ msgBuf' = [msgBuf EXCEPT ![srv.u] = Append(@, srv.msg)]
    /\ withWrite' = withWrite \cup {srv.u}
    /\ srv' = [srv EXCEPT !.pc = IF srv.u \in withWrite THEN "turn" ELSE "add",
                          !.msg = 0, !.ev = {"in", "out"}]
    /\ UNCHANGED <<epollVars, libVars, polled, taken, sndBuf, rcvq, muted, fdVars>>

\* TrySendMsg, when the reads are done, socket by socket.
StartSending(u) ==
    /\ At("turn") /\ ~srv.more /\ readfds = {} /\ u \in writefds
    /\ writefds' = writefds \ {u}
    /\ srv' = Do("send", u)
    /\ UNCHANGED <<epollVars, libVars, polled, taken, sndBuf, rcvq, muted, readfds, queueVars>>

\* TrySendMsgOfOneSock with nothing left: TryRemoveWriteEvent.
NothingToSend ==
    /\ At("send") /\ msgBuf[srv.u] = <<>>
    /\ IF srv.u \in withWrite
       THEN /\ withWrite' = withWrite \ {srv.u} /\ Unwatch(srv.u)
            /\ srv' = [Do("add", srv.u) EXCEPT !.ev = {"in"}]
       ELSE Goto("turn") /\ UNCHANGED <<epollVars, polled, withWrite>>
    /\ UNCHANGED <<libVars, taken, sndBuf, rcvq, muted, fdVars, msgBuf>>

\* sendmsg, no room: the message stays at the head of its queue.
SendRefused ==
    /\ At("send") /\ msgBuf[srv.u] # <<>>
    /\ Located(srv.u) /\ srv.u \notin broken /\ Len(sndBuf[srv.u]) = SndMax
    /\ Goto("turn")
    /\ UNCHANGED <<epollVars, libVars, polled, taken, sndBuf, rcvq, muted, fdVars, queueVars>>

\* Mutant of SendAccepted: the message is popped before the answer is looked at.
SendAcceptedWhenFull ==
    /\ At("send") /\ msgBuf[srv.u] # <<>>
    /\ Located(srv.u) /\ srv.u \notin broken
    /\ sndBuf' = IF Len(sndBuf[srv.u]) < SndMax
                 THEN [sndBuf EXCEPT ![srv.u] = Append(@, Head(msgBuf[srv.u]))] ELSE sndBuf
    /\ msgBuf' = [msgBuf EXCEPT ![srv.u] = Tail(@)]
    /\ Goto(IF Len(sndBuf'[srv.u]) = SndMax THEN "disSend" ELSE "send")
    /\ UNCHANGED <<epollVars, libVars, polled, taken, rcvq, muted, fdVars, withWrite>>

\* Mutant of SendAccepted: sendmsg does not ask for room.
SendOverfull ==
    /\ At("send") /\ msgBuf[srv.u] # <<>>
    /\ Located(srv.u) /\ srv.u \notin broken
    /\ sndBuf' = [sndBuf EXCEPT ![srv.u] = Append(@, Head(msgBuf[srv.u]))]
    /\ msgBuf' = [msgBuf EXCEPT ![srv.u] = Tail(@)]
    /\ UNCHANGED <<epollVars, libVars, polled, taken, rcvq, muted, srv, fdVars, withWrite>>

\* sendmsg, room: PopMsg, and on with the next message.
SendAccepted ==
    /\ At("send") /\ msgBuf[srv.u] # <<>>
    /\ Located(srv.u) /\ srv.u \notin broken /\ Len(sndBuf[srv.u]) < SndMax
    /\ sndBuf' = [sndBuf EXCEPT ![srv.u] = Append(@, Head(msgBuf[srv.u]))]
    /\ msgBuf' = [msgBuf EXCEPT ![srv.u] = Tail(@)]
    /\ Goto(IF Len(sndBuf'[srv.u]) = SndMax THEN "disSend" ELSE "send")
    /\ UNCHANGED <<epollVars, libVars, polled, taken, rcvq, muted, fdVars, withWrite>>

\* Mutant of SendFailed: the queue is not cleaned.
SendFailedKeepsMessages ==
    /\ At("send") /\ msgBuf[srv.u] # <<>>
    /\ ~Located(srv.u) \/ srv.u \in broken
    /\ Unwatch(srv.u)
    /\ withWrite' = withWrite \ {srv.u} /\ UNCHANGED msgBuf
    /\ Goto("turn")
    /\ UNCHANGED <<libVars, taken, sndBuf, rcvq, muted, fdVars>>

\* sendmsg fails: HandleSendMsgError forgets the socket and its messages.
SendFailed ==
    /\ At("send") /\ msgBuf[srv.u] # <<>>
    /\ ~Located(srv.u) \/ srv.u \in broken
    /\ Unwatch(srv.u)
    /\ msgBuf' = [msgBuf EXCEPT ![srv.u] = <<>>]
    /\ withWrite' = withWrite \ {srv.u}
    /\ Goto("turn")
    /\ UNCHANGED <<libVars, taken, sndBuf, rcvq, muted, fdVars>>

-----------------------------------------------------------------------------
Announce == AnnounceRead \/ AnnounceWrite

ServerStep ==
    \/ Wait \/ TurnOver \/ HandleListener \/ DropReader \/ AddMsgToSendBuf
    \/ AddToPoll \/ AddCheck \/ RecvDisable \/ SendDisable
    \/ \E u \in Conns : HandleRead(u) \/ StartSending(u)
    \/ NothingToSend \/ SendRefused \/ SendAccepted \/ SendFailed

UdtServerNext ==
    \/ \E u \in Conns : \/ Connect(u) \/ Arrive(u) \/ Ack(u)
                        \/ PeerShutdown(u) \/ PeerSilent(u)
                        \/ Collect(u) \/ Destroy(u)
    \/ Announce
    \/ ServerStep

\* The threads run; what is sent is acknowledged in the end, unless the connection
\* breaks (run delivery); the collector comes round every second.
UdtServerSpec ==
    /\ UdtServerInit /\ [][UdtServerNext]_serverVars
    /\ WF_serverVars(ServerStep) /\ WF_serverVars(Announce)
    /\ \A u \in Conns : /\ SF_serverVars(Ack(u))
                        /\ WF_serverVars(Collect(u)) /\ WF_serverVars(Destroy(u))

-----------------------------------------------------------------------------
UdtServerTypeOK ==
    /\ EpollTypeOK
    /\ link \in [Conns -> {"none", "queued", "open", "closed", "gone"}]
    /\ broken \subseteq Conns /\ silent \subseteq broken /\ polled \subseteq Socks /\ muted \subseteq Conns
    /\ readfds \subseteq Socks /\ writefds \subseteq Conns /\ withWrite \subseteq Conns
    /\ \A u \in Conns : taken[u] \in 0..arrived[u] /\ arrived[u] \in 0..Quota[u]
                        /\ Len(sndBuf[u]) \in 0..SndMax

FirstN(n) == [i \in 1..n |-> i]
Held(u) == IF srv.u = u /\ srv.msg > 0 THEN <<srv.msg>> ELSE <<>>

\* While a connection works, the messages echoed, those in the library's buffer,
\* those in the server's queue and the one just read are, in this order, all that
\* was read, each once; what a client has got back is always a beginning of it.
EchoInOrder ==
    \A u \in Conns :
        /\ echoed[u] = FirstN(Len(echoed[u]))
        /\ Works(u) => echoed[u] \o sndBuf[u] \o msgBuf[u] \o Held(u) = FirstN(taken[u])

\* All is well formed, and between two turns the server's own books agree with the epoll: a connection that
\* works is watched for reading, and for writing exactly when it is listed in
\* events_with_write_; and any connection with messages queued is listed there.
BooksMatchEpoll ==
    /\ UdtServerTypeOK
    /\ At("wait") =>
        \A u \in Conns :
            /\ msgBuf[u] # <<>> => u \in withWrite
            /\ Works(u) /\ link[u] = "open" =>
                 u \in socksIn[1] /\ (u \in withWrite <=> u \in socksOut[1])

\* A peer that has fallen silent is reported to the server as long as its socket is
\* watched, unless a call has taken the report away: recvmsg or sendmsg at their
\* end, or addEPoll, which ignores broken sockets.
SilenceReported ==
    \A u \in silent : At("wait") /\ link[u] = "open" /\ rcvq.sock # u /\ u \in socksIn[1] =>
        u \in reads[1] \cup writes[1] \cup muted

\* Every message of a connection that keeps working is echoed, unless recvmsg or
\* sendmsg has taken a signal away.
EveryMessageEchoed ==
    \A u \in Conns : \A n \in 1..Quota[u] :
        arrived[u] >= n ~> Len(echoed[u]) >= n \/ ~Works(u) \/ u \in muted

\* A broken connection leaves the epoll in the end, whether the server notices or
\* not.
BrokenUnwatched ==
    \A u \in Conns : u \in broken ~> u \notin socksIn[1] \cup socksOut[1]

\* The server keeps nothing of a connection that is gone.
NothingLeftOver == \A u \in Conns : link[u] = "gone" => msgBuf[u] = <<>> /\ u \notin withWrite
=============================================================================
