-------------------------- MODULE UdtServerProofs ---------------------------
(***************************************************************************)
(* Proofs about UdtServer, for any number of connections, any quotas of    *)
(* messages and any send buffer: the echo server keeps the messages of a   *)
(* connection in order, its books agree with the epoll between two turns,  *)
(* and a peer that has fallen silent stays reported unless a call takes    *)
(* the report away.                                                        *)
(***************************************************************************)
EXTENDS UdtServer, SequenceTheorems, TLAPS

\* What the table of epolls keeps.
EpollInv == EpollTypeOK /\ ReadyOnlyIfWatched

(* Where the server's thread can be.                                       *)
InCall == {"add", "addCheck", "queue", "disQueue", "disLost", "disNext", "lost", "send", "disSend"}

SrvRecords ==
  [pc : InCall \cup {"wait", "turn"}, u : Socks, msg : Nat, more : BOOLEAN, ev : SUBSET Events]

(***************************************************************************)
(* The inductive invariant.                                                *)
(***************************************************************************)

\* The types, those of the variables UdtServerTypeOK only bounds included.
Types ==
  /\ idSeed = 1 /\ mPolls = {1}
  /\ link \in [Conns -> {"none", "queued", "open", "closed", "gone"}]
  /\ broken \subseteq Conns /\ silent \subseteq broken /\ polled \subseteq Socks /\ muted \subseteq Conns
  /\ arrived \in [Conns -> Nat] /\ taken \in [Conns -> Nat]
  /\ sndBuf \in [Conns -> Seq(Nat)] /\ echoed \in [Conns -> Seq(Nat)] /\ msgBuf \in [Conns -> Seq(Nat)]
  /\ rcvq \in [sock : Socks, what : SUBSET Events]
  /\ srv \in SrvRecords
  /\ readfds \subseteq Socks /\ writefds \subseteq Conns /\ withWrite \subseteq Conns

\* Inside a call the thread is at a connection, which it only ever adds for reading
\* too; it holds a message only between recvmsg and AddMsgToSendBuf.
AtWork ==
  /\ srv.pc \in InCall => srv.u \in Conns
  /\ srv.pc = "add" => "in" \in srv.ev
  /\ srv.msg > 0 <=> srv.pc \in {"queue", "disQueue"}

\* The library's counters stay within their bounds.
Counters ==
  \A u \in Conns : taken[u] <= arrived[u] /\ arrived[u] <= Quota[u] /\ Len(sndBuf[u]) <= SndMax

\* What is watched is registered with the socket, and writing is watched for
\* connections only.
Registered ==
  /\ socksIn[1] \cup socksOut[1] \subseteq polled
  /\ socksOut[1] \subseteq Conns
  /\ srv.pc = "addCheck" => srv.u \in socksIn[1]

\* The server has not met a connection it has not accepted, and nothing has
\* happened to one that does not exist.
Fresh ==
  \A u \in Conns :
    /\ link[u] \in {"none", "queued"} =>
         /\ u \notin socksIn[1] /\ u \notin socksOut[1]
         /\ u \notin readfds /\ u \notin writefds /\ u \notin withWrite
         /\ srv.u # u
    /\ link[u] = "none" =>
         arrived[u] = 0 /\ taken[u] = 0 /\ echoed[u] = <<>> /\ sndBuf[u] = <<>> /\ msgBuf[u] = <<>>

\* The books at any moment: on its way back into the epoll a connection is not
\* watched yet, but what it will be watched for is what the books say.
Books ==
  /\ \A u \in Conns :
       /\ msgBuf[u] # <<>> => u \in withWrite
       /\ Works(u) /\ link[u] = "open" =>
            IF At("add") /\ srv.u = u
            THEN /\ "out" \in srv.ev <=> u \in withWrite
                 /\ u \in socksOut[1] => u \in withWrite
            ELSE u \in socksIn[1] /\ (u \in withWrite <=> u \in socksOut[1])
  /\ At("lost") => ~Works(srv.u)
  /\ At("disLost") => srv.u \in broken

\* A silent peer is reported, or the receive-queue thread is about to report it, or
\* addEPoll has put it back and will not look.
Reported ==
  \A u \in silent :
    \/ u \notin socksIn[1]
    \/ u \in reads[1] \cup writes[1] \cup muted
    \/ rcvq.sock = u /\ "in" \in rcvq.what
    \/ At("addCheck") /\ srv.u = u

\* All of it but the order of the messages, which is EchoInOrder itself.
ServerInv ==
  Types /\ EpollInv /\ AtWork /\ Counters /\ Registered /\ Fresh /\ Books /\ Reported

-----------------------------------------------------------------------------
(* What the helpers of the server's thread do.                             *)

LEMMA OneEpoll == Eids = {1} /\ MaxPolls \in Nat
  BY UdtServerAssumption DEF Eids

LEMMA GotoSrv ==
  ASSUME srv \in SrvRecords, NEW p \in InCall \cup {"wait", "turn"}, Goto(p)
  PROVE  /\ srv' \in SrvRecords /\ srv'.pc = p
         /\ srv'.u = srv.u /\ srv'.msg = srv.msg /\ srv'.more = srv.more /\ srv'.ev = srv.ev
  BY DEF SrvRecords, Goto

LEMMA DoSrv ==
  ASSUME NEW p \in InCall \cup {"wait", "turn"}, NEW u \in Socks, srv' = Do(p, u)
  PROVE  srv' \in SrvRecords /\ srv'.pc = p /\ srv'.u = u /\ srv'.msg = 0
  BY DEF SrvRecords, Do

LEMMA DoAddSrv ==
  ASSUME NEW u \in Socks, srv' = [Do("add", u) EXCEPT !.ev = {"in"}]
  PROVE  srv' \in SrvRecords /\ srv'.pc = "add" /\ srv'.u = u /\ srv'.msg = 0 /\ srv'.ev = {"in"}
  BY DEF SrvRecords, Do, InCall, Events

-----------------------------------------------------------------------------
(* The invariant is kept by each action.                                   *)

LEMMA ConnectInv ==
  ASSUME ServerInv, NEW u \in Conns, Connect(u)
  PROVE  ServerInv'
<1> USE OneEpoll, UdtServerAssumption
    DEF ServerInv, Types, SrvRecords, Conns, At, Do, Goto, epollVars, libVars, queueVars,
        fdVars, Connect, EnableRead, PollIDs, NoWork, Live
<1>1. Types'
  BY DEF AtWork, Registered, EpollInv, EpollTypeOK, ReadyOnlyIfWatched, InCall, Events
<1>2. EpollInv' /\ Registered'
  BY DEF EpollInv, EpollTypeOK, ReadyOnlyIfWatched, Registered, Fresh, AtWork, InCall
<1>3. AtWork' /\ Counters'
  BY DEF AtWork, Counters, InCall
<1>4. Fresh'
  BY DEF Fresh, EpollInv, EpollTypeOK, ReadyOnlyIfWatched, AtWork, InCall, Works
<1>5. Books'
  BY DEF Books, Works, Fresh, AtWork, InCall, EpollInv, EpollTypeOK, ReadyOnlyIfWatched, Located
<1>6. Reported'
  BY DEF Reported, Registered, AtWork, InCall, EpollInv, EpollTypeOK, ReadyOnlyIfWatched
<1> QED
  BY <1>1, <1>2, <1>3, <1>4, <1>5, <1>6

LEMMA ArriveInv ==
  ASSUME ServerInv, NEW u \in Conns, Arrive(u)
  PROVE  ServerInv'
<1> USE OneEpoll, UdtServerAssumption
    DEF ServerInv, Types, SrvRecords, Conns, At, Do, Goto, epollVars, libVars, queueVars,
        fdVars, Arrive, Works, NoWork
<1>1. Types'
  <2>1. arrived' \in [Conns -> Nat]
    OBVIOUS
  <2>2. rcvq' \in [sock : Socks, what : SUBSET Events]
    BY DEF Events
  <2> QED
    BY <2>1, <2>2
<1>2. EpollInv' /\ Registered'
  BY DEF EpollInv, EpollTypeOK, ReadyOnlyIfWatched, Registered, Fresh, AtWork, InCall
<1>3. AtWork' /\ Counters'
  BY DEF AtWork, Counters, InCall
<1>4. Fresh'
  BY DEF Fresh, EpollInv, EpollTypeOK, ReadyOnlyIfWatched, AtWork, InCall
<1>5. Books'
  BY DEF Books, Fresh, AtWork, InCall, EpollInv, EpollTypeOK, ReadyOnlyIfWatched, Located
<1>6. Reported'
  BY DEF Reported, Registered, AtWork, InCall, EpollInv, EpollTypeOK, ReadyOnlyIfWatched
<1> QED
  BY <1>1, <1>2, <1>3, <1>4, <1>5, <1>6

LEMMA AckInv ==
  ASSUME ServerInv, NEW u \in Conns, Ack(u)
  PROVE  ServerInv'
<1> USE OneEpoll, UdtServerAssumption
    DEF ServerInv, Types, SrvRecords, Conns, At, Do, Goto, epollVars, libVars, queueVars,
        fdVars, Ack, Works, NoWork
<1>1. Types'
  <2>1. Head(sndBuf[u]) \in Nat /\ Tail(sndBuf[u]) \in Seq(Nat)
    BY HeadTailProperties
  <2>2. Append(echoed[u], Head(sndBuf[u])) \in Seq(Nat)
    BY <2>1, AppendProperties
  <2>3. sndBuf' \in [Conns -> Seq(Nat)] /\ echoed' \in [Conns -> Seq(Nat)]
    BY <2>1, <2>2
  <2>4. rcvq' \in [sock : Socks, what : SUBSET Events]
    BY DEF Events
  <2> QED
    BY <2>3, <2>4
<1>2. EpollInv' /\ Registered'
  BY DEF EpollInv, EpollTypeOK, ReadyOnlyIfWatched, Registered, Fresh, AtWork, InCall
<1>3. AtWork' /\ Counters'
  BY DEF AtWork, Counters, InCall
<1>4. Fresh'
  BY DEF Fresh, EpollInv, EpollTypeOK, ReadyOnlyIfWatched, AtWork, InCall
<1>5. Books'
  BY DEF Books, Fresh, AtWork, InCall, EpollInv, EpollTypeOK, ReadyOnlyIfWatched, Located
<1>6. Reported'
  BY DEF Reported, Registered, AtWork, InCall, EpollInv, EpollTypeOK, ReadyOnlyIfWatched
<1> QED
  BY <1>1, <1>2, <1>3, <1>4, <1>5, <1>6

LEMMA PeerShutdownInv ==
  ASSUME ServerInv, NEW u \in Conns, PeerShutdown(u)
  PROVE  ServerInv'
<1> USE OneEpoll, UdtServerAssumption
    DEF ServerInv, Types, SrvRecords, Conns, At, Do, Goto, epollVars, libVars, queueVars,
        fdVars, PeerShutdown, Works, NoWork
<1>1. Types'
  BY DEF AtWork, Registered, EpollInv, EpollTypeOK, ReadyOnlyIfWatched, InCall, Events
<1>2. EpollInv' /\ Registered'
  BY DEF EpollInv, EpollTypeOK, ReadyOnlyIfWatched, Registered, Fresh, AtWork, InCall
<1>3. AtWork' /\ Counters'
  BY DEF AtWork, Counters, InCall
<1>4. Fresh'
  BY DEF Fresh, EpollInv, EpollTypeOK, ReadyOnlyIfWatched, AtWork, InCall
<1>5. Books'
  BY DEF Books, Fresh, AtWork, InCall, EpollInv, EpollTypeOK, ReadyOnlyIfWatched, Located
<1>6. Reported'
  BY DEF Reported, Registered, AtWork, InCall, EpollInv, EpollTypeOK, ReadyOnlyIfWatched
<1> QED
  BY <1>1, <1>2, <1>3, <1>4, <1>5, <1>6

LEMMA PeerSilentInv ==
  ASSUME ServerInv, NEW u \in Conns, PeerSilent(u)
  PROVE  ServerInv'
<1> USE OneEpoll, UdtServerAssumption
    DEF ServerInv, Types, SrvRecords, Conns, At, Do, Goto, epollVars, libVars, queueVars,
        fdVars, PeerSilent, Works, NoWork
<1>1. Types'
  BY DEF AtWork, Registered, EpollInv, EpollTypeOK, ReadyOnlyIfWatched, InCall, Events
<1>2. EpollInv' /\ Registered'
  BY DEF EpollInv, EpollTypeOK, ReadyOnlyIfWatched, Registered, Fresh, AtWork, InCall
<1>3. AtWork' /\ Counters'
  BY DEF AtWork, Counters, InCall
<1>4. Fresh'
  BY DEF Fresh, EpollInv, EpollTypeOK, ReadyOnlyIfWatched, AtWork, InCall
<1>5. Books'
  BY DEF Books, Fresh, AtWork, InCall, EpollInv, EpollTypeOK, ReadyOnlyIfWatched, Located
<1>6. Reported'
  BY DEF Reported, Registered, AtWork, InCall, EpollInv, EpollTypeOK, ReadyOnlyIfWatched
<1> QED
  BY <1>1, <1>2, <1>3, <1>4, <1>5, <1>6

LEMMA CollectInv ==
  ASSUME ServerInv, NEW u \in Conns, Collect(u)
  PROVE  ServerInv'
<1> USE OneEpoll, UdtServerAssumption
    DEF ServerInv, Types, SrvRecords, Conns, At, Do, Goto, epollVars, libVars, queueVars,
        fdVars, Collect
<1>1. Types'
  BY DEF AtWork, Registered, EpollInv, EpollTypeOK, ReadyOnlyIfWatched, InCall, Events
<1>2. EpollInv' /\ Registered'
  BY DEF EpollInv, EpollTypeOK, ReadyOnlyIfWatched, Registered, Fresh, AtWork, InCall
<1>3. AtWork' /\ Counters'
  BY DEF AtWork, Counters, InCall
<1>4. Fresh'
  BY DEF Fresh, EpollInv, EpollTypeOK, ReadyOnlyIfWatched, AtWork, InCall, Works
<1>5. Books'
  BY DEF Books, Works, Fresh, AtWork, InCall, EpollInv, EpollTypeOK, ReadyOnlyIfWatched, Located
<1>6. Reported'
  BY DEF Reported, Registered, AtWork, InCall, EpollInv, EpollTypeOK, ReadyOnlyIfWatched
<1> QED
  BY <1>1, <1>2, <1>3, <1>4, <1>5, <1>6

LEMMA DestroyInv ==
  ASSUME ServerInv, NEW u \in Conns, Destroy(u)
  PROVE  ServerInv'
<1> USE OneEpoll, UdtServerAssumption
    DEF ServerInv, Types, SrvRecords, Conns, At, Do, Goto, epollVars, libVars, queueVars,
        fdVars, Destroy, RemoveUsock
<1>1. Types'
  BY DEF AtWork, Registered, EpollInv, EpollTypeOK, ReadyOnlyIfWatched, InCall, Events
<1>2. EpollInv' /\ Registered'
  <2>1. EpollInv'
    BY DEF EpollInv, EpollTypeOK, ReadyOnlyIfWatched
  <2>2. Registered'
    BY SMTT(30) DEF Registered, EpollInv, EpollTypeOK, AtWork, InCall
  <2> QED
    BY <2>1, <2>2
<1>3. AtWork' /\ Counters'
  BY DEF AtWork, Counters, InCall
<1>4. Fresh'
  BY DEF Fresh, EpollInv, EpollTypeOK, ReadyOnlyIfWatched, AtWork, InCall, Works
<1>5. Books'
  <2>1. \A v \in Conns : Works(v)' => v # u /\ Works(v)
    BY DEF Works
  <2>2. \A v \in Conns : v # u => (v \in socksIn'[1] <=> v \in socksIn[1])
                               /\ (v \in socksOut'[1] <=> v \in socksOut[1])
    BY DEF EpollInv, EpollTypeOK
  <2> QED
    BY <2>1, <2>2 DEF Books, Works, AtWork, InCall, EpollInv, EpollTypeOK
<1>6. Reported'
  BY DEF Reported, Registered, AtWork, InCall, EpollInv, EpollTypeOK, ReadyOnlyIfWatched
<1> QED
  BY <1>1, <1>2, <1>3, <1>4, <1>5, <1>6

LEMMA AnnounceReadInv ==
  ASSUME ServerInv, AnnounceRead
  PROVE  ServerInv'
<1> USE OneEpoll, UdtServerAssumption
    DEF ServerInv, Types, SrvRecords, Conns, At, Do, Goto, epollVars, libVars, queueVars,
        fdVars, AnnounceRead, EnableRead, PollIDs, NoWork, Live
<1>1. Types'
  BY DEF AtWork, Registered, EpollInv, EpollTypeOK, ReadyOnlyIfWatched, InCall, Events
<1>2. EpollInv' /\ Registered'
  BY DEF EpollInv, EpollTypeOK, ReadyOnlyIfWatched, Registered, Fresh, AtWork, InCall
<1>3. AtWork' /\ Counters'
  BY DEF AtWork, Counters, InCall
<1>4. Fresh'
  BY DEF Fresh, EpollInv, EpollTypeOK, ReadyOnlyIfWatched, AtWork, InCall, Works
<1>5. Books'
  BY DEF Books, Works, Fresh, AtWork, InCall, EpollInv, EpollTypeOK, ReadyOnlyIfWatched, Located
<1>6. Reported'
  BY DEF Reported, Registered, AtWork, InCall, EpollInv, EpollTypeOK, ReadyOnlyIfWatched
<1> QED
  BY <1>1, <1>2, <1>3, <1>4, <1>5, <1>6

LEMMA AnnounceWriteInv ==
  ASSUME ServerInv, AnnounceWrite
  PROVE  ServerInv'
<1> USE OneEpoll, UdtServerAssumption
    DEF ServerInv, Types, SrvRecords, Conns, At, Do, Goto, epollVars, libVars, queueVars,
        fdVars, AnnounceWrite, EnableWrite, PollIDs, NoWork, Live
<1>1. Types'
  BY DEF AtWork, Registered, EpollInv, EpollTypeOK, ReadyOnlyIfWatched, InCall, Events
<1>2. EpollInv' /\ Registered'
  <2>1. EpollInv'
    BY DEF EpollInv, EpollTypeOK, ReadyOnlyIfWatched
  <2> QED
    BY <2>1 DEF Registered
<1>3. AtWork' /\ Counters'
  BY DEF AtWork, Counters, InCall
<1>4. Fresh'
  BY DEF Fresh, EpollInv, EpollTypeOK, ReadyOnlyIfWatched, AtWork, InCall, Works
<1>5. Books'
  BY DEF Books, Works, Fresh, AtWork, InCall, EpollInv, EpollTypeOK, ReadyOnlyIfWatched, Located
<1>6. Reported'
  BY DEF Reported, Registered, AtWork, InCall, EpollInv, EpollTypeOK, ReadyOnlyIfWatched
<1> QED
  BY <1>1, <1>2, <1>3, <1>4, <1>5, <1>6

LEMMA AddCheckInv ==
  ASSUME ServerInv, AddCheck
  PROVE  ServerInv'
<1> USE OneEpoll, UdtServerAssumption
    DEF ServerInv, Types, SrvRecords, Conns, At, Do, Goto, epollVars, libVars, queueVars,
        fdVars, AddCheck, Unread
<1>1. Types'
  <2>1. muted' \subseteq Conns
    BY DEF AtWork, InCall
  <2>2. srv' \in SrvRecords
    BY GotoSrv DEF Goto
  <2> QED
    BY <2>1, <2>2
<1>2. EpollInv' /\ Registered'
  BY DEF EpollInv, EpollTypeOK, ReadyOnlyIfWatched, Registered, Fresh, AtWork, InCall
<1>3. AtWork' /\ Counters'
  BY DEF AtWork, Counters, InCall
<1>4. Fresh'
  BY DEF Fresh, EpollInv, EpollTypeOK, ReadyOnlyIfWatched, AtWork, InCall, Works
<1>5. Books'
  BY DEF Books, Works, Fresh, AtWork, InCall, EpollInv, EpollTypeOK, ReadyOnlyIfWatched, Located
<1>6. Reported'
  BY DEF Reported, Registered, AtWork, InCall, EpollInv, EpollTypeOK, ReadyOnlyIfWatched
<1> QED
  BY <1>1, <1>2, <1>3, <1>4, <1>5, <1>6

LEMMA RecvDisableInv ==
  ASSUME ServerInv, RecvDisable
  PROVE  ServerInv'
<1> USE OneEpoll, UdtServerAssumption
    DEF ServerInv, Types, SrvRecords, Conns, At, Do, Goto, epollVars, libVars, queueVars,
        fdVars, RecvDisable, DisableRead, PollIDs, Unread, Live
<1>1. Types'
  BY DEF AtWork, Registered, EpollInv, EpollTypeOK, ReadyOnlyIfWatched, InCall, Events
<1>2. EpollInv' /\ Registered'
  BY DEF EpollInv, EpollTypeOK, ReadyOnlyIfWatched, Registered, Fresh, AtWork, InCall
<1>3. AtWork' /\ Counters'
  BY DEF AtWork, Counters, InCall
<1>4. Fresh'
  BY DEF Fresh, EpollInv, EpollTypeOK, ReadyOnlyIfWatched, AtWork, InCall, Works
<1>5. Books'
  BY DEF Books, Works, Fresh, AtWork, InCall, EpollInv, EpollTypeOK, ReadyOnlyIfWatched, Located
<1>6. Reported'
  BY SMTT(30) DEF Reported, Registered, AtWork, InCall, EpollInv, EpollTypeOK, ReadyOnlyIfWatched
<1> QED
  BY <1>1, <1>2, <1>3, <1>4, <1>5, <1>6

LEMMA SendDisableInv ==
  ASSUME ServerInv, SendDisable
  PROVE  ServerInv'
<1> USE OneEpoll, UdtServerAssumption
    DEF ServerInv, Types, SrvRecords, Conns, At, Do, Goto, epollVars, libVars, queueVars,
        fdVars, SendDisable, DisableWrite, PollIDs, Live
<1>1. Types'
  BY DEF AtWork, Registered, EpollInv, EpollTypeOK, ReadyOnlyIfWatched, InCall, Events
<1>2. EpollInv' /\ Registered'
  BY DEF EpollInv, EpollTypeOK, ReadyOnlyIfWatched, Registered, Fresh, AtWork, InCall
<1>3. AtWork' /\ Counters'
  BY DEF AtWork, Counters, InCall
<1>4. Fresh'
  BY DEF Fresh, EpollInv, EpollTypeOK, ReadyOnlyIfWatched, AtWork, InCall, Works
<1>5. Books'
  BY DEF Books, Works, Fresh, AtWork, InCall, EpollInv, EpollTypeOK, ReadyOnlyIfWatched, Located
<1>6. Reported'
  BY DEF Reported, Registered, AtWork, InCall, EpollInv, EpollTypeOK, ReadyOnlyIfWatched
<1> QED
  BY <1>1, <1>2, <1>3, <1>4, <1>5, <1>6

LEMMA WaitInv ==
  ASSUME ServerInv, Wait
  PROVE  ServerInv'
<1> USE OneEpoll, UdtServerAssumption
    DEF ServerInv, Types, SrvRecords, Conns, At, Do, Goto, epollVars, libVars, queueVars,
        fdVars, Wait
<1>1. Types'
  BY DEF AtWork, Registered, EpollInv, EpollTypeOK, ReadyOnlyIfWatched, InCall, Events
<1>2. EpollInv' /\ Registered'
  BY DEF EpollInv, EpollTypeOK, ReadyOnlyIfWatched, Registered, Fresh, AtWork, InCall
<1>3. AtWork' /\ Counters'
  BY DEF AtWork, Counters, InCall
<1>4. Fresh'
  BY DEF Fresh, EpollInv, EpollTypeOK, ReadyOnlyIfWatched, AtWork, InCall, Works
<1>5. Books'
  BY DEF Books, Works, Fresh, AtWork, InCall, EpollInv, EpollTypeOK, ReadyOnlyIfWatched, Located
<1>6. Reported'
  BY DEF Reported, Registered, AtWork, InCall, EpollInv, EpollTypeOK, ReadyOnlyIfWatched
<1> QED
  BY <1>1, <1>2, <1>3, <1>4, <1>5, <1>6

LEMMA TurnOverInv ==
  ASSUME ServerInv, TurnOver
  PROVE  ServerInv'
<1> USE OneEpoll, UdtServerAssumption
    DEF ServerInv, Types, SrvRecords, Conns, At, Do, Goto, epollVars, libVars, queueVars,
        fdVars, TurnOver
<1>1. Types'
  BY DEF AtWork, Registered, EpollInv, EpollTypeOK, ReadyOnlyIfWatched, InCall, Events
<1>2. EpollInv' /\ Registered'
  BY DEF EpollInv, EpollTypeOK, ReadyOnlyIfWatched, Registered, Fresh, AtWork, InCall
<1>3. AtWork' /\ Counters'
  BY DEF AtWork, Counters, InCall
<1>4. Fresh'
  BY DEF Fresh, EpollInv, EpollTypeOK, ReadyOnlyIfWatched, AtWork, InCall, Works
<1>5. Books'
  BY DEF Books, Works, Fresh, AtWork, InCall, EpollInv, EpollTypeOK, ReadyOnlyIfWatched, Located
<1>6. Reported'
  BY DEF Reported, Registered, AtWork, InCall, EpollInv, EpollTypeOK, ReadyOnlyIfWatched
<1> QED
  BY <1>1, <1>2, <1>3, <1>4, <1>5, <1>6

LEMMA DropReaderInv ==
  ASSUME ServerInv, DropReader
  PROVE  ServerInv'
<1> USE OneEpoll, UdtServerAssumption
    DEF ServerInv, Types, SrvRecords, Conns, At, Do, Goto, epollVars, libVars, queueVars,
        fdVars, DropReader, Unwatch, RemoveUsock
<1>1. Types'
  BY DEF AtWork, Registered, EpollInv, EpollTypeOK, ReadyOnlyIfWatched, InCall, Events
<1>2. EpollInv' /\ Registered'
  BY DEF EpollInv, EpollTypeOK, ReadyOnlyIfWatched, Registered, Fresh, AtWork, InCall
<1>3. AtWork' /\ Counters'
  BY DEF AtWork, Counters, InCall
<1>4. Fresh'
  BY DEF Fresh, EpollInv, EpollTypeOK, ReadyOnlyIfWatched, AtWork, InCall, Works
<1>5. Books'
  BY DEF Books, Works, Fresh, AtWork, InCall, EpollInv, EpollTypeOK, ReadyOnlyIfWatched, Located
<1>6. Reported'
  BY DEF Reported, Registered, AtWork, InCall, EpollInv, EpollTypeOK, ReadyOnlyIfWatched
<1> QED
  BY <1>1, <1>2, <1>3, <1>4, <1>5, <1>6

LEMMA AddMsgToSendBufInv ==
  ASSUME ServerInv, AddMsgToSendBuf
  PROVE  ServerInv'
<1> USE OneEpoll, UdtServerAssumption
    DEF ServerInv, Types, SrvRecords, Conns, At, Do, Goto, epollVars, libVars, queueVars,
        fdVars, AddMsgToSendBuf
<1>1. Types'
  <2>1. Append(msgBuf[srv.u], srv.msg) \in Seq(Nat)
    BY AppendProperties DEF AtWork, InCall
  <2>2. msgBuf' \in [Conns -> Seq(Nat)]
    BY <2>1
  <2>3. srv' \in SrvRecords /\ withWrite' \subseteq Conns
    BY DEF AtWork, InCall, Events
  <2> QED
    BY <2>2, <2>3
<1>2. EpollInv' /\ Registered'
  BY DEF EpollInv, EpollTypeOK, ReadyOnlyIfWatched, Registered, Fresh, AtWork, InCall
<1>3. AtWork' /\ Counters'
  BY DEF AtWork, Counters, InCall
<1>4. Fresh'
  BY DEF Fresh, EpollInv, EpollTypeOK, ReadyOnlyIfWatched, AtWork, InCall, Works
<1>5. Books'
  BY SMTT(30) DEF Books, Works, Fresh, AtWork, InCall, EpollInv, EpollTypeOK, ReadyOnlyIfWatched, Located
<1>6. Reported'
  BY DEF Reported, Registered, AtWork, InCall, EpollInv, EpollTypeOK, ReadyOnlyIfWatched
<1> QED
  BY <1>1, <1>2, <1>3, <1>4, <1>5, <1>6

LEMMA StartSendingInv ==
  ASSUME ServerInv, NEW u \in Conns, StartSending(u)
  PROVE  ServerInv'
<1> USE OneEpoll, UdtServerAssumption
    DEF ServerInv, Types, SrvRecords, Conns, At, Do, Goto, epollVars, libVars, queueVars,
        fdVars, StartSending
<1>1. Types'
  BY DEF AtWork, Registered, EpollInv, EpollTypeOK, ReadyOnlyIfWatched, InCall, Events
<1>2. EpollInv' /\ Registered'
  BY DEF EpollInv, EpollTypeOK, ReadyOnlyIfWatched, Registered, Fresh, AtWork, InCall
<1>3. AtWork' /\ Counters'
  BY DEF AtWork, Counters, InCall
<1>4. Fresh'
  BY DEF Fresh, EpollInv, EpollTypeOK, ReadyOnlyIfWatched, AtWork, InCall, Works
<1>5. Books'
  BY DEF Books, Works, Fresh, AtWork, InCall, EpollInv, EpollTypeOK, ReadyOnlyIfWatched, Located
<1>6. Reported'
  BY DEF Reported, Registered, AtWork, InCall, EpollInv, EpollTypeOK, ReadyOnlyIfWatched
<1> QED
  BY <1>1, <1>2, <1>3, <1>4, <1>5, <1>6

LEMMA SendRefusedInv ==
  ASSUME ServerInv, SendRefused
  PROVE  ServerInv'
<1> USE OneEpoll, UdtServerAssumption
    DEF ServerInv, Types, SrvRecords, Conns, At, Do, Goto, epollVars, libVars, queueVars,
        fdVars, SendRefused, Located
<1>1. Types'
  BY DEF AtWork, Registered, EpollInv, EpollTypeOK, ReadyOnlyIfWatched, InCall, Events
<1>2. EpollInv' /\ Registered'
  BY DEF EpollInv, EpollTypeOK, ReadyOnlyIfWatched, Registered, Fresh, AtWork, InCall
<1>3. AtWork' /\ Counters'
  BY DEF AtWork, Counters, InCall
<1>4. Fresh'
  BY DEF Fresh, EpollInv, EpollTypeOK, ReadyOnlyIfWatched, AtWork, InCall, Works
<1>5. Books'
  BY DEF Books, Works, Fresh, AtWork, InCall, EpollInv, EpollTypeOK, ReadyOnlyIfWatched
<1>6. Reported'
  BY DEF Reported, Registered, AtWork, InCall, EpollInv, EpollTypeOK, ReadyOnlyIfWatched
<1> QED
  BY <1>1, <1>2, <1>3, <1>4, <1>5, <1>6

LEMMA SendAcceptedInv ==
  ASSUME ServerInv, SendAccepted
  PROVE  ServerInv'
<1> USE OneEpoll, UdtServerAssumption
    DEF ServerInv, Types, SrvRecords, Conns, At, Do, Goto, epollVars, libVars, queueVars,
        fdVars, SendAccepted, Located
<1>1. Types'
  <2>1. srv.u \in Conns
    BY DEF AtWork, InCall
  <2>2. Head(msgBuf[srv.u]) \in Nat /\ Tail(msgBuf[srv.u]) \in Seq(Nat)
    BY <2>1, HeadTailProperties
  <2>3. Append(sndBuf[srv.u], Head(msgBuf[srv.u])) \in Seq(Nat)
    BY <2>1, <2>2, AppendProperties
  <2>4. msgBuf' \in [Conns -> Seq(Nat)] /\ sndBuf' \in [Conns -> Seq(Nat)]
    BY <2>2, <2>3
  <2>5. srv' \in SrvRecords
    BY DEF InCall
  <2> QED
    BY <2>4, <2>5
<1>2. EpollInv' /\ Registered'
  BY DEF EpollInv, EpollTypeOK, ReadyOnlyIfWatched, Registered, Fresh, AtWork, InCall
<1>3. AtWork' /\ Counters'
  BY DEF AtWork, Counters, InCall
<1>4. Fresh'
  BY DEF Fresh, EpollInv, EpollTypeOK, ReadyOnlyIfWatched, AtWork, InCall, Works
<1>5. Books'
  BY DEF Books, Works, Fresh, AtWork, InCall, EpollInv, EpollTypeOK, ReadyOnlyIfWatched
<1>6. Reported'
  BY DEF Reported, Registered, AtWork, InCall, EpollInv, EpollTypeOK, ReadyOnlyIfWatched
<1> QED
  BY <1>1, <1>2, <1>3, <1>4, <1>5, <1>6

LEMMA SendFailedInv ==
  ASSUME ServerInv, SendFailed
  PROVE  ServerInv'
<1> USE OneEpoll, UdtServerAssumption
    DEF ServerInv, Types, SrvRecords, Conns, At, Do, Goto, epollVars, libVars, queueVars,
        fdVars, SendFailed, Unwatch, RemoveUsock, Located
<1>1. Types'
  <2>1. msgBuf' \in [Conns -> Seq(Nat)]
    BY EmptySeq
  <2> QED
    BY <2>1
<1>2. EpollInv' /\ Registered'
  BY DEF EpollInv, EpollTypeOK, ReadyOnlyIfWatched, Registered, Fresh, AtWork, InCall
<1>3. AtWork' /\ Counters'
  BY DEF AtWork, Counters, InCall
<1>4. Fresh'
  BY DEF Fresh, EpollInv, EpollTypeOK, ReadyOnlyIfWatched, AtWork, InCall, Works
<1>5. Books'
  BY DEF Books, Works, Fresh, AtWork, InCall, EpollInv, EpollTypeOK, ReadyOnlyIfWatched
<1>6. Reported'
  BY DEF Reported, Registered, AtWork, InCall, EpollInv, EpollTypeOK, ReadyOnlyIfWatched
<1> QED
  BY <1>1, <1>2, <1>3, <1>4, <1>5, <1>6

LEMMA AddToPollInv ==
  ASSUME ServerInv, AddToPoll
  PROVE  ServerInv'
<1> DEFINE u == srv.u
<1>1. u \in Conns /\ u \in Socks /\ srv.pc = "add" /\ srv \in SrvRecords
  BY DEF ServerInv, Types, AtWork, AddToPoll, At, InCall, Conns
<1>2. CASE ~Located(u)
  <2>1. /\ Goto("turn") /\ UNCHANGED <<epollVars, polled, libVars, taken, sndBuf, rcvq, muted, fdVars>>
        /\ UNCHANGED queueVars
    BY <1>2 DEF AddToPoll
  <2>2. /\ srv' \in SrvRecords /\ srv'.pc = "turn" /\ srv'.u = u /\ srv'.msg = srv.msg
    BY <2>1, <1>1, GotoSrv
  <2>3. ~Works(u)
    BY <1>1, <1>2 DEF Located, Works, Conns
  <2> USE <1>1, <2>1, <2>2 DEF ServerInv, Types, epollVars, libVars, fdVars, queueVars
  <2>4. Types' /\ Counters' /\ AtWork'
    BY DEF Counters, AtWork, InCall
  <2>5. EpollInv' /\ Registered' /\ Fresh'
    BY DEF EpollInv, EpollTypeOK, ReadyOnlyIfWatched, Registered, Fresh
  <2>6. Books' /\ Reported'
    BY <2>3 DEF Books, Works, At, Reported
  <2> QED
    BY <2>4, <2>5, <2>6
<1>3. CASE Located(u)
  <2>1. /\ Goto("addCheck") /\ AddUsock(1, u, srv.ev) /\ polled' = polled \cup {u}
        /\ UNCHANGED <<libVars, taken, sndBuf, rcvq, muted, fdVars, queueVars>>
    BY <1>3 DEF AddToPoll
  <2>2. /\ srv' \in SrvRecords /\ srv'.pc = "addCheck" /\ srv'.u = u /\ srv'.msg = srv.msg
    BY <2>1, <1>1, GotoSrv DEF InCall
  <2>3. link[u] = "open" /\ "in" \in srv.ev
    BY <1>1, <1>3 DEF Located, ServerInv, Fresh, Conns, AtWork
  <2>4. /\ socksIn[1] \subseteq socksIn'[1] /\ socksIn'[1] \subseteq socksIn[1] \cup {u}
        /\ u \in socksIn'[1]
        /\ socksOut[1] \subseteq socksOut'[1] /\ socksOut'[1] \subseteq socksOut[1] \cup {u}
        /\ u \in socksOut'[1] <=> u \in socksOut[1] \/ "out" \in srv.ev
        /\ UNCHANGED <<idSeed, mPolls, reads, writes>>
    BY <2>1, <2>3, OneEpoll DEF AddUsock, ServerInv, EpollInv, EpollTypeOK
  <2> USE <1>1, <2>1, <2>2, <2>3, <2>4 DEF ServerInv, Types, libVars, fdVars, queueVars
  <2>5. Types' /\ Counters' /\ AtWork'
    BY DEF Counters, AtWork, InCall
  <2>6. EpollInv'
    BY MaxPollsAssumption
    DEF AddUsock, EpollInv, EpollTypeOK, ReadyOnlyIfWatched, Eids, SrvRecords
  <2>7. Registered' /\ Fresh'
    BY DEF Registered, Fresh, At
  <2>8. Books' /\ Reported'
    BY ZenonT(30) DEF Books, Works, At, Reported
  <2> QED
    BY <2>5, <2>6, <2>7, <2>8
<1> QED
  BY <1>2, <1>3

LEMMA HandleListenerInv ==
  ASSUME ServerInv, HandleListener
  PROVE  ServerInv'
<1> DEFINE queued == {v \in Conns : link[v] = "queued"}
<1>1. Listener \in Socks /\ Listener \notin Conns
  BY UdtServerAssumption DEF Conns
<1>2. /\ readfds' = readfds \ {Listener}
      /\ UNCHANGED <<broken, silent, arrived, echoed, polled, taken, sndBuf, rcvq, muted, writefds, queueVars>>
      /\ UNCHANGED epollVars \/ DisableRead(Listener, PollIDs(Listener))
  BY DEF HandleListener
<1>3. EpollInv' /\ UNCHANGED <<idSeed, mPolls, socksIn, socksOut, writes>>
      /\ reads'[1] \subseteq reads[1] /\ \A v \in Conns : v \in reads[1] => v \in reads'[1]
  <2>1. CASE UNCHANGED epollVars
    BY <2>1 DEF ServerInv, EpollInv, EpollTypeOK, ReadyOnlyIfWatched, epollVars
  <2>2. CASE DisableRead(Listener, PollIDs(Listener))
    <3>1. EpollInv'
      BY <2>2, <1>1, MaxPollsAssumption
      DEF DisableRead, Live, ServerInv, EpollInv, EpollTypeOK, ReadyOnlyIfWatched, Eids
    <3> QED
      BY <2>2, <3>1, <1>1, OneEpoll DEF DisableRead, Live, ServerInv, EpollInv, EpollTypeOK
  <2> QED
    BY <1>2, <2>1, <2>2
<1> USE <1>1, <1>2, <1>3 DEF ServerInv, Types, queueVars
<1>4. CASE srv' = Do("turn", Listener) /\ UNCHANGED link
  <2>1. srv' \in SrvRecords /\ srv'.pc = "turn" /\ srv'.u = Listener /\ srv'.msg = 0
    BY <1>4, DoSrv
  <2>2. srv.pc = "turn"
    BY DEF HandleListener, At
  <2> USE <1>4, <2>1, <2>2
  <2>3. Types' /\ Counters' /\ AtWork' /\ Registered' /\ Fresh'
    BY DEF Counters, AtWork, InCall, Registered, Fresh
  <2>4. Books' /\ Reported'
    BY DEF Books, Works, At, Reported
  <2> QED
    BY <2>3, <2>4
<1>5. ASSUME NEW u \in queued,
             link' = [link EXCEPT ![u] = "open"], srv' = [Do("add", u) EXCEPT !.ev = {"in"}]
      PROVE  ServerInv'
  <2>1. /\ srv' \in SrvRecords /\ srv'.pc = "add" /\ srv'.u = u /\ srv'.msg = 0 /\ srv'.ev = {"in"}
    BY <1>5, DoAddSrv DEF Conns
  <2>2. /\ srv.pc = "turn" /\ u \in Conns /\ link[u] = "queued"
        /\ u \notin socksIn[1] /\ u \notin socksOut[1] /\ u \notin withWrite
        /\ link'[u] = "open" /\ \A v \in Conns \ {u} : link'[v] = link[v]
    BY <1>5 DEF HandleListener, At, Fresh
  <2> HIDE DEF queued
  <2>3. link' \in [Conns -> {"none", "queued", "open", "closed", "gone"}]
    BY <1>5
  <2> USE <2>1, <2>2
  <2>4. Types' /\ Counters' /\ AtWork' /\ Registered'
    BY <2>3 DEF Counters, AtWork, InCall, Registered
  <2>5. Fresh'
    BY DEF Fresh
  <2>6. Books' /\ Reported'
    BY DEF Books, Works, At, Reported
  <2> QED
    BY <2>4, <2>5, <2>6
<1> QED
  BY <1>4, <1>5 DEF HandleListener

LEMMA NothingToSendInv ==
  ASSUME ServerInv, NothingToSend
  PROVE  ServerInv'
<1> DEFINE u == srv.u
<1>1. u \in Conns /\ u \in Socks /\ srv.pc = "send" /\ srv \in SrvRecords /\ msgBuf[u] = <<>>
  BY DEF ServerInv, Types, AtWork, NothingToSend, At, InCall, Conns
<1>2. UNCHANGED <<libVars, taken, sndBuf, rcvq, muted, fdVars, msgBuf>>
  BY DEF NothingToSend
<1> USE <1>1, <1>2 DEF ServerInv, Types, libVars, fdVars
<1>3. CASE u \notin withWrite
  <2>1. Goto("turn") /\ UNCHANGED <<epollVars, polled, withWrite>>
    BY <1>3 DEF NothingToSend
  <2>2. srv' \in SrvRecords /\ srv'.pc = "turn" /\ srv'.u = u /\ srv'.msg = srv.msg
    BY <2>1, GotoSrv
  <2> USE <2>1, <2>2 DEF epollVars
  <2>3. Types' /\ Counters' /\ AtWork'
    BY DEF Counters, AtWork, InCall
  <2>4. EpollInv' /\ Registered' /\ Fresh'
    BY DEF EpollInv, EpollTypeOK, ReadyOnlyIfWatched, Registered, Fresh
  <2>5. Books' /\ Reported'
    BY DEF Books, Works, At, Reported
  <2> QED
    BY <2>3, <2>4, <2>5
<1>4. CASE u \in withWrite
  <2>1. /\ withWrite' = withWrite \ {u} /\ RemoveUsock(1, u) /\ polled' = polled \ {u}
        /\ srv' = [Do("add", u) EXCEPT !.ev = {"in"}]
    BY <1>4 DEF NothingToSend, Unwatch
  <2>2. srv' \in SrvRecords /\ srv'.pc = "add" /\ srv'.u = u /\ srv'.msg = 0 /\ srv'.ev = {"in"}
    BY <2>1, DoAddSrv
  <2>3. EpollInv'
    BY ZenonT(30), <2>1, MaxPollsAssumption
    DEF RemoveUsock, EpollInv, EpollTypeOK, ReadyOnlyIfWatched, Eids
  <2>4. /\ socksIn'[1] = socksIn[1] \ {u} /\ socksOut'[1] = socksOut[1] \ {u}
        /\ reads'[1] = reads[1] \ {u} /\ writes'[1] = writes[1] \ {u}
        /\ UNCHANGED <<idSeed, mPolls>>
    BY <2>1, OneEpoll DEF RemoveUsock, EpollInv, EpollTypeOK
  <2> USE <2>1, <2>2, <2>4
  <2>5. Types' /\ Counters' /\ AtWork'
    BY DEF Counters, AtWork, InCall
  <2>6. Registered' /\ Fresh'
    BY DEF Registered, Fresh
  <2>7. Books' /\ Reported'
    BY DEF Books, Works, At, Reported
  <2> QED
    BY <2>3, <2>5, <2>6, <2>7
<1> QED
  BY <1>3, <1>4

LEMMA HandleReadInv ==
  ASSUME ServerInv, NEW u \in Conns, HandleRead(u)
  PROVE  ServerInv'
<1>1. /\ srv.pc = "turn" /\ u \in Socks /\ readfds' \subseteq readfds
      /\ UNCHANGED <<epollVars, libVars, polled, sndBuf, rcvq, muted, writefds, queueVars>>
      /\ u \in readfds \/ u = srv.u
      /\ Recvmsg(u)
  BY DEF HandleRead, At, Conns, ServerInv, Types
<1>2. link[u] \notin {"none", "queued"}
  BY <1>1 DEF ServerInv, Fresh
<1> USE <1>1, <1>2 DEF ServerInv, Types, epollVars, libVars, queueVars
<1>3. CASE ~Located(u)
  <2>1. srv' = Do("lost", u) /\ UNCHANGED taken
    BY <1>3 DEF Recvmsg
  <2>2. srv' \in SrvRecords /\ srv'.pc = "lost" /\ srv'.u = u /\ srv'.msg = 0
    BY <2>1, DoSrv DEF InCall
  <2>3. ~Works(u)
    BY <1>3 DEF Located, Works
  <2> USE <2>1, <2>2
  <2>4. Types' /\ Counters' /\ AtWork'
    BY DEF Counters, AtWork, InCall
  <2>5. EpollInv' /\ Registered' /\ Fresh'
    BY DEF EpollInv, EpollTypeOK, ReadyOnlyIfWatched, Registered, Fresh
  <2>6. Books' /\ Reported'
    BY <2>3 DEF Books, Works, At, Reported
  <2> QED
    BY <2>4, <2>5, <2>6
<1>4. CASE Located(u)
  <2> DEFINE n == taken[u] + 1
             msg == IF Unread(u) > 0 THEN n ELSE 0
  <2>0. n \in Nat /\ n > 0 /\ msg \in Nat /\ Unread(u) \in Int
    BY DEF Unread
  <2>1. /\ taken' \in [Conns -> Nat] /\ \A v \in Conns \ {u} : taken'[v] = taken[v]
        /\ taken'[u] = IF Unread(u) > 0 THEN n ELSE taken[u]
    <3>1. taken' = [taken EXCEPT ![u] = IF msg = 0 THEN @ ELSE n]
      BY <1>4, Zenon DEF Recvmsg
    <3> HIDE DEF Unread
    <3> QED
      BY <3>1, <2>0
  <2>2. /\ srv' \in SrvRecords /\ srv'.u = u
        /\ srv'.pc = IF Unread(u) > 1 THEN "queue" ELSE IF Unread(u) > 0 THEN "disQueue"
                     ELSE IF u \in broken THEN "disLost" ELSE "disNext"
        /\ srv'.msg = msg
    <3>1. srv' = [pc |-> IF Unread(u) > 1 THEN "queue"
                         ELSE IF msg > 0 THEN "disQueue"
                         ELSE IF u \in broken THEN "disLost" ELSE "disNext",
                  u |-> u, msg |-> msg, more |-> Unread(u) > 1, ev |-> {}]
      BY <1>4, Zenon DEF Recvmsg
    <3> QED
      BY <3>1, <2>0 DEF SrvRecords, InCall
  <2>3. Types'
    BY <2>1, <2>2
  <2>4. Counters'
    <3>1. taken'[u] <= arrived[u]
      BY <2>0, <2>1 DEF Counters, Unread
    <3> QED
      BY <2>1, <3>1 DEF Counters
  <2>5. AtWork'
    BY <2>0, <2>2 DEF AtWork, InCall
  <2>6. EpollInv' /\ Registered'
    BY <2>2 DEF EpollInv, EpollTypeOK, ReadyOnlyIfWatched, Registered
  <2>7. Fresh'
    BY <2>1, <2>2 DEF Fresh
  <2>8. Books'
    BY <2>2 DEF Books, Works, At, Unread
  <2>9. Reported'
    BY <2>2 DEF Reported, At
  <2> QED
    BY <2>3, <2>4, <2>5, <2>6, <2>7, <2>8, <2>9
<1> QED
  BY <1>3, <1>4

-----------------------------------------------------------------------------
(* Messages in order: where a message moves, the row it stands in stays.   *)

LEMMA FirstNIsSeq ==
  ASSUME NEW n \in Nat
  PROVE  FirstN(n) \in Seq(Nat) /\ Len(FirstN(n)) = n /\ \A i \in 1 .. n : FirstN(n)[i] = i
  BY DEF FirstN

LEMMA FirstNNext == ASSUME NEW n \in Nat PROVE FirstN(n) \o <<n + 1>> = FirstN(n + 1)
<1>1. /\ FirstN(n) \in Seq(Nat) /\ Len(FirstN(n)) = n /\ \A i \in 1 .. n : FirstN(n)[i] = i
      /\ FirstN(n + 1) \in Seq(Nat) /\ Len(FirstN(n + 1)) = n + 1
      /\ \A i \in 1 .. n + 1 : FirstN(n + 1)[i] = i
  BY FirstNIsSeq
<1>2. <<n + 1>> \in Seq(Nat) /\ Len(<<n + 1>>) = 1 /\ <<n + 1>>[1] = n + 1
  OBVIOUS
<1>3. FirstN(n) \o <<n + 1>> \in Seq(Nat) /\ Len(FirstN(n) \o <<n + 1>>) = n + 1
  BY <1>1, <1>2, ConcatProperties
<1>4. \A i \in 1 .. n + 1 : (FirstN(n) \o <<n + 1>>)[i] = i
  BY <1>1, <1>2, ConcatProperties
<1> HIDE DEF FirstN
<1> QED
  BY <1>1, <1>3, <1>4, SeqEqual

LEMMA HeadMoves ==
  ASSUME NEW s \in Seq(Nat), NEW t \in Seq(Nat), t # <<>>
  PROVE  Append(s, Head(t)) \o Tail(t) = s \o t
<1>1. Head(t) \in Nat /\ Tail(t) \in Seq(Nat) /\ Append(s, Head(t)) \in Seq(Nat)
  BY HeadTailProperties, AppendProperties
<1>2. Append(s, Head(t)) \o Tail(t) \in Seq(Nat) /\ s \o t \in Seq(Nat)
  BY <1>1, ConcatProperties
<1>3. Len(Append(s, Head(t)) \o Tail(t)) = Len(s \o t)
  BY <1>1, ConcatProperties, AppendProperties, HeadTailProperties
<1>4. \A i \in 1 .. Len(s \o t) : (Append(s, Head(t)) \o Tail(t))[i] = (s \o t)[i]
  OBVIOUS
<1> QED
  BY <1>2, <1>3, <1>4, SeqEqual

LEMMA ConcatAppend ==
  ASSUME NEW s \in Seq(Nat), NEW t \in Seq(Nat), NEW x \in Nat
  PROVE  s \o Append(t, x) = Append(s \o t, x)
<1>1. <<x>> \in Seq(Nat) /\ s \o t \in Seq(Nat)
  BY ConcatProperties
<1> QED
  BY <1>1, AppendIsConcat, ConcatAssociative

Row(e, s, m, h) == e \o s \o m \o h

LEMMA NextOfRow ==
  ASSUME NEW e \in Seq(Nat), NEW s \in Seq(Nat), NEW m \in Seq(Nat), NEW h \in Seq(Nat), NEW n \in Nat,
         e = FirstN(Len(e)), s # <<>>, Row(e, s, m, h) = FirstN(n)
  PROVE  Append(e, Head(s)) = FirstN(Len(e) + 1)
<1> DEFINE k == Len(e) + 1
           es == e \o s
           esm == es \o m
<1>1. /\ es \in Seq(Nat) /\ Len(es) = Len(e) + Len(s) /\ k \in 1 .. Len(es) /\ es[k] = Head(s)
  BY ConcatProperties
<1>2. FirstN(n)[k] = k \/ k \notin 1 .. n
  BY FirstNIsSeq
<1>3. Len(FirstN(n)) = n /\ FirstN(n) = esm \o h
  BY FirstNIsSeq DEF Row
<1> HIDE DEF es, FirstN
<1>4. esm \in Seq(Nat) /\ k \in 1 .. Len(esm) /\ esm[k] = es[k]
  BY <1>1, ConcatProperties
<1> HIDE DEF esm
<1>5. k \in 1 .. Len(esm \o h) /\ (esm \o h)[k] = esm[k]
  BY <1>4, ConcatProperties
<1>6. Head(s) = k
  BY <1>1, <1>2, <1>3, <1>4, <1>5
<1>7. Len(e) \in Nat /\ k \in Nat
  OBVIOUS
<1>8. Append(e, k) = e \o <<k>>
  BY <1>7, AppendIsConcat
<1>9. FirstN(Len(e)) \o <<k>> = FirstN(k)
  BY <1>7, FirstNNext
<1> QED
  BY <1>6, <1>8, <1>9

LEMMA HeldIsSeq == ServerInv => \A u \in Conns : Held(u) \in Seq(Nat)
  BY DEF ServerInv, Types, SrvRecords, Held

\* A step that moves no message.
LEMMA EchoFrame ==
  ASSUME EchoInOrder, UNCHANGED <<echoed, sndBuf, msgBuf, taken>>,
         \A u \in Conns : Held(u)' = Held(u) /\ (Works(u)' => Works(u))
  PROVE  EchoInOrder'
  BY DEF EchoInOrder, FirstN

LEMMA EchoConnect ==
  ASSUME ServerInv, EchoInOrder, NEW u \in Conns, Connect(u)
  PROVE  EchoInOrder'
<1>1. /\ UNCHANGED <<echoed, sndBuf, msgBuf, taken, srv, broken>>
      /\ \A v \in Conns \ {u} : link'[v] = link[v]
  BY DEF Connect, queueVars, ServerInv, Types
<1>2. echoed[u] = <<>> /\ sndBuf[u] = <<>> /\ msgBuf[u] = <<>> /\ taken[u] = 0 /\ Held(u) = <<>>
  BY DEF Connect, ServerInv, Fresh, Held
<1>3. FirstN(0) = <<>> /\ <<>> \o <<>> \o <<>> \o <<>> = <<>>
  <2>1. FirstN(0) = <<>>
    BY FirstNIsSeq, EmptySeq
  <2>2. <<>> \o <<>> = <<>>
    BY ConcatEmptySeq, EmptySeq
  <2> QED
    BY <2>1, <2>2
<1> QED
  BY <1>1, <1>2, <1>3 DEF EchoInOrder, Works, Held

LEMMA EchoAck ==
  ASSUME ServerInv, EchoInOrder, NEW u \in Conns, Ack(u)
  PROVE  EchoInOrder'
<1>1. /\ UNCHANGED <<msgBuf, taken, srv, broken, link>>
      /\ \A v \in Conns \ {u} : echoed'[v] = echoed[v] /\ sndBuf'[v] = sndBuf[v]
      /\ echoed'[u] = Append(echoed[u], Head(sndBuf[u])) /\ sndBuf'[u] = Tail(sndBuf[u])
      /\ sndBuf[u] # <<>> /\ Works(u)
  BY DEF Ack, queueVars, ServerInv, Types
<1>2. /\ echoed[u] \in Seq(Nat) /\ sndBuf[u] \in Seq(Nat) /\ msgBuf[u] \in Seq(Nat)
      /\ Held(u) \in Seq(Nat) /\ taken[u] \in Nat
  BY HeldIsSeq DEF ServerInv, Types
<1>4. /\ Row(echoed[u], sndBuf[u], msgBuf[u], Held(u)) = FirstN(taken[u])
      /\ echoed[u] = FirstN(Len(echoed[u]))
  BY <1>1 DEF EchoInOrder, Row
<1>5. echoed'[u] = FirstN(Len(echoed'[u]))
  <2>1. echoed'[u] = FirstN(Len(echoed[u]) + 1)
    <3>1. sndBuf[u] # <<>>
      BY <1>1
    <3>2. Append(echoed[u], Head(sndBuf[u])) = FirstN(Len(echoed[u]) + 1)
      BY <3>1, <1>2, <1>4, NextOfRow, Zenon
    <3> QED
      BY <1>1, <3>2, Zenon
  <2>2. Len(echoed[u]) + 1 \in Nat
    BY <1>2
  <2> QED
    BY <2>1, <2>2, FirstNIsSeq
<1>6. echoed'[u] \o sndBuf'[u] = echoed[u] \o sndBuf[u]
  BY <1>1, <1>2, HeadMoves
<1> QED
  BY <1>1, <1>5, <1>6 DEF EchoInOrder, Works, Held

LEMMA EchoRead ==
  ASSUME ServerInv, EchoInOrder, NEW u \in Conns, HandleRead(u)
  PROVE  EchoInOrder'
<1> DEFINE n == taken[u] + 1
           msg == IF Unread(u) > 0 THEN n ELSE 0
           row == echoed[u] \o sndBuf[u] \o msgBuf[u]
<1>1. /\ UNCHANGED <<echoed, sndBuf, msgBuf, link, broken>> /\ Recvmsg(u) /\ srv.pc = "turn"
  BY DEF HandleRead, libVars, queueVars, At
<1>2. \A v \in Conns : Held(v) = <<>>
  BY <1>1 DEF ServerInv, AtWork, Types, SrvRecords, Held
<1>3. CASE ~Located(u)
  <2>1. srv' = Do("lost", u) /\ UNCHANGED taken
    BY <1>1, <1>3 DEF Recvmsg
  <2>2. \A v \in Conns : Held(v)' = <<>>
    BY <2>1 DEF Do, Held
  <2> QED
    BY <1>1, <1>2, <2>1, <2>2, EchoFrame DEF Works
<1>4. CASE Located(u)
  <2>1. n \in Nat /\ n > 0 /\ msg \in Nat /\ taken[u] \in Nat
    BY DEF ServerInv, Types
  <2>2. taken' = [taken EXCEPT ![u] = IF msg = 0 THEN @ ELSE n] /\ srv'.u = u /\ srv'.msg = msg
    BY <1>1, <1>4 DEF Recvmsg
  <2>3. \A v \in Conns \ {u} : Held(v)' = <<>> /\ taken'[v] = taken[v]
    BY <2>2 DEF Held, ServerInv, Types
  <2>4. row \in Seq(Nat) /\ (Works(u) => row = FirstN(taken[u]))
    <3>1. row \in Seq(Nat)
      BY ConcatProperties DEF ServerInv, Types
    <3> QED
      BY <3>1, <1>2, ConcatEmptySeq DEF EchoInOrder
  <2>5. Works(u) => row \o Held(u)' = FirstN(taken'[u])
    <3>1. CASE Unread(u) > 0
      <4>1. taken'[u] = n /\ Held(u)' = <<n>>
        BY <2>1, <2>2, <3>1 DEF Held, ServerInv, Types
      <4> QED
        BY <4>1, <2>1, <2>4, FirstNNext
    <3>2. CASE ~(Unread(u) > 0)
      <4>1. taken'[u] = taken[u] /\ Held(u)' = <<>>
        BY <2>1, <2>2, <3>2 DEF Held, ServerInv, Types
      <4> QED
        BY <4>1, <2>4, ConcatEmptySeq
    <3> QED
      BY <3>1, <3>2
  <2> QED
    BY <1>1, <1>2, <2>3, <2>5 DEF EchoInOrder, Works
<1> QED
  BY <1>3, <1>4

LEMMA EchoQueued ==
  ASSUME ServerInv, EchoInOrder, AddMsgToSendBuf
  PROVE  EchoInOrder'
<1> DEFINE u == srv.u
           row == echoed[u] \o sndBuf[u] \o msgBuf[u]
<1>1. /\ UNCHANGED <<echoed, sndBuf, taken, link, broken>> /\ u \in Conns
      /\ msgBuf' = [msgBuf EXCEPT ![u] = Append(@, srv.msg)]
      /\ srv'.msg = 0 /\ srv'.u = u /\ srv.msg \in Nat /\ srv.msg > 0
  BY DEF AddMsgToSendBuf, At, libVars, ServerInv, Types, SrvRecords, AtWork, InCall
<1>2. /\ Held(u) = <<srv.msg>> /\ Held(u)' = <<>>
      /\ \A v \in Conns \ {u} : Held(v)' = Held(v) /\ msgBuf'[v] = msgBuf[v]
  BY <1>1 DEF Held, ServerInv, Types
<1>3. echoed[u] \o sndBuf[u] \in Seq(Nat) /\ msgBuf[u] \in Seq(Nat) /\ row \in Seq(Nat)
  BY <1>1, ConcatProperties DEF ServerInv, Types
<1>4. (echoed[u] \o sndBuf[u]) \o msgBuf'[u] \o <<>> = row \o <<srv.msg>>
  <2>1. msgBuf'[u] = Append(msgBuf[u], srv.msg)
    BY <1>1 DEF ServerInv, Types
  <2>2. (echoed[u] \o sndBuf[u]) \o Append(msgBuf[u], srv.msg) = Append(row, srv.msg)
    BY <1>1, <1>3, ConcatAppend
  <2>3. Append(row, srv.msg) = row \o <<srv.msg>> /\ Append(row, srv.msg) \in Seq(Nat)
    BY <1>1, <1>3, AppendIsConcat, AppendProperties
  <2> QED
    BY <2>1, <2>2, <2>3, ConcatEmptySeq
<1> QED
  BY <1>1, <1>2, <1>4 DEF EchoInOrder, Works

LEMMA EchoSent ==
  ASSUME ServerInv, EchoInOrder, SendAccepted
  PROVE  EchoInOrder'
<1> DEFINE u == srv.u
           h == Head(msgBuf[u])
<1>1. /\ UNCHANGED <<echoed, taken, link, broken>> /\ u \in Conns /\ msgBuf[u] # <<>>
      /\ sndBuf' = [sndBuf EXCEPT ![u] = Append(@, h)] /\ msgBuf' = [msgBuf EXCEPT ![u] = Tail(@)]
      /\ srv'.msg = srv.msg /\ srv'.u = u
  BY DEF SendAccepted, At, Goto, libVars, ServerInv, Types, SrvRecords, AtWork, InCall
<1>2. echoed[u] \in Seq(Nat) /\ sndBuf[u] \in Seq(Nat) /\ msgBuf[u] \in Seq(Nat) /\ h \in Nat
  BY <1>1, HeadTailProperties DEF ServerInv, Types
<1>3. /\ sndBuf'[u] = Append(sndBuf[u], h) /\ msgBuf'[u] = Tail(msgBuf[u])
      /\ \A v \in Conns \ {u} : sndBuf'[v] = sndBuf[v] /\ msgBuf'[v] = msgBuf[v]
      /\ \A v \in Conns : Held(v)' = Held(v)
  BY <1>1 DEF ServerInv, Types, Held
<1>4. echoed[u] \o sndBuf'[u] \o msgBuf'[u] = echoed[u] \o sndBuf[u] \o msgBuf[u]
  <2>1. echoed[u] \o Append(sndBuf[u], h) = Append(echoed[u] \o sndBuf[u], h)
    BY <1>2, ConcatAppend, Zenon
  <2>2. echoed[u] \o sndBuf[u] \in Seq(Nat)
    BY <1>2, ConcatProperties
  <2>3. Append(echoed[u] \o sndBuf[u], h) \o Tail(msgBuf[u]) = echoed[u] \o sndBuf[u] \o msgBuf[u]
    BY <1>1, <1>2, <2>2, HeadMoves, Zenon
  <2> QED
    BY <1>1, <1>3, <2>1, <2>3, Zenon
<1> QED
  BY <1>1, <1>3, <1>4 DEF EchoInOrder, Works

LEMMA EchoFailed ==
  ASSUME ServerInv, EchoInOrder, SendFailed
  PROVE  EchoInOrder'
<1>1. /\ UNCHANGED <<echoed, sndBuf, taken, link, broken>> /\ srv.u \in Conns
      /\ \A v \in Conns \ {srv.u} : msgBuf'[v] = msgBuf[v]
      /\ srv'.msg = srv.msg /\ srv'.u = srv.u
  BY DEF SendFailed, At, Goto, libVars, ServerInv, Types, SrvRecords, AtWork, InCall
<1>2. ~Works(srv.u)
  BY <1>1 DEF SendFailed, Located, Works, Conns
<1> QED
  BY <1>1, <1>2 DEF EchoInOrder, Works, Held

LEMMA EchoElsewhere ==
  ASSUME ServerInv, EchoInOrder,
         \/ \E u \in Conns : \/ Arrive(u) \/ PeerShutdown(u) \/ PeerSilent(u)
                             \/ Collect(u) \/ Destroy(u) \/ StartSending(u)
         \/ Announce \/ Wait \/ TurnOver \/ HandleListener \/ DropReader \/ AddToPoll
         \/ AddCheck \/ RecvDisable \/ SendDisable \/ NothingToSend \/ SendRefused
  PROVE  EchoInOrder'
<1> USE DEF ServerInv, Types, libVars, queueVars, fdVars
<1>1. ASSUME UNCHANGED <<echoed, sndBuf, msgBuf, taken, link>>, broken \subseteq broken',
             srv'.msg = srv.msg /\ (srv.msg > 0 => srv'.u = srv.u)
      PROVE  EchoInOrder'
  BY <1>1, EchoFrame DEF Held, Works
<1>2. ASSUME NEW u \in Conns, Arrive(u) \/ PeerShutdown(u) \/ PeerSilent(u)
      PROVE  EchoInOrder'
  BY <1>1, <1>2 DEF Arrive, PeerShutdown, PeerSilent
<1>3. ASSUME NEW u \in Conns, Collect(u) \/ Destroy(u)
      PROVE  EchoInOrder'
  <2>1. UNCHANGED <<echoed, sndBuf, msgBuf, taken, srv, broken>>
    BY <1>3 DEF Collect, Destroy
  <2>2. \A v \in Conns : Works(v)' => Works(v)
    BY <1>3 DEF Collect, Destroy, Works
  <2> QED
    BY <2>1, <2>2, EchoFrame DEF Held
<1>4. ASSUME NEW u \in Conns, StartSending(u)
      PROVE  EchoInOrder'
  BY <1>1, <1>4 DEF StartSending, AtWork, At, Do, SrvRecords
<1>5. CASE Announce
  BY <1>1, <1>5 DEF Announce, AnnounceRead, AnnounceWrite
<1>6. CASE Wait \/ TurnOver \/ DropReader
  BY <1>1, <1>6 DEF Wait, TurnOver, DropReader, AtWork, At, Do, SrvRecords
<1>7. CASE HandleListener
  <2>1. UNCHANGED <<echoed, sndBuf, msgBuf, taken, broken>> /\ srv.msg = 0
    BY <1>7 DEF HandleListener, AtWork, At, SrvRecords
  <2>0. srv'.msg = 0
    <3>1. \/ srv' = Do("turn", Listener)
          \/ \E u \in Conns : srv' = [Do("add", u) EXCEPT !.ev = {"in"}]
      BY <1>7, Zenon DEF HandleListener
    <3>2. CASE srv' = Do("turn", Listener)
      BY <3>2 DEF Do
    <3>3. ASSUME NEW u \in Conns, srv' = [Do("add", u) EXCEPT !.ev = {"in"}] PROVE srv'.msg = 0
      BY <3>3 DEF Do
    <3> QED
      BY <3>1, <3>2, <3>3
  <2>2. \A v \in Conns : Works(v)' => Works(v)
    BY <1>7 DEF HandleListener, Works
  <2> QED
    BY <2>0, <2>1, <2>2, EchoFrame DEF Held
<1>8. CASE AddToPoll
  BY <1>1, <1>8 DEF AddToPoll, Goto, SrvRecords
<1>9. CASE AddCheck \/ RecvDisable \/ SendDisable \/ SendRefused
  BY <1>1, <1>9 DEF AddCheck, RecvDisable, SendDisable, SendRefused, Goto, SrvRecords
<1>10. CASE NothingToSend
  <2>1. srv.msg = 0 /\ srv'.msg = 0
    BY <1>10 DEF NothingToSend, AtWork, At, Do, Goto, SrvRecords
  <2> QED
    BY <1>1, <1>10, <2>1 DEF NothingToSend
<1> QED
  BY <1>2, <1>3, <1>4, <1>5, <1>6, <1>7, <1>8, <1>9, <1>10, Zenon

-----------------------------------------------------------------------------
(* The theorems.                                                           *)

IInv == ServerInv /\ EchoInOrder

LEMMA InitInv == UdtServerInit => IInv
<1> SUFFICES ASSUME UdtServerInit PROVE IInv
  OBVIOUS
<1> USE OneEpoll, UdtServerAssumption DEF UdtServerInit, NoSocks
<1>1. Types
  <2>1. \A S : <<>> \in Seq(S)
    BY EmptySeq
  <2>2. rcvq \in [sock : Socks, what : SUBSET Events]
    BY DEF NoWork
  <2>3. srv \in SrvRecords
    BY DEF SrvRecords, Do
  <2> QED
    BY <2>1, <2>2, <2>3 DEF Types, Conns
<1>2. EpollInv
  BY DEF EpollInv, EpollTypeOK, ReadyOnlyIfWatched
<1>3. AtWork /\ Counters /\ Registered /\ Reported
  BY EmptySeq DEF AtWork, Do, InCall, Counters, Registered, Reported, Conns
<1>4. Fresh /\ Books
  BY DEF Fresh, Books, Do, At, Conns, Works
<1>5. EchoInOrder
  <2>1. FirstN(0) = <<>> /\ <<>> \o <<>> = <<>> /\ Len(<<>>) = 0
    BY FirstNIsSeq, EmptySeq, ConcatEmptySeq
  <2>2. \A u \in Conns : ~Works(u)
    BY DEF Works
  <2> QED
    BY <2>1, <2>2 DEF EchoInOrder
<1> QED
  BY <1>1, <1>2, <1>3, <1>4, <1>5 DEF IInv, ServerInv

LEMMA NextInv == IInv /\ [UdtServerNext]_serverVars => IInv'
<1> SUFFICES ASSUME ServerInv, EchoInOrder, [UdtServerNext]_serverVars PROVE ServerInv' /\ EchoInOrder'
  BY DEF IInv
<1>1. CASE UNCHANGED serverVars
  <2>1. ServerInv'
    BY <1>1 DEF serverVars, epollVars, libVars, fdVars, queueVars, ServerInv, Types, EpollInv,
                EpollTypeOK, ReadyOnlyIfWatched, AtWork, Counters, Registered, Fresh, Books, Works,
                At, Reported
  <2>2. EchoInOrder'
    BY <1>1, EchoFrame DEF serverVars, libVars, queueVars, Held, Works
  <2> QED
    BY <2>1, <2>2
<1>2. ASSUME NEW u \in Conns,
             \/ Connect(u) \/ Arrive(u) \/ Ack(u) \/ PeerShutdown(u) \/ PeerSilent(u)
             \/ Collect(u) \/ Destroy(u)
      PROVE  ServerInv' /\ EchoInOrder'
  <2>1. ServerInv'
    BY <1>2, ConnectInv, ArriveInv, AckInv, PeerShutdownInv, PeerSilentInv, CollectInv, DestroyInv, Zenon
  <2>2. EchoInOrder'
    BY <1>2, EchoConnect, EchoAck, EchoElsewhere, Zenon
  <2> QED
    BY <2>1, <2>2
<1>3. CASE Announce
  BY <1>3, AnnounceReadInv, AnnounceWriteInv, EchoElsewhere, Zenon DEF Announce
<1>4. ASSUME NEW u \in Conns, HandleRead(u) \/ StartSending(u)
      PROVE  ServerInv' /\ EchoInOrder'
  BY <1>4, HandleReadInv, StartSendingInv, EchoRead, EchoElsewhere, Zenon
<1>5. CASE AddMsgToSendBuf \/ SendAccepted \/ SendFailed
  BY <1>5, AddMsgToSendBufInv, SendAcceptedInv, SendFailedInv, EchoQueued, EchoSent, EchoFailed, Zenon
<1>6. CASE Wait \/ TurnOver \/ HandleListener \/ DropReader \/ AddToPoll \/ AddCheck
  BY <1>6, WaitInv, TurnOverInv, HandleListenerInv, DropReaderInv, AddToPollInv, AddCheckInv,
     EchoElsewhere, Zenon
<1>7. CASE RecvDisable \/ SendDisable \/ NothingToSend \/ SendRefused
  BY <1>7, RecvDisableInv, SendDisableInv, NothingToSendInv, SendRefusedInv, EchoElsewhere, Zenon
<1> QED
  BY <1>1, <1>2, <1>3, <1>4, <1>5, <1>6, <1>7, Zenon DEF UdtServerNext, ServerStep

LEMMA Invariance == UdtServerSpec => []IInv
  BY InitInv, NextInv, PTL DEF UdtServerSpec

(* The messages of a connection that works are, from the client's answers to the  *)
(* one just read, all that was read, in order and each once (recvmsg, SendMsgBuf,  *)
(* sendmsg), however the library's threads and the server's interleave.            *)
THEOREM ServerEchoesInOrder == UdtServerSpec => []EchoInOrder
  BY Invariance, PTL DEF IInv

(* The types are right, and between two turns a connection that works is watched   *)
(* for reading, and for writing exactly when events_with_write_ lists it.          *)
THEOREM ServerBooksMatch == UdtServerSpec => []BooksMatchEpoll
<1>1. ServerInv => BooksMatchEpoll
  <2> SUFFICES ASSUME ServerInv PROVE BooksMatchEpoll
    OBVIOUS
  <2>1. UdtServerTypeOK
    BY UdtServerAssumption DEF UdtServerTypeOK, ServerInv, Types, EpollInv, Counters
  <2>2. At("wait") =>
          \A u \in Conns :
            /\ msgBuf[u] # <<>> => u \in withWrite
            /\ Works(u) /\ link[u] = "open" =>
                 u \in socksIn[1] /\ (u \in withWrite <=> u \in socksOut[1])
    BY DEF ServerInv, Books, At
  <2> QED
    BY <2>1, <2>2 DEF BooksMatchEpoll
<1> QED
  BY <1>1, Invariance, PTL DEF IInv

(* A silent peer stays reported as long as its socket is watched, unless recvmsg,  *)
(* sendmsg or addEPoll has taken the report away.                                  *)
THEOREM ServerHearsOfSilence == UdtServerSpec => []SilenceReported
<1>1. ServerInv => SilenceReported
  BY DEF ServerInv, Reported, SilenceReported, At
<1> QED
  BY <1>1, Invariance, PTL DEF IInv
=============================================================================
