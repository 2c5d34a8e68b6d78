----------------------------- MODULE UdtConnect -----------------------------
(***************************************************************************)
(* Setting up a connection (core.cpp: connect and listen of CUDT; api.cpp: *)
(* connect, newConnection, accept; queue.cpp: the connectors and the       *)
(* stored packets of CRcvQueue): clients with a synchronous or an          *)
(* asynchronous connect, a network that loses, repeats, delays and         *)
(* reorders packets, and the listener of a server.                         *)
(*                                                                         *)
(* A request is sent with type 1, answered with a cookie, sent again with  *)
(* type -1 and the cookie, and answered with the identity of a new socket, *)
(* or refused (type 1002).                                                 *)
(***************************************************************************)
EXTENDS Integers, Sequences, FiniteSets, SequencesExt

CONSTANTS
    Clients,     \* connecting sockets
    SocketID,    \* their m_SocketID
    SynRecving,  \* their m_bSynRecving: connect waits
    Address,     \* and the address they connect from
    Isns,        \* initial sequence numbers rand() may return
    Backlog,     \* m_uiBackLog of the listener
    StoreMax,    \* packets storePkt keeps for a socket, 17 in the code
    MaxAttempts, \* bound on the calls of connect of all clients
    MaxSockets,  \* bound on the sockets the listener makes
    MaxMinute    \* bound on the minutes a behaviour lasts

ASSUME UdtConnectAssumption ==
    /\ SocketID \in [Clients -> Nat] /\ SynRecving \in [Clients -> BOOLEAN] /\ DOMAIN Address = Clients
    /\ {Backlog, StoreMax, MaxAttempts, MaxSockets} \subseteq Nat \ {0} /\ MaxMinute \in Nat
    /\ Isns \subseteq Nat \ {0}

VARIABLES
    app,        \* where the application of a client is: "idle", "starting" or "waiting" in connect
    status,     \* m_Status: "OPENED", "CONNECTING", "CONNECTED"
    connecting, \* m_bConnecting
    connected,  \* m_bConnected
    conReq,     \* m_ConnReq: type, cookie and initial sequence number
    conRes,     \* m_ConnRes: type and initial sequence number
    entries,    \* its entries in m_lRendezvousID: which attempt made them
    attempts,   \* how often it called connect
    expired,    \* how many of the attempts have run out of time (m_ullTTL)
    stored,     \* m_mBuffer: packets kept for the application
    peerOf,     \* m_PeerID: a socket of the server, 0 for none
    result,     \* what its last connect returned: "none", "ok", "failed"
    requests,   \* packets on their way to the server
    answers,    \* and to the clients
    minute,     \* since the listener was opened
    listening,  \* the listener is found by locate
    socks,      \* the sockets newConnection has made, in order
    queued,     \* m_pQueuedSockets of the listener
    accepted    \* sockets accept has returned

clientVars == <<app, status, connecting, connected, conReq, conRes, entries, attempts,
                stored, peerOf, result>>
serverVars == <<listening, socks, queued, accepted>>
netVars == <<requests, answers>>
udtConnectVars == <<clientVars, expired, netVars, minute, serverVars>>

UdtConnectInit ==
    /\ app = [c \in Clients |-> "idle"] /\ status = [c \in Clients |-> "OPENED"]
    /\ connecting = [c \in Clients |-> FALSE] /\ connected = [c \in Clients |-> FALSE]
    /\ conReq = [c \in Clients |-> [type |-> 1, cookie |-> 0, isn |-> 0]]
    /\ conRes = [c \in Clients |-> [type |-> 0, isn |-> 0]]
    /\ entries = [c \in Clients |-> <<>>] /\ attempts = [c \in Clients |-> 0]
    /\ expired = [c \in Clients |-> 0] /\ stored = [c \in Clients |-> <<>>]
    /\ peerOf = [c \in Clients |-> 0] /\ result = [c \in Clients |-> "none"]
    /\ requests = {} /\ answers = {} /\ minute = 0
    /\ listening = TRUE /\ socks = <<>> /\ queued = {} /\ accepted = {}

-----------------------------------------------------------------------------
(* The clients.                                                            *)

Request(c) == [from |-> c, req |-> conReq'[c]]

\* Else connect throws: the socket is connecting or connected.
MayConnect(c) ==
    app[c] = "idle" /\ status[c] = "OPENED" /\ ~connecting[c] /\ ~connected[c]

\* connect: the connector is registered and the first request sent ...
Connect(c) ==
    /\ MayConnect(c)
    /\ MapThenSumSet(LAMBDA d : attempts[d], Clients) < MaxAttempts
    /\ app' = [app EXCEPT ![c] = "starting"]
    /\ status' = [status EXCEPT ![c] = "CONNECTING"]
    /\ attempts' = [attempts EXCEPT ![c] = @ + 1]
    /\ entries' = [entries EXCEPT ![c] = Append(@, attempts'[c])]
    /\ \E i \in Isns : conReq' = [conReq EXCEPT ![c].type = 1, ![c].isn = i]
    /\ requests' = requests \cup {Request(c)}
    /\ result' = [result EXCEPT ![c] = "none"]
    /\ UNCHANGED <<connecting, connected, conRes, expired, stored, peerOf, answers, minute, serverVars>>

\* ... before m_bConnecting is set; an asynchronous connect returns then.
ConnectStarted(c) ==
    /\ app[c] = "starting"
    /\ connecting' = [connecting EXCEPT ![c] = TRUE]
    /\ app' = [app EXCEPT ![c] = IF SynRecving[c] THEN "waiting" ELSE "idle"]
    /\ UNCHANGED <<status, connected, conReq, conRes, entries, attempts, stored, peerOf,
                   result, expired, netVars, minute, serverVars>>

\* connect(response), and what it returns: -1, 0 or 1.
Verdict(c, p) ==
    IF ~connecting[c] \/ p.kind # "handshake" THEN -1 ELSE IF p.type = 1 THEN 1 ELSE 0

\* Mutant of ConnectorsAfter: also a packet that is no answer removes the connector.
ConnectorsAfterAny(c, p) ==
    IF Verdict(c, p) <= 0 /\ entries[c] # <<>> THEN Tail(entries[c]) ELSE entries[c]

\* removeConnector takes the oldest entry of the socket.
ConnectorsAfter(c, p) ==
    IF Verdict(c, p) = 0 /\ entries[c] # <<>> THEN Tail(entries[c]) ELSE entries[c]

ConnectResponse(c, p) ==
    /\ entries' = [entries EXCEPT ![c] = ConnectorsAfter(c, p)]
    /\ \/ /\ Verdict(c, p) = -1
          /\ UNCHANGED <<conRes, conReq, connecting, connected, peerOf>>
       \/ /\ Verdict(c, p) = 1
          /\ conRes' = [conRes EXCEPT ![c] = [type |-> 1, isn |-> p.isn]]
          /\ conReq' = [conReq EXCEPT ![c].type = -1, ![c].cookie = p.cookie]
          /\ UNCHANGED <<connecting, connected, peerOf>>
       \/ /\ Verdict(c, p) = 0
          /\ conRes' = [conRes EXCEPT ![c] = [type |-> p.type, isn |-> p.isn]]
          /\ connecting' = [connecting EXCEPT ![c] = FALSE]
          /\ connected' = [connected EXCEPT ![c] = TRUE]
          /\ peerOf' = [peerOf EXCEPT ![c] = p.sock]
          /\ UNCHANGED conReq

\* removeConnector throws the stored packets away, too.
StoredAfter(c, s, p) == IF Verdict(c, p) = 0 THEN <<>> ELSE s

StatusAfter(c, p) == IF Verdict(c, p) = 0 THEN "CONNECTED" ELSE status[c]  \* connect_complete

\* The receive-queue thread of the client gets a packet for a socket that is
\* not connected: it calls connect(response) or stores the packet.
Receive(c, p) ==
    /\ p \in answers /\ p.to = c
    /\ ~connected[c] /\ entries[c] # <<>>
    /\ \/ /\ ~SynRecving[c]
          /\ ConnectResponse(c, p)
          /\ stored' = [stored EXCEPT ![c] = StoredAfter(c, @, p)]
          /\ status' = [status EXCEPT ![c] = StatusAfter(c, p)]
       \/ /\ SynRecving[c] /\ Len(stored[c]) < StoreMax
          /\ stored' = [stored EXCEPT ![c] = Append(@, p)]
          /\ UNCHANGED <<status, conRes, conReq, connecting, connected, entries, peerOf>>
    /\ UNCHANGED <<app, attempts, result, expired, netVars, minute, serverVars>>

\* Leaving the loop of connect without a timeout: refused, or not the initial
\* sequence number that was sent, or success.
Outcome(c) == IF conRes'[c].type = 1002 \/ conRes'[c].isn # conReq[c].isn THEN "failed" ELSE "ok"

Returned(c, r, s) ==
    /\ app' = [app EXCEPT ![c] = "idle"]
    /\ result' = [result EXCEPT ![c] = r]
    /\ status' = [status EXCEPT ![c] = IF r = "failed" THEN "OPENED" ELSE s]

\* A turn of the loop that finds a stored packet: the loop ends unless the
\* handshake goes on and there is time left.
TakeStored(c) ==
    /\ app[c] = "waiting" /\ stored[c] # <<>>
    /\ LET p == Head(stored[c])
       IN /\ ConnectResponse(c, p)
          /\ stored' = [stored EXCEPT ![c] = StoredAfter(c, Tail(@), p)]
          /\ \/ Verdict(c, p) <= 0 /\ Returned(c, Outcome(c), StatusAfter(c, p))
             \/ Verdict(c, p) = 1 /\ expired[c] = attempts[c] /\ Returned(c, "failed", "OPENED")
             \/ Verdict(c, p) = 1 /\ expired[c] < attempts[c] /\ UNCHANGED <<app, result, status>>
    /\ UNCHANGED <<attempts, expired, netVars, minute, serverVars>>

\* Mutant of Timeout: the timeout is not told.
TimeoutUnnoticed(c) ==
    /\ app[c] = "waiting" /\ stored[c] = <<>> /\ expired[c] = attempts[c]
    /\ Returned(c, "ok", "CONNECTED")
    /\ UNCHANGED <<connecting, connected, conReq, conRes, entries, attempts, stored, peerOf,
                   expired, netVars, minute, serverVars>>

\* A turn that finds none.
Timeout(c) ==
    /\ app[c] = "waiting" /\ stored[c] = <<>> /\ expired[c] = attempts[c]
    /\ Returned(c, "failed", "OPENED")
    /\ UNCHANGED <<connecting, connected, conReq, conRes, entries, attempts, stored, peerOf,
                   expired, netVars, minute, serverVars>>

\* updateConnStatus of the receive-queue thread, or the loop of connect, sends
\* the request again; the former gives an attempt up that ran out of time, but
\* keeps its entry.
UpdateConnStatus(c) ==
    /\ entries[c] # <<>>
    /\ connecting' = [connecting EXCEPT ![c] = @ /\ ~\E i \in DOMAIN entries[c] : entries[c][i] <= expired[c]]
    /\ requests' = IF \E i \in DOMAIN entries[c] : entries[c][i] > expired[c]
                   THEN requests \cup {[from |-> c, req |-> conReq[c]]} ELSE requests
    /\ UNCHANGED <<app, status, connected, conReq, conRes, entries, attempts, stored, peerOf,
                   result, expired, answers, minute, serverVars>>

\* Three seconds have passed.
TimeToLive(c) ==
    /\ expired[c] < attempts[c] /\ app[c] # "starting"
    /\ expired' = [expired EXCEPT ![c] = attempts[c]]
    /\ UNCHANGED <<clientVars, netVars, minute, serverVars>>

-----------------------------------------------------------------------------
(* The listener, called by the receive-queue thread of the server.         *)

Live == {s \in DOMAIN socks : socks[s].state # "closed"}

\* Mutant of Key: without the initial sequence number.
KeyOfSocket(c, i) == <<SocketID[c] % 4, 0>>

\* The key of m_PeerRec is computed in 32 bits: of the identity, two are left.
Key(c, i) == <<SocketID[c] % 4, i>>

\* Mutant of SameRequest: only the sockets in the queue are looked at.
SameRequestUnaccepted(r) ==
    {s \in queued : Key(socks[s].peer, socks[s].isn) = Key(r.from, r.req.isn)
                    /\ Address[socks[s].peer] = Address[r.from]}

\* locate(peer, id, isn): a socket in m_Sockets with the same key and address.
SameRequest(r) ==
    {s \in Live : Key(socks[s].peer, socks[s].isn) = Key(r.from, r.req.isn)
                  /\ Address[socks[s].peer] = Address[r.from]}

\* Mutant of Answer: the identity of the next socket.
AnswerNext(r, type, sock) ==
    {[to |-> r.from, kind |-> "handshake", type |-> type, isn |-> r.req.isn, cookie |-> 0,
      sock |-> IF sock = 0 THEN 0 ELSE sock + 1]}

Answer(r, type, sock) ==
    {[to |-> r.from, kind |-> "handshake", type |-> type, isn |-> r.req.isn, cookie |-> 0, sock |-> sock]}

\* A request without a cookie is answered with that of the minute.
ListenCookie(r) ==
    /\ r \in requests /\ r.req.type = 1
    /\ answers' = answers \cup {[to |-> r.from, kind |-> "handshake", type |-> 1, isn |-> r.req.isn,
                                 cookie |-> minute, sock |-> 0]}
    /\ UNCHANGED <<clientVars, expired, requests, minute, serverVars>>

\* newConnection; the socket that is found and is broken is closed first.  The
\* cookie of the minute before is never right, because it is computed from the
\* text of both minutes.
Located(r) == SameRequest(r) # {} /\ socks[Max(SameRequest(r))].state = "connected"

NewConnection(r) ==
    /\ r \in requests /\ r.req.type = -1 /\ r.req.cookie = minute
    /\ \/ ~listening /\ answers' = answers \cup Answer(r, 1002, 0) /\ UNCHANGED <<socks, queued, accepted>>
       \/ /\ listening /\ Located(r)
          /\ answers' = answers \cup Answer(r, -1, Max(SameRequest(r)))
          /\ UNCHANGED <<socks, queued, accepted>>
       \/ /\ listening /\ ~Located(r)
          /\ LET found == IF SameRequest(r) = {} THEN {} ELSE {Max(SameRequest(r))}
                 left == [s \in DOMAIN socks |-> IF s \in found THEN [socks[s] EXCEPT !.state = "closed"]
                                                 ELSE socks[s]]
             IN \/ /\ Cardinality(queued \ found) >= Backlog
                   /\ answers' = answers \cup Answer(r, 1002, 0)
                   /\ socks' = left /\ queued' = queued \ found
                \/ /\ Cardinality(queued \ found) < Backlog /\ Len(socks) < MaxSockets
                   /\ socks' = Append(left, [peer |-> r.from, isn |-> r.req.isn, state |-> "connected"])
                   /\ queued' = (queued \ found) \cup {Len(socks) + 1}
                   /\ answers' = answers \cup Answer(r, -1, Len(socks) + 1)
             /\ accepted' = accepted \ found
    /\ UNCHANGED <<clientVars, expired, requests, minute, listening>>

\* accept takes the first of the set: identities count down, so it is the last
\* that came.
Accept ==
    /\ listening /\ queued # {}
    /\ queued' = queued \ {Max(queued)} /\ accepted' = accepted \cup {Max(queued)}
    /\ UNCHANGED <<clientVars, expired, netVars, minute, listening, socks>>

\* A socket of the server sends data or a keep-alive to its peer.
ServerSends(s) ==
    /\ socks[s].state = "connected"
    /\ answers' = answers \cup {[to |-> socks[s].peer, kind |-> "data", type |-> 0, isn |-> 0,
                                 cookie |-> 0, sock |-> 0]}
    /\ UNCHANGED <<clientVars, expired, requests, minute, serverVars>>

\* Its connection breaks; or it is closed, by the application once accepted, or
\* by the collector once broken.
ServerBreaks(s) ==
    /\ socks[s].state = "connected"
    /\ socks' = [socks EXCEPT ![s].state = "broken"]
    /\ UNCHANGED <<clientVars, expired, netVars, minute, listening, queued, accepted>>

\* Mutant of ServerCloses: the socket stays in the queue of the listener.
ServerClosesQueued(s) ==
    /\ \/ socks[s].state = "broken"
       \/ socks[s].state = "connected" /\ s \in accepted
    /\ socks' = [socks EXCEPT ![s].state = "closed"]
    /\ accepted' = accepted \ {s}
    /\ UNCHANGED <<clientVars, expired, netVars, minute, listening, queued>>

ServerCloses(s) ==
    /\ \/ socks[s].state = "broken"
       \/ socks[s].state = "connected" /\ s \in accepted
    /\ socks' = [socks EXCEPT ![s].state = "closed"]
    /\ queued' = queued \ {s} /\ accepted' = accepted \ {s}
    /\ UNCHANGED <<clientVars, expired, netVars, minute, listening>>

\* Three seconds after its close the listener is no longer found.
ListenerCloses ==
    /\ listening
    /\ listening' = FALSE
    /\ UNCHANGED <<clientVars, expired, netVars, minute, socks, queued, accepted>>

NextMinute ==
    /\ minute < MaxMinute
    /\ minute' = minute + 1
    /\ UNCHANGED <<clientVars, expired, netVars, serverVars>>

UdtConnectNext ==
    \/ \E c \in Clients :
         \/ Connect(c) \/ ConnectStarted(c) \/ TakeStored(c) \/ Timeout(c)
         \/ UpdateConnStatus(c) \/ TimeToLive(c)
         \/ \E p \in answers : Receive(c, p)
    \/ \E r \in requests : ListenCookie(r) \/ NewConnection(r)
    \/ \E s \in DOMAIN socks : ServerSends(s) \/ ServerBreaks(s) \/ ServerCloses(s)
    \/ Accept \/ ListenerCloses \/ NextMinute

UdtConnectSpec == UdtConnectInit /\ [][UdtConnectNext]_udtConnectVars

-----------------------------------------------------------------------------
UdtConnectTypeOK ==
    /\ app \in [Clients -> {"idle", "starting", "waiting"}]
    /\ status \in [Clients -> {"OPENED", "CONNECTING", "CONNECTED"}]
    /\ connecting \in [Clients -> BOOLEAN] /\ connected \in [Clients -> BOOLEAN]
    /\ peerOf \in [Clients -> 0..MaxSockets]
    /\ queued \subseteq DOMAIN socks /\ accepted \subseteq DOMAIN socks

\* However often a request is repeated, delayed or answered late, the listener
\* makes one socket of it for as long as that socket lives.
OneSocketEach ==
    \A s, t \in DOMAIN socks :
        socks[s].state = "connected" /\ socks[t].state = "connected" /\ s # t =>
            socks[s].peer # socks[t].peer \/ socks[s].isn # socks[t].isn

\* A client that was not refused is connected to a socket that was made for the
\* request of this attempt.  Two ways around that are left: the answer to an
\* earlier attempt, which a synchronous connect notices; and another client with
\* the same address, initial sequence number and last two bits of identity.
PeersMatch ==
    \A c \in Clients : connected[c] /\ conRes[c].type = -1 =>
        /\ peerOf[c] \in DOMAIN socks
        /\ \/ socks[peerOf[c]].isn = conReq[c].isn
           \/ attempts[c] > 1 /\ (SynRecving[c] => result[c] # "ok")
        /\ \/ socks[peerOf[c]].peer = c
           \/ /\ Address[socks[peerOf[c]].peer] = Address[c]
              /\ SocketID[socks[peerOf[c]].peer] % 4 = SocketID[c] % 4

\* The sockets of the listener and the clients match, one for each request, and are
\* well formed (CUDTUnited::newConnection, CUDT::connect, CUDT::listen).
SocketsMatch == UdtConnectTypeOK /\ OneSocketEach /\ PeersMatch

\* Every attempt that failed leaves its connector behind, also when a later one
\* succeeds; none is lost.
ConnectorsKept ==
    \A c \in Clients : Len(entries[c]) = attempts[c] - (IF connected[c] THEN 1 ELSE 0)

\* The queue of the listener never exceeds its backlog, and holds no socket that
\* was closed or accepted.
BacklogKept ==
    /\ Cardinality(queued) <= Backlog
    /\ \A s \in queued : socks[s].state # "closed" /\ s \notin accepted

\* A synchronous connect that fails leaves the socket unconnected, except when
\* it was refused or got the answer to an earlier attempt; one that succeeds has
\* connected it, except when what came after the cookie was no handshake, or the
\* receive-queue thread had given the attempt up.
OutcomeSound ==
    \A c \in Clients : SynRecving[c] =>
        /\ result[c] = "failed" /\ connected[c] => conRes[c].type = 1002 \/ conRes[c].isn # conReq[c].isn
        /\ result[c] = "ok" /\ ~connected[c] => conRes[c].type = 1

\* connect returns success only when the socket is connected (connect.htm).
ConnectMeansConnected ==
    \A c \in Clients : SynRecving[c] /\ result[c] = "ok" => connected[c]

\* When connect fails, the socket can be used to connect again (connect.htm).
FailedMayRetry ==
    \A c \in Clients : result[c] = "failed" => ~connected[c]
=============================================================================
