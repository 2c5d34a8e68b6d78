------------------------------- MODULE UdtMux -------------------------------
(***************************************************************************)
(* Sockets and multiplexers of CUDTUnited (api.cpp): a socket is made,     *)
(* bound, listens or connects, is closed and removed; the multiplexer it   *)
(* is bound to - a UDP port with its queues and threads - is shared by the *)
(* sockets of the port and goes with the last of them.  How a connection   *)
(* is agreed on is in UdtConnect, the threads of accept and close in       *)
(* UdtSockets; each call is one step here.  Sockets are numbered in the    *)
(* order they are made.                                                    *)
(***************************************************************************)
EXTENDS Integers, FiniteSets, Functions

CONSTANTS
    MaxSocks, \* bound on the sockets of a behaviour
    Locals,   \* local addresses, each of one IP version
    Ports,    \* UDP ports
    Sizes,    \* values of UDT_MSS
    MaxUsers  \* bound on the calls of startup without cleanup

ASSUME UdtMuxAssumption ==
    /\ {MaxSocks, MaxUsers} \subseteq Nat \ {0} /\ Ports \subseteq Nat \ {0} /\ Sizes \subseteq Nat \ {0}

VARIABLES
    mxSock,  \* the sockets: status, listenSock, mss, reuse, opened (m_bOpened),
             \* mux (m_iMuxID, 0 for -1), queues (whose queues it points to, 0 for NULL),
             \* self (m_pSelfAddr), asked (the local address bind was called with)
    mxMux,   \* m_mMultiplexer by the ID: mss, ref, reusable, local address, port, and the
             \* m_pListener of its receive queue
    mxUsers, \* m_iInstanceCount
    mxGC     \* m_bGCStatus

udtMuxVars == <<mxSock, mxMux, mxUsers, mxGC>>

MuxSocks == 1..MaxSocks
NoAddr == [local |-> "any", port |-> 0]
Unmade == [status |-> "none", listenSock |-> 0, mss |-> 0, reuse |-> TRUE,
           opened |-> FALSE, mux |-> 0, queues |-> 0, self |-> NoAddr,
           asked |-> "any"]
Destroyed == [Unmade EXCEPT !.status = "gone"]
Undestroyed == {s \in MuxSocks : mxSock[s].status \notin {"none", "gone"}}
Next1 == {s \in MuxSocks : mxSock[s].status = "none" /\ \A t \in 1..s - 1 : mxSock[t].status # "none"}
PortFree(l, p) == \A i \in DOMAIN mxMux : ~(mxMux[i].port = p /\ mxMux[i].local = l)

UdtMuxInit ==
    /\ mxSock = [s \in MuxSocks |-> Unmade] /\ mxMux = <<>>
    /\ mxUsers = 0 /\ mxGC = FALSE

\* startup and cleanup of the library; the collector then closes and destroys all
\* sockets.
Startup ==
    /\ mxUsers < MaxUsers
    /\ mxUsers' = mxUsers + 1 /\ mxGC' = TRUE
    /\ UNCHANGED <<mxSock, mxMux>>

-----------------------------------------------------------------------------
\* newSocket, with the options set before it is bound.  (A rendezvous socket only
\* lacks listen and connect without bind.)
NewSocket(size, reuse) ==
    /\ mxGC /\ Next1 # {}
    /\ \E s \in Next1 :
          mxSock' = [mxSock EXCEPT ![s] = [Unmade EXCEPT !.status = "INIT", !.mss = size, !.reuse = reuse]]
    /\ UNCHANGED <<mxMux, mxUsers, mxGC>>

\* The multiplexers updateMux may share, at most one of which it finds first: the
\* map is in the order of the socket IDs, which fall.
Reusable(s, port) ==
    {i \in DOMAIN mxMux : mxMux[i].mss = mxSock[s].mss /\ mxMux[i].reusable /\ mxMux[i].port = port}
FirstOf(ids) == CHOOSE i \in ids : \A j \in ids : j <= i

\* Mutant of ShareMux: the reference is not counted.
ShareMuxUncounted(s, i, local) ==
    /\ mxMux' = mxMux
    /\ mxSock' = [mxSock EXCEPT ![s].status = "OPENED", ![s].opened = TRUE, ![s].mux = i,
                                ![s].queues = i, ![s].asked = local,
                                ![s].self = [local |-> mxMux[i].local, port |-> mxMux[i].port]]

ShareMux(s, i, local) ==
    /\ mxMux' = [mxMux EXCEPT ![i].ref = @ + 1]
    /\ mxSock' = [mxSock EXCEPT ![s].status = "OPENED", ![s].opened = TRUE, ![s].mux = i,
                                ![s].queues = i, ![s].asked = local,
                                ![s].self = [local |-> mxMux[i].local, port |-> mxMux[i].port]]

\* A new multiplexer, a UDP socket bound to the address.
AddMux(s, status, local, port) ==
    /\ mxMux' = [i \in DOMAIN mxMux \cup {s} |->
                   IF i = s THEN [mss |-> mxSock[s].mss, ref |-> 1, reusable |-> mxSock[s].reuse,
                                  local |-> local, port |-> port, listener |-> 0]
                   ELSE mxMux[i]]
    /\ mxSock' = [mxSock EXCEPT ![s].status = status, ![s].opened = TRUE, ![s].mux = s, ![s].queues = s,
                                ![s].asked = local, ![s].self = [local |-> local, port |-> port]]

\* The UDP socket cannot be bound: open has been called, the status stays.
BindFails(s) == mxSock' = [mxSock EXCEPT ![s].opened = TRUE] /\ UNCHANGED mxMux

\* bind to an address: open, updateMux, getSockAddr.
Bind(s, local, port) ==
    /\ mxSock[s].status = "INIT"
    /\ LET shared == IF mxSock[s].reuse THEN Reusable(s, port) ELSE {}
       IN IF shared # {}
          THEN ShareMux(s, FirstOf(shared), local)
          ELSE IF PortFree(local, port) THEN AddMux(s, "OPENED", local, port) ELSE BindFails(s)
    /\ UNCHANGED <<mxUsers, mxGC>>

\* bind to port 0, or a UDP socket the application brings: its port is a new one.
BindAny(s, local) ==
    /\ mxSock[s].status = "INIT"
    /\ \E port \in Ports : PortFree(local, port) /\ AddMux(s, "OPENED", local, port)
    /\ UNCHANGED <<mxUsers, mxGC>>

\* Mutant of ListenSock: a listener of the same port is replaced.
ListenSockAgain(s) ==
    /\ mxSock[s].status = "OPENED"
    /\ mxSock' = [mxSock EXCEPT ![s].status = "LISTENING"]
    /\ mxMux' = [mxMux EXCEPT ![mxSock[s].queues].listener = s]
    /\ UNCHANGED <<mxUsers, mxGC>>

\* listen, which throws if the receive queue has a listener.
ListenSock(s) ==
    /\ mxSock[s].status = "OPENED"
    /\ mxMux[mxSock[s].queues].listener = 0
    /\ mxSock' = [mxSock EXCEPT ![s].status = "LISTENING"]
    /\ mxMux' = [mxMux EXCEPT ![mxSock[s].queues].listener = s]
    /\ UNCHANGED <<mxUsers, mxGC>>

\* connect of a socket that is not bound.
ConnectUnbound(s) ==
    /\ mxSock[s].status = "INIT"
    /\ \E l \in Locals : \E port \in Ports : PortFree(l, port) /\ AddMux(s, "CONNECTING", l, port)
    /\ UNCHANGED <<mxUsers, mxGC>>

ConnectBound(s) ==
    /\ mxSock[s].status = "OPENED"
    /\ mxSock' = [mxSock EXCEPT ![s].status = "CONNECTING"]
    /\ UNCHANGED <<mxMux, mxUsers, mxGC>>

\* connect_complete, with the MSS the peers agreed on; connect that throws.
ConnectDone(s, size) ==
    /\ mxSock[s].status = "CONNECTING" /\ size <= mxSock[s].mss
    /\ mxSock' = [mxSock EXCEPT ![s].status = "CONNECTED", ![s].mss = size]
    /\ UNCHANGED <<mxMux, mxUsers, mxGC>>

ConnectFailed(s) ==
    /\ mxSock[s].status = "CONNECTING"
    /\ mxSock' = [mxSock EXCEPT ![s].status = "OPENED"]
    /\ UNCHANGED <<mxMux, mxUsers, mxGC>>

\* updateMux of an accepted socket: the first multiplexer with the port of the
\* listener.
ListenerMux(ls) == {i \in DOMAIN mxMux : mxMux[i].port = mxSock[ls].self.port}

\* newConnection.  If connect throws the socket is closed and never removed.
Accept(ls, size) ==
    /\ mxSock[ls].status = "LISTENING" /\ mxMux[mxSock[ls].queues].listener = ls
    /\ size <= mxSock[ls].mss
    /\ \E s \in Next1 : \E status \in {"CONNECTED", "leaked"} :
          LET i == FirstOf(ListenerMux(ls))
          IN /\ mxMux' = [mxMux EXCEPT ![i].ref = @ + 1]
             /\ mxSock' = [mxSock EXCEPT ![s] = [Unmade EXCEPT
                              !.status = status, !.listenSock = ls, !.mss = size, !.opened = TRUE,
                              !.mux = i, !.queues = i,
                              !.self = [local |-> mxMux[i].local, port |-> mxMux[i].port]]]
    /\ UNCHANGED <<mxUsers, mxGC>>

-----------------------------------------------------------------------------
\* close, and the collector for broken sockets.
CloseSocket(s) ==
    /\ mxSock[s].status \in {"INIT", "OPENED", "LISTENING", "CONNECTING", "CONNECTED"}
    /\ mxSock' = [mxSock EXCEPT ![s].status = "CLOSED"]
    /\ UNCHANGED <<mxMux, mxUsers, mxGC>>

\* removeSocket: the multiplexer goes with its last socket.
RemoveSock(s) ==
    /\ mxSock[s].status = "CLOSED"
    /\ mxSock' = [mxSock EXCEPT ![s] = Destroyed]
    /\ LET i == mxSock[s].mux
       IN IF i \notin DOMAIN mxMux THEN UNCHANGED mxMux
          ELSE IF mxMux[i].ref = 1 THEN mxMux' = Restrict(mxMux, DOMAIN mxMux \ {i})
          ELSE mxMux' = [mxMux EXCEPT ![i].ref = @ - 1,
                                      ![i].listener = IF @ = s THEN 0 ELSE @]
    /\ UNCHANGED <<mxUsers, mxGC>>

\* The last cleanup stops the collector, which first destroys every socket of
\* m_Sockets and m_ClosedSockets.
Cleanup ==
    /\ mxUsers > 0 /\ mxUsers' = mxUsers - 1
    /\ IF mxUsers > 1 THEN UNCHANGED <<mxSock, mxMux, mxGC>>
       ELSE LET kept == {s \in Undestroyed : mxSock[s].status = "leaked"}
                left(i) == Cardinality({s \in kept : mxSock[s].mux = i})
            IN /\ mxGC' = FALSE
               /\ mxSock' = [s \in MuxSocks |->
                               IF s \in Undestroyed \ kept THEN Destroyed
                               ELSE mxSock[s]]
               /\ mxMux' = [i \in {j \in DOMAIN mxMux : left(j) > 0} |-> [mxMux[i] EXCEPT !.ref = left(i), !.listener = 0]]

\* getStatus: what an application is told; getsockname and getpeername ask it.
GetStatus(s) == IF mxSock[s].status \in {"none", "gone", "leaked"} THEN "NONEXIST" ELSE mxSock[s].status
GetSockName(s) ==
    IF GetStatus(s) \in {"NONEXIST", "CLOSED", "INIT"} THEN NoAddr ELSE mxSock[s].self

UdtMuxNext ==
    \/ Startup \/ Cleanup
    \/ \E size \in Sizes : \E reuse \in BOOLEAN : NewSocket(size, reuse)
    \/ \E s \in MuxSocks :
          \/ \E l \in Locals : BindAny(s, l) \/ \E p \in Ports : Bind(s, l, p)
          \/ ListenSock(s) \/ ConnectUnbound(s) \/ ConnectBound(s) \/ ConnectFailed(s)
          \/ \E size \in Sizes : ConnectDone(s, size) \/ Accept(s, size)
          \/ CloseSocket(s) \/ RemoveSock(s)

-----------------------------------------------------------------------------
\* A multiplexer lives exactly as long as a socket of it: its count is that of its
\* undestroyed sockets, so that none is left with queues that are deleted and none
\* keeps its port when they are gone.
RefsExact ==
    /\ \A i \in DOMAIN mxMux :
          mxMux[i].ref = Cardinality({s \in Undestroyed : mxSock[s].mux = i}) /\ mxMux[i].ref > 0
    /\ \A s \in Undestroyed : mxSock[s].queues # 0 => mxSock[s].queues \in DOMAIN mxMux

\* A socket has the queues of the port it says it is bound to, no packet of it is
\* larger than the units of the queue, and an accepted socket has the queues of its
\* listener, to which its peer sends.
QueuesFit ==
    \A s \in Undestroyed : GetSockName(s) # NoAddr =>
        LET x == mxMux[mxSock[s].queues]
        IN /\ x.local = GetSockName(s).local /\ x.port = GetSockName(s).port /\ mxSock[s].mss <= x.mss
           /\ LET ls == mxSock[s].listenSock
              IN ls \in Undestroyed => mxSock[ls].queues = mxSock[s].queues

\* A listening socket gets the requests that come to its port, until it is destroyed;
\* no request goes to one that is.
ListenersHeard ==
    /\ \A s \in MuxSocks : mxSock[s].status = "LISTENING" => mxMux[mxSock[s].queues].listener = s
    /\ \A i \in DOMAIN mxMux : mxMux[i].listener # 0 => mxMux[i].listener \in Undestroyed

MuxSound == RefsExact /\ QueuesFit /\ ListenersHeard

\* close of a socket that has been opened goes to its queues.
CloseHasQueues == \A s \in Undestroyed : mxSock[s].opened => mxSock[s].queues # 0

\* A socket is bound to the local address the application asked for, or to none.
BoundWhereAsked ==
    \A s \in Undestroyed : mxSock[s].asked # "any" => GetSockName(s).local \in {mxSock[s].asked, "any"}
=============================================================================
