----------------------------- MODULE SockOptions -----------------------------
(***************************************************************************)
(* The options of the two ends of a connection (setOpt, getOpt, open and   *)
(* connect of CUDT in core.cpp) and what is made of them: the sizes of     *)
(* packets, buffers and loss lists, which are exchanged in the handshake.  *)
(* Sizes of buffers are given in bytes and kept in packets.                *)
(***************************************************************************)
EXTENDS Integers

CONSTANTS
    Hdr,       \* the IP and UDP headers, 28 bytes
    PktHdr,    \* CPacket::m_iPktHdrSize
    MinMSS,    \* 28 + CHandShake::m_iContentSize
    MinWindow, \* 32
    Defaults,  \* what the constructor sets: mss, fc, snd, rcv, udpSnd
    OptValues, \* values given to options
    MaxSets    \* bound on the calls of setOpt

ASSUME SockOptionsAssumption ==
    /\ {Hdr, PktHdr} \subseteq Nat \ {0} /\ MaxSets \in Nat /\ OptValues \subseteq Int
    /\ MinMSS \in Nat /\ MinMSS > Hdr + PktHdr /\ MinWindow \in Nat /\ MinWindow >= 2
    /\ Defaults \in [mss : Nat, fc : Nat, snd : Nat \ {0}, rcv : Nat \ {0}, udpSnd : Nat]
    /\ Defaults.mss >= MinMSS /\ Defaults.udpSnd >= Defaults.mss /\ Defaults.fc >= 2

VARIABLES
    so,      \* the sockets: options, state, payload, and when they are known: mux (what
             \* its multiplexer was made with), flow (m_iFlowWindowSize), sndLoss, rcvLoss
             \* (the sizes of the loss lists)
    soReq,   \* m_ConnReq: MSS and flight flag size, 0 before connect
    soAns,   \* the answer of the listener
    soSets   \* calls of setOpt

sockOptionVars == <<so, soReq, soAns, soSets>>

Ends == {"client", "listener", "accepted"}
PeerOf(p) == IF p = "client" THEN "accepted" ELSE "client"
NoSizes == [mss |-> 0, flight |-> 0]
Least(a, b) == IF a < b THEN a ELSE b
Most(a, b) == IF a > b THEN a ELSE b

\* The constructor.
NewEnd ==
    [mss |-> Defaults.mss, fc |-> Defaults.fc, snd |-> Defaults.snd, rcv |-> Defaults.rcv,
     udpSnd |-> Defaults.udpSnd, udpRcv |-> Defaults.rcv * Defaults.mss, reuse |-> TRUE,
     state |-> "new", payload |-> 0, mux |-> [mss |-> 0, udpSnd |-> 0, udpRcv |-> 0],
     flow |-> 0, sndLoss |-> 0, rcvLoss |-> 0]

Opened(o) == o.state # "new"
Connecting(o) == o.state \in {"connecting", "connected"}

\* Mutant of SetOpt: the MSS is not cut to the buffers of the UDP socket.
SetOptUncut(o, name, v) ==
    CASE name = "UDT_MSS" -> [o EXCEPT !.mss = v]
      [] name = "UDT_FC" -> [o EXCEPT !.fc = Most(v, MinWindow)]
      [] name = "UDT_SNDBUF" -> [o EXCEPT !.snd = v \div (o.mss - Hdr)]
      [] name = "UDT_RCVBUF" ->
           [o EXCEPT !.rcv = Least(IF v > (o.mss - Hdr) * MinWindow THEN v \div (o.mss - Hdr) ELSE MinWindow, o.fc)]
      [] name = "UDP_SNDBUF" -> [o EXCEPT !.udpSnd = Most(v, o.mss)]
      [] name = "UDP_RCVBUF" -> [o EXCEPT !.udpRcv = Most(v, o.mss)]
      [] name = "UDT_REUSEADDR" -> [o EXCEPT !.reuse = ~@]

\* When setOpt does not throw.  (The other options may be set at any time and change
\* nothing here.)
MaySet(o, name, v) ==
    IF name = "UDT_FC" THEN ~Connecting(o) /\ v >= 1
    ELSE /\ ~Opened(o)
         /\ name = "UDT_MSS" => v >= MinMSS
         /\ name \in {"UDT_SNDBUF", "UDT_RCVBUF"} => v > 0

SetOpt(o, name, v) ==
    CASE name = "UDT_MSS" -> [o EXCEPT !.mss = Least(v, Least(o.udpSnd, o.udpRcv))]
      [] name = "UDT_FC" -> [o EXCEPT !.fc = Most(v, MinWindow)]
      [] name = "UDT_SNDBUF" -> [o EXCEPT !.snd = v \div (o.mss - Hdr)]
      [] name = "UDT_RCVBUF" ->
           [o EXCEPT !.rcv = Least(IF v > (o.mss - Hdr) * MinWindow THEN v \div (o.mss - Hdr) ELSE MinWindow, o.fc)]
      [] name = "UDP_SNDBUF" -> [o EXCEPT !.udpSnd = Most(v, o.mss)]
      [] name = "UDP_RCVBUF" -> [o EXCEPT !.udpRcv = Most(v, o.mss)]
      [] name = "UDT_REUSEADDR" -> [o EXCEPT !.reuse = ~@]

OptNames == {"UDT_MSS", "UDT_FC", "UDT_SNDBUF", "UDT_RCVBUF", "UDP_SNDBUF", "UDP_RCVBUF", "UDT_REUSEADDR"}

\* CUDT(ancestor): the options of the listener, but m_bReuseAddr.
Inherit(o) == [NewEnd EXCEPT !.mss = o.mss, !.fc = o.fc, !.snd = o.snd, !.rcv = o.rcv,
                             !.udpSnd = o.udpSnd, !.udpRcv = o.udpRcv]

PayloadOf(mss) == mss - Hdr - PktHdr

\* What a side tells of its window.
FlightOf(o) == Least(o.rcv, o.fc)

\* The end of both connects: the structures for the data, sized for the peer's window
\* and the own one.
ConnectedWith(o, mss, flow) ==
    [o EXCEPT !.mss = mss, !.payload = PayloadOf(mss), !.flow = flow, !.sndLoss = 2 * flow,
              !.rcvLoss = o.fc, !.state = "connected"]

-----------------------------------------------------------------------------
SockOptionsInit ==
    /\ so = [p \in Ends |-> NewEnd] /\ soReq = NoSizes /\ soAns = NoSizes
    /\ soSets = 0

SetOption(p, name, v) ==
    /\ soSets < MaxSets /\ soSets' = soSets + 1
    /\ MaySet(so[p], name, v)
    /\ so' = [so EXCEPT ![p] = SetOpt(@, name, v)]
    /\ UNCHANGED <<soReq, soAns>>

\* open, at the start of bind; the options are locked from here on.
Open(p) ==
    /\ so[p].state = "new"
    /\ so' = [so EXCEPT ![p].state = "opened", ![p].payload = PayloadOf(so[p].mss)]
    /\ UNCHANGED <<soReq, soAns, soSets>>

\* updateMux: the UDP socket and the units of the receive queue.
MakeMux(p) ==
    /\ so[p].state = "opened"
    /\ so' = [so EXCEPT ![p].state = "bound",
                        ![p].mux = [mss |-> so[p].mss, udpSnd |-> so[p].udpSnd, udpRcv |-> so[p].udpRcv]]
    /\ UNCHANGED <<soReq, soAns, soSets>>

\* connect sends the request.
SoConnect ==
    /\ so["client"].state = "bound"
    /\ soReq' = [mss |-> so["client"].mss, flight |-> FlightOf(so["client"])]
    /\ so' = [so EXCEPT !["client"].state = "connecting"]
    /\ UNCHANGED <<soAns, soSets>>

\* newConnection and connect of the new socket.
SoAccept ==
    /\ soReq # NoSizes /\ so["listener"].state = "bound" /\ so["accepted"].state = "new"
    /\ LET o == Inherit(so["listener"])
           mss == Least(soReq.mss, o.mss)
       IN /\ so' = [so EXCEPT !["accepted"] =
                      [ConnectedWith(o, mss, soReq.flight) EXCEPT !.mux = so["listener"].mux]]
          /\ soAns' = [mss |-> mss, flight |-> FlightOf(o)]
    /\ UNCHANGED <<soReq, soSets>>

\* A request that is repeated is answered with the UDT_FC of the socket.
SoRepeated ==
    /\ so["accepted"].state = "connected"
    /\ soAns' = [mss |-> so["accepted"].mss, flight |-> so["accepted"].fc]
    /\ UNCHANGED <<so, soReq, soSets>>

\* connect takes the answer.
SoAnswered ==
    /\ so["client"].state = "connecting" /\ soAns # NoSizes
    /\ so' = [so EXCEPT !["client"] = ConnectedWith(@, soAns.mss, soAns.flight)]
    /\ UNCHANGED <<soReq, soAns, soSets>>

\* An ACK of the peer gives the free space of its receive buffer.
SoAck(p) ==
    /\ p # "listener" /\ so[p].state = "connected"
    /\ \E avail \in 1..so[PeerOf(p)].rcv : so' = [so EXCEPT ![p].flow = Most(2, avail)]
    /\ UNCHANGED <<soReq, soAns, soSets>>

SockOptionsNext ==
    \/ \E p \in {"client", "listener"} :
          \/ \E name \in OptNames : \E v \in OptValues : SetOption(p, name, v)
          \/ Open(p) \/ MakeMux(p)
    \/ SoConnect \/ SoAccept \/ SoRepeated \/ SoAnswered
    \/ \E p \in Ends : SoAck(p)

-----------------------------------------------------------------------------
\* A packet fits the buffers of the UDP socket and the units of the receive queue it
\* comes to, in whatever order the options were set; the two ends cut their data
\* into the same packets.
PacketsFit ==
    /\ \A p \in Ends :
          /\ so[p].mss >= MinMSS /\ so[p].mss <= so[p].udpSnd /\ so[p].mss <= so[p].udpRcv
          /\ so[p].state \notin {"new", "opened"} =>
                /\ so[p].mss <= so[p].mux.mss /\ so[p].payload = PayloadOf(so[p].mss)
                /\ so[p].udpSnd = so[p].mux.udpSnd /\ so[p].udpRcv = so[p].mux.udpRcv
    /\ so["client"].state = "connected" => so["client"].mss = so["accepted"].mss

\* "recv buffer MUST not be greater than FC size": unless UDT_FC was set below the
\* buffer afterwards, what a side may have in flight never exceeds the loss list of
\* the other, nor its own.
WindowsFit ==
    \A p \in {"client", "accepted"} : so[p].state = "connected" =>
        \/ so[PeerOf(p)].rcv > so[PeerOf(p)].fc
        \/ so[p].flow <= so[PeerOf(p)].fc /\ so[p].flow <= so[p].sndLoss

OptionsSound == PacketsFit /\ WindowsFit

\* A socket that has never been told the free space of the buffer of the peer does
\* not send more than there is.
FlowFitsBuffer ==
    \A p \in {"client", "accepted"} :
        so[p].state = "connected" => so[p].flow <= Most(2, so[PeerOf(p)].rcv)

\* A message can be sent: the send buffer has room for a packet.
SendPossible == \A p \in Ends : so[p].snd >= 1

=============================================================================
