---------------------------- MODULE PartsProofs ----------------------------
(***************************************************************************)
(* Proofs about the parts that MCParts steps, each for any value of its    *)
(* constants: the sizes that two ends agree on, the threads that wait for  *)
(* the send queue, for room, for data and for a handshake, the rate and    *)
(* the pace, the multiplexers that sockets share, and what BuffersProofs   *)
(* shows of the two buffers.                                               *)
(***************************************************************************)
EXTENDS TablesProofs

-----------------------------------------------------------------------------
(* The options and the sizes made of them.                                 *)

OptionStates == {"new", "opened", "bound", "connecting", "connected"}
EndRecord ==
    [mss : Int, fc : Int, snd : Int, rcv : Int, udpSnd : Int, udpRcv : Int, reuse : BOOLEAN,
     state : OptionStates, payload : Int, mux : [mss : Int, udpSnd : Int, udpRcv : Int],
     flow : Int, sndLoss : Int, rcvLoss : Int]
SizesRecord == [mss : Int, flight : Int]

OptionTypes == so \in [Ends -> EndRecord] /\ soReq \in SizesRecord /\ soAns \in SizesRecord

\* The options of a socket by themselves: how they may change until it is bound, and what was
\* made of them when it was.
OptionsOf(o) ==
    /\ o.mss >= MinMSS /\ o.mss <= o.udpSnd /\ o.mss <= o.udpRcv /\ o.fc >= 2 /\ o.rcv >= 0
    /\ Opened(o) => o.payload = PayloadOf(o.mss)
    /\ o.state \notin {"new", "opened"} =>
          /\ o.mss <= o.mux.mss /\ o.udpSnd = o.mux.udpSnd /\ o.udpRcv = o.mux.udpRcv

\* The listener never connects; the new socket is there when it is connected; and what is on
\* its way is what the two ends have told.
HandshakeSizes ==
    /\ so["listener"].state \in {"new", "opened", "bound"} /\ so["accepted"].state \in {"new", "connected"}
    /\ soReq # NoSizes => /\ Connecting(so["client"]) /\ soReq.mss >= MinMSS
                          /\ soReq.flight = FlightOf(so["client"])
    /\ soAns # NoSizes => /\ so["accepted"].state = "connected" /\ soAns.mss = so["accepted"].mss
                          /\ soAns.flight \in {FlightOf(so["accepted"]), so["accepted"].fc}
    /\ so["accepted"].state = "connected" => soReq # NoSizes /\ so["accepted"].mss <= soReq.mss
    /\ so["client"].state = "connecting" => so["client"].mss = soReq.mss
    /\ so["client"].state = "connected" => soAns # NoSizes /\ so["client"].mss = soAns.mss

\* What a side was told of the other's window, and what an ACK may say of it later.
WindowOf(p) ==
    so[p].state = "connected" /\ so[PeerOf(p)].rcv <= so[PeerOf(p)].fc =>
       /\ so[p].flow <= so[PeerOf(p)].fc /\ so[p].flow <= so[p].sndLoss
       /\ so[p].sndLoss >= 2 * so[PeerOf(p)].rcv

OptionsInv ==
    /\ OptionTypes
    /\ \A p \in Ends : OptionsOf(so[p])
    /\ HandshakeSizes
    /\ \A p \in {"client", "accepted"} : WindowOf(p)

LEMMA DivPositive == ASSUME NEW v \in Nat, NEW d \in Nat \ {0} PROVE v \div d \in Nat
  OBVIOUS

LEMMA TimesAtLeast == ASSUME NEW a \in Nat \ {0}, NEW b \in Nat PROVE a * b >= b
  OBVIOUS

\* What the constructor sets is sound.
LEMMA NewEndSound == NewEnd \in EndRecord /\ OptionsOf(NewEnd)
  <1> DEFINE d == Defaults
  <1>1. /\ d.mss \in Nat /\ d.fc \in Nat /\ d.snd \in Nat /\ d.rcv \in Nat \ {0} /\ d.udpSnd \in Nat
        /\ d.mss >= MinMSS /\ d.udpSnd >= d.mss /\ d.fc >= 2
    BY SockOptionsAssumption
  <1>2. d.rcv * d.mss \in Nat /\ d.rcv * d.mss >= d.mss
    BY <1>1, TimesAtLeast
  <1>3. NewEnd.mss = d.mss /\ NewEnd.fc = d.fc /\ NewEnd.rcv = d.rcv /\ NewEnd.udpSnd = d.udpSnd
        /\ NewEnd.udpRcv = d.rcv * d.mss /\ NewEnd.state = "new" /\ NewEnd.snd = d.snd
    BY DEF NewEnd
  <1>4. NewEnd \in EndRecord
    BY <1>1, <1>2 DEF NewEnd, EndRecord, OptionStates
  <1> HIDE DEF d
  <1> QED BY <1>1, <1>2, <1>3, <1>4, SockOptionsAssumption DEF OptionsOf, Opened

\* A call of setOpt that does not throw keeps them sound, and after connect changes none of
\* what the handshake has told.
LEMMA SetOptSound ==
    ASSUME NEW o \in EndRecord, OptionsOf(o), NEW name \in OptNames, NEW v \in OptValues, MaySet(o, name, v)
    PROVE  /\ SetOpt(o, name, v) \in EndRecord /\ OptionsOf(SetOpt(o, name, v))
           /\ SetOpt(o, name, v).state = o.state /\ SetOpt(o, name, v).mss \in Int
           /\ ~Connecting(o)
  <1>1. v \in Int
    BY SockOptionsAssumption
  <1>2. o.mss \in Int /\ o.mss - Hdr \in Nat \ {0}
    BY SockOptionsAssumption DEF EndRecord, OptionsOf
  <1>3. CASE name = "UDT_MSS"
    BY <1>1, <1>3, SockOptionsAssumption
    DEF SetOpt, MaySet, EndRecord, OptionsOf, Opened, Connecting, Least, OptionStates
  <1>4. CASE name = "UDT_FC"
    BY <1>1, <1>4, SockOptionsAssumption
    DEF SetOpt, MaySet, EndRecord, OptionsOf, Opened, Connecting, Most, OptionStates
  <1>5. CASE name = "UDT_SNDBUF"
    <2>1. v \div (o.mss - Hdr) \in Int
      BY <1>1, <1>2, <1>5, DivPositive DEF MaySet
    <2>2. SetOpt(o, name, v) = [o EXCEPT !.snd = v \div (o.mss - Hdr)]
      BY <1>5 DEF SetOpt
    <2> QED BY <1>5, <2>1, <2>2 DEF MaySet, EndRecord, OptionsOf, Opened, Connecting
  <1>6. CASE name = "UDT_RCVBUF"
    <2> DEFINE size == Least(IF v > (o.mss - Hdr) * MinWindow THEN v \div (o.mss - Hdr) ELSE MinWindow, o.fc)
    <2>1. v \div (o.mss - Hdr) \in Nat
      BY <1>1, <1>2, <1>6, DivPositive DEF MaySet
    <2>2. size \in Nat
      BY <2>1, SockOptionsAssumption DEF Least, EndRecord, OptionsOf
    <2>3. SetOpt(o, name, v) = [o EXCEPT !.rcv = size]
      BY <1>6 DEF SetOpt
    <2> HIDE DEF size
    <2> QED BY <1>6, <2>2, <2>3 DEF MaySet, EndRecord, OptionsOf, Opened, Connecting
  <1>7. CASE name = "UDP_SNDBUF"
    BY <1>1, <1>7 DEF SetOpt, MaySet, EndRecord, OptionsOf, Opened, Connecting, Most, OptionStates
  <1>8. CASE name = "UDP_RCVBUF"
    BY <1>1, <1>8 DEF SetOpt, MaySet, EndRecord, OptionsOf, Opened, Connecting, Most, OptionStates
  <1>9. CASE name = "UDT_REUSEADDR"
    BY <1>9 DEF SetOpt, MaySet, EndRecord, OptionsOf, Opened, Connecting, OptionStates
  <1> QED BY <1>3, <1>4, <1>5, <1>6, <1>7, <1>8, <1>9 DEF OptNames

LEMMA OptionsStart == PartsInit /\ subject = "options" => OptionsInv
  <1> SUFFICES ASSUME SockOptionsInit PROVE OptionsInv
    BY DEF PartsInit
  <1>1. \A p \in Ends : so[p] = NewEnd
    BY DEF SockOptionsInit
  <1>2. NewEnd.state = "new"
    BY DEF NewEnd
  <1>3. OptionTypes
    BY NewEndSound DEF SockOptionsInit, OptionTypes, NoSizes, SizesRecord
  <1>4. \A p \in Ends : OptionsOf(so[p])
    BY <1>1, NewEndSound
  <1>5. HandshakeSizes
    BY <1>1, <1>2 DEF HandshakeSizes, SockOptionsInit, Ends
  <1>6. \A p \in {"client", "accepted"} : WindowOf(p)
    BY <1>1, <1>2 DEF WindowOf, Ends
  <1> QED BY <1>3, <1>4, <1>5, <1>6 DEF OptionsInv

LEMMA SetOptionKeeps ==
    ASSUME OptionsInv, NEW p \in {"client", "listener"}, NEW name \in OptNames, NEW v \in OptValues,
           SetOption(p, name, v)
    PROVE  OptionsInv'
  <1> DEFINE o == SetOpt(so[p], name, v)
  <1>1. so[p] \in EndRecord /\ OptionsOf(so[p]) /\ so \in [Ends -> EndRecord] /\ p \in Ends
    BY DEF OptionsInv, OptionTypes, Ends
  <1>2. MaySet(so[p], name, v) /\ so' = [so EXCEPT ![p] = o] /\ UNCHANGED <<soReq, soAns>>
    BY DEF SetOption
  <1>3. o \in EndRecord /\ OptionsOf(o) /\ o.state = so[p].state /\ ~Connecting(so[p])
    BY <1>1, <1>2, SetOptSound
  <1> HIDE DEF o
  <1>4. OptionTypes'
    BY <1>1, <1>2, <1>3 DEF OptionsInv, OptionTypes
  <1>5. \A q \in Ends : so'[q] = IF q = p THEN o ELSE so[q]
    BY <1>1, <1>2
  <1>6. (\A q \in Ends : OptionsOf(so[q]))'
    BY <1>3, <1>5 DEF OptionsInv
  <1>7. HandshakeSizes'
    BY <1>2, <1>3, <1>5 DEF OptionsInv, HandshakeSizes, Ends, Connecting
  <1>8. (\A q \in {"client", "accepted"} : WindowOf(q))'
    BY <1>3, <1>5 DEF OptionsInv, HandshakeSizes, WindowOf, PeerOf, Ends, Connecting
  <1> QED BY <1>4, <1>6, <1>7, <1>8 DEF OptionsInv

LEMMA OpenKeeps ==
    ASSUME OptionsInv, NEW p \in {"client", "listener"}, Open(p)
    PROVE  OptionsInv'
  <1>1. so[p] \in EndRecord /\ so \in [Ends -> EndRecord] /\ p \in Ends /\ OptionsOf(so[p])
    BY DEF OptionsInv, OptionTypes, Ends
  <1> DEFINE o == [so[p] EXCEPT !.state = "opened", !.payload = PayloadOf(so[p].mss)]
  <1>2. so' = [so EXCEPT ![p] = o] /\ UNCHANGED <<soReq, soAns>> /\ so[p].state = "new"
    BY <1>1 DEF Open, EndRecord
  <1>3. o \in EndRecord /\ o.state = "opened" /\ OptionsOf(o)
    <2>1. PayloadOf(so[p].mss) \in Int
      BY <1>1, SockOptionsAssumption DEF EndRecord, PayloadOf
    <2>2. o \in EndRecord
      BY <1>1, <2>1 DEF EndRecord, OptionStates
    <2>3. /\ o.mss = so[p].mss /\ o.udpSnd = so[p].udpSnd /\ o.udpRcv = so[p].udpRcv
          /\ o.fc = so[p].fc /\ o.rcv = so[p].rcv /\ o.state = "opened" /\ o.payload = PayloadOf(so[p].mss)
      BY <1>1 DEF EndRecord
    <2> HIDE DEF o
    <2> QED BY <1>1, <2>2, <2>3 DEF OptionsOf
  <1> HIDE DEF o
  <1>4. OptionTypes'
    BY <1>1, <1>2, <1>3 DEF OptionsInv, OptionTypes
  <1>5. \A q \in Ends : so'[q] = IF q = p THEN o ELSE so[q]
    BY <1>1, <1>2
  <1>6. (\A q \in Ends : OptionsOf(so[q]))'
    BY <1>3, <1>5 DEF OptionsInv
  <1>7. HandshakeSizes'
    BY <1>2, <1>3, <1>5 DEF OptionsInv, HandshakeSizes, Ends, Connecting
  <1>8. (\A q \in {"client", "accepted"} : WindowOf(q))'
    BY <1>2, <1>3, <1>5 DEF OptionsInv, HandshakeSizes, WindowOf, PeerOf, Ends, Connecting
  <1> QED BY <1>4, <1>6, <1>7, <1>8 DEF OptionsInv

LEMMA MakeMuxKeeps ==
    ASSUME OptionsInv, NEW p \in {"client", "listener"}, MakeMux(p)
    PROVE  OptionsInv'
  <1>1. so[p] \in EndRecord /\ so \in [Ends -> EndRecord] /\ p \in Ends /\ OptionsOf(so[p])
    BY DEF OptionsInv, OptionTypes, Ends
  <1> DEFINE o == [so[p] EXCEPT !.state = "bound",
                     !.mux = [mss |-> so[p].mss, udpSnd |-> so[p].udpSnd, udpRcv |-> so[p].udpRcv]]
  <1>2. so' = [so EXCEPT ![p] = o] /\ UNCHANGED <<soReq, soAns>> /\ so[p].state = "opened"
    BY <1>1 DEF MakeMux, EndRecord
  <1>3. o \in EndRecord /\ o.state = "bound" /\ OptionsOf(o)
    <2>1. o \in EndRecord
      BY <1>1 DEF EndRecord, OptionStates
    <2>2. /\ o.mss = so[p].mss /\ o.udpSnd = so[p].udpSnd /\ o.udpRcv = so[p].udpRcv
          /\ o.fc = so[p].fc /\ o.rcv = so[p].rcv /\ o.state = "bound" /\ o.payload = so[p].payload
          /\ o.mux.mss = so[p].mss /\ o.mux.udpSnd = so[p].udpSnd /\ o.mux.udpRcv = so[p].udpRcv
          /\ so[p].mss \in Int
      BY <1>1 DEF EndRecord
    <2> HIDE DEF o
    <2> QED BY <1>1, <1>2, <2>1, <2>2, SockOptionsAssumption DEF OptionsOf, Opened
  <1> HIDE DEF o
  <1>4. OptionTypes'
    BY <1>1, <1>2, <1>3 DEF OptionsInv, OptionTypes
  <1>5. \A q \in Ends : so'[q] = IF q = p THEN o ELSE so[q]
    BY <1>1, <1>2
  <1>6. (\A q \in Ends : OptionsOf(so[q]))'
    BY <1>3, <1>5 DEF OptionsInv
  <1>7. HandshakeSizes'
    BY <1>2, <1>3, <1>5 DEF OptionsInv, HandshakeSizes, Ends, Connecting
  <1>8. (\A q \in {"client", "accepted"} : WindowOf(q))'
    BY <1>2, <1>3, <1>5 DEF OptionsInv, HandshakeSizes, WindowOf, PeerOf, Ends, Connecting
  <1> QED BY <1>4, <1>6, <1>7, <1>8 DEF OptionsInv

\* The client tells its MSS and window and keeps them from here on; nothing has been answered.
LEMMA SoConnectKeeps == ASSUME OptionsInv, SoConnect PROVE OptionsInv'
  <1> DEFINE c == so["client"]
             o == [c EXCEPT !.state = "connecting"]
             flight == FlightOf(c)
  <1>1. c \in EndRecord /\ so \in [Ends -> EndRecord] /\ "client" \in Ends /\ OptionsOf(c)
    BY DEF OptionsInv, OptionTypes, Ends
  <1>2. so' = [so EXCEPT !["client"] = o] /\ c.state = "bound" /\ soAns' = soAns
        /\ soReq' = [mss |-> c.mss, flight |-> flight]
    BY <1>1 DEF SoConnect, EndRecord
  <1>3. o \in EndRecord /\ o.state = "connecting" /\ OptionsOf(o) /\ flight \in Int /\ c.mss \in Int
        /\ o.mss = c.mss /\ o.rcv = c.rcv /\ o.fc = c.fc /\ c.mss >= MinMSS
    BY <1>1, <1>2 DEF EndRecord, OptionStates, OptionsOf, Opened, FlightOf, Least
  <1>4. flight = FlightOf(o)
    BY <1>3 DEF FlightOf
  <1>5. soReq = NoSizes /\ soAns = NoSizes /\ so["accepted"].state = "new"
    BY <1>2 DEF OptionsInv, HandshakeSizes, Connecting
  <1> HIDE DEF c, o, flight
  <1>6. OptionTypes'
    BY <1>1, <1>2, <1>3 DEF OptionsInv, OptionTypes, SizesRecord
  <1>7. \A q \in Ends : so'[q] = IF q = "client" THEN o ELSE so[q]
    BY <1>1, <1>2
  <1>8. (\A q \in Ends : OptionsOf(so[q]))'
    BY <1>3, <1>7 DEF OptionsInv
  <1>9. so'["client"] = o /\ so'["accepted"] = so["accepted"] /\ so'["listener"] = so["listener"]
    BY <1>7 DEF Ends
  <1>10. soReq'.mss = c.mss /\ soReq'.flight = flight
    BY <1>2
  <1>11. HandshakeSizes'
    BY <1>2, <1>3, <1>4, <1>5, <1>9, <1>10 DEF OptionsInv, HandshakeSizes, Connecting
  <1>12. (\A q \in {"client", "accepted"} : WindowOf(q))'
    BY <1>3, <1>5, <1>9 DEF WindowOf, PeerOf
  <1> QED BY <1>6, <1>8, <1>11, <1>12 DEF OptionsInv

\* The end of both connects.
Joined(o, mss, flow, m) == [ConnectedWith(o, mss, flow) EXCEPT !.mux = m]

LEMMA ConnectedSound ==
    ASSUME NEW o \in EndRecord, OptionsOf(o), NEW mss \in Int, mss >= MinMSS, mss <= o.mss, NEW flow \in Int,
           NEW m \in [mss : Int, udpSnd : Int, udpRcv : Int], o.mss <= m.mss, o.udpSnd = m.udpSnd,
           o.udpRcv = m.udpRcv, NEW c, c = Joined(o, mss, flow, m)
    PROVE  /\ c \in EndRecord /\ OptionsOf(c) /\ c.state = "connected" /\ c.mss = mss
           /\ c.rcv = o.rcv /\ c.fc = o.fc /\ c.flow = flow /\ c.sndLoss = 2 * flow
  <1> DEFINE d == ConnectedWith(o, mss, flow)
  <1>1. PayloadOf(mss) \in Int /\ 2 * flow \in Int /\ o.fc \in Int
    BY SockOptionsAssumption DEF PayloadOf, EndRecord
  <1>2. d \in EndRecord
    BY <1>1 DEF ConnectedWith, EndRecord, OptionStates
  <1>3. /\ d.mss = mss /\ d.payload = PayloadOf(mss) /\ d.flow = flow /\ d.sndLoss = 2 * flow
        /\ d.state = "connected" /\ d.rcv = o.rcv /\ d.fc = o.fc /\ d.udpSnd = o.udpSnd /\ d.udpRcv = o.udpRcv
    BY DEF ConnectedWith, EndRecord
  <1> HIDE DEF d
  <1>4. c = [d EXCEPT !.mux = m]
    BY DEF d, Joined
  <1>5. c \in EndRecord /\ c.mux = m
    BY <1>2, <1>4 DEF EndRecord
  <1>6. /\ c.mss = mss /\ c.payload = PayloadOf(mss) /\ c.flow = flow /\ c.sndLoss = 2 * flow
        /\ c.state = "connected" /\ c.rcv = o.rcv /\ c.fc = o.fc /\ c.udpSnd = o.udpSnd /\ c.udpRcv = o.udpRcv
    BY <1>2, <1>3, <1>4 DEF EndRecord
  <1>7. o.mss \in Int /\ m.mss \in Int /\ o.udpSnd \in Int /\ o.udpRcv \in Int
    BY DEF EndRecord
  <1>8. OptionsOf(c)
    BY <1>5, <1>6, <1>7, SockOptionsAssumption DEF OptionsOf, Opened
  <1> QED BY <1>5, <1>6, <1>8

\* The flow window and the loss list that follow from the peer's window: its buffer, as long as
\* that is not above its UDT_FC.
LEMMA WindowFits ==
    ASSUME NEW rcv \in Int, NEW fc \in Int, rcv >= 0, rcv <= fc, NEW flow, flow \in {Least(rcv, fc), fc}
    PROVE  flow <= fc /\ flow <= 2 * flow /\ 2 * flow >= 2 * rcv
  BY DEF Least

LEMMA InheritSound ==
    ASSUME NEW o \in EndRecord, OptionsOf(o), NEW i, i = Inherit(o)
    PROVE  /\ i \in EndRecord /\ OptionsOf(i) /\ i.mss = o.mss /\ i.rcv = o.rcv /\ i.fc = o.fc
           /\ i.udpSnd = o.udpSnd /\ i.udpRcv = o.udpRcv
  <1>1. NewEnd \in EndRecord /\ NewEnd.state = "new"
    BY NewEndSound DEF NewEnd
  <1>2. o.mss \in Int /\ o.fc \in Int /\ o.snd \in Int /\ o.rcv \in Int /\ o.udpSnd \in Int /\ o.udpRcv \in Int
    BY DEF EndRecord
  <1> DEFINE n == NewEnd
  <1> HIDE DEF n
  <1>3. i = [n EXCEPT !.mss = o.mss, !.fc = o.fc, !.snd = o.snd, !.rcv = o.rcv,
                      !.udpSnd = o.udpSnd, !.udpRcv = o.udpRcv]
    BY DEF Inherit, n
  <1>4. n \in EndRecord /\ n.state = "new"
    BY <1>1 DEF n
  <1>5. i \in EndRecord
    BY ZenonT(30), <1>2, <1>3, <1>4 DEF EndRecord
  <1>6. /\ i.mss = o.mss /\ i.rcv = o.rcv /\ i.fc = o.fc /\ i.udpSnd = o.udpSnd /\ i.udpRcv = o.udpRcv
        /\ i.state = "new"
    BY <1>3, <1>4 DEF EndRecord
  <1> QED BY <1>5, <1>6 DEF OptionsOf, Opened

LEMMA SoAcceptKeeps == ASSUME OptionsInv, SoAccept PROVE OptionsInv'
  <1> DEFINE l == so["listener"]
  <1>1. l \in EndRecord /\ OptionsOf(l) /\ l.state = "bound" /\ so \in [Ends -> EndRecord]
        /\ soReq \in SizesRecord /\ soReq # NoSizes /\ "accepted" \in Ends
    BY DEF OptionsInv, OptionTypes, SoAccept, Ends
  <1> HIDE DEF l
  <1>2. PICK o : o = Inherit(l)
    OBVIOUS
  <1>3. /\ o \in EndRecord /\ OptionsOf(o) /\ o.mss = l.mss /\ o.rcv = l.rcv /\ o.fc = l.fc
        /\ o.udpSnd = l.udpSnd /\ o.udpRcv = l.udpRcv
    BY <1>1, <1>2, InheritSound
  <1>4. PICK mss : mss = Least(soReq.mss, o.mss)
    OBVIOUS
  <1>5. PICK a : a = [ConnectedWith(o, mss, soReq.flight) EXCEPT !.mux = l.mux]
    OBVIOUS
  <1>6. so' = [so EXCEPT !["accepted"] = a] /\ soAns' = [mss |-> mss, flight |-> FlightOf(o)] /\ soReq' = soReq
    BY <1>2, <1>4, <1>5 DEF SoAccept, l
  <1>7. soReq.mss \in Int /\ soReq.flight \in Int /\ o.mss \in Int /\ l.mux \in [mss : Int, udpSnd : Int, udpRcv : Int]
    BY <1>1, <1>3 DEF SizesRecord, EndRecord
  <1>8. soReq.mss >= MinMSS /\ Connecting(so["client"]) /\ soReq.flight = FlightOf(so["client"])
    BY <1>1 DEF OptionsInv, HandshakeSizes
  <1>9. mss \in Int /\ mss >= MinMSS /\ mss <= o.mss /\ mss <= soReq.mss
    BY <1>3, <1>4, <1>7, <1>8, SockOptionsAssumption DEF Least, OptionsOf
  <1>10. o.mss <= l.mux.mss /\ o.udpSnd = l.mux.udpSnd /\ o.udpRcv = l.mux.udpRcv
    BY <1>1, <1>3 DEF OptionsOf
  <1>11. /\ a \in EndRecord /\ OptionsOf(a) /\ a.state = "connected" /\ a.mss = mss /\ a.rcv = o.rcv
         /\ a.fc = o.fc /\ a.flow = soReq.flight /\ a.sndLoss = 2 * soReq.flight
    <2>1. o \in EndRecord /\ OptionsOf(o) /\ mss \in Int /\ mss >= MinMSS /\ mss <= o.mss /\ soReq.flight \in Int
      BY <1>3, <1>7, <1>9
    <2>2. a = Joined(o, mss, soReq.flight, l.mux)
      BY <1>5 DEF Joined
    <2>3. /\ l.mux \in [mss : Int, udpSnd : Int, udpRcv : Int]
          /\ o.mss <= l.mux.mss /\ o.udpSnd = l.mux.udpSnd /\ o.udpRcv = l.mux.udpRcv
      BY <1>7, <1>10
    <2> QED BY <2>1, <2>2, <2>3, ConnectedSound
  <1>12. FlightOf(o) = FlightOf(a) /\ FlightOf(a) \in Int
    BY <1>11 DEF FlightOf, Least, EndRecord
  <1>13. so'["accepted"] = a /\ so'["client"] = so["client"] /\ so'["listener"] = so["listener"]
         /\ \A q \in Ends : so'[q] = IF q = "accepted" THEN a ELSE so[q]
    BY <1>1, <1>6 DEF Ends
  <1>14. soAns'.mss = mss /\ soAns'.flight = FlightOf(a) /\ soAns' \in SizesRecord
    BY <1>6, <1>9, <1>12 DEF SizesRecord
  <1>15. OptionTypes'
    BY <1>1, <1>6, <1>11, <1>14 DEF OptionsInv, OptionTypes
  <1>16. (\A q \in Ends : OptionsOf(so[q]))'
    BY <1>11, <1>13 DEF OptionsInv
  <1>17. so["client"].state = "connecting"
    <2>1. so["client"].state # "connected"
      BY DEF OptionsInv, HandshakeSizes, SoAccept
    <2> QED BY <1>8, <2>1 DEF Connecting
  <1>18. HandshakeSizes'
    <2>1. (so["listener"].state \in {"new", "opened", "bound"} /\ so["accepted"].state \in {"new", "connected"})'
      BY <1>11, <1>13 DEF OptionsInv, HandshakeSizes
    <2>2. (soReq # NoSizes => /\ Connecting(so["client"]) /\ soReq.mss >= MinMSS
                              /\ soReq.flight = FlightOf(so["client"]))'
      BY <1>6, <1>8, <1>13 DEF Connecting, FlightOf
    <2>3. (soAns # NoSizes => /\ so["accepted"].state = "connected" /\ soAns.mss = so["accepted"].mss
                              /\ soAns.flight \in {FlightOf(so["accepted"]), so["accepted"].fc})'
      BY <1>11, <1>13, <1>14 DEF FlightOf
    <2>4. (so["accepted"].state = "connected" => soReq # NoSizes /\ so["accepted"].mss <= soReq.mss)'
      BY <1>1, <1>6, <1>9, <1>11, <1>13
    <2>5. (so["client"].state = "connecting" => so["client"].mss = soReq.mss)'
      BY <1>6, <1>13 DEF OptionsInv, HandshakeSizes
    <2>6. (so["client"].state = "connected" => soAns # NoSizes /\ so["client"].mss = soAns.mss)'
      BY <1>13, <1>17
    <2> QED BY <2>1, <2>2, <2>3, <2>4, <2>5, <2>6 DEF HandshakeSizes
  <1>19. (\A q \in {"client", "accepted"} : WindowOf(q))'
    <2> DEFINE c == so["client"]
    <2>1. c \in EndRecord /\ OptionsOf(c)
      BY DEF OptionsInv, OptionTypes, Ends
    <2>2. c.rcv \in Int /\ c.fc \in Int /\ c.rcv >= 0
      BY <2>1 DEF EndRecord, OptionsOf
    <2>3. c.rcv <= c.fc => /\ a.flow <= c.fc /\ a.flow <= a.sndLoss /\ a.sndLoss >= 2 * c.rcv
      BY <1>8, <1>11, <2>2, WindowFits DEF FlightOf
    <2>4. WindowOf("accepted")'
      BY <1>11, <1>13, <2>3 DEF WindowOf, PeerOf
    <2>5. WindowOf("client")'
      BY <1>13, <1>17 DEF WindowOf
    <2> QED BY <2>4, <2>5
  <1> QED BY <1>15, <1>16, <1>18, <1>19 DEF OptionsInv

LEMMA SoRepeatedKeeps == ASSUME OptionsInv, SoRepeated PROVE OptionsInv'
  <1> DEFINE a == so["accepted"]
  <1>1. a.state = "connected" /\ a \in EndRecord /\ UNCHANGED <<so, soReq>> /\ soAns' = [mss |-> a.mss, flight |-> a.fc]
    BY DEF SoRepeated, OptionsInv, OptionTypes, Ends
  <1> HIDE DEF a
  <1>2. soAns'.mss = a.mss /\ soAns'.flight = a.fc /\ soAns' \in SizesRecord
    BY <1>1 DEF EndRecord, SizesRecord
  <1>3. a.mss >= MinMSS /\ a.mss \in Int
    BY <1>1 DEF OptionsInv, OptionsOf, Ends, a, EndRecord
  <1>4. soAns' # NoSizes
    BY <1>2, <1>3, SockOptionsAssumption DEF NoSizes
  <1>5. so["client"].state = "connected" => so["client"].mss = soAns'.mss
    BY <1>2 DEF OptionsInv, HandshakeSizes, a
  <1>6. HandshakeSizes'
    BY <1>1, <1>2, <1>4, <1>5 DEF OptionsInv, HandshakeSizes, a, FlightOf, Connecting
  <1>7. OptionTypes' /\ (\A q \in Ends : OptionsOf(so[q]))'
    BY <1>1, <1>2 DEF OptionsInv, OptionTypes
  <1>8. (\A q \in {"client", "accepted"} : WindowOf(q))'
    BY <1>1 DEF OptionsInv, WindowOf
  <1> QED BY <1>6, <1>7, <1>8 DEF OptionsInv

LEMMA SoAnsweredKeeps == ASSUME OptionsInv, SoAnswered PROVE OptionsInv'
  <1> DEFINE o == so["client"]
             a == so["accepted"]
  <1>1. /\ o \in EndRecord /\ OptionsOf(o) /\ o.state = "connecting" /\ so \in [Ends -> EndRecord]
        /\ soAns # NoSizes /\ soAns \in SizesRecord /\ "client" \in Ends /\ a \in EndRecord /\ OptionsOf(a)
        /\ UNCHANGED <<soReq, soAns>>
    BY DEF SoAnswered, OptionsInv, OptionTypes, Ends
  <1>2. /\ a.state = "connected" /\ soAns.mss = a.mss /\ soAns.flight \in {FlightOf(a), a.fc}
        /\ soReq # NoSizes /\ a.mss <= soReq.mss /\ o.mss = soReq.mss
    BY <1>1 DEF OptionsInv, HandshakeSizes
  <1>3. so' = [so EXCEPT !["client"] = ConnectedWith(o, soAns.mss, soAns.flight)]
    BY DEF SoAnswered
  <1> HIDE DEF o, a
  <1>4. soAns.mss \in Int /\ soAns.flight \in Int /\ a.mss >= MinMSS
    BY <1>1 DEF SizesRecord, OptionsOf
  <1>5. PICK c : c = ConnectedWith(o, soAns.mss, soAns.flight)
    OBVIOUS
  <1>6. c = [c EXCEPT !.mux = o.mux] /\ o.mux \in [mss : Int, udpSnd : Int, udpRcv : Int]
    <2>1. o.mux \in [mss : Int, udpSnd : Int, udpRcv : Int] /\ o.fc \in Int
      BY <1>1 DEF EndRecord
    <2>2. PayloadOf(soAns.mss) \in Int /\ 2 * soAns.flight \in Int
      BY <1>4, SockOptionsAssumption DEF PayloadOf
    <2>3. c \in EndRecord
      BY <1>1, <1>4, <1>5, <2>1, <2>2 DEF ConnectedWith, EndRecord, OptionStates
    <2>4. c.mux = o.mux
      BY <1>1, <1>5 DEF ConnectedWith, EndRecord
    <2> QED BY <2>1, <2>3, <2>4 DEF EndRecord
  <1>7. o.mss <= o.mux.mss /\ o.udpSnd = o.mux.udpSnd /\ o.udpRcv = o.mux.udpRcv
    BY <1>1 DEF OptionsOf
  <1>8. soAns.mss >= MinMSS /\ soAns.mss <= o.mss
    BY <1>2, <1>4
  <1>9. c = [ConnectedWith(o, soAns.mss, soAns.flight) EXCEPT !.mux = o.mux]
    BY <1>5, <1>6
  <1>10. /\ c \in EndRecord /\ OptionsOf(c) /\ c.state = "connected" /\ c.mss = soAns.mss
         /\ c.rcv = o.rcv /\ c.fc = o.fc /\ c.flow = soAns.flight /\ c.sndLoss = 2 * soAns.flight
    <2>1. o \in EndRecord /\ OptionsOf(o) /\ soAns.mss \in Int /\ soAns.flight \in Int
      BY <1>1, <1>4
    <2>2. c = Joined(o, soAns.mss, soAns.flight, o.mux)
      BY <1>9 DEF Joined
    <2>3. /\ o.mux \in [mss : Int, udpSnd : Int, udpRcv : Int] /\ soAns.mss >= MinMSS /\ soAns.mss <= o.mss
          /\ o.mss <= o.mux.mss /\ o.udpSnd = o.mux.udpSnd /\ o.udpRcv = o.mux.udpRcv
      BY <1>6, <1>7, <1>8
    <2> QED BY <2>1, <2>2, <2>3, ConnectedSound
  <1>11. so'["client"] = c /\ so'["accepted"] = a /\ so'["listener"] = so["listener"]
         /\ \A q \in Ends : so'[q] = IF q = "client" THEN c ELSE so[q]
    BY <1>1, <1>3, <1>5 DEF Ends, a
  <1>12. OptionTypes'
    BY <1>1, <1>3, <1>5, <1>10 DEF OptionsInv, OptionTypes
  <1>13. (\A q \in Ends : OptionsOf(so[q]))'
    BY <1>10, <1>11 DEF OptionsInv
  <1>14. soReq.flight = FlightOf(c) /\ soReq.mss >= MinMSS
    BY <1>2, <1>10 DEF OptionsInv, HandshakeSizes, FlightOf, o
  <1>15. HandshakeSizes'
    <2>1. so["listener"].state \in {"new", "opened", "bound"}
      BY DEF OptionsInv, HandshakeSizes
    <2> QED BY <1>1, <1>2, <1>10, <1>11, <1>14, <2>1 DEF HandshakeSizes, Connecting
  <1>16. (\A q \in {"client", "accepted"} : WindowOf(q))'
    <2>1. a.rcv \in Int /\ a.fc \in Int /\ a.rcv >= 0
      BY <1>1 DEF EndRecord, OptionsOf
    <2>2. a.rcv <= a.fc => /\ c.flow <= a.fc /\ c.flow <= c.sndLoss /\ c.sndLoss >= 2 * a.rcv
      BY <1>2, <1>10, <2>1, WindowFits DEF FlightOf
    <2>3. WindowOf("client")'
      BY <1>10, <1>11, <2>2 DEF WindowOf, PeerOf
    <2>4. WindowOf("accepted")
      BY DEF OptionsInv
    <2>5. WindowOf("accepted")'
      BY <1>10, <1>11, <2>4 DEF WindowOf, PeerOf, a, o
    <2> QED BY <2>3, <2>5
  <1> QED BY <1>12, <1>13, <1>15, <1>16 DEF OptionsInv

LEMMA SoAckKeeps == ASSUME OptionsInv, NEW p \in Ends, SoAck(p) PROVE OptionsInv'
  <1> DEFINE peer == so[PeerOf(p)]
  <1>1. /\ p \in {"client", "accepted"} /\ PeerOf(p) \in {"client", "accepted"} /\ PeerOf(p) # p
        /\ so[p].state = "connected" /\ so \in [Ends -> EndRecord] /\ so[p] \in EndRecord
        /\ peer \in EndRecord /\ OptionsOf(peer) /\ OptionsOf(so[p]) /\ UNCHANGED <<soReq, soAns>>
    BY DEF SoAck, Ends, PeerOf, OptionsInv, OptionTypes
  <1>2. peer.rcv \in Int /\ peer.fc \in Int /\ peer.fc >= 2
    BY <1>1 DEF EndRecord, OptionsOf
  <1>3. PICK avail \in 1..peer.rcv : so' = [so EXCEPT ![p].flow = Most(2, avail)]
    BY DEF SoAck
  <1>4. PICK o : o = [so[p] EXCEPT !.flow = Most(2, avail)]
    OBVIOUS
  <1>5. so' = [so EXCEPT ![p] = o]
    BY <1>1, <1>3, <1>4
  <1>6. Most(2, avail) \in Int
    BY <1>2 DEF Most
  <1>7. o \in EndRecord /\ o.flow = Most(2, avail) /\ o.state = "connected" /\ o.sndLoss = so[p].sndLoss
        /\ o.rcv = so[p].rcv /\ o.fc = so[p].fc /\ o.mss = so[p].mss
    BY <1>1, <1>4, <1>6 DEF EndRecord
  <1>8. OptionsOf(o)
    BY <1>1, <1>4, <1>6 DEF EndRecord, OptionsOf, Opened
  <1>9. \A q \in Ends : so'[q] = IF q = p THEN o ELSE so[q]
    BY <1>1, <1>5
  <1>10. OptionTypes'
    BY <1>1, <1>5, <1>7 DEF OptionsInv, OptionTypes
  <1>11. (\A q \in Ends : OptionsOf(so[q]))'
    BY <1>8, <1>9 DEF OptionsInv
  <1>12. HandshakeSizes'
    BY <1>1, <1>7, <1>9 DEF OptionsInv, HandshakeSizes, Ends, Connecting, FlightOf
  <1>13. WindowOf(p)'
    <2>1. WindowOf(p)
      BY <1>1 DEF OptionsInv
    <2>2. so'[p] = o /\ so'[PeerOf(p)] = peer
      BY <1>1, <1>9 DEF Ends
    <2>3. peer.rcv <= peer.fc => /\ so[p].sndLoss >= 2 * peer.rcv /\ Most(2, avail) <= peer.fc
      BY <1>1, <1>2, <2>1 DEF WindowOf, Most
    <2>4. so[p].sndLoss \in Int
      BY <1>1 DEF EndRecord
    <2>5. peer.rcv <= peer.fc => Most(2, avail) <= so[p].sndLoss
      BY <1>2, <2>3, <2>4 DEF Most
    <2> QED BY <1>7, <2>2, <2>3, <2>5 DEF WindowOf
  <1>14. WindowOf(PeerOf(p))'
    <2>1. WindowOf(PeerOf(p)) /\ PeerOf(PeerOf(p)) = p
      BY <1>1 DEF OptionsInv, PeerOf
    <2>2. so'[p] = o /\ so'[PeerOf(p)] = peer
      BY <1>1, <1>9 DEF Ends
    <2> QED BY <1>7, <2>1, <2>2 DEF WindowOf
  <1>15. (\A q \in {"client", "accepted"} : WindowOf(q))'
    BY <1>1, <1>13, <1>14
  <1> QED BY <1>10, <1>11, <1>12, <1>15 DEF OptionsInv

LEMMA OptionsStep == ASSUME OptionsInv, SockOptionsNext PROVE OptionsInv'
  <1>1. ASSUME NEW p \in {"client", "listener"}, NEW name \in OptNames, NEW v \in OptValues, SetOption(p, name, v)
        PROVE  OptionsInv'
    BY <1>1, SetOptionKeeps
  <1>2. ASSUME NEW p \in {"client", "listener"}, Open(p) \/ MakeMux(p) PROVE OptionsInv'
    BY <1>2, OpenKeeps, MakeMuxKeeps
  <1>3. ASSUME NEW p \in Ends, SoAck(p) PROVE OptionsInv'
    BY <1>3, SoAckKeeps
  <1> QED BY <1>1, <1>2, <1>3, SoConnectKeeps, SoAcceptKeeps, SoRepeatedKeeps, SoAnsweredKeeps, Zenon
          DEF SockOptionsNext

LEMMA OptionsInvSound == OptionsInv => OptionsSound
  <1> SUFFICES ASSUME OptionsInv PROVE OptionsSound
    OBVIOUS
  <1>1. \A p \in Ends : OptionsOf(so[p])
    BY DEF OptionsInv
  <1>2. ASSUME NEW p \in Ends, so[p].state \notin {"new", "opened"} PROVE so[p].payload = PayloadOf(so[p].mss)
    BY <1>1, <1>2 DEF OptionsOf, Opened
  <1>3. PacketsFit
    BY <1>1, <1>2 DEF PacketsFit, OptionsOf, OptionsInv, HandshakeSizes
  <1>4. WindowsFit
    <2> SUFFICES ASSUME NEW p \in {"client", "accepted"}, so[p].state = "connected"
                 PROVE  \/ so[PeerOf(p)].rcv > so[PeerOf(p)].fc
                        \/ so[p].flow <= so[PeerOf(p)].fc /\ so[p].flow <= so[p].sndLoss
      BY DEF WindowsFit
    <2>1. so[PeerOf(p)].rcv \in Int /\ so[PeerOf(p)].fc \in Int
      BY DEF OptionsInv, OptionTypes, Ends, EndRecord, PeerOf
    <2>2. WindowOf(p)
      BY DEF OptionsInv
    <2> QED BY <2>1, <2>2 DEF WindowOf
  <1> QED BY <1>3, <1>4 DEF OptionsSound

\* Whatever options are set in whatever order, the sizes the two ends agree on fit the
\* buffers, loss lists and queues of both (setOpt, open, connect, newConnection).
THEOREM OptionsFit == PartsSpec => []AgreedSizesFit
  <1> DEFINE Inv == subject = "options" => OptionsInv
  <1>1. PartsInit => Inv
    BY OptionsStart
  <1>2. Inv /\ [PartsNext]_allVars => Inv'
    <2> SUFFICES ASSUME Inv, [PartsNext]_allVars, subject' = "options" PROVE OptionsInv'
      OBVIOUS
    <2>1. subject = "options" /\ (SockOptionsNext \/ UNCHANGED sockOptionVars)
      BY DEF PartsNext, StepOf, allVars
    <2>2. CASE UNCHANGED sockOptionVars
      BY <2>1, <2>2 DEF sockOptionVars, OptionsInv, OptionTypes, HandshakeSizes, WindowOf
    <2> QED BY <2>1, <2>2, OptionsStep
  <1>3. Inv => AgreedSizesFit
    BY OptionsInvSound DEF AgreedSizesFit, Of
  <1> QED BY <1>1, <1>2, <1>3, PTL DEF PartsSpec

-----------------------------------------------------------------------------
(* The calls that wait.                                                    *)

SndPcs == {"idle", "enter", "test", "asleep", "check", "act"}
RcvPcs == SndPcs \cup {"wait", "read"}
ReleasePcs == {"rel1", "rel2", "rel3", "rel4"}

SndRecord == [pc : SndPcs, call : {"send", "sendmsg", "sendfile"}, need : Nat]
RcvRecord ==
    [pc : RcvPcs, call : {"recv", "recvmsg", "recvfile"}, need : Nat, got : {0, 1}, timeout : BOOLEAN]
FlagRecord == [connected : BOOLEAN, broken : BOOLEAN, closing : BOOLEAN, health : BOOLEAN]

CallTypes ==
    /\ bcOpt \in [dgram : BOOLEAN, snd : BOOLEAN, rcv : BOOLEAN, sndTimed : BOOLEAN, rcvTimed : BOOLEAN]
    /\ bcRoom \in Int /\ bcReady \in Nat /\ bcEarly \in Nat
    /\ bcFlag \in FlagRecord /\ bcSnd \in SndRecord /\ bcRcv \in RcvRecord
    /\ bcRq \in ReleasePcs \cup {"idle", "signalSnd", "signalRcv"}
    /\ bcCloser \in ReleasePcs \cup {"idle", "locks", "done"}

\* A socket is unconnected only by the close that has marked it before.
ClosingFirst == bcCloser # "idle" \/ ~bcFlag.connected => bcFlag.closing

\* The sender sleeps on a connection that is up until an ACK's signal is on its way, or the
\* first signal of a release; only a file's call sleeps without UDT_SNDSYN.
SenderHeard ==
    /\ bcSnd.pc \in {"test", "asleep"} => bcSnd.call = "sendfile" \/ bcOpt.snd
    /\ bcSnd.pc = "asleep" /\ ~Up => "rel1" \in {bcRq, bcCloser}
    /\ bcSnd.pc = "asleep" /\ Up /\ ~Short /\ bcOpt.snd => bcRq = "signalSnd"

\* The same of the receiver, whom a release signals third; recvmsg with a time waits without
\* looking, until the time is over at the latest.
ReceiverHeard ==
    /\ bcRcv.pc \in {"test", "asleep"} => bcRcv.call = "recvfile" \/ bcOpt.rcv
    /\ bcRcv.pc \in {"wait", "read", "check"} /\ bcRcv.call = "recvmsg" => bcOpt.rcv
    /\ bcRcv.pc \in {"wait", "read"} => bcRcv.call = "recvmsg" /\ bcOpt.rcvTimed
    /\ bcRcv.pc = "asleep" /\ ~RcvTimed =>
          /\ ~Up => {bcRq, bcCloser} \cap Releasing # {}
          /\ Up /\ bcReady > 0 /\ bcOpt.rcv => bcRq = "signalRcv"

\* A file's call takes only a packet that is there.
FileFinds ==
    /\ bcRcv.pc = "check" /\ bcRcv.call = "recvfile" => ~Up \/ bcReady > 0
    /\ bcRcv.pc = "act" /\ bcRcv.call = "recvfile" => bcReady > 0

\* When close is done nobody sleeps, nor is about to without looking.
NobodyLeft == bcCloser = "done" => bcSnd.pc # "asleep" /\ bcRcv.pc \notin {"asleep", "wait"}

CallsInv == CallTypes /\ ClosingFirst /\ SenderHeard /\ ReceiverHeard /\ FileFinds /\ NobodyLeft

-----------------------------------------------------------------------------
(* The handshakes that are stored for connects.                            *)

PassTypes ==
    /\ DOMAIN psStored \subseteq PassSocks /\ psStored \in [DOMAIN psStored -> Seq(Nat)]
    /\ psCount \in Nat /\ psTaken \in [PassSocks -> Nat]

\* Nothing was stored or taken that had not been counted.
PassCounted ==
    /\ \A u \in PassSocks : psTaken[u] <= psCount
    /\ \A u \in DOMAIN psStored : \A i \in DOMAIN psStored[u] : psStored[u][i] <= psCount

PassInv == PassTypes /\ PassCounted /\ PassQueueSound

-----------------------------------------------------------------------------
(* The thread of the send queue.                                           *)

\* The heap of one entry needs no moves.
LEMMA OneSifted == ASSUME NEW x PROVE SiftedUp(<<x>>) = <<x>>
  <1> DEFINE h == <<x>>
             Body(f) == [k \in 0..Len(h) |->
                IF k = 0 THEN [heap |-> h, at |-> Len(h)] ELSE MovedUp(f[k - 1])]
             g == [k \in 0..1 |-> [heap |-> h, at |-> 1]]
             step == CHOOSE f : f = Body(f)
  <1>1. Len(h) = 1 /\ 0..Len(h) = {0, 1}
    OBVIOUS
  <1>2. g = Body(g)
    <2>1. g[0].at = 1
      OBVIOUS
    <2>2. MovedUp(g[0]) = g[0]
      BY <2>1 DEF MovedUp
    <2> QED BY <1>1, <2>2
  <1>3. step = Body(step)
    BY <1>2
  <1>4. SiftedUp(h) = step[Len(h)].heap
    BY DEF SiftedUp
  <1> HIDE DEF step
  <1>5. step[0] = [heap |-> h, at |-> 1]
    BY <1>1, <1>3
  <1>6. step[0].at = 1
    BY <1>5
  <1>7. step[1] = MovedUp(step[0])
    BY <1>1, <1>3
  <1>8. step[1] = step[0]
    BY <1>6, <1>7 DEF MovedUp
  <1>9. step[1].heap = h
    BY <1>5, <1>8
  <1> QED BY <1>1, <1>4, <1>9

\* A socket put on an empty heap makes one of one entry.
LEMMA InsertedFirst == ASSUME NEW u, NEW t PROVE Len(Inserted(<<>>, u, t)) = 1 /\ Removed(<<>>, u) = <<>>
  <1>1. Append(<<>>, [u |-> u, ts |-> t]) = <<[u |-> u, ts |-> t]>>
    OBVIOUS
  <1>2. Inserted(<<>>, u, t) = <<[u |-> u, ts |-> t]>>
    BY <1>1, OneSifted DEF Inserted
  <1>3. Locs(<<>>, u) = {}
    BY DEF Locs
  <1> QED BY <1>2, <1>3 DEF Removed

\* update on an empty heap keeps the list's lock for the signal.
LEMMA UpdateSignals ==
    ASSUME NEW p, SndUpdate(p), sqHeap = <<>>
    PROVE  sqLocked'
  <1>1. ~OnHeap(p.u)
    BY DEF OnHeap, Locs
  <1>2. sqHeap' = Inserted(Removed(sqHeap, p.u), p.u, 1) /\ sqLocked' = (Len(sqHeap') = 1)
    BY <1>1 DEF SndUpdate
  <1> QED BY <1>2, InsertedFirst

\* The invariant by itself is inductive.
LEMMA WakeupStep == ASSUME NoLostWakeup, SndQueueNext PROVE NoLostWakeup'
  <1>1. ASSUME NEW u \in SndSocks, NEW reschedule \in BOOLEAN, SndReady(u, reschedule) PROVE NoLostWakeup'
    BY <1>1 DEF SndReady, NoLostWakeup
  <1>2. ASSUME NEW u \in SndSocks, SndTimer(u) \/ SndLeave(u) PROVE NoLostWakeup'
    BY <1>2 DEF SndTimer, SndLeave, NoLostWakeup
  <1>3. ASSUME NEW u \in SndSocks, SndRemove(u) PROVE NoLostWakeup'
    <2>1. sqHeap # <<>> /\ ~sqLocked
      BY <1>3 DEF SndRemove, OnHeap, Locs
    <2> QED BY <1>3, <2>1 DEF SndRemove, NoLostWakeup
  <1>4. ASSUME NEW p \in sqPending, SndUpdate(p) PROVE NoLostWakeup'
    <2>1. sqPc' = sqPc /\ sqClosing' = sqClosing /\ ~sqLocked
      BY <1>4 DEF SndUpdate
    <2>2. sqPc = "waiting" => sqHeap = <<>>
      BY <2>1 DEF NoLostWakeup
    <2> QED BY <1>4, <2>1, <2>2, UpdateSignals DEF NoLostWakeup
  <1>5. CASE SndSignal \/ SndTick \/ SndTop \/ SndSleep \/ SndWake
    BY <1>5 DEF SndSignal, SndTick, SndTop, SndSleep, SndWake, sndOthers, Signalled, NoLostWakeup
  <1>6. CASE SndWait
    BY <1>6 DEF SndWait, sndOthers, NoLostWakeup
  <1>7. CASE SndPop
    BY <1>7 DEF SndPop, NoLostWakeup
  <1>8. CASE SndClosing \/ SndCloseSignal
    BY <1>8 DEF SndClosing, SndCloseSignal, Signalled, NoLostWakeup
  <1> QED BY <1>1, <1>2, <1>3, <1>4, <1>5, <1>6, <1>7, <1>8, Zenon DEF SndQueueNext

LEMMA PassStart == ASSUME PassInit PROVE PassInv
  <1>1. DOMAIN psStored = {}
    BY DEF PassInit
  <1>2. PassTypes
    BY <1>1 DEF PassInit, PassTypes
  <1>3. PassCounted /\ PassQueueSound
    BY <1>1 DEF PassInit, PassCounted, PassQueueSound
  <1> QED BY <1>2, <1>3 DEF PassInv

\* One socket's queue by itself: q after t was taken, with c handshakes counted.
QueueOf(q, t, c) ==
    /\ q \in Seq(Nat) /\ Len(q) \in 1..(StoreLimit + 1)
    /\ \A i \in DOMAIN q : q[i] <= c /\ q[i] > (IF i = 1 THEN t ELSE q[i - 1])

LEMMA PassByQueues ==
    PassInv <=> /\ DOMAIN psStored \subseteq PassSocks /\ psStored \in [DOMAIN psStored -> Seq(Nat)]
                /\ psCount \in Nat /\ psTaken \in [PassSocks -> Nat]
                /\ \A u \in PassSocks : psTaken[u] <= psCount
                /\ \A u \in DOMAIN psStored : QueueOf(psStored[u], psTaken[u], psCount)
  BY DEF PassInv, PassTypes, PassCounted, PassQueueSound, QueueOf

\* A queue grows by the number just counted, and loses the one that is taken.
LEMMA QueueGrows ==
    ASSUME NEW q, NEW t \in Nat, NEW c \in Nat, QueueOf(q, t, c), Len(q) <= StoreLimit
    PROVE  QueueOf(Append(q, c + 1), t, c + 1)
  <1>1. q \in Seq(Nat) /\ Len(q) \in Nat /\ Len(q) >= 1 /\ c + 1 \in Nat
    BY BlockingCallsAssumption DEF QueueOf
  <1>2. PICK a : a = Append(q, c + 1)
    OBVIOUS
  <1>3. a \in Seq(Nat) /\ Len(a) = Len(q) + 1 /\ a[Len(q) + 1] = c + 1 /\ \A i \in 1..Len(q) : a[i] = q[i]
    BY <1>1, <1>2
  <1>4. \A i \in 1..Len(q) : q[i] \in Nat /\ q[i] <= c /\ q[i] > (IF i = 1 THEN t ELSE q[i - 1])
    BY <1>1 DEF QueueOf
  <1>5. ASSUME NEW i \in DOMAIN a PROVE a[i] <= c + 1 /\ a[i] > (IF i = 1 THEN t ELSE a[i - 1])
    <2>1. i \in 1..(Len(q) + 1)
      BY <1>3, <1>5
    <2>2. CASE i \in 1..Len(q)
      <3>1. i # 1 => i - 1 \in 1..Len(q)
        BY <1>1, <2>2
      <3>2. a[i] = q[i] /\ q[i] \in Nat /\ q[i] <= c /\ q[i] > (IF i = 1 THEN t ELSE q[i - 1])
        BY <1>3, <1>4, <2>2
      <3>3. i # 1 => a[i - 1] = q[i - 1]
        BY <1>3, <3>1
      <3>4. a[i] <= c + 1
        BY <3>2
      <3> QED BY <3>2, <3>3, <3>4
    <2>3. CASE i = Len(q) + 1
      <3>1. i # 1 /\ i - 1 = Len(q) /\ Len(q) \in 1..Len(q)
        BY <1>1, <2>3
      <3> QED BY <1>1, <1>3, <1>4, <2>3, <3>1
    <2> QED BY <1>1, <2>1, <2>2, <2>3
  <1>6. Len(a) \in 1..(StoreLimit + 1)
    BY <1>1, <1>3, BlockingCallsAssumption
  <1> QED BY <1>2, <1>3, <1>5, <1>6 DEF QueueOf

LEMMA QueueShrinks ==
    ASSUME NEW q, NEW t \in Nat, NEW c \in Nat, QueueOf(q, t, c)
    PROVE  /\ Head(q) \in Nat /\ Head(q) <= c
           /\ Len(q) # 1 => QueueOf(Tail(q), Head(q), c)
  <1>1. q \in Seq(Nat) /\ Len(q) \in Nat /\ Len(q) >= 1 /\ Len(q) <= StoreLimit + 1
    BY BlockingCallsAssumption DEF QueueOf
  <1>2. \A i \in 1..Len(q) : q[i] \in Nat /\ q[i] <= c /\ q[i] > (IF i = 1 THEN t ELSE q[i - 1])
    BY <1>1 DEF QueueOf
  <1>3. Head(q) = q[1] /\ 1 \in 1..Len(q)
    BY <1>1
  <1>4. PICK r : r = Tail(q)
    OBVIOUS
  <1>5. PICK n : n = Len(q)
    OBVIOUS
  <1>6. n \in Nat /\ n >= 1 /\ n <= StoreLimit + 1 /\ StoreLimit \in Nat
    BY <1>1, <1>5, BlockingCallsAssumption
  <1>7. ASSUME n # 1 PROVE QueueOf(r, q[1], c)
    <2>1. r \in Seq(Nat) /\ Len(r) = n - 1 /\ \A i \in 1..(n - 1) : r[i] = q[i + 1]
      BY <1>1, <1>4, <1>5
    <2>2. ASSUME NEW i \in DOMAIN r PROVE r[i] <= c /\ r[i] > (IF i = 1 THEN q[1] ELSE r[i - 1])
      <3>1. i \in 1..(n - 1)
        BY <2>1, <2>2
      <3>2. i + 1 \in 1..n /\ i + 1 # 1 /\ (i # 1 => i - 1 \in 1..(n - 1)) /\ (i + 1) - 1 = i /\ (i - 1) + 1 = i
        BY <1>6, <3>1
      <3>3. r[i] = q[i + 1] /\ q[i + 1] <= c /\ q[i + 1] > q[i]
        BY <1>2, <1>5, <2>1, <3>1, <3>2
      <3>4. i # 1 => r[i - 1] = q[i]
        BY <2>1, <3>2
      <3> QED BY <3>3, <3>4
    <2>3. Len(r) \in 1..(StoreLimit + 1)
      <3>1. n - 1 \in 1..(StoreLimit + 1)
        BY <1>6, <1>7
      <3> QED BY <2>1, <3>1
    <2> QED BY <2>1, <2>2, <2>3 DEF QueueOf
  <1> QED BY <1>2, <1>3, <1>4, <1>5, <1>7

LEMMA QueueWaits ==
    ASSUME NEW q, NEW t \in Nat, NEW c \in Nat, QueueOf(q, t, c)
    PROVE  QueueOf(q, t, c + 1)
  <1>1. \A i \in DOMAIN q : q[i] \in Nat
    BY DEF QueueOf
  <1> QED BY <1>1 DEF QueueOf

LEMMA StorePktKeeps == ASSUME PassInv, NEW u \in PassSocks, StorePkt(u) PROVE PassInv'
  <1>1. psCount' = psCount + 1 /\ psTaken' = psTaken /\ psCount \in Nat /\ psTaken \in [PassSocks -> Nat]
    BY DEF StorePkt, PassInv, PassTypes
  <1>2. \A v \in DOMAIN psStored : psStored[v] \in Seq(Nat) /\ v \in PassSocks
                                   /\ QueueOf(psStored[v], psTaken[v], psCount)
    BY PassByQueues DEF PassTypes, PassInv
  <1>3. \A v \in PassSocks : psTaken[v] <= psCount /\ psTaken[v] \in Nat
    BY <1>1 DEF PassInv, PassCounted
  <1>4. \A v \in DOMAIN psStored : QueueOf(psStored[v], psTaken[v], psCount + 1)
    BY <1>1, <1>2, <1>3, QueueWaits
  <1>5. \/ psStored' = psStored
        \/ \E q : QueueOf(q, psTaken[u], psCount + 1) /\ psStored' = With(u, q)
    <2>1. CASE ~Stored(u)
      <3>1. QueueOf(<<psCount + 1>>, psTaken[u], psCount + 1)
        BY <1>1, <1>3, BlockingCallsAssumption DEF QueueOf
      <3> QED BY <1>1, <2>1, <3>1 DEF StorePkt
    <2>2. CASE Stored(u) /\ ~(Len(psStored[u]) > StoreLimit)
      <3>1. QueueOf(psStored[u], psTaken[u], psCount) /\ Len(psStored[u]) <= StoreLimit
        BY <1>2, <2>2, BlockingCallsAssumption DEF Stored, QueueOf
      <3>2. QueueOf(Append(psStored[u], psCount + 1), psTaken[u], psCount + 1)
        BY <1>1, <1>3, <3>1, QueueGrows
      <3> QED BY <1>1, <2>2, <3>2 DEF StorePkt
    <2>3. CASE Stored(u) /\ Len(psStored[u]) > StoreLimit
      BY <2>3 DEF StorePkt
    <2> QED BY <2>1, <2>2, <2>3
  <1>6. CASE psStored' = psStored
    <2>1. DOMAIN psStored \subseteq PassSocks /\ psStored \in [DOMAIN psStored -> Seq(Nat)]
      BY DEF PassInv, PassTypes
    <2>2. \A v \in PassSocks : psTaken[v] <= psCount + 1
      BY <1>1, <1>3
    <2>3. psCount + 1 \in Nat
      BY <1>1
    <2> QED BY <1>1, <1>4, <1>6, <2>1, <2>2, <2>3, PassByQueues DEF QueueOf, PassInv, PassTypes,
               PassCounted, PassQueueSound
  <1>7. CASE \E q : QueueOf(q, psTaken[u], psCount + 1) /\ psStored' = With(u, q)
    <2>1. PICK q : QueueOf(q, psTaken[u], psCount + 1) /\ psStored' = With(u, q)
      BY <1>7
    <2>2. DOMAIN psStored' = DOMAIN psStored \union {u} /\ psStored' = [v \in DOMAIN psStored' |-> psStored'[v]]
          /\ \A v \in DOMAIN psStored' : psStored'[v] = IF v = u THEN q ELSE psStored[v]
      BY <2>1 DEF With
    <2>3. \A v \in DOMAIN psStored' : psStored'[v] \in Seq(Nat) /\ v \in PassSocks
                                      /\ QueueOf(psStored'[v], psTaken[v], psCount + 1)
      BY <1>2, <1>4, <2>1, <2>2 DEF QueueOf
    <2>4. psCount + 1 \in Nat /\ \A v \in PassSocks : psTaken[v] <= psCount + 1
      BY <1>1, <1>3
    <2> QED BY <1>1, <2>2, <2>3, <2>4 DEF QueueOf, PassInv, PassTypes, PassCounted, PassQueueSound
  <1> QED BY <1>5, <1>6, <1>7

\* The earliest packet is taken.
LEMMA TakeKeeps ==
    ASSUME PassInv, NEW u \in PassSocks, Stored(u), TakeStored(u), UNCHANGED psCount
    PROVE  PassInv'
  <1> DEFINE q == psStored[u]
  <1>1. /\ psCount \in Nat /\ psTaken \in [PassSocks -> Nat]
        /\ DOMAIN psStored \subseteq PassSocks /\ u \in DOMAIN psStored
        /\ \A v \in DOMAIN psStored : QueueOf(psStored[v], psTaken[v], psCount)
        /\ \A v \in PassSocks : psTaken[v] <= psCount
    BY PassByQueues DEF Stored
  <1>2. Head(q) \in Nat /\ Head(q) <= psCount /\ (Len(q) # 1 => QueueOf(Tail(q), Head(q), psCount))
    BY <1>1, QueueShrinks
  <1>3. psTaken' = [psTaken EXCEPT ![u] = Head(q)]
    BY DEF TakeStored
  <1>4. psStored' = (IF Len(q) = 1 THEN Without(u) ELSE With(u, Tail(q)))
    BY DEF TakeStored
  <1>5. DOMAIN psStored' \subseteq DOMAIN psStored /\ psStored' = [v \in DOMAIN psStored' |-> psStored'[v]]
        /\ \A v \in DOMAIN psStored' : IF v = u THEN Len(q) # 1 /\ psStored'[v] = Tail(q)
                                       ELSE psStored'[v] = psStored[v]
    BY <1>1, <1>4 DEF With, Without
  <1>6. psTaken' \in [PassSocks -> Nat] /\ psTaken'[u] = Head(q)
        /\ \A v \in PassSocks : v # u => psTaken'[v] = psTaken[v]
    BY <1>1, <1>2, <1>3
  <1>7. \A v \in DOMAIN psStored' : QueueOf(psStored'[v], psTaken'[v], psCount)
    BY <1>1, <1>2, <1>5, <1>6
  <1>8. \A v \in PassSocks : psTaken'[v] <= psCount
    BY <1>1, <1>2, <1>6
  <1>9. \A v \in DOMAIN psStored' : psStored'[v] \in Seq(Nat)
    BY <1>7 DEF QueueOf
  <1> HIDE DEF q
  <1> QED BY <1>1, <1>5, <1>6, <1>7, <1>8, <1>9
          DEF QueueOf, PassInv, PassTypes, PassCounted, PassQueueSound

LEMMA ForgetStoredKeeps == ASSUME PassInv, NEW u \in PassSocks, ForgetStored(u) PROVE PassInv'
  <1>1. DOMAIN psStored' = DOMAIN psStored \ {u} /\ psStored' = [v \in DOMAIN psStored' |-> psStored'[v]]
        /\ \A v \in DOMAIN psStored' : psStored'[v] = psStored[v]
    BY DEF ForgetStored, Without
  <1>2. UNCHANGED <<psCount, psTaken>>
    BY DEF ForgetStored
  <1> QED BY <1>1, <1>2 DEF PassInv, PassTypes, PassCounted, PassQueueSound

LEMMA PassRests == ASSUME PassInv, UNCHANGED <<psStored, psCount, psTaken>> PROVE PassInv'
  BY DEF PassInv, PassTypes, PassCounted, PassQueueSound

LEMMA PassStep == ASSUME PassInv, PassNext PROVE PassInv'
  <1>1. PICK u \in PassSocks : StorePkt(u) \/ Recvfrom(u) \/ RecvfromTimeout(u) \/ RecvfromWoken(u) \/ ForgetStored(u)
    BY DEF PassNext
  <1>2. CASE StorePkt(u)
    BY <1>2, StorePktKeeps
  <1>3. CASE Recvfrom(u)
    BY <1>3, TakeKeeps, PassRests DEF Recvfrom
  <1>4. CASE RecvfromTimeout(u)
    BY <1>4, PassRests DEF RecvfromTimeout
  <1>5. CASE RecvfromWoken(u)
    BY <1>5, TakeKeeps, PassRests DEF RecvfromWoken
  <1>6. CASE ForgetStored(u)
    BY <1>6, ForgetStoredKeeps
  <1> QED BY <1>1, <1>2, <1>3, <1>4, <1>5, <1>6

\* What a step of the sending thread leaves alone.
LEMMA SenderLeaves ==
    ASSUME CallsInv, UNCHANGED sndRest, bcFlag' \in FlagRecord, bcSnd'.pc = "asleep" => bcSnd.pc = "asleep" \/ Up,
           bcFlag'.connected = bcFlag.connected, bcFlag'.broken = bcFlag.broken,
           bcFlag'.closing = bcFlag.closing
    PROVE  ClosingFirst' /\ ReceiverHeard' /\ FileFinds' /\ NobodyLeft'
  <1>1. ClosingFirst'
    BY DEF CallsInv, ClosingFirst, sndRest
  <1>2. ReceiverHeard'
    BY DEF CallsInv, ReceiverHeard, RcvTimed, Releasing, Up, Gone, sndRest
  <1>3. FileFinds'
    BY DEF CallsInv, FileFinds, Up, Gone, sndRest
  <1>4. NobodyLeft'
    BY DEF CallsInv, CallTypes, NobodyLeft, ClosingFirst, Up, Gone, sndRest
  <1> QED BY <1>1, <1>2, <1>3, <1>4

\* What a step of the receiving thread leaves alone.
LEMMA ReceiverLeaves ==
    ASSUME CallsInv, UNCHANGED rcvRest
    PROVE  ClosingFirst' /\ SenderHeard'
  BY DEF CallsInv, ClosingFirst, SenderHeard, Up, Gone, Short, rcvRest

LEMMA FlagChanges ==
    ASSUME NEW f \in FlagRecord
    PROVE  /\ [f EXCEPT !.health = TRUE] \in FlagRecord /\ [f EXCEPT !.health = FALSE] \in FlagRecord
           /\ [f EXCEPT !.closing = TRUE] \in FlagRecord /\ [f EXCEPT !.connected = FALSE] \in FlagRecord
           /\ [f EXCEPT !.broken = TRUE, !.closing = TRUE] \in FlagRecord
  BY DEF FlagRecord

LEMMA SndEnterKeeps == ASSUME CallsInv, NEW call \in {"send", "sendmsg", "sendfile"}, NEW need \in 1..MaxFile,
           SndEnter(call, need) PROVE CallsInv'
  <1>1. CallTypes'
    BY BlockingCallsAssumption DEF CallsInv, CallTypes, SndRecord, RcvRecord, SndPcs, RcvPcs, sndRest,
       SndEnter
  <1>2. SenderHeard'
    BY DEF CallsInv, CallTypes, SndRecord, SenderHeard, ClosingFirst, Up, Gone, Short, sndRest, SndEnter
  <1>3. UNCHANGED sndRest /\ (bcSnd'.pc = "asleep" => bcSnd.pc = "asleep" \/ Up)
    BY DEF CallsInv, CallTypes, SndRecord, SndEnter
  <1>4. /\ bcFlag'.connected = bcFlag.connected /\ bcFlag'.broken = bcFlag.broken
        /\ bcFlag'.closing = bcFlag.closing
    BY DEF CallsInv, CallTypes, FlagRecord, SndEnter
  <1>5. bcFlag' \in FlagRecord
    BY <1>1 DEF CallTypes
  <1> QED BY <1>1, <1>2, <1>3, <1>4, <1>5, SenderLeaves DEF CallsInv

LEMMA SndLockKeeps == ASSUME CallsInv, SndLock PROVE CallsInv'
  <1>1. CallTypes'
    BY BlockingCallsAssumption DEF CallsInv, CallTypes, SndRecord, RcvRecord, SndPcs, RcvPcs, sndRest,
       SndLock, At, NotSending
  <1>2. SenderHeard'
    BY DEF CallsInv, CallTypes, SndRecord, SenderHeard, ClosingFirst, Up, Gone, Short, sndRest, SndLock,
       At, NotSending
  <1>3. UNCHANGED sndRest /\ (bcSnd'.pc = "asleep" => bcSnd.pc = "asleep" \/ Up)
    BY DEF CallsInv, CallTypes, SndRecord, SndLock, At, NotSending
  <1>4. /\ bcFlag'.connected = bcFlag.connected /\ bcFlag'.broken = bcFlag.broken
        /\ bcFlag'.closing = bcFlag.closing
    BY DEF CallsInv, CallTypes, FlagRecord, SndLock, At, NotSending
  <1>5. bcFlag' \in FlagRecord
    BY <1>1 DEF CallTypes
  <1> QED BY <1>1, <1>2, <1>3, <1>4, <1>5, SenderLeaves DEF CallsInv

LEMMA SndTestKeeps == ASSUME CallsInv, SndTest PROVE CallsInv'
  <1>1. CallTypes'
    BY BlockingCallsAssumption DEF CallsInv, CallTypes, SndRecord, RcvRecord, SndPcs, RcvPcs, sndRest,
       SndTest, At, SndMustWait
  <1>2. SenderHeard'
    BY DEF CallsInv, CallTypes, SndRecord, SenderHeard, ClosingFirst, Up, Gone, Short, sndRest, SndTest,
       At, SndMustWait
  <1>3. UNCHANGED sndRest /\ (bcSnd'.pc = "asleep" => bcSnd.pc = "asleep" \/ Up)
    BY DEF CallsInv, CallTypes, SndRecord, SndTest, At, SndMustWait
  <1>4. /\ bcFlag'.connected = bcFlag.connected /\ bcFlag'.broken = bcFlag.broken
        /\ bcFlag'.closing = bcFlag.closing
    BY DEF CallsInv, CallTypes, FlagRecord, SndTest, At, SndMustWait
  <1>5. bcFlag' \in FlagRecord
    BY <1>1 DEF CallTypes
  <1> QED BY <1>1, <1>2, <1>3, <1>4, <1>5, SenderLeaves DEF CallsInv

LEMMA SndTimeoutKeeps == ASSUME CallsInv, SndTimeout PROVE CallsInv'
  <1>1. CallTypes'
    BY BlockingCallsAssumption DEF CallsInv, CallTypes, SndRecord, RcvRecord, SndPcs, RcvPcs, sndRest,
       SndTimeout, At
  <1>2. SenderHeard'
    BY DEF CallsInv, CallTypes, SndRecord, SenderHeard, ClosingFirst, Up, Gone, Short, sndRest,
       SndTimeout, At
  <1>3. UNCHANGED sndRest /\ (bcSnd'.pc = "asleep" => bcSnd.pc = "asleep" \/ Up)
    BY DEF CallsInv, CallTypes, SndRecord, SndTimeout, At
  <1>4. /\ bcFlag'.connected = bcFlag.connected /\ bcFlag'.broken = bcFlag.broken
        /\ bcFlag'.closing = bcFlag.closing
    BY DEF CallsInv, CallTypes, FlagRecord, SndTimeout, At
  <1>5. bcFlag' \in FlagRecord
    BY <1>1 DEF CallTypes
  <1> QED BY <1>1, <1>2, <1>3, <1>4, <1>5, SenderLeaves DEF CallsInv

LEMMA SndCheckKeeps == ASSUME CallsInv, SndCheck PROVE CallsInv'
  <1>1. CallTypes'
    <2>1. bcFlag' \in FlagRecord
      BY FlagChanges DEF CallsInv, CallTypes, SndCheck
    <2>2. bcSnd' \in SndRecord
      BY BlockingCallsAssumption DEF CallsInv, CallTypes, SndRecord, SndPcs, SndCheck, At, NotSending
    <2> QED BY <2>1, <2>2 DEF CallsInv, CallTypes, SndCheck, sndRest
  <1>2. SenderHeard'
    BY DEF CallsInv, CallTypes, SndRecord, SenderHeard, ClosingFirst, Up, Gone, Short, sndRest, SndCheck,
       At, NotSending
  <1>3. UNCHANGED sndRest /\ (bcSnd'.pc = "asleep" => bcSnd.pc = "asleep" \/ Up)
    BY DEF CallsInv, CallTypes, SndRecord, SndCheck, At, NotSending
  <1>4. /\ bcFlag'.connected = bcFlag.connected /\ bcFlag'.broken = bcFlag.broken
        /\ bcFlag'.closing = bcFlag.closing
    BY DEF CallsInv, CallTypes, FlagRecord, SndCheck, At, NotSending
  <1>5. bcFlag' \in FlagRecord
    BY <1>1 DEF CallTypes
  <1> QED BY <1>1, <1>2, <1>3, <1>4, <1>5, SenderLeaves DEF CallsInv

LEMMA SendDataKeeps == ASSUME CallsInv, SendData PROVE CallsInv'
  <1>1. CallTypes'
    BY BlockingCallsAssumption DEF CallsInv, CallTypes, SndRecord, RcvRecord, SndPcs, RcvPcs, sndRest,
       SendData, Write, NotSending
  <1>2. SenderHeard'
    BY DEF CallsInv, CallTypes, SndRecord, SenderHeard, ClosingFirst, Up, Gone, Short, sndRest, SendData,
       Write, NotSending
  <1>3. UNCHANGED sndRest /\ (bcSnd'.pc = "asleep" => bcSnd.pc = "asleep" \/ Up)
    BY DEF CallsInv, CallTypes, SndRecord, SendData, Write, NotSending
  <1>4. /\ bcFlag'.connected = bcFlag.connected /\ bcFlag'.broken = bcFlag.broken
        /\ bcFlag'.closing = bcFlag.closing
    BY DEF CallsInv, CallTypes, FlagRecord, SendData, Write, NotSending
  <1>5. bcFlag' \in FlagRecord
    BY <1>1 DEF CallTypes
  <1> QED BY <1>1, <1>2, <1>3, <1>4, <1>5, SenderLeaves DEF CallsInv

LEMMA SendMessageKeeps == ASSUME CallsInv, SendMessage PROVE CallsInv'
  <1>1. CallTypes'
    BY BlockingCallsAssumption DEF CallsInv, CallTypes, SndRecord, RcvRecord, SndPcs, RcvPcs, sndRest,
       SendMessage, Write, NotSending
  <1>2. SenderHeard'
    BY DEF CallsInv, CallTypes, SndRecord, SenderHeard, ClosingFirst, Up, Gone, Short, sndRest,
       SendMessage, Write, NotSending
  <1>3. UNCHANGED sndRest /\ (bcSnd'.pc = "asleep" => bcSnd.pc = "asleep" \/ Up)
    BY DEF CallsInv, CallTypes, SndRecord, SendMessage, Write, NotSending
  <1>4. /\ bcFlag'.connected = bcFlag.connected /\ bcFlag'.broken = bcFlag.broken
        /\ bcFlag'.closing = bcFlag.closing
    BY DEF CallsInv, CallTypes, FlagRecord, SendMessage, Write, NotSending
  <1>5. bcFlag' \in FlagRecord
    BY <1>1 DEF CallTypes
  <1> QED BY <1>1, <1>2, <1>3, <1>4, <1>5, SenderLeaves DEF CallsInv

LEMMA SendBlockKeeps == ASSUME CallsInv, SendBlock PROVE CallsInv'
  <1>1. CallTypes'
    <2>1. PICK size \in 1..bcSnd.need :
             /\ bcRoom' = bcRoom - size
             /\ bcSnd' = IF size = bcSnd.need THEN NotSending ELSE [bcSnd EXCEPT !.pc = "test", !.need = @ - size]
      BY DEF SendBlock, Write
    <2>2. bcSnd.need \in Nat
      BY DEF CallsInv, CallTypes, SndRecord
    <2>3. size \in Nat /\ (size # bcSnd.need => bcSnd.need - size \in Nat)
      BY <2>2
    <2>4. [bcSnd EXCEPT !.pc = "test", !.need = @ - size] = [bcSnd EXCEPT !.pc = "test", !.need = bcSnd.need - size]
      BY DEF CallsInv, CallTypes, SndRecord
    <2>5. NotSending \in SndRecord
      BY DEF NotSending, SndRecord, SndPcs
    <2>6. ASSUME NEW n \in Nat PROVE [bcSnd EXCEPT !.pc = "test", !.need = n] \in SndRecord
      BY DEF CallsInv, CallTypes, SndRecord, SndPcs
    <2>7. bcSnd' \in SndRecord
      BY <2>1, <2>3, <2>4, <2>5, <2>6
    <2> QED BY <2>1, <2>3, <2>7 DEF CallsInv, CallTypes, SendBlock, Write, sndRest
  <1>2. SenderHeard'
    BY DEF CallsInv, CallTypes, SndRecord, SenderHeard, ClosingFirst, Up, Gone, Short, sndRest, SendBlock,
       Write, NotSending
  <1>3. UNCHANGED sndRest /\ (bcSnd'.pc = "asleep" => bcSnd.pc = "asleep" \/ Up)
    BY DEF CallsInv, CallTypes, SndRecord, SendBlock, Write, NotSending
  <1>4. /\ bcFlag'.connected = bcFlag.connected /\ bcFlag'.broken = bcFlag.broken
        /\ bcFlag'.closing = bcFlag.closing
    BY DEF CallsInv, CallTypes, FlagRecord, SendBlock, Write, NotSending
  <1>5. bcFlag' \in FlagRecord
    BY <1>1 DEF CallTypes
  <1> QED BY <1>1, <1>2, <1>3, <1>4, <1>5, SenderLeaves DEF CallsInv

LEMMA RcvEnterKeeps == ASSUME CallsInv, NEW call \in {"recv", "recvmsg", "recvfile"}, NEW need \in 1..MaxFile,
           RcvEnter(call, need) PROVE CallsInv'
  <1>1. CallTypes'
    BY BlockingCallsAssumption DEF CallsInv, CallTypes, SndRecord, RcvRecord, SndPcs, RcvPcs, rcvRest,
       RcvEnter
  <1>2. UNCHANGED rcvRest
    BY DEF RcvEnter
  <1>3. ReceiverHeard'
    BY DEF CallsInv, CallTypes, RcvRecord, ReceiverHeard, ClosingFirst, RcvTimed, Releasing, Up, Gone,
           rcvRest, RcvEnter
  <1>4. FileFinds'
    BY DEF CallsInv, CallTypes, RcvRecord, FileFinds, Up, Gone, rcvRest, RcvEnter
  <1>5. NobodyLeft'
    BY DEF CallsInv, CallTypes, RcvRecord, NobodyLeft, ClosingFirst, Up, Gone, rcvRest, RcvEnter
  <1> QED BY <1>1, <1>2, <1>3, <1>4, <1>5, ReceiverLeaves DEF CallsInv

LEMMA RcvLockKeeps == ASSUME CallsInv, RcvLock PROVE CallsInv'
  <1>1. CallTypes'
    BY BlockingCallsAssumption DEF CallsInv, CallTypes, SndRecord, RcvRecord, SndPcs, RcvPcs, rcvRest,
       RcvLock, At, NotReceiving
  <1>2. UNCHANGED rcvRest
    BY DEF RcvLock
  <1>3. ReceiverHeard'
    BY DEF CallsInv, CallTypes, RcvRecord, ReceiverHeard, ClosingFirst, RcvTimed, Releasing, Up, Gone,
           rcvRest, RcvLock, At, NotReceiving
  <1>4. FileFinds'
    BY DEF CallsInv, CallTypes, RcvRecord, FileFinds, Up, Gone, rcvRest, RcvLock, At, NotReceiving
  <1>5. NobodyLeft'
    BY DEF CallsInv, CallTypes, RcvRecord, NobodyLeft, ClosingFirst, Up, Gone, rcvRest, RcvLock, At,
       NotReceiving
  <1> QED BY <1>1, <1>2, <1>3, <1>4, <1>5, ReceiverLeaves DEF CallsInv

LEMMA RcvLockMsgKeeps == ASSUME CallsInv, RcvLockMsg PROVE CallsInv'
  <1>1. CallTypes'
    <2>1. bcRcv' = NotReceiving \/ bcRcv' = At(bcRcv, "wait") \/ bcRcv' = At(bcRcv, "test")
      BY DEF RcvLockMsg
    <2>2. bcRcv' \in RcvRecord
      <3>1. NotReceiving \in RcvRecord
        BY DEF NotReceiving, RcvRecord, RcvPcs, SndPcs
      <3>2. ASSUME NEW pc \in RcvPcs PROVE At(bcRcv, pc) \in RcvRecord
        BY DEF CallsInv, CallTypes, RcvRecord, At
      <3> QED BY <2>1, <3>1, <3>2 DEF RcvPcs, SndPcs
    <2>3. bcReady' \in Nat /\ bcEarly' \in Nat
      BY DEF CallsInv, CallTypes, FileFinds, RcvLockMsg, ReadMsg, At, NotReceiving
    <2> QED BY <2>2, <2>3 DEF CallsInv, CallTypes, rcvRest, RcvLockMsg, ReadMsg, At, NotReceiving
  <1>2. UNCHANGED rcvRest
    BY DEF RcvLockMsg
  <1>3. ReceiverHeard'
    BY DEF CallsInv, CallTypes, RcvRecord, ReceiverHeard, ClosingFirst, RcvTimed, Releasing, Up, Gone,
           rcvRest, RcvLockMsg, ReadMsg, At, NotReceiving
  <1>4. FileFinds'
    BY DEF CallsInv, CallTypes, RcvRecord, FileFinds, Up, Gone, rcvRest, RcvLockMsg, ReadMsg, At,
       NotReceiving
  <1>5. NobodyLeft'
    BY DEF CallsInv, CallTypes, RcvRecord, NobodyLeft, ClosingFirst, Up, Gone, rcvRest, RcvLockMsg,
       ReadMsg, At, NotReceiving
  <1> QED BY <1>1, <1>2, <1>3, <1>4, <1>5, ReceiverLeaves DEF CallsInv

LEMMA RcvTestKeeps == ASSUME CallsInv, RcvTest PROVE CallsInv'
  <1>1. CallTypes'
    BY BlockingCallsAssumption DEF CallsInv, CallTypes, SndRecord, RcvRecord, SndPcs, RcvPcs, rcvRest,
       RcvTest, At
  <1>2. UNCHANGED rcvRest
    BY DEF RcvTest
  <1>3. ReceiverHeard'
    BY DEF CallsInv, CallTypes, RcvRecord, ReceiverHeard, ClosingFirst, RcvTimed, Releasing, Up, Gone,
           rcvRest, RcvTest, At
  <1>4. FileFinds'
    BY DEF CallsInv, CallTypes, RcvRecord, FileFinds, Up, Gone, rcvRest, RcvTest, At
  <1>5. NobodyLeft'
    BY DEF CallsInv, CallTypes, RcvRecord, NobodyLeft, ClosingFirst, Up, Gone, rcvRest, RcvTest, At
  <1> QED BY <1>1, <1>2, <1>3, <1>4, <1>5, ReceiverLeaves DEF CallsInv

LEMMA RcvTestMsgKeeps == ASSUME CallsInv, RcvTestMsg PROVE CallsInv'
  <1>1. CallTypes'
    <2>1. bcRcv' \in RcvRecord
      BY DEF CallsInv, CallTypes, RcvRecord, SndPcs, RcvPcs, RcvTestMsg, ReadMsg, AnyToRead, At
    <2>2. bcReady' \in Nat /\ bcEarly' \in Nat
      BY DEF CallsInv, CallTypes, FileFinds, RcvTestMsg, ReadMsg, AnyToRead, At
    <2> QED BY <2>1, <2>2 DEF CallsInv, CallTypes, rcvRest, RcvTestMsg, ReadMsg, AnyToRead, At
  <1>2. UNCHANGED rcvRest
    BY DEF RcvTestMsg
  <1>3. ReceiverHeard'
    <2>1. CASE Up /\ AnyToRead
      <3>1. bcRcv'.pc = "check" /\ bcRcv'.call = bcRcv.call
        BY <2>1 DEF CallsInv, CallTypes, RcvRecord, RcvTestMsg
      <3> QED BY <3>1 DEF CallsInv, ReceiverHeard, RcvTestMsg, rcvRest
    <2>2. CASE ~(Up /\ AnyToRead)
      <3>1. bcRcv'.pc = (IF Up THEN "asleep" ELSE "check") /\ bcRcv'.call = bcRcv.call
        BY <2>2 DEF CallsInv, CallTypes, RcvRecord, RcvTestMsg, At
      <3>2. Up => ~(bcReady > 0)
        BY <2>2 DEF CallsInv, CallTypes, AnyToRead
      <3>3. UNCHANGED <<bcReady, bcEarly>> /\ (Up <=> Up')
        BY <2>2 DEF RcvTestMsg, rcvRest, Up, Gone
      <3> QED BY <3>1, <3>2, <3>3 DEF CallsInv, ReceiverHeard, RcvTestMsg, rcvRest
    <2> QED BY <2>1, <2>2
  <1>4. FileFinds'
    BY DEF CallsInv, CallTypes, RcvRecord, FileFinds, Up, Gone, rcvRest, RcvTestMsg, ReadMsg, AnyToRead, At
  <1>5. NobodyLeft'
    BY DEF CallsInv, CallTypes, RcvRecord, NobodyLeft, ClosingFirst, Up, Gone, rcvRest, RcvTestMsg,
       ReadMsg, AnyToRead, At
  <1> QED BY <1>1, <1>2, <1>3, <1>4, <1>5, ReceiverLeaves DEF CallsInv

LEMMA RcvWaitKeeps == ASSUME CallsInv, RcvWait PROVE CallsInv'
  <1>1. CallTypes'
    BY BlockingCallsAssumption DEF CallsInv, CallTypes, SndRecord, RcvRecord, SndPcs, RcvPcs, rcvRest,
       RcvWait, At
  <1>2. UNCHANGED rcvRest
    BY DEF RcvWait
  <1>3. ReceiverHeard'
    BY DEF CallsInv, CallTypes, RcvRecord, ReceiverHeard, ClosingFirst, RcvTimed, Releasing, Up, Gone,
           rcvRest, RcvWait, At
  <1>4. FileFinds'
    BY DEF CallsInv, CallTypes, RcvRecord, FileFinds, Up, Gone, rcvRest, RcvWait, At
  <1>5. NobodyLeft'
    BY DEF CallsInv, CallTypes, RcvRecord, NobodyLeft, ClosingFirst, Up, Gone, rcvRest, RcvWait, At
  <1> QED BY <1>1, <1>2, <1>3, <1>4, <1>5, ReceiverLeaves DEF CallsInv

LEMMA RcvTimeoutKeeps == ASSUME CallsInv, RcvTimeout PROVE CallsInv'
  <1>1. CallTypes'
    <2>1. bcRcv' \in RcvRecord
      BY DEF CallsInv, CallTypes, RcvRecord, SndPcs, RcvPcs, RcvTimeout
    <2>2. bcReady' \in Nat /\ bcEarly' \in Nat
      BY DEF CallsInv, CallTypes, FileFinds, RcvTimeout
    <2> QED BY <2>1, <2>2 DEF CallsInv, CallTypes, rcvRest, RcvTimeout
  <1>2. UNCHANGED rcvRest
    BY DEF RcvTimeout
  <1>3. ReceiverHeard'
    BY DEF CallsInv, CallTypes, RcvRecord, ReceiverHeard, ClosingFirst, RcvTimed, Releasing, Up, Gone,
           rcvRest, RcvTimeout
  <1>4. FileFinds'
    <2>1. bcRcv'.call = bcRcv.call /\ bcRcv.call # "recvfile"
      BY DEF CallsInv, CallTypes, RcvRecord, RcvTimed, RcvTimeout
    <2> QED BY <2>1 DEF FileFinds
  <1>5. NobodyLeft'
    BY DEF CallsInv, CallTypes, RcvRecord, NobodyLeft, ClosingFirst, Up, Gone, rcvRest, RcvTimeout
  <1> QED BY <1>1, <1>2, <1>3, <1>4, <1>5, ReceiverLeaves DEF CallsInv

LEMMA RcvReadMsgKeeps == ASSUME CallsInv, RcvReadMsg PROVE CallsInv'
  <1>1. CallTypes'
    <2>1. bcRcv' \in RcvRecord
      BY DEF CallsInv, CallTypes, RcvRecord, SndPcs, RcvPcs, RcvReadMsg, ReadMsg
    <2>2. bcReady' \in Nat /\ bcEarly' \in Nat
      BY DEF CallsInv, CallTypes, FileFinds, RcvReadMsg, ReadMsg
    <2> QED BY <2>1, <2>2 DEF CallsInv, CallTypes, rcvRest, RcvReadMsg, ReadMsg
  <1>2. UNCHANGED rcvRest
    BY DEF RcvReadMsg
  <1>3. ReceiverHeard'
    BY DEF CallsInv, CallTypes, RcvRecord, ReceiverHeard, ClosingFirst, RcvTimed, Releasing, Up, Gone,
           rcvRest, RcvReadMsg, ReadMsg
  <1>4. FileFinds'
    <2>1. bcRcv'.call = bcRcv.call /\ bcRcv.call = "recvmsg"
      BY DEF CallsInv, CallTypes, RcvRecord, ReceiverHeard, RcvReadMsg
    <2> QED BY <2>1 DEF FileFinds
  <1>5. NobodyLeft'
    BY DEF CallsInv, CallTypes, RcvRecord, NobodyLeft, ClosingFirst, Up, Gone, rcvRest, RcvReadMsg, ReadMsg
  <1> QED BY <1>1, <1>2, <1>3, <1>4, <1>5, ReceiverLeaves DEF CallsInv

LEMMA RcvCheckKeeps == ASSUME CallsInv, RcvCheck PROVE CallsInv'
  <1>1. CallTypes'
    BY BlockingCallsAssumption DEF CallsInv, CallTypes, SndRecord, RcvRecord, SndPcs, RcvPcs, rcvRest,
       RcvCheck, At, NotReceiving
  <1>2. UNCHANGED rcvRest
    BY DEF RcvCheck
  <1>3. ReceiverHeard'
    BY DEF CallsInv, CallTypes, RcvRecord, ReceiverHeard, ClosingFirst, RcvTimed, Releasing, Up, Gone,
           rcvRest, RcvCheck, At, NotReceiving
  <1>4. FileFinds'
    BY DEF CallsInv, CallTypes, RcvRecord, FileFinds, Up, Gone, rcvRest, RcvCheck, At, NotReceiving
  <1>5. NobodyLeft'
    BY DEF CallsInv, CallTypes, RcvRecord, NobodyLeft, ClosingFirst, Up, Gone, rcvRest, RcvCheck, At,
       NotReceiving
  <1> QED BY <1>1, <1>2, <1>3, <1>4, <1>5, ReceiverLeaves DEF CallsInv

LEMMA RecvDataKeeps == ASSUME CallsInv, RecvData PROVE CallsInv'
  <1>1. CallTypes'
    BY BlockingCallsAssumption DEF CallsInv, CallTypes, SndRecord, RcvRecord, SndPcs, RcvPcs, rcvRest,
       RecvData, NotReceiving
  <1>2. UNCHANGED rcvRest
    BY DEF RecvData
  <1>3. ReceiverHeard'
    BY DEF CallsInv, CallTypes, RcvRecord, ReceiverHeard, ClosingFirst, RcvTimed, Releasing, Up, Gone,
           rcvRest, RecvData, NotReceiving
  <1>4. FileFinds'
    BY DEF CallsInv, CallTypes, RcvRecord, FileFinds, Up, Gone, rcvRest, RecvData, NotReceiving
  <1>5. NobodyLeft'
    BY DEF CallsInv, CallTypes, RcvRecord, NobodyLeft, ClosingFirst, Up, Gone, rcvRest, RecvData,
       NotReceiving
  <1> QED BY <1>1, <1>2, <1>3, <1>4, <1>5, ReceiverLeaves DEF CallsInv

LEMMA RecvBlockKeeps == ASSUME CallsInv, RecvBlock PROVE CallsInv'
  <1>1. CallTypes'
    <2>1. bcRcv' \in RcvRecord
      <3>1. NotReceiving \in RcvRecord
        BY DEF NotReceiving, RcvRecord, RcvPcs, SndPcs
      <3>2. bcRcv.need \in Nat /\ (bcRcv.need > 1 => bcRcv.need - 1 \in Nat)
        BY DEF CallsInv, CallTypes, RcvRecord
      <3>3. ASSUME NEW n \in Nat PROVE [bcRcv EXCEPT !.pc = "test", !.need = n] \in RcvRecord
        BY DEF CallsInv, CallTypes, RcvRecord, RcvPcs, SndPcs
      <3>4. [bcRcv EXCEPT !.pc = "test", !.need = @ - 1] = [bcRcv EXCEPT !.pc = "test", !.need = bcRcv.need - 1]
        BY DEF CallsInv, CallTypes, RcvRecord
      <3>5. bcRcv' = IF bcRcv.need > 1 THEN [bcRcv EXCEPT !.pc = "test", !.need = @ - 1] ELSE NotReceiving
        BY DEF RecvBlock
      <3> QED BY <3>1, <3>2, <3>3, <3>4, <3>5
    <2>2. bcReady' \in Nat /\ bcEarly' \in Nat
      BY DEF CallsInv, CallTypes, FileFinds, RecvBlock, NotReceiving
    <2> QED BY <2>1, <2>2 DEF CallsInv, CallTypes, rcvRest, RecvBlock, NotReceiving
  <1>2. UNCHANGED rcvRest
    BY DEF RecvBlock
  <1>3. ReceiverHeard'
    BY DEF CallsInv, CallTypes, RcvRecord, ReceiverHeard, ClosingFirst, RcvTimed, Releasing, Up, Gone,
           rcvRest, RecvBlock, NotReceiving
  <1>4. FileFinds'
    BY DEF CallsInv, CallTypes, RcvRecord, FileFinds, Up, Gone, rcvRest, RecvBlock, NotReceiving
  <1>5. NobodyLeft'
    BY DEF CallsInv, CallTypes, RcvRecord, NobodyLeft, ClosingFirst, Up, Gone, rcvRest, RecvBlock,
       NotReceiving
  <1> QED BY <1>1, <1>2, <1>3, <1>4, <1>5, ReceiverLeaves DEF CallsInv

LEMMA RcvCheckMsgKeeps == ASSUME CallsInv, RcvCheckMsg PROVE CallsInv'
  <1>1. CallTypes'
    BY BlockingCallsAssumption DEF CallsInv, CallTypes, SndRecord, RcvRecord, SndPcs, RcvPcs, rcvRest,
       RcvCheckMsg, At, NotReceiving
  <1>2. UNCHANGED rcvRest
    BY DEF RcvCheckMsg
  <1>3. ReceiverHeard'
    BY DEF CallsInv, CallTypes, RcvRecord, ReceiverHeard, ClosingFirst, RcvTimed, Releasing, Up, Gone,
           rcvRest, RcvCheckMsg, At, NotReceiving
  <1>4. FileFinds'
    BY DEF CallsInv, CallTypes, RcvRecord, FileFinds, Up, Gone, rcvRest, RcvCheckMsg, At, NotReceiving
  <1>5. NobodyLeft'
    BY DEF CallsInv, CallTypes, RcvRecord, NobodyLeft, ClosingFirst, Up, Gone, rcvRest, RcvCheckMsg, At,
       NotReceiving
  <1> QED BY <1>1, <1>2, <1>3, <1>4, <1>5, ReceiverLeaves DEF CallsInv

LEMMA AckSndKeeps == ASSUME CallsInv, AckSnd PROVE CallsInv'
  <1>1. CallTypes'
    BY BlockingCallsAssumption DEF CallsInv, CallTypes, SndRecord, RcvRecord, SndPcs, RcvPcs, ReleasePcs,
       AckSnd, rqRest
  <1>2. ClosingFirst'
    BY DEF CallsInv, CallTypes, FlagRecord, ClosingFirst, AckSnd, rqRest
  <1>3. SenderHeard'
    BY DEF CallsInv, CallTypes, FlagRecord, SndRecord, SenderHeard, ClosingFirst, Up, Gone, Short, AckSnd,
       rqRest
  <1>4. ReceiverHeard'
    BY DEF CallsInv, CallTypes, FlagRecord, RcvRecord, ReceiverHeard, ClosingFirst, RcvTimed, Releasing,
           Up, Gone, AckSnd, rqRest
  <1>5. FileFinds'
    BY DEF CallsInv, CallTypes, FlagRecord, RcvRecord, FileFinds, Up, Gone, AckSnd, rqRest
  <1>6. NobodyLeft'
    BY DEF CallsInv, CallTypes, FlagRecord, SndRecord, RcvRecord, NobodyLeft, ClosingFirst, Up, Gone,
       AckSnd, rqRest
  <1> QED BY <1>1, <1>2, <1>3, <1>4, <1>5, <1>6 DEF CallsInv

LEMMA SignalSndKeeps == ASSUME CallsInv, SignalSnd PROVE CallsInv'
  <1>1. CallTypes'
    BY BlockingCallsAssumption DEF CallsInv, CallTypes, SndRecord, RcvRecord, SndPcs, RcvPcs, ReleasePcs,
       SignalSnd, rqRest, SndWoken, At
  <1>2. ClosingFirst'
    BY DEF CallsInv, CallTypes, FlagRecord, ClosingFirst, SignalSnd, rqRest, SndWoken, At
  <1>3. SenderHeard'
    BY DEF CallsInv, CallTypes, FlagRecord, SndRecord, SenderHeard, ClosingFirst, Up, Gone, Short,
       SignalSnd, rqRest, SndWoken, At
  <1>4. ReceiverHeard'
    BY DEF CallsInv, CallTypes, FlagRecord, RcvRecord, ReceiverHeard, ClosingFirst, RcvTimed, Releasing,
           Up, Gone, SignalSnd, rqRest, SndWoken, At
  <1>5. FileFinds'
    BY DEF CallsInv, CallTypes, FlagRecord, RcvRecord, FileFinds, Up, Gone, SignalSnd, rqRest, SndWoken, At
  <1>6. NobodyLeft'
    BY DEF CallsInv, CallTypes, FlagRecord, SndRecord, RcvRecord, NobodyLeft, ClosingFirst, Up, Gone,
       SignalSnd, rqRest, SndWoken, At
  <1> QED BY <1>1, <1>2, <1>3, <1>4, <1>5, <1>6 DEF CallsInv

LEMMA AckRcvKeeps == ASSUME CallsInv, AckRcv PROVE CallsInv'
  <1>1. CallTypes'
    BY BlockingCallsAssumption DEF CallsInv, CallTypes, SndRecord, RcvRecord, SndPcs, RcvPcs, ReleasePcs,
       AckRcv, rqRest
  <1>2. ClosingFirst'
    BY DEF CallsInv, CallTypes, FlagRecord, ClosingFirst, AckRcv, rqRest
  <1>3. SenderHeard'
    BY DEF CallsInv, CallTypes, FlagRecord, SndRecord, SenderHeard, ClosingFirst, Up, Gone, Short, AckRcv,
       rqRest
  <1>4. ReceiverHeard'
    BY DEF CallsInv, CallTypes, FlagRecord, RcvRecord, ReceiverHeard, ClosingFirst, RcvTimed, Releasing,
           Up, Gone, AckRcv, rqRest
  <1>5. FileFinds'
    BY DEF CallsInv, CallTypes, FlagRecord, RcvRecord, FileFinds, Up, Gone, AckRcv, rqRest
  <1>6. NobodyLeft'
    BY DEF CallsInv, CallTypes, FlagRecord, SndRecord, RcvRecord, NobodyLeft, ClosingFirst, Up, Gone,
       AckRcv, rqRest
  <1> QED BY <1>1, <1>2, <1>3, <1>4, <1>5, <1>6 DEF CallsInv

LEMMA SignalRcvKeeps == ASSUME CallsInv, SignalRcv PROVE CallsInv'
  <1>1. CallTypes'
    BY BlockingCallsAssumption DEF CallsInv, CallTypes, SndRecord, RcvRecord, SndPcs, RcvPcs, ReleasePcs,
       SignalRcv, rqRest, RcvWoken, At
  <1>2. ClosingFirst'
    BY DEF CallsInv, CallTypes, FlagRecord, ClosingFirst, SignalRcv, rqRest, RcvWoken, At
  <1>3. SenderHeard'
    BY DEF CallsInv, CallTypes, FlagRecord, SndRecord, SenderHeard, ClosingFirst, Up, Gone, Short,
       SignalRcv, rqRest, RcvWoken, At
  <1>4. ReceiverHeard'
    BY DEF CallsInv, CallTypes, FlagRecord, RcvRecord, ReceiverHeard, ClosingFirst, RcvTimed, Releasing,
           Up, Gone, SignalRcv, rqRest, RcvWoken, At
  <1>5. FileFinds'
    BY DEF CallsInv, CallTypes, FlagRecord, RcvRecord, FileFinds, Up, Gone, SignalRcv, rqRest, RcvWoken, At
  <1>6. NobodyLeft'
    BY DEF CallsInv, CallTypes, FlagRecord, SndRecord, RcvRecord, NobodyLeft, ClosingFirst, Up, Gone,
       SignalRcv, rqRest, RcvWoken, At
  <1> QED BY <1>1, <1>2, <1>3, <1>4, <1>5, <1>6 DEF CallsInv

LEMMA EarlyMsgKeeps == ASSUME CallsInv, EarlyMsg PROVE CallsInv'
  <1>1. CallTypes'
    BY BlockingCallsAssumption DEF CallsInv, CallTypes, SndRecord, RcvRecord, SndPcs, RcvPcs, ReleasePcs,
       EarlyMsg, rqRest
  <1>2. ClosingFirst'
    BY DEF CallsInv, CallTypes, FlagRecord, ClosingFirst, EarlyMsg, rqRest
  <1>3. SenderHeard'
    BY DEF CallsInv, CallTypes, FlagRecord, SndRecord, SenderHeard, ClosingFirst, Up, Gone, Short,
       EarlyMsg, rqRest
  <1>4. ReceiverHeard'
    BY DEF CallsInv, CallTypes, FlagRecord, RcvRecord, ReceiverHeard, ClosingFirst, RcvTimed, Releasing,
           Up, Gone, EarlyMsg, rqRest
  <1>5. FileFinds'
    BY DEF CallsInv, CallTypes, FlagRecord, RcvRecord, FileFinds, Up, Gone, EarlyMsg, rqRest
  <1>6. NobodyLeft'
    BY DEF CallsInv, CallTypes, FlagRecord, SndRecord, RcvRecord, NobodyLeft, ClosingFirst, Up, Gone,
       EarlyMsg, rqRest
  <1> QED BY <1>1, <1>2, <1>3, <1>4, <1>5, <1>6 DEF CallsInv

LEMMA PeerErrorKeeps == ASSUME CallsInv, PeerError PROVE CallsInv'
  <1>1. CallTypes'
    BY FlagChanges DEF CallsInv, CallTypes, ReleasePcs, PeerError, rqRest
  <1>2. ClosingFirst'
    BY DEF CallsInv, CallTypes, FlagRecord, ClosingFirst, PeerError, rqRest
  <1>3. SenderHeard'
    BY DEF CallsInv, CallTypes, FlagRecord, SndRecord, SenderHeard, ClosingFirst, Up, Gone, Short,
       PeerError, rqRest
  <1>4. ReceiverHeard'
    BY DEF CallsInv, CallTypes, FlagRecord, RcvRecord, ReceiverHeard, ClosingFirst, RcvTimed, Releasing,
           Up, Gone, PeerError, rqRest
  <1>5. FileFinds'
    BY DEF CallsInv, CallTypes, FlagRecord, RcvRecord, FileFinds, Up, Gone, PeerError, rqRest
  <1>6. NobodyLeft'
    BY DEF CallsInv, CallTypes, FlagRecord, SndRecord, RcvRecord, NobodyLeft, ClosingFirst, Up, Gone,
       PeerError, rqRest
  <1> QED BY <1>1, <1>2, <1>3, <1>4, <1>5, <1>6 DEF CallsInv

LEMMA ShutdownKeeps == ASSUME CallsInv, Shutdown PROVE CallsInv'
  <1>1. CallTypes'
    BY FlagChanges DEF CallsInv, CallTypes, ReleasePcs, Shutdown, rqRest
  <1>2. ClosingFirst'
    BY DEF CallsInv, CallTypes, FlagRecord, ClosingFirst, Shutdown, rqRest
  <1>3. SenderHeard'
    BY DEF CallsInv, CallTypes, FlagRecord, SndRecord, SenderHeard, ClosingFirst, Up, Gone, Short,
       Shutdown, rqRest
  <1>4. ReceiverHeard'
    BY DEF CallsInv, CallTypes, FlagRecord, RcvRecord, ReceiverHeard, ClosingFirst, RcvTimed, Releasing,
           Up, Gone, Shutdown, rqRest
  <1>5. FileFinds'
    BY DEF CallsInv, CallTypes, FlagRecord, RcvRecord, FileFinds, Up, Gone, Shutdown, rqRest
  <1>6. NobodyLeft'
    BY DEF CallsInv, CallTypes, FlagRecord, SndRecord, RcvRecord, NobodyLeft, ClosingFirst, Up, Gone,
       Shutdown, rqRest
  <1> QED BY <1>1, <1>2, <1>3, <1>4, <1>5, <1>6 DEF CallsInv

LEMMA RqReleasesKeeps == ASSUME CallsInv, RqReleases PROVE CallsInv'
  <1>1. CallTypes'
    BY BlockingCallsAssumption DEF CallsInv, CallTypes, SndRecord, RcvRecord, SndPcs, RcvPcs, ReleasePcs,
       RqReleases, Release, SndWoken, RcvWoken, SndFree, RcvFree, At
  <1>2. ClosingFirst'
    BY DEF CallsInv, CallTypes, FlagRecord, ClosingFirst, RqReleases, Release, SndWoken, RcvWoken,
       SndFree, RcvFree, At
  <1>3. SenderHeard'
    BY DEF CallsInv, CallTypes, FlagRecord, SndRecord, SenderHeard, ClosingFirst, Up, Gone, Short,
       RqReleases, Release, SndWoken, RcvWoken, SndFree, RcvFree, At
  <1>4. ReceiverHeard'
    BY DEF CallsInv, CallTypes, FlagRecord, RcvRecord, ReceiverHeard, ClosingFirst, RcvTimed, Releasing,
           Up, Gone, RqReleases, Release, SndWoken, RcvWoken, SndFree, RcvFree, At
  <1>5. FileFinds'
    BY DEF CallsInv, CallTypes, FlagRecord, RcvRecord, FileFinds, Up, Gone, RqReleases, Release, SndWoken,
       RcvWoken, SndFree, RcvFree, At
  <1>6. NobodyLeft'
    BY DEF CallsInv, CallTypes, FlagRecord, SndRecord, RcvRecord, NobodyLeft, ClosingFirst, Up, Gone,
       RqReleases, Release, SndWoken, RcvWoken, SndFree, RcvFree, At
  <1> QED BY <1>1, <1>2, <1>3, <1>4, <1>5, <1>6 DEF CallsInv

LEMMA CloseKeeps == ASSUME CallsInv, Close PROVE CallsInv'
  <1>1. CallTypes'
    BY FlagChanges DEF CallsInv, CallTypes, ReleasePcs, Close
  <1>2. ClosingFirst'
    BY DEF CallsInv, CallTypes, FlagRecord, ClosingFirst, Close
  <1>3. SenderHeard'
    BY DEF CallsInv, CallTypes, FlagRecord, SndRecord, SenderHeard, ClosingFirst, Up, Gone, Short, Close
  <1>4. ReceiverHeard'
    BY DEF CallsInv, CallTypes, FlagRecord, RcvRecord, ReceiverHeard, ClosingFirst, RcvTimed, Releasing,
           Up, Gone, Close
  <1>5. FileFinds'
    BY DEF CallsInv, CallTypes, FlagRecord, RcvRecord, FileFinds, Up, Gone, Close
  <1>6. NobodyLeft'
    BY DEF CallsInv, CallTypes, FlagRecord, SndRecord, RcvRecord, NobodyLeft, ClosingFirst, Up, Gone, Close
  <1> QED BY <1>1, <1>2, <1>3, <1>4, <1>5, <1>6 DEF CallsInv

LEMMA CloserReleasesKeeps == ASSUME CallsInv, CloserReleases PROVE CallsInv'
  <1>1. CallTypes'
    <2>1. bcFlag' \in FlagRecord
      BY FlagChanges DEF CallsInv, CallTypes, CloserReleases
    <2>2. bcSnd' \in SndRecord /\ bcRcv' \in RcvRecord
      BY DEF CallsInv, CallTypes, SndRecord, RcvRecord, SndPcs, RcvPcs, CloserReleases, Release, SndWoken,
             RcvWoken, At
    <2> QED BY <2>1, <2>2 DEF CallsInv, CallTypes, ReleasePcs, CloserReleases, Release
  <1>2. ClosingFirst'
    BY DEF CallsInv, CallTypes, FlagRecord, ClosingFirst, CloserReleases, Release, SndWoken, RcvWoken,
       SndFree, RcvFree, At
  <1>3. SenderHeard'
    BY DEF CallsInv, CallTypes, FlagRecord, SndRecord, SenderHeard, ClosingFirst, Up, Gone, Short,
       CloserReleases, Release, SndWoken, RcvWoken, SndFree, RcvFree, At
  <1>4. ReceiverHeard'
    BY DEF CallsInv, CallTypes, FlagRecord, RcvRecord, ReceiverHeard, ClosingFirst, RcvTimed, Releasing,
           Up, Gone, CloserReleases, Release, SndWoken, RcvWoken, SndFree, RcvFree, At
  <1>5. FileFinds'
    BY DEF CallsInv, CallTypes, FlagRecord, RcvRecord, FileFinds, Up, Gone, CloserReleases, Release,
       SndWoken, RcvWoken, SndFree, RcvFree, At
  <1>6. NobodyLeft'
    BY DEF CallsInv, CallTypes, FlagRecord, SndRecord, RcvRecord, NobodyLeft, ClosingFirst, Up, Gone,
       CloserReleases, Release, SndWoken, RcvWoken, SndFree, RcvFree, At
  <1> QED BY <1>1, <1>2, <1>3, <1>4, <1>5, <1>6 DEF CallsInv

LEMMA CloseDoneKeeps == ASSUME CallsInv, CloseDone PROVE CallsInv'
  <1>1. CallTypes'
    BY BlockingCallsAssumption DEF CallsInv, CallTypes, SndRecord, RcvRecord, SndPcs, RcvPcs, ReleasePcs,
       CloseDone, SndFree, RcvFree
  <1>2. ClosingFirst'
    BY DEF CallsInv, CallTypes, FlagRecord, ClosingFirst, CloseDone, SndFree, RcvFree
  <1>3. SenderHeard'
    BY DEF CallsInv, CallTypes, FlagRecord, SndRecord, SenderHeard, ClosingFirst, Up, Gone, Short,
       CloseDone, SndFree, RcvFree
  <1>4. ReceiverHeard'
    BY DEF CallsInv, CallTypes, FlagRecord, RcvRecord, ReceiverHeard, ClosingFirst, RcvTimed, Releasing,
           Up, Gone, CloseDone, SndFree, RcvFree
  <1>5. FileFinds'
    BY DEF CallsInv, CallTypes, FlagRecord, RcvRecord, FileFinds, Up, Gone, CloseDone, SndFree, RcvFree
  <1>6. NobodyLeft'
    BY DEF CallsInv, CallTypes, FlagRecord, SndRecord, RcvRecord, NobodyLeft, ClosingFirst, Up, Gone,
       CloseDone, SndFree, RcvFree
  <1> QED BY <1>1, <1>2, <1>3, <1>4, <1>5, <1>6 DEF CallsInv

LEMMA CallsStep == ASSUME CallsInv, CallsNext PROVE CallsInv'
  <1>1. CASE SndNext
    BY <1>1, SndEnterKeeps, SndLockKeeps, SndTestKeeps, SndTimeoutKeeps, SndCheckKeeps, SendDataKeeps,
       SendMessageKeeps, SendBlockKeeps, Zenon DEF SndNext
  <1>2. CASE RcvNext
    BY <1>2, RcvEnterKeeps, RcvLockKeeps, RcvLockMsgKeeps, RcvTestKeeps, RcvTestMsgKeeps, RcvWaitKeeps,
       RcvTimeoutKeeps, RcvReadMsgKeeps, RcvCheckKeeps, RecvDataKeeps, RecvBlockKeeps, RcvCheckMsgKeeps, Zenon
    DEF RcvNext
  <1>3. CASE AcksSndNext \/ AcksRcvNext
    BY <1>3, AckSndKeeps, SignalSndKeeps, PeerErrorKeeps, AckRcvKeeps, SignalRcvKeeps, EarlyMsgKeeps, Zenon
    DEF AcksSndNext, AcksRcvNext
  <1>4. CASE EndNext
    BY <1>4, ShutdownKeeps, RqReleasesKeeps, CloseKeeps, CloserReleasesKeeps, CloseDoneKeeps, Zenon
       DEF EndNext
  <1> QED BY <1>1, <1>2, <1>3, <1>4 DEF CallsNext

LEMMA CallsStart == ASSUME CallsInit PROVE CallsInv
  <1>1. bcSnd = NotSending /\ bcRcv = NotReceiving /\ NotSending \in SndRecord /\ NotReceiving \in RcvRecord
        /\ NotSending.pc = "idle" /\ NotReceiving.pc = "idle"
    BY DEF CallsInit, NotSending, NotReceiving, SndRecord, RcvRecord, SndPcs, RcvPcs
  <1>2. bcFlag.connected /\ bcCloser = "idle" /\ bcFlag \in FlagRecord
    BY DEF CallsInit, FlagRecord
  <1>3. CallTypes
    BY <1>1, <1>2, BlockingCallsAssumption DEF CallsInit, CallTypes
  <1>4. ClosingFirst /\ SenderHeard /\ ReceiverHeard /\ FileFinds /\ NobodyLeft
    BY <1>1, <1>2 DEF ClosingFirst, SenderHeard, ReceiverHeard, FileFinds, NobodyLeft
  <1> QED BY <1>3, <1>4 DEF CallsInv

LEMMA CallsInvSound == CallsInv => NobodySleepsOn /\ CloseWaits
  <1> SUFFICES ASSUME CallsInv PROVE NobodySleepsOn /\ CloseWaits
    OBVIOUS
  <1>1. SndOwed /\ ~SndDue => Up /\ (~bcFlag.health \/ (bcSnd.call = "sendfile" /\ ~bcOpt.snd))
    BY DEF CallsInv, SenderHeard, SndOwed, SndDue, SndMustWait
  <1>2. ASSUME RcvOwed, ~RcvDue
        PROVE  Up /\ IF bcRcv.call = "recvmsg" THEN bcReady = 0 ELSE bcRcv.call = "recvfile" /\ ~bcOpt.rcv
    BY <1>2 DEF CallsInv, CallTypes, ReceiverHeard, RcvOwed, RcvDue
  <1>3. CloseWaits
    BY DEF CallsInv, NobodyLeft, CloseWaits
  <1> QED BY <1>1, <1>2, <1>3 DEF NobodySleepsOn

\* Nobody sleeps through what he waits for: the send-queue thread an update or its
\* destruction (CSndUList::update, ~CSndQueue), the calls that block room, data or the end of
\* the connection (releaseSynch, close); the handshakes stored for connects are in order.
THEOREM NobodyOversleeps == PartsSpec => []SleepersWake
  <1> DEFINE Inv == /\ subject = "sndQueue" => NoLostWakeup
                    /\ subject \in {"sending", "receiving"} => CallsInv
                    /\ subject = "passing" => PassInv
  <1>1. PartsInit => Inv
    <2> SUFFICES ASSUME PartsInit PROVE Inv
      OBVIOUS
    <2>1. subject = "sndQueue" => NoLostWakeup
      BY DEF PartsInit, SndQueueInit, NoLostWakeup
    <2>2. subject \in {"sending", "receiving"} => CallsInv
      BY CallsStart DEF PartsInit
    <2>3. subject = "passing" => PassInv
      BY PassStart DEF PartsInit
    <2> QED BY <2>1, <2>2, <2>3
  <1>2. Inv /\ [PartsNext]_allVars => Inv'
    <2> SUFFICES ASSUME Inv, [PartsNext]_allVars PROVE Inv'
      OBVIOUS
    <2>1. ASSUME subject' = "sndQueue" PROVE NoLostWakeup'
      <3>1. subject = "sndQueue" /\ (SndQueueNext \/ UNCHANGED sndQueueVars)
        BY <2>1 DEF PartsNext, StepOf, allVars
      <3> QED BY <3>1, WakeupStep DEF NoLostWakeup, sndQueueVars
    <2>2. ASSUME subject' \in {"sending", "receiving"} PROVE CallsInv'
      <3>1. subject \in {"sending", "receiving"} /\ (SendingNext \/ ReceivingNext \/ UNCHANGED callVars)
        BY <2>2 DEF PartsNext, StepOf, allVars
      <3>2. CASE UNCHANGED callVars
        BY <3>1, <3>2 DEF callVars, CallsInv, CallTypes, ClosingFirst, SenderHeard, ReceiverHeard,
           FileFinds,
                          NobodyLeft, Up, Gone, Short, RcvTimed
      <3> QED BY <3>1, <3>2, CallsStep DEF SendingNext, ReceivingNext, CallsNext
    <2>3. ASSUME subject' = "passing" PROVE PassInv'
      <3>1. subject = "passing" /\ (PassNext \/ UNCHANGED passVars)
        BY <2>3 DEF PartsNext, StepOf, allVars
      <3> QED BY <3>1, PassStep, PassRests DEF passVars
    <2> QED BY <2>1, <2>2, <2>3
  <1>3. Inv => SleepersWake
    BY CallsInvSound DEF SleepersWake, Of, PassInv
  <1> QED BY <1>1, <1>2, <1>3, PTL DEF PartsSpec

-----------------------------------------------------------------------------
(* The rate and the pace.                                                  *)

CcRecord ==
    [period : Nat, cwnd : Nat, slow : BOOLEAN, lastAck : Nat, loss : BOOLEAN, lastDecSeq : Int,
     decPeriod : Nat, naks : Nat, avg : Nat, random : Nat \ {0}, decs : Nat, rate : Nat \ {0},
     bandwidth : Nat \ {0}, sent : Nat]

\* A period after n decreases, of which five count.
SlowedBy(n, period) ==
    LET one == Slower(period)
        two == Slower(one)
        three == Slower(two)
        four == Slower(three)
    IN IF n = 1 THEN one ELSE IF n = 2 THEN two ELSE IF n = 3 THEN three ELSE IF n = 4 THEN four
       ELSE Slower(four)

Longest(c) == AtLeast(c.decPeriod, MinPeriod)

\* What the rate control keeps, where a is the last data acknowledged: the window counts from
\* an ACK that is not newer; before the first decrease every loss is new; after it slow start
\* is over, and the period no longer than the decreases of the congestion period make it.
CcGood(c, a) ==
    /\ c \in CcRecord /\ c.cwnd >= FirstCwnd /\ c.lastAck <= a
    /\ c.decs = 0 => c.lastDecSeq = -1
    /\ c.decs >= 1 => ~c.slow /\ c.period <= SlowedBy(c.decs, Longest(c))

CongestionInv == ccAcked \in Nat /\ CcGood(cc, ccAcked)

\* How long before its time packData may be called.
PaceEarly ==
    IF paceAt < pace.target /\ paceNow < pace.target THEN pace.target - paceNow ELSE 0

\* A row of packets is on the list for its time or, hastened, for at once; what it was
\* hurried covers the time by which the next packet may come early.
PaceTypes ==
    /\ pace \in [target : Nat, diff : Nat] /\ paceAt \in Nat
    /\ paceDue \in Int /\ paceHurry \in Nat /\ paceNow \in Nat \ {0} /\ paceSkips \in Nat

PaceInv ==
    /\ PaceTypes
    /\ pace.target = 0 => pace.diff = 0 /\ paceHurry = 0
    /\ paceAt \in {0, 1, pace.target}
    /\ pace.target # 0 /\ paceSkips = 0 =>
          /\ paceAt # 0 /\ pace.target - pace.diff <= paceDue
          /\ paceDue - paceHurry <= pace.target - pace.diff - PaceEarly

LEMMA SlowerGrows == ASSUME NEW p \in Nat PROVE Slower(p) \in Nat /\ Slower(p) >= p
  BY DEF Slower, UpDiv

LEMMA SlowerMonotone == ASSUME NEW p \in Nat, NEW q \in Nat, p <= q PROVE Slower(p) <= Slower(q)
  BY DEF Slower, UpDiv

\* "rate should not be decreased by more than half": five decreases, each rounded up.
LEMMA FiveAreHalf == ASSUME NEW p \in Nat, p >= 16 PROVE Slower(Slower(Slower(Slower(Slower(p))))) <= 2 * p
  BY DEF Slower, UpDiv

LEMMA SlowedByBounds ==
    ASSUME NEW p \in Nat, NEW n \in Nat \ {0}
    PROVE  /\ SlowedBy(n, p) \in Nat /\ SlowedBy(n, p) >= p
           /\ n < 5 => SlowedBy(n + 1, p) = Slower(SlowedBy(n, p))
           /\ n >= 5 => SlowedBy(n + 1, p) = SlowedBy(n, p)
           /\ p >= 16 => SlowedBy(n, p) <= 2 * p
  <1>1. PICK a : a = Slower(p)
    OBVIOUS
  <1>2. PICK b : b = Slower(a)
    OBVIOUS
  <1>3. PICK c : c = Slower(b)
    OBVIOUS
  <1>4. PICK d : d = Slower(c)
    OBVIOUS
  <1>5. PICK e : e = Slower(d)
    OBVIOUS
  <1>6. a \in Nat /\ b \in Nat /\ c \in Nat /\ d \in Nat /\ e \in Nat /\ a >= p /\ b >= a /\ c >= b /\ d >= c /\ e >= d
    BY <1>1, <1>2, <1>3, <1>4, <1>5, SlowerGrows
  <1>7. p >= 16 => e <= 2 * p
    BY <1>1, <1>2, <1>3, <1>4, <1>5, FiveAreHalf
  <1>8. \A m : SlowedBy(m, p) = IF m = 1 THEN a ELSE IF m = 2 THEN b ELSE IF m = 3 THEN c ELSE IF m = 4 THEN d ELSE e
    BY <1>1, <1>2, <1>3, <1>4, <1>5 DEF SlowedBy
  <1>9. CASE n = 1
    BY <1>2, <1>6, <1>7, <1>8, <1>9
  <1>10. CASE n = 2
    BY <1>3, <1>6, <1>7, <1>8, <1>10
  <1>11. CASE n = 3
    BY <1>4, <1>6, <1>7, <1>8, <1>11
  <1>12. CASE n = 4
    BY <1>5, <1>6, <1>7, <1>8, <1>12
  <1>13. CASE n >= 5
    BY <1>6, <1>7, <1>8, <1>13
  <1> QED BY <1>9, <1>10, <1>11, <1>12, <1>13

LEMMA UpDivPart ==
    ASSUME NEW p \in Nat, NEW q \in Nat \ {0} PROVE UpDiv(p, q) \in Nat /\ UpDiv(p, q) <= p
  BY DEF UpDiv

\* The averages of rates stay positive.
LEMMA SmoothedPositive ==
    ASSUME NEW old \in Nat \ {0}, NEW new \in Int PROVE Smoothed(old, new) \in Nat \ {0}
  BY DEF Smoothed

LEMMA LongestNat == ASSUME NEW c \in CcRecord PROVE Longest(c) \in Nat /\ Longest(c) >= c.decPeriod /\ Longest(c) >= MinPeriod
  BY RateControlAssumption DEF Longest, AtLeast, CcRecord

\* The end of slow start, before any decrease.
LEMMA SlowStartEndsGood ==
    ASSUME NEW c, NEW a \in Nat, CcGood(c, a), c.slow, NEW d, d = SlowStartEnds(c)
    PROVE  CcGood(d, a) /\ ~d.slow /\ d.lastDecSeq = c.lastDecSeq /\ d.decs = c.decs
  <1>1. c \in CcRecord /\ ~(c.decs >= 1) /\ c.rate \in Nat \ {0} /\ c.decs \in Nat
    BY DEF CcGood, CcRecord
  <1>2. UpDiv(Second, c.rate) \in Nat
    BY <1>1, UpDivPart, RateControlAssumption
  <1>3. d = [c EXCEPT !.slow = FALSE, !.period = UpDiv(Second, c.rate)]
    BY DEF SlowStartEnds
  <1>4. d \in CcRecord
    BY <1>1, <1>2, <1>3 DEF CcRecord
  <1>5. d.slow = FALSE /\ d.decs = c.decs /\ d.cwnd = c.cwnd /\ d.lastAck = c.lastAck /\ d.lastDecSeq = c.lastDecSeq
    BY <1>1, <1>3 DEF CcRecord
  <1> QED BY <1>1, <1>4, <1>5 DEF CcGood

\* A shorter period than before, or UDT_MAXBW's.
LEMMA PeriodFalls ==
    ASSUME NEW c, NEW a \in Nat, CcGood(c, a), NEW p \in Nat, p <= c.period \/ p <= MinPeriod,
           NEW d, d = [c EXCEPT !.period = p]
    PROVE  CcGood(d, a)
  <1>1. c \in CcRecord
    BY DEF CcGood
  <1>2. d \in CcRecord /\ d.period = p /\ d.decs = c.decs /\ d.slow = c.slow /\ d.cwnd = c.cwnd /\ d.lastAck = c.lastAck
        /\ d.lastDecSeq = c.lastDecSeq /\ d.decPeriod = c.decPeriod
    BY <1>1 DEF CcRecord
  <1>3. Longest(d) = Longest(c) /\ Longest(c) \in Nat /\ Longest(c) >= MinPeriod
    BY <1>1, <1>2, LongestNat DEF Longest
  <1>4. ASSUME d.decs >= 1 PROVE d.period <= SlowedBy(d.decs, Longest(d))
    <2>1. c.decs \in Nat \ {0} /\ c.period \in Nat
      BY <1>1, <1>2, <1>4 DEF CcRecord
    <2>2. PICK s : s = SlowedBy(c.decs, Longest(c))
      OBVIOUS
    <2>3. s \in Nat /\ s >= Longest(c)
      BY <1>3, <2>1, <2>2, SlowedByBounds
    <2>4. c.period <= s
      BY <2>1, <2>2 DEF CcGood
    <2>5. p <= s
      BY <1>3, <2>1, <2>3, <2>4, RateControlAssumption
    <2> QED BY <1>2, <1>3, <2>2, <2>5
  <1> QED BY <1>2, <1>4 DEF CcGood

LEMMA RateLimitedGood ==
    ASSUME NEW c, NEW a \in Nat, CcGood(c, a), NEW d, d = RateLimited(c)
    PROVE  CcGood(d, a)
  <1>1. c \in CcRecord /\ c.period \in Nat
    BY DEF CcGood, CcRecord
  <1>2. PICK p : p = AtLeast(c.period, MinPeriod)
    OBVIOUS
  <1>3. p \in Nat /\ (p <= c.period \/ p <= MinPeriod)
    BY <1>1, <1>2, RateControlAssumption DEF AtLeast
  <1>4. d = [c EXCEPT !.period = p]
    BY <1>1, <1>2 DEF RateLimited, CcRecord
  <1> QED BY <1>3, <1>4, PeriodFalls

LEMMA WindowOnAckGood ==
    ASSUME NEW c, NEW a \in Nat, CcGood(c, a), NEW ack \in Nat, ack > a, NEW d, d = WindowOnAck(c, ack)
    PROVE  CcGood(d, ack)
  <1>1. c \in CcRecord /\ c.cwnd \in Nat /\ c.lastAck \in Nat /\ c.rate \in Nat \ {0} /\ c.lastAck <= a
        /\ c.cwnd >= FirstCwnd /\ FirstCwnd \in Nat /\ RoundTrip \in Nat /\ Second \in Nat \ {0}
    BY RateControlAssumption DEF CcGood, CcRecord
  <1>2. CASE ~c.slow
    <2>1. PICK w : w = (c.rate * RoundTrip) \div Second + FirstCwnd
      OBVIOUS
    <2>2. w \in Nat /\ w >= FirstCwnd
      <3>1. PICK x : x = c.rate * RoundTrip
        OBVIOUS
      <3>2. x \in Nat
        BY <1>1, <3>1
      <3>3. x \div Second \in Nat
        BY <1>1, <3>2, DivPositive
      <3> QED BY <1>1, <2>1, <3>1, <3>3
    <2>3. d = [c EXCEPT !.cwnd = w]
      BY <1>2, <2>1 DEF WindowOnAck
    <2>4. d \in CcRecord /\ d.cwnd = w /\ d.lastAck = c.lastAck /\ d.decs = c.decs /\ d.slow = c.slow
          /\ d.lastDecSeq = c.lastDecSeq /\ d.period = c.period /\ d.decPeriod = c.decPeriod
      BY <1>1, <2>2, <2>3 DEF CcRecord
    <2> QED BY <1>1, <2>2, <2>4 DEF CcGood, Longest
  <1>3. CASE c.slow
    <2>1. PICK w : w = c.cwnd + (ack - c.lastAck + 1)
      OBVIOUS
    <2>2. w \in Nat /\ w >= FirstCwnd
      BY <1>1, <2>1
    <2>3. PICK e : e = [c EXCEPT !.cwnd = w, !.lastAck = ack]
      OBVIOUS
    <2>4. d = IF e.cwnd > MaxCwnd THEN SlowStartEnds(e) ELSE e
      <3>1. [c EXCEPT !.cwnd = @ + (ack - c.lastAck + 1), !.lastAck = ack] = e
        BY <1>1, <2>1, <2>3 DEF CcRecord
      <3> QED BY <1>3, <3>1 DEF WindowOnAck
    <2>5. e \in CcRecord
      BY <1>1, <2>2, <2>3 DEF CcRecord
    <2>6. e.cwnd = w /\ e.lastAck = ack /\ e.decs = c.decs /\ e.slow = c.slow /\ e.lastDecSeq = c.lastDecSeq
      BY <1>1, <2>3 DEF CcRecord
    <2>7. ~(c.decs >= 1)
      BY <1>3 DEF CcGood
    <2>8. CcGood(e, ack) /\ e.slow
      BY <1>3, <2>2, <2>5, <2>6, <2>7 DEF CcGood
    <2> QED BY <2>4, <2>8, SlowStartEndsGood
  <1>4. c.slow \in BOOLEAN
    BY <1>1 DEF CcRecord
  <1> QED BY <1>2, <1>3

LEMMA OnAckGood ==
    ASSUME NEW c, NEW a \in Nat, CcGood(c, a), NEW ack \in Nat, ack > a, NEW d \in OnAck(c, ack)
    PROVE  CcGood(d, ack)
  <1>1. PICK e : e = WindowOnAck(c, ack)
    OBVIOUS
  <1>2. CcGood(e, ack) /\ e \in CcRecord
    BY <1>1, WindowOnAckGood DEF CcGood
  <1>3. CASE e.slow
    BY <1>1, <1>2, <1>3, RateLimitedGood DEF OnAck
  <1>4. CASE ~e.slow /\ e.loss
    <2>1. PICK f : f = [e EXCEPT !.loss = FALSE]
      OBVIOUS
    <2>2. f \in CcRecord /\ f.cwnd = e.cwnd /\ f.lastAck = e.lastAck /\ f.decs = e.decs /\ f.slow = e.slow
          /\ f.lastDecSeq = e.lastDecSeq /\ f.period = e.period /\ f.decPeriod = e.decPeriod
      BY <1>2, <2>1 DEF CcRecord
    <2>3. CcGood(f, ack)
      BY <1>2, <2>2 DEF CcGood, Longest
    <2>4. d = RateLimited(f)
      BY <1>1, <1>4, <2>1 DEF OnAck
    <2> QED BY <2>3, <2>4, RateLimitedGood
  <1>5. CASE ~e.slow /\ ~e.loss
    <2>1. PICK part \in Parts : d = RateLimited([e EXCEPT !.period = UpDiv(@, part)])
      BY <1>1, <1>5 DEF OnAck
    <2>2. e.period \in Nat /\ part \in Nat \ {0}
      BY <1>2, RateControlAssumption DEF CcRecord
    <2>3. PICK p : p = UpDiv(e.period, part)
      OBVIOUS
    <2>4. p \in Nat /\ p <= e.period
      BY <2>2, <2>3, UpDivPart
    <2>5. PICK f : f = [e EXCEPT !.period = p]
      OBVIOUS
    <2>6. CcGood(f, ack)
      BY <1>2, <2>4, <2>5, PeriodFalls
    <2>7. d = RateLimited(f)
      BY <1>2, <2>1, <2>3, <2>5 DEF CcRecord
    <2> QED BY <2>6, <2>7, RateLimitedGood
  <1> QED BY <1>3, <1>4, <1>5

\* The first loss of a congestion period is the first decrease, from the period there was.
LEMMA NewCongestionGood ==
    ASSUME NEW c, NEW a \in Nat, CcGood(c, a), ~c.slow, NEW d \in NewCongestion(c)
    PROVE  CcGood(d, a)
  <1>1. c \in CcRecord /\ c.period \in Nat /\ c.avg \in Nat /\ c.naks \in Nat /\ c.sent \in Nat
    BY DEF CcGood, CcRecord
  <1>2. PICK avg : avg = UpDiv(7 * c.avg + c.naks, 8)
    OBVIOUS
  <1>3. avg \in Nat
    <2>1. PICK x : x = 7 * c.avg + c.naks
      OBVIOUS
    <2>2. x \in Nat
      BY <1>1, <2>1
    <2> QED BY <1>2, <2>1, <2>2, UpDivPart
  <1>4. PICK p : p = Slower(c.period)
    OBVIOUS
  <1>5. p \in Nat
    BY <1>1, <1>4, SlowerGrows
  <1>6. PICK r \in 0..avg :
           d = [c EXCEPT !.decPeriod = c.period, !.period = Slower(@), !.avg = avg, !.naks = 1, !.decs = 1,
                         !.lastDecSeq = c.sent, !.random = AtLeast(r, 1)]
    BY <1>2 DEF NewCongestion
  <1>7. PICK random : random = AtLeast(r, 1)
    OBVIOUS
  <1>8. random \in Nat \ {0}
    BY <1>3, <1>7 DEF AtLeast
  <1>9. d = [c EXCEPT !.decPeriod = c.period, !.period = p, !.avg = avg, !.naks = 1, !.decs = 1,
                      !.lastDecSeq = c.sent, !.random = random]
    BY <1>1, <1>4, <1>6, <1>7 DEF CcRecord
  <1>10. d \in CcRecord
    <2>1. PICK e : e = [c EXCEPT !.decPeriod = c.period, !.period = p, !.avg = avg]
      OBVIOUS
    <2>2. PICK f : f = [e EXCEPT !.naks = 1, !.decs = 1]
      OBVIOUS
    <2>3. e \in CcRecord
      BY <1>1, <1>3, <1>5, <2>1 DEF CcRecord
    <2>4. f \in CcRecord
      BY <2>2, <2>3 DEF CcRecord
    <2>5. d = [f EXCEPT !.lastDecSeq = c.sent, !.random = random]
      BY <1>1, <1>9, <2>1, <2>2 DEF CcRecord
    <2>6. c.sent \in Int /\ random \in Nat \ {0}
      BY <1>1, <1>8
    <2> QED BY <2>4, <2>5, <2>6 DEF CcRecord
  <1>11. d.decs = 1 /\ d.period = p /\ d.decPeriod = c.period /\ d.slow = c.slow /\ d.cwnd = c.cwnd
         /\ d.lastAck = c.lastAck
    BY <1>1, <1>9 DEF CcRecord
  <1>12. p <= SlowedBy(1, Longest(d))
    <2>1. Longest(d) \in Nat /\ Longest(d) >= c.period
      BY <1>10, <1>11, LongestNat
    <2>2. SlowedBy(1, Longest(d)) = Slower(Longest(d))
      BY DEF SlowedBy
    <2> QED BY <1>1, <1>4, <2>1, <2>2, SlowerMonotone
  <1> QED BY <1>10, <1>11, <1>12 DEF CcGood

\* A further loss, of which five count in all.
LEMMA AgainGood ==
    ASSUME NEW c, NEW a \in Nat, CcGood(c, a), c.decs # 0, NEW d, d = Again(c)
    PROVE  CcGood(d, a)
  <1>1. /\ c \in CcRecord /\ c.period \in Nat /\ c.decs \in Nat \ {0} /\ c.naks \in Nat /\ c.sent \in Nat
        /\ Longest(c) \in Nat
    BY LongestNat DEF CcGood, CcRecord
  <1>2. PICK n : n = c.decs
    OBVIOUS
  <1>3. PICK s : s = SlowedBy(n, Longest(c))
    OBVIOUS
  <1>4. PICK t : t = SlowedBy(n + 1, Longest(c))
    OBVIOUS
  <1>5. n \in Nat \ {0} /\ s \in Nat /\ c.period <= s /\ ~c.slow
    BY SMTT(30), <1>1, <1>2, <1>3, SlowedByBounds DEF CcGood
  <1>6. t \in Nat /\ (n < 5 => t = Slower(s)) /\ (n >= 5 => t = s)
    BY <1>1, <1>3, <1>4, <1>5, SlowedByBounds
  <1>7. CASE n >= 5
    <2>1. d = [c EXCEPT !.decs = n + 1]
      BY <1>1, <1>2, <1>7 DEF Again, CcRecord
    <2>2. n + 1 \in Nat /\ n + 1 # 0 /\ n + 1 >= 1
      BY <1>5
    <2>3. d \in CcRecord /\ d.decs = n + 1 /\ d.period = c.period /\ d.decPeriod = c.decPeriod /\ d.slow = c.slow
          /\ d.cwnd = c.cwnd /\ d.lastAck = c.lastAck
      BY <1>1, <2>1, <2>2 DEF CcRecord
    <2> QED BY <1>4, <1>5, <1>6, <1>7, <2>2, <2>3 DEF CcGood, Longest
  <1>8. CASE n < 5
    <2>1. PICK e : e = [c EXCEPT !.decs = n + 1, !.naks = c.naks + 1]
      OBVIOUS
    <2>2. n + 1 \in Nat /\ n + 1 # 0 /\ n + 1 >= 1 /\ c.naks + 1 \in Nat
      BY <1>1, <1>5
    <2>3. e \in CcRecord
      BY <1>1, <2>1, <2>2 DEF CcRecord
    <2>4. e.decs = n + 1 /\ e.period = c.period /\ e.decPeriod = c.decPeriod /\ e.slow = c.slow
          /\ e.cwnd = c.cwnd /\ e.lastAck = c.lastAck
      BY <1>1, <2>1 DEF CcRecord
    <2>5. d = IF e.naks % c.random = 0 THEN [e EXCEPT !.period = Slower(@), !.lastDecSeq = c.sent] ELSE e
      <3>1. [c EXCEPT !.decs = @ + 1, !.naks = @ + 1] = e
        BY <1>1, <1>2, <2>1 DEF CcRecord
      <3>2. ~(c.decs >= 5)
        BY <1>1, <1>2, <1>8
      <3> QED BY <3>1, <3>2 DEF Again
    <2>6. Slower(s) \in Nat /\ Slower(s) >= s /\ Slower(c.period) \in Nat /\ Slower(c.period) <= Slower(s)
      BY <1>1, <1>5, SlowerGrows, SlowerMonotone
    <2>7. CASE d = e
      <3>1. c.period <= t
        BY <1>1, <1>5, <1>6, <1>8, <2>6
      <3> QED BY <1>4, <1>5, <2>2, <2>3, <2>4, <2>7, <3>1 DEF CcGood, Longest
    <2>8. CASE d = [e EXCEPT !.period = Slower(@), !.lastDecSeq = c.sent]
      <3>1. PICK p : p = Slower(c.period)
        OBVIOUS
      <3>2. d = [e EXCEPT !.period = p, !.lastDecSeq = c.sent]
        BY <2>3, <2>4, <2>8, <3>1 DEF CcRecord
      <3>3. p \in Nat /\ p <= t
        BY <1>6, <1>8, <2>6, <3>1
      <3>4. d \in CcRecord
        <4>1. PICK f : f = [e EXCEPT !.period = p]
          OBVIOUS
        <4>2. f \in CcRecord
          BY <2>3, <3>3, <4>1 DEF CcRecord
        <4>3. d = [f EXCEPT !.lastDecSeq = c.sent]
          BY <2>3, <3>2, <4>1 DEF CcRecord
        <4>4. c.sent \in Int
          BY <1>1
        <4> QED BY <4>2, <4>3, <4>4 DEF CcRecord
      <3>5. d.decs = n + 1 /\ d.period = p /\ d.decPeriod = c.decPeriod /\ d.slow = c.slow
            /\ d.cwnd = c.cwnd /\ d.lastAck = c.lastAck
        BY <2>3, <2>4, <3>2 DEF CcRecord
      <3>6. c.cwnd >= FirstCwnd /\ c.lastAck <= a
        BY DEF CcGood
      <3>7. Longest(d) = Longest(c)
        BY <3>5 DEF Longest
      <3> QED BY <1>4, <1>5, <2>2, <3>3, <3>4, <3>5, <3>6, <3>7 DEF CcGood
    <2> QED BY <2>5, <2>7, <2>8
  <1> QED BY <1>5, <1>7, <1>8

LEMMA OnLossGood ==
    ASSUME NEW c, NEW a \in Nat, CcGood(c, a), NEW first \in Nat, NEW d \in OnLoss(c, first)
    PROVE  CcGood(d, a)
  <1>1. PICK b : b = IF c.slow THEN SlowStartEnds(c) ELSE c
    OBVIOUS
  <1>2. CcGood(b, a) /\ ~b.slow
    BY <1>1, SlowStartEndsGood
  <1>3. PICK e : e = [b EXCEPT !.loss = TRUE]
    OBVIOUS
  <1>4. /\ e \in CcRecord /\ e.cwnd = b.cwnd /\ e.lastAck = b.lastAck /\ e.decs = b.decs /\ e.slow = b.slow
        /\ e.lastDecSeq = b.lastDecSeq /\ e.period = b.period /\ e.decPeriod = b.decPeriod
    BY <1>2, <1>3 DEF CcGood, CcRecord
  <1>5. CcGood(e, a) /\ ~e.slow
    BY <1>2, <1>4 DEF CcGood, Longest
  <1>6. d \in (IF first > e.lastDecSeq THEN NewCongestion(e) ELSE {Again(e)})
    BY <1>1, <1>3 DEF OnLoss
  <1>7. CASE first > e.lastDecSeq
    BY <1>5, <1>6, <1>7, NewCongestionGood
  <1>8. CASE ~(first > e.lastDecSeq)
    <2>1. e.decs # 0
      BY <1>5, <1>8 DEF CcGood
    <2> QED BY <1>5, <1>6, <1>8, <2>1, AgainGood
  <1> QED BY <1>7, <1>8

LEMMA CongestionStart == ASSUME CongestionInit PROVE CongestionInv
  <1>1. cc = CcInit /\ ccAcked = 1
    BY DEF CongestionInit
  <1>2. CcInit \in CcRecord
    BY RateControlAssumption DEF CcInit, CcRecord
  <1>3. CcInit.cwnd = FirstCwnd /\ CcInit.lastAck = 0 /\ CcInit.decs = 0 /\ CcInit.lastDecSeq = -1
        /\ FirstCwnd \in Nat
    BY RateControlAssumption DEF CcInit
  <1> QED BY <1>1, <1>2, <1>3 DEF CongestionInv, CcGood

LEMMA CongestionStep == ASSUME CongestionInv, RateControlNext PROVE CongestionInv'
  <1>1. CcGood(cc, ccAcked) /\ ccAcked \in Nat /\ cc \in CcRecord /\ MaxSent \in Nat
    BY RateControlAssumption DEF CongestionInv, CcGood
  <1>2. CASE CcSend
    <2>1. PICK d : d = [cc EXCEPT !.sent = cc.sent + 1]
      OBVIOUS
    <2>2. cc' = d /\ ccAcked' = ccAcked
      BY <1>1, <1>2, <2>1 DEF CcSend, CcRecord
    <2>3. /\ d \in CcRecord /\ d.cwnd = cc.cwnd /\ d.lastAck = cc.lastAck /\ d.decs = cc.decs /\ d.slow = cc.slow
          /\ d.lastDecSeq = cc.lastDecSeq /\ d.period = cc.period /\ d.decPeriod = cc.decPeriod
      BY <1>1, <2>1 DEF CcRecord
    <2>4. CcGood(d, ccAcked)
      BY <1>1, <2>3 DEF CcGood, Longest
    <2> QED BY <1>1, <2>2, <2>4 DEF CongestionInv
  <1>3. CASE CcTimeout
    <2>1. PICK d : d = OnTimeout(cc)
      OBVIOUS
    <2>2. CcGood(d, ccAcked)
      BY <1>1, <2>1, SlowStartEndsGood DEF OnTimeout
    <2> QED BY <1>1, <1>3, <2>1, <2>2 DEF CcTimeout, CongestionInv
  <1>4. CASE CcRest
    BY <1>4 DEF CcRest, CongestionInv, CcGood, Longest
  <1>5. ASSUME NEW seq \in 1..(MaxSent + 1), CcLoss(seq) PROVE CongestionInv'
    <2>1. PICK d \in OnLoss(cc, seq) : cc' = d /\ ccAcked' = ccAcked
      BY <1>5 DEF CcLoss
    <2>2. seq \in Nat
      BY <1>1
    <2>3. CcGood(d, ccAcked)
      BY <1>1, <2>2, OnLossGood
    <2> QED BY <1>1, <2>1, <2>3 DEF CongestionInv
  <1>6. ASSUME NEW seq \in 1..(MaxSent + 1), NEW report \in Reported, CcAck(seq, report) PROVE CongestionInv'
    <2>1. PICK rate : rate = Smoothed(cc.rate, report)
      OBVIOUS
    <2>2. PICK bandwidth : bandwidth = Smoothed(cc.bandwidth, report)
      OBVIOUS
    <2>3. rate \in Nat \ {0} /\ bandwidth \in Nat \ {0}
      BY <1>1, <2>1, <2>2, SmoothedPositive, RateControlAssumption DEF CcRecord
    <2>4. PICK c : c = [cc EXCEPT !.rate = rate, !.bandwidth = bandwidth]
      OBVIOUS
    <2>5. cc' \in (IF ccRested THEN OnAck(c, seq) ELSE {c}) /\ ccAcked' = seq /\ seq > ccAcked
      <3>1. [cc EXCEPT !.rate = Smoothed(@, report), !.bandwidth = Smoothed(@, report)] = c
        BY <1>1, <2>1, <2>2, <2>4 DEF CcRecord
      <3> QED BY <1>6, <3>1 DEF CcAck
    <2>6. /\ c \in CcRecord /\ c.cwnd = cc.cwnd /\ c.lastAck = cc.lastAck /\ c.decs = cc.decs /\ c.slow = cc.slow
          /\ c.lastDecSeq = cc.lastDecSeq /\ c.period = cc.period /\ c.decPeriod = cc.decPeriod
      BY <1>1, <2>3, <2>4 DEF CcRecord
    <2>7. CcGood(c, ccAcked)
      BY <1>1, <2>6 DEF CcGood, Longest
    <2>8. seq \in Nat
      BY <1>1
    <2>9. CcGood(c, seq)
      <3>1. c.lastAck \in Nat /\ c.lastAck <= ccAcked
        BY <2>7 DEF CcGood, CcRecord
      <3>2. c.lastAck <= seq
        BY <1>1, <2>5, <2>8, <3>1
      <3> QED BY <2>7, <3>2 DEF CcGood
    <2>10. PICK d : d = cc'
      OBVIOUS
    <2>11. CcGood(d, seq)
      BY <1>1, <2>5, <2>7, <2>8, <2>9, <2>10, OnAckGood
    <2> QED BY <2>5, <2>8, <2>10, <2>11 DEF CongestionInv
  <1> QED BY <1>2, <1>3, <1>4, <1>5, <1>6 DEF RateControlNext

LEMMA CongestionInvSound == ASSUME CongestionInv PROVE HalvedAtMost /\ RatesPositive
  <1>1. CcGood(cc, ccAcked) /\ cc \in CcRecord
    BY DEF CongestionInv, CcGood
  <1>2. RatesPositive
    BY <1>1 DEF RatesPositive, CcGood, CcRecord
  <1>3. ASSUME cc.decs >= 1, cc.decPeriod >= 16 PROVE cc.period <= 2 * Longest(cc)
    <2>1. cc.decs \in Nat \ {0} /\ cc.period \in Nat /\ cc.decPeriod \in Nat
      BY <1>1, <1>3 DEF CcRecord
    <2>2. Longest(cc) \in Nat /\ Longest(cc) >= 16
      BY <1>1, <1>3, <2>1, LongestNat
    <2>3. PICK s : s = SlowedBy(cc.decs, Longest(cc))
      OBVIOUS
    <2>4. s \in Nat /\ s <= 2 * Longest(cc)
      BY <2>1, <2>2, <2>3, SlowedByBounds
    <2>5. cc.period <= s
      BY <1>1, <1>3, <2>3 DEF CcGood
    <2> QED BY <2>1, <2>2, <2>4, <2>5
  <1> QED BY <1>2, <1>3 DEF HalvedAtMost, Longest

LEMMA PaceStart == ASSUME PaceInit PROVE PaceInv
  BY DEF PaceInit, PaceInv, PaceTypes

LEMMA PaceInvSound == ASSUME PaceInv PROVE PaceKept
  <1>1. pace.target \in Nat /\ pace.diff \in Nat /\ PaceEarly \in Nat
    BY DEF PaceInv, PaceTypes, PaceEarly
  <1> QED BY <1>1 DEF PaceInv, PaceTypes, PaceKept, OnSchedule

LEMMA PaceStep == ASSUME PaceInv, PaceNext PROVE PaceInv'
  <1>1. /\ pace.target \in Nat /\ pace.diff \in Nat /\ paceAt \in Nat /\ paceDue \in Int
        /\ paceHurry \in Nat /\ paceNow \in Nat \ {0} /\ paceSkips \in Nat
        /\ pace \in [target : Nat, diff : Nat]
    BY DEF PaceInv, PaceTypes
  <1>2. /\ pace.target = 0 => pace.diff = 0 /\ paceHurry = 0
        /\ paceAt \in {0, 1, pace.target}
        /\ pace.target # 0 /\ paceSkips = 0 =>
              /\ paceAt # 0 /\ pace.target - pace.diff <= paceDue
              /\ paceDue - paceHurry <= pace.target - pace.diff - PaceEarly
    BY DEF PaceInv
  <1>3. ASSUME NEW period \in Periods, NEW probe \in BOOLEAN, PackPacket(period, probe) PROVE PaceInv'
    <2>1. PICK late : late = Late
      OBVIOUS
    <2>2. PICK next : next = NextTime(late, period, probe)
      OBVIOUS
    <2>3. /\ pace' = next /\ paceAt' = next.target /\ paceAt # 0 /\ paceNow >= paceAt
          /\ UNCHANGED <<paceHurry, paceNow, paceSkips>>
          /\ paceDue' = (IF pace.target = 0 THEN paceNow ELSE paceDue) + IF probe THEN 0 ELSE period
      BY <1>3, <2>1, <2>2 DEF PackPacket, Popped
    <2>4. period \in Nat \ {0}
      BY RateControlAssumption
    <2>5. PICK early : early = PaceEarly
      OBVIOUS
    <2>6. /\ early \in Nat /\ late \in Nat
          /\ paceNow - late = (IF pace.target = 0 THEN paceNow ELSE pace.target - pace.diff - early)
      BY <1>1, <1>2, <2>1, <2>3, <2>5 DEF Late, PaceEarly
    <2>7. /\ next \in [target : Nat, diff : Nat] /\ next.target \in Nat \ {0} /\ next.diff \in Nat
          /\ next.target - next.diff = paceNow - late + IF probe THEN 0 ELSE period
      BY <1>1, <2>2, <2>4, <2>6 DEF NextTime
    <2>8. PaceEarly' = 0
      BY <2>3, <2>7 DEF PaceEarly
    <2>9. paceDue' \in Int
      BY <1>1, <2>3, <2>4
    <2>10. paceSkips = 0 =>
             /\ next.target - next.diff <= paceDue' /\ paceDue' - paceHurry <= next.target - next.diff
      BY <1>1, <1>2, <2>3, <2>4, <2>5, <2>6, <2>7
    <2> QED BY <1>1, <2>3, <2>7, <2>8, <2>9, <2>10 DEF PaceInv, PaceTypes
  <1>4. CASE PackNothing
    BY <1>1, <1>4 DEF PackNothing, PaceInv, PaceTypes
  <1>5. CASE PackStale
    <2>1. PICK late : late = Late
      OBVIOUS
    <2>2. late \in Nat /\ (pace.target = 0 => late = 0)
      BY <1>1, <1>2, <2>1 DEF Late
    <2>3. /\ pace' = [pace EXCEPT !.diff = late] /\ paceSkips' = paceSkips + 1
          /\ paceAt' = 0 /\ UNCHANGED <<paceDue, paceHurry, paceNow>>
      BY <1>5, <2>1 DEF PackStale
    <2>4. pace' \in [target : Nat, diff : Nat] /\ pace'.target = pace.target /\ pace'.diff = late
      BY <1>1, <2>2, <2>3
    <2> QED BY <1>1, <1>2, <2>2, <2>3, <2>4 DEF PaceInv, PaceTypes
  <1>6. CASE PaceResume
    <2>1. /\ paceAt = 0 /\ paceAt' = 1
          /\ UNCHANGED <<pace, paceDue, paceHurry, paceNow, paceSkips>>
      BY <1>6 DEF PaceResume
    <2> QED BY <1>1, <1>2, <2>1 DEF PaceInv, PaceTypes
  <1>7. CASE PaceHasten
    <2>1. PICK early : early = IF paceAt > paceNow THEN paceAt - paceNow ELSE 0
      OBVIOUS
    <2>2. /\ paceAt' = 1 /\ paceHurry' = paceHurry + early
          /\ UNCHANGED <<pace, paceDue, paceNow, paceSkips>>
      BY <1>7, <2>1 DEF PaceHasten
    <2>3. early \in Nat /\ (pace.target = 0 => early = 0)
      BY <1>1, <1>2, <2>1
    <2>4. PaceEarly \in Nat /\ PaceEarly' \in Nat
      BY <1>1, <2>2 DEF PaceEarly
    <2>5. paceAt # 0 => PaceEarly' <= PaceEarly + early
      BY <1>1, <1>2, <2>1, <2>2 DEF PaceEarly
    <2>6. pace.target # 0 /\ paceSkips = 0 =>
            paceDue - paceHurry' <= pace.target - pace.diff - PaceEarly'
      BY <1>1, <1>2, <2>2, <2>3, <2>4, <2>5
    <2> QED BY <1>1, <1>2, <2>2, <2>3, <2>6 DEF PaceInv, PaceTypes
  <1>8. CASE PaceTick
    <2>1. paceNow' = paceNow + 1 /\ UNCHANGED <<pace, paceAt, paceDue, paceHurry, paceSkips>>
      BY <1>8 DEF PaceTick
    <2>2. PaceEarly \in Nat /\ PaceEarly' \in Nat /\ PaceEarly' <= PaceEarly
      BY <1>1, <2>1 DEF PaceEarly
    <2> QED BY <1>1, <1>2, <2>1, <2>2 DEF PaceInv, PaceTypes
  <1> QED BY <1>3, <1>4, <1>5, <1>6, <1>7, <1>8 DEF PaceNext

\* A congestion period lowers the rate by half at most, no average falls to zero, and a
\* sending thread that comes late makes up for that and for no more, but for what loss
\* reports and timeouts hurry (CUDTCC, packData, CSndUList::update), for every limit of the
\* rate, every report, and every time at which the thread, a report or a timeout comes.
THEOREM RateAndPace == PartsSpec => []RateSoundAndKept
  <1> DEFINE Inv == /\ subject = "congestion" => CongestionInv
                    /\ subject = "pacing" => PaceInv
  <1>1. PartsInit => Inv
    BY CongestionStart, PaceStart DEF PartsInit
  <1>2. Inv /\ [PartsNext]_allVars => Inv'
    <2> SUFFICES ASSUME Inv, [PartsNext]_allVars PROVE Inv'
      OBVIOUS
    <2>1. ASSUME subject' = "congestion" PROVE CongestionInv'
      <3>1. subject = "congestion" /\ (RateControlNext \/ UNCHANGED rateVars)
        BY <2>1 DEF PartsNext, StepOf, allVars
      <3> QED BY <3>1, CongestionStep DEF CongestionInv, CcGood, Longest, rateVars
    <2>2. ASSUME subject' = "pacing" PROVE PaceInv'
      <3>1. subject = "pacing" /\ (PaceNext \/ UNCHANGED paceVars)
        BY <2>2 DEF PartsNext, StepOf, allVars
      <3> QED BY <3>1, PaceStep DEF PaceInv, PaceTypes, PaceEarly, paceVars
    <2> QED BY <2>1, <2>2
  <1>3. Inv => RateSoundAndKept
    BY CongestionInvSound, PaceInvSound DEF RateSoundAndKept, Of
  <1> QED BY <1>1, <1>2, <1>3, PTL DEF PartsSpec

-----------------------------------------------------------------------------
(* Multiplexers.                                                           *)

Statuses == {"none", "gone", "INIT", "OPENED", "LISTENING", "CONNECTING", "CONNECTED", "leaked", "CLOSED"}
MuxIDs == 0..MaxSocks
SockRecord ==
    [status : Statuses, listenSock : MuxIDs, mss : Nat, reuse : BOOLEAN, opened : BOOLEAN, mux : MuxIDs,
     queues : MuxIDs, self : [local : Locals \cup {"any"}, port : Nat], asked : Locals \cup {"any"}]
MuxRecord ==
    [mss : Nat, ref : Nat, reusable : BOOLEAN, local : Locals, port : Ports, listener : MuxIDs]

MuxTypes ==
    /\ mxSock \in [MuxSocks -> SockRecord] /\ mxUsers \in Nat /\ mxGC \in BOOLEAN
    /\ DOMAIN mxMux \subseteq MuxSocks /\ \A i \in DOMAIN mxMux : mxMux[i] \in MuxRecord

\* A socket has queues from bind or accept until it is destroyed, and its address is theirs.
BoundStatuses == {"OPENED", "LISTENING", "CONNECTING", "CONNECTED", "leaked"}
HasQueues(s) ==
    /\ mxSock[s].queues = mxSock[s].mux
    /\ mxSock[s].status \in {"none", "gone", "INIT"} => mxSock[s].mux = 0
    /\ mxSock[s].status \in BoundStatuses => mxSock[s].mux # 0
    /\ mxSock[s].mux # 0 =>
          /\ mxSock[s].mux \in DOMAIN mxMux
          /\ mxSock[s].self.local = mxMux[mxSock[s].mux].local
          /\ mxSock[s].self.port = mxMux[mxSock[s].mux].port

UsersOf(i) == {s \in Undestroyed : mxSock[s].mux = i}

\* A multiplexer has the ID of the socket that was bound first and is counted; no two have
\* one address.
MuxesCounted ==
    \A i \in DOMAIN mxMux : /\ mxSock[i].status \notin {"none", "INIT"}
                            /\ mxMux[i].ref = Cardinality(UsersOf(i)) /\ mxMux[i].ref > 0
OneOfAddress ==
    \A i, j \in DOMAIN mxMux : mxMux[i].local = mxMux[j].local /\ mxMux[i].port = mxMux[j].port => i = j

\* The listener of a receive queue is a socket of it, which listens or has been closed.
ListenerOf(i) ==
    mxMux[i].listener # 0 => LET l == mxMux[i].listener
                             IN mxSock[l].status \in {"LISTENING", "CLOSED"} /\ mxSock[l].mux = i
ListenersKnown ==
    /\ \A s \in MuxSocks : mxSock[s].status = "LISTENING" => mxMux[mxSock[s].mux].listener = s
    /\ \A i \in DOMAIN mxMux : ListenerOf(i)

MuxInv == MuxTypes /\ (\A s \in MuxSocks : HasQueues(s)) /\ MuxesCounted /\ OneOfAddress /\ ListenersKnown

\* On a host of one address: a socket's packets fit the units, and an accepted one is where
\* its listener is.
AsListener(s) ==
    LET ls == mxSock[s].listenSock
    IN ls # 0 => /\ mxSock[ls].status \notin {"none", "INIT"}
                 /\ ls \in Undestroyed => mxSock[ls].mux = mxSock[s].mux
FitsOwn(s) == mxSock[s].mux # 0 => mxSock[s].mss <= mxMux[mxSock[s].mux].mss
SockFits(s) == FitsOwn(s) /\ AsListener(s) /\ (mxSock[s].status = "INIT" => mxSock[s].listenSock = 0)
MuxFits == \A s \in Undestroyed : SockFits(s)
(* The fields that bind sets in a socket.                                  *)
Bound(s, status, i, local, l, p) ==
    mxSock' = [mxSock EXCEPT ![s].status = status, ![s].opened = TRUE, ![s].mux = i, ![s].queues = i,
                             ![s].asked = local, ![s].self = [local |-> l, port |-> p]]

LEMMA BoundSocket ==
    ASSUME MuxTypes, NEW s \in MuxSocks, NEW status \in Statuses, NEW i \in MuxSocks,
           NEW local \in Locals, NEW l \in Locals, NEW p \in Ports,
           Bound(s, status, i, local, l, p)
    PROVE  /\ mxSock' \in [MuxSocks -> SockRecord]
           /\ \A t \in MuxSocks : t # s => mxSock'[t] = mxSock[t]
           /\ mxSock'[s].status = status /\ mxSock'[s].mux = i /\ mxSock'[s].queues = i
           /\ mxSock'[s].self.local = l /\ mxSock'[s].self.port = p
           /\ mxSock'[s].mss = mxSock[s].mss /\ mxSock'[s].listenSock = mxSock[s].listenSock
  <1>1. mxSock \in [MuxSocks -> SockRecord] /\ i \in MuxIDs /\ [local |-> l, port |-> p] \in [local : Locals \cup {"any"}, port : Nat]
    BY UdtMuxAssumption DEF MuxTypes, MuxSocks, MuxIDs
  <1>2. PICK a : a = [mxSock EXCEPT ![s].status = status, ![s].opened = TRUE, ![s].mux = i]
    OBVIOUS
  <1>3. a \in [MuxSocks -> SockRecord]
    <2>1. PICK r : r = mxSock[s]
      OBVIOUS
    <2>2. r \in SockRecord
      BY <1>1, <2>1
    <2>3. PICK c : c = [r EXCEPT !.status = status]
      OBVIOUS
    <2>4. c \in SockRecord
      BY <2>2, <2>3 DEF SockRecord
    <2>5. PICK d : d = [c EXCEPT !.opened = TRUE]
      OBVIOUS
    <2>6. d \in SockRecord
      BY <2>4, <2>5 DEF SockRecord
    <2>7. PICK e : e = [d EXCEPT !.mux = i]
      OBVIOUS
    <2>8. e \in SockRecord
      BY <1>1, <2>6, <2>7 DEF SockRecord
    <2>9. a = [mxSock EXCEPT ![s] = e]
      BY <1>1, <1>2, <2>1, <2>3, <2>5, <2>7
    <2> QED BY <1>1, <2>8, <2>9
  <1>4. /\ \A t \in MuxSocks : t # s => a[t] = mxSock[t]
        /\ a[s].status = status /\ a[s].mux = i /\ a[s].mss = mxSock[s].mss /\ a[s].listenSock = mxSock[s].listenSock
    BY <1>1, <1>2 DEF SockRecord
  <1>5. mxSock' = [a EXCEPT ![s].queues = i, ![s].asked = local, ![s].self = [local |-> l, port |-> p]]
    BY <1>2 DEF Bound
  <1>6. mxSock' \in [MuxSocks -> SockRecord]
    <2>1. PICK r : r = a[s]
      OBVIOUS
    <2>2. r \in SockRecord
      BY <1>3, <2>1
    <2>3. PICK c : c = [r EXCEPT !.queues = i]
      OBVIOUS
    <2>4. c \in SockRecord
      BY <1>1, <2>2, <2>3 DEF SockRecord
    <2>5. PICK d : d = [c EXCEPT !.asked = local]
      OBVIOUS
    <2>6. d \in SockRecord
      BY <2>4, <2>5 DEF SockRecord
    <2>7. PICK e : e = [d EXCEPT !.self = [local |-> l, port |-> p]]
      OBVIOUS
    <2>8. e \in SockRecord
      BY <1>1, <2>6, <2>7 DEF SockRecord
    <2>9. mxSock' = [a EXCEPT ![s] = e]
      BY <1>3, <1>5, <2>1, <2>3, <2>5, <2>7
    <2> QED BY <1>3, <2>8, <2>9
  <1>7. /\ \A t \in MuxSocks : t # s => mxSock'[t] = a[t]
        /\ mxSock'[s].queues = i /\ mxSock'[s].self = [local |-> l, port |-> p]
        /\ mxSock'[s].status = a[s].status /\ mxSock'[s].mux = a[s].mux /\ mxSock'[s].mss = a[s].mss
        /\ mxSock'[s].listenSock = a[s].listenSock
    BY <1>1, <1>3, <1>5 DEF SockRecord
  <1> QED BY <1>4, <1>6, <1>7

(* The users of a multiplexer are finitely many sockets.                   *)
LEMMA UsersFinite ==
    ASSUME NEW i PROVE IsFiniteSet(UsersOf(i)) /\ Cardinality(UsersOf(i)) \in Nat
  <1>1. UsersOf(i) \subseteq MuxSocks /\ IsFiniteSet(MuxSocks)
    BY UdtMuxAssumption, FS_Interval DEF UsersOf, Undestroyed, MuxSocks
  <1> QED BY <1>1, FS_Subset, FS_CardinalityType

(* A step of a socket without queues, which stays so, or with queues it keeps. *)
Alone(s) == \A t \in MuxSocks : t # s => mxSock'[t] = mxSock[t]
Keeps(s) ==
    /\ mxSock'[s].mux = mxSock[s].mux /\ mxSock'[s].queues = mxSock[s].queues
    /\ mxSock'[s].mux # 0 => mxSock'[s].self = mxSock[s].self

LEMMA StatusKeeps ==
    ASSUME MuxInv, MuxTypes', NEW s \in MuxSocks, Alone(s), Keeps(s), mxMux' = mxMux,
           mxSock[s].status # "gone", mxSock'[s].status \notin {"none", "gone", "LISTENING"},
           mxSock'[s].status = "INIT" => mxSock[s].status \in {"none", "INIT"},
           mxSock[s].status = "none" => mxSock'[s].status = "INIT",
           mxSock[s].status \in {"LISTENING", "CLOSED"} => mxSock'[s].status = "CLOSED",
           mxSock[s].status = "INIT" => mxSock'[s].status \in {"INIT", "CLOSED"}
    PROVE  MuxInv'
  <1>0. \A t \in MuxSocks : mxSock[t].mux \in MuxIDs /\ mxSock[t].status \in Statuses /\ mxSock'[t].status \in Statuses
    BY DEF MuxInv, MuxTypes, SockRecord
  <1>1. ASSUME NEW t \in MuxSocks PROVE HasQueues(t)'
    <2>1. CASE t = s
      BY <1>0, <2>1 DEF MuxInv, HasQueues, Keeps, Statuses, BoundStatuses
    <2>2. CASE t # s
      BY <2>2 DEF MuxInv, HasQueues, Alone
    <2> QED BY <2>1, <2>2
  <1>2. ASSUME NEW i \in DOMAIN mxMux PROVE UsersOf(i)' = UsersOf(i)
    <2>1. i # 0
      BY DEF MuxInv, MuxTypes, MuxSocks
    <2>2. \A t \in MuxSocks : t \in UsersOf(i)' <=> t \in UsersOf(i)
      BY <2>1 DEF MuxInv, HasQueues, Keeps, Alone, UsersOf, Undestroyed
    <2> QED BY <2>2 DEF UsersOf, Undestroyed
  <1>3. MuxesCounted'
    BY <1>2 DEF MuxInv, MuxTypes, MuxesCounted, Alone
  <1>4. OneOfAddress'
    BY DEF MuxInv, OneOfAddress
  <1>5. \A t \in MuxSocks : mxSock'[t].status = "LISTENING" => mxMux'[mxSock'[t].mux].listener = t
    BY DEF MuxInv, ListenersKnown, Alone
  <1>6. ASSUME NEW i \in DOMAIN mxMux PROVE ListenerOf(i)'
    <2>1. mxMux[i].listener \in MuxIDs
      BY DEF MuxInv, MuxTypes, MuxRecord
    <2> QED BY <2>1 DEF MuxInv, ListenersKnown, ListenerOf, Alone, Keeps, MuxIDs, MuxSocks
  <1> QED BY <1>1, <1>3, <1>4, <1>5, <1>6 DEF MuxInv, ListenersKnown

(* A socket without queues becomes one of the users of a multiplexer.      *)
Joins(s, i) ==
    /\ mxSock[s].status \in {"none", "INIT"} /\ mxSock'[s].status \in BoundStatuses \ {"LISTENING"}
    /\ mxSock'[s].mux = i /\ mxSock'[s].queues = i
    /\ mxSock'[s].self.local = mxMux'[i].local /\ mxSock'[s].self.port = mxMux'[i].port
SameBut(i) ==
    /\ DOMAIN mxMux' = DOMAIN mxMux \cup {i}
    /\ \A j \in DOMAIN mxMux : j # i => mxMux'[j] = mxMux[j]
OneMore(i) ==
    /\ i \in DOMAIN mxMux /\ mxMux'[i].ref = mxMux[i].ref + 1
    /\ mxMux'[i].local = mxMux[i].local /\ mxMux'[i].port = mxMux[i].port
    /\ mxMux'[i].listener = mxMux[i].listener
NewOne(s, i) ==
    /\ i = s /\ mxMux'[i].ref = 1 /\ mxMux'[i].listener = 0
    /\ \A j \in DOMAIN mxMux : ~(mxMux[j].local = mxMux'[i].local /\ mxMux[j].port = mxMux'[i].port)

LEMMA JoinKeeps ==
    ASSUME MuxInv, MuxTypes', NEW s \in MuxSocks, Alone(s), NEW i \in MuxSocks, Joins(s, i), SameBut(i),
           OneMore(i) \/ NewOne(s, i)
    PROVE  MuxInv'
  <1>a. \A t \in MuxSocks : mxSock[t].mux \in MuxIDs /\ mxSock[t].status \in Statuses
    BY DEF MuxInv, MuxTypes, SockRecord
  <1>b. /\ mxSock[s].mux = 0 /\ s \notin DOMAIN mxMux /\ i # 0 /\ DOMAIN mxMux \subseteq MuxSocks
        /\ mxSock'[s].status \in BoundStatuses \ {"LISTENING"}
    BY DEF MuxInv, MuxTypes, Joins, HasQueues, MuxesCounted, MuxSocks
  <1>0. /\ \A t \in MuxSocks : mxSock[t].mux \in MuxIDs /\ mxSock[t].status \in Statuses
        /\ mxSock[s].mux = 0 /\ s \notin DOMAIN mxMux /\ i # 0 /\ DOMAIN mxMux \subseteq MuxSocks
        /\ mxSock'[s].status \in BoundStatuses \ {"LISTENING"}
    BY <1>a, <1>b
  <1>1. ASSUME NEW t \in MuxSocks PROVE HasQueues(t)'
    <2>1. CASE t = s
      BY <1>0, <2>1 DEF HasQueues, Joins, SameBut, BoundStatuses
    <2>2. CASE t # s
      <3>1. HasQueues(t) /\ mxSock'[t] = mxSock[t]
        BY <2>2 DEF MuxInv, Alone
      <3>2. mxSock[t].mux # 0 => /\ mxSock[t].mux \in DOMAIN mxMux'
                                 /\ mxMux'[mxSock[t].mux].local = mxMux[mxSock[t].mux].local
                                 /\ mxMux'[mxSock[t].mux].port = mxMux[mxSock[t].mux].port
        BY <1>0, <3>1 DEF HasQueues, SameBut, OneMore, NewOne
      <3> QED BY <3>1, <3>2 DEF HasQueues
    <2> QED BY <2>1, <2>2
  <1>2. ASSUME NEW j \in DOMAIN mxMux, j # i PROVE UsersOf(j)' = UsersOf(j)
    <2>1. \A t \in MuxSocks : t \in UsersOf(j)' <=> t \in UsersOf(j)
      BY <1>0, <1>2 DEF Joins, Alone, UsersOf, Undestroyed, MuxSocks
    <2> QED BY <2>1 DEF UsersOf, Undestroyed
  <1>3. UsersOf(i)' = UsersOf(i) \cup {s} /\ s \notin UsersOf(i)
    <2>1. \A t \in MuxSocks : t \in UsersOf(i)' <=> t \in UsersOf(i) \/ t = s
      BY <1>0 DEF Joins, Alone, UsersOf, Undestroyed, BoundStatuses
    <2> QED BY <1>0, <2>1 DEF UsersOf, Undestroyed
  <1>4. Cardinality(UsersOf(i)') = Cardinality(UsersOf(i)) + 1
    BY <1>3, UsersFinite, FS_AddElement
  <1>5. ASSUME NEW j \in DOMAIN mxMux'
        PROVE  mxSock'[j].status \notin {"none", "INIT"} /\ mxMux'[j].ref = Cardinality(UsersOf(j)') /\ mxMux'[j].ref > 0
    <2>1. CASE j # i
      <3>1. j \in DOMAIN mxMux /\ j # s /\ j \in MuxSocks /\ mxMux'[j] = mxMux[j]
        BY <1>0, <2>1 DEF SameBut
      <3> QED BY <1>2, <2>1, <3>1 DEF MuxInv, MuxesCounted, Alone
    <2>2. CASE j = i /\ OneMore(i)
      <3>1. j # s /\ mxSock'[j] = mxSock[j] /\ mxMux[i].ref = Cardinality(UsersOf(i)) /\ mxMux[i].ref > 0
        BY <1>0, <2>2 DEF OneMore, Alone, MuxInv, MuxesCounted
      <3>2. Cardinality(UsersOf(i)) \in Nat
        BY UsersFinite
      <3> QED BY <1>4, <2>2, <3>1, <3>2 DEF OneMore, MuxInv, MuxesCounted
    <2>3. CASE j = i /\ NewOne(s, i)
      <3>1. UsersOf(i) = {}
        BY <1>0, <2>3 DEF NewOne, UsersOf, Undestroyed, MuxInv, HasQueues
      <3>2. Cardinality(UsersOf(i)') = 1
        BY <1>4, <3>1, FS_EmptySet
      <3> QED BY <1>0, <2>3, <3>2 DEF NewOne, BoundStatuses
    <2> QED BY <2>1, <2>2, <2>3
  <1>6. MuxesCounted'
    BY <1>5 DEF MuxesCounted
  <1>7. OneOfAddress'
    BY <1>0 DEF MuxInv, OneOfAddress, SameBut, OneMore, NewOne
  <1>8. ASSUME NEW t \in MuxSocks, mxSock'[t].status = "LISTENING" PROVE mxMux'[mxSock'[t].mux].listener = t
    <2>1. t # s /\ mxSock'[t] = mxSock[t] /\ mxMux[mxSock[t].mux].listener = t /\ mxSock[t].mux \in DOMAIN mxMux
      BY <1>0, <1>8 DEF Alone, MuxInv, ListenersKnown, HasQueues, BoundStatuses
    <2> QED BY <1>0, <2>1 DEF SameBut, OneMore, NewOne
  <1>9. ASSUME NEW j \in DOMAIN mxMux' PROVE ListenerOf(j)'
    <2>1. CASE mxMux'[j].listener = 0
      BY <2>1 DEF ListenerOf
    <2>2. CASE mxMux'[j].listener # 0
      <3>1. j \in DOMAIN mxMux /\ mxMux'[j].listener = mxMux[j].listener
        BY <2>2 DEF SameBut, OneMore, NewOne
      <3>2. mxMux[j].listener \in MuxSocks
        BY <2>2, <3>1 DEF MuxInv, MuxTypes, MuxRecord, MuxIDs, MuxSocks
      <3> QED BY <2>2, <3>1, <3>2 DEF MuxInv, ListenersKnown, ListenerOf, Alone, Joins
    <2> QED BY <2>1, <2>2
  <1> QED BY <1>1, <1>6, <1>7, <1>8, <1>9 DEF MuxInv, ListenersKnown

(* The calls that bind a socket.                                           *)
LEMMA AddMuxKeeps ==
    ASSUME MuxInv, NEW s \in MuxSocks, mxSock[s].status = "INIT", NEW status \in {"OPENED", "CONNECTING"},
           NEW local \in Locals, NEW port \in Ports, PortFree(local, port), AddMux(s, status, local, port),
           UNCHANGED <<mxUsers, mxGC>>
    PROVE  /\ MuxInv' /\ Alone(s) /\ Joins(s, s) /\ SameBut(s) /\ mxSock'[s].mss = mxSock[s].mss
           /\ mxSock'[s].listenSock = mxSock[s].listenSock /\ mxMux'[s].mss = mxSock[s].mss
  <1>1. MuxTypes /\ status \in Statuses /\ mxSock[s] \in SockRecord /\ s \in MuxIDs
    BY UdtMuxAssumption DEF MuxInv, MuxTypes, Statuses, MuxSocks, MuxIDs
  <1>2. Bound(s, status, s, local, local, port)
    BY DEF AddMux, Bound
  <1>3. /\ mxSock' \in [MuxSocks -> SockRecord] /\ Alone(s)
        /\ mxSock'[s].status = status /\ mxSock'[s].mux = s /\ mxSock'[s].queues = s
        /\ mxSock'[s].self.local = local /\ mxSock'[s].self.port = port
        /\ mxSock'[s].mss = mxSock[s].mss /\ mxSock'[s].listenSock = mxSock[s].listenSock
    BY <1>1, <1>2, BoundSocket DEF Alone
  <1>4. /\ DOMAIN mxMux' = DOMAIN mxMux \cup {s} /\ s \notin DOMAIN mxMux
        /\ \A j \in DOMAIN mxMux : mxMux'[j] = mxMux[j]
        /\ mxMux'[s] = [mss |-> mxSock[s].mss, ref |-> 1, reusable |-> mxSock[s].reuse,
                        local |-> local, port |-> port, listener |-> 0]
    BY DEF AddMux, MuxInv, MuxesCounted
  <1>5. mxMux'[s] \in MuxRecord
    BY <1>1, <1>4, UdtMuxAssumption DEF SockRecord, MuxRecord, MuxIDs
  <1>6. MuxTypes'
    BY <1>1, <1>3, <1>4, <1>5 DEF MuxTypes
  <1>7. Joins(s, s) /\ SameBut(s) /\ NewOne(s, s)
    BY <1>3, <1>4 DEF Joins, SameBut, NewOne, BoundStatuses, PortFree
  <1>8. MuxInv'
    BY <1>3, <1>6, <1>7, JoinKeeps
  <1> QED BY <1>3, <1>4, <1>7, <1>8

(* The first of some multiplexers is one of them.                          *)
LEMMA FirstIsOne ==
    ASSUME NEW S, S \subseteq MuxSocks, S # {} PROVE FirstOf(S) \in S
  <1> DEFINE Above == {x..MaxSocks : x \in S}
  <1>1. Above \subseteq FiniteSubsetsOf(Nat) /\ Above # {}
    <2>1. \A x \in S : x..MaxSocks \in SUBSET Nat /\ IsFiniteSet(x..MaxSocks)
      BY FS_Interval, UdtMuxAssumption DEF MuxSocks
    <2> QED BY <2>1, Zenon DEF FiniteSubsetsOf
  <1>2. PICK B \in Above : \A C \in Above : <<C, B>> \notin StrictSubsetOrdering(Nat)
    <2> HIDE DEF Above
    <2> QED BY <1>1, FS_StrictSubsetOrderingWellFounded, WFMin
  <1>3. PICK x \in S : B = x..MaxSocks
    OBVIOUS
  <1>4. \A y \in S : y..MaxSocks \subseteq x..MaxSocks => y..MaxSocks = x..MaxSocks
    <2> TAKE y \in S
    <2>1. y..MaxSocks \in SUBSET Nat /\ x..MaxSocks \in SUBSET Nat
      BY DEF MuxSocks
    <2>2. <<y..MaxSocks, x..MaxSocks>> \notin StrictSubsetOrdering(Nat)
      BY <1>2, <1>3, Zenon
    <2>3. <<y..MaxSocks, x..MaxSocks>> \in (SUBSET Nat) \X (SUBSET Nat)
      BY <2>1, Zenon
    <2> QED BY <2>2, <2>3, Zenon DEF StrictSubsetOrdering
  <1>5. \A y \in S : y <= x
    BY <1>4, UdtMuxAssumption DEF MuxSocks
  <1> QED BY <1>5 DEF FirstOf

LEMMA ShareMuxKeeps ==
    ASSUME MuxInv, NEW s \in MuxSocks, mxSock[s].status = "INIT", NEW local \in Locals,
           NEW i \in DOMAIN mxMux, ShareMux(s, i, local), UNCHANGED <<mxUsers, mxGC>>
    PROVE  /\ MuxInv' /\ Alone(s) /\ Joins(s, i) /\ SameBut(i) /\ mxSock'[s].mss = mxSock[s].mss
           /\ mxSock'[s].listenSock = mxSock[s].listenSock /\ mxMux'[i].mss = mxMux[i].mss
  <1>1. MuxTypes /\ "OPENED" \in Statuses /\ i \in MuxSocks /\ mxMux[i] \in MuxRecord
    BY DEF MuxInv, MuxTypes, Statuses
  <1>2. Bound(s, "OPENED", i, local, mxMux[i].local, mxMux[i].port)
    BY DEF ShareMux, Bound
  <1>3. mxMux[i].local \in Locals /\ mxMux[i].port \in Ports /\ mxMux[i].ref \in Nat
    BY <1>1 DEF MuxRecord
  <1>4. /\ mxSock' \in [MuxSocks -> SockRecord] /\ Alone(s)
        /\ mxSock'[s].status = "OPENED" /\ mxSock'[s].mux = i /\ mxSock'[s].queues = i
        /\ mxSock'[s].self.local = mxMux[i].local /\ mxSock'[s].self.port = mxMux[i].port
        /\ mxSock'[s].mss = mxSock[s].mss /\ mxSock'[s].listenSock = mxSock[s].listenSock
    BY <1>1, <1>2, <1>3, BoundSocket DEF Alone
  <1>5. /\ DOMAIN mxMux' = DOMAIN mxMux /\ \A j \in DOMAIN mxMux : j # i => mxMux'[j] = mxMux[j]
        /\ mxMux'[i] = [mxMux[i] EXCEPT !.ref = @ + 1]
    BY DEF ShareMux
  <1>6. /\ mxMux'[i] \in MuxRecord /\ mxMux'[i].ref = mxMux[i].ref + 1 /\ mxMux'[i].mss = mxMux[i].mss
        /\ mxMux'[i].local = mxMux[i].local /\ mxMux'[i].port = mxMux[i].port
        /\ mxMux'[i].listener = mxMux[i].listener
    BY <1>1, <1>3, <1>5 DEF MuxRecord
  <1>7. MuxTypes'
    BY <1>1, <1>4, <1>5, <1>6 DEF MuxTypes
  <1>8. Joins(s, i) /\ SameBut(i) /\ OneMore(i)
    BY <1>4, <1>5, <1>6 DEF Joins, SameBut, OneMore, BoundStatuses
  <1>9. MuxInv'
    BY <1>1, <1>4, <1>7, <1>8, JoinKeeps
  <1> QED BY <1>4, <1>6, <1>8, <1>9

LEMMA AcceptKeeps ==
    ASSUME MuxInv, NEW ls \in MuxSocks, NEW size \in Sizes, Accept(ls, size)
    PROVE  /\ MuxInv'
           /\ \E s \in Next1, i \in ListenerMux(ls) :
                 /\ Alone(s) /\ Joins(s, i) /\ SameBut(i) /\ mxSock'[s].mss = size
                 /\ mxSock'[s].listenSock = ls /\ mxMux'[i].mss = mxMux[i].mss
  <1>1. PICK s \in Next1, status \in {"CONNECTED", "leaked"} :
          LET i == FirstOf(ListenerMux(ls))
          IN /\ mxMux' = [mxMux EXCEPT ![i].ref = @ + 1]
             /\ mxSock' = [mxSock EXCEPT ![s] = [Unmade EXCEPT
                              !.status = status, !.listenSock = ls, !.mss = size, !.opened = TRUE,
                              !.mux = i, !.queues = i,
                              !.self = [local |-> mxMux[i].local, port |-> mxMux[i].port]]]
    BY DEF Accept
  <1>2. PICK i : i = FirstOf(ListenerMux(ls))
    OBVIOUS
  <1>3. i \in ListenerMux(ls) /\ i \in DOMAIN mxMux /\ i \in MuxSocks /\ mxMux[i] \in MuxRecord /\ MuxTypes
    <2>1. mxSock[ls].mux \in ListenerMux(ls) /\ ListenerMux(ls) \subseteq MuxSocks
      BY DEF Accept, ListenerMux, MuxInv, MuxTypes, HasQueues, BoundStatuses
    <2>2. i \in ListenerMux(ls)
      BY <1>2, <2>1, FirstIsOne
    <2> QED BY <2>1, <2>2 DEF ListenerMux, MuxInv, MuxTypes
  <1>4. s \in MuxSocks /\ mxSock[s].status = "none"
    BY DEF Next1
  <1>5. PICK r : r = [Unmade EXCEPT !.status = status, !.listenSock = ls, !.mss = size, !.opened = TRUE,
                                    !.mux = i, !.queues = i,
                                    !.self = [local |-> mxMux[i].local, port |-> mxMux[i].port]]
    OBVIOUS
  <1>6. mxMux[i].local \in Locals /\ mxMux[i].port \in Ports /\ mxMux[i].ref \in Nat
    BY <1>3 DEF MuxRecord
  <1>7. r = [status |-> status, listenSock |-> ls, mss |-> size, reuse |-> TRUE, opened |-> TRUE, mux |-> i,
             queues |-> i, self |-> [local |-> mxMux[i].local, port |-> mxMux[i].port], asked |-> "any"]
    BY <1>5 DEF Unmade, NoAddr
  <1>8. r \in SockRecord
    <2>1. status \in Statuses /\ ls \in MuxIDs /\ size \in Nat /\ i \in MuxIDs
      BY <1>3, UdtMuxAssumption DEF Statuses, MuxIDs, MuxSocks
    <2>2. [local |-> mxMux[i].local, port |-> mxMux[i].port] \in [local : Locals \cup {"any"}, port : Nat]
      BY <1>6, UdtMuxAssumption
    <2> QED BY <1>7, <2>1, <2>2 DEF SockRecord
  <1>9. mxSock' = [mxSock EXCEPT ![s] = r] /\ mxMux' = [mxMux EXCEPT ![i].ref = @ + 1]
    BY <1>1, <1>2, <1>5
  <1>10. mxSock' \in [MuxSocks -> SockRecord] /\ Alone(s) /\ mxSock'[s] = r
    BY <1>3, <1>4, <1>8, <1>9 DEF MuxTypes, Alone
  <1>11. /\ DOMAIN mxMux' = DOMAIN mxMux /\ \A j \in DOMAIN mxMux : j # i => mxMux'[j] = mxMux[j]
         /\ mxMux'[i] = [mxMux[i] EXCEPT !.ref = @ + 1]
    BY <1>3, <1>9
  <1>12. /\ mxMux'[i] \in MuxRecord /\ mxMux'[i].ref = mxMux[i].ref + 1 /\ mxMux'[i].mss = mxMux[i].mss
         /\ mxMux'[i].local = mxMux[i].local /\ mxMux'[i].port = mxMux[i].port
         /\ mxMux'[i].listener = mxMux[i].listener
    BY <1>3, <1>6, <1>11 DEF MuxRecord
  <1>13. MuxTypes'
    BY <1>3, <1>10, <1>11, <1>12 DEF MuxTypes, Accept
  <1>14. Joins(s, i) /\ SameBut(i) /\ OneMore(i)
    <2>1. /\ mxSock'[s].status = status /\ mxSock'[s].mux = i /\ mxSock'[s].queues = i
          /\ mxSock'[s].self = [local |-> mxMux[i].local, port |-> mxMux[i].port]
      BY <1>7, <1>10
    <2>2. mxSock'[s].self.local = mxMux'[i].local /\ mxSock'[s].self.port = mxMux'[i].port
      BY <1>12, <2>1
    <2> QED BY <1>3, <1>4, <1>11, <1>12, <2>1, <2>2 DEF Joins, SameBut, OneMore, BoundStatuses
  <1>15. MuxInv'
    BY <1>3, <1>4, <1>10, <1>13, <1>14, JoinKeeps
  <1> QED BY <1>3, <1>7, <1>10, <1>12, <1>14, <1>15

(* The calls that change the status of a socket only.                      *)
StatusStep(s) ==
    /\ Alone(s) /\ Keeps(s) /\ mxMux' = mxMux
    /\ mxSock'[s].status \in Statuses \ {"none", "gone"}
    /\ mxSock'[s].status = "INIT" => mxSock[s].status \in {"none", "INIT"}
    /\ mxSock[s].status # "none" => /\ mxSock'[s].mss <= mxSock[s].mss
                                    /\ mxSock'[s].listenSock = mxSock[s].listenSock
    /\ mxSock[s].status = "none" => mxSock'[s].listenSock = 0

LEMMA NewSocketKeeps ==
    ASSUME MuxInv, NEW size \in Sizes, NEW reuse \in BOOLEAN, NewSocket(size, reuse)
    PROVE  MuxInv' /\ \E s \in MuxSocks : mxSock[s].status # "gone" /\ StatusStep(s)
  <1>1. PICK s \in Next1 :
          mxSock' = [mxSock EXCEPT ![s] = [Unmade EXCEPT !.status = "INIT", !.mss = size, !.reuse = reuse]]
    BY DEF NewSocket
  <1>2. s \in MuxSocks /\ mxSock[s].status = "none" /\ mxSock[s].mux = 0 /\ mxSock[s].queues = 0 /\ MuxTypes
    BY DEF Next1, MuxInv, HasQueues
  <1>3. PICK r : r = [Unmade EXCEPT !.status = "INIT", !.mss = size, !.reuse = reuse]
    OBVIOUS
  <1>4. r = [status |-> "INIT", listenSock |-> 0, mss |-> size, reuse |-> reuse, opened |-> FALSE, mux |-> 0,
             queues |-> 0, self |-> NoAddr, asked |-> "any"]
    BY <1>3 DEF Unmade
  <1>5. r \in SockRecord
    <2>1. "INIT" \in Statuses /\ 0 \in MuxIDs /\ size \in Nat /\ NoAddr \in [local : Locals \cup {"any"}, port : Nat]
      BY UdtMuxAssumption DEF Statuses, MuxIDs, NoAddr
    <2> QED BY <1>4, <2>1 DEF SockRecord
  <1>6. mxSock' \in [MuxSocks -> SockRecord] /\ Alone(s) /\ mxSock'[s] = r
    BY <1>1, <1>2, <1>3, <1>5 DEF MuxTypes, Alone
  <1>7. MuxTypes' /\ mxMux' = mxMux
    BY <1>2, <1>6 DEF MuxTypes, NewSocket
  <1>8. Keeps(s) /\ mxSock'[s].status = "INIT" /\ mxSock'[s].listenSock = 0
    BY <1>2, <1>4, <1>6 DEF Keeps
  <1>9. MuxInv'
    BY <1>2, <1>6, <1>7, <1>8, StatusKeeps
  <1> QED BY <1>2, <1>6, <1>7, <1>8, <1>9 DEF StatusStep, Statuses

\* What ConnectBound, ConnectDone, ConnectFailed and CloseSocket have in common.
Turns(s, status) ==
    /\ mxSock' \in [MuxSocks -> SockRecord] /\ Alone(s) /\ mxSock'[s].status = status
    /\ mxSock'[s].mux = mxSock[s].mux /\ mxSock'[s].queues = mxSock[s].queues
    /\ mxSock'[s].self = mxSock[s].self /\ mxSock'[s].listenSock = mxSock[s].listenSock
    /\ mxSock'[s].mss <= mxSock[s].mss

LEMMA StatusTurns ==
    ASSUME MuxTypes, NEW s \in MuxSocks, NEW status \in Statuses, mxSock' = [mxSock EXCEPT ![s].status = status]
    PROVE  Turns(s, status)
  <1>1. mxSock[s] \in SockRecord /\ mxSock[s].mss \in Nat
    BY DEF MuxTypes, SockRecord
  <1>2. PICK r : r = [mxSock[s] EXCEPT !.status = status]
    OBVIOUS
  <1>3. r \in SockRecord /\ r.mss = mxSock[s].mss /\ r.status = status /\ r.mux = mxSock[s].mux
        /\ r.queues = mxSock[s].queues /\ r.self = mxSock[s].self /\ r.listenSock = mxSock[s].listenSock
    BY <1>1, <1>2 DEF SockRecord
  <1>4. mxSock' = [mxSock EXCEPT ![s] = r]
    BY <1>2
  <1> QED BY <1>1, <1>3, <1>4 DEF MuxTypes, Turns, Alone

LEMMA TurnKeeps ==
    ASSUME MuxInv, NEW s \in MuxSocks, NEW status \in Statuses, Turns(s, status), UNCHANGED <<mxMux, mxUsers, mxGC>>,
           mxSock[s].status \in {"INIT", "OPENED", "LISTENING", "CONNECTING", "CONNECTED"},
           status \in {"OPENED", "CONNECTING", "CONNECTED", "CLOSED"},
           mxSock[s].status \in {"INIT", "LISTENING"} => status = "CLOSED"
    PROVE  MuxInv' /\ mxSock[s].status # "gone" /\ StatusStep(s)
  <1>1. MuxTypes' /\ Alone(s) /\ Keeps(s) /\ mxMux' = mxMux /\ mxSock'[s].status = status
    BY DEF MuxInv, MuxTypes, Turns, Keeps
  <1>2. MuxInv'
    BY <1>1, StatusKeeps
  <1> QED BY <1>1, <1>2 DEF StatusStep, Turns

LEMMA DoneTurns ==
    ASSUME MuxInv, NEW s \in MuxSocks, NEW size \in Sizes, ConnectDone(s, size)
    PROVE  Turns(s, "CONNECTED")
  <1>1. mxSock[s] \in SockRecord /\ size \in Nat /\ size <= mxSock[s].mss
    BY UdtMuxAssumption DEF MuxInv, MuxTypes, ConnectDone
  <1>2. PICK r : r = [mxSock[s] EXCEPT !.status = "CONNECTED", !.mss = size]
    OBVIOUS
  <1>3. r \in SockRecord /\ r.mss = size /\ r.status = "CONNECTED" /\ r.mux = mxSock[s].mux
        /\ r.queues = mxSock[s].queues /\ r.self = mxSock[s].self /\ r.listenSock = mxSock[s].listenSock
    BY <1>1, <1>2 DEF SockRecord, Statuses
  <1>4. mxSock' = [mxSock EXCEPT ![s] = r]
    BY <1>2 DEF ConnectDone
  <1> QED BY <1>1, <1>3, <1>4 DEF MuxInv, MuxTypes, Turns, Alone

LEMMA BindFailsKeeps ==
    ASSUME MuxInv, NEW s \in MuxSocks, mxSock[s].status = "INIT", BindFails(s), UNCHANGED <<mxUsers, mxGC>>
    PROVE  MuxInv' /\ mxSock[s].status # "gone" /\ StatusStep(s)
  <1>1. mxSock[s] \in SockRecord /\ mxSock[s].mss \in Nat
    BY DEF MuxInv, MuxTypes, SockRecord
  <1>2. PICK r : r = [mxSock[s] EXCEPT !.opened = TRUE]
    OBVIOUS
  <1>3. r \in SockRecord /\ r.mss = mxSock[s].mss /\ r.status = mxSock[s].status /\ r.mux = mxSock[s].mux
        /\ r.queues = mxSock[s].queues /\ r.self = mxSock[s].self /\ r.listenSock = mxSock[s].listenSock
    BY <1>1, <1>2 DEF SockRecord
  <1>4. mxSock' = [mxSock EXCEPT ![s] = r] /\ mxMux' = mxMux
    BY <1>2 DEF BindFails
  <1>5. MuxTypes' /\ Alone(s) /\ mxSock'[s] = r
    BY <1>3, <1>4 DEF MuxInv, MuxTypes, Alone
  <1>6. Keeps(s)
    BY <1>3, <1>5 DEF Keeps
  <1>7. MuxInv'
    BY <1>3, <1>4, <1>5, <1>6, StatusKeeps
  <1> QED BY <1>1, <1>3, <1>4, <1>5, <1>6, <1>7 DEF StatusStep, Statuses

LEMMA ListenSockKeeps ==
    ASSUME MuxInv, NEW s \in MuxSocks, ListenSock(s)
    PROVE  /\ MuxInv' /\ Turns(s, "LISTENING") /\ DOMAIN mxMux' = DOMAIN mxMux
           /\ \A j \in DOMAIN mxMux : mxMux'[j].mss = mxMux[j].mss
  <1>1. Turns(s, "LISTENING")
    BY StatusTurns DEF MuxInv, ListenSock, Statuses
  <1>2. PICK i : i = mxSock[s].mux
    OBVIOUS
  <1>3. /\ i \in DOMAIN mxMux /\ mxSock[s].queues = i /\ mxMux[i] \in MuxRecord /\ mxMux[i].listener = 0
        /\ s \in MuxIDs /\ i # 0
    BY <1>2 DEF MuxInv, MuxTypes, HasQueues, ListenSock, BoundStatuses, MuxIDs, MuxSocks
  <1>4. /\ DOMAIN mxMux' = DOMAIN mxMux /\ mxMux'[i] = [mxMux[i] EXCEPT !.listener = s]
        /\ \A j \in DOMAIN mxMux : j # i => mxMux'[j] = mxMux[j]
    BY <1>3 DEF ListenSock
  <1>5. /\ mxMux'[i] \in MuxRecord /\ mxMux'[i].listener = s /\ mxMux'[i].mss = mxMux[i].mss
        /\ mxMux'[i].ref = mxMux[i].ref /\ mxMux'[i].local = mxMux[i].local /\ mxMux'[i].port = mxMux[i].port
    BY <1>3, <1>4 DEF MuxRecord
  <1>6. /\ \A j \in DOMAIN mxMux : mxMux'[j].mss = mxMux[j].mss /\ mxMux'[j].ref = mxMux[j].ref
        /\ \A j \in DOMAIN mxMux : mxMux'[j].local = mxMux[j].local /\ mxMux'[j].port = mxMux[j].port
    BY <1>4, <1>5
  <1>7. MuxTypes'
    BY <1>1, <1>4, <1>5 DEF MuxInv, MuxTypes, Turns, ListenSock
  <1>8. ASSUME NEW t \in MuxSocks PROVE HasQueues(t)'
    <2>1. mxSock'[t].mux = mxSock[t].mux /\ mxSock'[t].queues = mxSock[t].queues /\ mxSock'[t].self = mxSock[t].self
      BY <1>1 DEF Turns, Alone
    <2>2. t = s \/ mxSock'[t].status = mxSock[t].status
      BY <1>1 DEF Turns, Alone
    <2> QED BY <1>1, <1>2, <1>3, <1>4, <1>6, <2>1, <2>2 DEF MuxInv, HasQueues, BoundStatuses, Turns
  <1>9. ASSUME NEW j \in DOMAIN mxMux PROVE UsersOf(j)' = UsersOf(j)
    <2>1. \A t \in MuxSocks : t \in UsersOf(j)' <=> t \in UsersOf(j)
      BY <1>1 DEF Turns, Alone, ListenSock, UsersOf, Undestroyed
    <2> QED BY <2>1 DEF UsersOf, Undestroyed
  <1>10. MuxesCounted'
    BY <1>1, <1>4, <1>6, <1>9 DEF MuxInv, MuxTypes, MuxesCounted, Turns, Alone
  <1>11. OneOfAddress'
    BY <1>4, <1>6 DEF MuxInv, OneOfAddress
  <1>12. ASSUME NEW t \in MuxSocks, mxSock'[t].status = "LISTENING" PROVE mxMux'[mxSock'[t].mux].listener = t
    <2>1. CASE t = s
      BY <1>1, <1>2, <1>5, <2>1 DEF Turns
    <2>2. CASE t # s
      <3>1. mxSock'[t] = mxSock[t] /\ mxMux[mxSock[t].mux].listener = t /\ mxSock[t].mux \in DOMAIN mxMux
        BY <1>1, <1>12, <2>2 DEF Turns, Alone, MuxInv, ListenersKnown, HasQueues, BoundStatuses
      <3> QED BY <1>3, <1>4, <3>1 DEF MuxSocks
    <2> QED BY <2>1, <2>2
  <1>13. ASSUME NEW j \in DOMAIN mxMux PROVE ListenerOf(j)'
    <2>1. CASE j = i
      BY <1>1, <1>2, <1>5, <2>1 DEF ListenerOf, Turns
    <2>2. CASE j # i
      <3>1. mxMux'[j] = mxMux[j] /\ ListenerOf(j) /\ mxMux[j].listener \in MuxIDs
        BY <1>4, <2>2 DEF MuxInv, MuxTypes, MuxRecord, ListenersKnown
      <3>2. mxMux[j].listener # s
        BY <1>2, <2>2, <3>1 DEF ListenerOf, MuxSocks, ListenSock
      <3> QED BY <1>1, <3>1, <3>2 DEF ListenerOf, Turns, Alone, MuxIDs, MuxSocks
    <2> QED BY <2>1, <2>2
  <1> QED BY <1>1, <1>4, <1>6, <1>7, <1>8, <1>10, <1>11, <1>12, <1>13 DEF MuxInv, ListenersKnown

LEMMA DestroyedRecord ==
    Destroyed \in SockRecord /\ Destroyed.status = "gone" /\ Destroyed.mux = 0 /\ Destroyed.queues = 0
  <1>1. PICK r : r = Destroyed
    OBVIOUS
  <1>2. r = [status |-> "gone", listenSock |-> 0, mss |-> 0, reuse |-> TRUE, opened |-> FALSE, mux |-> 0,
             queues |-> 0, self |-> NoAddr, asked |-> "any"]
    BY <1>1 DEF Destroyed, Unmade
  <1>3. "gone" \in Statuses /\ 0 \in MuxIDs /\ NoAddr \in [local : Locals \cup {"any"}, port : Nat]
    BY UdtMuxAssumption DEF Statuses, MuxIDs, NoAddr
  <1>4. r \in SockRecord /\ r.status = "gone" /\ r.mux = 0 /\ r.queues = 0
    BY <1>2, <1>3 DEF SockRecord
  <1> QED BY <1>1, <1>4

(* removeSocket: the multiplexer that the socket leaves has one user less, or goes. *)
LEMMA RemoveSockKeeps ==
    ASSUME MuxInv, NEW s \in MuxSocks, RemoveSock(s)
    PROVE  /\ MuxInv' /\ Alone(s) /\ mxSock'[s].status = "gone"
           /\ \A j \in DOMAIN mxMux' : j \in DOMAIN mxMux /\ mxMux'[j].mss = mxMux[j].mss
  <1>1. PICK i : i = mxSock[s].mux
    OBVIOUS
  <1>2. /\ MuxTypes /\ mxSock[s].status = "CLOSED" /\ HasQueues(s) /\ mxSock' = [mxSock EXCEPT ![s] = Destroyed]
        /\ i = 0 \/ i \in DOMAIN mxMux
    BY <1>1 DEF MuxInv, RemoveSock, HasQueues
  <1>3. Destroyed \in SockRecord /\ Destroyed.status = "gone" /\ Destroyed.mux = 0 /\ Destroyed.queues = 0
    BY DestroyedRecord
  <1>5. /\ mxSock' \in [MuxSocks -> SockRecord] /\ Alone(s) /\ mxSock'[s] = Destroyed
        /\ mxSock'[s].status = "gone" /\ mxSock'[s].mux = 0 /\ mxSock'[s].queues = 0
    BY <1>2, <1>3 DEF MuxTypes, Alone
  \* What becomes of the multiplexers.
  <1>6. /\ DOMAIN mxMux' \subseteq DOMAIN mxMux
        /\ \A j \in DOMAIN mxMux : j # i => j \in DOMAIN mxMux' /\ mxMux'[j] = mxMux[j]
    <2>1. CASE i \notin DOMAIN mxMux
      BY <1>1, <2>1 DEF RemoveSock
    <2>2. CASE i \in DOMAIN mxMux /\ mxMux[i].ref = 1
      BY <1>1, <2>2 DEF RemoveSock, Restrict
    <2>3. CASE i \in DOMAIN mxMux /\ mxMux[i].ref # 1
      <3>1. mxMux' = [mxMux EXCEPT ![i].ref = @ - 1, ![i].listener = IF @ = s THEN 0 ELSE @]
        BY <1>1, <2>3 DEF RemoveSock
      <3> QED BY <3>1
    <2> QED BY <2>1, <2>2, <2>3
  <1>7. ASSUME i \in DOMAIN mxMux'
        PROVE  /\ mxMux[i] \in MuxRecord /\ mxMux'[i] \in MuxRecord /\ mxMux[i].ref # 1
               /\ mxMux'[i].ref = mxMux[i].ref - 1 /\ mxMux'[i].mss = mxMux[i].mss
               /\ mxMux'[i].local = mxMux[i].local /\ mxMux'[i].port = mxMux[i].port
               /\ mxMux'[i].listener = IF mxMux[i].listener = s THEN 0 ELSE mxMux[i].listener
    <2>1. i \in DOMAIN mxMux /\ mxMux[i] \in MuxRecord /\ mxMux[i].ref \in Nat \ {0} /\ mxMux[i].listener \in MuxIDs
      BY <1>2, <1>6, <1>7 DEF MuxTypes, MuxRecord, MuxInv, MuxesCounted
    <2>2. mxMux[i].ref # 1
      BY <1>1, <1>7, <2>1 DEF RemoveSock, Restrict
    <2>3. mxMux' = [mxMux EXCEPT ![i].ref = @ - 1, ![i].listener = IF @ = s THEN 0 ELSE @]
      BY <1>1, <2>1, <2>2 DEF RemoveSock
    <2>4. PICK r : r = [mxMux[i] EXCEPT !.ref = mxMux[i].ref - 1]
      OBVIOUS
    <2>5. /\ r \in MuxRecord /\ r.ref = mxMux[i].ref - 1 /\ r.mss = mxMux[i].mss /\ r.local = mxMux[i].local
          /\ r.port = mxMux[i].port /\ r.listener = mxMux[i].listener
      BY <2>1, <2>2, <2>4 DEF MuxRecord
    <2>6. mxMux'[i] = [r EXCEPT !.listener = IF r.listener = s THEN 0 ELSE r.listener]
      BY <2>1, <2>3, <2>4, <2>5
    <2>7. (IF r.listener = s THEN 0 ELSE r.listener) \in MuxIDs
      BY <2>1, <2>5, UdtMuxAssumption DEF MuxIDs
    <2>8. /\ mxMux'[i] \in MuxRecord /\ mxMux'[i].ref = r.ref /\ mxMux'[i].mss = r.mss
          /\ mxMux'[i].local = r.local /\ mxMux'[i].port = r.port
          /\ mxMux'[i].listener = IF r.listener = s THEN 0 ELSE r.listener
      BY <2>5, <2>6, <2>7 DEF MuxRecord
    <2> QED BY <2>1, <2>2, <2>5, <2>8
  <1>8. MuxTypes'
    BY <1>2, <1>5, <1>6, <1>7 DEF MuxTypes, RemoveSock
  \* Its users.
  <1>9. ASSUME NEW j \in DOMAIN mxMux, j # i PROVE UsersOf(j)' = UsersOf(j)
    <2>1. j # 0
      BY <1>2 DEF MuxTypes, MuxSocks
    <2>2. \A t \in MuxSocks : t \in UsersOf(j)' <=> t \in UsersOf(j)
      BY <1>1, <1>2, <1>5, <1>9, <2>1 DEF Alone, UsersOf, Undestroyed
    <2> QED BY <2>2 DEF UsersOf, Undestroyed
  <1>10. i # 0 => UsersOf(i)' = UsersOf(i) \ {s} /\ s \in UsersOf(i)
    <2>1. i # 0 => \A t \in MuxSocks : t \in UsersOf(i)' <=> t \in UsersOf(i) /\ t # s
      BY <1>1, <1>2, <1>5 DEF Alone, UsersOf, Undestroyed
    <2> QED BY <1>1, <1>2, <2>1 DEF UsersOf, Undestroyed
  <1>11. i \in DOMAIN mxMux' => mxMux'[i].ref = Cardinality(UsersOf(i)') /\ mxMux'[i].ref > 0
    <2> SUFFICES ASSUME i \in DOMAIN mxMux' PROVE mxMux'[i].ref = Cardinality(UsersOf(i)') /\ mxMux'[i].ref > 0
      OBVIOUS
    <2>1. i \in DOMAIN mxMux /\ i # 0
      BY <1>2, <1>6 DEF MuxTypes, MuxSocks
    <2>2. mxMux[i].ref = Cardinality(UsersOf(i)) /\ mxMux[i].ref > 0 /\ mxMux[i].ref \in Nat
      BY <2>1, <1>2 DEF MuxInv, MuxesCounted, MuxTypes, MuxRecord
    <2>3. Cardinality(UsersOf(i)') = Cardinality(UsersOf(i)) - 1
      BY <1>10, <2>1, UsersFinite, FS_RemoveElement
    <2> QED BY <1>7, <2>2, <2>3
  \* A multiplexer that goes had no other user.
  <1>12. i # 0 /\ i \notin DOMAIN mxMux' => UsersOf(i) = {s}
    <2> SUFFICES ASSUME i # 0, i \notin DOMAIN mxMux' PROVE UsersOf(i) = {s}
      OBVIOUS
    <2>1. i \in DOMAIN mxMux /\ mxMux[i].ref = 1
      BY <1>1, <1>2 DEF RemoveSock
    <2>2. Cardinality(UsersOf(i)) = 1
      BY <2>1 DEF MuxInv, MuxesCounted
    <2>3. PICK t : UsersOf(i) = {t}
      BY <2>2, UsersFinite, FS_Singleton
    <2> QED BY <1>10, <2>3
  <1>13. ASSUME NEW t \in MuxSocks PROVE HasQueues(t)'
    <2>1. CASE t = s
      BY <1>5, <2>1 DEF HasQueues, BoundStatuses
    <2>2. CASE t # s
      <3>1. mxSock'[t] = mxSock[t] /\ HasQueues(t) /\ mxSock[t].status \in Statuses
        BY <1>2, <1>5, <2>2 DEF Alone, MuxInv, MuxTypes, SockRecord
      <3>2. mxSock[t].mux = i /\ i # 0 => i \in DOMAIN mxMux'
        BY <1>12, <2>2, <3>1 DEF UsersOf, Undestroyed, HasQueues
      <3>3. mxSock[t].mux # 0 => /\ mxSock[t].mux \in DOMAIN mxMux'
                                 /\ mxMux'[mxSock[t].mux].local = mxMux[mxSock[t].mux].local
                                 /\ mxMux'[mxSock[t].mux].port = mxMux[mxSock[t].mux].port
        BY <1>6, <1>7, <3>1, <3>2 DEF HasQueues
      <3> QED BY <3>1, <3>3 DEF HasQueues
    <2> QED BY <2>1, <2>2
  <1>14. MuxesCounted'
    <2>1. ASSUME NEW j \in DOMAIN mxMux' PROVE mxSock'[j].status \notin {"none", "INIT"}
      BY <1>2, <1>5, <1>6 DEF MuxInv, MuxTypes, MuxesCounted, Alone
    <2>2. ASSUME NEW j \in DOMAIN mxMux', j # i PROVE mxMux'[j].ref = Cardinality(UsersOf(j)') /\ mxMux'[j].ref > 0
      BY <1>6, <1>9, <2>2 DEF MuxInv, MuxesCounted
    <2> QED BY <1>11, <2>1, <2>2 DEF MuxesCounted
  <1>15. OneOfAddress'
    BY <1>6, <1>7 DEF MuxInv, OneOfAddress
  <1>16. ASSUME NEW t \in MuxSocks, mxSock'[t].status = "LISTENING" PROVE mxMux'[mxSock'[t].mux].listener = t
    <2>1. t # s /\ mxSock'[t] = mxSock[t] /\ mxMux[mxSock[t].mux].listener = t
      BY <1>5, <1>16 DEF Alone, MuxInv, ListenersKnown
    <2>2. mxSock[t].mux \in DOMAIN mxMux'
      BY <1>13, <1>16, <2>1 DEF HasQueues, BoundStatuses
    <2> QED BY <1>6, <1>7, <2>1, <2>2
  <1>17. ASSUME NEW j \in DOMAIN mxMux' PROVE ListenerOf(j)'
    <2>1. j \in DOMAIN mxMux /\ ListenerOf(j) /\ mxMux[j].listener \in MuxIDs
      BY <1>2, <1>6 DEF MuxInv, MuxTypes, MuxRecord, ListenersKnown
    <2>2. mxMux'[j].listener # 0 => mxMux'[j].listener = mxMux[j].listener /\ mxMux[j].listener # s
      <3>1. j # i => mxMux'[j].listener = mxMux[j].listener
        BY <1>6, <2>1
      <3>2. j # i /\ mxMux[j].listener # 0 => mxMux[j].listener # s
        BY <1>1, <2>1 DEF ListenerOf
      <3> QED BY <1>7, <3>1, <3>2
    <2> QED BY <1>5, <2>1, <2>2 DEF ListenerOf, Alone, MuxIDs, MuxSocks
  <1> QED BY <1>5, <1>6, <1>7, <1>8, <1>13, <1>14, <1>15, <1>16, <1>17 DEF MuxInv, ListenersKnown

(* cleanup destroys all but the sockets that newConnection forgot.         *)
LEMMA CleanupKeeps ==
    ASSUME MuxInv, Cleanup
    PROVE  /\ MuxInv'
           /\ \A t \in MuxSocks : mxSock'[t] \in {mxSock[t], Destroyed} /\ (mxSock'[t] # mxSock[t] => t \in Undestroyed)
           /\ \A j \in DOMAIN mxMux' : j \in DOMAIN mxMux /\ mxMux'[j].mss = mxMux[j].mss
  <1>1. CASE mxUsers > 1
    <2>1. UNCHANGED <<mxSock, mxMux, mxGC>> /\ mxUsers' \in Nat
      BY <1>1 DEF Cleanup, MuxInv, MuxTypes
    <2>2. MuxInv'
      BY <2>1 DEF MuxInv, MuxTypes, HasQueues, MuxesCounted, UsersOf, Undestroyed, OneOfAddress,
         ListenersKnown,
                  ListenerOf
    <2> QED BY <2>1, <2>2
  <1>2. CASE ~(mxUsers > 1)
    <2> DEFINE kept == {s \in Undestroyed : mxSock[s].status = "leaked"}
               left(i) == Cardinality({s \in kept : mxSock[s].mux = i})
    <2>1. /\ mxGC' = FALSE /\ mxUsers' \in Nat
          /\ mxSock' = [s \in MuxSocks |-> IF s \in Undestroyed \ kept THEN Destroyed ELSE mxSock[s]]
          /\ mxMux' = [i \in {j \in DOMAIN mxMux : left(j) > 0} |-> [mxMux[i] EXCEPT !.ref = left(i), !.listener = 0]]
      <3>1. mxUsers \in Nat /\ mxUsers > 0 /\ mxUsers' = mxUsers - 1
        BY DEF Cleanup, MuxInv, MuxTypes
      <3>2. mxUsers' \in Nat
        BY <3>1
      <3> QED BY <1>2, <3>2, Zenon DEF Cleanup
    <2>2. Destroyed \in SockRecord /\ Destroyed.status = "gone" /\ Destroyed.mux = 0 /\ Destroyed.queues = 0
      BY DestroyedRecord
    <2>3. ASSUME NEW t \in MuxSocks
          PROVE  /\ mxSock'[t] \in SockRecord /\ mxSock'[t] \in {mxSock[t], Destroyed}
                 /\ mxSock'[t] # mxSock[t] => t \in Undestroyed
                 /\ mxSock'[t].status \in {"none", "gone", "leaked"}
                 /\ mxSock'[t].status = "leaked" => mxSock'[t] = mxSock[t] /\ t \in kept
                 /\ t \in kept => mxSock'[t] = mxSock[t] /\ mxSock[t].status = "leaked"
                 /\ mxSock'[t].status = "none" => mxSock[t].status = "none"
      <3>1. mxSock[t] \in SockRecord
        BY DEF MuxInv, MuxTypes
      <3>2. mxSock'[t] = IF t \in Undestroyed \ kept THEN Destroyed ELSE mxSock[t]
        BY <2>1
      <3> HIDE DEF left
      <3> QED BY <2>2, <3>1, <3>2 DEF Undestroyed
    <2>4. ASSUME NEW i PROVE UsersOf(i)' = {s \in kept : mxSock[s].mux = i} /\ left(i) \in Nat
      <3>1. \A t \in MuxSocks : t \in UsersOf(i)' <=> t \in kept /\ mxSock[t].mux = i
        <4> HIDE DEF kept, left
        <4>1. \A t \in MuxSocks : t \in Undestroyed' <=> t \in kept
          BY <2>3 DEF Undestroyed
        <4> QED BY <2>3, <4>1 DEF UsersOf
      <3>2. UsersOf(i)' = {s \in kept : mxSock[s].mux = i}
        BY <3>1 DEF UsersOf, Undestroyed
      <3>3. {s \in kept : mxSock[s].mux = i} \subseteq UsersOf(i)
        BY DEF UsersOf
      <3>4. left(i) \in Nat
        BY <3>3, UsersFinite, FS_Subset, FS_CardinalityType
      <3> QED BY <3>2, <3>4
    <2>5. ASSUME NEW i \in DOMAIN mxMux'
          PROVE  /\ i \in DOMAIN mxMux /\ i \in MuxSocks /\ left(i) > 0 /\ mxMux'[i] \in MuxRecord
                 /\ mxMux'[i].ref = left(i) /\ mxMux'[i].listener = 0 /\ mxMux'[i].mss = mxMux[i].mss
                 /\ mxMux'[i].local = mxMux[i].local /\ mxMux'[i].port = mxMux[i].port
      <3>0. PICK n : n = left(i)
        OBVIOUS
      <3>1. i \in DOMAIN mxMux /\ n > 0 /\ n \in Nat /\ mxMux'[i] = [mxMux[i] EXCEPT !.ref = n, !.listener = 0]
        <4> HIDE DEF kept
        <4>1. n \in Nat
          BY <2>4, <3>0
        <4>2. left(i) > 0 /\ i \in DOMAIN mxMux /\ mxMux'[i] = [mxMux[i] EXCEPT !.ref = left(i), !.listener = 0]
          <5> HIDE DEF left
          <5> QED BY <2>1
        <4> QED BY <3>0, <4>1, <4>2
      <3>2. mxMux[i] \in MuxRecord /\ i \in MuxSocks /\ 0 \in MuxIDs
        BY <3>1, UdtMuxAssumption DEF MuxInv, MuxTypes, MuxIDs
      <3> HIDE DEF kept, left
      <3>3. /\ mxMux'[i] \in MuxRecord /\ mxMux'[i].ref = n /\ mxMux'[i].listener = 0
            /\ mxMux'[i].mss = mxMux[i].mss /\ mxMux'[i].local = mxMux[i].local /\ mxMux'[i].port = mxMux[i].port
        BY <3>1, <3>2 DEF MuxRecord
      <3> QED BY <3>0, <3>1, <3>2, <3>3
    <2>6. MuxTypes'
      <3> HIDE DEF kept, left
      <3>1. mxSock' \in [MuxSocks -> SockRecord]
        BY <2>1, <2>3
      <3> QED BY <2>1, <2>5, <3>1 DEF MuxTypes
    <2>7. ASSUME NEW t \in MuxSocks PROVE HasQueues(t)'
      <3>1. CASE mxSock'[t] = Destroyed
        BY <2>2, <3>1 DEF HasQueues, BoundStatuses
      <3>2. CASE mxSock'[t] = mxSock[t] /\ t \notin kept
        <4> HIDE DEF kept, left
        <4>1. mxSock[t].status \in {"none", "gone"}
          BY <2>3, <3>2
        <4> QED BY <3>2, <4>1 DEF HasQueues, MuxInv, BoundStatuses
      <3>3. CASE mxSock'[t] = mxSock[t] /\ t \in kept
        <4>1. PICK i : i = mxSock[t].mux
          OBVIOUS
        <4>2. i \in DOMAIN mxMux /\ HasQueues(t) /\ i # 0
          BY <3>3, <4>1 DEF MuxInv, HasQueues, BoundStatuses
        <4>3. t \in UsersOf(i)'
          <5>1. t \in {s \in kept : mxSock[s].mux = i}
            BY <3>3, <4>1
          <5> QED BY <2>4, <5>1
        <4>4. left(i) > 0
          <5>1. UsersOf(i) # {} /\ UsersOf(i)' # {}
            BY <3>3, <4>1, <4>3 DEF UsersOf
          <5>2. {s \in kept : mxSock[s].mux = i} \subseteq UsersOf(i) /\ {s \in kept : mxSock[s].mux = i} # {}
            BY <2>4, <5>1 DEF UsersOf
          <5>3. IsFiniteSet({s \in kept : mxSock[s].mux = i})
            BY <5>2, UsersFinite, FS_Subset
          <5>4. Cardinality({s \in kept : mxSock[s].mux = i}) # 0
            BY <5>2, <5>3, FS_EmptySet
          <5>5. PICK n : n = left(i)
            OBVIOUS
          <5>6. n \in Nat /\ n # 0
            BY <2>4, <5>4, <5>5
          <5>7. n > 0
            BY <5>6
          <5> QED BY <5>5, <5>7
        <4>5. i \in DOMAIN mxMux'
          <5> HIDE DEF left
          <5> QED BY <2>1, <4>2, <4>4
        <4> QED BY <2>5, <3>3, <4>1, <4>2, <4>5 DEF HasQueues
      <3> QED BY <2>3, <3>1, <3>2, <3>3
    <2>8. MuxesCounted'
      <3>1. ASSUME NEW i \in DOMAIN mxMux' PROVE mxSock'[i].status \notin {"none", "INIT"}
        <4> HIDE DEF kept, left
        <4> QED BY <2>3, <2>5 DEF MuxInv, MuxesCounted
      <3>2. ASSUME NEW i \in DOMAIN mxMux' PROVE mxMux'[i].ref = Cardinality(UsersOf(i)') /\ mxMux'[i].ref > 0
        BY <2>4, <2>5
      <3> QED BY <3>1, <3>2 DEF MuxesCounted
    <2>9. OneOfAddress'
      BY <2>5 DEF MuxInv, OneOfAddress
    <2>10. ListenersKnown'
      <3> HIDE DEF kept, left
      <3>1. \A t \in MuxSocks : mxSock'[t].status # "LISTENING"
        BY <2>3
      <3>2. \A i \in DOMAIN mxMux' : ListenerOf(i)'
        BY <2>5 DEF ListenerOf
      <3> QED BY <3>1, <3>2 DEF ListenersKnown
    <2>11. MuxInv'
      BY <2>6, <2>7, <2>8, <2>9, <2>10 DEF MuxInv
    <2> QED BY <2>3, <2>5, <2>11
  <1> QED BY <1>1, <1>2

LEMMA MuxStarts == ASSUME UdtMuxInit PROVE MuxInv /\ MuxFits
  <1>1. DOMAIN mxMux = {} /\ mxUsers = 0 /\ mxGC = FALSE /\ mxSock = [s \in MuxSocks |-> Unmade]
    BY DEF UdtMuxInit
  <1>2. /\ Unmade.status = "none" /\ Unmade.mux = 0 /\ Unmade.queues = 0 /\ Unmade \in SockRecord
    <2>1. PICK r : r = Unmade
      OBVIOUS
    <2>2. r = [status |-> "none", listenSock |-> 0, mss |-> 0, reuse |-> TRUE, opened |-> FALSE, mux |-> 0,
               queues |-> 0, self |-> NoAddr, asked |-> "any"]
      BY <2>1 DEF Unmade
    <2>3. "none" \in Statuses /\ 0 \in MuxIDs /\ NoAddr \in [local : Locals \cup {"any"}, port : Nat]
      BY UdtMuxAssumption DEF Statuses, MuxIDs, NoAddr
    <2>4. r \in SockRecord /\ r.status = "none" /\ r.mux = 0 /\ r.queues = 0
      BY <2>2, <2>3 DEF SockRecord
    <2> QED BY <2>1, <2>4
  <1>3. MuxTypes
    BY <1>1, <1>2 DEF MuxTypes
  <1>4. \A s \in MuxSocks : HasQueues(s) /\ mxSock[s].status # "LISTENING" /\ s \notin Undestroyed
    BY <1>1, <1>2 DEF HasQueues, BoundStatuses, Undestroyed
  <1>5. MuxesCounted /\ OneOfAddress /\ ListenersKnown
    BY <1>1, <1>4 DEF MuxesCounted, OneOfAddress, ListenersKnown
  <1> QED BY <1>3, <1>4, <1>5 DEF MuxInv, MuxFits, Undestroyed

LEMMA BindKeeps ==
    ASSUME MuxInv, NEW s \in MuxSocks, NEW local \in Locals, NEW port \in Ports, Bind(s, local, port)
    PROVE  MuxInv'
  <1>1. mxSock[s].status = "INIT" /\ UNCHANGED <<mxUsers, mxGC>>
    BY DEF Bind
  <1> DEFINE shared == IF mxSock[s].reuse THEN Reusable(s, port) ELSE {}
  <1>2. \/ shared # {} /\ ShareMux(s, FirstOf(shared), local)
        \/ PortFree(local, port) /\ AddMux(s, "OPENED", local, port)
        \/ BindFails(s)
    BY DEF Bind
  <1>3. CASE shared # {} /\ ShareMux(s, FirstOf(shared), local)
    <2>1. FirstOf(shared) \in shared /\ shared \subseteq DOMAIN mxMux
      BY <1>3, FirstIsOne DEF Reusable, MuxInv, MuxTypes
    <2>2. PICK i \in DOMAIN mxMux : i = FirstOf(shared)
      BY <2>1
    <2> HIDE DEF shared
    <2> QED BY <1>1, <1>3, <2>2, ShareMuxKeeps
  <1> HIDE DEF shared
  <1>4. CASE PortFree(local, port) /\ AddMux(s, "OPENED", local, port)
    BY <1>1, <1>4, AddMuxKeeps
  <1>5. CASE BindFails(s)
    BY <1>1, <1>5, BindFailsKeeps
  <1> QED BY <1>2, <1>3, <1>4, <1>5

LEMMA MuxStep == ASSUME MuxInv, UdtMuxNext PROVE MuxInv'
  <1>1. ASSUME Startup PROVE MuxInv'
    BY <1>1 DEF Startup, MuxInv, MuxTypes, HasQueues, MuxesCounted, UsersOf, Undestroyed, OneOfAddress,
                ListenersKnown, ListenerOf
  <1>2. ASSUME NEW size \in Sizes, NEW reuse \in BOOLEAN, NewSocket(size, reuse) PROVE MuxInv'
    BY <1>2, NewSocketKeeps
  <1>3. ASSUME NEW s \in MuxSocks, NEW l \in Locals, BindAny(s, l) PROVE MuxInv'
    BY <1>3, AddMuxKeeps DEF BindAny
  <1>4. ASSUME NEW s \in MuxSocks, ConnectUnbound(s) PROVE MuxInv'
    BY <1>4, AddMuxKeeps DEF ConnectUnbound
  <1>5. ASSUME NEW s \in MuxSocks, ConnectBound(s) PROVE MuxInv'
    <2>1. Turns(s, "CONNECTING") /\ mxSock[s].status = "OPENED" /\ UNCHANGED <<mxMux, mxUsers, mxGC>>
      BY <1>5, StatusTurns DEF ConnectBound, MuxInv, Statuses
    <2> QED BY <2>1, TurnKeeps DEF Statuses
  <1>6. ASSUME NEW s \in MuxSocks, ConnectFailed(s) PROVE MuxInv'
    <2>1. Turns(s, "OPENED") /\ mxSock[s].status = "CONNECTING" /\ UNCHANGED <<mxMux, mxUsers, mxGC>>
      BY <1>6, StatusTurns DEF ConnectFailed, MuxInv, Statuses
    <2> QED BY <2>1, TurnKeeps DEF Statuses
  <1>7. ASSUME NEW s \in MuxSocks, CloseSocket(s) PROVE MuxInv'
    <2>1. /\ Turns(s, "CLOSED") /\ UNCHANGED <<mxMux, mxUsers, mxGC>>
          /\ mxSock[s].status \in {"INIT", "OPENED", "LISTENING", "CONNECTING", "CONNECTED"}
      BY <1>7, StatusTurns DEF CloseSocket, MuxInv, Statuses
    <2> QED BY <2>1, TurnKeeps DEF Statuses
  <1>8. ASSUME NEW s \in MuxSocks, NEW size \in Sizes, ConnectDone(s, size) PROVE MuxInv'
    <2>1. Turns(s, "CONNECTED") /\ mxSock[s].status = "CONNECTING" /\ UNCHANGED <<mxMux, mxUsers, mxGC>>
      BY <1>8, DoneTurns DEF ConnectDone
    <2> QED BY <2>1, TurnKeeps DEF Statuses
  <1> QED BY <1>1, <1>2, <1>3, <1>4, <1>5, <1>6, <1>7, <1>8, BindKeeps, ListenSockKeeps, AcceptKeeps,
             RemoveSockKeeps, CleanupKeeps, Zenon DEF UdtMuxNext

LEMMA MuxRests == ASSUME UNCHANGED udtMuxVars PROVE (MuxInv => MuxInv') /\ (MuxFits => MuxFits')
  BY DEF udtMuxVars, MuxInv, MuxTypes, HasQueues, MuxesCounted, UsersOf, Undestroyed, OneOfAddress,
     ListenersKnown,
         ListenerOf, MuxFits, SockFits, FitsOwn, AsListener

(* What a step of one socket must not do to the others.                    *)
LEMMA FitsKeep ==
    ASSUME MuxInv, MuxInv', MuxFits, NEW s \in MuxSocks, Alone(s),
           \A j \in DOMAIN mxMux : j \in DOMAIN mxMux' => mxMux'[j].mss = mxMux[j].mss,
           mxSock[s].status # "gone", mxSock'[s].status # "none",
           mxSock'[s].status = "INIT" => mxSock[s].status \in {"none", "INIT"},
           mxSock[s].status \notin {"none", "INIT"} /\ s \in Undestroyed' => mxSock'[s].mux = mxSock[s].mux,
           s \in Undestroyed' => SockFits(s)'
    PROVE  MuxFits'
  <1>1. ASSUME NEW t \in Undestroyed', t # s PROVE SockFits(t)'
    <2>1. /\ t \in MuxSocks /\ mxSock'[t] = mxSock[t] /\ t \in Undestroyed /\ SockFits(t)
          /\ HasQueues(t) /\ HasQueues(t)' /\ mxSock[t].listenSock \in MuxIDs
      BY <1>1 DEF Undestroyed, Alone, MuxFits, MuxInv, MuxTypes, SockRecord
    <2>2. FitsOwn(t)'
      BY <2>1 DEF SockFits, FitsOwn, HasQueues
    <2>3. AsListener(t)'
      <3>1. PICK ls : ls = mxSock[t].listenSock
        OBVIOUS
      <3>2. CASE ls = 0
        BY <2>1, <3>1, <3>2 DEF AsListener
      <3>3. CASE ls # 0 /\ ls # s
        BY <2>1, <3>1, <3>3 DEF AsListener, SockFits, Alone, MuxIDs, MuxSocks, Undestroyed
      <3>4. CASE ls = s /\ ls # 0
        <4>1. mxSock[s].status \notin {"none", "INIT"} /\ (s \in Undestroyed => mxSock[s].mux = mxSock[t].mux)
          BY <2>1, <3>1, <3>4 DEF AsListener, SockFits
        <4> QED BY <2>1, <3>1, <3>4, <4>1 DEF AsListener, Undestroyed
      <3> QED BY <3>2, <3>3, <3>4
    <2> QED BY <2>1, <2>2, <2>3 DEF SockFits
  <1> QED BY <1>1 DEF MuxFits

LEMMA StatusFits ==
    ASSUME MuxInv, MuxInv', MuxFits, NEW s \in MuxSocks, mxSock[s].status # "gone", StatusStep(s)
    PROVE  MuxFits'
  <1>1. ASSUME s \in Undestroyed' PROVE SockFits(s)'
    <2>1. CASE mxSock[s].status = "none"
      <3>1. mxSock'[s].mux = 0 /\ mxSock'[s].listenSock = 0
        BY <2>1 DEF StatusStep, Keeps, MuxInv, HasQueues
      <3> QED BY <3>1 DEF SockFits, FitsOwn, AsListener
    <2>2. CASE mxSock[s].status # "none"
      <3>1. /\ s \in Undestroyed /\ SockFits(s) /\ HasQueues(s) /\ mxSock'[s].mss <= mxSock[s].mss
            /\ mxSock'[s].listenSock = mxSock[s].listenSock /\ mxSock'[s].mux = mxSock[s].mux /\ mxMux' = mxMux
            /\ mxSock'[s].status = "INIT" => mxSock[s].status = "INIT"
        BY <2>2 DEF StatusStep, Keeps, Undestroyed, MuxFits, MuxInv
      <3>2. /\ mxSock[s].mss \in Nat /\ mxSock'[s].mss \in Nat /\ mxSock[s].listenSock \in MuxIDs
            /\ mxSock[s].mux \in DOMAIN mxMux => mxMux[mxSock[s].mux].mss \in Nat
        BY DEF MuxInv, MuxTypes, SockRecord, MuxRecord
      <3>3. FitsOwn(s)'
        BY <3>1, <3>2 DEF SockFits, FitsOwn, HasQueues
      <3>4. AsListener(s)'
        <4>1. PICK ls : ls = mxSock[s].listenSock
          OBVIOUS
        <4>2. ls # s => mxSock'[ls] = mxSock[ls] \/ ls = 0
          BY <3>2, <4>1 DEF StatusStep, Alone, MuxIDs, MuxSocks
        <4> QED BY <2>2, <3>1, <4>1, <4>2 DEF AsListener, SockFits, Undestroyed, StatusStep
      <3> QED BY <3>1, <3>3, <3>4 DEF SockFits
    <2> QED BY <2>1, <2>2
  <1> QED BY <1>1, FitsKeep DEF StatusStep, Keeps

LEMMA JoinFits ==
    ASSUME MuxInv, MuxInv', MuxFits, NEW s \in MuxSocks, NEW i \in MuxSocks, Alone(s), Joins(s, i), SameBut(i),
           mxSock'[s].mss <= mxMux'[i].mss, i \in DOMAIN mxMux => mxMux'[i].mss = mxMux[i].mss,
           NEW ls \in MuxIDs, mxSock'[s].listenSock = ls,
           ls # 0 => ls # s /\ mxSock[ls].status \notin {"none", "INIT"} /\ mxSock[ls].mux = i
    PROVE  MuxFits'
  <1>1. FitsOwn(s)' /\ mxSock'[s].status # "INIT"
    BY DEF FitsOwn, Joins, BoundStatuses
  <1>2. AsListener(s)'
    BY DEF AsListener, Joins, Alone, MuxIDs, MuxSocks
  <1>3. SockFits(s)'
    BY <1>1, <1>2 DEF SockFits
  <1>4. \A j \in DOMAIN mxMux : j \in DOMAIN mxMux' => mxMux'[j].mss = mxMux[j].mss
    BY DEF SameBut
  <1> QED BY <1>3, <1>4, FitsKeep DEF Joins, BoundStatuses

\* A socket before bind was not accepted.
LEMMA InitUnaccepted ==
    ASSUME MuxInv, MuxFits, NEW s \in MuxSocks, mxSock[s].status = "INIT"
    PROVE  mxSock[s].listenSock = 0 /\ 0 \in MuxIDs /\ mxSock[s].mss \in Nat
  <1>1. s \in Undestroyed
    BY DEF Undestroyed
  <1> QED BY <1>1, UdtMuxAssumption DEF MuxFits, SockFits, MuxIDs, MuxInv, MuxTypes, SockRecord

LEMMA AddMuxFits ==
    ASSUME MuxInv, MuxFits, NEW s \in MuxSocks, mxSock[s].status = "INIT", NEW status \in {"OPENED", "CONNECTING"},
           NEW local \in Locals, NEW port \in Ports, PortFree(local, port), AddMux(s, status, local, port),
           UNCHANGED <<mxUsers, mxGC>>
    PROVE  MuxFits'
  <1>1. /\ MuxInv' /\ Alone(s) /\ Joins(s, s) /\ SameBut(s) /\ mxSock'[s].mss = mxSock[s].mss
        /\ mxSock'[s].listenSock = mxSock[s].listenSock /\ mxMux'[s].mss = mxSock[s].mss
    BY AddMuxKeeps
  <1>2. s \notin DOMAIN mxMux
    BY DEF MuxInv, MuxesCounted
  <1>3. mxSock'[s].mss <= mxMux'[s].mss
    BY <1>1, InitUnaccepted
  <1> QED BY <1>1, <1>2, <1>3, InitUnaccepted, JoinFits

LEMMA BindFits ==
    ASSUME MuxInv, MuxFits, NEW s \in MuxSocks, NEW local \in Locals, NEW port \in Ports, Bind(s, local, port)
    PROVE  MuxFits'
  <1>1. mxSock[s].status = "INIT" /\ UNCHANGED <<mxUsers, mxGC>>
    BY DEF Bind
  <1> DEFINE shared == IF mxSock[s].reuse THEN Reusable(s, port) ELSE {}
  <1>2. \/ shared # {} /\ ShareMux(s, FirstOf(shared), local)
        \/ PortFree(local, port) /\ AddMux(s, "OPENED", local, port)
        \/ BindFails(s)
    BY DEF Bind
  <1>3. CASE shared # {} /\ ShareMux(s, FirstOf(shared), local)
    <2>1. FirstOf(shared) \in shared /\ shared \subseteq DOMAIN mxMux
      BY <1>3, FirstIsOne DEF Reusable, MuxInv, MuxTypes
    <2>2. PICK i \in DOMAIN mxMux : i = FirstOf(shared) /\ mxMux[i].mss = mxSock[s].mss /\ i \in MuxSocks
      BY <2>1 DEF Reusable, MuxInv, MuxTypes
    <2> HIDE DEF shared
    <2>3. /\ MuxInv' /\ Alone(s) /\ Joins(s, i) /\ SameBut(i) /\ mxSock'[s].mss = mxSock[s].mss
          /\ mxSock'[s].listenSock = mxSock[s].listenSock /\ mxMux'[i].mss = mxMux[i].mss
      BY <1>1, <1>3, <2>2, ShareMuxKeeps
    <2>4. mxSock'[s].mss <= mxMux'[i].mss
      BY <1>1, <2>2, <2>3, InitUnaccepted
    <2> QED BY <1>1, <2>2, <2>3, <2>4, InitUnaccepted, JoinFits
  <1> HIDE DEF shared
  <1>4. CASE PortFree(local, port) /\ AddMux(s, "OPENED", local, port)
    BY <1>1, <1>4, AddMuxFits
  <1>5. CASE BindFails(s)
    BY <1>1, <1>5, BindFailsKeeps, StatusFits
  <1> QED BY <1>2, <1>3, <1>4, <1>5

LEMMA AcceptFits ==
    ASSUME \A l, m \in Locals : l = m, MuxInv, MuxFits, NEW ls \in MuxSocks, NEW size \in Sizes, Accept(ls, size)
    PROVE  MuxFits'
  <1>1. PICK s \in Next1, i \in ListenerMux(ls) :
          /\ Alone(s) /\ Joins(s, i) /\ SameBut(i) /\ mxSock'[s].mss = size
          /\ mxSock'[s].listenSock = ls /\ mxMux'[i].mss = mxMux[i].mss
    BY AcceptKeeps
  <1>2. s \in MuxSocks /\ mxSock[s].status = "none" /\ i \in DOMAIN mxMux /\ i \in MuxSocks /\ ls # 0 /\ ls \in MuxIDs
    BY DEF Next1, ListenerMux, MuxInv, MuxTypes, MuxSocks, MuxIDs
  <1>3. /\ mxSock[ls].status = "LISTENING" /\ size <= mxSock[ls].mss /\ ls \in Undestroyed
        /\ mxSock[ls].mux \in DOMAIN mxMux /\ mxSock[ls].mux # 0
    BY DEF Accept, Undestroyed, MuxInv, HasQueues, BoundStatuses
  <1>4. i = mxSock[ls].mux
    <2>1. mxMux[i].port = mxMux[mxSock[ls].mux].port
      BY <1>3 DEF ListenerMux, MuxInv, HasQueues
    <2>2. mxMux[i].local \in Locals /\ mxMux[mxSock[ls].mux].local \in Locals
      BY <1>2, <1>3 DEF MuxInv, MuxTypes, MuxRecord
    <2>3. mxMux[i].local = mxMux[mxSock[ls].mux].local
      BY <2>2
    <2> QED BY <1>2, <1>3, <2>1, <2>3 DEF MuxInv, OneOfAddress
  <1>5. size <= mxMux'[i].mss
    <2>1. mxSock[ls].mss <= mxMux[i].mss
      BY <1>3, <1>4 DEF MuxFits, SockFits, FitsOwn
    <2>2. mxSock[ls].mss \in Nat /\ mxMux[i].mss \in Nat /\ size \in Nat
      BY <1>2, UdtMuxAssumption DEF MuxInv, MuxTypes, SockRecord, MuxRecord
    <2> QED BY <1>1, <1>3, <2>1, <2>2
  <1>6. MuxInv'
    BY AcceptKeeps
  <1> QED BY <1>1, <1>2, <1>3, <1>4, <1>5, <1>6, JoinFits

LEMMA ListenSockFits ==
    ASSUME MuxInv, MuxFits, NEW s \in MuxSocks, ListenSock(s)
    PROVE  MuxFits'
  <1>1. /\ MuxInv' /\ Turns(s, "LISTENING") /\ DOMAIN mxMux' = DOMAIN mxMux
        /\ \A j \in DOMAIN mxMux : mxMux'[j].mss = mxMux[j].mss
    BY ListenSockKeeps
  <1>2. mxSock[s].status = "OPENED" /\ s \in Undestroyed /\ SockFits(s) /\ HasQueues(s)
    BY DEF ListenSock, Undestroyed, MuxFits, MuxInv
  <1>3. SockFits(s)'
    <2>1. /\ mxSock[s].mss \in Nat /\ mxSock'[s].mss \in Nat /\ mxSock[s].listenSock \in MuxIDs
          /\ mxSock[s].mux \in DOMAIN mxMux => mxMux[mxSock[s].mux].mss \in Nat
      BY <1>1 DEF MuxInv, MuxTypes, SockRecord, MuxRecord, Turns
    <2>2. FitsOwn(s)'
      BY <1>1, <1>2, <2>1 DEF SockFits, FitsOwn, HasQueues, Turns
    <2>3. AsListener(s)'
      <3>1. PICK ls : ls = mxSock[s].listenSock
        OBVIOUS
      <3>2. ls # s => mxSock'[ls] = mxSock[ls] \/ ls = 0
        BY <1>1, <2>1, <3>1 DEF Turns, Alone, MuxIDs, MuxSocks
      <3> QED BY <1>1, <1>2, <3>1, <3>2 DEF AsListener, SockFits, Undestroyed, Turns
    <2> QED BY <1>1, <2>2, <2>3 DEF SockFits, Turns
  <1> QED BY <1>1, <1>2, <1>3, FitsKeep DEF Turns

LEMMA RemoveSockFits ==
    ASSUME MuxInv, MuxFits, NEW s \in MuxSocks, RemoveSock(s)
    PROVE  MuxFits'
  <1>1. /\ MuxInv' /\ Alone(s) /\ mxSock'[s].status = "gone"
        /\ \A j \in DOMAIN mxMux' : j \in DOMAIN mxMux /\ mxMux'[j].mss = mxMux[j].mss
    BY RemoveSockKeeps
  <1>2. mxSock[s].status = "CLOSED" /\ s \notin Undestroyed'
    BY <1>1 DEF RemoveSock, Undestroyed
  <1> QED BY <1>1, <1>2, FitsKeep

LEMMA CleanupFits == ASSUME MuxInv, MuxFits, Cleanup PROVE MuxFits'
  <1>1. /\ MuxInv'
        /\ \A t \in MuxSocks : mxSock'[t] \in {mxSock[t], Destroyed} /\ (mxSock'[t] # mxSock[t] => t \in Undestroyed)
        /\ \A j \in DOMAIN mxMux' : j \in DOMAIN mxMux /\ mxMux'[j].mss = mxMux[j].mss
    BY CleanupKeeps
  <1>2. Destroyed.status = "gone"
    BY DestroyedRecord
  <1>3. ASSUME NEW t \in Undestroyed' PROVE SockFits(t)'
    <2>1. t \in MuxSocks /\ mxSock'[t] = mxSock[t] /\ t \in Undestroyed /\ HasQueues(t)'
      BY <1>1, <1>2 DEF Undestroyed, MuxInv
    <2>2. SockFits(t) /\ mxSock[t].listenSock \in MuxIDs
      BY <2>1 DEF MuxFits, MuxInv, MuxTypes, SockRecord
    <2>3. FitsOwn(t)'
      BY <1>1, <2>1, <2>2 DEF SockFits, FitsOwn, HasQueues
    <2>4. AsListener(t)'
      <3>1. PICK ls : ls = mxSock[t].listenSock
        OBVIOUS
      <3>2. ls # 0 => /\ ls \in MuxSocks /\ mxSock[ls].status \notin {"none", "INIT"}
                      /\ mxSock'[ls] \in {mxSock[ls], Destroyed} /\ (ls \in Undestroyed => mxSock[ls].mux = mxSock[t].mux)
        BY <1>1, <2>2, <3>1 DEF SockFits, AsListener, MuxIDs, MuxSocks
      <3> QED BY <1>2, <2>1, <3>1, <3>2 DEF AsListener, Undestroyed
    <2> QED BY <2>1, <2>2, <2>3, <2>4 DEF SockFits
  <1> QED BY <1>3 DEF MuxFits

LEMMA MuxFitsStep ==
    ASSUME \A l, m \in Locals : l = m, MuxInv, MuxFits, UdtMuxNext
    PROVE  MuxFits'
  <1>1. ASSUME Startup PROVE MuxFits'
    BY <1>1 DEF Startup, MuxFits, SockFits, FitsOwn, AsListener, Undestroyed
  <1>2. ASSUME NEW size \in Sizes, NEW reuse \in BOOLEAN, NewSocket(size, reuse) PROVE MuxFits'
    BY <1>2, NewSocketKeeps, StatusFits
  <1>3. ASSUME NEW s \in MuxSocks, NEW l \in Locals, BindAny(s, l) PROVE MuxFits'
    BY <1>3, AddMuxFits DEF BindAny
  <1>4. ASSUME NEW s \in MuxSocks, ConnectUnbound(s) PROVE MuxFits'
    BY <1>4, AddMuxFits DEF ConnectUnbound
  <1>5. ASSUME NEW s \in MuxSocks, ConnectBound(s) PROVE MuxFits'
    <2>1. Turns(s, "CONNECTING") /\ mxSock[s].status = "OPENED" /\ UNCHANGED <<mxMux, mxUsers, mxGC>>
      BY <1>5, StatusTurns DEF ConnectBound, MuxInv, Statuses
    <2> QED BY <2>1, TurnKeeps, StatusFits DEF Statuses
  <1>6. ASSUME NEW s \in MuxSocks, ConnectFailed(s) PROVE MuxFits'
    <2>1. Turns(s, "OPENED") /\ mxSock[s].status = "CONNECTING" /\ UNCHANGED <<mxMux, mxUsers, mxGC>>
      BY <1>6, StatusTurns DEF ConnectFailed, MuxInv, Statuses
    <2> QED BY <2>1, TurnKeeps, StatusFits DEF Statuses
  <1>7. ASSUME NEW s \in MuxSocks, CloseSocket(s) PROVE MuxFits'
    <2>1. /\ Turns(s, "CLOSED") /\ UNCHANGED <<mxMux, mxUsers, mxGC>>
          /\ mxSock[s].status \in {"INIT", "OPENED", "LISTENING", "CONNECTING", "CONNECTED"}
      BY <1>7, StatusTurns DEF CloseSocket, MuxInv, Statuses
    <2> QED BY <2>1, TurnKeeps, StatusFits DEF Statuses
  <1>8. ASSUME NEW s \in MuxSocks, NEW size \in Sizes, ConnectDone(s, size) PROVE MuxFits'
    <2>1. Turns(s, "CONNECTED") /\ mxSock[s].status = "CONNECTING" /\ UNCHANGED <<mxMux, mxUsers, mxGC>>
      BY <1>8, DoneTurns DEF ConnectDone
    <2> QED BY <2>1, TurnKeeps, StatusFits DEF Statuses
  <1> QED BY <1>1, <1>2, <1>3, <1>4, <1>5, <1>6, <1>7, <1>8, BindFits, ListenSockFits, AcceptFits,
             RemoveSockFits, CleanupFits, Zenon DEF UdtMuxNext

LEMMA MuxInvSound ==
    ASSUME MuxInv
    PROVE  RefsExact /\ ListenersHeard /\ (MuxFits => QueuesFit)
  <1>1. RefsExact
    BY DEF MuxInv, HasQueues, MuxesCounted, UsersOf, Undestroyed, RefsExact
  <1>2. ListenersHeard
    <2>1. \A s \in MuxSocks : mxSock[s].status = "LISTENING" => mxMux[mxSock[s].queues].listener = s
      BY DEF MuxInv, ListenersKnown, HasQueues
    <2>2. ASSUME NEW i \in DOMAIN mxMux, mxMux[i].listener # 0 PROVE mxMux[i].listener \in Undestroyed
      <3>1. mxMux[i].listener \in MuxSocks
        BY <2>2 DEF MuxInv, MuxTypes, MuxRecord, MuxIDs, MuxSocks
      <3> QED BY <2>2, <3>1 DEF MuxInv, ListenersKnown, ListenerOf, Undestroyed
    <2> QED BY <2>1, <2>2 DEF ListenersHeard
  <1>3. ASSUME MuxFits, NEW s \in Undestroyed, GetSockName(s) # NoAddr
        PROVE  LET x == mxMux[mxSock[s].queues]
               IN /\ x.local = GetSockName(s).local /\ x.port = GetSockName(s).port /\ mxSock[s].mss <= x.mss
                  /\ LET ls == mxSock[s].listenSock
                     IN ls \in Undestroyed => mxSock[ls].queues = mxSock[s].queues
    <2>1. s \in MuxSocks /\ mxSock[s].status \in Statuses /\ HasQueues(s) /\ SockFits(s)
      BY <1>3 DEF Undestroyed, MuxInv, MuxTypes, SockRecord, MuxFits
    <2>2. GetSockName(s) = mxSock[s].self /\ mxSock[s].status \in BoundStatuses
      BY <1>3, <2>1 DEF GetSockName, GetStatus, Statuses, BoundStatuses, Undestroyed
    <2>3. ASSUME NEW ls, ls = mxSock[s].listenSock, ls \in Undestroyed PROVE mxSock[ls].queues = mxSock[s].queues
      <3>1. ls \in MuxSocks /\ ls # 0 /\ HasQueues(ls)
        BY <2>3 DEF Undestroyed, MuxSocks, MuxInv
      <3> QED BY <2>1, <2>3, <3>1 DEF SockFits, AsListener, HasQueues
    <2> QED BY <2>1, <2>2, <2>3 DEF HasQueues, SockFits, FitsOwn
  <1> QED BY <1>1, <1>2, <1>3 DEF QueuesFit

\* Whatever addresses a host has: a multiplexer is there exactly as long as one of its
\* sockets, which it counts, and a listening socket gets the requests that come to its port
\* (updateMux, removeSocket, setListener).
THEOREM MultiplexersCounted == PartsSpec => [](subject = "mux" => RefsExact /\ ListenersHeard)
  <1> DEFINE Inv == subject = "mux" => MuxInv
  <1>1. PartsInit => Inv
    BY MuxStarts DEF PartsInit
  <1>2. Inv /\ [PartsNext]_allVars => Inv'
    <2> SUFFICES ASSUME Inv, [PartsNext]_allVars, subject' = "mux" PROVE MuxInv'
      OBVIOUS
    <2>1. subject = "mux" /\ (UdtMuxNext \/ UNCHANGED udtMuxVars)
      BY DEF PartsNext, StepOf, allVars
    <2> QED BY <2>1, MuxStep, MuxRests
  <1>3. Inv => (subject = "mux" => RefsExact /\ ListenersHeard)
    BY MuxInvSound
  <1> QED BY <1>1, <1>2, <1>3, PTL DEF PartsSpec

\* On a host of one address the sockets of a multiplexer fit it as well: the packets of each
\* fit the units of the queue, and an accepted socket is where its listener is (with two
\* addresses newConnection may take the wrong multiplexer, api.cpp:1451).
THEOREM QueuesSharedSoundly ==
    ASSUME \A l, m \in Locals : l = m
    PROVE  PartsSpec => []SharedQueuesSound
  <1> DEFINE Inv == subject = "mux" => MuxInv /\ MuxFits
  <1>1. PartsInit => Inv
    BY MuxStarts DEF PartsInit
  <1>2. Inv /\ [PartsNext]_allVars => Inv'
    <2> SUFFICES ASSUME Inv, [PartsNext]_allVars, subject' = "mux" PROVE MuxInv' /\ MuxFits'
      OBVIOUS
    <2>1. subject = "mux" /\ (UdtMuxNext \/ UNCHANGED udtMuxVars)
      BY DEF PartsNext, StepOf, allVars
    <2> QED BY <2>1, MuxStep, MuxFitsStep, MuxRests
  <1>3. Inv => SharedQueuesSound
    BY MuxInvSound DEF SharedQueuesSound, Of, MuxSound
  <1> QED BY <1>1, <1>2, <1>3, PTL DEF PartsSpec

-----------------------------------------------------------------------------
(* The buffers.                                                            *)

\* While files last as long as sendfile takes them to, no block is born with a number that
\* messages have, and the numbers outlast the buffer, the blocks written follow each other
\* from the first one not acknowledged on, and an expired message is named with its own
\* blocks (CSndBuffer: addBuffer, readData, ackData, increase).
THEOREM SendBufferStaysExact ==
    ASSUME FileShort = FALSE, Garbage \cap 1..MaxMsgNo - 1 = {}, MaxMsgNo >= 2 * SndLimit + InitBlocks
    PROVE  PartsSpec => []SendBufferExact
  <1> DEFINE Inv == subject = "sndBuffer" => SndBufferInv
  <1>1. PartsInit => Inv
    BY SndBufferStart DEF PartsInit
  <1>2. Inv /\ [PartsNext]_allVars => Inv'
    <2> SUFFICES ASSUME Inv, [PartsNext]_allVars, subject' = "sndBuffer" PROVE SndBufferInv'
      OBVIOUS
    <2>1. subject = "sndBuffer" /\ (SndBufferNext \/ UNCHANGED sndBufferVars)
      BY DEF PartsNext, StepOf, allVars
    <2>2. SndBufferInv
      BY <2>1
    <2> QED BY <2>1, <2>2, SndBufferStep, SndBufferRests
  <1>3. Inv => SendBufferExact
    BY SndBufferInvSound DEF SendBufferExact, Of
  <1> QED BY <1>1, <1>2, <1>3, PTL DEF PartsSpec

LEMMA RcvBufferHolds == ASSUME DropReach = 0 PROVE PartsSpec => [](subject = "rcvBuffer" => RcvBufferInv)
  <1> DEFINE Inv == subject = "rcvBuffer" => RcvBufferInv
  <1>1. PartsInit => Inv
    BY RcvBufferStart DEF PartsInit
  <1>2. Inv /\ [PartsNext]_allVars => Inv'
    <2> SUFFICES ASSUME Inv, [PartsNext]_allVars, subject' = "rcvBuffer" PROVE RcvBufferInv'
      OBVIOUS
    <2>1. subject = "rcvBuffer" /\ (RcvBufferNext \/ UNCHANGED rcvBufferVars)
      BY DEF PartsNext, StepOf, allVars
    <2>2. RcvBufferInv
      BY <2>1
    <2> QED BY <2>1, <2>2, RcvBufferStep, RcvBufferRests
  <1> QED BY <1>1, <1>2, PTL DEF PartsSpec

\* While no drop request reaches beyond the buffer, each unit lies where its number puts
\* it, scanMsg finds the first message that may be read and nothing else, and a stream
\* loses and repeats no byte (CRcvBuffer: addData, ackData, readBuffer, readMsg, scanMsg).
THEOREM BufferStaysExact == ASSUME DropReach = 0 PROVE PartsSpec => []BufferExact
  <1>1. (subject = "rcvBuffer" => RcvBufferInv) => BufferExact
    BY RcvBufferInvSound DEF BufferExact, Of
  <1> QED BY <1>1, RcvBufferHolds, PTL

\* While no drop request reaches beyond the buffer, messages are read whole, once, and in
\* order where that is asked for, and scanMsg gives up only packets of messages that a drop
\* request has touched (CRcvBuffer: readMsg, dropMsg, scanMsg).
THEOREM MessagesStayWhole == ASSUME DropReach = 0 PROVE PartsSpec => []MessagesWhole
  <1>1. (subject = "rcvBuffer" => RcvBufferInv) => MessagesWhole
    BY RcvBufferInvSound DEF MessagesWhole, Of
  <1> QED BY <1>1, RcvBufferHolds, PTL
=============================================================================
