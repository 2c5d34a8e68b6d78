-------------------------- MODULE UdtTransferProofs --------------------------
(***************************************************************************)
(* Proofs about UdtTransfer.  First: two correct ends never break each     *)
(* other's connection, and the acknowledgement counters of the two ends    *)
(* keep their order, whatever the network does to the packets, for all     *)
(* buffer sizes, windows and numbers of blocks, and with messages that     *)
(* expire.  Then: when no message has a time to live, UdtTransfer          *)
(* implements ReliableChannel: every block is delivered once and in order. *)
(***************************************************************************)
EXTENDS UdtTransfer, FiniteSetTheorems, SequenceTheorems, TLAPS

(* A nonempty set of natural numbers has a least element, and Min is it.   *)
LEMMA MinOfNats ==
  ASSUME NEW S \in SUBSET Nat, S # {}
  PROVE  Min(S) \in S /\ \A y \in S : Min(S) <= y
<1> DEFINE Below == {0 .. x : x \in S}
<1>1. \A x \in S : IsFiniteSet(0 .. x)
  BY FS_Interval
<1>2. Below \subseteq FiniteSubsetsOf(Nat) /\ Below # {}
  <2>1. \A x \in S : 0 .. x \in SUBSET Nat
    OBVIOUS
  <2>2. \A x \in S : 0 .. x \in FiniteSubsetsOf(Nat)
    BY <1>1, <2>1, Zenon DEF FiniteSubsetsOf
  <2> QED
    BY <2>2, Zenon
<1>3. PICK B \in Below : \A C \in Below : ~ (<<C, B>> \in StrictSubsetOrdering(Nat))
  <2> HIDE DEF Below
  <2> QED
    BY <1>2, FS_StrictSubsetOrderingWellFounded, WFMin
<1>4. PICK x \in S : B = 0 .. x
  OBVIOUS
<1>5. \A y \in S : 0 .. y \subseteq 0 .. x => 0 .. y = 0 .. x
  <2>1. \A y \in Nat : 0 .. y \in SUBSET Nat
    OBVIOUS
  <2> TAKE y \in S
  <2>2. <<0 .. y, 0 .. x>> \notin StrictSubsetOrdering(Nat)
    BY <1>3, <1>4, Zenon
  <2>3. <<0 .. y, 0 .. x>> \in (SUBSET Nat) \X (SUBSET Nat)
    BY <2>1, Zenon
  <2> QED
    BY <2>2, <2>3, Zenon DEF StrictSubsetOrdering
<1>6. \A y \in S : x <= y
  BY <1>5
<1> QED
  BY <1>6 DEF Min

(* A bound stays one when what it is measured against grows.               *)
LEMMA WeakerBound == \A a, b, c \in Nat : a <= b + 1 /\ b <= c => a <= c + 1
  OBVIOUS

(* The network does not invent packets.                                    *)
LEMMA LeftSubset == \A S, p : Left(S, p) \subseteq S
  BY DEF Left

-----------------------------------------------------------------------------
(* The inductive invariant.                                                *)

Numbers ==
  /\ lastBlock \in Int /\ firstBlock \in Int
  /\ msgs \subseteq [from : Int, to : Int, mortal : BOOLEAN]
  /\ sndCurrSeqNo \in Nat /\ sndLastAck \in Nat \ {0} /\ sndLastDataAck \in Nat \ {0}
  /\ popped \in Nat
  /\ acking.ack \in Nat
  /\ rcvCurrSeqNo \in Nat /\ rcvLastAck \in Nat \ {0} /\ rcvLastAckAck \in Nat \ {0}

(* What the sender has yet to send again, and what it has sent, carries    *)
(* numbers it has used; so do the packets that speak of its packets.       *)
SentNumbers ==
  /\ sndLoss \subseteq 1 .. sndCurrSeqNo
  /\ popped <= sndCurrSeqNo
  /\ \A p \in data : p[1] \in 1 .. sndCurrSeqNo
  /\ \A p \in naks : p[1] \in Nat \ {0} /\ p[2] \in Int /\ p[2] <= sndCurrSeqNo
  /\ \A p \in drops : p[1] \in Nat /\ p[2] \in Int /\ p[2] <= sndCurrSeqNo

(* The receiver has seen only numbers that were used, and answers only for *)
(* what it has seen.                                                       *)
SeenNumbers ==
  /\ rcvLoss \subseteq 1 .. rcvCurrSeqNo
  /\ rcvCurrSeqNo <= sndCurrSeqNo
  /\ rcvLastAck <= rcvCurrSeqNo + 1

(* An ACK under way, or one the sender is processing, is no newer than the *)
(* last one; an ACK2 under way answers one that the sender has obeyed, or  *)
(* the one it is processing.                                               *)
Processing == acking.at \in {"answered", "counted"}

AckNumbers ==
  /\ \A p \in lites : p \in Nat \ {0}
  /\ \A p \in acks : p[1] \in Nat \ {0} /\ p[1] <= rcvLastAck
  /\ Processing => acking.ack # 0 /\ acking.ack <= rcvLastAck
  /\ \A a \in ack2s : /\ a \in Nat \ {0}
                      /\ a <= sndLastDataAck \/ (Processing /\ a = acking.ack)

NumbersInv ==
  /\ Numbers /\ SentNumbers /\ SeenNumbers /\ AckNumbers
  /\ AckOrder /\ NeverBroken

(* An ACK never covers more than has been seen, nor a loss.                *)
LEMMA AckableBound ==
  ASSUME NumbersInv
  PROVE  Ackable \in Nat \ {0} /\ Ackable <= rcvCurrSeqNo + 1
<1>1. CASE rcvLoss = {}
  BY <1>1 DEF Ackable, NumbersInv, Numbers
<1>2. CASE rcvLoss # {}
  <2>1. rcvLoss \in SUBSET Nat /\ rcvLoss \subseteq 1 .. rcvCurrSeqNo /\ rcvCurrSeqNo \in Nat
    BY DEF NumbersInv, Numbers, SeenNumbers
  <2>2. Min(rcvLoss) \in rcvLoss
    BY <1>2, <2>1, MinOfNats
  <2>3. Ackable \in rcvLoss
    BY <1>2, <2>2, Zenon DEF Ackable
  <2> QED
    BY <2>1, <2>3
<1> QED
  BY <1>1, <1>2

(* The numbers are right at the start of a connection (CUDT::connect).     *)
LEMMA NumbersInit == Init => NumbersInv
  BY DEF Init, NumbersInv, Numbers, SentNumbers, SeenNumbers, AckNumbers, AckOrder,
         NeverBroken, NoAck, Processing

(* No handler, timer or loss of a packet disturbs the numbers.             *)
LEMMA NumbersStep == NumbersInv /\ [Next]_vars => NumbersInv'
<1> SUFFICES ASSUME NumbersInv, [Next]_vars
             PROVE  NumbersInv'
  OBVIOUS
<1> USE DEF NumbersInv, Numbers, SentNumbers, SeenNumbers, AckNumbers, Processing,
            AckOrder, NeverBroken
<1>1. CASE UNCHANGED vars
  BY <1>1 DEF vars, sndVars, rcvVars, netVars
<1>2. ASSUME NEW n \in Lengths, NEW mortal \in Mortality, Sendmsg(n, mortal)
      PROVE  NumbersInv'
  <2>1. Numbers'
    BY <1>2, TransferAssumption DEF Sendmsg, rcvVars
  <2> QED
    BY <1>2, <2>1 DEF Sendmsg, rcvVars, netVars
<1>3. CASE PackPopLoss
  <2>1. Min(sndLoss) \in sndLoss
    BY <1>3, MinOfNats DEF PackPopLoss
  <2>2. popped' \in sndLoss
    BY <1>3, <2>1, Zenon DEF PackPopLoss
  <2>3. sndLoss' \subseteq sndLoss
    BY <1>3, Zenon DEF PackPopLoss
  <2>4. UNCHANGED <<lastBlock, firstBlock, msgs, sndCurrSeqNo, sndLastAck, sndLastDataAck,
                    sndBroken, acking, rcvVars, netVars>>
    BY <1>3 DEF PackPopLoss
  <2> QED
    BY <2>2, <2>3, <2>4 DEF rcvVars, netVars
<1>4. CASE PackStale
  BY <1>4 DEF PackStale, rcvVars, netVars
<1>5. CASE PackRetransmit
  <2>1. popped \in 1 .. sndCurrSeqNo
    BY <1>5 DEF PackRetransmit
  <2>2. \A p \in data' : p \in data \/ p[1] = popped
    BY <1>5 DEF PackRetransmit
  <2> QED
    BY <1>5, <2>1, <2>2 DEF PackRetransmit, rcvVars, netVars
<1>6. CASE PackExpired
  <2>1. LostBlock \in Int
    BY DEF LostBlock, NoBlock
  <2>2. MsgLens \subseteq Int
    BY <2>1 DEF MsgLens, Expired
  <2>3. PICK msglen \in MsgLens :
          /\ popped + msglen < MaxSeq
          /\ drops' = drops \cup {<<popped, popped + msglen>>}
          /\ sndLoss' = {s \in sndLoss : s > popped + msglen}
          /\ sndCurrSeqNo' = IF sndCurrSeqNo < popped + msglen + 1
                             THEN popped + msglen + 1 ELSE sndCurrSeqNo
    BY <1>6 DEF PackExpired
  <2>4. msglen \in Int /\ sndCurrSeqNo' \in Nat /\ sndCurrSeqNo <= sndCurrSeqNo'
         /\ popped + msglen <= sndCurrSeqNo'
    BY <2>2, <2>3
  <2>5. \A p \in drops' : p \in drops \/ (p[1] = popped /\ p[2] = popped + msglen)
    BY <2>3
  <2>6. sndLoss' \subseteq 1 .. sndCurrSeqNo'
    <3>1. sndLoss' \subseteq sndLoss
      BY <2>3, Zenon
    <3> QED
      BY <2>4, <3>1
  <2> QED
    BY <1>6, <2>4, <2>5, <2>6 DEF PackExpired, rcvVars
<1>7. CASE PackNew
  <2>1. \A p \in data' : p \in data \/ p[1] = sndCurrSeqNo + 1
    BY <1>7 DEF PackNew
  <2>2. sndCurrSeqNo' = sndCurrSeqNo + 1
    BY <1>7 DEF PackNew
  <2> QED
    BY <1>7, <2>1, <2>2 DEF PackNew, rcvVars
<1>8. CASE PackNothing
  BY <1>8 DEF PackNothing, rcvVars, netVars
<1>9. ASSUME NEW p \in lites, LiteAck(p)
      PROVE  NumbersInv'
  <2>1. lites' \subseteq lites
    BY <1>9, LeftSubset, Zenon DEF LiteAck
  <2>2. sndLastAck' \in Nat \ {0}
    BY <1>9 DEF LiteAck
  <2> QED
    BY <1>9, <2>1, <2>2 DEF LiteAck, rcvVars
<1>10. ASSUME NEW p \in acks, Ack(p)
       PROVE  NumbersInv'
  <2>1. p[1] \in Nat \ {0} /\ p[1] <= rcvLastAck
    OBVIOUS
  <2>2. ~Processing
    BY <1>10 DEF Ack, Idle
  <2>3. acks' \subseteq acks /\ ack2s' \subseteq ack2s \cup {p[1]}
    BY <1>10, LeftSubset DEF Ack
  <2>4. acking' = [at |-> "answered", ack |-> p[1], room |-> p[2]]
    BY <1>10, Zenon DEF Ack
  <2>5. Processing' /\ acking'.ack \in Nat /\ acking'.ack = p[1]
    BY <2>1, <2>4
  <2>6. UNCHANGED <<msgs, lastBlock, firstBlock, sndCurrSeqNo, sndLastAck, sndLastDataAck,
                    sndLoss, popped, sndBroken, rcvVars, data, lites, naks, drops>>
    BY <1>10 DEF Ack
  <2>7. Numbers' /\ SentNumbers' /\ SeenNumbers' /\ NeverBroken'
    BY <2>5, <2>6 DEF rcvVars
  <2>8. AckOrder'
    BY <2>2, <2>6 DEF rcvVars
  <2>9. AckNumbers'
    BY <2>1, <2>2, <2>3, <2>5, <2>6 DEF rcvVars
  <2> QED
    BY <2>7, <2>8, <2>9
<1>11. CASE AckWindow
  <2>1. Processing /\ acking.ack \in Nat \ {0} /\ acking.ack <= rcvLastAck
    BY <1>11 DEF AckWindow
  <2>2. ~(acking.ack > sndCurrSeqNo + 1)
    BY <2>1
  <2>3. /\ ~sndBroken' /\ sndLastAck' \in {sndLastAck, acking.ack}
        /\ acking' = [NoAck EXCEPT !.at = "counted", !.ack = acking.ack]
    BY <1>11, <2>2 DEF AckWindow
  <2>4. Processing' /\ acking'.ack \in Nat /\ acking'.ack = acking.ack
    BY <2>1, <2>3 DEF NoAck
  <2>5. UNCHANGED <<msgs, lastBlock, firstBlock, sndCurrSeqNo, sndLastDataAck,
                    sndLoss, popped, rcvVars, netVars>>
    BY <1>11 DEF AckWindow
  <2>6. Numbers' /\ SentNumbers' /\ SeenNumbers' /\ NeverBroken'
    BY <2>1, <2>3, <2>4, <2>5 DEF rcvVars, netVars
  <2>7. AckOrder' /\ AckNumbers'
    BY <2>1, <2>4, <2>5 DEF rcvVars, netVars
  <2> QED
    BY <2>6, <2>7
<1>12. CASE AckFree
  <2>1. Processing /\ acking.ack \in Nat \ {0} /\ acking.ack <= rcvLastAck
    BY <1>12 DEF AckFree
  <2>2. \/ /\ acking.ack > sndLastDataAck
           /\ sndLastDataAck' = acking.ack
           /\ firstBlock' = firstBlock + (acking.ack - sndLastDataAck)
           /\ sndLoss' \subseteq sndLoss
        \/ /\ ~ (acking.ack > sndLastDataAck)
           /\ UNCHANGED <<sndLastDataAck, firstBlock, sndLoss>>
    BY <1>12 DEF AckFree
  <2>3. /\ acking.ack <= sndLastDataAck' /\ sndLastDataAck' \in Nat \ {0} /\ firstBlock' \in Int
        /\ sndLastDataAck <= sndLastDataAck' /\ sndLastDataAck' <= rcvLastAck
        /\ sndLoss' \subseteq sndLoss
    BY <2>1, <2>2
  <2>4. acking' \in {NoAck, [NoAck EXCEPT !.at = "freed"]}
    BY <1>12 DEF AckFree
  <2>5. acking'.ack \in Nat /\ ~Processing'
    BY <2>4 DEF NoAck
  <2>6. UNCHANGED <<msgs, lastBlock, sndCurrSeqNo, sndLastAck, popped, sndBroken,
                    rcvVars, netVars>>
    BY <1>12 DEF AckFree
  <2>7. Numbers' /\ SentNumbers' /\ SeenNumbers' /\ NeverBroken'
    BY <2>3, <2>5, <2>6 DEF rcvVars, netVars
  <2>8. AckOrder' /\ AckNumbers'
    BY <2>1, <2>3, <2>5, <2>6 DEF rcvVars, netVars
  <2> QED
    BY <2>7, <2>8
<1>13. CASE AckResume
  <2>1. ~Processing /\ acking' = NoAck
    BY <1>13 DEF AckResume
  <2>2. acking'.ack \in Nat /\ ~Processing'
    BY <2>1 DEF NoAck
  <2>3. UNCHANGED <<msgs, lastBlock, firstBlock, sndCurrSeqNo, sndLastAck, sndLastDataAck,
                    sndLoss, popped, sndBroken, rcvVars, netVars>>
    BY <1>13 DEF AckResume
  <2>4. Numbers' /\ SentNumbers' /\ SeenNumbers' /\ NeverBroken'
    BY <2>2, <2>3 DEF rcvVars, netVars
  <2>5. AckOrder' /\ AckNumbers'
    BY <2>1, <2>2, <2>3 DEF rcvVars, netVars
  <2> QED
    BY <2>4, <2>5
<1>14. ASSUME NEW p \in naks, Nak(p)
       PROVE  NumbersInv'
  <2>1. p[1] \in Nat \ {0} /\ p[2] \in Int /\ p[2] <= sndCurrSeqNo
    OBVIOUS
  <2>2. naks' \subseteq naks
    BY <1>14, LeftSubset DEF Nak
  <2>3. sndLoss' = sndLoss \cup {s \in p[1] .. p[2] : s >= sndLastAck} /\ UNCHANGED sndBroken
    BY <1>14, <2>1 DEF Nak
  <2>4. sndLoss' \subseteq 1 .. sndCurrSeqNo
    <3>1. \A s \in sndLoss' : s \in sndLoss \/ s \in p[1] .. p[2]
      BY <2>3, Zenon
    <3>2. \A s \in p[1] .. p[2] : s \in 1 .. sndCurrSeqNo
      BY <2>1
    <3> QED
      BY <3>1, <3>2, Zenon
  <2> QED
    BY <1>14, <2>2, <2>3, <2>4 DEF Nak, rcvVars
<1>15. CASE Exp
  <2>1. sndLoss' \subseteq 1 .. sndCurrSeqNo
    BY <1>15 DEF Exp
  <2> QED
    BY <1>15, <2>1 DEF Exp, rcvVars, netVars
<1>16. ASSUME NEW p \in data, Data(p)
       PROVE  NumbersInv'
  <2> DEFINE seq == p[1]
  <2>1. seq \in 1 .. sndCurrSeqNo
    OBVIOUS
  <2>2. data' \subseteq data
    BY <1>16, LeftSubset DEF Data
  <2> HIDE DEF seq
  <2>3. \/ UNCHANGED <<rcvLoss, rcvCurrSeqNo, naks>>
        \/ /\ \/ /\ seq > rcvCurrSeqNo + 1
                 /\ rcvLoss' = rcvLoss \cup (rcvCurrSeqNo + 1 .. seq - 1)
                 /\ naks' = naks \cup {<<rcvCurrSeqNo + 1, seq - 1>>}
              \/ rcvLoss' = rcvLoss \ {seq} /\ UNCHANGED naks
           /\ rcvCurrSeqNo' = IF seq > rcvCurrSeqNo THEN seq ELSE rcvCurrSeqNo
    BY <1>16, Zenon DEF Data, seq
  <2>4. rcvCurrSeqNo' \in Nat /\ rcvCurrSeqNo <= rcvCurrSeqNo' /\ rcvCurrSeqNo' <= sndCurrSeqNo
    BY <2>1, <2>3
  <2>5. rcvLoss' \subseteq 1 .. rcvCurrSeqNo'
    <3>1. CASE rcvLoss' \subseteq rcvLoss
      <4>1. \A s \in 1 .. rcvCurrSeqNo : s \in 1 .. rcvCurrSeqNo'
        BY <2>4
      <4> QED
        BY <3>1, <4>1, Zenon
    <3>2. CASE /\ rcvLoss' = rcvLoss \cup (rcvCurrSeqNo + 1 .. seq - 1)
               /\ rcvCurrSeqNo' = seq
      <4>1. \A s \in 1 .. rcvCurrSeqNo : s \in 1 .. rcvCurrSeqNo'
        BY <2>4
      <4>2. \A s \in rcvCurrSeqNo + 1 .. seq - 1 : s \in 1 .. rcvCurrSeqNo'
        BY <2>1, <3>2
      <4> QED
        BY <3>2, <4>1, <4>2, Zenon
    <3>3. seq > rcvCurrSeqNo + 1 => seq > rcvCurrSeqNo
      BY <2>1
    <3> QED
      BY <2>3, <3>1, <3>2, <3>3, Zenon
  <2>6. \A q \in naks' : q \in naks \/ (q[1] = rcvCurrSeqNo + 1 /\ q[2] = seq - 1)
    BY <2>3
  <2>7. UNCHANGED <<sndVars, rcvLastAck, rcvLastAckAck, acks, lites, ack2s, drops>>
    BY <1>16 DEF Data
  <2>8. SentNumbers'
    BY <2>1, <2>2, <2>6, <2>7 DEF sndVars
  <2>9. Numbers' /\ AckNumbers' /\ AckOrder' /\ NeverBroken'
    BY <2>4, <2>7 DEF sndVars
  <2>10. rcvLastAck' = rcvLastAck /\ sndCurrSeqNo' = sndCurrSeqNo
    BY <2>7 DEF sndVars
  <2>11. rcvCurrSeqNo' <= sndCurrSeqNo' /\ rcvLastAck' <= rcvCurrSeqNo' + 1
    <3>1. rcvLastAck \in Nat /\ rcvCurrSeqNo \in Nat /\ rcvLastAck <= rcvCurrSeqNo + 1
      OBVIOUS
    <3> QED
      BY <2>4, <2>10, <3>1, WeakerBound, Zenon
  <2> QED
    BY <2>5, <2>8, <2>9, <2>11
<1>17. ASSUME NEW p \in ack2s, Ack2(p)
       PROVE  NumbersInv'
  <2>1. ack2s' \subseteq ack2s
    BY <1>17, LeftSubset, Zenon DEF Ack2
  <2>2. rcvLastAckAck' \in {p, rcvLastAckAck}
    BY <1>17 DEF Ack2
  <2> QED
    BY <1>17, <2>1, <2>2 DEF Ack2, sndVars
<1>18. ASSUME NEW p \in drops, Drop(p)
       PROVE  NumbersInv'
  <2>1. drops' \subseteq drops
    BY <1>18, LeftSubset, Zenon DEF Drop
  <2>2. p[1] \in Nat /\ p[2] \in Int /\ p[2] <= sndCurrSeqNo
    OBVIOUS
  <2>3. rcvCurrSeqNo' \in Nat /\ rcvCurrSeqNo <= rcvCurrSeqNo' /\ rcvCurrSeqNo' <= sndCurrSeqNo
    BY <1>18, <2>2 DEF Drop
  <2>4. rcvLoss' \subseteq rcvLoss
    BY <1>18 DEF Drop
  <2>5. UNCHANGED <<sndVars, rcvLastAck, rcvLastAckAck, data, acks, lites, ack2s, naks>>
    BY <1>18 DEF Drop
  <2>6. rcvLoss' \subseteq 1 .. rcvCurrSeqNo'
    <3>1. \A s \in rcvLoss : s \in 1 .. rcvCurrSeqNo'
      BY <2>3
    <3> QED
      BY <2>4, <3>1, Zenon
  <2>7. Numbers' /\ SentNumbers' /\ AckNumbers' /\ AckOrder' /\ NeverBroken'
    BY <2>1, <2>3, <2>5 DEF sndVars
  <2>8. rcvLastAck' = rcvLastAck /\ sndCurrSeqNo' = sndCurrSeqNo
    BY <2>5 DEF sndVars
  <2>9. rcvCurrSeqNo' <= sndCurrSeqNo' /\ rcvLastAck' <= rcvCurrSeqNo' + 1
    <3>1. rcvLastAck \in Nat /\ rcvCurrSeqNo \in Nat /\ rcvLastAck <= rcvCurrSeqNo + 1
      OBVIOUS
    <3> QED
      BY <2>3, <2>8, <3>1, WeakerBound, Zenon
  <2> QED
    BY <2>6, <2>7, <2>9
<1>19. CASE SendLiteAck
  <2>1. lites' \subseteq lites \cup {Ackable} /\ Ackable \in Nat \ {0}
    BY <1>19, AckableBound, Zenon DEF SendLiteAck
  <2> QED
    BY <1>19, <2>1 DEF SendLiteAck, sndVars, rcvVars
<1>20. CASE SendAck
  <2>1. rcvLastAck' = Ackable /\ rcvLastAck <= rcvLastAck'
    BY <1>20 DEF SendAck
  <2>2. rcvLastAck' \in Nat \ {0} /\ rcvLastAck' <= rcvCurrSeqNo + 1
    BY <2>1, AckableBound
  <2>3. \A p \in acks' : p \in acks \/ p[1] = rcvLastAck'
    BY <1>20 DEF SendAck
  <2> QED
    BY <1>20, <2>1, <2>2, <2>3 DEF SendAck, sndVars
<1>21. CASE Recv
  BY <1>21 DEF Recv, sndVars, netVars
<1>22. CASE Recvmsg
  BY <1>22 DEF Recvmsg, sndVars, netVars
<1>23. CASE Lose
  BY <1>23 DEF Lose, sndVars, rcvVars
<1> QED
  BY <1>1, <1>2, <1>3, <1>4, <1>5, <1>6, <1>7, <1>8, <1>9, <1>10, <1>11, <1>12,
     <1>13, <1>14, <1>15, <1>16, <1>17, <1>18, <1>19, <1>20, <1>21, <1>22, <1>23
  DEF Next, SndQueueStep, SenderReceives, AckStep, ReceiverReceives

(* The numbers of the two ends, and of every packet under way, are always  *)
(* those of NumbersInv.                                                    *)
THEOREM NumbersCorrect == Spec => []NumbersInv
  BY NumbersInit, NumbersStep, PTL DEF Spec

(* Two correct ends never break each other's connection: processCtrl       *)
(* (core.cpp:2015, 2143) never meets an acknowledgement or a loss report   *)
(* of numbers that were not sent.                                          *)
THEOREM NeverBrokenCorrect == Spec => []NeverBroken
  BY NumbersCorrect, PTL DEF NumbersInv

(* The ACK counters of the two ends: whatever the network does, the        *)
(* receiver takes no ACK for answered but one that the sender has obeyed,  *)
(* or is obeying now: between the ACK2 it sends (core.cpp:2006) and        *)
(* ackData, m_iSndLastDataAck may be the one behind.                       *)
THEOREM AckOrderCorrect == Spec => []AckOrder
  BY NumbersCorrect, PTL DEF NumbersInv

-----------------------------------------------------------------------------
(* The receive buffer and the receiver's loss list.                        *)

Held(s) == \E p \in rcvBuf : p[1] = s
Accounted(s) == ~(Held(s) /\ s \in rcvLoss) /\ (Held(s) \/ s \in rcvLoss \/ s \in dropped)

HeldNumbers ==
  /\ rcvStart \in Nat \ {0} /\ rcvStart <= rcvLastAck
  /\ \A p \in rcvBuf : p[1] \in 1 .. rcvCurrSeqNo

LossInv == NumbersInv /\ HeldNumbers /\ LossAccounted

(* The property, packet by packet.                                         *)
LEMMA LossAccountedDef == LossAccounted <=> \A s \in rcvStart .. rcvCurrSeqNo : Accounted(s)
  BY Zenon DEF LossAccounted, Accounted, Held

(* A step of the receiving application takes packets before the new start  *)
(* of the buffer out of it, and no others.                                 *)
LEMMA ReadingKeepsLoss ==
  ASSUME LossInv, rcvStart' \in Nat, rcvStart <= rcvStart', rcvStart' <= rcvLastAck,
         rcvBuf' \subseteq rcvBuf,
         \A p \in rcvBuf : p[1] >= rcvStart' => p \in rcvBuf',
         UNCHANGED <<rcvCurrSeqNo, rcvLastAck, rcvLoss, dropped>>
  PROVE  HeldNumbers' /\ LossAccounted'
<1>1. HeldNumbers'
  BY DEF LossInv, HeldNumbers
<1>2. ASSUME NEW s \in rcvStart' .. rcvCurrSeqNo
      PROVE  Accounted(s)'
  <2>1. s \in rcvStart .. rcvCurrSeqNo
    BY DEF LossInv, HeldNumbers, NumbersInv, Numbers
  <2>2. Accounted(s)
    BY <2>1, LossAccountedDef, Zenon DEF LossInv
  <2>3. Held(s)' <=> Held(s)
    BY DEF Held
  <2> QED
    BY <2>2, <2>3, Zenon DEF Accounted
<1>3. LossAccounted' <=> \A s \in rcvStart' .. rcvCurrSeqNo' : Accounted(s)'
  BY Zenon DEF LossAccounted, Accounted, Held
<1> QED
  BY <1>1, <1>2, <1>3, Zenon

(* At the start nothing has been seen.                                     *)
LEMMA LossInit == Init => HeldNumbers /\ LossAccounted
<1> SUFFICES ASSUME Init
             PROVE  HeldNumbers /\ LossAccounted
  OBVIOUS
<1>1. HeldNumbers
  BY DEF Init, HeldNumbers
<1>2. rcvStart .. rcvCurrSeqNo = {}
  BY DEF Init
<1> QED
  BY <1>1, <1>2, LossAccountedDef, Zenon

(* processData: what it skips becomes a loss, what it stores stops being   *)
(* one.                                                                    *)
LEMMA DataKeepsLoss ==
  ASSUME LossInv, NumbersInv', NEW p \in data, Data(p)
  PROVE  HeldNumbers' /\ LossAccounted'
<1> DEFINE seq == p[1]
<1>1. seq \in Nat \ {0} /\ rcvCurrSeqNo \in Nat /\ rcvStart \in Nat \ {0} /\ rcvLastAck \in Nat
  BY DEF LossInv, NumbersInv, Numbers, SentNumbers, HeldNumbers
<1>2. UNCHANGED <<rcvStart, rcvLastAck, dropped>>
  BY DEF Data
<1>3. LossAccounted' <=> \A s \in rcvStart' .. rcvCurrSeqNo' : Accounted(s)'
  BY Zenon DEF LossAccounted, Accounted, Held
<1> DEFINE Refused == seq - rcvLastAck < 0 \/ seq - rcvLastAck >= AvailBufSize(rcvLastAck) \/ Filled(seq)
<1>4. CASE Refused
  <2>1. UNCHANGED <<rcvBuf, rcvLoss, rcvCurrSeqNo>>
    BY <1>4, Zenon DEF Data
  <2> QED
    BY <1>2, <2>1, Zenon DEF LossInv, HeldNumbers, LossAccounted
<1>5. CASE ~Refused
  <2>1. rcvBuf' = rcvBuf \cup {p} /\ ~Held(seq)
    <3>1. ~Filled(seq)
      BY <1>5, Zenon
    <3> QED
      BY <1>5, <3>1, Zenon DEF Data, Filled, Held
  <2>2. /\ seq > rcvCurrSeqNo + 1 => rcvLoss' = rcvLoss \cup (rcvCurrSeqNo + 1 .. seq - 1)
        /\ ~(seq > rcvCurrSeqNo + 1) => rcvLoss' = rcvLoss \ {seq}
        /\ rcvCurrSeqNo' = IF seq > rcvCurrSeqNo THEN seq ELSE rcvCurrSeqNo
    BY <1>5, Zenon DEF Data
  <2> HIDE DEF seq, Refused
  <2>3. rcvCurrSeqNo' \in Nat /\ rcvCurrSeqNo <= rcvCurrSeqNo' /\ seq <= rcvCurrSeqNo'
    BY <1>1, <2>2
  <2>4. \A s : Held(s)' <=> Held(s) \/ s = seq
    BY <2>1 DEF Held, seq
  <2>5. HeldNumbers'
    <3>1. \A q \in rcvBuf' : q \in rcvBuf \/ q[1] = seq
      BY <2>1 DEF seq
    <3>2. \A q \in rcvBuf' : q[1] \in 1 .. rcvCurrSeqNo'
      BY <1>1, <2>3, <3>1 DEF LossInv, HeldNumbers
    <3> QED
      BY <1>2, <3>2 DEF LossInv, HeldNumbers
  <2>6. \A s : Held(s) \/ s \in rcvLoss => s \in 1 .. rcvCurrSeqNo
    BY DEF Held, LossInv, HeldNumbers, NumbersInv, SeenNumbers
  <2>7. ASSUME NEW s \in rcvStart .. rcvCurrSeqNo'
        PROVE  Accounted(s)'
    <3>1. CASE s = seq
      <4>1. s \notin rcvLoss'
        <5>1. CASE seq > rcvCurrSeqNo + 1
          <6>1. s \notin rcvCurrSeqNo + 1 .. seq - 1 /\ s \notin 1 .. rcvCurrSeqNo
            BY <1>1, <3>1, <5>1
          <6> QED
            BY <2>2, <2>6, <5>1, <6>1, Zenon
        <5>2. CASE ~(seq > rcvCurrSeqNo + 1)
          BY <2>2, <3>1, <5>2, Zenon
        <5> QED
          BY <5>1, <5>2
      <4> QED
        BY <2>4, <3>1, <4>1, Zenon DEF Accounted
    <3>2. CASE s # seq /\ s <= rcvCurrSeqNo
      <4>1. s \in rcvStart .. rcvCurrSeqNo
        BY <1>1, <3>2
      <4>2. Accounted(s)
        BY <4>1, LossAccountedDef, Zenon DEF LossInv
      <4>3. s \notin rcvCurrSeqNo + 1 .. seq - 1
        BY <1>1, <3>2
      <4>4. s \in rcvLoss' <=> s \in rcvLoss
        BY <2>2, <3>2, <4>3, Zenon
      <4> QED
        BY <1>2, <2>4, <3>2, <4>2, <4>4, Zenon DEF Accounted
    <3>3. CASE s # seq /\ ~(s <= rcvCurrSeqNo)
      <4>1. s \in rcvCurrSeqNo + 1 .. seq - 1 /\ seq > rcvCurrSeqNo + 1 /\ s \notin 1 .. rcvCurrSeqNo
        BY <1>1, <2>2, <3>3
      <4>2. s \in rcvLoss'
        BY <2>2, <4>1, Zenon
      <4>3. ~Held(s)'
        BY <2>4, <2>6, <3>3, <4>1, Zenon
      <4> QED
        BY <4>2, <4>3, Zenon DEF Accounted
    <3> QED
      BY <3>1, <3>2, <3>3, Zenon
  <2> QED
    BY <1>2, <1>3, <2>5, <2>7, Zenon
<1> QED
  BY <1>4, <1>5, Zenon

(* A drop request takes losses away and says so in dropped.                *)
LEMMA DropKeepsLoss ==
  ASSUME LossInv, NEW p \in drops, Drop(p)
  PROVE  HeldNumbers' /\ LossAccounted'
<1>1. p[1] \in Nat /\ p[2] \in Int /\ rcvCurrSeqNo \in Nat /\ rcvStart \in Nat \ {0}
  BY DEF LossInv, NumbersInv, Numbers, SentNumbers, HeldNumbers
<1>2. /\ UNCHANGED <<rcvStart, rcvLastAck, rcvBuf>>
      /\ rcvLoss' = rcvLoss \ (p[1] .. p[2])
      /\ dropped' = dropped \cup (p[1] .. p[2])
      /\ rcvCurrSeqNo' = IF p[1] <= rcvCurrSeqNo + 1 /\ p[2] > rcvCurrSeqNo
                         THEN p[2] ELSE rcvCurrSeqNo
  BY Zenon DEF Drop
<1>3. rcvCurrSeqNo' \in Nat /\ rcvCurrSeqNo <= rcvCurrSeqNo'
  BY <1>1, <1>2
<1>4. HeldNumbers'
  BY <1>1, <1>2, <1>3 DEF LossInv, HeldNumbers
<1>5. ASSUME NEW s \in rcvStart .. rcvCurrSeqNo'
      PROVE  Accounted(s)'
  <2>1. Held(s)' <=> Held(s)
    BY <1>2, Zenon DEF Held
  <2>2. CASE s \in rcvStart .. rcvCurrSeqNo
    <3>1. Accounted(s)
      BY <2>2, LossAccountedDef, Zenon DEF LossInv
    <3> QED
      BY <1>2, <2>1, <3>1, Zenon DEF Accounted
  <2>3. CASE s \notin rcvStart .. rcvCurrSeqNo
    <3>1. s \in p[1] .. p[2]
      BY <1>1, <1>2, <2>3
    <3> QED
      BY <1>2, <3>1, Zenon DEF Accounted
  <2> QED
    BY <2>2, <2>3
<1>6. LossAccounted' <=> \A s \in rcvStart' .. rcvCurrSeqNo' : Accounted(s)'
  BY Zenon DEF LossAccounted, Accounted, Held
<1> QED
  BY <1>2, <1>4, <1>5, <1>6, Zenon

(* No step leaves a packet unaccounted for.                                *)
LEMMA LossStep == LossInv /\ [Next]_vars => LossInv'
<1> SUFFICES ASSUME LossInv, [Next]_vars
             PROVE  LossInv'
  OBVIOUS
<1>1. NumbersInv'
  BY NumbersStep DEF LossInv
<1> SUFFICES HeldNumbers' /\ LossAccounted'
  BY <1>1 DEF LossInv
<1>2. rcvStart \in Nat \ {0} /\ rcvLastAck \in Nat \ {0} /\ rcvStart <= rcvLastAck
  BY DEF LossInv, NumbersInv, Numbers, HeldNumbers
<1>3. CASE UNCHANGED rcvVars
  BY <1>3 DEF rcvVars, LossInv, HeldNumbers, LossAccounted
<1>4. ASSUME NEW p \in data, Data(p)
      PROVE  HeldNumbers' /\ LossAccounted'
  BY <1>1, <1>4, DataKeepsLoss
<1>5. ASSUME NEW p \in drops, Drop(p)
      PROVE  HeldNumbers' /\ LossAccounted'
  BY <1>5, DropKeepsLoss
<1>6. CASE SendAck
  <2>1. rcvLastAck <= rcvLastAck' /\ rcvLastAck' \in Nat
    BY <1>1, <1>6 DEF SendAck, NumbersInv, Numbers
  <2>2. UNCHANGED <<rcvStart, rcvBuf, rcvCurrSeqNo, rcvLoss, dropped>>
    BY <1>6, Zenon DEF SendAck
  <2>3. HeldNumbers'
    BY <1>2, <2>1, <2>2 DEF LossInv, HeldNumbers
  <2> QED
    BY <2>2, <2>3, Zenon DEF LossInv, LossAccounted
<1>7. ASSUME NEW p \in ack2s, Ack2(p)
      PROVE  HeldNumbers' /\ LossAccounted'
  BY <1>7, Zenon DEF Ack2, LossInv, HeldNumbers, LossAccounted
<1>8. CASE Recv
  <2>1. PICK last \in rcvStart .. rcvLastAck - 1 :
          /\ rcvBuf' = {p \in rcvBuf : p[1] > last}
          /\ rcvStart' = last + 1
    BY <1>8, Zenon DEF Recv
  <2>2. rcvStart' \in Nat /\ rcvStart <= rcvStart' /\ rcvStart' <= rcvLastAck
    BY <1>2, <2>1
  <2>3. rcvBuf' \subseteq rcvBuf
    BY <2>1, Zenon
  <2>4. \A p \in rcvBuf : p[1] >= rcvStart' => p \in rcvBuf'
    BY <1>2, <2>1 DEF LossInv, HeldNumbers
  <2>5. UNCHANGED <<rcvCurrSeqNo, rcvLastAck, rcvLoss, dropped>>
    BY <1>8, Zenon DEF Recv
  <2> QED
    BY <2>2, <2>3, <2>4, <2>5, ReadingKeepsLoss
<1>9. CASE Recvmsg
  <2> DEFINE start == ScanStart
             tail == Min(Tails(start))
             head == Max({s \in start .. tail : IsHead(s)})
  <2>1. start \in Nat /\ rcvStart <= start /\ start <= rcvLastAck
    <3> DEFINE S == {rcvLastAck} \cup {s \in rcvStart .. rcvLastAck - 1 : GoodHead(s)}
    <3>1. S \in SUBSET Nat /\ S # {} /\ \A s \in S : rcvStart <= s /\ s <= rcvLastAck
      BY <1>2
    <3>2. start = Min(S)
      BY Zenon DEF ScanStart
    <3> HIDE DEF S, start
    <3>3. start \in S
      BY <3>1, <3>2, MinOfNats
    <3> QED
      BY <3>1, <3>3
  <2> HIDE DEF start
  <2>2. Tails(start) # {} => tail \in start .. rcvLastAck - 1
    <3>1. Tails(start) \subseteq start .. rcvLastAck - 1
      BY Zenon DEF Tails
    <3>2. Tails(start) \in SUBSET Nat
      BY <1>2, <2>1, <3>1
    <3>3. Tails(start) # {} => tail \in Tails(start)
      BY <3>2, MinOfNats
    <3> QED
      BY <3>1, <3>3, Zenon
  <2> HIDE DEF tail, head
  <2>3. \/ /\ Tails(start) # {}
           /\ rcvBuf' = {p \in rcvBuf : p[1] \notin (rcvStart .. start - 1) \cup (head .. tail)}
           /\ rcvStart' = tail + 1
        \/ /\ rcvBuf' = {p \in rcvBuf : p[1] \notin rcvStart .. start - 1}
           /\ rcvStart' = start
    BY <1>9, Zenon DEF Recvmsg, start, tail, head
  <2>4. rcvStart' \in Nat /\ rcvStart <= rcvStart' /\ rcvStart' <= rcvLastAck
    BY <1>2, <2>1, <2>2, <2>3
  <2>5. rcvBuf' \subseteq rcvBuf
    BY <2>3, Zenon
  <2>6. \A p \in rcvBuf : p[1] >= rcvStart' => p \in rcvBuf'
    <3> SUFFICES ASSUME NEW p \in rcvBuf, p[1] >= rcvStart'
                 PROVE  p \in rcvBuf'
      OBVIOUS
    <3>1. p[1] \in Nat
      BY DEF LossInv, HeldNumbers
    <3>2. p[1] \notin rcvStart .. start - 1
      BY <1>2, <2>1, <2>2, <2>3, <3>1
    <3>3. Tails(start) # {} /\ rcvStart' = tail + 1 => p[1] \notin head .. tail
      BY <2>2, <2>1, <1>2, <3>1
    <3> QED
      BY <2>3, <3>2, <3>3, Zenon
  <2>7. UNCHANGED <<rcvCurrSeqNo, rcvLastAck, rcvLoss, dropped>>
    BY <1>9, Zenon DEF Recvmsg
  <2> QED
    BY <2>4, <2>5, <2>6, <2>7, ReadingKeepsLoss
<1>10. ASSUME ~(UNCHANGED rcvVars)
       PROVE  \/ \E p \in data : Data(p)
              \/ \E p \in drops : Drop(p)
              \/ SendAck
              \/ \E p \in ack2s : Ack2(p)
              \/ Recv
              \/ Recvmsg
  BY <1>10, Zenon DEF Next, vars, SndQueueStep, SenderReceives, ReceiverReceives, Sendmsg,
     PackPopLoss, PackStale, PackRetransmit, PackExpired, PackNew, PackNothing,
     LiteAck, Ack, AckStep, AckWindow, AckFree, AckResume, Nak, Exp,
     SendLiteAck, Lose
<1> QED
  BY <1>3, <1>4, <1>5, <1>6, <1>7, <1>8, <1>9, <1>10, Zenon

(* Every packet between the start of the receive buffer and the largest    *)
(* number seen is held, on the loss list, or was given up by the sender    *)
(* (core.cpp:2440, processData; core.cpp:2249, the drop request).          *)
THEOREM LossAccountedCorrect == Spec => []LossAccounted
<1>1. Init => LossInv
  BY NumbersInit, LossInit DEF LossInv
<1>2. LossInv => LossAccounted
  BY DEF LossInv
<1> QED
  BY <1>1, <1>2, LossStep, PTL DEF Spec

-----------------------------------------------------------------------------
(* Types.  What is not a type in TypeInv is needed to prove one: the       *)
(* blocks of a message have been added, the two ends free blocks together, *)
(* and a stream, whose data never expire, has no holes in what recv reads. *)

AckingType == [at : {"idle", "answered", "counted", "freed"}, ack : 0 .. MaxSeq + 1,
                room : 0 .. RcvBufSize]

SendTypes ==
  /\ sockType \in Modes
  /\ msgs \subseteq [from : 1 .. MaxBlocks, to : 1 .. MaxBlocks, mortal : Mortality]
  /\ \A m \in msgs : m.to <= lastBlock
  /\ lastBlock \in 0 .. MaxBlocks
  /\ currBlock \in 1 .. lastBlock + 1
  /\ firstBlock = sndLastDataAck
  /\ count \in Int /\ flowWindow \in Int
  /\ sndCurrSeqNo <= MaxSeq /\ sndLastAck <= MaxSeq + 1
  /\ onSndUList \in BOOLEAN /\ sndBroken \in BOOLEAN
  /\ acking \in AckingType

StreamOrder ==
  sockType = "SOCK_STREAM" =>
    /\ msgs = {} /\ drops = {} /\ dropped = {}
    /\ currBlock = sndCurrSeqNo + 1

NetTypes ==
  /\ data \subseteq SeqNos \X (0 .. MaxBlocks)
  /\ acks \subseteq (1 .. MaxSeq + 1) \X (2 .. RcvBufSize)
  /\ lites \subseteq 1 .. MaxSeq + 1
  /\ naks \subseteq SeqNos \X SeqNos /\ drops \subseteq SeqNos \X SeqNos

HoldTypes ==
  /\ rcvBuf \subseteq SeqNos \X (0 .. MaxBlocks)
  /\ arrived \subseteq 0 .. MaxBlocks /\ dropped \subseteq SeqNos
  /\ delivered \in Seq(0 .. MaxBlocks)
  /\ \A s \in rcvLoss : rcvLastAck <= s

TypeInv == LossInv /\ SendTypes /\ StreamOrder /\ NetTypes /\ HoldTypes

(* A nonempty set of natural numbers below a bound has a greatest element. *)
LEMMA MaxOfNats ==
  ASSUME NEW a \in Nat, NEW b \in Nat, NEW S \in SUBSET (a .. b), S # {}
  PROVE  Max(S) \in S
<1> DEFINE T == {b - x : x \in S}
<1>1. T \in SUBSET Nat /\ T # {}
  <2>1. \A x \in S : b - x \in Nat
    OBVIOUS
  <2> QED
    BY <2>1, Zenon
<1>2. Min(T) \in T /\ \A y \in T : Min(T) <= y
  BY <1>1, MinOfNats
<1>3. PICK x \in S : \A y \in S : b - x <= b - y
  BY <1>2
<1>4. \A y \in S : x >= y
  BY <1>3
<1> QED
  BY <1>4, Zenon DEF Max

(* The block of a lost packet: one that was added, or none.                *)
LEMMA LostBlockType ==
  ASSUME TypeInv, popped # 0, popped >= sndLastDataAck
  PROVE  LostBlock \in 0 .. lastBlock
  BY TransferAssumption DEF TypeInv, SendTypes, LossInv, NumbersInv, Numbers, LostBlock, NoBlock

(* What an expired message lets packData skip: at most the rest of it.     *)
LEMMA ExpiredLength ==
  ASSUME TypeInv, popped # 0, popped >= sndLastDataAck, NEW msglen \in MsgLens
  PROVE  /\ msglen \in Nat \ {0}
         /\ LostBlock + msglen <= lastBlock + 1
         /\ sockType # "SOCK_STREAM" \/ popped > lastBlock
<1>1. LostBlock \in 0 .. lastBlock /\ lastBlock \in Nat /\ MaxBlocks \in Nat
  BY LostBlockType, TransferAssumption DEF TypeInv, SendTypes
<1>2. CASE LostBlock = NoBlock
  <2>1. msglen = 1
    BY <1>2 DEF MsgLens
  <2>2. popped > lastBlock
    BY <1>1, <1>2 DEF LostBlock, NoBlock, TypeInv, SendTypes, LossInv, NumbersInv, Numbers
  <2> QED
    BY <1>1, <1>2, <2>1, <2>2 DEF NoBlock
<1>3. CASE LostBlock # NoBlock
  <2>1. PICK m \in msgs : LostBlock \in m.from .. m.to /\ msglen = m.to - LostBlock + 1
    BY <1>3, Zenon DEF MsgLens, Expired
  <2>2. m.from \in Nat /\ m.to \in Nat /\ m.to <= lastBlock
    BY <1>1 DEF TypeInv, SendTypes
  <2>3. sockType # "SOCK_STREAM"
    BY <2>1, Zenon DEF TypeInv, StreamOrder
  <2> QED
    BY <1>1, <2>1, <2>2, <2>3
<1> QED
  BY <1>2, <1>3

(* Both types hold of a new connection.                                    *)
LEMMA TypeInit == Init => TypeInv
<1> SUFFICES ASSUME Init
             PROVE  TypeInv
  OBVIOUS
<1>1. LossInv
  BY NumbersInit, LossInit DEF LossInv
<1>2. /\ lastBlock \in 0 .. MaxBlocks /\ currBlock \in 1 .. lastBlock + 1
      /\ count \in Int /\ flowWindow \in Int
      /\ sndCurrSeqNo <= MaxSeq /\ sndLastAck <= MaxSeq + 1
      /\ currBlock = sndCurrSeqNo + 1
      /\ acking \in AckingType
  BY TransferAssumption DEF Init, AckingType, NoAck
<1>3. SendTypes /\ StreamOrder
  BY <1>2, Zenon DEF Init, SendTypes, StreamOrder
<1>4. NetTypes
  BY DEF Init, NetTypes
<1>5. delivered \in Seq(0 .. MaxBlocks)
  BY DEF Init
<1>6. HoldTypes
  BY <1>5, Zenon DEF Init, HoldTypes
<1> QED
  BY <1>1, <1>4, <1>6, <1>3 DEF TypeInv

(* The sender's state keeps its types.                                     *)
LEMMA SendTypesStep == TypeInv /\ [Next]_vars => SendTypes' /\ StreamOrder'
<1> SUFFICES ASSUME TypeInv, [Next]_vars
             PROVE  SendTypes' /\ StreamOrder'
  OBVIOUS
<1>0. /\ MaxBlocks \in Nat /\ MaxSeq \in Nat
      /\ sndCurrSeqNo \in Nat /\ sndLastAck \in Nat /\ sndLastDataAck \in Nat \ {0} /\ popped \in Nat
      /\ popped <= sndCurrSeqNo
  BY TransferAssumption DEF TypeInv, LossInv, NumbersInv, Numbers, SentNumbers
<1>1. ASSUME UNCHANGED <<sockType, msgs, lastBlock, firstBlock, currBlock, count, sndCurrSeqNo,
                         sndLastAck, sndLastDataAck, flowWindow>>,
             onSndUList' \in {onSndUList, TRUE, FALSE}, sndBroken' \in {sndBroken, TRUE},
             acking' \in AckingType,
             drops' \subseteq drops, UNCHANGED dropped
      PROVE  SendTypes' /\ StreamOrder'
  <2>1. SendTypes'
    BY <1>1 DEF TypeInv, SendTypes
  <2>2. StreamOrder'
    BY <1>1 DEF TypeInv, StreamOrder
  <2> QED
    BY <2>1, <2>2
<1>2. ASSUME NEW n \in Lengths, NEW mortal \in Mortality, Sendmsg(n, mortal)
      PROVE  SendTypes' /\ StreamOrder'
  <2> DEFINE new == [from |-> lastBlock + 1, to |-> lastBlock + n, mortal |-> mortal]
  <2>1. /\ lastBlock + n <= MaxBlocks /\ lastBlock' = lastBlock + n /\ count' = count + n
        /\ onSndUList' = TRUE
        /\ UNCHANGED <<sockType, firstBlock, currBlock, sndCurrSeqNo, sndLastAck, sndLastDataAck,
                       flowWindow, sndBroken, acking, drops, dropped>>
    BY <1>2 DEF Sendmsg, rcvVars, netVars
  <2>2. msgs' = IF sockType = "SOCK_STREAM" THEN msgs ELSE msgs \cup {new}
    BY <1>2, Zenon DEF Sendmsg
  <2>3. lastBlock \in 0 .. MaxBlocks /\ currBlock \in 1 .. lastBlock + 1 /\ n \in Nat \ {0}
    BY TransferAssumption DEF TypeInv, SendTypes
  <2>4. new \in [from : 1 .. MaxBlocks, to : 1 .. MaxBlocks, mortal : Mortality]
         /\ new.to = lastBlock'
    BY <1>0, <2>1, <2>3
  <2> HIDE DEF new
  <2>5. \A m \in msgs' : m \in msgs \/ m = new
    BY <2>2, Zenon
  <2>6. \A m \in msgs : m.to \in Int /\ m.to <= lastBlock
    BY <1>0 DEF TypeInv, SendTypes
  <2>7. \A m \in msgs' : m.to <= lastBlock'
    <3>1. \A m \in msgs : m.to <= lastBlock'
      BY <2>1, <2>3, <2>6
    <3>2. new.to <= lastBlock'
      BY <2>1, <2>3, <2>4
    <3> QED
      BY <2>5, <3>1, <3>2, Zenon
  <2>8. msgs' \subseteq [from : 1 .. MaxBlocks, to : 1 .. MaxBlocks, mortal : Mortality]
    BY <2>4, <2>5, Zenon DEF TypeInv, SendTypes
  <2>9. SendTypes'
    BY <1>0, <2>1, <2>3, <2>7, <2>8 DEF TypeInv, SendTypes
  <2>10. StreamOrder'
    BY <2>1, <2>2 DEF TypeInv, StreamOrder
  <2> QED
    BY <2>9, <2>10
<1>3. CASE PackExpired
  <2>1. popped # 0 /\ popped >= sndLastDataAck
    BY <1>3, Zenon DEF PackExpired
  <2>2. PICK msglen \in MsgLens :
          LET last == popped + msglen
          IN /\ last < MaxSeq
             /\ currBlock' = IF currBlock \in LostBlock + 1 .. LostBlock + msglen - 1
                             THEN LostBlock + msglen ELSE currBlock
             /\ sndCurrSeqNo' = IF sndCurrSeqNo < last + 1 THEN last + 1 ELSE sndCurrSeqNo
    BY <1>3, Zenon DEF PackExpired
  <2>3. /\ msglen \in Nat \ {0} /\ LostBlock + msglen <= lastBlock + 1
        /\ sockType # "SOCK_STREAM" \/ popped > lastBlock
        /\ LostBlock \in 0 .. lastBlock
    BY <2>1, ExpiredLength, LostBlockType, Zenon
  <2>4. UNCHANGED <<sockType, msgs, lastBlock, firstBlock, count, sndLastAck, sndLastDataAck,
                    flowWindow, onSndUList, sndBroken, acking, dropped>>
    BY <1>3 DEF PackExpired, rcvVars
  <2>5. sockType # "SOCK_STREAM"
    BY <1>0, <2>3 DEF TypeInv, StreamOrder, SendTypes
  <2>6. SendTypes'
    BY <1>0, <2>2, <2>3, <2>4 DEF TypeInv, SendTypes
  <2> QED
    BY <2>4, <2>5, <2>6 DEF StreamOrder
<1>4. CASE PackNew
  <2>1. /\ currBlock # lastBlock + 1 /\ sndCurrSeqNo < MaxSeq
        /\ sndCurrSeqNo' = sndCurrSeqNo + 1 /\ currBlock' = currBlock + 1
        /\ UNCHANGED <<sockType, msgs, lastBlock, firstBlock, count, sndLastAck, sndLastDataAck,
                       flowWindow, onSndUList, sndBroken, acking, drops, dropped>>
    BY <1>4 DEF PackNew, rcvVars
  <2>2. SendTypes'
    BY <1>0, <2>1 DEF TypeInv, SendTypes
  <2>3. StreamOrder'
    BY <1>0, <2>1 DEF TypeInv, StreamOrder
  <2> QED
    BY <2>2, <2>3
<1>5. ASSUME NEW p \in lites, LiteAck(p)
      PROVE  SendTypes' /\ StreamOrder'
  <2>1. p \in 1 .. MaxSeq + 1
    BY DEF TypeInv, NetTypes
  <2>2. /\ \/ flowWindow' = flowWindow - (p - sndLastAck) /\ sndLastAck' = p
           \/ UNCHANGED <<flowWindow, sndLastAck>>
        /\ UNCHANGED <<sockType, msgs, lastBlock, firstBlock, currBlock, count, sndCurrSeqNo,
                       sndLastDataAck, onSndUList, sndBroken, acking, drops, dropped>>
    BY <1>5 DEF LiteAck, rcvVars
  <2>3. SendTypes'
    BY <1>0, <2>1, <2>2 DEF TypeInv, SendTypes
  <2>4. StreamOrder'
    BY <2>2 DEF TypeInv, StreamOrder
  <2> QED
    BY <2>3, <2>4
<1>6. ASSUME NEW p \in acks, Ack(p)
      PROVE  SendTypes' /\ StreamOrder'
  <2>1. p[1] \in 0 .. MaxSeq + 1 /\ p[2] \in 0 .. RcvBufSize
    BY TransferAssumption DEF TypeInv, NetTypes
  <2>2. acking' = [at |-> "answered", ack |-> p[1], room |-> p[2]]
    BY <1>6, Zenon DEF Ack
  <2>3. acking' \in AckingType
    BY <2>1, <2>2 DEF AckingType
  <2>4. UNCHANGED <<sockType, msgs, lastBlock, firstBlock, currBlock, count, sndCurrSeqNo,
                    sndLastAck, sndLastDataAck, flowWindow, onSndUList, sndBroken, drops, dropped>>
    BY <1>6 DEF Ack, rcvVars
  <2> QED
    BY <1>1, <2>3, <2>4
<1>7. CASE AckWindow
  <2>1. /\ acking.ack \in 0 .. MaxSeq + 1 /\ acking.room \in 0 .. RcvBufSize
        /\ acking.ack \in Nat \ {0}
    BY <1>7 DEF AckWindow, TypeInv, SendTypes, AckingType, LossInv, NumbersInv, AckNumbers,
                 Processing, Numbers
  <2>2. /\ \/ flowWindow' = acking.room /\ sndLastAck' = acking.ack
           \/ UNCHANGED <<flowWindow, sndLastAck>>
        /\ acking' \in {NoAck, [NoAck EXCEPT !.at = "counted", !.ack = acking.ack]}
        /\ sndBroken' \in {sndBroken, TRUE}
    BY <1>7, Zenon DEF AckWindow
  <2>3. acking' \in AckingType
    <3>1. 0 \in 0 .. RcvBufSize /\ 0 \in 0 .. MaxSeq + 1
      BY <1>0, TransferAssumption
    <3>2. NoAck \in AckingType
      BY <3>1, Zenon DEF AckingType, NoAck
    <3>3. [NoAck EXCEPT !.at = "counted", !.ack = acking.ack] \in AckingType
      BY <2>1, <3>1 DEF AckingType, NoAck
    <3> QED
      BY <2>2, <3>2, <3>3, Zenon
  <2>4. UNCHANGED <<sockType, msgs, lastBlock, firstBlock, currBlock, count, sndCurrSeqNo,
                    sndLastDataAck, onSndUList, drops, dropped>>
    BY <1>7 DEF AckWindow, rcvVars, netVars
  <2>5. flowWindow \in Int /\ sndLastAck <= MaxSeq + 1 /\ sndBroken \in BOOLEAN
    BY DEF TypeInv, SendTypes
  <2>6. flowWindow' \in Int /\ sndLastAck' <= MaxSeq + 1 /\ sndBroken' \in BOOLEAN
    <3>1. acking.room \in Int /\ acking.ack <= MaxSeq + 1
      BY <1>0, <2>1, TransferAssumption
    <3> QED
      BY <2>2, <2>5, <3>1
  <2>7. SendTypes'
    BY <2>3, <2>4, <2>6 DEF TypeInv, SendTypes
  <2>8. StreamOrder'
    BY <2>4 DEF TypeInv, StreamOrder
  <2> QED
    BY <2>7, <2>8
<1>8. CASE AckFree
  <2>1. acking.ack \in Nat
    BY DEF TypeInv, LossInv, NumbersInv, Numbers
  <2>2. /\ \/ /\ firstBlock' = firstBlock + (acking.ack - sndLastDataAck)
              /\ count' = count - (acking.ack - sndLastDataAck)
              /\ sndLastDataAck' = acking.ack
           \/ UNCHANGED <<firstBlock, count, sndLastDataAck>>
        /\ acking' \in {NoAck, [NoAck EXCEPT !.at = "freed"]}
    BY <1>8, Zenon DEF AckFree
  <2>3. acking' \in AckingType
    BY <1>0, <2>2, TransferAssumption DEF AckingType, NoAck
  <2>4. UNCHANGED <<sockType, msgs, lastBlock, currBlock, sndCurrSeqNo, sndLastAck, flowWindow,
                    onSndUList, sndBroken, drops, dropped>>
    BY <1>8 DEF AckFree, rcvVars, netVars
  <2>5. firstBlock = sndLastDataAck /\ count \in Int
    BY DEF TypeInv, SendTypes
  <2>6. firstBlock' = sndLastDataAck' /\ count' \in Int
    BY <1>0, <2>1, <2>2, <2>5
  <2>7. SendTypes'
    BY <2>3, <2>4, <2>6 DEF TypeInv, SendTypes
  <2>8. StreamOrder'
    BY <2>4 DEF TypeInv, StreamOrder
  <2> QED
    BY <2>7, <2>8
<1>9. CASE AckResume
  <2>1. acking' \in AckingType
    BY <1>0, <1>9, TransferAssumption DEF AckResume, AckingType, NoAck
  <2>2. /\ UNCHANGED <<sockType, msgs, lastBlock, firstBlock, currBlock, count, sndCurrSeqNo,
                       sndLastAck, sndLastDataAck, flowWindow, sndBroken, drops, dropped>>
        /\ onSndUList' = TRUE
    BY <1>9 DEF AckResume, rcvVars, netVars
  <2> QED
    BY <1>1, <2>1, <2>2
<1>10. ASSUME NEW p \in drops, Drop(p)
      PROVE  SendTypes' /\ StreamOrder'
  <2>1. UNCHANGED sndVars
    BY <1>10, Zenon DEF Drop
  <2>2. sockType # "SOCK_STREAM"
    BY Zenon DEF TypeInv, StreamOrder
  <2> QED
    BY <2>1, <2>2 DEF TypeInv, SendTypes, StreamOrder, sndVars
<1>11. ASSUME ~(\E n \in Lengths, mortal \in Mortality : Sendmsg(n, mortal)),
             ~PackExpired, ~PackNew, ~(\E p \in lites : LiteAck(p)),
             ~(\E p \in acks : Ack(p)), ~AckWindow, ~AckFree, ~AckResume,
             ~(\E p \in drops : Drop(p))
      PROVE  /\ UNCHANGED <<sockType, msgs, lastBlock, firstBlock, currBlock, count, sndCurrSeqNo,
                            sndLastAck, sndLastDataAck, flowWindow, acking, drops, dropped>>
             /\ onSndUList' \in {onSndUList, TRUE, FALSE} /\ sndBroken' \in {sndBroken, TRUE}
  <2>1. CASE \/ PackPopLoss \/ PackStale \/ PackRetransmit \/ PackNothing
             \/ \E p \in naks : Nak(p)
             \/ Exp \/ Lose
    BY <2>1 DEF PackPopLoss, PackStale, PackRetransmit, PackNothing, Nak, Exp, Lose,
                sndVars, rcvVars, netVars
  <2>2. CASE \/ \E p \in data : Data(p)
             \/ \E p \in ack2s : Ack2(p)
             \/ SendLiteAck \/ SendAck \/ Recv \/ Recvmsg
    BY <2>2 DEF Data, Ack2, SendLiteAck, SendAck, Recv, Recvmsg, sndVars, rcvVars, netVars
  <2>3. CASE UNCHANGED vars
    BY <2>3 DEF vars, sndVars, rcvVars, netVars
  <2> QED
    BY <1>11, <2>1, <2>2, <2>3, Zenon
    DEF Next, SndQueueStep, SenderReceives, AckStep, ReceiverReceives
<1>12. (drops' = drops => drops' \subseteq drops) /\ acking \in AckingType
  BY DEF TypeInv, SendTypes
<1> QED
  BY <1>1, <1>2, <1>3, <1>4, <1>5, <1>6, <1>7, <1>8, <1>9, <1>10, <1>11, <1>12

(* Every packet under way names numbers and blocks within the bounds.      *)
LEMMA NetTypesStep == TypeInv /\ [Next]_vars => NetTypes'
<1> SUFFICES ASSUME TypeInv, [Next]_vars
             PROVE  NetTypes'
  OBVIOUS
<1>1. /\ MaxBlocks \in Nat /\ MaxSeq \in Nat /\ RcvBufSize \in Nat \ {0, 1}
      /\ lastBlock \in 0 .. MaxBlocks /\ currBlock \in 1 .. lastBlock + 1
      /\ sndCurrSeqNo \in 0 .. MaxSeq /\ popped \in 0 .. MaxSeq
      /\ rcvCurrSeqNo \in 0 .. MaxSeq
  BY TransferAssumption
     DEF TypeInv, SendTypes, LossInv, NumbersInv, Numbers, SentNumbers, SeenNumbers
<1>2. CASE UNCHANGED netVars
  BY <1>2 DEF TypeInv, NetTypes, netVars
<1>3. CASE /\ data' \subseteq data /\ acks' \subseteq acks /\ lites' \subseteq lites
           /\ naks' \subseteq naks /\ drops' \subseteq drops
  BY <1>3, Zenon DEF TypeInv, NetTypes
<1>4. ASSUME NEW seq \in SeqNos, NEW b \in 0 .. MaxBlocks,
             data' = data \cup {<<seq, b>>}, UNCHANGED <<acks, lites, naks, drops>>
      PROVE  NetTypes'
  BY <1>4 DEF TypeInv, NetTypes
<1>5. CASE PackRetransmit
  <2>1. /\ popped # 0 /\ popped >= sndLastDataAck
        /\ data' = data \cup {<<popped, LostBlock>>} /\ UNCHANGED <<acks, lites, naks, drops>>
    BY <1>5, Zenon DEF PackRetransmit
  <2>2. LostBlock \in 0 .. lastBlock
    BY <2>1, LostBlockType
  <2>3. LostBlock \in 0 .. MaxBlocks /\ popped \in SeqNos
    BY <1>1, <2>1, <2>2 DEF SeqNos
  <2> QED
    BY <1>4, <2>1, <2>3
<1>6. CASE PackExpired
  <2>1. popped # 0 /\ popped >= sndLastDataAck
    BY <1>6, Zenon DEF PackExpired
  <2>2. PICK msglen \in MsgLens :
          popped + msglen < MaxSeq /\ drops' = drops \cup {<<popped, popped + msglen>>}
    BY <1>6, Zenon DEF PackExpired
  <2>3. msglen \in Nat \ {0}
    BY <2>1, ExpiredLength, Zenon
  <2>4. popped \in SeqNos /\ popped + msglen \in SeqNos
    BY <1>1, <2>1, <2>2, <2>3 DEF SeqNos
  <2>5. UNCHANGED <<data, acks, lites, naks>>
    BY <1>6, Zenon DEF PackExpired
  <2> QED
    BY <2>2, <2>4, <2>5 DEF TypeInv, NetTypes
<1>7. CASE PackNew
  <2>1. /\ currBlock # lastBlock + 1 /\ sndCurrSeqNo < MaxSeq
        /\ data' = data \cup {<<sndCurrSeqNo + 1, currBlock>>}
        /\ UNCHANGED <<acks, lites, naks, drops>>
    BY <1>7, Zenon DEF PackNew
  <2>2. sndCurrSeqNo + 1 \in SeqNos /\ currBlock \in 0 .. MaxBlocks
    BY <1>1, <2>1 DEF SeqNos
  <2> QED
    BY <1>4, <2>1, <2>2
<1>8. ASSUME NEW p \in data, Data(p)
      PROVE  NetTypes'
  <2> DEFINE seq == p[1]
  <2>1. seq \in SeqNos
    BY DEF TypeInv, NetTypes
  <2>2. data' \subseteq data
    BY <1>8, LeftSubset, Zenon DEF Data
  <2> HIDE DEF seq
  <2>3. \/ UNCHANGED naks
        \/ seq > rcvCurrSeqNo + 1 /\ naks' = naks \cup {<<rcvCurrSeqNo + 1, seq - 1>>}
    BY <1>8, Zenon DEF Data, seq
  <2>4. seq > rcvCurrSeqNo + 1 => rcvCurrSeqNo + 1 \in SeqNos /\ seq - 1 \in SeqNos
    BY <1>1, <2>1 DEF SeqNos
  <2>5. UNCHANGED <<acks, lites, drops>>
    BY <1>8, Zenon DEF Data
  <2> QED
    BY <2>2, <2>3, <2>4, <2>5 DEF TypeInv, NetTypes
<1>9. Ackable \in 1 .. MaxSeq + 1
  BY <1>1, AckableBound DEF TypeInv, LossInv
<1>10. CASE SendLiteAck
  BY <1>9, <1>10, Zenon DEF SendLiteAck, TypeInv, NetTypes
<1>11. CASE SendAck
  <2> DEFINE avail == AvailBufSize(Ackable)
  <2>1. avail \in Int /\ avail < RcvBufSize
    <3>1. Ackable - rcvStart \in Int
      BY <1>9 DEF TypeInv, LossInv, HeldNumbers
    <3>2. \A x \in Int : RcvBufSize - (x % RcvBufSize) - 1 \in Int
                         /\ RcvBufSize - (x % RcvBufSize) - 1 < RcvBufSize
      BY <1>1
    <3> QED
      BY <3>1, <3>2, Zenon DEF AvailBufSize, DataSize
  <2> HIDE DEF avail
  <2>2. FlowWindow(avail) \in 2 .. RcvBufSize
    BY <1>1, <2>1 DEF FlowWindow
  <2>3. acks' = acks \/ acks' = acks \cup {<<Ackable, FlowWindow(avail)>>}
    BY <1>11, Zenon DEF SendAck, avail
  <2>4. UNCHANGED <<data, lites, naks, drops>>
    BY <1>11, Zenon DEF SendAck
  <2> QED
    BY <1>9, <2>2, <2>3, <2>4 DEF TypeInv, NetTypes
<1>12. ASSUME ~PackRetransmit, ~PackExpired, ~PackNew, ~(\E p \in data : Data(p)),
              ~SendLiteAck, ~SendAck
       PROVE  \/ UNCHANGED netVars
              \/ /\ data' \subseteq data /\ acks' \subseteq acks /\ lites' \subseteq lites
                 /\ naks' \subseteq naks /\ drops' \subseteq drops
  <2>1. CASE \/ \E p \in lites : LiteAck(p)
             \/ \E p \in acks : Ack(p)
             \/ \E p \in naks : Nak(p)
             \/ \E p \in ack2s : Ack2(p)
             \/ \E p \in drops : Drop(p)
             \/ Lose
    BY <2>1, LeftSubset DEF LiteAck, Ack, Nak, Ack2, Drop, Lose
  <2>2. CASE \/ \E n \in Lengths, mortal \in Mortality : Sendmsg(n, mortal)
             \/ PackPopLoss \/ PackStale \/ PackNothing \/ Exp \/ Recv \/ Recvmsg
             \/ AckStep
    BY <2>2, Zenon DEF Sendmsg, PackPopLoss, PackStale, PackNothing, Exp, Recv, Recvmsg,
                       AckStep, AckWindow, AckFree, AckResume
  <2>3. CASE UNCHANGED vars
    BY <2>3 DEF vars, netVars
  <2> QED
    BY <1>12, <2>1, <2>2, <2>3, Zenon DEF Next, SndQueueStep, SenderReceives, ReceiverReceives
<1> QED
  BY <1>2, <1>3, <1>5, <1>6, <1>7, <1>8, <1>10, <1>11, <1>12, Zenon

(* What is read from filled slots are blocks.                              *)
LEMMA BlocksType ==
  ASSUME TypeInv, NEW first \in Nat, NEW last \in Nat, first <= last + 1,
         \A s \in first .. last : Filled(s)
  PROVE  delivered \o Blocks(first, last) \in Seq(0 .. MaxBlocks)
<1>1. rcvBuf \subseteq SeqNos \X (0 .. MaxBlocks) /\ delivered \in Seq(0 .. MaxBlocks)
  BY DEF TypeInv, HoldTypes
<1>2. \A p \in rcvBuf : p[2] \in 0 .. MaxBlocks
  BY <1>1
<1>3. \A s \in first .. last : Block(s) \in 0 .. MaxBlocks
  <2> TAKE s \in first .. last
  <2>1. PICK q \in rcvBuf : q[1] % RcvBufSize = s % RcvBufSize
    BY Zenon DEF Filled
  <2>2. (CHOOSE p \in rcvBuf : p[1] % RcvBufSize = s % RcvBufSize) \in rcvBuf
    BY <2>1, Zenon
  <2> QED
    BY <1>2, <2>2, Zenon DEF Block
<1> DEFINE n == last - first + 1
           bs == [i \in 1 .. n |-> Block(first + i - 1)]
<1>4. n \in Nat /\ \A i \in 1 .. n : first + i - 1 \in first .. last
  OBVIOUS
<1>5. bs \in [1 .. n -> 0 .. MaxBlocks]
  BY <1>3, <1>4, Zenon
<1> HIDE DEF n
<1>6. bs \in Seq(0 .. MaxBlocks)
  <2> HIDE DEF bs
  <2> QED
    BY <1>4, <1>5, SeqDef, Zenon
<1>7. Blocks(first, last) = bs
  BY Zenon DEF Blocks, n
<1> HIDE DEF bs
<1> QED
  BY <1>1, <1>6, <1>7

(* In a stream, everything acknowledged and not yet read is in the buffer. *)
LEMMA StreamFilled ==
  ASSUME TypeInv, sockType = "SOCK_STREAM", NEW s \in rcvStart .. rcvLastAck - 1
  PROVE  Filled(s)
<1>1. rcvStart \in Nat /\ rcvLastAck \in Nat /\ rcvCurrSeqNo \in Nat /\ rcvLastAck <= rcvCurrSeqNo + 1
  BY DEF TypeInv, LossInv, HeldNumbers, NumbersInv, Numbers, SeenNumbers
<1>2. s \in rcvStart .. rcvCurrSeqNo /\ ~(rcvLastAck <= s)
  BY <1>1
<1>3. Accounted(s)
  BY <1>2, LossAccountedDef, Zenon DEF TypeInv, LossInv
<1>4. s \notin rcvLoss /\ s \notin dropped
  BY <1>2, Zenon DEF TypeInv, HoldTypes, StreamOrder
<1> QED
  BY <1>3, <1>4, Zenon DEF Accounted, Held, Filled

(* A message that readMsg returns has no holes.                            *)
LEMMA MessageFilled ==
  ASSUME TypeInv, Recvmsg, delivered' # delivered
  PROVE  delivered' \in Seq(0 .. MaxBlocks)
<1> DEFINE S == {rcvLastAck} \cup {s \in rcvStart .. rcvLastAck - 1 : GoodHead(s)}
           start == ScanStart
           tail == Min(Tails(start))
           H == {s \in start .. tail : IsHead(s)}
           head == Max(H)
<1>1. rcvStart \in Nat /\ rcvLastAck \in Nat /\ rcvStart <= rcvLastAck
  BY DEF TypeInv, LossInv, HeldNumbers, NumbersInv, Numbers
<1>2. Tails(start) # {} /\ delivered' = delivered \o Blocks(head, tail)
  BY Zenon DEF Recvmsg
<1>3. start \in S /\ S \in SUBSET Nat /\ \A s \in S : rcvStart <= s
  <2>1. S \in SUBSET Nat /\ S # {} /\ \A s \in S : rcvStart <= s
    BY <1>1
  <2>2. start = Min(S)
    BY Zenon DEF ScanStart
  <2> HIDE DEF S, start
  <2> QED
    BY <2>1, <2>2, MinOfNats
<1>4. start \in Nat
  BY <1>3, Zenon
<1>5. Tails(start) \in SUBSET Nat /\ Tails(start) \subseteq start .. rcvLastAck - 1
  <2> HIDE DEF start
  <2> QED
    BY <1>1, <1>4 DEF Tails
<1>6. tail \in Tails(start)
  <2> HIDE DEF start
  <2> QED
    BY <1>2, <1>5, MinOfNats
<1>7. start <= tail /\ tail \in Nat /\ start # rcvLastAck
  <2> HIDE DEF start, tail
  <2> QED
    BY <1>1, <1>4, <1>5, <1>6
<1>8. GoodHead(start)
  BY <1>3, <1>7, Zenon
<1>9. \A i \in start .. tail : Filled(i)
  BY <1>2, <1>8, Zenon DEF GoodHead
<1>10. start \in H
  <2>1. start \in start .. tail
    <3> HIDE DEF start, tail
    <3> QED
      BY <1>4, <1>7
  <2> QED
    BY <1>8, <2>1, Zenon DEF GoodHead
<1> HIDE DEF start, tail, H
<1>11. head \in H
  <2>1. H \in SUBSET (start .. tail)
    BY Zenon DEF H
  <2> QED
    BY <1>4, <1>7, <1>10, <2>1, MaxOfNats
<1>12. head \in start .. tail
  BY <1>11, Zenon DEF H
<1> HIDE DEF head
<1>13. head \in Nat /\ head <= tail + 1 /\ \A i \in head .. tail : i \in start .. tail
  BY <1>4, <1>7, <1>12
<1>14. \A i \in head .. tail : Filled(i)
  BY <1>9, <1>13, Zenon
<1> QED
  BY <1>2, <1>7, <1>13, <1>14, BlocksType

(* processData adds a block to the buffer, and losses only after what is   *)
(* acknowledged.                                                           *)
LEMMA DataKeepsTypes ==
  ASSUME TypeInv, NEW p \in data, Data(p)
  PROVE  HoldTypes'
<1> DEFINE seq == p[1]
<1>1. p \in SeqNos \X (0 .. MaxBlocks) /\ p[2] \in 0 .. MaxBlocks
  BY DEF TypeInv, NetTypes
<1>2. seq \in Int /\ rcvLastAck \in Nat /\ rcvCurrSeqNo \in Nat /\ rcvLastAck <= rcvCurrSeqNo + 1
  BY <1>1 DEF TypeInv, LossInv, NumbersInv, Numbers, SeenNumbers, SeqNos
<1> HIDE DEF seq
<1>3. /\ \/ UNCHANGED <<rcvBuf, arrived>>
         \/ rcvBuf' = rcvBuf \cup {p} /\ arrived' = arrived \cup {p[2]}
      /\ UNCHANGED <<dropped, delivered, rcvLastAck>>
      /\ rcvLoss' \subseteq rcvLoss \cup (rcvCurrSeqNo + 1 .. seq - 1)
  BY Zenon DEF Data, seq
<1>4. \A s \in rcvCurrSeqNo + 1 .. seq - 1 : rcvLastAck <= s
  BY <1>2
<1>5. \A s \in rcvLoss' : rcvLastAck' <= s
  BY <1>3, <1>4, Zenon DEF TypeInv, HoldTypes
<1> QED
  BY <1>1, <1>3, <1>5 DEF TypeInv, HoldTypes

(* The receiver's buffer and what has been read from it keep their types.  *)
LEMMA HoldTypesStep == TypeInv /\ [Next]_vars => HoldTypes'
<1> SUFFICES ASSUME TypeInv, [Next]_vars
             PROVE  HoldTypes'
  OBVIOUS
<1>1. CASE UNCHANGED <<rcvBuf, arrived, dropped, delivered, rcvLoss, rcvLastAck>>
  BY <1>1 DEF TypeInv, HoldTypes
<1>2. ASSUME NEW p \in data, Data(p)
      PROVE  HoldTypes'
  BY <1>2, DataKeepsTypes
<1>3. ASSUME NEW p \in drops, Drop(p)
      PROVE  HoldTypes'
  <2>1. p[1] \in SeqNos /\ p[2] \in SeqNos
    BY DEF TypeInv, NetTypes
  <2>2. p[1] .. p[2] \subseteq SeqNos
    BY <2>1, TransferAssumption DEF SeqNos
  <2>3. /\ rcvLoss' \subseteq rcvLoss /\ dropped' = dropped \cup (p[1] .. p[2])
        /\ UNCHANGED <<rcvBuf, arrived, delivered, rcvLastAck>>
    BY <1>3, Zenon DEF Drop
  <2> QED
    BY <2>2, <2>3, Zenon DEF TypeInv, HoldTypes
<1>4. CASE SendAck
  <2>1. rcvLoss \in SUBSET Nat
    BY DEF TypeInv, LossInv, NumbersInv, SeenNumbers, Numbers
  <2>2. \A s \in rcvLoss : Ackable <= s
    BY <2>1, MinOfNats DEF Ackable
  <2>3. rcvLastAck' = Ackable /\ UNCHANGED <<rcvBuf, arrived, dropped, delivered, rcvLoss>>
    BY <1>4, Zenon DEF SendAck
  <2> QED
    BY <2>2, <2>3 DEF TypeInv, HoldTypes
<1>5. CASE Recv
  <2>1. PICK last \in rcvStart .. rcvLastAck - 1 :
          /\ delivered' = delivered \o Blocks(rcvStart, last)
          /\ rcvBuf' \subseteq rcvBuf
    BY <1>5, Zenon DEF Recv
  <2>2. rcvStart \in Nat /\ last \in Nat /\ rcvStart <= last + 1
         /\ \A s \in rcvStart .. last : s \in rcvStart .. rcvLastAck - 1
    BY DEF TypeInv, LossInv, HeldNumbers, NumbersInv, Numbers
  <2>3. \A s \in rcvStart .. last : Filled(s)
    BY <1>5, <2>2, StreamFilled, Zenon DEF Recv
  <2>4. delivered' \in Seq(0 .. MaxBlocks)
    BY <2>1, <2>2, <2>3, BlocksType
  <2>5. UNCHANGED <<arrived, dropped, rcvLoss, rcvLastAck>>
    BY <1>5, Zenon DEF Recv
  <2> QED
    BY <2>1, <2>4, <2>5, Zenon DEF TypeInv, HoldTypes
<1>6. CASE Recvmsg
  <2>1. delivered' \in Seq(0 .. MaxBlocks)
    BY <1>6, MessageFilled, Zenon DEF TypeInv, HoldTypes
  <2>2. rcvBuf' \subseteq rcvBuf /\ UNCHANGED <<arrived, dropped, rcvLoss, rcvLastAck>>
    BY <1>6, Zenon DEF Recvmsg
  <2> QED
    BY <2>1, <2>2, Zenon DEF TypeInv, HoldTypes
<1>7. ASSUME ~(UNCHANGED <<rcvBuf, arrived, dropped, delivered, rcvLoss, rcvLastAck>>)
      PROVE  \/ \E p \in data : Data(p)
             \/ \E p \in drops : Drop(p)
             \/ SendAck \/ Recv \/ Recvmsg
  BY <1>7, Zenon DEF Next, vars, rcvVars, SndQueueStep, SenderReceives, ReceiverReceives, Sendmsg,
     PackPopLoss, PackStale, PackRetransmit, PackExpired, PackNew, PackNothing,
     LiteAck, Ack, AckStep, AckWindow, AckFree, AckResume, Nak, Exp,
     Ack2, SendLiteAck, Lose
<1> QED
  BY <1>1, <1>2, <1>3, <1>4, <1>5, <1>6, <1>7, Zenon

(* TypeInv includes the type invariant of the module.                      *)
LEMMA TypeInvIsTypeOK == TypeInv => TransferTypeOK
<1> SUFFICES ASSUME TypeInv
             PROVE  TransferTypeOK
  OBVIOUS
<1>1. /\ MaxBlocks \in Nat /\ MaxSeq \in Nat
      /\ sndCurrSeqNo \in 0 .. MaxSeq /\ sndLastAck \in 1 .. MaxSeq + 1
      /\ lastBlock \in 0 .. MaxBlocks /\ currBlock \in 1 .. MaxBlocks + 1
      /\ popped \in 0 .. MaxSeq
  BY TransferAssumption DEF TypeInv, SendTypes, LossInv, NumbersInv, Numbers, SentNumbers
<1>2. /\ rcvCurrSeqNo \in 0 .. MaxSeq
      /\ rcvLastAck \in 1 .. MaxSeq + 1 /\ rcvLastAckAck \in 1 .. MaxSeq + 1
      /\ rcvStart \in 1 .. MaxSeq + 1
      /\ sndLastDataAck \in 1 .. MaxSeq + 1 /\ firstBlock \in 1 .. MaxSeq + 1
  BY <1>1 DEF TypeInv, SendTypes, LossInv, HeldNumbers, NumbersInv, Numbers, SeenNumbers, AckOrder,
     AckNumbers, Processing
<1>3. /\ sndLoss \subseteq SeqNos /\ rcvLoss \subseteq SeqNos /\ ack2s \subseteq 1 .. MaxSeq + 1
  BY <1>1, <1>2 DEF TypeInv, LossInv, NumbersInv, Numbers, SentNumbers, SeenNumbers,
     AckNumbers, Processing, SeqNos
<1> QED
  BY <1>1, <1>2, <1>3, Zenon DEF TypeInv, SendTypes, AckingType, NetTypes, HoldTypes, TransferTypeOK

(* Every variable of the two ends (CUDT, CSndBuffer, CRcvBuffer, the loss  *)
(* lists) and every packet stays within its type, whatever expires: no     *)
(* block is sent, and no slot read, that was never there.                  *)
THEOREM TransferTypeCorrect == Spec => []TransferTypeOK
<1>1. TypeInv /\ [Next]_vars => TypeInv'
  <2>1. TypeInv /\ [Next]_vars => LossInv'
    BY LossStep, Zenon DEF TypeInv
  <2> QED
    BY <2>1, SendTypesStep, NetTypesStep, HoldTypesStep, Zenon DEF TypeInv
<1> QED
  BY <1>1, TypeInit, TypeInvIsTypeOK, PTL DEF Spec

(***************************************************************************)
(* Connections without times to live, on top of the invariants above.     *)
(***************************************************************************)

(* Without times to live, sequence numbers and blocks go together.         *)
SenderInv ==
  /\ \A m \in msgs : ~m.mortal
  /\ lastBlock \in Nat
  /\ currBlock = sndCurrSeqNo + 1 /\ sndCurrSeqNo <= lastBlock
  /\ firstBlock = sndLastDataAck
  /\ count = lastBlock - firstBlock + 1
  /\ drops = {} /\ dropped = {}

(* A packet under its number carries the block of that number.             *)
PacketInv ==
  /\ \A p \in data : p[2] = p[1]
  /\ \A p \in rcvBuf : p[2] = p[1]

(* The receiver holds nothing before the start of its buffer, and what it  *)
(* has seen fits in it; no loss is before what it has acknowledged.        *)
BufferInv ==
  /\ \A p \in rcvBuf : rcvStart <= p[1]
  /\ rcvCurrSeqNo + 2 <= rcvStart + RcvBufSize
  /\ \A s \in rcvLoss : rcvLastAck <= s

(* Messages follow one another without gaps, and the receive buffer starts *)
(* where one begins.                                                       *)
Begins(b) == b = lastBlock + 1 \/ \E m \in msgs : m.from = b
Ends(b) == b = 0 \/ \E m \in msgs : m.to = b
MessageInv ==
  sockType = "SOCK_DGRAM" =>
    /\ \A m \in msgs : /\ 1 <= m.from /\ m.from <= m.to /\ m.to <= lastBlock
                       /\ Ends(m.from - 1) /\ Begins(m.to + 1)
    /\ Ends(lastBlock) /\ Begins(rcvStart)

OutInv == delivered = [i \in 1 .. rcvStart - 1 |-> i]

ChannelInv == LossInv /\ SenderInv /\ PacketInv /\ BufferInv /\ MessageInv /\ OutInv

-----------------------------------------------------------------------------
(* The ring: two sequence numbers less than a round apart have the same    *)
(* slot only if they are equal.                                            *)
LEMMA SlotNumber ==
  ASSUME NEW n \in Nat \ {0}, NEW a \in Int
  PROVE  a \div n \in Int /\ a % n \in Int /\ a = n * (a \div n) + (a % n)
  OBVIOUS

(* Less than a round, in whole rounds, is none.                            *)
LEMMA WholeRounds ==
  ASSUME NEW n \in Nat \ {0}, NEW k \in Int, n * k < n, 0 <= n * k
  PROVE  k = 0
  OBVIOUS

(* One direction of SameSlot.                                              *)
LEMMA SameSlotOrdered ==
  ASSUME NEW n \in Nat \ {0}, NEW a \in Nat, NEW b \in Nat,
         a % n = b % n, a <= b, b < a + n
  PROVE  a = b
<1> DEFINE k == b \div n
           j == a \div n
           r == a % n
<1>1. k \in Int /\ j \in Int /\ r \in Int /\ a = n * j + r /\ b = n * k + r
  BY SlotNumber
<1> HIDE DEF k, j, r
<1>2. b - a = n * (k - j)
  BY <1>1
<1>3. k - j = 0
  BY <1>1, <1>2, WholeRounds
<1> QED
  BY <1>1, <1>3

(* Numbers less than a round apart that share a slot are equal.            *)
LEMMA SameSlot ==
  ASSUME NEW n \in Nat \ {0}, NEW a \in Nat, NEW b \in Nat,
         a % n = b % n, b < a + n, a < b + n
  PROVE  a = b
<1>1. CASE a <= b
  BY <1>1, SameSlotOrdered
<1>2. CASE b <= a
  BY <1>2, SameSlotOrdered
<1> QED
  BY <1>1, <1>2

(* What ChannelInv says of the numbers of the receive buffer.              *)
LEMMA BufferNumbers ==
  ASSUME ChannelInv
  PROVE  /\ rcvStart \in Nat \ {0} /\ rcvLastAck \in Nat /\ rcvCurrSeqNo \in Nat
         /\ rcvStart <= rcvLastAck /\ rcvLastAck <= rcvCurrSeqNo + 1
         /\ rcvCurrSeqNo + 2 <= rcvStart + RcvBufSize
         /\ RcvBufSize \in Nat \ {0, 1}
         /\ \A p \in rcvBuf : p[1] \in Nat /\ rcvStart <= p[1] /\ p[1] <= rcvCurrSeqNo
  BY TransferAssumption
  DEF ChannelInv, LossInv, NumbersInv, Numbers, SeenNumbers, HeldNumbers, BufferInv

(* In the round that begins at the start of the buffer, a slot is taken    *)
(* only by its own packet.                                                 *)
LEMMA FilledIsHeld ==
  ASSUME ChannelInv, NEW s \in Nat, rcvStart <= s, s < rcvStart + RcvBufSize
  PROVE  /\ Filled(s) <=> Held(s)
         /\ \A p \in rcvBuf : p[1] % RcvBufSize = s % RcvBufSize => p[1] = s
<1>1. \A p \in rcvBuf : p[1] % RcvBufSize = s % RcvBufSize => p[1] = s
  <2> TAKE p \in rcvBuf
  <2> HAVE p[1] % RcvBufSize = s % RcvBufSize
  <2> DEFINE q == p[1]
  <2>1. q \in Nat /\ q < s + RcvBufSize /\ s < q + RcvBufSize /\ RcvBufSize \in Nat \ {0}
    BY BufferNumbers
  <2>2. q % RcvBufSize = s % RcvBufSize
    OBVIOUS
  <2> HIDE DEF q
  <2>3. q = s
    BY <2>1, <2>2, SameSlot
  <2> QED
    BY <2>3 DEF q
<1> QED
  BY <1>1, Zenon DEF Filled, Held

(* All that is acknowledged and not read is there.                         *)
LEMMA AcknowledgedIsHeld ==
  ASSUME ChannelInv, NEW s \in rcvStart .. rcvLastAck - 1
  PROVE  Held(s) /\ Filled(s) /\ Block(s) = s
<1>1. s \in Nat /\ s \in rcvStart .. rcvCurrSeqNo /\ rcvStart <= s /\ s < rcvStart + RcvBufSize
       /\ s < rcvLastAck
  BY BufferNumbers
<1>2. Accounted(s)
  BY <1>1, LossAccountedDef, Zenon DEF ChannelInv, LossInv
<1>3. s \notin dropped
  BY Zenon DEF ChannelInv, SenderInv
<1>4. s \notin rcvLoss
  <2>1. s \in rcvLoss => rcvLastAck <= s
    BY Zenon DEF ChannelInv, BufferInv
  <2> QED
    BY <1>1, <2>1, BufferNumbers
<1>5. Held(s)
  BY <1>2, <1>3, <1>4, Zenon DEF Accounted
<1>6. Filled(s)
  BY <1>1, <1>5, FilledIsHeld
<1>7. \A p \in rcvBuf : p[1] % RcvBufSize = s % RcvBufSize => p[2] = s
  BY <1>1, FilledIsHeld DEF ChannelInv, PacketInv
<1>8. PICK p \in rcvBuf : p[1] % RcvBufSize = s % RcvBufSize
  BY <1>6, Zenon DEF Filled
<1>9. Block(s) = s
  BY <1>7, <1>8, Zenon DEF Block
<1> QED
  BY <1>5, <1>6, <1>9

-----------------------------------------------------------------------------
(* Reading up to a block delivers the blocks up to it.                     *)
LEMMA CountingSeq ==
  ASSUME NEW n \in Nat
  PROVE  /\ [i \in 1 .. n |-> i] \in Seq(Nat)
         /\ Len([i \in 1 .. n |-> i]) = n
  OBVIOUS

(* What readBuffer or readMsg appends continues the blocks delivered so    *)
(* far.                                                                    *)
LEMMA ReadBlocks ==
  ASSUME ChannelInv, NEW last \in rcvStart .. rcvLastAck - 1
  PROVE  delivered \o Blocks(rcvStart, last) = [i \in 1 .. last |-> i]
<1> DEFINE n == last - rcvStart + 1
           k == rcvStart - 1
           B == Blocks(rcvStart, last)
           out == [i \in 1 .. last |-> i]
<1>1. n \in Nat /\ k \in Nat /\ last \in Nat /\ k + n = last
  BY BufferNumbers
<1>2. delivered = [i \in 1 .. k |-> i] /\ delivered \in Seq(Nat) /\ Len(delivered) = k
  <2>1. delivered = [i \in 1 .. k |-> i]
    BY Zenon DEF ChannelInv, OutInv
  <2> QED
    BY <1>1, <2>1, CountingSeq, Zenon
<1>3. \A i \in 1 .. n : Block(rcvStart + i - 1) = k + i
  <2> TAKE i \in 1 .. n
  <2>1. rcvStart + i - 1 \in rcvStart .. rcvLastAck - 1 /\ rcvStart + i - 1 = k + i
    BY BufferNumbers
  <2> QED
    BY <2>1, AcknowledgedIsHeld, Zenon
<1>4. B = [i \in 1 .. n |-> k + i]
  BY <1>3, Zenon DEF Blocks
<1> HIDE DEF n, k, B
<1>5. B \in Seq(Nat) /\ Len(B) = n
  BY <1>1, <1>4
<1>6. out \in Seq(Nat) /\ Len(out) = last
  BY <1>1, CountingSeq
<1>7. delivered \o B \in Seq(Nat) /\ Len(delivered \o B) = last
  BY <1>1, <1>2, <1>5
<1>8. \A i \in 1 .. last : (delivered \o B)[i] = i
  <2> TAKE i \in 1 .. last
  <2>1. CASE i <= k
    BY <1>1, <1>2, <1>5, <2>1
  <2>2. CASE i > k
    <3>1. (delivered \o B)[i] = B[i - k]
      BY <1>1, <1>2, <1>5, <2>2
    <3>2. i - k \in 1 .. n /\ k + (i - k) = i
      BY <1>1, <2>2
    <3>3. B[i - k] = k + (i - k)
      BY <1>4, <3>2, Zenon
    <3> QED
      BY <3>1, <3>2, <3>3, Zenon
  <2>3. i <= k \/ i > k
    BY <1>1
  <2> QED
    BY <2>1, <2>2, <2>3, Zenon
<1> QED
  BY <1>6, <1>7, <1>8, SeqEqual DEF B

(* A step of recv, or of recvmsg: the blocks up to the last one are read   *)
(* and leave the buffer.                                                   *)
ReadUpTo(last) ==
  /\ delivered' = delivered \o Blocks(rcvStart, last)
  /\ rcvBuf' = {p \in rcvBuf : p[1] > last}
  /\ rcvStart' = last + 1

(* What the receiver acknowledges has been sent.                           *)
LEMMA AcknowledgedIsSent ==
  ASSUME ChannelInv
  PROVE  lastBlock \in Nat /\ rcvLastAck <= lastBlock + 1
  BY DEF ChannelInv, SenderInv, LossInv, NumbersInv, Numbers, SeenNumbers

(* Nothing is ever missing between two messages, so recvmsg takes the one  *)
(* at the start of the buffer: scanMsg gives nothing up.                   *)
LEMMA MessageRead ==
  ASSUME ChannelInv, Recvmsg
  PROVE  \E last \in rcvStart .. rcvLastAck - 1 : ReadUpTo(last) /\ Begins(last + 1)
<1>1. /\ \A m \in msgs : /\ m.from \in Int /\ m.to \in Int /\ 1 <= m.from
                         /\ Ends(m.from - 1) /\ Begins(m.to + 1)
      /\ Begins(rcvStart)
  <2>1. sockType = "SOCK_DGRAM"
    BY Zenon DEF Recvmsg
  <2>2. \A m \in msgs : m.from \in Int /\ m.to \in Int
    BY DEF ChannelInv, LossInv, NumbersInv, Numbers
  <2> QED
    BY <2>1, <2>2, Zenon DEF ChannelInv, MessageInv
<1>2. rcvStart \in Nat \ {0} /\ rcvLastAck \in Nat /\ rcvStart <= rcvLastAck
       /\ \A p \in rcvBuf : p[1] \in Nat /\ rcvStart <= p[1]
  BY BufferNumbers
<1>3. \A s \in rcvStart .. rcvLastAck - 1 : Filled(s) /\ Block(s) = s
  BY AcknowledgedIsHeld, Zenon
<1>4. \A s \in rcvStart .. rcvLastAck - 1, m \in msgs : m.from = s => IsHead(s)
  BY <1>3, Zenon DEF IsHead
<1>5. \A s \in rcvStart .. rcvLastAck - 1 : IsHead(s) => \E m \in msgs : m.from = s
  BY <1>3, Zenon DEF IsHead
<1>6. \A s \in rcvStart .. rcvLastAck - 1, m \in msgs : m.to = s => IsTail(s)
  BY <1>3, Zenon DEF IsTail
<1>7. \A s \in rcvStart .. rcvLastAck - 1 : IsTail(s) => \E m \in msgs : m.to = s
  BY <1>3, Zenon DEF IsTail
<1>8. rcvStart < rcvLastAck => IsHead(rcvStart)
  <2>1. rcvStart < rcvLastAck => rcvStart # lastBlock + 1 /\ rcvStart \in rcvStart .. rcvLastAck - 1
    BY <1>2, AcknowledgedIsSent
  <2> QED
    BY <1>1, <1>4, <2>1, Zenon DEF Begins
<1>9. /\ Tails(rcvStart) \subseteq rcvStart .. rcvLastAck - 1
      /\ Tails(rcvStart) \in SUBSET Nat
  <2>1. Tails(rcvStart) \subseteq rcvStart .. rcvLastAck - 1
    BY Zenon DEF Tails
  <2> QED
    BY <1>2, <2>1
<1>10. Tails(rcvStart) # {} => /\ Min(Tails(rcvStart)) \in Tails(rcvStart)
                             /\ \A t \in Tails(rcvStart) : Min(Tails(rcvStart)) <= t
  BY <1>9, MinOfNats
<1>11. rcvStart < rcvLastAck => GoodHead(rcvStart)
  <2> HAVE rcvStart < rcvLastAck
  <2> DEFINE end == IF Tails(rcvStart) = {} THEN rcvLastAck - 1 ELSE Min(Tails(rcvStart))
  <2>1. end \in Int /\ end <= rcvLastAck - 1
    <3>1. end = rcvLastAck - 1 \/ end \in rcvStart .. rcvLastAck - 1
      BY <1>9, <1>10, Zenon
    <3> HIDE DEF end
    <3> QED
      BY <1>2, <3>1
  <2> HIDE DEF end
  <2>2. \A i \in rcvStart .. end : i \in rcvStart .. rcvLastAck - 1
    BY <1>2, <2>1
  <2>3. \A i \in rcvStart .. end : Filled(i)
    BY <1>3, <2>2, Zenon
  <2> QED
    BY <1>8, <2>3, Zenon DEF GoodHead, end
<1>12. ScanStart = rcvStart
  <2> DEFINE S == {rcvLastAck} \cup {s \in rcvStart .. rcvLastAck - 1 : GoodHead(s)}
             start == Min(S)
  <2>1. S \in SUBSET Nat /\ S # {} /\ \A s \in S : rcvStart <= s
    BY <1>2
  <2>2. rcvStart \in S
    <3>1. CASE rcvStart = rcvLastAck
      BY <3>1, Zenon
    <3>2. CASE rcvStart < rcvLastAck
      <4>1. rcvStart \in rcvStart .. rcvLastAck - 1
        BY <1>2, <3>2
      <4> QED
        BY <1>11, <3>2, <4>1, Zenon
    <3> QED
      BY <1>2, <3>1, <3>2
  <2>3. ScanStart = start
    BY Zenon DEF ScanStart
  <2> HIDE DEF S
  <2>4. start \in S /\ start <= rcvStart
    BY <2>1, <2>2, MinOfNats
  <2> HIDE DEF start
  <2>5. start = rcvStart
    BY <1>2, <2>1, <2>4
  <2> QED
    BY <2>3, <2>5, Zenon
<1> DEFINE tail == Min(Tails(rcvStart))
           H == {s \in rcvStart .. tail : IsHead(s)}
           head == Max(H)
<1>13. /\ Tails(rcvStart) # {}
      /\ delivered' = delivered \o Blocks(head, tail)
      /\ rcvBuf' = {p \in rcvBuf : p[1] \notin (rcvStart .. rcvStart - 1) \cup (head .. tail)}
      /\ rcvStart' = tail + 1
  BY <1>12, Zenon DEF Recvmsg
<1>14. /\ tail \in Tails(rcvStart) /\ tail \in rcvStart .. rcvLastAck - 1
       /\ \A t \in Tails(rcvStart) : tail <= t
  BY <1>9, <1>10, <1>13, Zenon
<1> HIDE DEF tail
<1>15. H = {rcvStart}
  <2>1. rcvStart \in H
    <3>1. rcvStart < rcvLastAck /\ rcvStart \in rcvStart .. tail
      BY <1>2, <1>14
    <3> QED
      BY <1>8, <3>1, Zenon
  <2>2. ASSUME NEW h \in H, h # rcvStart
        PROVE  FALSE
    <3>1. h \in rcvStart .. tail /\ IsHead(h)
      BY Zenon
    <3>2. h \in rcvStart .. rcvLastAck - 1 /\ h - 1 \in rcvStart .. rcvLastAck - 1
           /\ h - 1 # 0 /\ ~(tail <= h - 1)
      BY <1>2, <1>14, <2>2, <3>1
    <3>3. PICK m \in msgs : m.from = h
      BY <1>5, <3>1, <3>2, Zenon
    <3>4. Ends(h - 1)
      BY <1>1, <3>3, Zenon
    <3>5. IsTail(h - 1)
      BY <1>6, <3>2, <3>4, Zenon DEF Ends
    <3>6. h - 1 \in Tails(rcvStart)
      BY <3>2, <3>5, Zenon DEF Tails
    <3> QED
      BY <1>14, <3>2, <3>6, Zenon
  <2> QED
    BY <2>1, <2>2, Zenon
<1>16. head = rcvStart
  <2>1. \A x \in {rcvStart} : \A y \in {rcvStart} : x >= y
    BY <1>2
  <2> QED
    BY <1>15, <2>1, Zenon DEF Max
<1>17. rcvBuf' = {p \in rcvBuf : p[1] > tail}
  <2>1. \A p \in rcvBuf : p[1] \notin (rcvStart .. rcvStart - 1) \cup (rcvStart .. tail)
                         <=> p[1] > tail
    BY <1>2, <1>14
  <2> QED
    BY <1>13, <1>16, <2>1, Zenon
<1>18. Begins(tail + 1)
  BY <1>1, <1>7, <1>14, Zenon DEF Tails
<1> QED
  BY <1>13, <1>14, <1>16, <1>17, <1>18, Zenon DEF ReadUpTo

-----------------------------------------------------------------------------
(* ChannelInv is inductive.                                                *)
OrderInv == SenderInv /\ PacketInv /\ BufferInv /\ MessageInv /\ OutInv

(* The invariant holds at the start of a connection.                       *)
LEMMA OrderInit == Init => OrderInv
<1> SUFFICES ASSUME Init
             PROVE  OrderInv
  OBVIOUS
<1> USE DEF Init
<1>1. SenderInv
  BY DEF SenderInv
<1>2. PacketInv
  BY DEF PacketInv
<1>3. BufferInv
  BY TransferAssumption DEF BufferInv
<1>4. MessageInv
  BY DEF MessageInv, Begins, Ends
<1>5. OutInv
  BY DEF OutInv
<1> QED
  BY <1>1, <1>2, <1>3, <1>4, <1>5 DEF OrderInv

(* The steps that leave all of it alone, but for packets that disappear.   *)
LEMMA QuietStep ==
  ASSUME ChannelInv, data' \subseteq data,
         UNCHANGED <<sockType, msgs, lastBlock, firstBlock, currBlock, count, sndCurrSeqNo,
                     sndLastDataAck, drops, rcvCurrSeqNo, rcvLastAck, rcvLoss, rcvStart,
                     rcvBuf, dropped, delivered>>
  PROVE  OrderInv'
<1>1. SenderInv'
  BY Zenon DEF ChannelInv, SenderInv
<1>2. PacketInv'
  BY Zenon DEF ChannelInv, PacketInv
<1>3. BufferInv'
  BY Zenon DEF ChannelInv, BufferInv
<1>4. MessageInv'
  BY Zenon DEF ChannelInv, MessageInv, Begins, Ends
<1>5. OutInv'
  BY Zenon DEF ChannelInv, OutInv
<1> QED
  BY <1>1, <1>2, <1>3, <1>4, <1>5 DEF OrderInv

(* sendmsg: the new message follows the last one.                          *)
LEMMA SendmsgKeepsOrder ==
  ASSUME Mortality \subseteq {FALSE}, ChannelInv,
         NEW n \in Lengths, NEW mortal \in Mortality, Sendmsg(n, mortal)
  PROVE  OrderInv'
<1>1. n \in Nat \ {0} /\ mortal = FALSE /\ lastBlock \in Nat
  <2>1. mortal = FALSE
    BY Zenon
  <2> QED
    BY <2>1, TransferAssumption DEF ChannelInv, SenderInv
<1>2. /\ lastBlock' = lastBlock + n /\ count' = count + n
      /\ UNCHANGED <<sockType, firstBlock, currBlock, sndCurrSeqNo, sndLastDataAck, rcvVars,
                     netVars>>
  BY DEF Sendmsg
<1> DEFINE new == [from |-> lastBlock + 1, to |-> lastBlock + n, mortal |-> mortal]
<1>3. msgs' = IF sockType = "SOCK_STREAM" THEN msgs ELSE msgs \cup {new}
  BY Zenon DEF Sendmsg
<1>4. SenderInv'
  <2>1. \A m \in msgs' : ~m.mortal
    BY <1>1, <1>3 DEF ChannelInv, SenderInv
  <2>2. count' = lastBlock' - firstBlock' + 1 /\ lastBlock' \in Nat /\ sndCurrSeqNo <= lastBlock'
    BY <1>1, <1>2
    DEF ChannelInv, SenderInv, LossInv, NumbersInv, Numbers
  <2>3. currBlock' = sndCurrSeqNo' + 1 /\ firstBlock' = sndLastDataAck' /\ drops' = {} /\ dropped' = {}
         /\ sndCurrSeqNo' = sndCurrSeqNo
    BY <1>2 DEF rcvVars, netVars, ChannelInv, SenderInv
  <2> QED
    BY <2>1, <2>2, <2>3, Zenon DEF SenderInv
<1>5. PacketInv'
  BY <1>2 DEF rcvVars, netVars, ChannelInv, PacketInv
<1>6. BufferInv'
  BY <1>2 DEF rcvVars, ChannelInv, BufferInv
<1>7. MessageInv'
  <2> SUFFICES ASSUME sockType = "SOCK_DGRAM"
               PROVE  MessageInv'
    BY <1>2 DEF MessageInv
  <2>1. msgs' = msgs \cup {new}
    BY <1>3
  <2>2. /\ \A m \in msgs : /\ 1 <= m.from /\ m.from <= m.to /\ m.to <= lastBlock
                         /\ Ends(m.from - 1) /\ Begins(m.to + 1)
        /\ Ends(lastBlock) /\ Begins(rcvStart)
    BY Zenon DEF ChannelInv, MessageInv
  <2>3. \A m \in msgs : m.from \in Int /\ m.to \in Int
    BY DEF ChannelInv, LossInv, NumbersInv, Numbers
  <2>4. new.from = lastBlock + 1 /\ new.to = lastBlock' /\ new \in msgs'
    BY <1>2, <2>1
  <2> HIDE DEF new
  <2> DEFINE B1(b) == b = lastBlock' + 1 \/ \E m \in msgs' : m.from = b
             E1(b) == b = 0 \/ \E m \in msgs' : m.to = b
  <2>5. \A b : Begins(b) => B1(b)
    BY <2>1, <2>4, Zenon DEF Begins
  <2>6. \A b : Ends(b) => E1(b)
    BY <2>1, Zenon DEF Ends
  <2>7. E1(lastBlock') /\ B1(rcvStart') /\ B1(lastBlock' + 1)
    <3>1. rcvStart' = rcvStart
      BY <1>2 DEF rcvVars
    <3> QED
      BY <2>2, <2>4, <2>5, <3>1, Zenon
  <2>8. ASSUME NEW m \in msgs'
        PROVE  /\ 1 <= m.from /\ m.from <= m.to /\ m.to <= lastBlock'
               /\ E1(m.from - 1) /\ B1(m.to + 1)
    <3> HIDE DEF B1, E1
    <3>1. CASE m \in msgs
      BY <1>1, <1>2, <2>2, <2>3, <2>5, <2>6, <3>1
    <3>2. CASE m = new
      <4>1. E1(lastBlock) /\ m.from - 1 = lastBlock
        BY <1>1, <2>2, <2>4, <2>6, <3>2
      <4>2. 1 <= m.from /\ m.from <= m.to /\ m.to <= lastBlock'
        BY <1>1, <1>2, <2>4, <3>2
      <4> QED
        BY <2>4, <2>7, <3>2, <4>1, <4>2, Zenon
    <3> QED
      BY <2>1, <3>1, <3>2
  <2> QED
    BY <2>7, <2>8, Zenon DEF MessageInv, Begins, Ends
<1>8. OutInv'
  BY <1>2 DEF rcvVars, ChannelInv, OutInv
<1> QED
  BY <1>4, <1>5, <1>6, <1>7, <1>8 DEF OrderInv

(* What ChannelInv says of the sender: readData finds the block of the     *)
(* lost number.                                                            *)
LEMMA SenderNumbers ==
  ASSUME ChannelInv
  PROVE  /\ sndCurrSeqNo \in Nat /\ lastBlock \in Nat /\ sndCurrSeqNo <= lastBlock
         /\ currBlock = sndCurrSeqNo + 1
         /\ firstBlock = sndLastDataAck /\ sndLastDataAck \in Nat \ {0}
         /\ popped \in Nat /\ popped <= sndCurrSeqNo
         /\ popped >= sndLastDataAck => LostBlock = popped
  BY DEF ChannelInv, SenderInv, LossInv, NumbersInv, Numbers, SentNumbers, LostBlock

(* A retransmission carries the block of its number.                       *)
LEMMA RetransmitKeepsOrder ==
  ASSUME ChannelInv, PackRetransmit
  PROVE  OrderInv'
<1>1. /\ data' = data \cup {<<popped, popped>>}
      /\ UNCHANGED <<sockType, msgs, lastBlock, firstBlock, currBlock, count, sndCurrSeqNo,
                     sndLastDataAck, drops, rcvVars>>
  BY SenderNumbers, Zenon DEF PackRetransmit
<1>2. UNCHANGED <<rcvCurrSeqNo, rcvLastAck, rcvLoss, rcvStart, rcvBuf, dropped, delivered>>
  BY <1>1 DEF rcvVars
<1>3. PacketInv'
  BY <1>1, <1>2 DEF ChannelInv, PacketInv
<1> QED
  BY <1>1, <1>2, <1>3, Zenon
  DEF ChannelInv, OrderInv, SenderInv, BufferInv, MessageInv, Begins, Ends, OutInv

(* No message expires.                                                     *)
LEMMA NoneExpires ==
  ASSUME ChannelInv, PackExpired
  PROVE  FALSE
<1>1. LostBlock # NoBlock
  BY SenderNumbers DEF PackExpired, NoBlock
<1>2. Expired = {}
  BY Zenon DEF Expired, ChannelInv, SenderInv
<1>3. MsgLens = {}
  BY <1>1, <1>2, Zenon DEF MsgLens
<1> QED
  BY <1>3, Zenon DEF PackExpired

(* So does a packet that is sent for the first time.                       *)
LEMMA PackNewKeepsOrder ==
  ASSUME ChannelInv, PackNew
  PROVE  OrderInv'
<1>1. /\ data' = data \cup {<<sndCurrSeqNo + 1, sndCurrSeqNo + 1>>}
      /\ sndCurrSeqNo' = sndCurrSeqNo + 1 /\ currBlock' = sndCurrSeqNo' + 1
      /\ UNCHANGED <<sockType, msgs, lastBlock, firstBlock, count, sndLastDataAck, drops,
                     rcvVars>>
  BY SenderNumbers, Zenon DEF PackNew
<1>2. UNCHANGED <<rcvCurrSeqNo, rcvLastAck, rcvLoss, rcvStart, rcvBuf, dropped, delivered>>
  BY <1>1 DEF rcvVars
<1>3. sndCurrSeqNo' <= lastBlock
  BY <1>1, SenderNumbers DEF PackNew
<1>4. SenderInv'
  BY <1>1, <1>2, <1>3, Zenon DEF ChannelInv, SenderInv
<1>5. PacketInv'
  BY <1>1, <1>2 DEF ChannelInv, PacketInv
<1> QED
  BY <1>1, <1>2, <1>4, <1>5, Zenon
  DEF ChannelInv, OrderInv, BufferInv, MessageInv, Begins, Ends, OutInv

(* An acknowledgement frees the blocks before the number it carries.       *)
LEMMA AckFrees ==
  ASSUME ChannelInv, AckFree
  PROVE  /\ \/ /\ acking.ack > sndLastDataAck /\ sndLastDataAck' = acking.ack
               /\ firstBlock' = acking.ack
               /\ count' = lastBlock - acking.ack + 1
            \/ UNCHANGED <<firstBlock, count, sndLastDataAck>>
         /\ acking.ack \in Nat \ {0} /\ acking.ack <= rcvLastAck
<1> DEFINE ack == acking.ack
<1>1. ack \in Nat \ {0} /\ ack <= rcvLastAck
  BY DEF AckFree, ChannelInv, LossInv, NumbersInv, Numbers, AckNumbers, Processing
<1>2. \/ /\ ack > sndLastDataAck
         /\ sndLastDataAck' = ack
         /\ firstBlock' = firstBlock + (ack - sndLastDataAck)
         /\ count' = count - (ack - sndLastDataAck)
      \/ UNCHANGED <<firstBlock, count, sndLastDataAck>>
  BY Zenon DEF AckFree
<1> HIDE DEF ack
<1>3. count = lastBlock - firstBlock + 1
  BY Zenon DEF ChannelInv, SenderInv
<1>4. \/ /\ ack > sndLastDataAck /\ sndLastDataAck' = ack /\ firstBlock' = ack
         /\ count' = lastBlock - ack + 1
      \/ UNCHANGED <<firstBlock, count, sndLastDataAck>>
  BY <1>1, <1>2, <1>3, SenderNumbers
<1> QED
  BY <1>1, <1>4 DEF ack

(* ackData moves the buffer's first block as far as the acknowledgement.   *)
LEMMA AckKeepsOrder ==
  ASSUME ChannelInv, AckFree
  PROVE  OrderInv'
<1>1. UNCHANGED <<sockType, msgs, lastBlock, currBlock, sndCurrSeqNo, rcvVars, data, drops>>
  BY Zenon DEF AckFree, netVars
<1>2. UNCHANGED <<rcvCurrSeqNo, rcvLastAck, rcvLoss, rcvStart, rcvBuf, dropped, delivered>>
  BY <1>1 DEF rcvVars
<1>3. firstBlock' = sndLastDataAck' /\ count' = lastBlock - firstBlock' + 1
  <2>1. firstBlock = sndLastDataAck /\ count = lastBlock - firstBlock + 1
    BY Zenon DEF ChannelInv, SenderInv
  <2> QED
    BY <2>1, AckFrees
<1>4. SenderInv'
  BY <1>1, <1>2, <1>3, Zenon DEF ChannelInv, SenderInv
<1> QED
  BY <1>1, <1>2, <1>4, Zenon
  DEF ChannelInv, OrderInv, PacketInv, BufferInv, MessageInv, Begins, Ends, OutInv

(* processData stores only what fits between the start of the buffer and   *)
(* its last free slot.                                                     *)
LEMMA DataKeepsOrder ==
  ASSUME ChannelInv, NEW p \in data, Data(p)
  PROVE  OrderInv'
<1> DEFINE seq == p[1]
           Refused == \/ seq - rcvLastAck < 0
                      \/ seq - rcvLastAck >= AvailBufSize(rcvLastAck)
                      \/ Filled(seq)
<1>1. /\ UNCHANGED <<sndVars, drops>>
      /\ UNCHANGED <<rcvLastAck, rcvStart, dropped, delivered>>
  BY Zenon DEF Data
<1>2. data' \subseteq data
  BY LeftSubset, Zenon DEF Data
<1>3. UNCHANGED <<sockType, msgs, lastBlock, firstBlock, currBlock, count, sndCurrSeqNo,
                  sndLastDataAck>>
  BY <1>1 DEF sndVars
<1>4. CASE Refused
  <2>1. UNCHANGED <<rcvBuf, rcvLoss, rcvCurrSeqNo>>
    BY <1>4, Zenon DEF Data
  <2> QED
    BY <1>1, <1>2, <1>3, <2>1, QuietStep
<1>5. CASE ~Refused
  <2>1. /\ rcvBuf' = rcvBuf \cup {p}
        /\ seq > rcvCurrSeqNo + 1 => rcvLoss' = rcvLoss \cup (rcvCurrSeqNo + 1 .. seq - 1)
        /\ ~(seq > rcvCurrSeqNo + 1) => rcvLoss' = rcvLoss \ {seq}
        /\ rcvCurrSeqNo' = IF seq > rcvCurrSeqNo THEN seq ELSE rcvCurrSeqNo
    BY <1>5, Zenon DEF Data
  <2>2. seq \in Nat /\ rcvLastAck <= seq
    BY <1>5, BufferNumbers DEF ChannelInv, LossInv, NumbersInv, SentNumbers
  <2>3. seq + 2 <= rcvStart + RcvBufSize
    <3>1. AvailBufSize(rcvLastAck) = RcvBufSize - (rcvLastAck - rcvStart) - 1
      <4> DEFINE k == rcvLastAck - rcvStart
      <4>1. k \in Nat /\ k < RcvBufSize /\ RcvBufSize \in Nat \ {0}
        BY BufferNumbers
      <4> HIDE DEF k
      <4>2. k % RcvBufSize = k
        BY <4>1
      <4> QED
        BY <4>2, Zenon DEF AvailBufSize, DataSize, k
    <3>2. ~(seq - rcvLastAck >= AvailBufSize(rcvLastAck))
      BY <1>5, Zenon
    <3> HIDE DEF seq, Refused
    <3> QED
      BY <2>2, <3>1, <3>2, BufferNumbers
  <2> HIDE DEF seq, Refused
  <2>4. rcvCurrSeqNo' + 2 <= rcvStart + RcvBufSize
    BY <2>1, <2>3, BufferNumbers
  <2>5. \A q \in rcvBuf' : rcvStart <= q[1]
    BY <2>1, <2>2, BufferNumbers DEF seq
  <2>6. \A s \in rcvLoss' : rcvLastAck <= s
    <3>1. \A s \in rcvLoss : rcvLastAck <= s
      BY Zenon DEF ChannelInv, BufferInv
    <3>2. \A s \in rcvCurrSeqNo + 1 .. seq - 1 : rcvLastAck <= s
      BY <2>2, BufferNumbers
    <3> QED
      BY <2>1, <3>1, <3>2, Zenon
  <2>7. BufferInv'
    BY <1>1, <2>4, <2>5, <2>6, Zenon DEF BufferInv
  <2>8. PacketInv'
    BY <1>2, <2>1, Zenon DEF ChannelInv, PacketInv
  <2> QED
    BY <1>1, <1>3, <2>7, <2>8, Zenon
    DEF ChannelInv, OrderInv, SenderInv, MessageInv, Begins, Ends, OutInv
<1> QED
  BY <1>4, <1>5, Zenon

(* An ACK moves m_iRcvLastAck up to the first loss, not past it.           *)
LEMMA SendAckKeepsOrder ==
  ASSUME ChannelInv, SendAck
  PROVE  OrderInv'
<1>1. /\ UNCHANGED <<sndVars, data, drops>>
      /\ UNCHANGED <<rcvCurrSeqNo, rcvLoss, rcvStart, rcvBuf, dropped, delivered>>
      /\ rcvLastAck' = Ackable
  BY Zenon DEF SendAck
<1>2. UNCHANGED <<sockType, msgs, lastBlock, firstBlock, currBlock, count, sndCurrSeqNo,
                  sndLastDataAck>>
  BY <1>1 DEF sndVars
<1>3. \A s \in rcvLoss : Ackable <= s
  <2> SUFFICES ASSUME rcvLoss # {}
               PROVE  \A s \in rcvLoss : Ackable <= s
    OBVIOUS
  <2>1. rcvLoss \in SUBSET Nat
    BY DEF ChannelInv, LossInv, NumbersInv, Numbers, SeenNumbers
  <2>2. \A s \in rcvLoss : Min(rcvLoss) <= s
    BY <2>1, MinOfNats
  <2> QED
    BY <2>2, Zenon DEF Ackable
<1>4. BufferInv'
  BY <1>1, <1>3, Zenon DEF ChannelInv, BufferInv
<1> QED
  BY <1>1, <1>2, <1>4, Zenon
  DEF ChannelInv, OrderInv, SenderInv, PacketInv, MessageInv, Begins, Ends, OutInv

(* Reading moves the start of the buffer to the beginning of a message.    *)
LEMMA ReadKeepsOrder ==
  ASSUME ChannelInv, NEW last \in rcvStart .. rcvLastAck - 1, ReadUpTo(last),
         sockType = "SOCK_DGRAM" => Begins(last + 1),
         UNCHANGED <<sndVars, rcvCurrSeqNo, rcvLastAck, rcvLoss, dropped, netVars>>
  PROVE  OrderInv'
<1>1. UNCHANGED <<sockType, msgs, lastBlock, firstBlock, currBlock, count, sndCurrSeqNo,
                  sndLastDataAck, data, drops>>
  BY DEF sndVars, netVars
<1>2. rcvStart' = last + 1 /\ last \in Nat /\ rcvStart <= rcvStart'
  BY BufferNumbers DEF ReadUpTo
<1>3. OutInv'
  <2>1. delivered' = [i \in 1 .. last |-> i]
    BY ReadBlocks, Zenon DEF ReadUpTo
  <2>2. rcvStart' - 1 = last
    BY <1>2
  <2> QED
    BY <2>1, <2>2, Zenon DEF OutInv
<1>4. rcvBuf' \subseteq rcvBuf /\ \A p \in rcvBuf' : rcvStart' <= p[1]
  BY <1>2, BufferNumbers DEF ReadUpTo
<1>5. PacketInv'
  BY <1>1, <1>4, Zenon DEF ChannelInv, PacketInv
<1>6. BufferInv'
  <2>1. rcvCurrSeqNo + 2 <= rcvStart' + RcvBufSize
    BY <1>2, BufferNumbers
  <2> QED
    BY <1>4, <2>1, Zenon DEF ChannelInv, BufferInv
<1>7. MessageInv'
  BY <1>1, <1>2, Zenon DEF ChannelInv, MessageInv, Begins, Ends
<1> QED
  BY <1>1, <1>3, <1>5, <1>6, <1>7, Zenon DEF ChannelInv, OrderInv, SenderInv

(* No step disturbs the order, as long as no message can expire.           *)
LEMMA OrderStep ==
  ASSUME Mortality \subseteq {FALSE}, ChannelInv, [Next]_vars
  PROVE  OrderInv'
<1>1. ASSUME NEW n \in Lengths, NEW mortal \in Mortality, Sendmsg(n, mortal)
      PROVE  OrderInv'
  BY <1>1, SendmsgKeepsOrder
<1>2. CASE PackRetransmit
  BY <1>2, RetransmitKeepsOrder
<1>3. CASE PackExpired
  BY <1>3, NoneExpires
<1>4. CASE PackNew
  BY <1>4, PackNewKeepsOrder
<1>5. CASE AckFree
  BY <1>5, AckKeepsOrder
<1>6. ASSUME NEW p \in data, Data(p)
      PROVE  OrderInv'
  BY <1>6, DataKeepsOrder
<1>7. ASSUME NEW p \in drops, Drop(p)
      PROVE  OrderInv'
  BY <1>7, Zenon DEF ChannelInv, SenderInv
<1>8. CASE SendAck
  BY <1>8, SendAckKeepsOrder
<1>9. CASE Recv
  <2>1. PICK last \in rcvStart .. rcvLastAck - 1 : ReadUpTo(last)
    BY <1>9, Zenon DEF Recv, ReadUpTo
  <2>2. /\ UNCHANGED <<sndVars, rcvCurrSeqNo, rcvLastAck, rcvLoss, dropped, netVars>>
        /\ sockType # "SOCK_DGRAM"
    BY <1>9 DEF Recv
  <2> QED
    BY <2>1, <2>2, ReadKeepsOrder
<1>10. CASE Recvmsg
  <2>1. PICK last \in rcvStart .. rcvLastAck - 1 : ReadUpTo(last) /\ Begins(last + 1)
    BY <1>10, MessageRead
  <2>2. UNCHANGED <<sndVars, rcvCurrSeqNo, rcvLastAck, rcvLoss, dropped, netVars>>
    BY <1>10, Zenon DEF Recvmsg
  <2> QED
    BY <2>1, <2>2, ReadKeepsOrder
<1>11. CASE Lose
  <2>1. data' \subseteq data
    BY <1>11, Zenon DEF Lose
  <2>2. UNCHANGED <<sndVars, rcvVars, drops>>
    BY <1>11, Zenon DEF Lose
  <2> QED
    BY <2>1, <2>2, QuietStep DEF sndVars, rcvVars
<1>12. CASE UNCHANGED vars
  BY <1>12, QuietStep DEF vars, sndVars, rcvVars, netVars
<1>13. CASE PackPopLoss
  BY <1>13, QuietStep DEF PackPopLoss, rcvVars, netVars
<1>14. CASE PackStale
  BY <1>14, QuietStep DEF PackStale, rcvVars, netVars
<1>15. CASE PackNothing
  BY <1>15, QuietStep DEF PackNothing, rcvVars, netVars
<1>16. ASSUME NEW p \in lites, LiteAck(p)
       PROVE  OrderInv'
  BY <1>16, QuietStep DEF LiteAck, rcvVars
<1>17. ASSUME NEW p \in naks, Nak(p)
       PROVE  OrderInv'
  BY <1>17, QuietStep DEF Nak, rcvVars
<1>18. CASE Exp
  BY <1>18, QuietStep DEF Exp, rcvVars, netVars
<1>19. CASE SendLiteAck
  BY <1>19, QuietStep DEF SendLiteAck, sndVars, rcvVars
<1>20. ASSUME NEW p \in ack2s, Ack2(p)
       PROVE  OrderInv'
  BY <1>20, QuietStep DEF Ack2, sndVars
<1>21. ASSUME NEW p \in acks, Ack(p)
       PROVE  OrderInv'
  BY <1>21, QuietStep DEF Ack, rcvVars
<1>22. CASE AckWindow
  BY <1>22, QuietStep DEF AckWindow, rcvVars, netVars
<1>23. CASE AckResume
  BY <1>23, QuietStep DEF AckResume, rcvVars, netVars
<1> QED
  BY <1>1, <1>2, <1>3, <1>4, <1>5, <1>6, <1>7, <1>8, <1>9, <1>10, <1>11, <1>12, <1>13,
     <1>14, <1>15, <1>16, <1>17, <1>18, <1>19, <1>20, <1>21, <1>22, <1>23, Zenon
  DEF Next, SndQueueStep, SenderReceives, AckStep, ReceiverReceives

-----------------------------------------------------------------------------
(* Each step is one of the channel, or none.                               *)
LEMMA ChannelInitial == Init => Channel!ChannelInit
<1> SUFFICES ASSUME Init
             PROVE  Channel!ChannelInit
  OBVIOUS
<1> QED
  BY DEF Init, Channel!ChannelInit

(* Each action of UdtTransfer is one of the channel's, or leaves it        *)
(* unchanged.                                                              *)
LEMMA ChannelStep ==
  ASSUME ChannelInv, ChannelInv', [Next]_vars
  PROVE  [Channel!ChannelNext]_Channel!channelVars
<1>1. lastBlock \in Nat /\ rcvLastAck \in Nat /\ firstBlock \in Nat
  BY BufferNumbers, SenderNumbers
<1>2. CASE UNCHANGED <<lastBlock, rcvLastAck, firstBlock, delivered>>
  BY <1>2 DEF Channel!channelVars
<1>3. ASSUME NEW n \in Lengths, NEW mortal \in Mortality, Sendmsg(n, mortal)
      PROVE  Channel!Send
  <2>1. n \in Nat \ {0} /\ lastBlock' = lastBlock + n /\ SndBufSize - count >= n
         /\ UNCHANGED <<firstBlock, rcvLastAck, delivered>>
    BY <1>3, TransferAssumption DEF Sendmsg, rcvVars
  <2>2. count = lastBlock - firstBlock + 1
    BY Zenon DEF ChannelInv, SenderInv
  <2>3. lastBlock' \in lastBlock + 1 .. (firstBlock - 1) + SndBufSize
    BY <1>1, <2>1, <2>2, TransferAssumption
  <2> QED
    BY <2>1, <2>3 DEF Channel!Send
<1>4. ASSUME AckFree, firstBlock' # firstBlock
      PROVE  Channel!Free
  <2>1. /\ firstBlock' = acking.ack /\ acking.ack > firstBlock
        /\ acking.ack \in Nat /\ acking.ack <= rcvLastAck
    BY <1>4, AckFrees, SenderNumbers
  <2>2. UNCHANGED <<lastBlock, rcvLastAck, delivered>>
    BY <1>4 DEF AckFree, rcvVars
  <2>3. firstBlock' - 1 \in (firstBlock - 1) + 1 .. rcvLastAck - 1
    BY <1>1, <2>1
  <2> QED
    BY <2>2, <2>3 DEF Channel!Free
<1>5. delivered = [i \in 1 .. rcvStart - 1 |-> i] /\ Len(delivered) = rcvStart - 1
  <2>1. delivered = [i \in 1 .. rcvStart - 1 |-> i] /\ rcvStart - 1 \in Nat
    BY BufferNumbers DEF ChannelInv, OutInv
  <2> QED
    BY <2>1, CountingSeq, Zenon
<1>6. CASE SendAck /\ rcvLastAck' # rcvLastAck
  <2>1. /\ UNCHANGED <<lastBlock, firstBlock, delivered>>
        /\ rcvLastAck' = Ackable /\ rcvLastAck <= Ackable
    BY <1>6 DEF SendAck, sndVars
  <2>2. Ackable \in Nat /\ Ackable <= rcvCurrSeqNo + 1
    BY AckableBound DEF ChannelInv, LossInv
  <2>3. rcvCurrSeqNo <= lastBlock
    BY DEF ChannelInv, SenderInv, LossInv, NumbersInv, Numbers, SeenNumbers
  <2> HIDE DEF Ackable
  <2>4. /\ rcvLastAck' - 1 \in (rcvLastAck - 1) + 1 .. lastBlock
        /\ rcvLastAck' - 1 <= (rcvStart - 1) + (RcvBufSize - 1)
    BY <1>1, <1>6, <2>1, <2>2, <2>3, BufferNumbers
  <2>5. Channel!Accept
    BY <1>5, <2>1, <2>4 DEF Channel!Accept
  <2> QED
    BY <2>5 DEF Channel!ChannelNext
<1>7. ASSUME NEW last \in rcvStart .. rcvLastAck - 1, ReadUpTo(last),
             UNCHANGED <<lastBlock, firstBlock, rcvLastAck>>
      PROVE  Channel!Deliver
  <2>1. delivered' = [i \in 1 .. last |-> i]
    BY <1>7, ReadBlocks DEF ReadUpTo
  <2>2. last \in Len(delivered) + 1 .. rcvLastAck - 1
    BY <1>1, <1>5, BufferNumbers
  <2> QED
    BY <1>7, <2>1, <2>2, Zenon DEF Channel!Deliver
<1>8. CASE Recv
  <2>1. PICK last \in rcvStart .. rcvLastAck - 1 : ReadUpTo(last)
    BY <1>8, Zenon DEF Recv, ReadUpTo
  <2>2. UNCHANGED <<lastBlock, firstBlock, rcvLastAck>>
    BY <1>8 DEF Recv, sndVars
  <2> QED
    BY <1>7, <2>1, <2>2 DEF Channel!ChannelNext
<1>9. CASE Recvmsg
  <2>1. PICK last \in rcvStart .. rcvLastAck - 1 : ReadUpTo(last)
    BY <1>9, MessageRead
  <2>2. UNCHANGED <<lastBlock, firstBlock, rcvLastAck>>
    BY <1>9 DEF Recvmsg, sndVars
  <2> QED
    BY <1>7, <2>1, <2>2 DEF Channel!ChannelNext
<1>10. CASE AckFree
  <2>1. UNCHANGED <<lastBlock, rcvLastAck, delivered>>
    BY <1>10 DEF AckFree, rcvVars
  <2> QED
    BY <1>2, <1>4, <1>10, <2>1 DEF Channel!ChannelNext
<1>11. \/ \E n \in Lengths, mortal \in Mortality : Sendmsg(n, mortal)
       \/ AckFree \/ SendAck \/ Recv \/ Recvmsg
       \/ UNCHANGED <<lastBlock, rcvLastAck, firstBlock, delivered>>
  <2>1. CASE Next
    BY <2>1, Zenon DEF Next, SndQueueStep, SenderReceives, ReceiverReceives, sndVars, rcvVars,
       PackPopLoss, PackStale, PackRetransmit, PackExpired, PackNew, PackNothing,
       LiteAck, Ack, AckStep, AckWindow, AckResume, Nak, Exp, SendLiteAck, Lose, Data, Ack2, Drop
  <2>2. CASE UNCHANGED vars
    BY <2>2 DEF vars, sndVars, rcvVars
  <2> QED
    BY <2>1, <2>2
<1>12. CASE SendAck /\ rcvLastAck' = rcvLastAck
  BY <1>2, <1>12 DEF SendAck, sndVars
<1> QED
  BY <1>2, <1>3, <1>6, <1>8, <1>9, <1>10, <1>11, <1>12 DEF Channel!ChannelNext

(* ChannelInv is inductive when no message can expire.                     *)
LEMMA ChannelInvInductive ==
  ASSUME Mortality \subseteq {FALSE}
  PROVE  /\ Init => ChannelInv
         /\ ChannelInv /\ [Next]_vars => ChannelInv'
<1>1. ChannelInv <=> LossInv /\ OrderInv
  BY DEF ChannelInv, OrderInv
<1>2. Init => ChannelInv
  BY <1>1, NumbersInit, LossInit, OrderInit DEF LossInv
<1>3. ASSUME ChannelInv, [Next]_vars
      PROVE  ChannelInv'
  <2>1. LossInv'
    BY <1>3, LossStep DEF ChannelInv
  <2>2. OrderInv'
    BY <1>3, OrderStep
  <2> QED
    BY <2>1, <2>2, Zenon DEF ChannelInv, OrderInv
<1> QED
  BY <1>2, <1>3

(* Without times to live, one direction of a connection is a reliable      *)
(* channel, for all sizes of the buffers (CSndBuffer, CRcvBuffer) and the  *)
(* windows, whatever the network does to the packets.                      *)
THEOREM ChannelImplemented ==
  ASSUME Mortality \subseteq {FALSE}
  PROVE  Spec => ImplementsChannel
<1>1. Init => ChannelInv
  BY ChannelInvInductive
<1>2. ChannelInv /\ [Next]_vars => ChannelInv'
  BY ChannelInvInductive
<1>3. ChannelInv /\ ChannelInv' /\ [Next]_vars => [Channel!ChannelNext]_Channel!channelVars
  BY ChannelStep
<1> QED
  BY <1>1, <1>2, <1>3, ChannelInitial, PTL DEF Spec, ImplementsChannel, Channel!ChannelSpec

(* Without times to live, what addData refuses as a duplicate is one       *)
(* (buffer.cpp:374), in every round of the ring.                           *)
THEOREM RingSoundCorrect ==
  ASSUME Mortality \subseteq {FALSE}
  PROVE  Spec => []RingSound
<1>1. ChannelInv => RingSound
  <2> SUFFICES ASSUME ChannelInv,
                      NEW s \in rcvLastAck .. rcvLastAck + AvailBufSize(rcvLastAck) - 1,
                      Filled(s)
               PROVE  Held(s)
    BY Zenon DEF RingSound, Held
  <2> DEFINE k == rcvLastAck - rcvStart
  <2>1. k \in Nat /\ k < RcvBufSize /\ RcvBufSize \in Nat \ {0} /\ rcvLastAck = rcvStart + k
    BY BufferNumbers
  <2>2. AvailBufSize(rcvLastAck) = RcvBufSize - k - 1
    <3> HIDE DEF k
    <3>1. k % RcvBufSize = k
      BY <2>1
    <3> QED
      BY <3>1, Zenon DEF AvailBufSize, DataSize, k
  <2> HIDE DEF k
  <2>3. s \in Nat /\ rcvStart <= s /\ s < rcvStart + RcvBufSize
    BY <2>1, <2>2, BufferNumbers
  <2> QED
    BY <2>3, FilledIsHeld
<1> QED
  BY <1>1, ChannelInvInductive, PTL DEF Spec

(* What is in the buffer, and what was read from it, has arrived.          *)
ArrivedInv ==
  /\ \A p \in rcvBuf : p[2] \in arrived
  /\ \A b \in 1 .. rcvStart - 1 : b \in arrived

(* What is read was in the buffer, and so had arrived.                     *)
LEMMA ReadHasArrived ==
  ASSUME ChannelInv, ArrivedInv, NEW last \in rcvStart .. rcvLastAck - 1, ReadUpTo(last),
         UNCHANGED arrived
  PROVE  ArrivedInv'
<1>1. \A b \in rcvStart .. last : b \in arrived
  <2> TAKE b \in rcvStart .. last
  <2>1. b \in rcvStart .. rcvLastAck - 1
    BY BufferNumbers
  <2>2. Held(b)
    BY <2>1, AcknowledgedIsHeld
  <2> QED
    BY <2>2, Zenon DEF Held, ArrivedInv, ChannelInv, PacketInv
<1>2. \A b \in 1 .. rcvStart' - 1 : b \in 1 .. rcvStart - 1 \/ b \in rcvStart .. last
  BY BufferNumbers DEF ReadUpTo
<1> QED
  BY <1>1, <1>2, Zenon DEF ReadUpTo, ArrivedInv

(* ArrivedInv is inductive, given ChannelInv.                              *)
LEMMA ArrivedStep == ChannelInv /\ ArrivedInv /\ [Next]_vars => ArrivedInv'
<1> SUFFICES ASSUME ChannelInv, ArrivedInv, [Next]_vars
             PROVE  ArrivedInv'
  OBVIOUS
<1>1. CASE UNCHANGED <<rcvBuf, rcvStart, arrived>>
  BY <1>1, Zenon DEF ArrivedInv
<1>2. ASSUME NEW p \in data, Data(p)
      PROVE  ArrivedInv'
  <2>1. \/ rcvBuf' = rcvBuf \cup {p} /\ arrived' = arrived \cup {p[2]}
        \/ UNCHANGED <<rcvBuf, arrived>>
    BY <1>2, Zenon DEF Data
  <2>2. rcvStart' = rcvStart
    BY <1>2, Zenon DEF Data
  <2> QED
    BY <2>1, <2>2, Zenon DEF ArrivedInv
<1>3. CASE Recv
  <2>1. PICK last \in rcvStart .. rcvLastAck - 1 : ReadUpTo(last)
    BY <1>3, Zenon DEF Recv, ReadUpTo
  <2> QED
    BY <1>3, <2>1, ReadHasArrived DEF Recv
<1>4. CASE Recvmsg
  <2>1. PICK last \in rcvStart .. rcvLastAck - 1 : ReadUpTo(last)
    BY <1>4, MessageRead
  <2> QED
    BY <1>4, <2>1, ReadHasArrived DEF Recvmsg
<1>5. \/ UNCHANGED <<rcvBuf, rcvStart, arrived>>
      \/ \E p \in data : Data(p)
      \/ Recv \/ Recvmsg
  <2>1. CASE Next
    BY <2>1, Zenon DEF Next, SndQueueStep, SenderReceives, ReceiverReceives, rcvVars, Sendmsg,
       PackPopLoss, PackStale, PackRetransmit, PackExpired, PackNew, PackNothing,
       LiteAck, Ack, AckStep, AckWindow, AckFree, AckResume, Nak, Exp,
       SendLiteAck, SendAck, Lose, Ack2, Drop
  <2>2. CASE UNCHANGED vars
    BY <2>2 DEF vars, rcvVars
  <2> QED
    BY <2>1, <2>2
<1> QED
  BY <1>1, <1>2, <1>3, <1>4, <1>5

(* Without times to live, the sender forgets a block (ackData) only after  *)
(* it has reached the receiver.                                            *)
THEOREM NothingLostCorrect ==
  ASSUME Mortality \subseteq {FALSE}
  PROVE  Spec => []NothingLost
<1>1. Init => ArrivedInv
  BY DEF Init, ArrivedInv
<1>2. ChannelInv /\ ArrivedInv => NothingLost
  <2> SUFFICES ASSUME ChannelInv, ArrivedInv, NEW b \in 1 .. lastBlock, b < firstBlock
               PROVE  b \in arrived
    BY Zenon DEF NothingLost
  <2>1. b \in 1 .. rcvStart - 1 \/ b \in rcvStart .. rcvLastAck - 1
    BY BufferNumbers, SenderNumbers DEF ChannelInv, LossInv, NumbersInv, AckOrder
  <2>2. b \in rcvStart .. rcvLastAck - 1 => Held(b)
    BY AcknowledgedIsHeld
  <2> QED
    BY <2>1, <2>2, Zenon DEF Held, ArrivedInv, ChannelInv, PacketInv
<1> QED
  BY <1>1, <1>2, ArrivedStep, ChannelInvInductive, PTL DEF Spec
=============================================================================
