----------------------------- MODULE UdtTransfer -----------------------------
(***************************************************************************)
(* How a UDT sender gets its data to a UDT receiver over UDP: sequence     *)
(* numbers, loss lists, acknowledgements (full, lite, and the ACK2 that    *)
(* answers a full one), loss reports, the sender's timeout and the drop of *)
(* a message whose time to live is over.  One direction of a connection:   *)
(*   - the sending application (Sendmsg) fills CSndBuffer;                 *)
(*   - the thread of CSndQueue runs packData (Pack...);                    *)
(*   - the sender's receive-queue thread handles ACK, lite ACK, NAK and    *)
(*     the EXP timer;                                                      *)
(*   - the receiver's receive-queue thread handles data, ACK2, drop        *)
(*     requests and the ACK timer;                                         *)
(*   - the receiving application reads CRcvBuffer (Recv, Recvmsg).         *)
(* The blocks of the sender's buffer are numbered 1, 2, ... in the order   *)
(* in which they were added; sequence numbers start at ISN = 1 and do not  *)
(* reach the 2^31 at which CSeqNo wraps.                                   *)
(***************************************************************************)
EXTENDS Integers, Sequences, FiniteSets, FiniteSetsExt

CONSTANTS MaxBlocks,    \* bound: the blocks the sending application adds
          Lengths,      \* the numbers of blocks a message may have
          SndBufSize,   \* m_iSndBufSize
          RcvBufSize,   \* m_iSize of the receive buffer
          CWnd,         \* m_dCongestionWindow
          Mortality,    \* {FALSE}: every ttl is -1; {TRUE, FALSE}: some is not
          MaxSeq,       \* bound: the sequence numbers used
          Modes,        \* the socket's type is chosen from these
          LiteAcks,     \* where m_iSelfClockInterval is reached between two ACKs: what to acknowledge there
          Duplicating   \* the network may deliver a packet again

ASSUME TransferAssumption ==
  /\ MaxBlocks \in Nat /\ Lengths \subseteq Nat \ {0}
  /\ SndBufSize \in Nat
  /\ RcvBufSize \in Nat \ {0, 1}
  /\ CWnd \in Nat
  /\ Mortality \subseteq BOOLEAN
  /\ MaxSeq \in Nat
  /\ Modes \subseteq {"SOCK_STREAM", "SOCK_DGRAM"} 
  /\ LiteAcks \subseteq Nat /\ Duplicating \in BOOLEAN

VARIABLES
  sockType,         \* m_iSockType
  msgs,             \* of a SOCK_DGRAM, its messages: first and last block, ttl # -1
  lastBlock,        \* m_pLastBlock: how many blocks have been added
  firstBlock,       \* m_pFirstBlock
  currBlock,        \* m_pCurrBlock
  count,            \* m_iCount of CSndBuffer
  sndCurrSeqNo,     \* m_iSndCurrSeqNo
  sndLastAck,       \* m_iSndLastAck
  sndLastDataAck,   \* m_iSndLastDataAck
  flowWindow,       \* m_iFlowWindowSize
  sndLoss,          \* m_pSndLossList
  popped,           \* the sequence number getLostSeq returned, 0 if none
  onSndUList,       \* the socket is on the list of CSndQueue
  sndBroken,        \* m_bBroken of the sender
  acking,           \* the ACK its receive-queue thread is processing, and how far it is
  rcvCurrSeqNo,     \* m_iRcvCurrSeqNo
  rcvLastAck,       \* m_iRcvLastAck
  rcvLastAckAck,    \* m_iRcvLastAckAck
  rcvLoss,          \* m_pRcvLossList
  rcvStart,         \* m_iStartPos, as a sequence number
  rcvBuf,           \* m_pUnit: <<sequence number, block>>
  arrived,          \* auxiliary: the blocks that ever entered rcvBuf
  dropped,          \* auxiliary: the sequence numbers drop requests named
  delivered,        \* the blocks the receiving application has read, in order
  data, acks, lites, ack2s, naks, drops     \* packets in the network

sndVars == <<sockType, msgs, lastBlock, firstBlock, currBlock, count, sndCurrSeqNo, sndLastAck,
             sndLastDataAck, flowWindow, sndLoss, popped, onSndUList, sndBroken, acking>>
rcvVars == <<rcvCurrSeqNo, rcvLastAck, rcvLastAckAck, rcvLoss, rcvStart, rcvBuf,
             arrived, dropped, delivered>>
netVars == <<data, acks, lites, ack2s, naks, drops>>
vars == <<sndVars, rcvVars, netVars>>

SeqNos == 1 .. MaxSeq

NoAck == [at |-> "idle", ack |-> 0, room |-> 0]
Idle == acking.at = "idle"

TransferTypeOK ==
  /\ sockType \in Modes
  /\ msgs \subseteq [from : 1 .. MaxBlocks, to : 1 .. MaxBlocks, mortal : Mortality]
  /\ lastBlock \in 0 .. MaxBlocks
  /\ firstBlock \in 1 .. MaxSeq + 1 /\ currBlock \in 1 .. MaxBlocks + 1
  /\ count \in Int
  /\ sndCurrSeqNo \in 0 .. MaxSeq
  /\ sndLastAck \in 1 .. MaxSeq + 1 /\ sndLastDataAck \in 1 .. MaxSeq + 1
  /\ flowWindow \in Int
  /\ sndLoss \subseteq SeqNos /\ popped \in 0 .. MaxSeq
  /\ onSndUList \in BOOLEAN /\ sndBroken \in BOOLEAN
  /\ acking \in [at : {"idle", "answered", "counted", "freed"}, ack : 0 .. MaxSeq + 1,
                 room : 0 .. RcvBufSize]
  /\ rcvCurrSeqNo \in 0 .. MaxSeq
  /\ rcvLastAck \in 1 .. MaxSeq + 1 /\ rcvLastAckAck \in 1 .. MaxSeq + 1
  /\ rcvLoss \subseteq SeqNos /\ rcvStart \in 1 .. MaxSeq + 1
  /\ rcvBuf \subseteq SeqNos \X (0 .. MaxBlocks)
  /\ arrived \subseteq 0 .. MaxBlocks /\ dropped \subseteq SeqNos
  /\ delivered \in Seq(0 .. MaxBlocks)
  /\ data \subseteq SeqNos \X (0 .. MaxBlocks)
  /\ acks \subseteq (1 .. MaxSeq + 1) \X (2 .. RcvBufSize)
  /\ lites \subseteq 1 .. MaxSeq + 1 /\ ack2s \subseteq 1 .. MaxSeq + 1
  /\ naks \subseteq SeqNos \X SeqNos /\ drops \subseteq SeqNos \X SeqNos

Init ==
  /\ sockType \in Modes
  /\ msgs = {} /\ lastBlock = 0 /\ firstBlock = 1 /\ currBlock = 1 /\ count = 0
  /\ sndCurrSeqNo = 0 /\ sndLastAck = 1 /\ sndLastDataAck = 1
  /\ flowWindow = RcvBufSize
  /\ sndLoss = {} /\ popped = 0 /\ onSndUList = FALSE /\ sndBroken = FALSE
  /\ acking = NoAck
  /\ rcvCurrSeqNo = 0 /\ rcvLastAck = 1 /\ rcvLastAckAck = 1
  /\ rcvLoss = {} /\ rcvStart = 1 /\ rcvBuf = {}
  /\ arrived = {} /\ dropped = {} /\ delivered = << >>
  /\ data = {} /\ acks = {} /\ lites = {} /\ ack2s = {} /\ naks = {} /\ drops = {}

-----------------------------------------------------------------------------
(* The network loses, delays, reorders and, if Duplicating, repeats        *)
(* packets.  A packet that nothing forces to be received is as good as     *)
(* lost while it stays; Lose removes those that Fairness would have        *)
(* received.                                                               *)
Left(packets, p) == IF Duplicating THEN packets ELSE packets \ {p}

Lose ==
  /\ ~Duplicating
  /\ \/ \E p \in data : data' = data \ {p} /\ UNCHANGED <<acks, ack2s>>
     \/ \E p \in acks : acks' = acks \ {p} /\ UNCHANGED <<data, ack2s>>
     \/ \E p \in ack2s : ack2s' = ack2s \ {p} /\ UNCHANGED <<data, acks>>
  /\ UNCHANGED <<sndVars, rcvVars, lites, naks, drops>>

-----------------------------------------------------------------------------
(* The sending application.                                                *)

(* sendmsg, or send: a message of n blocks goes into the buffer whole.     *)
Sendmsg(n, mortal) ==
  /\ lastBlock + n <= MaxBlocks
  /\ SndBufSize - count >= n                        \* else EASYNCSND
  /\ mortal => sockType = "SOCK_DGRAM"
  /\ ~sndBroken
  /\ msgs' = IF sockType = "SOCK_STREAM" THEN msgs
             ELSE msgs \cup {[from |-> lastBlock + 1, to |-> lastBlock + n, mortal |-> mortal]}
  /\ lastBlock' = lastBlock + n
  /\ count' = count + n
  /\ onSndUList' = TRUE
  /\ UNCHANGED <<sockType, acking, firstBlock, currBlock, sndCurrSeqNo, sndLastAck,
                 sndLastDataAck, flowWindow, sndLoss, popped, sndBroken, rcvVars, netVars>>

-----------------------------------------------------------------------------
(* The thread of CSndQueue: CSndUList::pop takes the socket off the list,  *)
(* packData chooses a packet, and only if there is one the socket goes     *)
(* back on the list.  Between getLostSeq and m_AckLock the other thread    *)
(* may process an acknowledgement, so a retransmission takes two steps.    *)

MayPack == onSndUList /\ popped = 0 /\ ~sndBroken

PackPopLoss ==
  /\ MayPack /\ sndLoss # {}
  /\ popped' = Min(sndLoss)
  /\ sndLoss' = sndLoss \ {Min(sndLoss)}
  /\ onSndUList' = FALSE
  /\ UNCHANGED <<sockType, acking, msgs, lastBlock, firstBlock, currBlock, count, sndCurrSeqNo,
                 sndLastAck, sndLastDataAck, flowWindow, sndBroken, rcvVars, netVars>>

(* The block that readData(offset) reaches from m_pFirstBlock; beyond the  *)
(* last block it reads one that holds nothing the application sent.        *)
NoBlock == 0
LostBlock == LET b == firstBlock + (popped - sndLastDataAck)
             IN IF b <= lastBlock THEN b ELSE NoBlock

PackStale ==
  /\ popped # 0 /\ popped < sndLastDataAck
  /\ popped' = 0
  /\ UNCHANGED <<sockType, acking, msgs, lastBlock, firstBlock, currBlock, count, sndCurrSeqNo,
                 sndLastAck, sndLastDataAck, flowWindow, sndLoss, onSndUList, sndBroken, rcvVars, netVars>>

PackRetransmit ==
  /\ popped # 0 /\ popped >= sndLastDataAck
  /\ data' = data \cup {<<popped, LostBlock>>}
  /\ popped' = 0
  /\ onSndUList' = TRUE
  /\ UNCHANGED <<sockType, acking, msgs, lastBlock, firstBlock, currBlock, count, sndCurrSeqNo,
                 sndLastAck, sndLastDataAck, flowWindow, sndLoss, sndBroken, rcvVars,
                 acks, lites, ack2s, naks, drops>>

(* Mutant of PackExpired: m_iSndCurrSeqNo does not skip what was dropped.  *)
PackExpiredNoSkip ==
  /\ popped # 0 /\ popped >= sndLastDataAck
  /\ \E m \in msgs :
       LET last == popped + m.to - LostBlock + 1
       IN /\ m.mortal /\ LostBlock \in m.from .. m.to /\ last < MaxSeq
          /\ currBlock' = IF currBlock \in LostBlock + 1 .. m.to THEN m.to + 1 ELSE currBlock
          /\ drops' = drops \cup {<<popped, last>>}
          /\ sndLoss' = {s \in sndLoss : s > last}
  /\ popped' = 0
  /\ UNCHANGED <<sockType, acking, msgs, lastBlock, firstBlock, count, sndCurrSeqNo, sndLastAck,
                 sndLastDataAck, flowWindow, onSndUList, sndBroken, rcvVars,
                 data, acks, lites, ack2s, naks>>

(* The message is too old: the receiver is asked to forget the rest of it. *)
(* msglen counts the blocks from the lost one to the message's last, so    *)
(* seqpair[1] = popped + msglen names the packet after them.  Where there  *)
(* is no block, whatever is in its m_iTTL may count as a time to live.     *)
Expired == {m \in msgs : m.mortal /\ LostBlock \in m.from .. m.to}
MsgLens == IF LostBlock = NoBlock THEN {1} ELSE {m.to - LostBlock + 1 : m \in Expired}

PackExpired ==
  /\ popped # 0 /\ popped >= sndLastDataAck
  /\ \E msglen \in MsgLens :
       LET last == popped + msglen
       IN /\ last < MaxSeq
          /\ currBlock' = IF currBlock \in LostBlock + 1 .. LostBlock + msglen - 1
                          THEN LostBlock + msglen ELSE currBlock
          /\ drops' = drops \cup {<<popped, last>>}
          /\ sndLoss' = {s \in sndLoss : s > last}
          /\ sndCurrSeqNo' = IF sndCurrSeqNo < last + 1 THEN last + 1 ELSE sndCurrSeqNo
  /\ popped' = 0
  /\ UNCHANGED <<sockType, acking, msgs, lastBlock, firstBlock, count, sndLastAck, sndLastDataAck,
                 flowWindow, onSndUList, sndBroken, rcvVars, data, acks, lites, ack2s, naks>>

Window == IF flowWindow < CWnd THEN flowWindow ELSE CWnd
WindowOpen == Window >= sndCurrSeqNo + 1 - sndLastAck + 1

PackNew ==
  /\ MayPack /\ sndLoss = {}
  /\ WindowOpen /\ currBlock # lastBlock + 1 /\ sndCurrSeqNo < MaxSeq
  /\ data' = data \cup {<<sndCurrSeqNo + 1, currBlock>>}
  /\ sndCurrSeqNo' = sndCurrSeqNo + 1
  /\ currBlock' = currBlock + 1
  /\ UNCHANGED <<sockType, acking, msgs, lastBlock, firstBlock, count, sndLastAck, sndLastDataAck, flowWindow,
                 sndLoss, popped, onSndUList, sndBroken, rcvVars,
                 acks, lites, ack2s, naks, drops>>

PackNothing ==
  /\ MayPack /\ sndLoss = {}
  /\ ~WindowOpen \/ currBlock = lastBlock + 1
  /\ onSndUList' = FALSE
  /\ UNCHANGED <<sockType, acking, msgs, lastBlock, firstBlock, currBlock, count, sndCurrSeqNo,
                 sndLastAck, sndLastDataAck, flowWindow, sndLoss, popped, sndBroken, rcvVars, netVars>>

-----------------------------------------------------------------------------
(* The sender's receive-queue thread.                                      *)

LiteAck(p) ==
  /\ Idle /\ p \in lites /\ ~sndBroken
  /\ lites' = Left(lites, p)
  /\ IF p >= sndLastAck
     THEN /\ flowWindow' = flowWindow - (p - sndLastAck)
          /\ sndLastAck' = p
     ELSE UNCHANGED <<flowWindow, sndLastAck>>
  /\ UNCHANGED <<sockType, acking, msgs, lastBlock, firstBlock, currBlock, count, sndCurrSeqNo,
                 sndLastDataAck, sndLoss, popped, onSndUList, sndBroken, rcvVars,
                 data, acks, ack2s, naks, drops>>

(***************************************************************************)
(* A full ACK.  The ACK2 goes out first, or not: one is enough in a SYN    *)
(* interval.  It carries the number of the ACK it answers, under which the *)
(* receiver has stored the ACK's sequence number; that is what it stands   *)
(* for here.  Only then is the ACK examined and obeyed, and the receiver   *)
(* and the other threads of the sender may come between the steps: the     *)
(* window is set without a lock, the buffer freed under m_AckLock, and the *)
(* socket put back on the list after it.                                   *)
(***************************************************************************)
Ack(p) ==
  /\ Idle /\ p \in acks /\ ~sndBroken
  /\ acks' = Left(acks, p)
  /\ ack2s' \in {ack2s, ack2s \cup {p[1]}}
  /\ acking' = [at |-> "answered", ack |-> p[1], room |-> p[2]]
  /\ UNCHANGED <<sockType, msgs, lastBlock, firstBlock, currBlock, count, sndCurrSeqNo,
                 sndLastAck, sndLastDataAck, flowWindow, sndLoss, popped, onSndUList, sndBroken,
                 rcvVars, data, lites, naks, drops>>

AckWindow ==
  /\ acking.at = "answered"
  /\ IF acking.ack > sndCurrSeqNo + 1
     THEN sndBroken' = TRUE /\ acking' = NoAck /\ UNCHANGED <<flowWindow, sndLastAck>>
     ELSE /\ IF acking.ack >= sndLastAck
             THEN flowWindow' = acking.room /\ sndLastAck' = acking.ack
             ELSE UNCHANGED <<flowWindow, sndLastAck>>
          /\ acking' = [NoAck EXCEPT !.at = "counted", !.ack = acking.ack]
          /\ UNCHANGED sndBroken
  /\ UNCHANGED <<sockType, msgs, lastBlock, firstBlock, currBlock, count, sndCurrSeqNo,
                 sndLastDataAck, sndLoss, popped, onSndUList, rcvVars, netVars>>

(* Mutant of AckFree: an acknowledgement that repeats an older one is      *)
(* obeyed.                                                                 *)
AckFreeRepeated ==
  /\ acking.at = "counted"
  /\ firstBlock' = firstBlock + (acking.ack - sndLastDataAck)
  /\ count' = count - (acking.ack - sndLastDataAck)
  /\ sndLastDataAck' = acking.ack
  /\ sndLoss' = {s \in sndLoss : s >= acking.ack}
  /\ acking' = [NoAck EXCEPT !.at = "freed"]
  /\ UNCHANGED <<sockType, msgs, lastBlock, currBlock, sndCurrSeqNo, sndLastAck, flowWindow,
                 popped, onSndUList, sndBroken, rcvVars, netVars>>

(* Mutant of AckFree: seqlen for seqoff, one block too many is freed.      *)
AckFreeOneMore ==
  /\ acking.at = "counted"
  /\ IF acking.ack > sndLastDataAck
     THEN /\ firstBlock' = firstBlock + (acking.ack - sndLastDataAck + 1)
          /\ count' = count - (acking.ack - sndLastDataAck + 1)
          /\ sndLastDataAck' = acking.ack
          /\ sndLoss' = {s \in sndLoss : s >= acking.ack}
          /\ acking' = [NoAck EXCEPT !.at = "freed"]
     ELSE /\ acking' = NoAck
          /\ UNCHANGED <<firstBlock, count, sndLastDataAck, sndLoss>>
  /\ UNCHANGED <<sockType, msgs, lastBlock, currBlock, sndCurrSeqNo, sndLastAck, flowWindow,
                 popped, onSndUList, sndBroken, rcvVars, netVars>>

AckFree ==
  /\ acking.at = "counted"
  /\ IF acking.ack > sndLastDataAck
     THEN /\ firstBlock' = firstBlock + (acking.ack - sndLastDataAck)
          /\ count' = count - (acking.ack - sndLastDataAck)
          /\ sndLastDataAck' = acking.ack
          /\ sndLoss' = {s \in sndLoss : s >= acking.ack}
          /\ acking' = [NoAck EXCEPT !.at = "freed"]
     ELSE /\ acking' = NoAck
          /\ UNCHANGED <<firstBlock, count, sndLastDataAck, sndLoss>>
  /\ UNCHANGED <<sockType, msgs, lastBlock, currBlock, sndCurrSeqNo, sndLastAck, flowWindow,
                 popped, onSndUList, sndBroken, rcvVars, netVars>>

AckResume ==
  /\ acking.at = "freed"
  /\ onSndUList' = TRUE
  /\ acking' = NoAck
  /\ UNCHANGED <<sockType, msgs, lastBlock, firstBlock, currBlock, count, sndCurrSeqNo,
                 sndLastAck, sndLastDataAck, flowWindow, sndLoss, popped, sndBroken,
                 rcvVars, netVars>>

AckStep == AckWindow \/ AckFree \/ AckResume

(* A loss report of the packets from p[1] to p[2].                         *)
Nak(p) ==
  /\ Idle /\ p \in naks /\ ~sndBroken
  /\ naks' = Left(naks, p)
  /\ IF p[2] > sndCurrSeqNo
     THEN sndBroken' = TRUE /\ UNCHANGED <<sndLoss, onSndUList>>
     ELSE /\ sndLoss' = sndLoss \cup {s \in p[1] .. p[2] : s >= sndLastAck}
          /\ onSndUList' = TRUE
          /\ UNCHANGED sndBroken
  /\ UNCHANGED <<sockType, acking, msgs, lastBlock, firstBlock, currBlock, count, sndCurrSeqNo,
                 sndLastAck, sndLastDataAck, flowWindow, popped, rcvVars,
                 data, acks, lites, ack2s, drops>>

(* The EXP timer, before the peer is given up.                             *)
Exp ==
  /\ Idle /\ count > 0 /\ ~sndBroken
  /\ sndLoss' = IF sndCurrSeqNo + 1 # sndLastAck /\ sndLoss = {}
                THEN sndLastAck .. sndCurrSeqNo ELSE sndLoss
  /\ onSndUList' = TRUE
  /\ UNCHANGED <<sockType, acking, msgs, lastBlock, firstBlock, currBlock, count, sndCurrSeqNo,
                 sndLastAck, sndLastDataAck, flowWindow, popped, sndBroken, rcvVars, netVars>>

-----------------------------------------------------------------------------
(* The receiver's receive-queue thread.                                    *)

(* The buffer is a ring: sequence number s has slot s % RcvBufSize, and    *)
(* positions are compared as slots.  One slot stays empty.                 *)
DataSize(lastAck) == (lastAck - rcvStart) % RcvBufSize

(* Mutant of AvailBufSize: no slot is kept empty.                          *)
AvailBufSizeAll(lastAck) == RcvBufSize - DataSize(lastAck)

AvailBufSize(lastAck) == RcvBufSize - DataSize(lastAck) - 1

Filled(s) == \E p \in rcvBuf : p[1] % RcvBufSize = s % RcvBufSize

(* Mutant of Data: a packet beyond the buffer is not refused.              *)
DataBeyondBuffer(p) ==
  LET seq == p[1]
      offset == seq - rcvLastAck
  IN /\ p \in data
     /\ data' = Left(data, p)
     /\ IF offset < 0 \/ Filled(seq)
        THEN UNCHANGED <<rcvBuf, arrived, rcvLoss, rcvCurrSeqNo, naks>>
        ELSE /\ rcvBuf' = rcvBuf \cup {p}
             /\ arrived' = arrived \cup {p[2]}
             /\ IF seq > rcvCurrSeqNo + 1
                THEN /\ rcvLoss' = rcvLoss \cup (rcvCurrSeqNo + 1 .. seq - 1)
                     /\ naks' = naks \cup {<<rcvCurrSeqNo + 1, seq - 1>>}
                ELSE UNCHANGED naks /\ rcvLoss' = rcvLoss \ {seq}
             /\ rcvCurrSeqNo' = IF seq > rcvCurrSeqNo THEN seq ELSE rcvCurrSeqNo
     /\ UNCHANGED <<sndVars, rcvLastAck, rcvLastAckAck, rcvStart, dropped, delivered,
                    acks, lites, ack2s, drops>>

(* Mutant of Data: what is retransmitted stays on the loss list.           *)
DataStaysLost(p) ==
  LET seq == p[1]
      offset == seq - rcvLastAck
  IN /\ p \in data
     /\ data' = Left(data, p)
     /\ IF offset < 0 \/ offset >= AvailBufSize(rcvLastAck) \/ Filled(seq)
        THEN UNCHANGED <<rcvBuf, arrived, rcvLoss, rcvCurrSeqNo, naks>>
        ELSE /\ rcvBuf' = rcvBuf \cup {p}
             /\ arrived' = arrived \cup {p[2]}
             /\ IF seq > rcvCurrSeqNo + 1
                THEN /\ rcvLoss' = rcvLoss \cup (rcvCurrSeqNo + 1 .. seq - 1)
                     /\ naks' = naks \cup {<<rcvCurrSeqNo + 1, seq - 1>>}
                ELSE UNCHANGED naks /\ rcvLoss' = rcvLoss
             /\ rcvCurrSeqNo' = IF seq > rcvCurrSeqNo THEN seq ELSE rcvCurrSeqNo
     /\ UNCHANGED <<sndVars, rcvLastAck, rcvLastAckAck, rcvStart, dropped, delivered,
                    acks, lites, ack2s, drops>>

(* processData: outside the buffer, or already in it, the packet is of no  *)
(* use; beyond a gap it makes the gap a loss, and is reported at once.     *)
Data(p) ==
  LET seq == p[1]
      offset == seq - rcvLastAck
  IN /\ p \in data
     /\ data' = Left(data, p)
     /\ IF offset < 0 \/ offset >= AvailBufSize(rcvLastAck) \/ Filled(seq)
        THEN UNCHANGED <<rcvBuf, arrived, rcvLoss, rcvCurrSeqNo, naks>>
        ELSE /\ rcvBuf' = rcvBuf \cup {p}
             /\ arrived' = arrived \cup {p[2]}
             /\ IF seq > rcvCurrSeqNo + 1
                THEN /\ rcvLoss' = rcvLoss \cup (rcvCurrSeqNo + 1 .. seq - 1)
                     /\ naks' = naks \cup {<<rcvCurrSeqNo + 1, seq - 1>>}
                ELSE /\ rcvLoss' = rcvLoss \ {seq}
                     /\ UNCHANGED naks
             /\ rcvCurrSeqNo' = IF seq > rcvCurrSeqNo THEN seq ELSE rcvCurrSeqNo
     /\ UNCHANGED <<sndVars, rcvLastAck, rcvLastAckAck, rcvStart, dropped, delivered,
                    acks, lites, ack2s, drops>>

(* What an ACK acknowledges: everything before the first loss.             *)
Ackable == IF rcvLoss = {} THEN rcvCurrSeqNo + 1 ELSE Min(rcvLoss)

SendLiteAck ==
  /\ Ackable \in LiteAcks /\ Ackable # rcvLastAckAck
  /\ lites' = lites \cup {Ackable}
  /\ UNCHANGED <<sndVars, rcvVars, data, acks, ack2s, naks, drops>>

(* Mutant of FlowWindow: a full buffer closes the window.                  *)
FlowWindowBare(avail) == avail

(* "a minimum flow window of 2 is used, even if buffer is full, to break   *)
(* potential deadlock"                                                     *)
FlowWindow(avail) == IF avail < 2 THEN 2 ELSE avail

(* Mutant of SendAck: an ACK is not repeated.                              *)
SendAckOnce ==
  /\ Ackable # rcvLastAckAck /\ Ackable > rcvLastAck
  /\ rcvLastAck' = Ackable
  /\ acks' = IF Ackable > rcvLastAckAck
             THEN acks \cup {<<Ackable, FlowWindow(AvailBufSize(Ackable))>>} ELSE acks
  /\ UNCHANGED <<sndVars, rcvCurrSeqNo, rcvLastAckAck, rcvLoss, rcvStart, rcvBuf, arrived,
                 dropped, delivered, data, lites, ack2s, naks, drops>>

SendAck ==
  /\ Ackable # rcvLastAckAck /\ Ackable >= rcvLastAck
  /\ rcvLastAck' = Ackable
  /\ acks' = IF Ackable > rcvLastAckAck
             THEN acks \cup {<<Ackable, FlowWindow(AvailBufSize(Ackable))>>} ELSE acks
  /\ UNCHANGED <<sndVars, rcvCurrSeqNo, rcvLastAckAck, rcvLoss, rcvStart, rcvBuf, arrived,
                 dropped, delivered, data, lites, ack2s, naks, drops>>

Ack2(p) ==
  /\ p \in ack2s
  /\ ack2s' = Left(ack2s, p)
  /\ rcvLastAckAck' = IF p > rcvLastAckAck THEN p ELSE rcvLastAckAck
  /\ UNCHANGED <<sndVars, rcvCurrSeqNo, rcvLastAck, rcvLoss, rcvStart, rcvBuf, arrived,
                 dropped, delivered, data, acks, lites, naks, drops>>

(* A request to drop the packets from p[1] to p[2].  dropMsg compares the  *)
(* bare message number with the whole field of the packet, which here      *)
(* always has the in-order bit set, and so finds nothing to mark.          *)
Drop(p) ==
  /\ p \in drops
  /\ drops' = Left(drops, p)
  /\ rcvLoss' = rcvLoss \ (p[1] .. p[2])
  /\ rcvCurrSeqNo' = IF p[1] <= rcvCurrSeqNo + 1 /\ p[2] > rcvCurrSeqNo
                     THEN p[2] ELSE rcvCurrSeqNo
  /\ dropped' = dropped \cup (p[1] .. p[2])
  /\ UNCHANGED <<sndVars, rcvLastAck, rcvLastAckAck, rcvStart, rcvBuf, arrived, delivered,
                 data, acks, lites, ack2s, naks>>

-----------------------------------------------------------------------------
(* The receiving application.                                              *)

Block(s) == (CHOOSE p \in rcvBuf : p[1] % RcvBufSize = s % RcvBufSize)[2]
Blocks(first, last) == [i \in 1 .. last - first + 1 |-> Block(first + i - 1)]

(* recv, readBuffer: acknowledged data as it comes.                        *)
Recv ==
  /\ sockType = "SOCK_STREAM"
  /\ \E last \in rcvStart .. rcvLastAck - 1 :
       /\ delivered' = delivered \o Blocks(rcvStart, last)
       /\ rcvBuf' = {p \in rcvBuf : p[1] > last}
       /\ rcvStart' = last + 1
  /\ UNCHANGED <<sndVars, rcvCurrSeqNo, rcvLastAck, rcvLastAckAck, rcvLoss, arrived,
                 dropped, netVars>>

(***************************************************************************)
(* recvmsg, readMsg: scanMsg first gives up what cannot begin a message    *)
(* (slots that are empty, not the head of a message, or the head of one    *)
(* with a hole among the acknowledged slots), then takes the first message *)
(* that is acknowledged to its last block.  What lies between the head of  *)
(* the search and the head of the message found stays where it is.         *)
(***************************************************************************)
IsHead(s) == Filled(s) /\ \E m \in msgs : m.from = Block(s)
IsTail(s) == Filled(s) /\ \E m \in msgs : m.to = Block(s)
Tails(s) == {t \in s .. rcvLastAck - 1 : IsTail(t)}

GoodHead(s) ==
  /\ IsHead(s)
  /\ LET end == IF Tails(s) = {} THEN rcvLastAck - 1 ELSE Min(Tails(s))
     IN \A i \in s .. end : Filled(i)

ScanStart == Min({rcvLastAck} \cup {s \in rcvStart .. rcvLastAck - 1 : GoodHead(s)})

Recvmsg ==
  LET start == ScanStart
      tail == Min(Tails(start))
      head == Max({s \in start .. tail : IsHead(s)})
  IN /\ sockType = "SOCK_DGRAM"
     /\ \/ /\ Tails(start) # {}
           /\ delivered' = delivered \o Blocks(head, tail)
           /\ rcvBuf' = {p \in rcvBuf : p[1] \notin (rcvStart .. start - 1) \cup (head .. tail)}
           /\ rcvStart' = tail + 1
        \/ /\ Tails(start) = {} /\ start # rcvStart
           /\ rcvBuf' = {p \in rcvBuf : p[1] \notin rcvStart .. start - 1}
           /\ rcvStart' = start
           /\ UNCHANGED delivered
     /\ UNCHANGED <<sndVars, rcvCurrSeqNo, rcvLastAck, rcvLastAckAck, rcvLoss, arrived,
                 dropped, netVars>>

-----------------------------------------------------------------------------
SndQueueStep == \/ PackPopLoss \/ PackStale \/ PackRetransmit \/ PackExpired
                \/ PackNew \/ PackNothing

SenderReceives == \/ \E p \in lites : LiteAck(p)
                  \/ \E p \in acks : Ack(p)
                  \/ AckStep
                  \/ \E p \in naks : Nak(p)

ReceiverReceives == \/ \E p \in data : Data(p)
                    \/ \E p \in ack2s : Ack2(p)
                    \/ \E p \in drops : Drop(p)

Next ==
  \/ \E n \in Lengths, mortal \in Mortality : Sendmsg(n, mortal)
  \/ SndQueueStep
  \/ SenderReceives \/ Exp
  \/ ReceiverReceives \/ SendLiteAck \/ SendAck
  \/ Recv \/ Recvmsg
  \/ Lose

Spec == Init /\ [][Next]_vars

(***************************************************************************)
(* The threads of the library run, the ACK and EXP timers fire again and   *)
(* again, the receiving application reads, and a packet that is sent again *)
(* and again is received in the end.  An ACK that comes again and again is *)
(* answered in the end: only the ACKs of one SYN interval share an ACK2.   *)
(* Nobody has to send.                                                     *)
(***************************************************************************)
Answers(p) == Ack(p) /\ p[1] \in ack2s'

Fairness ==
  /\ WF_vars(SndQueueStep) /\ WF_vars(AckStep) /\ WF_vars(Exp) /\ WF_vars(SendAck)
  /\ WF_vars(Recv \/ Recvmsg)
  /\ \A s \in 1 .. MaxBlocks : SF_vars(\E p \in data : p[1] = s /\ Data(p))
  /\ \A a \in 2 .. MaxBlocks + 1 : SF_vars(\E p \in acks : p[1] = a /\ Answers(p))
  /\ \A a \in 2 .. MaxBlocks + 1 : SF_vars(Ack2(a))

FairSpec == Spec /\ Fairness

-----------------------------------------------------------------------------
(* Properties.                                                             *)

(***************************************************************************)
(* Two correct ends never break each other's connection: no ACK or loss    *)
(* report of the receiver is ever one that processCtrl takes for an attack *)
(* (core.cpp:2015, 2143), whatever the network does to the packets and     *)
(* whichever messages expire.                                              *)
(***************************************************************************)
NeverBroken == ~sndBroken

(***************************************************************************)
(* Between the first slot of the receive buffer and the largest sequence   *)
(* number seen, every packet is either held or on the loss list, never     *)
(* both, unless the sender has asked to drop it: m_pRcvLossList is all     *)
(* that keeps an ACK from covering a hole.                                 *)
(***************************************************************************)
LossAccounted ==
  \A s \in rcvStart .. rcvCurrSeqNo :
    LET held == \E p \in rcvBuf : p[1] = s
    IN /\ ~(held /\ s \in rcvLoss)
       /\ held \/ s \in rcvLoss \/ s \in dropped

(* What addData refuses as a duplicate is one (buffer.cpp:374): where      *)
(* processData may put a packet, a slot that is taken is taken by it, and  *)
(* not by one of the ring's earlier rounds that was never read.            *)
RingSound ==
  \A s \in rcvLastAck .. rcvLastAck + AvailBufSize(rcvLastAck) - 1 :
    Filled(s) => \E p \in rcvBuf : p[1] = s

(* The sender forgets a block only after it has reached the receiver,      *)
(* unless the block had a time to live.  t-msg.htm: with the default,      *)
(* infinite, "the message will always be delivered".                       *)
Mortal(b) == \E m \in msgs : m.mortal /\ b \in m.from .. m.to
NothingLost == \A b \in 1 .. lastBlock : b < firstBlock => b \in arrived \/ Mortal(b)

(* The receiver stops repeating an ACK (core.cpp:1819, "only if has not    *)
(* been received by the sender before") only for data the sender has freed *)
(* or, as the ACK2 goes out first (core.cpp:2006), is just about to free;  *)
(* and the sender frees only what was acknowledged.                        *)
AckOrder ==
  /\ sndLastDataAck <= rcvLastAck
  /\ \/ rcvLastAckAck <= sndLastDataAck
     \/ acking.at \in {"answered", "counted"} /\ acking.ack = rcvLastAckAck

(* Without times to live, one direction of a connection is a reliable      *)
(* channel: every block is delivered once, in order, and neither buffer    *)
(* overflows (refinement of ReliableChannel).                              *)
Channel == INSTANCE ReliableChannel
             WITH SndRoom <- SndBufSize, RcvRoom <- RcvBufSize - 1,
                  sent <- lastBlock, accepted <- rcvLastAck - 1,
                  freed <- firstBlock - 1, out <- delivered

ImplementsChannel == Channel!ChannelSpec

(* Whatever is sent is in the end acknowledged, though the buffer may have *)
(* been full and every loss report may be lost: by EXP, the repeated ACK   *)
(* and the minimum flow window.                                            *)
AllAcknowledged == \A b \in 1 .. MaxBlocks : lastBlock >= b ~> firstBlock > b
=============================================================================
