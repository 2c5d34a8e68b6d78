------------------------------ MODULE RcvBuffer ------------------------------
(***************************************************************************)
(* The receive buffer (CRcvBuffer of buffer.cpp) with unordered messages,  *)
(* messages that are dropped and messages larger than the buffer, and with *)
(* reads of any number of bytes in a stream.  The ring of units holds for  *)
(* each slot the number of a packet, counted from 1, and the unit's        *)
(* m_iFlag: 0 free, 1 occupied, 2 read out of order.  The driver calls it  *)
(* as processData, sendCtrl and processCtrl do.                            *)
(***************************************************************************)
EXTENDS Integers, Sequences, FiniteSets

CONSTANTS
    BufSize,   \* m_iSize
    Packets,   \* how many packets the sender sends
    DropReach  \* how far a dropped message may reach beyond the room in the buffer

ASSUME RcvBufferAssumption ==
    BufSize \in Nat \ {0, 1} /\ Packets \in Nat \ {0} /\ DropReach \in Nat

VARIABLES
    rb,         \* the buffer: unit, flag, start, ackPos, maxPos, notch, count
    rbAck,      \* m_iRcvLastAck, counted in packets
    rbCur,      \* m_iRcvCurrSeqNo
    rbMissing,  \* m_pRcvLossList
    rbMsgs,     \* the sender's messages: first and last packet, in-order flag; {} for a stream
    rbRead,     \* what readMsg returned: first and last packet of each message
    rbBytes,    \* how many bytes readBuffer returned
    rbDropped,  \* the packets named in drop requests
    rbGivenUp   \* the packets scanMsg freed although they were not read

rcvBufferVars == <<rb, rbAck, rbCur, rbMissing, rbMsgs, rbRead, rbBytes, rbDropped, rbGivenUp>>

NoUnit == 0
RingSlots == 0..BufSize - 1
After(i) == IF i + 1 = BufSize THEN 0 ELSE i + 1

\* Packets come in two sizes.
PacketBytes(n) == 1 + (n % 2)

MsgOf(n) == CHOOSE m \in rbMsgs : n \in m.first..m.last

\* getMsgBoundary: 3 for a message of one packet, 2 for the first, 1 for the last.
Boundary(n) == LET m == MsgOf(n) IN
               (IF n = m.first THEN 2 ELSE 0) + (IF n = m.last THEN 1 ELSE 0)

BufferEmpty == [unit |-> [i \in RingSlots |-> NoUnit], flag |-> [i \in RingSlots |-> 0],
                start |-> 0, ackPos |-> 0, maxPos |-> 0, notch |-> 0, count |-> 0]

RcvDataSize(b) == IF b.ackPos >= b.start THEN b.ackPos - b.start
                  ELSE BufSize + b.ackPos - b.start

AvailSize(b) == BufSize - RcvDataSize(b) - 1

\* Mutant of AddData: the furthest position follows the last packet.
AddDataLow(b, n, offset) ==
    LET pos == (b.ackPos + offset) % BufSize
    IN IF b.unit[pos] # NoUnit THEN b
       ELSE [b EXCEPT !.unit[pos] = n, !.flag[pos] = 1, !.count = @ + 1, !.maxPos = offset]

\* addData: the furthest position is raised before a duplicate is refused.
AddData(b, n, offset) ==
    LET pos == (b.ackPos + offset) % BufSize
        seen == [b EXCEPT !.maxPos = IF offset > @ THEN offset ELSE @]
    IN IF b.unit[pos] # NoUnit THEN seen
       ELSE [seen EXCEPT !.unit[pos] = n, !.flag[pos] = 1, !.count = @ + 1]

AckData(b, len) ==
    [b EXCEPT !.ackPos = (@ + len) % BufSize,
              !.maxPos = IF @ < len THEN 0 ELSE @ - len]

FreeUnit(b, i) == [b EXCEPT !.unit[i] = NoUnit, !.flag[i] = 0, !.count = @ - 1]

\* Mutant of ReadBuffer: m_iNotch is not reset with the next unit.
ReadBufferOnce(b, len) ==
    LET p == b.start
        left == PacketBytes(b.unit[p]) - b.notch
    IN IF len >= left
       THEN [buf |-> [FreeUnit(b, p) EXCEPT !.start = After(p)], rs |-> len - left]
       ELSE [buf |-> [b EXCEPT !.notch = @ + len], rs |-> 0]

\* readBuffer and readBufferToFile: turn after turn of the loop, with rs bytes to go.
ReadBuffer(b, len) ==
    LET turn[k \in 0..BufSize] ==
          IF k = 0 THEN [buf |-> b, rs |-> len]
          ELSE LET c == turn[k - 1]
                   p == c.buf.start
                   left == PacketBytes(c.buf.unit[p]) - c.buf.notch
               IN IF p = b.ackPos \/ c.rs = 0 THEN c
                  ELSE IF c.rs >= left
                  THEN [buf |-> [FreeUnit(c.buf, p) EXCEPT !.start = After(p), !.notch = 0],
                        rs |-> c.rs - left]
                  ELSE [buf |-> [c.buf EXCEPT !.notch = @ + c.rs], rs |-> 0]
    IN turn[BufSize]

-----------------------------------------------------------------------------
(* scanMsg *)

\* The slot k behind the start.
SlotAt(b, k) == (b.start + k) % BufSize

\* The unit in slot i has not been read, and is not the last one of its message.
GoesOn(b, i) == b.flag[i] = 1 /\ Boundary(b.unit[i]) \notin {1, 3}

\* Mutant of GoodStart: a message that is not acknowledged to its end is bad.
GoodStartWhole(b) ==
    /\ b.flag[b.start] = 1 /\ Boundary(b.unit[b.start]) > 1
    /\ \E k \in 0..RcvDataSize(b) - 1 :
         /\ \A j \in 0..k - 1 : GoesOn(b, SlotAt(b, j))
         /\ b.flag[SlotAt(b, k)] = 1 /\ ~GoesOn(b, SlotAt(b, k))

\* Whether the message that starts at the first unit has no hole as far as
\* it is acknowledged.
GoodStart(b) ==
    /\ b.flag[b.start] = 1 /\ Boundary(b.unit[b.start]) > 1
    /\ \A k \in 0..RcvDataSize(b) - 1 :
         (\A j \in 0..k - 1 : GoesOn(b, SlotAt(b, j))) => b.flag[SlotAt(b, k)] = 1

\* The slots 0 to k - 1 behind the start are emptied.
FreeFirst(b, k) ==
    LET freed == {SlotAt(b, j) : j \in 0..k - 1}
    IN [b EXCEPT !.unit = [i \in RingSlots |-> IF i \in freed THEN NoUnit ELSE @[i]],
                 !.flag = [i \in RingSlots |-> IF i \in freed THEN 0 ELSE @[i]],
                 !.count = @ - Cardinality({i \in freed : b.unit[i] # NoUnit}),
                 !.start = SlotAt(b, k)]

\* The first loop: units are freed until a good message is at the start.
SkipBad(b) ==
    LET stops(k) == k = RcvDataSize(b) \/ GoodStart(FreeFirst(b, k))
    IN FreeFirst(b, CHOOSE k \in 0..RcvDataSize(b) : stops(k) /\ \A j \in 0..k - 1 : ~stops(j))

\* Mutant of SearchTurn: the in-order flag is not looked at.
SearchTurnUnordered(b, s) ==
    LET occupied == b.flag[s.q] = 1
        bound == IF occupied THEN Boundary(b.unit[s.q]) ELSE 0
        head == IF ~occupied THEN -1 ELSE IF bound \in {2, 3} THEN s.q ELSE s.p
    IN IF bound = 3 \/ (bound = 1 /\ head # -1) THEN [s EXCEPT !.p = head, !.found = TRUE]
       ELSE [s EXCEPT !.p = head, !.q = After(s.q),
                      !.passack = @ \/ After(s.q) = b.ackPos]

\* One turn of the second loop: head and tail of the message looked for, and
\* whether the search is beyond what is acknowledged.
SearchTurn(b, s) ==
    LET occupied == b.flag[s.q] = 1
        bound == IF occupied THEN Boundary(b.unit[s.q]) ELSE 0
        head == IF ~occupied THEN -1 ELSE IF bound \in {2, 3} THEN s.q ELSE s.p
        found == /\ bound = 3 \/ (bound = 1 /\ head # -1)
                 /\ ~s.passack \/ ~MsgOf(b.unit[s.q]).ordered
    IN IF found THEN [s EXCEPT !.p = head, !.found = TRUE]
       ELSE [s EXCEPT !.p = head, !.q = After(s.q),
                      !.passack = @ \/ After(s.q) = b.ackPos]

Search(b) ==
    LET turns == b.maxPos + RcvDataSize(b) + 1
        search[k \in 0..turns] ==
          IF k = 0 THEN [p |-> -1, q |-> b.start, passack |-> b.start = b.ackPos,
                         found |-> FALSE]
          ELSE IF search[k - 1].found THEN search[k - 1] ELSE SearchTurn(b, search[k - 1])
        s == search[turns]
    IN IF ~s.found /\ s.p # -1 /\ After(s.q) = s.p THEN [s EXCEPT !.found = TRUE] ELSE s

ScanMsg(b) ==
    IF b.start = b.ackPos /\ b.maxPos <= 0
    THEN [buf |-> b, p |-> -1, q |-> b.start, passack |-> FALSE, found |-> FALSE]
    ELSE LET good == SkipBad(b)
             s == Search(good)
         IN [buf |-> good, p |-> s.p, q |-> s.q, passack |-> s.passack, found |-> s.found]

\* The slots from p to q; none when the search came back to its start.
ScannedSlots(s) ==
    IF ~s.found \/ After(s.q) = s.p THEN <<>>
    ELSE [k \in 1..((s.q - s.p + BufSize) % BufSize) + 1 |-> (s.p + k - 1) % BufSize]

\* Mutant of TakeMsg: units read out of order are not marked.
TakeMsgUnmarked(s) ==
    LET slots == ScannedSlots(s)
        taken == {slots[k] : k \in DOMAIN slots}
        b == s.buf
    IN IF ~s.found \/ s.passack THEN b
       ELSE [b EXCEPT !.unit = [i \in RingSlots |-> IF i \in taken THEN NoUnit ELSE @[i]],
                      !.flag = [i \in RingSlots |-> IF i \in taken THEN 0 ELSE @[i]],
                      !.count = @ - Cardinality(taken),
                      !.start = After(s.q)]

\* readMsg, after scanMsg.
TakeMsg(s) ==
    LET slots == ScannedSlots(s)
        taken == {slots[k] : k \in DOMAIN slots}
        b == s.buf
    IN IF ~s.found THEN b
       ELSE IF s.passack
            THEN [b EXCEPT !.flag = [i \in RingSlots |-> IF i \in taken THEN 2 ELSE @[i]]]
       ELSE [b EXCEPT !.unit = [i \in RingSlots |-> IF i \in taken THEN NoUnit ELSE @[i]],
                      !.flag = [i \in RingSlots |-> IF i \in taken THEN 0 ELSE @[i]],
                      !.count = @ - Cardinality(taken),
                      !.start = After(s.q)]

-----------------------------------------------------------------------------
(* The calls of a connection. *)

Sent == 1..Packets
Unread(b) == {b.unit[i] : i \in {j \in RingSlots : b.flag[j] = 1}}
MinOf(S) == CHOOSE x \in S : \A y \in S : x <= y

\* The last packet of the message that begins with packet n, by the packets that begin one.
EndOf(heads, n) ==
    CHOOSE l \in n..Packets : l + 1 \in heads \union {Packets + 1} /\ n + 1..l \intersect heads = {}

\* Every way to divide the packets into messages.
Partitions ==
    {{[first |-> n, last |-> EndOf(heads, n), ordered |-> inOrder[n]] : n \in heads} :
        heads \in {h \in SUBSET Sent : 1 \in h}, inOrder \in [Sent -> BOOLEAN]}

RcvBufferIdle(msgs) ==
    /\ rb = BufferEmpty /\ rbAck = 1 /\ rbCur = 0 /\ rbMissing = {}
    /\ rbMsgs = msgs /\ rbRead = <<>> /\ rbBytes = 0 /\ rbDropped = {} /\ rbGivenUp = {}

RcvBufferInit == \E msgs \in Partitions \union {{}} : RcvBufferIdle(msgs)

\* processData: packet n arrives, once or again.
BufData(n) ==
    LET offset == n - rbAck
        fresh == rb.unit[(rb.ackPos + offset) % BufSize] = NoUnit
    IN /\ offset >= 0 /\ offset < AvailSize(rb)
       /\ rb' = AddData(rb, n, offset)
       /\ rbMissing' = IF fresh THEN (rbMissing \union rbCur + 1..n - 1) \ {n} ELSE rbMissing
       /\ rbCur' = IF fresh /\ n > rbCur THEN n ELSE rbCur
       /\ UNCHANGED <<rbAck, rbMsgs, rbRead, rbBytes, rbDropped, rbGivenUp>>

\* sendCtrl: everything before the first loss is acknowledged.
BufAck ==
    LET ack == IF rbMissing = {} THEN rbCur + 1 ELSE MinOf(rbMissing)
    IN /\ ack > rbAck
       /\ rbAck' = ack
       /\ rb' = AckData(rb, ack - rbAck)
       /\ UNCHANGED <<rbCur, rbMissing, rbMsgs, rbRead, rbBytes, rbDropped, rbGivenUp>>

\* processCtrl: a drop request from packet n to the end of its message or, as
\* the sender counts, the packet after.  The code does not ask whether the buffer
\* has room for the packets that are dropped; DropReach bounds how far they lie
\* beyond it.  dropMsg compares a message number with the whole header field and
\* marks nothing.
BufDrop(n, b) ==
    /\ rbMsgs # {} /\ b \in {MsgOf(n).last, MsgOf(n).last + 1} /\ b <= Packets
    /\ b - rbAck < AvailSize(rb) + DropReach
    /\ rbMissing' = rbMissing \ (n..b)
    /\ rbCur' = IF n <= rbCur + 1 /\ b > rbCur THEN b ELSE rbCur
    /\ rbDropped' = rbDropped \union n..b
    /\ UNCHANGED <<rb, rbAck, rbMsgs, rbRead, rbBytes, rbGivenUp>>

\* recv: a read of at most len bytes.
BufRecv(len) ==
    LET r == ReadBuffer(rb, len) IN
    /\ rbMsgs = {} /\ RcvDataSize(rb) > 0
    /\ rb' = r.buf
    /\ rbBytes' = rbBytes + len - r.rs
    /\ UNCHANGED <<rbAck, rbCur, rbMissing, rbMsgs, rbRead, rbDropped, rbGivenUp>>

\* recvmsg.
BufRecvmsg ==
    LET s == ScanMsg(rb)
        slots == ScannedSlots(s)
    IN /\ rbMsgs # {}
       /\ rb' = TakeMsg(s)
       /\ rbGivenUp' = rbGivenUp \union (Unread(rb) \ Unread(s.buf))
       /\ rbRead' = IF slots = <<>> THEN rbRead
                    ELSE Append(rbRead, [k \in DOMAIN slots |-> s.buf.unit[slots[k]]])
       /\ UNCHANGED <<rbAck, rbCur, rbMissing, rbMsgs, rbBytes, rbDropped>>

\* getRcvMsgNum, from recvmsg or addEPoll.
BufMsgNum ==
    LET s == ScanMsg(rb) IN
    /\ rbMsgs # {}
    /\ rb' = s.buf
    /\ rbGivenUp' = rbGivenUp \union (Unread(rb) \ Unread(s.buf))
    /\ UNCHANGED <<rbAck, rbCur, rbMissing, rbMsgs, rbRead, rbBytes, rbDropped>>

RcvBufferNext ==
    \/ \E n \in Sent : BufData(n)
    \/ BufAck
    \/ \E n \in Sent : \E b \in n..Packets : BufDrop(n, b)
    \/ \E len \in 1..3 : BufRecv(len)
    \/ BufRecvmsg
    \/ BufMsgNum

-----------------------------------------------------------------------------
(* Properties. *)

\* The packet at the start of the buffer.
FirstHeld == rbAck - RcvDataSize(rb)

\* Every unit lies where its packet's number puts it, counted from the start
\* of the buffer round the ring; units in use are counted right; and nothing
\* beyond the acknowledged part is out of the search's reach, although
\* m_iMaxPos is raised for packets that are then refused and lowered by ackData.
RingExact ==
    /\ rb.count = Cardinality({i \in RingSlots : rb.unit[i] # NoUnit})
    /\ \A i \in RingSlots : rb.unit[i] # NoUnit =>
         /\ rb.unit[i] = FirstHeld + ((i - rb.start + BufSize) % BufSize)
         /\ rb.unit[i] <= rbAck + rb.maxPos

\* Nothing is acknowledged and only the next packet may be there: scanMsg
\* takes the buffer for empty, because m_iMaxPos is 0 as without it.
LooksEmpty == rb.start = rb.ackPos /\ rb.maxPos = 0

\* The messages readMsg should return: complete, not read, and acknowledged
\* unless they may be read out of order.
Readable ==
    {m \in rbMsgs : /\ ~LooksEmpty
                    /\ m.first..m.last \subseteq Unread(rb)
                    /\ m.last < rbAck \/ ~m.ordered}

\* scanMsg finds the first message that may be read and nothing else, whatever
\* is missing, dropped, read out of order or too large for the buffer.
ScanExact ==
    rbMsgs # {} =>
      LET s == ScanMsg(rb)
          slots == ScannedSlots(s)
          readable == Readable
      IN IF readable = {} THEN slots = <<>>
         ELSE LET m == CHOOSE x \in readable : \A y \in readable : x.first <= y.first
              IN slots # <<>> /\ {s.buf.unit[slots[k]] : k \in DOMAIN slots} = m.first..m.last

\* No message is read twice or in part, and messages with the in-order flag are
\* read in the order they were sent in.
ReadWholeAndOnce ==
    /\ \A k \in DOMAIN rbRead : \E m \in rbMsgs :
         rbRead[k] = [j \in 1..m.last - m.first + 1 |-> m.first + j - 1]
    /\ \A j, k \in DOMAIN rbRead : j < k =>
         /\ rbRead[j] # rbRead[k]
         /\ MsgOf(rbRead[j][1]).ordered /\ MsgOf(rbRead[k][1]).ordered
              => rbRead[j][1] < rbRead[k][1]

\* scanMsg frees unread packets only of messages that a drop request has touched.
GivesUpOnlyDropped ==
    \A n \in rbGivenUp : (MsgOf(n).first..MsgOf(n).last) \intersect rbDropped # {}

\* How many bytes packets 1 to n hold.
BytesTo[n \in 0..Packets] == IF n = 0 THEN 0 ELSE BytesTo[n - 1] + PacketBytes(n)

\* A stream loses and repeats no byte: what was read ends at the start of the
\* buffer, m_iNotch bytes into its first unit.
BytesExact == rbMsgs = {} => rbBytes = BytesTo[FirstHeld - 1] + rb.notch
=============================================================================
