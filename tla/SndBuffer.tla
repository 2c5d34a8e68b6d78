------------------------------ MODULE SndBuffer ------------------------------
(***************************************************************************)
(* The send buffer (CSndBuffer of buffer.cpp): a circular list of blocks   *)
(* that grows behind its last block, with three pointers into it: the      *)
(* first block that is not acknowledged, the first not yet sent, the first *)
(* free one.  The driver calls it as sendmsg, sendfile, packData and       *)
(* processCtrl do; the data of the blocks are numbered 1, 2, ...           *)
(***************************************************************************)
EXTENDS Integers, Sequences

CONSTANTS
    InitBlocks,  \* the size of a physical buffer: 32 in the code
    SndLimit,    \* m_iSndBufSize, in blocks
    AllBlocks,   \* how many blocks are written
    FirstMsgNo,  \* m_iNextMsgNo at first: 1 in the code
    MaxMsgNo,    \* CMsgNo::m_iMaxMsgNo
    FileShort,   \* whether a file may end before sendfile has its size
    Garbage      \* what the message number of a block never written may be

ASSUME SndBufferAssumption ==
    /\ {InitBlocks, SndLimit, AllBlocks, FirstMsgNo, MaxMsgNo} \subseteq Nat \ {0}
    /\ MaxMsgNo > FirstMsgNo /\ FileShort \in BOOLEAN /\ Garbage \subseteq Nat

VARIABLES
    sb,       \* the buffer: next, data and msgNo of each block, first, curr, last,
              \* count, nextMsgNo
    sbMsgs,   \* the messages written, as the numbers of their first and last block
    sbSent,   \* the last block sent or given up
    sbAcked,  \* the last block acknowledged
    sbNamed   \* what the last expired message was taken for, and what it is

sndBufferVars == <<sb, sbMsgs, sbSent, sbAcked, sbNamed>>

Blocks(b) == DOMAIN b.next
Written == IF sbMsgs = <<>> THEN 0 ELSE sbMsgs[Len(sbMsgs)].last
OfBlock(n) == CHOOSE i \in DOMAIN sbMsgs : n \in sbMsgs[i].first..sbMsgs[i].last

\* The block n steps behind p.
Behind(b, p, n) ==
    LET walk[k \in 0..n] == IF k = 0 THEN p ELSE b.next[walk[k - 1]] IN walk[n]

\* The constructor: a circle of blocks, the last of which it leaves as it is.
SndBufferEmpty(g) ==
    [next |-> [p \in 1..InitBlocks |-> IF p = InitBlocks THEN 1 ELSE p + 1],
     data |-> [p \in 1..InitBlocks |-> 0],
     msgNo |-> [p \in 1..InitBlocks |-> IF p = InitBlocks THEN g ELSE 0],
     first |-> 1, curr |-> 1, last |-> 1, count |-> 0, nextMsgNo |-> FirstMsgNo]

\* Mutant of Increase: the new blocks come before the rest of the circle, but the
\* last of them closes it.
IncreaseCut(b, g) ==
    LET n == Len(b.next)
    IN [b EXCEPT !.next = [p \in 1..n + InitBlocks |->
                             IF p = n + InitBlocks THEN b.first
                             ELSE IF p > n THEN p + 1
                             ELSE IF p = b.last THEN n + 1 ELSE b.next[p]],
                 !.data = [p \in 1..n + InitBlocks |-> IF p > n THEN 0 ELSE b.data[p]],
                 !.msgNo = [p \in 1..n + InitBlocks |-> IF p > n THEN g ELSE b.msgNo[p]]]

\* increase: as many blocks as there were at first, between the last and the next.
Increase(b, g) ==
    LET n == Len(b.next)
    IN [b EXCEPT !.next = [p \in 1..n + InitBlocks |->
                             IF p = n + InitBlocks THEN b.next[b.last]
                             ELSE IF p > n THEN p + 1
                             ELSE IF p = b.last THEN n + 1 ELSE b.next[p]],
                 !.data = [p \in 1..n + InitBlocks |-> IF p > n THEN 0 ELSE b.data[p]],
                 !.msgNo = [p \in 1..n + InitBlocks |-> IF p > n THEN g ELSE b.msgNo[p]]]

\* The loop that makes room: one block stays free.
Roomy(b, size, g) ==
    LET grow[k \in 0..size] ==
          IF k = 0 THEN b
          ELSE LET c == grow[k - 1]
               IN IF size + c.count >= Len(c.next) THEN Increase(c, g) ELSE c
    IN grow[size]

NextMsgNo(n) == IF n + 1 = MaxMsgNo THEN 1 ELSE n + 1

\* addBuffer and addBufferFromFile: size blocks are meant, read of them are there.
AddBuffer(b, size, read, from, g) ==
    LET c == Roomy(b, size, g)
        place(i) == Behind(c, c.last, i)
        filled == {place(i) : i \in 0..read - 1}
        at(p) == CHOOSE i \in 0..read - 1 : place(i) = p
    IN [c EXCEPT !.data = [p \in Blocks(c) |-> IF p \in filled THEN from + at(p) ELSE @[p]],
                 !.msgNo = [p \in Blocks(c) |-> IF p \in filled THEN c.nextMsgNo ELSE @[p]],
                 !.last = place(read),
                 !.count = @ + size,
                 !.nextMsgNo = NextMsgNo(@)]

\* readData of the next block to send.
ReadNext(b) == [data |-> b.data[b.curr], buf |-> [b EXCEPT !.curr = b.next[@]]]

\* readData of a lost block ...
ReadLost(b, offset) == b.data[Behind(b, b.first, offset)]

\* ... whose message may have expired: how many blocks follow with its number, and
\* the block behind them.
ExpiredEnd(b, offset) ==
    LET p == Behind(b, b.first, offset)
        follows(k) == b.msgNo[Behind(b, p, k)] = b.msgNo[p]
    IN CHOOSE k \in 1..Len(b.next) : /\ k = Len(b.next) \/ ~follows(k)
                                     /\ \A j \in 1..k - 1 : follows(j)

\* Mutant of ReadExpired: the current block stays where it is.
ReadExpiredStays(b, offset) == [len |-> ExpiredEnd(b, offset), buf |-> b]

\* The current block moves if it is one of them.
ReadExpired(b, offset) ==
    LET p == Behind(b, b.first, offset)
        n == ExpiredEnd(b, offset)
        passed == \E k \in 1..n - 1 : Behind(b, p, k) = b.curr
    IN [len |-> n, buf |-> IF passed THEN [b EXCEPT !.curr = Behind(b, p, n)] ELSE b]

AckBlocks(b, offset) == [b EXCEPT !.first = Behind(b, @, offset), !.count = @ - offset]

-----------------------------------------------------------------------------
SndBufferInit ==
    /\ \E g \in Garbage : sb = SndBufferEmpty(g)
    /\ sbMsgs = <<>> /\ sbSent = 0 /\ sbAcked = 0 /\ sbNamed = <<0, 0>>

\* sendmsg and send: what fits under m_iSndBufSize.
SbSend(size) ==
    /\ size + sb.count <= SndLimit /\ Written + size <= AllBlocks
    /\ \E g \in Garbage : sb' = AddBuffer(sb, size, size, Written + 1, g)
    /\ sbMsgs' = Append(sbMsgs, [first |-> Written + 1, last |-> Written + size])
    /\ UNCHANGED <<sbSent, sbAcked, sbNamed>>

\* A turn of sendfile: a block of the file as soon as there is any room.
SbSendFile(size, read) ==
    /\ sb.count < SndLimit /\ Written + size <= AllBlocks
    /\ read \in 1..size /\ (~FileShort => read = size)
    /\ \E g \in Garbage : sb' = AddBuffer(sb, size, read, Written + 1, g)
    /\ sbMsgs' = Append(sbMsgs, [first |-> Written + 1, last |-> Written + read])
    /\ UNCHANGED <<sbSent, sbAcked, sbNamed>>

\* packData, a new packet.
SbPack ==
    /\ sb.curr # sb.last
    /\ sb' = ReadNext(sb).buf
    /\ sbSent' = ReadNext(sb).data
    /\ UNCHANGED <<sbMsgs, sbAcked, sbNamed>>

\* packData, a lost packet whose message has expired.
SbExpire(offset) ==
    /\ sbAcked + 1 + offset <= sbSent
    /\ LET n == sbAcked + 1 + offset
           end == sbMsgs[OfBlock(n)].last
       IN /\ sb' = ReadExpired(sb, offset).buf
          /\ sbNamed' = <<ReadExpired(sb, offset).len, end - n + 1>>
          /\ sbSent' = IF end > sbSent THEN end ELSE sbSent
    /\ UNCHANGED <<sbMsgs, sbAcked>>

\* processCtrl, an ACK.
SbAck(offset) ==
    /\ offset > 0 /\ sbAcked + offset <= sbSent
    /\ sb' = AckBlocks(sb, offset)
    /\ sbAcked' = sbAcked + offset
    /\ UNCHANGED <<sbMsgs, sbSent, sbNamed>>

SndBufferNext ==
    \/ \E size \in 1..SndLimit : SbSend(size) \/ \E read \in 1..size : SbSendFile(size, read)
    \/ SbPack
    \/ \E offset \in 0..AllBlocks : SbExpire(offset) \/ SbAck(offset)

-----------------------------------------------------------------------------
\* However the circle has grown, the blocks that are not acknowledged follow the
\* first one in the order they were written, each with the number of its message;
\* the current block is the first not sent, the last one free; m_iCount counts
\* them.  So a lost packet is found by its offset, whatever was acknowledged before.
BlocksInOrder ==
    LET held == Written - sbAcked
    IN /\ sb.count = held /\ held < Len(sb.next)
       /\ {Behind(sb, sb.last, k) : k \in 1..Len(sb.next)} = Blocks(sb)
       /\ \A k \in 0..held - 1 : ReadLost(sb, k) = sbAcked + 1 + k
       /\ sb.curr = Behind(sb, sb.first, sbSent - sbAcked)
       /\ sb.last = Behind(sb, sb.first, held)

\* An expired message is named with its blocks from the lost one on, and no others.
ExpiredNamed == sbNamed[1] = sbNamed[2]

SndBufferExact == BlocksInOrder /\ ExpiredNamed
=============================================================================
