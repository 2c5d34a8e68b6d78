------------------------------ MODULE LossLists ------------------------------
(***************************************************************************)
(* The two loss lists of a connection (list.cpp).  Each is a linked list   *)
(* of intervals of sequence numbers in a circular array: the interval that *)
(* starts with number s lies in the slot as far behind the head's slot as  *)
(* s is behind the head's first number.  d1 and d2 are m_piData1 and       *)
(* m_piData2 (None for no data, d2 for a single number), nx and pr are     *)
(* m_piNext and m_piPrior.  The driver calls the lists as a connection     *)
(* does; packets are counted without wrapping in sndUna, sndCur and lost,  *)
(* and turned into sequence numbers by Wire on every call.                 *)
(***************************************************************************)
EXTENDS SeqNo, Sequences, FiniteSets

CONSTANTS
    ListSize,    \* m_iSize of either list
    LossWindow,  \* the most packets the sender has under way at a time
    RcvWindow,   \* how far ahead of the oldest loss the receiver takes packets
    FirstPacket, \* where the counting starts (m_iISN)
    LastPacket   \* bound on the packets of a behaviour

ASSUME LossListsAssumption ==
    /\ {ListSize, LossWindow, RcvWindow, FirstPacket, LastPacket} \subseteq Nat \ {0}
    /\ FirstPacket <= LastPacket
    /\ LossWindow <= ListSize /\ RcvWindow <= ListSize /\ ListSize < SeqNoTH

VARIABLES
    sndList,  \* m_pSndLossList
    sndUna,   \* m_iSndLastAck
    sndCur,   \* m_iSndCurrSeqNo
    sndLost,  \* what sndList stands for
    rcvList,  \* m_pRcvLossList
    rcvAck,   \* m_iRcvLastAck
    rcvCur,   \* m_iRcvCurrSeqNo
    rcvLost   \* what rcvList stands for

sndListVars == <<sndList, sndUna, sndCur, sndLost>>
rcvListVars == <<rcvList, rcvAck, rcvCur, rcvLost>>

None == -1
Slots == 0..ListSize - 1
Slot(i) == i % ListSize
NoSlots == [i \in Slots |-> None]

-----------------------------------------------------------------------------
(* CSndLossList *)

SndListEmpty == [head |-> None, len |-> 0, last |-> None,
                 d1 |-> NoSlots, d2 |-> NoSlots, nx |-> NoSlots]

\* A new interval a..b in slot i.
PutNode(l, i, a, b) ==
    [l EXCEPT !.d1[i] = a, !.d2[i] = IF a = b THEN @ ELSE b,
              !.last = i, !.len = @ + SeqLen(a, b)]

\* Mutant of Shorter: the end of an interval is replaced whatever it was.
ShorterAlways(l, i, a, b) == TRUE

\* Whether the interval in slot i, which starts with a, ends before b.
Shorter(l, i, a, b) == IF l.d2[i] = None THEN b # a ELSE SeqCmp(b, l.d2[i]) > 0

\* The interval in slot i gets the end b.
Lengthen(l, i, a, b) ==
    [l EXCEPT !.d2[i] = b,
              !.len = @ + SeqLen(IF l.d2[i] = None THEN a ELSE l.d2[i], b) - 1]

\* From slot i the last one before number a.
PriorFrom(l, start, a) ==
    LET walk[n \in 0..ListSize] ==
          IF n = 0 THEN start
          ELSE LET i == walk[n - 1] IN
               IF l.nx[i] # None /\ SeqCmp(l.d1[l.nx[i]], a) < 0 THEN l.nx[i] ELSE i
    IN walk[ListSize]

\* One turn of the loop that joins the interval in slot i with the next one, k.
JoinNext(l, i) ==
    LET k == l.nx[i]
        gone == [l EXCEPT !.d1[k] = None, !.d2[k] = None, !.nx[i] = l.nx[k]]
    IN IF l.d2[k] # None
       THEN IF SeqCmp(l.d2[k], l.d2[i]) > 0
            THEN [gone EXCEPT !.d2[i] = l.d2[k],
                    !.len = IF SeqCmp(l.d2[i], l.d1[k]) >= 0
                            THEN @ - SeqLen(l.d1[k], l.d2[i]) ELSE @]
            ELSE [gone EXCEPT !.len = @ - SeqLen(l.d1[k], l.d2[k])]
       ELSE IF l.d1[k] = IncSeq(l.d2[i])
            THEN [gone EXCEPT !.d2[i] = l.d1[k]]
            ELSE [gone EXCEPT !.len = @ - 1]

Coalesce(l, i) ==
    LET join[n \in 0..ListSize] ==
          IF n = 0 THEN l
          ELSE LET m == join[n - 1] IN
               IF /\ m.nx[i] # None /\ m.d2[i] # None
                  /\ SeqCmp(m.d1[m.nx[i]], IncSeq(m.d2[i])) <= 0
               THEN JoinNext(m, i) ELSE m
    IN join[ListSize]

\* The slot the search for the prior node of a starts from.
SearchFrom(l, a) ==
    IF l.last # None /\ SeqCmp(l.d1[l.last], a) < 0 THEN l.last ELSE l.head

\* insert(a, b) behind the head, where no interval starts with a.
InsertBehind(l, loc, a, b) ==
    LET i == PriorFrom(l, SearchFrom(l, a), a)
        apart == l.d2[i] = None \/ SeqCmp(l.d2[i], a) < 0
        put == PutNode(l, loc, a, b)
        same == [l EXCEPT !.last = i]
    IN IF apart THEN Coalesce([put EXCEPT !.nx[loc] = l.nx[i], !.nx[i] = loc], loc)
       ELSE IF SeqCmp(l.d2[i], b) < 0 THEN Coalesce(Lengthen(same, i, a, b), i)
            ELSE same

SndInsertInto(l, a, b) ==
    LET offset == SeqOff(l.d1[l.head], a)
        loc == (l.head + offset + ListSize) % ListSize
        same == [l EXCEPT !.last = loc]
        longer == IF Shorter(l, loc, a, b) THEN Coalesce(Lengthen(same, loc, a, b), loc)
                  ELSE same
    IN IF l.len = 0 THEN [PutNode(l, 0, a, b) EXCEPT !.head = 0, !.nx[0] = None]
       ELSE IF offset < 0
            THEN Coalesce([PutNode(l, loc, a, b) EXCEPT !.nx[loc] = l.head, !.head = loc], loc)
       ELSE IF offset = 0 \/ l.d1[loc] = a THEN longer
       ELSE InsertBehind(l, loc, a, b)

\* The interval in slot i starts after number a from now on, in the next slot.
ShiftTo(l, i, loc, a) ==
    [l EXCEPT !.d1[loc] = IncSeq(a),
              !.d2[loc] = IF SeqCmp(l.d2[i], IncSeq(a)) > 0 THEN l.d2[i] ELSE @,
              !.nx[loc] = l.nx[i]]

Forget(l, i) == IF l.last = i THEN None ELSE l.last

\* The loop of remove() that clears the nodes before the new head.
ClearUpTo(l, first) ==
    LET clear[n \in 0..ListSize] ==
          IF n = 0 THEN [list |-> l, h |-> first]
          ELSE LET c == clear[n - 1]
                   h == c.h
               IN IF h = c.list.head THEN c
                  ELSE [list |-> [c.list EXCEPT
                            !.len = @ - (IF c.list.d2[h] # None
                                         THEN SeqLen(c.list.d1[h], c.list.d2[h]) ELSE 1),
                            !.d1[h] = None, !.d2[h] = None, !.last = Forget(c.list, h)],
                        h |-> c.list.nx[h]]
    IN clear[ListSize].list

\* remove(a) where a is behind the head.
RemoveBehind(l, loc, a) ==
    LET hit == l.d1[loc] = a
        i == IF hit THEN loc ELSE PriorFrom(l, l.head, a)
        new == Slot(loc + 1)
        cut == [ShiftTo(l, i, new, a) EXCEPT !.nx[i] = new, !.head = new,
                    !.d2[i] = IF hit THEN None ELSE a]
        inside == l.d2[i] # None /\ (hit \/ SeqCmp(l.d2[i], a) > 0)
    IN ClearUpTo(IF inside THEN cut ELSE [l EXCEPT !.head = l.nx[i]], l.head)

\* getLostSeq(), and remove() of the head's first number.
TakeHead(l, a) ==
    LET h == l.head
        new == Slot(h + 1)
        single == l.d2[h] = None
        rest == IF single THEN l ELSE [ShiftTo(l, h, new, a) EXCEPT !.d2[h] = None]
    IN [rest EXCEPT !.d1[h] = None, !.last = Forget(l, h), !.len = @ - 1,
                    !.head = IF single THEN l.nx[h] ELSE new]

SndRemoveFrom(l, a) ==
    LET offset == SeqOff(l.d1[l.head], a)
    IN IF l.len = 0 \/ offset < 0 THEN l
       ELSE IF offset = 0 THEN TakeHead(l, a)
            ELSE RemoveBehind(l, (l.head + offset + ListSize) % ListSize, a)

GetLostSeq(l) == [seq |-> l.d1[l.head], list |-> TakeHead(l, l.d1[l.head])]

-----------------------------------------------------------------------------
(* CRcvLossList *)

RcvListEmpty == [head |-> None, tail |-> None, len |-> 0, d1 |-> NoSlots,
                 d2 |-> NoSlots, nx |-> NoSlots, pr |-> NoSlots]

RcvInsertInto(l, a, b) ==
    LET loc == Slot(l.head + SeqOff(l.d1[l.head], a))
        more == [l EXCEPT !.len = @ + SeqLen(a, b)]
        put(i) == [more EXCEPT !.d1[i] = a, !.d2[i] = IF a = b THEN @ ELSE b,
                               !.nx[i] = None, !.tail = i]
    IN IF l.len = 0 THEN [put(0) EXCEPT !.head = 0, !.pr[0] = None]
       ELSE IF l.d2[l.tail] # None /\ IncSeq(l.d2[l.tail]) = a
            THEN [more EXCEPT !.d2[l.tail] = b]
            ELSE [put(loc) EXCEPT !.nx[l.tail] = loc, !.pr[loc] = l.tail]

\* The single number in slot loc leaves the list.
Unlink(l, loc) ==
    LET n == l.nx[loc]
        p == l.pr[loc]
        out == [l EXCEPT !.d1[loc] = None, !.len = @ - 1]
        atHead == IF n = None THEN [out EXCEPT !.head = n]
                  ELSE [out EXCEPT !.head = n, !.pr[n] = None]
        behind == IF n = None THEN [out EXCEPT !.nx[p] = n, !.tail = p]
                  ELSE [out EXCEPT !.nx[p] = n, !.pr[n] = p]
    IN IF l.head = loc THEN atHead ELSE behind

\* Mutant of StartLater: m_iTail and the next node's m_piPrior are not moved.
StartLaterSameTail(l, loc) ==
    LET i == Slot(loc + 1)
        moved == [ShiftTo(l, loc, i, l.d1[loc]) EXCEPT
                    !.d1[loc] = None, !.d2[loc] = None, !.pr[i] = l.pr[loc], !.len = @ - 1]
    IN IF l.head = loc THEN [moved EXCEPT !.head = i]
       ELSE [moved EXCEPT !.nx[l.pr[loc]] = i]

\* The interval in slot loc loses its first number and moves to the next slot.
StartLater(l, loc) ==
    LET i == Slot(loc + 1)
        moved == [ShiftTo(l, loc, i, l.d1[loc]) EXCEPT
                    !.d1[loc] = None, !.d2[loc] = None, !.pr[i] = l.pr[loc], !.len = @ - 1]
        ahead == IF l.head = loc THEN [moved EXCEPT !.head = i]
                 ELSE [moved EXCEPT !.nx[l.pr[loc]] = i]
    IN IF l.tail = loc THEN [ahead EXCEPT !.tail = i]
       ELSE [ahead EXCEPT !.pr[l.nx[loc]] = i]

\* The interval in slot i ends before number a.
EndBefore(l, i, a) == IF a = IncSeq(l.d1[i]) THEN None ELSE DecSeq(a)

\* The interval in slot i falls in two around number a.
Split(l, i, loc, a) ==
    LET cut == [ShiftTo(l, i, loc, a) EXCEPT
                  !.d2[i] = EndBefore(l, i, a), !.nx[i] = loc, !.pr[loc] = i, !.len = @ - 1]
    IN IF l.tail = i THEN [cut EXCEPT !.tail = loc]
       ELSE [cut EXCEPT !.pr[l.nx[i]] = loc]

\* The nearest slot before loc that holds an interval.
SlotBefore(l, loc) ==
    Slot(loc - (CHOOSE k \in 1..ListSize : /\ l.d1[Slot(loc - k + ListSize)] # None
                                           /\ \A j \in 1..k - 1 : l.d1[Slot(loc - j + ListSize)] = None)
         + ListSize)

RcvRemoveFrom(l, a) ==
    LET offset == SeqOff(l.d1[l.head], a)
        loc == Slot(l.head + offset)
        i == SlotBefore(l, loc)
    IN IF l.len = 0 \/ offset < 0 THEN l
       ELSE IF l.d1[loc] = a
            THEN IF l.d2[loc] = None THEN Unlink(l, loc) ELSE StartLater(l, loc)
       ELSE IF l.d2[i] = None \/ SeqCmp(a, l.d2[i]) > 0 THEN l
       ELSE IF a = l.d2[i] THEN [l EXCEPT !.d2[i] = EndBefore(l, i, a), !.len = @ - 1]
       ELSE Split(l, i, Slot(loc + 1), a)

\* remove(a, b): the loops over the numbers from a to b.  One that wraps
\* stops before the largest number.
RemovedNumbers(a, b) ==
    IF a <= b THEN [k \in 1..b - a + 1 |-> a + k - 1]
    ELSE [k \in 1..MaxSeqNo - a + b + 1 |->
            IF k <= MaxSeqNo - a THEN a + k - 1 ELSE k - (MaxSeqNo - a) - 1]

RcvRemoveRange(l, a, b) ==
    LET s == RemovedNumbers(a, b)
        n == IF a <= b THEN b - a + 1 ELSE MaxSeqNo - a + b + 1
        f[k \in 0..n] == IF k = 0 THEN l ELSE RcvRemoveFrom(f[k - 1], s[k])
    IN f[n]

\* The slots of a list, in its order.
Chain(l) ==
    LET walk[n \in 0..ListSize] ==
          IF n = 0 THEN IF l.head = None THEN <<>> ELSE <<l.head>>
          ELSE LET s == walk[n - 1] IN
               IF Len(s) < n \/ l.nx[s[n]] = None THEN s ELSE Append(s, l.nx[s[n]])
    IN walk[ListSize]

\* find(a, b): is there a loss from a to b?
RcvFind(l, a, b) ==
    \E k \in DOMAIN Chain(l) :
      LET p == Chain(l)[k] IN
      \/ SeqCmp(l.d1[p], a) >= 0 /\ SeqCmp(l.d1[p], b) <= 0
      \/ SeqCmp(l.d1[p], a) < 0 /\ l.d2[p] # None /\ SeqCmp(l.d2[p], a) >= 0

FirstLostSeq(l) == IF l.len = 0 THEN None ELSE l.d1[l.head]

\* Mutant of LossArray: an interval is written when only one word is left.
LossArrayOneMore(l, limit) ==
    LET chain == Chain(l)
        fill[n \in 0..Len(chain)] ==
          IF n = 0 THEN [len |-> 0, arr |-> <<>>]
          ELSE IF fill[n - 1].len < limit
               THEN [len |-> fill[n - 1].len + (IF l.d2[chain[n]] = None THEN 1 ELSE 2),
                     arr |-> Append(fill[n - 1].arr, <<l.d1[chain[n]], l.d2[chain[n]]>>)]
               ELSE fill[n - 1]
    IN fill[Len(chain)]

\* getLossArray: the intervals a loss report of limit words has room for.
LossArray(l, limit) ==
    LET chain == Chain(l)
        words(p) == IF l.d2[p] = None THEN 1 ELSE 2
        fill[n \in 0..Len(chain)] ==
          IF n = 0 THEN [len |-> 0, arr |-> <<>>]
          ELSE LET f == fill[n - 1]
                   p == chain[n]
               IN IF f.len < limit - 1
                  THEN [len |-> f.len + words(p), arr |-> Append(f.arr, <<l.d1[p], l.d2[p]>>)]
                  ELSE f
    IN fill[Len(chain)]

-----------------------------------------------------------------------------
(* The calls of a connection.  The count of the packet numbered w that lies *)
(* near packet n.                                                           *)

Packet(n, w) == n + SeqOff(Wire(n), w)

\* packData: a new packet is sent.
SndNew ==
    /\ sndCur < LastPacket /\ sndCur - sndUna + 1 < LossWindow
    /\ sndCur' = sndCur + 1
    /\ UNCHANGED <<sndList, sndUna, sndLost, rcvListVars>>

\* processCtrl, a loss report; checkTimers, everything unacknowledged is lost.
SndLoss(a, b) ==
    /\ sndList' = SndInsertInto(sndList, Wire(a), Wire(b))
    /\ sndLost' = sndLost \union a..b
    /\ UNCHANGED <<sndUna, sndCur, rcvListVars>>

\* packData: the first lost packet is sent again.
SndRetransmit ==
    /\ sndList.len > 0
    /\ LET g == GetLostSeq(sndList) IN
       /\ sndList' = g.list
       /\ sndLost' = sndLost \ {Packet(sndUna, g.seq)}
    /\ UNCHANGED <<sndUna, sndCur, rcvListVars>>

\* processCtrl, an ACK: everything before packet n has arrived.
SndAcked(n) ==
    /\ sndUna' = n
    /\ sndList' = SndRemoveFrom(sndList, DecSeq(Wire(n)))
    /\ sndLost' = {m \in sndLost : m >= n}
    /\ UNCHANGED <<sndCur, rcvListVars>>

\* packData: a message that has expired ends (by the code's count) with packet n.
SndExpired(n) ==
    /\ n + 1 <= LastPacket /\ n - sndUna + 1 < LossWindow
    /\ sndList' = SndRemoveFrom(sndList, Wire(n))
    /\ sndLost' = {m \in sndLost : m > n}
    /\ sndCur' = IF n + 1 > sndCur THEN n + 1 ELSE sndCur
    /\ UNCHANGED <<sndUna, rcvListVars>>

\* processData: packet n arrives.
RcvPacket(n) ==
    /\ n <= LastPacket
    /\ rcvList' = IF n > rcvCur + 1
                  THEN RcvInsertInto(rcvList, IncSeq(Wire(rcvCur)), DecSeq(Wire(n)))
                  ELSE IF n > rcvCur THEN rcvList ELSE RcvRemoveFrom(rcvList, Wire(n))
    /\ rcvLost' = (rcvLost \union rcvCur + 1..n - 1) \ {n}
    /\ rcvCur' = IF n > rcvCur THEN n ELSE rcvCur
    /\ UNCHANGED <<rcvAck, sndListVars>>

\* sendCtrl, an ACK: everything before the first loss.
RcvAcks ==
    /\ rcvAck' = IF rcvList.len = 0 THEN rcvCur + 1
                 ELSE Packet(rcvAck, FirstLostSeq(rcvList))
    /\ UNCHANGED <<rcvList, rcvCur, rcvLost, sndListVars>>

\* processCtrl, a message drop request for packets a to b.
RcvDropped(a, b) ==
    /\ b <= LastPacket
    /\ rcvList' = RcvRemoveRange(rcvList, Wire(a), Wire(b))
    /\ rcvLost' = rcvLost \ a..b
    /\ rcvCur' = IF a <= rcvCur + 1 /\ b > rcvCur THEN b ELSE rcvCur
    /\ UNCHANGED <<rcvAck, sndListVars>>

SndListInit ==
    /\ sndList = SndListEmpty /\ sndUna = FirstPacket /\ sndCur = FirstPacket - 1
    /\ sndLost = {}

RcvListInit ==
    /\ rcvList = RcvListEmpty /\ rcvAck = FirstPacket /\ rcvCur = FirstPacket - 1
    /\ rcvLost = {}

SndListNext ==
    \/ SndNew
    \/ \E a \in sndUna..sndCur : \E b \in a..sndCur : SndLoss(a, b)
    \/ SndRetransmit
    \/ \E n \in sndUna + 1..sndCur + 1 : SndAcked(n)
    \/ \E n \in sndUna..sndCur + 1 : SndExpired(n)

RcvListNext ==
    \/ \E n \in rcvAck..rcvAck + RcvWindow - 1 : RcvPacket(n)
    \/ RcvAcks
    \/ \E a \in rcvAck - 1..rcvAck + RcvWindow - 1 :
         \E b \in a..rcvAck + RcvWindow - 1 : RcvDropped(a, b)

-----------------------------------------------------------------------------
(* Properties.                                                              *)

\* The packets of the interval in slot p, counted near n.
NodePackets(l, p, n) ==
    LET a == Packet(n, l.d1[p])
    IN IF l.d2[p] = None THEN {a} ELSE a..Packet(n, l.d2[p])

ListPackets(l, n) == UNION {NodePackets(l, Chain(l)[k], n) : k \in DOMAIN Chain(l)}

\* The list is in order, its length is right, and slots that are not in use are clean.
WellFormed(l, n) ==
    LET c == Chain(l) IN
    /\ l.len = Cardinality(ListPackets(l, n))
    /\ \A j, k \in DOMAIN c : j < k =>
         \A x \in NodePackets(l, c[j], n), y \in NodePackets(l, c[k], n) : x < y
    /\ \A i \in Slots : (\A k \in DOMAIN c : c[k] # i) => l.d1[i] = None /\ l.d2[i] = None

\* The sender's loss list holds exactly the packets that were reported lost and
\* neither sent again nor acknowledged nor given up, in order, whatever
\* intervals were reported, overlapping or adjacent, and wherever the numbers
\* wrap (insert, remove and getLostSeq of CSndLossList).
SndListExact ==
    /\ ListPackets(sndList, sndUna) = sndLost
    /\ WellFormed(sndList, sndUna)

\* The packet that carries the largest sequence number.
LargestNumbered == {n \in FirstPacket..LastPacket : Wire(n) = MaxSeqNo}

\* The receiver's loss list holds exactly the missing packets; only the one
\* with the largest sequence number may stay on it after it was dropped
\* (CRcvLossList::remove of a range that wraps).  m_piPrior and m_iTail agree
\* with m_piNext and m_iHead.
RcvListExact ==
    LET c == Chain(rcvList) IN
    /\ rcvLost \subseteq ListPackets(rcvList, rcvAck)
    /\ ListPackets(rcvList, rcvAck) \subseteq rcvLost \union LargestNumbered
    /\ WellFormed(rcvList, rcvAck)
    /\ c # <<>> => rcvList.tail = c[Len(c)]
    /\ \A k \in DOMAIN c : rcvList.pr[c[k]] = IF k = 1 THEN None ELSE c[k - 1]

\* A drop request takes all its packets off the receiver's loss list (list.h:137,
\* "Remove all packets between seqno1 and seqno2").
DropRemovesAll == ListPackets(rcvList, rcvAck) = rcvLost

\* A loss report lists losses and no others, the oldest first, and never
\* overruns its array (getLossArray); find() tells whether an interval holds one.
ReportExact ==
    LET all == ListPackets(rcvList, rcvAck)
        packets(r) == IF r[2] = None THEN {Packet(rcvAck, r[1])}
                      ELSE Packet(rcvAck, r[1])..Packet(rcvAck, r[2])
    IN rcvList.len > 0 =>
       /\ \A limit \in 2..RcvWindow :
            LET r == LossArray(rcvList, limit)
                told == UNION {packets(r.arr[k]) : k \in DOMAIN r.arr}
            IN /\ r.len <= limit
               /\ told \subseteq all
               /\ \A x \in told, y \in all \ told : x < y
               /\ told # {}
       /\ \A a, b \in rcvAck..rcvAck + RcvWindow - 1 :
            a <= b => (RcvFind(rcvList, Wire(a), Wire(b)) <=> all \intersect (a..b) # {})
=============================================================================
