------------------------------- MODULE Windows -------------------------------
(***************************************************************************)
(* The two windows of window.cpp: the ring of ACKs that are waiting for    *)
(* their ACK2 (CACKWindow), against the history of ACKs it stands for; and *)
(* the packet arrival times behind the rates a receiver reports            *)
(* (CPktTimeWindow).                                                       *)
(***************************************************************************)
EXTENDS Integers, Sequences, FiniteSets, SequencesExt

CONSTANTS
    AckSize,     \* m_iSize of CACKWindow
    MaxAckNo,    \* m_iMaxAckSeqNo; ACK numbers wrap behind it
    MaxAcks,     \* bound on the ACKs of a behaviour
    RateSize,    \* m_iAWSize and m_iPWSize; the median of fewer than 3 is out of range
    Intervals    \* times between packets, in microseconds

ASSUME WindowsAssumption ==
    /\ AckSize \in Nat \ {0, 1} /\ MaxAckNo \in Nat /\ AckSize <= MaxAckNo
    /\ MaxAcks \in Nat /\ RateSize \in Nat \ {0, 1, 2} /\ Intervals \subseteq Nat

VARIABLES
    aw,       \* the window: ackNo, data, head, tail
    awNo,     \* m_iAckSeqNo
    awCount,  \* how many ACKs were sent; the data an ACK carries
    awHist,   \* the ACKs an ACK2 may still answer, oldest first: number and data
    rates,    \* m_piPktWindow, m_piProbeWindow
    ratePtr   \* m_iPktWindowPtr, m_iProbeWindowPtr

windowVars == <<aw, awNo, awCount, awHist, rates, ratePtr>>

-----------------------------------------------------------------------------
(* CACKWindow *)

AckSlots == 0..AckSize - 1
AckWindowEmpty ==
    [ackNo |-> [i \in AckSlots |-> -1], data |-> [i \in AckSlots |-> -1], head |-> 0, tail |-> 0]

IncAck(n) == IF n = MaxAckNo THEN 0 ELSE n + 1

\* Mutant of StoreAck: a full ring does not move its tail.
StoreAckFixedTail(w, n, data) ==
    [w EXCEPT !.ackNo[w.head] = n, !.data[w.head] = data, !.head = (w.head + 1) % AckSize]

\* store: the oldest ACK is overwritten when the ring is full.
StoreAck(w, n, data) ==
    LET next == (w.head + 1) % AckSize IN
    [w EXCEPT !.ackNo[w.head] = n, !.data[w.head] = data, !.head = next,
              !.tail = IF next = @ THEN (@ + 1) % AckSize ELSE @]

\* The slots acknowledge() looks at, from the tail to before the head.
SlotsFromTail(w) ==
    LET n == IF w.head >= w.tail THEN w.head - w.tail ELSE w.head + AckSize - w.tail
    IN [k \in 1..n |-> (w.tail + k - 1) % AckSize]

\* acknowledge: the slot that holds ACK number n, and the window without it and
\* all older ones; -1 if it has been answered or overwritten.
Acknowledge(w, n) ==
    LET slots == SlotsFromTail(w)
        hits == {k \in DOMAIN slots : w.ackNo[slots[k]] = n}
        i == slots[CHOOSE k \in hits : \A j \in hits : k <= j]
        wrapped == w.head < w.tail
        last == IF wrapped THEN i = w.head ELSE i + 1 = w.head
    IN IF hits = {} THEN [slot |-> -1, window |-> w]
       ELSE [slot |-> i,
             window |-> IF last THEN [w EXCEPT !.head = 0, !.tail = 0, !.ackNo[0] = -1]
                        ELSE [w EXCEPT !.tail = (i + 1) % AckSize]]

\* sendCtrl: a new ACK is sent; its number wraps.
WindowStore ==
    /\ awCount < MaxAcks
    /\ awCount' = awCount + 1
    /\ awNo' = IncAck(awNo)
    /\ aw' = StoreAck(aw, awNo', awCount')
    /\ LET hist == Append(awHist, <<awNo', awCount'>>)
       IN awHist' = IF Len(hist) = AckSize THEN Tail(hist) ELSE hist
    /\ UNCHANGED <<rates, ratePtr>>

\* processCtrl: an ACK2 for ACK number n arrives, perhaps late or twice.  It
\* answers all ACKs up to n.
WindowAck2(n) ==
    /\ aw' = Acknowledge(aw, n).window
    /\ awHist' = SubSeq(awHist, SelectInSeq(awHist, LAMBDA e : e[1] = n) + 1, Len(awHist))
    /\ UNCHANGED <<awNo, awCount, rates, ratePtr>>

-----------------------------------------------------------------------------
(* CPktTimeWindow *)

\* The median as the code takes it: the middle one of all but the last entry.
RateMedian ==
    LET entries == 1..RateSize - 1
        rank(x) == Cardinality({k \in entries : rates[k] <= x})
        upper == {x \in {rates[k] : k \in entries} : rank(x) > RateSize \div 2}
    IN CHOOSE x \in upper : \A y \in upper : x <= y

\* Mutant of Near: long intervals are kept.
NearAbove(x, median) == x > median \div 8

\* An interval within a factor of 8 of the median.
Near(x, median) == x < median * 8 /\ x > median \div 8

\* How many intervals are near the median, and their sum: the loop over the window.
Kept(median) ==
    LET loop[k \in 0..RateSize] ==
          IF k = 0 THEN [count |-> 0, sum |-> 0]
          ELSE IF Near(rates[k], median)
               THEN [count |-> loop[k - 1].count + 1, sum |-> loop[k - 1].sum + rates[k]]
               ELSE loop[k - 1]
    IN loop[RateSize]

Ceiling(a, b) == (a + b - 1) \div b

\* getPktRcvSpeed: packets per second, 0 if too few intervals are near the median.
PktRcvSpeed ==
    LET kept == Kept(RateMedian)
    IN IF kept.count > RateSize \div 2 THEN Ceiling(1000000, kept.sum \div kept.count) ELSE 0

\* getBandwidth: the median counts once more.
Bandwidth ==
    LET kept == Kept(RateMedian)
    IN Ceiling(1000000 * (kept.count + 1), kept.sum + RateMedian)

\* onPktArrival and probe2Arrival: an interval is recorded.
RateArrival(t) ==
    /\ rates' = [rates EXCEPT ![ratePtr] = t]
    /\ ratePtr' = IF ratePtr = RateSize THEN 1 ELSE ratePtr + 1
    /\ UNCHANGED <<aw, awNo, awCount, awHist>>

-----------------------------------------------------------------------------
WindowsInit ==
    /\ aw = AckWindowEmpty /\ awNo = MaxAckNo - 1 /\ awCount = 0 /\ awHist = <<>>
    /\ rates = [k \in 1..RateSize |-> 1000] /\ ratePtr = 1

AckWindowNext == WindowStore \/ \E n \in 0..MaxAckNo : WindowAck2(n)
RateNext == \E t \in Intervals : RateArrival(t)

\* The ring holds exactly the ACKs that were neither answered nor overwritten,
\* in the order they were sent in, with the data each acknowledged, wherever the
\* ring and the ACK numbers wrap: an ACK2 gets the sequence number its own ACK
\* carried (CUDT::processCtrl sets m_iRcvLastAckAck to it), or none.
AckWindowExact ==
    LET slots == SlotsFromTail(aw)
        answer(n) == LET i == Acknowledge(aw, n).slot IN IF i = -1 THEN {} ELSE {aw.data[i]}
    IN /\ [k \in DOMAIN slots |-> <<aw.ackNo[slots[k]], aw.data[slots[k]]>>] = awHist
       /\ \A n \in 0..MaxAckNo :
            answer(n) = {awHist[k][2] : k \in {j \in DOMAIN awHist : awHist[j][1] = n}}

\* The rates a receiver reports are those of intervals within a factor of 8 of
\* the median, so that as long as fewer than half of the intervals are outliers
\* no pause and no burst moves them further.  (With a median of 0 the arrival
\* speed is reported as unknown; the bandwidth is then a division by zero.)
SpeedNearMedian ==
    LET median == RateMedian
        speed == PktRcvSpeed
    IN IF median = 0 THEN speed = 0
       ELSE /\ speed # 0 => /\ speed * median * 8 >= 1000000
                            /\ speed * median <= 8 * (1000000 + median)
            /\ LET bandwidth == Bandwidth
               IN /\ bandwidth * median * 8 >= 1000000
                  /\ bandwidth * median <= 8 * (1000000 + median)
=============================================================================
