----------------------------- MODULE RateControl -----------------------------
(***************************************************************************)
(* Congestion control (CUDTCC and CCC of ccc.cpp, and the calls of it in   *)
(* core.cpp): how ACKs, loss reports and timeouts change the time between  *)
(* two packets and the congestion window; and how packData keeps that time *)
(* although the thread that sends comes late, and although a loss report   *)
(* or a timeout takes a packet before its time.  Times are in              *)
(* microseconds, periods rounded up to whole ones as the code does when it *)
(* raises them.                                                            *)
(***************************************************************************)
EXTENDS Integers

CONSTANTS
    Second,     \* 1000000
    FirstRate,  \* m_iDeliveryRate at first, 16
    FirstCwnd,  \* the first congestion window, 16
    MaxCwnd,    \* m_dMaxCWndSize: the flow window of the handshake
    RoundTrip,  \* m_iRTT + m_iRCInterval
    MinPeriod,  \* the period of UDT_MAXBW, 0 if it is not set
    Reported,   \* rates and bandwidths an ACK may report
    MaxSent,    \* bound on the packets sent
    MaxReports, \* bound on the loss reports
    Parts,      \* to what part of the period an ACK may lower it
    Periods,    \* values of m_ullInterval
    MaxNow,     \* bound on the clock
    MaxSkips,   \* bound on the calls of packData in a row of packets that find only stale losses
    MaxHurry    \* bound on the time by which a row of packets is hurried

ASSUME RateControlAssumption ==
    /\ {Second, FirstRate, FirstCwnd, MaxCwnd, RoundTrip, MaxNow} \subseteq Nat \ {0}
    /\ {MinPeriod, MaxSent, MaxReports, MaxSkips, MaxHurry} \subseteq Nat
    /\ Reported \subseteq Int /\ Periods \cup Parts \subseteq Nat \ {0}

VARIABLES
    cc,        \* CUDTCC: period, cwnd, slow, lastAck, loss, lastDecSeq, decPeriod, naks, avg,
               \* random, decs, and the rate, bandwidth and current sequence number it was told
    ccAcked,   \* m_iSndLastDataAck
    ccRested,  \* whether m_iRCInterval has passed since m_LastRCTime
    ccReports, \* loss reports so far
    pace,      \* packData: target (m_ullTargetTime), diff (m_ullTimeDiff)
    paceAt,    \* the time under which the socket is on the list of CSndQueue, 0 if it is not
    paceDue,   \* when the next packet is due: a period behind the one before
    paceHurry, \* how long the packets of a row that were hurried had still to wait
    paceNow,
    paceSkips

rateVars == <<cc, ccAcked, ccRested, ccReports>>
paceVars == <<pace, paceAt, paceDue, paceHurry, paceNow, paceSkips>>

UpDiv(a, b) == (a + b - 1) \div b
AtLeast(a, b) == IF a < b THEN b ELSE a

\* init, with the first sequence number 1.
CcInit ==
    [period |-> 1, cwnd |-> FirstCwnd, slow |-> TRUE, lastAck |-> 0, loss |-> FALSE, lastDecSeq |-> -1,
     decPeriod |-> 1, naks |-> 0, avg |-> 0, random |-> 1, decs |-> 0,
     rate |-> FirstRate, bandwidth |-> 1, sent |-> 0]

CongestionInit == cc = CcInit /\ ccAcked = 1 /\ ccRested = FALSE /\ ccReports = 0

PaceInit ==
    /\ pace = [target |-> 0, diff |-> 0] /\ paceAt = 0 /\ paceDue = 0 /\ paceHurry = 0
    /\ paceNow = 1 /\ paceSkips = 0

-----------------------------------------------------------------------------
\* The end of slow start: the period of the rate the peer receives at.
SlowStartEnds(c) == [c EXCEPT !.slow = FALSE, !.period = UpDiv(Second, c.rate)]

\* setUserParam's rate limit.
RateLimited(c) == [c EXCEPT !.period = AtLeast(@, MinPeriod)]

\* Mutant of Smoothed: the weights of the average are rounded one by one.
SmoothedApart(old, new) == IF new > 0 THEN (old * 7) \div 8 + new \div 8 ELSE old

\* The average of the rates and bandwidths the ACKs report.
Smoothed(old, new) == IF new > 0 THEN (old * 7 + new) \div 8 ELSE old

\* onACK, at most once in an interval.  How far the period is lowered depends on the
\* bandwidth left.
WindowOnAck(c, ack) ==
    IF ~c.slow THEN [c EXCEPT !.cwnd = (c.rate * RoundTrip) \div Second + FirstCwnd]
    ELSE LET d == [c EXCEPT !.cwnd = @ + (ack - c.lastAck + 1), !.lastAck = ack]
         IN IF d.cwnd > MaxCwnd THEN SlowStartEnds(d) ELSE d

OnAck(c, ack) ==
    LET d == WindowOnAck(c, ack)
    IN IF d.slow THEN {RateLimited(d)}
       ELSE IF d.loss THEN {RateLimited([d EXCEPT !.loss = FALSE])}
       ELSE {RateLimited([d EXCEPT !.period = UpDiv(@, part)]) : part \in Parts}

Slower(period) == UpDiv(9 * period, 8)

\* Mutant of Again: the decreases of a congestion period are not counted.
AgainUncounted(c) ==
    LET d == [c EXCEPT !.naks = @ + 1]
    IN IF d.naks % c.random = 0 THEN [d EXCEPT !.period = Slower(@), !.lastDecSeq = c.sent] ELSE d

\* onLoss, a loss in the congestion period: at most five reports count.
Again(c) ==
    IF c.decs >= 5 THEN [c EXCEPT !.decs = @ + 1]
    ELSE LET d == [c EXCEPT !.decs = @ + 1, !.naks = @ + 1]
         IN IF d.naks % c.random = 0 THEN [d EXCEPT !.period = Slower(@), !.lastDecSeq = c.sent] ELSE d

\* onLoss, the first loss of a congestion period.
NewCongestion(c) ==
    LET avg == UpDiv(7 * c.avg + c.naks, 8)
    IN {[c EXCEPT !.decPeriod = c.period, !.period = Slower(@), !.avg = avg, !.naks = 1, !.decs = 1,
                  !.lastDecSeq = c.sent, !.random = AtLeast(r, 1)] : r \in 0..avg}

OnLoss(c, first) ==
    LET d == [(IF c.slow THEN SlowStartEnds(c) ELSE c) EXCEPT !.loss = TRUE]
    IN IF first > d.lastDecSeq THEN NewCongestion(d) ELSE {Again(d)}

OnTimeout(c) == IF c.slow THEN SlowStartEnds(c) ELSE c

-----------------------------------------------------------------------------
\* packData, a new packet within the congestion window.
CcSend ==
    /\ cc.sent < MaxSent /\ cc.cwnd >= cc.sent + 1 - ccAcked + 1
    /\ cc' = [cc EXCEPT !.sent = @ + 1]
    /\ UNCHANGED <<ccAcked, ccRested, ccReports>>

\* processCtrl, an ACK of new data, which may report the rate and the bandwidth (here
\* the same: their averages do not meet).
CcAck(ack, report) ==
    /\ ack > ccAcked /\ ack <= cc.sent + 1
    /\ ccAcked' = ack
    /\ LET c == [cc EXCEPT !.rate = Smoothed(@, report), !.bandwidth = Smoothed(@, report)]
       IN cc' \in (IF ccRested THEN OnAck(c, ack) ELSE {c})
    /\ ccRested' = FALSE
    /\ UNCHANGED ccReports

\* A loss report.
CcLoss(first) ==
    /\ ccReports < MaxReports /\ ccReports' = ccReports + 1
    /\ first >= ccAcked /\ first <= cc.sent
    /\ cc' \in OnLoss(cc, first)
    /\ UNCHANGED <<ccAcked, ccRested>>

\* checkTimers, the expiration timer: there may be data in the buffer, sent or not.
CcTimeout ==
    /\ cc' = OnTimeout(cc)
    /\ UNCHANGED <<ccAcked, ccRested, ccReports>>

CcRest == ~ccRested /\ ccRested' = TRUE /\ UNCHANGED <<cc, ccAcked, ccReports>>

RateControlNext ==
    \/ CcSend \/ CcTimeout \/ CcRest
    \/ \E seq \in 1..MaxSent + 1 :
          CcLoss(seq) \/ \E report \in Reported : CcAck(seq, report)

-----------------------------------------------------------------------------
(* packData: the time of the next packet.                                  *)

\* The beginning: how late the thread is.
Late ==
    IF pace.target # 0 /\ paceNow > pace.target THEN pace.diff + paceNow - pace.target ELSE pace.diff

\* Mutant of NextTime: the time to be made up is forgotten.
NextTimeForgets(diff, period, probe) == [target |-> IF probe THEN paceNow ELSE paceNow + period, diff |-> 0]

\* The end: a packet pair is sent without a pause; otherwise the time the thread was
\* late is made up for.
NextTime(diff, period, probe) ==
    IF probe THEN [target |-> paceNow, diff |-> diff]
    ELSE IF diff >= period THEN [target |-> paceNow, diff |-> diff - period]
    ELSE [target |-> paceNow + period - diff, diff |-> 0]

\* CSndUList::pop: at its time the socket is taken off the list and packData called.
Popped == paceAt # 0 /\ paceNow >= paceAt

\* With a packet it is back on the list, for the time of the next one.
PackPacket(period, probe) ==
    /\ Popped
    /\ pace' = NextTime(Late, period, probe)
    /\ paceAt' = pace'.target
    /\ paceDue' = (IF pace.target = 0 THEN paceNow ELSE paceDue) + IF probe THEN 0 ELSE period
    /\ UNCHANGED <<paceHurry, paceNow, paceSkips>>

\* Nothing to send, or the window is full: the row of packets ends.
PackNothing ==
    /\ Popped
    /\ pace' = [target |-> 0, diff |-> 0]
    /\ paceAt' = 0 /\ paceDue' = 0 /\ paceHurry' = 0 /\ paceSkips' = 0
    /\ UNCHANGED paceNow

\* A loss that is acknowledged, or of an expired message: packData returns at once.
PackStale ==
    /\ Popped /\ paceSkips < MaxSkips /\ paceSkips' = paceSkips + 1
    /\ pace' = [pace EXCEPT !.diff = Late]
    /\ paceAt' = 0
    /\ UNCHANGED <<paceDue, paceHurry, paceNow>>

\* Mutant of PaceResume: what is on the list is brought forward too.
PaceResumeAlways == paceAt' = 1 /\ UNCHANGED <<pace, paceDue, paceHurry, paceNow, paceSkips>>

\* update(this, false): sendmsg and the processing of an ACK put the socket on the list,
\* for at once, if it is not there.
PaceResume == paceAt = 0 /\ paceAt' = 1 /\ UNCHANGED <<pace, paceDue, paceHurry, paceNow, paceSkips>>

\* update(this): after a loss report and after a timeout the socket is on the list for at
\* once, also if it is there for later.
PaceHasten ==
    LET early == IF paceAt > paceNow THEN paceAt - paceNow ELSE 0
    IN /\ paceHurry + early <= MaxHurry
       /\ paceAt' = 1 /\ paceHurry' = paceHurry + early
       /\ UNCHANGED <<pace, paceDue, paceNow, paceSkips>>

PaceTick ==
    /\ paceNow < MaxNow /\ paceNow' = paceNow + 1
    /\ UNCHANGED <<pace, paceAt, paceDue, paceHurry, paceSkips>>

PaceNext ==
    \/ \E period \in Periods : \E probe \in BOOLEAN : PackPacket(period, probe)
    \/ PackNothing \/ PackStale \/ PaceResume \/ PaceHasten \/ PaceTick

-----------------------------------------------------------------------------
\* "rate should not be decreased by more than half within a congestion period": of a
\* period that is long enough for rounding not to matter, or of the one UDT_MAXBW asks
\* for if that is longer.
HalvedAtMost ==
    cc.decs >= 1 /\ cc.decPeriod >= 16 => cc.period <= 2 * AtLeast(cc.decPeriod, MinPeriod)

\* However small the rates that are reported, none of the averages falls to zero: no
\* period is divided by it, and the window does not close.
RatesPositive == cc.rate >= 1 /\ cc.bandwidth >= 1 /\ cc.random >= 1 /\ cc.cwnd >= FirstCwnd

\* While there is something to send, packets are due one period behind the other.  Whenever
\* the thread comes, the schedule of packData does not fall behind that (what the thread is
\* late is made up for), nor does it run ahead by more than the packets that loss reports
\* and timeouts "sent out immediately" (core.cpp:2188) had still to wait, as long as no call
\* of packData in the row has ended with a stale loss.
OnSchedule ==
    /\ pace.target - pace.diff <= paceDue
    /\ paceDue - paceHurry <= pace.target - pace.diff

PaceKept == pace.target # 0 /\ paceSkips = 0 => OnSchedule

\* The comment as it stands, for all periods.
HalvedAlways == cc.decs >= 1 => cc.period <= 2 * cc.decPeriod

\* The same for the schedule: whatever packData finds, also a loss that is no longer one.
PaceAlwaysKept == pace.target # 0 => OnSchedule
=============================================================================
