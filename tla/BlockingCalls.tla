----------------------------- MODULE BlockingCalls -----------------------------
(***************************************************************************)
(* The calls that wait: send, sendmsg, sendfile, recv, recvmsg and         *)
(* recvfile of one socket with one thread that sends and one that receives, *)
(* the receive-queue thread that wakes them (ACKs in and out, shutdown,    *)
(* expiry) and close, cut where the locks are taken.  A test and the wait  *)
(* it leads to are one step: m_SendBlockLock or m_RecvDataLock is held.    *)
(* And the wait of a blocking connect for a handshake the receive-queue    *)
(* thread stores (CRcvQueue::recvfrom, storePkt).                          *)
(***************************************************************************)
EXTENDS Integers, Sequences, FiniteSets

CONSTANTS
    Room,        \* m_iSndBufSize
    MaxReady,    \* bound on what may lie in the receive buffer
    MaxEarly,    \* bound on the messages completed ahead of the ACK
    MaxFile,     \* bound on the blocks of a file
    PassSocks,   \* sockets of one receive queue that connect
    StoreLimit,  \* 16
    MaxHandshakes \* bound on the handshakes stored

ASSUME BlockingCallsAssumption ==
    /\ {Room, MaxReady, MaxFile} \subseteq Nat \ {0}
    /\ {MaxEarly, StoreLimit, MaxHandshakes} \subseteq Nat

VARIABLES
    bcOpt,    \* SOCK_DGRAM, UDT_SNDSYN, UDT_RCVSYN, and whether the timeouts are set
    bcRoom,   \* m_iSndBufSize - getCurrBufSize()
    bcReady,  \* what was received and acknowledged: packets or messages
    bcEarly,  \* messages that may be read although an earlier one is missing
    bcFlag,   \* m_bConnected, m_bBroken, m_bClosing, m_bPeerHealth
    bcSnd,    \* the sending thread: pc, call, need (blocks)
    bcRcv,    \* the receiving thread: pc, call, need, got (the message read), timeout
    bcRq,     \* the receive-queue thread
    bcCloser, \* the thread that closes
    bcLost,   \* messages taken from the buffer that no call has returned
    psStored, \* m_mBuffer: the handshakes stored for a socket, by their numbers
    psWait,   \* the thread of each socket in recvfrom: "idle", "waiting", "woken"
    psCount,  \* handshakes stored so far
    psTaken   \* the last one each socket has taken

callVars == <<bcOpt, bcRoom, bcReady, bcEarly, bcFlag, bcSnd, bcRcv, bcRq, bcCloser, bcLost>>
passVars == <<psStored, psWait, psCount, psTaken>>

NotSending == [pc |-> "idle", call |-> "send", need |-> 1]
NotReceiving == [pc |-> "idle", call |-> "recv", need |-> 1, got |-> 0, timeout |-> FALSE]
At(t, pc) == [t EXCEPT !.pc = pc]

CallsInit ==
    /\ bcOpt \in [dgram : BOOLEAN, snd : BOOLEAN, rcv : BOOLEAN, sndTimed : BOOLEAN, rcvTimed : BOOLEAN]
    /\ bcRoom = Room /\ bcReady = 0 /\ bcEarly = 0 /\ bcLost = 0
    /\ bcFlag = [connected |-> TRUE, broken |-> FALSE, closing |-> FALSE, health |-> TRUE]
    /\ bcSnd = NotSending
    /\ bcRcv = NotReceiving
    /\ bcRq = "idle" /\ bcCloser = "idle"

Gone == bcFlag.broken \/ bcFlag.closing
Up == bcFlag.connected /\ ~Gone

-----------------------------------------------------------------------------
(* The thread that sends.                                                  *)

sndRest == <<bcOpt, bcReady, bcEarly, bcRcv, bcRq, bcCloser, bcLost>>

\* Whether it lacks room: sendmsg wants all its message to fit.
Short == IF bcSnd.call = "sendmsg" THEN bcRoom < bcSnd.need ELSE bcRoom <= 0

\* A message that never fits is refused.
MayFit(call, need) == call = "sendmsg" => need <= Room

SndEnter(call, need) ==
    /\ bcSnd.pc = "idle" /\ Up /\ (call = "sendmsg") = bcOpt.dgram /\ MayFit(call, need)
    /\ bcSnd' = [pc |-> "enter", call |-> call, need |-> need]
    /\ UNCHANGED <<sndRest, bcRoom, bcFlag>>

\* With m_SendLock: a call that does not block throws if there is no room.
SndLock ==
    /\ bcSnd.pc = "enter"
    /\ bcSnd' = IF bcSnd.call = "sendfile" THEN At(bcSnd, "test")
                ELSE IF ~Short THEN At(bcSnd, "act")
                ELSE IF bcOpt.snd THEN At(bcSnd, "test") ELSE NotSending
    /\ UNCHANGED <<sndRest, bcRoom, bcFlag>>

SndMustWaitConnected == bcFlag.connected /\ Short /\ (bcFlag.health \/ bcSnd.call = "sendmsg")
SndMustWait == Up /\ Short /\ (bcFlag.health \/ bcSnd.call = "sendmsg")

\* The condition of the loop, and the wait.
SndTest ==
    /\ bcSnd.pc = "test"
    /\ bcSnd' = At(bcSnd, IF SndMustWait THEN "asleep" ELSE "check")
    /\ UNCHANGED <<sndRest, bcRoom, bcFlag>>

SndTimed == bcOpt.sndTimed /\ bcSnd.call # "sendfile"
SndTimeout ==
    /\ bcSnd.pc = "asleep" /\ SndTimed
    /\ bcSnd' = At(bcSnd, "check")
    /\ UNCHANGED <<sndRest, bcRoom, bcFlag>>

\* After the wait: the exceptions; no room is the end of the time.
SndCheck ==
    /\ bcSnd.pc = "check"
    /\ bcSnd' = IF Up /\ (bcFlag.health \/ bcSnd.call = "sendmsg") /\ ~Short
                THEN At(bcSnd, "act") ELSE NotSending
    /\ bcFlag' = IF Up /\ bcSnd.call # "sendmsg" THEN [bcFlag EXCEPT !.health = TRUE] ELSE bcFlag
    /\ UNCHANGED <<sndRest, bcRoom>>

Write(size) == bcRoom' = bcRoom - size /\ UNCHANGED <<sndRest, bcFlag>>

\* addBuffer: as much as fits.
SendData ==
    /\ bcSnd.pc = "act" /\ bcSnd.call = "send" /\ bcSnd' = NotSending
    /\ Write(IF bcRoom < bcSnd.need THEN bcRoom ELSE bcSnd.need)

SendMessage ==
    /\ bcSnd.pc = "act" /\ bcSnd.call = "sendmsg" /\ bcSnd' = NotSending
    /\ Write(bcSnd.need)

\* addBufferFromFile: a block of any size, whatever the room.
SendBlock ==
    /\ bcSnd.pc = "act" /\ bcSnd.call = "sendfile"
    /\ \E size \in 1..bcSnd.need :
          /\ Write(size)
          /\ bcSnd' = IF size = bcSnd.need THEN NotSending
                      ELSE [bcSnd EXCEPT !.pc = "test", !.need = @ - size]

SndNext ==
    \/ \E call \in {"send", "sendmsg", "sendfile"} : \E need \in 1..MaxFile : SndEnter(call, need)
    \/ SndLock \/ SndTest \/ SndTimeout \/ SndCheck \/ SendData \/ SendMessage \/ SendBlock

-----------------------------------------------------------------------------
(* The thread that receives.                                               *)

rcvRest == <<bcOpt, bcRoom, bcFlag, bcSnd, bcRq, bcCloser>>

\* readMsg: what is acknowledged comes first.
AnyToRead == bcReady + bcEarly > 0
ReadMsg ==
    IF bcReady > 0 THEN bcReady' = bcReady - 1 /\ UNCHANGED bcEarly
    ELSE IF bcEarly > 0 THEN bcEarly' = bcEarly - 1 /\ UNCHANGED bcReady
    ELSE UNCHANGED <<bcReady, bcEarly>>

RcvEnter(call, need) ==
    /\ bcRcv.pc = "idle" /\ bcFlag.connected /\ (call = "recvmsg") = bcOpt.dgram
    /\ call # "recvmsg" => ~Gone \/ bcReady > 0
    /\ call # "recvfile" => need = 1
    /\ bcRcv' = [pc |-> "enter", call |-> call, need |-> need, got |-> 0, timeout |-> FALSE]
    /\ UNCHANGED <<rcvRest, bcReady, bcEarly, bcLost>>

\* With m_RecvLock, recv and recvfile.
RcvLock ==
    /\ bcRcv.pc = "enter" /\ bcRcv.call # "recvmsg"
    /\ bcRcv' = IF bcRcv.call = "recvfile" THEN At(bcRcv, "test")
                ELSE IF bcReady > 0 THEN At(bcRcv, "check")
                ELSE IF bcOpt.rcv THEN At(bcRcv, "test") ELSE NotReceiving
    /\ UNCHANGED <<rcvRest, bcReady, bcEarly, bcLost>>

\* recvmsg, which reads what there is if the connection is gone or it does not block.
RcvLockMsg ==
    /\ bcRcv.pc = "enter" /\ bcRcv.call = "recvmsg"
    /\ IF Gone \/ ~bcOpt.rcv
       THEN ReadMsg /\ bcRcv' = NotReceiving
       ELSE /\ bcRcv' = At(bcRcv, IF bcOpt.rcvTimed THEN "wait" ELSE "test")
            /\ UNCHANGED <<bcReady, bcEarly>>
    /\ UNCHANGED <<rcvRest, bcLost>>

RcvTest ==
    /\ bcRcv.pc = "test" /\ bcRcv.call # "recvmsg"
    /\ bcRcv' = At(bcRcv, IF Up /\ bcReady = 0 THEN "asleep" ELSE "check")
    /\ UNCHANGED <<rcvRest, bcReady, bcEarly, bcLost>>

\* The condition of recvmsg's loop reads the message.
RcvTestMsg ==
    /\ bcRcv.pc = "test" /\ bcRcv.call = "recvmsg"
    /\ IF Up /\ AnyToRead
       THEN ReadMsg /\ bcRcv' = [bcRcv EXCEPT !.pc = "check", !.got = 1]
       ELSE /\ bcRcv' = At(bcRcv, IF Up THEN "asleep" ELSE "check")
            /\ UNCHANGED <<bcReady, bcEarly>>
    /\ UNCHANGED <<rcvRest, bcLost>>

\* recvmsg with a timeout waits before it looks.
RcvWait ==
    /\ bcRcv.pc = "wait" /\ bcRcv' = At(bcRcv, "asleep")
    /\ UNCHANGED <<rcvRest, bcReady, bcEarly, bcLost>>

RcvTimed == bcOpt.rcvTimed /\ bcRcv.call # "recvfile"
RcvTimeout ==
    /\ bcRcv.pc = "asleep" /\ RcvTimed
    /\ bcRcv' = [bcRcv EXCEPT !.pc = IF bcRcv.call = "recvmsg" THEN "read" ELSE "check",
                               !.timeout = TRUE]
    /\ UNCHANGED <<rcvRest, bcReady, bcEarly, bcLost>>

RcvReadMsg ==
    /\ bcRcv.pc = "read"
    /\ ReadMsg /\ bcRcv' = [bcRcv EXCEPT !.pc = "check", !.got = IF AnyToRead THEN 1 ELSE 0]
    /\ UNCHANGED <<rcvRest, bcLost>>

\* After the wait: the exceptions, and the data.
RcvCheck ==
    /\ bcRcv.pc = "check" /\ bcRcv.call # "recvmsg"
    /\ bcRcv' = IF bcFlag.connected /\ (~Gone \/ bcReady > 0) THEN At(bcRcv, "act")
                ELSE NotReceiving
    /\ UNCHANGED <<rcvRest, bcReady, bcEarly, bcLost>>

RecvData ==
    /\ bcRcv.pc = "act" /\ bcRcv.call = "recv" /\ bcRcv' = NotReceiving
    /\ bcReady' = IF bcReady > 0 THEN bcReady - 1 ELSE 0
    /\ UNCHANGED <<rcvRest, bcEarly, bcLost>>

\* readBufferToFile, block by block.
RecvBlock ==
    /\ bcRcv.pc = "act" /\ bcRcv.call = "recvfile"
    /\ bcReady' = bcReady - 1
    /\ bcRcv' = IF bcRcv.need > 1 THEN [bcRcv EXCEPT !.pc = "test", !.need = @ - 1] ELSE NotReceiving
    /\ UNCHANGED <<rcvRest, bcEarly, bcLost>>

\* recvmsg: the exceptions, although a message has been read; another turn.
RcvCheckMsg ==
    /\ bcRcv.pc = "check" /\ bcRcv.call = "recvmsg"
    /\ bcRcv' = IF Up /\ bcRcv.got = 0 /\ ~bcRcv.timeout
                THEN At(bcRcv, IF bcOpt.rcvTimed THEN "wait" ELSE "test") ELSE NotReceiving
    /\ bcLost' = IF Up THEN bcLost ELSE bcLost + bcRcv.got
    /\ UNCHANGED <<rcvRest, bcReady, bcEarly>>

RcvNext ==
    \/ \E call \in {"recv", "recvmsg", "recvfile"} : \E need \in 1..MaxFile : RcvEnter(call, need)
    \/ RcvLock \/ RcvLockMsg \/ RcvTest \/ RcvTestMsg \/ RcvWait \/ RcvTimeout \/ RcvReadMsg
    \/ RcvCheck \/ RecvData \/ RecvBlock \/ RcvCheckMsg
-----------------------------------------------------------------------------
(* The receive-queue thread, and close.                                    *)

\* What a signal does to the thread that waits, if it does.
SndWoken(t) == IF t.pc = "asleep" THEN At(t, "test") ELSE t
RcvWoken(t) == IF t.pc # "asleep" THEN t
               ELSE At(t, IF t.call = "recvmsg" /\ bcOpt.rcvTimed THEN "read" ELSE "test")

rqRest == <<bcOpt, bcCloser, bcLost>>

\* An ACK gives back room in the sending buffer; then the signal.
AckSnd ==
    /\ bcRq = "idle" /\ Up
    /\ \E blocks \in 1..(Room - bcRoom) : bcRoom' = bcRoom + blocks
    /\ bcRq' = "signalSnd"
    /\ UNCHANGED <<rqRest, bcReady, bcEarly, bcFlag, bcSnd, bcRcv>>

SignalSndFull ==
    /\ bcRq = "signalSnd" /\ bcRq' = "idle"
    /\ bcSnd' = IF bcOpt.snd /\ bcRoom = Room THEN SndWoken(bcSnd) ELSE bcSnd
    /\ UNCHANGED <<rqRest, bcRoom, bcReady, bcEarly, bcFlag, bcRcv>>

SignalSnd ==
    /\ bcRq = "signalSnd" /\ bcRq' = "idle"
    /\ bcSnd' = IF bcOpt.snd THEN SndWoken(bcSnd) ELSE bcSnd
    /\ UNCHANGED <<rqRest, bcRoom, bcReady, bcEarly, bcFlag, bcRcv>>

\* An ACK sent moves data, and the messages behind it, to what may be read.
AckRcv ==
    /\ bcRq = "idle" /\ Up /\ bcReady + bcEarly < MaxReady
    /\ bcReady' = bcReady + 1 + bcEarly /\ bcEarly' = 0
    /\ bcRq' = "signalRcv"
    /\ UNCHANGED <<rqRest, bcRoom, bcFlag, bcSnd, bcRcv>>

SignalRcv ==
    /\ bcRq = "signalRcv" /\ bcRq' = "idle"
    /\ bcRcv' = IF bcOpt.rcv THEN RcvWoken(bcRcv) ELSE bcRcv
    /\ UNCHANGED <<rqRest, bcRoom, bcReady, bcEarly, bcFlag, bcSnd>>

\* A message that need not wait for its order is complete: no signal.
EarlyMsg ==
    /\ bcRq = "idle" /\ Up /\ bcOpt.dgram /\ bcEarly < MaxEarly /\ bcReady + bcEarly < MaxReady
    /\ bcEarly' = bcEarly + 1
    /\ UNCHANGED <<rqRest, bcRoom, bcReady, bcFlag, bcSnd, bcRcv, bcRq>>

\* The peer's recvfile failed: no signal.
PeerError ==
    /\ bcRq = "idle" /\ Up
    /\ bcFlag' = [bcFlag EXCEPT !.health = FALSE]
    /\ UNCHANGED <<rqRest, bcRoom, bcReady, bcEarly, bcSnd, bcRcv, bcRq>>

\* Shutdown; the expiry of checkTimers does the same.
Shutdown ==
    /\ bcRq = "idle" /\ Up
    /\ bcFlag' = [bcFlag EXCEPT !.broken = TRUE, !.closing = TRUE]
    /\ bcRq' = "rel1"
    /\ UNCHANGED <<rqRest, bcRoom, bcReady, bcEarly, bcSnd, bcRcv>>

SndFree == bcSnd.pc \in {"idle", "enter"}
RcvFree == bcRcv.pc \in {"idle", "enter"}

\* releaseSynch: signal the sender, wait for its lock; signal the receiver, wait for its.
Release(pc, next, after) ==
    /\ \/ pc = "rel1" /\ bcSnd' = SndWoken(bcSnd) /\ next = "rel2" /\ UNCHANGED bcRcv
       \/ pc = "rel2" /\ SndFree /\ next = "rel3" /\ UNCHANGED <<bcSnd, bcRcv>>
       \/ pc = "rel3" /\ bcRcv' = RcvWoken(bcRcv) /\ next = "rel4" /\ UNCHANGED bcSnd
       \/ pc = "rel4" /\ RcvFree /\ next = after /\ UNCHANGED <<bcSnd, bcRcv>>
    /\ UNCHANGED <<bcOpt, bcRoom, bcReady, bcEarly, bcLost>>

RqReleases ==
    /\ \E next \in {"rel2", "rel3", "rel4", "idle"} : Release(bcRq, next, "idle") /\ bcRq' = next
    /\ UNCHANGED <<bcFlag, bcCloser>>

Close ==
    /\ bcCloser = "idle" /\ bcCloser' = "rel1"
    /\ bcFlag' = [bcFlag EXCEPT !.closing = TRUE]
    /\ UNCHANGED <<bcOpt, bcRoom, bcReady, bcEarly, bcLost, bcSnd, bcRcv, bcRq>>

CloserReleases ==
    /\ \E next \in {"rel2", "rel3", "rel4", "locks"} :
          /\ Release(bcCloser, next, "locks") /\ bcCloser' = next
          /\ bcFlag' = IF next = "locks" THEN [bcFlag EXCEPT !.connected = FALSE] ELSE bcFlag
    /\ UNCHANGED bcRq

\* With both locks: closed.
CloseDone ==
    /\ bcCloser = "locks" /\ SndFree /\ RcvFree /\ bcCloser' = "done"
    /\ UNCHANGED <<bcOpt, bcRoom, bcReady, bcEarly, bcLost, bcFlag, bcSnd, bcRcv, bcRq>>

AcksSndNext == AckSnd \/ SignalSnd \/ PeerError
AcksRcvNext == AckRcv \/ SignalRcv \/ EarlyMsg
EndNext == Shutdown \/ RqReleases \/ Close \/ CloserReleases \/ CloseDone

\* The two threads have only the end of the connection in common.
SendingNext == SndNext \/ AcksSndNext \/ EndNext
ReceivingNext == RcvNext \/ AcksRcvNext \/ EndNext
CallsNext == SndNext \/ RcvNext \/ AcksSndNext \/ AcksRcvNext \/ EndNext

-----------------------------------------------------------------------------
(* The handshakes of blocking connects.                                    *)

PassInit ==
    /\ psStored = [u \in {} |-> <<>>] /\ psCount = 0
    /\ psWait = [u \in PassSocks |-> "idle"] /\ psTaken = [u \in PassSocks |-> 0]

Stored(u) == u \in DOMAIN psStored
Without(u) == [v \in DOMAIN psStored \ {u} |-> psStored[v]]
With(u, packets) == [v \in DOMAIN psStored \union {u} |-> IF v = u THEN packets ELSE psStored[v]]

\* The first one is signalled to one of those that wait, whoever that is for.
StorePkt(u) ==
    /\ psCount < MaxHandshakes /\ psCount' = psCount + 1
    /\ IF Stored(u)
       THEN /\ psStored' = IF Len(psStored[u]) > StoreLimit THEN psStored
                           ELSE With(u, Append(psStored[u], psCount'))
            /\ UNCHANGED psWait
       ELSE /\ psStored' = With(u, <<psCount'>>)
            /\ LET waiters == {v \in PassSocks : psWait[v] = "waiting"} IN
               IF waiters = {} THEN UNCHANGED psWait
               ELSE \E v \in waiters : psWait' = [psWait EXCEPT ![v] = "woken"]
    /\ UNCHANGED psTaken

\* Take the earliest packet.
TakeStoredKeepsEntry(u) ==
    /\ psTaken' = [psTaken EXCEPT ![u] = Head(psStored[u])]
    /\ psStored' = With(u, Tail(psStored[u]))

TakeStored(u) ==
    /\ psTaken' = [psTaken EXCEPT ![u] = Head(psStored[u])]
    /\ psStored' = IF Len(psStored[u]) = 1 THEN Without(u) ELSE With(u, Tail(psStored[u]))

Recvfrom(u) ==
    /\ psWait[u] = "idle"
    /\ IF Stored(u) THEN TakeStored(u) /\ UNCHANGED psWait
       ELSE psWait' = [psWait EXCEPT ![u] = "waiting"] /\ UNCHANGED <<psStored, psTaken>>
    /\ UNCHANGED psCount

\* The second has passed.
RecvfromTimeout(u) ==
    /\ psWait[u] = "waiting" /\ psWait' = [psWait EXCEPT ![u] = "woken"]
    /\ UNCHANGED <<psStored, psCount, psTaken>>

RecvfromWoken(u) ==
    /\ psWait[u] = "woken" /\ psWait' = [psWait EXCEPT ![u] = "idle"]
    /\ IF Stored(u) THEN TakeStored(u) ELSE UNCHANGED <<psStored, psTaken>>
    /\ UNCHANGED psCount

\* removeConnector, when the connect has its answer or gives up.
ForgetStored(u) ==
    /\ psWait[u] = "idle" /\ Stored(u) /\ psStored' = Without(u)
    /\ UNCHANGED <<psWait, psCount, psTaken>>

PassNext ==
    \E u \in PassSocks : \/ StorePkt(u) \/ Recvfrom(u) \/ RecvfromTimeout(u) \/ RecvfromWoken(u)
                         \/ ForgetStored(u)

-----------------------------------------------------------------------------
(* Properties.                                                             *)

Releasing == {"rel1", "rel2", "rel3"}

\* A call without a timeout that sleeps although it need not, and the signal to come.
SndOwed == bcSnd.pc = "asleep" /\ ~SndTimed /\ ~SndMustWait
RcvOwed == bcRcv.pc = "asleep" /\ ~RcvTimed /\ (~Up \/ bcReady > 0 \/ (bcRcv.call = "recvmsg" /\ AnyToRead))
SndDue == "rel1" \in {bcRq, bcCloser} \/ (bcRq = "signalSnd" /\ bcOpt.snd)
RcvDue == {bcRq, bcCloser} \cap Releasing # {} \/ (bcRq = "signalRcv" /\ bcOpt.rcv)

\* Every call that waits without a timeout is woken when what it waits for is there or
\* the connection is gone (send, sendmsg, sendfile, recv, recvmsg, recvfile, releaseSynch).
AlwaysWoken == (SndOwed => SndDue) /\ (RcvOwed => RcvDue)

\* The same but for three cases while the connection is up: a file's calls, with the
\* option for calls that do not block; the error of the peer; a message out of its order.
NobodySleepsOn ==
    /\ SndOwed /\ ~SndDue => Up /\ (~bcFlag.health \/ (bcSnd.call = "sendfile" /\ ~bcOpt.snd))
    /\ RcvOwed /\ ~RcvDue => Up /\ IF bcRcv.call = "recvmsg" THEN bcReady = 0
                                     ELSE bcRcv.call = "recvfile" /\ ~bcOpt.rcv

\* No call waits on a socket whose close has returned (CUDT::close).
CloseWaits == bcCloser = "done" => bcSnd.pc # "asleep" /\ bcRcv.pc # "asleep"

\* No call writes to the sending buffer of a socket whose close has returned (send, sendmsg).
NothingWrittenAfterClose == bcCloser = "done" => bcSnd.pc # "act"

\* No message is taken from the receive buffer without a call returning it (recvmsg).
NoMessageSwallowed == bcLost = 0

\* The handshakes stored for a socket are there in their order, none twice, within the
\* limit, and later than what the socket has taken (storePkt, recvfrom).
PassQueueSound ==
    \A u \in DOMAIN psStored :
       LET packets == psStored[u] IN
       /\ Len(packets) \in 1..(StoreLimit + 1)
       /\ \A i \in DOMAIN packets : packets[i] > (IF i = 1 THEN psTaken[u] ELSE packets[i - 1])

\* Whoever waits for a handshake wakes when it is stored (storePkt).
AddresseeWoken == \A u \in PassSocks : psWait[u] = "waiting" => ~Stored(u)
=============================================================================
