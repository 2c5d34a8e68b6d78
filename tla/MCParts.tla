------------------------------- MODULE MCParts ------------------------------
(***************************************************************************)
(* The data structures and the sequential parts of the library for TLC:    *)
(* each behaviour works on one of them, its subject, so that the state     *)
(* spaces add up and do not multiply.  The variables of the other parts    *)
(* stay 0.                                                                 *)
(***************************************************************************)
EXTENDS LossLists, RcvBuffer, SndBuffer, Windows, Cache, UnitPool, SndQueue, RcvQueue, UdtMux,
        SockOptions, RateControl, BlockingCalls, TLC

CONSTANT Subjects  \* which of them are looked at

VARIABLE subject

MCKeyOf == "a" :> 1 @@ "b" :> 5 @@ "c" :> 14 @@ "d" :> -3 @@ "e" :> 2
MCDefaults == [mss |-> 5, fc |-> 6, snd |-> 4, rcv |-> 4, udpSnd |-> 6]

\* The options of the thread that is not looked at.
Unused == IF subject = "sending" THEN bcOpt.rcv /\ ~bcOpt.rcvTimed ELSE bcOpt.snd /\ ~bcOpt.sndTimed

PartsInit ==
    /\ subject \in Subjects
    /\ IF subject = "sndLossList" THEN SndListInit
       ELSE
            /\ sndList = 0 /\ sndUna = 0 /\ sndCur = 0 /\ sndLost = 0
    /\ IF subject = "rcvLossList" THEN RcvListInit
       ELSE
            /\ rcvList = 0 /\ rcvAck = 0 /\ rcvCur = 0 /\ rcvLost = 0
    /\ IF subject = "rcvBuffer" THEN RcvBufferInit
       ELSE
            /\ rb = 0 /\ rbAck = 0 /\ rbCur = 0 /\ rbMissing = 0 /\ rbMsgs = 0 /\ rbRead = 0
            /\ rbBytes = 0 /\ rbDropped = 0 /\ rbGivenUp = 0
    /\ IF subject \in {"ackWindow", "speeds"} THEN WindowsInit
       ELSE
            /\ aw = 0 /\ awNo = 0 /\ awCount = 0 /\ awHist = 0 /\ rates = 0 /\ ratePtr = 0
    /\ IF subject = "cache" THEN CacheInit
       ELSE
            /\ cStore = 0 /\ cBucket = 0 /\ cUpdates = 0 /\ cLatest = 0 /\ cCrossed = 0
    /\ IF subject = "unitPool" THEN UnitPoolInit
       ELSE
            /\ upFlags = 0 /\ upCount = 0 /\ upCur = 0 /\ upAvail = 0 /\ upPc = 0 /\ upUnit = 0
            /\ upReg = 0 /\ upReader = 0 /\ upRefused = 0
    /\ IF subject \in {"sndQueue", "sndHeap"} THEN SndQueueInit
       ELSE
            /\ sqHeap = 0 /\ sqLocked = 0 /\ sqPc = 0 /\ sqTs = 0 /\ sqSched = 0 /\ sqClock = 0
            /\ sqWork = 0 /\ sqAdded = 0 /\ sqPending = 0 /\ sqStale = 0 /\ sqStales = 0
            /\ sqOpen = 0 /\ sqClosing = 0
    /\ IF subject = "sndBuffer" THEN SndBufferInit
       ELSE
            /\ sb = 0 /\ sbMsgs = 0 /\ sbSent = 0 /\ sbAcked = 0 /\ sbNamed = 0
    /\ IF subject = "rcvQueue" THEN RcvQueueInit
       ELSE
            /\ rqState = 0 /\ rqTries = 0 /\ rqClosing = 0 /\ rqClosedAt = 0 /\ rqLingers = 0
            /\ rqListener = 0 /\ rqOnList = 0 /\ rqNew = 0 /\ rqList = 0 /\ rqHash = 0
            /\ rqConns = 0 /\ rqStored = 0 /\ rqPc = 0 /\ rqHeld = 0 /\ rqClock = 0
    /\ IF subject = "mux" THEN UdtMuxInit
       ELSE
            /\ mxSock = 0 /\ mxMux = 0 /\ mxUsers = 0 /\ mxGC = 0
    /\ IF subject = "options" THEN SockOptionsInit
       ELSE
            /\ so = 0 /\ soReq = 0 /\ soAns = 0 /\ soSets = 0
    /\ IF subject = "congestion" THEN CongestionInit
       ELSE
            /\ cc = 0 /\ ccAcked = 0 /\ ccRested = 0 /\ ccReports = 0
    /\ IF subject = "pacing" THEN PaceInit
       ELSE
            /\ pace = 0 /\ paceAt = 0 /\ paceDue = 0 /\ paceHurry = 0 /\ paceNow = 0 /\ paceSkips = 0
    /\ IF subject \in {"sending", "receiving"} THEN CallsInit /\ Unused
       ELSE
            /\ bcOpt = 0 /\ bcRoom = 0 /\ bcReady = 0 /\ bcEarly = 0 /\ bcFlag = 0 /\ bcSnd = 0
            /\ bcRcv = 0 /\ bcRq = 0 /\ bcCloser = 0 /\ bcLost = 0
    /\ IF subject = "passing" THEN PassInit
       ELSE
            /\ psStored = 0 /\ psWait = 0 /\ psCount = 0 /\ psTaken = 0

\* A step of one part.
StepOf(s) == subject = s /\ UNCHANGED subject
Rests(s, vars) == IF subject = s THEN TRUE ELSE UNCHANGED vars

OthersRest ==
    /\ Rests("sndLossList", sndListVars)
    /\ Rests("rcvLossList", rcvListVars)
    /\ Rests("rcvBuffer", rcvBufferVars)
    /\ IF subject \in {"ackWindow", "speeds"} THEN TRUE ELSE UNCHANGED windowVars
    /\ Rests("cache", cacheVars)
    /\ Rests("unitPool", unitPoolVars)
    /\ IF subject \in {"sndQueue", "sndHeap"} THEN TRUE ELSE UNCHANGED sndQueueVars
    /\ Rests("sndBuffer", sndBufferVars)
    /\ Rests("rcvQueue", rcvQueueVars)
    /\ Rests("mux", udtMuxVars)
    /\ Rests("options", sockOptionVars)
    /\ Rests("congestion", rateVars)
    /\ Rests("pacing", paceVars)
    /\ IF subject \in {"sending", "receiving"} THEN TRUE ELSE UNCHANGED callVars
    /\ Rests("passing", passVars)

PartsNext ==
    \/ StepOf("sndLossList") /\ OthersRest /\ SndListNext
    \/ StepOf("rcvLossList") /\ OthersRest /\ RcvListNext
    \/ StepOf("rcvBuffer") /\ OthersRest /\ RcvBufferNext
    \/ StepOf("ackWindow") /\ OthersRest /\ AckWindowNext
    \/ StepOf("speeds") /\ OthersRest /\ RateNext
    \/ StepOf("cache") /\ OthersRest /\ CacheNext
    \/ StepOf("unitPool") /\ OthersRest /\ UnitPoolNext
    \/ StepOf("sndQueue") /\ OthersRest /\ SndQueueNext
    \/ StepOf("sndHeap") /\ OthersRest /\ HeapNext
    \/ StepOf("sndBuffer") /\ OthersRest /\ SndBufferNext
    \/ StepOf("rcvQueue") /\ OthersRest /\ RcvQueueNext
    \/ StepOf("mux") /\ OthersRest /\ UdtMuxNext
    \/ StepOf("options") /\ OthersRest /\ SockOptionsNext
    \/ StepOf("congestion") /\ OthersRest /\ RateControlNext
    \/ StepOf("pacing") /\ OthersRest /\ PaceNext
    \/ StepOf("sending") /\ OthersRest /\ SendingNext
    \/ StepOf("receiving") /\ OthersRest /\ ReceivingNext
    \/ StepOf("passing") /\ OthersRest /\ PassNext

allVars == <<subject, sndListVars, rcvListVars, rcvBufferVars, windowVars, cacheVars, unitPoolVars,
             sndQueueVars, sndBufferVars, rcvQueueVars, udtMuxVars, sockOptionVars, rateVars, paceVars,
             callVars, passVars>>

PartsSpec == PartsInit /\ [][PartsNext]_allVars

-----------------------------------------------------------------------------
(* What the run checks: the invariants of the parts, each of its own.      *)

Of(s, invariant) == subject = s => invariant

\* Both loss lists hold exactly what is lost, for intervals that overlap, touch or
\* wrap, and the loss reports tell it (CSndLossList, CRcvLossList).
LossListsExact == Of("sndLossList", SndListExact) /\ Of("rcvLossList", RcvListExact /\ ReportExact)

\* The receive buffer keeps every packet where its number puts it, finds the first
\* readable message whatever is missing or was read out of order, and as a stream
\* repeats and loses no byte (addData, ackData, scanMsg, readBuffer, readMsg).
BufferExact == Of("rcvBuffer", RingExact /\ ScanExact /\ BytesExact)

\* Messages are read whole, once, and in order where that is asked for; scanMsg gives
\* up only those that a drop request has touched (readMsg, dropMsg, scanMsg).
MessagesWhole == Of("rcvBuffer", ReadWholeAndOnce /\ GivesUpOnlyDropped)

\* An ACK2 finds its own ACK or none, the reported rates lie near the median, and the
\* cache of a connection's rates keeps the latest ones (CACKWindow, CPktTimeWindow, CCache).
LinkStatisticsExact ==
    /\ Of("ackWindow", AckWindowExact)
    /\ Of("speeds", SpeedNearMedian)
    /\ Of("cache", CacheExact)

\* No packet is refused for want of a unit twice in a row while memory can be had,
\* although two threads count the units (getNextAvailUnit).
PoolRefusesOnlyWhenFull == Of("unitPool", RefusedOnlyWhenFull)

\* Nobody sleeps through what he waits for: the send-queue thread an update or its
\* destruction (CSndUList::update, ~CSndQueue), the calls that block room, data or the end
\* of the connection (releaseSynch, close); the handshakes stored for connects are in order.
SleepersWake ==
    /\ Of("sndQueue", NoLostWakeup)
    /\ subject \in {"sending", "receiving"} => NobodySleepsOn /\ CloseWaits
    /\ Of("passing", PassQueueSound)

\* The send list holds every socket that can send, each once, the earliest first, for up
\* to five sockets (insert_, pop, remove_ of CSndUList).
HeapExact ==
    /\ Of("sndQueue", NothingForgotten)
    /\ subject \in {"sndQueue", "sndHeap"} => FirstIsEarliest

\* The send buffer gives out and keeps the blocks in the order they were written,
\* while it grows, wraps and gives up expired messages (CSndBuffer).
SendBufferExact == Of("sndBuffer", SndBufferExact)

\* The tables of the receive-queue thread agree with the sockets: none is lost, none
\* is left in a table when it is destroyed (CRcvUList, CHash, CRendezvousQueue).
ReceiverTablesSound == Of("rcvQueue", RcvQueueSound)

\* The queues that sockets share live as long as their last socket and fit what it
\* was bound with, and requests reach the listener (updateMux, removeSocket, listen).
SharedQueuesSound == Of("mux", MuxSound)

\* Whatever options are set in whatever order, the sizes the two ends agree on fit
\* the buffers, loss lists and queues of both (setOpt, open, connect).
AgreedSizesFit == Of("options", OptionsSound)

\* A congestion period lowers the rate by half at most, no average falls to zero, and
\* a sending thread that comes late makes up for that and for no more, but for what loss
\* reports and timeouts hurry (CUDTCC, packData, CSndUList::update).
RateSoundAndKept ==
    /\ Of("congestion", HalvedAtMost /\ RatesPositive)
    /\ Of("pacing", PaceKept)
=============================================================================
