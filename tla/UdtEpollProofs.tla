--------------------------- MODULE UdtEpollProofs ---------------------------
(***************************************************************************)
(* That no readiness signal is lost in silence (NoSilentRead,              *)
(* NoSilentWrite), for every number of application threads, sockets and    *)
(* epolls.  Neither is inductive as it stands: a notification reaches the  *)
(* epolls of m_sPollID, so the induction needs that m_sPollID names every  *)
(* epoll that watches the socket (Registered), and close() may stop        *)
(* watching only because the socket can no longer be healthy (CloseOrder). *)
(* First what the table of epolls keeps whoever calls it, and at the end   *)
(* that no epoll watches a destroyed socket.                               *)
(***************************************************************************)
EXTENDS UdtEpoll, FiniteSetTheorems, WellFoundedInduction, TLAPS

(***************************************************************************)
(* The table of epolls, whoever calls its functions: its types are right   *)
(* and an epoll reports only sockets it watches.                           *)
(***************************************************************************)
EpollInv == EpollTypeOK /\ ReadyOnlyIfWatched

LEMMA EpollInitInv == EpollInit => EpollInv
  BY MaxPollsAssumption
  DEF EpollInit, EpollInv, EpollTypeOK, ReadyOnlyIfWatched, NoSocks, Eids

LEMMA CreatePollInv ==
  ASSUME EpollInv, CreatePoll PROVE EpollInv'
  BY MaxPollsAssumption
  DEF EpollInv, EpollTypeOK, ReadyOnlyIfWatched, CreatePoll, Eids

LEMMA ReleasePollInv ==
  ASSUME EpollInv, NEW e \in mPolls, ReleasePoll(e) PROVE EpollInv'
  BY MaxPollsAssumption
  DEF EpollInv, EpollTypeOK, ReadyOnlyIfWatched, ReleasePoll, Eids

LEMMA AddUsockInv ==
  ASSUME EpollInv, NEW e \in mPolls, NEW u \in Socks, NEW ev \in SUBSET Events,
         AddUsock(e, u, ev)
  PROVE  EpollInv'
  BY MaxPollsAssumption
  DEF EpollInv, EpollTypeOK, ReadyOnlyIfWatched, AddUsock, Eids

LEMMA RemoveUsockInv ==
  ASSUME EpollInv, NEW e \in mPolls, NEW u \in Socks, RemoveUsock(e, u)
  PROVE  EpollInv'
  BY MaxPollsAssumption
  DEF EpollInv, EpollTypeOK, ReadyOnlyIfWatched, RemoveUsock, Eids

LEMMA NotificationInv ==
  ASSUME EpollInv, NEW u \in Socks, NEW eids \in SUBSET Eids,
         \/ EnableRead(u, eids) \/ DisableRead(u, eids)
         \/ EnableWrite(u, eids) \/ DisableWrite(u, eids)
  PROVE  EpollInv'
<1> USE MaxPollsAssumption DEF EpollInv, EpollTypeOK, ReadyOnlyIfWatched, Eids, Live
<1>1. CASE EnableRead(u, eids)
  BY <1>1 DEF EnableRead
<1>2. CASE DisableRead(u, eids)
  BY <1>2 DEF DisableRead
<1>3. CASE EnableWrite(u, eids)
  BY <1>3 DEF EnableWrite
<1>4. CASE DisableWrite(u, eids)
  BY <1>4 DEF DisableWrite
<1> QED BY <1>1, <1>2, <1>3, <1>4

LEMMA EpollStep == EpollInv /\ [EpollNext]_epollVars => EpollInv'
<1> SUFFICES ASSUME EpollInv, [EpollNext]_epollVars PROVE EpollInv'
  OBVIOUS
<1>1. CASE UNCHANGED epollVars
  BY <1>1 DEF EpollInv, EpollTypeOK, ReadyOnlyIfWatched, epollVars
<1>2. CASE EpollNext
  BY <1>2, CreatePollInv, ReleasePollInv, AddUsockInv, RemoveUsockInv, NotificationInv
  DEF EpollNext
<1> QED BY <1>1, <1>2

(* The table alone keeps its types and reports only what it watches.       *)
THEOREM EpollCorrect == EpollSpec => []EpollInv
<1> QED BY EpollInitInv, EpollStep, PTL DEF EpollSpec

-----------------------------------------------------------------------------

(* What each kind of thread may be doing.                                  *)
CallsOK ==
  /\ \A t \in Threads : ~At(t, "idle") => call[t].u \in Socks
  /\ \A t \in Apps : /\ call[t].pc \notin WorkerPcs
                     /\ call[t].pc \in AddPcs \cup RemovePcs => call[t].e \in Eids
  /\ call[Worker].pc \in {"idle"} \cup WorkerPcs
  /\ call[GC].pc \in {"idle"} \cup ClosePcs

Typed == TypeOK /\ CallsOK

-----------------------------------------------------------------------------
(* What Goto, Return and Begin do to the records of the calls.             *)

LEMMA ThreadsDiffer ==
  /\ Apps \subseteq Threads /\ Worker \in Threads /\ GC \in Threads
  /\ Worker \notin Apps /\ GC \notin Apps /\ Worker # GC
  BY ConstantsAssumption DEF Threads

LEMMA GotoCall ==
  ASSUME CallTypeOK, NEW t \in Threads, NEW p, Goto(t, p)
  PROVE  /\ \A s \in Threads \ {t} : call'[s] = call[s]
         /\ call'[t].pc = p /\ call'[t].u = call[t].u
         /\ call'[t].e = call[t].e /\ call'[t].ev = call[t].ev
  BY DEF CallTypeOK, CallRecord, Goto

LEMMA ReturnCall ==
  ASSUME CallTypeOK, NEW t \in Threads, Return(t)
  PROVE  /\ \A s \in Threads \ {t} : call'[s] = call[s]
         /\ call'[t].pc = "idle"
  BY DEF CallTypeOK, CallRecord, Return, Idle

LEMMA BeginCall ==
  ASSUME CallTypeOK, NEW t \in Threads, NEW p, NEW u, NEW e, NEW ev, Begin(t, p, u, e, ev)
  PROVE  /\ \A s \in Threads \ {t} : call'[s] = call[s]
         /\ call'[t].pc = p /\ call'[t].u = u /\ call'[t].e = e
  BY DEF CallTypeOK, CallRecord, Begin

LEMMA IterateCall ==
  ASSUME CallTypeOK, NEW t \in Threads, NEW e, Iterate(t, e)
  PROVE  /\ \A s \in Threads \ {t} : call'[s] = call[s]
         /\ call'[t].pc = call[t].pc /\ call'[t].u = call[t].u /\ call'[t].e = e
  BY DEF CallTypeOK, CallRecord, Iterate

LEMMA ReturnType ==
  ASSUME CallTypeOK, CallsOK, NEW t \in Threads, Return(t)
  PROVE  CallTypeOK' /\ CallsOK'
<1>1. Idle \in CallRecord
  BY MaxPollsAssumption DEF CallRecord, Idle, Pcs
<1>2. CallTypeOK'
  BY <1>1 DEF CallTypeOK, Return
<1>3. CallsOK'
  BY ReturnCall, ThreadsDiffer
  DEF CallsOK, At, AddPcs, RemovePcs, WorkerPcs, ClosePcs
<1> QED BY <1>2, <1>3

(* The places a thread may go to, and those where a call begins.           *)
Allowed(t, p) ==
  /\ t \in Apps => p \notin WorkerPcs
  /\ t = Worker => p \in WorkerPcs
  /\ t = GC => p \in ClosePcs

LEMMA GotoType ==
  ASSUME CallTypeOK, CallsOK, NEW t \in Threads, NEW p \in Pcs, Goto(t, p),
         ~At(t, "idle"), Allowed(t, p),
         p \in AddPcs \cup RemovePcs => call[t].pc \in AddPcs \cup RemovePcs
  PROVE  CallTypeOK' /\ CallsOK'
<1>1. CallTypeOK'
  BY DEF CallTypeOK, Goto, CallRecord
<1>2. CallsOK'
  BY GotoCall, ThreadsDiffer DEF CallsOK, At, Allowed
<1> QED BY <1>1, <1>2

LEMMA BeginType ==
  ASSUME CallTypeOK, CallsOK, NEW t \in Threads, NEW p \in Pcs, NEW u \in Socks,
         NEW e \in 0 .. MaxPolls, NEW ev \in SUBSET Events, Begin(t, p, u, e, ev),
         Allowed(t, p), p \in AddPcs \cup RemovePcs => e \in Eids
  PROVE  CallTypeOK' /\ CallsOK'
<1>1. CallTypeOK'
  BY DEF CallTypeOK, Begin, CallRecord
<1>2. CallsOK'
  BY BeginCall, ThreadsDiffer DEF CallsOK, At, Allowed
<1> QED BY <1>1, <1>2

LEMMA IterateType ==
  ASSUME CallTypeOK, CallsOK, NEW t \in Threads, NEW e \in Eids, Iterate(t, e)
  PROVE  CallTypeOK' /\ CallsOK'
<1>1. e \in 0 .. MaxPolls
  BY MaxPollsAssumption DEF Eids
<1>2. CallTypeOK'
  BY <1>1 DEF CallTypeOK, Iterate, CallRecord
<1>3. CallsOK'
  BY IterateCall, ThreadsDiffer DEF CallsOK, At
<1> QED BY <1>2, <1>3

LEMMA SameCalls ==
  ASSUME CallTypeOK, CallsOK, UNCHANGED call
  PROVE  CallTypeOK' /\ CallsOK'
  BY DEF CallTypeOK, CallsOK, At

(* The notifications change m_sPollID and the auxiliary variables only     *)
(* within their types.                                                     *)
LEMMA WatchingType ==
  ASSUME TypeOK, NEW u \in Socks
  PROVE  Watching(u) \subseteq Eids \X Socks
  BY DEF TypeOK, SocketTypeOK, Live, Watching

LEMMA NotifyType ==
  ASSUME TypeOK, NEW u \in Socks,
         NotifyRead(u) \/ NotifyWrite(u) \/ ClearRead(u) \/ ClearWrite(u)
  PROVE  /\ pollID' \in [Socks -> SUBSET Eids]
         /\ lostR' \subseteq Eids \X Socks /\ lostW' \subseteq Eids \X Socks
  BY WatchingType
  DEF TypeOK, SocketTypeOK, NotifyRead, NotifyWrite, ClearRead, ClearWrite, Prune, Live

-----------------------------------------------------------------------------
(* Every step does to the table of epolls what one of its functions does.  *)
LEMMA PollStep == Typed /\ [Next]_vars => [EpollNext]_epollVars
<1> SUFFICES ASSUME Typed, [Next]_vars PROVE [EpollNext]_epollVars
  OBVIOUS
<1>s. \A t \in Threads : ~At(t, "idle") => call[t].u \in Socks
  BY DEF Typed, CallsOK
<1>p. \A u \in Socks : pollID[u] \in SUBSET Eids
  BY DEF Typed, TypeOK, SocketTypeOK
<1>v. \A t \in Threads : call[t].ev \in SUBSET Events
  BY DEF Typed, TypeOK, CallTypeOK, CallRecord
<1> USE <1>s, <1>p, <1>v, ThreadsDiffer DEF At, EpollNext
<1>1. ASSUME NEW t \in Apps, EpollCreate(t) PROVE [EpollNext]_epollVars
  BY <1>1 DEF EpollCreate
<1>2. ASSUME NEW t \in Apps, NEW e \in Eids, EpollRelease(t, e)
      PROVE [EpollNext]_epollVars
  BY <1>2 DEF EpollRelease
<1>3. ASSUME NEW t \in Apps, AddToPoll(t) PROVE [EpollNext]_epollVars
  BY <1>3 DEF AddToPoll
<1>4. ASSUME NEW t \in Apps, AddEnableRead(t) PROVE [EpollNext]_epollVars
  BY <1>4 DEF AddEnableRead, NotifyRead
<1>5. ASSUME NEW t \in Apps, AddEnableWrite(t) PROVE [EpollNext]_epollVars
  BY <1>5 DEF AddEnableWrite, NotifyWrite
<1>6. ASSUME NEW t \in Apps, RemoveDisableRead(t) PROVE [EpollNext]_epollVars
  BY <1>6 DEF RemoveDisableRead, ClearRead
<1>7. ASSUME NEW t \in Apps, RemoveDisableWrite(t) PROVE [EpollNext]_epollVars
  BY <1>7 DEF RemoveDisableWrite, ClearWrite
<1>8. ASSUME NEW t \in Apps, RemoveFromPoll(t) PROVE [EpollNext]_epollVars
  BY <1>8 DEF RemoveFromPoll
<1>9. ASSUME NEW t \in Apps, ReadDisable(t) PROVE [EpollNext]_epollVars
  BY <1>9 DEF ReadDisable, ClearRead
<1>10. ASSUME NEW t \in Apps, SendDisable(t) PROVE [EpollNext]_epollVars
  BY <1>10 DEF SendDisable, ClearWrite
<1>11. ASSUME NEW t \in Apps \cup {GC}, CloseRemoveUsock(t)
      PROVE [EpollNext]_epollVars
  BY <1>11 DEF CloseRemoveUsock
<1>12. ASSUME AckEnableWrite PROVE [EpollNext]_epollVars
  BY <1>12 DEF AckEnableWrite, NotifyWrite
<1>13. ASSUME AckEnableRead PROVE [EpollNext]_epollVars
  BY <1>13 DEF AckEnableRead, NotifyRead
<1>14. ASSUME ExpEnableRead PROVE [EpollNext]_epollVars
  BY <1>14 DEF ExpEnableRead, NotifyRead
<1>15. ASSUME ExpEnableWrite PROVE [EpollNext]_epollVars
  BY <1>15 DEF ExpEnableWrite, NotifyWrite
<1>16. ASSUME NEW t \in Threads, NEW u, NEW e, NEW ev, NEW n,
              \/ EpollAddUsock(t, e, u, ev) \/ AddPollID(t)
              \/ AddCheckRead(t) \/ AddCheckWrite(t)
              \/ EpollRemoveUsock(t, e, u) \/ RemovePollID(t)
              \/ Recvmsg(t, u) \/ ReadMsg(t) \/ ReadCheck(t)
              \/ Sendmsg(t, u) \/ SendAddBuffer(t, n) \/ SendCheck(t)
              \/ Close(t, u) \/ CloseLock(t) \/ CloseLinger(t)
              \/ CloseFlags(t) \/ CloseWait(t) \/ CloseDone(t)
       PROVE  UNCHANGED epollVars
  BY <1>16 DEF NoNotify, EpollAddUsock, AddPollID, AddCheckRead, AddCheckWrite,
     EpollRemoveUsock, RemovePollID, Recvmsg, ReadMsg, ReadCheck, Sendmsg,
     SendAddBuffer, SendCheck, Close, CloseLock, CloseLinger, CloseFlags,
     CloseWait, CloseDone
<1>17. ASSUME NEW u, NEW k, NEW j,
              \/ GcWaitForReader(u) \/ GcCloseBroken(u)
              \/ GcEndLinger(u) \/ GcRemoveSocket(u) \/ ProcessAck(u, k)
              \/ SendAck(u, k, j) \/ CompleteEarly(u) \/ PeerShutdown(u)
              \/ InvalidControl(u) \/ PeerSilent(u) \/ DropFromList(u)
       PROVE  UNCHANGED epollVars
  BY <1>17 DEF NoNotify, GcWaitForReader, GcCloseBroken, GcEndLinger,
     GcRemoveSocket, ProcessAck, SendAck, CompleteEarly, PeerShutdown,
     InvalidControl, PeerSilent, DropFromList
<1>19. CASE TimersDone
  BY <1>19 DEF TimersDone, NoNotify
<1>18. CASE UNCHANGED vars
  BY <1>18 DEF vars
<1> QED
  BY <1>1, <1>2, <1>3, <1>4, <1>5, <1>6, <1>7, <1>8, <1>9, <1>10, <1>11, <1>12,
     <1>13, <1>14, <1>15, <1>16, <1>17, <1>18, <1>19
  DEF Next, AppBegin, CallStep, CloseStep, GcStep, GcVisit, WorkerReceive, WorkerGoesOn

TypedRest == /\ SocketTypeOK /\ CallTypeOK /\ CallsOK
             /\ lostR \subseteq Eids \X Socks /\ lostW \subseteq Eids \X Socks

(* Types, and what each kind of thread may be doing.                       *)
LEMMA TypeStep == Typed /\ [Next]_vars => TypedRest'
<1> SUFFICES ASSUME Typed, [Next]_vars PROVE TypedRest'
  OBVIOUS
<1>s. \A t \in Threads : ~At(t, "idle") => call[t].u \in Socks
  BY DEF Typed, CallsOK
<1>e. \A t \in Apps : call[t].pc \in AddPcs \cup RemovePcs => call[t].e \in Eids
  BY DEF Typed, CallsOK
<1>m. mPolls \subseteq Eids
  BY MaxPollsAssumption DEF Typed, TypeOK, EpollTypeOK, Eids
<1> USE <1>s, <1>e, ThreadsDiffer, MaxPollsAssumption, ConstantsAssumption
    DEF Typed, TypedRest, TypeOK, SocketTypeOK, sockVars, At, NoNotify, Allowed, Eids,
        Pcs, AddPcs, RemovePcs, RecvPcs, SendPcs, ClosePcs, WorkerPcs
<1>1. ASSUME NEW t \in Apps, EpollCreate(t) PROVE TypedRest'
  BY <1>1, SameCalls DEF EpollCreate
<1>2. ASSUME NEW t \in Apps, NEW e \in Eids, EpollRelease(t, e) PROVE TypedRest'
  BY <1>2, SameCalls DEF EpollRelease
<1>3. ASSUME NEW t \in Apps, NEW e \in Eids, NEW u \in Socks, NEW ev \in SUBSET Events, EpollAddUsock(t, e, u, ev)
      PROVE TypedRest'
  BY <1>3, BeginType DEF EpollAddUsock
<1>4. ASSUME NEW t \in Apps, AddToPoll(t) PROVE TypedRest'
  BY <1>4, GotoType, ReturnType DEF AddToPoll
<1>5. ASSUME NEW t \in Apps, AddPollID(t) PROVE TypedRest'
  BY <1>5, GotoType DEF AddPollID
<1>6. ASSUME NEW t \in Apps, AddCheckRead(t) PROVE TypedRest'
  BY <1>6, GotoType, ReturnType DEF AddCheckRead
<1>7. ASSUME NEW t \in Apps, AddEnableRead(t) PROVE TypedRest'
  BY <1>7, NotifyType, GotoType DEF AddEnableRead
<1>8. ASSUME NEW t \in Apps, AddCheckWrite(t) PROVE TypedRest'
  BY <1>8, GotoType, ReturnType DEF AddCheckWrite
<1>9. ASSUME NEW t \in Apps, AddEnableWrite(t) PROVE TypedRest'
  BY <1>9, NotifyType, ReturnType DEF AddEnableWrite
<1>10. ASSUME NEW t \in Apps, NEW e \in Eids, NEW u \in Socks, EpollRemoveUsock(t, e, u)
      PROVE TypedRest'
  <2>1. e \in 0 .. MaxPolls /\ {} \in SUBSET Events
    OBVIOUS
  <2>2. ASSUME NEW p \in {"rmId", "rmUsock"}, Begin(t, p, u, e, {})
        PROVE  CallTypeOK' /\ CallsOK'
    <3>1. p \in Pcs /\ Allowed(t, p)
      BY <2>2
    <3> QED BY <2>1, <2>2, <3>1, BeginType
  <2>3. CallTypeOK' /\ CallsOK'
    BY <1>10, <2>2 DEF EpollRemoveUsock
  <2> QED BY <1>10, <2>3 DEF EpollRemoveUsock
<1>11. ASSUME NEW t \in Apps, RemovePollID(t) PROVE TypedRest'
  BY <1>11, GotoType DEF RemovePollID
<1>12. ASSUME NEW t \in Apps, RemoveDisableRead(t) PROVE TypedRest'
  BY <1>12, NotifyType, GotoType DEF RemoveDisableRead
<1>13. ASSUME NEW t \in Apps, RemoveDisableWrite(t) PROVE TypedRest'
  BY <1>13, NotifyType, GotoType DEF RemoveDisableWrite
<1>14. ASSUME NEW t \in Apps, RemoveFromPoll(t) PROVE TypedRest'
  BY <1>14, ReturnType DEF RemoveFromPoll
<1>15. ASSUME NEW t \in Apps, NEW u \in Socks, Recvmsg(t, u) PROVE TypedRest'
  BY SMTT(30), <1>15, BeginType DEF Recvmsg
<1>16. ASSUME NEW t \in Apps, ReadMsg(t) PROVE TypedRest'
  BY <1>16, GotoType DEF ReadMsg
<1>17. ASSUME NEW t \in Apps, ReadCheck(t) PROVE TypedRest'
  BY <1>17, GotoType, ReturnType DEF ReadCheck
<1>18. ASSUME NEW t \in Apps, ReadDisable(t) PROVE TypedRest'
  BY <1>18, NotifyType, ReturnType DEF ReadDisable
<1>19. ASSUME NEW t \in Apps, NEW u \in Socks, Sendmsg(t, u) PROVE TypedRest'
  BY SMTT(30), <1>19, BeginType DEF Sendmsg
<1>20. ASSUME NEW t \in Apps, NEW n \in 1 .. SndBufSize, SendAddBuffer(t, n)
      PROVE TypedRest'
  BY <1>20, GotoType, ReturnType DEF SendAddBuffer
<1>21. ASSUME NEW t \in Apps, SendCheck(t) PROVE TypedRest'
  BY <1>21, GotoType, ReturnType DEF SendCheck
<1>22. ASSUME NEW t \in Apps, SendDisable(t) PROVE TypedRest'
  BY <1>22, NotifyType, ReturnType DEF SendDisable
<1>23. ASSUME NEW t \in Apps, NEW u \in Socks, Close(t, u) PROVE TypedRest'
  BY <1>23, BeginType DEF Close
<1>24. ASSUME NEW t \in Apps, CloseLock(t) PROVE TypedRest'
  BY <1>24, GotoType DEF CloseLock
<1>25. ASSUME NEW t \in Apps \cup {GC}, CloseLinger(t) PROVE TypedRest'
  BY <1>25, GotoType DEF CloseLinger
<1>26. ASSUME NEW t \in Apps \cup {GC}, CloseRemoveUsock(t) PROVE TypedRest'
  <2>1. CASE Goto(t, "clFlags")
    BY <1>26, <2>1, GotoType DEF CloseRemoveUsock
  <2>2. ASSUME NEW e \in mPolls, Iterate(t, e) PROVE TypedRest'
    BY <1>26, <2>2, <1>m, IterateType DEF CloseRemoveUsock
  <2> QED BY <1>26, <2>1, <2>2 DEF CloseRemoveUsock
<1>27. ASSUME NEW t \in Apps \cup {GC}, CloseFlags(t) PROVE TypedRest'
  BY <1>27, GotoType DEF CloseFlags
<1>28. ASSUME NEW t \in Apps \cup {GC}, CloseWait(t) PROVE TypedRest'
  BY <1>28, GotoType DEF CloseWait
<1>29. ASSUME NEW t \in Apps \cup {GC}, CloseDone(t) PROVE TypedRest'
  BY <1>29, ReturnType DEF CloseDone
<1>30. ASSUME NEW u \in Socks, GcWaitForReader(u) PROVE TypedRest'
  BY <1>30, SameCalls DEF GcWaitForReader
<1>31. ASSUME NEW u \in Socks, GcCloseBroken(u) PROVE TypedRest'
  BY <1>31, SameCalls DEF GcCloseBroken
<1>32. ASSUME NEW u \in Socks, GcEndLinger(u) PROVE TypedRest'
  BY <1>32, SameCalls DEF GcEndLinger
<1>33. ASSUME NEW u \in Socks, GcRemoveSocket(u) PROVE TypedRest'
  BY <1>33, BeginType DEF GcRemoveSocket
<1>34. ASSUME NEW u \in Socks, NEW k \in 1 .. SndBufSize, ProcessAck(u, k)
      PROVE TypedRest'
  BY <1>34, BeginType DEF ProcessAck
<1>35. ASSUME AckEnableWrite PROVE TypedRest'
  BY <1>35, NotifyType, GotoType DEF AckEnableWrite
<1>36. ASSUME NEW u \in Socks, NEW k \in 0 .. MaxMsgs, NEW j \in 0 .. MaxMsgs, SendAck(u, k, j)
      PROVE TypedRest'
  BY <1>36, BeginType DEF SendAck
<1>37. ASSUME AckEnableRead PROVE TypedRest'
  BY <1>37, NotifyType, ReturnType DEF AckEnableRead
<1>38. ASSUME NEW u \in Socks, CompleteEarly(u) PROVE TypedRest'
  BY <1>38, BeginType DEF CompleteEarly
<1>39. ASSUME NEW u \in Socks, PeerShutdown(u) PROVE TypedRest'
  BY <1>39, BeginType DEF PeerShutdown
<1>40. ASSUME NEW u \in Socks, InvalidControl(u) PROVE TypedRest'
  BY <1>40, BeginType DEF InvalidControl
<1>41. ASSUME NEW u \in Socks, PeerSilent(u) PROVE TypedRest'
  BY <1>41, BeginType DEF PeerSilent
<1>42. ASSUME ExpEnableRead PROVE TypedRest'
  BY <1>42, NotifyType, GotoType DEF ExpEnableRead
<1>43. ASSUME ExpEnableWrite PROVE TypedRest'
  BY <1>43, NotifyType, ReturnType DEF ExpEnableWrite
<1>44. ASSUME NEW u \in Socks, DropFromList(u) PROVE TypedRest'
  BY <1>44, SameCalls DEF DropFromList
<1>45. CASE UNCHANGED vars
  BY <1>45, SameCalls DEF vars
<1>46. CASE TimersDone
  BY <1>46, ReturnType DEF TimersDone
<1> QED
  BY <1>1, <1>2, <1>3, <1>4, <1>5, <1>6, <1>7, <1>8, <1>9, <1>10, <1>11, <1>12,
     <1>13, <1>14, <1>15, <1>16, <1>17, <1>18, <1>19, <1>20, <1>21, <1>22,
     <1>23, <1>24, <1>25, <1>26, <1>27, <1>28, <1>29, <1>30, <1>31, <1>32,
     <1>33, <1>34, <1>35, <1>36, <1>37, <1>38, <1>39, <1>40, <1>41, <1>42,
     <1>43, <1>44, <1>45, <1>46
  DEF Next, AppBegin, CallStep, CloseStep, GcStep, GcVisit, WorkerReceive, WorkerGoesOn

-----------------------------------------------------------------------------
(* The inductive invariant.                                                *)

(* m_sPollID names every epoll that watches the socket, except while one   *)
(* is being added or removed.                                              *)
RegisteredAt(e, u) ==
  u \in socksIn[e] \cup socksOut[e] =>
    e \in pollID[u] \/ Adding(e, u, {"addId"}) \/ Removing(e, u)
Registered == \A e \in mPolls, u \in Socks : RegisteredAt(e, u)

(* close() clears m_bConnected before m_bOpened.                           *)
CloseOrder ==
  /\ \A u \in Socks : u \notin opened => u \notin connected
  /\ \A t \in Threads : At(t, "clWait") => call[t].u \notin connected

Signals == Registered /\ CloseOrder /\ NoSilentRead /\ NoSilentWrite

IInv == Typed /\ ReadyOnlyIfWatched /\ Signals

(* The library starts with the invariant.                                  *)
LEMMA InitIInv == Init => IInv
<1> SUFFICES ASSUME Init PROVE IInv
  OBVIOUS
<1>1. EpollInv
  BY EpollInitInv DEF Init
<1>2. CallTypeOK
  BY MaxPollsAssumption DEF Init, CallTypeOK, CallRecord, Idle, Pcs
<1>3. SocketTypeOK
  BY ConstantsAssumption DEF Init, SocketTypeOK
<1>4. CallsOK
  BY ThreadsDiffer DEF Init, CallsOK, At, Idle, AddPcs, RemovePcs, WorkerPcs
<1>5. Signals
  BY
  DEF Init, EpollInit, Signals, Registered, CloseOrder, NoSilentRead, NoSilentWrite,
      At, Idle
<1> QED
  BY <1>1, <1>2, <1>3, <1>4, <1>5 DEF IInv, Typed, TypeOK, EpollInv, Init

-----------------------------------------------------------------------------
(* Where in a call a thread answers for something the invariant needs.     *)

ReadPcs == {"enR", "addId", "addChkR", "addEnR", "rmRead", "rmWrite", "rmUsock",
            "clPolls", "clFlags"}
WritePcs == {"enW", "addId", "addChkR", "addEnR", "addChkW", "addEnW",
             "rmRead", "rmWrite", "rmUsock", "clPolls", "clFlags"}
GuardPcs == ReadPcs \cup WritePcs \cup {"clWait"}

MovesOnly(t) == \A s \in Threads \ {t} : call'[s] = call[s]

(* A step of another thread, or of this one elsewhere, keeps what is held. *)
LEMMA ReadHeldKept ==
  ASSUME NEW t \in Threads, MovesOnly(t), NEW e, NEW u, ReadHeld(e, u),
         ~In(t, ReadPcs, u),
         u \in reads[e] \/ <<e, u>> \in lostR => u \in reads'[e] \/ <<e, u>> \in lostR'
  PROVE  ReadHeld(e, u)'
  BY ThreadsDiffer
  DEF ReadHeld, MovesOnly, Adding, Removing, ClosingNow, In, ReadPcs, RemovePcs

LEMMA WriteHeldKept ==
  ASSUME NEW t \in Threads, MovesOnly(t), NEW e, NEW u, WriteHeld(e, u),
         ~In(t, WritePcs, u),
         u \in writes[e] \/ <<e, u>> \in lostW => u \in writes'[e] \/ <<e, u>> \in lostW'
  PROVE  WriteHeld(e, u)'
  BY ThreadsDiffer
  DEF WriteHeld, MovesOnly, Adding, Removing, ClosingNow, In, WritePcs, RemovePcs,
      AddPcs

(* The same when it is this thread's turn for another epoll or socket.      *)
LEMMA ReadHeldElsewhere ==
  ASSUME NEW t \in Apps, MovesOnly(t), NEW e, NEW u, ReadHeld(e, u),
         call[t].pc \notin {"clPolls", "clFlags"}, ~(u = call[t].u /\ e = call[t].e),
         u \in reads[e] \/ <<e, u>> \in lostR => u \in reads'[e] \/ <<e, u>> \in lostR'
  PROVE  ReadHeld(e, u)'
  BY ThreadsDiffer DEF ReadHeld, MovesOnly, Adding, Removing, ClosingNow, In

LEMMA WriteHeldElsewhere ==
  ASSUME NEW t \in Apps, MovesOnly(t), NEW e, NEW u, WriteHeld(e, u),
         call[t].pc \notin {"clPolls", "clFlags"}, ~(u = call[t].u /\ e = call[t].e),
         u \in writes[e] \/ <<e, u>> \in lostW => u \in writes'[e] \/ <<e, u>> \in lostW'
  PROVE  WriteHeld(e, u)'
  BY ThreadsDiffer DEF WriteHeld, MovesOnly, Adding, Removing, ClosingNow, In

(* The same for the registration.                                          *)
LEMMA RegisteredKept ==
  ASSUME NEW t \in Threads, MovesOnly(t), NEW e, NEW u, RegisteredAt(e, u),
         ~In(t, {"addId", "rmRead", "rmWrite", "rmUsock"}, u),
         u \in socksIn'[e] \cup socksOut'[e] => u \in socksIn[e] \cup socksOut[e],
         e \in pollID[u] => e \in pollID'[u]
  PROVE  RegisteredAt(e, u)'
  BY ThreadsDiffer
  DEF RegisteredAt, MovesOnly, Adding, Removing, In, RemovePcs

-----------------------------------------------------------------------------
(* The steps that touch none of this: they move a thread that answers for  *)
(* nothing, and neither add to what is due nor take from what is held.     *)

Quiet ==
  /\ \E t \in Threads : /\ MovesOnly(t)
                        /\ call[t].pc \notin GuardPcs /\ call'[t].pc # "clWait"
  /\ UNCHANGED <<epollVars, pollID, lostR, lostW, connected, opened>>
  /\ broken \subseteq broken' /\ closing \subseteq closing'
  /\ \A u \in Socks : acked'[u] <= acked[u] /\ sndUsed'[u] >= sndUsed[u]

Passive ==
  \/ \E t \in Apps, u \in Socks :
        \/ \E e \in Eids : \/ EpollRemoveUsock(t, e, u)
                           \/ \E ev \in SUBSET Events : EpollAddUsock(t, e, u, ev)
        \/ Recvmsg(t, u) \/ Sendmsg(t, u) \/ Close(t, u)
  \/ \E t \in Apps : \/ ReadMsg(t) \/ ReadCheck(t) \/ SendCheck(t) \/ CloseLock(t)
                     \/ \E n \in 1 .. SndBufSize : SendAddBuffer(t, n)
  \/ \E t \in Apps \cup {GC} : CloseLinger(t) \/ CloseDone(t)
  \/ \E u \in Socks : \/ GcWaitForReader(u) \/ GcCloseBroken(u) \/ GcEndLinger(u)
                      \/ GcRemoveSocket(u) \/ CompleteEarly(u) \/ PeerShutdown(u)
                      \/ InvalidControl(u) \/ PeerSilent(u) \/ DropFromList(u)
  \/ TimersDone

(* The other steps.                                                        *)
Active ==
  \/ \E t \in Apps : \/ EpollCreate(t) \/ \E e \in Eids : EpollRelease(t, e)
                     \/ AddToPoll(t) \/ AddPollID(t) \/ AddCheckRead(t) \/ AddEnableRead(t)
                     \/ AddCheckWrite(t) \/ AddEnableWrite(t) \/ RemovePollID(t)
                     \/ RemoveDisableRead(t) \/ RemoveDisableWrite(t) \/ RemoveFromPoll(t)
                     \/ ReadDisable(t) \/ SendDisable(t)
  \/ \E t \in Apps \cup {GC} : CloseRemoveUsock(t) \/ CloseFlags(t) \/ CloseWait(t)
  \/ \E u \in Socks, k \in 1 .. SndBufSize : ProcessAck(u, k)
  \/ \E u \in Socks, k, j \in 0 .. MaxMsgs : SendAck(u, k, j)
  \/ AckEnableWrite \/ AckEnableRead \/ ExpEnableRead \/ ExpEnableWrite

(* Nothing else happens.                                                   *)
LEMMA NextSplit == Next => Active \/ Passive
<1>1. ASSUME NEW t \in Apps, AppBegin(t) PROVE Active \/ Passive
  BY <1>1 DEF AppBegin, Active, Passive
<1>2. ASSUME NEW t \in Apps, CallStep(t) PROVE Active \/ Passive
  BY <1>2 DEF CallStep, CloseStep, Active, Passive
<1>3. CASE GcStep
  BY <1>3 DEF GcStep, GcVisit, CloseStep, Active, Passive
<1>4. CASE WorkerReceive \/ WorkerGoesOn \/ \E u \in Socks : DropFromList(u)
  BY <1>4 DEF WorkerReceive, WorkerGoesOn, Active, Passive
<1> QED
  BY <1>1, <1>2, <1>3, <1>4 DEF Next

(* Each of the passive steps is quiet, and a quiet step keeps the signals. *)
LEMMA PassiveIsQuiet ==
  ASSUME Typed, Passive PROVE Quiet
<1>s. \A t \in Threads : ~At(t, "idle") => call[t].u \in Socks
  BY DEF Typed, CallsOK
<1>c. CallTypeOK /\ SocketTypeOK
  BY DEF Typed, TypeOK
<1> USE <1>s, <1>c, ThreadsDiffer, ConstantsAssumption
    DEF Quiet, MovesOnly, GuardPcs, ReadPcs, WritePcs, At, NoNotify, sockVars,
        SocketTypeOK
<1>1. ASSUME NEW t \in Apps, NEW e \in Eids, NEW u \in Socks, NEW ev \in SUBSET Events, EpollAddUsock(t, e, u, ev)
      PROVE Quiet
  BY <1>1, BeginCall DEF EpollAddUsock
<1>2. ASSUME NEW t \in Apps, NEW e \in Eids, NEW u \in Socks, EpollRemoveUsock(t, e, u)
      PROVE Quiet
  BY <1>2, BeginCall DEF EpollRemoveUsock
<1>3. ASSUME NEW t \in Apps, NEW u \in Socks, Recvmsg(t, u) PROVE Quiet
  BY <1>3, BeginCall DEF Recvmsg
<1>4. ASSUME NEW t \in Apps, ReadMsg(t) PROVE Quiet
  BY <1>4, GotoCall DEF ReadMsg
<1>5. ASSUME NEW t \in Apps, ReadCheck(t) PROVE Quiet
  BY <1>5, GotoCall, ReturnCall DEF ReadCheck
<1>6. ASSUME NEW t \in Apps, NEW u \in Socks, Sendmsg(t, u) PROVE Quiet
  BY <1>6, BeginCall DEF Sendmsg
<1>7. ASSUME NEW t \in Apps, NEW n \in 1 .. SndBufSize, SendAddBuffer(t, n)
      PROVE Quiet
  BY <1>7, GotoCall, ReturnCall DEF SendAddBuffer
<1>8. ASSUME NEW t \in Apps, SendCheck(t) PROVE Quiet
  BY <1>8, GotoCall, ReturnCall DEF SendCheck
<1>9. ASSUME NEW t \in Apps, NEW u \in Socks, Close(t, u) PROVE Quiet
  BY <1>9, BeginCall DEF Close
<1>10. ASSUME NEW t \in Apps, CloseLock(t) PROVE Quiet
  BY <1>10, GotoCall DEF CloseLock
<1>11. ASSUME NEW t \in Apps \cup {GC}, CloseLinger(t) PROVE Quiet
  BY <1>11, GotoCall DEF CloseLinger
<1>12. ASSUME NEW t \in Apps \cup {GC}, CloseDone(t) PROVE Quiet
  BY <1>12, ReturnCall DEF CloseDone
<1>13. ASSUME NEW u \in Socks, GcWaitForReader(u) PROVE Quiet
  BY <1>13 DEF GcWaitForReader
<1>14. ASSUME NEW u \in Socks, GcCloseBroken(u) PROVE Quiet
  BY <1>14 DEF GcCloseBroken
<1>15. ASSUME NEW u \in Socks, GcEndLinger(u) PROVE Quiet
  BY <1>15 DEF GcEndLinger
<1>16. ASSUME NEW u \in Socks, GcRemoveSocket(u) PROVE Quiet
  BY <1>16, BeginCall DEF GcRemoveSocket
<1>17. ASSUME NEW u \in Socks, CompleteEarly(u) PROVE Quiet
  BY <1>17, BeginCall DEF CompleteEarly, Serving
<1>18. ASSUME NEW u \in Socks, PeerShutdown(u) PROVE Quiet
  BY <1>18, BeginCall DEF PeerShutdown, Serving
<1>19. ASSUME NEW u \in Socks, InvalidControl(u) PROVE Quiet
  BY <1>19, BeginCall DEF InvalidControl, Serving
<1>20. ASSUME NEW u \in Socks, PeerSilent(u) PROVE Quiet
  BY <1>20, BeginCall DEF PeerSilent, Serving
<1>21. ASSUME NEW u \in Socks, DropFromList(u) PROVE Quiet
  BY <1>21 DEF DropFromList
<1>22. CASE TimersDone
  BY <1>22, ReturnCall DEF TimersDone
<1> QED
  BY <1>1, <1>2, <1>3, <1>4, <1>5, <1>6, <1>7, <1>8, <1>9, <1>10, <1>11, <1>12,
     <1>13, <1>14, <1>15, <1>16, <1>17, <1>18, <1>19, <1>20, <1>21, <1>22
  DEF Passive

LEMMA QuietKeeps ==
  ASSUME IInv, SocketTypeOK', Quiet PROVE Signals'
<1>1. PICK t \in Threads : /\ MovesOnly(t)
                           /\ call[t].pc \notin GuardPcs /\ call'[t].pc # "clWait"
  BY DEF Quiet
<1>2. Registered'
  BY <1>1, RegisteredKept
  DEF Quiet, IInv, Signals, Registered, GuardPcs, ReadPcs, In, epollVars
<1>3. CloseOrder'
  BY <1>1 DEF Quiet, IInv, Signals, CloseOrder, MovesOnly, At
<1>4. ASSUME NEW e \in mPolls', NEW u \in Socks, ReadDue(e, u)' PROVE ReadHeld(e, u)'
  <2>1. e \in mPolls /\ ReadDue(e, u)
    BY <1>4 DEF Quiet, epollVars, ReadDue, Healthy, IInv, Typed, TypeOK, SocketTypeOK
  <2> QED BY <1>1, <2>1, ReadHeldKept
          DEF Quiet, IInv, Signals, NoSilentRead, GuardPcs, In, epollVars
<1>5. ASSUME NEW e \in mPolls', NEW u \in Socks, WriteDue(e, u)' PROVE WriteHeld(e, u)'
  <2>1. e \in mPolls /\ WriteDue(e, u)
    BY <1>5, ConstantsAssumption
    DEF Quiet, epollVars, WriteDue, Healthy, IInv, Typed, TypeOK, SocketTypeOK
  <2> QED BY <1>1, <2>1, WriteHeldKept
          DEF Quiet, IInv, Signals, NoSilentWrite, GuardPcs, In, epollVars
<1> QED
  BY <1>2, <1>3, <1>4, <1>5 DEF Signals, NoSilentRead, NoSilentWrite

-----------------------------------------------------------------------------
(* The notifications, seen from one epoll and one socket.                  *)

LEMMA NotifyReadEffect ==
  ASSUME TypeOK, NEW u \in Socks, NotifyRead(u), NEW e \in Eids, NEW v \in Socks
  PROVE  /\ v \in reads[e] => v \in reads'[e]
         /\ u \in socksIn[e] /\ e \in mPolls /\ e \in pollID[u] => u \in reads'[e]
         /\ <<e, v>> \in lostR /\ v # u => <<e, v>> \in lostR'
         /\ e \in pollID[v] /\ e \in mPolls => e \in pollID'[v]
         /\ UNCHANGED <<idSeed, mPolls, socksIn, socksOut, writes, lostW>>
  BY
  DEF TypeOK, EpollTypeOK, SocketTypeOK, NotifyRead, EnableRead, Prune, Live, Watching

LEMMA NotifyWriteEffect ==
  ASSUME TypeOK, NEW u \in Socks, NotifyWrite(u), NEW e \in Eids, NEW v \in Socks
  PROVE  /\ v \in writes[e] => v \in writes'[e]
         /\ u \in socksOut[e] /\ e \in mPolls /\ e \in pollID[u] => u \in writes'[e]
         /\ <<e, v>> \in lostW /\ v # u => <<e, v>> \in lostW'
         /\ e \in pollID[v] /\ e \in mPolls => e \in pollID'[v]
         /\ UNCHANGED <<idSeed, mPolls, socksIn, socksOut, reads, lostR>>
  BY
  DEF TypeOK, EpollTypeOK, SocketTypeOK, NotifyWrite, EnableWrite, Prune, Live,
      Watching

LEMMA ClearReadEffect ==
  ASSUME TypeOK, NEW u \in Socks, ClearRead(u), NEW e \in Eids, NEW v \in Socks
  PROVE  /\ v \in reads[e] => v \in reads'[e] \/ <<e, v>> \in lostR' \/ (v = u /\ ~Readable(u))
         /\ <<e, v>> \in lostR => <<e, v>> \in lostR'
         /\ e \in pollID[v] /\ e \in mPolls => e \in pollID'[v]
         /\ UNCHANGED <<idSeed, mPolls, socksIn, socksOut, writes, lostW>>
  BY
  DEF TypeOK, EpollTypeOK, SocketTypeOK, ClearRead, DisableRead, Prune, Live, Watching

LEMMA ClearWriteEffect ==
  ASSUME TypeOK, NEW u \in Socks, ClearWrite(u), NEW e \in Eids, NEW v \in Socks
  PROVE  /\ v \in writes[e] => \/ v \in writes'[e] \/ <<e, v>> \in lostW'
                               \/ (v = u /\ ~(sndUsed[u] < SndBufSize))
         /\ <<e, v>> \in lostW => <<e, v>> \in lostW'
         /\ e \in pollID[v] /\ e \in mPolls => e \in pollID'[v]
         /\ UNCHANGED <<idSeed, mPolls, socksIn, socksOut, reads, lostR>>
  BY
  DEF TypeOK, EpollTypeOK, SocketTypeOK, ClearWrite, DisableWrite, Prune, Live,
      Watching

(* m_bConnected and m_bOpened only ever fall, and in that order.            *)
LEMMA CloseOrderStep ==
  ASSUME IInv, Active PROVE CloseOrder'
<1>s. \A t \in Threads : ~At(t, "idle") => call[t].u \in Socks
  BY DEF IInv, Typed, CallsOK
<1>m. mPolls \subseteq Eids
  BY MaxPollsAssumption DEF IInv, Typed, TypeOK, EpollTypeOK, Eids
<1>c. TypeOK /\ CallTypeOK
  BY DEF IInv, Typed, TypeOK
<1> USE <1>s, <1>c, ThreadsDiffer DEF IInv, Signals, CloseOrder, At, sockVars, NoNotify
<1>1. ASSUME NEW t \in Apps, EpollCreate(t) PROVE CloseOrder'
  BY <1>1 DEF EpollCreate, CreatePoll
<1>2. ASSUME NEW t \in Apps, NEW f \in Eids, EpollRelease(t, f)
      PROVE CloseOrder'
  BY <1>2 DEF EpollRelease, ReleasePoll
<1>3. ASSUME NEW t \in Apps, AddToPoll(t) PROVE CloseOrder'
  BY <1>3, GotoCall, ReturnCall DEF AddToPoll, AddUsock
<1>4. ASSUME NEW t \in Apps, AddPollID(t) PROVE CloseOrder'
  BY <1>4, GotoCall DEF AddPollID
<1>5. ASSUME NEW t \in Apps, AddCheckRead(t) PROVE CloseOrder'
  BY <1>5, GotoCall, ReturnCall DEF AddCheckRead
<1>6. ASSUME NEW t \in Apps, AddEnableRead(t) PROVE CloseOrder'
  BY <1>6, GotoCall, NotifyReadEffect DEF AddEnableRead
<1>7. ASSUME NEW t \in Apps, AddCheckWrite(t) PROVE CloseOrder'
  BY <1>7, GotoCall, ReturnCall DEF AddCheckWrite
<1>8. ASSUME NEW t \in Apps, AddEnableWrite(t) PROVE CloseOrder'
  BY <1>8, ReturnCall, NotifyWriteEffect DEF AddEnableWrite
<1>9. ASSUME NEW t \in Apps, RemovePollID(t) PROVE CloseOrder'
  BY <1>9, GotoCall DEF RemovePollID
<1>10. ASSUME NEW t \in Apps, RemoveDisableRead(t) PROVE CloseOrder'
  BY <1>10, GotoCall, ClearReadEffect DEF RemoveDisableRead
<1>11. ASSUME NEW t \in Apps, RemoveDisableWrite(t) PROVE CloseOrder'
  BY <1>11, GotoCall, ClearWriteEffect DEF RemoveDisableWrite
<1>12. ASSUME NEW t \in Apps, RemoveFromPoll(t) PROVE CloseOrder'
  BY <1>12, ReturnCall DEF RemoveFromPoll, RemoveUsock
<1>13. ASSUME NEW t \in Apps, ReadDisable(t) PROVE CloseOrder'
  BY <1>13, ReturnCall, ClearReadEffect DEF ReadDisable
<1>14. ASSUME NEW t \in Apps, SendDisable(t) PROVE CloseOrder'
  BY <1>14, ReturnCall, ClearWriteEffect DEF SendDisable
<1>15. ASSUME NEW t \in Apps \cup {GC}, CloseRemoveUsock(t) PROVE CloseOrder'
  BY SMTT(30), <1>15, GotoCall, IterateCall DEF CloseRemoveUsock, RemoveUsock
<1>16. ASSUME NEW t \in Apps \cup {GC}, CloseFlags(t) PROVE CloseOrder'
  BY <1>16, GotoCall DEF CloseFlags
<1>17. ASSUME NEW t \in Apps \cup {GC}, CloseWait(t) PROVE CloseOrder'
  BY <1>17, GotoCall DEF CloseWait
<1>18. ASSUME NEW v \in Socks, NEW k \in 1 .. SndBufSize, ProcessAck(v, k)
      PROVE CloseOrder'
  BY <1>18, BeginCall DEF ProcessAck
<1>19. ASSUME AckEnableWrite PROVE CloseOrder'
  BY <1>19, GotoCall, NotifyWriteEffect DEF AckEnableWrite
<1>20. ASSUME NEW v \in Socks, NEW k \in 0 .. MaxMsgs, NEW j \in 0 .. MaxMsgs, SendAck(v, k, j)
      PROVE CloseOrder'
  BY <1>20, BeginCall DEF SendAck
<1>21. ASSUME AckEnableRead PROVE CloseOrder'
  BY <1>21, ReturnCall, NotifyReadEffect DEF AckEnableRead
<1>22. ASSUME ExpEnableRead PROVE CloseOrder'
  BY <1>22, GotoCall, NotifyReadEffect DEF ExpEnableRead
<1>23. ASSUME ExpEnableWrite PROVE CloseOrder'
  BY <1>23, ReturnCall, NotifyWriteEffect DEF ExpEnableWrite
<1> QED
  BY <1>1, <1>2, <1>3, <1>4, <1>5, <1>6, <1>7, <1>8, <1>9, <1>10, <1>11, <1>12,
     <1>13, <1>14, <1>15, <1>16, <1>17, <1>18, <1>19, <1>20, <1>21, <1>22, <1>23 DEF Active

(* A socket enters m_sUDTSocksIn before the epoll enters m_sPollID, and the *)
(* epoll leaves m_sPollID before the socket leaves m_sUDTSocksIn.           *)
LEMMA RegisteredStep ==
  ASSUME IInv, Typed', Active PROVE Registered'
<1>s. \A t \in Threads : ~At(t, "idle") => call[t].u \in Socks
  BY DEF IInv, Typed, CallsOK
<1>m. mPolls \subseteq Eids
  BY MaxPollsAssumption DEF IInv, Typed, TypeOK, EpollTypeOK, Eids
<1>c. TypeOK /\ CallTypeOK
  BY DEF IInv, Typed, TypeOK
<1>w. \A e \in Eids \ mPolls : socksIn[e] = {} /\ socksOut[e] = {}
  BY DEF IInv, ReadyOnlyIfWatched
<1>e. mPolls' \subseteq Eids
  BY MaxPollsAssumption DEF Typed, TypeOK, EpollTypeOK, Eids
<1> SUFFICES ASSUME NEW e \in mPolls', NEW u \in Socks PROVE RegisteredAt(e, u)'
  BY DEF Registered
<1>o. e \in mPolls => RegisteredAt(e, u)
  BY DEF IInv, Signals, Registered
<1> USE <1>s, <1>m, <1>c, <1>o, <1>w, <1>e, ThreadsDiffer
    DEF sockVars, epollVars, NoNotify, At, In
<1>1. ASSUME NEW t \in Apps, EpollCreate(t) PROVE RegisteredAt(e, u)'
  BY <1>1
  DEF EpollCreate, CreatePoll, RegisteredAt, Adding, Removing, RemovePcs, TypeOK,
      EpollTypeOK, SocketTypeOK
<1>2. ASSUME NEW t \in Apps, NEW f \in Eids, EpollRelease(t, f)
      PROVE RegisteredAt(e, u)'
  BY <1>2
  DEF EpollRelease, ReleasePoll, RegisteredAt, Adding, Removing, RemovePcs, TypeOK,
      EpollTypeOK, SocketTypeOK
<1>3. ASSUME NEW t \in Apps, AddToPoll(t) PROVE RegisteredAt(e, u)'
  <2>1. MovesOnly(t)
    BY <1>3, GotoCall, ReturnCall DEF AddToPoll, MovesOnly
  <2>2. CASE u = call[t].u /\ e = call[t].e
    <3>1. e \in mPolls
      BY <1>3 DEF AddToPoll, AddUsock
    <3> QED BY <1>3, <2>2, <3>1, GotoCall DEF AddToPoll, RegisteredAt, Adding
  <2>3. CASE ~(u = call[t].u /\ e = call[t].e)
    BY <1>3, <2>1, <2>3, RegisteredKept DEF AddToPoll, AddUsock, TypeOK, EpollTypeOK
  <2> QED BY <2>2, <2>3
<1>4. ASSUME NEW t \in Apps, AddPollID(t) PROVE RegisteredAt(e, u)'
  BY <1>4, GotoCall
  DEF AddPollID, RegisteredAt, Adding, Removing, RemovePcs, TypeOK, EpollTypeOK,
      SocketTypeOK
<1>5. ASSUME NEW t \in Apps, AddCheckRead(t) PROVE RegisteredAt(e, u)'
  BY <1>5, GotoCall, ReturnCall
  DEF AddCheckRead, RegisteredAt, Adding, Removing, RemovePcs, TypeOK, EpollTypeOK,
      SocketTypeOK
<1>6. ASSUME NEW t \in Apps, AddEnableRead(t) PROVE RegisteredAt(e, u)'
  <2>1. MovesOnly(t)
    BY <1>6, GotoCall DEF AddEnableRead, MovesOnly
  <2> QED BY <1>6, <2>1, RegisteredKept, NotifyReadEffect DEF AddEnableRead
<1>7. ASSUME NEW t \in Apps, AddCheckWrite(t) PROVE RegisteredAt(e, u)'
  BY <1>7, GotoCall, ReturnCall
  DEF AddCheckWrite, RegisteredAt, Adding, Removing, RemovePcs, TypeOK, EpollTypeOK,
      SocketTypeOK
<1>8. ASSUME NEW t \in Apps, AddEnableWrite(t) PROVE RegisteredAt(e, u)'
  <2>1. MovesOnly(t)
    BY <1>8, ReturnCall DEF AddEnableWrite, MovesOnly
  <2> QED BY <1>8, <2>1, RegisteredKept, NotifyWriteEffect DEF AddEnableWrite
<1>9. ASSUME NEW t \in Apps, RemovePollID(t) PROVE RegisteredAt(e, u)'
  BY SMTT(30), <1>9, GotoCall
  DEF RemovePollID, RegisteredAt, Adding, Removing, RemovePcs, TypeOK, EpollTypeOK,
      SocketTypeOK
<1>10. ASSUME NEW t \in Apps, RemoveDisableRead(t) PROVE RegisteredAt(e, u)'
  <2>1. MovesOnly(t)
    BY <1>10, GotoCall DEF RemoveDisableRead, MovesOnly
  <2>2. CASE u = call[t].u /\ e = call[t].e
    BY <1>10, <2>2, GotoCall DEF RemoveDisableRead, RegisteredAt, Removing, RemovePcs
  <2>3. CASE u # call[t].u
    BY <1>10, <2>1, <2>3, RegisteredKept, ClearReadEffect DEF RemoveDisableRead
  <2>4. CASE e # call[t].e
    <3>1. Adding(e, u, {"addId"}) \/ Removing(e, u) => Adding(e, u, {"addId"})' \/ Removing(e, u)'
      BY <1>10, <2>1, <2>4 DEF RemoveDisableRead, Adding, Removing, MovesOnly
    <3> QED BY <1>10, <3>1, ClearReadEffect DEF RemoveDisableRead, RegisteredAt
  <2> QED BY <2>2, <2>3, <2>4
<1>11. ASSUME NEW t \in Apps, RemoveDisableWrite(t) PROVE RegisteredAt(e, u)'
  <2>1. MovesOnly(t)
    BY <1>11, GotoCall DEF RemoveDisableWrite, MovesOnly
  <2>2. CASE u = call[t].u /\ e = call[t].e
    BY <1>11, <2>2, GotoCall DEF RemoveDisableWrite, RegisteredAt, Removing, RemovePcs
  <2>3. CASE u # call[t].u
    BY <1>11, <2>1, <2>3, RegisteredKept, ClearWriteEffect DEF RemoveDisableWrite
  <2>4. CASE e # call[t].e
    <3>1. Adding(e, u, {"addId"}) \/ Removing(e, u) => Adding(e, u, {"addId"})' \/ Removing(e, u)'
      BY <1>11, <2>1, <2>4 DEF RemoveDisableWrite, Adding, Removing, MovesOnly
    <3> QED BY <1>11, <3>1, ClearWriteEffect DEF RemoveDisableWrite, RegisteredAt
  <2> QED BY <2>2, <2>3, <2>4
<1>12. ASSUME NEW t \in Apps, RemoveFromPoll(t) PROVE RegisteredAt(e, u)'
  <2>1. MovesOnly(t)
    BY <1>12, ReturnCall DEF RemoveFromPoll, MovesOnly
  <2>2. CASE u = call[t].u /\ e = call[t].e
    BY <1>12, <2>2 DEF RemoveFromPoll, RemoveUsock, RegisteredAt, TypeOK, EpollTypeOK
  <2>3. CASE ~(u = call[t].u /\ e = call[t].e)
    <3>1. Adding(e, u, {"addId"}) \/ Removing(e, u) => Adding(e, u, {"addId"})' \/ Removing(e, u)'
      BY <1>12, <2>1, <2>3 DEF RemoveFromPoll, Adding, Removing, MovesOnly
    <3> QED BY <1>12, <3>1, <2>3
            DEF RemoveFromPoll, RemoveUsock, RegisteredAt, TypeOK, EpollTypeOK
  <2> QED BY <2>2, <2>3
<1>13. ASSUME NEW t \in Apps, ReadDisable(t) PROVE RegisteredAt(e, u)'
  <2>1. MovesOnly(t)
    BY <1>13, ReturnCall DEF ReadDisable, MovesOnly
  <2> QED BY <1>13, <2>1, RegisteredKept, ClearReadEffect DEF ReadDisable
<1>14. ASSUME NEW t \in Apps, SendDisable(t) PROVE RegisteredAt(e, u)'
  <2>1. MovesOnly(t)
    BY <1>14, ReturnCall DEF SendDisable, MovesOnly
  <2> QED BY <1>14, <2>1, RegisteredKept, ClearWriteEffect DEF SendDisable
<1>15. ASSUME NEW t \in Apps \cup {GC}, CloseRemoveUsock(t)
      PROVE RegisteredAt(e, u)'
  <2>1. MovesOnly(t)
    BY <1>15, GotoCall, IterateCall DEF CloseRemoveUsock, MovesOnly
  <2>2. u \in socksIn'[e] \cup socksOut'[e] => u \in socksIn[e] \cup socksOut[e]
    BY SMTT(30), <1>15 DEF CloseRemoveUsock, RemoveUsock, TypeOK, EpollTypeOK
  <2>3. e \in mPolls /\ pollID' = pollID
    BY <1>15 DEF CloseRemoveUsock, RemoveUsock
  <2> QED BY <1>15, <2>1, <2>2, <2>3, RegisteredKept DEF CloseRemoveUsock
<1>16. ASSUME NEW t \in Apps \cup {GC}, CloseFlags(t) PROVE RegisteredAt(e, u)'
  BY <1>16, GotoCall
  DEF CloseFlags, RegisteredAt, Adding, Removing, RemovePcs, TypeOK, EpollTypeOK,
      SocketTypeOK
<1>17. ASSUME NEW t \in Apps \cup {GC}, CloseWait(t) PROVE RegisteredAt(e, u)'
  BY <1>17, GotoCall
  DEF CloseWait, RegisteredAt, Adding, Removing, RemovePcs, TypeOK, EpollTypeOK,
      SocketTypeOK
<1>18. ASSUME NEW v \in Socks, NEW k \in 1 .. SndBufSize, ProcessAck(v, k)
      PROVE RegisteredAt(e, u)'
  BY <1>18, BeginCall
  DEF ProcessAck, RegisteredAt, Adding, Removing, RemovePcs, TypeOK, EpollTypeOK,
      SocketTypeOK
<1>19. ASSUME AckEnableWrite PROVE RegisteredAt(e, u)'
  <2>1. MovesOnly(Worker)
    BY <1>19, GotoCall DEF AckEnableWrite, MovesOnly
  <2> QED BY <1>19, <2>1, RegisteredKept, NotifyWriteEffect DEF AckEnableWrite
<1>20. ASSUME NEW v \in Socks, NEW k \in 0 .. MaxMsgs, NEW j \in 0 .. MaxMsgs, SendAck(v, k, j)
      PROVE RegisteredAt(e, u)'
  BY <1>20, BeginCall
  DEF SendAck, RegisteredAt, Adding, Removing, RemovePcs, TypeOK, EpollTypeOK,
      SocketTypeOK
<1>21. ASSUME AckEnableRead PROVE RegisteredAt(e, u)'
  <2>1. MovesOnly(Worker)
    BY <1>21, ReturnCall DEF AckEnableRead, MovesOnly
  <2> QED BY <1>21, <2>1, RegisteredKept, NotifyReadEffect DEF AckEnableRead
<1>22. ASSUME ExpEnableRead PROVE RegisteredAt(e, u)'
  <2>1. MovesOnly(Worker)
    BY <1>22, GotoCall DEF ExpEnableRead, MovesOnly
  <2> QED BY <1>22, <2>1, RegisteredKept, NotifyReadEffect DEF ExpEnableRead
<1>23. ASSUME ExpEnableWrite PROVE RegisteredAt(e, u)'
  <2>1. MovesOnly(Worker)
    BY <1>23, ReturnCall DEF ExpEnableWrite, MovesOnly
  <2> QED BY <1>23, <2>1, RegisteredKept, NotifyWriteEffect DEF ExpEnableWrite
<1> QED
  BY <1>1, <1>2, <1>3, <1>4, <1>5, <1>6, <1>7, <1>8, <1>9, <1>10, <1>11, <1>12,
     <1>13, <1>14, <1>15, <1>16, <1>17, <1>18, <1>19, <1>20, <1>21, <1>22, <1>23 DEF Active

(* The steps that can disturb NoSilentRead.                                *)
LEMMA ReadStep ==
  ASSUME IInv, Typed', Active PROVE NoSilentRead'
<1>s. \A t \in Threads : ~At(t, "idle") => call[t].u \in Socks
  BY DEF IInv, Typed, CallsOK
<1>m. mPolls \subseteq Eids
  BY MaxPollsAssumption DEF IInv, Typed, TypeOK, EpollTypeOK, Eids
<1>c. TypeOK /\ CallTypeOK
  BY DEF IInv, Typed, TypeOK
<1>w. \A e \in Eids \ mPolls : socksIn[e] = {} /\ socksOut[e] = {}
  BY DEF IInv, ReadyOnlyIfWatched
<1>e. mPolls' \subseteq Eids
  BY MaxPollsAssumption DEF Typed, TypeOK, EpollTypeOK, Eids
<1> SUFFICES ASSUME NEW e \in mPolls', NEW u \in Socks, ReadDue(e, u)' PROVE ReadHeld(e, u)'
  BY DEF NoSilentRead
<1>o. e \in mPolls /\ ReadDue(e, u) => ReadHeld(e, u)
  BY DEF IInv, Signals, NoSilentRead
<1>r. e \in mPolls => RegisteredAt(e, u)
  BY DEF IInv, Signals, Registered
<1> USE <1>s, <1>m, <1>c, <1>o, <1>w, <1>e, ThreadsDiffer
    DEF sockVars, epollVars, NoNotify, At, In
<1>1. ASSUME NEW t \in Apps, EpollCreate(t) PROVE ReadHeld(e, u)'
  <2>1. e \in mPolls /\ UNCHANGED <<socksIn, reads, call, lostR, lostW>>
    BY <1>1 DEF EpollCreate, CreatePoll, ReadDue
  <2> QED BY <1>1, <2>1
          DEF EpollCreate, ReadDue, ReadHeld, Healthy, Adding, Removing, ClosingNow
<1>2. ASSUME NEW t \in Apps, NEW f \in Eids, EpollRelease(t, f)
      PROVE ReadHeld(e, u)'
  <2>1. e \in mPolls /\ e # f
    BY <1>2 DEF EpollRelease, ReleasePoll, TypeOK, EpollTypeOK
  <2> QED BY <1>2, <2>1
          DEF EpollRelease, ReleasePoll, ReadDue, ReadHeld, Healthy, Adding,
              Removing, ClosingNow, TypeOK, EpollTypeOK, SocketTypeOK
<1>3. ASSUME NEW t \in Apps, AddToPoll(t) PROVE ReadHeld(e, u)'
  <2>1. MovesOnly(t)
    BY <1>3, GotoCall, ReturnCall DEF AddToPoll, MovesOnly
  <2>2. CASE u = call[t].u /\ e = call[t].e
    <3>1. e \in mPolls
      BY <1>3 DEF AddToPoll, AddUsock
    <3> QED BY <1>3, <2>2, <3>1, GotoCall DEF AddToPoll, ReadHeld, Adding, AddPcs
  <2>3. CASE ~(u = call[t].u /\ e = call[t].e)
    <3>1. e \in mPolls /\ ReadDue(e, u)
      BY <1>3, <2>3 DEF AddToPoll, AddUsock, ReadDue, Healthy, TypeOK, EpollTypeOK
    <3> QED BY <1>3, <2>1, <3>1, ReadHeldKept DEF AddToPoll, AddUsock, ReadPcs
  <2> QED BY <2>2, <2>3
<1>4. ASSUME NEW t \in Apps, AddPollID(t) PROVE ReadHeld(e, u)'
  <2>1. MovesOnly(t)
    BY <1>4, GotoCall DEF AddPollID, MovesOnly
  <2>2. e \in mPolls /\ ReadDue(e, u)
    BY <1>4 DEF AddPollID, ReadDue, Healthy
  <2>3. CASE u = call[t].u /\ e = call[t].e
    BY <1>4, <2>2, <2>3, GotoCall DEF AddPollID, ReadHeld, Adding, AddPcs
  <2>4. CASE ~(u = call[t].u /\ e = call[t].e)
    BY <1>4, <2>1, <2>2, <2>4, ReadHeldElsewhere DEF AddPollID
  <2> QED BY <2>3, <2>4
<1>5. ASSUME NEW t \in Apps, AddCheckRead(t) PROVE ReadHeld(e, u)'
  <2>1. MovesOnly(t)
    BY <1>5, GotoCall, ReturnCall DEF AddCheckRead, MovesOnly
  <2>2. e \in mPolls /\ ReadDue(e, u)
    BY <1>5 DEF AddCheckRead, ReadDue, Healthy
  <2>3. CASE u = call[t].u /\ e = call[t].e
    BY <1>5, <2>2, <2>3, GotoCall, ReturnCall
    DEF AddCheckRead, ReadDue, Readable, ReadHeld, Adding, TypeOK, SocketTypeOK
  <2>4. CASE ~(u = call[t].u /\ e = call[t].e)
    BY <1>5, <2>1, <2>2, <2>4, ReadHeldElsewhere DEF AddCheckRead
  <2> QED BY <2>3, <2>4
<1>6. ASSUME NEW t \in Apps, AddEnableRead(t) PROVE ReadHeld(e, u)'
  <2>1. MovesOnly(t)
    BY <1>6, GotoCall DEF AddEnableRead, MovesOnly
  <2>2. e \in mPolls /\ ReadDue(e, u)
    BY <1>6, NotifyReadEffect DEF AddEnableRead, ReadDue, Healthy
  <2>3. CASE u # call[t].u
    BY <1>6, <2>1, <2>2, <2>3, ReadHeldKept, NotifyReadEffect DEF AddEnableRead
  <2>4. CASE u = call[t].u
    <3>1. CASE e \in pollID[u]
      BY <1>6, <2>2, <2>4, <3>1, NotifyReadEffect DEF AddEnableRead, ReadDue, ReadHeld
    <3>2. CASE Adding(e, u, {"addId"})
      <4>1. Adding(e, u, {"addId"})'
        BY <1>6, <2>1, <3>2 DEF AddEnableRead, Adding, MovesOnly
      <4> QED BY <4>1 DEF ReadHeld, Adding, AddPcs
    <3>3. CASE Removing(e, u)
      <4>1. Removing(e, u)'
        BY <1>6, <2>1, <3>3 DEF AddEnableRead, Removing, RemovePcs, MovesOnly
      <4> QED BY <4>1 DEF ReadHeld
    <3> QED BY <1>r, <2>2, <3>1, <3>2, <3>3 DEF RegisteredAt, ReadDue
  <2> QED BY <2>3, <2>4
<1>7. ASSUME NEW t \in Apps, AddCheckWrite(t) PROVE ReadHeld(e, u)'
  <2>1. MovesOnly(t)
    BY <1>7, GotoCall, ReturnCall DEF AddCheckWrite, MovesOnly
  <2>2. e \in mPolls /\ ReadDue(e, u)
    BY <1>7 DEF AddCheckWrite, ReadDue, Healthy
  <2> QED BY <1>7, <2>1, <2>2, ReadHeldKept DEF AddCheckWrite, ReadPcs
<1>8. ASSUME NEW t \in Apps, AddEnableWrite(t) PROVE ReadHeld(e, u)'
  <2>1. MovesOnly(t)
    BY <1>8, ReturnCall DEF AddEnableWrite, MovesOnly
  <2>2. e \in mPolls /\ ReadDue(e, u)
    BY <1>8, NotifyWriteEffect DEF AddEnableWrite, ReadDue, Healthy
  <2> QED BY <1>8, <2>1, <2>2, ReadHeldKept, NotifyWriteEffect
          DEF AddEnableWrite, ReadPcs
<1>9. ASSUME NEW t \in Apps, RemovePollID(t) PROVE ReadHeld(e, u)'
  <2>1. MovesOnly(t)
    BY <1>9, GotoCall DEF RemovePollID, MovesOnly
  <2>2. e \in mPolls /\ ReadDue(e, u)
    BY <1>9 DEF RemovePollID, ReadDue, Healthy
  <2>3. CASE u = call[t].u /\ e = call[t].e
    BY <1>9, <2>2, <2>3, GotoCall DEF RemovePollID, ReadHeld, Removing, RemovePcs
  <2>4. CASE ~(u = call[t].u /\ e = call[t].e)
    BY <1>9, <2>1, <2>2, <2>4, ReadHeldElsewhere DEF RemovePollID
  <2> QED BY <2>3, <2>4
<1>10. ASSUME NEW t \in Apps, RemoveDisableRead(t) PROVE ReadHeld(e, u)'
  <2>1. MovesOnly(t)
    BY <1>10, GotoCall DEF RemoveDisableRead, MovesOnly
  <2>2. e \in mPolls /\ ReadDue(e, u)
    BY <1>10, ClearReadEffect DEF RemoveDisableRead, ReadDue, Healthy
  <2>3. CASE u = call[t].u /\ e = call[t].e
    BY <1>10, <2>2, <2>3, GotoCall DEF RemoveDisableRead, ReadHeld, Removing, RemovePcs
  <2>4. CASE ~(u = call[t].u /\ e = call[t].e)
    <3>1. Readable(u)
      BY <2>2 DEF ReadDue, Readable, TypeOK, SocketTypeOK
    <3>2. u \in reads[e] \/ <<e, u>> \in lostR => u \in reads'[e] \/ <<e, u>> \in lostR'
      BY <1>10, <2>2, <3>1, ClearReadEffect DEF RemoveDisableRead
    <3> QED BY <1>10, <2>1, <2>2, <2>4, <3>2, ReadHeldElsewhere DEF RemoveDisableRead
  <2> QED BY <2>3, <2>4
<1>11. ASSUME NEW t \in Apps, RemoveDisableWrite(t) PROVE ReadHeld(e, u)'
  <2>1. MovesOnly(t)
    BY <1>11, GotoCall DEF RemoveDisableWrite, MovesOnly
  <2>2. e \in mPolls /\ ReadDue(e, u)
    BY <1>11, ClearWriteEffect DEF RemoveDisableWrite, ReadDue, Healthy
  <2>3. CASE u = call[t].u /\ e = call[t].e
    BY <1>11, <2>2, <2>3, GotoCall DEF RemoveDisableWrite, ReadHeld, Removing, RemovePcs
  <2>4. CASE ~(u = call[t].u /\ e = call[t].e)
    BY <1>11, <2>1, <2>2, <2>4, ReadHeldElsewhere, ClearWriteEffect
    DEF RemoveDisableWrite, ReadDue, Readable, TypeOK, SocketTypeOK
  <2> QED BY <2>3, <2>4
<1>12. ASSUME NEW t \in Apps, RemoveFromPoll(t) PROVE ReadHeld(e, u)'
  <2>1. MovesOnly(t)
    BY <1>12, ReturnCall DEF RemoveFromPoll, MovesOnly
  <2>2. e \in mPolls /\ ReadDue(e, u) /\ ~(u = call[t].u /\ e = call[t].e)
    BY <1>12 DEF RemoveFromPoll, RemoveUsock, ReadDue, Healthy, TypeOK, EpollTypeOK
  <2>3. Adding(e, u, {"addId", "addChkR", "addEnR"}) => Adding(e, u, {"addId", "addChkR", "addEnR"})'
    BY <1>12, <2>1 DEF RemoveFromPoll, MovesOnly, Adding, AddPcs
  <2>4. Removing(e, u) => Removing(e, u)'
    BY <1>12, <2>1, <2>2 DEF RemoveFromPoll, MovesOnly, Removing
  <2>5. ClosingNow(u) => ClosingNow(u)'
    BY <1>12, <2>1 DEF RemoveFromPoll, MovesOnly, ClosingNow
  <2>6. u \in reads[e] => u \in reads'[e]
    BY <1>12, <2>2 DEF RemoveFromPoll, RemoveUsock, TypeOK, EpollTypeOK
  <2> QED BY <1>12, <2>1, <2>2, <2>3, <2>4, <2>5, <2>6
          DEF RemoveFromPoll, MovesOnly, ReadHeld
<1>13. ASSUME NEW t \in Apps, ReadDisable(t) PROVE ReadHeld(e, u)'
  <2>1. MovesOnly(t)
    BY <1>13, ReturnCall DEF ReadDisable, MovesOnly
  <2>2. e \in mPolls /\ ReadDue(e, u)
    BY <1>13, ClearReadEffect DEF ReadDisable, ReadDue, Healthy
  <2>3. Readable(u)
    BY <2>2 DEF ReadDue, Readable, TypeOK, SocketTypeOK
  <2>4. u \in reads[e] \/ <<e, u>> \in lostR => u \in reads'[e] \/ <<e, u>> \in lostR'
    BY <1>13, <2>2, <2>3, ClearReadEffect DEF ReadDisable
  <2> QED BY <1>13, <2>1, <2>2, <2>4, ReadHeldKept DEF ReadDisable, ReadPcs
<1>14. ASSUME NEW t \in Apps, SendDisable(t) PROVE ReadHeld(e, u)'
  <2>1. MovesOnly(t)
    BY <1>14, ReturnCall DEF SendDisable, MovesOnly
  <2>2. e \in mPolls /\ ReadDue(e, u)
    BY <1>14, ClearWriteEffect DEF SendDisable, ReadDue, Healthy
  <2> QED BY <1>14, <2>1, <2>2, ReadHeldKept, ClearWriteEffect DEF SendDisable, ReadPcs
<1>15. ASSUME NEW t \in Apps \cup {GC}, CloseRemoveUsock(t)
      PROVE ReadHeld(e, u)'
  <2>1. MovesOnly(t)
    BY <1>15, GotoCall, IterateCall DEF CloseRemoveUsock, MovesOnly
  <2>2. e \in mPolls /\ ReadDue(e, u)
    BY SMTT(30), <1>15 DEF CloseRemoveUsock, RemoveUsock, ReadDue, Healthy, TypeOK, EpollTypeOK
  <2>3. CASE u = call[t].u
    <3>1. ClosingNow(u)'
      BY <1>15, <2>3, GotoCall, IterateCall DEF CloseRemoveUsock, ClosingNow
    <3> QED BY <3>1 DEF ReadHeld
  <2>4. CASE u # call[t].u
    <3>1. u \in reads[e] => u \in reads'[e]
      BY SMTT(30), <1>15, <2>4 DEF CloseRemoveUsock, RemoveUsock, TypeOK, EpollTypeOK
    <3> QED BY <1>15, <2>1, <2>2, <2>4, <3>1, ReadHeldKept DEF CloseRemoveUsock
  <2> QED BY <2>3, <2>4
<1>16. ASSUME NEW t \in Apps \cup {GC}, CloseFlags(t) PROVE ReadHeld(e, u)'
  <2>1. MovesOnly(t)
    BY <1>16, GotoCall DEF CloseFlags, MovesOnly
  <2>2. e \in mPolls /\ ReadDue(e, u) /\ u # call[t].u
    BY <1>16 DEF CloseFlags, ReadDue, Healthy, IInv, Signals, CloseOrder
  <2> QED BY <1>16, <2>1, <2>2, ReadHeldKept DEF CloseFlags
<1>17. ASSUME NEW t \in Apps \cup {GC}, CloseWait(t) PROVE ReadHeld(e, u)'
  <2>1. MovesOnly(t)
    BY <1>17, GotoCall DEF CloseWait, MovesOnly
  <2>2. e \in mPolls /\ ReadDue(e, u)
    BY <1>17 DEF CloseWait, ReadDue, Healthy
  <2> QED BY <1>17, <2>1, <2>2, ReadHeldKept DEF CloseWait, ReadPcs
<1>18. ASSUME NEW v \in Socks, NEW k \in 1 .. SndBufSize, ProcessAck(v, k)
      PROVE ReadHeld(e, u)'
  <2>1. MovesOnly(Worker)
    BY <1>18, BeginCall DEF ProcessAck, MovesOnly
  <2>2. e \in mPolls /\ ReadDue(e, u)
    BY <1>18 DEF ProcessAck, ReadDue, Healthy
  <2> QED BY <1>18, <2>1, <2>2, ReadHeldKept DEF ProcessAck, Serving, ReadPcs
<1>19. ASSUME AckEnableWrite PROVE ReadHeld(e, u)'
  <2>1. MovesOnly(Worker)
    BY <1>19, GotoCall DEF AckEnableWrite, MovesOnly
  <2>2. e \in mPolls /\ ReadDue(e, u)
    BY <1>19, NotifyWriteEffect DEF AckEnableWrite, ReadDue, Healthy
  <2> QED BY <1>19, <2>1, <2>2, ReadHeldKept, NotifyWriteEffect
          DEF AckEnableWrite, ReadPcs
<1>20. ASSUME NEW v \in Socks, NEW k \in 0 .. MaxMsgs, NEW j \in 0 .. MaxMsgs, SendAck(v, k, j)
      PROVE ReadHeld(e, u)'
  <2>1. MovesOnly(Worker)
    BY <1>20, BeginCall DEF SendAck, MovesOnly
  <2>2. CASE u = v
    BY <1>20, <2>2, BeginCall DEF SendAck, ReadHeld
  <2>3. CASE u # v
    <3>1. e \in mPolls /\ ReadDue(e, u)
      BY <1>20, <2>3 DEF SendAck, ReadDue, Healthy, TypeOK, SocketTypeOK
    <3> QED BY <1>20, <2>1, <3>1, ReadHeldKept
      DEF SendAck, InTimers, Serving, In, ReadPcs
  <2> QED BY <2>2, <2>3
<1>21. ASSUME AckEnableRead PROVE ReadHeld(e, u)'
  <2>1. MovesOnly(Worker)
    BY <1>21, ReturnCall DEF AckEnableRead, MovesOnly
  <2>2. e \in mPolls /\ ReadDue(e, u)
    BY <1>21, NotifyReadEffect DEF AckEnableRead, ReadDue, Healthy
  <2>3. CASE u # call[Worker].u
    BY <1>21, <2>1, <2>2, <2>3, ReadHeldKept, NotifyReadEffect DEF AckEnableRead
  <2>4. CASE u = call[Worker].u
    <3>1. CASE e \in pollID[u]
      BY <1>21, <2>2, <2>4, <3>1, NotifyReadEffect DEF AckEnableRead, ReadDue, ReadHeld
    <3>2. CASE Adding(e, u, {"addId"})
      <4>1. Adding(e, u, {"addId"})'
        BY <1>21, <2>1, <3>2 DEF AckEnableRead, Adding, MovesOnly
      <4> QED BY <4>1 DEF ReadHeld, Adding, AddPcs
    <3>3. CASE Removing(e, u)
      <4>1. Removing(e, u)'
        BY <1>21, <2>1, <3>3 DEF AckEnableRead, Removing, RemovePcs, MovesOnly
      <4> QED BY <4>1 DEF ReadHeld
    <3> QED BY <1>r, <2>2, <3>1, <3>2, <3>3 DEF RegisteredAt, ReadDue
  <2> QED BY <2>3, <2>4
<1>22. ASSUME ExpEnableRead PROVE ReadHeld(e, u)'
  <2>1. MovesOnly(Worker)
    BY <1>22, GotoCall DEF ExpEnableRead, MovesOnly
  <2>2. e \in mPolls /\ ReadDue(e, u)
    BY <1>22, NotifyReadEffect DEF ExpEnableRead, ReadDue, Healthy
  <2>3. CASE u # call[Worker].u
    BY <1>22, <2>1, <2>2, <2>3, ReadHeldKept, NotifyReadEffect DEF ExpEnableRead
  <2>4. CASE u = call[Worker].u
    <3>1. CASE e \in pollID[u]
      BY <1>22, <2>2, <2>4, <3>1, NotifyReadEffect DEF ExpEnableRead, ReadDue, ReadHeld
    <3>2. CASE Adding(e, u, {"addId"})
      <4>1. Adding(e, u, {"addId"})'
        BY <1>22, <2>1, <3>2 DEF ExpEnableRead, Adding, MovesOnly
      <4> QED BY <4>1 DEF ReadHeld, Adding, AddPcs
    <3>3. CASE Removing(e, u)
      <4>1. Removing(e, u)'
        BY <1>22, <2>1, <3>3 DEF ExpEnableRead, Removing, RemovePcs, MovesOnly
      <4> QED BY <4>1 DEF ReadHeld
    <3> QED BY <1>r, <2>2, <3>1, <3>2, <3>3 DEF RegisteredAt, ReadDue
  <2> QED BY <2>3, <2>4
<1>23. ASSUME ExpEnableWrite PROVE ReadHeld(e, u)'
  <2>1. MovesOnly(Worker)
    BY <1>23, ReturnCall DEF ExpEnableWrite, MovesOnly
  <2>2. e \in mPolls /\ ReadDue(e, u)
    BY <1>23, NotifyWriteEffect DEF ExpEnableWrite, ReadDue, Healthy
  <2> QED BY <1>23, <2>1, <2>2, ReadHeldKept, NotifyWriteEffect
          DEF ExpEnableWrite, ReadPcs
<1> QED
  BY <1>1, <1>2, <1>3, <1>4, <1>5, <1>6, <1>7, <1>8, <1>9, <1>10, <1>11, <1>12,
     <1>13, <1>14, <1>15, <1>16, <1>17, <1>18, <1>19, <1>20, <1>21, <1>22, <1>23 DEF Active

(* The steps that can disturb NoSilentWrite.                               *)
LEMMA WriteStep ==
  ASSUME IInv, Typed', Active PROVE NoSilentWrite'
<1>s. \A t \in Threads : ~At(t, "idle") => call[t].u \in Socks
  BY DEF IInv, Typed, CallsOK
<1>m. mPolls \subseteq Eids
  BY MaxPollsAssumption DEF IInv, Typed, TypeOK, EpollTypeOK, Eids
<1>c. TypeOK /\ CallTypeOK
  BY DEF IInv, Typed, TypeOK
<1>w. \A e \in Eids \ mPolls : socksIn[e] = {} /\ socksOut[e] = {}
  BY DEF IInv, ReadyOnlyIfWatched
<1>e. mPolls' \subseteq Eids
  BY MaxPollsAssumption DEF Typed, TypeOK, EpollTypeOK, Eids
<1> SUFFICES ASSUME NEW e \in mPolls', NEW u \in Socks, WriteDue(e, u)' PROVE WriteHeld(e, u)'
  BY DEF NoSilentWrite
<1>o. e \in mPolls /\ WriteDue(e, u) => WriteHeld(e, u)
  BY DEF IInv, Signals, NoSilentWrite
<1>r. e \in mPolls => RegisteredAt(e, u)
  BY DEF IInv, Signals, Registered
<1> USE <1>s, <1>m, <1>c, <1>o, <1>w, <1>e, ThreadsDiffer
    DEF sockVars, epollVars, NoNotify, At, In
<1>1. ASSUME NEW t \in Apps, EpollCreate(t) PROVE WriteHeld(e, u)'
  <2>1. e \in mPolls /\ UNCHANGED <<socksOut, writes, call, lostR, lostW>>
    BY <1>1 DEF EpollCreate, CreatePoll, WriteDue
  <2> QED BY <1>1, <2>1
          DEF EpollCreate, WriteDue, WriteHeld, Healthy, Adding, Removing, ClosingNow
<1>2. ASSUME NEW t \in Apps, NEW f \in Eids, EpollRelease(t, f)
      PROVE WriteHeld(e, u)'
  <2>1. e \in mPolls /\ e # f
    BY <1>2 DEF EpollRelease, ReleasePoll, TypeOK, EpollTypeOK
  <2> QED BY <1>2, <2>1
          DEF EpollRelease, ReleasePoll, WriteDue, WriteHeld, Healthy, Adding,
              Removing, ClosingNow, TypeOK, EpollTypeOK, SocketTypeOK
<1>3. ASSUME NEW t \in Apps, AddToPoll(t) PROVE WriteHeld(e, u)'
  <2>1. MovesOnly(t)
    BY <1>3, GotoCall, ReturnCall DEF AddToPoll, MovesOnly
  <2>2. CASE u = call[t].u /\ e = call[t].e
    <3>1. e \in mPolls
      BY <1>3 DEF AddToPoll, AddUsock
    <3> QED BY <1>3, <2>2, <3>1, GotoCall DEF AddToPoll, WriteHeld, Adding, AddPcs
  <2>3. CASE ~(u = call[t].u /\ e = call[t].e)
    <3>1. e \in mPolls /\ WriteDue(e, u)
      BY <1>3, <2>3 DEF AddToPoll, AddUsock, WriteDue, Healthy, TypeOK, EpollTypeOK
    <3> QED BY <1>3, <2>1, <3>1, WriteHeldKept DEF AddToPoll, AddUsock, WritePcs
  <2> QED BY <2>2, <2>3
<1>4. ASSUME NEW t \in Apps, AddPollID(t) PROVE WriteHeld(e, u)'
  <2>1. MovesOnly(t)
    BY <1>4, GotoCall DEF AddPollID, MovesOnly
  <2>2. e \in mPolls /\ WriteDue(e, u)
    BY <1>4 DEF AddPollID, WriteDue, Healthy
  <2>3. CASE u = call[t].u /\ e = call[t].e
    BY <1>4, <2>2, <2>3, GotoCall DEF AddPollID, WriteHeld, Adding, AddPcs
  <2>4. CASE ~(u = call[t].u /\ e = call[t].e)
    BY <1>4, <2>1, <2>2, <2>4, WriteHeldElsewhere DEF AddPollID
  <2> QED BY <2>3, <2>4
<1>5. ASSUME NEW t \in Apps, AddCheckRead(t) PROVE WriteHeld(e, u)'
  <2>1. MovesOnly(t)
    BY <1>5, GotoCall, ReturnCall DEF AddCheckRead, MovesOnly
  <2>2. e \in mPolls /\ WriteDue(e, u)
    BY <1>5 DEF AddCheckRead, WriteDue, Healthy
  <2>3. CASE u = call[t].u /\ e = call[t].e
    BY <1>5, <2>2, <2>3, GotoCall, ReturnCall
    DEF AddCheckRead, WriteHeld, WriteDue, Adding, AddPcs
  <2>4. CASE ~(u = call[t].u /\ e = call[t].e)
    BY <1>5, <2>1, <2>2, <2>4, WriteHeldElsewhere DEF AddCheckRead
  <2> QED BY <2>3, <2>4
<1>6. ASSUME NEW t \in Apps, AddEnableRead(t) PROVE WriteHeld(e, u)'
  <2>1. MovesOnly(t)
    BY <1>6, GotoCall DEF AddEnableRead, MovesOnly
  <2>2. e \in mPolls /\ WriteDue(e, u)
    BY <1>6, NotifyReadEffect DEF AddEnableRead, WriteDue, Healthy
  <2>3. CASE u = call[t].u /\ e = call[t].e
    BY <1>6, <2>2, <2>3, GotoCall DEF AddEnableRead, WriteHeld, Adding, AddPcs
  <2>4. CASE ~(u = call[t].u /\ e = call[t].e)
    BY <1>6, <2>1, <2>2, <2>4, WriteHeldElsewhere, NotifyReadEffect DEF AddEnableRead
  <2> QED BY <2>3, <2>4
<1>7. ASSUME NEW t \in Apps, AddCheckWrite(t) PROVE WriteHeld(e, u)'
  <2>1. MovesOnly(t)
    BY <1>7, GotoCall, ReturnCall DEF AddCheckWrite, MovesOnly
  <2>2. e \in mPolls /\ WriteDue(e, u)
    BY <1>7 DEF AddCheckWrite, WriteDue, Healthy
  <2>3. CASE u = call[t].u /\ e = call[t].e
    BY <1>7, <2>2, <2>3, GotoCall, ReturnCall, ConstantsAssumption
    DEF AddCheckWrite, WriteHeld, WriteDue, Adding, AddPcs, TypeOK, SocketTypeOK
  <2>4. CASE ~(u = call[t].u /\ e = call[t].e)
    BY <1>7, <2>1, <2>2, <2>4, WriteHeldElsewhere DEF AddCheckWrite
  <2> QED BY <2>3, <2>4
<1>8. ASSUME NEW t \in Apps, AddEnableWrite(t) PROVE WriteHeld(e, u)'
  <2>1. MovesOnly(t)
    BY <1>8, ReturnCall DEF AddEnableWrite, MovesOnly
  <2>2. e \in mPolls /\ WriteDue(e, u)
    BY <1>8, NotifyWriteEffect DEF AddEnableWrite, WriteDue, Healthy
  <2>3. CASE u # call[t].u
    BY <1>8, <2>1, <2>2, <2>3, WriteHeldKept, NotifyWriteEffect DEF AddEnableWrite
  <2>4. CASE u = call[t].u
    <3>1. CASE e \in pollID[u]
      BY <1>8, <2>2, <2>4, <3>1, NotifyWriteEffect
      DEF AddEnableWrite, WriteDue, WriteHeld
    <3>2. CASE Adding(e, u, {"addId"})
      <4>1. Adding(e, u, {"addId"})'
        BY <1>8, <2>1, <3>2 DEF AddEnableWrite, Adding, MovesOnly
      <4> QED BY <4>1 DEF WriteHeld, Adding, AddPcs
    <3>3. CASE Removing(e, u)
      <4>1. Removing(e, u)'
        BY <1>8, <2>1, <3>3 DEF AddEnableWrite, Removing, RemovePcs, MovesOnly
      <4> QED BY <4>1 DEF WriteHeld
    <3> QED BY <1>r, <2>2, <3>1, <3>2, <3>3 DEF RegisteredAt, WriteDue
  <2> QED BY <2>3, <2>4
<1>9. ASSUME NEW t \in Apps, RemovePollID(t) PROVE WriteHeld(e, u)'
  <2>1. MovesOnly(t)
    BY <1>9, GotoCall DEF RemovePollID, MovesOnly
  <2>2. e \in mPolls /\ WriteDue(e, u)
    BY <1>9 DEF RemovePollID, WriteDue, Healthy
  <2>3. CASE u = call[t].u /\ e = call[t].e
    BY <1>9, <2>2, <2>3, GotoCall DEF RemovePollID, WriteHeld, Removing, RemovePcs
  <2>4. CASE ~(u = call[t].u /\ e = call[t].e)
    BY <1>9, <2>1, <2>2, <2>4, WriteHeldElsewhere DEF RemovePollID
  <2> QED BY <2>3, <2>4
<1>10. ASSUME NEW t \in Apps, RemoveDisableRead(t) PROVE WriteHeld(e, u)'
  <2>1. MovesOnly(t)
    BY <1>10, GotoCall DEF RemoveDisableRead, MovesOnly
  <2>2. e \in mPolls /\ WriteDue(e, u)
    BY <1>10, ClearReadEffect DEF RemoveDisableRead, WriteDue, Healthy
  <2>3. CASE u = call[t].u /\ e = call[t].e
    BY <1>10, <2>2, <2>3, GotoCall DEF RemoveDisableRead, WriteHeld, Removing, RemovePcs
  <2>4. CASE ~(u = call[t].u /\ e = call[t].e)
    BY <1>10, <2>1, <2>2, <2>4, WriteHeldElsewhere, ClearReadEffect
    DEF RemoveDisableRead, WriteDue, Readable, TypeOK, SocketTypeOK
  <2> QED BY <2>3, <2>4
<1>11. ASSUME NEW t \in Apps, RemoveDisableWrite(t) PROVE WriteHeld(e, u)'
  <2>1. MovesOnly(t)
    BY <1>11, GotoCall DEF RemoveDisableWrite, MovesOnly
  <2>2. e \in mPolls /\ WriteDue(e, u)
    BY <1>11, ClearWriteEffect DEF RemoveDisableWrite, WriteDue, Healthy
  <2>3. CASE u = call[t].u /\ e = call[t].e
    BY <1>11, <2>2, <2>3, GotoCall
    DEF RemoveDisableWrite, WriteHeld, Removing, RemovePcs
  <2>4. CASE ~(u = call[t].u /\ e = call[t].e)
    BY <1>11, <2>1, <2>2, <2>4, WriteHeldElsewhere, ClearWriteEffect
    DEF RemoveDisableWrite, WriteDue, Readable, TypeOK, SocketTypeOK
  <2> QED BY <2>3, <2>4
<1>12. ASSUME NEW t \in Apps, RemoveFromPoll(t) PROVE WriteHeld(e, u)'
  <2>1. MovesOnly(t)
    BY <1>12, ReturnCall DEF RemoveFromPoll, MovesOnly
  <2>2. e \in mPolls /\ WriteDue(e, u) /\ ~(u = call[t].u /\ e = call[t].e)
    BY <1>12 DEF RemoveFromPoll, RemoveUsock, WriteDue, Healthy, TypeOK, EpollTypeOK
  <2>3. Adding(e, u, AddPcs \ {"add"}) => Adding(e, u, AddPcs \ {"add"})'
    BY <1>12, <2>1 DEF RemoveFromPoll, MovesOnly, Adding, AddPcs
  <2>4. Removing(e, u) => Removing(e, u)'
    BY <1>12, <2>1, <2>2 DEF RemoveFromPoll, MovesOnly, Removing
  <2>5. ClosingNow(u) => ClosingNow(u)'
    BY <1>12, <2>1 DEF RemoveFromPoll, MovesOnly, ClosingNow
  <2>6. u \in writes[e] => u \in writes'[e]
    BY <1>12, <2>2 DEF RemoveFromPoll, RemoveUsock, TypeOK, EpollTypeOK
  <2> QED BY <1>12, <2>1, <2>2, <2>3, <2>4, <2>5, <2>6
          DEF RemoveFromPoll, MovesOnly, WriteHeld
<1>13. ASSUME NEW t \in Apps, ReadDisable(t) PROVE WriteHeld(e, u)'
  <2>1. MovesOnly(t)
    BY <1>13, ReturnCall DEF ReadDisable, MovesOnly
  <2>2. e \in mPolls /\ WriteDue(e, u)
    BY <1>13, ClearReadEffect DEF ReadDisable, WriteDue, Healthy
  <2> QED BY <1>13, <2>1, <2>2, WriteHeldKept, ClearReadEffect DEF ReadDisable, WritePcs
<1>14. ASSUME NEW t \in Apps, SendDisable(t) PROVE WriteHeld(e, u)'
  <2>1. MovesOnly(t)
    BY <1>14, ReturnCall DEF SendDisable, MovesOnly
  <2>2. e \in mPolls /\ WriteDue(e, u)
    BY <1>14, ClearWriteEffect DEF SendDisable, WriteDue, Healthy
  <2> QED BY <1>14, <2>1, <2>2, WriteHeldKept, ClearWriteEffect
          DEF SendDisable, WritePcs, WriteDue
<1>15. ASSUME NEW t \in Apps \cup {GC}, CloseRemoveUsock(t)
      PROVE WriteHeld(e, u)'
  <2>1. MovesOnly(t)
    BY <1>15, GotoCall, IterateCall DEF CloseRemoveUsock, MovesOnly
  <2>2. e \in mPolls /\ WriteDue(e, u)
    BY SMTT(30), <1>15 DEF CloseRemoveUsock, RemoveUsock, WriteDue, Healthy, TypeOK, EpollTypeOK
  <2>3. CASE u = call[t].u
    <3>1. ClosingNow(u)'
      BY <1>15, <2>3, GotoCall, IterateCall DEF CloseRemoveUsock, ClosingNow
    <3> QED BY <3>1 DEF WriteHeld
  <2>4. CASE u # call[t].u
    <3>1. u \in writes[e] => u \in writes'[e]
      BY SMTT(30), <1>15, <2>4 DEF CloseRemoveUsock, RemoveUsock, TypeOK, EpollTypeOK
    <3> QED BY <1>15, <2>1, <2>2, <2>4, <3>1, WriteHeldKept DEF CloseRemoveUsock
  <2> QED BY <2>3, <2>4
<1>16. ASSUME NEW t \in Apps \cup {GC}, CloseFlags(t) PROVE WriteHeld(e, u)'
  <2>1. MovesOnly(t)
    BY <1>16, GotoCall DEF CloseFlags, MovesOnly
  <2>2. e \in mPolls /\ WriteDue(e, u) /\ u # call[t].u
    BY <1>16 DEF CloseFlags, WriteDue, Healthy, IInv, Signals, CloseOrder
  <2> QED BY <1>16, <2>1, <2>2, WriteHeldKept DEF CloseFlags
<1>17. ASSUME NEW t \in Apps \cup {GC}, CloseWait(t) PROVE WriteHeld(e, u)'
  <2>1. MovesOnly(t)
    BY <1>17, GotoCall DEF CloseWait, MovesOnly
  <2>2. e \in mPolls /\ WriteDue(e, u)
    BY <1>17 DEF CloseWait, WriteDue, Healthy
  <2> QED BY <1>17, <2>1, <2>2, WriteHeldKept DEF CloseWait, WritePcs
<1>18. ASSUME NEW v \in Socks, NEW k \in 1 .. SndBufSize, ProcessAck(v, k)
      PROVE WriteHeld(e, u)'
  <2>1. MovesOnly(Worker)
    BY <1>18, BeginCall DEF ProcessAck, MovesOnly
  <2>2. CASE u = v
    BY <1>18, <2>2, BeginCall DEF ProcessAck, WriteHeld
  <2>3. CASE u # v
    <3>1. e \in mPolls /\ WriteDue(e, u)
      BY <1>18, <2>3 DEF ProcessAck, WriteDue, Healthy, TypeOK, SocketTypeOK
    <3> QED BY <1>18, <2>1, <3>1, WriteHeldKept DEF ProcessAck, Serving, WritePcs
  <2> QED BY <2>2, <2>3
<1>19. ASSUME AckEnableWrite PROVE WriteHeld(e, u)'
  <2>1. MovesOnly(Worker)
    BY <1>19, GotoCall DEF AckEnableWrite, MovesOnly
  <2>2. e \in mPolls /\ WriteDue(e, u)
    BY <1>19, NotifyWriteEffect DEF AckEnableWrite, WriteDue, Healthy
  <2>3. CASE u # call[Worker].u
    BY <1>19, <2>1, <2>2, <2>3, WriteHeldKept, NotifyWriteEffect DEF AckEnableWrite
  <2>4. CASE u = call[Worker].u
    <3>1. CASE e \in pollID[u]
      BY <1>19, <2>2, <2>4, <3>1, NotifyWriteEffect
      DEF AckEnableWrite, WriteDue, WriteHeld
    <3>2. CASE Adding(e, u, {"addId"})
      <4>1. Adding(e, u, {"addId"})'
        BY <1>19, <2>1, <3>2 DEF AckEnableWrite, Adding, MovesOnly
      <4> QED BY <4>1 DEF WriteHeld, Adding, AddPcs
    <3>3. CASE Removing(e, u)
      <4>1. Removing(e, u)'
        BY <1>19, <2>1, <3>3 DEF AckEnableWrite, Removing, RemovePcs, MovesOnly
      <4> QED BY <4>1 DEF WriteHeld
    <3> QED BY <1>r, <2>2, <3>1, <3>2, <3>3 DEF RegisteredAt, WriteDue
  <2> QED BY <2>3, <2>4
<1>20. ASSUME NEW v \in Socks, NEW k \in 0 .. MaxMsgs, NEW j \in 0 .. MaxMsgs, SendAck(v, k, j)
      PROVE WriteHeld(e, u)'
  <2>1. MovesOnly(Worker)
    BY <1>20, BeginCall DEF SendAck, MovesOnly
  <2>2. e \in mPolls /\ WriteDue(e, u)
    BY <1>20 DEF SendAck, WriteDue, Healthy
  <2> QED BY <1>20, <2>1, <2>2, WriteHeldKept
    DEF SendAck, InTimers, Serving, In, WritePcs
<1>21. ASSUME AckEnableRead PROVE WriteHeld(e, u)'
  <2>1. MovesOnly(Worker)
    BY <1>21, ReturnCall DEF AckEnableRead, MovesOnly
  <2>2. e \in mPolls /\ WriteDue(e, u)
    BY <1>21, NotifyReadEffect DEF AckEnableRead, WriteDue, Healthy
  <2> QED BY <1>21, <2>1, <2>2, WriteHeldKept, NotifyReadEffect
          DEF AckEnableRead, WritePcs
<1>22. ASSUME ExpEnableRead PROVE WriteHeld(e, u)'
  <2>1. MovesOnly(Worker)
    BY <1>22, GotoCall DEF ExpEnableRead, MovesOnly
  <2>2. e \in mPolls /\ WriteDue(e, u)
    BY <1>22, NotifyReadEffect DEF ExpEnableRead, WriteDue, Healthy
  <2> QED BY <1>22, <2>1, <2>2, WriteHeldKept, NotifyReadEffect
          DEF ExpEnableRead, WritePcs
<1>23. ASSUME ExpEnableWrite PROVE WriteHeld(e, u)'
  <2>1. MovesOnly(Worker)
    BY <1>23, ReturnCall DEF ExpEnableWrite, MovesOnly
  <2>2. e \in mPolls /\ WriteDue(e, u)
    BY <1>23, NotifyWriteEffect DEF ExpEnableWrite, WriteDue, Healthy
  <2>3. CASE u # call[Worker].u
    BY <1>23, <2>1, <2>2, <2>3, WriteHeldKept, NotifyWriteEffect DEF ExpEnableWrite
  <2>4. CASE u = call[Worker].u
    <3>1. CASE e \in pollID[u]
      BY <1>23, <2>2, <2>4, <3>1, NotifyWriteEffect
      DEF ExpEnableWrite, WriteDue, WriteHeld
    <3>2. CASE Adding(e, u, {"addId"})
      <4>1. Adding(e, u, {"addId"})'
        BY <1>23, <2>1, <3>2 DEF ExpEnableWrite, Adding, MovesOnly
      <4> QED BY <4>1 DEF WriteHeld, Adding, AddPcs
    <3>3. CASE Removing(e, u)
      <4>1. Removing(e, u)'
        BY <1>23, <2>1, <3>3 DEF ExpEnableWrite, Removing, RemovePcs, MovesOnly
      <4> QED BY <4>1 DEF WriteHeld
    <3> QED BY <1>r, <2>2, <3>1, <3>2, <3>3 DEF RegisteredAt, WriteDue
  <2> QED BY <2>3, <2>4
<1> QED
  BY <1>1, <1>2, <1>3, <1>4, <1>5, <1>6, <1>7, <1>8, <1>9, <1>10, <1>11, <1>12,
     <1>13, <1>14, <1>15, <1>16, <1>17, <1>18, <1>19, <1>20, <1>21, <1>22, <1>23 DEF Active

-----------------------------------------------------------------------------
(* The induction, and what follows from it.                                *)

(* The invariant is inductive.                                             *)
LEMMA IInvStep == IInv /\ [Next]_vars => IInv'
<1> SUFFICES ASSUME IInv, [Next]_vars PROVE IInv'
  OBVIOUS
<1>1. EpollInv'
  BY PollStep, EpollStep DEF IInv, Typed, TypeOK, EpollInv
<1>2. Typed'
  BY <1>1, TypeStep DEF IInv, Typed, TypeOK, TypedRest, EpollInv
<1>3. ASSUME Active PROVE Signals'
  BY <1>2, <1>3, RegisteredStep, CloseOrderStep, ReadStep, WriteStep DEF Signals
<1>4. ASSUME Passive PROVE Signals'
  BY <1>2, <1>4, PassiveIsQuiet, QuietKeeps DEF IInv, Typed, TypeOK
<1>5. ASSUME UNCHANGED vars PROVE Signals'
  <2>1. Registered'
    BY <1>5 DEF vars, epollVars, sockVars, IInv, Signals, Registered, RegisteredAt,
                Adding, Removing, In
  <2>2. CloseOrder'
    BY <1>5 DEF vars, sockVars, IInv, Signals, CloseOrder, At
  <2>3. NoSilentRead'
    BY <1>5
    DEF vars, epollVars, sockVars, IInv, Signals, NoSilentRead, ReadDue, ReadHeld,
                Healthy, Adding, Removing, ClosingNow, In
  <2>4. NoSilentWrite'
    BY <1>5
    DEF vars, epollVars, sockVars, IInv, Signals, NoSilentWrite, WriteDue, WriteHeld,
                Healthy, Adding, Removing, ClosingNow, In
  <2> QED BY <2>1, <2>2, <2>3, <2>4 DEF Signals
<1>6. Signals'
  BY <1>3, <1>4, <1>5, NextSplit DEF IInv
<1> QED
  BY <1>1, <1>2, <1>6 DEF IInv, EpollInv

(* So it always holds.                                                     *)
LEMMA AlwaysIInv == Spec => []IInv
<1> QED BY InitIInv, IInvStep, PTL DEF Spec

(* Every variable keeps its type: in particular a send buffer never holds  *)
(* more than its size, whatever two senders and the receive-queue thread   *)
(* do to it.                                                               *)
THEOREM TypeCorrect == Spec => []TypeOK
<1>1. IInv => TypeOK
  BY DEF IInv, Typed
<1> QED BY <1>1, AlwaysIInv, PTL

(* An epoll reports only sockets it watches, and a released one nothing.   *)
THEOREM OnlyWatched == Spec => []ReadyOnlyIfWatched
<1>1. IInv => ReadyOnlyIfWatched
  BY DEF IInv
<1> QED BY <1>1, AlwaysIInv, PTL

(* No message becomes readable in silence (addEPoll, sendCtrl, recvmsg,    *)
(* removeEPoll and close, in every interleaving).                          *)
THEOREM ReadNeverSilent == Spec => []NoSilentRead
<1>1. IInv => NoSilentRead
  BY DEF IInv, Signals
<1> QED BY <1>1, AlwaysIInv, PTL

(* No room in a send buffer comes about in silence (addEPoll, processCtrl, *)
(* sendmsg, removeEPoll and close).                                        *)
THEOREM WriteNeverSilent == Spec => []NoSilentWrite
<1>1. IInv => NoSilentWrite
  BY DEF IInv, Signals
<1> QED BY <1>1, AlwaysIInv, PTL

(* The threads together use the table of epolls as CEPoll says it may be   *)
(* used: they never watch or unwatch through an epoll that does not exist. *)
THEOREM UsesEpollTable == Spec => EpollSpec
<1>1. Init => EpollInit
  BY DEF Init
<1>2. IInv /\ [Next]_vars => [EpollNext]_epollVars
  BY PollStep DEF IInv
<1> QED BY <1>1, <1>2, AlwaysIInv, PTL DEF Spec, EpollSpec
-----------------------------------------------------------------------------
(***************************************************************************)
(* That no epoll watches a destroyed socket (DestroyedNotWatched), for any *)
(* number of sockets and epolls, without linger, when epolls are not       *)
(* released and one thread of the application adds and closes sockets.     *)
(* With a second thread it is false: epoll_add_usock can add the socket    *)
(* behind close()'s loop over m_sPollID.                                   *)
(***************************************************************************)
OneThread == \A s, t \in Apps : s = t
SimpleTeardown == OneThread /\ ~LingerOn /\ "release" \notin AppOps

Watches(e, u) == u \in socksIn[e] \cup socksOut[e]

(* m_sPollID names epolls that exist: the loop of close() is not cut short. *)
PollsExist ==
  /\ \A u \in Socks : pollID[u] \subseteq mPolls
  /\ \A t \in Apps : call[t].pc \in AddPcs \ {"add"} => call[t].e \in mPolls

(* The collector removes a socket that nobody else uses any more.          *)
CollectorAlone ==
  \A u \in Socks :
    In(GC, ClosePcs, u) => status[u] # "connected" /\ \A t \in Apps : call[t].u # u

(* close() starts with no epoll passed; the epolls its loop has passed do  *)
(* not watch the socket, and behind the loop none does.                    *)
LoopTakesOut ==
  /\ \A t \in Threads : call[t].pc \in {"close", "clLinger"} => call[t].e = 0
  /\ \A t \in Threads, u \in Socks, e \in Eids :
       Watches(e, u) => /\ In(t, {"clPolls"}, u) => e > call[t].e
                        /\ ~In(t, {"clFlags", "clWait", "clDone"}, u)

(* A socket that is not opened any more is watched by no epoll, and will   *)
(* not be: no thread is adding it, and none can locate it.                 *)
UnopenedLeft ==
  \A u \in Socks :
    /\ u \notin opened => /\ \A e \in Eids : ~Watches(e, u)
                          /\ \A t \in Apps : ~In(t, AddPcs, u)
                          /\ status[u] = "connected" => \E t \in Apps : In(t, {"clDone"}, u)
    /\ status[u] = "destroyed" => u \notin opened
    /\ \A t \in Threads : In(t, {"clDone"}, u) => u \notin opened

Leaving == PollsExist /\ CollectorAlone /\ LoopTakesOut /\ UnopenedLeft

(* Nobody watches or adds anything at the start.                           *)
LEMMA LeavingInit == Init => Leaving
  BY ThreadsDiffer
  DEF Init, EpollInit, NoSocks, Leaving, PollsExist, CollectorAlone, LoopTakesOut,
      UnopenedLeft, Watches, In, Idle, AddPcs, ClosePcs

(* A nonempty set of epolls has a first one.                               *)
LEMMA FirstEpoll ==
  ASSUME NEW S \in SUBSET Eids, S # {}
  PROVE  Min(S) \in S /\ \A e \in S : Min(S) <= e
<1> DEFINE Below == {1 .. e : e \in S}
<1>1. Below \subseteq FiniteSubsetsOf(Nat) /\ Below # {}
  <2>1. \A e \in S : 1 .. e \in SUBSET Nat /\ IsFiniteSet(1 .. e)
    BY FS_Interval, MaxPollsAssumption DEF Eids
  <2> QED BY <2>1, Zenon DEF FiniteSubsetsOf
<1>2. PICK B \in Below : \A C \in Below : <<C, B>> \notin StrictSubsetOrdering(Nat)
  <2> HIDE DEF Below
  <2> QED BY <1>1, FS_StrictSubsetOrderingWellFounded, WFMin
<1>3. PICK d \in S : B = 1 .. d
  OBVIOUS
<1>4. \A e \in S : 1 .. e \subseteq 1 .. d => 1 .. e = 1 .. d
  <2> TAKE e \in S
  <2>1. 1 .. e \in SUBSET Nat /\ 1 .. d \in SUBSET Nat
    BY DEF Eids
  <2>2. <<1 .. e, 1 .. d>> \notin StrictSubsetOrdering(Nat)
    BY <1>2, <1>3, Zenon
  <2>3. <<1 .. e, 1 .. d>> \in (SUBSET Nat) \X (SUBSET Nat)
    BY <2>1, Zenon
  <2> QED BY <2>2, <2>3, Zenon DEF StrictSubsetOrdering
<1>5. \A e \in S : d <= e
  BY <1>4, MaxPollsAssumption DEF Eids
<1> QED BY <1>5 DEF Min

(* A thread that returns is busy with no socket.                           *)
LEMMA ReturnsFromSock ==
  ASSUME CallTypeOK, NEW t \in Threads, Return(t) PROVE call'[t].u = NoSock
  BY DEF CallTypeOK, Return, Idle

(***************************************************************************)
(* The steps that touch none of this: no epoll begins to watch, no socket  *)
(* changes its state, and the thread that moves is neither closing a       *)
(* socket nor about to.                                                    *)
(***************************************************************************)
PollsKept ==
  /\ mPolls \subseteq mPolls' /\ \A u \in Socks : pollID'[u] \subseteq mPolls'
  /\ \A e \in Eids, u \in Socks : Watches(e, u)' => Watches(e, u)

Harmless(t) ==
  /\ MovesOnly(t) /\ PollsKept /\ UNCHANGED <<opened, status>>
  /\ t # GC /\ call[t].pc \notin ClosePcs \ {"close"}
  /\ call'[t].pc \notin {"clPolls", "clFlags", "clWait", "clDone"}
  /\ call'[t].pc \in {"close", "clLinger"} => call'[t].e = 0
  /\ call'[t].pc \in AddPcs => /\ call[t].pc \in AddPcs \ {"add"}
                               /\ call'[t].e = call[t].e /\ call'[t].u = call[t].u
  /\ t \in Apps => call'[t].u \in {call[t].u, NoSock} \/ ControlLockFree

LEMMA HarmlessKeeps ==
  ASSUME Typed, Leaving, NEW t \in Threads, Harmless(t) PROVE Leaving'
<1> USE ThreadsDiffer DEF Leaving, Harmless, MovesOnly, PollsKept
<1>1. PollsExist'
  BY DEF PollsExist
<1>2. CollectorAlone'
  BY ConstantsAssumption DEF CollectorAlone, In, ControlLockFree, At, ClosePcs
<1>3. LoopTakesOut'
  BY DEF LoopTakesOut, In
<1>4. UnopenedLeft'
  BY DEF UnopenedLeft, In, ClosePcs
<1> QED BY <1>1, <1>2, <1>3, <1>4

(* What a notification changes is none of it.                              *)
LEMMA NotifyKeepsPolls ==
  ASSUME Typed, Leaving, NEW u \in Socks,
         NotifyRead(u) \/ NotifyWrite(u) \/ ClearRead(u) \/ ClearWrite(u)
  PROVE  PollsKept
  BY DEF Typed, TypeOK, SocketTypeOK, Leaving, PollsExist, PollsKept, Watches, NotifyRead,
         NotifyWrite, ClearRead, ClearWrite, EnableRead, EnableWrite, DisableRead,
         DisableWrite, Prune, Live

LEMMA NoNotifyKeepsPolls ==
  ASSUME Leaving, NoNotify \/ UNCHANGED <<epollVars, lostR, lostW>>, UNCHANGED pollID
  PROVE  PollsKept
  BY DEF Leaving, PollsExist, PollsKept, Watches, NoNotify, epollVars

(* Most of what the application does, but for close, add_usock and release. *)
LEMMA AppHarmless ==
  ASSUME Typed, Leaving, NEW t \in Apps, NEW u, NEW e, NEW n,
         \/ EpollCreate(t) \/ AddPollID(t) \/ AddCheckRead(t) \/ AddEnableRead(t)
         \/ AddCheckWrite(t) \/ AddEnableWrite(t) \/ EpollRemoveUsock(t, e, u)
         \/ RemovePollID(t) \/ RemoveDisableRead(t) \/ RemoveDisableWrite(t)
         \/ RemoveFromPoll(t) \/ Recvmsg(t, u) \/ ReadMsg(t) \/ ReadCheck(t)
         \/ ReadDisable(t) \/ Sendmsg(t, u) \/ SendAddBuffer(t, n) \/ SendCheck(t)
         \/ SendDisable(t) \/ Close(t, u) \/ CloseLock(t)
  PROVE  Harmless(t)
<1>s. ~At(t, "idle") => call[t].u \in Socks
  BY ThreadsDiffer DEF Typed, CallsOK
<1>c. CallTypeOK /\ t \in Threads /\ t # GC
  BY ThreadsDiffer DEF Typed, TypeOK
<1>l. call[t].pc \in {"close", "clLinger"} => call[t].e = 0
  BY <1>c DEF Leaving, LoopTakesOut
<1> USE <1>s, <1>c DEF Harmless, MovesOnly, At, sockVars
<1> USE DEF AddPcs, ClosePcs
<1>1. CASE EpollCreate(t)
  BY <1>1, <1>l
  DEF EpollCreate, CreatePoll, PollsKept, Watches, Leaving, PollsExist
<1>2. CASE AddPollID(t)
  <2>1. PollsKept
    BY <1>2 DEF AddPollID, PollsKept, Watches, Leaving, PollsExist, NoNotify, epollVars,
                Typed, TypeOK, SocketTypeOK
  <2> QED BY <1>2, <2>1, GotoCall DEF AddPollID
<1>3. CASE AddCheckRead(t)
  BY <1>3, NoNotifyKeepsPolls, GotoCall, ReturnCall, ReturnsFromSock DEF AddCheckRead
<1>4. CASE AddEnableRead(t)
  BY <1>4, NotifyKeepsPolls, GotoCall DEF AddEnableRead
<1>5. CASE AddCheckWrite(t)
  BY <1>5, NoNotifyKeepsPolls, GotoCall, ReturnCall, ReturnsFromSock DEF AddCheckWrite
<1>6. CASE AddEnableWrite(t)
  BY <1>6, NotifyKeepsPolls, ReturnCall, ReturnsFromSock DEF AddEnableWrite
<1>7. CASE EpollRemoveUsock(t, e, u)
  BY <1>7, NoNotifyKeepsPolls, BeginCall DEF EpollRemoveUsock, Located, NotLocated
<1>8. CASE RemovePollID(t)
  <2>1. PollsKept
    BY <1>8 DEF RemovePollID, PollsKept, Watches, Leaving, PollsExist, NoNotify, epollVars,
                Typed, TypeOK, SocketTypeOK
  <2> QED BY <1>8, <2>1, GotoCall DEF RemovePollID
<1>9. CASE RemoveDisableRead(t)
  BY <1>9, NotifyKeepsPolls, GotoCall DEF RemoveDisableRead
<1>10. CASE RemoveDisableWrite(t)
  BY <1>10, NotifyKeepsPolls, GotoCall DEF RemoveDisableWrite
<1>11. CASE RemoveFromPoll(t)
  <2>1. PollsKept
    BY <1>11 DEF RemoveFromPoll, RemoveUsock, PollsKept, Watches, Leaving, PollsExist,
                 epollVars, Typed, TypeOK, EpollTypeOK
  <2> QED BY <1>11, <2>1, ReturnCall, ReturnsFromSock DEF RemoveFromPoll
<1>12. CASE Recvmsg(t, u)
  BY <1>12, NoNotifyKeepsPolls, BeginCall DEF Recvmsg, Located
<1>13. CASE ReadMsg(t)
  BY <1>13, NoNotifyKeepsPolls, GotoCall DEF ReadMsg
<1>14. CASE ReadCheck(t)
  BY <1>14, NoNotifyKeepsPolls, GotoCall, ReturnCall, ReturnsFromSock DEF ReadCheck
<1>15. CASE ReadDisable(t)
  BY <1>15, NotifyKeepsPolls, ReturnCall, ReturnsFromSock DEF ReadDisable
<1>16. CASE Sendmsg(t, u)
  BY <1>16, NoNotifyKeepsPolls, BeginCall DEF Sendmsg, Located
<1>17. CASE SendAddBuffer(t, n)
  BY <1>17, NoNotifyKeepsPolls, GotoCall, ReturnCall, ReturnsFromSock DEF SendAddBuffer
<1>18. CASE SendCheck(t)
  BY <1>18, NoNotifyKeepsPolls, GotoCall, ReturnCall, ReturnsFromSock DEF SendCheck
<1>19. CASE SendDisable(t)
  BY <1>19, NotifyKeepsPolls, ReturnCall, ReturnsFromSock DEF SendDisable
<1>20. CASE Close(t, u)
  BY <1>20, NoNotifyKeepsPolls, BeginCall DEF Close, Located
<1>21. CASE CloseLock(t)
  BY <1>21, <1>l, NoNotifyKeepsPolls, GotoCall DEF CloseLock
<1> QED
  BY <1>1, <1>2, <1>3, <1>4, <1>5, <1>6, <1>7, <1>8, <1>9, <1>10, <1>11, <1>12,
     <1>13, <1>14, <1>15, <1>16, <1>17, <1>18, <1>19, <1>20, <1>21

(* All that the receive-queue thread does, and the collector's visits that *)
(* only wait.                                                              *)
LEMMA LibraryHarmless ==
  ASSUME Typed, Leaving, NEW u, NEW k, NEW j,
         \/ ProcessAck(u, k) \/ SendAck(u, k, j) \/ CompleteEarly(u) \/ PeerShutdown(u)
         \/ InvalidControl(u) \/ PeerSilent(u) \/ DropFromList(u)
         \/ AckEnableWrite \/ AckEnableRead \/ TimersDone \/ ExpEnableRead \/ ExpEnableWrite
         \/ GcWaitForReader(u) \/ GcEndLinger(u) \/ UNCHANGED vars
  PROVE  Harmless(Worker)
<1>s. ~At(Worker, "idle") => call[Worker].u \in Socks
  BY ThreadsDiffer DEF Typed, CallsOK
<1>c. /\ CallTypeOK /\ Worker \in Threads \ Apps /\ Worker # GC
      /\ call[Worker].pc \in {"idle"} \cup WorkerPcs
  BY ThreadsDiffer DEF Typed, TypeOK, CallsOK
<1> USE <1>s, <1>c DEF Harmless, MovesOnly, At, sockVars, AddPcs, ClosePcs, WorkerPcs
<1>1. CASE ProcessAck(u, k)
  BY <1>1, NoNotifyKeepsPolls, BeginCall DEF ProcessAck
<1>2. CASE SendAck(u, k, j)
  BY <1>2, NoNotifyKeepsPolls, BeginCall DEF SendAck
<1>3. CASE CompleteEarly(u)
  BY <1>3, NoNotifyKeepsPolls, BeginCall DEF CompleteEarly
<1>4. CASE PeerShutdown(u)
  BY <1>4, NoNotifyKeepsPolls, BeginCall DEF PeerShutdown
<1>5. CASE InvalidControl(u)
  BY <1>5, NoNotifyKeepsPolls, BeginCall DEF InvalidControl
<1>6. CASE PeerSilent(u)
  BY <1>6, NoNotifyKeepsPolls, BeginCall DEF PeerSilent
<1>7. CASE DropFromList(u)
  BY <1>7, NoNotifyKeepsPolls DEF DropFromList
<1>8. CASE AckEnableWrite
  BY <1>8, NotifyKeepsPolls, GotoCall DEF AckEnableWrite
<1>9. CASE AckEnableRead
  BY <1>9, NotifyKeepsPolls, ReturnCall, ReturnsFromSock DEF AckEnableRead
<1>10. CASE TimersDone
  BY <1>10, NoNotifyKeepsPolls, ReturnCall, ReturnsFromSock DEF TimersDone
<1>11. CASE ExpEnableRead
  BY <1>11, NotifyKeepsPolls, GotoCall DEF ExpEnableRead
<1>12. CASE ExpEnableWrite
  BY <1>12, NotifyKeepsPolls, ReturnCall, ReturnsFromSock DEF ExpEnableWrite
<1>13. CASE GcWaitForReader(u)
  BY <1>13, NoNotifyKeepsPolls DEF GcWaitForReader
<1>14. CASE GcEndLinger(u)
  BY <1>14, NoNotifyKeepsPolls DEF GcEndLinger
<1>15. CASE UNCHANGED vars
  BY <1>15, NoNotifyKeepsPolls DEF vars
<1> QED
  BY <1>1, <1>2, <1>3, <1>4, <1>5, <1>6, <1>7, <1>8, <1>9, <1>10, <1>11, <1>12,
     <1>13, <1>14, <1>15

(* epoll_add_usock begins only if the socket is located, so it is opened:  *)
(* the thread that closed it would be the same.                            *)
LEMMA AddBeginKeeps ==
  ASSUME IInv, Leaving, OneThread, NEW t \in Apps, NEW e \in Eids, NEW u \in Socks,
         NEW ev \in SUBSET Events, EpollAddUsock(t, e, u, ev)
  PROVE  Leaving'
<1>1. /\ MovesOnly(t) /\ call'[t].pc = "add" /\ call'[t].u = u
      /\ At(t, "idle") /\ At(GC, "idle") /\ status[u] = "connected"
      /\ UNCHANGED <<epollVars, sockVars>>
  BY BeginCall, ThreadsDiffer
  DEF EpollAddUsock, Located, ControlLockFree, MovesOnly, NoNotify, IInv, Typed, TypeOK
<1>2. u \in opened
  BY <1>1 DEF Leaving, UnopenedLeft, OneThread, In, At
<1> USE <1>1, <1>2, ThreadsDiffer
    DEF Leaving, MovesOnly, Watches, epollVars, sockVars, In, At, AddPcs, ClosePcs
<1>3. PollsExist'
  BY DEF PollsExist
<1>4. CollectorAlone'
  BY DEF CollectorAlone
<1>5. LoopTakesOut'
  BY DEF LoopTakesOut
<1>6. UnopenedLeft'
  BY DEF UnopenedLeft
<1> QED BY <1>3, <1>4, <1>5, <1>6

(* An epoll begins to watch a socket that no other thread is closing.      *)
LEMMA AddToPollKeeps ==
  ASSUME IInv, Leaving, OneThread, NEW t \in Apps, AddToPoll(t) PROVE Leaving'
<1> DEFINE u == call[t].u
           e == call[t].e
<1>1. /\ MovesOnly(t) /\ At(t, "add") /\ u \in Socks /\ e \in Eids
      /\ call'[t].pc \in {"addId", "idle"}
      /\ call'[t].pc = "addId" => call'[t].u = u /\ call'[t].e = e
      /\ call'[t].u \in {u, NoSock}
  BY GotoCall, ReturnCall, ReturnsFromSock, ThreadsDiffer
  DEF AddToPoll, MovesOnly, IInv, Typed, TypeOK, CallsOK, At, AddPcs
<1>2. /\ mPolls' = mPolls /\ UNCHANGED sockVars
      /\ call'[t].pc = "addId" => e \in mPolls
      /\ \A f \in Eids, v \in Socks : Watches(f, v)' => Watches(f, v) \/ (f = e /\ v = u)
  BY <1>1, ReturnCall, ThreadsDiffer
  DEF AddToPoll, AddUsock, epollVars, Watches, IInv, Typed, TypeOK, EpollTypeOK
<1>3. /\ \A s \in Apps : s = t
      /\ call[Worker].pc \in {"idle"} \cup WorkerPcs /\ Threads = Apps \cup {Worker, GC}
      /\ call[GC].pc \in {"idle"} \cup ClosePcs
  BY DEF OneThread, IInv, Typed, CallsOK, Threads
<1>4. ~In(GC, ClosePcs, u) /\ u \in opened
  BY <1>1, <1>3 DEF Leaving, CollectorAlone, UnopenedLeft, In, At, AddPcs
<1> HIDE DEF u, e
<1> USE <1>1, <1>2, <1>3, <1>4, ThreadsDiffer, ConstantsAssumption
    DEF Leaving, MovesOnly, sockVars, In, At, AddPcs
<1>5. PollsExist'
  BY DEF PollsExist
<1>6. CollectorAlone'
  BY DEF CollectorAlone, u
<1>7. LoopTakesOut'
  BY DEF LoopTakesOut, ClosePcs, WorkerPcs
<1>8. UnopenedLeft'
  BY DEF UnopenedLeft, u
<1> QED BY <1>5, <1>6, <1>7, <1>8

(* The steps of close that change neither the epolls nor the status.       *)
Advances(t, p) ==
  /\ MovesOnly(t) /\ call'[t].pc = p /\ call'[t].u = call[t].u /\ call'[t].e = call[t].e
  /\ UNCHANGED <<epollVars, pollID, status>>

LEMMA CloseLingerKeeps ==
  ASSUME IInv, Leaving, ~LingerOn, NEW t \in Apps \cup {GC}, CloseLinger(t) PROVE Leaving'
<1>1. /\ Advances(t, "clDone") \/ Advances(t, "clPolls")
      /\ At(t, "clLinger") /\ t \in Threads /\ call[t].u \in Socks /\ opened' = opened
      /\ call'[t].pc = "clDone" => call[t].u \notin opened
  BY GotoCall, ThreadsDiffer
  DEF CloseLinger, StillLinger, Advances, MovesOnly, NoNotify, IInv, Typed, TypeOK, CallsOK, At
<1> USE <1>1, ThreadsDiffer
    DEF Leaving, Advances, MovesOnly, Watches, epollVars, In, At, AddPcs, ClosePcs
<1>2. PollsExist'
  BY DEF PollsExist
<1>3. CollectorAlone'
  BY DEF CollectorAlone
<1>4. LoopTakesOut'
  BY DEF LoopTakesOut, UnopenedLeft, Eids
<1>5. UnopenedLeft'
  BY DEF UnopenedLeft
<1> QED BY <1>2, <1>3, <1>4, <1>5

(* An epoll that watches the socket a thread is taking out is one of those *)
(* the loop of close has still to come to.                                 *)
LEMMA StillToCome ==
  ASSUME IInv, Leaving, OneThread, NEW t \in Apps \cup {GC}, At(t, "clPolls"),
         NEW e \in Eids, Watches(e, call[t].u)
  PROVE  e \in pollID[call[t].u] /\ e > call[t].e
<1>1. call[t].u \in Socks /\ t \in Threads
  BY ThreadsDiffer DEF IInv, Typed, CallsOK, At
<1>2. RegisteredAt(e, call[t].u)
  BY <1>1 DEF IInv, Signals, Registered, ReadyOnlyIfWatched, Watches
<1>3. \A s \in Apps : ~In(s, {"addId"} \cup RemovePcs, call[t].u)
  BY <1>1 DEF OneThread, Leaving, CollectorAlone, In, At, RemovePcs, ClosePcs
<1> QED
  BY <1>1, <1>2, <1>3
  DEF RegisteredAt, Adding, Removing, Watches, In, At, Leaving, LoopTakesOut

LEMMA CloseRemoveKeeps ==
  ASSUME IInv, Leaving, OneThread, NEW t \in Apps \cup {GC}, CloseRemoveUsock(t) PROVE Leaving'
<1>0. PICK u \in Socks : u = call[t].u
  BY ThreadsDiffer DEF CloseRemoveUsock, IInv, Typed, CallsOK, At
<1> DEFINE left == {e \in pollID[u] : e > call[t].e}
<1>1. /\ At(t, "clPolls") /\ t \in Threads /\ pollID[u] \in SUBSET Eids
      /\ u = call[t].u /\ UNCHANGED sockVars
  BY <1>0, ThreadsDiffer DEF CloseRemoveUsock, IInv, Typed, TypeOK, SocketTypeOK, At
<1>2. \A e \in Eids : Watches(e, u) => e \in left
  BY <1>1, StillToCome
<1>3. pollID[u] \subseteq mPolls
  BY <1>1 DEF Leaving, PollsExist
<1>4. CASE left = {}
  <2>1. UNCHANGED epollVars /\ Goto(t, "clFlags")
    BY <1>1, <1>4 DEF CloseRemoveUsock
  <2>2. Advances(t, "clFlags") /\ opened' = opened
    BY <1>1, <2>1, GotoCall DEF Advances, MovesOnly, sockVars, IInv, Typed, TypeOK
  <2>3. \A e \in Eids : ~Watches(e, u)
    BY <1>2, <1>4
  <2> HIDE DEF left
  <2> USE <1>1, <2>2, <2>3, ThreadsDiffer
      DEF Leaving, Advances, MovesOnly, Watches, epollVars, In, At, AddPcs, ClosePcs
  <2>4. PollsExist'
    BY DEF PollsExist
  <2>5. CollectorAlone'
    BY DEF CollectorAlone
  <2>6. LoopTakesOut'
    BY DEF LoopTakesOut
  <2>7. UnopenedLeft'
    BY DEF UnopenedLeft
  <2> QED BY <2>4, <2>5, <2>6, <2>7
<1>5. CASE left # {}
  <2>1. PICK d \in Eids : d = Min(left) /\ d \in left /\ \A e \in left : d <= e
    BY <1>1, <1>5, FirstEpoll
  <2>2. RemoveUsock(d, u) /\ Iterate(t, d)
    BY <1>1, <1>3, <1>5, <2>1 DEF CloseRemoveUsock
  <2>3. MovesOnly(t) /\ call'[t].pc = "clPolls" /\ call'[t].u = u /\ call'[t].e = d
    BY <1>1, <2>2, IterateCall DEF MovesOnly, IInv, Typed, TypeOK, At
  <2>4. /\ mPolls' = mPolls
        /\ \A e \in Eids, v \in Socks : Watches(e, v)' => Watches(e, v)
        /\ ~Watches(d, u)'
    <3>1. socksIn \in [Eids -> SUBSET Socks] /\ socksOut \in [Eids -> SUBSET Socks]
      BY DEF IInv, Typed, TypeOK, EpollTypeOK
    <3> QED BY <1>1, <2>2, <3>1 DEF RemoveUsock, Watches
  <2>5. \A e \in Eids : Watches(e, u)' => e > d
    BY <1>1, <1>2, <2>1, <2>4 DEF Eids
  <2> HIDE DEF left
  <2> USE <1>1, <2>3, <2>4, <2>5, ThreadsDiffer
      DEF Leaving, MovesOnly, sockVars, In, At, AddPcs, ClosePcs
  <2>6. PollsExist'
    BY DEF PollsExist
  <2>7. CollectorAlone'
    BY DEF CollectorAlone
  <2>8. LoopTakesOut'
    BY DEF LoopTakesOut
  <2>9. UnopenedLeft'
    BY DEF UnopenedLeft
  <2> QED BY <2>6, <2>7, <2>8, <2>9
<1> QED BY <1>4, <1>5

LEMMA CloseFlagsKeeps ==
  ASSUME IInv, Leaving, NEW t \in Apps \cup {GC}, CloseFlags(t) PROVE Leaving'
<1>1. /\ Advances(t, "clWait") \/ Advances(t, "clDone")
      /\ At(t, "clFlags") /\ t \in Threads /\ call[t].u \in Socks /\ opened' = opened
      /\ call'[t].pc = "clDone" => call[t].u \notin opened
  BY GotoCall, ThreadsDiffer
  DEF CloseFlags, Advances, MovesOnly, NoNotify, IInv, Typed, TypeOK, CallsOK, At
<1> USE <1>1, ThreadsDiffer
    DEF Leaving, Advances, MovesOnly, Watches, epollVars, In, At, AddPcs, ClosePcs
<1>2. PollsExist'
  BY DEF PollsExist
<1>3. CollectorAlone'
  BY DEF CollectorAlone
<1>4. LoopTakesOut'
  BY DEF LoopTakesOut
<1>5. UnopenedLeft'
  BY DEF UnopenedLeft
<1> QED BY <1>2, <1>3, <1>4, <1>5

(* m_bOpened falls when no epoll watches the socket and nobody adds it.    *)
LEMMA CloseWaitKeeps ==
  ASSUME IInv, Leaving, OneThread, NEW t \in Apps \cup {GC}, CloseWait(t) PROVE Leaving'
<1>1. /\ Advances(t, "clDone") /\ opened' = opened \ {call[t].u}
      /\ At(t, "clWait") /\ t \in Threads /\ call[t].u \in Socks
  BY GotoCall, ThreadsDiffer
  DEF CloseWait, Advances, MovesOnly, NoNotify, IInv, Typed, TypeOK, CallsOK, At
<1>2. /\ \A e \in Eids : ~Watches(e, call[t].u)
      /\ \A s \in Apps : ~In(s, AddPcs, call[t].u)
      /\ status[call[t].u] = "connected" => t \in Apps
  BY <1>1 DEF Leaving, LoopTakesOut, CollectorAlone, OneThread, In, At, AddPcs, ClosePcs
<1> USE <1>1, <1>2, ThreadsDiffer
    DEF Leaving, Advances, MovesOnly, Watches, epollVars, In, At, AddPcs, ClosePcs
<1>3. PollsExist'
  BY DEF PollsExist
<1>4. CollectorAlone'
  BY DEF CollectorAlone
<1>5. LoopTakesOut'
  BY DEF LoopTakesOut
<1>6. UnopenedLeft'
  BY DEF UnopenedLeft
<1> QED BY <1>3, <1>4, <1>5, <1>6

LEMMA CloseDoneKeeps ==
  ASSUME IInv, Leaving, NEW t \in Apps \cup {GC}, CloseDone(t) PROVE Leaving'
<1> DEFINE u == call[t].u
<1>1. /\ MovesOnly(t) /\ call'[t].pc = "idle" /\ call'[t].u = NoSock
      /\ At(t, "clDone") /\ t \in Threads /\ u \in Socks
      /\ UNCHANGED <<epollVars, pollID, opened>>
  BY ReturnCall, ReturnsFromSock, ThreadsDiffer
  DEF CloseDone, MovesOnly, NoNotify, IInv, Typed, TypeOK, CallsOK, At
<1>2. /\ status' \in [Socks -> {"connected", "closed", "destroyed"}]
      /\ status'[u] # "connected" /\ \A v \in Socks : v # u => status'[v] = status[v]
      /\ u \notin opened
  BY <1>1 DEF CloseDone, IInv, Typed, TypeOK, SocketTypeOK, Leaving, UnopenedLeft, In, At
<1>3. call[t].u = u
  OBVIOUS
<1> HIDE DEF u
<1> USE <1>1, <1>2, <1>3, ThreadsDiffer, ConstantsAssumption
    DEF Leaving, MovesOnly, Watches, epollVars, In, At, AddPcs, ClosePcs
<1>4. PollsExist'
  BY DEF PollsExist
<1>5. CollectorAlone'
  BY DEF CollectorAlone
<1>6. LoopTakesOut'
  BY DEF LoopTakesOut
<1>7. UnopenedLeft'
  BY DEF UnopenedLeft
<1> QED BY <1>4, <1>5, <1>6, <1>7

(* The collector finds a broken socket, or begins to remove a closed one.  *)
LEMMA CollectorKeeps ==
  ASSUME IInv, Leaving, NEW u \in Socks, GcCloseBroken(u) \/ GcRemoveSocket(u) PROVE Leaving'
<1>1. CASE GcCloseBroken(u)
  <2>1. /\ UNCHANGED <<epollVars, pollID, opened, call>>
        /\ status'[u] = "closed" /\ \A v \in Socks : v # u => status'[v] = status[v]
    BY <1>1 DEF GcCloseBroken, NoNotify, IInv, Typed, TypeOK, SocketTypeOK
  <2> USE <2>1 DEF Leaving, Watches, epollVars, In
  <2>2. PollsExist'
    BY DEF PollsExist
  <2>3. CollectorAlone'
    BY DEF CollectorAlone
  <2>4. LoopTakesOut'
    BY DEF LoopTakesOut
  <2>5. UnopenedLeft'
    BY DEF UnopenedLeft
  <2> QED BY <2>2, <2>3, <2>4, <2>5
<1>2. CASE GcRemoveSocket(u)
  <2>1. /\ MovesOnly(GC) /\ call'[GC].pc = "clLinger" /\ call'[GC].u = u /\ call'[GC].e = 0
        /\ At(GC, "idle") /\ status[u] = "closed" /\ \A t \in Threads : call[t].u # u
        /\ UNCHANGED <<epollVars, sockVars>>
    BY <1>2, BeginCall, ThreadsDiffer
    DEF GcRemoveSocket, MovesOnly, NoNotify, IInv, Typed, TypeOK
  <2> USE <2>1, ThreadsDiffer
      DEF Leaving, MovesOnly, Watches, epollVars, sockVars, In, At, AddPcs, ClosePcs
  <2>2. PollsExist'
    BY DEF PollsExist
  <2>3. CollectorAlone'
    BY DEF CollectorAlone
  <2>4. LoopTakesOut'
    BY DEF LoopTakesOut
  <2>5. UnopenedLeft'
    BY DEF UnopenedLeft
  <2> QED BY <2>2, <2>3, <2>4, <2>5
<1> QED BY <1>1, <1>2

(* Leaving is inductive where no epoll is released.                        *)
LEMMA LeavingStep ==
  ASSUME SimpleTeardown, IInv, Leaving, [Next]_vars PROVE Leaving'
<1>t. Typed /\ OneThread /\ ~LingerOn /\ "release" \notin AppOps
  BY DEF IInv, SimpleTeardown
<1> USE <1>t, ThreadsDiffer
<1>1. ASSUME NEW t \in Apps, AppBegin(t) PROVE Leaving'
  <2>1. ASSUME NEW e \in Eids, NEW u \in Socks, NEW ev \in SUBSET Events, EpollAddUsock(t, e, u, ev)
        PROVE  Leaving'
    BY <2>1, AddBeginKeeps
  <2>2. ASSUME NEW e, NEW u, \/ EpollCreate(t) \/ EpollRemoveUsock(t, e, u) \/ Recvmsg(t, u)
                             \/ Sendmsg(t, u) \/ Close(t, u)
        PROVE  Leaving'
    BY <2>2, AppHarmless, HarmlessKeeps
  <2> QED BY <1>1, <2>1, <2>2 DEF AppBegin
<1>2. ASSUME NEW t \in Apps \cup {GC}, CloseStep(t) PROVE Leaving'
  BY <1>2, CloseLingerKeeps, CloseRemoveKeeps, CloseFlagsKeeps, CloseWaitKeeps, CloseDoneKeeps
  DEF CloseStep
<1>3. ASSUME NEW t \in Apps, CallStep(t) PROVE Leaving'
  <2>1. ASSUME NEW n, \/ AddPollID(t) \/ AddCheckRead(t) \/ AddEnableRead(t)
                      \/ AddCheckWrite(t) \/ AddEnableWrite(t) \/ RemovePollID(t)
                      \/ RemoveDisableRead(t) \/ RemoveDisableWrite(t)
                      \/ RemoveFromPoll(t) \/ ReadMsg(t) \/ ReadCheck(t)
                      \/ ReadDisable(t) \/ SendAddBuffer(t, n) \/ SendCheck(t)
                      \/ SendDisable(t) \/ CloseLock(t)
        PROVE  Leaving'
    BY <2>1, AppHarmless, HarmlessKeeps
  <2>2. CASE AddToPoll(t)
    BY <2>2, AddToPollKeeps
  <2> QED BY <1>2, <1>3, <2>1, <2>2 DEF CallStep
<1>4. CASE GcStep
  BY <1>2, <1>4, CollectorKeeps, LibraryHarmless, HarmlessKeeps DEF GcStep, GcVisit
<1>5. CASE WorkerReceive \/ WorkerGoesOn \/ (\E u \in Socks : DropFromList(u)) \/ UNCHANGED vars
  BY <1>5, LibraryHarmless, HarmlessKeeps DEF WorkerReceive, WorkerGoesOn
<1> QED BY <1>1, <1>3, <1>4, <1>5 DEF Next

(* Without linger, without released epolls and with one thread that adds   *)
(* and closes sockets, no epoll watches a socket removeSocket has deleted: *)
(* close takes the socket out of every epoll before m_bOpened falls        *)
(* (core.cpp:959), whatever the other threads of the library do meanwhile. *)
THEOREM DestroyedLeftAll ==
  ASSUME SimpleTeardown
  PROVE  Spec => []DestroyedNotWatched
<1>1. Leaving => DestroyedNotWatched
  BY DEF Leaving, UnopenedLeft, Watches, DestroyedNotWatched
<1>2. Init => IInv /\ Leaving
  BY InitIInv, LeavingInit
<1>3. IInv /\ Leaving /\ [Next]_vars => IInv' /\ Leaving'
  BY IInvStep, LeavingStep
<1> QED BY <1>1, <1>2, <1>3, PTL DEF Spec
=============================================================================
