------------------------------ MODULE UdtEpoll ------------------------------
(***************************************************************************)
(* How UDT sockets become ready in the epolls that watch them.             *)
(*                                                                         *)
(* Three kinds of thread touch the readiness sets of CEPoll:               *)
(*   - the application's threads (Apps), inside epoll_create, _release,    *)
(*     _add_usock, _remove_usock, recvmsg, sendmsg and close;              *)
(*   - the receive-queue thread (Worker), which processes ACKs, sends      *)
(*     ACKs, and finds a connection broken;                                *)
(*   - the garbage collector (GC), which closes broken sockets and         *)
(*     destroys closed ones.                                               *)
(* A call is cut into steps wherever the code releases one lock before it  *)
(* takes the next, or reads something that no lock it holds protects.      *)
(* Sockets are connected SOCK_DGRAM sockets in non-blocking mode           *)
(* (UDT_SNDSYN = UDT_RCVSYN = false), as the server and clients here use.  *)
(***************************************************************************)
EXTENDS CEPoll, FiniteSetsExt

CONSTANTS Apps,         \* application threads
          Worker,       \* the thread of CRcvQueue::worker
          GC,           \* the thread of CUDTUnited::garbageCollect
          NoSock,       \* no socket: the argument of a call without one
          MaxMsgs,      \* bound: messages held in one receive buffer
          SndBufSize,   \* m_iSndBufSize, in blocks
          BrokenCount,  \* bound: m_iBrokenCounter, 30 or 60 in the code
          LingerOn,     \* m_Linger.l_onoff
          InOrder,      \* the messages carry the "in order" flag
          AppOps        \* the calls the application makes

ASSUME ConstantsAssumption ==
  /\ Worker \notin Apps /\ GC \notin Apps /\ Worker # GC
  /\ NoSock \notin Socks
  /\ MaxMsgs \in Nat /\ BrokenCount \in Nat
  /\ SndBufSize \in Nat \ {0}
  /\ LingerOn \in BOOLEAN /\ InOrder \in BOOLEAN
  /\ AppOps \subseteq {"create", "release", "add", "remove", "recv", "send", "close"}

Threads == Apps \cup {Worker, GC}

VARIABLES pollID,         \* m_sPollID: the epolls a socket believes watch it
          acked,          \* acknowledged messages readMsg can return
          early,          \* complete messages beyond a gap readMsg can return
          sndUsed,        \* m_pSndBuffer->getCurrBufSize()
          connected,      \* the sockets whose m_bConnected is true
          broken,         \* ... m_bBroken
          closing,        \* ... m_bClosing
          opened,         \* ... m_bOpened
          brokenCounter,  \* m_iBrokenCounter
          lingering,      \* the sockets whose m_ullLingerExpiration is set
          onList,         \* ... m_pRNode->m_bOnList
          status,         \* m_Status: connected, closed, or destroyed
          call,           \* what each thread is doing
          lostR, lostW    \* auxiliary: readiness taken away while it was due

sockVars == <<pollID, acked, early, sndUsed, connected, broken, closing, opened,
              brokenCounter, lingering, onList, status>>
vars == <<epollVars, sockVars, call, lostR, lostW>>

AddPcs == {"add", "addId", "addChkR", "addEnR", "addChkW", "addEnW"}
RemovePcs == {"rmId", "rmRead", "rmWrite", "rmUsock"}
RecvPcs == {"recv", "recvChk", "recvDis"}
SendPcs == {"send", "sendChk", "sendDis"}
ClosePcs == {"close", "clLinger", "clPolls", "clFlags", "clWait", "clDone"}
WorkerPcs == {"enR", "enW", "expR", "expW", "timers"}
Pcs == {"idle"} \cup AddPcs \cup RemovePcs \cup RecvPcs \cup SendPcs
       \cup ClosePcs \cup WorkerPcs

Idle == [pc |-> "idle", u |-> NoSock, e |-> 0, ev |-> {}]

SocketTypeOK ==
  /\ pollID \in [Socks -> SUBSET Eids]
  /\ acked \in [Socks -> Nat]
  /\ early \in [Socks -> Nat]
  /\ sndUsed \in [Socks -> 0 .. SndBufSize]
  /\ connected \subseteq Socks /\ broken \subseteq Socks
  /\ closing \subseteq Socks /\ opened \subseteq Socks
  /\ brokenCounter \in [Socks -> 0 .. BrokenCount]
  /\ lingering \subseteq Socks /\ onList \subseteq Socks
  /\ status \in [Socks -> {"connected", "closed", "destroyed"}]

CallRecord == [pc : Pcs, u : Socks \cup {NoSock}, e : 0 .. MaxPolls, ev : SUBSET Events]
CallTypeOK == call \in [Threads -> CallRecord]

TypeOK ==
  /\ EpollTypeOK
  /\ SocketTypeOK
  /\ CallTypeOK
  /\ lostR \subseteq Eids \X Socks
  /\ lostW \subseteq Eids \X Socks

Init ==
  /\ EpollInit
  /\ pollID = [u \in Socks |-> {}]
  /\ acked = [u \in Socks |-> 0]
  /\ early = [u \in Socks |-> 0]
  /\ sndUsed = [u \in Socks |-> 0]
  /\ connected = Socks /\ opened = Socks /\ onList = Socks
  /\ broken = {} /\ closing = {} /\ lingering = {}
  /\ brokenCounter = [u \in Socks |-> 0]
  /\ status = [u \in Socks |-> "connected"]
  /\ call = [t \in Threads |-> Idle]
  /\ lostR = {} /\ lostW = {}

-----------------------------------------------------------------------------
(* Calls.                                                                  *)

Begin(t, p, u, e, ev) == call' = [call EXCEPT ![t] = [pc |-> p, u |-> u, e |-> e, ev |-> ev]]
Goto(t, p) == call' = [call EXCEPT ![t].pc = p]
Iterate(t, e) == call' = [call EXCEPT ![t].e = e]
Return(t) == call' = [call EXCEPT ![t] = Idle]

At(t, p) == call[t].pc = p
In(t, pcs, u) == call[t].u = u /\ call[t].pc \in pcs

(* The garbage collector holds CUDTUnited::m_ControlLock for a whole pass. *)
ControlLockFree == At(GC, "idle")

(* locate() finds a socket that is in m_Sockets and not CLOSED.            *)
Located(u) == ControlLockFree /\ status[u] = "connected"
NotLocated(u) == ControlLockFree /\ status[u] # "connected"

(* m_RecvLock, m_SendLock and CUDTSocket::m_ControlLock.                   *)
RecvLockFree(u) == \A t \in Threads : ~In(t, {"recvChk", "recvDis"}, u)
SendLockFree(u) == \A t \in Threads : ~In(t, {"sendChk", "sendDis"}, u)
SocketLockFree(u) == \A t \in Apps : ~In(t, ClosePcs \ {"close"}, u)

Healthy(u) == u \in connected /\ u \notin broken /\ u \notin closing

(* getRcvMsgNum() > 0, and what readMsg takes.                             *)
Readable(u) == acked[u] + early[u] > 0

(* The notifications of CEPoll with the socket's own set of epolls, and    *)
(* the record of what they take away.                                      *)
Prune(u) == pollID' = [pollID EXCEPT ![u] = Live(@)]
Watching(u) == Live(pollID[u]) \X {u}

NotifyRead(u) ==
  /\ EnableRead(u, pollID[u]) /\ Prune(u)
  /\ lostR' = lostR \ Watching(u) /\ UNCHANGED lostW

NotifyWrite(u) ==
  /\ EnableWrite(u, pollID[u]) /\ Prune(u)
  /\ lostW' = lostW \ Watching(u) /\ UNCHANGED lostR

ClearRead(u) ==
  /\ DisableRead(u, pollID[u]) /\ Prune(u)
  /\ lostR' = IF Readable(u) THEN lostR \cup Watching(u) ELSE lostR
  /\ UNCHANGED lostW

ClearWrite(u) ==
  /\ DisableWrite(u, pollID[u]) /\ Prune(u)
  /\ lostW' = IF sndUsed[u] < SndBufSize THEN lostW \cup Watching(u) ELSE lostW
  /\ UNCHANGED lostR

NoNotify == UNCHANGED <<epollVars, lostR, lostW>>

-----------------------------------------------------------------------------
(* epoll_create and epoll_release.                                         *)

EpollCreate(t) ==
  /\ At(t, "idle")
  /\ CreatePoll
  /\ UNCHANGED <<sockVars, call, lostR, lostW>>

EpollRelease(t, e) ==
  /\ At(t, "idle") /\ e \in mPolls
  /\ ReleasePoll(e)
  /\ UNCHANGED <<sockVars, call, lostR, lostW>>

-----------------------------------------------------------------------------
(* epoll_add_usock: locate, CEPoll::add_usock, then CUDT::addEPoll.        *)

EpollAddUsock(t, e, u, ev) ==
  /\ At(t, "idle") /\ Located(u)
  /\ Begin(t, "add", u, e, ev)
  /\ NoNotify /\ UNCHANGED sockVars

AddToPoll(t) ==
  LET u == call[t].u
      e == call[t].e
  IN /\ At(t, "add")
     /\ \/ /\ e \in mPolls
           /\ AddUsock(e, u, call[t].ev)
           /\ Goto(t, "addId")
        \/ /\ e \notin mPolls                     \* throws EINVPOLLID
           /\ Return(t)
           /\ UNCHANGED epollVars
     /\ UNCHANGED <<sockVars, lostR, lostW>>

AddPollID(t) ==
  LET u == call[t].u
  IN /\ At(t, "addId")
     /\ pollID' = [pollID EXCEPT ![u] = @ \cup {call[t].e}]
     /\ Goto(t, "addChkR")
     /\ NoNotify
     /\ UNCHANGED <<acked, early, sndUsed, connected, broken, closing, opened,
                    brokenCounter, lingering, onList, status>>

(* Mutant of AddCheckRead: it does not look for what came before the call. *)
AddCheckReadSkipped(t) ==
  /\ At(t, "addChkR")
  /\ \/ ~Healthy(call[t].u) /\ Return(t)
     \/ Healthy(call[t].u) /\ Goto(t, "addChkW")
  /\ NoNotify /\ UNCHANGED sockVars

AddCheckRead(t) ==
  LET u == call[t].u
  IN /\ At(t, "addChkR")
     /\ \/ ~Healthy(u) /\ Return(t)
        \/ Healthy(u) /\ Readable(u) /\ Goto(t, "addEnR")
        \/ Healthy(u) /\ ~Readable(u) /\ Goto(t, "addChkW")
     /\ NoNotify /\ UNCHANGED sockVars

AddEnableRead(t) ==
  /\ At(t, "addEnR")
  /\ NotifyRead(call[t].u)
  /\ Goto(t, "addChkW")
  /\ UNCHANGED <<acked, early, sndUsed, connected, broken, closing, opened,
                 brokenCounter, lingering, onList, status>>

(* Mutant of AddCheckWrite: room in the send buffer is not announced.      *)
AddCheckWriteSkipped(t) ==
  /\ At(t, "addChkW")
  /\ Return(t)
  /\ NoNotify /\ UNCHANGED sockVars

AddCheckWrite(t) ==
  LET u == call[t].u
  IN /\ At(t, "addChkW")
     /\ \/ sndUsed[u] < SndBufSize /\ Goto(t, "addEnW")
        \/ sndUsed[u] >= SndBufSize /\ Return(t)
     /\ NoNotify /\ UNCHANGED sockVars

AddEnableWrite(t) ==
  /\ At(t, "addEnW")
  /\ NotifyWrite(call[t].u)
  /\ Return(t)
  /\ UNCHANGED <<acked, early, sndUsed, connected, broken, closing, opened,
                 brokenCounter, lingering, onList, status>>

-----------------------------------------------------------------------------
(* epoll_remove_usock: CUDT::removeEPoll if the socket is located, then    *)
(* CEPoll::remove_usock.  removeEPoll erases the epoll from m_sPollID and  *)
(* then passes m_sPollID, which no longer names it, to the two disables.   *)

EpollRemoveUsock(t, e, u) ==
  /\ At(t, "idle")
  /\ \/ Located(u) /\ Begin(t, "rmId", u, e, {})
     \/ NotLocated(u) /\ Begin(t, "rmUsock", u, e, {})
  /\ NoNotify /\ UNCHANGED sockVars

RemovePollID(t) ==
  /\ At(t, "rmId")
  /\ pollID' = [pollID EXCEPT ![call[t].u] = @ \ {call[t].e}]
  /\ Goto(t, "rmRead")
  /\ NoNotify
  /\ UNCHANGED <<acked, early, sndUsed, connected, broken, closing, opened,
                 brokenCounter, lingering, onList, status>>

RemoveDisableRead(t) ==
  /\ At(t, "rmRead")
  /\ ClearRead(call[t].u)
  /\ Goto(t, "rmWrite")
  /\ UNCHANGED <<acked, early, sndUsed, connected, broken, closing, opened,
                 brokenCounter, lingering, onList, status>>

RemoveDisableWrite(t) ==
  /\ At(t, "rmWrite")
  /\ ClearWrite(call[t].u)
  /\ Goto(t, "rmUsock")
  /\ UNCHANGED <<acked, early, sndUsed, connected, broken, closing, opened,
                 brokenCounter, lingering, onList, status>>

RemoveFromPoll(t) ==
  LET u == call[t].u
      e == call[t].e
  IN /\ At(t, "rmUsock")
     /\ IF e \in mPolls THEN RemoveUsock(e, u) ELSE UNCHANGED epollVars
     /\ Return(t)
     /\ UNCHANGED <<sockVars, lostR, lostW>>

-----------------------------------------------------------------------------
(* recvmsg.  The message is taken, looked for again, and only then is the  *)
(* socket made unreadable: m_RecvLock is held throughout, but the Worker   *)
(* adds messages without it.                                               *)

Recvmsg(t, u) ==
  /\ At(t, "idle") /\ Located(u)
  /\ u \in connected                              \* else throws ENOCONN
  /\ Begin(t, "recv", u, 0, {})
  /\ NoNotify /\ UNCHANGED sockVars

ReadMsg(t) ==
  LET u == call[t].u
  IN /\ At(t, "recv") /\ RecvLockFree(u)
     /\ \/ /\ acked[u] > 0
           /\ acked' = [acked EXCEPT ![u] = @ - 1] /\ UNCHANGED early
        \/ /\ acked[u] = 0 /\ early[u] > 0
           /\ early' = [early EXCEPT ![u] = @ - 1] /\ UNCHANGED acked
        \/ ~Readable(u) /\ UNCHANGED <<acked, early>>
     /\ Goto(t, "recvChk")
     /\ NoNotify
     /\ UNCHANGED <<pollID, sndUsed, connected, broken, closing, opened,
                    brokenCounter, lingering, onList, status>>

ReadCheck(t) ==
  LET u == call[t].u
  IN /\ At(t, "recvChk")
     /\ \/ Readable(u) /\ Return(t)               \* *pHaveMsgStill = true
        \/ ~Readable(u) /\ Goto(t, "recvDis")
     /\ NoNotify /\ UNCHANGED sockVars

ReadDisable(t) ==
  /\ At(t, "recvDis")
  /\ ClearRead(call[t].u)
  /\ Return(t)
  /\ UNCHANGED <<acked, early, sndUsed, connected, broken, closing, opened,
                 brokenCounter, lingering, onList, status>>

-----------------------------------------------------------------------------
(* sendmsg.  A message of n blocks goes into the send buffer whole or not  *)
(* at all; a buffer that is full now makes the socket unwritable.          *)

Sendmsg(t, u) ==
  /\ At(t, "idle") /\ Located(u)
  /\ Healthy(u)                                   \* else throws
  /\ Begin(t, "send", u, 0, {})
  /\ NoNotify /\ UNCHANGED sockVars

SendAddBuffer(t, n) ==
  LET u == call[t].u
  IN /\ At(t, "send") /\ SendLockFree(u)
     /\ \/ /\ SndBufSize - sndUsed[u] < n         \* throws EASYNCSND
           /\ Return(t) /\ UNCHANGED sndUsed
        \/ /\ SndBufSize - sndUsed[u] >= n
           /\ sndUsed' = [sndUsed EXCEPT ![u] = @ + n]
           /\ Goto(t, "sendChk")
     /\ NoNotify
     /\ UNCHANGED <<pollID, acked, early, connected, broken, closing, opened,
                    brokenCounter, lingering, onList, status>>

SendCheck(t) ==
  LET u == call[t].u
  IN /\ At(t, "sendChk")
     /\ \/ sndUsed[u] < SndBufSize /\ Return(t)
        \/ sndUsed[u] >= SndBufSize /\ Goto(t, "sendDis")
     /\ NoNotify /\ UNCHANGED sockVars

SendDisable(t) ==
  /\ At(t, "sendDis")
  /\ ClearWrite(call[t].u)
  /\ Return(t)
  /\ UNCHANGED <<acked, early, sndUsed, connected, broken, closing, opened,
                 brokenCounter, lingering, onList, status>>

-----------------------------------------------------------------------------
(* close, by the application (CUDTUnited::close) and by the garbage        *)
(* collector (removeSocket); both call CUDT::close.                        *)

Close(t, u) ==
  /\ At(t, "idle") /\ Located(u)
  /\ Begin(t, "close", u, 0, {})
  /\ NoNotify /\ UNCHANGED sockVars

CloseLock(t) ==
  /\ At(t, "close") /\ SocketLockFree(call[t].u)
  /\ Goto(t, "clLinger")
  /\ NoNotify /\ UNCHANGED sockVars

(***************************************************************************)
(* The linger test of CUDT::close.  With data still unsent, the call arms  *)
(* m_ullLingerExpiration and leaves the rest to the garbage collector.  A  *)
(* second call that finds the timer armed closes at once if the timer has  *)
(* not expired, and leaves again if it has.                                *)
(***************************************************************************)
StillLinger(u) == LingerOn /\ u \in connected /\ u \notin broken /\ sndUsed[u] > 0

CloseLinger(t) ==
  LET u == call[t].u
  IN /\ At(t, "clLinger")
     /\ \/ /\ u \notin opened
           /\ Goto(t, "clDone") /\ UNCHANGED lingering
        \/ /\ u \in opened /\ StillLinger(u)
           /\ lingering' = lingering \cup {u}
           /\ Goto(t, "clDone")
        \/ /\ u \in opened /\ (StillLinger(u) => u \in lingering)
           /\ Goto(t, "clPolls") /\ UNCHANGED lingering
     /\ NoNotify
     /\ UNCHANGED <<pollID, acked, early, sndUsed, connected, broken, closing,
                    opened, brokenCounter, onList, status>>

(* Mutant of CloseRemoveUsock: close forgets the epolls.                   *)
CloseRemoveUsockSkipped(t) ==
  /\ At(t, "clPolls")
  /\ Goto(t, "clFlags")
  /\ NoNotify /\ UNCHANGED sockVars

(* The loop over m_sPollID; the field e of the call is the iterator.  One  *)
(* try block surrounds the whole loop, so an unknown epoll id ends it.     *)
CloseRemoveUsock(t) ==
  LET u == call[t].u
      left == {e \in pollID[u] : e > call[t].e}
  IN /\ At(t, "clPolls")
     /\ \/ /\ left # {}
           /\ LET e == Min(left)
              IN \/ /\ e \in mPolls
                    /\ RemoveUsock(e, u)
                    /\ Iterate(t, e)
                 \/ /\ e \notin mPolls
                    /\ Goto(t, "clFlags") /\ UNCHANGED epollVars
        \/ /\ left = {}
           /\ Goto(t, "clFlags") /\ UNCHANGED epollVars
     /\ UNCHANGED <<sockVars, lostR, lostW>>

CloseFlags(t) ==
  LET u == call[t].u
  IN /\ At(t, "clFlags")
     /\ \/ /\ u \in opened
           /\ closing' = closing \cup {u}
           /\ connected' = connected \ {u}
           /\ Goto(t, "clWait")
        \/ /\ u \notin opened
           /\ Goto(t, "clDone") /\ UNCHANGED <<closing, connected>>
     /\ NoNotify
     /\ UNCHANGED <<pollID, acked, early, sndUsed, broken, opened, brokenCounter,
                    lingering, onList, status>>

(* "waiting all send and recv calls to stop"                               *)
CloseWait(t) ==
  LET u == call[t].u
  IN /\ At(t, "clWait") /\ RecvLockFree(u) /\ SendLockFree(u)
     /\ opened' = opened \ {u}
     /\ Goto(t, "clDone")
     /\ NoNotify
     /\ UNCHANGED <<pollID, acked, early, sndUsed, connected, broken, closing,
                    brokenCounter, lingering, onList, status>>

(* What follows CUDT::close: the application's call moves the socket to    *)
(* m_ClosedSockets unless the collector already has; removeSocket deletes. *)
CloseDone(t) ==
  LET u == call[t].u
  IN /\ At(t, "clDone")
     /\ \/ /\ t # GC /\ ControlLockFree
           /\ status' = IF status[u] = "connected"
                        THEN [status EXCEPT ![u] = "closed"] ELSE status
        \/ /\ t = GC
           /\ status' = [status EXCEPT ![u] = "destroyed"]
     /\ Return(t)
     /\ NoNotify
     /\ UNCHANGED <<pollID, acked, early, sndUsed, connected, broken, closing,
                    opened, brokenCounter, lingering, onList>>

CloseStep(t) == \/ CloseLinger(t) \/ CloseRemoveUsock(t) \/ CloseFlags(t)
                \/ CloseWait(t) \/ CloseDone(t)

-----------------------------------------------------------------------------
(* The garbage collector, checkBrokenSockets.                              *)

(* "if there is still data in the receiver buffer, wait longer": messages, *)
(* or an acknowledged part of one, which acked does not count.             *)
GcWaitForReader(u) ==
  /\ At(GC, "idle") /\ status[u] = "connected" /\ u \in broken
  /\ brokenCounter[u] > 0
  /\ brokenCounter' = [brokenCounter EXCEPT ![u] = @ - 1]
  /\ NoNotify
  /\ UNCHANGED <<pollID, acked, early, sndUsed, connected, broken, closing, opened,
                 lingering, onList, status, call>>

GcCloseBroken(u) ==
  /\ At(GC, "idle") /\ status[u] = "connected" /\ u \in broken
  /\ acked[u] = 0 \/ brokenCounter[u] = 0
  /\ status' = [status EXCEPT ![u] = "closed"]
  /\ NoNotify
  /\ UNCHANGED <<pollID, acked, early, sndUsed, connected, broken, closing, opened,
                 brokenCounter, lingering, onList, call>>

(* Mutant of GcEndLinger: m_bClosing is not set.                           *)
GcEndLingerNotClosing(u) ==
  /\ At(GC, "idle") /\ status[u] = "closed" /\ u \in lingering
  /\ lingering' = lingering \ {u}
  /\ NoNotify
  /\ UNCHANGED <<pollID, acked, early, sndUsed, connected, broken, closing, opened,
                 brokenCounter, onList, status, call>>

(* The linger time is over, or there is nothing left to send.  Time is not *)
(* modelled: the timer may have expired whenever the collector looks.      *)
GcEndLinger(u) ==
  /\ At(GC, "idle") /\ status[u] = "closed" /\ u \in lingering
  /\ lingering' = lingering \ {u}
  /\ closing' = closing \cup {u}
  /\ NoNotify
  /\ UNCHANGED <<pollID, acked, early, sndUsed, connected, broken, opened,
                 brokenCounter, onList, status, call>>

(***************************************************************************)
(* removeSocket.  The second that must pass since the socket was closed is *)
(* there "to prevent other methods from accessing invalid address": it is  *)
(* modelled by what it is for, that no call on the socket is in progress.  *)
(***************************************************************************)
GcRemoveSocket(u) ==
  /\ At(GC, "idle") /\ status[u] = "closed" /\ u \notin onList
  /\ \A t \in Threads : call[t].u # u
  /\ Begin(GC, "clLinger", u, 0, {})
  /\ NoNotify /\ UNCHANGED sockVars

-----------------------------------------------------------------------------
(* The receive-queue thread.  It takes a packet for a socket, or looks at  *)
(* its timers, only if the socket is on its list and healthy; what follows *)
(* it does whatever becomes of the socket meanwhile.  checkTimers follows  *)
(* every packet (pc "timers"), also the one that broke the connection.     *)

Serving(u) == At(Worker, "idle") /\ u \in onList /\ Healthy(u)
InTimers(u) == Serving(u) \/ In(Worker, {"timers"}, u)

(* Mutant of ProcessAck: an ACK for more than was sent is not refused.     *)
ProcessAckUnchecked(u, k) ==
  /\ Serving(u)
  /\ sndUsed' = [sndUsed EXCEPT ![u] = @ - k]
  /\ Begin(Worker, "enW", u, 0, {})
  /\ NoNotify
  /\ UNCHANGED <<pollID, acked, early, connected, broken, closing, opened,
                 brokenCounter, lingering, onList, status>>

(* processCtrl, an ACK of k blocks: ackData, then enable_write.            *)
ProcessAck(u, k) ==
  /\ Serving(u) /\ k <= sndUsed[u]
  /\ sndUsed' = [sndUsed EXCEPT ![u] = @ - k]
  /\ Begin(Worker, "enW", u, 0, {})
  /\ NoNotify
  /\ UNCHANGED <<pollID, acked, early, connected, broken, closing, opened,
                 brokenCounter, lingering, onList, status>>

AckEnableWrite ==
  /\ At(Worker, "enW")
  /\ NotifyWrite(call[Worker].u)
  /\ Goto(Worker, "timers")
  /\ UNCHANGED <<acked, early, sndUsed, connected, broken, closing, opened,
                 brokenCounter, lingering, onList, status>>

(* sendCtrl(2): the acknowledged part of the buffer grows by k messages,   *)
(* j of which could be read already, then enable_read.  An ACK may cover   *)
(* part of a message only: k may be 0.                                     *)
SendAck(u, k, j) ==
  /\ InTimers(u) /\ j <= k /\ j <= early[u]
  /\ acked[u] + early[u] + k - j <= MaxMsgs
  /\ acked' = [acked EXCEPT ![u] = @ + k]
  /\ early' = [early EXCEPT ![u] = @ - j]
  /\ Begin(Worker, "enR", u, 0, {})
  /\ NoNotify
  /\ UNCHANGED <<pollID, sndUsed, connected, broken, closing, opened,
                 brokenCounter, lingering, onList, status>>

AckEnableRead ==
  /\ At(Worker, "enR")
  /\ NotifyRead(call[Worker].u)
  /\ Return(Worker)
  /\ UNCHANGED <<acked, early, sndUsed, connected, broken, closing, opened,
                 brokenCounter, lingering, onList, status>>

(* checkTimers finds nothing to acknowledge.                               *)
TimersDone ==
  /\ At(Worker, "timers")
  /\ Return(Worker)
  /\ NoNotify /\ UNCHANGED sockVars

(* processData completes an unordered message that lies beyond a gap:      *)
(* scanMsg finds it, no ACK announces it.                                  *)
CompleteEarly(u) ==
  /\ Serving(u) /\ ~InOrder
  /\ acked[u] + early[u] < MaxMsgs
  /\ early' = [early EXCEPT ![u] = @ + 1]
  /\ Begin(Worker, "timers", u, 0, {})
  /\ NoNotify
  /\ UNCHANGED <<pollID, acked, sndUsed, connected, broken, closing, opened,
                 brokenCounter, lingering, onList, status>>

(* processCtrl, the peer's shutdown: m_iBrokenCounter = 60.                *)
PeerShutdown(u) ==
  /\ Serving(u)
  /\ closing' = closing \cup {u}
  /\ broken' = broken \cup {u}
  /\ brokenCounter' = [brokenCounter EXCEPT ![u] = BrokenCount]
  /\ Begin(Worker, "timers", u, 0, {})
  /\ NoNotify
  /\ UNCHANGED <<pollID, acked, early, sndUsed, connected, opened, lingering,
                 onList, status>>

(* processCtrl, an ACK or a loss report for data never sent.               *)
InvalidControl(u) ==
  /\ Serving(u)
  /\ broken' = broken \cup {u}
  /\ brokenCounter' = [brokenCounter EXCEPT ![u] = 0]
  /\ Begin(Worker, "timers", u, 0, {})
  /\ NoNotify
  /\ UNCHANGED <<pollID, acked, early, sndUsed, connected, closing, opened,
                 lingering, onList, status>>

(* checkTimers, the peer has been silent too long: m_iBrokenCounter = 30,  *)
(* then enable_read and enable_write.                                      *)
PeerSilent(u) ==
  /\ Serving(u)
  /\ closing' = closing \cup {u}
  /\ broken' = broken \cup {u}
  /\ brokenCounter' = [brokenCounter EXCEPT ![u] = BrokenCount]
  /\ Begin(Worker, "expR", u, 0, {})
  /\ NoNotify
  /\ UNCHANGED <<pollID, acked, early, sndUsed, connected, opened, lingering,
                 onList, status>>

ExpEnableRead ==
  /\ At(Worker, "expR")
  /\ NotifyRead(call[Worker].u)
  /\ Goto(Worker, "expW")
  /\ UNCHANGED <<acked, early, sndUsed, connected, broken, closing, opened,
                 brokenCounter, lingering, onList, status>>

ExpEnableWrite ==
  /\ At(Worker, "expW")
  /\ NotifyWrite(call[Worker].u)
  /\ Return(Worker)
  /\ UNCHANGED <<acked, early, sndUsed, connected, broken, closing, opened,
                 brokenCounter, lingering, onList, status>>

(* Mutant of DropFromList: the test forgets m_bBroken.                     *)
DropFromListUnlessBroken(u) ==
  /\ At(Worker, "idle") /\ u \in onList
  /\ u \notin connected \/ u \in closing
  /\ onList' = onList \ {u}
  /\ NoNotify
  /\ UNCHANGED <<pollID, acked, early, sndUsed, connected, broken, closing, opened,
                 brokenCounter, lingering, status, call>>

(* "the socket must be removed from Hash table first, then RcvUList"       *)
DropFromList(u) ==
  /\ At(Worker, "idle") /\ u \in onList /\ ~Healthy(u)
  /\ onList' = onList \ {u}
  /\ NoNotify
  /\ UNCHANGED <<pollID, acked, early, sndUsed, connected, broken, closing, opened,
                 brokenCounter, lingering, status, call>>

-----------------------------------------------------------------------------
(* The steps of a call that has begun, whichever call it is.               *)
CallStep(t) ==
  \/ AddToPoll(t) \/ AddPollID(t) \/ AddCheckRead(t) \/ AddEnableRead(t)
  \/ AddCheckWrite(t) \/ AddEnableWrite(t)
  \/ RemovePollID(t) \/ RemoveDisableRead(t) \/ RemoveDisableWrite(t)
  \/ RemoveFromPoll(t)
  \/ ReadMsg(t) \/ ReadCheck(t) \/ ReadDisable(t)
  \/ \E n \in 1 .. SndBufSize : SendAddBuffer(t, n)
  \/ SendCheck(t) \/ SendDisable(t)
  \/ CloseLock(t) \/ CloseStep(t)

AppBegin(t) ==
  \/ "create" \in AppOps /\ EpollCreate(t)
  \/ "release" \in AppOps /\ \E e \in Eids : EpollRelease(t, e)
  \/ "add" \in AppOps /\ \E e \in Eids, u \in Socks, ev \in SUBSET Events :
                            EpollAddUsock(t, e, u, ev)
  \/ "remove" \in AppOps /\ \E e \in Eids, u \in Socks : EpollRemoveUsock(t, e, u)
  \/ "recv" \in AppOps /\ \E u \in Socks : Recvmsg(t, u)
  \/ "send" \in AppOps /\ \E u \in Socks : Sendmsg(t, u)
  \/ "close" \in AppOps /\ \E u \in Socks : Close(t, u)

GcVisit(u) == \/ GcWaitForReader(u) \/ GcCloseBroken(u)
              \/ GcEndLinger(u) \/ GcRemoveSocket(u)

GcStep == (\E u \in Socks : GcVisit(u)) \/ CloseStep(GC)

WorkerReceive ==
  \E u \in Socks :
    \/ \E k \in 1 .. SndBufSize : ProcessAck(u, k)
    \/ \E k, j \in 0 .. MaxMsgs : SendAck(u, k, j)
    \/ CompleteEarly(u) \/ PeerShutdown(u) \/ InvalidControl(u) \/ PeerSilent(u)

WorkerGoesOn == \/ AckEnableWrite \/ AckEnableRead \/ TimersDone
                \/ ExpEnableRead \/ ExpEnableWrite

Next ==
  \/ \E t \in Apps : AppBegin(t) \/ CallStep(t)
  \/ GcStep
  \/ WorkerReceive \/ WorkerGoesOn
  \/ \E u \in Socks : DropFromList(u)

Spec == Init /\ [][Next]_vars

(***************************************************************************)
(* A call that has begun goes on; the collector wakes up every second and  *)
(* the receive-queue thread never blocks, so each gets to every socket it  *)
(* has work for.  Nothing makes the application call, or the peer answer.  *)
(***************************************************************************)
Fairness ==
  /\ \A t \in Apps : WF_vars(CallStep(t))
  /\ SF_vars(CloseStep(GC))
  /\ \A u \in Socks : SF_vars(GcVisit(u)) /\ SF_vars(DropFromList(u))
  /\ WF_vars(WorkerGoesOn)

FairSpec == Spec /\ Fairness

-----------------------------------------------------------------------------
(* Properties.                                                             *)

Adding(e, u, pcs) == \E t \in Apps : In(t, pcs, u) /\ call[t].e = e
Removing(e, u) == \E t \in Apps : In(t, RemovePcs \ {"rmId"}, u) /\ call[t].e = e
ClosingNow(u) == \E t \in Threads : In(t, {"clPolls", "clFlags"}, u)

(***************************************************************************)
(* A healthy socket with an acknowledged message is in the read set of     *)
(* every epoll that watches it for reading; or the thread that will put it *)
(* there is under way; or it is being taken out; or disable_read took the  *)
(* signal away after the message had come (the auxiliary lostR).  No other *)
(* way to lose a signal exists in addEPoll, sendCtrl, recvmsg and close,   *)
(* however their steps interleave.                                         *)
(***************************************************************************)
ReadDue(e, u) == u \in socksIn[e] /\ Healthy(u) /\ acked[u] > 0

ReadHeld(e, u) == \/ u \in reads[e]
                  \/ In(Worker, {"enR"}, u)
                  \/ Adding(e, u, {"addId", "addChkR", "addEnR"})
                  \/ Removing(e, u) \/ ClosingNow(u)
                  \/ <<e, u>> \in lostR

NoSilentRead == \A e \in mPolls, u \in Socks : ReadDue(e, u) => ReadHeld(e, u)

(* The same for writing: room in the send buffer is always signalled,      *)
(* unless disable_write ran after the room had been made (lostW).          *)
WriteDue(e, u) == u \in socksOut[e] /\ Healthy(u) /\ sndUsed[u] < SndBufSize

WriteHeld(e, u) == \/ u \in writes[e]
                   \/ In(Worker, {"enW"}, u)
                   \/ Adding(e, u, AddPcs \ {"add"})
                   \/ Removing(e, u) \/ ClosingNow(u)
                   \/ <<e, u>> \in lostW

NoSilentWrite == \A e \in mPolls, u \in Socks : WriteDue(e, u) => WriteHeld(e, u)

(* No epoll watches a destroyed socket: by the time removeSocket deletes   *)
(* the CUDT, close has taken it out of every epoll ("remove itself from    *)
(* all epoll monitoring", core.cpp:959).                                   *)
DestroyedNotWatched ==
  \A u \in Socks, e \in Eids :
    status[u] = "destroyed" => u \notin socksIn[e] \cup socksOut[e]
(***************************************************************************)
(* Readiness as the documents have it.  epoll.htm: epoll_wait "returns     *)
(* immediately with any sockets associated an IO event"; so between calls  *)
(* an epoll that watches a socket with a message to read reports it.       *)
(***************************************************************************)
NoCallOn(u) == \A t \in Threads : call[t].u # u

ReadableIsReported ==
  \A e \in mPolls, u \in Socks :
    u \in socksIn[e] /\ Healthy(u) /\ Readable(u) /\ NoCallOn(u) => u \in reads[e]

(* epoll.htm: writefds is the "set of UDT sockets that are ready to write, *)
(* or are broken".                                                         *)
BrokenIsReported ==
  \A e \in mPolls, u \in Socks :
    u \in socksOut[e] /\ u \in broken /\ status[u] = "connected" /\ NoCallOn(u)
      => u \in writes[e]

(* epoll.htm: "Multiple epoll entities can be created": taking a socket    *)
(* out of one epoll says nothing to the others.                            *)
RemoveIsLocal ==
  [][\A t \in Apps : call[t].pc \in RemovePcs =>
       \A e \in Eids \ {call[t].e} :
         call[t]' # call[t] => reads'[e] = reads[e] /\ writes'[e] = writes[e]]_vars

(* A socket that breaks, and one that is closed, is in the end destroyed:  *)
(* the receive-queue thread lets go of it (m_bOnList) and the collector,   *)
(* which waits for that and for the reader, gets its turn.                 *)
BrokenIsDestroyed == \A u \in Socks : u \in broken ~> status[u] = "destroyed"
ClosedIsDestroyed == \A u \in Socks : status[u] = "closed" ~> status[u] = "destroyed"
=============================================================================
