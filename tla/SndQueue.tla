------------------------------ MODULE SndQueue ------------------------------
(***************************************************************************)
(* The send queue of a multiplexer (CSndQueue and CSndUList of queue.cpp,  *)
(* the interruptible sleep of CTimer): a heap of sockets ordered by the    *)
(* time of their next packet, the thread that serves it, the threads that  *)
(* put sockets on it, and the destructor.  m_ListLock makes the operations *)
(* of the heap atomic, but insert_ signals the condition under another     *)
(* lock, m_WindowLock, after it has changed the heap.                      *)
(***************************************************************************)
EXTENDS Integers, Sequences, FiniteSets, SequencesExt

CONSTANTS
    SndSocks, \* connected sockets of the multiplexer
    Pace,     \* times between two packets (m_ullInterval - m_ullTimeDiff)
    MaxWork,  \* bound on the packets that become ready in a behaviour
    MaxStale, \* bound on the numbers packData takes for nothing
    MaxClock, \* bound on the clock
    HeapSocks, \* sockets put on the heap and taken off it by itself,
    HeapTimes  \* with any of these times

ASSUME SndQueueAssumption ==
    /\ Pace \cup HeapTimes \subseteq Nat /\ {MaxWork, MaxStale} \subseteq Nat /\ MaxClock \in Nat \ {0}

VARIABLES
    sqHeap,    \* m_pHeap up to m_iLastEntry: sockets and m_llTimeStamp
    sqLocked,  \* m_ListLock is held by a thread that is about to signal
    sqPc,      \* where the thread of the queue is
    sqTs,      \* the time getNextProcTime returned to it
    sqSched,   \* m_ullSchedTime of the timer
    sqClock,   \* the clock
    sqWork,    \* for each socket, how many packets packData could send
    sqAdded,   \* how many became ready so far
    sqPending, \* calls of update that have yet to be made: socket and reschedule
    sqStale,   \* sockets packData returned nothing for although it could have sent
    sqStales,  \* how often that was
    sqOpen,    \* sockets with m_bConnected and not m_bBroken
    sqClosing  \* the destructor: "no", "closing" (m_bClosing), "signalled"

sndQueueVars == <<sqHeap, sqLocked, sqPc, sqTs, sqSched, sqClock, sqWork, sqAdded, sqPending,
                  sqStale, sqStales, sqOpen, sqClosing>>

SndQueueInit ==
    /\ sqHeap = <<>> /\ sqLocked = FALSE /\ sqPc = "top" /\ sqTs = 0 /\ sqSched = 0 /\ sqClock = 1
    /\ sqWork = [u \in SndSocks |-> 0] /\ sqAdded = 0 /\ sqPending = {}
    /\ sqStale = {} /\ sqStales = 0 /\ sqOpen = SndSocks /\ sqClosing = "no"

-----------------------------------------------------------------------------
(* The heap, counted from 1.                                               *)

Locs(h, u) == {i \in DOMAIN h : h[i].u = u}
OnHeap(u) == Locs(sqHeap, u) # {}
Swapped(h, i, j) == [h EXCEPT ![i] = h[j], ![j] = h[i]]

\* A move of the entry at s.at up past a later one, or down past the earlier of the
\* two below it.
MovedUp(s) ==
    LET p == s.at \div 2
    IN IF s.at > 1 /\ s.heap[p].ts > s.heap[s.at].ts
       THEN [heap |-> Swapped(s.heap, p, s.at), at |-> p] ELSE s

EarlierBelow(h, at) ==
    IF 2 * at + 1 <= Len(h) /\ h[2 * at].ts > h[2 * at + 1].ts THEN 2 * at + 1 ELSE 2 * at

MovedDown(s) ==
    LET p == EarlierBelow(s.heap, s.at)
    IN IF 2 * s.at <= Len(s.heap) /\ s.heap[s.at].ts > s.heap[p].ts
       THEN [heap |-> Swapped(s.heap, s.at, p), at |-> p] ELSE s

\* The loops that move the last entry up and the entry at q down; step[k] is the
\* heap after k moves.
SiftedUp(h) ==
    LET step[k \in 0..Len(h)] ==
          IF k = 0 THEN [heap |-> h, at |-> Len(h)] ELSE MovedUp(step[k - 1])
    IN step[Len(h)].heap

SiftedDown(h, q) ==
    LET step[k \in 0..Len(h)] ==
          IF k = 0 THEN [heap |-> h, at |-> q] ELSE MovedDown(step[k - 1])
    IN step[Len(h)].heap

\* Mutant of Inserted: the new entry does not move up.
InsertedLast(h, u, t) == Append(h, [u |-> u, ts |-> t])

\* insert_ of a socket that is not on the heap.
Inserted(h, u, t) == SiftedUp(Append(h, [u |-> u, ts |-> t]))

\* Mutant of Removed: the last entry goes with the socket's.
RemovedWithLast(h, u) ==
    IF Locs(h, u) = {} THEN h ELSE SelectSeq(Front(h), LAMBDA x : x.u # u)

\* remove_: the last entry takes the place of the socket's and moves down, but
\* never up.
Removed(h, u) ==
    IF Locs(h, u) = {} THEN h
    ELSE LET q == CHOOSE i \in Locs(h, u) : TRUE
             moved == Front([h EXCEPT ![q] = Last(h)])
         IN SiftedDown(moved, q)

\* interrupt() is called by insert_ if the socket comes first, by remove_ if
\* one entry is left.
InsertInterrupts(h, u) == h[1].u = u
RemoveInterrupts(h) == Len(h) = 1

-----------------------------------------------------------------------------
(* The threads that put sockets on the list: send, and the receive-queue   *)
(* thread in processCtrl and checkTimers.                                  *)

\* A packet becomes ready: data in the send buffer, room in the window after
\* an ACK, or a loss report; a call of update follows.
SndReady(u, reschedule) ==
    /\ sqAdded < MaxWork /\ u \in sqOpen
    /\ sqWork' = [sqWork EXCEPT ![u] = @ + 1] /\ sqAdded' = sqAdded + 1
    /\ sqPending' = sqPending \cup {[u |-> u, reschedule |-> reschedule]}
    /\ UNCHANGED <<sqHeap, sqLocked, sqPc, sqTs, sqSched, sqClock, sqStale, sqStales, sqOpen, sqClosing>>

\* checkTimers finds packets that were not acknowledged.
SndTimer(u) ==
    /\ u \in sqStale /\ u \in sqOpen
    /\ sqStale' = sqStale \ {u}
    /\ sqPending' = sqPending \cup {[u |-> u, reschedule |-> TRUE]}
    /\ UNCHANGED <<sqHeap, sqLocked, sqPc, sqTs, sqSched, sqClock, sqWork, sqAdded, sqStales, sqOpen, sqClosing>>

\* update, up to the signal of insert_.
SndUpdate(p) ==
    /\ p \in sqPending /\ ~sqLocked
    /\ sqPending' = sqPending \ {p}
    /\ \/ /\ OnHeap(p.u) /\ ~p.reschedule
          /\ UNCHANGED <<sqHeap, sqSched, sqLocked>>
       \/ /\ OnHeap(p.u) /\ p.reschedule /\ sqHeap[1].u = p.u
          /\ sqHeap' = [sqHeap EXCEPT ![1].ts = 1]
          /\ sqSched' = sqClock
          /\ UNCHANGED sqLocked
       \/ /\ OnHeap(p.u) => p.reschedule /\ sqHeap[1].u # p.u
          /\ sqHeap' = Inserted(Removed(sqHeap, p.u), p.u, 1)
          /\ sqSched' = IF \/ OnHeap(p.u) /\ RemoveInterrupts(Removed(sqHeap, p.u))
                           \/ InsertInterrupts(sqHeap', p.u)
                        THEN sqClock ELSE sqSched
          /\ sqLocked' = (Len(sqHeap') = 1)
    /\ UNCHANGED <<sqPc, sqTs, sqClock, sqWork, sqAdded, sqStale, sqStales, sqOpen, sqClosing>>

Signalled == IF sqPc = "waiting" THEN "top" ELSE sqPc

\* insert_ signals the condition, and the caller releases m_ListLock.
SndSignal ==
    /\ sqLocked
    /\ sqLocked' = FALSE /\ sqPc' = Signalled
    /\ UNCHANGED <<sqHeap, sqTs, sqSched, sqClock, sqWork, sqAdded, sqPending, sqStale, sqStales, sqOpen, sqClosing>>

\* CUDT::close removes the socket from the list ...
SndRemove(u) ==
    /\ u \in sqOpen /\ OnHeap(u) /\ ~sqLocked
    /\ sqHeap' = Removed(sqHeap, u)
    /\ sqSched' = IF RemoveInterrupts(sqHeap') THEN sqClock ELSE sqSched
    /\ sqStale' = sqStale \cup {u}  \* whatever else it had to send waits
    /\ UNCHANGED <<sqLocked, sqPc, sqTs, sqClock, sqWork, sqAdded, sqPending, sqStales, sqOpen, sqClosing>>

\* ... and is no longer connected; or the connection breaks.
SndLeave(u) ==
    /\ u \in sqOpen
    /\ sqOpen' = sqOpen \ {u}
    /\ UNCHANGED <<sqHeap, sqLocked, sqPc, sqTs, sqSched, sqClock, sqWork, sqAdded, sqPending,
                   sqStale, sqStales, sqClosing>>

SndTick ==
    /\ sqClock < MaxClock
    /\ sqClock' = sqClock + 1
    /\ UNCHANGED <<sqHeap, sqLocked, sqPc, sqTs, sqSched, sqWork, sqAdded, sqPending, sqStale,
                   sqStales, sqOpen, sqClosing>>

-----------------------------------------------------------------------------
(* The thread of the queue.                                                *)

sndOthers == <<sqWork, sqAdded, sqPending, sqStale, sqStales, sqOpen, sqClosing, sqClock>>

\* The test of m_bClosing, and getNextProcTime.
SndTop ==
    /\ sqPc = "top"
    /\ \/ sqClosing # "no" /\ sqPc' = "exited" /\ UNCHANGED sqTs
       \/ /\ sqClosing = "no" /\ ~sqLocked
          /\ sqTs' = IF sqHeap = <<>> THEN 0 ELSE sqHeap[1].ts
          /\ sqPc' = IF sqHeap = <<>> THEN "empty" ELSE "early"
    /\ UNCHANGED <<sqHeap, sqLocked, sqSched, sndOthers>>

\* sleepto forgets an interrupt() that came before it.
SndSleep ==
    /\ sqPc = "early"
    /\ IF sqClock < sqTs THEN sqSched' = sqTs /\ sqPc' = "sleeping"
                         ELSE sqPc' = "pop" /\ UNCHANGED sqSched
    /\ UNCHANGED <<sqHeap, sqLocked, sqTs, sndOthers>>

SndWake ==
    /\ sqPc = "sleeping" /\ sqClock >= sqSched
    /\ sqPc' = "pop"
    /\ UNCHANGED <<sqHeap, sqLocked, sqTs, sqSched, sndOthers>>

\* Mutant of SndWait: the list is not looked at again.
SndWaitUntested ==
    /\ sqPc = "empty"
    /\ sqPc' = IF sqClosing = "no" THEN "waiting" ELSE "top"
    /\ UNCHANGED <<sqHeap, sqLocked, sqTs, sqSched, sndOthers>>

\* Wait if the list is empty and the queue is not being closed.
SndWait ==
    /\ sqPc = "empty"
    /\ sqPc' = IF sqClosing = "no" /\ sqHeap = <<>> THEN "waiting" ELSE "top"
    /\ UNCHANGED <<sqHeap, sqLocked, sqTs, sqSched, sndOthers>>

\* pop takes off the first socket if it is time, and puts it back if packData
\* had a packet.
Due == sqHeap # <<>> /\ sqClock >= sqHeap[1].ts

SndPop ==
    /\ sqPc = "pop" /\ ~sqLocked
    /\ sqPc' = "top"
    /\ \/ ~Due /\ UNCHANGED <<sqHeap, sqWork, sqStale, sqStales>>
       \/ /\ Due
          /\ sqHeap[1].u \notin sqOpen \/ sqWork[sqHeap[1].u] = 0
          /\ sqHeap' = Removed(sqHeap, sqHeap[1].u)
          /\ UNCHANGED <<sqWork, sqStale, sqStales>>
       \/ /\ Due
          /\ sqHeap[1].u \in sqOpen /\ sqWork[sqHeap[1].u] > 0
          /\ sqWork' = [sqWork EXCEPT ![sqHeap[1].u] = @ - 1]
          /\ \/ /\ \E d \in Pace : sqHeap' = Inserted(Removed(sqHeap, sqHeap[1].u), sqHeap[1].u, sqClock + d)
                /\ UNCHANGED <<sqStale, sqStales>>
             \/ \* the lost number was acknowledged, or its message has expired
                /\ sqStales < MaxStale /\ sqStales' = sqStales + 1
                /\ sqHeap' = Removed(sqHeap, sqHeap[1].u)
                /\ sqStale' = sqStale \cup {sqHeap[1].u}
    /\ UNCHANGED <<sqLocked, sqTs, sqSched, sqAdded, sqPending, sqOpen, sqClosing, sqClock>>

-----------------------------------------------------------------------------
(* ~CSndQueue, when no socket uses the multiplexer any more.               *)

SndClosing ==
    /\ sqClosing = "no" /\ sqOpen = {} /\ sqPending = {} /\ ~sqLocked
    /\ sqClosing' = "closing"
    /\ UNCHANGED <<sqHeap, sqLocked, sqPc, sqTs, sqSched, sqClock, sqWork, sqAdded, sqPending,
                   sqStale, sqStales, sqOpen>>

SndCloseSignal ==
    /\ sqClosing = "closing"
    /\ sqClosing' = "signalled" /\ sqPc' = Signalled
    /\ UNCHANGED <<sqHeap, sqLocked, sqTs, sqSched, sqClock, sqWork, sqAdded, sqPending,
                   sqStale, sqStales, sqOpen>>

SndQueueNext ==
    \/ \E u \in SndSocks, reschedule \in BOOLEAN : SndReady(u, reschedule)
    \/ \E u \in SndSocks : SndTimer(u) \/ SndRemove(u) \/ SndLeave(u)
    \/ \E p \in sqPending : SndUpdate(p)
    \/ SndSignal \/ SndTick \/ SndTop \/ SndSleep \/ SndWake \/ SndWait \/ SndPop
    \/ SndClosing \/ SndCloseSignal

\* The heap by itself: insert_ with any time and remove_ of any socket.
HeapNext ==
    /\ \E u \in HeapSocks :
          \/ ~OnHeap(u) /\ \E t \in HeapTimes : sqHeap' = Inserted(sqHeap, u, t)
          \/ OnHeap(u) /\ sqHeap' = Removed(sqHeap, u)
    /\ UNCHANGED <<sndOthers, sqLocked, sqPc, sqTs, sqSched>>

-----------------------------------------------------------------------------
\* The thread does not wait for the condition when there is a socket to serve,
\* or the queue is being closed, unless a signal is on its way.
NoLostWakeup ==
    sqPc = "waiting" => /\ sqHeap = <<>> \/ sqLocked
                        /\ sqClosing # "signalled"

\* A connected socket with a packet to send is on the list or about to be put
\* there, unless packData had to do with a lost number that no longer counts: it
\* then takes the socket off the list, whatever else it has to send.
NothingForgotten ==
    \A u \in sqOpen : sqWork[u] > 0 =>
        OnHeap(u) \/ u \in sqStale \/ \E p \in sqPending : p.u = u

\* Every socket is on the list once at most, and the first entry is the earliest.
FirstIsEarliest ==
    /\ \A i, j \in DOMAIN sqHeap : sqHeap[i].u = sqHeap[j].u => i = j
    /\ \A i \in DOMAIN sqHeap : sqHeap[1].ts <= sqHeap[i].ts
=============================================================================
