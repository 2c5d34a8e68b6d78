------------------------------ MODULE RcvQueue ------------------------------
(***************************************************************************)
(* The tables of the receive queue of a multiplexer (CRcvQueue, CRcvUList, *)
(* CHash and CRendezvousQueue of queue.cpp): its thread looks packets up   *)
(* in them and checks the timers of the sockets, while applications        *)
(* connect and close sockets and the collector destroys them.  All tables  *)
(* hold pointers to sockets.  What a packet does to its socket is in       *)
(* UdtConnect and UdtTransfer; here it connects, keeps or breaks it.       *)
(***************************************************************************)
EXTENDS Integers, Sequences, FiniteSets, SequencesExt

CONSTANTS
    AppSocks,      \* IDs of the sockets applications make
    AcceptSocks,   \* IDs of the sockets the listener makes
    SyncSocks,     \* sockets of applications that connect with m_bSynRecving
    Buckets,       \* m_iHashSize
    Tries,         \* how often a socket may call connect
    CheckInterval, \* the 100 ms after which the timers of a silent socket are checked
    ConnTTL,       \* the time connect waits
    DestroyAfter,  \* the second a closed socket is kept
    MaxRqClock     \* bound on the clock

ASSUME RcvQueueAssumption ==
    /\ AppSocks \cup AcceptSocks \subseteq Nat \ {0} /\ AppSocks \cap AcceptSocks = {}
    /\ SyncSocks \subseteq AppSocks
    /\ {Buckets, ConnTTL, MaxRqClock} \subseteq Nat \ {0}
    /\ {Tries, CheckInterval, DestroyAfter} \subseteq Nat

VARIABLES
    rqState,     \* "new", "listening", "connecting", "expired", "connected", "broken",
                 \* "closed", "gone"
    rqTries,     \* calls of connect
    rqClosing,   \* sockets with m_bClosing
    rqClosedAt,  \* m_TimeStamp in m_ClosedSockets, 0 for a socket of m_Sockets
    rqLingers,   \* sockets with m_ullLingerExpiration > 0
    rqListener,  \* m_pListener, or 0
    rqOnList,    \* m_bOnList of each socket
    rqNew,       \* m_vNewEntry
    rqList,      \* m_pRcvUList: head, last, and prev, next and stamp of each node; 0 is NULL
    rqHash,      \* the chains of m_pHash
    rqConns,     \* m_pRendezvousQueue: id and TTL
    rqStored,    \* sockets with a handshake in m_mBuffer
    rqPc,        \* the thread: "entries", "packet", "connect", "check"
    rqHeld,      \* the socket it has retrieved from m_pRendezvousQueue
    rqClock

rcvQueueVars == <<rqState, rqTries, rqClosing, rqClosedAt, rqLingers, rqListener, rqOnList,
                  rqNew, rqList, rqHash, rqConns, rqStored, rqPc, rqHeld, rqClock>>
rqTables == <<rqOnList, rqNew, rqList, rqHash>>
rqApi == <<rqTries, rqClosing, rqClosedAt, rqLingers>>

RqSocks == AppSocks \cup AcceptSocks
Healthy(u) == rqState[u] = "connected" /\ u \notin rqClosing
BucketOf(u) == u % Buckets

RcvQueueInit ==
    /\ rqState = [u \in RqSocks |-> "new"]
    /\ rqTries = [u \in RqSocks |-> 0] /\ rqClosing = {} /\ rqClosedAt = [u \in RqSocks |-> 0]
    /\ rqLingers = {} /\ rqListener = 0 /\ rqOnList = [u \in RqSocks |-> FALSE] /\ rqNew = <<>>
    /\ rqList = [head |-> 0, last |-> 0, prev |-> [u \in RqSocks |-> 0],
                 next |-> [u \in RqSocks |-> 0], stamp |-> [u \in RqSocks |-> 1]]
    /\ rqHash = [b \in 0..Buckets - 1 |-> <<>>]
    /\ rqConns = <<>> /\ rqStored = {} /\ rqPc = "entries" /\ rqHeld = 0 /\ rqClock = 1

-----------------------------------------------------------------------------
(* CRcvUList, CHash, CRendezvousQueue.                                     *)

\* insert: behind the last node.
ListInsert(l, u, now) ==
    [l EXCEPT !.stamp[u] = now, !.prev[u] = l.last, !.next[u] = 0, !.last = u,
              !.head = IF @ = 0 THEN u ELSE @,
              !.next = IF l.last = 0 THEN [@ EXCEPT ![u] = 0] ELSE [@ EXCEPT ![u] = 0, ![l.last] = u]]

\* What remove and update do: the neighbours of u become each other's.
Unhooked(l, u) ==
    LET p == l.prev[u]
        n == l.next[u]
    IN [l EXCEPT !.head = IF p = 0 THEN n ELSE @,
                 !.last = IF n = 0 THEN p ELSE @,
                 !.next = IF p = 0 THEN @ ELSE [@ EXCEPT ![p] = n],
                 !.prev = IF n = 0 THEN @ ELSE [@ EXCEPT ![n] = p]]

ListRemove(l, u) == [Unhooked(l, u) EXCEPT !.next[u] = 0, !.prev[u] = 0]

\* Mutant of ListUpdate: the node gets its time but keeps its place.
ListUpdateInPlace(l, u, now) == [l EXCEPT !.stamp[u] = now]

\* update: to the end of the list.
ListUpdate(l, u, now) ==
    IF l.next[u] = 0 THEN [l EXCEPT !.stamp[u] = now] ELSE ListInsert(Unhooked(l, u), u, now)

HashInsert(h, u) == [h EXCEPT ![BucketOf(u)] = <<u>> \o @]
HashLookup(h, u) == \E i \in DOMAIN h[BucketOf(u)] : h[BucketOf(u)][i] = u

HashRemove(h, u) == [h EXCEPT ![BucketOf(u)] = RemoveFirst(@, u)]

RemoveConnector(u) ==
    /\ rqConns' = RemoveFirstMatch(rqConns, LAMBDA r : r.id = u)
    /\ rqStored' = rqStored \ {u}

-----------------------------------------------------------------------------
(* Applications and the collector.                                         *)

\* The end of connect and of the listener's connect: a socket to receive for.
SetNewEntry(u) ==
    /\ rqState' = [rqState EXCEPT ![u] = "connected"]
    /\ rqOnList' = [rqOnList EXCEPT ![u] = TRUE]
    /\ rqNew' = Append(rqNew, u)

RqListen(u) ==
    /\ rqState[u] = "new" /\ rqClosedAt[u] = 0 /\ rqListener = 0
    /\ rqListener' = u /\ rqState' = [rqState EXCEPT ![u] = "listening"]
    /\ UNCHANGED <<rqApi, rqTables, rqConns, rqStored, rqPc, rqHeld, rqClock>>

\* connect, up to the first request.  A blocking one that has failed may be
\* repeated; the status of a socket that does not block stays CONNECTING.
RqConnect(u) ==
    /\ rqState[u] = "new" \/ (rqState[u] = "expired" /\ u \in SyncSocks)
    /\ rqClosedAt[u] = 0 /\ rqTries[u] < Tries
    /\ rqConns' = Append(rqConns, [id |-> u, ttl |-> rqClock + ConnTTL])
    /\ rqState' = [rqState EXCEPT ![u] = "connecting"]
    /\ rqTries' = [rqTries EXCEPT ![u] = @ + 1]
    /\ UNCHANGED <<rqClosing, rqClosedAt, rqLingers, rqListener, rqTables, rqStored, rqPc,
                   rqHeld, rqClock>>

\* A blocking connect takes the handshake the thread has stored for it.
RqSyncConnected(u) ==
    /\ u \in rqStored /\ rqState[u] = "connecting" /\ u \notin rqClosing
    /\ RemoveConnector(u) /\ SetNewEntry(u)
    /\ UNCHANGED <<rqApi, rqListener, rqList, rqHash, rqPc, rqHeld, rqClock>>

\* CUDT::close: out of the listener or the rendezvous queue; the lists and the
\* hash table are left to the thread.
CloseSock(u) ==
    /\ rqClosing' = rqClosing \cup {u}
    /\ IF rqState[u] = "listening"
       THEN /\ rqListener' = IF rqListener = u THEN 0 ELSE rqListener
            /\ UNCHANGED <<rqConns, rqStored>>
       ELSE RemoveConnector(u) /\ UNCHANGED rqListener

RqClose(u) ==
    /\ rqState[u] # "gone" /\ rqClosedAt[u] = 0 /\ u \in AppSocks
    /\ CloseSock(u)
    /\ rqState' = [rqState EXCEPT ![u] = IF @ \in {"connected", "listening"} THEN "closed" ELSE @]
    /\ rqClosedAt' = [rqClosedAt EXCEPT ![u] = rqClock]
    /\ UNCHANGED <<rqTries, rqLingers, rqTables, rqPc, rqHeld, rqClock>>

\* close of a socket with data to send that does not block ...
RqLinger(u) ==
    /\ rqState[u] = "connected" /\ rqClosedAt[u] = 0 /\ u \notin rqClosing
    /\ rqLingers' = rqLingers \cup {u} /\ rqClosedAt' = [rqClosedAt EXCEPT ![u] = rqClock]
    /\ UNCHANGED <<rqState, rqTries, rqClosing, rqListener, rqTables, rqConns, rqStored, rqPc,
                   rqHeld, rqClock>>

\* ... which checkBrokenSockets ends.
RqLingerEnds(u) ==
    /\ u \in rqLingers
    /\ rqLingers' = rqLingers \ {u} /\ rqClosing' = rqClosing \cup {u}
    /\ rqClosedAt' = [rqClosedAt EXCEPT ![u] = rqClock]
    /\ UNCHANGED <<rqState, rqTries, rqListener, rqTables, rqConns, rqStored, rqPc, rqHeld,
                   rqClock>>

\* checkBrokenSockets, a broken socket.
RqCollect(u) ==
    /\ rqState[u] = "broken" /\ rqClosedAt[u] = 0
    /\ rqClosedAt' = [rqClosedAt EXCEPT ![u] = rqClock]
    /\ UNCHANGED <<rqState, rqTries, rqClosing, rqLingers, rqListener, rqTables, rqConns,
                   rqStored, rqPc, rqHeld, rqClock>>

\* Mutant of Destroyable: the node need not be off the list.
DestroyableByTime(u) ==
    /\ rqState[u] # "gone" /\ rqClosedAt[u] > 0 /\ rqClock - rqClosedAt[u] > DestroyAfter

Destroyable(u) ==
    /\ rqState[u] # "gone" /\ rqClosedAt[u] > 0 /\ rqClock - rqClosedAt[u] > DestroyAfter
    /\ ~rqOnList[u]

\* removeSocket: close, unless it is done, and delete.
RqDestroy(u) ==
    /\ Destroyable(u)
    /\ IF u \in rqClosing THEN UNCHANGED <<rqClosing, rqListener, rqConns, rqStored>> ELSE CloseSock(u)
    /\ rqState' = [rqState EXCEPT ![u] = "gone"] /\ rqLingers' = rqLingers \ {u}
    /\ UNCHANGED <<rqTries, rqClosedAt, rqTables, rqPc, rqHeld, rqClock>>

-----------------------------------------------------------------------------
(* The thread (worker).  A turn takes less than a unit of time.            *)

RqEntry ==
    /\ rqPc = "entries" /\ rqNew # <<>>
    /\ LET u == Head(rqNew)
       IN /\ rqList' = ListInsert(rqList, u, rqClock)
          /\ rqHash' = HashInsert(rqHash, u)
    /\ rqNew' = Tail(rqNew)
    /\ UNCHANGED <<rqState, rqApi, rqListener, rqOnList, rqConns, rqStored, rqPc, rqHeld, rqClock>>

RqEntered ==
    /\ rqPc = "entries" /\ rqNew = <<>> /\ rqPc' = "packet"
    /\ UNCHANGED <<rqState, rqApi, rqListener, rqTables, rqConns, rqStored, rqHeld, rqClock>>

\* No packet, none it has a unit for, or none for a socket of the queue.
RqNoPacket ==
    /\ rqPc = "packet" /\ rqPc' = "check"
    /\ UNCHANGED <<rqState, rqApi, rqListener, rqTables, rqConns, rqStored, rqHeld, rqClock>>

\* A request: the listener makes a socket.
RqAccept(u) ==
    /\ rqPc = "packet" /\ rqListener # 0 /\ u \in AcceptSocks /\ rqState[u] = "new"
    /\ SetNewEntry(u) /\ rqPc' = "check"
    /\ UNCHANGED <<rqApi, rqListener, rqList, rqHash, rqConns, rqStored, rqHeld, rqClock>>

\* A handshake for a socket that connects: it is stored, or ...
RqResponse(i) ==
    /\ rqPc = "packet" /\ i \in DOMAIN rqConns
    /\ LET u == rqConns[i].id
       IN /\ ~HashLookup(rqHash, u)
          /\ IF u \in SyncSocks
             THEN rqStored' = rqStored \cup {u} /\ rqPc' = "check" /\ UNCHANGED rqHeld
             ELSE rqHeld' = u /\ rqPc' = "connect" /\ UNCHANGED rqStored
    /\ UNCHANGED <<rqState, rqApi, rqListener, rqTables, rqConns, rqClock>>

\* ... the thread connects the socket itself, even if it has been closed meanwhile.
RqAsyncConnected ==
    /\ rqPc = "connect" /\ rqPc' = "check" /\ rqHeld' = 0
    /\ IF rqState[rqHeld] = "connecting"
       THEN RemoveConnector(rqHeld) /\ SetNewEntry(rqHeld)
       ELSE UNCHANGED <<rqConns, rqStored, rqState, rqOnList, rqNew>>
    /\ UNCHANGED <<rqApi, rqListener, rqList, rqHash, rqClock>>

\* A packet of a connection, which may end it.
RqPacket(u) ==
    /\ rqPc = "packet" /\ HashLookup(rqHash, u) /\ Healthy(u)
    /\ \E after \in {"connected", "broken"} : rqState' = [rqState EXCEPT ![u] = after]
    /\ rqList' = ListUpdate(rqList, u, rqClock) /\ rqPc' = "check"
    /\ UNCHANGED <<rqApi, rqListener, rqOnList, rqNew, rqHash, rqConns, rqStored, rqHeld, rqClock>>

TimerDue == rqList.head # 0 /\ rqList.stamp[rqList.head] < rqClock - CheckInterval

\* The first socket of the list is due: its timers are checked, or it leaves.
RqCheck ==
    /\ rqPc = "check" /\ TimerDue
    /\ LET u == rqList.head
       IN IF Healthy(u)
          THEN /\ \E after \in {"connected", "broken"} : rqState' = [rqState EXCEPT ![u] = after]
               /\ rqList' = ListUpdate(rqList, u, rqClock) /\ UNCHANGED <<rqHash, rqOnList>>
          ELSE /\ rqHash' = HashRemove(rqHash, u) /\ rqList' = ListRemove(rqList, u)
               /\ rqOnList' = [rqOnList EXCEPT ![u] = FALSE] /\ UNCHANGED rqState
    /\ UNCHANGED <<rqApi, rqListener, rqNew, rqConns, rqStored, rqPc, rqHeld, rqClock>>

\* updateConnStatus, the end of the turn.
RqUpdateConns ==
    /\ rqPc = "check" /\ ~TimerDue /\ rqPc' = "entries"
    /\ LET late == {rqConns[i].id : i \in {j \in DOMAIN rqConns : rqClock >= rqConns[j].ttl}}
       IN rqState' = [u \in RqSocks |->
                        IF u \in late /\ rqState[u] = "connecting" THEN "expired" ELSE rqState[u]]
    /\ UNCHANGED <<rqApi, rqListener, rqTables, rqConns, rqStored, rqHeld, rqClock>>

RqTick ==
    /\ rqPc = "entries" /\ rqClock < MaxRqClock /\ rqClock' = rqClock + 1
    /\ UNCHANGED <<rqState, rqApi, rqListener, rqTables, rqConns, rqStored, rqPc, rqHeld>>

RcvQueueNext ==
    \/ \E u \in AppSocks : RqListen(u) \/ RqConnect(u) \/ RqSyncConnected(u) \/ RqClose(u)
    \/ \E u \in RqSocks : \/ RqLinger(u) \/ RqLingerEnds(u) \/ RqCollect(u) \/ RqDestroy(u)
                          \/ RqAccept(u) \/ RqPacket(u)
    \/ \E i \in 1..Cardinality(RqSocks) * Tries : RqResponse(i)
    \/ RqEntry \/ RqEntered \/ RqNoPacket \/ RqAsyncConnected \/ RqCheck \/ RqUpdateConns \/ RqTick

-----------------------------------------------------------------------------
\* The sockets whose nodes are linked.
InList == {u \in RqSocks : rqOnList[u]} \ ToSet(rqNew)

\* The links are those of one list of these nodes in this order, oldest first.
LinkedAs(order) ==
    LET n == Len(order) IN
    /\ rqList.head = IF n = 0 THEN 0 ELSE order[1]
    /\ rqList.last = IF n = 0 THEN 0 ELSE order[n]
    /\ \A i \in 1..n : /\ rqList.next[order[i]] = IF i = n THEN 0 ELSE order[i + 1]
                       /\ rqList.prev[order[i]] = IF i = 1 THEN 0 ELSE order[i - 1]
    /\ \A i \in 1..n - 1 : rqList.stamp[order[i]] <= rqList.stamp[order[i + 1]]

\* Through all the joining, leaving and moving to the end the links stay those of
\* one list, its times in order, and the hash table finds exactly its sockets; a
\* socket has m_bOnList as long as it is there or about to be.
TablesAgree ==
    /\ ToSet(rqNew) \subseteq {u \in RqSocks : rqOnList[u]} /\ IsInjective(rqNew)
    /\ \E order \in SetToSeqs(InList) : LinkedAs(order)
    /\ \A u \in RqSocks : HashLookup(rqHash, u) <=> u \in InList

\* When the first socket of the list is not due, none is: at the end of a turn no
\* socket of the queue has gone longer than the interval without a check of its
\* timers, however busy the others are.
TimersChecked ==
    rqPc = "check" /\ ~TimerDue => \A u \in InList : rqList.stamp[u] >= rqClock - CheckInterval

\* The thread never finds the pointer of a socket that has been destroyed.
NoneDangles ==
    \A u \in RqSocks : rqState[u] = "gone" =>
      /\ u \notin InList \cup ToSet(rqNew) /\ rqListener # u /\ rqHeld # u
      /\ ~HashLookup(rqHash, u) /\ \A i \in DOMAIN rqConns : rqConns[i].id # u

RcvQueueSound == TablesAgree /\ TimersChecked /\ NoneDangles
=============================================================================
