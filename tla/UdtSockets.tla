----------------------------- MODULE UdtSockets -----------------------------
(***************************************************************************)
(* The life of a listening socket and of the sockets made for it           *)
(* (CUDTUnited of api.cpp): the receive-queue thread, which makes sockets; *)
(* application threads in accept and close; and the collector, which moves *)
(* broken and closed sockets from m_Sockets to m_ClosedSockets, deletes    *)
(* them a second later, and deletes the multiplexer with its threads when  *)
(* its last socket is gone.  An action is what happens under one lock.     *)
(***************************************************************************)
EXTENDS Integers, FiniteSets, FiniteSetsExt, Sequences, SequencesExt

CONSTANTS
    MaxSocks,  \* bound on the sockets made
    Acceptors, \* application threads that call accept
    BackLog    \* m_uiBackLog

ASSUME UdtSocketsAssumption == {MaxSocks, BackLog} \subseteq Nat \ {0} /\ Acceptors # {}

VARIABLES
    where,     \* of each socket: "none", "new", "sockets" (m_Sockets),
               \* "closed" (m_ClosedSockets), "gone" (deleted), "leaked"
    shut,      \* its m_Status is CLOSED
    broken,    \* m_bBroken
    onList,    \* m_bOnList: the receive-queue thread still knows it
    aged,      \* its m_TimeStamp is far enough back
    queue,     \* m_pQueuedSockets of the listener
    readable,  \* the listener is readable for its epolls
    listening, \* m_pListener of the receive queue is set
    refCount,  \* m_iRefCount of the multiplexer
    control,   \* m_ControlLock is held by the collector
    wk,        \* the receive-queue thread: where it is in newConnection
    wkSock,    \* the socket the request repeats, or the one it is making
    acc,       \* where each accepting thread is
    accSock,   \* the socket it has taken from the queue, 0 for none
    owned,     \* sockets accept has returned
    closing,   \* owned sockets on which CUDT::close was called
    bcast,     \* close of the listener is about to wake the waiting threads
    gc,        \* the collector: "idle", "remove", "join"
    tbr        \* the sockets it is going to delete

wkVars == <<wk, wkSock>>
accVars == <<acc, accSock, owned, closing>>
gcVars == <<control, gc, tbr>>
sockVars == <<where, shut, broken, onList, aged>>
lsVars == <<queue, readable, listening, bcast>>
udtSocketsVars == <<sockVars, lsVars, refCount, wkVars, accVars, gcVars>>

Socks == 1..MaxSocks
L == 0  \* the listener
All == Socks \cup {L}

UdtSocketsInit ==
    /\ where = [s \in All |-> IF s = L THEN "sockets" ELSE "none"]
    /\ shut = [s \in All |-> FALSE] /\ broken = [s \in All |-> FALSE]
    /\ onList = [s \in All |-> FALSE] /\ aged = [s \in All |-> FALSE]
    /\ queue = {} /\ readable = FALSE /\ listening = TRUE /\ bcast = FALSE
    /\ refCount = 1 /\ control = FALSE
    /\ wk = "idle" /\ wkSock = 0
    /\ acc = [a \in Acceptors |-> "idle"] /\ accSock = [a \in Acceptors |-> 0]
    /\ owned = {} /\ closing = {}
    /\ gc = "idle" /\ tbr = {}

\* locate, under m_ControlLock.
Locate(s) == where[s] = "sockets" /\ ~shut[s]

-----------------------------------------------------------------------------
(* The receive-queue thread.                                               *)

\* A handshake comes: a new request, or a repetition of that of socket s.
Handshake(s) ==
    /\ wk = "idle" /\ listening
    /\ s # 0 => where[s] = "sockets"
    /\ wk' = "listen" /\ wkSock' = s
    /\ UNCHANGED <<sockVars, lsVars, refCount, accVars, gcVars>>

\* newConnection looks for the listener ...
NewLocate ==
    /\ wk = "listen" /\ ~control
    /\ IF Locate(L) THEN wk' = "peer" /\ UNCHANGED wkSock ELSE wk' = "idle" /\ wkSock' = 0
    /\ UNCHANGED <<sockVars, lsVars, refCount, accVars, gcVars>>

\* Mutant of NewRepeated: the socket of a repeated request is always closed.
NewRepeatedCloses ==
    /\ wk = "peer" /\ ~control
    /\ \/ /\ wkSock = 0 \/ where[wkSock] # "sockets"
          /\ UNCHANGED <<shut, aged, queue>>
       \/ /\ wkSock # 0 /\ where[wkSock] = "sockets"
          /\ shut' = [shut EXCEPT ![wkSock] = TRUE] /\ aged' = [aged EXCEPT ![wkSock] = FALSE]
          /\ queue' = queue \ {wkSock}
    /\ wk' = "backlog" /\ wkSock' = 0
    /\ UNCHANGED <<where, broken, onList, readable, listening, bcast, refCount, accVars, gcVars>>

\* ... and for the socket of a repeated request; a broken one is closed.
NewRepeated ==
    /\ wk = "peer" /\ ~control
    /\ \/ /\ wkSock = 0 \/ where[wkSock] # "sockets"
          /\ wk' = "backlog" /\ UNCHANGED <<shut, aged, queue>>
       \/ /\ wkSock # 0 /\ where[wkSock] = "sockets" /\ ~broken[wkSock]
          /\ wk' = "idle" /\ UNCHANGED <<shut, aged, queue>>
       \/ /\ wkSock # 0 /\ where[wkSock] = "sockets" /\ broken[wkSock]
          /\ shut' = [shut EXCEPT ![wkSock] = TRUE] /\ aged' = [aged EXCEPT ![wkSock] = FALSE]
          /\ queue' = queue \ {wkSock}
          /\ wk' = "backlog"
    /\ wkSock' = 0
    /\ UNCHANGED <<where, broken, onList, readable, listening, bcast, refCount, accVars, gcVars>>

NewBacklog ==
    /\ wk = "backlog"
    /\ \/ Cardinality(queue) >= BackLog /\ wk' = "idle" /\ UNCHANGED <<where, wkSock>>
       \/ /\ Cardinality(queue) < BackLog
          /\ \E s \in Socks :
               /\ where[s] = "none" /\ \A t \in Socks : where[t] = "none" => s <= t
               /\ where' = [where EXCEPT ![s] = "new"] /\ wkSock' = s
          /\ wk' = "mux"
       \/ \* the bound MaxSocks is reached
          (\A t \in Socks : where[t] # "none") /\ wk' = "idle" /\ UNCHANGED <<where, wkSock>>
    /\ UNCHANGED <<shut, broken, onList, aged, lsVars, refCount, accVars, gcVars>>

\* Mutant of NewMux: the socket is not counted.
NewMuxShared ==
    /\ wk = "mux" /\ ~control
    /\ wk' = "connect"
    /\ UNCHANGED <<sockVars, lsVars, refCount, wkSock, accVars, gcVars>>

\* updateMux, under m_ControlLock.
NewMux ==
    /\ wk = "mux" /\ ~control
    /\ refCount' = refCount + 1 /\ wk' = "connect"
    /\ UNCHANGED <<sockVars, lsVars, wkSock, accVars, gcVars>>

\* CUDT::connect; if it throws, the socket is closed and forgotten.
NewConnect ==
    /\ wk = "connect"
    /\ \/ wk' = "register" /\ onList' = [onList EXCEPT ![wkSock] = TRUE] /\ UNCHANGED <<where, wkSock, shut>>
       \/ /\ wk' = "idle" /\ where' = [where EXCEPT ![wkSock] = "leaked"] /\ wkSock' = 0
          /\ shut' = [shut EXCEPT ![wkSock] = TRUE] /\ UNCHANGED onList
    /\ UNCHANGED <<broken, aged, lsVars, refCount, accVars, gcVars>>

NewRegister ==
    /\ wk = "register" /\ ~control
    /\ where' = [where EXCEPT ![wkSock] = "sockets"] /\ wk' = "enqueue"
    /\ UNCHANGED <<shut, broken, onList, aged, lsVars, refCount, wkSock, accVars, gcVars>>

NewEnqueue ==
    /\ wk = "enqueue"
    /\ queue' = queue \cup {wkSock} /\ wk' = "enable"
    /\ UNCHANGED <<sockVars, readable, listening, bcast, refCount, wkSock, accVars, gcVars>>

NewEnable ==
    /\ wk = "enable"
    /\ readable' = TRUE /\ wk' = "signal"
    /\ UNCHANGED <<sockVars, queue, listening, bcast, refCount, wkSock, accVars, gcVars>>

\* Mutant of NewSignal: nobody is woken.
NewSignalNobody ==
    /\ wk = "signal"
    /\ wk' = "idle" /\ wkSock' = 0
    /\ UNCHANGED <<sockVars, lsVars, refCount, accVars, gcVars>>

\* One waiting thread is woken, if there is one.
NewSignal ==
    /\ wk = "signal"
    /\ wk' = "idle" /\ wkSock' = 0
    /\ \/ \E a \in Acceptors : acc[a] = "waiting" /\ acc' = [acc EXCEPT ![a] = "woken"]
       \/ (\A a \in Acceptors : acc[a] # "waiting") /\ UNCHANGED acc
    /\ UNCHANGED <<sockVars, lsVars, refCount, accSock, owned, closing, gcVars>>

\* A shutdown comes, or nothing for too long.
Break(s) ==
    /\ wk = "idle" /\ where[s] = "sockets" /\ onList[s] /\ ~broken[s]
    /\ broken' = [broken EXCEPT ![s] = TRUE]
    /\ UNCHANGED <<where, shut, onList, aged, lsVars, refCount, wkVars, accVars, gcVars>>

\* The thread drops a broken or closed socket from its list.
Drop(s) ==
    /\ wk = "idle" /\ onList[s]
    /\ broken[s] \/ s \in closing
    /\ onList' = [onList EXCEPT ![s] = FALSE]
    /\ UNCHANGED <<where, shut, broken, aged, lsVars, refCount, wkVars, accVars, gcVars>>

-----------------------------------------------------------------------------
(* The application.                                                        *)

AcceptCall(a) ==
    /\ acc[a] = "idle" /\ ~control /\ Locate(L)
    /\ acc' = [acc EXCEPT ![a] = "loop"]
    /\ UNCHANGED <<sockVars, lsVars, refCount, wkVars, accSock, owned, closing, gcVars>>

\* The loop of accept, under m_AcceptLock: the first of the set is the one that
\* came last.
AcceptLoop(a) ==
    /\ acc[a] = "loop"
    /\ \/ /\ shut[L] \/ broken[L]
          /\ acc' = [acc EXCEPT ![a] = "idle"]
          /\ readable' = (readable /\ queue # {})
          /\ UNCHANGED <<queue, accSock>>
       \/ /\ ~(shut[L] \/ broken[L]) /\ queue # {}
          /\ acc' = [acc EXCEPT ![a] = "taken"]
          /\ accSock' = [accSock EXCEPT ![a] = Max(queue)]
          /\ queue' = queue \ {Max(queue)}
          /\ readable' = (readable /\ queue' # {})
       \/ /\ ~(shut[L] \/ broken[L]) /\ queue = {}
          /\ acc' = [acc EXCEPT ![a] = "waiting"]
          /\ UNCHANGED <<queue, readable, accSock>>
    /\ UNCHANGED <<sockVars, listening, bcast, refCount, wkVars, owned, closing, gcVars>>

\* Mutant of AcceptWoken: the queue is not looked at before disable_read.
AcceptWokenDisables(a) ==
    /\ acc[a] = "woken"
    /\ readable' = FALSE
    /\ acc' = [acc EXCEPT ![a] = "loop"]
    /\ UNCHANGED <<sockVars, queue, listening, bcast, refCount, wkVars, accSock, owned, closing, gcVars>>

AcceptWoken(a) ==
    /\ acc[a] = "woken"
    /\ readable' = (readable /\ queue # {})
    /\ acc' = [acc EXCEPT ![a] = "loop"]
    /\ UNCHANGED <<sockVars, queue, listening, bcast, refCount, wkVars, accSock, owned, closing, gcVars>>

\* The address of the peer is read through locate(u).
AcceptReturn(a) ==
    /\ acc[a] = "taken" /\ ~control
    /\ acc' = [acc EXCEPT ![a] = "idle"] /\ accSock' = [accSock EXCEPT ![a] = 0]
    /\ owned' = owned \cup {accSock[a]}
    /\ UNCHANGED <<sockVars, lsVars, refCount, wkVars, closing, gcVars>>

\* close of an accepted socket: CUDT::close ...
Close(s) ==
    /\ s \in owned \ closing /\ Locate(s) /\ ~control
    /\ closing' = closing \cup {s}
    /\ UNCHANGED <<sockVars, lsVars, refCount, wkVars, acc, accSock, owned, gcVars>>

\* ... and then, under m_ControlLock, the move to m_ClosedSockets.
CloseMove(s) ==
    /\ s \in closing /\ Locate(s) /\ ~control
    /\ where' = [where EXCEPT ![s] = "closed"] /\ shut' = [shut EXCEPT ![s] = TRUE]
    /\ aged' = [aged EXCEPT ![s] = FALSE]
    /\ UNCHANGED <<broken, onList, lsVars, refCount, wkVars, accVars, gcVars>>

\* close of the listener only marks it ...
CloseListener ==
    /\ Locate(L) /\ ~control /\ ~broken[L]
    /\ broken' = [broken EXCEPT ![L] = TRUE] /\ aged' = [aged EXCEPT ![L] = FALSE]
    /\ bcast' = TRUE
    /\ UNCHANGED <<where, shut, onList, queue, readable, listening, refCount, wkVars, accVars, gcVars>>

\* Mutant of Broadcast: one thread is woken.
BroadcastOne ==
    /\ bcast
    /\ bcast' = FALSE
    /\ \/ \E a \in Acceptors : acc[a] = "waiting" /\ acc' = [acc EXCEPT ![a] = "woken"]
       \/ (\A a \in Acceptors : acc[a] # "waiting") /\ UNCHANGED acc
    /\ UNCHANGED <<sockVars, queue, readable, listening, refCount, wkVars, accSock, owned, closing, gcVars>>

\* ... and wakes the threads in accept.
Broadcast ==
    /\ bcast
    /\ bcast' = FALSE
    /\ acc' = [a \in Acceptors |-> IF acc[a] = "waiting" THEN "woken" ELSE acc[a]]
    /\ UNCHANGED <<sockVars, queue, readable, listening, refCount, wkVars, accSock, owned, closing, gcVars>>

-----------------------------------------------------------------------------
(* The collector.                                                          *)

\* A thread has looked socket s up and goes on using it.
Used(s) ==
    \/ s = L /\ wk \in {"peer", "backlog", "mux", "connect", "register", "enqueue", "enable", "signal"}
    \/ s = L /\ (bcast \/ \E a \in Acceptors : acc[a] \notin {"idle", "waiting"})
    \/ s # L /\ wk \in {"mux", "connect", "register", "enqueue", "enable", "signal"} /\ wkSock = s
    \/ \E a \in Acceptors : accSock[a] = s /\ s # L

\* Three seconds pass for a closed listener, or one for a closed socket: no call
\* that is not waiting takes that long.
Age(s) ==
    /\ ~aged[s]
    /\ \/ s = L /\ broken[L] /\ where[L] = "sockets"
       \/ where[s] = "closed" /\ ~Used(s)
    /\ aged' = [aged EXCEPT ![s] = TRUE]
    /\ UNCHANGED <<where, shut, broken, onList, lsVars, refCount, wkVars, accVars, gcVars>>

\* checkBrokenSockets, up to the removals.  A broken socket with data to read
\* may be left for later.
Broken == {s \in All : where[s] = "sockets" /\ broken[s] /\ (s = L => aged[L])}

\* Mutant of CheckBroken: a broken socket stays in the queue of the listener.
CheckBrokenKeepsQueued ==
    /\ gc = "idle" /\ ~control
    /\ \E tbc \in SUBSET Broken :
         /\ L \in Broken => L \in tbc
         /\ where' = [s \in All |-> IF s \in tbc THEN "closed" ELSE where[s]]
         /\ shut' = [s \in All |-> (shut[s] \/ s \in tbc)]
         /\ aged' = [s \in All |-> aged[s] /\ s \notin tbc]
    /\ tbr' = {s \in All : where'[s] = "closed" /\ aged'[s] /\ ~onList[s]}
    /\ control' = TRUE /\ gc' = "remove"
    /\ UNCHANGED <<broken, onList, queue, readable, listening, bcast, refCount, wkVars, accVars>>

CheckBroken ==
    /\ gc = "idle" /\ ~control
    /\ \E tbc \in SUBSET Broken :
         /\ L \in Broken => L \in tbc
         /\ where' = [s \in All |-> IF s \in tbc THEN "closed" ELSE where[s]]
         /\ shut' = [s \in All |-> (shut[s] \/ s \in tbc)]
         /\ aged' = [s \in All |-> aged[s] /\ s \notin tbc]
         /\ queue' = queue \ tbc
    /\ tbr' = {s \in All : where'[s] = "closed" /\ aged'[s] /\ ~onList[s]}
    /\ control' = TRUE /\ gc' = "remove"
    /\ UNCHANGED <<broken, onList, readable, listening, bcast, refCount, wkVars, accVars>>

\* Mutant of RemoveSocket: a listener leaves what is in its queue.
RemoveSocketAlone ==
    /\ gc = "remove" /\ tbr # {}
    /\ LET s == Max(tbr)
       IN /\ where' = [where EXCEPT ![s] = "gone"]
          /\ broken' = [broken EXCEPT ![s] = FALSE] /\ aged' = [aged EXCEPT ![s] = FALSE]
          /\ listening' = (listening /\ s # L) /\ readable' = (readable /\ s # L)
          /\ tbr' = tbr \ {s}
          /\ owned' = owned \ {s} /\ closing' = closing \ {s}
    /\ refCount' = refCount - 1
    /\ gc' = IF refCount' = 0 THEN "join" ELSE "remove"
    /\ UNCHANGED <<shut, onList, queue, bcast, control, wkVars, acc, accSock>>

\* removeSocket, the newest first; a listener closes what is in its queue.
RemoveSocket ==
    /\ gc = "remove" /\ tbr # {}
    /\ LET s == Max(tbr)
           left == IF s = L THEN queue ELSE {}
       IN /\ where' = [t \in All |-> IF t = s THEN "gone" ELSE IF t \in left THEN "closed" ELSE where[t]]
          /\ broken' = [t \in All |-> t # s /\ (broken[t] \/ t \in left)]
          /\ shut' = [t \in All |-> shut[t] \/ t \in left]
          /\ aged' = [t \in All |-> t # s /\ t \notin left /\ aged[t]]
          /\ queue' = queue \ left
          /\ listening' = (listening /\ s # L) /\ readable' = (readable /\ s # L)
          /\ tbr' = tbr \ {s}
          /\ owned' = owned \ {s} /\ closing' = closing \ {s}
    /\ refCount' = refCount - 1
    /\ gc' = IF refCount' = 0 THEN "join" ELSE "remove"
    /\ UNCHANGED <<onList, bcast, control, wkVars, acc, accSock>>

\* The destructor of the receive queue waits for its thread, which ends before
\* it looks for the next packet.
Join ==
    /\ gc = "join" /\ wk = "idle"
    /\ wk' = "exited" /\ gc' = "remove"
    /\ UNCHANGED <<sockVars, lsVars, refCount, wkSock, accVars, control, tbr>>

Collected ==
    /\ gc = "remove" /\ tbr = {}
    /\ gc' = "idle" /\ control' = FALSE
    /\ UNCHANGED <<sockVars, lsVars, refCount, wkVars, accVars, tbr>>

-----------------------------------------------------------------------------
New == NewLocate \/ NewRepeated \/ NewBacklog \/ NewMux \/ NewConnect \/ NewRegister
       \/ NewEnqueue \/ NewEnable \/ NewSignal

AcceptStep(a) == AcceptLoop(a) \/ AcceptWoken(a) \/ AcceptReturn(a)

Collect == CheckBroken \/ RemoveSocket \/ Join \/ Collected

UdtSocketsNext ==
    \/ \E s \in All : Handshake(s) \/ Age(s)
    \/ New
    \/ \E s \in Socks : Break(s) \/ Drop(s) \/ Close(s) \/ CloseMove(s)
    \/ \E a \in Acceptors : AcceptCall(a) \/ AcceptStep(a)
    \/ CloseListener \/ Broadcast \/ Collect

\* The threads run, and time passes.  The collector sleeps between its turns, so
\* a thread that needs m_ControlLock gets it (strong fairness).
UdtSocketsFairness ==
    /\ SF_udtSocketsVars(New) /\ WF_udtSocketsVars(Broadcast)
    /\ WF_udtSocketsVars(CheckBroken) /\ WF_udtSocketsVars(RemoveSocket \/ Join \/ Collected)
    /\ \A a \in Acceptors : SF_udtSocketsVars(AcceptStep(a))
    /\ \A s \in All : WF_udtSocketsVars(Age(s))

UdtSocketsSpec == UdtSocketsInit /\ [][UdtSocketsNext]_udtSocketsVars /\ UdtSocketsFairness

-----------------------------------------------------------------------------
\* A socket in the queue of a listener that is not deleted yet is in m_Sockets:
\* removeSocket takes it from there without asking.
QueuedAlive == \A s \in queue : where[L] # "gone" => where[s] = "sockets" /\ ~shut[s]

\* The multiplexer counts the sockets that use it, and those that were never
\* registered because connect failed: it outlives every socket, and one such
\* failure keeps it for ever.
RefCountExact ==
    refCount = Cardinality({s \in All : where[s] \in {"sockets", "closed", "leaked"}})
               + (IF wk \in {"connect", "register"} THEN 1 ELSE 0)

\* No thread stays in accept while there is a connection to accept, or the
\* listener is closed, unless a wake-up is on its way.
NoLostAccept ==
    (\A a \in Acceptors : acc[a] = "waiting") /\ (queue # {} \/ broken[L]) =>
        bcast \/ wk \in {"enable", "signal"}

\* The listener is readable for its epolls while there is a connection to accept.
NoSilentListener == queue # {} => readable \/ wk = "enable" \/ where[L] = "gone"

\* accept takes a socket that is gone when it looks it up only if its connection
\* broke before.
LostOnlyIfBroken ==
    \A a \in Acceptors : acc[a] = "taken" /\ ~Locate(accSock[a]) => broken[accSock[a]]

\* The tables agree: what is queued is alive, what is used is counted, what accept
\* loses was broken (newConnection, accept, checkBrokenSockets, removeSocket).
TablesSound == QueuedAlive /\ RefCountExact /\ LostOnlyIfBroken

\* Every way a connection or the end of a listener is announced arrives: the condition
\* accept waits on, and the epolls (newConnection, accept, close).
AnnouncementsArrive == NoLostAccept /\ NoSilentListener

\* m_ControlLock is held by the collector, which waits for the receive-queue
\* thread, which waits for m_ControlLock.
Deadlocked == gc = "join" /\ wk \in {"listen", "peer", "mux", "register"}

\* A listener that is closed is deleted in the end, with all it had in its queue,
\* or the collector and the receive-queue thread wait for each other.
ListenerRemoved ==
    broken[L] ~> \/ where[L] = "gone" /\ \A s \in queue : where[s] # "sockets"
                 \/ Deadlocked

\* Closing the listener ends the accept calls that wait.
AcceptEnds == \A a \in Acceptors : (broken[L] /\ acc[a] = "waiting") ~> acc[a] = "idle"

\* The collector never waits for a thread that waits for the lock it holds.
NoDeadlock == ~Deadlocked
=============================================================================
