-------------------------- MODULE UdtSocketsProofs --------------------------
(***************************************************************************)
(* Proofs about UdtSockets, for any number of sockets and of accepting     *)
(* threads and any backlog: what is queued is alive, the multiplexer       *)
(* counts its sockets, accept loses only what broke, and every connection  *)
(* and the end of the listener are announced.                              *)
(***************************************************************************)
EXTENDS UdtSockets, NaturalsInduction, FiniteSetTheorems, TLAPS

Places == {"none", "new", "sockets", "closed", "gone", "leaked"}
NewStates == {"mux", "connect", "register", "enqueue"}  \* with a socket in the making

(***************************************************************************)
(* The inductive invariant.                                                *)
(***************************************************************************)

SocketTypes ==
  /\ where \in [All -> Places]
  /\ shut \in [All -> BOOLEAN] /\ broken \in [All -> BOOLEAN]
  /\ onList \in [All -> BOOLEAN] /\ aged \in [All -> BOOLEAN]
  /\ queue \subseteq Socks /\ readable \in BOOLEAN /\ listening \in BOOLEAN /\ bcast \in BOOLEAN
  /\ refCount \in Int /\ control \in BOOLEAN
  /\ wk \in NewStates \cup {"idle", "listen", "peer", "backlog", "enable", "signal", "exited"}
  /\ wkSock \in All
  /\ acc \in [Acceptors -> {"idle", "loop", "waiting", "woken", "taken"}]
  /\ accSock \in [Acceptors -> All]
  /\ owned \subseteq Socks /\ closing \subseteq owned
  /\ gc \in {"idle", "remove", "join"} /\ tbr \subseteq All

\* The listener: it is never one of the sockets being made, and it is shut as soon as
\* it leaves m_Sockets.
ListenerSound ==
  /\ where[L] \in {"sockets", "closed", "gone"}
  /\ where[L] # "sockets" => shut[L]

\* A socket is in at most one hand: the queue's, one accepting thread's, the
\* application's.
OneHand ==
  /\ \A a \in Acceptors : acc[a] = "taken" <=> accSock[a] # 0
  /\ \A a, b \in Acceptors : accSock[a] # 0 /\ accSock[a] = accSock[b] => a = b
  /\ \A a \in Acceptors : accSock[a] \notin queue \cup owned
  /\ queue \cap owned = {}

\* A socket that is not registered yet is in no hand, and healthy.
Unregistered ==
  \A s \in Socks : where[s] \in {"none", "new"} =>
    /\ ~shut[s] /\ ~broken[s] /\ s \notin queue \cup owned
    /\ \A a \in Acceptors : accSock[a] # s

\* The socket newConnection is making: unregistered until NewRegister, then healthy
\* and in no hand until it is queued, as only newConnection's own thread breaks it.
InTheMaking ==
  /\ wk \in NewStates => wkSock \in Socks
  /\ wk \in {"mux", "connect", "register"} => where[wkSock] = "new"
  /\ wk = "enqueue" =>
       /\ where[wkSock] = "sockets" /\ ~shut[wkSock] /\ ~broken[wkSock]
       /\ wkSock \notin queue \cup owned
       /\ \A a \in Acceptors : accSock[a] # wkSock

\* What is deleted is a closed socket, out of use for a second; what accept has taken
\* is not deleted.
Doomed ==
  /\ \A s \in tbr : where[s] = "closed" /\ aged[s]
  /\ \A s \in Socks : aged[s] => where[s] = "closed"
  /\ \A a \in Acceptors : accSock[a] # 0 =>
       where[accSock[a]] \in {"sockets", "closed"} /\ ~aged[accSock[a]]

SocketsInv ==
  /\ SocketTypes /\ ListenerSound /\ OneHand /\ Unregistered /\ InTheMaking /\ Doomed
  /\ QueuedAlive /\ LostOnlyIfBroken

-----------------------------------------------------------------------------
(* Helpers.                                                                *)

LEMMA SocksInAll == Socks \subseteq Nat \ {0} /\ 0 \notin Socks
  BY UdtSocketsAssumption DEF Socks

(* A nonempty set of numbers with an upper bound has a greatest element.   *)
LEMMA MaxOfBounded ==
  ASSUME NEW N \in Nat, NEW S \in SUBSET (0 .. N), S # {}
  PROVE  Max(S) \in S
<1> DEFINE Above == {x .. N : x \in S}
<1>1. Above \subseteq FiniteSubsetsOf(Nat) /\ Above # {}
  <2>1. \A x \in S : x .. N \in SUBSET Nat /\ IsFiniteSet(x .. N)
    BY FS_Interval
  <2> QED
    BY <2>1, Zenon DEF FiniteSubsetsOf
<1>2. PICK B \in Above : \A C \in Above : ~ (<<C, B>> \in StrictSubsetOrdering(Nat))
  <2> HIDE DEF Above
  <2> QED
    BY <1>1, FS_StrictSubsetOrderingWellFounded, WFMin
<1>3. PICK x \in S : B = x .. N
  OBVIOUS
<1>4. \A y \in S : y .. N \subseteq x .. N => y .. N = x .. N
  <2> TAKE y \in S
  <2>1. y .. N \in SUBSET Nat /\ x .. N \in SUBSET Nat
    OBVIOUS
  <2>2. <<y .. N, x .. N>> \notin StrictSubsetOrdering(Nat)
    BY <1>2, <1>3, Zenon
  <2>3. <<y .. N, x .. N>> \in (SUBSET Nat) \X (SUBSET Nat)
    BY <2>1, Zenon
  <2> QED
    BY <2>2, <2>3, Zenon DEF StrictSubsetOrdering
<1>5. \A y \in S : x >= y
  BY <1>4
<1> QED
  BY <1>5 DEF Max

LEMMA HandshakeInv ==
  ASSUME SocketsInv, NEW s \in All, Handshake(s)
  PROVE  SocketsInv'
<1> USE SocksInAll DEF SocketsInv, SocketTypes, All, L, Handshake, sockVars, lsVars, wkVars, accVars, gcVars
<1>1. SocketTypes'
  BY DEF OneHand, InTheMaking, Places, NewStates
<1>2. ListenerSound' /\ OneHand'
  BY DEF OneHand, ListenerSound, InTheMaking, NewStates, Doomed, Unregistered
<1>3. Unregistered'
  BY DEF Unregistered, InTheMaking, NewStates, OneHand, Doomed, QueuedAlive, ListenerSound
<1>4. InTheMaking'
  BY DEF InTheMaking, NewStates, Unregistered, OneHand, Doomed, QueuedAlive, ListenerSound
<1>5. Doomed'
  BY DEF Doomed, Unregistered, InTheMaking, NewStates, OneHand, QueuedAlive, ListenerSound
<1>6. QueuedAlive'
  BY DEF QueuedAlive, OneHand, InTheMaking, NewStates, Doomed, Unregistered, ListenerSound
<1>7. LostOnlyIfBroken'
  BY DEF LostOnlyIfBroken, Locate, OneHand, Doomed, InTheMaking, NewStates, QueuedAlive, Unregistered, ListenerSound
<1> QED
  BY <1>1, <1>2, <1>3, <1>4, <1>5, <1>6, <1>7

LEMMA AgeInv ==
  ASSUME SocketsInv, NEW s \in All, Age(s)
  PROVE  SocketsInv'
<1> USE SocksInAll DEF SocketsInv, SocketTypes, All, L, Age, sockVars, lsVars, wkVars, accVars, gcVars, Used
<1>1. SocketTypes'
  BY DEF OneHand, InTheMaking, Places, NewStates
<1>2. ListenerSound' /\ OneHand'
  BY DEF OneHand, ListenerSound, InTheMaking, NewStates, Doomed, Unregistered
<1>3. Unregistered'
  BY DEF Unregistered, InTheMaking, NewStates, OneHand, Doomed, QueuedAlive, ListenerSound
<1>4. InTheMaking'
  BY DEF InTheMaking, NewStates, Unregistered, OneHand, Doomed, QueuedAlive, ListenerSound
<1>5. Doomed'
  BY DEF Doomed, Unregistered, InTheMaking, NewStates, OneHand, QueuedAlive, ListenerSound
<1>6. QueuedAlive'
  BY DEF QueuedAlive, OneHand, InTheMaking, NewStates, Doomed, Unregistered, ListenerSound
<1>7. LostOnlyIfBroken'
  BY DEF LostOnlyIfBroken, Locate, OneHand, Doomed, InTheMaking, NewStates, QueuedAlive, Unregistered, ListenerSound
<1> QED
  BY <1>1, <1>2, <1>3, <1>4, <1>5, <1>6, <1>7

LEMMA NewLocateInv ==
  ASSUME SocketsInv, NewLocate
  PROVE  SocketsInv'
<1> USE SocksInAll DEF SocketsInv, SocketTypes, All, L, NewLocate, sockVars, lsVars, wkVars, accVars, gcVars, Locate
<1>1. SocketTypes'
  BY DEF OneHand, InTheMaking, Places, NewStates
<1>2. ListenerSound' /\ OneHand'
  BY DEF OneHand, ListenerSound, InTheMaking, NewStates, Doomed, Unregistered
<1>3. Unregistered'
  BY DEF Unregistered, InTheMaking, NewStates, OneHand, Doomed, QueuedAlive, ListenerSound
<1>4. InTheMaking'
  BY DEF InTheMaking, NewStates, Unregistered, OneHand, Doomed, QueuedAlive, ListenerSound
<1>5. Doomed'
  BY DEF Doomed, Unregistered, InTheMaking, NewStates, OneHand, QueuedAlive, ListenerSound
<1>6. QueuedAlive'
  BY DEF QueuedAlive, OneHand, InTheMaking, NewStates, Doomed, Unregistered, ListenerSound
<1>7. LostOnlyIfBroken'
  BY DEF LostOnlyIfBroken, OneHand, Doomed, InTheMaking, NewStates, QueuedAlive, Unregistered, ListenerSound
<1> QED
  BY <1>1, <1>2, <1>3, <1>4, <1>5, <1>6, <1>7

LEMMA NewRepeatedInv ==
  ASSUME SocketsInv, NewRepeated
  PROVE  SocketsInv'
<1> DEFINE s == wkSock
<1> USE SocksInAll DEF SocketsInv, SocketTypes, All, L, accVars, gcVars
<1>1. /\ UNCHANGED <<where, broken, onList, readable, listening, bcast, refCount, accVars, gcVars>>
      /\ wkSock' = 0 /\ wk = "peer" /\ wk' \in {"idle", "backlog"}
  BY DEF NewRepeated
<1>2. CASE UNCHANGED <<shut, aged, queue>>
  BY <1>1, <1>2 DEF NewStates, ListenerSound, OneHand, Unregistered, InTheMaking, Doomed, QueuedAlive,
                    LostOnlyIfBroken, Locate
<1>3. CASE /\ s # 0 /\ where[s] = "sockets" /\ broken[s]
           /\ shut' = [shut EXCEPT ![s] = TRUE] /\ aged' = [aged EXCEPT ![s] = FALSE]
           /\ queue' = queue \ {s}
  <2> USE <1>1, <1>3
  <2>1. SocketTypes' /\ ListenerSound' /\ OneHand' /\ InTheMaking'
    BY DEF NewStates, ListenerSound, OneHand, InTheMaking
  <2>2. Unregistered' /\ QueuedAlive'
    BY DEF Unregistered, QueuedAlive
  <2>3. Doomed'
    BY DEF Doomed
  <2>4. LostOnlyIfBroken'
    BY DEF LostOnlyIfBroken, Locate
  <2> QED
    BY <2>1, <2>2, <2>3, <2>4
<1> QED
  BY <1>2, <1>3 DEF NewRepeated

LEMMA NewBacklogInv ==
  ASSUME SocketsInv, NewBacklog
  PROVE  SocketsInv'
<1> USE SocksInAll DEF SocketsInv, SocketTypes, All, L, NewBacklog, sockVars, lsVars, wkVars, accVars, gcVars
<1>1. SocketTypes'
  BY DEF OneHand, InTheMaking, Places, NewStates
<1>2. ListenerSound' /\ OneHand'
  BY DEF OneHand, ListenerSound, InTheMaking, NewStates, Doomed, Unregistered
<1>3. Unregistered'
  BY DEF Unregistered, InTheMaking, NewStates, OneHand, Doomed, QueuedAlive, ListenerSound
<1>4. InTheMaking'
  BY DEF InTheMaking, NewStates, Unregistered, OneHand, Doomed, QueuedAlive, ListenerSound
<1>5. Doomed'
  <2>1. CASE UNCHANGED where
    BY <2>1 DEF Doomed
  <2>2. ASSUME NEW s \in Socks, where[s] = "none", where' = [where EXCEPT ![s] = "new"] PROVE Doomed'
    BY <2>2 DEF Doomed, Unregistered
  <2> QED
    BY <2>1, <2>2
<1>6. QueuedAlive'
  BY DEF QueuedAlive, OneHand, InTheMaking, NewStates, Doomed, Unregistered, ListenerSound
<1>7. LostOnlyIfBroken'
  <2>1. \A t \in All : where[t] = "sockets" => where'[t] = "sockets"
    OBVIOUS
  <2> QED
    BY <2>1 DEF LostOnlyIfBroken, Locate
<1> QED
  BY <1>1, <1>2, <1>3, <1>4, <1>5, <1>6, <1>7

LEMMA NewMuxInv ==
  ASSUME SocketsInv, NewMux
  PROVE  SocketsInv'
<1> USE SocksInAll DEF SocketsInv, SocketTypes, All, L, NewMux, sockVars, lsVars, wkVars, accVars, gcVars
<1>1. SocketTypes'
  BY DEF OneHand, InTheMaking, Places, NewStates
<1>2. ListenerSound' /\ OneHand'
  BY DEF OneHand, ListenerSound, InTheMaking, NewStates, Doomed, Unregistered
<1>3. Unregistered'
  BY DEF Unregistered, InTheMaking, NewStates, OneHand, Doomed, QueuedAlive, ListenerSound
<1>4. InTheMaking'
  BY DEF InTheMaking, NewStates, Unregistered, OneHand, Doomed, QueuedAlive, ListenerSound
<1>5. Doomed'
  BY DEF Doomed, Unregistered, InTheMaking, NewStates, OneHand, QueuedAlive, ListenerSound
<1>6. QueuedAlive'
  BY DEF QueuedAlive, OneHand, InTheMaking, NewStates, Doomed, Unregistered, ListenerSound
<1>7. LostOnlyIfBroken'
  BY DEF LostOnlyIfBroken, Locate, OneHand, Doomed, InTheMaking, NewStates, QueuedAlive, Unregistered, ListenerSound
<1> QED
  BY <1>1, <1>2, <1>3, <1>4, <1>5, <1>6, <1>7

LEMMA NewConnectInv ==
  ASSUME SocketsInv, NewConnect
  PROVE  SocketsInv'
<1> USE SocksInAll DEF SocketsInv, SocketTypes, All, L, lsVars, accVars, gcVars
<1>1. /\ UNCHANGED <<broken, aged, lsVars, refCount, accVars, gcVars>> /\ wk = "connect"
      /\ wkSock \in Socks /\ where[wkSock] = "new"
      /\ wkSock \notin queue \cup owned /\ \A a \in Acceptors : accSock[a] # wkSock
  BY DEF NewConnect, InTheMaking, NewStates, Unregistered
<1>2. CASE /\ wk' = "register" /\ onList' = [onList EXCEPT ![wkSock] = TRUE]
           /\ UNCHANGED <<where, wkSock, shut>>
  BY <1>1, <1>2 DEF NewStates, ListenerSound, OneHand, Unregistered, InTheMaking, Doomed, QueuedAlive,
                    LostOnlyIfBroken, Locate
<1>3. CASE /\ wk' = "idle" /\ where' = [where EXCEPT ![wkSock] = "leaked"] /\ wkSock' = 0
           /\ shut' = [shut EXCEPT ![wkSock] = TRUE] /\ UNCHANGED onList
  <2> USE <1>1, <1>3
  <2>1. SocketTypes' /\ ListenerSound' /\ OneHand' /\ InTheMaking'
    BY DEF NewStates, ListenerSound, OneHand, InTheMaking, Places
  <2>2. Unregistered' /\ QueuedAlive' /\ Doomed'
    BY DEF Unregistered, QueuedAlive, Doomed
  <2>3. LostOnlyIfBroken'
    BY DEF LostOnlyIfBroken, Locate
  <2> QED
    BY <2>1, <2>2, <2>3
<1> QED
  BY <1>2, <1>3 DEF NewConnect

LEMMA NewRegisterInv ==
  ASSUME SocketsInv, NewRegister
  PROVE  SocketsInv'
<1> USE SocksInAll DEF SocketsInv, SocketTypes, All, L, NewRegister, sockVars, lsVars, wkVars, accVars, gcVars
<1>1. SocketTypes'
  BY DEF OneHand, InTheMaking, Places, NewStates
<1>2. ListenerSound' /\ OneHand'
  BY DEF OneHand, ListenerSound, InTheMaking, NewStates, Doomed, Unregistered
<1>3. Unregistered'
  BY DEF Unregistered, InTheMaking, NewStates, OneHand, Doomed, QueuedAlive, ListenerSound
<1>4. InTheMaking'
  BY DEF InTheMaking, NewStates, Unregistered, OneHand, Doomed, QueuedAlive, ListenerSound
<1>5. Doomed'
  BY DEF Doomed, Unregistered, InTheMaking, NewStates, OneHand, QueuedAlive, ListenerSound
<1>6. QueuedAlive'
  BY DEF QueuedAlive, OneHand, InTheMaking, NewStates, Doomed, Unregistered, ListenerSound
<1>7. LostOnlyIfBroken'
  BY DEF LostOnlyIfBroken, Locate, OneHand, Doomed, InTheMaking, NewStates, QueuedAlive, Unregistered, ListenerSound
<1> QED
  BY <1>1, <1>2, <1>3, <1>4, <1>5, <1>6, <1>7

LEMMA NewEnqueueInv ==
  ASSUME SocketsInv, NewEnqueue
  PROVE  SocketsInv'
<1> USE SocksInAll DEF SocketsInv, SocketTypes, All, L, NewEnqueue, sockVars, lsVars, wkVars, accVars, gcVars
<1>1. SocketTypes'
  BY DEF OneHand, InTheMaking, Places, NewStates
<1>2. ListenerSound' /\ OneHand'
  BY DEF OneHand, ListenerSound, InTheMaking, NewStates, Doomed, Unregistered
<1>3. Unregistered'
  BY DEF Unregistered, InTheMaking, NewStates, OneHand, Doomed, QueuedAlive, ListenerSound
<1>4. InTheMaking'
  BY DEF InTheMaking, NewStates, Unregistered, OneHand, Doomed, QueuedAlive, ListenerSound
<1>5. Doomed'
  BY DEF Doomed, Unregistered, InTheMaking, NewStates, OneHand, QueuedAlive, ListenerSound
<1>6. QueuedAlive'
  BY DEF QueuedAlive, OneHand, InTheMaking, NewStates, Doomed, Unregistered, ListenerSound
<1>7. LostOnlyIfBroken'
  BY DEF LostOnlyIfBroken, Locate, OneHand, Doomed, InTheMaking, NewStates, QueuedAlive, Unregistered, ListenerSound
<1> QED
  BY <1>1, <1>2, <1>3, <1>4, <1>5, <1>6, <1>7

LEMMA NewEnableInv ==
  ASSUME SocketsInv, NewEnable
  PROVE  SocketsInv'
<1> USE SocksInAll DEF SocketsInv, SocketTypes, All, L, NewEnable, sockVars, lsVars, wkVars, accVars, gcVars
<1>1. SocketTypes'
  BY DEF OneHand, InTheMaking, Places, NewStates
<1>2. ListenerSound' /\ OneHand'
  BY DEF OneHand, ListenerSound, InTheMaking, NewStates, Doomed, Unregistered
<1>3. Unregistered'
  BY DEF Unregistered, InTheMaking, NewStates, OneHand, Doomed, QueuedAlive, ListenerSound
<1>4. InTheMaking'
  BY DEF InTheMaking, NewStates, Unregistered, OneHand, Doomed, QueuedAlive, ListenerSound
<1>5. Doomed'
  BY DEF Doomed, Unregistered, InTheMaking, NewStates, OneHand, QueuedAlive, ListenerSound
<1>6. QueuedAlive'
  BY DEF QueuedAlive, OneHand, InTheMaking, NewStates, Doomed, Unregistered, ListenerSound
<1>7. LostOnlyIfBroken'
  BY DEF LostOnlyIfBroken, Locate, OneHand, Doomed, InTheMaking, NewStates, QueuedAlive, Unregistered, ListenerSound
<1> QED
  BY <1>1, <1>2, <1>3, <1>4, <1>5, <1>6, <1>7

LEMMA NewSignalInv ==
  ASSUME SocketsInv, NewSignal
  PROVE  SocketsInv'
<1> USE SocksInAll DEF SocketsInv, SocketTypes, All, L, NewSignal, sockVars, lsVars, wkVars, accVars, gcVars
<1>1. SocketTypes'
  BY DEF OneHand, InTheMaking, Places, NewStates
<1>2. ListenerSound' /\ OneHand'
  BY DEF OneHand, ListenerSound, InTheMaking, NewStates, Doomed, Unregistered
<1>3. Unregistered'
  BY DEF Unregistered, InTheMaking, NewStates, OneHand, Doomed, QueuedAlive, ListenerSound
<1>4. InTheMaking'
  BY DEF InTheMaking, NewStates, Unregistered, OneHand, Doomed, QueuedAlive, ListenerSound
<1>5. Doomed'
  BY DEF Doomed, Unregistered, InTheMaking, NewStates, OneHand, QueuedAlive, ListenerSound
<1>6. QueuedAlive'
  BY DEF QueuedAlive, OneHand, InTheMaking, NewStates, Doomed, Unregistered, ListenerSound
<1>7. LostOnlyIfBroken'
  BY DEF LostOnlyIfBroken, Locate, OneHand, Doomed, InTheMaking, NewStates, QueuedAlive, Unregistered, ListenerSound
<1> QED
  BY <1>1, <1>2, <1>3, <1>4, <1>5, <1>6, <1>7

LEMMA BreakInv ==
  ASSUME SocketsInv, NEW s \in Socks, Break(s)
  PROVE  SocketsInv'
<1> USE SocksInAll DEF SocketsInv, SocketTypes, All, L, Break, sockVars, lsVars, wkVars, accVars, gcVars
<1>1. SocketTypes'
  BY DEF OneHand, InTheMaking, Places, NewStates
<1>2. ListenerSound' /\ OneHand'
  BY DEF OneHand, ListenerSound, InTheMaking, NewStates, Doomed, Unregistered
<1>3. Unregistered'
  BY DEF Unregistered, InTheMaking, NewStates, OneHand, Doomed, QueuedAlive, ListenerSound
<1>4. InTheMaking'
  BY DEF InTheMaking, NewStates, Unregistered, OneHand, Doomed, QueuedAlive, ListenerSound
<1>5. Doomed'
  BY DEF Doomed, Unregistered, InTheMaking, NewStates, OneHand, QueuedAlive, ListenerSound
<1>6. QueuedAlive'
  BY DEF QueuedAlive, OneHand, InTheMaking, NewStates, Doomed, Unregistered, ListenerSound
<1>7. LostOnlyIfBroken'
  BY DEF LostOnlyIfBroken, Locate, OneHand, Doomed, InTheMaking, NewStates, QueuedAlive, Unregistered, ListenerSound
<1> QED
  BY <1>1, <1>2, <1>3, <1>4, <1>5, <1>6, <1>7

LEMMA DropInv ==
  ASSUME SocketsInv, NEW s \in Socks, Drop(s)
  PROVE  SocketsInv'
<1> USE SocksInAll DEF SocketsInv, SocketTypes, All, L, Drop, sockVars, lsVars, wkVars, accVars, gcVars
<1>1. SocketTypes'
  BY DEF OneHand, InTheMaking, Places, NewStates
<1>2. ListenerSound' /\ OneHand'
  BY DEF OneHand, ListenerSound, InTheMaking, NewStates, Doomed, Unregistered
<1>3. Unregistered'
  BY DEF Unregistered, InTheMaking, NewStates, OneHand, Doomed, QueuedAlive, ListenerSound
<1>4. InTheMaking'
  BY DEF InTheMaking, NewStates, Unregistered, OneHand, Doomed, QueuedAlive, ListenerSound
<1>5. Doomed'
  BY DEF Doomed, Unregistered, InTheMaking, NewStates, OneHand, QueuedAlive, ListenerSound
<1>6. QueuedAlive'
  BY DEF QueuedAlive, OneHand, InTheMaking, NewStates, Doomed, Unregistered, ListenerSound
<1>7. LostOnlyIfBroken'
  BY DEF LostOnlyIfBroken, Locate, OneHand, Doomed, InTheMaking, NewStates, QueuedAlive, Unregistered, ListenerSound
<1> QED
  BY <1>1, <1>2, <1>3, <1>4, <1>5, <1>6, <1>7

LEMMA CloseInv ==
  ASSUME SocketsInv, NEW s \in Socks, Close(s)
  PROVE  SocketsInv'
<1> USE SocksInAll DEF SocketsInv, SocketTypes, All, L, Close, sockVars, lsVars, wkVars, accVars, gcVars
<1>1. SocketTypes'
  BY DEF OneHand, InTheMaking, Places, NewStates
<1>2. ListenerSound' /\ OneHand'
  BY DEF OneHand, ListenerSound, InTheMaking, NewStates, Doomed, Unregistered
<1>3. Unregistered'
  BY DEF Unregistered, InTheMaking, NewStates, OneHand, Doomed, QueuedAlive, ListenerSound
<1>4. InTheMaking'
  BY DEF InTheMaking, NewStates, Unregistered, OneHand, Doomed, QueuedAlive, ListenerSound
<1>5. Doomed'
  BY DEF Doomed, Unregistered, InTheMaking, NewStates, OneHand, QueuedAlive, ListenerSound
<1>6. QueuedAlive'
  BY DEF QueuedAlive, OneHand, InTheMaking, NewStates, Doomed, Unregistered, ListenerSound
<1>7. LostOnlyIfBroken'
  BY DEF LostOnlyIfBroken, Locate, OneHand, Doomed, InTheMaking, NewStates, QueuedAlive, Unregistered, ListenerSound
<1> QED
  BY <1>1, <1>2, <1>3, <1>4, <1>5, <1>6, <1>7

LEMMA CloseMoveInv ==
  ASSUME SocketsInv, NEW s \in Socks, CloseMove(s)
  PROVE  SocketsInv'
<1> USE SocksInAll DEF SocketsInv, SocketTypes, All, L, CloseMove, sockVars, lsVars, wkVars, accVars, gcVars, Locate
<1>1. SocketTypes'
  BY DEF OneHand, InTheMaking, Places, NewStates
<1>2. ListenerSound' /\ OneHand'
  BY DEF OneHand, ListenerSound, InTheMaking, NewStates, Doomed, Unregistered
<1>3. Unregistered'
  BY DEF Unregistered, InTheMaking, NewStates, OneHand, Doomed, QueuedAlive, ListenerSound
<1>4. InTheMaking'
  BY DEF InTheMaking, NewStates, Unregistered, OneHand, Doomed, QueuedAlive, ListenerSound
<1>5. Doomed'
  BY DEF Doomed, Unregistered, InTheMaking, NewStates, OneHand, QueuedAlive, ListenerSound
<1>6. QueuedAlive'
  BY DEF QueuedAlive, OneHand, InTheMaking, NewStates, Doomed, Unregistered, ListenerSound
<1>7. LostOnlyIfBroken'
  BY DEF LostOnlyIfBroken, OneHand, Doomed, InTheMaking, NewStates, QueuedAlive, Unregistered, ListenerSound
<1> QED
  BY <1>1, <1>2, <1>3, <1>4, <1>5, <1>6, <1>7

LEMMA AcceptCallInv ==
  ASSUME SocketsInv, NEW a \in Acceptors, AcceptCall(a)
  PROVE  SocketsInv'
<1> USE SocksInAll DEF SocketsInv, SocketTypes, All, L, AcceptCall, sockVars, lsVars, wkVars, accVars, gcVars
<1>1. SocketTypes'
  BY DEF OneHand, InTheMaking, Places, NewStates
<1>2. ListenerSound' /\ OneHand'
  BY DEF OneHand, ListenerSound, InTheMaking, NewStates, Doomed, Unregistered
<1>3. Unregistered'
  BY DEF Unregistered, InTheMaking, NewStates, OneHand, Doomed, QueuedAlive, ListenerSound
<1>4. InTheMaking'
  BY DEF InTheMaking, NewStates, Unregistered, OneHand, Doomed, QueuedAlive, ListenerSound
<1>5. Doomed'
  BY DEF Doomed, Unregistered, InTheMaking, NewStates, OneHand, QueuedAlive, ListenerSound
<1>6. QueuedAlive'
  BY DEF QueuedAlive, OneHand, InTheMaking, NewStates, Doomed, Unregistered, ListenerSound
<1>7. LostOnlyIfBroken'
  BY DEF LostOnlyIfBroken, Locate, OneHand, Doomed, InTheMaking, NewStates, QueuedAlive, Unregistered, ListenerSound
<1> QED
  BY <1>1, <1>2, <1>3, <1>4, <1>5, <1>6, <1>7

LEMMA AcceptLoopInv ==
  ASSUME SocketsInv, NEW a \in Acceptors, AcceptLoop(a)
  PROVE  SocketsInv'
<1> DEFINE s == Max(queue)
<1> USE SocksInAll DEF SocketsInv, SocketTypes, All, L, sockVars, wkVars, gcVars
<1>1. /\ UNCHANGED <<sockVars, listening, bcast, refCount, wkVars, owned, closing, gcVars>>
      /\ acc[a] = "loop" /\ accSock[a] = 0 /\ readable' \in BOOLEAN
  BY DEF AcceptLoop, OneHand
<1>2. ASSUME NEW st \in {"idle", "waiting"}, acc' = [acc EXCEPT ![a] = st], UNCHANGED <<queue, accSock>>
      PROVE  SocketsInv'
  BY <1>1, <1>2 DEF NewStates, ListenerSound, OneHand, Unregistered, InTheMaking, Doomed, QueuedAlive,
                    LostOnlyIfBroken, Locate
<1>3. CASE /\ ~(shut[L] \/ broken[L]) /\ queue # {}
           /\ acc' = [acc EXCEPT ![a] = "taken"] /\ accSock' = [accSock EXCEPT ![a] = s]
           /\ queue' = queue \ {s}
  <2>1. s \in queue
    <3>1. queue \in SUBSET (0 .. MaxSocks) /\ queue # {} /\ MaxSocks \in Nat
      BY <1>3, UdtSocketsAssumption DEF Socks
    <3> QED
      BY <3>1, MaxOfBounded
  <2> HIDE DEF s
  <2>2. s \in Socks /\ where[s] = "sockets" /\ ~shut[s] /\ ~aged[s] /\ s \notin owned
        /\ \A b \in Acceptors : accSock[b] # s
    BY <1>3, <2>1 DEF QueuedAlive, ListenerSound, Doomed, OneHand
  <2> USE <1>1, <1>3, <2>1, <2>2
  <2>3. SocketTypes' /\ ListenerSound'
    BY DEF NewStates, ListenerSound
  <2>4. OneHand'
    BY DEF OneHand
  <2>5. Unregistered' /\ InTheMaking' /\ QueuedAlive'
    BY DEF Unregistered, InTheMaking, NewStates, QueuedAlive
  <2>6. Doomed'
    BY DEF Doomed
  <2>7. LostOnlyIfBroken'
    BY DEF LostOnlyIfBroken, Locate
  <2> QED
    BY <2>3, <2>4, <2>5, <2>6, <2>7
<1> QED
  BY <1>2, <1>3 DEF AcceptLoop

LEMMA AcceptWokenInv ==
  ASSUME SocketsInv, NEW a \in Acceptors, AcceptWoken(a)
  PROVE  SocketsInv'
<1> USE SocksInAll DEF SocketsInv, SocketTypes, All, L, AcceptWoken, sockVars, lsVars, wkVars, accVars, gcVars
<1>1. SocketTypes'
  BY DEF OneHand, InTheMaking, Places, NewStates
<1>2. ListenerSound' /\ OneHand'
  BY DEF OneHand, ListenerSound, InTheMaking, NewStates, Doomed, Unregistered
<1>3. Unregistered'
  BY DEF Unregistered, InTheMaking, NewStates, OneHand, Doomed, QueuedAlive, ListenerSound
<1>4. InTheMaking'
  BY DEF InTheMaking, NewStates, Unregistered, OneHand, Doomed, QueuedAlive, ListenerSound
<1>5. Doomed'
  BY DEF Doomed, Unregistered, InTheMaking, NewStates, OneHand, QueuedAlive, ListenerSound
<1>6. QueuedAlive'
  BY DEF QueuedAlive, OneHand, InTheMaking, NewStates, Doomed, Unregistered, ListenerSound
<1>7. LostOnlyIfBroken'
  BY DEF LostOnlyIfBroken, Locate, OneHand, Doomed, InTheMaking, NewStates, QueuedAlive, Unregistered, ListenerSound
<1> QED
  BY <1>1, <1>2, <1>3, <1>4, <1>5, <1>6, <1>7

LEMMA AcceptReturnInv ==
  ASSUME SocketsInv, NEW a \in Acceptors, AcceptReturn(a)
  PROVE  SocketsInv'
<1> USE SocksInAll DEF SocketsInv, SocketTypes, All, L, sockVars, lsVars, wkVars, gcVars, AcceptReturn
<1>1. /\ acc'[a] = "idle" /\ accSock'[a] = 0 /\ accSock[a] \in Socks
      /\ \A b \in Acceptors \ {a} : acc'[b] = acc[b] /\ accSock'[b] = accSock[b]
  BY DEF OneHand
<1>2. SocketTypes' /\ ListenerSound'
  BY ZenonT(30), <1>1 DEF ListenerSound
<1>3. OneHand'
  <2>1. \A b \in Acceptors : accSock'[b] # 0 => b # a /\ accSock'[b] = accSock[b] /\ accSock[b] # accSock[a]
    BY <1>1 DEF OneHand
  <2>2. owned' = owned \cup {accSock[a]} /\ accSock[a] \notin queue /\ queue' = queue /\ 0 \notin owned
    BY <1>1 DEF OneHand
  <2>3. queue' \cap owned' = {}
    BY ZenonT(30), <2>2 DEF OneHand
  <2>4. \A b \in Acceptors : accSock'[b] \notin queue' \cup owned'
    BY <1>1, <2>1, <2>2 DEF OneHand
  <2>5. \A b \in Acceptors : acc'[b] = "taken" <=> accSock'[b] # 0
    BY <1>1 DEF OneHand
  <2> QED
    BY <2>1, <2>3, <2>4, <2>5, <1>1 DEF OneHand
<1>4. Unregistered' /\ InTheMaking' /\ QueuedAlive'
  BY <1>1 DEF Unregistered, InTheMaking, NewStates, QueuedAlive, Doomed
<1>5. Doomed' /\ LostOnlyIfBroken'
  BY <1>1 DEF Doomed, LostOnlyIfBroken, Locate
<1> QED
  BY <1>2, <1>3, <1>4, <1>5

LEMMA CloseListenerInv ==
  ASSUME SocketsInv, CloseListener
  PROVE  SocketsInv'
<1> USE SocksInAll DEF SocketsInv, SocketTypes, All, L, CloseListener, sockVars, lsVars, wkVars, accVars, gcVars, Locate
<1>1. SocketTypes'
  BY DEF OneHand, InTheMaking, Places, NewStates
<1>2. ListenerSound' /\ OneHand'
  BY DEF OneHand, ListenerSound, InTheMaking, NewStates, Doomed, Unregistered
<1>3. Unregistered'
  BY DEF Unregistered, InTheMaking, NewStates, OneHand, Doomed, QueuedAlive, ListenerSound
<1>4. InTheMaking'
  BY DEF InTheMaking, NewStates, Unregistered, OneHand, Doomed, QueuedAlive, ListenerSound
<1>5. Doomed'
  BY DEF Doomed, Unregistered, InTheMaking, NewStates, OneHand, QueuedAlive, ListenerSound
<1>6. QueuedAlive'
  BY DEF QueuedAlive, OneHand, InTheMaking, NewStates, Doomed, Unregistered, ListenerSound
<1>7. LostOnlyIfBroken'
  BY DEF LostOnlyIfBroken, OneHand, Doomed, InTheMaking, NewStates, QueuedAlive, Unregistered, ListenerSound
<1> QED
  BY <1>1, <1>2, <1>3, <1>4, <1>5, <1>6, <1>7

LEMMA BroadcastInv ==
  ASSUME SocketsInv, Broadcast
  PROVE  SocketsInv'
<1> USE SocksInAll DEF SocketsInv, SocketTypes, All, L, Broadcast, sockVars, lsVars, wkVars, accVars, gcVars
<1>1. SocketTypes'
  BY DEF OneHand, InTheMaking, Places, NewStates
<1>2. ListenerSound' /\ OneHand'
  BY DEF OneHand, ListenerSound, InTheMaking, NewStates, Doomed, Unregistered
<1>3. Unregistered'
  BY DEF Unregistered, InTheMaking, NewStates, OneHand, Doomed, QueuedAlive, ListenerSound
<1>4. InTheMaking'
  BY DEF InTheMaking, NewStates, Unregistered, OneHand, Doomed, QueuedAlive, ListenerSound
<1>5. Doomed'
  BY DEF Doomed, Unregistered, InTheMaking, NewStates, OneHand, QueuedAlive, ListenerSound
<1>6. QueuedAlive'
  BY DEF QueuedAlive, OneHand, InTheMaking, NewStates, Doomed, Unregistered, ListenerSound
<1>7. LostOnlyIfBroken'
  BY DEF LostOnlyIfBroken, Locate, OneHand, Doomed, InTheMaking, NewStates, QueuedAlive, Unregistered, ListenerSound
<1> QED
  BY <1>1, <1>2, <1>3, <1>4, <1>5, <1>6, <1>7

LEMMA CheckBrokenInv ==
  ASSUME SocketsInv, CheckBroken
  PROVE  SocketsInv'
<1> USE SocksInAll DEF SocketsInv, SocketTypes, All, L, CheckBroken, sockVars, lsVars, wkVars, accVars, gcVars, Broken
<1>1. SocketTypes'
  BY DEF OneHand, InTheMaking, Places, NewStates
<1>2. ListenerSound' /\ OneHand'
  BY DEF OneHand, ListenerSound, InTheMaking, NewStates, Doomed, Unregistered
<1>3. Unregistered'
  BY DEF Unregistered, InTheMaking, NewStates, OneHand, Doomed, QueuedAlive, ListenerSound
<1>4. InTheMaking'
  BY DEF InTheMaking, NewStates, Unregistered, OneHand, Doomed, QueuedAlive, ListenerSound
<1>5. Doomed'
  BY DEF Doomed, Unregistered, InTheMaking, NewStates, OneHand, QueuedAlive, ListenerSound
<1>6. QueuedAlive'
  BY DEF QueuedAlive, OneHand, InTheMaking, NewStates, Doomed, Unregistered, ListenerSound
<1>7. LostOnlyIfBroken'
  <2>1. \A t \in All : where[t] = "sockets" /\ ~shut[t] /\ ~(where'[t] = "sockets" /\ ~shut'[t]) => broken[t]
    OBVIOUS
  <2> QED
    BY <2>1 DEF LostOnlyIfBroken, Locate
<1> QED
  BY <1>1, <1>2, <1>3, <1>4, <1>5, <1>6, <1>7

LEMMA RemoveSocketInv ==
  ASSUME SocketsInv, RemoveSocket
  PROVE  SocketsInv'
<1> DEFINE s == Max(tbr)
           left == IF s = L THEN queue ELSE {}
<1> USE SocksInAll DEF SocketsInv, SocketTypes, All, L, wkVars
<1>1. s \in tbr
  <2>1. tbr \in SUBSET (0 .. MaxSocks) /\ tbr # {} /\ MaxSocks \in Nat
    BY UdtSocketsAssumption DEF RemoveSocket, Socks
  <2> QED
    BY <2>1, MaxOfBounded
<1>2. /\ where' = [t \in All |-> IF t = s THEN "gone" ELSE IF t \in left THEN "closed" ELSE where[t]]
      /\ broken' = [t \in All |-> t # s /\ (broken[t] \/ t \in left)]
      /\ shut' = [t \in All |-> shut[t] \/ t \in left]
      /\ aged' = [t \in All |-> t # s /\ t \notin left /\ aged[t]]
      /\ queue' = queue \ left /\ tbr' = tbr \ {s}
      /\ listening' = (listening /\ s # L) /\ readable' = (readable /\ s # L)
      /\ owned' = owned \ {s} /\ closing' = closing \ {s}
      /\ refCount' = refCount - 1 /\ gc' \in {"join", "remove"}
      /\ UNCHANGED <<onList, bcast, control, wkVars, acc, accSock>>
  BY DEF RemoveSocket
<1>3. where[s] = "closed" /\ aged[s] /\ s \in All
  BY <1>1 DEF Doomed
<1>4. /\ left \subseteq Socks /\ left \subseteq queue /\ s \notin left
      /\ s # L => left = {}
      /\ \A t \in left : where[t] = "sockets" /\ t \notin tbr /\ \A a \in Acceptors : accSock[a] # t
  BY <1>1, <1>3 DEF QueuedAlive, Doomed, OneHand
<1>5. \A a \in Acceptors : accSock[a] # 0 => accSock[a] # s
  BY <1>3 DEF Doomed
<1> HIDE DEF s, left
<1> USE <1>1, <1>2, <1>3, <1>4, <1>5
<1>6. SocketTypes'
  BY DEF Places
<1>7. ListenerSound' /\ OneHand'
  BY DEF ListenerSound, OneHand
<1>8. Unregistered'
  BY DEF Unregistered
<1>9. InTheMaking'
  BY DEF InTheMaking, NewStates
<1>10. Doomed'
  BY DEF Doomed
<1>11. QueuedAlive'
  BY DEF QueuedAlive
<1>12. LostOnlyIfBroken'
  <2>1. \A a \in Acceptors : accSock[a] # 0 =>
          /\ where'[accSock[a]] = where[accSock[a]] /\ shut'[accSock[a]] = shut[accSock[a]]
          /\ broken'[accSock[a]] = broken[accSock[a]]
    OBVIOUS
  <2> QED
    BY <2>1 DEF LostOnlyIfBroken, Locate, OneHand
<1> QED
  BY <1>6, <1>7, <1>8, <1>9, <1>10, <1>11, <1>12

LEMMA JoinInv ==
  ASSUME SocketsInv, Join
  PROVE  SocketsInv'
<1> USE SocksInAll DEF SocketsInv, SocketTypes, All, L, Join, sockVars, lsVars, wkVars, accVars, gcVars
<1>1. SocketTypes'
  BY DEF OneHand, InTheMaking, Places, NewStates
<1>2. ListenerSound' /\ OneHand'
  BY DEF OneHand, ListenerSound, InTheMaking, NewStates, Doomed, Unregistered
<1>3. Unregistered'
  BY DEF Unregistered, InTheMaking, NewStates, OneHand, Doomed, QueuedAlive, ListenerSound
<1>4. InTheMaking'
  BY DEF InTheMaking, NewStates, Unregistered, OneHand, Doomed, QueuedAlive, ListenerSound
<1>5. Doomed'
  BY DEF Doomed, Unregistered, InTheMaking, NewStates, OneHand, QueuedAlive, ListenerSound
<1>6. QueuedAlive'
  BY DEF QueuedAlive, OneHand, InTheMaking, NewStates, Doomed, Unregistered, ListenerSound
<1>7. LostOnlyIfBroken'
  BY DEF LostOnlyIfBroken, Locate, OneHand, Doomed, InTheMaking, NewStates, QueuedAlive, Unregistered, ListenerSound
<1> QED
  BY <1>1, <1>2, <1>3, <1>4, <1>5, <1>6, <1>7

LEMMA CollectedInv ==
  ASSUME SocketsInv, Collected
  PROVE  SocketsInv'
<1> USE SocksInAll DEF SocketsInv, SocketTypes, All, L, Collected, sockVars, lsVars, wkVars, accVars, gcVars
<1>1. SocketTypes'
  BY DEF OneHand, InTheMaking, Places, NewStates
<1>2. ListenerSound' /\ OneHand'
  BY DEF OneHand, ListenerSound, InTheMaking, NewStates, Doomed, Unregistered
<1>3. Unregistered'
  BY DEF Unregistered, InTheMaking, NewStates, OneHand, Doomed, QueuedAlive, ListenerSound
<1>4. InTheMaking'
  BY DEF InTheMaking, NewStates, Unregistered, OneHand, Doomed, QueuedAlive, ListenerSound
<1>5. Doomed'
  BY DEF Doomed, Unregistered, InTheMaking, NewStates, OneHand, QueuedAlive, ListenerSound
<1>6. QueuedAlive'
  BY DEF QueuedAlive, OneHand, InTheMaking, NewStates, Doomed, Unregistered, ListenerSound
<1>7. LostOnlyIfBroken'
  BY DEF LostOnlyIfBroken, Locate, OneHand, Doomed, InTheMaking, NewStates, QueuedAlive, Unregistered, ListenerSound
<1> QED
  BY <1>1, <1>2, <1>3, <1>4, <1>5, <1>6, <1>7
LEMMA InitInv == UdtSocketsInit => SocketsInv
<1> SUFFICES ASSUME UdtSocketsInit PROVE SocketsInv
  OBVIOUS
<1> USE SocksInAll DEF UdtSocketsInit, All, L
<1>1. SocketTypes
  <2>1. where \in [All -> Places] /\ accSock \in [Acceptors -> All]
    BY DEF Places
  <2>2. tbr \subseteq All /\ owned \subseteq Socks /\ closing \subseteq owned /\ queue \subseteq Socks
        /\ refCount \in Int /\ wkSock \in All
    OBVIOUS
  <2>3. acc \in [Acceptors -> {"idle", "loop", "waiting", "woken", "taken"}] /\ wk = "idle" /\ gc = "idle"
    OBVIOUS
  <2>4. /\ shut \in [All -> BOOLEAN] /\ broken \in [All -> BOOLEAN]
        /\ onList \in [All -> BOOLEAN] /\ aged \in [All -> BOOLEAN]
        /\ {readable, listening, bcast, control} \subseteq BOOLEAN
    OBVIOUS
  <2> QED
    BY <2>1, <2>2, <2>3, <2>4, Zenon DEF SocketTypes
<1>3. ListenerSound /\ OneHand
  BY DEF ListenerSound, OneHand
<1>2. Unregistered /\ InTheMaking /\ Doomed /\ QueuedAlive /\ LostOnlyIfBroken
  BY DEF Unregistered, InTheMaking, NewStates, Doomed, QueuedAlive, LostOnlyIfBroken
<1> QED
  BY <1>1, <1>2, <1>3 DEF SocketsInv

LEMMA NextInv == SocketsInv /\ [UdtSocketsNext]_udtSocketsVars => SocketsInv'
<1> SUFFICES ASSUME SocketsInv, [UdtSocketsNext]_udtSocketsVars PROVE SocketsInv'
  OBVIOUS
<1>1. CASE UNCHANGED udtSocketsVars
  BY <1>1 DEF udtSocketsVars, sockVars, lsVars, wkVars, accVars, gcVars, SocketsInv, SocketTypes,
              ListenerSound, OneHand, Unregistered, InTheMaking, Doomed, QueuedAlive,
              LostOnlyIfBroken, Locate
<1>2. ASSUME NEW s \in All, Handshake(s) \/ Age(s) PROVE SocketsInv'
  BY <1>2, HandshakeInv, AgeInv, Zenon
<1>3. CASE New
  BY <1>3, NewLocateInv, NewRepeatedInv, NewBacklogInv, NewMuxInv, NewConnectInv, NewRegisterInv,
     NewEnqueueInv, NewEnableInv, NewSignalInv, Zenon DEF New
<1>4. ASSUME NEW s \in Socks, Break(s) \/ Drop(s) \/ Close(s) \/ CloseMove(s) PROVE SocketsInv'
  BY <1>4, BreakInv, DropInv, CloseInv, CloseMoveInv, Zenon
<1>5. ASSUME NEW a \in Acceptors, AcceptCall(a) \/ AcceptStep(a) PROVE SocketsInv'
  BY <1>5, AcceptCallInv, AcceptLoopInv, AcceptWokenInv, AcceptReturnInv, Zenon DEF AcceptStep
<1>6. CASE CloseListener \/ Broadcast \/ Collect
  BY <1>6, CloseListenerInv, BroadcastInv, CheckBrokenInv, RemoveSocketInv, JoinInv, CollectedInv,
     Zenon DEF Collect
<1> QED
  BY <1>1, <1>2, <1>3, <1>4, <1>5, <1>6, Zenon DEF UdtSocketsNext

LEMMA SocketsInvariance == UdtSocketsSpec => []SocketsInv
  BY InitInv, NextInv, PTL DEF UdtSocketsSpec

-----------------------------------------------------------------------------
(* The multiplexer's count.                                                *)

Counted == {s \in All : where[s] \in {"sockets", "closed", "leaked"}}
InUpdate == IF wk \in {"connect", "register"} THEN 1 ELSE 0

LEMMA CountedFinite == IsFiniteSet(All) /\ IsFiniteSet(Counted)
<1>1. All = 0 .. MaxSocks /\ MaxSocks \in Nat
  BY UdtSocketsAssumption DEF All, Socks, L
<1>2. IsFiniteSet(All)
  BY <1>1, FS_Interval
<1> QED
  BY <1>2, FS_Subset DEF Counted

LEMMA CountSum == RefCountExact <=> refCount = Cardinality(Counted) + InUpdate
  BY DEF RefCountExact, Counted, InUpdate

\* A step that moves no socket into or out of the multiplexer's use.
LEMMA CountKept ==
  ASSUME RefCountExact, Counted' = Counted, InUpdate' = InUpdate, refCount' = refCount
  PROVE  RefCountExact'
  BY DEF RefCountExact, Counted, InUpdate

LEMMA CountMux == SocketsInv /\ RefCountExact /\ NewMux => RefCountExact'
<1> SUFFICES ASSUME SocketsInv, RefCountExact, NewMux PROVE RefCountExact'
  OBVIOUS
<1>1. Counted' = Counted /\ InUpdate = 0 /\ InUpdate' = 1 /\ refCount' = refCount + 1
  BY DEF NewMux, sockVars, Counted, InUpdate
<1>2. Cardinality(Counted) \in Nat
  BY CountedFinite, FS_CardinalityType
<1>3. refCount = Cardinality(Counted) + 0
  BY <1>1, CountSum
<1>4. refCount' = Cardinality(Counted)' + InUpdate'
  BY <1>1, <1>2, <1>3
<1> QED
  BY <1>4 DEF RefCountExact, Counted, InUpdate

\* The socket that is connected or registered goes from being in updateMux to being
\* counted in a table.
LEMMA CountNew ==
  ASSUME SocketsInv, RefCountExact, wk \in {"connect", "register"}, wk' \notin {"connect", "register"},
         NEW p \in {"sockets", "leaked"}, where' = [where EXCEPT ![wkSock] = p], refCount' = refCount
  PROVE  RefCountExact'
<1>1. wkSock \in All /\ where[wkSock] = "new" /\ where \in [All -> Places]
  BY DEF SocketsInv, InTheMaking, SocketTypes
<1>2. wkSock \notin Counted /\ Counted' = Counted \cup {wkSock} /\ InUpdate = 1 /\ InUpdate' = 0
  BY <1>1 DEF Counted, InUpdate
<1>3. Cardinality(Counted') = Cardinality(Counted) + 1 /\ Cardinality(Counted) \in Nat
  BY <1>2, CountedFinite, FS_AddElement, FS_CardinalityType
<1> QED
  BY <1>2, <1>3 DEF RefCountExact, Counted, InUpdate

LEMMA CountRemoved == SocketsInv /\ RefCountExact /\ RemoveSocket => RefCountExact'
<1> SUFFICES ASSUME SocketsInv, RefCountExact, RemoveSocket PROVE RefCountExact'
  OBVIOUS
<1> DEFINE s == Max(tbr)
           left == IF s = L THEN queue ELSE {}
<1>1. s \in tbr
  <2>1. tbr \in SUBSET (0 .. MaxSocks) /\ tbr # {} /\ MaxSocks \in Nat
    BY UdtSocketsAssumption DEF RemoveSocket, SocketsInv, SocketTypes, All, Socks, L
  <2> QED
    BY <2>1, MaxOfBounded
<1>2. s \in All /\ where[s] = "closed" /\ \A t \in left : where[t] = "sockets"
  BY <1>1 DEF SocketsInv, SocketTypes, Doomed, QueuedAlive
<1>3. /\ where' = [t \in All |-> IF t = s THEN "gone" ELSE IF t \in left THEN "closed" ELSE where[t]]
      /\ refCount' = refCount - 1 /\ UNCHANGED wkVars
  BY DEF RemoveSocket
<1> HIDE DEF s, left
<1>4. s \in Counted /\ Counted' = Counted \ {s} /\ InUpdate' = InUpdate
  BY <1>2, <1>3 DEF Counted, InUpdate, wkVars
<1>5. Cardinality(Counted') = Cardinality(Counted) - 1 /\ Cardinality(Counted) \in Nat
  BY <1>4, CountedFinite, FS_RemoveElement, FS_CardinalityType
<1>6. InUpdate \in Nat
  BY DEF InUpdate
<1> QED
  BY <1>3, <1>4, <1>5, <1>6 DEF RefCountExact, Counted, InUpdate

LEMMA CountMoved ==
  ASSUME SocketsInv, RefCountExact, UNCHANGED <<refCount, wk>>,
         \/ \E s \in Socks : CloseMove(s)
         \/ CheckBroken
  PROVE  RefCountExact'
<1>1. \A t \in All : where'[t] \in {"sockets", "closed", "leaked"} <=> where[t] \in {"sockets", "closed", "leaked"}
  BY DEF CloseMove, CheckBroken, Broken, Locate, SocketsInv, SocketTypes, All
<1>2. Counted' = Counted /\ InUpdate' = InUpdate
  BY <1>1 DEF Counted, InUpdate
<1> QED
  BY <1>2, CountKept

LEMMA CountStep == SocketsInv /\ RefCountExact /\ [UdtSocketsNext]_udtSocketsVars => RefCountExact'
<1> SUFFICES ASSUME SocketsInv, RefCountExact, [UdtSocketsNext]_udtSocketsVars PROVE RefCountExact'
  OBVIOUS
<1>1. ASSUME UNCHANGED <<where, refCount>>,
             wk' = wk \/ {wk, wk'} \cap {"connect", "register"} = {} \/ {wk, wk'} \subseteq {"connect", "register"}
      PROVE  RefCountExact'
  BY <1>1, CountKept DEF Counted, InUpdate
<1>2. CASE UNCHANGED udtSocketsVars
  BY <1>1, <1>2 DEF udtSocketsVars, sockVars, wkVars
<1>3. ASSUME NEW s \in All, Handshake(s) \/ Age(s) PROVE RefCountExact'
  BY <1>1, <1>3 DEF Handshake, Age, sockVars, wkVars
<1>4. CASE New
  <2>1. CASE NewLocate \/ NewRepeated \/ NewEnqueue \/ NewEnable \/ NewSignal
    BY <1>1, <2>1 DEF NewLocate, NewRepeated, NewEnqueue, NewEnable, NewSignal, sockVars
  <2>2. CASE NewBacklog
    <3>1. UNCHANGED refCount /\ {wk, wk'} \cap {"connect", "register"} = {}
      BY <2>2 DEF NewBacklog
    <3>2. CASE UNCHANGED where
      BY <1>1, <3>1, <3>2
    <3>3. ASSUME NEW s \in Socks, where[s] = "none", where' = [where EXCEPT ![s] = "new"]
          PROVE  RefCountExact'
      <4>1. Counted' = Counted /\ InUpdate' = InUpdate
        BY <3>1, <3>3 DEF Counted, InUpdate, SocketsInv, SocketTypes
      <4> QED
        BY <3>1, <4>1, CountKept
    <3> QED
      BY <2>2, <3>2, <3>3 DEF NewBacklog
  <2>3. CASE NewMux
    BY <2>3, CountMux
  <2>4. CASE NewConnect
    <3>1. CASE UNCHANGED where
      BY <1>1, <2>4, <3>1 DEF NewConnect, InTheMaking, SocketsInv, SocketTypes, Places, NewStates
    <3>2. CASE wk' = "idle" /\ where' = [where EXCEPT ![wkSock] = "leaked"]
      BY <2>4, <3>2, CountNew DEF NewConnect
    <3> QED
      BY <2>4, <3>1, <3>2 DEF NewConnect
  <2>5. CASE NewRegister
    BY <2>5, CountNew DEF NewRegister
  <2> QED
    BY <1>4, <2>1, <2>2, <2>3, <2>4, <2>5 DEF New
<1>5. ASSUME NEW s \in Socks, Break(s) \/ Drop(s) \/ Close(s) PROVE RefCountExact'
  BY <1>1, <1>5 DEF Break, Drop, Close, sockVars, wkVars
<1>6. ASSUME NEW s \in Socks, CloseMove(s) PROVE RefCountExact'
  BY <1>6, CountMoved DEF CloseMove, wkVars
<1>7. ASSUME NEW a \in Acceptors, AcceptCall(a) \/ AcceptStep(a) PROVE RefCountExact'
  BY <1>1, <1>7 DEF AcceptCall, AcceptStep, AcceptLoop, AcceptWoken, AcceptReturn, sockVars, wkVars
<1>8. CASE CloseListener \/ Broadcast \/ Join \/ Collected
  BY <1>1, <1>8 DEF CloseListener, Broadcast, Join, Collected, sockVars, wkVars
<1>9. CASE CheckBroken
  BY <1>9, CountMoved DEF CheckBroken, wkVars
<1>10. CASE RemoveSocket
  BY <1>10, CountRemoved
<1> QED
  BY <1>2, <1>3, <1>4, <1>5, <1>6, <1>7, <1>8, <1>9, <1>10, Zenon DEF UdtSocketsNext, Collect

LEMMA CountInit == UdtSocketsInit => RefCountExact
<1> SUFFICES ASSUME UdtSocketsInit PROVE RefCountExact
  OBVIOUS
<1>1. Counted = {L} /\ InUpdate = 0 /\ refCount = 1
  BY SocksInAll DEF UdtSocketsInit, Counted, InUpdate, All, L
<1>2. Cardinality({L}) = 1
  BY FS_Singleton
<1> QED
  BY <1>1, <1>2 DEF RefCountExact, Counted, InUpdate

-----------------------------------------------------------------------------
(* Announcements.                                                          *)

LEMMA AnnounceInit == UdtSocketsInit => AnnouncementsArrive
  BY UdtSocketsAssumption DEF UdtSocketsInit, AnnouncementsArrive, NoLostAccept, NoSilentListener, All, L

\* A step that touches neither what accept waits for nor the listener's readiness.
LEMMA AnnounceFrame ==
  ASSUME AnnouncementsArrive, queue' \subseteq queue, UNCHANGED <<readable, bcast>>,
         where[L] = "gone" => where'[L] = "gone", broken'[L] => broken[L],
         wk' = wk \/ wk \notin {"enable", "signal"},
         \A a \in Acceptors : acc'[a] = "waiting" => acc[a] = "waiting"
  PROVE  AnnouncementsArrive'
  BY DEF AnnouncementsArrive, NoLostAccept, NoSilentListener

LEMMA AnnounceStep ==
  SocketsInv /\ AnnouncementsArrive /\ [UdtSocketsNext]_udtSocketsVars => AnnouncementsArrive'
<1> SUFFICES ASSUME SocketsInv, AnnouncementsArrive, [UdtSocketsNext]_udtSocketsVars
             PROVE  AnnouncementsArrive'
  OBVIOUS
<1> USE DEF sockVars, lsVars, wkVars, accVars, gcVars
<1>1. CASE UNCHANGED udtSocketsVars
  BY <1>1, AnnounceFrame DEF udtSocketsVars
<1>2. ASSUME NEW s \in All, Handshake(s) \/ Age(s) PROVE AnnouncementsArrive'
  BY <1>2, AnnounceFrame DEF Handshake, Age
<1>3. CASE NewLocate \/ NewRepeated \/ NewMux
  BY <1>3, AnnounceFrame DEF NewLocate, NewRepeated, NewMux
<1>4. CASE NewBacklog \/ NewConnect \/ NewRegister
  <2>1. L \in All /\ where[L] # "none" /\ where \in [All -> Places]
        /\ (NewConnect \/ NewRegister => wkSock # L)
    BY SocksInAll DEF SocketsInv, SocketTypes, ListenerSound, InTheMaking, NewStates, NewConnect,
                      NewRegister, All, L
  <2>2. where'[L] = where[L]
    BY <1>4, <2>1, SocksInAll DEF NewBacklog, NewConnect, NewRegister, All, L
  <2> QED
    BY <1>4, <2>2, AnnounceFrame DEF NewBacklog, NewConnect, NewRegister
<1>5. CASE NewEnqueue
  BY <1>5 DEF NewEnqueue, AnnouncementsArrive, NoLostAccept, NoSilentListener
<1>6. CASE NewEnable
  BY <1>6 DEF NewEnable, AnnouncementsArrive, NoLostAccept, NoSilentListener
<1>7. CASE NewSignal
  <2>1. ~ \A a \in Acceptors : acc'[a] = "waiting"
    BY <1>7, UdtSocketsAssumption DEF NewSignal, SocketsInv, SocketTypes
  <2> QED
    BY <1>7, <2>1 DEF NewSignal, AnnouncementsArrive, NoLostAccept, NoSilentListener
<1>8. ASSUME NEW s \in Socks, Break(s) \/ Drop(s) \/ Close(s) \/ CloseMove(s) PROVE AnnouncementsArrive'
  <2>1. s # L /\ s \in All /\ L \in All
    BY SocksInAll DEF All, L
  <2> QED
    BY <1>8, <2>1, AnnounceFrame DEF Break, Drop, Close, CloseMove, SocketsInv, SocketTypes
<1>9. ASSUME NEW a \in Acceptors, AcceptCall(a) \/ AcceptReturn(a) PROVE AnnouncementsArrive'
  BY <1>9, AnnounceFrame DEF AcceptCall, AcceptReturn, SocketsInv, SocketTypes
<1>10. ASSUME NEW a \in Acceptors, AcceptWoken(a) PROVE AnnouncementsArrive'
  BY <1>10 DEF AcceptWoken, AnnouncementsArrive, NoLostAccept, NoSilentListener, SocketsInv, SocketTypes
<1>11. ASSUME NEW a \in Acceptors, AcceptLoop(a) PROVE AnnouncementsArrive'
  <2>1. acc'[a] # "waiting" \/ (queue' = {} /\ ~broken'[L])
    BY <1>11 DEF AcceptLoop, SocketsInv, SocketTypes
  <2>2. NoSilentListener'
    BY <1>11 DEF AcceptLoop, AnnouncementsArrive, NoSilentListener
  <2> QED
    BY <2>1, <2>2 DEF AnnouncementsArrive, NoLostAccept
<1>12. CASE CloseListener
  BY <1>12 DEF CloseListener, AnnouncementsArrive, NoLostAccept, NoSilentListener
<1>13. CASE Broadcast
  BY <1>13, UdtSocketsAssumption DEF Broadcast, AnnouncementsArrive, NoLostAccept, NoSilentListener
<1>14. CASE CheckBroken
  <2>1. where[L] = "gone" => where'[L] = "gone"
    BY <1>14 DEF CheckBroken, Broken, SocketsInv, SocketTypes, All, L
  <2> QED
    BY <1>14, <2>1, AnnounceFrame DEF CheckBroken
<1>15. CASE RemoveSocket
  <2> DEFINE s == Max(tbr)
             left == IF s = L THEN queue ELSE {}
  <2>1. /\ where' = [t \in All |-> IF t = s THEN "gone" ELSE IF t \in left THEN "closed" ELSE where[t]]
        /\ broken' = [t \in All |-> t # s /\ (broken[t] \/ t \in left)]
        /\ queue' = queue \ left /\ readable' = (readable /\ s # L)
        /\ UNCHANGED <<bcast, wkVars, acc>>
    BY <1>15 DEF RemoveSocket
  <2>2. L \in All /\ L \notin queue
    BY SocksInAll DEF SocketsInv, SocketTypes, All, L
  <2> HIDE DEF s
  <2>3. broken'[L] => broken[L]
    BY <2>1, <2>2
  <2>4. NoLostAccept'
    BY <2>1, <2>3 DEF AnnouncementsArrive, NoLostAccept
  <2>5. NoSilentListener'
    BY <2>1, <2>2 DEF AnnouncementsArrive, NoSilentListener
  <2> QED
    BY <2>4, <2>5 DEF AnnouncementsArrive
<1>16. CASE Join \/ Collected
  BY <1>16, AnnounceFrame DEF Join, Collected
<1> QED
  BY <1>1, <1>2, <1>3, <1>4, <1>5, <1>6, <1>7, <1>8, <1>9, <1>10, <1>11, <1>12, <1>13, <1>14,
     <1>15, <1>16, Zenon
  DEF UdtSocketsNext, New, AcceptStep, Collect

-----------------------------------------------------------------------------
(* The theorems.                                                           *)

(* What is queued is alive, the multiplexer counts exactly the sockets that use   *)
(* it, and accept loses only a socket whose connection broke (newConnection,      *)
(* accept, checkBrokenSockets, removeSocket), whoever runs in between.            *)
THEOREM SocketTablesSound == UdtSocketsSpec => []TablesSound
<1>1. UdtSocketsSpec => []RefCountExact
  BY CountInit, CountStep, SocketsInvariance, PTL DEF UdtSocketsSpec
<1> QED
  BY <1>1, SocketsInvariance, PTL DEF TablesSound, SocketsInv

(* No thread stays in accept, and no epoll stays silent, while there is a          *)
(* connection to accept or the listener is closed.                                 *)
THEOREM SocketAnnouncementsArrive == UdtSocketsSpec => []AnnouncementsArrive
  BY AnnounceInit, AnnounceStep, SocketsInvariance, PTL DEF UdtSocketsSpec
=============================================================================
