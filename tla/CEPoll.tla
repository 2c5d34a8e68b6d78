------------------------------- MODULE CEPoll -------------------------------
(***************************************************************************)
(* The class CEPoll of udt4/src/epoll.cpp: the table m_mPolls of epoll     *)
(* descriptors and the functions that change it.  Every function runs      *)
(* under m_EPollLock from its first to its last statement, so each is one  *)
(* atomic state change.  The module defines those changes; UdtEpoll says   *)
(* which thread makes them, and when.                                      *)
(*                                                                         *)
(* A descriptor holds two sets of watched UDT sockets and two sets of      *)
(* ready UDT sockets.  A socket is ready because a thread of the library   *)
(* once said so: nothing recomputes readiness when it is asked for.        *)
(***************************************************************************)
EXTENDS Naturals

CONSTANTS Socks,      \* the UDT sockets
          MaxPolls    \* bound: how many epolls are ever created

ASSUME MaxPollsAssumption == MaxPolls \in Nat

Eids == 1 .. MaxPolls

Events == {"in", "out"}          \* UDT_EPOLL_IN, UDT_EPOLL_OUT

VARIABLES idSeed,     \* m_iIDSeed
          mPolls,     \* the keys of m_mPolls: the epolls that exist
          socksIn,    \* m_sUDTSocksIn  of each epoll
          socksOut,   \* m_sUDTSocksOut of each epoll
          reads,      \* m_sUDTReads    of each epoll
          writes      \* m_sUDTWrites   of each epoll

epollVars == <<idSeed, mPolls, socksIn, socksOut, reads, writes>>

EpollTypeOK ==
  /\ idSeed \in 0 .. MaxPolls
  /\ mPolls \subseteq 1 .. idSeed
  /\ socksIn \in [Eids -> SUBSET Socks]
  /\ socksOut \in [Eids -> SUBSET Socks]
  /\ reads \in [Eids -> SUBSET Socks]
  /\ writes \in [Eids -> SUBSET Socks]

NoSocks == [e \in Eids |-> {}]

EpollInit ==
  /\ idSeed = 0
  /\ mPolls = {}
  /\ socksIn = NoSocks
  /\ socksOut = NoSocks
  /\ reads = NoSocks
  /\ writes = NoSocks

(***************************************************************************)
(* create().  The seed wraps only at 2^31 - 1, which the bound MaxPolls    *)
(* keeps out of reach, so an id is never used twice.                       *)
(***************************************************************************)
CreatePoll ==
  /\ idSeed < MaxPolls
  /\ idSeed' = idSeed + 1
  /\ mPolls' = mPolls \cup {idSeed + 1}
  /\ UNCHANGED <<socksIn, socksOut, reads, writes>>

(* release(): the descriptor and its four sets are erased.                 *)
ReleasePoll(e) ==
  /\ mPolls' = mPolls \ {e}
  /\ socksIn' = [socksIn EXCEPT ![e] = {}]
  /\ socksOut' = [socksOut EXCEPT ![e] = {}]
  /\ reads' = [reads EXCEPT ![e] = {}]
  /\ writes' = [writes EXCEPT ![e] = {}]
  /\ UNCHANGED idSeed

(* add_usock(): only ever adds to the watched sets.                        *)
AddUsock(e, u, ev) ==
  /\ socksIn' = IF "in" \in ev THEN [socksIn EXCEPT ![e] = @ \cup {u}] ELSE socksIn
  /\ socksOut' = IF "out" \in ev THEN [socksOut EXCEPT ![e] = @ \cup {u}] ELSE socksOut
  /\ UNCHANGED <<idSeed, mPolls, reads, writes>>

(* Mutant of RemoveUsock: the ready sets keep the socket.                  *)
RemoveUsockKeepsReady(e, u) ==
  /\ socksIn' = [socksIn EXCEPT ![e] = @ \ {u}]
  /\ socksOut' = [socksOut EXCEPT ![e] = @ \ {u}]
  /\ UNCHANGED <<idSeed, mPolls, reads, writes>>

(* remove_usock(): the socket leaves all four sets.                        *)
RemoveUsock(e, u) ==
  /\ socksIn' = [socksIn EXCEPT ![e] = @ \ {u}]
  /\ socksOut' = [socksOut EXCEPT ![e] = @ \ {u}]
  /\ reads' = [reads EXCEPT ![e] = @ \ {u}]
  /\ writes' = [writes EXCEPT ![e] = @ \ {u}]
  /\ UNCHANGED <<idSeed, mPolls>>

(***************************************************************************)
(* The four notifications.  Each takes the socket's own set of epoll ids   *)
(* by reference and erases from it the ids of epolls that no longer exist; *)
(* Live(eids) is what is left of it.                                       *)
(***************************************************************************)
Live(eids) == eids \cap mPolls

EnableRead(u, eids) ==
  /\ reads' = [e \in Eids |-> IF e \in Live(eids) /\ u \in socksIn[e]
                              THEN reads[e] \cup {u} ELSE reads[e]]
  /\ UNCHANGED <<idSeed, mPolls, socksIn, socksOut, writes>>

EnableWrite(u, eids) ==
  /\ writes' = [e \in Eids |-> IF e \in Live(eids) /\ u \in socksOut[e]
                               THEN writes[e] \cup {u} ELSE writes[e]]
  /\ UNCHANGED <<idSeed, mPolls, socksIn, socksOut, reads>>

DisableRead(u, eids) ==
  /\ reads' = [e \in Eids |-> IF e \in Live(eids) THEN reads[e] \ {u} ELSE reads[e]]
  /\ UNCHANGED <<idSeed, mPolls, socksIn, socksOut, writes>>

DisableWrite(u, eids) ==
  /\ writes' = [e \in Eids |-> IF e \in Live(eids) THEN writes[e] \ {u} ELSE writes[e]]
  /\ UNCHANGED <<idSeed, mPolls, socksIn, socksOut, reads>>

(***************************************************************************)
(* The table seen alone: any of its functions, on any epoll that exists.   *)
(***************************************************************************)
EpollNext ==
  \/ CreatePoll
  \/ \E e \in mPolls : ReleasePoll(e)
  \/ \E e \in mPolls, u \in Socks, ev \in SUBSET Events : AddUsock(e, u, ev)
  \/ \E e \in mPolls, u \in Socks : RemoveUsock(e, u)
  \/ \E u \in Socks, eids \in SUBSET Eids : \/ EnableRead(u, eids) \/ DisableRead(u, eids)
                                           \/ EnableWrite(u, eids) \/ DisableWrite(u, eids)

EpollSpec == EpollInit /\ [][EpollNext]_epollVars

(***************************************************************************)
(* An epoll reports only sockets it watches, and an epoll that does not    *)
(* exist watches none (epoll.cpp:157, "when the socket is removed from a   *)
(* monitoring, it is not available anymore for any IO notification").      *)
(***************************************************************************)
ReadyOnlyIfWatched ==
  \A e \in Eids :
    /\ reads[e] \subseteq socksIn[e]
    /\ writes[e] \subseteq socksOut[e]
    /\ e \notin mPolls => socksIn[e] = {} /\ socksOut[e] = {}
=============================================================================
