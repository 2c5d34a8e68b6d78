-------------------------- MODULE UdtConnectProofs --------------------------
(***************************************************************************)
(* Proofs about UdtConnect, for any clients, numbers, addresses, backlog   *)
(* and storage, and a network that loses, repeats and reorders at will:    *)
(* the sockets of the listener and of the clients match, the backlog and   *)
(* the connectors are kept, and what connect returns is sound.             *)
(***************************************************************************)
EXTENDS UdtConnect, SequenceTheorems, FiniteSetTheorems, TLAPS

Kinds == {"handshake", "data"}
Types == {-1, 0, 1, 1002}
Requests == [type : {-1, 1}, cookie : Nat, isn : Nat]
Packets == [to : Clients, kind : Kinds, type : Types, isn : Nat, cookie : Nat, sock : Nat]
Made == [peer : Clients, isn : Nat, state : {"connected", "broken", "closed"}]

(***************************************************************************)
(* The inductive invariant.                                                *)
(***************************************************************************)

ClientTypes ==
  /\ app \in [Clients -> {"idle", "starting", "waiting"}]
  /\ status \in [Clients -> {"OPENED", "CONNECTING", "CONNECTED"}]
  /\ connecting \in [Clients -> BOOLEAN] /\ connected \in [Clients -> BOOLEAN]
  /\ conReq \in [Clients -> Requests]
  /\ conRes \in [Clients -> [type : Types, isn : Nat]]
  /\ entries \in [Clients -> Seq(Nat)] /\ attempts \in [Clients -> Nat]
  /\ expired \in [Clients -> Nat]
  /\ stored \in [Clients -> Seq(Packets)]
  /\ peerOf \in [Clients -> Nat]
  /\ result \in [Clients -> {"none", "ok", "failed"}]

ServerTypes ==
  /\ requests \subseteq [from : Clients, req : Requests] /\ answers \subseteq Packets
  /\ minute \in Nat /\ listening \in BOOLEAN
  /\ socks \in Seq(Made) /\ Len(socks) <= MaxSockets
  /\ queued \subseteq DOMAIN socks /\ accepted \subseteq DOMAIN socks

\* Two sockets that the listener cannot tell apart.
SameKey(s, t) ==
  /\ Key(socks[s].peer, socks[s].isn) = Key(socks[t].peer, socks[t].isn)
  /\ Address[socks[s].peer] = Address[socks[t].peer]

\* The listener finds at most one live socket for a request.
OneLive == \A s, t \in DOMAIN socks : s \in Live /\ t \in Live /\ SameKey(s, t) => s = t

\* Socket s was made for a request like one of client c with number i.
MadeFor(s, c, i) ==
  /\ s \in DOMAIN socks /\ socks[s].isn = i
  /\ Address[socks[s].peer] = Address[c] /\ SocketID[socks[s].peer] % 4 = SocketID[c] % 4

\* What is on its way to the server was sent by an attempt, ...
RequestsGood ==
  \A r \in requests :
    /\ attempts[r.from] > 0
    /\ attempts[r.from] = 1 => r.req.isn = conReq[r.from].isn

\* ... and so was what is answered; who is accepted is told its socket.
Good(p) ==
  p.kind = "handshake" =>
    /\ p.type # 0 /\ attempts[p.to] > 0
    /\ attempts[p.to] = 1 => p.isn = conReq[p.to].isn
    /\ p.type = -1 => MadeFor(p.sock, p.to, p.isn)
    /\ p.type # -1 => p.sock = 0

AnswersGood == \A p \in answers : Good(p)
StoredOf(c) == \A i \in DOMAIN stored[c] : stored[c][i].to = c /\ Good(stored[c][i])
StoredGood == \A c \in Clients : StoredOf(c)

\* Where client c is in connect.
StagesOf(c) ==
  /\ connecting[c] \/ connected[c] \/ app[c] # "idle" => attempts[c] > 0 /\ conReq[c].isn \in Isns
  /\ connecting[c] \/ app[c] = "starting" => ~connected[c]
  /\ app[c] = "starting" => ~connecting[c]
  /\ app[c] = "waiting" => SynRecving[c] /\ ~connected[c]

\* What client c knows of the answer it has taken.
ResponsesOf(c) ==
  /\ ~connected[c] => conRes[c].type \in {0, 1} /\ (conRes[c].type = 0 => conRes[c].isn = 0)
  /\ connected[c] => conRes[c].type \in {-1, 1002}
  /\ connected[c] /\ conRes[c].type = -1 => MadeFor(peerOf[c], c, conRes[c].isn)
  /\ connected[c] /\ attempts[c] = 1 => conRes[c].isn = conReq[c].isn
  /\ SynRecving[c] /\ connected[c] /\ result[c] = "ok" => conRes[c].isn = conReq[c].isn
  /\ peerOf[c] \in 0 .. MaxSockets

Stages == \A c \in Clients : StagesOf(c)
Responses == \A c \in Clients : ResponsesOf(c)

ConnectInv ==
  /\ ClientTypes /\ ServerTypes /\ OneLive /\ RequestsGood /\ AnswersGood /\ StoredGood
  /\ Stages /\ Responses /\ BacklogKept /\ ConnectorsKept /\ OutcomeSound

-----------------------------------------------------------------------------
(* Helpers.                                                                *)

(* A nonempty set of numbers with an upper bound has a greatest element.   *)
LEMMA MaxOfBounded ==
  ASSUME NEW N \in Nat, NEW S \in SUBSET (0 .. N), S # {}
  PROVE  Max(S) \in S /\ \A x \in S : Max(S) >= x
<1> DEFINE Above == {x .. N : x \in S}
<1>1. Above \subseteq FiniteSubsetsOf(Nat) /\ Above # {}
  <2>1. \A x \in S : x .. N \in SUBSET Nat /\ IsFiniteSet(x .. N)
    BY FS_Interval
  <2> QED
    BY <2>1, Zenon DEF FiniteSubsetsOf
<1>2. PICK B \in Above : \A C \in Above : ~ (<<C, B>> \in StrictSubsetOrdering(Nat))
  <2> HIDE DEF Above
  <2> QED
    BY <1>1, FS_StrictSubsetOrderingWellFounded, WFMin
<1>3. PICK x \in S : B = x .. N
  OBVIOUS
<1>4. \A y \in S : y .. N \subseteq x .. N => y .. N = x .. N
  <2> TAKE y \in S
  <2>1. y .. N \in SUBSET Nat /\ x .. N \in SUBSET Nat
    OBVIOUS
  <2>2. <<y .. N, x .. N>> \notin StrictSubsetOrdering(Nat)
    BY <1>2, <1>3, Zenon
  <2>3. <<y .. N, x .. N>> \in (SUBSET Nat) \X (SUBSET Nat)
    BY <2>1, Zenon
  <2> QED
    BY <2>2, <2>3, Zenon DEF StrictSubsetOrdering
<1>5. \A y \in S : x >= y
  BY <1>4
<1> QED
  BY <1>5 DEF Max

(* The sockets of the listener stay, with the peers and the numbers they were *)
(* made for.                                                                  *)
Grows ==
  /\ DOMAIN socks \subseteq DOMAIN socks'
  /\ \A s \in DOMAIN socks : socks'[s].peer = socks[s].peer /\ socks'[s].isn = socks[s].isn

(* Attempts are only added, and an only attempt has one number.            *)
AttemptsGrow ==
  \A c \in Clients : attempts[c] > 0 =>
    /\ attempts'[c] >= attempts[c]
    /\ attempts'[c] = 1 => conReq'[c].isn = conReq[c].isn

LEMMA MadeForKept ==
  ASSUME Grows, NEW s, NEW c, NEW i, MadeFor(s, c, i)
  PROVE  MadeFor(s, c, i)'
  BY DEF Grows, MadeFor

LEMMA GoodKept ==
  ASSUME ClientTypes, ClientTypes', Grows, AttemptsGrow, NEW p \in Packets, Good(p)
  PROVE  Good(p)'
<1> USE DEF Packets, Kinds, Types
<1>1. p.type = -1 /\ MadeFor(p.sock, p.to, p.isn) => MadeFor(p.sock, p.to, p.isn)'
  BY MadeForKept
<1>2. p.to \in Clients /\ attempts[p.to] \in Nat /\ attempts'[p.to] \in Nat
  BY DEF ClientTypes
<1>3. attempts[p.to] > 0 => attempts'[p.to] >= attempts[p.to] /\ (attempts'[p.to] = 1 => conReq'[p.to].isn = conReq[p.to].isn)
  BY <1>2 DEF AttemptsGrow
<1> QED
  BY <1>1, <1>2, <1>3 DEF Good

LEMMA AnswersKept ==
  ASSUME ConnectInv, ClientTypes', Grows, AttemptsGrow,
         \A p \in answers' : p \in answers \/ (p \in Packets /\ Good(p)')
  PROVE  AnswersGood'
  BY GoodKept DEF ConnectInv, ServerTypes, AnswersGood

LEMMA RequestsKept ==
  ASSUME ConnectInv, ClientTypes', AttemptsGrow,
         \A r \in requests' : \/ r \in requests
                              \/ attempts'[r.from] > 0 /\ r.req.isn = conReq'[r.from].isn
  PROVE  RequestsGood'
<1> SUFFICES ASSUME NEW r \in requests'
             PROVE  attempts'[r.from] > 0 /\ (attempts'[r.from] = 1 => r.req.isn = conReq'[r.from].isn)
  BY DEF RequestsGood
<1>1. CASE r \in requests
  <2>1. r.from \in Clients /\ attempts[r.from] > 0 /\ (attempts[r.from] = 1 => r.req.isn = conReq[r.from].isn)
    BY <1>1 DEF ConnectInv, ServerTypes, RequestsGood
  <2>2. attempts[r.from] \in Nat /\ attempts'[r.from] \in Nat
    BY <2>1 DEF ConnectInv, ClientTypes
  <2> QED
    BY <2>1, <2>2 DEF AttemptsGrow
<1> QED
  BY <1>1

(* A socket of the listener changes its state and nothing else.            *)
LEMMA StateChange ==
  ASSUME socks \in Seq(Made), NEW s \in DOMAIN socks, NEW x \in {"connected", "broken", "closed"},
         socks' = [socks EXCEPT ![s].state = x]
  PROVE  /\ socks' \in Seq(Made) /\ Len(socks') = Len(socks) /\ DOMAIN socks' = DOMAIN socks
         /\ \A t \in DOMAIN socks : socks'[t].peer = socks[t].peer /\ socks'[t].isn = socks[t].isn
         /\ \A t \in DOMAIN socks : socks'[t].state = IF t = s THEN x ELSE socks[t].state
<1> DEFINE v == [socks[s] EXCEPT !.state = x]
<1>1. socks[s] \in Made
  OBVIOUS
<1>2. v \in Made /\ v.peer = socks[s].peer /\ v.isn = socks[s].isn /\ v.state = x
  BY <1>1 DEF Made
<1>3. socks' = [socks EXCEPT ![s] = v]
  OBVIOUS
<1> HIDE DEF v
<1> QED
  BY <1>2, <1>3

(* Steps that change nothing of the listener.                              *)
LEMMA ServerRests ==
  ASSUME ConnectInv, UNCHANGED serverVars
  PROVE  Grows /\ OneLive' /\ BacklogKept'
<1> USE DEF serverVars
<1>1. Grows
  BY DEF Grows
<1>2. OneLive'
  BY DEF ConnectInv, OneLive, Live, SameKey
<1>3. BacklogKept'
  BY DEF ConnectInv, BacklogKept
<1> QED
  BY <1>1, <1>2, <1>3

(* Steps of the listener: the clients are as they were.                    *)
LEMMA ClientsRest ==
  ASSUME ConnectInv, UNCHANGED <<clientVars, expired, requests>>, Grows, ServerTypes', OneLive', BacklogKept',
         \A p \in answers' : p \in answers \/ (p \in Packets /\ Good(p)')
  PROVE  ConnectInv'
<1> USE DEF clientVars
<1>1. ClientTypes' /\ AttemptsGrow
  <2>1. ClientTypes'
    BY DEF ConnectInv, ClientTypes
  <2>2. AttemptsGrow
    BY DEF ConnectInv, ClientTypes, AttemptsGrow
  <2> QED
    BY <2>1, <2>2
<1>2. AnswersGood'
  BY <1>1, AnswersKept
<1>3. RequestsGood'
  BY DEF ConnectInv, RequestsGood
<1>4. StoredGood'
  <2> SUFFICES ASSUME NEW c \in Clients, NEW i \in DOMAIN stored[c]
               PROVE  stored[c][i].to = c /\ Good(stored[c][i])'
    BY DEF StoredGood, StoredOf
  <2>1. stored[c] \in Seq(Packets) /\ stored[c][i].to = c /\ Good(stored[c][i])
    BY DEF ConnectInv, ClientTypes, StoredGood, StoredOf
  <2>2. stored[c][i] \in Packets
    BY <2>1
  <2> QED
    BY <1>1, <2>1, <2>2, GoodKept DEF ConnectInv
<1>5. Stages' /\ ConnectorsKept' /\ OutcomeSound'
  BY DEF ConnectInv, Stages, StagesOf, ConnectorsKept, OutcomeSound
<1>6. Responses'
  <2> SUFFICES ASSUME NEW c \in Clients, connected[c] /\ conRes[c].type = -1
               PROVE  MadeFor(peerOf[c], c, conRes[c].isn)'
    BY DEF ConnectInv, Responses, ResponsesOf
  <2> QED
    BY MadeForKept DEF ConnectInv, Responses, ResponsesOf
<1> QED
  BY <1>1, <1>2, <1>3, <1>4, <1>5, <1>6 DEF ConnectInv

LEMMA QueuedFinite ==
  ASSUME ConnectInv
  PROVE  IsFiniteSet(queued)
<1>1. queued \subseteq 1 .. Len(socks) /\ Len(socks) \in Int
  BY DEF ConnectInv, ServerTypes
<1>2. IsFiniteSet(1 .. Len(socks))
  BY <1>1, FS_Interval
<1> QED
  BY <1>1, <1>2, FS_Subset

-----------------------------------------------------------------------------
(* The listener.                                                           *)

LEMMA ListenCookieInv ==
  ASSUME ConnectInv, NEW r \in requests, ListenCookie(r)
  PROVE  ConnectInv'
<1> USE DEF ListenCookie
<1>1. Grows /\ OneLive' /\ BacklogKept'
  BY ServerRests
<1>2. r.from \in Clients /\ r.req \in Requests /\ attempts[r.from] > 0 /\ (attempts[r.from] = 1 => r.req.isn = conReq[r.from].isn)
  BY DEF ConnectInv, ServerTypes, RequestsGood
<1> DEFINE a == [to |-> r.from, kind |-> "handshake", type |-> 1, isn |-> r.req.isn,
                 cookie |-> minute, sock |-> 0]
<1>3. a \in Packets
  BY <1>2 DEF ConnectInv, ServerTypes, Packets, Requests, Kinds, Types
<1>4. ServerTypes'
  BY <1>3 DEF ConnectInv, ServerTypes, serverVars
<1>6. \A p \in answers' : p \in answers \/ (p \in Packets /\ Good(p)')
  <2> SUFFICES ASSUME NEW p \in answers', p \notin answers
               PROVE  p \in Packets /\ Good(p)'
    BY Zenon
  <2>1. p = a
    OBVIOUS
  <2>2. p \in Packets
    BY <2>1, <1>3
  <2>3. attempts' = attempts /\ conReq' = conReq
    BY DEF clientVars
  <2> QED
    BY <1>2, <2>1, <2>2, <2>3 DEF Good
<1> QED
  BY <1>1, <1>4, <1>6, ClientsRest

LEMMA ServerSendsInv ==
  ASSUME ConnectInv, NEW s \in DOMAIN socks, ServerSends(s)
  PROVE  ConnectInv'
<1> USE DEF ServerSends
<1>1. Grows /\ OneLive' /\ BacklogKept'
  BY ServerRests
<1> DEFINE a == [to |-> socks[s].peer, kind |-> "data", type |-> 0, isn |-> 0,
                 cookie |-> 0, sock |-> 0]
<1>2. socks[s].peer \in Clients
  <2>1. socks[s] \in Made
    BY DEF ConnectInv, ServerTypes
  <2> QED
    BY <2>1 DEF Made
<1>3. a \in Packets
  BY <1>2 DEF Packets, Kinds, Types
<1>4. ServerTypes'
  BY <1>3 DEF ConnectInv, ServerTypes, serverVars
<1>6. \A p \in answers' : p \in answers \/ (p \in Packets /\ Good(p)')
  <2> SUFFICES ASSUME NEW p \in answers', p \notin answers
               PROVE  p \in Packets /\ Good(p)'
    BY Zenon
  <2>1. p = a
    OBVIOUS
  <2> QED
    BY <2>1, <1>3 DEF Good
<1> QED
  BY <1>1, <1>4, <1>6, ClientsRest

LEMMA AcceptInv ==
  ASSUME ConnectInv, Accept
  PROVE  ConnectInv'
<1> USE DEF Accept, netVars
<1>0. Max(queued) \in queued /\ IsFiniteSet(queued)
  <2>1. queued \in SUBSET (0 .. Len(socks)) /\ Len(socks) \in Nat /\ queued # {}
    BY DEF ConnectInv, ServerTypes
  <2>2. IsFiniteSet(queued)
    BY QueuedFinite
  <2> QED
    BY <2>1, <2>2, MaxOfBounded
<1> DEFINE m == Max(queued)
<1> HIDE DEF m
<1>a. m \in queued /\ queued' = queued \ {m} /\ accepted' = accepted \cup {m}
  BY <1>0 DEF m
<1>1. Grows /\ OneLive'
  BY DEF Grows, ConnectInv, OneLive, Live, SameKey
<1>2. BacklogKept'
  <2>1. Cardinality(queued \ {m}) = Cardinality(queued) - 1 /\ Cardinality(queued) \in Nat
    BY <1>0, <1>a, FS_RemoveElement, FS_CardinalityType, Zenon
  <2>2. Cardinality(queued \ {m}) <= Backlog
    BY <2>1, UdtConnectAssumption DEF ConnectInv, BacklogKept
  <2> QED
    BY <1>a, <2>2 DEF ConnectInv, BacklogKept
<1>3. ServerTypes'
  BY <1>a DEF ConnectInv, ServerTypes
<1>4. \A p \in answers' : p \in answers \/ (p \in Packets /\ Good(p)')
  <2>1. answers' = answers
    OBVIOUS
  <2> QED
    BY <2>1, Zenon
<1> QED
  BY <1>1, <1>2, <1>3, <1>4, ClientsRest

LEMMA ServerBreaksInv ==
  ASSUME ConnectInv, NEW s \in DOMAIN socks, ServerBreaks(s)
  PROVE  ConnectInv'
<1> USE DEF ServerBreaks, netVars
<1>0. /\ socks \in Seq(Made) /\ socks' \in Seq(Made) /\ Len(socks') = Len(socks) /\ DOMAIN socks' = DOMAIN socks
      /\ \A t \in DOMAIN socks : socks'[t].peer = socks[t].peer /\ socks'[t].isn = socks[t].isn
      /\ \A t \in DOMAIN socks : socks'[t].state = IF t = s THEN "broken" ELSE socks[t].state
  <2>1. socks \in Seq(Made) /\ socks' = [socks EXCEPT ![s].state = "broken"]
    BY DEF ConnectInv, ServerTypes
  <2> QED
    BY <2>1, StateChange
<1>1. Grows
  BY <1>0 DEF Grows
<1>2. OneLive'
  <2>1. \A t \in DOMAIN socks : t \in Live' => t \in Live
    BY <1>0 DEF Live, ConnectInv, ServerTypes, Made
  <2>2. \A t, u \in DOMAIN socks : SameKey(t, u)' <=> SameKey(t, u)
    BY <1>0 DEF SameKey
  <2>3. OneLive /\ DOMAIN socks' = DOMAIN socks
    BY <1>0 DEF ConnectInv
  <2> QED
    BY <2>1, <2>2, <2>3, Zenon DEF OneLive
<1>3. BacklogKept' /\ ServerTypes'
  BY <1>0 DEF ConnectInv, BacklogKept, ServerTypes
<1>4. \A p \in answers' : p \in answers \/ (p \in Packets /\ Good(p)')
  <2>1. answers' = answers
    OBVIOUS
  <2> QED
    BY <2>1, Zenon
<1> QED
  BY <1>1, <1>2, <1>3, <1>4, ClientsRest

LEMMA ServerClosesInv ==
  ASSUME ConnectInv, NEW s \in DOMAIN socks, ServerCloses(s)
  PROVE  ConnectInv'
<1> USE DEF ServerCloses, netVars
<1>0. /\ socks \in Seq(Made) /\ socks' \in Seq(Made) /\ Len(socks') = Len(socks) /\ DOMAIN socks' = DOMAIN socks
      /\ \A t \in DOMAIN socks : socks'[t].peer = socks[t].peer /\ socks'[t].isn = socks[t].isn
      /\ \A t \in DOMAIN socks : socks'[t].state = IF t = s THEN "closed" ELSE socks[t].state
  <2>1. socks \in Seq(Made) /\ socks' = [socks EXCEPT ![s].state = "closed"]
    BY DEF ConnectInv, ServerTypes
  <2> QED
    BY <2>1, StateChange
<1>1. Grows
  BY <1>0 DEF Grows
<1>2. OneLive'
  <2>1. \A t \in DOMAIN socks : t \in Live' => t \in Live
    BY <1>0 DEF Live, ConnectInv, ServerTypes, Made
  <2>2. \A t, u \in DOMAIN socks : SameKey(t, u)' <=> SameKey(t, u)
    BY <1>0 DEF SameKey
  <2>3. OneLive /\ DOMAIN socks' = DOMAIN socks
    BY <1>0 DEF ConnectInv
  <2> QED
    BY <2>1, <2>2, <2>3, Zenon DEF OneLive
<1>3. BacklogKept'
  <2>1. IsFiniteSet(queued)
    BY QueuedFinite
  <2>2. Cardinality(queued \ {s}) \in Nat /\ Cardinality(queued) \in Nat /\ Cardinality(queued \ {s}) <= Cardinality(queued)
    BY <2>1, FS_Subset, FS_CardinalityType, queued \ {s} \subseteq queued, Zenon
  <2>3. Cardinality(queued \ {s}) <= Backlog
    BY <2>2, UdtConnectAssumption DEF ConnectInv, BacklogKept
  <2> QED
    BY <1>0, <2>3 DEF ConnectInv, BacklogKept, ServerTypes
<1>4. ServerTypes'
  BY <1>0 DEF ConnectInv, ServerTypes
<1>5. \A p \in answers' : p \in answers \/ (p \in Packets /\ Good(p)')
  <2>1. answers' = answers
    OBVIOUS
  <2> QED
    BY <2>1, Zenon
<1> QED
  BY <1>1, <1>2, <1>3, <1>4, <1>5, ClientsRest

LEMMA ListenerClosesInv ==
  ASSUME ConnectInv, ListenerCloses
  PROVE  ConnectInv'
<1> USE DEF ListenerCloses, netVars
<1>1. Grows /\ OneLive'
  BY DEF Grows, ConnectInv, OneLive, Live, SameKey
<1>2. BacklogKept' /\ ServerTypes'
  BY DEF ConnectInv, BacklogKept, ServerTypes
<1>3. \A p \in answers' : p \in answers \/ (p \in Packets /\ Good(p)')
  <2>1. answers' = answers
    OBVIOUS
  <2> QED
    BY <2>1, Zenon
<1> QED
  BY <1>1, <1>2, <1>3, ClientsRest

LEMMA NextMinuteInv ==
  ASSUME ConnectInv, NextMinute
  PROVE  ConnectInv'
<1> USE DEF NextMinute, netVars
<1>1. Grows /\ OneLive' /\ BacklogKept'
  BY ServerRests
<1>2. ServerTypes'
  BY DEF ConnectInv, ServerTypes, serverVars
<1>3. \A p \in answers' : p \in answers \/ (p \in Packets /\ Good(p)')
  <2>1. answers' = answers
    OBVIOUS
  <2> QED
    BY <2>1, Zenon
<1> QED
  BY <1>1, <1>2, <1>3, ClientsRest

(* Answer(r, -1, s) for the socket of the request, or the refusal.         *)
LEMMA AnswerGood ==
  ASSUME ConnectInv, UNCHANGED clientVars, NEW r \in requests, r.req.isn \in Nat,
         NEW type \in {-1, 1002}, NEW s \in Nat,
         type = -1 => MadeFor(s, r.from, r.req.isn)', type = 1002 => s = 0,
         answers' = answers \cup Answer(r, type, s)
  PROVE  /\ answers' \subseteq Packets
         /\ \A p \in answers' : p \in answers \/ (p \in Packets /\ Good(p)')
<1> DEFINE a == [to |-> r.from, kind |-> "handshake", type |-> type, isn |-> r.req.isn,
                 cookie |-> 0, sock |-> s]
<1>1. r.from \in Clients /\ attempts[r.from] > 0 /\ (attempts[r.from] = 1 => r.req.isn = conReq[r.from].isn)
  BY DEF ConnectInv, ServerTypes, RequestsGood
<1>2. a \in Packets
  BY <1>1 DEF Packets, Kinds, Types
<1>3. answers' = answers \cup {a}
  BY DEF Answer
<1>4. \A p \in answers' : p \in answers \/ (p \in Packets /\ Good(p)')
  <2> SUFFICES ASSUME NEW p \in answers', p \notin answers
               PROVE  p \in Packets /\ Good(p)'
    BY ZenonT(30)
  <2>1. p = a
    BY <1>3
  <2>2. p \in Packets
    BY <2>1, <1>2
  <2>3. attempts' = attempts /\ conReq' = conReq
    BY DEF clientVars
  <2>4. p.to = r.from /\ p.kind = "handshake" /\ p.type = type /\ p.isn = r.req.isn /\ p.sock = s
    BY <2>1
  <2> HIDE DEF a
  <2> QED
    BY <1>1, <2>2, <2>3, <2>4 DEF Good
<1> HIDE DEF a
<1> QED
  BY <1>2, <1>3, <1>4 DEF ConnectInv, ServerTypes

(* What locate finds is a live socket made for this request.               *)
LEMMA LocatedIsLive ==
  ASSUME ConnectInv, NEW r \in requests, SameRequest(r) # {}
  PROVE  /\ Max(SameRequest(r)) \in SameRequest(r)
         /\ \A s, t \in SameRequest(r) : s = t
         /\ \A s \in SameRequest(r) : s \in DOMAIN socks /\ s \in Live /\ MadeFor(s, r.from, r.req.isn)
<1>1. SameRequest(r) \in SUBSET (0 .. Len(socks)) /\ Len(socks) \in Nat
  BY DEF ConnectInv, ServerTypes, SameRequest, Live
<1>2. Max(SameRequest(r)) \in SameRequest(r)
  BY <1>1, MaxOfBounded
<1>3. \A s \in SameRequest(r) : s \in DOMAIN socks /\ s \in Live /\ MadeFor(s, r.from, r.req.isn)
  <2> SUFFICES ASSUME NEW s \in SameRequest(r)
               PROVE  s \in DOMAIN socks /\ s \in Live /\ MadeFor(s, r.from, r.req.isn)
    OBVIOUS
  <2>1. /\ s \in DOMAIN socks /\ s \in Live /\ Key(socks[s].peer, socks[s].isn) = Key(r.from, r.req.isn)
        /\ Address[socks[s].peer] = Address[r.from]
    BY DEF SameRequest, Live
  <2>2. socks[s].isn = r.req.isn /\ SocketID[socks[s].peer] % 4 = SocketID[r.from] % 4
    BY <2>1 DEF Key
  <2> QED
    BY <2>1, <2>2, Zenon DEF MadeFor
<1>4. \A s, t \in SameRequest(r) : s = t
  <2> SUFFICES ASSUME NEW s \in SameRequest(r), NEW t \in SameRequest(r)
               PROVE  s = t
    OBVIOUS
  <2>1. SameKey(s, t)
    BY DEF SameRequest, SameKey
  <2> QED
    BY <1>3, <2>1 DEF ConnectInv, OneLive
<1> QED
  BY <1>2, <1>3, <1>4

LEMMA NewConnectionInv ==
  ASSUME ConnectInv, NEW r \in requests, NewConnection(r)
  PROVE  ConnectInv'
<1> DEFINE found == IF SameRequest(r) = {} THEN {} ELSE {Max(SameRequest(r))}
           left == [s \in DOMAIN socks |-> IF s \in found THEN [socks[s] EXCEPT !.state = "closed"]
                                           ELSE socks[s]]
<1>0. r.from \in Clients /\ r.req \in Requests /\ r.req.isn \in Nat
  BY DEF ConnectInv, ServerTypes, Requests
<1>1. UNCHANGED <<clientVars, expired, requests>> /\ UNCHANGED <<minute, listening>>
  BY DEF NewConnection
<1>2. ASSUME UNCHANGED <<socks, queued, accepted>>,
             \/ answers' = answers \cup Answer(r, 1002, 0)
             \/ Located(r) /\ answers' = answers \cup Answer(r, -1, Max(SameRequest(r)))
      PROVE  ConnectInv'
  <2>1. Grows /\ OneLive' /\ BacklogKept'
    BY <1>1, <1>2, ServerRests, Zenon DEF serverVars
  <2>2. answers' \subseteq Packets /\ \A p \in answers' : p \in answers \/ (p \in Packets /\ Good(p)')
    <3>1. UNCHANGED clientVars
      BY <1>1
    <3>2. CASE answers' = answers \cup Answer(r, 1002, 0)
      BY <1>0, <3>1, <3>2, AnswerGood
    <3>3. CASE Located(r) /\ answers' = answers \cup Answer(r, -1, Max(SameRequest(r)))
      <4>1. Max(SameRequest(r)) \in DOMAIN socks /\ MadeFor(Max(SameRequest(r)), r.from, r.req.isn)
        BY <3>3, LocatedIsLive DEF Located
      <4>2. Max(SameRequest(r)) \in Nat
        BY <4>1 DEF ConnectInv, ServerTypes
      <4> DEFINE m == Max(SameRequest(r))
      <4> HIDE DEF m
      <4>3. MadeFor(m, r.from, r.req.isn) /\ m \in Nat /\ answers' = answers \cup Answer(r, -1, m)
        BY <3>3, <4>1, <4>2 DEF m
      <4>4. PICK k \in Nat : k = m
        BY <4>3
      <4>5. MadeFor(k, r.from, r.req.isn)' /\ answers' = answers \cup Answer(r, -1, k)
        BY <4>3, <4>4, <1>1, <1>2 DEF MadeFor
      <4> QED
        BY <1>0, <3>1, <4>5, AnswerGood
    <3> QED
      BY <1>2, <3>2, <3>3
  <2>3. ServerTypes'
    BY <1>1, <1>2, <2>2 DEF ConnectInv, ServerTypes
  <2> QED
    BY <1>1, <2>1, <2>2, <2>3, ClientsRest
<1>3. ASSUME listening, ~Located(r), accepted' = accepted \ found,
             \/ /\ Cardinality(queued \ found) >= Backlog
                /\ answers' = answers \cup Answer(r, 1002, 0)
                /\ socks' = left /\ queued' = queued \ found
             \/ /\ Cardinality(queued \ found) < Backlog /\ Len(socks) < MaxSockets
                /\ socks' = Append(left, [peer |-> r.from, isn |-> r.req.isn, state |-> "connected"])
                /\ queued' = (queued \ found) \cup {Len(socks) + 1}
                /\ answers' = answers \cup Answer(r, -1, Len(socks) + 1)
      PROVE  ConnectInv'
  <2>1. found \subseteq DOMAIN socks /\ SameRequest(r) \subseteq found
    BY LocatedIsLive
  <2> HIDE DEF found
  <2>2. socks \in Seq(Made) /\ Len(socks) \in Nat /\ DOMAIN socks = 1 .. Len(socks) /\ MaxSockets \in Nat
    BY UdtConnectAssumption DEF ConnectInv, ServerTypes
  <2>3. /\ left \in Seq(Made) /\ Len(left) = Len(socks) /\ DOMAIN left = DOMAIN socks
        /\ \A t \in DOMAIN socks : left[t].peer = socks[t].peer /\ left[t].isn = socks[t].isn
        /\ \A t \in DOMAIN socks : left[t].state = IF t \in found THEN "closed" ELSE socks[t].state
    <3>1. \A t \in DOMAIN socks :
            /\ socks[t] \in Made
            /\ [socks[t] EXCEPT !.state = "closed"] \in Made
            /\ [socks[t] EXCEPT !.state = "closed"].peer = socks[t].peer
            /\ [socks[t] EXCEPT !.state = "closed"].isn = socks[t].isn
            /\ [socks[t] EXCEPT !.state = "closed"].state = "closed"
      <4> TAKE t \in DOMAIN socks
      <4>1. socks[t] \in Made
        BY <2>2
      <4> QED
        BY <4>1 DEF Made
    <3>2. \A t \in DOMAIN socks : left[t] \in Made
      BY <3>1
    <3>3. left \in Seq(Made)
      BY <2>2, <3>2, IsASeq
    <3> QED
      BY <3>1, <3>3, <2>2
  <2> HIDE DEF left
  <2> DEFINE new == [peer |-> r.from, isn |-> r.req.isn, state |-> "connected"]
             grown == Append(left, new)
  <2>4. new \in Made
    BY <1>0 DEF Made
  <2>5. /\ grown \in Seq(Made) /\ Len(grown) = Len(socks) + 1 /\ DOMAIN grown = 1 .. Len(socks) + 1
        /\ \A t \in DOMAIN socks : grown[t] = left[t]
        /\ grown[Len(socks) + 1] = new
    <3> HIDE DEF new
    <3> QED
      BY <2>2, <2>3, <2>4
  <2>6. \/ socks' = left /\ queued' = queued \ found
        \/ socks' = grown /\ queued' = (queued \ found) \cup {Len(socks) + 1}
           /\ Len(socks) < MaxSockets /\ Cardinality(queued \ found) < Backlog
    BY <1>3
  <2> HIDE DEF grown
  <2>7. /\ socks' \in Seq(Made) /\ DOMAIN socks \subseteq DOMAIN socks' /\ Len(socks') <= MaxSockets
        /\ \A t \in DOMAIN socks : socks'[t] = left[t]
        /\ \A t \in DOMAIN socks' : t \notin DOMAIN socks => t = Len(socks) + 1 /\ socks'[t] = new
    BY <2>2, <2>3, <2>5, <2>6 DEF ConnectInv, ServerTypes
  <2>8. Grows
    BY <2>3, <2>7 DEF Grows
  <2>9. OneLive'
    <3> SUFFICES ASSUME NEW s \in DOMAIN socks', NEW t \in DOMAIN socks', s \in Live', t \in Live', SameKey(s, t)'
                 PROVE  s = t
      BY Zenon DEF OneLive
    <3>1. \A u \in DOMAIN socks : u \in Live' => u \in Live /\ u \notin found
      BY <2>3, <2>7 DEF Live
    <3>2. ASSUME NEW u \in DOMAIN socks, u \in Live', NEW v \in DOMAIN socks', v \notin DOMAIN socks, SameKey(u, v)'
          PROVE  FALSE
      <4>1. socks'[v].peer = r.from /\ socks'[v].isn = r.req.isn
        BY <2>7, <3>2
      <4>2. socks'[u].peer = socks[u].peer /\ socks'[u].isn = socks[u].isn
        BY <2>8 DEF Grows
      <4>3. u \in SameRequest(r)
        BY <3>1, <3>2, <4>1, <4>2 DEF SameRequest, SameKey, Live
      <4> QED
        BY <2>1, <3>1, <3>2, <4>3
    <3>3. CASE s \in DOMAIN socks /\ t \in DOMAIN socks
      <4>1. SameKey(s, t)
        BY <2>8, <3>3 DEF SameKey, Grows
      <4> QED
        BY <3>1, <3>3, <4>1 DEF ConnectInv, OneLive
    <3>4. SameKey(t, s)'
      BY DEF SameKey
    <3>5. CASE s \notin DOMAIN socks /\ t \notin DOMAIN socks
      BY <2>7, <3>5
    <3> QED
      BY <3>2, <3>3, <3>4, <3>5
  <2>10. BacklogKept'
    <3>1. IsFiniteSet(queued \ found) /\ Cardinality(queued \ found) \in Nat /\ Cardinality(queued) \in Nat
          /\ Cardinality(queued \ found) <= Cardinality(queued)
      BY QueuedFinite, FS_Subset, FS_CardinalityType, queued \ found \subseteq queued, Zenon
    <3>2. Len(socks) + 1 \notin queued \ found
      BY <2>2 DEF ConnectInv, ServerTypes
    <3>3. Cardinality((queued \ found) \cup {Len(socks) + 1}) = Cardinality(queued \ found) + 1
      BY <3>1, <3>2, FS_AddElement
    <3>4. Cardinality(queued') <= Backlog
      <4>1. Cardinality(queued) <= Backlog /\ Backlog \in Nat
        BY UdtConnectAssumption DEF ConnectInv, BacklogKept
      <4>2. CASE queued' = queued \ found
        BY <3>1, <4>1, <4>2
      <4>3. CASE queued' = (queued \ found) \cup {Len(socks) + 1} /\ Cardinality(queued \ found) < Backlog
        <5>1. Cardinality(queued') = Cardinality(queued \ found) + 1
          BY <3>3, <4>3, Zenon
        <5> QED
          BY <3>1, <4>1, <4>3, <5>1
      <4> QED
        BY <2>6, <4>2, <4>3
    <3>5. \A s \in queued' : socks'[s].state # "closed" /\ s \notin accepted'
      <4>1. \A s \in queued \ found : s \in DOMAIN socks /\ socks'[s].state # "closed" /\ s \notin accepted'
        BY <1>3, <2>3, <2>7 DEF ConnectInv, BacklogKept, ServerTypes
      <4>2. Len(socks) + 1 \notin accepted'
        BY <1>3, <2>2 DEF ConnectInv, ServerTypes
      <4>3. new.state # "closed"
        OBVIOUS
      <4> QED
        BY <4>1, <4>2, <4>3, <2>5, <2>6
    <3> QED
      BY <3>4, <3>5 DEF BacklogKept
  <2>11. answers' \subseteq Packets /\ \A p \in answers' : p \in answers \/ (p \in Packets /\ Good(p)')
    <3>1. UNCHANGED clientVars
      BY <1>1
    <3>2. CASE answers' = answers \cup Answer(r, 1002, 0)
      BY <1>0, <3>1, <3>2, AnswerGood
    <3>3. CASE socks' = grown /\ answers' = answers \cup Answer(r, -1, Len(socks) + 1)
      <4>1. PICK k \in Nat : k = Len(socks) + 1
        BY <2>2
      <4>2. k \in DOMAIN socks' /\ socks'[k] = new
        BY <2>5, <3>3, <4>1, <2>2
      <4>3. MadeFor(k, r.from, r.req.isn)'
        BY <4>2, <1>1 DEF MadeFor
      <4>4. answers' = answers \cup Answer(r, -1, k)
        BY <3>3, <4>1
      <4> QED
        BY <1>0, <3>1, <4>3, <4>4, AnswerGood
    <3> QED
      BY <1>3, <3>2, <3>3 DEF grown
  <2>12. ServerTypes'
    <3>1. queued' \subseteq DOMAIN socks' /\ accepted' \subseteq DOMAIN socks'
      BY <1>3, <2>2, <2>5, <2>6, <2>7 DEF ConnectInv, ServerTypes
    <3> QED
      BY <1>1, <2>7, <2>11, <3>1 DEF ConnectInv, ServerTypes
  <2> QED
    BY <1>1, <2>8, <2>9, <2>10, <2>11, <2>12, ClientsRest
<1> QED
  BY ZenonT(30), <1>2, <1>3 DEF NewConnection

-----------------------------------------------------------------------------
(* The clients.                                                            *)

(* What a step of client c must keep of the others, who see nothing of it. *)
Alone(c) ==
  \A d \in Clients : d # c =>
    /\ app'[d] = app[d] /\ connecting'[d] = connecting[d] /\ connected'[d] = connected[d]
    /\ conReq'[d] = conReq[d] /\ conRes'[d] = conRes[d] /\ entries'[d] = entries[d]
    /\ attempts'[d] = attempts[d] /\ stored'[d] = stored[d] /\ peerOf'[d] = peerOf[d]
    /\ result'[d] = result[d]

OutcomeOf(c) ==
  SynRecving[c] =>
    /\ result[c] = "failed" /\ connected[c] => conRes[c].type = 1002 \/ conRes[c].isn # conReq[c].isn
    /\ result[c] = "ok" /\ ~connected[c] => conRes[c].type = 1

ConnectorsOf(c) == Len(entries[c]) = attempts[c] - (IF connected[c] THEN 1 ELSE 0)

(* A client step keeps the invariant when it keeps the part of its client. *)
LEMMA ClientStep ==
  ASSUME ConnectInv, NEW c \in Clients, ClientTypes', Alone(c), UNCHANGED <<answers, minute, serverVars>>,
         requests' \subseteq [from : Clients, req : Requests],
         attempts[c] > 0 => attempts'[c] >= attempts[c] /\ (attempts'[c] = 1 => conReq'[c].isn = conReq[c].isn),
         \A r \in requests' : r \in requests \/ (attempts'[r.from] > 0 /\ r.req.isn = conReq'[r.from].isn),
         StagesOf(c)', ResponsesOf(c)', OutcomeOf(c)', ConnectorsOf(c)', StoredOf(c)'
  PROVE  ConnectInv'
<1>1. Grows /\ OneLive' /\ BacklogKept' /\ ServerTypes'
  <2>1. UNCHANGED serverVars
    OBVIOUS
  <2>2. ServerTypes'
    BY DEF ConnectInv, ServerTypes, serverVars
  <2> QED
    BY <2>1, <2>2, ServerRests
<1>2. AttemptsGrow
  <2> SUFFICES ASSUME NEW d \in Clients, attempts[d] > 0
               PROVE  attempts'[d] >= attempts[d] /\ (attempts'[d] = 1 => conReq'[d].isn = conReq[d].isn)
    BY DEF AttemptsGrow
  <2>1. attempts[d] \in Nat
    BY DEF ConnectInv, ClientTypes
  <2> QED
    BY <2>1 DEF Alone
<1>3. AnswersGood'
  <2>1. answers' = answers
    OBVIOUS
  <2>2. \A p \in answers' : p \in answers \/ (p \in Packets /\ Good(p)')
    BY <2>1, Zenon
  <2> QED
    BY <1>1, <1>2, <2>2, AnswersKept
<1>4. RequestsGood'
  BY <1>2, RequestsKept
<1>5. ASSUME NEW d \in Clients, d # c
      PROVE  StagesOf(d)' /\ ResponsesOf(d)' /\ OutcomeOf(d)' /\ ConnectorsOf(d)' /\ StoredOf(d)'
  <2> USE DEF Alone
  <2>1. StagesOf(d)' /\ OutcomeOf(d)' /\ ConnectorsOf(d)'
    BY <1>5 DEF ConnectInv, Stages, OutcomeSound, ConnectorsKept, StagesOf, OutcomeOf, ConnectorsOf
  <2>2. ResponsesOf(d)'
    <3>1. ResponsesOf(d) /\ socks' = socks
      BY DEF ConnectInv, Responses, serverVars
    <3> QED
      BY <1>5, <3>1 DEF ResponsesOf, MadeFor
  <2>3. StoredOf(d)'
    <3> SUFFICES ASSUME NEW i \in DOMAIN stored'[d]
                 PROVE  stored'[d][i].to = d /\ Good(stored[d][i])'
      BY DEF StoredOf
    <3>1. stored[d] \in Seq(Packets) /\ stored'[d] = stored[d]
      BY <1>5 DEF ConnectInv, ClientTypes
    <3>2. PICK p \in Packets : p = stored[d][i]
      BY <3>1
    <3>3. p.to = d /\ Good(p)
      BY <3>1, <3>2 DEF ConnectInv, StoredGood, StoredOf
    <3>4. Good(p)'
      BY <1>1, <1>2, <3>3, GoodKept DEF ConnectInv
    <3>5. stored'[d][i] = p
      BY <3>1, <3>2
    <3> QED
      BY <3>3, <3>4, <3>5, Zenon DEF Good, MadeFor
  <2> QED
    BY <2>1, <2>2, <2>3
<1>6. \A d \in Clients : StagesOf(d)' /\ ResponsesOf(d)' /\ OutcomeOf(d)' /\ ConnectorsOf(d)' /\ StoredOf(d)'
  BY <1>5, Zenon
<1>7. Stages' /\ Responses' /\ OutcomeSound' /\ ConnectorsKept' /\ StoredGood'
  <2>1. Stages'
    BY <1>6, Zenon DEF Stages
  <2>2. Responses'
    BY <1>6, Zenon DEF Responses
  <2>3. OutcomeSound'
    BY <1>6, Zenon DEF OutcomeSound, OutcomeOf
  <2>4. ConnectorsKept'
    BY <1>6, Zenon DEF ConnectorsKept, ConnectorsOf
  <2>5. StoredGood'
    BY <1>6, Zenon DEF StoredGood
  <2> QED
    BY <2>1, <2>2, <2>3, <2>4, <2>5
<1> QED
  BY <1>1, <1>3, <1>4, <1>7 DEF ConnectInv

(* The invariant, of one client.                                           *)
LEMMA OfClient ==
  ASSUME ConnectInv, NEW c \in Clients
  PROVE  StagesOf(c) /\ ResponsesOf(c) /\ OutcomeOf(c) /\ ConnectorsOf(c) /\ StoredOf(c)
<1>1. StagesOf(c) /\ OutcomeOf(c) /\ ConnectorsOf(c)
  BY DEF ConnectInv, Stages, OutcomeSound, ConnectorsKept, OutcomeOf, ConnectorsOf
<1>2. ResponsesOf(c)
  BY DEF ConnectInv, Responses
<1>3. StoredOf(c)
  BY DEF ConnectInv, StoredGood
<1> QED
  BY <1>1, <1>2, <1>3

(* What is stored for a client whose attempts and listener stay is good.   *)
LEMMA StoredKept ==
  ASSUME ConnectInv, ClientTypes', NEW c \in Clients, UNCHANGED serverVars,
         \A d \in Clients : attempts[d] > 0 =>
           attempts'[d] >= attempts[d] /\ (attempts'[d] = 1 => conReq'[d].isn = conReq[d].isn),
         \A i \in DOMAIN stored'[c] :
           \/ \E j \in DOMAIN stored[c] : stored'[c][i] = stored[c][j]
           \/ \E p \in answers : p.to = c /\ stored'[c][i] = p
  PROVE  StoredOf(c)'
<1>1. Grows /\ AttemptsGrow
  BY ServerRests DEF AttemptsGrow
<1> SUFFICES ASSUME NEW i \in DOMAIN stored'[c]
             PROVE  stored'[c][i].to = c /\ Good(stored[c][i])'
  BY DEF StoredOf
<1>2. PICK p \in Packets : p = stored'[c][i] /\ p.to = c /\ Good(p)
  <2>1. CASE \E j \in DOMAIN stored[c] : stored'[c][i] = stored[c][j]
    <3>1. PICK j \in DOMAIN stored[c] : stored'[c][i] = stored[c][j]
      BY <2>1
    <3>2. stored[c] \in Seq(Packets) /\ stored[c][j].to = c /\ Good(stored[c][j])
      BY DEF ConnectInv, ClientTypes, StoredGood, StoredOf
    <3>3. stored[c][j] \in Packets
      BY <3>2
    <3> QED
      BY <3>1, <3>2, <3>3
  <2>2. CASE \E p \in answers : p.to = c /\ stored'[c][i] = p
    BY <2>2 DEF ConnectInv, ServerTypes, AnswersGood
  <2> QED
    BY <2>1, <2>2
<1>3. Good(p)'
  BY <1>1, <1>2, GoodKept DEF ConnectInv
<1> QED
  BY <1>2, <1>3, Zenon DEF Good, MadeFor

(* What connect(response) does to client c and the others.                 *)
Responded(c, p) ==
  /\ conReq' \in [Clients -> Requests]
  /\ conRes' \in [Clients -> [type : Types, isn : Nat]]
  /\ connecting' \in [Clients -> BOOLEAN] /\ connected' \in [Clients -> BOOLEAN]
  /\ entries' \in [Clients -> Seq(Nat)] /\ peerOf' \in [Clients -> Nat]
  /\ \A d \in Clients : d # c =>
       /\ connecting'[d] = connecting[d] /\ connected'[d] = connected[d] /\ conReq'[d] = conReq[d]
       /\ conRes'[d] = conRes[d] /\ entries'[d] = entries[d] /\ peerOf'[d] = peerOf[d]
  /\ conReq'[c].isn = conReq[c].isn
  /\ \/ /\ Verdict(c, p) = -1
        /\ conRes'[c] = conRes[c] /\ connected'[c] = connected[c]
        /\ connecting'[c] = connecting[c] /\ peerOf'[c] = peerOf[c]
     \/ /\ Verdict(c, p) = 1 /\ p.type = 1 /\ connecting[c]
        /\ conRes'[c] = [type |-> 1, isn |-> p.isn] /\ connected'[c] = connected[c]
        /\ connecting'[c] = connecting[c] /\ peerOf'[c] = peerOf[c]
     \/ /\ Verdict(c, p) = 0 /\ p.type \in {-1, 1002} /\ connecting[c]
        /\ conRes'[c] = [type |-> p.type, isn |-> p.isn] /\ connected'[c]
        /\ ~connecting'[c] /\ peerOf'[c] = p.sock
        /\ p.type = -1 => MadeFor(p.sock, c, p.isn)'
        /\ attempts[c] = 1 => p.isn = conReq[c].isn
  /\ peerOf'[c] \in 0 .. MaxSockets
  /\ ConnectorsOf(c)'

(* connect(response), called while the client is not connected.            *)
LEMMA Response ==
  ASSUME ConnectInv, NEW c \in Clients, NEW p \in Packets, p.to = c, Good(p), ~connected[c],
         ConnectResponse(c, p), attempts' = attempts, UNCHANGED serverVars
  PROVE  Responded(c, p)
<1>0. /\ conReq \in [Clients -> Requests] /\ conRes \in [Clients -> [type : Types, isn : Nat]]
      /\ connecting \in [Clients -> BOOLEAN] /\ connected \in [Clients -> BOOLEAN]
      /\ entries \in [Clients -> Seq(Nat)] /\ peerOf \in [Clients -> Nat] /\ attempts \in [Clients -> Nat]
  BY DEF ConnectInv, ClientTypes
<1>1. /\ Verdict(c, p) \in {-1, 0, 1}
      /\ Verdict(c, p) = 1 => p.type = 1 /\ connecting[c]
      /\ Verdict(c, p) = 0 => p.type \in {-1, 1002} /\ connecting[c] /\ p.kind = "handshake"
  BY DEF Verdict, Good, Packets, Types, Kinds
<1>2. StagesOf(c) /\ ResponsesOf(c) /\ ConnectorsOf(c)
  BY OfClient
<1>3. /\ p.isn \in Nat /\ p.cookie \in Nat /\ p.sock \in Nat /\ p.type \in Types
      /\ p.type = -1 /\ p.kind = "handshake" => MadeFor(p.sock, c, p.isn)
      /\ p.type # -1 /\ p.kind = "handshake" => p.sock = 0
      /\ p.kind = "handshake" /\ attempts[c] = 1 => p.isn = conReq[c].isn
  BY DEF Packets, Good
<1>4. Len(entries[c]) = attempts[c] /\ entries[c] \in Seq(Nat) /\ attempts[c] \in Nat
  BY <1>0, <1>2 DEF ConnectorsOf
<1>5. /\ entries' \in [Clients -> Seq(Nat)] /\ \A d \in Clients : d # c => entries'[d] = entries[d]
      /\ Verdict(c, p) # 0 => entries'[c] = entries[c]
      /\ Verdict(c, p) = 0 => Len(entries'[c]) = attempts[c] - 1
  <2>1. attempts[c] > 0 => Tail(entries[c]) \in Seq(Nat) /\ Len(Tail(entries[c])) = attempts[c] - 1 /\ entries[c] # <<>>
    BY <1>4
  <2>2. Verdict(c, p) = 0 => attempts[c] > 0
    BY <1>1, <1>2 DEF StagesOf
  <2>3. entries' = [entries EXCEPT ![c] = ConnectorsAfter(c, p)]
    BY DEF ConnectResponse
  <2>4. /\ Verdict(c, p) # 0 => ConnectorsAfter(c, p) = entries[c]
        /\ Verdict(c, p) = 0 => ConnectorsAfter(c, p) = Tail(entries[c])
    BY <2>1, <2>2 DEF ConnectorsAfter
  <2>5. ConnectorsAfter(c, p) \in Seq(Nat)
    <3>1. CASE Verdict(c, p) = 0
      BY <2>1, <2>2, <2>4, <3>1
    <3>2. CASE Verdict(c, p) # 0
      BY <1>4, <2>4, <3>2
    <3> QED
      BY <3>1, <3>2
  <2>6. Verdict(c, p) = 0 => Len(ConnectorsAfter(c, p)) = attempts[c] - 1
    BY <2>1, <2>2, <2>4
  <2> QED
    BY <1>0, <2>3, <2>4, <2>5, <2>6
<1>6. CASE Verdict(c, p) = -1
  <2>1. UNCHANGED <<conRes, conReq, connecting, connected, peerOf>>
    BY <1>6 DEF ConnectResponse
  <2>2. ConnectorsOf(c)'
    BY <1>2, <1>5, <1>6, <2>1 DEF ConnectorsOf
  <2>3. peerOf'[c] \in 0 .. MaxSockets
    BY <1>2, <2>1 DEF ResponsesOf
  <2> QED
    <3>1. \A d \in Clients : d # c =>
            /\ connecting'[d] = connecting[d] /\ connected'[d] = connected[d] /\ conReq'[d] = conReq[d]
            /\ conRes'[d] = conRes[d] /\ entries'[d] = entries[d] /\ peerOf'[d] = peerOf[d]
      BY <1>5, <2>1
    <3>2. /\ conRes'[c] = conRes[c] /\ connected'[c] = connected[c] /\ conReq'[c].isn = conReq[c].isn
          /\ connecting'[c] = connecting[c] /\ peerOf'[c] = peerOf[c]
      BY <2>1
    <3>3. /\ conReq' \in [Clients -> Requests] /\ conRes' \in [Clients -> [type : Types, isn : Nat]]
          /\ connecting' \in [Clients -> BOOLEAN] /\ connected' \in [Clients -> BOOLEAN]
          /\ peerOf' \in [Clients -> Nat]
      BY <1>0, <2>1
    <3> QED
      BY <1>5, <1>6, <2>2, <2>3, <3>1, <3>2, <3>3, Zenon DEF Responded
<1>7. CASE Verdict(c, p) = 1
  <2>1. /\ conRes' = [conRes EXCEPT ![c] = [type |-> 1, isn |-> p.isn]]
        /\ conReq' = [conReq EXCEPT ![c].type = -1, ![c].cookie = p.cookie]
        /\ UNCHANGED <<connecting, connected, peerOf>>
    BY <1>7 DEF ConnectResponse
  <2>2. ConnectorsOf(c)'
    BY <1>2, <1>5, <1>7, <2>1 DEF ConnectorsOf
  <2>3. /\ conReq' \in [Clients -> Requests] /\ conReq'[c].isn = conReq[c].isn
        /\ \A d \in Clients : d # c => conReq'[d] = conReq[d]
    <3>1. conReq \in [Clients -> Requests] /\ p.cookie \in Nat
      BY <1>0, <1>3
    <3>2. conReq' = [conReq EXCEPT ![c].type = -1, ![c].cookie = p.cookie]
      BY <2>1
    <3> QED
      BY ZenonT(30), <3>1, <3>2 DEF Requests
  <2>4. /\ conRes' \in [Clients -> [type : Types, isn : Nat]] /\ conRes'[c] = [type |-> 1, isn |-> p.isn]
        /\ \A d \in Clients : d # c => conRes'[d] = conRes[d]
    BY <1>0, <1>3, <2>1 DEF Types
  <2> QED
    BY <1>0, <1>1, <1>2, <1>5, <1>7, <2>1, <2>2, <2>3, <2>4 DEF ResponsesOf, Responded
<1>8. CASE Verdict(c, p) = 0
  <2>1. /\ conRes' = [conRes EXCEPT ![c] = [type |-> p.type, isn |-> p.isn]]
        /\ connecting' = [connecting EXCEPT ![c] = FALSE]
        /\ connected' = [connected EXCEPT ![c] = TRUE]
        /\ peerOf' = [peerOf EXCEPT ![c] = p.sock]
        /\ UNCHANGED conReq
    BY <1>8 DEF ConnectResponse
  <2>2. ConnectorsOf(c)'
    BY <1>0, <1>5, <1>8, <2>1 DEF ConnectorsOf
  <2>3. conRes' \in [Clients -> [type : Types, isn : Nat]] /\ conRes'[c] = [type |-> p.type, isn |-> p.isn]
        /\ \A d \in Clients : d # c => conRes'[d] = conRes[d]
    BY <1>0, <1>3, <2>1
  <2>4. p.type = -1 => MadeFor(p.sock, c, p.isn)'
    BY <1>1, <1>3, <1>8 DEF MadeFor, serverVars
  <2>5. p.sock \in 0 .. MaxSockets
    <3>1. Len(socks) \in Nat /\ DOMAIN socks = 1 .. Len(socks) /\ Len(socks) <= MaxSockets /\ MaxSockets \in Nat
      BY UdtConnectAssumption DEF ConnectInv, ServerTypes
    <3> QED
      BY <1>1, <1>3, <1>8, <3>1 DEF MadeFor
  <2> QED
    BY <1>0, <1>1, <1>3, <1>5, <1>8, <2>1, <2>2, <2>3, <2>4, <2>5 DEF Responded
<1> QED
  BY <1>1, <1>6, <1>7, <1>8

LEMMA ConnectInvStep ==
  ASSUME ConnectInv, NEW c \in Clients, Connect(c)
  PROVE  ConnectInv'
<1>0. ClientTypes /\ ServerTypes
  BY DEF ConnectInv
<1>1. PICK i \in Isns : conReq' = [conReq EXCEPT ![c].type = 1, ![c].isn = i]
  BY DEF Connect
<1>2. i \in Nat
  BY <1>1, UdtConnectAssumption
<1>3. /\ conReq' \in [Clients -> Requests] /\ conReq'[c].isn = i
      /\ \A d \in Clients : d # c => conReq'[d] = conReq[d]
  <2>1. conReq \in [Clients -> Requests]
    BY <1>0 DEF ClientTypes
  <2> QED
    BY <1>1, <1>2, <2>1 DEF Requests
<1>4. /\ app' = [app EXCEPT ![c] = "starting"] /\ status' = [status EXCEPT ![c] = "CONNECTING"]
      /\ attempts' = [attempts EXCEPT ![c] = @ + 1]
      /\ entries' = [entries EXCEPT ![c] = Append(@, attempts'[c])]
      /\ requests' = requests \cup {[from |-> c, req |-> conReq'[c]]}
      /\ result' = [result EXCEPT ![c] = "none"]
      /\ app[c] = "idle" /\ ~connecting[c] /\ ~connected[c]
      /\ UNCHANGED <<connecting, connected, conRes, expired, stored, peerOf, answers, minute, serverVars>>
  BY DEF Connect, MayConnect, Request
<1>5. /\ attempts' \in [Clients -> Nat] /\ attempts'[c] = attempts[c] + 1 /\ attempts[c] \in Nat
      /\ entries' \in [Clients -> Seq(Nat)] /\ Len(entries'[c]) = Len(entries[c]) + 1
  BY <1>0, <1>4 DEF ClientTypes
<1>6. ClientTypes'
  BY <1>0, <1>3, <1>4, <1>5 DEF ClientTypes
<1>7. Alone(c)
  BY <1>0, <1>3, <1>4 DEF ClientTypes, Alone
<1>8. requests' \subseteq [from : Clients, req : Requests]
  BY <1>0, <1>3, <1>4 DEF ServerTypes
<1>9. \A r \in requests' : r \in requests \/ (attempts'[r.from] > 0 /\ r.req.isn = conReq'[r.from].isn)
  BY <1>4, <1>5
<1>10. StagesOf(c) /\ ResponsesOf(c) /\ ConnectorsOf(c)
  BY OfClient
<1>11. StagesOf(c)'
  BY <1>0, <1>1, <1>3, <1>4, <1>5, <1>10 DEF StagesOf, ClientTypes
<1>12. ResponsesOf(c)'
  BY <1>0, <1>4, <1>10 DEF ResponsesOf, ClientTypes
<1>13. OutcomeOf(c)'
  BY <1>0, <1>4 DEF OutcomeOf, ClientTypes
<1>14. ConnectorsOf(c)'
  BY <1>4, <1>5, <1>10 DEF ConnectorsOf
<1>15. StoredOf(c)'
  <2>1. \A d \in Clients : attempts[d] > 0 =>
           attempts'[d] >= attempts[d] /\ (attempts'[d] = 1 => conReq'[d].isn = conReq[d].isn)
    BY SMTT(30), <1>0, <1>3, <1>4, <1>5 DEF ClientTypes
  <2> QED
    BY <1>4, <1>6, <2>1, StoredKept
<1> QED
  BY <1>4, <1>5, <1>6, <1>7, <1>8, <1>9, <1>11, <1>12, <1>13, <1>14, <1>15, ClientStep

(* Steps that leave what a client asked for and what it knows alone.       *)
LEMMA QuietStep ==
  ASSUME ConnectInv, NEW c \in Clients, ClientTypes', Alone(c),
         UNCHANGED <<connected, conReq, conRes, entries, attempts, stored, peerOf, answers, minute, serverVars>>,
         \A r \in requests' : r \in requests \/ r = [from |-> c, req |-> conReq[c]],
         requests' # requests => attempts[c] > 0,
         connecting'[c] => connecting[c] \/ (app[c] = "starting" /\ app'[c] # "starting"),
         result'[c] = result[c] \/ (result'[c] = "failed" /\ ~connected[c]),
         app'[c] \in {app[c], "idle"} \/ (app[c] = "starting" /\ app'[c] = "waiting" /\ SynRecving[c])
  PROVE  ConnectInv'
<1>0. ClientTypes /\ ServerTypes
  BY DEF ConnectInv
<1>1. StagesOf(c) /\ ResponsesOf(c) /\ ConnectorsOf(c) /\ OutcomeOf(c)
  BY OfClient
<1>2. requests' \subseteq [from : Clients, req : Requests]
  BY <1>0 DEF ServerTypes, ClientTypes
<1>3. \A r \in requests' : r \in requests \/ (attempts'[r.from] > 0 /\ r.req.isn = conReq'[r.from].isn)
  OBVIOUS
<1>4. StagesOf(c)' /\ OutcomeOf(c)' /\ ConnectorsOf(c)'
  BY <1>0, <1>1 DEF StagesOf, OutcomeOf, ConnectorsOf, ClientTypes
<1>5. ResponsesOf(c)'
  BY <1>0, <1>1 DEF ResponsesOf, ClientTypes, MadeFor, serverVars
<1>6. StoredOf(c)' /\ attempts[c] \in Nat
  <2>1. \A d \in Clients : attempts[d] > 0 =>
           attempts'[d] >= attempts[d] /\ (attempts'[d] = 1 => conReq'[d].isn = conReq[d].isn)
    BY <1>0 DEF ClientTypes
  <2> QED
    BY <1>0, <2>1, StoredKept DEF ClientTypes
<1> QED
  BY <1>2, <1>3, <1>4, <1>5, <1>6, ClientStep

LEMMA ConnectStartedInv ==
  ASSUME ConnectInv, NEW c \in Clients, ConnectStarted(c)
  PROVE  ConnectInv'
<1> USE DEF ConnectStarted, netVars
<1>1. ClientTypes'
  BY DEF ConnectInv, ClientTypes
<1>2. Alone(c)
  BY DEF Alone, ConnectInv, ClientTypes
<1>3. app'[c] = "waiting" => SynRecving[c]
  BY DEF ConnectInv, ClientTypes
<1>4. app'[c] \in {"idle", "waiting"} /\ app[c] = "starting"
  BY DEF ConnectInv, ClientTypes
<1> QED
  BY <1>1, <1>2, <1>3, <1>4, QuietStep

LEMMA TimeoutInv ==
  ASSUME ConnectInv, NEW c \in Clients, Timeout(c)
  PROVE  ConnectInv'
<1> USE DEF Timeout, Returned, netVars
<1>1. ClientTypes'
  BY DEF ConnectInv, ClientTypes
<1>2. Alone(c)
  BY DEF Alone, ConnectInv, ClientTypes
<1>3. ~connected[c]
  BY OfClient DEF StagesOf
<1>4. result'[c] = "failed" /\ app'[c] = "idle"
  BY DEF ConnectInv, ClientTypes
<1> QED
  BY <1>1, <1>2, <1>3, <1>4, QuietStep

LEMMA UpdateConnStatusInv ==
  ASSUME ConnectInv, NEW c \in Clients, UpdateConnStatus(c)
  PROVE  ConnectInv'
<1> USE DEF UpdateConnStatus
<1>1. connecting' \in [Clients -> BOOLEAN] /\ (connecting'[c] => connecting[c])
      /\ \A d \in Clients : d # c => connecting'[d] = connecting[d]
  BY DEF ConnectInv, ClientTypes
<1>2. ClientTypes'
  BY <1>1 DEF ConnectInv, ClientTypes
<1>3. Alone(c)
  BY <1>1 DEF Alone
<1>4. attempts[c] > 0
  <2>1. ConnectorsOf(c) /\ entries[c] \in Seq(Nat) /\ entries[c] # <<>> /\ attempts[c] \in Nat
    BY OfClient DEF ConnectInv, ClientTypes
  <2> QED
    BY <2>1 DEF ConnectorsOf
<1> QED
  BY <1>1, <1>2, <1>3, <1>4, QuietStep

LEMMA TimeToLiveInv ==
  ASSUME ConnectInv, NEW c \in Clients, TimeToLive(c)
  PROVE  ConnectInv'
<1> USE DEF TimeToLive, clientVars, netVars
<1>1. ClientTypes'
  BY DEF ConnectInv, ClientTypes
<1>2. Alone(c)
  BY DEF Alone
<1>3. connecting' = connecting /\ app' = app /\ result' = result /\ requests' = requests
  OBVIOUS
<1> QED
  BY <1>1, <1>2, <1>3, QuietStep

LEMMA ReceiveInv ==
  ASSUME ConnectInv, NEW c \in Clients, NEW p \in answers, Receive(c, p)
  PROVE  ConnectInv'
<1>0. ClientTypes /\ ServerTypes
  BY DEF ConnectInv
<1>1. /\ p.to = c /\ ~connected[c] /\ stored[c] \in Seq(Packets) /\ p \in Packets /\ Good(p)
      /\ UNCHANGED <<app, attempts, result, expired, requests, answers, minute, serverVars>>
  BY DEF Receive, netVars, ConnectInv, ClientTypes, ServerTypes, AnswersGood
<1>2. StagesOf(c) /\ ResponsesOf(c) /\ OutcomeOf(c) /\ ConnectorsOf(c)
  BY OfClient
<1>3. ASSUME ClientTypes', Alone(c), StagesOf(c)', ResponsesOf(c)', OutcomeOf(c)', ConnectorsOf(c)',
             \A d \in Clients : conReq'[d].isn = conReq[d].isn,
             \A i \in DOMAIN stored'[c] :
               \/ \E j \in DOMAIN stored[c] : stored'[c][i] = stored[c][j]
               \/ \E q \in answers : q.to = c /\ stored'[c][i] = q
      PROVE  ConnectInv'
  <2>1. \A d \in Clients : attempts[d] > 0 =>
           attempts'[d] >= attempts[d] /\ (attempts'[d] = 1 => conReq'[d].isn = conReq[d].isn)
    <3> TAKE d \in Clients
    <3>1. attempts[d] \in Nat /\ attempts' = attempts
      BY <1>0, <1>1 DEF ClientTypes
    <3> QED
      BY <1>3, <3>1
  <2>2. StoredOf(c)'
    BY <1>1, <1>3, <2>1, StoredKept
  <2>3. requests' \subseteq [from : Clients, req : Requests]
        /\ \A r \in requests' : r \in requests \/ (attempts'[r.from] > 0 /\ r.req.isn = conReq'[r.from].isn)
    BY <1>0, <1>1 DEF ServerTypes
  <2> QED
    BY <1>1, <1>3, <2>1, <2>2, <2>3, ClientStep
<1>4. CASE /\ ~SynRecving[c] /\ ConnectResponse(c, p)
           /\ stored' = [stored EXCEPT ![c] = StoredAfter(c, @, p)]
           /\ status' = [status EXCEPT ![c] = StatusAfter(c, p)]
  <2>1. Responded(c, p)
    BY <1>1, <1>4, Response
  <2>2. StoredAfter(c, stored[c], p) \in Seq(Packets) /\ StatusAfter(c, p) \in {"OPENED", "CONNECTING", "CONNECTED"}
    BY <1>0, <1>1 DEF StoredAfter, StatusAfter, ClientTypes
  <2>3. ClientTypes'
    BY ZenonT(30), <1>0, <1>1, <1>4, <2>1, <2>2 DEF ClientTypes, Responded
  <2>4. Alone(c)
    BY <1>0, <1>1, <1>4, <2>1 DEF ClientTypes, Alone, Responded
  <2>5. StagesOf(c)' /\ OutcomeOf(c)' /\ ConnectorsOf(c)'
    <3>1. StagesOf(c)'
      <4>1. /\ connecting'[c] => connecting[c] /\ ~connected'[c]
            /\ connected'[c] => connecting[c]
            /\ conReq'[c].isn = conReq[c].isn
        BY <1>1, <1>2, <2>1 DEF StagesOf, Responded
      <4> QED
        BY <1>1, <1>2, <1>4, <4>1 DEF StagesOf
    <3>2. OutcomeOf(c)'
      BY <1>4 DEF OutcomeOf
    <3>3. ConnectorsOf(c)'
      BY <2>1 DEF Responded
    <3> QED
      BY <3>1, <3>2, <3>3
  <2>6. ResponsesOf(c)'
    BY <1>1, <1>2, <1>4, <2>1 DEF ResponsesOf, MadeFor, serverVars, Responded
  <2>7. \A i \in DOMAIN stored'[c] :
               \/ \E j \in DOMAIN stored[c] : stored'[c][i] = stored[c][j]
               \/ \E q \in answers : q.to = c /\ stored'[c][i] = q
    BY <1>0, <1>4 DEF ClientTypes, StoredAfter
  <2>8. \A d \in Clients : conReq'[d].isn = conReq[d].isn
    <3> TAKE d \in Clients
    <3> QED
      BY ZenonT(30), <2>1 DEF Responded
  <2> QED
    BY <1>3, <2>1, <2>3, <2>4, <2>5, <2>6, <2>7, <2>8
<1>5. CASE /\ SynRecving[c] /\ Len(stored[c]) < StoreMax
           /\ stored' = [stored EXCEPT ![c] = Append(@, p)]
           /\ UNCHANGED <<status, conRes, conReq, connecting, connected, entries, peerOf>>
  <2>1. stored'[c] = Append(stored[c], p) /\ stored'[c] \in Seq(Packets)
    BY <1>0, <1>1, <1>5 DEF ClientTypes
  <2>2. ClientTypes'
    BY <1>0, <1>1, <1>5, <2>1 DEF ClientTypes
  <2>3. Alone(c)
    BY <1>0, <1>1, <1>5 DEF ClientTypes, Alone
  <2>4. StagesOf(c)' /\ ConnectorsOf(c)' /\ OutcomeOf(c)'
    BY <1>1, <1>2, <1>5 DEF StagesOf, ConnectorsOf, OutcomeOf
  <2>5. ResponsesOf(c)'
    BY <1>1, <1>2, <1>5 DEF ResponsesOf, MadeFor, serverVars
  <2>6. \A i \in DOMAIN stored'[c] :
               \/ \E j \in DOMAIN stored[c] : stored'[c][i] = stored[c][j]
               \/ \E q \in answers : q.to = c /\ stored'[c][i] = q
    BY <1>1, <2>1
  <2> QED
    BY <1>3, <1>5, <2>2, <2>3, <2>4, <2>5, <2>6
<1> QED
  BY <1>4, <1>5 DEF Receive

LEMMA TakeStoredInv ==
  ASSUME ConnectInv, NEW c \in Clients, TakeStored(c)
  PROVE  ConnectInv'
<1>0. ClientTypes /\ ServerTypes
  BY DEF ConnectInv
<1>1. /\ app[c] = "waiting" /\ stored[c] # <<>> /\ stored[c] \in Seq(Packets)
      /\ UNCHANGED <<attempts, expired, requests, answers, minute, serverVars>>
  BY <1>0 DEF TakeStored, netVars, ClientTypes
<1>2. StagesOf(c) /\ ResponsesOf(c) /\ OutcomeOf(c) /\ ConnectorsOf(c) /\ StoredOf(c)
  BY OfClient
<1>3. PICK p \in Packets : p = Head(stored[c]) /\ p.to = c /\ Good(p)
  <2>1. 1 \in DOMAIN stored[c] /\ Head(stored[c]) = stored[c][1] /\ stored[c][1] \in Packets
    BY <1>1
  <2> QED
    BY <1>2, <2>1 DEF StoredOf
<1>4. /\ ConnectResponse(c, p)
      /\ stored' = [stored EXCEPT ![c] = StoredAfter(c, Tail(@), p)]
      /\ \/ Verdict(c, p) <= 0 /\ Returned(c, Outcome(c), StatusAfter(c, p))
         \/ Verdict(c, p) = 1 /\ expired[c] = attempts[c] /\ Returned(c, "failed", "OPENED")
         \/ Verdict(c, p) = 1 /\ expired[c] < attempts[c] /\ UNCHANGED <<app, result, status>>
  BY <1>3 DEF TakeStored
<1>5. ~connected[c] /\ SynRecving[c] /\ conReq[c].isn \in Isns /\ conReq[c].isn # 0 /\ attempts[c] > 0
  BY <1>1, <1>2, UdtConnectAssumption DEF StagesOf
<1>6. Responded(c, p)
  BY <1>1, <1>3, <1>4, <1>5, Response
\* What connect returns, if it returns.
<1>7. /\ app' \in [Clients -> {"idle", "starting", "waiting"}]
      /\ status' \in [Clients -> {"OPENED", "CONNECTING", "CONNECTED"}]
      /\ result' \in [Clients -> {"none", "ok", "failed"}]
      /\ \A d \in Clients : d # c => app'[d] = app[d] /\ result'[d] = result[d]
      /\ \/ app'[c] = "idle" /\ Verdict(c, p) <= 0 /\ result'[c] = Outcome(c)
         \/ app'[c] = "idle" /\ Verdict(c, p) = 1 /\ result'[c] = "failed"
         \/ Verdict(c, p) = 1 /\ app'[c] = app[c] /\ result'[c] = result[c]
  <2>1. StatusAfter(c, p) \in {"OPENED", "CONNECTING", "CONNECTED"} /\ Outcome(c) \in {"ok", "failed"}
    BY <1>0 DEF StatusAfter, Outcome, ClientTypes
  <2>2. ASSUME NEW r \in {"ok", "failed"}, NEW s \in {"OPENED", "CONNECTING", "CONNECTED"}, Returned(c, r, s)
        PROVE  /\ app' \in [Clients -> {"idle", "starting", "waiting"}]
               /\ status' \in [Clients -> {"OPENED", "CONNECTING", "CONNECTED"}]
               /\ result' \in [Clients -> {"none", "ok", "failed"}]
               /\ \A d \in Clients : d # c => app'[d] = app[d] /\ result'[d] = result[d]
               /\ app'[c] = "idle" /\ result'[c] = r
    BY <1>0, <2>2 DEF Returned, ClientTypes
  <2>3. CASE Verdict(c, p) <= 0 /\ Returned(c, Outcome(c), StatusAfter(c, p))
    <3>1. PICK r \in {"ok", "failed"}, s \in {"OPENED", "CONNECTING", "CONNECTED"} : r = Outcome(c) /\ s = StatusAfter(c, p)
      BY <2>1
    <3>2. Returned(c, r, s)
      BY <2>3, <3>1
    <3> QED
      BY <2>2, <2>3, <3>1, <3>2
  <2>4. CASE Verdict(c, p) = 1 /\ Returned(c, "failed", "OPENED")
    BY <2>2, <2>4
  <2>5. CASE Verdict(c, p) = 1 /\ UNCHANGED <<app, result, status>>
    BY <1>0, <2>5 DEF ClientTypes
  <2> QED
    BY <1>4, <2>3, <2>4, <2>5
<1>8. StoredAfter(c, Tail(stored[c]), p) \in Seq(Packets)
  BY <1>1 DEF StoredAfter
<1>9. stored' \in [Clients -> Seq(Packets)] /\ stored'[c] = StoredAfter(c, Tail(stored[c]), p)
      /\ \A d \in Clients : d # c => stored'[d] = stored[d]
  BY <1>0, <1>4, <1>8 DEF ClientTypes
<1>10. ClientTypes'
  BY <1>0, <1>1, <1>6, <1>7, <1>9 DEF ClientTypes, Responded
<1>11. Alone(c)
  BY <1>1, <1>6, <1>7, <1>9 DEF Alone, Responded
<1>12. StagesOf(c)'
  BY <1>1, <1>2, <1>5, <1>6, <1>7 DEF StagesOf, Responded
<1>13. OutcomeOf(c)'
  BY <1>2, <1>5, <1>6, <1>7 DEF Responded, OutcomeOf, ResponsesOf, Outcome
<1>14. ResponsesOf(c)'
  BY <1>1, <1>2, <1>5, <1>6, <1>7 DEF Responded, ResponsesOf, MadeFor, serverVars, Outcome
<1>15. \A d \in Clients : attempts[d] > 0 =>
         attempts'[d] >= attempts[d] /\ (attempts'[d] = 1 => conReq'[d].isn = conReq[d].isn)
  <2> TAKE d \in Clients
  <2>1. attempts[d] \in Nat /\ attempts' = attempts
    BY <1>0, <1>1 DEF ClientTypes
  <2>2. conReq'[d].isn = conReq[d].isn
    BY ZenonT(30), <1>6 DEF Responded
  <2> QED
    BY <2>1, <2>2
<1>16. StoredOf(c)'
  <2>1. \A i \in DOMAIN Tail(stored[c]) : i + 1 \in DOMAIN stored[c] /\ Tail(stored[c])[i] = stored[c][i + 1]
    BY <1>1
  <2>2. \A i \in DOMAIN stored'[c] : \E j \in DOMAIN stored[c] : stored'[c][i] = stored[c][j]
    BY <1>9, <2>1 DEF StoredAfter
  <2> QED
    BY <1>1, <1>10, <1>15, <2>2, StoredKept
<1>17. requests' \subseteq [from : Clients, req : Requests]
       /\ \A r \in requests' : r \in requests \/ (attempts'[r.from] > 0 /\ r.req.isn = conReq'[r.from].isn)
  BY <1>0, <1>1 DEF ServerTypes
<1> QED
  BY ZenonT(30), <1>1, <1>6, <1>10, <1>11, <1>12, <1>13, <1>14, <1>15, <1>16, <1>17, ClientStep DEF Responded

-----------------------------------------------------------------------------
(* The theorems.                                                           *)

LEMMA InitConnect == UdtConnectInit => ConnectInv
<1> SUFFICES ASSUME UdtConnectInit
             PROVE  ConnectInv
  OBVIOUS
<1> USE DEF UdtConnectInit
<1>1. ClientTypes
  BY DEF ClientTypes, Requests, Types
<1>2. ServerTypes
  BY UdtConnectAssumption DEF ServerTypes
<1>3. OneLive /\ RequestsGood /\ AnswersGood /\ StoredGood
  BY DEF OneLive, RequestsGood, AnswersGood, StoredGood, StoredOf
<1>4. Stages /\ Responses
  BY UdtConnectAssumption DEF Stages, StagesOf, Responses, ResponsesOf
<1>5. BacklogKept
  BY FS_EmptySet, UdtConnectAssumption DEF BacklogKept
<1>6. ConnectorsKept /\ OutcomeSound
  BY DEF ConnectorsKept, OutcomeSound
<1> QED
  BY <1>1, <1>2, <1>3, <1>4, <1>5, <1>6 DEF ConnectInv

LEMMA NextConnect == ConnectInv /\ [UdtConnectNext]_udtConnectVars => ConnectInv'
<1> SUFFICES ASSUME ConnectInv, [UdtConnectNext]_udtConnectVars
             PROVE  ConnectInv'
  OBVIOUS
<1>1. CASE UNCHANGED udtConnectVars
  <2>1. UNCHANGED <<clientVars, expired, requests>> /\ UNCHANGED serverVars /\ minute' = minute /\ answers' = answers
    BY <1>1 DEF udtConnectVars, netVars
  <2>2. ServerTypes'
    BY <2>1 DEF ConnectInv, ServerTypes, serverVars
  <2>3. \A p \in answers' : p \in answers \/ (p \in Packets /\ Good(p)')
    BY <2>1, Zenon
  <2> QED
    BY <2>1, <2>2, <2>3, ServerRests, ClientsRest
<1>2. CASE UdtConnectNext
  BY <1>2, ConnectInvStep, ConnectStartedInv, TakeStoredInv, TimeoutInv, UpdateConnStatusInv, TimeToLiveInv,
     ReceiveInv, ListenCookieInv, NewConnectionInv, ServerSendsInv, ServerBreaksInv, ServerClosesInv,
     AcceptInv, ListenerClosesInv, NextMinuteInv, Zenon DEF UdtConnectNext
<1> QED
  BY <1>1, <1>2

THEOREM AlwaysConnectInv == UdtConnectSpec => []ConnectInv
  BY InitConnect, NextConnect, PTL DEF UdtConnectSpec

(* The sockets match: as no two live sockets have one key, no request has  *)
(* two; the answer a client has taken names a socket made for its key.     *)
LEMMA InvMatch == ConnectInv => SocketsMatch
<1> SUFFICES ASSUME ConnectInv
             PROVE  SocketsMatch
  OBVIOUS
<1>1. UdtConnectTypeOK
  <2>1. \A c \in Clients : peerOf[c] \in 0 .. MaxSockets
    BY OfClient DEF ResponsesOf
  <2> QED
    BY <2>1 DEF ConnectInv, ClientTypes, ServerTypes, UdtConnectTypeOK
<1>2. OneSocketEach
  BY DEF ConnectInv, OneLive, SameKey, Key, Live, OneSocketEach
<1>3. PeersMatch
  <2> SUFFICES ASSUME NEW c \in Clients, connected[c], conRes[c].type = -1
               PROVE  /\ peerOf[c] \in DOMAIN socks
                      /\ \/ socks[peerOf[c]].isn = conReq[c].isn
                         \/ attempts[c] > 1 /\ (SynRecving[c] => result[c] # "ok")
                      /\ \/ socks[peerOf[c]].peer = c
                         \/ /\ Address[socks[peerOf[c]].peer] = Address[c]
                            /\ SocketID[socks[peerOf[c]].peer] % 4 = SocketID[c] % 4
    BY DEF PeersMatch
  <2>1. ResponsesOf(c) /\ StagesOf(c) /\ attempts[c] \in Nat
    BY OfClient DEF ConnectInv, ClientTypes
  <2>2. attempts[c] = 1 \/ attempts[c] > 1
    BY <2>1 DEF StagesOf
  <2> QED
    BY <2>1, <2>2 DEF ResponsesOf, MadeFor
<1> QED
  BY <1>1, <1>2, <1>3 DEF SocketsMatch

(* Whatever is lost, repeated, delayed or answered late, the listener makes *)
(* one socket of a request for as long as it lives, and the client that is *)
(* not refused is connected to one made for its request (newConnection).   *)
THEOREM ConnectSocketsMatch == UdtConnectSpec => []SocketsMatch
  BY AlwaysConnectInv, InvMatch, PTL

(* The queue of the listener keeps to its backlog and holds no socket that *)
(* was closed or accepted (newConnection, accept).                         *)
THEOREM ConnectBacklogKept == UdtConnectSpec => []BacklogKept
<1>1. ConnectInv => BacklogKept
  BY DEF ConnectInv
<1> QED
  BY <1>1, AlwaysConnectInv, PTL

(* No connector is lost: every attempt that has not connected the socket   *)
(* leaves its own behind (registerConnector, removeConnector).             *)
THEOREM ConnectConnectorsKept == UdtConnectSpec => []ConnectorsKept
<1>1. ConnectInv => ConnectorsKept
  BY DEF ConnectInv
<1> QED
  BY <1>1, AlwaysConnectInv, PTL

(* What a connect that waits returns agrees with the state of the socket,  *)
(* up to the exceptions OutcomeSound names (CUDT::connect).                *)
THEOREM ConnectOutcomeSound == UdtConnectSpec => []OutcomeSound
<1>1. ConnectInv => OutcomeSound
  BY DEF ConnectInv
<1> QED
  BY <1>1, AlwaysConnectInv, PTL
=============================================================================
