# Formal model of UDT with epoll

TLA+ modules, TLC configurations and TLAPS proofs for this repository: the UDT
library (`udt4/src`, version 4.10 with the patched epoll) and the echo server built
on it (`server_udt`). Line numbers refer to the files under `src/`; file names
without a directory are in `udt4/src/src`. `PROJECT.json` ("map") gives the lines
every definition stands for.

## 1. The system

| Component | State | Operations | Interacts with |
|---|---|---|---|
| `CEPoll` (epoll.cpp) | table of descriptors, each with watched and ready sets | create, release, add/remove_usock, wait, enable/disable_read/write | called by CUDT and CUDTUnited under `m_EPollLock` |
| `CUDT`, readiness (core.cpp) | `m_sPollID`, flags `m_bConnected/Broken/Closing/Opened`, linger timer | addEPoll, removeEPoll, send(msg), recv(msg), close, ACK and timer handlers | application threads, receive-queue thread, garbage collector |
| `CUDT`, calls that wait | `m_SendLock`, `m_RecvLock`, two conditions with their locks, `m_bPeerHealth` | send, sendmsg, sendfile, recv, recvmsg, recvfile, releaseSynch, close | ACKs in and out, shutdown, expiry |
| `CUDT`, transfer | `m_iSndLastAck`, `m_iSndLastDataAck`, `m_iSndCurrSeqNo`, window; `m_iRcvLastAck`, `m_iRcvLastAckAck`, `m_iRcvCurrSeqNo` | packData, processData, processCtrl, sendCtrl, checkTimers | both queues' threads, the peer through UDP |
| `CUDT`, set-up | `m_ConnReq`, `m_ConnRes`, `m_bConnecting` | connect, listen, their handlers | `CUDTUnited`, `CRcvQueue` |
| `CUDT`, options | MSS, flight window, buffer sizes | setOpt, open, the handshake's sizes | the peer, the buffers |
| buffers (buffer.cpp) | linked blocks; ring of units | addBuffer, readData, ackData; addData, readBuffer, readMsg, scanMsg, dropMsg | CUDT; `CUnitQueue` |
| loss lists, windows (list.cpp, window.cpp) | circular arrays | insert, remove, getLostSeq; store, acknowledge; rates | CUDT |
| `CUDTUnited` (api.cpp) | `m_Sockets`, `m_ClosedSockets`, `m_mMultiplexer`, `m_ControlLock` | newSocket, newConnection, accept, close, checkBrokenSockets, removeSocket, updateMux | all of the above |
| queues (queue.cpp) | heap of sockets to send, list of sockets to receive, hash table, connectors, stored packets, unit pool | insert, update, pop; worker threads | CUDT, channel |
| congestion control, pace (ccc.cpp, packData) | period, window, averages; `m_ullTargetTime`, the time on the heap of `CSndUList` | onACK, onLoss, onTimeout; pop, packData, update | CUDT |
| cache (cache.h, cache.cpp) | LRU list and hash table of link statistics | lookup, update | connect, close |
| `server_udt` | write-event set, message queues per socket | epoll loop, accept, echo | the UDT API |
| channel, packets, MD5, timers; clients, samples | | | |

Three kinds of thread matter: the application's, one sending and one receiving
thread per multiplexer, and the garbage collector. What is hard is what happens
between their lock regions, and what a network that loses, reorders and repeats
does to the two ends of a connection. `PROJECT.json` ("hazards") lists the
places.

Per component, correctness means:
 - epoll: only watched sockets are reported; data or room is reported as long as
   it is there; a socket that is gone is watched by nobody.
 - calls that wait: whoever waits is woken by what he waits for and by the end of
   the connection; nothing is written to a socket that is closed.
 - set-up: both ends agree on whom they are connected to; a request that comes
   again makes no second socket; a failed connect leaves nothing behind.
 - life cycle: a closed or broken socket is eventually destroyed, not before
   everybody has let go of it; a connection that is announced can be accepted;
   queues live as long as the sockets that share them.
 - transfer: every block is delivered once and in order; nothing is forgotten
   before it has arrived; a lossy network delays but does not stop the transfer.
 - data structures: they equal the sets and sequences they stand for.
 - options, rates: what the two ends agree on fits the buffers of both; the rate
   falls no faster than intended and averages never stick at zero.
 - server: what is received is echoed, whatever order events are signalled in.

## 2. Modules

| Module | Contents |
|---|---|
| `CEPoll` | the epoll table: one operator per function of the class, and the table's own specification `EpollSpec` |
| `UdtEpoll` | EXTENDS CEPoll: threads, calls and handlers that change the readiness of sockets |
| `UdtEpollProofs` | theorems about the two |
| `ReliableChannel` | abstract specification: a bounded, ordered, exactly-once channel |
| `UdtTransfer` | the two ends of a connection and the network between them; implements `ReliableChannel` |
| `UdtTransferProofs` | theorems about UdtTransfer: types, numbers, ACK counters, losses, also when messages expire; without times to live, UdtTransfer implements ReliableChannel |
| `UdtConnect`, `UdtConnectProofs` | clients, network and listener while connections are set up; theorems |
| `UdtSockets`, `UdtSocketsProofs` | accept, newConnection, close and the collector, lock by lock; theorems |
| `UdtServer`, `UdtServerProofs` | EXTENDS CEPoll: the echo server's loop over the library; theorems |
| `BlockingCalls` | the calls that wait, what wakes them, and close; recvfrom and storePkt |
| `RcvQueue` | the tables of the receive queue and its thread |
| `SndQueue` | the heap of sockets to send, its thread, the sleep between packets |
| `UdtMux` | sockets and the multiplexers they share, call by call |
| `SockOptions` | options of both ends and the sizes they agree on |
| `RateControl` | CUDTCC, and packData's pace |
| `SeqNo`, `LossLists` | sequence numbers that wrap; the two loss lists |
| `RcvBuffer`, `SndBuffer` | the two buffers |
| `Windows`, `Cache`, `UnitPool` | ACK window and arrival times; link statistics; units |
| `MCParts` | the modules from BlockingCalls on, each as one of the behaviours of a run |
| `PartsProofs` | theorems about BlockingCalls, the threads of SndQueue, UdtMux, SockOptions and RateControl, as parts of MCParts; what BuffersProofs makes of MCParts |
| `TablesProofs` | theorems about the data structures: UnitPool, Windows, Cache, RcvQueue and the heap of SndQueue, as parts of MCParts |
| `BuffersProofs` | numbers and loops, and the lemmas about SndBuffer and RcvBuffer up to their invariants |
| `MCUdtEpoll`, `MCUdtTransfer`, `MCUdtConnect`, `MCUdtServer` | what TLC needs to instantiate the others |

Readiness comes first (it is what this fork patches), then the transfer, then the
set-up and the life of sockets, then the structures all of them rest on.
`UdtEpoll` and `UdtServer` share the epoll table; `UdtTransfer` uses sets where
`LossLists`, `RcvBuffer` and `SndBuffer` show that the code's structures are those
sets; `UdtServer` assumes of the library the announcements `UdtEpoll` makes and
the ACKs run `delivery` shows to arrive.

### UdtEpoll

State: `pollID` is `m_sPollID`; `connected`, `broken`, `closing`, `opened`,
`lingering` are the sets of sockets whose flag is set; `acked` and `early` count
the messages that `readMsg` can return, acknowledged or (unordered) not;
`sndUsed` is `getCurrBufSize()`; `status` is `m_Status` plus "destroyed"; `call`
holds what each thread is doing. Each function of the code is a chain of actions
cut where one lock is released before the next is taken:

| Code | Actions |
|---|---|
| `epoll_add_usock`, `addEPoll` | EpollAddUsock, AddToPoll, AddPollID, AddCheckRead, AddEnableRead, AddCheckWrite, AddEnableWrite |
| `epoll_remove_usock`, `removeEPoll` | EpollRemoveUsock, RemovePollID, RemoveDisableRead, RemoveDisableWrite, RemoveFromPoll |
| `recvmsg` | Recvmsg, ReadMsg, ReadCheck, ReadDisable |
| `sendmsg` | Sendmsg, SendAddBuffer, SendCheck, SendDisable |
| `close` (both classes) | Close, CloseLock, CloseLinger, CloseRemoveUsock, CloseFlags, CloseWait, CloseDone |
| `checkBrokenSockets`, `removeSocket` | GcWaitForReader, GcCloseBroken, GcEndLinger, GcRemoveSocket, then the close chain in thread `GC` |
| receive-queue thread | ProcessAck, AckEnableWrite, SendAck, AckEnableRead, TimersDone, CompleteEarly, PeerShutdown, InvalidControl, PeerSilent, ExpEnableRead, ExpEnableWrite, DropFromList |

Abstractions: sockets are connected SOCK_DGRAM sockets in non-blocking mode, as
the server and clients here use them; data are counts of messages and blocks; the
arrival of packets is a free choice of the environment (`UdtTransfer` says which
packets arrive). The second the collector waits before it deletes a socket is
modelled by its purpose: no call on the socket is in progress. Linger time may
have run out at any look. `lostR` and `lostW` are auxiliary: they record that
`disable_read` or `disable_write` ran while data or room was there. CloseFlags sets
`m_bClosing` and clears `m_bConnected` in one step, where close does so at core.cpp:973
and 1004: both flags end a call at its next look, and the readiness of the socket is
removed before either.

### UdtTransfer

Blocks are numbered in the order of `addBuffer`; sequence numbers start at 1. The
sender's list of blocks is the four counters `firstBlock`, `currBlock`,
`lastBlock`, `count`; the receive buffer is the set of pairs in its slots, slot
numbers taken modulo `m_iSize` as the code does. `msgs` holds the boundaries and
the time-to-live flag of datagram messages.

| Code | Actions |
|---|---|
| `sendmsg`, `send` | Sendmsg |
| `CSndUList::pop`, `packData` | PackPopLoss (getLostSeq), then PackStale, PackRetransmit or PackExpired under `m_AckLock`; PackNew; PackNothing |
| `processCtrl` at the sender | LiteAck; Ack, AckWindow, AckFree, AckResume; Nak |
| `checkTimers` | Exp (sender); SendAck, SendLiteAck (receiver) |
| `processData`, `processCtrl` at the receiver | Data, Ack2, Drop |
| `readBuffer`; `readMsg` and `scanMsg` | Recv; Recvmsg |
| UDP | Lose; `Left` (repetition) |

Abstractions: an ACK2 carries the sequence number its ACK was stored under (the
receiver's look-up in `CACKWindow` returns that or nothing, and nothing is the
same as losing the ACK2); the congestion window is a constant; a message always
has the in-order flag, so `readMsg` never passes the acknowledged part, and
`dropMsg`, which compares a bare message number with the whole header field, never
finds one. A full ACK is processed in four steps, between which the peer and the other
threads of the sender run: the ACK2 goes out (or not, when the last one is less than a
SYN interval old) before anything is examined (Ack); then the ACK is validated and the
window set, without a lock (AckWindow); the blocks are freed and `m_iSndLastDataAck`
advances under `m_AckLock` (AckFree); at last the socket goes back on the list of the
send queue (AckResume). `acking` says how far the receive-queue thread is; it handles
nothing else meanwhile (`Idle`). So `m_iRcvLastAckAck` may be ahead of
`m_iSndLastDataAck` for a while; AckOrder says that it is so only for the ACK that is
in process. `m_iFlowWindowSize` and `m_iSndLastAck` change in one
step of AckWindow although packData may run between the two assignments; the order of
the assignments makes the window it sees smaller or as large as the new one allows.
`Lengths` are the lengths of messages in blocks; `LiteAcks` says at which numbers the
packet count reaches `m_iSelfClockInterval` (64 packets in the code). Messages are
shorter than the receive buffer. Where the code reads a block beyond
the last one (only after the defect that `MCUdtTransfer_ttl.cfg` shows), the model sends "no block" or
expires it.

### UdtConnect

A client is an application (`app`), the flags and handshakes of its CUDT, its
entries in the list of connectors and the packets stored for it; the server is its
listener, the sockets `newConnection` has made (in order, with the client's ID,
first sequence number and state) and the two sets of queued and accepted ones.
Requests and answers are sets: a packet, once sent, can arrive at any later time,
again, or never.

| Code | Actions |
|---|---|
| `connect` (both classes) | Connect, ConnectStarted; TakeStored, Timeout while it waits |
| `CRcvQueue::worker`, `CUDT::connect(const CPacket&)` | Receive |
| `updateConnStatus` | UpdateConnStatus, TimeToLive |
| `listen(sockaddr*, CPacket&)` | ListenCookie, NewConnection, NextMinute (cookies) |
| `newConnection`, `accept` | NewConnection, Accept |
| the server's sockets and listener end | ServerSends, ServerBreaks, ServerClosesQueued, ServerCloses, ListenerCloses |

The key of `m_PeerRec` is 30 bits of the ID and the first sequence number; here
two bits of the ID, and the two clients have the same. Cookies change with the
minute; the digest is injective. Rendezvous and the version and type fields are
left out.

### UdtSockets

One listener and the sockets made for it. Each action is one lock region of
api.cpp, in the thread named; `control` is `m_ControlLock` while the collector
joins a thread with it held.

| Code | Actions |
|---|---|
| `newConnection`, receive-queue thread | Handshake, NewLocate, NewRepeated, NewBacklog, NewMux, NewConnect, NewRegister, NewEnqueue, NewEnable, NewSignal |
| `accept` | AcceptCall, AcceptLoop, AcceptWoken, AcceptReturn |
| `close` | Close, CloseMove; CloseListener, Broadcast |
| collector | CheckBroken, RemoveSocket, Join, Collected; Age is the passing of the second |
| receive-queue thread | Break, Drop (off its list) |

### UdtServer

The server's thread waits, reads and sends; the library is the table of `CEPoll`
and three threads that change it: Announce (what was acknowledged or broken is
announced afterwards, one socket at a time), Collect and Destroy. A call is cut
where it looks first and signals later, so `muted` records, as `lostR` does in
`UdtEpoll`, who has lost a signal to that.

| Code | Actions |
|---|---|
| `UDTServer::Run` | Wait, HandleListener, HandleRead, DropReader, TurnOver |
| `SendMsgCtrl`, `SendMsgBuf` | AddMsgToSendBuf, StartSending, NothingToSend, SendRefused, SendAccepted, SendOverfull, SendFailed |
| the calls `epoll_add_usock`, `recvmsg`, `sendmsg` | AddToPoll, AddCheck, Recvmsg, RecvDisable, SendDisable |
| the client and the network | Connect, Arrive, Ack, PeerShutdown, PeerSilent |

### BlockingCalls

One thread that sends, one that receives, the receive-queue thread and one that
closes, with room and data as counts. A test and the wait it leads to are one step,
because the lock of the condition is held.

| Code | Actions |
|---|---|
| `send`, `sendmsg`, `sendfile` | SndEnter, SndLock, SndTest, SndTimeout, SndCheck, SendData, SendMessage, SendBlock |
| `recv`, `recvmsg`, `recvfile` | RcvEnter, RcvLock, RcvLockMsg, RcvTest, RcvTestMsg, RcvWait, RcvTimeout, RcvReadMsg, RcvCheck, RcvCheckMsg, RecvData, RecvBlock |
| ACK received, ACK sent, data, error, shutdown, EXP | AckSnd and SignalSnd, AckRcv and SignalRcv, EarlyMsg, PeerError, Shutdown and RqReleases |
| `close`, `releaseSynch` | Close, CloserReleases, CloseDone |
| `recvfrom`, `storePkt`, `removeConnector` | Recvfrom, RecvfromTimeout, RecvfromWoken, StorePkt, ForgetStored |

### The parts

The other modules of `MCParts` are components with a small interface. Each keeps
the structure as the code does (slots, offsets, links, iterators, indices) next to
what it stands for (a set of lost packets, a history of ACKs, the messages that are
still to be read), and calls it in every order its users may. `RcvQueue` and
`SndQueue` add the threads around the tables: the receive-queue thread in four
places of its turn; the sending thread's two kinds of sleep, where `insert_`
changes the heap under one lock and signals under another. `UnitPool` cuts each
change of `m_iCount` into load and store, because two threads do it without a lock.
`UdtMux` and `SockOptions` have one step per call. `RateControl` has whole
microseconds for the code's doubles and leaves how much the rate is raised to a
choice (no property speaks of it). Its pace has the two times the code has: packData
reckons with `m_ullTargetTime` (`pace.target`), but is called when the socket's time on
the heap has come (`paceAt`, `Popped`), and never compares the two. They differ when
`update` intervenes: sendmsg and the processing of an ACK put a socket that is off the
heap on it for at once (PaceResume), a loss report and the EXP timer bring forward also
one that is there for later (PaceHasten; core.cpp:2189, 2658), so that a packet may
leave before its time. `paceDue` is auxiliary, the time at which a packet is due when
each follows the one before after its period; `paceHurry` sums up what the packets
that were brought forward had still to wait. PaceKept compares the schedule with the
two: it is never behind `paceDue`, and ahead by no more than `paceHurry`.

## 3. Runs

| Run | Expect | Properties | Bounds |
|---|---|---|---|
| threads | pass | TypeOK, ReadyOnlyIfWatched, NoSilentRead, NoSilentWrite | 1 socket, 2 application threads, 1 epoll, 1 message, 1 block; all calls but close, which the collector makes |
| teardown | pass | DestroyedNotWatched | 2 epolls, 1 application thread, all calls but release and send |
| live | pass | BrokenIsDestroyed, ClosedIsDestroyed | 1 application thread, linger on |
| channel | pass | TransferTypeOK, RingSound, NothingLost, ImplementsChannel | 4 blocks, receive ring of 3 slots, stream and datagram, every packet may repeat; lite ACKs of number 3; 731,604 states |
| expiry | pass | NeverBroken, LossAccounted, AckOrder | one message of 2 blocks that may expire at any moment, every packet may repeat; 1,829,111 states |
| delivery | pass | AllAcknowledged | 2 blocks, receive buffer of 1 block, data, ACKs and ACK2s may be lost; 50,497 states |
| connect | pass | SocketsMatch, BacklogKept, ConnectorsKept, OutcomeSound | 2 clients, 2 calls of connect in all, 2 sockets of the server, a backlog of 1, 2 minutes |
| sockets | pass | TablesSound, AnnouncementsArrive, ListenerRemoved, AcceptEnds | a listener, 1 socket, 2 accepting threads, a backlog of 1 |
| server | pass | EchoInOrder, BooksMatchEpoll, SilenceReported, EveryMessageEchoed, BrokenUnwatched | 1 client with 3 messages, a send buffer of 1 |
| parts | pass | 12, below | below |
| remove | violation | RemoveIsLocal | section 5 |
| success | violation | ConnectMeansConnected | |

The behaviours of `parts` work on one part each, `subject`; the variables of the
others stay 0, so the state spaces add up.

| Property | Subjects | Bounds |
|---|---|---|
| LossListsExact | sndLossList, rcvLossList | 16 sequence numbers, arrays of 5, packets 13 to 17: the numbers wrap |
| BufferExact, MessagesWhole | rcvBuffer | a ring of 4, 4 packets cut into messages in every way; messages as large as the ring |
| SendBufferExact | sndBuffer | blocks added 2 at a time up to 4, 7 in all, message numbers that wrap |
| LinkStatisticsExact | ackWindow, speeds, cache | 9 ACKs in a ring of 3 with numbers up to 4; 4 intervals; 5 addresses, one with a negative key, in a cache of 3 |
| PoolRefusesOnlyWhenFull | unitPool | 2 entries of 3 units, a count that drifts by at most 2 |
| SleepersWake | sndQueue, sending, receiving, passing | 2 sockets to send; a buffer of 2 blocks, files of 2, 2 messages; 2 sockets that connect and 4 handshakes |
| HeapExact | sndQueue, sndHeap | heap of 2 sockets with threads, of 5 without |
| ReceiverTablesSound | rcvQueue | 2 sockets of applications and 1 that is accepted, 2 buckets, 3 units of time |
| SharedQueuesSound | mux | 3 sockets, 2 ports, 2 packet sizes |
| AgreedSizesFit | options | 2 options set, to 0, 3 or 14 |
| RateSoundAndKept | congestion, pacing | 7 reports; 12 units of time, periods of 1 and 3, 3 units of hurry, 1 stale loss (8,940 and 46,086 states) |

Why the bounds suffice. In `UdtEpoll` sockets meet only in locks and in the epoll
table, whose functions treat each id separately; one socket and two threads give
every pair of overlapping calls on it, and the proofs cover any number. A buffer
of one message or block is both empty and full within a step. `teardown` needs two
epolls for the loop of `close`. In `UdtTransfer` four sequence numbers in a ring of
three slots use a slot twice; two packets in flight give gaps, overtaking and
stale acknowledgements. In `expiry` one message of two blocks can lose its first block,
its second or both, expire at either, and have a part of it acknowledged before;
messages before and after the one that expires, and every other size, are the business
of the proofs, which hold for all of them (`MCUdtTransfer_ttl.cfg` also has three
blocks in messages of one and two). `delivery` uses a ring of two slots because the
receive buffer must be full for the minimum window to matter.

In `UdtConnect` two calls are two clients that race for the backlog, or one that
fails and tries again while its old packets are under way; the minute changes only
in a first attempt of the one that waits (`MCBound`), because the cookie concerns
no other client. A stored packet more than one is a repetition. In `UdtSockets`
one socket suffices for a request that repeats a live, a broken or a closed one;
`UdtSockets_two.cfg` has two. The server treats connections separately, with the
table in common; `MCUdtServer_two.cfg` has two clients. Three messages and room
for one let it read, be refused and send again. In `parts`
every ring is full, empty and used across its end, every counter that wraps does.
Each part was also checked alone with larger bounds: packets to 18, three sockets
and three packets on the send queue, three options.

Deadlock is not checked: an application need not make another call, a finished
transfer stops, and most bounds end a behaviour. The real deadlock of this code is
stated as a property, NoDeadlock (section 5).

Each property of a passing run has a mutant in `PROJECT.json`: an operator of the
same module, named for a plausible slip (a guard dropped, a reset left out, a slot
too many), with which TLC finds the property violated. The conjunctions
(SocketsMatch, TablesSound, AnnouncementsArrive and those of `MCParts`) name their
parts in the module, each with its comment.

## 4. Fairness

`UdtEpoll!FairSpec`: weak fairness of a call that has begun; the collector wakes
every second and visits every socket (strong fairness per socket, because it is
busy with one at a time), the receive-queue thread polls with a timeout and looks
at the whole of its list, so DropFromList is strongly fair. No application call
and no packet is assumed. `UdtTransfer!FairSpec`: weak fairness of the sending
thread, of the ACK and EXP timers and of the reading application; strong fairness
of the receipt of data packets and ACKs, number by number ("what is sent again and
again arrives in the end"). An ACK that is taken is processed to its end (weak fairness
of AckStep), and one that comes again and again is in the end answered with an ACK2 and
the ACK2 received (strong): an ACK2 is spared only when the last one went out within a
SYN interval of 10 ms (core.cpp:2004), and ACKs come from a timer of
that interval. Nothing is assumed of loss reports and lite ACKs. EXP is always restarted, but a silent peer's keep-alives come at growing
intervals, so that the timer does expire. The connection is not given up in the
meantime (16 expirations and more than five seconds of silence).

`UdtSocketsFairness`: the collector takes a turn every second and finishes it
(weak), time passes (`Age`, weak), the thread that closes the listener goes on to
broadcast (weak). `newConnection` and the waiting `accept` need `m_ControlLock` or
locks of the listener that others hold now and then; the collector sleeps between
its turns and holds none then, so they get them (strong). No request, call of
accept or close is assumed. The collector cannot finish a turn that is stuck
(`Join`), and ListenerRemoved allows for that.

`UdtServerSpec`: the server's thread, the announcements, the collector and the
destruction of what it has collected are weakly fair: each is one thread that
loops. ACKs for a connection that lives are strongly fair, which is what run
`delivery` shows of the transfer. Nothing is assumed of the client.

## 5. Disagreements found

Two runs expect a violation:
 - `remove`: removeEPoll erases the epoll from `m_sPollID` and passes the rest to
   disable_read and disable_write (core.cpp:2697): other epolls lose their
   readiness.
 - `success`: a keep-alive or data packet that arrives while a connect waits for the
   answer to its cookie, because it overtook that answer or the answer was lost,
   ends the loop of connect as a failure (core.cpp:663, 711), and none of the tests
   behind the loop recognises it: connect returns 0 on a socket that is not
   connected (connect.htm:32).

Others were met on the way. Each row is a configuration whose property TLC finds
violated, or a change to `MCParts.cfg` and the property to check with it; the
properties of the passing runs leave these cases out by the bound or the condition
in the row.

| Configuration | Property | What happens |
|---|---|---|
| `MCUdtEpoll_readable.cfg` | ReadableIsReported | recvmsg looks at the receive buffer and then disables reading: a message acknowledged in between is announced first and silenced afterwards (core.cpp:1358). NoSilentRead shows that this is the only way to lose a signal |
| `MCUdtEpoll_linger.cfg` | DestroyedNotWatched | removeSocket's close() lingers again and skips the epolls (core.cpp:941, api.cpp:1229) |
| `MCUdtEpoll_twothreads.cfg` | DestroyedNotWatched | two application threads: epoll_add_usock adds a socket behind the loop over `m_sPollID` of a close that another thread is in (api.cpp:1095, core.cpp:962); the socket is not opened any more when removeSocket closes it again, so it stays in the epoll for good |
| `MCUdtEpoll_broken.cfg` | BrokenIsReported | the peer's shutdown is not announced to any epoll (core.cpp:2236) |
| `MCUdtTransfer_ttl.cfg` | NothingLost | the drop request of an expired message is one packet too long (core.cpp:2315). Afterwards blocks and sequence numbers do not match, and an ACK frees messages without a time to live that were never sent; hence RingSound and ImplementsChannel are stated for connections without times to live |
| `MCUdtConnect_retry.cfg` | FailedMayRetry | a connect that does not block and fails leaves the status CONNECTING: it cannot be repeated (queue.cpp:849) |
| `UdtSockets_deadlock.cfg` | NoDeadlock | the collector joins the receive-queue thread with `m_ControlLock` held, and that thread waits for the lock (api.cpp:1306) |
| `MCUdtServer_leftover.cfg` | NothingLeftOver | what the server keeps for a connection that failed is not removed (udt_server.cpp:151) |
| Subjects = {"rcvLossList"} | DropRemovesAll | removing a range that wraps leaves out the number 2^31 - 1 (list.cpp:640) |
| Subjects = {"rcvBuffer"}, DropReach = 2 | BufferExact | a drop request for packets beyond the room in the buffer is obeyed (core.cpp:2254) |
| Subjects = {"sndBuffer"}, FileShort = TRUE | SendBufferExact | addBufferFromFile counts the blocks that a file which ends early did not fill (buffer.cpp:205) |
| Subjects = {"sndBuffer"}, Garbage = {0, 7} | SendBufferExact | the message number of a block that was never written is compared with that of an expired message (buffer.cpp:63 and 323, read at 248) |
| Subjects = {"cache"} | LatestIsFound | `item_list` is a reference: choosing the evicted item's bucket copies it over that of the new item, which is not found (cache.h:135, 186) |
| Subjects = {"rcvQueue"}, Tries = 2 | ReceiverTablesSound | a repeated connect leaves a second connector, which outlives the socket (core.cpp:690, queue.cpp:795) |
| Subjects = {"mux"} | CloseHasQueues | a socket whose bind failed is opened but has no queues, and close uses them (api.cpp:523, core.cpp:987) |
| Subjects = {"mux"}, Locals = {"a", "b"}, Sizes = {1} | SharedQueuesSound | an accepted socket takes the multiplexer of its port, whatever the address (api.cpp:1451) |
| the same | BoundWhereAsked | bind shares a port that another address is bound to (api.cpp:1384) |
| Subjects = {"options"} | FlowFitsBuffer | a repeated request is answered with `m_iFlightFlagSize`, the first one with the smaller of it and the buffer (api.cpp:344, core.cpp:829) |
| Subjects = {"options"} | SendPossible | a send buffer of less than a packet is set to no packet at all (core.cpp:276) |
| Subjects = {"congestion"} | HalvedAlways | five raises rounded up to whole microseconds more than halve the rate when the period is short, against the comment (ccc.cpp:296) |
| Subjects = {"pacing"} | PaceAlwaysKept | a lost packet that needs no retransmission leaves the schedule as it was, and the time the thread was late is credited twice (core.cpp:2304) |
| Subjects = {"sndHeap"}, six sockets | HeapExact | remove_ never sifts up (queue.cpp:410): with six sockets the first is not the earliest |
| Subjects = {"sending"} | AlwaysWoken | sendfile waits although UDT_SNDSYN is off, and then nobody signals it (core.cpp:2057; sendfile.htm:80 "always in blocking mode"); the peer's error does not signal either (core.cpp:2269, against the comments at 1567 and 2266) |
| Subjects = {"receiving"} | AlwaysWoken | the same for recvfile and UDT_RCVSYN (core.cpp:1800, recvfile.htm:75); a message that may be read out of order is not signalled (sendmsg.htm:90) |
| Subjects = {"sending"} | NothingWrittenAfterClose | send and sendmsg test the connection before they take `m_SendLock` and not after (core.cpp:1029, 1228) |
| Subjects = {"receiving"} | NoMessageSwallowed | recvmsg reads the message and then throws because the connection has ended (core.cpp:1417) |
| Subjects = {"passing"} | AddresseeWoken | one condition for all sockets that connect: the wrong one may be woken, a delay of a second (queue.cpp:1240) |

Read but not stated as properties: the key of `m_PeerRec` is formed with 32-bit
arithmetic (api.cpp:1157); the cookie of the minute before is tested with an
addition (core.cpp:2507-2511); a recvmsg with a timeout waits before it looks
(core.cpp:1396); calls whose time has run out throw (core.cpp:1290, 1435) although
the documents promise zero (sendmsg.htm:39, recvmsg.htm:33); storePkt leaks a
packet at its limit (queue.cpp:1248); wait() has a repeated operand in the test for
missing sets (epoll.cpp:185).

## 6. Proofs

`UdtEpollProofs` begins with `EpollSpec => []EpollInv` (types and ReadyOnlyIfWatched)
for the table alone. It then proves, for all values of the constants that
satisfy `ConstantsAssumption` and `MaxPollsAssumption`, that UdtEpoll implements
`EpollSpec` (every step of a thread is one function of the table or none), and
with it TypeOK, ReadyOnlyIfWatched, NoSilentRead and NoSilentWrite.

NoSilentRead and NoSilentWrite are not inductive. The invariant `IInv` adds
*Registered* (a socket in an epoll's watched set has the epoll in its `m_sPollID`,
unless an add or a removal of exactly this pair is at a step between the two
updates), without which an enable would not reach the epoll; and *CloseOrder*
(`close()` clears `m_bConnected` before `m_bOpened`: a socket that is not opened is
not connected, and a close that is waiting to finish has cleared `m_bConnected`).
`Next` is split into passive actions, which change
nothing the invariant speaks of, and active ones, which have a step each.

DestroyedNotWatched is proved for any number of sockets and epolls under
*SimpleTeardown*: no linger, no call of epoll_release, at most one thread of the
application (the collector and the receive-queue thread always run beside it). Each
condition is needed: without the first and the third it is false (section 5), and
release ends the loop of `close()` at the first epoll that is gone. The invariant
*Leaving*, together with `IInv`, says that `m_sPollID` names existing epolls only; that
the collector closes a socket nobody else uses; that no epoll the loop of `close()` has
passed watches the socket, and none at all behind the loop; and that a socket that is
not opened is watched by none, is not being added, and is located by nobody but the
thread that is just closing it. TLC checked Leaving on the constants of `teardown`
(1,849,091 states). Most actions are *Harmless*, which one lemma shows to keep it; the
steps of close, of the collector and the beginning of epoll_add_usock have a lemma
each.

`UdtTransferProofs` assumes only `TransferAssumption` and so covers every choice of
buffer sizes, windows, modes and times to live. Each invariant builds on the one
before:
 - *NumbersInv*: every number in a loss list, a packet or `popped` has been used by
   the sender; the receiver has seen only used numbers and answers only for what it
   has seen; an ACK under way, or in process, is no newer than `rcvLastAck`; an ACK2 is no
   newer than `sndLastDataAck`, or is of the ACK the sender is just processing. It
   contains NeverBroken and AckOrder.
 - *LossInv*: adds LossAccounted and that nothing in the buffer is beyond
   `rcvCurrSeqNo`, nor the buffer's start beyond `rcvLastAck`.
 - *TypeInv*: adds TransferTypeOK and what it takes to prove it: the blocks of a
   message have been added, `firstBlock = sndLastDataAck`, no loss lies before
   what is acknowledged, and for a stream the number of a packet is that of its
   block, so that recv never reads an empty slot.

The second half of `UdtTransferProofs` assumes besides that `Mortality` holds no TRUE
(`MCUdtTransfer_ttl.cfg` shows what happens to NothingLost otherwise) and proves
ImplementsChannel, RingSound and NothingLost. ImplementsChannel says what the application sees; it is not inductive,
because it says nothing about numbers and packets. *ChannelInv* is LossInv and
 - *SenderInv*: `currBlock = sndCurrSeqNo + 1` and `firstBlock = sndLastDataAck`, so
   that readData(offset) reaches the block of the lost number;
 - *PacketInv*: a packet, under way or stored, carries the block of its number;
 - *BufferInv*: what has been seen fits in the ring behind `rcvStart`, so that two
   stored packets in one slot are the same (lemma SameSlot, on `%`), and no loss
   is before what is acknowledged, so that an ACK never covers a hole;
 - *MessageInv*: messages follow one another without gaps and the buffer starts at
   the head of one, so that scanMsg gives nothing up;
 - *OutInv*: `delivered` is 1, 2, ... up to the start of the buffer.

Every step of ChannelInv then maps to a step of `ReliableChannel` or to a stutter.
The minimum of a set of numbers (lemma MinOfNats, behind Ackable and scanMsg) is
taken from the well-foundedness of strict inclusion of finite sets, because the
library's induction theorems cannot be instantiated here. The runs `channel` and
`expiry` check the same properties on small instances.

`UdtConnectProofs` covers any number of clients, any addresses, backlog and bounds,
and the whole freedom of the network (requests and answers are sets that only grow).
SocketsMatch is not inductive: *ConnectInv* adds where each client is in connect and
what it knows of the answer it has taken (*Stages*, *Responses*), that whatever is
under way or stored was made by an attempt for the socket it names (*RequestsGood*,
*AnswersGood*, *StoredGood*), and that no two live sockets of the listener have one
key (*OneLive*). The number of a client's first attempt is its only one until there
is a second: that is what lets an answer be matched with a request although it may
be old. BacklogKept, ConnectorsKept and OutcomeSound are parts of the invariant.

`UdtSocketsProofs` covers any number of connections and accepting threads, at least
one of these (without any, a connection that nobody accepts stays queued for ever and
NoLostAccept is false). *SocketsInv* says whose hand a socket is in: at most one of
the queue's, an accepting thread's and the application's (*OneHand*); what
newConnection makes is healthy and in nobody's hand until it is queued
(*InTheMaking*); what the collector deletes has been closed for a second and nobody
is taking it (*Doomed*). The count of the multiplexer is then a cardinality that a
step changes by one.

`UdtServerProofs` covers any number of connections and messages. *ServerInv* extends
BooksMatchEpoll, which speaks of the moment between two turns, to every step of a
turn: while a connection is on its way back into the epoll its books say what it will
be watched for (*Books*), nothing has happened to a connection the server has not
accepted (*Fresh*), and a silent peer's report is there, under way, or has been taken
away (*Reported*). EchoInOrder is inductive on top of it.

`PartsProofs` proves five properties of the run `parts`, each under the assumption
of its module alone:
 - SleepersWake. NoLostWakeup of the send queue is inductive because the sleep and
   the test before it share a lock. For the calls, *CallsInv* adds that a close marks
   the socket before it unconnects it, and what a sleeper may rely on: a sender sleeps
   on a connection that has room only if the signal is on its way (*SenderHeard*), the
   same for a receiver and its data (*ReceiverHeard*), and whoever is still inside
   when close has both locks does not exist (*NobodyLeft*). *PassInv* counts the
   handshakes stored for the sockets that connect.
 - AgreedSizesFit. *OptionsInv* ties the sizes a socket was bound with to its
   multiplexer, what is told in a handshake to the options of who told it, and a
   window to the buffer it was made of. It needs of the defaults what the code's own
   constants satisfy (`SockOptionsAssumption`: the default MSS is at least the
   smallest one, and fits the UDP buffer).
 - RateSoundAndKept. *CongestionInv* carries through a congestion period how often the
   period was multiplied by 9/8, at most five times, and that the averages, rounded up,
   stay above zero. *PaceInv*: the time on the heap is that of the schedule or "at once", and
   what a packet that is brought forward has still to wait (*PaceEarly*) is part of what
   has been hurried, so that packData may be called before or after `m_ullTargetTime`.
 - SharedQueuesSound. *MuxInv*, for any addresses: a socket has queues from bind or accept
   until it is destroyed and its address is theirs (*HasQueues*); a multiplexer counts
   its users and has the ID of a socket that was bound (*MuxesCounted*); no two have one
   address (*OneOfAddress*); a listener listens or has been closed (*ListenersKnown*).
   It gives the theorem MultiplexersCounted without further assumption. *MuxFits* (the sizes;
   an accepted socket is where its listener is) needs a single local address: section
   5 shows what happens with two.

`TablesProofs` proves four more of them, about structures that a loop or a chain of
links makes hard to reason about. Where the code loops, the model counts the turns in a
function, and the lemma *LoopRuns* (from the well-foundedness of the numbers) says that
such a function exists and follows its own rule; where the code follows links, the
invariant names the sequence they spell and every operation says how it changes.
 - PoolRefusesOnlyWhenFull, for any sizes and thresholds. *PoolInv*: however two
   threads overwrite each other's counts, the count never exceeds the number of units and
   is below it when one is looked for (*CountsBounded*); after a refusal the pool has
   grown or the next search finds a unit, and a search that found nothing leaves a count
   at which the next call grows the pool (*RefusalsEnd*).
 - LinkStatisticsExact, for any sizes of ring, windows and cache. *AckInv*: the slots
   from tail to head hold the latest ACKs in their order. *CacheInv*: until an
   eviction has crossed buckets (section 5), an item is the last update of its address and
   is listed in that address's bucket, a bucket lists nothing else, and what is not in the
   cache is older than all that is. Of the two rates, that they are sums over a part of a window whose
   members lie near the median.
 - ReceiverTablesSound, for any sockets, buckets and intervals, if no socket calls
   connect twice (`Tries <= 1`; with two calls it is false, section 5). *ReceiverInv*
   says in which tables a socket may be in each of its states (on the list only while
   it is connected, broken or closed, a connector only while it connects), so that the
   collector never destroys what the thread may still find, and that the links are those
   of one sequence with its times in order, through insertion, removal and the move to
   the end.
 - HeapExact, for up to five sockets: *SendListInv* says that no entry is later than those
   below it and that no socket is there twice. `remove_` moves the last entry down and
   never up, which is right only while the entry above the hole is also above the last place:
   with five entries it always is, with six it is not (section 5). That no socket with
   a packet is forgotten holds for any number (theorem NoneForgotten).

`BuffersProofs` holds the lemmas about the two buffers; `PartsProofs` concludes three
properties of the run from them.
 - SendBufferExact. *SndBufferInv*: the links of the blocks form one circle, which
   begins with the first block that is not acknowledged (a sequence w of blocks over the
   numbers from `acked + 1` on). A block holds the data of its number when that is
   written, and otherwise 0 or what it held a round earlier; acknowledged, sent and
   written follow each other and are less than a circle apart; a message is shorter
   than the circle and its blocks follow each other; and the circle never exceeds
   `2 * SndLimit - 1 + InitBlocks` blocks, since `increase` is called only for a message
   that passed the limit. Three hypotheses, each of them a section 5 finding or a bound of
   the counter: files are as long as sendfile is told (`FileShort = FALSE`), a new block is not
   born with the number of a message (`Garbage`), and message numbers do not come round
   within one buffer (`MaxMsgNo >= 2 * SndLimit + InitBlocks`; in the code 2^29 - 1
   against a few thousand blocks).
 - BufferExact and MessagesWhole, of one invariant. *RcvBufferInv* counts the packet f
   at the start of the ring and the d acknowledged ones. The ring (*Ring*): a unit in use
   k slots behind the start is that of packet f + k, it is within the reach of the search
   (`m_iMaxPos`), and the slot before the start is empty. The numbers (*Received*):
   from f to the largest number seen every packet is there, missing or dropped, and what is
   acknowledged is not missing. The messages (*HoldsMessages*): what was read out of
   order are whole messages that may be (*Wholes*); the start lies within a message only if
   it was named by a drop request or has been read (*Cuts*); what was returned are whole
   messages, each once, and behind the start or marked as read (*ReadOnce*); what was
   given up was named by a drop request. A stream instead has no marked unit, and what was
   read ends `m_iNotch` bytes into packet f (*HoldsStream*). Between the operations and
   the invariant stand the two loops of scanMsg: the first stops at the first good start,
   behind which no complete message is lost (*SkippedTo*), and the second keeps that its
   head begins a message without a hole so far and that no message that may be read lies
   behind it (*Searching*), so that what it finds is the first one (*Found*). The
   hypothesis `DropReach = 0` is the finding of section 5: with a drop request that
   reaches beyond the buffer the numbers no longer fit in the ring.

Before they were proved, the invariants were checked by TLC as such, also with other
bounds than those of the runs: ConnectInv (1,290,016 states), SocketsInv (81,094
states with one socket, 4,239,394 with two), ServerInv (13,096 with one client,
2,177,074 with two), CallsInv and PassInv (88,419, three of everything), OptionsInv
(155,444, three options set), CongestionInv and PaceInv (8,940 and 46,086,
the first with and without a limit of the rate), MuxInv (203,072 with one address, 1,716,928 with two), PoolInv (19,445,
10,524, 287,048 and 4,801,140 with other entries, thresholds and drifts), AckInv and the
rates' (1,368), CacheInv (2,571), SndBufferInv (22,209), RcvBufferInv (105,653 with four slots
and packets, 409,557 with three slots and five packets), ReceiverInv (338,566; 304,762 and 1,207,015 with other sockets, buckets
and intervals), SendListInv (45,189, 10,336, and 4,357,043 with three sockets and their threads). That showed
three statements to be false beyond the bounds of the runs, and they say now what they
mean: NoLostAccept without accepting threads, the limit of UDT_MAXBW in
HalvedAtMost, and the schedule after a stale loss in PaceKept (section 5).

Only model-checked:
 - LossListsExact: two circular arrays of intervals whose numbers wrap, searched, split
   and joined by loops that compare numbers modulo 2^31. Its proof needs an order of
   the numbers relative to a moving base through each of these loops.
 - The liveness properties (ENABLED and fairness are as well).

## 7. What is left

Worth proving next: LossListsExact, for any length of the arrays and any place of the
wrap.

Worth modelling next: rendezvous connections in UdtConnect.

Not modelled, and why:
 - `select` and `selectEx` poll the state of sockets every 10 ms and change nothing.
 - The C-style interface and `UDT::` wrappers look a socket up and turn exceptions
   into codes; the exception table formats texts.
 - `CChannel`, `CPacket`, `CMD5`, `CTimer`, `CGuard`, `CIPAddress`: system calls, encodings
   and a digest. What a packet says is a record in `UdtTransfer` and `UdtConnect`, a
   lock is what is atomic.
 - `add_ssock`, `remove_ssock` and the polling loop of `wait()`: they read system
   sockets.
 - How much CUDTCC raises the rate (a power of ten of a double), the performance
   counters, user-defined congestion control and control messages.
 - Start-up, statistics and signal handling of the server; the clients, samples,
   tuner, tests and SSL samples: examples of use without state of their own.
