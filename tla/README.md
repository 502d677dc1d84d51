# A verification project for UdpSpeed

UdpSpeed carries TCP connections through a UDP tunnel. A client A connects to
the proxy B (`KcpProxy`), B sends the bytes over KCP to the server C
(`KcpServer`), and C forwards them to the destination D.

    A --TCP--> B (TcpServer :6665) ==UDP/KCP==> C (:6667) --TCP--> D

This directory holds TLA+ models of the program, TLC configurations that check
them on small instances, and proofs that TLAPS checks for every instance.

## 1. Inventory

| Component | State | Operations | Interacts with |
|---|---|---|---|
| KCP engine, `kcp/ikcp.c` | send queue and buffer, receive buffer and queue, `snd_una`, `snd_nxt`, `rcv_nxt`, windows, acknowledgement list, probe and timer fields | `ikcp_send`, `ikcp_recv`, `ikcp_input`, `ikcp_update`/`ikcp_flush` | its user by calls; its peer by datagrams that are lost, reordered, repeated |
| Control session, `kcp/ControlSession.cpp` | one KCP object for conversation 0, `recvBuffer_` | `sendMsg`, `parseMsg` | proxy and server handlers |
| Proxy, `KcpProxy/KcpProxy.cpp` | `uninitedSessList_`, `sessionMap_` of weak pointers | connection up and down, client data, tunnel datagram, control message, 10 ms timer | TCP server callbacks, control session, data sessions |
| Proxy data session, `KcpProxy/KcpDataSession.cpp` | `kcp_`, `id_`, `payloadList_` | `init`, `sendToTunnel`, `recvFromTunnel`, `update`, `forceConnClose` | its connection (weak), the UDP socket |
| Server, `KcpServer/KcpServer.cpp` | `sessionMap_`, `id_` | datagram dispatch, create and destroy, 10 ms timer, 15 s idle check | control session, server sessions |
| Server session, `KcpServer/KcpServerSession.cpp` | `kcp_`, `client_`, `payloadList_`, `lastTunnelActiveTime_`, `connLostCb_` | connect, disconnect, payload from B, D up and down, data from D, 3 s check | its `TcpClient`, the UDP socket |
| Event loop, `muduo/net/EventLoop.cc`, `EventLoopThread.cc` | `pendingFunctors_`, `quit_`, the eventfd, active channels | `loop`, `runInLoop`, `queueInLoop`, `wakeup`, `quit` | other threads by its queue, timers and channels by callbacks |
| Timers, `muduo/net/TimerQueue.cc`, `Timer.h` | `timers_`, `activeTimers_`, `cancelingTimers_`, the timerfd | `addTimer`, `cancel`, `handleRead`, `reset` | callbacks that add and cancel |
| Channels and pollers, `muduo/net/poller/`, `Channel.cc` | `channels_`, `pollfds_` or the kernel's list, the index in each channel | enable, disable, remove, `poll`, dispatch | event loop, handlers that remove channels |
| TCP server, `TcpServer.cc`, `Acceptor.cc`, `TcpConnection.cc` | table of connections, state, buffers and channel of each | accept, send, shutdown, force close, start and stop reading, teardown | base loop, I/O loops, user, peer |
| TCP client, `TcpClient.cc`, `Connector.cc` | `connection_`, the connector with its state, delay and timers | connect, disconnect, stop, retry, destruction | `KcpServerSession`, one loop |
| Buffer, `muduo/net/Buffer.h` | a vector and two indices | append, retrieve, prepend, search, `readFd`, `shrink` | connections, codecs |
| RPC and codec, `protorpc/`, `protobuf/` | `outstandings_`, `id_`, streams | `CallMethod`, `onMessage`, `doneCallback` | client threads, services |
| HTTP, `muduo/net/http/` | parse state and request of a connection | `onMessage`, `parseRequest`, `onRequest` | a connection |
| Threads and queues, `muduo/base` | queue, two conditions, `running_`, the latch of `Thread::start` | `start`, `run`, `put`, `take`, `stop` | producers and workers |
| Asynchronous log files, `AsyncLogging.cc`, `LogFile.cc` | two pairs of buffers, the file and its counters | `append`, `threadFunc`, `rollFile`, `stop` | every thread that logs |
| Log lines, `Logging.cc`, `LogStream.cc` | a stream for each statement, the cached second of each thread, level and zone | construction, insertions, destruction | `g_output` |
| Dates and time zones, `Date.cc`, `TimeZone.cc` | none, or the table of a zone | conversions both ways | log lines and files |

Proxy and server run one event loop in one thread each. What is hard there is
not threads but order: datagrams that are lost, late or repeated; independent
conversations that overtake each other (control against data); connections
that close while an answer for them is under way; timers that race with
arrivals; 32-bit numbers that wrap; and objects whose lifetime hangs on
callbacks.

What makes each component correct:

* KCP: a message that `ikcp_send` took is read at the far side, once, whole and
  in order; no segment is freed before the peer has it; the windows bound the
  memory; a closed window opens again; comparisons survive the wrap of `sn`.
* Control session: what `sendMsg` took reaches the handler of the peer.
* Proxy and server: every connection gets one id, and one that is its own; ids
  nobody uses are released; bytes stay in order across the caches at either
  end; the tables never point to a dead session; the failure of one session does
  not end the others.
* Event loop and timers: a loop with work to do is not asleep; timers fire,
  cancelled ones do not come back, also when callbacks add and cancel and
  addresses are used again; `quit` ends the loop.
* Connections: up once, then down once; bytes in order; shutdown after the
  data; a teardown that happens once, although events, functors, timers and the
  other loop can all ask for it; a client that was told to connect keeps trying,
  and one that was stopped hands out nothing any more.
* Threads, queues, logs: nothing is lost or done twice, nobody sleeps while
  there is work, everything that was put is done.
* Buffer, codecs, conversions: what is read is what was written, wherever the
  stream is cut and whatever came before.

`PROJECT.json` lists the components, the hazards with the line where each of
them bites, and the map from definitions to source lines.

## 2. Modules

| Module | Models | Role |
|---|---|---|
| `Fifo` | what a KCP connection promises | abstract specification |
| `Kcp` | two `ikcpcb` objects and the UDP path between them | detailed specification |
| `KcpProof` | | inductive invariants of `Kcp` and their consequences; `Kcp` implements `Fifo` |
| `SeqNum` | 32-bit sequence numbers and `_itimediff` | when the wrap is harmless |
| `Channels` | the conversations between B and C as their handlers see them | shared by the next two |
| `KcpProxy` | `KcpProxy.cpp`, `KcpDataSession.cpp` | component |
| `KcpServer` | `KcpServer.cpp`, `KcpServerSession.cpp` | component |
| `Tunnel` | proxy and server together | composition, properties |
| `TunnelProof` | | inductive invariant of `Tunnel` and its consequences |
| `ControlSession` | `ControlSession.cpp` at both ends | component |
| `KcpTimer` | the clock, timeouts, RTO estimator and congestion window of `ikcp.c` | component |
| `KcpWire` | headers, datagrams and the acknowledgement list of `ikcp.c`, the look of `KcpServer` at a datagram | component |
| `TimerQueue`, `EventLoop` | timers; the loop, the threads that call it | component and composition |
| `EventLoopProof` | | inductive invariant of loop and timers and its consequences |
| `ThreadPool` | `Thread`, `CountDownLatch`, `ThreadPool`, both blocking queues | component |
| `AsyncLogging` | `AsyncLogging`, `LogFile` | component |
| `ThreadsProof` | | inductive invariants of `ThreadPool` and of `AsyncLogging` and their consequences |
| `Poller` | both pollers, registration of channels | component |
| `TcpConnection` | one connection, as operators on a record | shared by the next two |
| `TcpServer` | `TcpServer`, `Acceptor`, `EventLoopThreadPool`, connections on several loops | composition |
| `TcpProof` | | inductive invariant of `TcpServer` and its consequences |
| `TcpClient` | `TcpClient`, `Connector`, its connection | composition |
| `TcpClientProof` | | inductive invariant of `TcpClient` and its consequences |
| `Buffer` | `Buffer`, beside an ideal queue of bytes | component |
| `Rpc` | `RpcChannel`, `RpcServer`, `ProtobufCodecLite` at both ends | component |
| `Http` | `HttpServer`, `HttpContext`, `HttpRequest`, `HttpResponse` | component |
| `Date`, `TimeZone` | Julian days and UTC; zone tables and local time | algorithms beside a reference |
| `Logging` | `Logger`, `LogStream`, `FixedBuffer` | component |
| `NetProof` | | inductive invariants of `SeqNum`, `Poller`, `Buffer`, `KcpTimer`, `Date`, `TimeZone` and `Logging` and their consequences |
| `DataFacts` | | lemmas about sequences, ranges, cardinality and induction that the proofs share |
| `MCKcp`, `MCTunnel`, `MCControlSession`, `MCThreads`, `MCNet` | | instances for TLC |

### Kcp

The variables keep the names of the fields of `IKCPCB`; each is a function of
the endpoint, `"B"` or `"C"`. `snd_buf` and `rcv_buf`, sorted lists in the
code, are functions from sequence number to segment. The actions:

* `Send`, `Recv`: `ikcp_send`, and `ikcp_recv` with the `ikcp_peeksize` before
  it and the move from `rcv_buf` to `rcv_queue` after it.
* `Deliver` or `Duplicate` starts `ikcp_input`; `InputSegment` is one turn of
  its loop, `InputDone` the part after the loop. While an endpoint is parsing
  it takes no other step, as in the code; the other endpoint and the network
  do.
* `Update`: `ikcp_update` at a time when the flush is due, with all of
  `ikcp_flush`: acknowledgements, probes, the move from `snd_queue` to
  `snd_buf`, first transmissions, timeouts and fast retransmissions, packed
  into datagrams as the code packs them (`IsPacking`).
* `Lose` and what `Output` drops: loss.

Time is abstracted to what it decides: at each flush any set of segments may
have timed out and the probe timer may have run out. Every RTT estimate, backoff
and clock is one of these choices, so the safety results hold for all of them.
`KcpTimer` computes these times. The congestion window is left out because the
program sets `nocwnd` to 1 (`KcpTimer` has it), and stream mode because nothing sets `stream`. `MaxInFlight`, `MaxDup`, `MaxAcks`
and `MaxMsgs` are bounds for TLC; the proofs hold for every value of them.

`sent`, `accepted` and `delivered` are history variables.

### SeqNum

`Kcp` counts without bound. `SeqNum` runs the counters at both widths side by
side, with one number that sits in an old datagram, and shows that
`_itimediff` on the stored numbers gives the answers of `Kcp` as long as the
window plus the distance `snd_una` moves during the life of a datagram is at
most 2^31.

### KcpTimer and KcpWire

They take the two things apart that `Kcp` abstracts from. `KcpTimer` is one
sender on a clock that wraps: `ikcp_update` with `ts_flush` and its
resynchronisation, `ikcp_check`, the RTO estimator, the backoff of each segment
with and without `nodelay`, fast retransmission, `dead_link`, and the congestion
window with its two ways of growing and shrinking. A datagram comes in as the
code reads it, segment by segment: each one sets `rmt_wnd`, takes its `una` and
may acknowledge a copy, and after the last one `maxack` counts as one skip and the
window grows. Time passes in `Steps`, a
long one of which stands for a process that was stopped; `MaxStall` bounds the
time between two calls of `ikcp_update` (in the run it is `MaxTime`, so it bounds
nothing). The network holds copies for at most `MaxDelay` and may lose them. The
clock does not go back, since both programs read `CLOCK_MONOTONIC`.

`KcpWire` writes and reads bytes. `ikcp_ack_push` with its growing blocks,
`ikcp_encode*` and `ikcp_decode*`, the packing of `ikcp_flush` into datagrams of
at most `mtu`, the walk of `ikcp_input` with its early returns, on whole
datagrams and on cut ones, and `dispatchKcpPacket`, which reads the number at a
fixed place. A byte has `ByteValues` values, 128 in the run, because four bytes
of 256 values overflow the integers of TLC; the arithmetic is the same for
every base.

### Channels, KcpProxy, KcpServer, Tunnel

A step is one callback of one event loop, run to its end. A data conversation
is the FIFO that `Kcp` implements. The control conversation is assumed to be
the reliable signalling that `KcpServer/main.cpp:16` describes; see the
finding of `control_sent` for what the code has in its place. There is no order
between conversations, which is what makes `tunnel_release` possible.

* Proxy: `ProxyOnConnected`, `ProxyOnDisconnected` (`onConnection`),
  `ProxyOnMessage` (`onMessage`, `sendToTunnel`), `GiveId` and `RefuseId`
  (`handleControlMessage`), `ProxyOnTunnelMessage` and `ProxyOnStrayDatagram`
  (`onKcpTunnelMessage`). A session has the lifetime of its connection and is
  named by it. The `CMD_DESTROY_SESSION` branch is not modelled, since no code
  sends that command to B.
* Server: `OnCreate`, `OnDestroy` (`handleControlMessage`),
  `ServerOnConnected`, `ServerOnDisconnected`, `OnCheckConnection`,
  `ServerOnTunnelMessage`, `ServerOnMessage`, `OnCheckDeadSessionTimer`.
  `client_.reset()` follows the destructor of `TcpClient`: a pending connect is
  stopped, an open connection is closed later in the loop and then reports
  itself as disconnected. `connLostCb_` is empty, so the report ends the
  process (`running`).
* A session erased from `sessionMap_` while it has a client lives on, since
  session and `TcpClient` hold each other; its KCP object is not updated any
  more. `HourPasses` is the idle clock; it does not pass while a 3 s check is
  due or a close is queued.

### ControlSession

`sendMsg`, `parseMsg` and the flush, with the missing call of `ikcp_update`:
the constant `Updated` is the set of endpoints that make it, empty in this
repository. With `Updated = {"B"}` the same property fails for the second reason,
the loop condition of `parseMsg`, and with both ends for the third, the
assertion in the server's output callback.

### TimerQueue and EventLoop

A timer lives at an address that the allocator may use again, so an id is an
address with a sequence number, as in the code. `TimerQueue` has the bodies of
the member functions, `EventLoop` the program counter of the loop thread: poll,
each active channel, each expired timer, `reset`, each functor. A step of the
loop ends where another thread could tell the difference: a push under
`mutex_`, a write to the eventfd. Other threads are between the two halves of
`queueInLoop` or `quit` (`tpc`). What a callback or functor of the user does
(add, cancel, queue, quit, nothing) is a free choice, bounded by `MaxCalls`. The
init callback of `EventLoopThread` (`initCallback`) is such code too: it runs in
the loop's own thread before `loop()`, so what it queues wakes nobody
(`EventLoop.cc:167`); `queuedEarly` counts these functors.

### ThreadPool

`kind` says whether a behaviour is of `ThreadPool`, `BlockingQueue` or
`BoundedBlockingQueue`. A condition variable is the set of the threads that
wait on it; `notify` takes out any one of them, `notifyAll` all, and a spurious
wakeup any one at any time. `Thread::start` is modelled with its latch and the
`tid_` that the new thread writes.

### AsyncLogging and Logging

`AsyncLogging` has `append` with the two front buffers, `threadFunc` in the steps
that the mutex makes, the drop above `MaxBuffers` (25 in the code), and `LogFile`
with the roll by size and by period and the flush by time. A line that is handed
to `fwrite_unlocked` is written whole; the loop over short writes and the error
path of `FileUtil.cc:36-50` are not modelled. `Logging` is the
statement that builds a line: level, cached second and zone, insertions that fit
or are left out, integers and pointers converted digit by digit at `LogBits`
width.

### Poller, TcpConnection, TcpServer, TcpClient

`Poller` gives the same calls to both pollers and compares them. Any channel may be
disabled, one that was never enabled too, as in `~Acceptor` of a server that was not
started; `silent` is the set of the channels that came into the tables that way. The
member
functions of `TcpConnection` are operators from record to record; the functors
they queue are collected in `todo` and given to the loop by the owner. The user
calls them in the loop of the connection, as the tunnel does: the branches of
`send` for other threads (`TcpConnection.cc:100-108`, `122-130`, with a plain `this`
under a FIXME) are not modelled. `startRead` and `stopRead` do not look at the state,
and neither does the model, as long as the connection exists. A loop
polls, handles the batch it got, then runs the functors that were pending, as
`EventLoop::loop` does, so what a handler queues waits for the next round and a
stale event of a batch meets a connection that was closed earlier in it.
`TcpServer` has a base loop and I/O loops (at most one in the run), the spare descriptor
of `Acceptor` for `EMFILE`, the timer of `forceCloseWithDelay` and the
destructor. `TcpClient` has one loop, as `KcpServerSession` uses it, and says
who keeps the `Connector` and the connection alive. The user may keep a
`TcpConnectionPtr` (`hold`), call it after the client has gone, and let it go
(`letGo`), so that `connection_.unique()` in `~TcpClient` may be false. A timer may fire
in any round; `tooSoon` remembers that one fired before the rounds it is meant to
outlast. The client sets no `writeCompleteCallback_`, so its functor is left
out. The choices of the environment are the events of
the peer, short and failing writes, the outcome of `connect(2)` and of the
handshake, and the calls of the user.

### Buffer, Rpc, Http, Date, TimeZone

`Buffer` steps a buffer and an ideal queue of bytes side by side; a byte has two
values, which is enough to tell orders apart, and an integer of n bytes is n of
them, the most significant first. `Rpc` and `Http` deliver
a stream in pieces cut anywhere. In `Rpc` several threads are inside `CallMethod`
at once, services answer in any order, a foreign peer sends malformed frames and
the connection may end (`ConnectionEnds`). A call that the server refuses comes back as
an error, which `RpcChannel.cc:106-113` drops: its closure runs on an empty response.
A service that answers after the end runs a closure with a plain pointer to a channel
that was freed (`RpcChannel.cc:139`); the model goes to `"dangling"` there and stops.
`Http` has the assertion of `setMethod` (`HttpRequest.h:55`): a line refused for what
follows its method stays in the buffer, and the next read comes to it again and aborts
(`halted`). `Date` walks the calendar by its rules and compares
`getJulianDayNumber` and `getYearMonthDay` with it, `TimeZone` walks time through
the transitions of several zones. An hour has `Hour` units of time there, and a file may
have any offsets; one that cannot be read or has no types, and sums beyond 32 bits
(`TimeZone.cc:199`), are left out.

### MCThreads and MCNet

The parts in these two share no state: a behaviour is of one of them, the
`subject`, and the others stay as they began. One run therefore explores the
sum of their state spaces, not the product. They are separate runs because the
parts of `MCThreads` are about threads and have fairness.

## 3. Runs

| Run | Bounds | Shows |
|---|---|---|
| `kcp_oneway` | windows 2, three messages from B, two datagrams to C | `NoSegmentLost`, `AcksTellTruth`, `WindowsHold`, `FifoSpec` with data overtaking data; three messages through a window of two make numbers leave the window |
| `kcp_fragments` | window 3, messages of 2 and 4 fragments, one duplicate | whole messages; `NoReassemblyDeadlock`, which the fragment limit is there for |
| `kcp_bothways` | a message each way, one duplicate | acknowledgements and data in one datagram, both ends parsing |
| `kcp_liveness` | send window 1, receive window 2, three messages | `EveryMessageArrives`: the window closes, the probe opens it |
| `tunnel_data` | two connections, two messages each way, one idle hour | `PayloadsInOrder`: order and isolation of the payloads |
| `tunnel_ids` | three connections, ids wrap past 0, one payload of D, one stray datagram | tables, waiting sessions and ids stay consistent over a control conversation that is taken to work: `EverySessionFound`, `NoSessionStarves`, `NoIdLeaked` |
| `threads` | loop: two addresses, two timers, one other thread, three calls, clock 0 to 2; pool: two workers, two producers with two tasks each, capacity 0 (unbounded) or 1; log: four lines, buffers of two, drop above two buffers, three seconds | `NoLostWakeup`, `TimerInv`, `PoolInv`, `NoMissedWakeup`, `LogFileInv`: no lost wakeup, functor, timer, task or line; `LoopServes`, `PoolServes`, `LinesReachDisk`: all of them get done |
| `net` | see below | each part by itself |
| `tunnel_release`, `tunnel_lost` | one connection | violations, see findings |
| `control_sent` | two commands each way | violation, see findings |
| `poller_assert` | two descriptors | violation, see findings |

The invariant that a run checks for a part is the conjunction of its type
invariant with the named parts that the table of `net` lists; each part has a
comment of its own in the module. In `threads`, `TimerInv` is `TimerSetsAgree`,
`ExpiredAreAlive`, `TimerfdArmed` and `CanceledStaysOut`; `PoolInv` is
`StartedHasTid` and `TasksConserved`; `LogFileInv` is `BuffersSuffice`,
`LogConserved` and `NamesDiffer`; `LoopServes` is `FunctorsRun`, `TimersFire` and
`QuitEndsLoop`; `PoolServes` is `TasksRun` and `StopReturns`.

Bounds and properties of `net`:

| Subject | Bounds | Properties |
|---|---|---|
| poller | descriptors 0 and 3, event list of 1 growing to 2 | `PollerInv`: `SlotsAreRight`, `PollersAgree`, `ActiveAreRegistered` |
| server | two clients, one descriptor for them besides the spare one, no or one I/O loop, two calls of the user (`forceClose` only from the timer of `forceCloseWithDelay`), messages of two bytes, high water mark 2 | `AssertionsHold`; `TeardownInv`: `UpThenDown`, `TableAgrees`, `TeardownQueued`; `StreamInv`: `BytesInOrder`, `ShutdownAfterData` |
| client | two calls of `connect(2)`, two of the user (`disconnect`, `stop`, keeping a pointer, `forceCloseWithDelay`), delays 1 to 3 | `ClientInv`: `ClientAssertionsHold`, `OrphanIsClosed`, `AlwaysTrying`; `StopIsFinal` |
| buffer | two byte values, calls of up to two bytes, four readable bytes, front room 2 | `BufferInv`: `ContentIsQueue`, `SearchSeesContent`, `FramingRoundTrip` |
| rpc | two threads, two calls of a method that exists or not, one malformed frame, frames up to 4 | `RpcInv`: `FramesInOrder`, `AnswersMatch`, `AtRestAllAnswered` |
| http | four lines out of seven | `HttpInv`: `ResponsesInOrder`, `AnsweredAtRest`, `MethodSetOnce` |
| date | eight walks of 800 days, over leap years, 1700, 1900, 2000, 2100, 2400 and 1970 | `CalendarInv`: `JulianAgrees`, `UtcRoundTrip` |
| zone | four zones (none, New York, London with its local mean time and 1968 to 1971, Lord Howe with half an hour of summer time), 60 hours in half-hour steps over all transitions, before and after the epoch | `CalendarInv`: `LocalRoundTrip`, `ClockFollowsTransitions` |
| log | two threads, a buffer of 11, one insertion of a text of 3 or of the extreme 5-bit numbers | `LineInv`: `InsideBuffer`, `NewlineUnlessFull`, `NumbersReadBack`, `StampIsOfItsSecond`, `MarkTellsZone` |
| timing | a clock modulo 64 that starts before its wrap, two segments, delays up to 3, a peer's window of 0 or 3, the configuration of the tunnel and the one that negative arguments of `ikcp_nodelay` leave | `TimingInv`: `FlushWithinInterval`, `CheckMissesNothing`, `EstimateIsOfOneCopy`, `BackoffInBounds`, `WindowIsBacked` |
| wire | three acknowledgements in blocks of two, a large and a small segment, the number 2^32 - 1, an mtu that both do not fit, five cuts | `WireInv`: `AcksSurviveGrowth`, `FlushReadsBack`, `CutAppliesPrefix`, `OnlyLastSnRefused` |
| seqnum | 4-bit numbers, three wraps | `ComparisonsExact`, and the inductive `SeqInv` |

The bounds let each part meet its hard cases: a buffer that must move its
data and one that must grow, a list of acknowledgements that grows, a queue at
its limit with both sides waiting, an address used again while an old id is
around, a file rolled by size and one by period, a process out of descriptors,
a client destroyed in each state of its connector.

Some properties are stated with a restriction, because the code makes no promise
beyond it, and the model reaches what is beyond:

* `NoLostWakeup`: for functors queued once `loop()` has begun. What the init
  callback of `EventLoopThread` queued may wait for the next event, at most for
  `kPollTimeMs`; `FunctorsRun` holds for it too.
* `SlotsAreRight`: the slot of a channel without events is negated, but for one that
  was disabled before it was ever enabled; see the finding of `poller_assert`.
* `AssertionsHold`: for a connection on which the user has not stopped reading, nor
  started it once it was down (`Untouched`), while the server lives. A `startRead` on a
  closed connection that still exists, or one that a close overtakes, enables its
  channel again (`TcpConnection.cc:303`), and `Channel::remove` asserts that there
  is no interest left (`Channel.cc:61`); so does a connection that is `kDisconnecting`
  when `~TcpServer` destroys it. The model reaches both.
* `ClientAssertionsHold`: unless a timer fires sooner than it is meant to, a client is
  destroyed with its connection while a functor of its `Connector` is still queued
  (`TcpClient.cc:91`: no timer is set on that path), or the user lets go of the last
  pointer to an open connection. Even then only the lifetime of the `Connector`
  or `assert(!channel_)` in `connecting` goes wrong.
* `OrphanIsClosed`: a connection whose client has gone may stay open as long as the
  user holds it, since `~TcpClient` closes it only if it is `unique()`.
* `AnswersMatch`: a refused call is answered with an empty response.
* `AtRestAllAnswered`: on a connection that is up and had no malformed frame.
* `MethodSetOnce`: the assertion of `setMethod` does fail, on a connection that the
  server has shut down after a refused line, when the client goes on writing.
* `MarkTellsZone`: if the zone is set before the first line; the second that a
  thread has cached is not formatted again.
* `AnsweredAtRest`: when no request arrives together with a part of the next,
  since `onMessage` parses one request for each read.
* `LocalRoundTrip`: says when the time comes back and when not. It does not where a
  local time comes twice for another reason than the end of a summer time of one
  hour, which is all that `fromLocalTime` repairs: London in October 1971, Lord Howe
  every year. Transitions are further apart than the two move the clock
  (`ZoneAssumption`).
* `BackoffInBounds`: for a wait that is shorter than half of the clock's range. A
  wait that grows beyond it would look as if it were over; the run has none.
* `TasksRun`: while the pool is not stopped; `stop` does not notify `notFull_`, so
  a producer blocked by a full pool waits for ever (`ThreadPool.cc:82`).
* `LogConserved`: lines that `stop` leaves in the buffers, or that were dropped
  with buffers above the limit, are not written.
* `QuitEndsLoop`: for a loop that is looping, as the comment in
  `EventLoop::quit` says.

One datagram in flight still allows loss; two allow reordering; a duplicate
arrives beside the original. A sequence number goes through all its roles (below,
in and beyond the windows, retransmitted, acknowledged twice) with three
messages and a window of two. Connections are interchangeable, so `tunnel_data`,
`tunnel_ids` and, for the server's connections, `net` use symmetry; the runs with
liveness do not.

Deadlock is checked in the `Kcp` runs, where `Update` is always possible, and in
`poller_assert`. The others say
`CHECK_DEADLOCK FALSE`: in `threads` and `net` a loop may have quit, a pool or a
logger may have stopped and calls, lines and clocks end at their bounds, and in
`Tunnel` and `ControlSession` all clients may be gone or a process may have
ended. That nobody waits for ever in `threads` is what `TasksRun`, `StopReturns`,
`QuitEndsLoop` and `LinesReachDisk` say.

Fairness. In `Kcp`, `InputSegment` and `InputDone` are weakly fair because a
handler runs to its end; `Update` because the 10 ms timer keeps calling it;
`TimedUpdate` strongly because the clock passes every timeout again and again;
`Recv` because a user reads until nothing is left, as `KcpTest/KcpSvr.cpp`
does (the data sessions of the tunnel read once for each datagram, so
`EveryMessageArrives` is a promise of `ikcp.c` and not of them); `DeliverAwaited` strongly because a network that
loses every copy of what an endpoint waits for can carry nothing. No fairness
is given to `Send` or `Duplicate`. `Tunnel` has no fairness: the code does not move a
command at all (`control_sent`), so that every connection gets an id, or every unused
id is released, is nothing it promises, and only safety is stated.
In `MCThreads` the loop, a thread inside a call, the clock, a thread being
started, `join`, the workers, a producer inside `put` and the logging thread are
weakly fair, because the scheduler runs every thread that can run; a thread that
waits for a condition is disabled until it is notified. Nothing makes a user call
anything, and a spurious wakeup is not fair.

## 4. Findings

* `control_sent`: no command leaves the process, since nothing updates the
  control KCP object; `main.cpp:16` says the signalling is reliable.
* `tunnel_lost`: `connectSvr` does not store its callback, so the first
  connection to D that ends, or fails to come up in 3 s, ends the server.
* `tunnel_release`: the first data of D can overtake the answer that names
  the session; the proxy then releases the id it is about to use.
* `poller_assert`: a channel that is disabled before it was ever enabled gets a slot
  with its plain descriptor, and `PollPoller::removeChannel` asserts a negated one;
  `~Acceptor` of a server that was never started does this.

`tunnel_lost` and `tunnel_release` are about handlers that run only once the first
finding is repaired: they assume a control conversation that works.

## 5. Proofs

Every theorem holds for all values of the constants that the named assumptions
allow; TLC evaluates these assumptions in the runs. A module of proofs states an
inductive invariant, one lemma for each action that the action keeps it, and
theorems that give the properties of section 3. TLC was used to try the
inductive invariants of the larger components on the instances of the runs
before they were proved.

| Module | Theorems | States | From |
|---|---|---|---|
| `KcpProof` | `CoreInvariant`, `TypeCorrect`, `SegmentsAreKept`, `AcksAreTrue`, `WindowsAreKept`; `ContentInvariant`, `NoDeadlock`, `FifoRefinement` | `CoreInv`, `TypeOK`, `NoSegmentLost`, `AcksTellTruth`, `WindowsHold`; `ContentInv`, `NoReassemblyDeadlock`, `FifoSpec` | `KcpAssumption` |
| `TunnelProof` | `TunnelInvariant`, `TypeCorrect`, `SessionsAreFound`, `SessionsDoNotStarve`, `IdsAreNotLeaked`, `PayloadsStayInOrder` | `TunnelInv`, `TypeOK`, `EverySessionFound`, `NoSessionStarves`, `NoIdLeaked`, `PayloadsInOrder` | `ChannelsAssumption`, `ProxyAssumption` |
| `EventLoopProof` | `LoopInvariant`, `WakeupsAreNotLost`, `TimersAreConsistent` | `LoopInv`, `NoLostWakeup`, `TimerInv` | `TimerAssumption`, `LoopAssumption` |
| `ThreadsProof` | `PoolInvariant`, `WakeupsAreNotMissed`, `PoolIsSafe`; `LoggingInvariant`, `LogIsConserved` | `PoolCore`, `NoMissedWakeup`, `PoolInv`; `LogCore`, `LogFileInv` | `PoolAssumption`, `ThreadsAssumption`; `LoggingAssumption` |
| `TcpProof` | `ServerInvariant`, `AssertionsDoHold`, `TeardownsAreOrderly`, `StreamsAreKept` | `ServerInv`, `AssertionsHold`, `TeardownInv`, `StreamInv` | `ConnectionAssumption`, `ServerAssumption` |
| `TcpClientProof` | `ClientsKeepTrying`, `StoppedClientsStayStopped` | `ClientInv`, `StopIsFinal` | `ConnectionAssumption`, `ClientAssumption` |
| `NetProof` | `SeqInvariant`, `ComparisonsAreExact` | `SeqInv`, `ComparisonsExact` | `SeqNumAssumption` |
| | `PollersStayInStep` | `PollerInv` | `PollerAssumption` |
| | `BufferIsQueue` | `BufferInv` | `BufferAssumption` |
| | `TimersAreRight` | `TimingInv` | `KcpTimerAssumption` |
| | `DatesAreRight`, `ZonesAreRight`, `CalendarIsRight` | `DateInv`, `ZoneInv`, `CalendarInv` | `DateAssumption`, `HourAssumption`, `ZoneAssumption` |
| | `LinesAreRight` | `LineInv` | `LineAssumption` |

### KcpProof

`KcpAssumption` says that windows and overhead are positive and that the mtu
exceeds the overhead. `NoSegmentLost` is not inductive: a segment leaves
`snd_buf` when an acknowledgement arrives, so the proof needs that every
acknowledgement in `acklist`, in a datagram under way or in the part still to be
parsed is true (`AcksTellTruth`). That in turn needs that `rcv_nxt` never goes
back and that what `ikcp_input` acknowledges `ikcp_parse_data` keeps, and the
window bound needs `BufInRange`. `CoreInv` is their conjunction. The lemmas state
what `ParseUna`, `ParseAck`, `ShrinkBuf`, `MoveToQueue`, `FlushedBuf` and
`Datagrams` do.

That `Kcp` implements `Fifo` needs to know the content of every copy.
`ContentInv` says for each direction that a segment with number `sn`, in
`snd_queue`, `snd_buf`, a datagram, `rcv_buf` or `rcv_queue`, is fragment `sn + 1`
of what was sent (`Sending`, `Travelling`, `Receiving`), and that what was sent
is the accepted messages one after the other (`Framing`). Framing avoids an
induction over the messages: it says of each fragment that the rest of its
message follows it, and of each end of a message that the next one starts
there. The refinement mapping is the identity on `accepted` and `delivered`:
`Send` and `Recv` map to the steps of `Fifo`, all other actions to stuttering.
`NoDeadlock` follows because `ikcp_send` refuses a message of `RcvWnd` fragments
or more, and the fragments in a full `rcv_queue` start where a message starts.

### TunnelProof

`ChannelsAssumption` says that fewer connections come in a run of the program
than there are ids, 2^32 in the code; the first id is any, so the counter of C
may wrap. `FreshIds` says that the ids which the counter will come to have left
no trace: they are counted from the present id (`Distance`) and compared with
the requests that can still come (`Remaining`). `IdsDistinct` follows, and with
it that an answer goes to one connection only although it is given to whichever
waits first. `PayloadsInOrder` needs `ServerInv` (what C holds for an id before
it is used and before D is connected) and `DownInv` (what D sent before B knew
the id).

### EventLoopProof

`LoopInv` says who owns an address: a functor that will insert the timer
(`Queued`), the two sets (`Waiting`), or `expired` (`Running`), and only one of
them. An id of a timer that was deleted carries an old sequence number, so
`cancelInLoop` does not find it although the address is in use again. `Armed` is
`TimerfdArmed` for each waiting timer, and `Wakes` extends `NoLostWakeup` from
`poll` to all the places of the loop between a swap of the functors and the
next `poll`; the functors of the init callback are counted out until that swap has
taken them. `Due` and `DueOrders` in `TimerQueue` are what `getExpired` takes, in
the orders that a `std::set` of pairs can give.

### ThreadsProof

`PoolCore`: the queue holds the youngest tasks and every other one is with one
thread or done (`Tasks`), and the threads that are awake are enough for the
tasks, and the producers that are awake for the room (`Served`). The counting
is what one `notify` for each `put` and `take` rests on; a spurious wakeup only
adds to it. `LogCore`: the lines are in four groups, files, buffers taken,
buffers full and the current one, each group older than the next (`Chain`); the
thread has two spare buffers when it swaps (`Spares`), which is why
`assert(newBuffer1 && newBuffer1->length() == 0)` holds; and names of files grow
with `lastRoll_`.

### TcpProof

`ServerInv` has two parts. For one connection, `Good` (record and streams) and
`Life` say what its state means for its callbacks, its channel and its bytes,
and there is a lemma for each member function of `TcpConnection` (`SendCall`,
`WriteFacts`, `CloseFacts`, `EventFacts` ...). For the server, `Stage` says where
the teardown of a connection is: not begun; `removeConnectionInLoop` waits in the
base loop; `connectDestroyed` is the last functor of the connection in its own
loop; over. `EventsFit` says that an event of the current batch finds its
connection open, or down with reading stopped and nothing to read or write,
which is what excludes a second `handleClose`. A connection on which
reading was started after its end (`restarted`) may have interest and events again;
for the others `Life` says that there is none once they are down. `Queues` says that
`connectEstablished` is all that may wait for a connection being set up. A step
is about one connection, so the lemmas on queues (`Moved`, `StageOthers`,
`OneConnection`) show once that it does not disturb the others. The theorem
covers any number of I/O loops.

### TcpClientProof

The lemmas on member functions are those of `TcpProof`. `ClientIInv` adds the
`Connector`: its channel is registered while it connects and a retry is due only
when it does not (`ConnectorShape`), `resetChannel` runs before it may connect again
(`ChannelHolds`), and without its client it was stopped or has connected
(`StopHolds`). `RemoveHolds` counts the rounds of the loop until the timer of
`~TcpClient` lets the `Connector` go, which is why a `stopInLoop` or `resetChannel`
queued before finds it alive; a timer that fires sooner sets `tooSoon`, and only then
may something go wrong with the `Connector`. `Links` and `Held` say that every
connection is open, or closed with `connectDestroyed` queued once, and that one without
its client is on its way to be closed or held by the user. Timers and pointers of the
user are bounded by nothing in the theorem. A program whose assertion failed takes no
step, so the parts of `ClientInv` that speak of failures are all that is left to show
(`Abandoned`). `StopIsFinal` is an action property and follows from `StopHolds`.

### NetProof

*Pollers.* `PollerIInv` adds to `SlotsAreRight` that every slot of `pollfds_` has
its channel (`SlotsOwned`), which is what the swap with the last slot in
`removeChannel` could break; what the kernel holds for each state of a channel of
`EPollPoller` (`KernelRight`); which slots have their plain descriptor although they
report nothing (`SilentRight`); and that a round reports a channel once
(`RoundRight`). The pollers then agree for any set of descriptors.

*Buffer.* `Represents(b, c)` says that the bytes between the indices of `b` are the
queue `c`; there is a lemma for each operation, for every size, room in front and
length of a call. That an integer comes back from network order is proved for
every length by the induction and recursion lemmas of `DataFacts`, which are
stated over sets in place of operators.

*Timing.* `KcpTimerAssumption` says that a stall plus an interval, and the delay
of the network, are shorter than half of the range of the clock: about 24 days
at 32 bits. `TimingIInv` says that `current` and `ts_flush` are the readings
(`ClockAt`) of the true time of the last update and of one at most an interval
later, and that each copy carries the time it was sent at; `DiffIsTrue` turns
`_itimediff` of two readings into the difference of the true times. The
bounds on the estimate, the timeout and the window are invariants of their own
fields (`KcpRight`).

*Dates.* `getYearMonthDay` undoes `getJulianDayNumber` for every year: a day is
written as q times 400 years, r centuries, s cycles of four years, t years and e
days (`Counted`), and each of the divisions of the code finds one of them
(`Centuries`, `YearsOfCentury`, `MonthOfDay`). The numbers of successive days are
successive (`NumberOfNextDay`), so the walk through the calendar keeps `DateIInv`,
and the first of January is right from 1600 on by induction over the years
(`FirstOfYear`). The remainder of a time before 1970 borrows a day (`TimeSplits`).

*Zones.* `ZoneAssumption` is what the table of a zone needs to be searched by local time:
a transition comes later than the one before it by more than the two of them move
the clock. Types, offsets, the order of summer and standard time and the first type
are any. Both keys of the table are then sorted (`KeysSorted`), so that `findLocaltime`
gives the type after the transitions passed (`FindsType`). Where the clock is set
back the local time is found after the transition; the repair of `fromLocalTime` takes
off an hour if summer ends there, and `LocalLeadsBack` shows for the other transitions
that the time does not come back.

*Log lines.* `LineAssumption` says that a number with its sign or its `0x` and a NUL
fits `kMaxNumericSize`. Read from the front, the first j digits of a number are what
the loop of `convert` had left j turns before its end (`DigitsReadBack`), so the text
reads back as the value, negative ones too, for every length. `LogStepInv` says of
each thread that its text is of the second it remembers and, until the zone is
changed after a line, of the zone that is set (`CachedTime`), and of the line that
each piece in it is right (`StreamRight`); the lemmas are about the insertions.

### Only model-checked

Liveness, which is beyond the prover; `Rpc` and `Http`, whose recursive operators
the prover cannot take; `WireInv` of `KcpWire`, which rests on what folds compute
for every input; and `ControlSession`, whose one run is about a violation.

## 6. Not modelled

* Of `ikcp.c`: stream mode (nothing sets `stream`), `ikcp_setmtu`, `ikcp_wndsize`
  and `ikcp_waitsnd` (never called), its logging and allocator hooks.
* Of the tunnel: a restart of B or C, after which nothing of the old process is
  left to resume; the one `ikcp_recv` per datagram of the data sessions (listed as a
  hazard with the reason); the
  `CMD_DESTROY_SESSION` branch of B, which nothing reaches; the creation of
  sockets and the parsing of options.
* Of muduo: `SocketsOps`, `Socket` and `InetAddress`, thin wrappers of system
  calls whose results are choices in the modules that call them; `inspect`,
  `ProcessInfo`, `FileUtil`, `GzipFile` and `ZlibStream`, which read `/proc` or
  wrap a library and are not used by the tunnel; `Mutex`, `Condition`, `Atomic`,
  `ThreadLocal` and `Singleton`, which are the atomicity of the models; the
  bytes of a zone file; the formatting of floating point numbers and of `Fmt`,
  which is `snprintf`; protobuf serialisation.
* The test programs, read as documentation of how the parts are used.

## 7. Plan

Done: KCP with its abstract specification, timing, bytes and sequence numbers; the
tunnel and its control session; the parts of muduo named above; the proofs of
section 5.

1. A proof about `AcksSurviveGrowth` of `KcpWire`.
2. A data session over `Kcp` that reads one message per datagram; `Kcp` with
   an endpoint that restarts (`main.cpp:9`).
