# TLA+ models of modbus_pp

This directory models modbus_pp, a C++17 Modbus library: a pipelined transaction manager
with correlation ids, a client and a server, a publish/subscribe layer, three byte
transports, the procedures of the client that take several exchanges (scan and
handshake), and the codecs down to the bytes of a frame. The modules are checked with TLC
on small instances; the properties that matter most of six of them are also proved with
TLAPS for every value of the constants.

`PROJECT.json` maps every definition to the lines it models and lists the runs, the
faulty variants each property catches, the hazards and the theorems.

## 1. The system

### Components

| component | state | operations |
|---|---|---|
| `CorrelationIDGenerator` (`pipeline/correlation_id.hpp`) | a 16-bit atomic counter, first id 1 | `next` |
| `RequestQueue` (`pipeline/request_queue.hpp`) | a map from id to pending request, under a mutex; a size limit | `insert`, `remove`, `remove_expired`, `cancel` |
| `Pipeline` (`pipeline.cpp`) | a queue, a generator, statistics, the shared transport | `submit`, `submit_sync`, `poll`, `cancel` |
| `Client` (`client.cpp`) | transaction counter, session, a pipeline and a subscriber over the same transport | `transact` and the calls built on it, `authenticate`, `discover` |
| `Server` (`server.cpp`) | `running_`, two handlers, a publisher | `process_one`, `run`, `stop` |
| `Publisher` (`publisher.cpp`) | data sources with their last values, subscriptions, an id counter, under a mutex | `register_data_source`, `accept_subscription`, `remove_subscription`, `scan_and_notify` |
| `Subscriber` (`subscriber.cpp`) | handlers by subscription, under a mutex | `on_event`, `remove_handler`, `poll` |
| `LoopbackTransport` | two shared queues with a mutex and a condition variable, `connected_`, injected errors | `send`, `receive`, `connect`, `disconnect` |
| `TcpTransport`, `RtuTransport` | descriptor, `connected_` | `send`, `receive`, `connect`, `disconnect` |
| `FrameCodec`, `PDU` | none | wrap and unwrap, serialise and parse, CRC16 |
| `Scanner` | none | `probe`, `scan`, `scan_async` |
| security (`HMACAuth`, `Session`, `CredentialStore`) | session key and expiry, secrets | digests, handshake of `Client::authenticate` |
| register map, batch requests, type codec, byte order | none | pure algorithms |

### How they interact

* `Pipeline`, `Subscriber`, `Client::transact` and the `Scanner` of one client **share
  one transport**. Each of them takes whatever frame is next, so each can consume
  another's.
* `Pipeline::submit` runs in the caller's thread; `poll` runs callbacks in the thread
  that polls, outside the queue's mutex. `submit_sync` polls in a loop until its own
  callback has set a local flag.
* The server's `run` alternates `process_one` (a request, its handler, its reply) with
  the publisher's `scan_and_notify`, which pushes event frames on the same transport.

### What is hard, and what makes it correct

* **Pipeline**: threads interleave between the send and the insert of `submit`, and
  between taking a request out of the map and running its callback; responses come in
  any order, late or never; ids wrap around. Correct means: one outcome per request,
  the right one, nothing forgotten, nothing after a refusal, and nothing that outlives
  the stack frame it refers to.
* **Client and server**: one receive per call, with a timeout; late responses and event
  frames are consumed by the next call; replies are lost silently. Correct means: a
  call returns the response to itself, a read sees the acknowledged writes, `stop` ends
  the loop.
* **Publish/subscribe**: baselines that move on every scan, a handler called with a
  mutex held, frames drained that belong to others.
* **Transports**: wake-ups, disconnection while a receiver is blocked, framing over a
  byte stream, descriptors after an error.
* **Procedures**: late answers of one unit or handshake taken for those of the next.
  Correct means: what is reported of a unit is true of it, and both sides of a session have
  the same key.
* **Algorithms**: 16-bit addresses and lengths that wrap, byte orders that must be
  inverse to each other.

The hazards, each at its line, are in `PROJECT.json`.

## 2. The modules

| module | models | checked by | proofs |
|---|---|---|---|
| `RequestLifecycle` | abstract: the life of a request | `pipeline_threads` | `PipelineProofs` |
| `Pipeline` | `Pipeline`, `RequestQueue`, `CorrelationIDGenerator` | `pipeline_*` | `PipelineProofs` |
| `ClientServer` | `Client::transact` and the register calls, `Server` | `client_server*` | `ClientServerProofs` |
| `PubSub` | `Publisher`, `Subscriber` | `pubsub*` | `PubSubProofs` |
| `FrameChannel` | abstract: what a transport promises | `loopback` | `LoopbackProofs` |
| `LoopbackTransport` | the in-process transport | `loopback` | `LoopbackProofs` |
| `StreamTransport` | `TCPTransport`, `RTUTransport` | `streams` | `StreamProofs` |
| `ClientProcedures` | `Scanner`, `Client::authenticate`, `HMACAuth`, `CredentialStore` | `procedures` | `ProceduresProofs` |
| `WireFormat` | `PDU`, `FrameCodec`, CRC16 | `batch_read` | `CodecProofs` |
| `RegisterCodec` | `endian.hpp`, `TypeCodec`, `RegisterMap` | `batch_read` | `CodecProofs` |
| `BatchFormat` | `BatchRequest`, `BatchResponse` | `batch_read` | `CodecProofs`, `BatchProofs` |
| `BatchRead` | composes the three codecs in one exchange | `batch_read` | `BatchProofs` |

The `MC*` modules name the elements of the instances for TLC. How the layers fit: the
clients of a transport (`Pipeline`, `ClientServer`, `PubSub`, `ClientProcedures`) assume
queues of whole frames in order. `LoopbackTransport` implements that (`FrameChannel`);
`StreamTransport` shows when TCP and RTU do; `BatchRead` shows that the frames carry
what was put into them.

### Pipeline

`Pipeline` models `Pipeline`, `RequestQueue` and `CorrelationIDGenerator` together.
A step is one critical section of the queue's mutex, one atomic operation or one call of
the transport; what lies between two of them touches only locals of the thread, or
sets only the flag of a synchronous call (its local mutex makes that one step too).

| code | model |
|---|---|
| `counter_`, ids of frames and queue entries | `counter`, `id` (modulo `IdModulus`, 2^16 in the code) |
| `pending_` | `pending`, a set of requests; `Find(i)` are its entries with id `i`; `Emplace` leaves the map alone when the id is present, as `unordered_map::emplace` does |
| `sent_at`, `timeout`, the deadline | `age`: 0 fresh, 1 expired for `remove_expired`, 2 also past the deadline of `submit_sync`, which is computed later than `sent_at` |
| the thread's position and locals | `pc`, `cur`, `frame` (received by `poll`), `hold` (matched by it), `due` (expired ones it took out) |
| the flag `done` and the result of `submit_sync` | `done`, `got` |
| what the caller learns | `ret`, and for the callbacks `calls` and `got` |
| the transport | `outbox`, `inbox` |

`submit` is `SubmitBegin` (take an id), `SubmitSend` or `SubmitSendFails`, then
`SubmitInsert`, `SubmitSyncInsert` or `SubmitOverflow`. `poll` is `PollReceive`,
`PollUnmatched` or `PollMatch`, `PollCallback`, `PollSweep`, and one `PollExpire` per
expired request. `submit_sync` goes on with `PollEmpty` or a whole `poll`, `SyncDone` or
`SyncWaitEnds`, and `SyncPollAgain` or `SyncGivesUp`. `PollEmpty` is a receive that gives
nothing: there is no frame, or it fails with frames waiting. A `poll` of an event loop
that receives nothing changes no state and is not an action. Statistics are left out.

External: a device answers each request frame at most once, at any time and in any order
(`PeerAnswers`), or never; frames for the transport's other users arrive
(`ForeignFrame`, some of which the pipeline cannot parse); time passes (`Age`).

`RequestLifecycle` is the abstract specification: a request is refused or accepted once,
leaves the queue once (matched, expired or dropped), and only a matched or an expired
one runs its callback, once, with that outcome. `Pipeline` defines the refinement mapping
(`StageOf`) and states the implementation as `LifecycleSpec`. `MCPipeline` names the
threads and requests for TLC.

### ClientServer

`ClientServer` composes `Client::transact` and the register calls with the loop of
`Server::run`, over the two queues of a transport pair.

| code | model |
|---|---|
| the queues of the transport | `toServer`, `toClient`, in order |
| `next_transaction_id_`, the call under way | `txn`, `call`, `at` |
| result of a call | `last`: outcome of `transact`, value read, and the frame it consumed |
| the registers behind the handlers | `store`; `Unreadable`, `Unwritable` are the addresses for which a handler returns an error |
| `Server::run`, `running_` | `loop`, `running` |
| reply that `handle_request` is about to send | `reply` |

`quiet` and `possible` are history: the call began with no frame under way, and the
values a register may have as far as the client can know. The handlers are called from
the server's thread only, and a client is used by one thread (its transaction counter is
a plain integer). An address stands for the whole range a call names. `SubscriberPoll`
is a turn of `Subscriber::poll` as the transport sees it: it takes a frame, at any time,
also the one that a call under way waits for. The publisher is a choice of sending an
event frame or not in each turn of the loop.
Transaction ids do not wrap in the model, which makes at most `MaxCalls` calls; no code
reads them except to copy them into the reply.

### PubSub

`PubSub` composes the publisher and one subscriber over the transport that carries event
frames; nothing else uses that transport here (what the other users take from each other
is the subject of `ClientServer`). `MCPubSub` gives the sources and the requests for TLC.

| code | model |
|---|---|
| `sources_` | `Sources`, a constant sequence: sources are registered before the first scan |
| `last_values`, `has_baseline` | `baseline`, `None` before the first scan of the source |
| `subscriptions_`, `next_sub_id_` | `subs`, in order, and `nextId` |
| the publisher's mutex and where `scan_and_notify` is | `at` (the mutex is held while it is not `"idle"`), the loop indexes `src` and `sub`, the values read `current` |
| `last_notified` against the clock | `elapsed`: the subscriptions whose interval has passed since |
| what the readers return | `registers`, which change at any time |
| the transport | `wire` |
| `handlers_`, the subscriber's mutex | `handlers`; the mutex is held while a poller is at `"run"` |
| `poll`'s position and the event it parsed | `pc`, `event` |

`scan_and_notify` is `ScanBegin`, then for each source `ScanRead`, for each subscription
`ScanSkip` or `ScanNotify` followed by `ScanSend` or `ScanSendFails`, and `ScanSource`
with the new baseline. Reader calls and sends are steps because the registers change and
frames are received between them. `poll` is `PollReceive`, then `PollCall` and
`HandlerReturns`, or `PollNoHandler`, and begins again; frames that are not events are
left out, `poll` skips them. A turn of `poll`'s loop that receives nothing ends the call
and changes nothing.

`noted`, `unsent` and `seen` are history: the values each subscription was last notified
of, whether that notification failed to be sent, and what its handler was last called
with. They exist only for the properties. Subscription requests reach
`accept_subscription` by a direct call: the source has no wire message for them.

### LoopbackTransport and FrameChannel

`LoopbackTransport` models the pair of endpoints made by `create_pair`, with any number of
threads that call `send` and `receive` on them while others connect, disconnect and inject
errors.

| code | model |
|---|---|
| `connected_`, `next_error_` | the same, per endpoint |
| `rx_queue_->messages` | `queue`, per endpoint |
| a thread's position | `pc`; a sender's argument is `frame` |
| what went through a queue | `pushed`, `taken` (history) |

A step is one critical section or one access to an atomic. `notify_one` is called after
the unlock (`loopback_transport.cpp:58`) and is a step of its own, `SendNotify`. The wait of
`receive` is split where the mutex is given up: `ReceiveSleep`, then `SendNotify`,
`Disconnect`, `SpuriousWake` or `TimeRunsOut`, then `ReceiveTake`, `ReceiveSleep` again or
`ReceiveGivesUp` with the mutex held. The latency is the time between two steps.

`FrameChannel` is the abstract specification: what is received is a prefix of what was sent.

### StreamTransport

One endpoint that finds frames in a stream of bytes, of either class (`kind`). A byte is a
cell `<<k, i>>`, the i-th piece of the k-th frame of the peer on this connection, so a
property can say which bytes of which frame a `receive` returned.

| code | model |
|---|---|
| `connected_`, `socket_fd_` or `fd_` | `connected_`, `fd` (0 for -1) |
| descriptors of the process | `open`, `opened`; `broken` (history) are those on which a call failed |
| the call under way, its buffer and what it has still to read | `pc`, `buf`, `need` |
| results of `receive`, and what each `send` has written | `got`, `out` (history, per connection) |
| the peer and the line | `fed`, `arrived`, `line`, `hungup` |

A step is one system call. TCP's `send` writes in any portions; its `receive` reads a
header and then the body the header declares, each in any portions (`ReadHeader`,
`ReadBody`), whatever the header says: frames of the instance declare nothing, too
little, or the truth. RTU writes once, and reads until `poll` has been quiet for 5 ms
(`ReadChunk`, `MoreReady`, `MoreQuiet`, `MoreFails`). `connect` after a failure overwrites
the descriptor, as the code does. One thread uses a transport: the code has no lock, and
the frames of two sending threads would interleave (`tcp_transport.cpp:103`). SIGPIPE is
taken to be ignored, so a write to a closed connection fails; otherwise it ends the process.

### ClientProcedures

`Scanner::scan`, `scan_async` and `probe`, and `Client::authenticate`, in any order over
one link to several units. Each step sends a request and takes the next frame that
arrives for its answer, or gives up; the late answer stays under way. A send that fails
may have left its request on the link (`ProbeFails`, `AuthenticateFails`) or not
(`ProbeNotSent`, `AuthenticateNotSent`, `ChallengeNotSent`).

| code | model |
|---|---|
| position of the call, the unit it is about | `at`, `id` |
| the result of a scan, the entry being filled in | `devices`, `info`; `probes` (history) |
| nonces of `authenticate`, `session_` | `nonces`, `session` |
| frames on the link | `toUnits`, `toClient` |
| what is known afterwards | `calm`, `smooth`, `outcome`, `confirmed` (history) |

An HMAC is the tuple of what it was computed from: two are equal when their arguments
are. The units are external: they do the server's part of the handshake as
`session.hpp:6-10` describes it, standard units refuse extended functions, and the link
serves requests in turn or not (`inTurn`).

### WireFormat, RegisterCodec, BatchFormat and BatchRead

The pure algorithms, as operators on bytes and registers. `WireFormat` has `serialize` and
`deserialize` with their optional fields and the two framings, the CRC bit by bit (a CRC, like
a byte that is added to it, is the set of its ones, so that exclusive or is the difference
of two sets and a shift moves the elements);
`RegisterCodec` the four byte orders, the typed values and the layout of a `RegisterMap`
with its static assertions; `BatchFormat` `optimized` (with every order `std::sort` may
leave items of equal address in) and both messages. Addresses, counts and lengths keep
their sixteen bits.

`BatchRead` uses all of them in one exchange. A device writes typed values into the
registers of a map (`WriteValue`); the client asks for the ranges, merged or not, with a
timestamp or not (`Ask`); noise may change the frame (`Noise`: one bit, or two at most five
apart, on a serial line; a missing end on TCP); the device answers (`Serve`) and the client
reads the values back (`Receive`). The device is external: it answers each item with the
registers named. A float is its bit pattern.

`BatchAssumption` says what the properties take for granted of the maps and values
(`SoundMap`), because the code does not check it: a range ends before the address space
does and is long enough for its type, a string is of ASCII characters other than 0 and fits
its registers, and the frames of a batch fit their length fields of sixteen bits. A request
has six bytes for each item, so a map has fewer than 8192 descriptors; a response has five for
each item and two for each register, and they stay below 65492.

### The proof modules

One per component, and `CodecProofs` for what the codecs do by themselves; they extend the
component's module and are described in section 4.

### Faulty variants

A definition preceded by one of almost the same name (`PollMatchFinds` before
`PollMatch`) has a faulty variant: a plausible bug at that place. Replacing the
definition by the variant makes TLC find the property listed for it in `PROJECT.json`
violated, so each property is known to depend on the code.

## 3. The runs

| run | configuration | shows |
|---|---|---|
| `pipeline_threads` | 2 threads, 1 synchronous and 2 asynchronous requests, limit 2, 4 ids, 1 foreign frame | one outcome per request and the right one, no callback after a refusal, nothing forgotten, the capacity bound; the lifecycle is implemented |
| `pipeline_one_thread` | 1 thread, 2 synchronous requests (one with timeout 0) and 1 asynchronous, limit 2, foreign and unparseable frames | `submit_sync` ends and leaves nothing behind, a response finds its request, a response in the transport settles its request |
| `client_server` | 2 calls, 2 addresses (one refused by the handlers), 2 values, the server's unit, broadcast and another unit, 1 event | what a call that began quietly returns; order of replies; `stop` ends the loop |
| `pubsub` | 1 source of one register, values 0 and 1, requests on change (one that goes beyond the end of the source) and on threshold, 2 subscriptions, 1 poller, a scan begins with at most 1 frame under way | the decision to notify still stands when it is sent, handlers do not run after their removal, a handler's last event is the last notification, and all is in step once the registers rest |
| `pubsub_sources` | 2 adjacent sources, requests on change and on threshold that cross from one into the next, a periodic one, 1 subscription, a scan begins with no frame under way | no subscription loses a change between two scans; a periodic subscription is notified once its interval has passed |
| `loopback` | 2 threads send at one endpoint, 2 receive at the other, 3 frames, 1 disconnect or injected error | the queue is a channel; no wake-up is lost, and no receiver sleeps on beside a frame |
| `streams` | either class; 4 kinds of frames (no body, two cells, a header that declares nothing, one that declares too little), 2 frames each way on a connection, 2 connections, 1 failure | frames come out whole and in order, nothing is written after a torn frame, which descriptors leak, when `receive` ends |
| `procedures` | units 0 to 3: one that shares the client's secret, one with another secret, one absent, one standard; a scan of 1 to 3, the greatest unit id; 3 calls | what a scan reports and the session a handshake makes are right under the conditions stated; a scan ends |
| `batch_read` | 5 maps with every type and byte order, contiguous and not, in descending order, near the end of the address space, and one that overlaps; 2 framings; real widths | values do not disturb each other, merged batches cover what was asked, damage is detected, what is read is what was written |
| `pipeline_expiry` | 1 thread, 1 asynchronous request | violated: an expired request is not cleaned up without a matching response |
| `pipeline_scope` | 2 threads, 1 synchronous and 1 asynchronous request | violated: the callback of a `submit_sync` that returned can still run |
| `client_server_txn` | as `client_server` | violated: a late response is returned by the next call |

### Bounds

`Pipeline`: two threads are what the races need: one in the middle of `submit`,
`submit_sync` or the sweep and one polling or cancelling. Three requests allow one that
matches, one that expires in the sweep that follows and one that is refused by a queue of
two. Four ids are one more than the requests, so ids do not wrap in these runs; the
theorems say what does not depend on that.

`ClientServer`: two calls give each call a predecessor that may have timed out and left its
response behind. The theorems need no bound on the calls.

`PubSub`: two subscriptions are what a removal in the middle of the loop needs, and one
frame left over from an earlier scan lets two events of a subscription be under way at
once (`MaxWire` bounds the frames when a scan begins; the scan itself sends as many as it
likes). Register values are only compared, so two of them are enough without a dead band.
The three kinds of requests and the two sources have a run of their own because all of
them together with two subscriptions are too many states. `CaughtUp` and `Converges` are
about one poller: with two, `poll` may dispatch in either order. `NotifiedOfLastScan` is
about sources that do not overlap; with overlapping ones a subscription belongs to both,
and hears of each in turn.

`LoopbackTransport`: two receivers let one take the frame the other was woken for; three
frames let a third arrive in between. With two endpoints the other direction is the same.

`StreamTransport`: a header of two cells can be cut in the middle, and so can a body of
two; two frames let the end of one and the beginning of the next be read together; two
connections let the second inherit what the first left. 2.1 million states.

`ClientProcedures`: three calls give a handshake a predecessor whose late answers it may
take, and a scan between them. The range ends at the greatest unit id, where the eight-bit
counter of the code would wrap.

`BatchRead`: the widths are those of the code and the values have different bytes in every
place. The maps reach the end of the address space without passing it: beyond it the code
wraps (below).

Symmetry is used in `pipeline_threads` only, which has no liveness property: both threads
and the two asynchronous requests are interchangeable there. Deadlock checking is on for
`PubSub`, which never stops. It is off elsewhere: the numbers of requests, frames, calls
and connections are bounded, so these models stop when everything has been done.

### Fairness

* `Pipeline`: a thread inside a call keeps going; a thread of `Pollers`, whose event loop
  calls `poll` for ever ("Call this from your event loop", `pipeline.hpp`), receives a
  frame that stays available; time passes for a request that is waiting. Nothing is
  assumed of the device or the network. `SyncTerminates` needs only the calling thread
  and the clock.
* `ClientServer`: the server's loop is scheduled, and a receive ends by its timeout at
  the latest. The loop's own `receive` waits 10 ms at most. Nothing obliges anybody to
  call `stop` or to make calls.
* `PubSub`: the server's loop, once in a scan, finishes it and begins another one
  (`Server::run` calls `scan_and_notify` in every turn), and the client keeps calling
  `poll`. Nothing is assumed of the registers or of sends, which may all fail; `Converges`
  is about subscriptions whose last notification was sent and came to a handler.
* `LoopbackTransport`: a sender that is about to notify does, and a receiver that is awake
  looks at the queue. Nobody has to run out of time, so `SleeperServed` owes nothing to the
  timeout.
* `StreamTransport`: the thread in `receive` runs, and the peer ends the frame it began: of
  a peer that stops in the middle nothing can be said, since only the first `poll` of
  `receive` has a timeout (the reads from `tcp_transport.cpp:131` on have none).
* `ClientProcedures`: the client's thread runs; every wait has a timeout. Nothing is
  assumed of the units or the link.

### What the checks found

Where the code and what is said of it differ, and a run shows it:

* `poll` reaches `remove_expired` only after a response matched (`pipeline.cpp:119`):
  with a silent peer nothing expires (`pipeline_expiry`). `AnswerSettles` and
  `SyncTerminates` are what holds with one thread.
* `submit_sync` ignores whether `cancel` removed anything (`pipeline.cpp:94`)
  (`pipeline_scope`); with a single thread `SyncScope` holds, and is proved.
* `transact` does not compare transaction ids (`client.cpp:25`) (`client_server_txn`);
  `MatchedWhenQuiet` is what holds instead.

Conditions the properties carry because the code needs them:

* `submit` sends before it inserts (`pipeline.cpp:52`, `:58`): with a second thread polling
  in between the response is dropped, and its request waits for ever. `AnswerFindsRequest`
  and `AnswerSettles` are about a single thread.
* An id is given again after 65536 submissions; if the first request with it is still in
  the queue, the new one is accepted and kept nowhere (`correlation_id.hpp:18`,
  `request_queue.hpp:38`). `NothingForgotten` and `OwnResponse` are about ids that do not
  wrap around.
* `handle_request` ignores the write handler's result (`server.cpp:76`, `:99`): a refused
  write is acknowledged. `ReadYourWrites` is checked and proved for addresses that refuse
  reads too (`RefusedUnseen`).
* A subscriber that is polled while a call waits takes the call's response
  (`subscriber.cpp:25`), and the call times out; no property denies a call its timeout.
* `scan_and_notify` moves the baseline whether or not it notifies (`publisher.cpp:145`),
  so the dead band applies between two scans and not since the last notification, of which
  `ARCHITECTURE.md:252` speaks: with a band of 1, of the values 2, 3 and 1 in turn the second is
  suppressed and the third notified. `NotifiedOfLastScan` is about subscriptions without one.
* A notification whose send failed, an event that came before its handler, and the first
  value of a subscription accepted late are not made up for (`publisher.cpp:137`, `:97`,
  `subscriber.cpp:70`): `CaughtUp`, `Converges` and `NotifiedOfLastScan` except them.
* A header that declares more or less than follows, or nothing, puts TCP's `receive` out
  of step with the stream for good (`tcp_transport.cpp:145`), and the timeout covers the
  first `poll` only (`:131` ff.), where `transport.hpp:33` says "Maximum time to wait".
  `FramesIntact` and `ReceiveEnds` speak of honest headers, and `ReceiveEnds` of a peer that
  ends the frame it began.
* RTU stays connected after a short write (`rtu_transport.cpp:126`), so the next frame
  follows a torn one; `NoTornFrame` is about TCP. Its reading loop never ends on a line
  that is hung up (`:151`); `ReceiveEnds` says so. Frames less than 5 ms apart come as one,
  and no frame is taken to have a longer pause inside.
* A probe takes any frame for its answer (`scanner.cpp:21`), so a late one makes the next
  unit look alive; `FoundWhenCalm` is about probes that began with nothing under way.
* Step 4 of the handshake checks nothing but the size of the confirmation; a late proof
  passes for it when units do not answer in turn. `SessionAgrees` states the condition.
* Sixteen bits: `end_address` is 0 for a range that ends with the address space, so the
  static assertions of a map miss overlaps there; `optimized` wraps there too ({65534, 1}
  and {65535, 1} merge into {65534, 1}, which loses a register); `payload_length` and the MBAP
  length are cut (`pdu.cpp:18`, `frame_codec.cpp:16`), and an MBAP length of 0 makes
  `unwrap_tcp` compute a size below zero (`:69`). The properties are about ranges and
  payloads short of that, as the theorems `OverlapExact` and `MapsDisjoint` say.
* `optimized` compares a range with the last one of its result only (`batch_request.hpp:64`), so a
  range of another byte order that is sorted between two of one order keeps them apart. That
  costs a read and loses nothing: `OptimizedCovers` is about the registers asked for.
* The count of a descriptor is not compared with its type (`register_descriptor.hpp`), and
  `encode_string` extends the sign of a character, which spoils the one before it when it
  is not ASCII (`type_codec.hpp:94`). The maps and strings of `BatchRead` are sound.
* The status of a batch result is sent as one byte and read back as an error of the
  library, whatever category it had (`batch_request.hpp:181`, `:214`).
* A threshold is notified at every scan beyond it, where `subscription.hpp:8` speaks of a
  crossing; `SendJustified` and `NotifiedOfLastScan` follow the code.

## 4. The proofs

Every theorem is about every value of the constants that satisfies the module's
assumption, which says no more than the code does (disjoint sets, naturals). Each
invariant below has a lemma per part with one step per action.

**`PipelineProofs`**, from `PipelineAssumption` alone: `Invariance` (the inductive invariant
`IInv`), `TypeCorrect`, `OneCallback`, `Capacity`. `AtMostOneCallback` is not inductive: to run
a callback for the first time, `poll` must hold a request whose callback has not run, which
nobody else holds and which is no longer in the queue. `IInv` says exactly that. `ThreadOK`
relates a thread's position to its locals, `SubmittersOK` says a request is submitted by
one thread, `CustodyOK` that a request is with at most one of its submitter, the queue and
one poller, and that it has had no callback while it is with any of them; `KeyedById` that
the queue is a map; `BoundOK` that it is finite and bounded.

What depends on ids that do not repeat is proved under
`NoWrap == IsFiniteSet(Requests) /\ Cardinality(Requests) < IdModulus`:
`NoWrapInvariance` (the ids given out are distinct and never 0, a matched request is the
one the frame answers, a refused request is in nobody's hands), `ResponsesMatched`,
`RefusalsFinal`, `AcceptedAccounted`. `NoWrap` cannot be dropped: with two ids and three
requests a late response is given to the younger request with the same id. In the code
that takes 65536 submissions.

`ImplementsLifecycle` is the refinement, under `NoWrap`. `Staged` relates
the stage of a request to the queue, to the hands it is in and to its callback; with it
every step is a step of one request, a sweep of open ones, or a stutter.

With one thread, `ScopeKept` (also with ids that wrap around) and
`AnswerFound` (under `NoWrap`) hold: a request whose frame was sent is either in the hands of
the one thread, between send and insert, or has begun its life in the sense of the
lifecycle; `poll` cannot run in the former case.

**`ClientServerProofs`**: `TypeCorrect`; `Ordered`, by `OrderInv`: the ids in the two queues,
the reply in hand and the last frame consumed ascend, and none is above the counter.
`ResponseMatched`, `OutcomeRight` and `WritesRead` by `QuietInv`: `Alone` says that a call that
began quietly is the only request under way and every answer under way `Fits` it, `Known`
that readable registers hold what the client thinks possible, and will when the writes
under way have been handled. `WritesRead` assumes `RefusedUnseen`.

**`PubSubProofs`**: `TypeCorrect`, `NotificationJustified`, `HandlerInScope` from an invariant that
ties the indexes of the scan's loops to the vector and the values read to the source.
`NoChangeMissed` under `DisjointSources`, by what each subscription was last compared with:
the values read in this scan before the loop's index, the baseline after it.
`HandlerCaughtUp` under `OnePoller`: the last event under way of a subscription, or else
what its handler has seen, is what it was last notified of.

**`LoopbackProofs`**: `Invariance`, whose invariant `IInv` is `TypeOK`, `Kept` and
`NoLostWakeup`; `TypeCorrect`, `WakeupsKept` and the refinement `ImplementsChannel` follow from it.
What was pushed is what was taken followed by the queue (`Kept`); while a thread sleeps, the
frames in the queue are at most as many as the notifications to come and the threads awake.
The proof counts them: every push adds a notification, and every notification adds a thread
awake if one sleeps.

**`StreamProofs`**: `FramesWhole`, `TornNever`, `LeaksBounded`, for frames and portions of any
size and any number of connections. For `FramesWhole`, the cells on the line
and the next one to arrive are consecutive (`Chained`), and while headers have been honest
`receive` is where a frame begins or in the middle of one (`Position`): what it has read is
the beginning of that frame, and what it has still to read is the rest.

`FramesLineUp` is about RTU, which has no lengths to go by. The results of `receive`, one after
the other, what the present call holds, the cells on the line and the next one to come are a
single chain (`InOrder`, part of `SerialInv`): each cell is followed by its successor, across
the ends of frames too. `receive` returns when the line has been quiet, and then nothing of
the frame it read last is still to come, so every result ends where a frame ends and the
next one begins there.

**`ProceduresProofs`**: `ScanTrue`, for any units, any range and any late or lost answers: a probe
that began with nothing under way has exactly its own request or the answer to it under
way while it waits (`Alone`), so what it takes for the answer is the answer.
`HandshakesDecide` by the same argument for both exchanges of the handshake.
`SessionsAgree` needs a second one for handshakes that began with old answers under way: on
a line that serves in turn, everything that was under way when the challenge was sent is
older than it, so the proof that matches the challenge is the last thing on the line
(`Newest`) and the confirmation is alone from there on. `Dated` says why no old proof can
match: the nonces in what is under way are those of calls that were made.

**`CodecProofs`** proves what the codecs do for every input. Such definitions recurse over data:
folds over sequences, sums, loops over bytes. The induction they need is done with sets.
`Least` is that a set of numbers has a least element (from the well-foundedness of inclusion
between finite sets); `UpTo` that a set which contains 0 and, with n, also n + 1 contains
everything up to a bound; `Recursion` and `FoldRecursion` that functions defined by
recursion have values, which is what the `CHOOSE` in the folds of the community modules asks for.

* Registers: `OrderMeaning`, `NumberRoundTrip` and `TypedRoundTrip` for every base, width, order
  and value, because `Source` permutes the places and is its own inverse; strings, which are
  read back up to the first zero; `OverlapExact` and `MapsDisjoint` for ranges that end within
  the address space; the offsets of a map are partial sums, so its places keep apart.
* The CRC: `BurstFound`. Shifting is linear (`ShiftByteLinear`) and loses nothing
  (`ShiftByteNothing`), and the CRC of a frame with its own CRC at the end is nothing
  (`Residue`). So the difference of two good frames, carried through the CRC, ends in
  nothing and is nothing outside the bytes that differ; a difference in the low byte
  comes out with ones in the high byte (`ShiftByteHigh`), which the next byte cannot cancel.
* Messages: `RequestRoundTrip` and `ResponseRoundTrip`. What is serialized is a fold that
  appends, so each item stands at a known place of the bytes (`Stands`): at six times the items
  before it in a request, at a partial sum in a response, whose results have any number
  of registers. The parser's loop is a recursion over the same places; after n turns it is at
  the n-th of them and has the first n items, and none of its checks for missing bytes applies.
* Frames: `PduRoundTrip`, with or without timestamp and digest; `TcpRoundTrip`, because
  the length field counts what follows; `RtuRoundTrip`, because the CRC of the frame is the one
  that stands at its end. What is cut or does not match its CRC is dropped.

**`BatchProofs`**, for every set of maps that satisfies `BatchAssumption`:

* `MapReadsBack`, by `MapInv`: the device's buffer holds the registers of every value that was
  written, at the descriptor's place.
* `OptimizedAsksTheSame`: sorting, in any order it leaves, puts ranges that share no address in
  ascending order; each step of the loop keeps them so and adds the registers of its range
  (`MergeOne`); the total of such ranges is the number of their addresses, which does not
  pass sixteen bits. `OptimizedSame` says this of any ranges, not only of those of a map.
* `DamageIsDetected`, by `DamageInv`: until noise hits it the request on the line is a sound
  frame, and after that one that is dropped. Two bits at most eight apart lie in two adjacent
  bytes, which is `BurstFound`; a frame whose end is missing is shorter than its header says.
* `BatchReadsBack`, the whole exchange, by `ReadInv`: an unchanged request is the frame of
  `batch.sent`, a response is the frame of what the registers hold for it (`Served`), and what the
  client has at the end is that. The round trips carry both messages through their frames
  (`RequestArrives`, `ResponseArrives`); the room they need is a count of bytes, in which the
  registers of a response are those of the map, however its ranges were merged
  (`TotalIsAsked`). The ranges of the batch cover the map's addresses and share none with each
  other, so the result that contains an address of a descriptor has the register the
  device keeps for it (`RegistersFound`), and `MapInv` says whose value that is. When nothing was
  merged the results have the addresses of the descriptors, and `find` returns the one at the
  same place (`FindsFirst`).

Every safety property of a passing run has a theorem. Only model-checked is liveness
(`SyncTerminates`, `AnswerSettles`, `StopEnds`, `Converges`, `PeriodicNotified`, `SleeperServed`,
`ReceiveEnds`, `ScanEnds`), which is out of the prover's reach.

## 5. Not modelled

* A data source registered between two scans: `Sources` is a constant of `PubSub`, registered
  before the first scan as in the examples.
* A handler that calls back into its subscriber deadlocks on the mutex `poll` holds
  (`subscriber.cpp:67-69`). It follows from one line; handlers of the model call nothing.
* Expiry and sequence number of a `Session`, and signing of frames (`session.hpp:12` "signs
  all extended frames"): no code of the library consults the first or does the second.
* The server's side of the handshake is not in the source; `ClientProcedures` models it as
  external, from the header's comment.
* Discovery by function code 0x2B/0x0E, which `scanner.hpp:7` names: the code reads a
  holding register instead (`scanner.cpp:12-16`), and that is modelled.
* Statistics, `Result`, the tables of error messages and function code names: nothing reads
  them back.
* Address lookup, socket options and terminal attributes: one step of `Connect` that
  succeeds or fails.
* The arithmetic of HMAC-SHA256 and of time points, which are libraries'.
* `StructCodec`, a declaration without code. Examples, benchmarks and tests.

## 6. What could be added

* `register_data_source` as an action of `PubSub`, between two scans; the theorems about the
  scan's indexes would need sources that only grow.
* A client whose `Pipeline`, `Subscriber` and `transact` share one transport, each taking the
  others' frames: `Pipeline` has it as `ForeignFrame`, `ClientServer` as `SubscriberPoll`.
* Batches whose ranges overlap, merged by `optimized`; the maps of `BatchRead` have none.
