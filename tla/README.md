# libnx in TLA+

libnx is a C++23 library on boost::asio coroutines for video surveillance: it reads
cameras over ONVIF and RTSP, serves streams over RTSP, moves frames through media
pipelines, and records them into segment files. This directory holds TLA+ models of the
parts whose behaviour depends on the order in which things happen, the TLC
configurations that check them on small instances, and proofs for all instances that
TLAPS checks. `PROJECT.json` names, for every definition, the lines of the source it
models (`map`), the places where the code is exposed (`hazards`), and for every property
a plausible bug that the property finds (`mutants`).

    tlc -config MCMultiSink.cfg MCMultiSink     # one run
    tlapm MultiSink_proofs.tla                  # the proofs of one module

Contents: 1 the system, 2 the modules, 3 what the runs show, 4 what is proved, 5 where
the code and its own statements disagree, 6 further hazards, 7 what is not modelled,
8 the plan.

## 1. The system

How data flows, in the two directions:

    camera --RTSP/RTP--> RtspClient --> RtpReceiver --> depacketizer --> frame callback
    IMediaSource --> MediaPipeline --> MultiSink --> IMediaSink ...
                                                  \-> BlockBuilder -> SegmentBuilder -> file
    RtspMediaSession --> packetizers --> RtpServerTransport --> TcpWriteSerializer --> client
                                                  RtspServer -> RtspServerSession (control)
    OnvifClient -> SoapClient -> HttpClient --> camera
    TimerWheel -> owner -> RecordScheduler --> what is recorded now

The library starts no threads for its coroutines. Its user runs an `io_context`; the
tests run one thread per context. What really runs in parallel is the source's callback
thread (pipeline, multi sink), the producers of the write serializer, and the thread of
whoever calls the `stop()` and `close()` of another. Between coroutines of one thread the
interleaving happens at each `co_await`, and that is where most of the hazards are.

| component (source) | state it keeps | operations | what makes it hard | what makes it correct |
|---|---|---|---|---|
| TcpWriteSerializer (`nxnet/rtsp`) | queue, `m_writing`, `m_active`, counters | submit_frame, submit_response, do_write, close, overflow | producers on any thread, a strand, an asynchronous write whose buffers are in the queue, close at any time | one write at a time, order kept, nothing stranded, bounded queue |
| MediaPipeline (`nxcore/media`) | priority queue, newest timestamp, pacing flag and timer, `m_running` | start, stop, on_frame_received, on_eof, flush, schedule, timer | source thread against strand against timer against stop and end of stream | sorted output, no mature frame forgotten, pacing that goes on, the end of the stream only behind its last frame |
| MultiSink (`nxcore/media`) | list of [id, sink], `m_opened`, tracks | open, close, send_frame, add_sink, remove_sink | snapshots of raw pointers used after the lock | every sink gets exactly its frames, is open exactly while it should be, no dangling pointer |
| RtspServerSession (`nxnet/rtsp`) | bound media session, transports per track, state, `m_running` | DESCRIBE, SETUP, PLAY, PAUSE, TEARDOWN..., close, destructor | the client's order of requests, close from three sides, pipelined requests, a read that is handled behind the close | what is registered with a media session is gone at the end, but for what the session lost sight of; channels distinct |
| RtspServer (`nxnet/rtsp`) | acceptor, list of sessions, `m_running` | start, stop, accept_loop, cleanup_sessions | stop against an accept that has completed, ended sessions told by a use count | stop ends every session but the last of each loop, every client served |
| RtspClient, RtspConnection (`nxnet/rtsp`), with SDP (`nxnet/sdp`) and authentication (`nxnet/auth`) | session state, tracks, one socket, one receive buffer, `m_pending_consume`, the provider made of the last challenge | connect, describe, setup, play, pause, teardown, close, receive loop | calls and receive loop read one stream in turns, timeouts cancel both, 401 retries with a nonce that may be stale | the stream stays in step, answers go to their request, tracks as described, right credentials serve, every call returns |
| SegmentBuilder, Repairer, Reader (`nxcore/record`) | current file, index of blocks, unsynced count; the reader's place | write_block, close_current_segment, flush_pending, repair, open, read_next_entry, seek | crash or power loss between any two writes, failing writes and syncs, an interrupted repair, name collisions, a reader of the file being written | nothing reported written is lost, loss bounded by `sync_blocks`, footers true, a reader misses nothing |
| BlockBuilder (`nxcore/record`) | pending entries, context, finished blocks | add_entry, flush, pop_block | limits tested before and after, entries out of order | headers true, limits kept |
| RtpReceiver, depacketizers, frame buffers (`nxnet/rtp`) | expected sequence number, frame under assembly, pool of buffers | feed_data, on_packet | loss, reordering, doubles, a change of parameters between frames, consumers that keep frames | exact frames when nothing is lost; after a loss the frames that arrived whole; loss counted; buffers of held frames untouched |
| Packetizers (`nxnet/rtp`) | sequence number, timestamp | packetize | fragment limits, extensions | what one side cuts the other joins |
| HttpClient, redirects (`nxnet/http`) | one stream, connected flag, read buffer | connect, send_request, close | redirects to another port, protocol or directory, connections that end, timeouts with an answer still to come | a response goes to its request; a redirect reaches its target; a request is carried out once |
| SoapClient, OnvifClient and services (`nxnet/onvif`) | the HTTP client, service addresses, capabilities | initialize, streams, profiles, PTZ, imaging, events | several requests per call, any of which may fail | answers of the call's own camera; the main stream is the largest |
| TimerWheel (`nxcore/util`) | entries, two flags, one timer | start, stop, add, cancel, tick | other threads against one tick loop, a `stop()` that gives up | quiet after stop, stop returns |
| RecordScheduler (`nxcore/record`) | hourly schedules, current attributes | load, set, ask, check_time_changed, on_hourly_schedule_change | answers are told after the lock is released; clock set by hand | what is recorded follows the schedule; a reader of the answers catches up |
| Buffer pools (`nxcore/record`) | a free list | acquire, release | release from any thread | see 7 |
| Drainers, awaitable group, bridge (`nxcore/util`) | counters, timers | drain, wait_all, block_on | | included by nothing, see 7 |
| RTSP messages, codec parsers, MP4 reader, crypto, devices, utilities | none between calls | conversions, calls into OpenSSL, libavformat, the system | input formats | see 7 |

## 2. The modules

| module | of | composes |
|---|---|---|
| `WriteChannel` | abstract: an ordered channel that may be cut | |
| `TcpWriteSerializer` (`MC...`, proofs in `Connections_proofs`) | the serializer | refines `WriteChannel` |
| `MediaPipeline` (`..._proofs`) | the pipeline in its three modes | |
| `MultiSink` (`MC...`, `..._proofs`) | the multi sink | |
| `SessionLife` | abstract: the life of a session as its server sees it | |
| `RtspServerSession` (`MC...`) | one session | refines `SessionLife`; writes through `WriteChannel` |
| `RtspServer` (`MC...`, `..._proofs` of both) | the listener | one `SessionLife` per client |
| `SdpParser`, `DigestAuth` | what a description says; challenges and providers | |
| `RtspClient` (`MC...`, `..._proofs`) | client and connection | `SdpParser`, `DigestAuth` |
| `RtpPacket`, `RtpPacketizer`, `RtpDepacketizer` | header, cutting and joining of frames | |
| `RtpReceiver` (`MC...`, `..._proofs`) | sender, network, receiver, consumer | the three above |
| `SegmentStore` (`MC...`, `..._proofs`) | builder, repairer, the disk | |
| `SegmentReader` | the reader | extends `SegmentStore` |
| `BlockBuilder` | the block builder | |
| `Recording` (`MC...`, `..._proofs`) | a recorder and a player | `BlockBuilder` + `SegmentReader` |
| `HttpClient` | HTTP and HTTPS client | |
| `OnvifClient` (`MC...`, proofs in `Connections_proofs`) | SOAP, ONVIF client and services, a camera | extends `HttpClient` |
| `RecordScheduler`, `TimerWheel` | schedules; periodic callbacks | |
| `ScheduledRecorder` (`MC...`, proofs in `Recording_proofs`) | the owner of both | extends both |

How state and actions correspond to the code is said variable by variable in each module.
The decisions that are not obvious:

**TcpWriteSerializer.** `tasks` is the strand: handlers posted and not run, oldest first.
A submission is two steps (the check of `m_active`, then the post), because the caller is
on another thread. `inflight` is the set of `async_write` operations, more than one if the
code were wrong; `Garbage` stands for what a write of freed buffers puts on the wire, so
that freed memory is an outcome and not an error of the model. `close()` is two steps as
well. The owner of the socket closes it at any time.

**MediaPipeline.** `start()` and `stop()` are coroutines of one caller who awaits the one
before calling the other; `stop()` goes on inside the strand, as its coroutine runs on the
same `io_context`. `source.close()` waits for a callback that is in progress, and a
`source.start()` that fails has not called back: that is what IMediaSource's
implementations do. A wait of the pacing timer that ends goes through `fired` before its
handler reaches the strand, so that `cancel()` may come too late. Timestamps begin at 1.

**MultiSink.** Each sink has a manager who adds and removes it, one thread sends frames,
the pipeline opens and closes (and calls `close` only when the source has stopped), and
whoever shares a sink may give his share up at any time once it was added. Calls overlap in
every way: all methods work on a snapshot of raw pointers, visited one by one, and `add_sink()`
has two locks. `crossed` is history: the sinks whose `add_sink()` or `remove_sink()` an `open()`
or `close()` ran into, until one visits them again.

**RtspServerSession.** One thread. Handlers do not wait, so each is one action. A read that
has completed is resumed later (`loop = "read"`), and what it brought is handled although
`RtspServer::stop()` has closed the session, or a transport its socket, in between. Responses
are posted to the strand of the serializer, which here is an instance of `WriteChannel`;
`TcpWriteSerializer` is shown to implement it, so the session need not carry the details.
`Habits` names what a client may do beyond the ordinary; the run allows all of it. `lost` is
history: registrations that the session can no longer take away.

**RtspServer.** One thread: `start`, `stop` and a turn of `accept_loop` are atomic; the gap
between the completion of `async_accept` and the resumption of the loop is a state of its own,
in which `stop()` and `start()` may come. A session is a `SessionLife`, which `RtspServerSession`
implements for every client. `late` is history: the clients that a loop made sessions of a
stopped server.

**RtspClient.** Coroutines on one thread: `thread` says who runs, and everything up to the
next `co_await` of that coroutine is a sequence of steps nobody else interrupts. The stream
is a sequence of units: an answer is one, an interleaved frame two, so a read may end
inside a frame. Reads on a socket are served in the order they were begun, each with any
part of what has come. A read of a call is `read || timer`, which waits for one of the two
to *succeed* and then for the other to end: when the read has completed (`CallHasRead`) the call
goes on behind all that is ready by then (`CallResumes`), so a loop's next read may append its
bytes first; when the timer fires first, what the read has brought is dropped (`GiveUp`); a
read that fails (end of the stream) leaves the call waiting for its timer. `torn` and `overdue`
are history: bytes of this connection were put behind later ones or dropped; requests were
given up although their answer was still to come.
DESCRIBE is answered with the lines of a description, which `SdpParser` makes media of; the
client's tracks and the URIs of its SETUPs come from these. A 401 carries the challenges of
the server, `DigestAuth` makes a provider of the one the client keeps, and a hash stands for
what is hashed, so a request is served only if everything that goes into it is right. The
server is external: it answers, challenges, renews its nonce, refuses, ignores or leaves.
TCP transport only. `keep_alive_loop()` is never started by the code and is left out.

**RtpReceiver.** A NAL unit is its number, kind and size; bytes are not written down but are
pieces `[nal, from, to]`, so that "the frame came out whole" is an equality of sequences,
and the scan of a JPEG picture is the list of pieces at their offsets, with `Gap` for bytes
that never came. The library cuts H.264, G.711 and raw data; for H.265 and JPEG, which it
only receives, the sender is a camera that does as the RFCs say (external); it may leave out
JPEG tables that it has sent before, and `tabled` is history: the frame whose tables came
last. The network is external too: it loses, doubles and reorders up to `MaxFaults` times
over UDP, and without faults is the interleaved transport. A packet goes through
`RtpPacket`, the statistics, the depacketizer (a function from its members and a packet to
its members and what it gives out), and a buffer of the pool or, for audio, the pass-through
buffer; the consumer keeps frames as long as it likes.

**SegmentStore.** A file is the sequence of pieces written to it (header, blocks, index
entries, footer header, `torn` for anything else) and an offset is a place in it; every
write and every sync is a step, and a crash may come between any two or in the middle of
one. `durable` says how much of a file a sync has covered; a power loss keeps that and any
part of the rest. Assumed of the system: what `fsync` returned for is durable, and so are
directory entries. The POSIX repair does not sync. A repair never runs on the file being
written, since no user of the two in the repository does that.

**BlockBuilder, SegmentReader, Recording.** Entries are records of time, length, size and
keyframe mark; `std::sort` leaves entries with equal timestamps in any order. The owner
between the two builders is outside the repository and external here: he adds entries,
drains what is ready, and does not come back to a block whose writing failed. The reader
stands at a place `<<p, k>>` of a file (piece, entry in it) and reads while the builder goes on
writing that file; a `seek` may leave it in the middle of a block.

**HttpClient, OnvifClient.** One coroutine uses a client at a time, and `pc` is where it
waits: resolving, connecting, in the TLS handshake, writing, reading, or in the close or
connect inside a redirect. Locations are absolute, rooted or relative to the path of the
request, with dot segments. The other end of the stream carries requests out, answers, or
does not answer in time; `done` counts how often it carried out each. `OnvifClient` is one
user of it (`user = "onvif"`) and an application of its own is the other (`"app"`). A call is a
list `todo` of SOAP requests and a `phase`; an answer of the camera has all fields, lacks
some, is a fault of SOAP 1.2, a flat fault or no XML. Cameras differ in their services and
profiles.

**RecordScheduler, TimerWheel, ScheduledRecorder.** Every operation of the scheduler is one
step, as it holds `m_mutex` from its start to its end; what it returns is told to a reader
in a step of its own. The wheel has the grain of its steps: `start()` between its two
writes, the loop between tests, ticks and callbacks, `stop()` while it polls, its timeout.
The owner is written from the comments of `record_scheduler.h`: a callback of every second
asks whether the clock was set, one of every hour tells the scheduler. `orderly` says that
`start` and `stop` await each other and that a wheel whose `stop` gave up is not started
again; other owners do as they like. `picture` is what a reader of the answers takes for recorded,
and `behind` how long a channel has been off its schedule.

## 3. What the runs show

Every constant named `Max...` is a bound on what a run explores. Each run is finished
exhaustively.

| run | instance | shows |
|---|---|---|
| `serializer` | 2 producers of 2 entries, queue of 3, batches of 2 | `IInv` (the inductive invariant of 4), `ImplementsChannel`, `AcceptedIsSent` |
| `pipeline` | 3 modes, 3 frames, buffer 2, jitter 2, clock to 4, one start | `Sorted`, `MatureFrameHasFlush`, `EofDeliversAll`, `PlaybackProgress` |
| `multisink` | 2 sinks (symmetric), 3 openings, 2 frames, failing openings, shares given up, every overlap of calls | `FanOutComplete`, `SinksFollow` |
| `multisink_release` | 2 sinks, 1 opening, 1 frame | that `PointersAlive` is violated: see 5 |
| `session` | 2 media sessions of 2 and 1 tracks, 4 requests, batches of 2, all habits | `NothingElseRegistered`, `SessionEnds`, `IsSessionLife` |
| `server` | 3 clients, 2 starts, 2 failing accepts, failing binds, `stop()` in every place | `StopEndsAll`, `ClientsServed` |
| `client` | a server with digest and two tracks and one with basic and one track, 2 connections, 6 calls, 2 receive loops, 2 frames, 1 fault or timer that fires too early, late frames | `StreamInStep`, `OwnAnswer`, `TracksAsAgreed`, `RightCredentialsServe`, `CallsReturn` |
| `packets` | 5 codecs, 3 frames (of JPEG, any of 4 pictures), 2 faults, payloads of 9, 16 sequence numbers, a pool of 2, 2 frames held | `LosslessIsExact`, `WholeAfterLoss`, `JpegUnmixed`, `LossNotUnderstated`, `HeldFramesStable` |
| `onvif` | 5 calls of an application or 2 of an ONVIF user, 1 redirect in a row, 1 fault, 4 cameras | `OwnAnswer`, `RedirectReached`, `CarriedOutOnce`, `MainIsLargest`, `CallsReturn` |
| `schedule` | a day of 2 hours of 2 ticks, 2 callbacks, 2 loops, 3 changes, clock steps of -1 and 3, one delay | `ScheduleFollowed`, `PictureCatchesUp`, `StoppedIsQuiet`, `StopReturns` |
| `segments` | 3 blocks, sync by twos, 2 faults of 5 kinds, files of at most 3 ticks or 4 units | `BlocksSurvive`, `LossBounded`, `FooterTellsTruth`, `SeekFindsNearest` |
| `recording` | 3 entries of video and audio, also out of order, small blocks, one crash or step of the clock, a reader that opens and seeks | `BlocksAreSound`, `ReaderMissesNothing` |

Why the bounds are enough to see the interesting cases:

* `serializer`: four entries and a queue of three make overflow, a batch that does not
  fit, a write under way while the queue is cleared, and a submission behind an overflow.
* `pipeline`: three frames with two values of lateness make a frame that arrives behind a
  newer one that is already queued, one that matures by the clock and one that is left for
  the end of the stream.
* `multisink`: with two sinks one can be visited while the other is added or removed; three
  openings are one that fails or is closed, one that runs into an `add_sink()` and one that
  puts the sink right.
* `session`: DESCRIBE, SETUP and PLAY are three requests, the fourth is the one that disturbs
  them: another DESCRIBE, PAUSE, TEARDOWN, a second SETUP. `MaxBatch` 2 puts PLAY with SETUP
  into one read, and a request behind a TEARDOWN.
* `server`: two starts give an accept loop of the one before; three clients one that waits,
  one that is being accepted and one that has ended.
* `client`: six calls are a session to its end and a second one, with the other server, up
  to its tracks, or a first that ends early and a second that plays; two frames make one
  that is split by a read and one behind it, which is enough for a loop's read to overtake a
  call's; one fault is an ignored, refused or lost request, a renewed nonce or a timer that
  fires before the answer, in every place.
* `packets`: three frames are one before a loss, one it touches and one behind it; two
  faults make a packet that is both late and doubled, or two lost ones. A payload of 9 cuts
  NAL units of 10 and 16 into two and three fragments and puts those of 2 together. The
  sequence numbers begin at 12 of 16 and the timestamps at 100 and 300 of 400, so both wrap
  around within a run and a timestamp may be 0. Of the four pictures one has two tables, one
  has the same left out, one has a table of another quality and one the standard tables: three in
  a row make tables that are replaced before the picture that relies on them, or lost.
* `onvif`: one redirect followed and one too many; one fault in every place of a call; four
  cameras: one with everything and six profiles, one without PTZ, one whose service addresses
  cannot be read, one without a media service.
* `schedule`: two hours with different attributes and two ticks in each make every order of
  a refresh, a change and an hour that ends; two loops are the one of a `stop` that gave up
  and the one after it.
* `segments`: three blocks with two per sync and small files give a rotation with one
  unsynced block on either side; two faults are a fault and one in its recovery. Two
  sequence numbers are enough for a restart within a second twice.
* `recording`: three entries are a block that ends by each limit and one that follows it,
  with a reader at every place of them.

Deadlock is not checked: a system whose caller asks for nothing more stops. Where the
system must not stop, a liveness property says so. Fairness is on what asio and the kernel
promise: posted handlers run, started operations complete or are cancelled, timers expire,
coroutines that can go on do; and on the last part of a call that has begun. Nobody has to
submit, send, call, connect, stop or close. In `onvif` a server either answers
within the timeout of the client or not at all, and the timer then fires; in `client` it may
answer late too, for the timer may fire first, up to `MaxMishaps` times. In `schedule` the
loops of the wheel and the callbacks it runs go on and time passes, and `MaxSlow` bounds how long
a thread may dawdle. No fairness is assumed where only safety is checked (`segments`,
`recording`, `packets`, `multisink`).

The properties, in short (each is stated above its definition):

* `ImplementsChannel`: the serializer delivers the entries it accepted, in order, none
  twice, and damages at most the one being written when it is closed. `AcceptedIsSent`: what
  it accepted gets to the socket unless somebody closes it.
* `Sorted`: frames leave in the order of their timestamps. `MatureFrameHasFlush`: the chain
  of posted flushes never breaks. `EofDeliversAll`: the completion callback comes once,
  behind every frame the pipeline took. `PlaybackProgress`: the chain of timer
  waits never breaks.
* `FanOutComplete`: every sink is given exactly the frames sent while it was registered.
  `SinksFollow`: a registered sink is open with the tracks of the last `open()`, and closed
  after `close()` or its removal, unless an `open()` or `close()` crossed its `add_sink()` or
  `remove_sink()`. `PointersAlive`: no sink of a snapshot is gone; the code does not keep it.
* `NothingElseRegistered`: whatever ends a session, the media sessions then know nothing of it but
  what a DESCRIBE of another path, a SETUP of a playing track or a PLAY handled behind `close()`
  made it lose sight of. `SessionEnds`: a session whose connection is closed on either side ends.
  `IsSessionLife`: to its server it is a `SessionLife`.
* `StopEndsAll`: behind `stop()` no session is open but that of a connection which an accept loop
  held when it came, one for each loop, and each is in `m_sessions` for the next `stop()`.
  `ClientsServed`: a client that connects gets a session, or the server is stopped.
* `StreamInStep`: what goes to the receivers are the server's frames, whole, each once, in
  order, although calls and receive loops take turns in cutting one byte stream, until a
  call's bytes are overtaken or dropped (`torn`). `OwnAnswer`: a call is given the answer to
  its own request, or one that was `overdue`, or one behind that. `TracksAsAgreed`: the
  tracks set up are those of the description, each with its URL, codec and channels.
  `RightCredentialsServe`: who knows the password is refused only for another scheme or a
  nonce renewed meanwhile, never for a count used before or what another server asked. The
  last two hold while no answer is overdue. `CallsReturn`: every call returns, unless an
  answer is overdue or the stream is torn.
* `LosslessIsExact`: without faults the frame callback is given the frames sent, byte for
  byte, with timestamp and keyframe mark. `WholeAfterLoss`: a video frame all of whose packets
  came, once and in order, comes out whole and once, whatever went wrong around it.
  `JpegUnmixed`: a picture that comes out has the tables, size and scan of one frame; tables
  that were left out are the last of its quality that came. `LossNotUnderstated`: the statistics
  report at least the packets lost between the first and the newest that came, also when numbers
  wrap. `HeldFramesStable`: a frame the consumer holds keeps its bytes (not for audio, see 5).
* `OwnAnswer`, `CallsReturn` of `onvif`: as above, for HTTP and for ONVIF calls, without
  exceptions. `RedirectReached`: every request goes over a connection to the host and port
  it is for and asks for the resource that the server named. `CarriedOutOnce`: no request is
  carried out twice, and one reported successful was. `MainIsLargest`: no profile up to full
  HD with a codec and a bitrate at least as good has a larger picture than that of the main
  stream.
* `ScheduleFollowed`: while the wheel serves an orderly owner no channel is off its schedule
  for longer than `Window`. `PictureCatchesUp`: a reader who has been told all answers has the
  right picture. `StoppedIsQuiet`: when `stop()` has come to a clean end no loop is left and
  no callback runs. `StopReturns`: every `stop()` returns.
* `BlocksSurvive`, `LossBounded`: see 4. `FooterTellsTruth`: a footer, also one made by a
  repair, has exactly the whole blocks in front of it. `SeekFindsNearest`: a seek finds a
  keyframe block that starts no later than the time asked for while the next one starts later,
  whatever the clock did, and where the starts of a file ascend the nearest of all.
* `BlocksAreSound`: the header of every block is true of its entries and the block within
  its limits. `ReaderMissesNothing`: between the place a reader started from and the one it
  has come to it was given every entry of every whole block, each once, in order.

## 4. What is proved

TLAPS proves the theorems listed in `PROJECT.json` for every value of the constants that
the `ASSUME` of the module allows. All invariance proofs have the same shape: an inductive
invariant, one lemma per action, and a `QED` step by `PTL`. A further hypothesis is stated
in the theorem (`ASSUME H PROVE Spec => ...`), and section 5 says what happens without it.

**Connections_proofs.** Of the serializer: `IInv` is inductive. That at most one write is
outstanding is not inductive by itself: it needs `WritingIsOutstanding` (while active,
`m_writing` is true exactly when a write is outstanding), and that needs `ClearOnlyInactive`
(the handler that resets `m_writing` is posted only by a `close()` that has made the
serializer inactive for good). Order needs `QueueIsSuffix`, `NothingLost` and `NextOnWire`
(the write under way is the front of the queue, which is what follows on the wire). From
`IInv`: `OneWriteAtATime`, `NoEntryStranded`, `QueueStaysBounded`, `DeliveryInOrder`,
`OverflowDisconnects`; and the refinement `RefinesChannel`, from which `InactiveIsFinal`.

Of HTTP and ONVIF: `AnswersAreOwn`: whatever the servers, faults and redirects. `AnswerInv`
says which fields go with each place of the coroutine (`Fields`, `Places`), that what is
left in the read buffer or on the stream is gone before the next request is written
(`Leftover`), and that the request and the answer on the stream are of the request being
sent (`Exchange`). `InitializedIsServed` (by `ServesInv`): `m_initialized` is set only
behind the media service of that camera, although `initialize()` may fail half-way.
`RequestsCarriedOutOnce`: `CountInv` says that a request which is still to be written, is
with the server or follows a redirection was not carried out (`Unsent`), and that an answer
in the stream says truly whether it was (`Replied`); `Sending`, that a call waits for the
last request only; `SoapSucceeds`, that no fault, foreign page or empty body becomes a
success. `RequestsReach`: `ReachInv` says that the host of a connection is the one at its
other end (`There`), that a request goes to who was meant, now or behind the connection that
a redirection is making (`Aimed`, `Asked`), and that a location is one of a resource as seen
from the request (`Named`). What the client makes of it is `NamedIsMeant`, by
`DetourRemoved`: of the way out of a directory and into it again `RemoveDotSegments` keeps
the way in. It assumes that resources and services have no "." or ".." in their own paths.
`MainStreamIsLargest`: `ChoiceInv` follows the profiles of a camera through the document,
the selection and the second call for their tokens to what `initialize()` gives back. Behind
it is arithmetic: the size of a picture is scored by the root of its pixels, which is a
least number (`RootIs`) and grows with them, and by thousands of them (`ScoreTells`). Hence
the hypothesis `SizesTell`, that of two profiles one is the larger by a thousand pixels or
more: profiles nearer than that may have the same score, and which of them comes first is
left to the sort.

**MediaPipeline_proofs.** `SortedOutput` and `NoMatureFrameLeft` under `SourceInBound`: the
source is at most `BufferDuration` late, and the pipeline is started once. The invariant
`SortInv` says what every posted or running frame handler may still bring (`PostedLate`,
`CurrentLate`, `SendingLate`: nothing older than the newest less the jitter) and that what is
delivered is older than all of it (`DeliveredFirst`); `FreshStart` and `TaskKinds` say what a
pipeline not yet started holds and which handlers there are in each mode. A second start
keeps the newest timestamp of the first, so the restriction to one is needed.
`EofDeliversEverything` (for one start) needs `EofRest`: the end of the stream is in one
place at a time - not yet told, a handler of the strand, the drain, the callback (`OneEnd`) -
behind it no frame is posted (`NothingBehind`), in live mode nothing is kept (`LiveIdle`), and
every frame taken is posted, queued, being sent or delivered (`NoneLost`).

**MultiSink_proofs.** `HandlesCorrect` is inductive with the types. `FanOutCorrect` needs
`SnapshotFresh`: a sink in the rest of a snapshot has been registered, has been given all
frames but the one being sent, and occurs once. It holds for any overlap of the calls.
`SinksStayInStep` has no hypothesis either: `VisitInv` says which sinks a visit of open or
close still has before it, and `FollowInv` what a sink that was not crossed is at every
point of its own `add_sink()` and of an open or close under way (`Follows`). That no
snapshot outlives a sink is not proved, for it is false (see 5).

**RtspServer_proofs.** Of a session: `ImplementsSessionLife` for any client, by `EndedIsClosed`.
`ChannelsNeverShared` if there are two channels for each request (the code has 256): the
n-th transport has the n-th pair. `EndsWithNothingElse` for any client and any end: by `StrayInv`
what is registered is a transport its track has now, with the media session bound now, or `lost`,
and once the session is closed nothing is registered that is not lost. For an orderly client, who
asks for one path, sets no playing track up again and sends nothing behind a TEARDOWN, `OrderInv`
gives `RegisteredCanBeRemoved` and `PlaysAllTracks`, and `OrderlyLosesNothing`: nothing is lost as
long as the session runs, so what is left can only come from a read handled behind `close()`.
Of the server: `ServerInv` says that a connection is with the system, with one accept loop
or a session, never two of them (`OneHolder`), and that what is registered is a session
(`SessionsLive`). From it `DrivesSessions`: what `stop()`, `cleanup_sessions()` and an accept
loop do to a session are steps of `SessionLife`, so the server may be checked over it.
`StopEnds`, wherever `stop()` comes: a session that was not closed is registered, and a loop that
makes one of a stopped server ends with that turn, so each does so once at most (`StopInv`).

**SegmentStore_proofs.** Under `NamesSuffice` (a free name is left for each call),
`TypeCorrect`; with `WholeWrites` (a write puts down all or reports a failure),
`BlocksNeverLost`; with `CloseSyncs` (the sync at the end of a segment does not fail),
`LossIsBounded`; with `WholeWrites` also `FootersTellTruth` and `SeekIsNearest`, whatever
the clock did. `SafeInv` says besides that the builder's idea of the open file is right
(`OpenFile`: the next place is the end of the whole blocks, so a repeated write overwrites
only what failed) and that repairs stay away from it (`RepairsApart`). `LossInv` counts:
`FewUnsynced` (the blocks of the open file reported written and not covered by a sync are
fewer than `sync_blocks`), `FinishedSynced`. `TruthInv` follows a footer as it is written:
what a builder or a repair has put down so far is the header, the whole blocks and the first
entries of their index (`Listed`), and what the repair has scanned or read of an old footer
is that index. The bisection is a recursive function: that there is one (`SearchExists`),
and that the entry in front of its place starts no later than the time asked for and the one
at it later (`UpperBoundFinds`), follow from the least length for which they would fail;
neither needs the index to be sorted. `ShapeInv` (blocks come first, what is torn comes
last) is for the reader. Each hypothesis is needed: see 5.

**RtpReceiver_proofs.** `PayloadFound` and `PayloadInside`: `ParseHeaderAndPayload` gives
exactly the payload of any packet put together as the RFC says, and never anything outside
of the datagram, whatever its fields say. `HeldFramesAreStable` for any network and
consumer: the pool never hands out a buffer that is held (`PoolInv`), as a buffer is
reused only when no frame refers to it, and all others it writes are new. `LossesCounted`: the
number of a packet is that of its place in the stream, whatever packetizer made it and whatever
the network did to it (`NetInv`), so the difference of two numbers, cut to the width of a number
with a sign, is how far apart the packets are (`DiffIsDistance`). `LossNotUnderstated` is not
inductive: `LossInv` says which number is expected and that the packets missing up to the newest
that came are counted; one that goes beyond it counts at least those it skips. It holds as
long as no packet is accepted further from the one before than half the numbers (`InReach`).

`PicturesUnmixed`: the JPEG depacketizer keeps tables, type, restart interval and the
sampling it found from packet to packet and from picture to picture, so `JpegUnmixed` is not
inductive either. `PictureInv` says what its members mean: of those that outlive a picture
the sampling and the restart interval hold for every picture of the camera and the tables
are those of the frame that came with tables last, `tabled` (`Kept`), the others are of one
and the same frame (`BegunWith`), and every byte of the scan is in the place it has in that
frame or was never written (`ScanFits`). Every packet is a fragment of the frame whose
timestamp it has: `NetInv` says of which frame it is, and `BodyIsFragment` what
`PacketizeJpeg` puts in it; what it does to the members is `JpegKeeps`. The theorem is for
pictures, packets and numbers of frames of any size and any faults of the network. It asks
that the camera keeps to RFC 2435 (`PicturesByRfc`: the pictures of a quality all have
tables of their own or none has, and the same ones if any is sent without them; the sampling
shows in the first packet where cameras mix up the types) and that no two frames have the
same timestamp (`StampsDiffer`), for the depacketizer tells pictures apart by nothing else.
`MCRtpReceiver` assumes both of its cameras. A picture whose tables never came, or were
replaced by those of another quality, has the standard tables (`HeadAfter`): see 5.

**RtspClient_proofs.** `ControlInv` says whose turn it is (`Turns`: who is at work has the
thread), that there is one receive loop at most and that `m_receive_loop_active` tells of it
(`OneLoop`), which calls can meet it (`CallFits`: PAUSE does, TEARDOWN waits for its end),
and that everybody with a read on the socket waits for it (`ReadsFit`). For
`ClientOwnAnswer`, `AnswerInv` adds that an answer to the request under way is in one place
only, be it the server, the wire, a completed read or the buffer (`OneUnderWay`), and that
nothing is left of an earlier one by the time the next is sent (`Quiet`). It holds when no
loop is begun beside another (`PlaysOnce`), as long as no answer is overdue (`NoneOverdue`);
once one is, all answers that are still about, wherever they are, are of a request that was
given up or of one behind it (`LateInv`).

For `ClientStreamInStep`, `StreamInv` lays the buffer, the completed reads and the wire on the
stream of the connection, side by side and in this order (`Laid`), although a read may end inside
a frame: the buffer begins between two units (`Between`), the frames given out are those before
it (`Later`), and the one that is still at its front is there when the loop comes back to
consume it (`Cursor`). It holds with `PlaysOnce` while the connection is not `torn`
(`StreamUntorn`): the two steps that put a call's completed read behind others or drop it tear
the stream exactly when they displace bytes; after any other completed reads are in order.

The two that follow rest on `AnswerInv`, hold while no answer is overdue, and use what it
brings: the request under way is the one of the call, with the credentials of the provider
as it is (`AskedIsCalled`), and only the server adds to the answers on their way
(`OnTheirWay`), so what is true of an answer when it is given is true when it is taken.
`RightCredentialsServe` is not inductive: nothing in it says what the provider holds. For
`ClientRightCredentialsServe`, `CredentialsInv` says that nonces only grow (`CountsFit`),
that of a nonce that holds the provider has all that goes with it and has counted as far as
the server or further (`NonceIsKnown`), that a nonce which was used is the provider's
(`UsedIsKnown`), and that every 401 on its way brings the challenge of the moment and was no
answer to right credentials (`RefusalsTrue`). `ChallengesInv` is what remains of it for a
connection with an answer overdue, so that the next connection begins well.
`RightIsAccepted` is the step behind it: the hash of the header is the one the server
computes. `AsksAsMeant` is the hypothesis on servers: the last of their headers says what
they mean, and the nonce comes in it once. For `ClientTracksAsAgreed`, `TracksInv` follows a
setup, SETUP by SETUP: the server has the channels of the answered ones, and of the one
under way when its answer says so (`SettingUp`, `AnswersTrue`). Its hypotheses are
`DescribedAsMeant` (the parser makes of a description the media that are meant, with URLs
that differ) and `SetsUpOnce`. What the parser makes of a description, and of a challenge,
is thus left to TLC, which evaluates both hypotheses for the servers of the run.

**Recording_proofs.** Of a recording: `BuilderInv` says what the pending entries are to the
context (`Described`: it has the start of the first, which is the earliest, and the latest
end) and that they are below each limit (`NotFull`), so that one entry more still fits
(`Fitting`). An order of `std::sort` is an injection of a finite set into itself and
therefore leaves no entry out. Every block is then in `SoundBlocks`, and `RecordingIsStored`
is a refinement: `Store == INSTANCE SegmentStore_proofs WITH Blocks <- SoundBlocks`, an
infinite set of blocks no run could take. `EveryBlockIsSound` and `RecordingSurvives` follow
from the theorems of that instance. `ReaderHasAll`: `ReaderInv` says that a reader has had
the file up to its place (`ReadsOn`), or has had all its blocks and run into what comes
behind (`WentAstray`), which never becomes a block; it holds however the file grows
(`PlaceGrows`), as nothing that a reader has open is cut. The hypothesis `PastRejected` is
the default of the options; without it the first entry need not be the earliest.

Of the schedule: `PictureIsTrue`: a reader who asks for every channel he is
told of has the right picture, because a channel whose attributes differ from it is in
`told` (`PictureInv`). `QuietAfterStop`: for an orderly owner, `WheelInv` says that a loop
lives only while the wheel runs or `stop()` waits for it, and that there is one at most.
`ScheduleIsKept`: `TurningInv` adds that a wheel nobody stops has exactly one loop, which goes
on to the next tick; `ScheduleInv` that the clock names an hour of the week, and that no
schedule holds manual recording, which a refresh would not give back. `HourInv` is the bound:
the time a channel has been off its schedule and the ticks until the next call of the hour
(`TicksLeft`: none from the end of the tick that expires it to the callback) are together the
interval and what was dawdled at most. A tick in time moves one from the second to the first.
The bound itself, `ScheduleFollowed`, is not inductive: it says nothing of when the next call
comes. `OwnerAssumption` asks that the wheel has an entry for the hour and that `Window` is no
shorter than its interval and what may be dawdled; the run takes the shortest such window.

Some theorems state what no run checks, because the runs check something stronger or the
property is part of an invariant: `NoEntryStranded`, `HandlesCorrect`, `PlaysAllTracks`,
`RegisteredCanBeRemoved`, `OrderlyLosesNothing`, `ChannelsNeverShared`, `InitializedIsServed`,
`PayloadFound`, `PayloadInside`.

Only model-checked: all liveness (fairness and ENABLED are beyond the prover); that frames
come out whole (`LosslessIsExact`, `WholeAfterLoss`), which is what folds over all packets of a
frame compute.

## 5. Where the code and its own statements disagree

The run `multisink_release` finds `PointersAlive` violated: `multi_sink.h:23` promises that sinks
may be added and removed while the pipeline runs, but `send_frame()` (`multi_sink.cpp:58`) visits
raw pointers after it has left the lock, and the sink may be gone.

The others are reproducible by changing a configuration as said and naming the property. A
property "without" something is the one of the run without its exception, which is there because
the code needs it; the run itself includes all these behaviours:

| statement | property | configuration |
|---|---|---|
| `tcp_write_serializer.cpp:181`, the buffers live until the completion handler: `close()` frees the entry `async_write` still reads (`:149`) | `BuffersOutliveWrite` | serializer with a queue of 2 |
| `tcp_write_serializer.cpp:225`, the queue is cleaned after an overflow | `OverflowedQueueCleaned` | serializer with a queue of 2 |
| `media_pipeline.h:62`, no frame behind `stop()` | `QuietAfterStop` | `Spec`, playback only, buffer and jitter 1, time 3 |
| `media_pipeline.cpp:372`, a single timer chain | `SingleTimerChain` | the same with two starts |
| `multi_sink.h:61`, a sink added later is opened: not if `open()` or `close()` comes between the two locks of `add_sink()` (`multi_sink.cpp:111`, `:126`) | `SinksFollow` without `crossed` | multisink |
| `multi_sink.h:50`, the url of the first sink | `UrlOfFirstSink` | multisink |
| the response to TEARDOWN: `close()` overtakes the response still posted to the strand (`rtsp_server_session.cpp:692`; 721 says it is sent through the serializer) | `TeardownAnswered` | session with one request |
| a track is checked against a list of tracks made earlier (`:510`) | `TracksKnown` | session with 5 requests |
| `rtsp_server_session.cpp:666`, all transports are removed from the media session: not after DESCRIBE of another path (`:472`) or SETUP of a playing track (`:569`), nor what a PLAY registers behind `close()` (`:605`), because its read had completed before (`:284`) or it came with a TEARDOWN | `NothingLeftRegistered` | session; with 3 requests and no habits for the completed read |
| `rtsp_server.h:48`, stop ends all sessions: one accepted before and started after is not | `StopEndsEverySession` | server |
| `rtsp_server.h:58`, the count is that of active clients: sessions that ended are told by a use count (`rtsp_server.cpp:164`) | `CountIsActive` | server |
| `rtsp_connection.cpp:179`, the span given out last has been used: when PLAY follows PAUSE that frame is consumed twice (`:180`) | `StreamInStep` | client with `{"play_again"}` and no fault |
| `rtsp_client.cpp:383`, the loop is cancelled and awaited: after PAUSE it is only awaited, for ever if the server sends nothing more | `CallsReturn` | client with `{"teardown_paused"}` |
| the same, and `:436`: `cancel()` ends the reads begun, but not one that has completed, whose loop goes on to another and is awaited for ever | `CallsReturn` without its exceptions | client |
| an answer behind the timeout is taken for that of the next request, as CSeq is parsed but never compared (`rtsp_connection.cpp:148`) | `OwnAnswer` without `overdue` | client |
| a call's read is `read \|\| timer` (`rtsp_connection.cpp:305`): its bytes are appended behind those of a loop's later read, or dropped when the timer fires too, and the stream is cut inside a frame | `InStep` | client |
| the answer to PLAY is left in the buffer by the loop of the PLAY before | `OwnAnswer` without `overdue` | client with `{"play_again", "late_frame"}` and no mishap |
| SETUP after one that failed half-way doubles the tracks | `TracksAsAgreed` | client with `{"setup_again"}` |
| a short write counts as written | `BlocksSurvive`, `FooterTellsTruth` | segments with `short_write` (and a crash) |
| the last sync of a segment fails unseen | `LossBounded` | segments with `close_sync_fails` and a power loss |
| the last name is overwritten (`segment_builder.cpp:193`) | `BlocksSurvive` | segments with `LastSequence = 0` and a crash |
| `segment_reader.cpp:220`, bisection finds the nearest block: the index need not be sorted, when the clock steps back or entries come out of order (`:221`) | `SeekFindsNearest` without `Ascends` | segments |

A PAUSE, PLAY or TEARDOWN that meets a receive loop's older read may lose its answer to
that loop, which skips answers; the call then times out, and the timeout cancels the loop
too, which calls the disconnect callback although the connection stands. The `client` run
includes these behaviours; no statement of the repository excludes them.

Met while reading, and in the models as the code has it where they concern modelled state:

* `onvif_client.h:106` prefers 720p for the second stream, but the lowest score wins after
  the bonus for 720p has been added. `initialize()` that fails half-way leaves what it had
  set (`onvif_client.cpp:96`; harmless by `InitializedIsServed`). Faults of SOAP 1.2 are never
  told apart: their code and subcode are nested, and `soap_client.cpp:156` looks right
  below the fault. `replace_uri_authority` with a host only drops the port. The strand of
  `HttpClient` (`http_client.cpp:151`) orders handlers, not requests.
* RecordScheduler: an hourly change keeps the manual bit although `record_scheduler.h` says it
  is cancelled; `set_attribute` with manual replaces all other bits although the header
  calls the attribute composite; manual recording cannot be ended when nothing is
  scheduled; `has_any_flag` lets attributes through that are not scheduled with one that is;
  the comment on the index of the options in `schedule.h` is off by one; `enabled` is read
  by nobody.
* RTSP client: the session id outlives TEARDOWN and a new SETUP carries it
  (`rtsp_client.cpp:424`); a `qop` list is echoed as it is, `auth-int` without the hash of a
  body; unquoted lists are split by the parser; of several challenges the last is kept; a
  nonce renewed between the two tries fails the call; the Transport of the answer is stored
  and not looked at, nor is `a=control` of the session; the end of an answer knows two spellings
  of Content-Length; the codec is that of the lowest payload type with an rtpmap.
* RTP: a late restart header of another picture changes how the next packet is read
  (`rtp_jpeg_depacketizer.cpp:382`); NAL units joined around a lost fragment come out
  although `rtp_depacketizer.h` promises whole frames; a frame that waited for the next
  packet is given that packet's timestamp; timestamp 0 stands for "no packet yet"; the
  pass-through buffer of audio is written again while it may be held
  (`media_frame_buffer.h:20`). JPEG tables are kept for the last quality only, and a picture
  that was sent without its own gets the standard ones if they are of another or never came,
  also for qualities of 128 and more (`rtp_jpeg_depacketizer.cpp:214`), where RFC 2435 has
  no tables but those sent.
* SegmentReader: a finished file without index gives `kUnexpectedEof` (the footer header is
  shorter than a block header), where `segment_reader.h:83` says `kEndOfSegment`.
* TimerWheel: `start()` clears `m_stop_requested` after it has set `m_running`, so a `stop()`
  in between is forgotten and waits in vain (`timer_wheel.cpp:33`).
* `block_builder_options.h:141` calls `enable = false` the default, but the default is true.

## 6. Further hazards

`PROJECT.json` lists the hazards that the properties are for, and the most important of
those that no property covers. Others that were met, by component:

* MediaPipeline: `start()` without tracks leaves the source open (`media_pipeline.cpp:58`);
  `stop()` beside a `start()` that still waits (`:110`); a playback speed of zero (`:357`).
* MultiSink: a failing `open()` leaves the sinks before it open until `close()`
  (`multi_sink.cpp:31`).
* TcpWriteSerializer: a failed write leaves `m_active` true, and later submissions fail one
  by one (`tcp_write_serializer.cpp:193`; in the model).
* RtspServerSession: channels wrap after 128 SETUPs (`:560`), `std::stoull` throws out of
  the read loop (`:311`, in the model), PAUSE with a null media session (`:641`, in the
  model), SETUP of a playing track (`:569`, in the model), SETUP leaves the playing state
  while frames flow (`:587`), `m_running` is a plain bool (`:240`).
* RtspServer: an acceptor that stays open when bind fails (`rtsp_server.cpp:59`, in the model).
* SegmentBuilder: a repair of a file that a builder or a reader has open
  (`segment_repairer.cpp:329`); `get_next_sequence` is given a cleared context
  (`segment_builder.cpp:180`).
* RtspClient: two receive loops share `m_receive_loop_active`, so `close()` need not wait
  for both (`rtsp_client.cpp:338`, in the model); a half-failed `setup()` (`:170`, in the
  model).
* RtpReceiver: a late packet moves the expected number back (`rtp_receiver.cpp:189`, in the
  model: losses are counted twice).
* TimerWheel: two loops on one timer wake each other (`timer_wheel.cpp:60`, in the model).
* OnvifClient: services replaced under a call of another coroutine (`onvif_client.cpp:139`),
  two callers who reconnect (`soap_client.cpp:189`): the model has one coroutine at a time,
  as no caller in the repository has two.
* Authentication: a clone has the nonce and the count of its original, and each counts on by
  itself (`digest_auth_provider.cpp:119`); only tests clone providers.
* Helpers: `drain(timeout)` wakes other waiters (`async_loop_drainer.h:122`); the channel of
  `wait_all` is not thread safe (`awaitable_group.h:87`); `block_on` leaves a coroutine with
  references into a dead frame (`async_bridge.h:87`).

## 7. What is not modelled, and why

* Drainers, awaitable group, async bridge: templates that nothing in the repository
  includes, tests neither, so there is no use to model them from.
* The pool of block buffers: a free list behind one lock; a buffer has one owner and goes back
  with it. The pool of frame buffers, where reference counts decide, is in `RtpReceiver`.
* Conversions without state between calls: codec parsers, URIs, XML, base64, time, the text
  of RTSP messages and HTTP headers. Unit tests reach them; a message is a record here.
* Calls into other libraries: OpenSSL (crypto; TLS is a handshake that succeeds or fails),
  libavformat (`Mp4Reader`), the system's queries of devices and drives.
* `RateCalculator`: one rate from two samples on one thread.
* Of the modelled components: UDP sockets of the receiver (`bind_udp` tries ports and the
  loop hands datagrams to the same `on_packet`), the buffers a packetizer writes into, the
  providers for API keys, bearer tokens and WS-Security (each formats one header),
  `keep_alive_loop()` and `reset()`s that nobody calls.
* Data races proper. Where the code uses a plain variable from two threads (`m_running` of
  a session) the models follow the tests, with one thread per `io_context`.

## 8. The plan

Done, in the order of importance: the write serializer, the pipeline, the multi sink, the
server session, the server, the segment files with block builder and reader, the client with
descriptions and authentication, the reception of RTP, HTTP and ONVIF, the scheduler on its
timer wheel. Open:

1. Proofs: the folds of the depacketizers behind `LosslessIsExact`.
2. Two coroutines on one HTTP client, once the library has such a caller.
3. The helpers of 7, once something uses them.
