# go2rtc in TLA+

go2rtc takes streams from cameras, files and programs and gives them to browsers, recorders and
other programs. This directory models the parts of it whose correctness depends on the order in
which things happen, checks the models with TLC on small instances, and proves the most
important invariants with TLAPS for every value of the constants. `PROJECT.json` has, for every
definition, the lines of `src/` it stands for, and lists components, runs, mutants, hazards and
theorems.

1. [The system](#1-the-system)
2. [Modules](#2-modules)
3. [Runs](#3-runs)
4. [Fairness](#4-fairness)
5. [Proofs](#5-proofs)
6. [What the properties leave out](#6-what-the-properties-leave-out)
7. [What is not modelled](#7-what-is-not-modelled)
8. [Plan](#8-plan)

To repeat a run or a proof:

    tlc -config MCStreams.cfg MCStreams
    tlapm StreamsProofs.tla

## 1. The system

### How the parts interact

    camera / program                                      browser / recorder
         |  packets                                            ^  bytes
    core.Producer (a connection) --Receiver--> Sender --> WriteBuffer / socket
         ^ dial, start, stop                   ^ AddTrack      ^ WriteTo
    streams.Producer  <---GetTrack, AddTrack--- streams.Stream <--- HTTP, WebSocket,
         | worker, reconnect, timer             | AddConsumer         RTSP, WebRTC
                                                | RemoveConsumer

* A **stream** (`internal/streams`) is a name with a list of producers and a list of consumers.
  Every consumer is a goroutine of some server (HTTP request, WebSocket handler, RTSP
  connection, WebRTC callback) that calls `AddConsumer` and later `RemoveConsumer`.
  `AddConsumer` dials producers on demand, matches their medias with those of the consumer,
  moves tracks and starts the producers; the last consumer to leave stops them.
* A **producer** (`internal/streams/producer.go`) is a state machine around one connection. Once
  started it has a worker goroutine that runs the connection, dials it again when it ends, and
  asks again by a timer while the source does not answer.
* A **track** is a `core.Receiver` of a connection; its children are the `core.Sender`s of the
  consumers. A sender is a queue with a goroutine, so that a slow consumer does not hold up the
  camera. Consumers that write a byte stream put a `core.WriteBuffer` behind their senders, in
  which the goroutine of the request waits.
* **Connections** to cameras are in `pkg/`. Most are a log-in and a loop over a wire format. Two
  have a transport protocol of their own over UDP: `pkg/xiaomi/miss/cs2` and `pkg/tutk`; Wyze
  cameras speak it over DTLS (`pkg/tutk/dtls`, `pkg/wyze`), with three goroutines for each
  connection.
* **RTSP** (`pkg/rtsp`) is one type with several roles: a client that dials again and sets its
  tracks up anew when one is added while it plays, and the connections of the server in
  `internal/rtsp`, which become producers or consumers of streams. **exec** runs programs that
  publish to this server and waits for their connection.
* **WebRTC**: the server of `internal/webrtc` exchanges an offer, an answer and candidates over
  a WebSocket whose messages are handled each in a goroutine. The clients of go2rtc, Kinesis,
  OpenIPC and Ring do the same from the other side, and wait until their peer connection is up.
* The **updater** (`internal/updater`, Windows) is a process of its own: it asks for the latest
  release, stops the service, replaces its executable and starts it again.

### Components, their state, and what makes them correct

| component | state | operations | what is hard | what must hold |
|---|---|---|---|---|
| producer (`streams/producer.go`) | `state`, `conn`, `workerID`, `receivers`, `senders`; worker goroutines, timers | Dial, GetTrack, AddTrack, start, stop, worker, reconnect | a worker reads `workerID`, releases the mutex and takes it again; timers fire up to a minute later; stop and start may come in between | one worker or timer for a started producer; no connection lost, shared or used after its stop; readers follow a reconnect; an overtaken worker does nothing and ends; a lost source is asked again |
| stream (`stream.go`, `add_consumer.go`) | `producers`, `consumers`, `pending`; where every consumer is | AddConsumer, RemoveConsumer, stopProducers, AddProducer, RemoveProducer | no lock over the walk through producers; stops are skipped while somebody joins; children are read without the mutex of the producer | producers stop after the last consumer, whichever that is; nobody who left still reads, unless a reconnect met it in the midst of a call; every call returns |
| fan-out (`core/node.go`) | `childs` of a node | AppendChild, RemoveChild, MoveNode, Close | lists that change while others range over them; a move in three critical sections, the last without a lock | who reads from a track |
| Sender (`core/track.go`) | `buf`, `done`, counters | Input, Start, Wait, Close, the goroutine | Close against Input on one channel; a full queue; Close before, while and after Start | no panic; packets in order, each once; everything queued is handled before Wait returns; Input never waits for the consumer |
| WriteBuffer (`core/writebuffer.go`) | `Writer`, `err`, `state`, `wg` | Write, WriteTo with Reset, Close | the writer changes hands under the writes; the client goes at any time | nothing lost or twice; the request is released |
| Waiter (`core/waiter.go`) | `state`, a WaitGroup, `mu`, `err` | Wait, Done | Wait starts a waiter by itself; the error is set after the release and read without the mutex | nobody waits for ever |
| cs2 (`xiaomi/miss/cs2/conn.go`) | `waitSeq`, `pushBuf`, `waitData`, `waitSize`, `popBuf`; `cmdAck`, `cmdMu` | worker, PushSeq, Push, Pop, WriteCommand | loss, repetition and reordering; 16 bit numbers that wrap; a bounded buffer; acknowledgements with the right to forget | an ordered, reliable channel; messages as they were sent; commands that return |
| tutk (`session25.go`, `session16.go`, `conn.go`) | reorder buffer, `waitCSeq`, `waitData`, `rawPkt` | SessionRead, handleChunk, Push, Pop, WriteCommand | nothing is sent again, but the network may repeat; copies of packets that were taken stay in the buffer; a full buffer gives packets up | only lost packets are given up, as long as copies leave room; frames are whole and in order; a loss costs no frame but its own |
| tutk over DTLS (`frame.go`) | a `channelState` for each channel, `tsTracker`, `output` | Handle, handleVideo, handleAudio, Recv, Close | loss and reordering without a reorder buffer; a clock that wraps; a full channel | frames are whole; a loss costs no frame but its own; time runs on |
| wyze (`tutk/dtls/conn_dtls.go`, `wyze/*.go`) | the context, two DTLS connections, the queues `clientBuf`, `rawCmd`, `frames`; a reader, a worker, a ticker | Dial, the commands, probe, Start, StartIntercom, Close | every step may fail or time out; Close against three goroutines; answers matched by kind only | every call returns; nothing is left after Close; an answer is an answer |
| rtsp client (`pkg/rtsp`) | `state`, `conn`, `Medias`, `Receivers`, `Senders`; Start with its loop, the keepalive goroutine | GetTrack, AddTrack, Start, Stop, Reconnect | Handle reads what a reconnect replaces, without the mutex; responses are taken by whoever reads; a camera refuses | what plays carries every track; tracks that are added are played |
| rtsp server, exec (`internal/rtsp`, `internal/exec`) | a goroutine and a `closer` for each connection; waiters by path, the program | ANNOUNCE to TEARDOWN, execHandle, Close | clients stop anywhere; two calls with one path; a program against its time-out | nothing listed that has ended; no program outlives its use |
| WebRTC clients (`client.go`, `kinesis.go`, `openipc.go`, `ring`) | two Waiters, `err`, the WebSocket, the peer connection | offer, answer, candidates, states | three goroutines finish one Waiter; callbacks assign the `err` of the one that waits | what is returned as connected was; the call returns |
| WebRTC signalling (`webrtc.go`, `candidates.go`) | the connection in the transport's context, pending candidates, `sendAnswer` | asyncHandler, asyncCandidates, candidateHandler, the gatherer | any order of handlers; failures after gathering has begun | no candidate lost, early or doubled; nobody stays blocked |
| updater (`runner.go`, `apply_windows.go`, `winsvc_windows.go`) | three files, the service, a status | Check, download, ApplyWindows | any call may fail, that which brings the old program back too; the power may go, the service may take its time | a whole program on the disk at every moment; down only during an update; never back to an older one |
| play, publish, preload (`streams`) | internal producers and consumers, a map of preloads | Play, Publish, AddPreload | replacing what runs; one retry | see the plan |
| api, ws (`internal/api`) | handlers, OnClose callbacks, one `err` | HandleWS, Write, Close | a goroutine per message on shared variables | see the plan |
| hls (`internal/hls`) | sessions with buffers and a keepalive timer | requests, the timer | a timer against a request | see the plan |
| the rest | | | wire formats, codecs, HTTP and configuration: sequential | section 7 |

The hazards of the code, each at its line and with the properties that stand for it, are in
`PROJECT.json`.

## 2. Modules

One module per component, without constants for one run only; `MC<module>` gives constants to
TLC; `X <- Y` below: module X extends or instantiates Y. Theorems are in modules of their own:
`StreamsProofs` (about `Producer` and `Streams`), `Cs2Proofs` (`Cs2Window`, `CommandAck`,
`Cs2Conn`), `TutkMediaProofs` (`TutkReorder`, the modules of frames, `TutkMedia`),
`TutkDtlsProofs`, `RtspProofs`, `WebrtcProofs`, `ConsumerProofs` (`Sender`, `WriteBuffer`,
`Consumer`) and `UpdaterApplyProofs`.

| module | models | composes |
|---|---|---|
| `ConnOwnership` | abstract: a connection belongs to one producer from dial to stop and is traded for a fresh one in one step | |
| `Producer` | the life cycle of producers; every critical section of the code is an action | refines `ConnOwnership` |
| `Streams` | consumers that join and leave | `<- Producer` |
| `OrderedDelivery` | abstract: items come out in the order they were sent, each once | |
| `Cs2Window` | sequence numbers, buffer and acknowledgements of a cs2 data channel | refines `OrderedDelivery` |
| `Cs2Channel` | how `Push` puts messages together from what the window gives it | `<- Cs2Window` |
| `CommandAck` | WriteCommand of cs2 and tutk | |
| `Cs2Conn` | a cs2 connection: its media and its commands | `<- Cs2Channel, CommandAck` |
| `TutkUdp` | a TUTK camera that cuts frames into packets, and the network (external) | |
| `TutkFrames16` | frames of protocol 16, which has no buffer, and the queue they are read from | `<- TutkUdp` |
| `TutkReorder` | the reorder buffer of protocol 25 | `<- TutkUdp` |
| `TutkFrames25` | frames behind that buffer | `<- TutkReorder, TutkFrames16` |
| `TutkFramesAV` | `FrameHandler`: frames of cameras that speak DTLS | `<- TutkUdp` |
| `TutkMedia` | a camera of any of the three kinds | `<- TutkFrames25, TutkFramesAV` |
| `TutkDtls` | a Wyze client: dial, commands, media, intercom, Close | |
| `RtspClient` | an RTSP connection to a camera | |
| `RtspServer` | the connections of the RTSP server and the programs of exec | |
| `Rtsp` | the roles of an RTSP connection | `<- RtspClient, RtspServer` |
| `UpdaterApply` | the updater, the service and the disk | |
| `Sender` | the queue of a consumer and its goroutine | |
| `WriteBuffer` | the buffer in which the request waits | |
| `LossyDelivery` | abstract: some of the items that were sent come out, in order, none twice | |
| `Consumer` | a sender whose handler writes to a WriteBuffer | `<- Sender, WriteBuffer`; refines `LossyDelivery` |
| `Waiter` | core.Waiter | |
| `WebrtcSignal` | offer, answer and candidates over a WebSocket, seen from the server | `<- Waiter` |
| `WebrtcClient` | the same from the client, for four kinds of signalling servers | `<- WebrtcSignal, Waiter` |

Three of the modules put parts side by side that share no state, so that one run asks about
each: `Cs2Conn` (the media and the commands of a connection), `TutkMedia` (a session is of one
kind) and `Rtsp` (a connection has one role), as does `WebrtcClient` with `kind`. An initial
state chooses the part that moves. Nothing is lost by this: a behaviour of both parts is an
interleaving of one of each, and every property here speaks of one part.

### Producer

The variables are the fields of the struct, one function from producers each, and `connSt`,
`offers`, `kids`, `strays` and `back` for what belongs to connections and tracks: `kids` are the
children in the list of a receiver, `strays` those of them whose `parent` is another one. `agents`
holds what go routines and timers there are: a record of the `workerID` it was started with, the
connection it runs, the retry it is at, and where it is (`run`: in `conn.Start`; `failed`, `ended`:
it has returned and has not read `workerID`; `timer`: the retry is due or in `reconnect`).

| action | code |
|---|---|
| `DialNew` | `Dial` of a producer in state none; a failed dial changes nothing |
| `GetTrack`, `AddTrack` | the same; a receiver is found again by the pointer of its codec, as in the code |
| `Start` | `start`: the state and `go p.worker(conn, workerID)` |
| `StartReturns` | `conn.Start` returns, by itself or because it was stopped |
| `WorkerCheck` | the first critical section of `worker`: `workerID` is compared |
| `ReconnectStale`, `ReconnectFails`, `Reconnect` | `reconnect`: overtaken; no answer, a timer is set; a new connection, whose tracks are taken for the old receivers, then the old one stops |
| `Stop` | `stop`: connection, tracks and `workerID` |
| `AddExternal`, `RemoveExternal` | a source that pushes: `Stream.AddProducer`, and `RemoveProducer`, which takes the producer of a connection that is over off the list and leaves its readers where they are |
| `Attach`, `Bind` | `AppendChild`: a consumer's sender is put into the list of a receiver; its parent is written |
| `Detach` | the senders of a consumer close: each takes itself from the list of its parent |

`MoveNode` (`node.go:75`) empties the old receiver's list in one critical section, fills the new
one's in another, and then writes the parent of each child without a lock. Others see only what
is left in the end: a sender that closes meanwhile takes itself from the list of its old parent,
where it no longer is, and a sender whose `AppendChild` has put it into the old list and not yet
written its parent gets the old one written last. Either stays in the new list as a stray, which
no `Close` removes. A reconnect therefore is one step with a nondeterministic `late`: the consumers
that it meets in the midst of such a call, with the codec of the track.

`Receiver.Close` ranges over a slice that `RemoveChild` shifts: up to two children are all
removed, of three or more some may stay, which is the nondeterministic `left` of `Stop`. With
the two consumers of the runs it makes no difference; the theorems hold for any number.

### Streams

`op[u]` is the place of consumer `u` in AddConsumer or RemoveConsumer with the local variables
of these functions. Every call on a producer is one action of `Producer`, and between any two of
them all other consumers and workers may run, because the code holds no lock there.
`stopProducers` is five actions, cut where the code reads without a lock: `StopCheck` (the read
of `pending`), `StopLock`, `StopLook` (the slices), `StopJudge` (the children), `StopKill`
(`Producer.stop`), and `StopUnlock`. `Loops` stands for the comparison of a producer with the
consumer's own source. The places "bind" (between the two steps of AppendChild) and "close" (a
consumer closes its senders) are those at which a reconnect may find it: `Lates`. Producers that
push are in `Producer` only: stopProducers leaves them alone.

Two variables are histories, which properties except (section 6) and nothing reads: `hung`, the
consumers on whose backchannel track a reconnect has hung a connection, and `lost`, for each
connection the consumers that came to its tracks in a reconnect and kept another parent.

### Cs2Window and Cs2Channel

The camera and the network are external: packets are numbered, lost, repeated and reordered, and
the camera sends again what was not acknowledged. `Refuse`, `Save`, `Repeat` and `Expected` are
the branches of `PushSeq` with the acknowledgement the worker sends for its result; `PushNext`
and `PushLast` are the rounds of its loop, `PushFails` the full `popBuf` that ends the worker.
`Diff` is the `int16` difference of the code. Two facts about the network are in the model,
named where they are: the camera keeps at most `Window <= Half` packets in flight and no copy of
a packet is on the way for half the sequence space (`Send`); at 16 bit that is 32768 packets.

`Cs2Channel` gives the packets a content: the camera writes one message after the other, each a
header with its size and a body, into a stream of bytes and cuts that anywhere (`cut`). A byte is
its place in the stream, so that a byte that is lost, doubled or read as another shows. `Start`,
where each message begins, is the sum of the `Sizes` before it, which TLC and the provers are both
given (`StartAssumption`). `Push` appends, reads the size once (`ReadSize`, garbage unless it is
read at the beginning of a message), and hands over what is complete. `Header` is 4 in the code.

### CommandAck

WriteCommand of cs2 and of tutk is one piece of code written twice. The closure `cmdAck` of the
latest command is the variable `repeat`, as both share it. `prompt` is a fact of the network
that never changes: what is on the way arrives or is lost within a tick. The code does not match
acknowledgements with commands and needs it.

### TutkUdp, TutkFrames16, TutkReorder, TutkFrames25, TutkFramesAV

`TutkUdp` numbers the packets of all frames from 0. Its assumptions on the network are named as
constants: a packet arrives before `Late` further ones were sent or never, fewer than `Gap` in a row
are lost, of `Span` packets the beginning of at least one frame arrives, and at most `Repeats` are
repeated (DTLS drops repeated records). `First` is the number of a frame's first packet: the sums of
`Chunks`, which TLC and the provers are both given. `came` and `began` remember what these
assumptions are about.

Protocol 25: the buffer takes any packet it does not wait for, a copy of one that was taken long ago
included, which stays there until its number comes round or the buffer is full; `Pop` then moves to
the next number there is. `repeats` are the packets that came again, and `Fits` is the bound under
which the buffer restores the order: packets that overtake and copies together find room (`Late +
Cardinality(repeats) <= Room`), and no number of a copy has come round. `HandleChunk` puts chunks
that follow each other together. Protocol 16 keys chunks by the number of their frame, which wraps;
there `Late` and `Gap` have to stay within that number space (`FrameReachAssumption`). `Queue` is
the channel between the worker and the reader, with the drop when it is full (`full` remembers that
it was).

`TutkFramesAV` has a record for each channel, as `channelState`; a packet that is not the next
one of its frame resets it. `Elapsed` is the difference of two clocks that wrap at `WrapPeriod`.

### TutkDtls

`main` is the goroutine that dials and then is in Start, `talk` a consumer in AddTrack, `closer`
the steps of Close; `reader`, `worker` and `ticker` are the goroutines. `clientBuf` holds what
the reader has passed on, answers by the number of the command they are for: the code sees only
their kind (`Matches`). `Discovery`, `Session` and `Connect` succeed or fail as one step each,
because nothing else runs while they do. `ringing` are the commands whose timer has been set once:
the callback of `AfterFunc` writes and then calls `Reset`, also when the call has returned in between
and its deferred `Stop` is over, so that a command may be written again for as long as the
connection is open. `crashed` is the end of the process by a nil pointer:
the worker and the ticker use `clientConn` without the mutex under which Close sets it to nil.

### RtspClient, RtspServer, Rtsp

The client: `call` is the place of GetTrack or AddTrack, and `todo` the medias it sets up, the
wanted one last. While the connection plays, a call closes it, dials, describes and sets up every
track (`Restore`). `start` is the place of Start: `top` looks at the state under `stateMu` and
plays, `handle` and `read` are the loop of Handle, which does not hold it; `stale` says that its
read is on a connection that was replaced. `patient` is a connection whose read deadline is longer
than the keepalive's period, which the code does not exclude: the period is the timeout of the
session less five seconds, and `#timeout` sets the deadline to any value. There the answers to
keepalives may renew the deadline for ever. Requests and responses of the current connection are two
queues. A response is taken by a call or by Handle, whoever reads first, and not compared with what
was asked.

The server: each connection goes through the requests in the order Accept names, and may end at
each, by hanging up or with a TEARDOWN, which Accept answers in every state and takes for success: a
program that tears down before RECORD is handed to the call of exec with its state none. `closer` is
what removes it from its stream, `listed` whether it is there. Exec: `waiter` is the entry of the
path in the map, `chan` the channel of a call, which may hold a connection that nobody will take; a
call deletes the entry of its path, whoever made it. A call is a first dial of a producer or one of
its reconnect (`replaces`), which stops the connection that is over only once it has another.

### UpdaterApply

Files are the version they hold, `None` or `Partial`. Each system call of ApplyWindows is an
action that succeeds or, when it is among `faults`, fails, the rename that brings the old program
back (`RestoreFails`, an error the code does not look at) included; `Crash` is a power failure at any
place, after which the service manager starts the service if `go2rtc.exe` is whole. `slow`
machines take their time to stop a service: `sc stop` is followed by the states STOP_PENDING and
STOPPED, and the wait ends at the first that is not RUNNING. Nobody else starts or stops the
service meanwhile.

### Sender, WriteBuffer, Consumer

`Sender.Input` is cut where the mutex is taken and where the `select` is decided; the goroutine
takes a packet, handles it and counts it. `WriteBuffer.Close` is cut at its unlocked look at the
writer. `Consumer` joins them: the handler of the sender is `Write`, the request is in `WriteTo`,
and stopping is `Connection.Stop`: senders first, the buffer second. The way from `Input` to the
client's connection is a `LossyDelivery`, with the counter of packets as what is sent.

### Waiter, WebrtcSignal, WebrtcClient

`Done` releases the WaitGroup and sets the state in two steps. `WebrtcSignal` is asyncHandler
from the offer on, with the deferred calls, each in the order of the code, candidate handlers in
goroutines of their own, and the goroutine of the peer connection that waits for the answer
before it sends candidates.

`WebrtcClient` has two Waiters: the one of `WebrtcSignal`, which holds candidates back until the
description was sent, and `connState` with its error. `dial` is the goroutine that dials, `reader`
that of the WebSocket, `gatherer` and `event` the callbacks of the peer connection. The four clients
share the steps they share in the code; where they differ, `kind` decides: go2rtc reads its answer
before the reader starts and does not hold candidates back; openipc answers an offer, in its reader,
in two steps (`GetOffer`, `AnswerOffer`), between which gathering has begun and candidates may
overtake the answer if the Waiter lets them; ring's reader runs from the beginning and stops
everything on an error. The signalling server sends the answer once, something bad or something
buggy, and may close at any time; the peer connection comes up, fails or drops.

## 3. Runs

Deadlock is checked in `updater` only: everywhere else the system may really come to rest, when
all consumers have left, the camera has sent everything, or connections are used up.

| run | instance | what it asks and shows |
|---|---|---|
| `producer` | one producer, one consumer, two connections, one codec and the backchannel, one retry | `OneAgent`: exactly one worker or timer for a started producer, none for another. `ReadersMove`: a reconnect carries readers over. `ImplementsOwnership`: the whole is a `ConnOwnership`. `StaleAgentsEnd`: overtaken workers and timers end. `Reconnects`: a lost connection is replaced |
| `streams` | two consumers that take all matching medias, two producers, three connections | `NoGhostProducer`: when everybody has left, every producer is stopped, whichever stops were skipped, but for one that has a consumer in `lost`. `NobodyLingers`: nobody who left or failed to join still reads, with the same exception. `StaleAgentIsHarmless`: only the present worker swaps a connection |
| `streams_talk` | one consumer talks over the backchannel, one listens; two connections | `IdleProducersStop`: as above with sources that may or may not offer a backchannel, but for a producer that has a consumer in `lost` or holds the track of one in `hung`. `EveryCallReturns`: AddConsumer and RemoveConsumer return |
| `streams_race` | two consumers, one producer | expected violation of `StopsOnlyIdle`, the words of `add_consumer.go:96` "stop producers if they don't have readers": `stopProducers` reads `pending` and the children of a producer before it has the mutex of that producer; a consumer that begins in between gets a track and loses it at once |
| `cs2_window` | seven packets, sequence numbers 0 to 5, three in flight, a buffer of one | `AcksAreRight`: what the camera may forget is there (`AckedIsKept`), and the packet it cannot go on without is never refused, however full the buffer is (`OldestGetsIn`). `ImplementsDelivery`: an ordered channel. `AllArrive`: everything comes through |
| `cs2_conn` | two messages with a header of two bytes and a body of three, in three packets, cut in every way, also inside a header; three commands, five tries as in the code | `Framed`: the reader gets the messages of the camera, whole, in order and none twice, and none is kept back whose packets were pushed. `SentHasArrived`: on a prompt network success means that the camera has the command |
| `tutk_media` | four frames of one to four packets on two channels; numbers 0 to 6, a buffer of three and one copy; frame numbers 0 to 2; a clock that wraps at 4 | `FramesWhole`, `FrameArrives`: no frame is made of the packets of two, and a loss costs no frame but its own, for each of the three ways to put them together; with protocol 25 they come in order as long as `Fits`. `WaitsForLate`: under the same condition protocol 25 gives up lost packets only. `TimeRuns`: frames keep their distance in time when the clock wraps |
| `tutk_dtls` | a log-in, the question that ends Dial, one try to talk; queues of one | `CloseIsClean`: after Close, and after a Dial that failed anywhere, no goroutine, socket or DTLS connection is left (`NothingLeft`), and the nil pointer that Close leaves is met, if at all, while Close waits (`NilInCloseOnly`). `AnsweredHasArrived`: an answer that was waited for means that the camera has the command. `EveryCallReturns`: commands, Close and with it Start return |
| `updater` | one updater, three releases that come and may be withdrawn; all faults at once, all but that of the way back, or those of `Harmless` | `SomeProgram`: there is a whole program, in place or as the backup. `DownMeanwhile`: on a mild machine the service is down during an update only. `NoDowngrade`: it never comes back older. `RunsAgain`: on a mild machine it comes back |
| `webrtc` | the server with two candidates of the browser, one of this side, one configured and three calls that may fail; each client with one message of its signalling server after a buggy one | `CandidatesInPlace`: no candidate before the offer or answer (`DescriptionFirst`), and from the answer on the connection of the server has each candidate that was handled, once (`OnceEach`). `EveryCandidate`: each one gets there. `NobodyBlocks`: the gatherer does not wait for ever. `OkIsConnected`: a client that returns a connection had it up, and one that had an error returns it. `DialReturns` |
| `rtsp` | a client with a track in each direction and up to three calls, with and without a backchannel; a viewer or publisher; two programs with one path, for two dials or for a dial and its reconnect | `PlaysWhole`: a session that plays carries every track. `TracksPlay`: calls return, and a track added to a running connection is played, unless the connection is `patient`. `NothingStays`: what has ended is closed and in no list (`NothingListed`), and the program of a call that failed, or whose producer was stopped, has ended or is told to (`NoOrphan`). `ProgramsEnd`: no program outlives its call, its producer or a reconnect of it. Both except a program that sent TEARDOWN before RECORD (`TornDown`) |
| `consumer` | two packets, a queue of one, two goroutines that start and two that close | `HandlesAll`: each packet once, in order (`InOrder`), and all of them before Wait returns (`WaitDrains`). `NothingLost`: buffer and client together have everything. `ImplementsLossy`: from the camera to the client a lossy delivery. `NeverBlocks`: Input returns though the consumer blocks. `RequestReturns`: WriteTo returns after an error or a Close |

Four more configurations are kept for the counterexamples that TLC finds with them, which are what
the exceptions above are made for; section 6 says where they are in the code:

| configuration | property | counterexample |
|---|---|---|
| `MCStreamsGhost.cfg` of `MCStreams` | `NoReadersNoProducer`: "stop producers if they don't have readers" (`add_consumer.go:96`), with nothing excepted | a consumer leaves while a reconnect moves the children of its track; it stays on the new track, and the producer runs on (`node.go:75`) |
| `MCTutkRepeat.cfg` of `MCTutkMedia`: a buffer of two, two copies | `OrderRestored`: the words of `session25.go:291` about the buffer, without `Fits` | copies of packets that were taken fill the buffer, and packets come out behind later ones (`session25.go:164`) |
| `MCUpdaterPending.cfg` of `MCUpdaterApply` | `WhileStopped`: `go2rtc.exe` is updated "while the main go2rtc service is stopped" (`docs/UPDATER_SERVICE.md:3`) | the program of a service in STOP_PENDING is replaced (`winsvc_windows.go:68`) |
| `MCRtspGhost.cfg` of `Rtsp` | `NoGhostExec`: a program whose connection was stopped is told to end ("fix ghost exec/ffmpeg", `streams/producer.go:237`) | a program sends TEARDOWN before RECORD (`rtsp/server.go:213`) |

Every property of a run has a mutant: a definition with a plausible mistake (a missing guard, a
forgotten reset, a swapped order) with which TLC finds the property violated under the same
configuration.

### Bounds, and why they are enough

* *Connections* (`Conns`) bound the number of dials. Two are a first connection and its
  replacement, or a stop and a second start; the third, in `streams`, is both, or one for each
  producer and a reconnect.
* *One codec* is enough for the walk of AddConsumer, in which codecs are independent. What one
  consumer media with several codecs adds is the order of matches, which `GetTrackStep` leaves
  open.
* *Consumers* join and leave once: a consumer value in go2rtc is made for one request. The races
  of `pending` and of `stopProducers` are between two.
* *Retries* (`MaxRetry`): the time between retries grows with their number and has no other
  effect. The runs of streams have none, the timer being in `producer`.
* *Half* is 3 instead of 32768: the numbers wrap within the seven packets, and packets from a
  whole window before and after the wrap are compared. The theorem has 32768.
* *PushSize 1 and Window 3*: the camera can be two ahead of the packet that is missing, so that
  the buffer is found full, which is when packets are refused. In cs2 the size is 100 (media)
  and 10 (commands) against a camera that keeps sending.
* *Header 2, sizes 3, three packets*: a cut may fall inside a header, at its end, inside a body and
  between two messages, and a packet may hold the end of one message and the beginning of the
  next; the size is more than the header, as the code needs (section 6).
* *Room 3, Late 2, Gap 2, one copy* for TUTK: a packet can come as late as the buffer allows beside
  the copy, and the buffer fills behind a lost one; a copy may also come so late that its number
  comes round, where `Fits` ends. `MCTutkRepeat.cfg` has room for two and two copies. The chunk
  counts (2, 1, 3, 4) make a lost last chunk meet a first one, and the ten packets wrap the numbers;
  *Span 7* is the whole number space. The clock wraps between the first two frames and again later.
* *BufSize 1, CmdSize 1, Flying 2* for DTLS: answers and media push each other out of the queues,
  and a repeated command and its first answer are under way together. The log-in, a question and
  the intercom are the three ways the code waits for an answer.
* *Three calls* for RTSP: a track before Start, one while the connection plays, and one after a
  call that failed. *Flying 1*: a keepalive and its answer between a request and its answer.
* *Two programs with one path*: each may take, delete or refuse what belongs to the other; a
  third adds no new pair.
* *One message* of the signalling server: an answer, or something that cannot be used; what
  comes after the answer changes nothing.
* *Commands 3*: an acknowledgement can come for the command before, and for the one before that.
* *Packets 2, queue of 1*: one packet waits while one is handled, the next is dropped.
* Versions 1 to 3: an update, and another that appears or is withdrawn in the middle.

## 4. Fairness

* *Goroutines run.* Weak fairness of what a goroutine that has begun does next: the rest of
  AddConsumer and RemoveConsumer, the worker after `conn.Start` has returned, timers, the loop
  of PushSeq, the sender's goroutine, the handlers of WebRTC, ApplyWindows. Nothing makes
  anybody join or leave a stream, or start an update. The camera of `cs2_window` sends, and the
  sender of `consumer` is fed, started and closed in the end, as what they promise is about that.
* *`conn.Start` returns when the connection was stopped* (its socket is closed) and need not
  return otherwise.
* *A source answers at the latest after `MaxRetry` retries*, as long as there are fresh
  connections. `Reconnects` says nothing when connections are used up.
* *Mutexes are fair*: Go's mutex hands itself to a goroutine that has waited for a millisecond.
  Strong fairness of taking the mutex in `Sender`, and in the Start of `RtspClient`.
* *Deadlines pass and timers fire*: a read of a silent RTSP connection ends (strong fairness, as
  packets renew it; none for a `patient` connection, which answers to keepalives may hold for ever),
  a command over DTLS gives up, and so does a call of exec.
* *A program that was killed ends*, and `reconnect`, once it has another connection, stops the one
  before (`Swapped`). That it gets another one, or that anybody stops a producer whose
  connection is at its end, is not assumed.
* *A signalling server answers or goes away, and a peer connection that is tried comes up or
  fails*: ICE has time-outs of its own.
* *The network* of cs2 loses packets and acknowledgements, but not the oldest one every time:
  strong fairness for the oldest packet and for its acknowledgement. Without it no protocol
  delivers. Nothing is assumed of the network of `TutkDtls` but that what is on the
  way arrives or is lost.
* *The handler of a sender* and *the client* have none: `NeverBlocks` holds though they block.

## 5. Proofs

Each theorem is about every value of the constants. TLC has checked the same formula, and the
invariants of the proofs, before.

* **StreamsProofs, of producers.** `ProducerSafety`: `OneAgent`, `NoGhostConn` (an open
  connection belongs to a producer, whose stop closes it) and `WorkerRunsConn` (two producers
  never share a connection and the worker runs the one its producer holds). None of the three is
  inductive alone: that a reconnect finds the right connection to stop needs that its worker is
  the only one and runs the connection the producer holds, and that a new start gets a
  `workerID` no agent has needs a bound on them. `CoreInv` is the types with the three,
  `HoldsConn` (a connection unless state is none) and `WidBound`. The proof has one lemma for
  each action. `ProducerTypes` adds tracks. `StaleAgents` (`StaleAgentIsHarmless`),
  `ProducerRefines` (`ImplementsOwnership`) and `ReadersAreMoved` (`ReadersMove`) follow from
  the invariant, step by step.
* **StreamsProofs, of streams.** `StreamRunsProducers` (`Spec => ProducerSpec`): a step of a
  stream is a step of its producers or leaves them alone. It needs to know where a consumer is:
  that its index is in the list when it calls a producer, and that it holds a track when it
  attaches (`OpInv`). So the theorems on producers hold in every stream (`StreamSafety`).
  `StreamTypes` is type correctness.
* **StreamsProofs, of consumers that leave.** `IdleIsStopped` (`IdleProducersStop`), `NoGhosts` and
  `NoGhostsWithoutTalk` (`NoGhostProducer`, as long as nobody is `hung`, and always where no source
  offers a backchannel), `NobodyStays` (`NobodyLingers`). All four except what is `lost`, as the
  statements do. That this is the only exception needs to know whose parent is another node: a stray
  is between the two steps of AppendChild or is `lost` on that connection (`StraysLost`), the next
  connection of a producer inherits what the one before has lost (`LostFollows`, `SeenLed`), and
  streams have no pushed producer (`NonePushed`). "When all have left" is inductive only as a
  statement on who has still to come: `SomebodyComesBy` says that a producer that runs has a
  consumer that walks, is joined, or is about to stop producers and has not passed it. A consumer
  that skips the stop leaves this to one that is counted in `pending`, which is why `pending` must
  be the number of those that walk (`EveryConsumerCounted`); one that judges a producer without its
  mutex must find its readers joined (`ReadersJoined`, `TalkersJoined`), and only one judges at a
  time, under `Stream.mu` (`OneJudges`).
* **Cs2Proofs, of the window.** With sequence numbers of 16 bits (or the 6 of the run), any
  number of packets, any window of up to half of them and any buffer. The heart is `ReadNear`:
  whenever the worker reads, every packet on the way is less than half the sequence space ahead
  of the one that is waited for, so that the sign of the difference tells past from future. This
  needs what was acknowledged to be kept: the packet that is waited for is then not
  acknowledged, and the camera cannot be a window ahead of it. So `IInv` joins order (`InOrder`,
  `InStep`), the buffer (`NearFuture`), the network (`OnTheWay`, `WithinWindow`) and
  `AckedIsKept`, which are inductive only together. `WindowTypes`, `WindowSafety` and
  `WindowRefines` (`ImplementsDelivery`) follow; so does `OldestIsTaken` (`AcksAreRight`): what is
  refused is ahead of the packet that is waited for, and that one is not acknowledged.
* **Cs2Proofs, of a connection.** `ConnDrivesWindow`: putting messages together and sending
  commands makes only steps that the window allows, so what is proved of the window holds of a
  connection (`ConnIsReliable`). `SuccessIsTrue` (`SentHasArrived`) rests on `OneOnTheWay`: on a
  prompt network there is one copy of the command that waits, or its acknowledgement, or
  neither.
* **Cs2Proofs, of messages.** `MessagesAreWhole` (`HandsMessages`, the first part of `Framed`) and
  `NothingWithheld` (`Framed`). `FramingInv` joins three counts: `waitData` is the part of the
  stream from the end of what was handed over, or of the header behind it (`From`), to the end of
  what was pushed (`Upto`) (`Collected`); a size that is known is that of the message which comes
  next; and a Push that has returned has found nothing more that is whole (`Exhausted`). So a size
  is read only where a message begins. The pieces are joined and cut with lemmas on the bytes
  between two places (`BytesJoin`, `BytesSub`, `BytesSplit`). It rests on the invariant of the
  window: packets are pushed in order, each once. `NothingWithheld` has the hypothesis that
  messages are longer than the header, without which it is false (section 6, `conn.go:435`).
* **TutkMediaProofs.** One invariant for the three protocols, `MediaInv`. `LateIsWaitedFor`
  (`WaitsForLate`): while packet `w` is waited for, what is on the way is not before it, and from
  `w - 1` on there is a packet in the buffer for each `Gap` packets that have come (`NoGap`); so
  no two of those that came early have one number, and when the buffer is full with at least
  `Room - Cardinality(repeats)` of them, the one that is waited for is too late to come. Copies
  are told from them by `Fits`: nothing that the buffer compares is as far as `SeqSpace` from
  anything else (`Compared`, `SeqApart`). `FramesAreWhole` (`FramesWhole`): what is being put
  together is a beginning of one frame. Protocol 25 has to rule out that the chunk that is
  waited for is met again when the numbers have come round (`Assembled25`, `Reach`); protocol 16
  that two frames with one number meet (`Assembled16`); over DTLS a frame begins once, as its
  first packet comes once (`AssembledAV`). `FramesArrive` (`FrameArrives`): packets of a frame
  that came one after the other are what is being put together (`Arriving25`, `Arriving16`,
  `ArrivingAV`). `TimeRunsOn` (`TimeRuns`): the tracker holds the clock of the last frame that
  was given (`Clocked`).
* **TutkDtlsProofs.** `ClosedIsClean` (`CloseIsClean`): who may still be running at each place of
  Close, and what Close has closed by then (`Closing`, `Closed`). That nobody meets its nil outside
  of the wait (`NilInCloseOnly`) is inductive only with them: once Close has waited, nobody is left
  who could. `AnswersAreOfTheCamera` (`AnsweredHasArrived`): nothing is in a queue that has not been
  at the camera, and what rings was a command (`Begun`). `Types` is type correctness.
* **RtspProofs.** `SessionsAreWhole` (`PlaysWhole`): a session that plays has every track set up
  because one that is being set up has every track set up or still to do (`Restored`), and because
  what is on the way is for the track that is waited for (`Asking`). `EndedIsGone` (`NothingStays`):
  a connection that is listed has a closer, and the producer of a program is a connection of a
  program (`Listed`). `OnClose` goes to the program of the call that took the connection, which may
  be another one's; so a connection must be in one channel, or be what one call has returned, and
  never go back (`Handed`), whether it came by RECORD or by TEARDOWN.
* **WebrtcProofs.** `CandidatesFollow` (`DescriptionFirst`): until the description was written
  (`Ready`) the Waiter holds its callback back (`Held`), and each kind of client is ready at the
  places where it lets candidates go (`Ordered`). `EachCandidateOnce` (`CandidatesInPlace`): until
  the context has the connection, what was handled is pending, and at that moment all of it is added
  (`CandidatesInv`). `ReturnsAreTrue` (`OkIsConnected`): `connState` is finished without an error
  only by a connection that has been up (`Counted`, `Reported`); that it is finished at all while
  openipc answers tells that the answer was written or the call is over (`OpenInv`). `WaitsAreEnded`
  (`WaitsForSomeone`: no callback waits for the description of a call that is over): `sendAnswer`
  counts one task at most, and the deferred `Done` is the last step of a call and finishes it for
  good, so that a Wait which comes later starts nothing (`WaiterInv`).
* **UpdaterApplyProofs.** For one process (`Updaters = {p}`): `Whole` says for each place in
  ApplyWindows which file is the program and how new it is. `OnlyForward` (`NoDowngrade`) holds
  under any faults and crashes, `ProgramStays` (`SomeProgram`) where the way back does not fail
  while the service still answers (`NoWayBack`). `DownNoLonger` (`DownMeanwhile`) is about a machine
  that stops a service at once and fails only where `ApplyWindows` finds a way back: there the
  service is down during an update only. With two processes they do not hold (section 6).
* **ConsumerProofs.** `Places` ties what the sender keeps apart: the channel is closed exactly when
  `buf` is nil, `done` is closed exactly when the goroutine has ended, and that happens only once
  the channel is closed and empty. `ClosedOnce`, `HandledInOrder` (`InOrder`) and `DrainedByWait`
  (`WaitDrains`) follow, together `HandlesAll`. `ConsumerDrivesSender`: a consumer is a `Sender` to
  which its handler adds; so `ConsumerSafety`. `NothingIsLost` (`NothingLost`) adds the buffer,
  which is empty as long as there is no error once the client is the writer (`HandOver`).
  `ConsumerIsLossy` (`ImplementsLossy`): every step is one of `LossyDelivery` or a stutter, as what
  the buffer was given is what was handled, in its order, and what the client has is the beginning
  of it. `ErrorsRelease` (`Released`: after an error the request does not wait): an error puts the
  buffer into its last state, from which no `Reset` comes back (`ReleasedInv`).

The assumptions are those of the modules, named, and TLC evaluates each for the runs:

* types and finite bounds of the parameters; names that must differ (`NoConn` is no connection,
  "free" no consumer, "input" no closer, a media no word of the protocol);
* `WindowAssumption`: the camera of cs2 keeps at most half the sequence space in flight;
* `StartAssumption`: where messages begin is the sum of the sizes before; `NothingWithheld` names its
  own hypothesis on the sizes;
* `FirstAssumption`, `NetAssumption`, `ReachAssumption`, `FrameReachAssumption`: the network of
  TUTK, as in section 2;
* `Half` is 3 or 32768, `SeqSpace` 7 or 65536, `FrameSpace` 3 or 65536, `WrapPeriod` 4 or
  1000000: the sizes of the runs and those of the code. The provers do no arithmetic modulo a
  number they are not given.

Proved and in no run are `NoPanic` (`ClosedOnce`), `HoldsFuture` (in `WindowSafety`) and the safe
parts of two properties under fairness, which the runs ask for as a whole: `WaitsForSomeone` of
`NobodyBlocks`, `Released` of `RequestReturns`. TLC has checked them as invariants of the same
instances before.

Two statements were false as first written, which the attempt to prove them showed and TLC then
confirmed: `IdleProducersStop` excepted only producers whose present connection hangs on the
track of a consumer (section 6, `producer.go:231`), and `FramesWhole` had no bound on how long
the beginnings of all frames may be lost (`session25.go:175`).

Only model-checked: everything under fairness (`StaleAgentsEnd`, `Reconnects`, `EveryCallReturns` of
both modules, `AllArrive`, `RunsAgain`, `EveryCandidate`, `NobodyBlocks`, `DialReturns`,
`TracksPlay`, `ProgramsEnd`, `NeverBlocks`, `RequestReturns`), which TLAPS cannot prove: every other
property of a passing run is stated by a theorem. Of some of them the safe part is proved, that the
step which is to come is still possible: `WaitsForSomeone` and `Released`, as said, `DownMeanwhile`
of `RunsAgain`, and `NoOrphan` of `ProgramsEnd` and `OldestGetsIn` of `AllArrive`, which are in
`NothingStays` and `AcksAreRight`; that the step is taken is left to TLC. `StopsOnlyIdle` is
violated, as its run shows, and so are the four properties of the further configurations in section
3.

## 6. What the properties leave out

Met while modelling, with no run of their own; where a property is stated more narrowly because
of it, its comment says so. The first four have a configuration that shows them (section 3).

* `node.go:75`: `MoveNode` gives the children to the new receiver in two critical sections and writes
  their parents afterwards without a lock. A sender that closes or is being appended meanwhile ends
  in a list that is not its parent's and is never removed; its producer does not count as idle
  again and runs on when everybody has left. `NoGhostProducer`, `IdleProducersStop` and
  `NobodyLingers` except such consumers (`lost`), and no others; `NoReadersNoProducer`, without the
  exception, is violated. What others do in the middle of a move is modelled by its outcome. Left out
  are a sender that is appended to the old receiver after its children were taken, which is
  closed with the old connection, and the look of stopProducers at the lists while they are empty,
  which comes to the same as `StopLook` before and `StopJudge` after the move.
* `session25.go:164`: a packet whose number is not the expected one goes into the buffer whatever
  that number is, a copy of one that was taken or given up included, and stays there until its
  number comes round or the buffer is full. Such packets take the room of those that came early;
  when they fill the buffer, a packet that is only late is given up, and `Pop` goes round the
  numbers and gives them out behind later ones. `WaitsForLate` and `FramesWhole` of protocol 25 hold
  as long as `Fits`; `OrderRestored`, without it, is violated. Packets that are later than `Late`
  are not in the model.
* `winsvc_windows.go:68`: a service in STOP_PENDING counts as stopped; its program is replaced while
  it ends, and `sc start` of it fails with 1056, which is taken for success, so it stays down.
  `WhileStopped` is violated; `DownMeanwhile` and `RunsAgain` speak of machines that are not `slow`.
* `rtsp/server.go:213`: TEARDOWN is answered in every state, and Accept returns without an error. A
  program that sends it before RECORD is handed to the call of exec as a success; the stream's
  `Stop` finds state none and calls neither Close nor OnClose, so nobody tells the program to end.
  `NoOrphan` and `ProgramsEnd` except it (`TornDown`); `NoGhostExec` is violated. RECORD without
  SETUP is not in the model.
* `producer.go:222`: `reconnect` moves the readers of a receiver to the new receiver of its
  codec and leaves the loop over medias at the first that matches. A consumer that was matched
  against medias read before a reconnect makes a second receiver of the same codec (GetTrack
  compares pointers), whose readers the next reconnect does not move. `ReadersMove` is stated
  for distinct codecs.
* `producer.go:231`: `reconnect` gives every track in `p.senders` to the new connection, those
  of consumers that have left included. Such a track has a child from then on, and a producer
  that holds it does not count as idle. `IdleProducersStop` excepts it. The connection need not
  be one of the producer that stays: a consumer may talk to two producers on one track, and a
  later reconnect may return a connection without a backchannel; hence the history `hung`, and
  not the children of the track, says whom it concerns. `NobodyLingers` says that only a
  connection which a producer still holds hangs on such a track.
* `add_consumer.go:31`: `prodErrors` is as long as the list at the beginning; AddProducer may
  lengthen the list meanwhile. The list is fixed in the model.
* `node.go:65`: the test for the last child is made after the lock is released; a `Close` of the
  last child closes its parent, so that a sender which is appended in between is closed with it. The
  model leaves that out. `Close` ranges over a slice that `RemoveChild` shifts (`left`).
* `waiter.go:38` and `:47`: `Wait` reads the error without the mutex and Done sets it after the
  WaitGroup was released; the callbacks of the clients over WebSockets assign the `err` of the
  goroutine that dials (`kinesis.go:96`). A connection that failed may then be returned as one
  that is up, or as neither. `OkIsConnected` leaves reads at the time of an assignment out
  (`torn`).
* `kinesis.go:170`: `break` leaves the `switch` and not the loop: an answer that cannot be used
  is ignored, and the client waits until the WebSocket ends. `DialReturns` excepts it (`deaf`).
* `openipc.go:95`: the `continue` for "some buggy messages" goes to `for err == nil`, so that
  such a message ends the reader, and with it the dial.
* `ring/client.go:115`: the handlers of the WebSocket are set after its reader has begun; an end
  of the socket before that is not noticed (`deaf`).
* Kinesis and OpenIPC leave the peer connection open when they return an error; the model has
  no property about it.
* `writebuffer.go:86`: a Close that comes before WriteTo does nothing, and WriteTo waits until a
  Write fails. With a writer that can be closed, Close closes it and leaves WriteTo to the next
  Write. `RequestReturns` is stated for a Close whose critical section is still to come.
* `cs2/conn.go:435`: the loop of Push wants more than four bytes also when the size is known. A
  message of at most four bytes that is cut after its size comes out with the next packet only.
  The sizes of the messages are above `Header` in the run, and in the hypothesis of
  `NothingWithheld`; `MessagesAreWhole` needs no such bound. Media begin with a
  header of 32 bytes of their own; a command without data has just four (`conn.go:200`), and the
  hypothesis leaves it out.
* `cs2/conn.go:167`: acknowledgements are not matched with commands; a late second one counts
  for the next command. `SentHasArrived` is stated for `prompt`.
* `session25.go:175`: after a loss the old data and the number of the chunk that is waited for
  stay until a frame begins. When the beginnings of all frames are lost for as long as the
  numbers take to come round (65536 packets), a chunk of another frame has that number and is
  put behind the old data. `FramesWhole` is false then, as TLC shows with a larger `Span`; the
  model keeps it out with `Span <= SeqSpace`, and the theorem needs no more.
* `session16.go:210`: two frames with the same 16 bit number within reach of each other would be
  taken for one. `FramesWhole` of protocol 16 needs `Late + Gap` to stay within the number
  space (`FrameReachAssumption`): no network that delivers comes near 65536 frames.
* `frame.go:377`: a frame numbered 0 would go into the state of no frame. The camera counts from
  1, which the model takes over.
* `conn_dtls.go:588` and `:213`: the worker and the ticker look at the context and then use
  `clientConn` without the mutex; Close sets it to nil in between. The process ends with a nil
  pointer (`crashed`); `EveryCallReturns` says "or `crashed`", and `NilInCloseOnly` that it can
  happen only while Close waits.
* `conn_dtls.go:597`: when the camera closes DTLS the worker ends and the channel of frames stays
  open: Start waits for a Close from outside. The deadlines of probe and Start are set on the
  socket, where the reader sets its own (`:661`). `EveryCallReturns` speaks of Start after Close.
* `conn_dtls.go:414`: the callback of a command's timer writes and then sets the timer again; when
  the command has returned in between, its `Stop` came too early, and the command is written every
  second until Close (`ringing`). The camera has it then already, or again, as with any repetition.
* `conn_dtls.go:439`: answers have a kind and no number. The second answer to a command that was
  repeated may be taken for that of a later one of its kind: `AnsweredHasArrived` is about the
  first of each kind.
* `rtsp/client.go:89`: `Do` takes the next response and does not look at its `CSeq`. After a
  request that timed out, every response is taken for that of the next request (`torn`), and
  `PlaysWhole` excepts such a session. It excepts as well what a call leaves that failed between
  DESCRIBE and its last SETUP: the state is `conn` then, and the next call sets up its own track
  and no other.
* `rtsp/conn.go:94`: a keepalive is sent every timeout of the session less five seconds, which may be
  one; the deadline of a read is five seconds, longer without receivers, and anything that
  `#timeout` says. Where it is longer than the period (`patient`), the answers to keepalives renew
  it and hold Handle in a session that was set up anew and does not play, for as long as the
  camera answers. `TracksPlay` leaves `patient` connections out.
* `rtsp/client.go:376`: a 200 without a Transport ends a SETUP with an error of its own, which is
  not tried again without the backchannel, as other refusals are. In the model it is one of the ways
  of `SetupFails`.
* `exec.go:51`: a connection that is put into the channel of a call which has just timed out is
  neither handled nor closed by go2rtc; it ends with its program, which is told to (`NoOrphan`).
* `exec.go:183`: a call that returns removes the waiter of its path, which may be that of a later
  call with the same source; the program of that one is refused, and its call times out.
* `apply_windows.go:31`: the error of the rename that brings the old program back is not looked at.
  When it fails on a machine whose service still answers, the service goes on with its program
  gone, the next update removes the backup first, and nothing whole is left if its copy fails too:
  `SomeProgram` excepts it (`NoWayBack`).
* `apply_windows.go:15`: the scheduled and the manual updater exclude each other by nothing. The
  second removes the backup while the first copies. The theorems are for one.
* `apply_windows.go:25`: between the rename and the end of the copy the only program is the
  backup: `SomeProgram` counts it, but nothing puts it back after a power failure, and a check
  fails as long as the service is down (`runner.go:65`).

## 7. What is not modelled

* Muxers, codecs, RTP and SDP, URLs: sequential conversions, which tests on recorded data reach.
* The log-in and wire format of the cameras, RTMP, SRTP, HomeKit, discovery and integrations:
  one request after another with no state that several goroutines change.
* `NewStream`, `SetSource` and the registry of streams: a map; its missing lock in `DELETE` is a
  data race on that map and no question of order.
* WHEP, WHIP, Milestone and Creality, one HTTP exchange each; the WebRTC clients of Tuya, Nest and
  Roborock, which signal over MQTT, HTTP and a protocol of their own (see the plan).
* RTSP over UDP and over WebSocket, authorisation and redirections; programs of exec that write
  to a pipe; the discovery of TUTK and Wyze cameras and their accounts.
* Internal producers (`stream.go:89`: their stop clears `conn`, and RemoveProducer then does not
  find them) and preloads (`preload.go:44`: a replacement that fails leaves the removed consumer
  in the map), which are in the plan.
* Of the modelled parts: JSON, logging, statistics, the names in errors, timeouts as numbers.
* The receiver side of `core.Receiver` but for its children, and the fan-out's own races, which
  are in the plan.

## 8. Plan

Written first, in this order, since streams carry every use of go2rtc and the transports are
where packets get lost:

1. `Producer`, `ConnOwnership`, `Streams`, with `StreamsProofs`.
2. `OrderedDelivery`, `Cs2Window`, `Cs2Channel`, `CommandAck`, `Cs2Conn`, with `Cs2Proofs`;
   `TutkReorder` and the two modules of frames.
3. `UpdaterApply` with `UpdaterApplyProofs`.
4. `Sender`, `WriteBuffer`, `LossyDelivery`, `Consumer`, with `ConsumerProofs`; `Waiter`,
   `WebrtcSignal`.
5. `WebrtcClient`: a Waiter with an error, and the clients that wait for a connection, with
   `WebrtcProofs`.
6. `TutkUdp`, `TutkFramesAV`, `TutkMedia`, `TutkDtls`: cameras that speak DTLS, with
   `TutkMediaProofs` and `TutkDtlsProofs`.
7. `RtspClient`, `RtspServer`, `Rtsp`: the connections of RTSP and the programs of exec, with
   `RtspProofs`.

Next, to extend the model:

8. `Fanout`: `core/node.go` with lists as sequences and its unlocked ranges; `Producer` then
   takes from it which children a `Close` leaves.
9. `HlsSession`: the keepalive timer against the requests of a session.
10. `Streams` with a list that AddProducer and RemoveProducer change; Play, Publish and preload
    as callers of it.
11. The WebSocket API, whose handlers share one `err`; the WebRTC clients of Tuya, Nest and
    Roborock as further kinds of `WebrtcClient`.

Next, to prove more:

12. `OrderedDelivery` and `LossyDelivery` for TUTK: the reorder buffer is an ordered channel with
    gaps, and each of the ways to put frames together a lossy one.
13. A two-process `UpdaterApply`: which of its invariants are left when two updaters overlap.
14. Type correctness of `WebrtcClient` as a theorem of its own; that `Waiter`
    keeps what `WebrtcProofs` says of its two counters, for any number of goroutines.
15. What a `Fanout` module (8) promises about the children of a track, so that `Stop` of
    `Producer` can cite it.
