# NAILA: a verification project

TLA+ models of this repository, from the device's audio client over the hub to the AI
server, its services and its memory, checked with TLC. What the models promise as safety
is proved with TLAPS. Paths below are relative to the repository's root.

    device audio client --WebRTC--> hub --one gRPC stream--> AI server --MQTT--> devices
    (devices/audio-client)          (hub/, Rust)             (ai-server/, Python)

## 1. Inventory

**Hub: signaling and session lifecycle** (`hub/src/http.rs`, `main.rs`).
State: `device_tasks` (device id to `CancellationToken`), `device_configs`, the
conversation counter. `POST /connect` cancels the device's registered session,
negotiates WebRTC (many awaits, any of which may fail), registers the new token,
stores the capabilities and spawns a device task. A peer-state callback cancels
the token. ctrl-c cancels what is registered, then everything else.
Hard: several handlers and tasks of one device at once, all on shared maps,
with awaits between the check and the use. Right when: a device has one live
session, the registered one; what a session registers is collected after it;
cancelled sessions end.

**Hub: device task** (`hub/src/device.rs`). One per session: subscribes to TTS
responses, loops on `select!` over microphone, TTS channel and token, sends a
closing END, cleans up. Hard: while it waits for the audio bus it hears
nothing else; its cleanup races the session that replaced it.

**Hub: voice activity detection** (`hub/src/vad.rs`). A four-state filter with two
counters and an onset buffer. Hard: counting at the thresholds, the buffer that
is flushed once, two state machines (filter and relay) that must stay in step.
Right when: what it emits is a sequence of utterances without a gap.

**Hub: audio bus and gRPC client** (`hub/src/audio.rs`, `grpc.rs`). A bounded
queue (256) all device tasks fill and one client empties. The client connects,
asks for the status, opens a stream, sends and routes until something fails,
drains the queue, backs off and tries again. Hard: what was queued, held or sent
when a stream fails; producers that go on in the meantime; cancellation at
every await. Right when: order is kept and nothing is sent twice, sequence
numbers and capabilities are per stream, `/health` does not lie, nobody waits
for ever.

**Hub: WebRTC transport, metrics** (`webrtc.rs`, `metrics.rs`). Codec and RTP
packetisation; counters and a status cache.

**AI server: StreamConversation** (`ai-server/rpc/service.py`). One call per hub, made of a
reader task, a processing task per clip, the orchestration task it starts, and the handler,
which writes. Two bounded queues (100, 32) connect them. Hard: cancellation in the middle of
a put, `finally` blocks that wait, a client that goes away, several sessions on one stream.
Right when: what a clip holds of a session has no gap, a new clip supersedes the old one and
its outputs, every clip is answered, the call ends.

**AI server: response generation and delivery**
(`agents/response_generator.py`, `utils/sentence_buffer.py`, the delivery callback
in `rpc/service.py`). Sentences are delivered with a lookahead of one, packets too,
so that only the last of all is `is_final`. A stream without text falls back to one
call, retried unless it timed out. Hard: nobody knows beforehand which packet is
the last, sentences without audio, a delivery that raises, a thread that runs on
after its timeout. Right when: packets are complete and in order, one final closes
them, the question is answered once.

**AI server: orchestrator and graph** (`agents/`, `graphs/`). A pipeline of
nodes with flags: input, vision, recall, action, generation; commits the exchange to
memory at the end. Turns of all devices run at once and share memory, caches and
models. Hard: another turn, a cancellation or a failure between any two nodes. Right
when: a turn is given its own device's past, and memory agrees with what devices were told.

**AI server: model services and actions** (`services/`, `utils/`,
`agents/actions/`). Models behind a pool of slots with a timeout; a producer thread
streams sentences to the event loop; transcription is retried and batched; spoken
phrases, scenes, places and the server's location are cached, the last on disk. Hard:
timeout against acquire, cancellation against the thread, what was read before an
await and is used after it, items of a batch that fail at different points. Right
when: slots add up, nobody is forgotten in line, everybody gets the own answer.

**AI server: lifecycle** (`main.py`, `server/`, `managers/ai_model.py`,
`rpc/server.py`). `main()` starts memory, models, MQTT, gRPC and the monitor and stops
them in an order; emergency stop. Hard: models that loaded in part, a signal at any
stage, stages of the stop that fail, work in flight. Right when: a signal ends the
process and memory closes behind its calls.

**AI server: MQTT** (`mqtt/`). A client with a network thread of its own, a
connection manager, topic routing, handlers on the event loop. Hard: callbacks from
another thread, reconnects, wildcard topics, duplicates. Right when: no topic is
forgotten.

**AI server: conversation memory** (`memory/`). SQLite, migrations each in its own
transaction. Hard: a crash between two statements, exchanges of one millisecond.

**Device audio client** (`devices/audio-client`). A reconnect loop, a watchdog that
restarts the audio pipeline, an audio thread, and an executor's threads in which all
blocking calls run. State: the PortAudio stream, the microphone queue, the jobs in
the executor. Hard: a job that outlives the wait for it, readers of a connection that
is gone, PortAudio calls that fail or block for ever. Right when: a stream that runs is
the pipeline's, a restart leaves the connection its microphone, shutdown gets through.

**Wire contract** (`proto/nailaV1.proto`). The order of speech events, sequence
numbers, where a session config must be.

`PROJECT.json` lists each with its status, and under `hazards` what in this code is
hard to test, at its line.

## 2. Modules

| Module | Models | Rests on |
|---|---|---|
| `HubSession` | `/connect`, the device task's control, the shared maps, shutdown, response routing | - |
| `HubSessionProofs` | its theorems | `HubSession`, TLAPS |
| `Utterances` | abstract: what a session puts on the bus | - |
| `VadRelay` | `VadFilter::process` under the relay, frame by frame | refines `Utterances` |
| `VadRelayProofs` | its theorems, the refinement among them | `VadRelay`, TLAPS |
| `AudioBus` | the bus and the whole gRPC client loop, fed by device tasks | - |
| `AudioBusProofs` | its theorems | `AudioBus`, TLAPS |
| `StreamConversation` | one call of the AI server, all four tasks | - |
| `StreamConversationProofs` | its theorems | `StreamConversation`, TLAPS |
| `Response` | abstract: the packets a device is promised | - |
| `ResponseDelivery` | sentences to packets: both lookaheads, encoder, orchestration task | refines `Response` |
| `ResponseDeliveryProofs` | its theorems, the refinement among them | `ResponseDelivery`, TLAPS |
| `LlmPool` | the resource pool and every turn's way through it | - |
| `LlmPoolProofs` | its theorems, and those of `Services` (`Service!`) | `LlmPool`, `Services`, TLAPS |
| `DeviceClient` | the audio client: loop, watchdog, audio thread, executor | - |
| `DeviceClientProofs` | its theorems | `DeviceClient`, TLAPS |
| `ServerLifecycle` | the server's process: migrations, models, MQTT connection and network thread, gRPC, stop, crash | - |
| `ServerLifecycleProofs` | its theorems, and those of `Turns` (`Turn!`) | `ServerLifecycle`, `Turns`, TLAPS |
| `ExchangeMemory` | what conversation memory promises: `HistoryIsThePast`, `MemoryMatchesTold` | - |
| `Turns` | MQTT routing and handlers, the graph node by node, conversation memory | states the promises of `ExchangeMemory` |
| `ServiceAnswers` | what the services promise: `BatchInOrder`, `OwnAnswer` | - |
| `Services` | transcription, synthesis, scenes and weather with slots, retries, batches and caches | states the promises of `ServiceAnswers` |
| `MCHubSession`, `MCAudioBus`, `MCStreamConversation`, `MCTurns`, `MCServices` | which device each session belongs to, how long utterances are, what is said, which phrases and batches there are | |

### HubSession

`pc[s]` is where session `s` stands: in its handler (`negotiating`, `registered`), in
its task (`spawned`, `running`, `forwarding` inside `send_frames`, `ending` before
the closing END, `notified`, `cleanup`, `unsubscribe`, `deregister`) or over. A
session stands for its request, its token and its TTS channel, since each is made
once per request. The runtime is multi-threaded, so every await and every access
to a map is a step; a map access is atomic (DashMap locks the shard). In
particular the cleanup is three steps, as in the code: `CheckOwner` (the `get`),
`Unsubscribe` (the `remove`), `Deregister` (the `remove_if`). `tts_sub` holds the
only Sender of a channel, so `~Subscribed(s)` is the receiver's closed channel.
The bus is a number of frames.

### VadRelay and Utterances

A frame is its position in the microphone stream. libfvad's verdict on it is an
input. `Frame` is one turn of the loop: `process` and what the relay does with its
result, up to the frames on the bus (`out`). `speech_run` and `silence_run`
describe the input independently of the code and give the thresholds a meaning.
`Utterances` says what the AI server may rely on: a START with consecutive frames,
CONTINUEs without a gap, an END with the last frame; between utterances nothing,
and at the end of a session one more END.

### AudioBus

Frames carry their session, number and event. `queued` in a frame is a history
variable: the stream that was open when the bus took it. The client's `pc` names its
awaits: `connecting`, `opening`, `streaming`, `draining`, `waiting`, `returned`, and
`held` is the message `send_loop` waits to hand over. `backoff` counts in initial
delays. A failure takes the held message and the unread ones with it. The branch
"audio bus closed" of `send_loop` is absent: the client holds the bus, and with it
a Sender, so `recv()` never returns None.

### StreamConversation

asyncio switches tasks only at an await that suspends, so a step is what a task does up to
the next one; a put into a queue with room does not suspend (`Yield`), a put into a full one
does (`Put`). The hub puts several sessions on the stream; the reader has one buffer and
does not tell them apart. Audio is a sequence of pieces, each one chunk with its session,
its utterance and its number there; limits count pieces. As in the code a CONTINUE is
buffered in every state: with no START seen (a stream may open in the middle of an
utterance, `Init`) and after the END of another session. `cancelling` holds the clips whose
task was cancelled and has not run since; `TaskCancelled` is the moment it does. What TTS
and the graph do is in `Deliver`, `OrchestrationReturns` and `ReportFailure`: some packets,
the last final or not, and a return or an exception. `MaxClips`, `MaxPackets` and `Lengths`
(the pieces of each utterance of a session) bound the inputs.

### ResponseDelivery and Response

One utterance's answer. `generator` is the orchestration task: it pulls sentences,
delivers the one in the lookahead (`synthesizing`, then `encoding` in the callback),
commits, reports a failure, puts `_DONE`. Audio is a number of frames, a packet is
the number of its frame; the encoder keeps at most one frame back and yields one more
packet when it is flushed (libopus's padding). TTS does not raise, it returns no
audio (`tts.py:231`); what may raise in a delivery is the callback (`DeliveryRaises`).
`raised` is a history variable. A tail of less than a frame at the end of a sentence
is not encoded (`service.py:631`), so it is no frame of the model. `Response` is what
`proto/nailaV1.proto` says of the packets: numbered from 0, the transcript on the
first, nothing after a final.

### LlmPool

`stage[t]` is where turn `t` stands: in line (`waiting`, or `granted`: its future is done
but its task has not run), inside the pool on the streaming path (`pulling`,
`delivering`, `joining` its thread, `closing` its generator) or on the chat path
(`calling`), behind it (`finishing`), or over. `calls[t]` counts its threads, which end
when the model does and not before. `ahead[t]` is who was in line before `t`: the order
of the semaphore's deque. asyncio's semaphore is modelled from its documented
behaviour (first come, first served; a granted slot of a cancelled waiter is given
back and the next one woken) and is marked external. The pool's timeout is taken to
be the shorter of the two timeouts, as it is configured (60 s and 120 s).

### DeviceClient

A job of the executor is a microphone read of a connection, a restart, or the stop; `stage`
says how far it is, `Running` has at most `Workers` of them. A restart is the pipeline's
calls one by one (`CloseStream`, `ForgetStream`, `Terminate`, `Initialize`, `CreateStream`,
`StartStream`), since each may block and another job may run between two. Any of them may
raise: initialising (`InitializeFails`, PortAudio stays down), opening the stream, or
starting one that is open by then (`CreateFails`), which the pipeline forgets and nobody
closes before the next `sd._terminate`. `wait_for` gives up on a job (`Abandon`), which goes
on if it has a thread. `Callback` is PortAudio's thread: it fills `mic`, dropping the oldest
frame. The watchdog reads only whether the callback has fired (`fired`, `ever`). Lengths of
timers are left out: a time limit is a step that may come while the wait is not over. `late`
is a history variable: some restart outlived its limit or met another call.

### ServerLifecycle

`main()` is one line of control (`at`): a signal only sets an event that the main loop
reads, so a stop never overlaps the start. Beside it run paho's network thread
(`paho`: link, flag, the walk through the subscriptions in `_on_connect`, what the broker
knows), tasks that messages start, gRPC calls. `subscribe` is two steps, `ListTopic`
and `SendTopic`, as the thread's callback can come between them. The constructor has three
stages (`opening` the database, `migrating`, `building` the rest) and may fail in each, which
leaves `main()` without a server to stop. The four models load side by side and may each
fail. A start may fail with gRPC up or down, and each stage of the stop may raise.
`orphans` are orchestrations that outlive their call (`OrchestrationDetached`, and the end
of the grace period in `GrpcStopped`); like tasks and calls they may use the memory until
`WorkEnds`. A migration is a statement at a time; `Crash` leaves nothing but `db`.

### Turns

A step is what happens between two awaits at which other turns can run: recall, generate,
commit. Over MQTT the answer is published in the step of the commit, since `process_task`
and `handle_main_task` have no await between them (`Commit`, `CommitFails`). Over gRPC it is
told before: sentence by sentence while the model streams (`FirstSentence`,
`DeliverSentence`), or in one piece when it is there (`GenerateResponse`). `out` is what the
devices were told, by either way. A clip that is cancelled takes its orchestration with it
(`Cancel`) or, inside `queue.put`, leaves it running without anybody who listens (`Detach`).
A message is the topic it has, matched against the handlers' patterns by `TopicMatches`;
`wire` is the broker's queue and QoS 1 may bring a message twice. `Newer` is the ORDER BY of
`recall_recent`; `clock` is the wall clock of a commit, which may stand still and is assumed
never to be set back. Words are one of three kinds (talk, a question for the time, nothing),
a confidence is the band in which the code's thresholds put it.

### Services

A call ends the step before each await of a model, of a slot or of the network, and what it
read before it keeps (`read`). `Preprocess` leaves out the items of a batch that cannot be
decoded; `parts` are the others, each with its place in the request (`idx`), its clip and
its failed attempts, and `Results` puts what was made of them at those places. `known` is a
history variable: a location could be had without a request when the question was asked.
`phrases` and `scenes` are the caches with a limit, oldest first; `place` and `disk` are the
location in the process and in the file, of which only its age matters. Which phrase an
entry was made from is kept beside the key, so that a key that says too little shows. A
phrase whose samples are empty, which would be cached and then fail to encode each time, is
not modelled.

## 3. Runs

All runs have `CHECK_DEADLOCK FALSE`: sessions, calls and the bounded inputs come
to an end.

| Run | Instance | Shows |
|---|---|---|
| `HubSession_sessions` | 2 sessions of one device, bus 1, TTS channel 1, fair | entries of `device_tasks` and `tts_sub` are always somebody's to remove, through races, failures and ctrl-c; cancelled and unsubscribed sessions end |
| `HubSession_serial` | 3 sessions of two devices, one handler per device at a time | the live session is registered and has its own capabilities |
| `VadRelay_default` | all speech patterns of 40 frames, thresholds 3 and 15 | exact thresholds, no clipping, refinement of `Utterances` |
| `AudioBus_streams` | 2 sessions of a device with 2 frames and 1, two streams that may fail, bus 1, fair | order, no duplicates, capabilities per stream, the drain, progress behind a full bus, shutdown, these two unless an attempt to connect never ends |
| `LlmPool_turns` | 3 turns, 2 slots, streams of up to 2 sentences, fair | slots add up, nobody is forgotten in line, one model call and one answer per turn, every turn ends |
| `ResponseDelivery_packets` | up to 3 sentences of up to 3 frames, queue of 2, fair | refinement of `Response`, no packet lost, a final closes the response, the handler is done with it |
| `StreamConversation_call` | 2 sessions, an utterance of 3 pieces and one of 2 for a buffer of 1, either of which the stream may meet midway, 2 clips, queues of 1, fair | clips without gaps, clean superseding, answers; processing and half-closed calls come to an end |
| `DeviceClient_loops` | 2 connections, 2 restarts, a stream that falls silent once, 2 threads, a microphone queue of 1, fair | with PortAudio calls that fail: a stream that runs is the pipeline's, restarts leave the reader alone, a stall ends, shutdown completes |
| `ServerLifecycle_start` | 2 migrations of 2 statements, 2 topics, 2 connection attempts, 2 lost links, a crash, one task, call and orphan at a time, fair | schema and version agree, no topic is forgotten, the memory of a server that was built closes, behind its calls; a signal ends the process |
| `Turns_memory` | 2 devices, 2 inputs, one fault, memory empty or with 3 rows for a limit of 2, 2 milliseconds | a turn's history is its device's past in order; memory agrees with what devices were told over MQTT and gRPC |
| `Services_calls` | 3 calls, 2 at a time, a fault, one slot, one retry, caches of 1, two voices for the same words, two images, fair | every call returns, with its own answer or none, and a batch in its order |

Bounds. Two sessions of one device are what a replaced and a replacing session need (the
theorems of section 4 have any number); a queue of one is full as soon as anything is in it,
so every wait happens; two streams in a row are enough for state to leak from one to the
next; two clips for one to supersede the other; two sessions to end or cut each other's
utterances, one of them long enough to overflow the buffer (what is left of it is too short
to be a clip by itself in the run, `ClipsWithoutGaps` has any length); three turns for two
slots are one in line behind two inside, the fewest where a waiter can be passed over; three
sentences are a first, a middle and a last one; two connections are a reader left over and a
reader in use, for as many threads; two restarts overlap if the first hangs; two topics are
one that is listed and one that is not yet; two turns are enough for one to commit while the
other is between recall and answer, and three earlier rows for a limit of two to leave out
the oldest; of three calls two fill a cache of one and the third finds what is left, and a
batch of two different clips is the least whose results could change places; two images for
a cache of one scene. Capacities are far smaller than the code's (256, 128, 100, 32): they
only decide how soon a wait happens.

One further run checks what a comment says and the code does not do (`findings` in
`PROJECT.json` quotes the line): `LlmPool_bargein`, where a turn cancelled during a
delivery gives its slot back while its thread drives the model.

What else the models show, without a run of its own. In the hub and the voice path:

- A cleanup that checked `device_tasks` too early removes the TTS subscription of the
  session that replaced it (`device.rs:167`, against the comment at 165): `CheckOwner`,
  then the replacement's registration and subscription, then `Unsubscribe`.
- Audio queued during the backoff and the connect, and a frame that waits for the bus at
  the failure, are sent on the next stream (`grpc.rs:101`, against `grpc.rs:54`):
  `DrainedWithItsStream` lets frames through that were queued without a stream. A drain
  can take a START and leave its CONTINUEs (`grpc.rs:405`).
- An AI server that accepts a connection and never answers keeps the client in its attempt:
  connect, GetStatus and `stream_conversation` have no time limit and do not hear the token
  (`grpc.rs:143-189`, against `grpc.rs:57`). `CancelledClientReturns` and `FrameAccepted` have
  the disjunct `NeverAnswered`; at the exit `main.rs:84-94` gives up after three seconds.
- A clip cancelled while it waits for room in `output_queue` only drops its generator:
  the orchestration runs on beside the next clip's (`service.py:702`, against the comment
  at 322).
- With `output_queue` full (100 packets, about two seconds of a client that does not
  read) and the client gone, the reader's `finally` waits for a queue nobody reads and the
  call never ends (`service.py:366`); hence `\/ client = "gone"` in `ClosedStreamEnds`.
- Two overlapping `POST /connect` of one device both pass the dedup and leave two live
  sessions (`http.rs:156` and `302`, against `hub/README.md:45`). `HubSession` has the
  behaviour; `OneLiveSession` is proved under `SerialSpec` only.
- Two sessions that speak at once are mixed in one clip, and each one's START or END cuts the
  other's utterance: the call has one buffer (`service.py:212`, against `hub/README.md:92`).
  `ClipsGapless` speaks of what a clip holds of each session.
- A clip may begin in the middle of an utterance, with one device too, against
  `service.py:205` ("processes complete utterances"): a CONTINUE is buffered in every state
  (`service.py:269`), also behind the late END of a session that was replaced
  (`device.rs:145`), behind a START that was drained (`grpc.rs:405`), and on a new stream that
  opens in the middle of an utterance. It may end in the middle for the first reason.
  `ClipsGapless` asks for one run of an utterance, not for all of it.
- A session that ends while no utterance is open sends an END without a START
  (`device.rs:145`, against `nailaV1.proto:185`). `Utterances` allows it.
- A session registered after the shutdown's loop over `device_tasks` is not cancelled by
  it (`main.rs:78-81`). `CtrlC` is one step where the code goes from entry to entry; a session
  that registers during the loop is one that comes just before or after it.
- A threshold of one acts as two (`vad.rs:125`), hence the maximum in `OnsetExact`.
- A device that reconnects with other capabilities on the same stream is not announced
  again (`grpc.rs:242`): `ConfigOnFirstStart` asks for some session's capabilities.
- The tail of an utterance that overflowed the buffer is transcribed although the error
  says "utterance discarded" (`service.py:288`).
- The final packet is lost if the last sentence's delivery raises after earlier audio
  (`response_generator.py:242`): `ClosesWithFinal` leaves that out. A commit that fails
  after the final packet adds an error that says `is_final` too (`service.py:682`);
  `Response` speaks of audio packets.
- An abandoned response whose `tts_queue` is full leaves its orchestration task waiting
  for ever (`service.py:687`): `ResponseEnds` speaks of the handler.
- A chat call that timed out leaves its thread outside the pool's limit, as
  `config/llm.py:47-49` admits, so `StreamsWithinLimit` counts streams only; and the
  default of two slots (`config/llm.py:64`) lets two turns use a model that
  `response_generator.py:344-346` calls not thread-safe.

In the device client:

- Ctrl+C need not end the process: `run()` returns after its limits, but the
  interpreter joins executor threads, and `stop()` may wait for room in the microphone queue
  (`audio.py:146`) or in PortAudio, against `main.py:212` ("with a hard timeout so Ctrl+C
  can always exit"). In the model `Exit` waits for `Running = {}`; a second signal exits.
- A restart that outlives its limit, or meets the stop, can leave a running stream that the
  pipeline no longer knows: `StreamOwned` is stated for `~late`.
- A stream that opened and whose `start()` raised stays open although the pipeline has dropped
  it (`audio.py:131`, `198`). The next restart's `sd._terminate` closes it, `stop()` does not:
  `StreamOwned` asks of such a stream only that no other is open beside it.
- After one `sd._initialize` that raised, PortAudio stays down: `sd._terminate` raises in every
  later restart and `sd._initialize` is skipped (`audio.py:186-190`), so that none of them can
  succeed, against `audio.py:178` ("caller should retry"). `CreateStream` needs `portaudio`.
- What the first `pipeline.start()` raises ends `run()`, with the stream open if it got that
  far (`Start`).
- A reader of a closed connection keeps its thread until there is a frame, which it takes
  and drops; while the device is silent such readers fill the executor.
- The watchdog gives up for ever after its attempts (`main.py:98`).

In the AI server's process and its MQTT:

- A task that a message started (`service_coordinator.py:74`), and an orchestration whose clip
  was cancelled in `queue.put` (`service.py:423`, `702`), are awaited by nobody and can commit
  after memory is closed, although `lifecycle.py:303` says "after all consumers (MQTT/gRPC)
  have stopped": `MemoryClosedLast` speaks of calls, and the model's `tasks` and `orphans` may
  be positive then.
- A constructor that raises after `conversation.py:25` leaves the connection to the database
  open: a migration that fails (`conversation.py:26`), a `GRPC_PORT` that is no number
  (`naila_server.py:57`). `main()` has no server to stop then (`main.py:42`), so that
  `MemoryClosedLast` speaks of servers that were built.
- `_connected` is set by connect and reset by disconnect only (`connection.py:27`);
  `stop` returns early unless the start came to its end, and the client's `disconnect` does
  nothing while paho is not connected: the network thread survives.
- `unload_models` does nothing unless the LLM had loaded (`ai_model.py:125`), and may close
  it under an executor thread that runs it.
- `naila/device/+/audio` is no category of `_parse_topic`, so that topic is always
  dropped (`HandleAudioInput`). Queued frames are read by nobody, and awaiting
  `put_nowait`'s None raises (`HandleStreamOrFrame`). Vision analysis fails on bytes that
  JSON cannot carry. Faces are kept in contexts that the AI handlers do not share. A `#`
  does not match zero levels, although `routing.py:197` says so.
- A message that QoS 1 brings twice is answered and remembered twice.
- The order of exchanges is the wall clock's (`conversation.py:38`): if it is set back, older
  rows become the most recent ones of their device.
- A commit that fails sends the apology although the answer was there, over gRPC behind the
  sentences already spoken; a generation that fails is silent over MQTT.
- Over gRPC a device may have heard sentences of a turn that is not remembered, because it was
  stopped before its commit or the commit failed; and a turn whose clip was cancelled in
  `queue.put` is remembered although most of it was not heard. `MemoryMatchesTold` says that
  memory and device then still do not have different answers.

In the services:

- Two weather calls with an old record on disk: one fetches a location, the other's request
  fails and puts the old record it read before over it, for the rest of the process
  (`weather_handler.py:187-195`): `Fetched`, then `FetchFails` with `read = "old"`.
- Two weather calls with no record: one fetches a location and stores it, the other's request
  fails and it answers that there is none (`weather_handler.py:193-196`, against 12-14, "if we
  have a cached value"): `Fetched`, then `FetchFails` with `read = "none"`. `OwnAnswer` does
  not cover it, since `known` is about the moment the question was asked.
- A segment that fails when it is read empties a whole batch (`stt.py:333`, `364`);
  `BatchInOrder` allows empty results everywhere. That `asyncio.gather` keeps the order of its
  arguments is its contract and is taken as given.
- The slots of `Services` are a cardinality: that none is lost is `PoolBalanced` of `LlmPool`,
  the same class in the code.
- A wait for a slot that times out is an exception to who transcribes and an empty
  result to who speaks.
- A scene is cached for its image, also when the question was another one
  (`vision.py:462`); a place that was not found is remembered for ever.
- A reply is cached for its device, intent and words, not for the history it was made with
  (`response_generator.py:322`).

### Fairness

*Hub.* tokio polls every woken task, `select!` polls its branches in random order (so
a cancelled token is not passed over for ever), and a bounded channel serves
waiting senders in order: weak fairness for each session's task, strong where
`HubSession`'s senders compete for a slot for ever (in `AudioBus` their frames are
bounded and weak fairness is enough). Nothing is assumed of devices, users, failures or
ctrl-c, nor of connect, GetStatus and `stream_conversation`, which have no time limit
(`grpc.rs:143-189`).

*AI server.* The event loop does not idle while something is ready (nothing is
assumed of how it divides its time); STT and the orchestrator return; a client that
is there reads; the model stops by itself (`max_tokens`) and timers fire. Messages, and
cancellations, are nobody's duty. In `ServerLifecycle` `main()` and paho's thread go on,
in `Services` every call does: executor jobs and requests end (httpx and the pools have
time limits), a wait for a slot is over when a slot is free or the limit comes. Failures
are never fair. `Turns` is checked without fairness.

*Device.* The event loop and its timers, the audio thread and the executor go on; a
blocked PortAudio call need not, which is why `Call` has no fairness. Readers of the microphone
queue are served in order (a `Condition` wakes its waiters so): strong fairness for
`GetFrame`, since frames come and go.

## 4. Proofs

The theorems of the eight proof modules hold for every value of the constants: any sets of
sessions and devices, any capacity, threshold, number of clips, sentences, frames, turns,
slots, callers, cache entries, remembered rows, migrations, topics, restarts and threads,
within what the modules' own assumptions say (`SessionAssumption`, `CapacityAssumption`,
`ThresholdAssumption`, `BusAssumption`, `NothingAssumption`, `StreamAssumption`,
`DeliveryAssumption`, `PoolAssumption`, `LifecycleAssumption`, `ClientAssumption`,
`TurnsAssumption`, `ServicesAssumption`): types, limits of at least one where the code has
them, the VAD's thresholds in order, a finite set of turns, names of devices and places that
are none of the model's own words, rows of earlier runs that are not newer than any of this
one. `NothingAssumption` says that the model value for "nothing" is no frame and no message.
The `Max...` constants bound the behaviours of a model; since the theorems hold for each of
them, they hold for every finite behaviour of the model without bounds.

Each proof module states its inductive invariant first, then lemmas on the operators and
sequences it needs, then what a group of actions does to a part of the state, then that each
conjunct is kept, and the theorems last. `ServerLifecycleProofs` has two components: the
process, and the turns that run in it, which it takes in as `Turn == INSTANCE Turns`. In the
same way `LlmPoolProofs` has the pool and, as `Service == INSTANCE Services`, the services
beside it. What these two promise is in modules of its own (`ExchangeMemory`,
`ServiceAnswers`), which model and proofs share. An ASSUME of an instanced module is no fact
where it is instanced, so these theorems have it as their hypothesis (`ASSUME
Turn!TurnsAssumption PROVE Turn!Spec => ...`); it speaks of constants only, and TLC
evaluates it on the runs of `MCTurns` and `MCServices`.

| Theorems | State |
|---|---|
| `HubSessionProofs`: `RegistrySound`, `SubscriptionsCollected`; `OneLive`, `LiveRegistered`, `ConfigsLive` | `NoStaleRegistration`, `NoAbandonedSubscription`; under `SerialSpec` `OneLiveSession`, `LiveIsRegistered`, `ConfigOfLiveSession` |
| `VadRelayProofs`: `ThresholdsExact`, `SpeechNotClipped`, `RelayInStep`, `StreamsUtterances` | `CountsExact`, `NothingClipped`, `RelayFollowsVad`, `IsUtteranceStream` |
| `AudioBusProofs`: `FramesInOrder`, `ConfigComesFirst`, `DrainedBetweenStreams` | `InOrderOnce`, `ConfigOnFirstStart`, `DrainedWithItsStream` |
| `StreamConversationProofs`: `OutputsInOrder`, `ClipsAnswered`, `NoiseHarmless`, `ClipsWithoutGaps` | `OutputsNeverGoBack`, `EveryClipAnswered`, `NoiseCancelsNothing`, `ClipsGapless` |
| `ResponseDeliveryProofs`: `PacketsComplete`, `ResponseCloses`, `DeliversResponse` | `AudioComplete`, `ClosesWithFinal`, `IsResponse` |
| `LlmPoolProofs`: `SlotsBalanced`, `NobodyForgotten`, `SingleCall`, `SingleAnswer` | `PoolBalanced`, `WaitersNotForgotten`, `OneCallPerTurn`, `NoSecondAnswer` |
| `ServerLifecycleProofs`: `SchemaMatchesVersion`, `TopicsRemembered`, `StoreClosedLast` | `SchemaIsVersions`, `NoTopicForgotten`, `MemoryClosedLast` |
| `ServerLifecycleProofs`: `TurnsRecallThePast`, `TurnsRememberAnswers` | `HistoryIsThePast`, `MemoryMatchesTold` of `Turns` |
| `LlmPoolProofs`: `ServicesAnswerTheirOwn`, `BatchesInOrder`, `CachesKeepTheirKeys` | `OwnAnswer`, `BatchInOrder` of `Services`; `CachesInv` |
| `DeviceClientProofs`: `StreamsOwned`, `MicrophoneSurvives` | `StreamOwned`, `MicSurvives` |

and each `TypeCorrect`, `TurnsTypeCorrect` and `ServicesTypeCorrect` the module's `TypeOK`.

*Hub sessions.* `NoStaleRegistration` and `NoAbandonedSubscription` are not
inductive: a session in its cleanup is harmless only if its token is cancelled by
then, and a subscription may be left alone by `CheckOwner` only because the entry
it saw belongs to a live session. `RegistryInv` adds this (past
`device_cancel.cancel()` the token is cancelled, idle and failed sessions own
nothing, entries are their own device's) and is preserved by every action.
`OneLive`, `LiveRegistered` and `ConfigsLive` need the assumption that a device's
handlers do not overlap (`SerialSpec`), for without it they are false; `SerialInv` says
that while a handler is under way no session of its device is live, and otherwise only
the registered one, with its own capabilities stored.

*VAD.* `VadInv` ties each filter state to the input: in `MaybeSpeech` the buffer
is the last `onset_count` frames, all speech; in `MaybeSilence` the last
`hangover_count` frames were silence; the relay streams exactly in the two
speaking states; what was forwarded reaches up to now while it does. From it
follow the thresholds, that nothing is clipped, the counters, and each step's
image in `Utterances`. `StreamsUtterances` puts those together.

*Audio bus.* `BusInv` follows the frames of a session through the stages of their way
(arrived at the server, in the outbound channel, held by `send_loop`, on the bus, waiting
for it). Each stage is sorted and older than the ones behind it (`StagesInOrder`), and
order follows. That a stream has no gap is not inductive by itself, since frames are lost at
several places: what is lost is always a whole end of the way (a broken stream loses
everything up to `held`, a drain everything on the bus), so that nothing is ever missing
between a frame on the open stream and the latest one captured (`Gapless`), and what
arrives next of a session is the next frame. `QueuedInv` says that the bus holds
nothing queued under an earlier stream: the drain runs until the bus is empty before
another stream is opened, although tasks refill it. `ConfigInv` gives `config_sent` its
meaning (for a device in it the capabilities are ahead of what is built next) and
`StoredInv` says that they are there when they are looked up.

*StreamConversation.* `CallInv` rests on one fact: only the task of the last clip may be
at work (`TasksInv`), because the reader waits for the cancelled one before it starts
another (`SupersedeInv`, stage `superseding`). So an output that is put belongs to the
last clip, and the sequence written followed by the queue stays in order (`OutputsInv`).
`AnswerInv` says that a task that says it produced audio has an output on its way, also
after the handler took it from the queue. `NoiseHarmless` is an action property and is
proved step by step. `ClipsWithoutGaps` is about any number of sessions: `RunInv` says that
after a piece of a session the buffer has all that session has said since (`UpTo`), for the
reader appends whatever comes and forgets only everything at once, and that a first piece
of an utterance stands at the front, since a START empties the buffer. An END freezes the
buffer; while the reader then waits for the old clip `UpTo` need not hold, because the
session's utterance is over.

*Response delivery.* `DeliveryInv` gives every packet a place: `tts_queue` holds
`cumulative_seq - Len(sent)` packets, numbered on from those sent, and an error and
`_DONE` behind them (`PlacesInv`). What the encoder has let go ends at frame `Passed`, and
the lookahead, when it holds one, holds that (`LookaheadInv`), so the sequence of packets is
the sequence of frames unless a delivery raised (`OrderInv`). The final packet is the
last one put (`LastInv`), and it is put because the encoder is flushed in the last
delivery and nowhere else (`FlushInv`, `FinalInv`). `FramesInv` bounds the frames by the
deliveries, for `TypeOK`. From them every step is a step of `Response` or a stutter
(`DeliversResponse`).

*LLM pool.* `PoolInv` is typing, the balance of slots and `WaitersNotForgotten`, which
need each other: a turn may enter without waiting only because a free slot beside
a waiter means that somebody is granted. The work is in how one step moves turns
between the three sets that the balance counts; the lemmas on `Move` and `Woken` do
it once for all actions.
`CallInv` says which stages can have a thread: a turn in line has none (which is why
the fallback after a stream is safe: the sentinel is queued by a thread that is done)
and only one that has taken nothing reaches the fallback. `SingleCall` and
`SingleAnswer` follow from it.

*Lifecycle.* `LifecycleInv`: `LinkInv` relates what `main()` has listed, what paho's
thread knows and the flag between them; `TopicsInv` says that a listed topic the broker
does not know is still ahead of the thread's walk through the list, or is the one
`main()` is about to send. It is inductive because `subscribe` lists before it looks and
`_on_connect` sets the flag before it walks. `OwnerInv` says at which stage there is an open
memory and a server to close it, and that a built server exits only with a closed one;
`StopInv` says what is down at which stage of the stop if none has raised.
`SchemaIsVersions` is inductive by itself.

*Device client.* `PipelineInv` has three arguments. `OwnedInv`: as long as nothing came
late, one call at a time works on the pipeline; once it has closed the pipeline's stream none
runs, and once it has terminated PortAudio, which closes what a failed start left open, none
is open until it opens one; `TakeJob` makes two calls `late`. `SubmitInv`: each restart and
the stop are handed to the executor once, and nothing is in its queue or has a thread that
was not. `QuietInv`: before shutdown no sentinel is in the microphone queue, for only
`stop()` puts one, and therefore a reader that gets an item gets a frame and asks for the
next (`MicSurvives`). `BeginInv` covers the first start.

*Turns.* `TurnsInv` has four parts. `RowsInOrder` says that the table is ordered by time and
no row is later than the clock. From it follows that of a device's rows the rank that
`Newer` gives them falls as they get later, so that ranks are distinct; a row's rank is at
most the number of rows, and as many different numbers as there are rows take all of them
(`RanksAreTaken`, a count and not an induction). The rows of rank 1 to the limit are
therefore there, are the latest, and turned round are in order: what `recall_recent` and
the reversal in the graph return is what `IsLatest` says of it. `HistoryInv` keeps that for
every turn while the table grows behind it: the history is about the rows that were
there when it was read (`seen`). `RememberedInv` has two parts that need each other: each row
is the only one of a turn that is done and has the turn's text (`RowsInv`), and what was told
is the turn's text, or that it failed, with a row of the turn unless it has no input, or is
one over gRPC that is not done (`ToldInv`). A step leaves turns and memory alone, starts a
turn, takes it on to its commit or ends it, and the invariant is kept by each of these four
kinds; that a streamed turn keeps its text up to the commit is what `Answers` is for.

*Services.* `ServicesInv` says of each call by its kind what it has on its way (`HearInv` to
`WeatherInv`): each part is that of the clip at the place it carries, whatever was left out,
is retried or fails; the place kept while the forecast is fetched is the one asked for or
one of the server's. `KnownInv` says that a location that was known when a question was
asked is not lost while its asker waits: a file is torn only by a call that has stored the
location in the process by then, or by a crash that ends all calls. `CachesInv` says that an
entry is the result for its key and the only one of it; it is kept by a hit (`TouchedKept`),
and by a store at the limit (`PutKept`) although another call may have stored the same key
since this one missed it. An answer from a cache then has the words and the voice of the
key, which are those of the phrase.

TLC checked every invariant, the inductive ones too, before it was proved. The `TypeOK`s
of the proved modules, `OneLiveSession`, `RelayFollowsVad`, `MetricsBalance` and
`NoiseCancelsNothing` are proved and therefore in no run.

Only model-checked:

- Everything about liveness, which is out of TLAPS's reach: `SessionEnds`,
  `FrameAccepted`, `CancelledClientReturns`, `ClipSettles`,
  `ClosedStreamEnds`, `ResponseEnds`, `TurnEnds`, `StallEnds`, `ShutdownCompletes`,
  `SignalEnds`, `CallsReturn`.
- The violation run, which refutes something.

## 5. Not modelled

Codecs, resampling, pacing, prompts, text normalisation, transcripts and answers:
data the properties do not tell apart. GET `/health` and GetStatus only read.
libfvad, tokio, webrtc-rs, tonic, grpc.aio, paho, PortAudio and SQLite are taken as
documented. The hub's WebRTC transport is Opus and RTP packetisation in one task. The
speaker queue and echo cancellation of the device, what the health monitor measures,
intent patterns, the response cache, and handlers that only log (personality, responses,
system) are left out, and so are configuration,
scripts and generated code, which keep no state.

## 6. Plan

Done: 1 `HubSession`, 2 `VadRelay` over `Utterances`, 3 `AudioBus`,
4 `StreamConversation`, 5 `ResponseDelivery` over `Response`, 6 `LlmPool`,
7 `DeviceClient`, 8 `ServerLifecycle` (with the migrations and the MQTT connection),
9 `Turns` (with topic matching), 10 `Services`; the safety of all ten proved.

To come: abstract specifications for the parts that have none yet (the promise of the
audio bus, of the pool and of the stop) with proofs that the detailed ones implement them;
a property for the newest location record, which `Services` can lose or overlook.

Later: device tasks over `AudioBus` composed with the AI server's reader, to state which
utterances arrive whole in spite of late ENDs and drained STARTs, and what the hub does with
a response whose last word is an error.
