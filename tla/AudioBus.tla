------------------------------ MODULE AudioBus ------------------------------
(***************************************************************************)
(* The bus between the device tasks and the AI server: the bounded channel *)
(* of hub/src/audio.rs and the gRPC client of hub/src/grpc.rs that empties *)
(* it (run_grpc_client, connect_and_stream, send_loop, drain_stale), with  *)
(* its reconnects.                                                         *)
(*                                                                         *)
(* The producers are the device tasks, one per session: a task captures a  *)
(* frame and is stuck with it until the bus takes it (device.rs,           *)
(* send_frames).  Tasks of one device may overlap (HubSession).  Frames    *)
(* are numbered, which the code does not do, so that properties can tell   *)
(* them apart.  received is what the AI server has read, on all streams.   *)
(***************************************************************************)
EXTENDS Naturals, Sequences, FiniteSets

CONSTANTS
  Session,          \* device sessions of a run
  Device,
  DeviceOf,         \* the device of each session
  Nothing,          \* no frame, no session
  BusCapacity,      \* slots of the bus (256, hub/src/main.rs)
  SessionCapacity,  \* slots of the per-stream channel (128, grpc.rs:182)
  SequenceRange,    \* values of sequence_num (2^32)
  InitialBackoff,   \* GrpcConfig.initial_backoff, one second
  MaxBackoff,       \* GrpcConfig.max_backoff, thirty seconds
  MaxFrames,        \* bound: frames each session captures
  MaxStreams        \* bound: streams the AI server accepts

ASSUME BusAssumption ==
  /\ DeviceOf \in [Session -> Device]
  /\ Nothing \notin Session
  /\ {BusCapacity, SessionCapacity, SequenceRange} \subseteq Nat \ {0}
  /\ {InitialBackoff, MaxBackoff} \subseteq Nat \ {0}
  /\ InitialBackoff <= MaxBackoff
  /\ MaxFrames \in [Session -> Nat]
  /\ MaxStreams \in Nat

VARIABLES
  pc,              \* where run_grpc_client is
  cancelled,       \* the hub's CancellationToken
  backoff,         \* the next delay
  established,     \* stream_established of the attempt under way
  grpc_connected,  \* HubMetrics.grpc_connected
  ai_status,       \* HubMetrics holds a status of the AI server
  bus,             \* the channel audio_tx / audio_rx
  held,            \* the message send_loop has built and not yet handed over
  outbound,        \* the channel session_tx / session_rx
  sequence,        \* send_loop's counter
  config_sent,     \* send_loop's set of devices
  streams,         \* streams opened so far
  device_configs,  \* the session whose capabilities each device has stored
  task,            \* each session's device task: "idle", "running" or "over"
  captured,        \* frames each task has captured
  speaking,        \* the tasks in the middle of an utterance
  waiting,         \* the frame each task is sending, or Nothing
  received         \* messages the AI server has read

client == <<pc, backoff, established, grpc_connected, ai_status, streams>>
sending == <<held, outbound, sequence, config_sent>>
producers == <<device_configs, task, captured, speaking, waiting>>
vars == <<client, cancelled, sending, producers, bus, received>>

SpeechEvent == {"Start", "Continue", "End"}

\* queued: the stream that was open when the bus took the frame, 0 if none.
Frame == [session : Session, number : Nat \ {0}, event : SpeechEvent,
          queued : 0..MaxStreams]

\* config: the session whose capabilities the message carries, if any.
Message == [frame : Frame, sequence : 0..(SequenceRange - 1),
            config : Session \cup {Nothing}, stream : 1..MaxStreams]

\* None is no frame and no message.
ASSUME NothingAssumption == Nothing \notin Frame /\ Nothing \notin Message

TypeOK ==
  /\ pc \in {"top", "connecting", "opening", "streaming", "draining",
             "waiting", "returned"}
  /\ cancelled \in BOOLEAN
  /\ backoff \in InitialBackoff..MaxBackoff
  /\ {established, grpc_connected, ai_status} \subseteq BOOLEAN
  /\ bus \in Seq(Frame) /\ Len(bus) <= BusCapacity
  /\ held \in Message \cup {Nothing}
  /\ outbound \in Seq(Message) /\ Len(outbound) <= SessionCapacity
  /\ sequence \in 0..(SequenceRange - 1)
  /\ config_sent \subseteq Device
  /\ streams \in 0..MaxStreams
  /\ device_configs \in [Device -> Session \cup {Nothing}]
  /\ task \in [Session -> {"idle", "running", "over"}]
  /\ captured \in [Session -> Nat]
  /\ \A s \in Session : captured[s] <= MaxFrames[s]
  /\ speaking \subseteq Session
  /\ waiting \in [Session -> Frame \cup {Nothing}]
  /\ received \in Seq(Message)

Init ==
  /\ pc = "top"
  /\ cancelled = FALSE
  /\ backoff = InitialBackoff
  /\ established = FALSE /\ grpc_connected = FALSE /\ ai_status = FALSE
  /\ bus = <<>>
  /\ held = Nothing
  /\ outbound = <<>>
  /\ sequence = 0
  /\ config_sent = {}
  /\ streams = 0
  /\ device_configs = [d \in Device |-> Nothing]
  /\ task = [s \in Session |-> "idle"]
  /\ captured = [s \in Session |-> 0]
  /\ speaking = {}
  /\ waiting = [s \in Session |-> Nothing]
  /\ received = <<>>

-----------------------------------------------------------------------------
(* The device tasks.                                                       *)

\* http.rs:305-333.  The capabilities are stored and the task spawned.
StartTask(s) ==
  /\ task[s] = "idle"
  /\ task' = [task EXCEPT ![s] = "running"]
  /\ device_configs' = [device_configs EXCEPT ![DeviceOf[s]] = s]
  /\ UNCHANGED <<client, cancelled, sending, captured, speaking, waiting, bus,
                 received>>

Capture(s, event) ==
  /\ task[s] = "running"
  /\ waiting[s] = Nothing
  /\ captured[s] < MaxFrames[s]
  /\ captured' = [captured EXCEPT ![s] = @ + 1]
  /\ waiting' = [waiting EXCEPT
                   ![s] = [session |-> s, number |-> captured'[s],
                           event |-> event, queued |-> 0]]
  /\ speaking' = IF event = "End" THEN speaking \ {s} ELSE speaking \cup {s}
  /\ UNCHANGED <<client, cancelled, sending, device_configs, bus, received>>

\* device.rs:73-98.  What the VAD lets through is START, CONTINUE*, END.
Speak(s) ==
  \E event \in SpeechEvent :
    /\ event = "Start" <=> s \notin speaking
    /\ Capture(s, event)
    /\ UNCHANGED task

\* device.rs:144-157.  The last frame is an END, whatever came before.
HangUp(s) ==
  /\ Capture(s, "End")
  /\ task' = [task EXCEPT ![s] = "over"]

\* device.rs:181-206.  audio_tx.send(..).await completes, or fails when the
\* receiver is gone.
Enqueue(s) ==
  /\ waiting[s] # Nothing
  /\ \/ /\ pc # "returned"
        /\ Len(bus) < BusCapacity
        /\ bus' = Append(bus, [waiting[s] EXCEPT
                                 !.queued = IF pc = "streaming" THEN streams ELSE 0])
     \/ pc = "returned" /\ UNCHANGED bus
  /\ waiting' = [waiting EXCEPT ![s] = Nothing]
  /\ UNCHANGED <<client, cancelled, sending, device_configs, task, captured,
                 speaking, received>>

-----------------------------------------------------------------------------
(* run_grpc_client and connect_and_stream.                                 *)

\* grpc.rs:70-87.
StartAttempt ==
  /\ pc = "top"
  /\ IF cancelled
       THEN pc' = "returned" /\ bus' = <<>> /\ UNCHANGED established
       ELSE pc' = "connecting" /\ established' = FALSE /\ UNCHANGED bus
  /\ UNCHANGED <<backoff, grpc_connected, ai_status, streams, cancelled,
                 sending, producers, received>>

\* grpc.rs:143-174.  The channel is up and the AI server has answered
\* GetStatus, or refused to.
ConnectChannel ==
  /\ pc = "connecting"
  /\ pc' = "opening"
  /\ ai_status' \in BOOLEAN
  /\ UNCHANGED <<backoff, established, grpc_connected, streams,
                 cancelled, sending, producers, bus, received>>

\* Mutants of OpenStream: the counter or the set outlives the stream.
OpenStreamKeepingConfigs ==
  /\ pc = "opening"
  /\ streams < MaxStreams
  /\ pc' = "streaming"
  /\ streams' = streams + 1
  /\ established' = TRUE /\ grpc_connected' = TRUE
  /\ held' = Nothing /\ outbound' = <<>> /\ sequence' = 0
  /\ UNCHANGED <<config_sent, backoff, ai_status, cancelled, producers, bus, received>>

\* grpc.rs:176-202, 218-220.  Channel, counter and set are the stream's own.
OpenStream ==
  /\ pc = "opening"
  /\ streams < MaxStreams
  /\ pc' = "streaming"
  /\ streams' = streams + 1
  /\ established' = TRUE /\ grpc_connected' = TRUE
  /\ held' = Nothing /\ outbound' = <<>> /\ sequence' = 0 /\ config_sent' = {}
  /\ UNCHANGED <<backoff, ai_status, cancelled, producers, bus, received>>

\* grpc.rs:97-110.  connect, stream_conversation or the stream itself fails,
\* or the AI server closes it (grpc.rs:328-332).  What send_loop held and
\* what the stream had not read is gone.
AttemptFails ==
  /\ pc \in {"connecting", "opening", "streaming"}
  /\ pc' = "draining"
  /\ grpc_connected' = FALSE /\ ai_status' = FALSE
  /\ backoff' = IF established THEN InitialBackoff ELSE backoff
  /\ held' = Nothing /\ outbound' = <<>>
  /\ UNCHANGED <<established, streams, sequence, config_sent, cancelled,
                 producers, bus, received>>

\* Mutant of Drain: the queued frames stay.
DrainNothing ==
  /\ pc = "draining"
  /\ pc' = "waiting"
  /\ UNCHANGED <<backoff, established, grpc_connected, ai_status, streams,
                 cancelled, sending, producers, bus, received>>

\* grpc.rs:403-411.  Device tasks on other threads may add while it drains.
Drain ==
  /\ pc = "draining"
  /\ IF bus # <<>>
       THEN bus' = Tail(bus) /\ UNCHANGED pc
       ELSE pc' = "waiting" /\ UNCHANGED bus
  /\ UNCHANGED <<backoff, established, grpc_connected, ai_status, streams,
                 cancelled, sending, producers, received>>

\* grpc.rs:112-119.
BackoffElapses ==
  /\ pc = "waiting"
  /\ pc' = "top"
  /\ backoff' = IF 2 * backoff <= MaxBackoff THEN 2 * backoff ELSE MaxBackoff
  /\ UNCHANGED <<established, grpc_connected, ai_status, streams,
                 cancelled, sending, producers, bus, received>>

\* Mutant of ObserveCancel: only the backoff listens.
ObserveCancelInBackoff ==
  /\ cancelled
  /\ pc = "waiting"
  /\ pc' = "returned"
  /\ grpc_connected' = FALSE /\ ai_status' = FALSE
  /\ bus' = <<>> /\ held' = Nothing /\ outbound' = <<>>
  /\ UNCHANGED <<backoff, established, streams, sequence, config_sent,
                 cancelled, producers, received>>

\* grpc.rs:89-95, 115, 201-205.  Only these two awaits listen to the token.
ObserveCancel ==
  /\ cancelled
  /\ pc \in {"streaming", "waiting"}
  /\ pc' = "returned"
  /\ grpc_connected' = FALSE /\ ai_status' = FALSE
  /\ bus' = <<>> /\ held' = Nothing /\ outbound' = <<>>
  /\ UNCHANGED <<backoff, established, streams, sequence, config_sent,
                 cancelled, producers, received>>

\* main.rs:82.
Cancel ==
  /\ ~cancelled
  /\ cancelled' = TRUE
  /\ UNCHANGED <<client, sending, producers, bus, received>>

-----------------------------------------------------------------------------
(* send_loop.                                                              *)

\* grpc.rs:224-269.  The capabilities are looked up now, not when the frame
\* was captured.
Take ==
  /\ pc = "streaming"
  /\ held = Nothing
  /\ bus # <<>>
  /\ bus' = Tail(bus)
  /\ LET frame == Head(bus)
         device == DeviceOf[frame.session]
         first == frame.event = "Start" /\ device \notin config_sent
     IN  /\ config_sent' = IF first THEN config_sent \cup {device} ELSE config_sent
         /\ held' = [frame |-> frame, sequence |-> sequence, stream |-> streams,
                     config |-> IF first THEN device_configs[device] ELSE Nothing]
  /\ sequence' = (sequence + 1) % SequenceRange
  /\ UNCHANGED <<client, cancelled, outbound, producers, received>>

\* Mutant of HandOver: the message is kept for a second try.
HandOverAgain ==
  /\ pc = "streaming"
  /\ held # Nothing
  /\ Len(outbound) < SessionCapacity
  /\ outbound' = Append(outbound, held)
  /\ held' \in {held, Nothing}
  /\ UNCHANGED <<client, cancelled, sequence, config_sent, producers, bus, received>>

\* grpc.rs:271-273.  session_tx.send(..).await waits for room.
HandOver ==
  /\ pc = "streaming"
  /\ held # Nothing
  /\ Len(outbound) < SessionCapacity
  /\ outbound' = Append(outbound, held)
  /\ held' = Nothing
  /\ UNCHANGED <<client, cancelled, sequence, config_sent, producers, bus, received>>

\* The AI server reads its stream (rpc/service.py, the request iterator).
ServerReads ==
  /\ pc = "streaming"
  /\ outbound # <<>>
  /\ received' = Append(received, Head(outbound))
  /\ outbound' = Tail(outbound)
  /\ UNCHANGED <<client, cancelled, held, sequence, config_sent, producers, bus>>

-----------------------------------------------------------------------------
DeviceTask(s) == StartTask(s) \/ Speak(s) \/ HangUp(s) \/ Enqueue(s)

Connection ==
  \/ StartAttempt
  \/ ConnectChannel
  \/ OpenStream
  \/ AttemptFails
  \/ Drain
  \/ BackoffElapses
  \/ ObserveCancel

Next ==
  \/ \E s \in Session : DeviceTask(s)
  \/ Connection
  \/ Cancel
  \/ Take
  \/ HandOver
  \/ ServerReads

Spec == Init /\ [][Next]_vars

\* drain_stale is straight-line code and the backoff is a timer; select! polls
\* its branches in random order, so a cancelled token is seen.  Tokio's channel
\* serves waiting senders in order; with the bounded frames of a run weak
\* fairness of a sender is enough.  The AI server reads its stream for as long
\* as there is one.  Nothing is assumed of connect, GetStatus and
\* stream_conversation (grpc.rs:143-189): no timeout bounds them and an AI
\* server that accepts and never answers keeps the client in one attempt.
\* Nobody has to speak, and a stream need not ever fail.
FairSpec ==
  /\ Spec
  /\ WF_vars(StartAttempt \/ Drain \/ BackoffElapses)
  /\ SF_vars(ObserveCancel)
  /\ WF_vars(Take \/ HandOver \/ ServerReads)
  /\ \A s \in Session : WF_vars(Enqueue(s))

-----------------------------------------------------------------------------
(* What the AI server gets.                                                *)

SameSession(m, n) == m.frame.session = n.frame.session

\* Messages i and j are neighbours in what one session got through.
Consecutive(i, j) ==
  /\ i < j
  /\ SameSession(received[i], received[j])
  /\ \A k \in (i + 1)..(j - 1) : ~SameSession(received[i], received[k])

\* The frames of a session arrive in the order they were captured and none
\* arrives twice, across reconnects of the stream, and a frame is lost only
\* when the stream was (grpc.rs:224-273, 403-411).
InOrderOnce ==
  \A i, j \in DOMAIN received :
    Consecutive(i, j) =>
      LET m == received[i].frame.number
          n == received[j].frame.number
      IN  /\ m < n
          /\ received[i].stream = received[j].stream => n = m + 1

\* The first START of a device on a stream brings its capabilities, also
\* after a reconnect: the AI server keeps them per stream (grpc.rs:235-243,
\* nailaV1.proto:134).
ConfigOnFirstStart ==
  \A j \in DOMAIN received :
    received[j].frame.event = "Start" =>
      \E i \in 1..j :
        /\ received[i].stream = received[j].stream
        /\ DeviceOf[received[i].frame.session] = DeviceOf[received[j].frame.session]
        /\ received[i].config # Nothing

\* Audio queued under one stream is never sent on a later one: the drain gets
\* all of it although the tasks keep filling the bus (grpc.rs:403-411).
DrainedWithItsStream ==
  \A i \in DOMAIN received :
    received[i].frame.queued \in {0, received[i].stream}

-----------------------------------------------------------------------------
(* The connection.                                                         *)

\* For ever in one attempt: the AI server was reached and does not answer.
NeverAnswered == [](pc \in {"connecting", "opening"})

\* A device task stuck in front of a full bus gets on: a stream empties the
\* bus, and so does every failed attempt to get one (grpc.rs:101).  Only an
\* attempt that never ends keeps the bus full for good.
FrameAccepted ==
  \A s \in Session :
    waiting[s] # Nothing ~> (waiting[s] = Nothing \/ NeverAnswered)

\* ctrl-c ends the client, whether it streams, drains, waits or is about to
\* try again (grpc.rs:57).  The one place where it is not heard is an attempt
\* that never ends; there main.rs:84-94 gives up on the task after three
\* seconds.
CancelledClientReturns == cancelled ~> (pc = "returned" \/ NeverAnswered)

=============================================================================
