-------------------------------- MODULE Turns --------------------------------
(***************************************************************************)
(* Conversation turns of the AI server as MQTT sees them: topics and their *)
(* handlers, the hop of a transcription over the broker to the main task,  *)
(* the orchestration graph node by node, the memory the turns share, and   *)
(* the answer.  gRPC calls run the same graph: their answer goes out while *)
(* it is made, sentence by sentence, and their clip may be cancelled, with *)
(* the orchestration or without it.                                        *)
(*                                                                         *)
(* A step is what happens between two awaits that let other turns in; the  *)
(* nodes that touch nothing but their own state (input, dispatch) belong   *)
(* to the step they lead into.  A confidence is its band: 0 below 0.3 (no  *)
(* action), 1 below 0.7 (not a transcription), 2 up to 0.8, 3 above (no    *)
(* recall for a simple intent).  The two caches of the router only         *)
(* remember what Handles and DeviceOf return, since every handler is       *)
(* registered before the first message.                                    *)
(***************************************************************************)
EXTENDS Integers, Sequences, FiniteSets, ExchangeMemory

CONSTANTS
    Devices,
    Utterances,     \* what may be said: pairs of words and the band of confidence
    Earlier,        \* what memory may hold from earlier runs of the server
    QueueLimit,     \* maxsize of the device handlers' task queue
    MaxInputs,      \* bound: messages other programs publish and gRPC turns
    MaxFaults,      \* bound: duplicates, outages and failures, together
    MaxTicks        \* bound: milliseconds

\* What an answer may be: none, an action's, the sentences the model streams, its
\* answer in one piece, or one of the fixed ones.
Texts == {"", "action", "streamed", "llm", "canned", "clarify"}

ASSUME TurnsAssumption ==
    /\ Devices # {} /\ Devices \cap {"none"} = {}
    /\ Utterances \subseteq {"talk", "time", "empty"} \X (0 .. 3)
    /\ Earlier \subseteq Seq([dev : Devices, ts : {0}, turn : {0}, text : Texts])
    /\ HistoryLimit \in Nat \ {0}
    /\ {QueueLimit, MaxInputs, MaxFaults, MaxTicks} \subseteq Nat

VARIABLES
    wire,     \* messages at the broker, in order
    link,     \* the server is connected to the broker
    clock,    \* the millisecond of the last commit, never set back
    front,    \* the device handlers: [known, queue, faces, alerts]
    inputs, faults

vars == <<wire, link, turns, memory, clock, front, out, inputs, faults>>

NoDevice == "none"
Stages   == {"recall", "generate", "commit"}
Outcomes == {"done", "failed", "stopped"}

TypeOK ==
    /\ link \in BOOLEAN
    /\ \A k \in DOMAIN turns :
          /\ turns[k].dev \in Devices \cup {NoDevice}
          /\ turns[k].at \in Stages \cup Outcomes
          /\ turns[k].text \in Texts
          /\ Len(turns[k].history) <= HistoryLimit
    /\ clock \in 0 .. MaxTicks
    /\ front.queue \in 0 .. QueueLimit /\ front.known \subseteq Devices
    /\ inputs \in 0 .. MaxInputs /\ faults \in 0 .. MaxFaults

----------------------------------------------------------------------------
\* Topics.

Agree(topic, pattern, n) == \A k \in 1 .. n : pattern[k] \in {"+", topic[k]}

\* "#" matches what remains, of which there must be something.
TopicMatches(topic, pattern) ==
    \/ Len(topic) = Len(pattern) /\ Agree(topic, pattern, Len(topic))
    \/ \E n \in (1 .. Len(topic)) \cap (1 .. Len(pattern)) :
          pattern[n] = "#" /\ Agree(topic, pattern, n - 1)

DeviceOf(topic) ==
    CASE Len(topic) < 5 \/ topic[1] # "naila"              -> NoDevice
      [] topic[2] = "devices"                              -> topic[3]
      [] topic[2] = "ai" /\ topic[3] \in {"processing", "responses"} -> topic[5]
      [] OTHER                                             -> NoDevice

DevicePatterns ==
    [sensor |-> <<"naila", "devices", "+", "sensors", "+">>,
     wake   |-> <<"naila", "devices", "+", "audio", "wake_word">>,
     stream |-> <<"naila", "devices", "+", "audio", "stream">>,
     event  |-> <<"naila", "devices", "+", "vision", "event">>,
     frame  |-> <<"naila", "devices", "+", "vision", "frame">>,
     beat   |-> <<"naila", "devices", "+", "status", "heartbeat">>]

AIPatterns ==
    [audio  |-> <<"naila", "device", "+", "audio">>,
     stt    |-> <<"naila", "ai", "processing", "stt", "+">>,
     vision |-> <<"naila", "ai", "processing", "vision", "+">>,
     task   |-> <<"naila", "ai", "orchestration", "main", "task">>]

Patterns(h) == IF h \in DOMAIN AIPatterns THEN AIPatterns[h] ELSE DevicePatterns[h]
Handlers    == DOMAIN AIPatterns \cup DOMAIN DevicePatterns

\* What the topic of a message for handler h looks like.
TopicFor(h, d) ==
    [k \in DOMAIN Patterns(h) |->
       IF k = 5 /\ h = "sensor" THEN "battery"
       ELSE IF Patterns(h)[k] = "+" THEN d ELSE Patterns(h)[k]]

Message(h, d, words, band) ==
    [topic |-> TopicFor(h, d), dev |-> d, words |-> words, band |-> band]

\* publish: nothing at all when the connection is not there.
Published(ms) == IF link THEN Tail(wire) \o ms ELSE Tail(wire)

----------------------------------------------------------------------------
Init ==
    /\ wire = <<>> /\ link = TRUE
    /\ turns = <<>> /\ memory \in Earlier /\ clock = 0
    /\ front = [known |-> {}, queue |-> 0, faces |-> {}, alerts |-> 0]
    /\ out = {} /\ inputs = 0 /\ faults = 0

\* Devices, the transcriber and test programs publish.
Send(h, d, words, band) ==
    /\ link /\ inputs < MaxInputs
    /\ wire' = Append(wire, Message(h, d, words, band))
    /\ inputs' = inputs + 1
    /\ UNCHANGED <<link, turns, memory, clock, front, out, faults>>

\* The next message reaches the handler whose pattern it matches; QoS 1 may
\* bring it once more.
Received(h) ==
    /\ wire # <<>> /\ link
    /\ TopicMatches(Head(wire).topic, Patterns(h))

Redeliver ==
    /\ wire # <<>> /\ link /\ faults < MaxFaults
    /\ wire' = Append(wire, Head(wire))
    /\ faults' = faults + 1
    /\ UNCHANGED <<link, turns, memory, clock, front, out, inputs>>

\* A handler that publishes ms and changes the front.
Handled(ms, newFront) ==
    /\ wire' = Published(ms)
    /\ front' = newFront
    /\ UNCHANGED <<link, turns, memory, clock, out, inputs, faults>>

----------------------------------------------------------------------------
\* The device handlers.

Origin == DeviceOf(Head(wire).topic)

HandleSensorData ==
    /\ Received("sensor")
    /\ Handled(<<>>, [front EXCEPT !.known = @ \cup {Origin},
                                   !.alerts = IF Head(wire).band = 0 THEN 1 ELSE @])

HandleHeartbeat ==
    /\ Received("beat")
    /\ Handled(<<>>, [front EXCEPT !.known = @ \cup {Origin}])

HandleWakeWord ==
    /\ Received("wake")
    /\ Handled(<<>>, [front EXCEPT !.alerts = IF Head(wire).band >= 2 THEN 1 ELSE @])

\* Into contexts that the AI handlers, who ask for the person, do not share.
HandleVisionEvent ==
    /\ Received("event")
    /\ Handled(<<>>, [front EXCEPT !.faces = @ \cup {Origin}])

\* Queued, and then the handler fails: put_nowait has no result to await.
\* Nobody takes from this queue; when it is full the frame is dropped.
HandleStreamOrFrame ==
    /\ Received("stream") \/ Received("frame")
    /\ Handled(<<>>, [front EXCEPT !.queue = IF @ < QueueLimit THEN @ + 1 ELSE @])

----------------------------------------------------------------------------
\* The AI handlers.

\* "device" is no category of the protocol: no device, dropped.
HandleAudioInput ==
    /\ Received("audio") /\ Origin = NoDevice
    /\ Handled(<<>>, front)

\* The image is decoded to bytes, which JSON cannot carry; without the vision
\* service the error is published with an argument missing.
HandleVisionAnalysis ==
    /\ Received("vision")
    /\ Handled(<<>>, front)

HandleSttResult ==
    /\ Received("stt")
    /\ LET m == Head(wire) IN
       Handled(IF m.words # "empty" /\ m.band >= 2
               THEN << Message("task", Origin, m.words, m.band) >> ELSE <<>>, front)

\* process_input: what was said and its intent, or nothing of both, since the
\* node catches everything and passes the state on as it was.
ProcessInput(words) ==
    {[user |-> words, intent |-> IF words = "time" THEN "time_query" ELSE "general"]}
    \cup IF faults < MaxFaults THEN {[user |-> "", intent |-> ""]} ELSE {}

StartTurn(via, d, words, band) ==
    \E in \in ProcessInput(words) :
        /\ turns' = Append(turns,
             [via |-> via, dev |-> d, band |-> band, user |-> in.user, intent |-> in.intent,
              at |-> "recall", seen |-> -1, history |-> <<>>, text |-> "", heard |-> TRUE])
        /\ faults' = IF in.user = "" THEN faults + 1 ELSE faults

\* The payload's device, not the topic's, which has none.
HandleMainTask ==
    /\ Received("task") /\ Head(wire).dev # NoDevice
    /\ StartTurn("mqtt", Head(wire).dev, Head(wire).words, Head(wire).band)
    /\ wire' = Tail(wire)
    /\ UNCHANGED <<link, memory, clock, front, out, inputs>>

IncompleteTask ==
    /\ Received("task") /\ Head(wire).dev = NoDevice
    /\ Handled(<<>>, front)

\* _process_utterance of a gRPC stream, once there is a transcription.
GrpcTurn(d, words, band) ==
    /\ words # "empty"
    /\ inputs < MaxInputs /\ inputs' = inputs + 1
    /\ StartTurn("grpc", d, words, band)
    /\ UNCHANGED <<wire, link, memory, clock, front, out>>

----------------------------------------------------------------------------
\* The graph.

Step(k, from, new) ==
    /\ k \in DOMAIN turns /\ turns[k].at = from
    /\ turns' = [turns EXCEPT ![k] = new]
    /\ UNCHANGED <<wire, link, memory, clock, front, inputs>>

SkipRecall(k) == turns[k].intent = "time_query" /\ turns[k].band = 3

\* Mutation: two exchanges of one millisecond come in any order.
NewerByTime(i, j) == memory[i].ts > memory[j].ts \/ (memory[i].ts = memory[j].ts /\ i < j)

\* ORDER BY ts DESC, exchange_id DESC LIMIT n, over the device's rows.
Newer(i, j) == memory[i].ts > memory[j].ts \/ (memory[i].ts = memory[j].ts /\ i > j)
RowsOf(d)   == {i \in DOMAIN memory : memory[i].dev = d}
Rank(i)     == Cardinality({j \in RowsOf(memory[i].dev) : Newer(j, i)}) + 1
RecallRecent(d) ==
    [n \in 1 .. Lesser(HistoryLimit, Cardinality(RowsOf(d))) |->
        CHOOSE i \in RowsOf(d) : Rank(i) = n]

Backwards(s) == [n \in 1 .. Len(s) |-> s[Len(s) + 1 - n]]

RetrieveContext(k) ==
    /\ Step(k, "recall",
            [turns[k] EXCEPT !.at = "generate",
               !.seen = IF SkipRecall(k) THEN -1 ELSE Len(memory),
               !.history = IF SkipRecall(k) THEN <<>>
                           ELSE Backwards(RecallRecent(turns[k].dev))])
    /\ UNCHANGED <<out, faults>>

RecallFails(k) ==
    /\ k \in DOMAIN turns /\ ~SkipRecall(k) /\ faults < MaxFaults
    /\ Step(k, "recall", [turns[k] EXCEPT !.at = "generate"])
    /\ faults' = faults + 1 /\ UNCHANGED out

\* dispatch_action: the registered handlers answer the time and the weather.
DispatchAction(k) ==
    IF turns[k].intent = "time_query" /\ turns[k].band > 0 THEN "action" ELSE ""

\* What reaches the device of turn k, if anybody listens.
Told(k, text) == out \cup {[dev |-> turns[k].dev, turn |-> k, text |-> text]}

CanStream(k) ==
    turns[k].via = "grpc" /\ turns[k].band > 0 /\ DispatchAction(k) = ""

\* The model's first sentence is there; a stream that fails then ends with it.
FirstSentence(k) ==
    /\ k \in DOMAIN turns /\ CanStream(k) /\ turns[k].text = ""
    /\ Step(k, "generate", [turns[k] EXCEPT !.text = "streamed"])
    /\ UNCHANGED <<out, faults>>

\* A sentence is synthesized and delivered, with others to come or as the last;
\* one that cannot be synthesized is not.
DeliverSentence(k) ==
    /\ k \in DOMAIN turns /\ CanStream(k) /\ turns[k].text = "streamed" /\ turns[k].heard
    /\ Step(k, "generate", turns[k])
    /\ out' = Told(k, "streamed")
    /\ UNCHANGED faults

\* What was streamed, or else the action's text, the clarification, the model's
\* answer in one piece, or a canned one.
Answers(k) ==
    IF turns[k].text # "" THEN {turns[k].text}
    ELSE IF DispatchAction(k) # "" THEN {DispatchAction(k)}
    ELSE IF turns[k].band = 0 THEN {"clarify"} ELSE {"llm", "canned"}

\* Over gRPC an answer in one piece is delivered here, or its synthesis fails.
GenerateResponse(k) ==
    /\ k \in DOMAIN turns
    /\ \E text \in Answers(k) :
          /\ Step(k, "generate", [turns[k] EXCEPT !.at = "commit", !.text = text])
          /\ \/ UNCHANGED out
             \/ turns[k].via = "grpc" /\ text # "streamed" /\ out' = Told(k, text)
    /\ UNCHANGED faults

\* The node catches everything: what dispatch left is the answer.  Once a
\* sentence is there nothing is left that could raise.
GenerateFails(k) ==
    /\ k \in DOMAIN turns /\ turns[k].text = "" /\ faults < MaxFaults
    /\ Step(k, "generate", [turns[k] EXCEPT !.at = "commit", !.text = DispatchAction(k)])
    /\ faults' = faults + 1 /\ UNCHANGED out

----------------------------------------------------------------------------
\* process_task after the graph and, over MQTT, handle_main_task after
\* process_task: no await between them.

Complete(k) == turns[k].user \notin {"", "empty"} /\ turns[k].text # ""
Row(k, ts)  == [dev |-> turns[k].dev, ts |-> ts, turn |-> k, text |-> turns[k].text]

\* The end of a turn.  Over MQTT the text is published, if there is one and the
\* connection; over gRPC only that the orchestration failed is still to be told.
Finish(k, outcome, text) ==
    /\ turns' = [turns EXCEPT ![k].at = outcome]
    /\ out' = IF text # "" /\ (IF turns[k].via = "mqtt" THEN link
                               ELSE turns[k].heard /\ outcome = "failed")
              THEN Told(k, text) ELSE out
    /\ UNCHANGED <<wire, link, front, inputs>>

Commit(k) ==
    /\ k \in DOMAIN turns /\ turns[k].at = "commit"
    /\ IF Complete(k)
       THEN \E ts \in clock .. MaxTicks : clock' = ts /\ memory' = Append(memory, Row(k, ts))
       ELSE UNCHANGED <<clock, memory>>
    /\ Finish(k, "done", turns[k].text)
    /\ UNCHANGED faults

\* Mutation: the row is written outside of a transaction and stays.
CommitFailsLate(k) ==
    /\ k \in DOMAIN turns /\ turns[k].at = "commit" /\ Complete(k)
    /\ faults < MaxFaults
    /\ memory' = Append(memory, Row(k, clock))
    /\ faults' = faults + 1 /\ UNCHANGED clock
    /\ Finish(k, "failed", "apology")

\* SQLite raises, the transaction is rolled back: the device is told so, over
\* MQTT instead of the answer and over gRPC behind it.
CommitFails(k) ==
    /\ k \in DOMAIN turns /\ turns[k].at = "commit" /\ Complete(k)
    /\ faults < MaxFaults
    /\ faults' = faults + 1
    /\ Finish(k, "failed", "apology")
    /\ UNCHANGED <<memory, clock>>

\* A clip's task is cancelled: barge-in or the end of the stream.
Cancelled(k, new) ==
    /\ k \in DOMAIN turns /\ turns[k].via = "grpc" /\ turns[k].at \in Stages
    /\ turns[k].heard /\ faults < MaxFaults
    /\ turns' = [turns EXCEPT ![k] = new]
    /\ faults' = faults + 1
    /\ UNCHANGED <<wire, link, memory, clock, front, out, inputs>>

\* Where the clip waits for the orchestration, which is cancelled with it.
Cancel(k) == Cancelled(k, [turns[k] EXCEPT !.at = "stopped"])

\* In queue.put of _enqueue_utterance, with an output in hand: the orchestration
\* is a task of its own, nobody cancels it, and it goes on to the commit.
Detach(k) ==
    /\ \E o \in out : o.turn = k
    /\ Cancelled(k, [turns[k] EXCEPT !.heard = FALSE])

----------------------------------------------------------------------------
\* What the broker holds for a clean session goes with the connection.
LinkLost ==
    /\ link /\ faults < MaxFaults
    /\ link' = FALSE /\ wire' = <<>> /\ faults' = faults + 1
    /\ UNCHANGED <<turns, memory, clock, front, out, inputs>>

LinkBack ==
    /\ ~link /\ link' = TRUE
    /\ UNCHANGED <<wire, turns, memory, clock, front, out, inputs, faults>>

Handle == HandleSensorData \/ HandleHeartbeat \/ HandleWakeWord \/ HandleVisionEvent
          \/ HandleStreamOrFrame \/ HandleAudioInput \/ HandleVisionAnalysis
          \/ HandleSttResult \/ HandleMainTask \/ IncompleteTask

Run(k)  == RetrieveContext(k) \/ FirstSentence(k) \/ DeliverSentence(k)
           \/ GenerateResponse(k) \/ Commit(k)
Fail(k) == RecallFails(k) \/ GenerateFails(k) \/ CommitFails(k) \/ Cancel(k) \/ Detach(k)

Arrive == \E d \in Devices :
             \/ \E u \in Utterances :
                   \/ Send("stt", d, u[1], u[2]) \/ GrpcTurn(d, u[1], u[2])
                   \/ \E e \in {d, NoDevice} : Send("task", e, u[1], u[2])
             \/ \E h \in Handlers \ {"stt", "task"} :
                   \E b \in IF h \in {"sensor", "wake"} THEN {0, 3} ELSE {3} : Send(h, d, "empty", b)

Next == Arrive \/ Handle \/ (\E k \in 1 .. MaxInputs + MaxFaults : Run(k) \/ Fail(k))
        \/ Redeliver \/ LinkLost \/ LinkBack

Spec == Init /\ [][Next]_vars

=============================================================================
