---------------------------- MODULE AudioBusProofs ----------------------------
(***************************************************************************)
(* What holds of the audio path from the device tasks to the AI server for *)
(* any number of sessions, frames, slots and streams.                      *)
(***************************************************************************)
EXTENDS AudioBus, TLAPS

(* The numbers of a session's frames at each stage of the path.            *)

One(frame, s) == IF frame.session = s THEN {frame.number} ELSE {}

NumbersOf(frames, s) ==
  {frames[i].number : i \in {k \in DOMAIN frames : frames[k].session = s}}

Numbers(messages, s) ==
  {messages[i].frame.number :
     i \in {k \in DOMAIN messages : messages[k].frame.session = s}}

Arrived(s) == Numbers(received, s)
Sending(s) == Numbers(outbound, s)
Built(s)   == IF held = Nothing THEN {} ELSE One(held.frame, s)
Queued(s)  == NumbersOf(bus, s)
Waiting(s) == IF waiting[s] = Nothing THEN {} ELSE {waiting[s].number}

\* Where the frames that were not lost are.
OnTheBus(s) == Queued(s) \cup Waiting(s)
Path(s) == Arrived(s) \cup Sending(s) \cup Built(s) \cup OnTheBus(s)

Older(A, B) == \A m \in A, n \in B : m < n

Sorted(frames) ==
  \A i, j \in DOMAIN frames :
    i < j /\ frames[i].session = frames[j].session => frames[i].number < frames[j].number

SortedMessages(messages) ==
  \A i, j \in DOMAIN messages :
    i < j /\ SameSession(messages[i], messages[j])
      => messages[i].frame.number < messages[j].frame.number

\* No frame overtakes another of its session.
SortedInv == SortedMessages(received) /\ SortedMessages(outbound) /\ Sorted(bus)

StagesInOrder(s) ==
  /\ Older(Arrived(s), Sending(s) \cup Built(s) \cup OnTheBus(s))
  /\ Older(Sending(s), Built(s) \cup OnTheBus(s))
  /\ Older(Built(s), OnTheBus(s))
  /\ Older(Queued(s), Waiting(s))

\* What a task waits with is its latest frame; nobody has a later one.
LatestWaits(s) ==
  /\ waiting[s] # Nothing => waiting[s].session = s /\ waiting[s].number = captured[s]
  /\ Path(s) \subseteq 1..captured[s]

\* The messages of the stream that is open.
OfStream(s) ==
  {received[i].frame.number :
     i \in {k \in DOMAIN received : received[k].frame.session = s /\ received[k].stream = streams}}

\* Nothing is lost out of the middle of the bus, nor out of an open stream.
Gapless(s) ==
  /\ pc # "returned" => \A n \in OnTheBus(s) : n..captured[s] \subseteq OnTheBus(s)
  /\ pc = "streaming" =>
       \A n \in OfStream(s) \cup Sending(s) \cup Built(s) : n..captured[s] \subseteq Path(s)

FlowInv == \A s \in Session : StagesInOrder(s) /\ LatestWaits(s) /\ Gapless(s)

\* After a message the next of its session on the same stream is the next one
\* captured.
NextFollows(messages, i, j) ==
  \E k \in (i + 1)..j : /\ SameSession(messages[i], messages[k])
                        /\ messages[k].frame.number = messages[i].frame.number + 1

GaplessMessages(messages) ==
  \A i, j \in DOMAIN messages :
    i < j /\ SameSession(messages[i], messages[j]) /\ messages[i].stream = messages[j].stream
      => NextFollows(messages, i, j)

ArrivedGapless == GaplessMessages(received)

\* What is under way belongs to the open stream.
StreamInv ==
  /\ pc # "streaming" => outbound = <<>> /\ held = Nothing
  /\ pc = "streaming" => streams > 0
  /\ pc = "returned" => bus = <<>>
  /\ held # Nothing => held.stream = streams
  /\ \A i \in DOMAIN outbound : outbound[i].stream = streams
  /\ \A i \in DOMAIN received : received[i].stream <= streams

\* Frames carry the stream they were queued under, and the drain is over before
\* another stream is opened.
QueuedInv ==
  /\ \A i \in DOMAIN bus :
       \/ bus[i].queued = 0
       \/ pc \in {"streaming", "draining"} /\ bus[i].queued = streams
  /\ held # Nothing => held.frame.queued \in {0, held.stream}
  /\ \A i \in DOMAIN outbound : outbound[i].frame.queued \in {0, outbound[i].stream}
  /\ DrainedWithItsStream

\* Message m brings the capabilities of device d on stream n.
Brings(m, d, n) ==
  m.stream = n /\ DeviceOf[m.frame.session] = d /\ m.config # Nothing

BroughtBy(messages, d, n) == \E i \in DOMAIN messages : Brings(messages[i], d, n)

\* A device with a task has its capabilities stored.
StoredInv ==
  /\ \A s \in Session : task[s] # "idle" => device_configs[DeviceOf[s]] # Nothing
  /\ \A s \in Session : waiting[s] # Nothing => task[s] # "idle"
  /\ \A i \in DOMAIN bus : task[bus[i].session] # "idle"

\* send_loop's set holds the devices whose capabilities are ahead of whatever it
\* builds next, and every START has them ahead of it.
ConfigInv ==
  /\ pc = "streaming" => \A d \in config_sent :
       \/ BroughtBy(received, d, streams) \/ BroughtBy(outbound, d, streams)
       \/ held # Nothing /\ Brings(held, d, streams)
  /\ held # Nothing /\ held.frame.event = "Start" =>
       LET d == DeviceOf[held.frame.session]
       IN  \/ BroughtBy(received, d, streams) \/ BroughtBy(outbound, d, streams)
           \/ Brings(held, d, streams)
  /\ \A j \in DOMAIN outbound : outbound[j].frame.event = "Start" =>
       LET d == DeviceOf[outbound[j].frame.session]
       IN  \/ BroughtBy(received, d, streams)
           \/ \E i \in 1..j : Brings(outbound[i], d, streams)
  /\ ConfigOnFirstStart

BusInv ==
  /\ TypeOK
  /\ SortedInv
  /\ FlowInv
  /\ ArrivedGapless
  /\ StreamInv
  /\ QueuedInv
  /\ StoredInv
  /\ ConfigInv

-----------------------------------------------------------------------------
(* Sequences and the numbers in them.                                      *)

LEMMA AppendElements ==
  ASSUME NEW S, NEW q \in Seq(S), NEW e \in S
  PROVE  /\ Append(q, e) \in Seq(S)
         /\ Len(q) \in Nat /\ Len(Append(q, e)) = Len(q) + 1
         /\ DOMAIN q = 1..Len(q) /\ DOMAIN Append(q, e) = 1..(Len(q) + 1)
         /\ \A i \in 1..Len(q) : Append(q, e)[i] = q[i]
         /\ Append(q, e)[Len(q) + 1] = e
  OBVIOUS

LEMMA TailElements ==
  ASSUME NEW S, NEW q \in Seq(S), q # <<>>
  PROVE  /\ Tail(q) \in Seq(S) /\ Head(q) \in S /\ Head(q) = q[1]
         /\ Len(q) \in Nat \ {0} /\ Len(Tail(q)) = Len(q) - 1
         /\ DOMAIN q = 1..Len(q) /\ DOMAIN Tail(q) = 1..(Len(q) - 1)
         /\ \A i \in 1..(Len(q) - 1) : Tail(q)[i] = q[i + 1]
  <1>1. Tail(q) \in Seq(S) /\ Len(q) \in Nat \ {0} /\ Len(Tail(q)) = Len(q) - 1
    OBVIOUS
  <1>2. DOMAIN q = 1..Len(q) /\ DOMAIN Tail(q) = 1..(Len(q) - 1)
    BY <1>1
  <1>3. Head(q) = q[1] /\ Head(q) \in S
    BY <1>1
  <1>4. \A i \in 1..(Len(q) - 1) : Tail(q)[i] = q[i + 1]
    BY <1>1
  <1> QED
    BY <1>1, <1>2, <1>3, <1>4

LEMMA ElementTyped ==
  ASSUME NEW S, NEW q \in Seq(S)
  PROVE  \A i \in DOMAIN q : q[i] \in S
  OBVIOUS

LEMMA NumbersAppend ==
  ASSUME NEW q \in Seq(Message), NEW m \in Message, NEW s
  PROVE  Numbers(Append(q, m), s) = Numbers(q, s) \cup One(m.frame, s)
  BY AppendElements DEF Numbers, One

LEMMA NumbersTail ==
  ASSUME NEW q \in Seq(Message), q # <<>>, NEW s
  PROVE  Numbers(q, s) = One(Head(q).frame, s) \cup Numbers(Tail(q), s)
  <1> USE TailElements DEF Numbers, One
  <1>1. ASSUME NEW n \in Numbers(q, s)
        PROVE  n \in One(Head(q).frame, s) \cup Numbers(Tail(q), s)
    <2>1. PICK i \in DOMAIN q : q[i].frame.session = s /\ n = q[i].frame.number
      OBVIOUS
    <2>2. CASE i = 1
      BY <2>1, <2>2
    <2>3. CASE i # 1
      <3>1. i - 1 \in DOMAIN Tail(q) /\ Tail(q)[i - 1] = q[i]
        BY <2>1, <2>3
      <3> QED
        BY <2>1, <3>1
    <2> QED
      BY <2>2, <2>3
  <1>2. One(Head(q).frame, s) \subseteq Numbers(q, s)
    OBVIOUS
  <1>3. Numbers(Tail(q), s) \subseteq Numbers(q, s)
    OBVIOUS
  <1> QED
    BY <1>1, <1>2, <1>3

LEMMA NumbersOfAppend ==
  ASSUME NEW q \in Seq(Frame), NEW f \in Frame, NEW s
  PROVE  NumbersOf(Append(q, f), s) = NumbersOf(q, s) \cup One(f, s)
  BY AppendElements DEF NumbersOf, One

LEMMA NumbersOfTail ==
  ASSUME NEW q \in Seq(Frame), q # <<>>, NEW s
  PROVE  NumbersOf(q, s) = One(Head(q), s) \cup NumbersOf(Tail(q), s)
  <1> USE TailElements DEF NumbersOf, One
  <1>1. ASSUME NEW n \in NumbersOf(q, s)
        PROVE  n \in One(Head(q), s) \cup NumbersOf(Tail(q), s)
    <2>1. PICK i \in DOMAIN q : q[i].session = s /\ n = q[i].number
      OBVIOUS
    <2>2. CASE i = 1
      BY <2>1, <2>2
    <2>3. CASE i # 1
      <3>1. i - 1 \in DOMAIN Tail(q) /\ Tail(q)[i - 1] = q[i]
        BY <2>1, <2>3
      <3> QED
        BY <2>1, <3>1
    <2> QED
      BY <2>2, <2>3
  <1>2. One(Head(q), s) \subseteq NumbersOf(q, s)
    OBVIOUS
  <1>3. NumbersOf(Tail(q), s) \subseteq NumbersOf(q, s)
    OBVIOUS
  <1> QED
    BY <1>1, <1>2, <1>3

LEMMA NoNumbers ==
  ASSUME NEW s
  PROVE  Numbers(<<>>, s) = {} /\ NumbersOf(<<>>, s) = {}
  BY DEF Numbers, NumbersOf

LEMMA NumbersNat ==
  ASSUME NEW s
  PROVE  /\ \A q \in Seq(Message) : Numbers(q, s) \subseteq Nat \ {0}
         /\ \A q \in Seq(Frame) : NumbersOf(q, s) \subseteq Nat \ {0}
         /\ \A f \in Frame : One(f, s) \subseteq Nat \ {0}
  <1>1. \A f \in Frame : f.number \in Nat \ {0}
    BY DEF Frame
  <1>2. \A m \in Message : m.frame \in Frame
    BY DEF Message
  <1>3. ASSUME NEW q \in Seq(Message) PROVE Numbers(q, s) \subseteq Nat \ {0}
    <2>1. \A i \in DOMAIN q : q[i] \in Message
      BY ElementTyped
    <2> QED
      BY <1>1, <1>2, <2>1 DEF Numbers
  <1>4. ASSUME NEW q \in Seq(Frame) PROVE NumbersOf(q, s) \subseteq Nat \ {0}
    <2>1. \A i \in DOMAIN q : q[i] \in Frame
      BY ElementTyped
    <2> QED
      BY <1>1, <2>1 DEF NumbersOf
  <1> QED
    BY <1>1, <1>3, <1>4 DEF One

\* A sequence stays sorted by a younger frame at its end and without its first,
\* which is older than the others of its session.
LEMMA SortedAppend ==
  ASSUME NEW q \in Seq(Frame), NEW f \in Frame, Sorted(q),
         Older(NumbersOf(q, f.session), {f.number})
  PROVE  Sorted(Append(q, f))
  BY AppendElements DEF Sorted, Older, NumbersOf

LEMMA SortedTail ==
  ASSUME NEW q \in Seq(Frame), Sorted(q), q # <<>>
  PROVE  /\ Sorted(Tail(q))
         /\ \A s : Older(One(Head(q), s), NumbersOf(Tail(q), s))
  <1> USE TailElements DEF Sorted
  <1>1. Sorted(Tail(q))
    OBVIOUS
  <1>2. \A s : Older(One(Head(q), s), NumbersOf(Tail(q), s))
    BY DEF Older, One, NumbersOf
  <1> QED
    BY <1>1, <1>2

LEMMA SortedMessagesAppend ==
  ASSUME NEW q \in Seq(Message), NEW m \in Message, SortedMessages(q),
         Older(Numbers(q, m.frame.session), {m.frame.number})
  PROVE  SortedMessages(Append(q, m))
  BY AppendElements DEF SortedMessages, SameSession, Older, Numbers

LEMMA SortedMessagesTail ==
  ASSUME NEW q \in Seq(Message), SortedMessages(q), q # <<>>
  PROVE  /\ SortedMessages(Tail(q))
         /\ \A s : Older(One(Head(q).frame, s), Numbers(Tail(q), s))
  <1> USE TailElements DEF SortedMessages, SameSession
  <1>1. SortedMessages(Tail(q))
    OBVIOUS
  <1>2. \A s : Older(One(Head(q).frame, s), Numbers(Tail(q), s))
    BY DEF Older, One, Numbers
  <1> QED
    BY <1>1, <1>2

-----------------------------------------------------------------------------
(* Types.                                                                  *)

Place == {"top", "connecting", "opening", "streaming", "draining", "waiting", "returned"}

ClientType ==
  /\ pc \in Place /\ cancelled \in BOOLEAN
  /\ established \in BOOLEAN /\ grpc_connected \in BOOLEAN /\ ai_status \in BOOLEAN
  /\ backoff \in InitialBackoff..MaxBackoff
  /\ streams \in 0..MaxStreams

SenderType ==
  /\ held \in Message \cup {Nothing}
  /\ outbound \in Seq(Message) /\ Len(outbound) <= SessionCapacity
  /\ received \in Seq(Message)
  /\ sequence \in 0..(SequenceRange - 1)
  /\ config_sent \subseteq Device

BusType == bus \in Seq(Frame) /\ Len(bus) <= BusCapacity

TaskType ==
  /\ device_configs \in [Device -> Session \cup {Nothing}]
  /\ task \in [Session -> {"idle", "running", "over"}]
  /\ captured \in [Session -> Nat]
  /\ \A s \in Session : captured[s] <= MaxFrames[s]
  /\ speaking \subseteq Session
  /\ waiting \in [Session -> Frame \cup {Nothing}]

LEMMA TypeParts == TypeOK <=> ClientType /\ SenderType /\ BusType /\ TaskType
  <1>1. {established, grpc_connected, ai_status} \subseteq BOOLEAN
           <=> established \in BOOLEAN /\ grpc_connected \in BOOLEAN /\ ai_status \in BOOLEAN
    OBVIOUS
  <1> QED
    BY <1>1, Zenon DEF TypeOK, ClientType, SenderType, BusType, TaskType, Place

LEMMA Constants ==
  /\ DeviceOf \in [Session -> Device] /\ Nothing \notin Session
  /\ BusCapacity \in Nat /\ BusCapacity > 0
  /\ SessionCapacity \in Nat /\ SessionCapacity > 0
  /\ SequenceRange \in Nat /\ SequenceRange > 0
  /\ InitialBackoff \in Nat /\ MaxBackoff \in Nat /\ InitialBackoff <= MaxBackoff
  /\ MaxFrames \in [Session -> Nat] /\ MaxStreams \in Nat
  BY BusAssumption

\* The steps of run_grpc_client that only go on to its next line, and the token.
Moving == ConnectChannel \/ BackoffElapses \/ Cancel

LEMMA NextSteps ==
  ASSUME [Next]_vars
  PROVE  \/ \E s \in Session : StartTask(s)
         \/ \E s \in Session : Speak(s) \/ HangUp(s)
         \/ \E s \in Session : Enqueue(s)
         \/ StartAttempt \/ OpenStream \/ AttemptFails \/ Drain \/ ObserveCancel
         \/ Moving \/ Take \/ HandOver \/ ServerReads \/ UNCHANGED vars
  BY DEF Next, DeviceTask, Connection, Moving

LEMMA MovingLeaves ==
  ASSUME Moving
  PROVE  /\ UNCHANGED <<streams, sending, producers, bus, received>>
         /\ pc' = pc \/ (pc \notin {"streaming", "draining", "returned"}
                          /\ pc' \in {"top", "opening"})
  BY DEF Moving, ConnectChannel, BackoffElapses, Cancel, client

LEMMA CaptureSteps ==
  ASSUME NEW s \in Session, Speak(s) \/ HangUp(s)
  PROVE  /\ \E event \in SpeechEvent : Capture(s, event)
         /\ task' = task \/ task' = [task EXCEPT ![s] = "over"]
  BY DEF Speak, HangUp, SpeechEvent

LEMMA NextClientType ==
  ASSUME TypeOK, [Next]_vars
  PROVE  ClientType'
  <1> USE Constants DEF ClientType, Place
  <1> ClientType
    BY TypeParts
  <1>1. CASE StartAttempt
    BY <1>1 DEF StartAttempt
  <1>2. CASE OpenStream
    BY <1>2 DEF OpenStream
  <1>3. CASE AttemptFails
    <2>1. backoff' \in InitialBackoff..MaxBackoff
      BY <1>3 DEF AttemptFails
    <2>2. pc' = "draining" /\ grpc_connected' = FALSE /\ ai_status' = FALSE
            /\ UNCHANGED <<cancelled, established, streams>>
      BY <1>3 DEF AttemptFails
    <2> QED
      BY <2>1, <2>2
  <1>4. CASE Drain
    BY <1>4 DEF Drain
  <1>5. CASE ObserveCancel
    BY <1>5 DEF ObserveCancel
  <1>6. CASE ConnectChannel
    BY <1>6 DEF ConnectChannel
  <1>7. CASE BackoffElapses
    BY <1>7 DEF BackoffElapses
  <1>8. CASE Cancel
    BY <1>8 DEF Cancel, client
  <1>9. ASSUME NEW s \in Session, StartTask(s) \/ Enqueue(s) \/ Speak(s) \/ HangUp(s)
        PROVE ClientType'
    <2>1. UNCHANGED <<client, cancelled>>
      BY <1>9, CaptureSteps DEF StartTask, Enqueue, Capture
    <2> QED
      BY <2>1 DEF client
  <1>10. CASE Take \/ HandOver \/ ServerReads
    BY <1>10 DEF Take, HandOver, ServerReads, client
  <1>11. CASE UNCHANGED vars
    BY <1>11 DEF vars, client
  <1> QED
    BY <1>1, <1>2, <1>3, <1>4, <1>5, <1>6, <1>7, <1>8, <1>9, <1>10, <1>11, NextSteps
    DEF Moving

\* What send_loop builds of the frame at the head of the bus.
LEMMA TakeBuilds ==
  ASSUME TypeOK, StreamInv, Take
  PROVE  LET d == DeviceOf[Head(bus).session]
         IN  /\ held' \in Message /\ held'.frame = Head(bus) /\ held'.stream = streams
             /\ held'.config = IF Head(bus).event = "Start" /\ d \notin config_sent
                               THEN device_configs[d] ELSE Nothing
             /\ config_sent' = IF Head(bus).event = "Start" /\ d \notin config_sent
                               THEN config_sent \cup {d} ELSE config_sent
             /\ d \in Device
             /\ bus # <<>> /\ bus' = Tail(bus) /\ held = Nothing /\ pc = "streaming"
             /\ sequence' \in 0..(SequenceRange - 1)
             /\ UNCHANGED <<client, cancelled, outbound, producers, received>>
  <1> DEFINE f == Head(bus)
             d == DeviceOf[f.session]
             first == f.event = "Start" /\ d \notin config_sent
  <1>1. bus # <<>> /\ bus' = Tail(bus) /\ held = Nothing /\ pc = "streaming"
          /\ UNCHANGED <<client, cancelled, outbound, producers, received>>
    BY DEF Take
  <1>2. f \in Frame
    BY <1>1, TypeParts, TailElements DEF BusType
  <1>3. f.session \in Session /\ d \in Device
    BY <1>2, Constants DEF Frame
  <1>4. config_sent' = IF first THEN config_sent \cup {d} ELSE config_sent
    BY DEF Take
  <1>5. held' = [frame |-> f, sequence |-> sequence, stream |-> streams,
                 config |-> IF first THEN device_configs[d] ELSE Nothing]
    BY DEF Take
  <1>6. sequence \in 0..(SequenceRange - 1) /\ sequence' = (sequence + 1) % SequenceRange
    BY TypeParts DEF Take, SenderType
  <1>7. sequence' \in 0..(SequenceRange - 1)
    BY <1>6, Constants
  <1>8. streams \in 1..MaxStreams
    BY <1>1, TypeParts, Constants DEF ClientType, StreamInv
  <1>9. (IF first THEN device_configs[d] ELSE Nothing) \in Session \cup {Nothing}
    BY <1>3, TypeParts DEF TaskType
  <1>10. held' \in Message
    BY <1>2, <1>5, <1>6, <1>8, <1>9 DEF Message
  <1> HIDE DEF f
  <1>11. held'.frame = f /\ held'.stream = streams
           /\ held'.config = IF first THEN device_configs[d] ELSE Nothing
    BY <1>5
  <1> QED
    BY <1>1, <1>3, <1>4, <1>7, <1>10, <1>11 DEF f

\* HandOver and the AI server move a message one stage on.
LEMMA HandOverMoves ==
  ASSUME TypeOK, HandOver
  PROVE  /\ held \in Message /\ held' = Nothing /\ pc = "streaming"
         /\ outbound \in Seq(Message) /\ outbound' = Append(outbound, held)
         /\ outbound' \in Seq(Message) /\ Len(outbound') <= SessionCapacity
         /\ UNCHANGED <<client, cancelled, sequence, config_sent, producers, bus, received>>
  <1>1. held \in Message /\ outbound \in Seq(Message)
    BY TypeParts DEF HandOver, SenderType
  <1>2. Len(outbound) < SessionCapacity /\ outbound' = Append(outbound, held)
    BY DEF HandOver
  <1>3. outbound' \in Seq(Message) /\ Len(outbound') = Len(outbound) + 1 /\ Len(outbound) \in Nat
    BY <1>1, <1>2, AppendElements
  <1>4. Len(outbound') <= SessionCapacity
    BY <1>2, <1>3, Constants
  <1> QED
    BY <1>1, <1>2, <1>3, <1>4 DEF HandOver

LEMMA ServerReadsMoves ==
  ASSUME TypeOK, ServerReads
  PROVE  /\ outbound \in Seq(Message) /\ outbound # <<>> /\ outbound' = Tail(outbound)
         /\ outbound' \in Seq(Message) /\ Len(outbound') <= SessionCapacity
         /\ Head(outbound) \in Message /\ received \in Seq(Message)
         /\ received' = Append(received, Head(outbound)) /\ received' \in Seq(Message)
         /\ pc = "streaming"
         /\ UNCHANGED <<client, cancelled, held, sequence, config_sent, producers, bus>>
  <1>1. outbound \in Seq(Message) /\ outbound # <<>> /\ outbound' = Tail(outbound)
          /\ Len(outbound) <= SessionCapacity
    BY TypeParts DEF ServerReads, SenderType
  <1>2. outbound' \in Seq(Message) /\ Len(outbound') = Len(outbound) - 1
          /\ Len(outbound) \in Nat /\ Head(outbound) \in Message
    BY <1>1, TailElements
  <1>3. received \in Seq(Message) /\ received' = Append(received, Head(outbound))
    BY TypeParts DEF ServerReads, SenderType
  <1>4. received' \in Seq(Message)
    BY <1>2, <1>3, AppendElements
  <1>5. Len(outbound') <= SessionCapacity
    BY <1>1, <1>2, Constants
  <1> QED
    BY <1>1, <1>2, <1>3, <1>4, <1>5 DEF ServerReads

LEMMA NextSenderType ==
  ASSUME TypeOK, StreamInv, [Next]_vars
  PROVE  SenderType'
  <1> USE Constants DEF SenderType
  <1> SenderType
    BY TypeParts
  <1>1. CASE Take
    BY <1>1, TakeBuilds
  <1>2. CASE HandOver
    BY <1>2, HandOverMoves
  <1>3. CASE ServerReads
    BY <1>3, ServerReadsMoves
  <1>4. CASE OpenStream \/ AttemptFails \/ ObserveCancel
    <2>1. /\ held' = Nothing /\ outbound' = <<>>
          /\ sequence' = sequence \/ sequence' = 0
          /\ config_sent' = config_sent \/ config_sent' = {}
          /\ received' = received
      BY <1>4 DEF OpenStream, AttemptFails, ObserveCancel
    <2>2. <<>> \in Seq(Message) /\ Len(<<>>) <= SessionCapacity
      OBVIOUS
    <2>3. 0 \in 0..(SequenceRange - 1)
      OBVIOUS
    <2> QED
      BY <2>1, <2>2, <2>3
  <1>5. CASE StartAttempt \/ Drain
    BY <1>5 DEF StartAttempt, Drain, sending
  <1>6. CASE Moving
    BY <1>6, MovingLeaves DEF sending
  <1>7. ASSUME NEW s \in Session, StartTask(s) \/ Enqueue(s) \/ Speak(s) \/ HangUp(s)
        PROVE SenderType'
    <2>1. UNCHANGED <<sending, received>>
      BY <1>7, CaptureSteps DEF StartTask, Enqueue, Capture
    <2> QED
      BY <2>1 DEF sending
  <1>8. CASE UNCHANGED vars
    BY <1>8 DEF vars, sending
  <1> QED
    BY <1>1, <1>2, <1>3, <1>4, <1>5, <1>6, <1>7, <1>8, NextSteps

\* A task captures its next frame when it has none to send.
LEMMA CaptureEffect ==
  ASSUME TypeOK, NEW s \in Session, NEW event \in SpeechEvent, Capture(s, event)
  PROVE  /\ task[s] = "running" /\ waiting[s] = Nothing
         /\ captured' = [captured EXCEPT ![s] = captured[s] + 1]
         /\ captured[s] + 1 \in Nat /\ captured[s] + 1 <= MaxFrames[s]
         /\ waiting'[s] \in Frame /\ waiting'[s].session = s
         /\ waiting'[s].number = captured[s] + 1
         /\ waiting' = [waiting EXCEPT ![s] = waiting'[s]]
         /\ speaking' \subseteq Session
         /\ UNCHANGED <<client, cancelled, sending, device_configs, bus, received>>
  <1>1. TaskType
    BY TypeParts
  <1>2. task[s] = "running" /\ waiting[s] = Nothing
          /\ UNCHANGED <<client, cancelled, sending, device_configs, bus, received>>
    BY DEF Capture
  <1>3. captured[s] < MaxFrames[s] /\ captured' = [captured EXCEPT ![s] = captured[s] + 1]
    BY DEF Capture
  <1>4. captured'[s] = captured[s] + 1 /\ captured[s] + 1 \in Nat \ {0}
          /\ captured[s] + 1 <= MaxFrames[s]
    <2>1. captured \in [Session -> Nat] /\ captured[s] \in Nat /\ MaxFrames[s] \in Nat
      BY <1>1, Constants DEF TaskType
    <2>2. captured'[s] = captured[s] + 1
      BY <1>3, <2>1
    <2>3. captured[s] + 1 \in Nat \ {0} /\ captured[s] + 1 <= MaxFrames[s]
      BY <1>3, <2>1
    <2> QED
      BY <2>2, <2>3
  <1> DEFINE f == [session |-> s, number |-> captured'[s], event |-> event, queued |-> 0]
  <1>5. f \in Frame
    BY <1>4, Constants DEF Frame
  <1>6. waiting' = [waiting EXCEPT ![s] = f]
    BY DEF Capture
  <1>7. f.session = s /\ f.number = captured[s] + 1
    BY <1>4
  <1> HIDE DEF f
  <1>8. waiting'[s] = f
    BY <1>1, <1>6 DEF TaskType
  <1>9. speaking' \subseteq Session
    <2>1. speaking' = speaking \ {s} \/ speaking' = speaking \cup {s}
      BY DEF Capture
    <2> QED
      BY <1>1, <2>1 DEF TaskType
  <1> QED
    BY <1>2, <1>3, <1>4, <1>5, <1>6, <1>7, <1>8, <1>9

\* The bus takes the frame that a task waits with, or is gone.
LEMMA EnqueueEffect ==
  ASSUME TypeOK, NEW s \in Session, Enqueue(s)
  PROVE  /\ waiting[s] \in Frame /\ waiting' = [waiting EXCEPT ![s] = Nothing]
         /\ \/ pc = "returned" /\ bus' = bus
            \/ /\ pc # "returned" /\ Len(bus) < BusCapacity
               /\ \E f \in Frame :
                    /\ bus' = Append(bus, f)
                    /\ f.session = waiting[s].session /\ f.number = waiting[s].number
                    /\ f.queued = IF pc = "streaming" THEN streams ELSE 0
         /\ UNCHANGED <<client, cancelled, sending, device_configs, task, captured,
                        speaking, received>>
  <1>1. waiting[s] \in Frame /\ waiting' = [waiting EXCEPT ![s] = Nothing]
          /\ UNCHANGED <<client, cancelled, sending, device_configs, task, captured,
                         speaking, received>>
    BY TypeParts DEF Enqueue, TaskType
  <1> DEFINE q == IF pc = "streaming" THEN streams ELSE 0
             f == [waiting[s] EXCEPT !.queued = q]
  <1>2. q \in 0..MaxStreams
    BY TypeParts, Constants DEF ClientType
  <1> HIDE DEF q
  <1>3. f \in Frame /\ f.session = waiting[s].session /\ f.number = waiting[s].number
          /\ f.queued = q
    BY <1>1, <1>2 DEF Frame
  <1>4. \/ pc = "returned" /\ bus' = bus
        \/ pc # "returned" /\ Len(bus) < BusCapacity /\ bus' = Append(bus, f)
    BY DEF Enqueue, q
  <1> HIDE DEF f
  <1> QED
    BY <1>1, <1>3, <1>4 DEF q

\* The bus loses the frame at its head, or all of them.
LEMMA BusLoses ==
  ASSUME TypeOK, StartAttempt \/ Drain \/ ObserveCancel
  PROVE  /\ bus' = bus \/ bus' = <<>> \/ (bus # <<>> /\ bus' = Tail(bus))
         /\ UNCHANGED <<streams, producers, received>>
  BY DEF StartAttempt, Drain, ObserveCancel

LEMMA NextBusType ==
  ASSUME TypeOK, StreamInv, [Next]_vars
  PROVE  BusType'
  <1> USE Constants DEF BusType
  <1> BusType
    BY TypeParts
  <1>1. ASSUME bus # <<>> PROVE Tail(bus) \in Seq(Frame) /\ Len(Tail(bus)) <= BusCapacity
    BY <1>1, TailElements
  <1>2. <<>> \in Seq(Frame) /\ Len(<<>>) <= BusCapacity
    OBVIOUS
  <1>3. CASE Take
    BY <1>1, <1>3, TakeBuilds
  <1>4. CASE StartAttempt \/ Drain \/ ObserveCancel
    BY <1>1, <1>2, <1>4, BusLoses
  <1>5. ASSUME NEW s \in Session, Enqueue(s) PROVE BusType'
    <2>1. CASE bus' = bus
      BY <2>1
    <2>2. ASSUME NEW f \in Frame, bus' = Append(bus, f), Len(bus) < BusCapacity
          PROVE BusType'
      BY <2>2, AppendElements
    <2> QED
      BY <1>5, <2>1, <2>2, EnqueueEffect
  <1>6. CASE HandOver \/ ServerReads \/ OpenStream \/ AttemptFails
    BY <1>6 DEF HandOver, ServerReads, OpenStream, AttemptFails
  <1>7. CASE Moving
    BY <1>7, MovingLeaves
  <1>8. ASSUME NEW s \in Session, StartTask(s) \/ Speak(s) \/ HangUp(s)
        PROVE BusType'
    BY <1>8, CaptureSteps DEF StartTask, Capture
  <1>9. CASE UNCHANGED vars
    BY <1>9 DEF vars
  <1> QED
    BY <1>3, <1>4, <1>5, <1>6, <1>7, <1>8, <1>9, NextSteps

LEMMA NextTaskType ==
  ASSUME TypeOK, StreamInv, [Next]_vars
  PROVE  TaskType'
  <1> USE Constants DEF TaskType
  <1> TaskType
    BY TypeParts
  <1>1. ASSUME NEW s \in Session, StartTask(s) PROVE TaskType'
    BY <1>1 DEF StartTask
  <1>2. ASSUME NEW s \in Session, Speak(s) \/ HangUp(s) PROVE TaskType'
    <2>1. PICK event \in SpeechEvent : Capture(s, event)
      BY <1>2, CaptureSteps
    <2>2. task' \in [Session -> {"idle", "running", "over"}]
      BY <1>2, CaptureSteps
    <2>3. waiting' \in [Session -> Frame \cup {Nothing}]
      BY <2>1, CaptureEffect
    <2>4. captured' \in [Session -> Nat] /\ \A t \in Session : captured'[t] <= MaxFrames[t]
      BY <2>1, CaptureEffect
    <2>5. speaking' \subseteq Session /\ device_configs' = device_configs
      BY <2>1, CaptureEffect
    <2> QED
      BY <2>2, <2>3, <2>4, <2>5
  <1>3. ASSUME NEW s \in Session, Enqueue(s) PROVE TaskType'
    BY <1>3, EnqueueEffect
  <1>4. CASE StartAttempt \/ Drain \/ ObserveCancel
    BY <1>4, BusLoses DEF producers
  <1>5. CASE HandOver \/ ServerReads \/ OpenStream \/ AttemptFails \/ Take
    BY <1>5 DEF HandOver, ServerReads, OpenStream, AttemptFails, Take, producers
  <1>6. CASE Moving
    BY <1>6, MovingLeaves DEF producers
  <1>7. CASE UNCHANGED vars
    BY <1>7 DEF vars, producers
  <1> QED
    BY <1>1, <1>2, <1>3, <1>4, <1>5, <1>6, <1>7, NextSteps

-----------------------------------------------------------------------------
(* Order, and what is lost.                                                *)

Stages(s) == <<Arrived(s), Sending(s), Built(s), Queued(s), Waiting(s), OfStream(s)>>

LEMMA StagesNat ==
  ASSUME TypeOK, NEW s \in Session
  PROVE  /\ Arrived(s) \subseteq Nat \ {0} /\ Sending(s) \subseteq Nat \ {0}
         /\ Built(s) \subseteq Nat \ {0}
         /\ Queued(s) \subseteq Nat \ {0} /\ Waiting(s) \subseteq Nat \ {0}
         /\ OfStream(s) \subseteq Arrived(s)
         /\ captured[s] \in Nat
  <1> SenderType /\ BusType /\ TaskType
    BY TypeParts
  <1>1. Arrived(s) \subseteq Nat \ {0} /\ Sending(s) \subseteq Nat \ {0}
          /\ Queued(s) \subseteq Nat \ {0}
    BY NumbersNat DEF Arrived, Sending, Queued, SenderType, BusType
  <1>2. Built(s) \subseteq Nat \ {0}
    <2>1. held # Nothing => held.frame \in Frame
      BY DEF SenderType, Message
    <2> QED
      BY <2>1, NumbersNat DEF Built
  <1>3. Waiting(s) \subseteq Nat \ {0}
    BY DEF Waiting, TaskType, Frame
  <1>4. OfStream(s) \subseteq Arrived(s)
    BY DEF OfStream, Arrived, Numbers
  <1>5. captured[s] \in Nat
    BY DEF TaskType
  <1> QED
    BY <1>1, <1>2, <1>3, <1>4, <1>5

\* Nothing of the path changes but the place of run_grpc_client.
LEMMA StagesStay ==
  ASSUME NEW s \in Session, Stages(s)' = Stages(s), captured' = captured, waiting' = waiting,
         StagesInOrder(s), LatestWaits(s), Gapless(s),
         pc' = "returned" \/ pc # "returned", pc' = "streaming" => pc = "streaming"
  PROVE  StagesInOrder(s)' /\ LatestWaits(s)' /\ Gapless(s)'
  BY DEF Stages, StagesInOrder, LatestWaits, Gapless, OnTheBus, Path

LEMMA SameStages ==
  ASSUME UNCHANGED <<received, outbound, held, bus, waiting, streams>>
  PROVE  \A s : Stages(s)' = Stages(s)
  BY DEF Stages, Arrived, Sending, Built, Queued, Waiting, OfStream

\* send_loop takes a frame from the bus.
LEMMA TakeFlow ==
  ASSUME TypeOK, StreamInv, SortedInv, FlowInv, Take, NEW s \in Session
  PROVE  StagesInOrder(s)' /\ LatestWaits(s)' /\ Gapless(s)'
  <1> DEFINE h == One(Head(bus), s)
  <1>1. /\ Arrived(s)' = Arrived(s) /\ Sending(s)' = Sending(s) /\ Waiting(s)' = Waiting(s)
        /\ OfStream(s)' = OfStream(s) /\ Built(s) = {} /\ captured' = captured
        /\ waiting' = waiting /\ pc' = pc /\ pc = "streaming"
    BY TakeBuilds DEF Arrived, Sending, Waiting, OfStream, Built, producers, client
  <1>2. Built(s)' = h
    <2>1. held' # Nothing
      BY TakeBuilds, NothingAssumption
    <2> QED
      BY <2>1, TakeBuilds DEF Built
  <1>3. Queued(s) = h \cup Queued(s)' /\ Older(h, Queued(s)')
    BY TypeParts, TakeBuilds, NumbersOfTail, SortedTail DEF BusType, Queued, SortedInv
  <1> HIDE DEF h
  <1>4. Path(s)' = Path(s) /\ OnTheBus(s) = h \cup OnTheBus(s)'
    BY <1>1, <1>2, <1>3 DEF Path, OnTheBus
  <1>5. Older(h, OnTheBus(s)')
    BY <1>1, <1>3 DEF FlowInv, StagesInOrder, Older, OnTheBus
  <1>6. StagesInOrder(s)'
    BY <1>1, <1>2, <1>3, <1>5 DEF FlowInv, StagesInOrder, Older, OnTheBus
  <1>7. LatestWaits(s)'
    BY <1>1, <1>4 DEF FlowInv, LatestWaits
  <1>8. ASSUME NEW n \in OnTheBus(s)' PROVE n..captured[s] \subseteq OnTheBus(s)'
    <2>1. n..captured[s] \subseteq h \cup OnTheBus(s)'
      BY <1>1, <1>4 DEF FlowInv, Gapless
    <2>2. \A m \in h : m < n
      BY <1>5 DEF Older
    <2>3. n \in Nat /\ h \subseteq Nat /\ captured[s] \in Nat
      BY <1>3, <1>4, StagesNat DEF OnTheBus
    <2> QED
      BY <2>1, <2>2, <2>3
  <1>9. ASSUME NEW n \in h PROVE n..captured[s] \subseteq Path(s)
    BY <1>1, <1>4 DEF FlowInv, Gapless, Path
  <1> QED
    BY <1>1, <1>2, <1>4, <1>6, <1>7, <1>8, <1>9 DEF FlowInv, Gapless

\* The built message is put into the stream's channel.
LEMMA HandOverFlow ==
  ASSUME TypeOK, FlowInv, HandOver, NEW s \in Session
  PROVE  StagesInOrder(s)' /\ LatestWaits(s)' /\ Gapless(s)'
  <1>1. /\ Arrived(s)' = Arrived(s) /\ Queued(s)' = Queued(s) /\ Waiting(s)' = Waiting(s)
        /\ OfStream(s)' = OfStream(s) /\ Built(s)' = {} /\ captured' = captured
        /\ waiting' = waiting /\ pc' = pc
    BY HandOverMoves DEF Arrived, Queued, Waiting, OfStream, Built, producers, client
  <1>2. Sending(s)' = Sending(s) \cup Built(s)
    <2>1. held # Nothing
      BY DEF HandOver
    <2>2. held \in Message /\ outbound \in Seq(Message) /\ outbound' = Append(outbound, held)
      BY HandOverMoves
    <2>3. Numbers(Append(outbound, held), s) = Numbers(outbound, s) \cup One(held.frame, s)
      BY <2>2, NumbersAppend
    <2> QED
      BY <2>1, <2>2, <2>3 DEF Sending, Built
  <1>3. Path(s)' = Path(s) /\ OnTheBus(s)' = OnTheBus(s)
    BY <1>1, <1>2 DEF Path, OnTheBus
  <1>4. StagesInOrder(s)'
    BY <1>1, <1>2, <1>3 DEF FlowInv, StagesInOrder, Older
  <1> QED
    BY <1>1, <1>2, <1>3, <1>4 DEF FlowInv, LatestWaits, Gapless

\* The AI server reads the message at the head of the stream.
LEMMA ServerReadsFlow ==
  ASSUME TypeOK, SortedInv, FlowInv, StreamInv, ServerReads, NEW s \in Session
  PROVE  StagesInOrder(s)' /\ LatestWaits(s)' /\ Gapless(s)'
  <1> DEFINE h == One(Head(outbound).frame, s)
  <1>1. /\ Built(s)' = Built(s) /\ Queued(s)' = Queued(s) /\ Waiting(s)' = Waiting(s)
        /\ captured' = captured /\ waiting' = waiting /\ pc' = pc /\ streams' = streams
    BY ServerReadsMoves DEF Queued, Waiting, Built, producers, client
  <1>2. Arrived(s)' = Arrived(s) \cup h
    <2>1. received \in Seq(Message) /\ Head(outbound) \in Message
            /\ received' = Append(received, Head(outbound))
      BY ServerReadsMoves
    <2>2. Numbers(Append(received, Head(outbound)), s) = Numbers(received, s) \cup h
      BY <2>1, NumbersAppend
    <2> QED
      BY <2>1, <2>2 DEF Arrived
  <1>3. Sending(s) = h \cup Sending(s)' /\ Older(h, Sending(s)')
    BY ServerReadsMoves, NumbersTail, SortedMessagesTail DEF Sending, SortedInv
  <1>4. OfStream(s)' \subseteq OfStream(s) \cup h
    <2>1. ASSUME NEW i \in DOMAIN received', received'[i].frame.session = s,
                 received'[i].stream = streams
          PROVE received'[i].frame.number \in OfStream(s) \cup h
      <3>1. CASE i \in DOMAIN received
        <4>1. received'[i] = received[i]
          BY <3>1, ServerReadsMoves, AppendElements
        <4> QED
          BY <2>1, <3>1, <4>1 DEF OfStream
      <3>2. CASE i \notin DOMAIN received
        <4>1. received'[i] = Head(outbound)
          BY <2>1, <3>2, ServerReadsMoves, AppendElements
        <4> QED
          BY <2>1, <4>1 DEF One
      <3> QED
        BY <3>1, <3>2
    <2> QED
      BY <1>1, <2>1 DEF OfStream
  <1> HIDE DEF h
  <1>5. Path(s)' = Path(s) /\ OnTheBus(s)' = OnTheBus(s)
    BY <1>1, <1>2, <1>3 DEF Path, OnTheBus
  <1>6. StagesInOrder(s)'
    BY <1>1, <1>2, <1>3, <1>5 DEF FlowInv, StagesInOrder, Older
  <1>7. LatestWaits(s)'
    BY <1>1, <1>5 DEF FlowInv, LatestWaits
  <1> QED
    BY <1>1, <1>3, <1>4, <1>5, <1>6, <1>7 DEF FlowInv, Gapless

\* A stream that ends takes what it had not sent with it.
LEMMA LostFlow ==
  ASSUME TypeOK, FlowInv, StreamInv, OpenStream \/ AttemptFails, NEW s \in Session
  PROVE  StagesInOrder(s)' /\ LatestWaits(s)' /\ Gapless(s)'
  <1>1. /\ held' = Nothing /\ outbound' = <<>> /\ pc # "returned" /\ pc' # "returned"
        /\ UNCHANGED <<received, bus, waiting, captured>>
        /\ OpenStream => streams' = streams + 1
        /\ AttemptFails => pc' = "draining"
    BY DEF OpenStream, AttemptFails, producers
  <1>2. /\ Arrived(s)' = Arrived(s) /\ Queued(s)' = Queued(s) /\ Waiting(s)' = Waiting(s)
        /\ Built(s)' = {} /\ Sending(s)' = {}
    BY <1>1, NoNumbers DEF Arrived, Queued, Waiting, Built, Sending
  <1>3. OpenStream => OfStream(s)' = {}
    <2> SUFFICES ASSUME OpenStream, NEW i \in DOMAIN received PROVE received[i].stream # streams'
      BY <1>1 DEF OfStream
    <2>1. received[i] \in Message
      BY TypeParts, ElementTyped DEF SenderType
    <2>2. received[i].stream \in Nat
      BY <2>1, Constants DEF Message
    <2>3. streams \in Nat /\ received[i].stream <= streams
      BY TypeParts, Constants DEF ClientType, StreamInv
    <2> QED
      BY <1>1, <2>2, <2>3
  <1>4. OnTheBus(s)' = OnTheBus(s) /\ Path(s)' \subseteq Path(s)
    BY <1>2 DEF OnTheBus, Path
  <1>5. StagesInOrder(s)'
    BY <1>2, <1>4 DEF FlowInv, StagesInOrder, Older
  <1>6. LatestWaits(s)'
    BY <1>1, <1>4 DEF FlowInv, LatestWaits
  <1>7. Gapless(s)'
    BY <1>1, <1>2, <1>3, <1>4 DEF FlowInv, Gapless
  <1> QED
    BY <1>5, <1>6, <1>7

\* The bus is emptied, a frame at a time, or goes with the client.
LEMMA DrainFlow ==
  ASSUME TypeOK, SortedInv, FlowInv, StreamInv, StartAttempt \/ Drain \/ ObserveCancel,
         NEW s \in Session
  PROVE  StagesInOrder(s)' /\ LatestWaits(s)' /\ Gapless(s)'
  <1>1. UNCHANGED <<received, waiting, captured, streams>>
    BY BusLoses DEF producers
  <1>2. pc' # "streaming" /\ pc # "returned"
    BY DEF StartAttempt, Drain, ObserveCancel
  <1>3. Arrived(s)' = Arrived(s) /\ Waiting(s)' = Waiting(s)
    BY <1>1 DEF Arrived, Waiting
  <1>4. Sending(s)' \subseteq Sending(s) /\ Built(s)' \subseteq Built(s)
    <2>1. \/ outbound' = outbound /\ held' = held
          \/ outbound' = <<>> /\ held' = Nothing
      BY DEF StartAttempt, Drain, ObserveCancel, sending
    <2> QED
      BY <2>1, NoNumbers DEF Sending, Built
  <1>5. \/ bus' = bus /\ Queued(s)' = Queued(s)
        \/ pc' = "returned" /\ Queued(s)' = {}
        \/ Queued(s)' \subseteq Queued(s) /\ \E h \in SUBSET Nat :
             Queued(s) = h \cup Queued(s)' /\ Older(h, Queued(s)') /\ Older(h, Waiting(s))
    <2>1. CASE bus' = bus
      BY <2>1 DEF Queued
    <2>2. CASE pc' = "returned" /\ bus' = <<>>
      BY <2>2, NoNumbers DEF Queued
    <2>3. CASE bus # <<>> /\ bus' = Tail(bus)
      <3> DEFINE h == One(Head(bus), s)
      <3>1. bus \in Seq(Frame) /\ Head(bus) \in Frame
        BY <2>3, TypeParts, TailElements DEF BusType
      <3>2. h \in SUBSET Nat
        BY <3>1, NumbersNat
      <3>3. Queued(s) = h \cup Queued(s)'
        BY <2>3, <3>1, NumbersOfTail DEF Queued
      <3>4. Older(h, Queued(s)')
        BY <2>3, <3>1, SortedTail DEF Queued, SortedInv
      <3> HIDE DEF h
      <3>5. Older(h, Waiting(s))
        BY <3>3 DEF FlowInv, StagesInOrder, Older
      <3> QED
        BY <3>2, <3>3, <3>4, <3>5
    <2>4. \/ bus' = bus
          \/ pc' = "returned" /\ bus' = <<>>
          \/ bus # <<>> /\ bus' = Tail(bus)
      BY DEF StartAttempt, Drain, ObserveCancel
    <2> QED
      BY <2>1, <2>2, <2>3, <2>4
  <1>6. OnTheBus(s)' \subseteq OnTheBus(s) /\ Path(s)' \subseteq Path(s)
    BY <1>3, <1>4, <1>5 DEF OnTheBus, Path
  <1>7. StagesInOrder(s)'
    BY <1>3, <1>4, <1>5, <1>6 DEF FlowInv, StagesInOrder, Older
  <1>8. LatestWaits(s)'
    BY <1>1, <1>6 DEF FlowInv, LatestWaits
  <1>9. ASSUME pc' # "returned", NEW n \in OnTheBus(s)'
        PROVE  n..captured[s] \subseteq OnTheBus(s)'
    <2>1. CASE bus' = bus /\ Queued(s)' = Queued(s)
      BY <1>2, <1>3, <1>9, <2>1 DEF FlowInv, Gapless, OnTheBus
    <2>2. ASSUME NEW h \in SUBSET Nat, Queued(s) = h \cup Queued(s)',
                 Older(h, Queued(s)'), Older(h, Waiting(s))
          PROVE n..captured[s] \subseteq OnTheBus(s)'
      <3>1. n..captured[s] \subseteq h \cup OnTheBus(s)'
        BY <1>2, <1>3, <1>6, <1>9, <2>2 DEF FlowInv, Gapless, OnTheBus
      <3>2. \A m \in h : m < n
        BY <1>3, <1>9, <2>2 DEF Older, OnTheBus
      <3>3. n \in Nat /\ captured[s] \in Nat
        BY <1>6, <1>9, StagesNat DEF OnTheBus
      <3> QED
        BY <3>1, <3>2, <3>3
    <2> QED
      BY <1>5, <1>9, <2>1, <2>2
  <1>10. Gapless(s)'
    BY <1>1, <1>2, <1>9 DEF Gapless
  <1> QED
    BY <1>7, <1>8, <1>10

\* A task captures a frame.
LEMMA CaptureFlow ==
  ASSUME TypeOK, FlowInv, NEW t \in Session, NEW event \in SpeechEvent, Capture(t, event),
         NEW s \in Session
  PROVE  StagesInOrder(s)' /\ LatestWaits(s)' /\ Gapless(s)'
  <1>1. /\ Arrived(s)' = Arrived(s) /\ Sending(s)' = Sending(s) /\ Built(s)' = Built(s)
        /\ Queued(s)' = Queued(s) /\ OfStream(s)' = OfStream(s) /\ pc' = pc
    BY CaptureEffect DEF Arrived, Sending, Built, Queued, OfStream, sending, client
  <1> DEFINE c == captured[s]
  <1>2. c \in Nat /\ Path(s) \subseteq 1..c
    BY StagesNat DEF FlowInv, LatestWaits
  <1>3. CASE s = t
    <2>1. captured'[s] = c + 1
      BY <1>3, CaptureEffect, TypeParts DEF TaskType
    <2>2. Waiting(s) = {} /\ waiting'[s].number = c + 1 /\ waiting'[s].session = s
            /\ waiting'[s] # Nothing
      BY <1>3, CaptureEffect, NothingAssumption DEF Waiting
    <2>3. Waiting(s)' = {c + 1}
      BY <2>2 DEF Waiting
    <2> HIDE DEF c
    <2>4. OnTheBus(s)' = OnTheBus(s) \cup {c + 1} /\ Path(s)' = Path(s) \cup {c + 1}
      BY <1>1, <2>2, <2>3 DEF OnTheBus, Path
    <2>5. \A m \in Path(s) : m < c + 1
      BY <1>2
    <2>6. StagesInOrder(s)'
      BY <1>1, <2>3, <2>4, <2>5 DEF FlowInv, StagesInOrder, Older, OnTheBus, Path
    <2>7. LatestWaits(s)'
      BY <1>2, <2>1, <2>2, <2>4 DEF LatestWaits
    <2>8. \A n \in Nat : n..(c + 1) \subseteq n..c \cup {c + 1}
      BY <1>2
    <2>9. Path(s) \subseteq Nat /\ OnTheBus(s) \subseteq Path(s)
            /\ OfStream(s) \cup Sending(s) \cup Built(s) \subseteq Path(s)
      BY StagesNat DEF Path, OnTheBus
    <2>10. pc # "returned" => \A n \in OnTheBus(s)' : n..(c + 1) \subseteq OnTheBus(s)'
      BY <1>2, <2>4, <2>8, <2>9 DEF FlowInv, Gapless, c
    <2>11. pc = "streaming" => \A n \in OfStream(s) \cup Sending(s) \cup Built(s) :
              n..(c + 1) \subseteq Path(s)'
      BY <1>2, <2>4, <2>8, <2>9 DEF FlowInv, Gapless, c
    <2>12. Gapless(s)'
      BY <1>1, <2>1, <2>10, <2>11 DEF Gapless
    <2> QED
      BY <2>6, <2>7, <2>12
  <1>4. CASE s # t
    <2>1. captured'[s] = captured[s] /\ waiting'[s] = waiting[s]
      BY <1>4, CaptureEffect, TypeParts DEF TaskType
    <2>2. Waiting(s)' = Waiting(s)
      BY <2>1 DEF Waiting
    <2>3. OnTheBus(s)' = OnTheBus(s) /\ Path(s)' = Path(s)
      BY <1>1, <2>2 DEF OnTheBus, Path
    <2> QED
      BY <1>1, <2>1, <2>2, <2>3 DEF FlowInv, StagesInOrder, LatestWaits, Gapless, Older
  <1> QED
    BY <1>3, <1>4

\* The bus takes a frame.
LEMMA EnqueueFlow ==
  ASSUME TypeOK, FlowInv, StreamInv, NEW t \in Session, Enqueue(t), NEW s \in Session
  PROVE  StagesInOrder(s)' /\ LatestWaits(s)' /\ Gapless(s)'
  <1>1. /\ Arrived(s)' = Arrived(s) /\ Sending(s)' = Sending(s) /\ Built(s)' = Built(s)
        /\ OfStream(s)' = OfStream(s) /\ pc' = pc /\ captured' = captured
    BY EnqueueEffect DEF Arrived, Sending, Built, OfStream, sending, client
  <1>2. /\ waiting[t] \in Frame /\ waiting[t] # Nothing /\ waiting[t].session = t
        /\ waiting' = [waiting EXCEPT ![t] = Nothing]
    BY EnqueueEffect, NothingAssumption DEF FlowInv, LatestWaits
  <1>3. Waiting(s)' = IF s = t THEN {} ELSE Waiting(s)
    BY <1>2, TypeParts DEF Waiting, TaskType
  <1>4. waiting'[s] # Nothing => waiting'[s] = waiting[s]
    BY <1>2, TypeParts DEF TaskType
  <1>5. CASE pc = "returned"
    <2>1. Queued(s)' = Queued(s)
      BY <1>5, EnqueueEffect DEF Queued
    <2>2. OnTheBus(s)' \subseteq OnTheBus(s) /\ Path(s)' \subseteq Path(s)
            /\ Waiting(s)' \subseteq Waiting(s)
      BY <1>1, <1>3, <2>1 DEF OnTheBus, Path
    <2> QED
      BY <1>1, <1>4, <1>5, <2>1, <2>2
      DEF FlowInv, StagesInOrder, LatestWaits, Gapless, Older
  <1>6. CASE pc # "returned"
    <2>1. PICK f \in Frame : bus' = Append(bus, f) /\ f.session = t
                               /\ f.number = waiting[t].number
      BY <1>2, <1>6, EnqueueEffect
    <2>2. Queued(s)' = Queued(s) \cup One(f, s)
      BY <2>1, TypeParts, NumbersOfAppend DEF Queued, BusType
    <2>3. One(f, s) = IF s = t THEN Waiting(s) ELSE {}
      BY <1>2, <2>1 DEF One, Waiting
    <2>4. OnTheBus(s)' = OnTheBus(s) /\ Path(s)' = Path(s)
      BY <1>1, <1>3, <2>2, <2>3 DEF OnTheBus, Path
    <2>5. Older(Queued(s)', Waiting(s)')
      BY <1>3, <2>2, <2>3 DEF FlowInv, StagesInOrder, Older
    <2> QED
      BY <1>1, <1>4, <2>4, <2>5 DEF FlowInv, StagesInOrder, LatestWaits, Gapless, Older
  <1> QED
    BY <1>5, <1>6

LEMMA NextFlow ==
  ASSUME TypeOK, SortedInv, FlowInv, StreamInv, [Next]_vars
  PROVE  FlowInv'
  <1> SUFFICES ASSUME NEW s \in Session
               PROVE  StagesInOrder(s)' /\ LatestWaits(s)' /\ Gapless(s)'
    BY DEF FlowInv
  <1>1. CASE \E t \in Session : Speak(t) \/ HangUp(t)
    BY <1>1, CaptureSteps, CaptureFlow
  <1>2. CASE \E t \in Session : Enqueue(t)
    BY <1>2, EnqueueFlow
  <1>3. CASE StartAttempt \/ Drain \/ ObserveCancel
    BY <1>3, DrainFlow
  <1>4. CASE OpenStream \/ AttemptFails
    BY <1>4, LostFlow
  <1>5. CASE Take
    BY <1>5, TakeFlow
  <1>6. CASE HandOver
    BY <1>6, HandOverFlow
  <1>7. CASE ServerReads
    BY <1>7, ServerReadsFlow
  <1>8. CASE Moving \/ (\E t \in Session : StartTask(t)) \/ UNCHANGED vars
    <2>1. UNCHANGED <<received, outbound, held, bus, waiting, captured, streams>>
            /\ (pc' = pc \/ (pc # "returned" /\ pc' # "streaming"))
      <3>1. CASE Moving
        BY <3>1, MovingLeaves DEF sending, producers
      <3>2. CASE \E t \in Session : StartTask(t)
        BY <3>2 DEF StartTask, client, sending
      <3>3. CASE UNCHANGED vars
        BY <3>3 DEF vars, client, sending, producers
      <3> QED
        BY <1>8, <3>1, <3>2, <3>3
    <2>2. Stages(s)' = Stages(s)
      BY <2>1, SameStages
    <2> QED
      BY <2>1, <2>2, StagesStay DEF FlowInv
  <1> QED
    BY <1>1, <1>2, <1>3, <1>4, <1>5, <1>6, <1>7, <1>8, NextSteps

LEMMA NextSorted ==
  ASSUME TypeOK, SortedInv, FlowInv, StreamInv, [Next]_vars
  PROVE  SortedInv'
  <1> USE DEF SortedInv
  <1>0. SortedMessages(<<>>) /\ Sorted(<<>>)
    BY DEF SortedMessages, Sorted
  <1>1. CASE \E t \in Session : StartTask(t) \/ Speak(t) \/ HangUp(t)
    <2>1. UNCHANGED <<received, outbound, bus>>
      BY <1>1, CaptureSteps DEF StartTask, Capture, sending
    <2> QED
      BY <2>1
  <1>2. ASSUME NEW t \in Session, Enqueue(t) PROVE SortedInv'
    <2>1. CASE bus' = bus
      BY <1>2, <2>1, EnqueueEffect DEF sending
    <2>2. CASE pc # "returned"
      <3>1. waiting[t] \in Frame /\ waiting[t] # Nothing /\ waiting[t].session = t
        BY <1>2, EnqueueEffect, NothingAssumption DEF FlowInv, LatestWaits
      <3>2. PICK f \in Frame : bus' = Append(bus, f) /\ f.session = t
                                 /\ f.number = waiting[t].number
        BY <1>2, <2>2, <3>1, EnqueueEffect
      <3>3. Older(NumbersOf(bus, t), {f.number})
        BY <3>1, <3>2 DEF FlowInv, StagesInOrder, Queued, Waiting
      <3>4. Sorted(bus')
        BY <3>2, <3>3, TypeParts, SortedAppend DEF BusType
      <3> QED
        BY <1>2, <3>4, EnqueueEffect DEF sending
    <2> QED
      BY <1>2, <2>1, <2>2, EnqueueEffect
  <1>3. CASE StartAttempt \/ Drain \/ ObserveCancel
    <2>1. Sorted(bus')
      BY <1>0, <1>3, BusLoses, TypeParts, SortedTail DEF BusType
    <2>2. received' = received /\ (outbound' = outbound \/ outbound' = <<>>)
      BY <1>3 DEF StartAttempt, Drain, ObserveCancel, sending
    <2> QED
      BY <1>0, <2>1, <2>2
  <1>4. CASE OpenStream \/ AttemptFails
    <2>1. outbound' = <<>> /\ bus' = bus /\ received' = received
      BY <1>4 DEF OpenStream, AttemptFails
    <2> QED
      BY <1>0, <2>1
  <1>5. CASE Take
    <2>1. Sorted(bus')
      BY <1>5, TakeBuilds, TypeParts, SortedTail DEF BusType
    <2> QED
      BY <1>5, <2>1, TakeBuilds
  <1>6. CASE HandOver
    <2>1. held.frame.session \in Session
      BY <1>6, HandOverMoves DEF Message, Frame
    <2>2. Older(Numbers(outbound, held.frame.session), {held.frame.number})
      BY <1>6, <2>1 DEF HandOver, FlowInv, StagesInOrder, Sending, Built, One, Older
    <2>3. SortedMessages(outbound')
      BY <1>6, <2>2, HandOverMoves, SortedMessagesAppend
    <2> QED
      BY <1>6, <2>3, HandOverMoves
  <1>7. CASE ServerReads
    <2> DEFINE h == Head(outbound)
    <2>1. h \in Message /\ received \in Seq(Message) /\ outbound \in Seq(Message)
            /\ outbound # <<>> /\ received' = Append(received, h) /\ outbound' = Tail(outbound)
            /\ bus' = bus
      BY <1>7, ServerReadsMoves
    <2>2. h.frame.session \in Session /\ h.frame.number \in Sending(h.frame.session)
      <3>1. h.frame.session \in Session
        BY <2>1 DEF Message, Frame
      <3>2. h.frame.number \in One(h.frame, h.frame.session)
        BY DEF One
      <3> QED
        BY <2>1, <3>1, <3>2, NumbersTail DEF Sending
    <2>3. Older(Numbers(received, h.frame.session), {h.frame.number})
      BY <2>2 DEF FlowInv, StagesInOrder, Arrived, Older
    <2>4. SortedMessages(received')
      BY <2>1, <2>3, SortedMessagesAppend
    <2>5. SortedMessages(outbound')
      BY <2>1, SortedMessagesTail
    <2> QED
      BY <2>1, <2>4, <2>5
  <1>8. CASE Moving \/ UNCHANGED vars
    <2>1. UNCHANGED <<received, outbound, bus>>
      BY <1>8, MovingLeaves DEF vars, sending
    <2> QED
      BY <2>1
  <1> QED
    BY <1>1, <1>2, <1>3, <1>4, <1>5, <1>6, <1>7, <1>8, NextSteps

\* Between a message that has arrived and the one that arrives now on the same
\* stream, nothing of their session is missing.
LEMMA ArrivesNext ==
  ASSUME TypeOK, SortedInv, FlowInv, StreamInv, ServerReads,
         NEW i \in DOMAIN received, SameSession(received[i], Head(outbound)),
         received[i].stream = Head(outbound).stream
  PROVE  \/ Head(outbound).frame.number = received[i].frame.number + 1
         \/ \E k \in (i + 1)..Len(received) :
              /\ SameSession(received[i], received[k])
              /\ received[k].frame.number = received[i].frame.number + 1
  <1> DEFINE h == Head(outbound)
             s == h.frame.session
             n == received[i].frame.number
             m == h.frame.number
  <1>1. h \in Message /\ received \in Seq(Message) /\ outbound \in Seq(Message)
          /\ outbound # <<>> /\ pc = "streaming"
    BY ServerReadsMoves
  <1>2. s \in Session /\ received[i].frame.session = s
    BY <1>1 DEF Message, Frame, SameSession
  <1>3. h.stream = streams
    <2>1. 1 \in DOMAIN outbound /\ h = outbound[1]
      BY <1>1, TailElements
    <2> QED
      BY <2>1 DEF StreamInv
  <1>4. n \in OfStream(s)
    BY <1>2, <1>3 DEF OfStream
  <1>5. m \in Sending(s)
    <2>1. m \in One(h.frame, s)
      BY DEF One
    <2> QED
      BY <1>1, <2>1, NumbersTail DEF Sending
  <1>6. n \in Arrived(s) /\ n \in Nat /\ m \in Nat /\ captured[s] \in Nat
    BY <1>2, <1>4, <1>5, StagesNat
  <1>7. n < m
    BY <1>2, <1>5, <1>6 DEF FlowInv, StagesInOrder, Older
  <1>8. m <= captured[s]
    BY <1>2, <1>5, <1>6 DEF FlowInv, LatestWaits, Path
  <1>9. n + 1 \in Path(s)
    <2>1. n + 1 \in n..captured[s]
      BY <1>6, <1>7, <1>8
    <2> QED
      BY <1>1, <1>2, <1>4, <2>1 DEF FlowInv, Gapless
  <1>10. n + 1 \notin Built(s) \cup OnTheBus(s)
    <2> SUFFICES ASSUME n + 1 \in Built(s) \cup OnTheBus(s) PROVE FALSE
      OBVIOUS
    <2>1. m < n + 1
      BY <1>2, <1>5 DEF FlowInv, StagesInOrder, Older
    <2> QED
      BY <1>6, <1>7, <2>1
  <1>11. CASE n + 1 \in Sending(s)
    <2>1. Sending(s) = One(h.frame, s) \cup Numbers(Tail(outbound), s)
            /\ Older(One(h.frame, s), Numbers(Tail(outbound), s))
      BY <1>1, NumbersTail, SortedMessagesTail DEF Sending, SortedInv
    <2>2. One(h.frame, s) = {m}
      BY DEF One
    <2>3. n + 1 \notin Numbers(Tail(outbound), s)
      <3> SUFFICES ASSUME n + 1 \in Numbers(Tail(outbound), s) PROVE FALSE
        OBVIOUS
      <3>1. m < n + 1
        BY <2>1, <2>2 DEF Older
      <3> QED
        BY <1>6, <1>7, <3>1
    <2> QED
      BY <1>11, <2>1, <2>2, <2>3
  <1>12. CASE n + 1 \in Arrived(s)
    <2>1. PICK k \in DOMAIN received :
             received[k].frame.session = s /\ received[k].frame.number = n + 1
      BY <1>12 DEF Arrived, Numbers
    <2>2. i \in 1..Len(received) /\ k \in 1..Len(received) /\ Len(received) \in Nat
      BY <1>1
    <2>3. ~(k < i)
      <3> SUFFICES ASSUME k < i PROVE FALSE
        OBVIOUS
      <3>1. n + 1 < n
        BY <1>2, <2>1 DEF SortedInv, SortedMessages, SameSession
      <3> QED
        BY <1>6, <3>1
    <2>4. k # i
      BY <1>6, <2>1
    <2>5. k \in (i + 1)..Len(received)
      BY <2>2, <2>3, <2>4
    <2> QED
      BY <1>2, <2>1, <2>5 DEF SameSession
  <1> QED
    BY <1>9, <1>10, <1>11, <1>12 DEF Path

\* Only the AI server reads its stream.
LEMMA ReceivedGrows ==
  ASSUME [Next]_vars
  PROVE  ServerReads \/ received' = received
  <1>1. ASSUME NEW t \in Session, StartTask(t) \/ Speak(t) \/ HangUp(t) \/ Enqueue(t)
        PROVE received' = received
    BY <1>1, CaptureSteps DEF StartTask, Capture, Enqueue
  <1>2. CASE StartAttempt \/ Drain \/ ObserveCancel \/ OpenStream \/ AttemptFails
    BY <1>2 DEF StartAttempt, Drain, ObserveCancel, OpenStream, AttemptFails
  <1>3. CASE Take
    BY <1>3 DEF Take
  <1>4. CASE HandOver
    BY <1>4 DEF HandOver
  <1>5. CASE Moving \/ UNCHANGED vars
    BY <1>5, MovingLeaves DEF vars
  <1> QED
    BY <1>1, <1>2, <1>3, <1>4, <1>5, NextSteps

LEMMA GaplessAppend ==
  ASSUME NEW q \in Seq(Message), NEW h \in Message, GaplessMessages(q),
         \A i \in DOMAIN q : SameSession(q[i], h) /\ q[i].stream = h.stream =>
            \/ h.frame.number = q[i].frame.number + 1
            \/ NextFollows(q, i, Len(q))
  PROVE  GaplessMessages(Append(q, h))
  <1> DEFINE r == Append(q, h)
             l == Len(q)
  <1>1. /\ l \in Nat /\ DOMAIN q = 1..l /\ DOMAIN r = 1..(l + 1)
        /\ \A i \in 1..l : r[i] = q[i]
        /\ r[l + 1] = h
    BY AppendElements
  <1> HIDE DEF r, l
  <1> SUFFICES ASSUME NEW i \in DOMAIN r, NEW j \in DOMAIN r, i < j,
                      SameSession(r[i], r[j]), r[i].stream = r[j].stream
               PROVE  NextFollows(r, i, j)
    BY DEF GaplessMessages, r
  <1>2. i \in 1..l /\ r[i] = q[i] /\ j \in 1..(l + 1)
    BY <1>1
  <1>3. ASSUME NEW n \in 1..l, n <= j, NextFollows(q, i, n) PROVE NextFollows(r, i, j)
    <2>1. PICK k \in (i + 1)..n : /\ SameSession(q[i], q[k])
                                   /\ q[k].frame.number = q[i].frame.number + 1
      BY <1>3 DEF NextFollows
    <2>2. r[k] = q[k] /\ k \in (i + 1)..j
      BY <1>1, <1>2, <1>3
    <2> QED
      BY <1>2, <2>1, <2>2 DEF NextFollows
  <1>4. CASE j \in 1..l
    <2>1. NextFollows(q, i, j)
      BY <1>1, <1>2, <1>4 DEF GaplessMessages
    <2> QED
      BY <1>2, <1>3, <1>4, <2>1
  <1>5. CASE j = l + 1
    <2>1. SameSession(q[i], h) /\ q[i].stream = h.stream /\ i \in DOMAIN q
      BY <1>1, <1>2, <1>5
    <2>2. CASE h.frame.number = q[i].frame.number + 1
      <3>1. j \in (i + 1)..j
        BY <1>2
      <3> QED
        BY <1>1, <1>2, <1>5, <2>1, <2>2, <3>1 DEF NextFollows
    <2>3. CASE NextFollows(q, i, l)
      <3>1. l \in 1..l /\ l <= j
        BY <1>1, <1>2, <1>5
      <3> QED
        BY <1>3, <2>3, <3>1
    <2> QED
      BY <2>1, <2>2, <2>3 DEF l
  <1> QED
    BY <1>1, <1>2, <1>4, <1>5

LEMMA NextArrived ==
  ASSUME TypeOK, SortedInv, FlowInv, StreamInv, ArrivedGapless, [Next]_vars
  PROVE  ArrivedGapless'
  <1>1. CASE ServerReads
    <2>1. Head(outbound) \in Message /\ received \in Seq(Message)
            /\ received' = Append(received, Head(outbound))
      BY <1>1, ServerReadsMoves
    <2>2. \A i \in DOMAIN received :
             SameSession(received[i], Head(outbound)) /\ received[i].stream = Head(outbound).stream
               => \/ Head(outbound).frame.number = received[i].frame.number + 1
                  \/ NextFollows(received, i, Len(received))
      BY <1>1, ArrivesNext DEF NextFollows
    <2> QED
      BY <2>1, <2>2, GaplessAppend DEF ArrivedGapless
  <1>2. CASE received' = received
    BY <1>2 DEF ArrivedGapless
  <1> QED
    BY <1>1, <1>2, ReceivedGrows

-----------------------------------------------------------------------------
(* Streams.                                                                *)

LEMMA ReceivedStreams ==
  ASSUME TypeOK, StreamInv
  PROVE  /\ streams \in Nat
         /\ \A i \in DOMAIN received : received[i].stream \in Nat
  <1>1. streams \in Nat
    BY TypeParts, Constants DEF ClientType
  <1>2. ASSUME NEW i \in DOMAIN received PROVE received[i].stream \in Nat
    <2>1. received[i] \in Message
      BY TypeParts, ElementTyped DEF SenderType
    <2> QED
      BY <2>1, Constants DEF Message
  <1> QED
    BY <1>1, <1>2

\* What the AI server reads comes after what it has.
LEMMA LastReceived ==
  ASSUME TypeOK, ServerReads, NEW i \in DOMAIN received'
  PROVE  received'[i] = Head(outbound) \/ (i \in DOMAIN received /\ received'[i] = received[i])
  <1>1. received \in Seq(Message) /\ Head(outbound) \in Message
          /\ received' = Append(received, Head(outbound))
    BY ServerReadsMoves
  <1> DEFINE h == Head(outbound)
  <1> HIDE DEF h
  <1>2. \A k \in DOMAIN Append(received, h) :
          Append(received, h)[k] = h \/ (k \in DOMAIN received /\ Append(received, h)[k] = received[k])
    BY <1>1, AppendElements DEF h
  <1> QED
    BY <1>1, <1>2 DEF h

LEMMA NextStream ==
  ASSUME TypeOK, StreamInv, [Next]_vars
  PROVE  StreamInv'
  <1> USE DEF StreamInv
  <1>1. CASE Take
    <2>1. held'.stream = streams /\ pc' = pc /\ streams' = streams /\ pc = "streaming"
            /\ outbound' = outbound /\ received' = received
      BY <1>1, TakeBuilds DEF client
    <2> QED
      BY <2>1
  <1>2. CASE HandOver
    <2>1. /\ held' = Nothing /\ pc' = pc /\ streams' = streams /\ pc = "streaming"
          /\ received' = received /\ held.stream = streams
      BY <1>2, HandOverMoves DEF client, HandOver
    <2>2. ASSUME NEW i \in DOMAIN outbound' PROVE outbound'[i].stream = streams
      BY <1>2, <2>1, <2>2, HandOverMoves, AppendElements
    <2> QED
      BY <2>1, <2>2
  <1>3. CASE ServerReads
    <2>1. held' = held /\ pc' = pc /\ streams' = streams /\ pc = "streaming"
      BY <1>3, ServerReadsMoves DEF client
    <2>2. ASSUME NEW i \in DOMAIN outbound' PROVE outbound'[i].stream = streams
      <3>1. i + 1 \in DOMAIN outbound /\ outbound'[i] = outbound[i + 1]
        BY <1>3, <2>2, ServerReadsMoves, TailElements
      <3> QED
        BY <3>1
    <2>3. Head(outbound).stream = streams
      BY <1>3, ServerReadsMoves, TailElements
    <2>4. ASSUME NEW i \in DOMAIN received' PROVE received'[i].stream <= streams
      <3>1. received'[i] = Head(outbound) \/ (i \in DOMAIN received /\ received'[i] = received[i])
        BY <1>3, <2>4, LastReceived
      <3> QED
        BY <2>3, <3>1, ReceivedStreams
    <2> QED
      BY <2>1, <2>2, <2>4
  <1>4. CASE /\ OpenStream \/ AttemptFails \/ ObserveCancel
             /\ held' = Nothing /\ outbound' = <<>> /\ received' = received
    <2>1. \/ pc' = "streaming" /\ streams' = streams + 1
          \/ pc' = "draining" /\ streams' = streams
          \/ pc' = "returned" /\ streams' = streams /\ bus' = <<>>
      BY <1>4 DEF OpenStream, AttemptFails, ObserveCancel
    <2>2. streams' \in Nat /\ streams' >= streams /\ (pc' = "streaming" => streams' > 0)
      BY <2>1, ReceivedStreams
    <2>3. \A i \in DOMAIN received' : received'[i].stream <= streams'
      BY <1>4, <2>2, ReceivedStreams
    <2>4. pc' = "returned" => bus' = <<>>
      BY <2>1
    <2> QED
      BY <1>4, <2>2, <2>3, <2>4
  <1>5. ASSUME NEW t \in Session, StartTask(t) \/ Speak(t) \/ HangUp(t) \/ Enqueue(t)
        PROVE StreamInv'
    <2>1. UNCHANGED <<pc, held, outbound, received, streams>>
      BY <1>5, CaptureSteps DEF StartTask, Capture, Enqueue, client, sending
    <2>2. pc = "returned" => bus' = bus
      BY <1>5, CaptureSteps DEF StartTask, Capture, Enqueue
    <2> QED
      BY <2>1, <2>2
  <1>6. CASE StartAttempt \/ Drain \/ Moving \/ UNCHANGED vars
    <2>1. UNCHANGED <<held, outbound, received, streams>>
      BY <1>6, MovingLeaves DEF StartAttempt, Drain, vars, client, sending
    <2>2. pc' = pc \/ (pc # "streaming" /\ pc' # "streaming")
      BY <1>6, MovingLeaves DEF StartAttempt, Drain, vars, client
    <2>3. pc' = "returned" => bus' = <<>> \/ (bus' = bus /\ pc = "returned")
      BY <1>6, MovingLeaves DEF StartAttempt, Drain, vars, client
    <2> QED
      BY <2>1, <2>2, <2>3
  <1>7. CASE OpenStream \/ AttemptFails \/ ObserveCancel
    <2>1. held' = Nothing /\ outbound' = <<>> /\ received' = received
      BY <1>7 DEF OpenStream, AttemptFails, ObserveCancel
    <2> QED
      BY <1>4, <1>7, <2>1
  <1> QED
    BY <1>1, <1>2, <1>3, <1>5, <1>6, <1>7, NextSteps

\* The frames on the bus, by the step that touched it last.
LEMMA NextQueued ==
  ASSUME TypeOK, StreamInv, QueuedInv, [Next]_vars
  PROVE  QueuedInv'
  <1> USE DEF QueuedInv, DrainedWithItsStream
  <1>1. CASE Take
    <2> DEFINE h == Head(bus)
    <2>1. /\ bus' = Tail(bus) /\ bus # <<>> /\ bus \in Seq(Frame) /\ pc = "streaming"
          /\ UNCHANGED <<pc, streams, outbound, received>>
      BY <1>1, TakeBuilds, TypeParts DEF BusType, client
    <2>2. held'.frame = h /\ held'.stream = streams
      BY <1>1, TakeBuilds
    <2>3. h.queued \in {0, streams}
      BY <2>1, TailElements
    <2>4. \A i \in DOMAIN bus' : bus'[i].queued = 0 \/ bus'[i].queued = streams
      BY <2>1, TailElements
    <2> QED
      BY <2>1, <2>2, <2>3, <2>4
  <1>2. CASE HandOver
    <2>1. held' = Nothing /\ held # Nothing /\ UNCHANGED <<pc, streams, bus, received>>
      BY <1>2, HandOverMoves DEF client, HandOver
    <2>2. ASSUME NEW i \in DOMAIN outbound'
          PROVE outbound'[i].frame.queued \in {0, outbound'[i].stream}
      BY <1>2, <2>1, <2>2, HandOverMoves, AppendElements
    <2> QED
      BY <2>1, <2>2
  <1>3. CASE ServerReads
    <2>1. UNCHANGED <<held, pc, streams, bus>>
      BY <1>3, ServerReadsMoves DEF client
    <2>2. ASSUME NEW i \in DOMAIN outbound'
          PROVE outbound'[i].frame.queued \in {0, outbound'[i].stream}
      <3>1. i + 1 \in DOMAIN outbound /\ outbound'[i] = outbound[i + 1]
        BY <1>3, <2>2, ServerReadsMoves, TailElements
      <3> QED
        BY <3>1
    <2>3. Head(outbound).frame.queued \in {0, Head(outbound).stream}
      BY <1>3, ServerReadsMoves, TailElements
    <2>4. ASSUME NEW i \in DOMAIN received'
          PROVE received'[i].frame.queued \in {0, received'[i].stream}
      <3>1. received'[i] = Head(outbound) \/ (i \in DOMAIN received /\ received'[i] = received[i])
        BY <1>3, <2>4, LastReceived
      <3> QED
        BY <2>3, <3>1
    <2> QED
      BY <2>1, <2>2, <2>4
  <1>4. CASE OpenStream \/ AttemptFails
    <2>1. held' = Nothing /\ outbound' = <<>> /\ UNCHANGED <<received, bus>>
      BY <1>4 DEF OpenStream, AttemptFails
    <2>2. \/ pc = "opening"
          \/ pc' = "draining" /\ streams' = streams
      BY <1>4 DEF OpenStream, AttemptFails
    <2> QED
      BY <2>1, <2>2
  <1>5. CASE StartAttempt \/ Drain \/ ObserveCancel
    <2>1. received' = received /\ streams' = streams
            /\ \/ UNCHANGED <<held, outbound>>
               \/ held' = Nothing /\ outbound' = <<>>
      BY <1>5 DEF StartAttempt, Drain, ObserveCancel, sending
    <2>2. \/ bus' = <<>>
          \/ bus' = bus /\ pc \notin {"streaming", "draining"}
          \/ bus # <<>> /\ bus' = Tail(bus) /\ pc' = pc
      BY <1>5 DEF StartAttempt, Drain, ObserveCancel
    <2>3. bus \in Seq(Frame)
      BY TypeParts DEF BusType
    <2>4. ASSUME NEW i \in DOMAIN bus'
          PROVE \/ bus'[i].queued = 0
                \/ pc' \in {"streaming", "draining"} /\ bus'[i].queued = streams
      BY <2>2, <2>3, <2>4, TailElements
    <2> QED
      BY <2>1, <2>4
  <1>6. ASSUME NEW t \in Session, Enqueue(t) PROVE QueuedInv'
    <2>1. UNCHANGED <<pc, streams, held, outbound, received>>
      BY <1>6, EnqueueEffect DEF client, sending
    <2>2. CASE bus' = bus
      BY <2>1, <2>2
    <2>3. ASSUME NEW f \in Frame, bus' = Append(bus, f),
                 f.queued = IF pc = "streaming" THEN streams ELSE 0
          PROVE QueuedInv'
      <3>1. ASSUME NEW i \in DOMAIN bus'
            PROVE \/ bus'[i].queued = 0
                  \/ pc \in {"streaming", "draining"} /\ bus'[i].queued = streams
        BY <2>3, <3>1, TypeParts, AppendElements DEF BusType
      <3> QED
        BY <2>1, <3>1
    <2> QED
      BY <1>6, <2>2, <2>3, EnqueueEffect
  <1>7. ASSUME NEW t \in Session, StartTask(t) \/ Speak(t) \/ HangUp(t)
        PROVE QueuedInv'
    <2>1. UNCHANGED <<pc, streams, held, outbound, received, bus>>
      BY <1>7, CaptureSteps DEF StartTask, Capture, client, sending
    <2> QED
      BY <2>1
  <1>8. CASE Moving \/ UNCHANGED vars
    <2>1. UNCHANGED <<streams, held, outbound, received, bus>>
            /\ (pc' = pc \/ pc \notin {"streaming", "draining"})
      BY <1>8, MovingLeaves DEF vars, client, sending
    <2> QED
      BY <2>1
  <1> QED
    BY <1>1, <1>2, <1>3, <1>4, <1>5, <1>6, <1>7, <1>8, NextSteps

-----------------------------------------------------------------------------
(* Capabilities.                                                           *)

LEMMA BusSessions ==
  ASSUME BusType
  PROVE  \A i \in DOMAIN bus : bus[i].session \in Session
  <1> SUFFICES ASSUME NEW i \in DOMAIN bus PROVE bus[i].session \in Session
    OBVIOUS
  <1>1. bus[i] \in Frame
    BY ElementTyped DEF BusType
  <1> QED
    BY <1>1 DEF Frame

LEMMA NextStored ==
  ASSUME TypeOK, FlowInv, StoredInv, [Next]_vars
  PROVE  StoredInv'
  <1> TaskType /\ BusType
    BY TypeParts
  <1> USE Constants DEF StoredInv
  <1>1. ASSUME NEW t \in Session, StartTask(t) PROVE StoredInv'
    <2>1. /\ task' = [task EXCEPT ![t] = "running"]
          /\ device_configs' = [device_configs EXCEPT ![DeviceOf[t]] = t]
          /\ UNCHANGED <<waiting, bus>>
      BY <1>1 DEF StartTask
    <2>2. \A i \in DOMAIN bus : bus[i].session \in Session
      BY BusSessions
    <2> QED
      BY <2>1, <2>2 DEF TaskType
  <1>2. ASSUME NEW t \in Session, Speak(t) \/ HangUp(t) PROVE StoredInv'
    <2>1. PICK event \in SpeechEvent : Capture(t, event)
      BY <1>2, CaptureSteps
    <2>2. UNCHANGED <<device_configs, bus>> /\ task[t] = "running"
            /\ waiting' = [waiting EXCEPT ![t] = waiting'[t]]
      BY <2>1, CaptureEffect
    <2>3. \A s \in Session : task'[s] = "idle" <=> task[s] = "idle"
      BY <1>2, <2>2, CaptureSteps DEF TaskType
    <2>4. \A i \in DOMAIN bus : bus[i].session \in Session
      BY BusSessions
    <2> QED
      BY <2>2, <2>3, <2>4 DEF TaskType
  <1>3. ASSUME NEW t \in Session, Enqueue(t) PROVE StoredInv'
    <2>1. /\ UNCHANGED <<device_configs, task>> /\ waiting[t] \in Frame
          /\ waiting' = [waiting EXCEPT ![t] = Nothing]
      BY <1>3, EnqueueEffect
    <2>2. waiting[t] # Nothing /\ waiting[t].session = t
      BY <2>1, NothingAssumption DEF FlowInv, LatestWaits
    <2>3. \A s \in Session : waiting'[s] # Nothing => waiting[s] # Nothing
      BY <2>1, <2>2 DEF TaskType
    <2>4. ASSUME NEW i \in DOMAIN bus' PROVE task[bus'[i].session] # "idle"
      <3>1. CASE bus' = bus
        BY <2>4, <3>1
      <3>2. ASSUME NEW f \in Frame, bus' = Append(bus, f), f.session = waiting[t].session
            PROVE  task[bus'[i].session] # "idle"
        BY <2>2, <2>4, <3>2, AppendElements DEF BusType
      <3> QED
        BY <1>3, <3>1, <3>2, EnqueueEffect
    <2> QED
      BY <2>1, <2>3, <2>4
  <1>4. CASE StartAttempt \/ Drain \/ ObserveCancel
    <2>1. UNCHANGED <<device_configs, task, waiting>>
      BY <1>4, BusLoses DEF producers
    <2>2. ASSUME NEW i \in DOMAIN bus' PROVE task[bus'[i].session] # "idle"
      <3>1. CASE bus' = bus \/ bus' = <<>>
        BY <2>2, <3>1
      <3>2. CASE bus # <<>> /\ bus' = Tail(bus)
        BY <2>2, <3>2, TailElements DEF BusType
      <3> QED
        BY <1>4, <3>1, <3>2, BusLoses
    <2> QED
      BY <2>1, <2>2
  <1>5. CASE Take
    <2>1. UNCHANGED <<device_configs, task, waiting>> /\ bus' = Tail(bus) /\ bus # <<>>
      BY <1>5 DEF Take, producers
    <2>2. \A i \in DOMAIN bus' : task[bus'[i].session] # "idle"
      BY <2>1, TailElements DEF BusType
    <2> QED
      BY <2>1, <2>2
  <1>6. CASE HandOver \/ ServerReads \/ OpenStream \/ AttemptFails \/ Moving \/ UNCHANGED vars
    <2>1. UNCHANGED <<device_configs, task, waiting, bus>>
      BY <1>6, MovingLeaves DEF HandOver, ServerReads, OpenStream, AttemptFails, vars, producers
    <2> QED
      BY <2>1
  <1> QED
    BY <1>1, <1>2, <1>3, <1>4, <1>5, <1>6, NextSteps

LEMMA BroughtAppend ==
  ASSUME NEW q \in Seq(Message), NEW m \in Message, NEW d, NEW n
  PROVE  BroughtBy(Append(q, m), d, n) <=> BroughtBy(q, d, n) \/ Brings(m, d, n)
  BY AppendElements DEF BroughtBy

LEMMA BroughtTail ==
  ASSUME NEW q \in Seq(Message), q # <<>>, NEW d, NEW n
  PROVE  BroughtBy(q, d, n) => Brings(Head(q), d, n) \/ BroughtBy(Tail(q), d, n)
  <1> SUFFICES ASSUME NEW i \in DOMAIN q, Brings(q[i], d, n)
               PROVE  Brings(Head(q), d, n) \/ BroughtBy(Tail(q), d, n)
    BY DEF BroughtBy
  <1>1. CASE i = 1
    BY <1>1, TailElements
  <1>2. CASE i # 1
    <2>1. i - 1 \in DOMAIN Tail(q) /\ Tail(q)[i - 1] = q[i]
      BY <1>2, TailElements
    <2> QED
      BY <2>1 DEF BroughtBy
  <1> QED
    BY <1>1, <1>2

\* The AI server reads: the capabilities arrive no later than the START.
LEMMA ServerReadsConfig ==
  ASSUME TypeOK, StreamInv, ConfigInv, ServerReads
  PROVE  ConfigInv'
  <1> DEFINE h == Head(outbound)
             l == Len(received)
  <1>0. UNCHANGED <<held, pc, streams, config_sent>>
    BY ServerReadsMoves DEF client
  <1>1. /\ l \in Nat /\ received' = Append(received, h) /\ DOMAIN received = 1..l
        /\ DOMAIN received' = 1..(l + 1) /\ received'[l + 1] = h
        /\ \A i \in 1..l : received'[i] = received[i]
        /\ received \in Seq(Message) /\ h \in Message
    <2>1. received \in Seq(Message) /\ h \in Message /\ received' = Append(received, h)
      BY ServerReadsMoves
    <2> QED
      BY <2>1, AppendElements
  <1>2. /\ outbound' = Tail(outbound) /\ h = outbound[1] /\ 1 \in DOMAIN outbound
        /\ Len(outbound) \in Nat /\ DOMAIN outbound = 1..Len(outbound)
        /\ DOMAIN outbound' = 1..(Len(outbound) - 1)
        /\ \A i \in DOMAIN outbound' : outbound'[i] = outbound[i + 1]
        /\ outbound \in Seq(Message) /\ outbound # <<>>
    BY ServerReadsMoves, TailElements
  <1>3. \A d, n : BroughtBy(received', d, n) <=> BroughtBy(received, d, n) \/ Brings(h, d, n)
    BY <1>1, BroughtAppend
  <1>4. \A d, n : BroughtBy(received, d, n) \/ BroughtBy(outbound, d, n)
                    => BroughtBy(received', d, n) \/ BroughtBy(outbound', d, n)
    BY <1>2, <1>3, BroughtTail
  <1> HIDE DEF h, l
  <1>5. ASSUME NEW j \in DOMAIN outbound', outbound'[j].frame.event = "Start", NEW d,
               d = DeviceOf[outbound'[j].frame.session]
        PROVE \/ BroughtBy(received', d, streams)
              \/ \E i \in 1..j : Brings(outbound'[i], d, streams)
    <2>1. j \in Nat /\ j + 1 \in DOMAIN outbound /\ outbound'[j] = outbound[j + 1]
      BY <1>2
    <2>2. BroughtBy(received, d, streams) \/ \E i \in 1..(j + 1) : Brings(outbound[i], d, streams)
      BY <1>5, <2>1 DEF ConfigInv
    <2>3. ASSUME NEW i \in 1..(j + 1), Brings(outbound[i], d, streams)
          PROVE BroughtBy(received', d, streams) \/ \E k \in 1..j : Brings(outbound'[k], d, streams)
      <3>1. CASE i = 1
        BY <1>2, <1>3, <2>3, <3>1
      <3>2. CASE i # 1
        <4>1. i - 1 \in 1..j /\ i - 1 \in DOMAIN outbound' /\ (i - 1) + 1 = i
          BY <1>2, <2>1, <3>2
        <4>2. outbound'[i - 1] = outbound[i]
          BY <1>2, <4>1
        <4> QED
          BY <2>3, <4>1, <4>2
      <3> QED
        BY <3>1, <3>2
    <2> QED
      BY <1>3, <2>2, <2>3
  <1>6. ASSUME NEW j \in DOMAIN received', received'[j].frame.event = "Start", NEW d,
               d = DeviceOf[received'[j].frame.session]
        PROVE  \E i \in 1..j : Brings(received'[i], d, received'[j].stream)
    <2>1. CASE j \in 1..l
      <3>1. received'[j] = received[j] /\ \A i \in 1..j : received'[i] = received[i]
        BY <1>1, <2>1
      <3>2. \E i \in 1..j : Brings(received[i], d, received[j].stream)
        BY <1>1, <1>6, <2>1, <3>1 DEF ConfigInv, ConfigOnFirstStart, Brings
      <3> QED
        BY <3>1, <3>2
    <2>2. CASE j = l + 1
      <3>1. h.frame.event = "Start" /\ h.stream = streams /\ d = DeviceOf[h.frame.session]
              /\ received'[j] = h
        BY <1>1, <1>2, <1>6, <2>2 DEF StreamInv
      <3>2. BroughtBy(received, d, streams) \/ Brings(h, d, streams)
        BY <1>2, <3>1 DEF ConfigInv
      <3>3. PICK i \in DOMAIN received' : Brings(received'[i], d, streams)
        BY <1>3, <3>2 DEF BroughtBy
      <3>4. i \in 1..j
        BY <1>1, <2>2, <3>3
      <3> QED
        BY <3>1, <3>3, <3>4
    <2> QED
      BY <1>1, <2>1, <2>2
  <1>7. ConfigOnFirstStart'
    BY <1>6 DEF ConfigOnFirstStart, Brings
  <1>8. pc = "streaming" => \A d \in config_sent :
          \/ BroughtBy(received', d, streams) \/ BroughtBy(outbound', d, streams)
          \/ held # Nothing /\ Brings(held, d, streams)
    BY <1>4 DEF ConfigInv
  <1>9. ASSUME held # Nothing, held.frame.event = "Start", NEW d,
               d = DeviceOf[held.frame.session]
        PROVE  \/ BroughtBy(received', d, streams) \/ BroughtBy(outbound', d, streams)
               \/ Brings(held, d, streams)
    BY <1>4, <1>9 DEF ConfigInv
  <1> QED
    BY <1>0, <1>5, <1>7, <1>8, <1>9 DEF ConfigInv

\* send_loop builds: a first START looks its capabilities up.
LEMMA TakeConfig ==
  ASSUME TypeOK, StreamInv, StoredInv, ConfigInv, Take
  PROVE  ConfigInv'
  <1> DEFINE h == Head(bus)
  <1>0. /\ UNCHANGED <<pc, streams, outbound, received>> /\ held = Nothing
        /\ bus # <<>> /\ pc = "streaming"
    BY TakeBuilds DEF client
  <1>1. h \in Frame /\ h.session \in Session /\ task[h.session] # "idle"
    <2>1. bus \in Seq(Frame) /\ 1 \in DOMAIN bus /\ h = bus[1] /\ h \in Frame
      BY <1>0, TypeParts, TailElements DEF BusType
    <2> QED
      BY <2>1 DEF StoredInv, Frame
  <1>2. device_configs[DeviceOf[h.session]] # Nothing
    BY <1>1 DEF StoredInv
  <1>3. held'.frame = h /\ held'.stream = streams
    BY TakeBuilds
  <1>4. ASSUME NEW d, d = DeviceOf[h.session]
        PROVE  /\ h.event = "Start" /\ d \notin config_sent => Brings(held', d, streams)
               /\ config_sent' \subseteq config_sent \cup {d}
               /\ h.event # "Start" => config_sent' = config_sent
    <2>1. /\ held'.config = IF h.event = "Start" /\ d \notin config_sent
                            THEN device_configs[d] ELSE Nothing
          /\ config_sent' = IF h.event = "Start" /\ d \notin config_sent
                            THEN config_sent \cup {d} ELSE config_sent
      BY <1>4, TakeBuilds
    <2> QED
      BY <1>2, <1>3, <1>4, <2>1 DEF Brings
  <1>5. held' # Nothing
    BY TakeBuilds, NothingAssumption
  <1> HIDE DEF h
  <1>6. ASSUME NEW d \in config_sent'
        PROVE  \/ BroughtBy(received, d, streams) \/ BroughtBy(outbound, d, streams)
               \/ Brings(held', d, streams)
    <2>1. CASE d \in config_sent
      BY <1>0, <2>1 DEF ConfigInv
    <2>2. CASE d \notin config_sent
      <3>1. d = DeviceOf[h.session] /\ h.event = "Start"
        BY <1>4, <1>6, <2>2
      <3> QED
        BY <1>4, <2>2, <3>1
    <2> QED
      BY <2>1, <2>2
  <1>7. ASSUME held'.frame.event = "Start", NEW d, d = DeviceOf[held'.frame.session]
        PROVE  \/ BroughtBy(received, d, streams) \/ BroughtBy(outbound, d, streams)
               \/ Brings(held', d, streams)
    <2>1. d = DeviceOf[h.session] /\ h.event = "Start"
      BY <1>3, <1>7
    <2>2. CASE d \in config_sent
      BY <1>0, <2>2 DEF ConfigInv
    <2> QED
      BY <1>4, <2>1, <2>2
  <1> QED
    BY <1>0, <1>5, <1>6, <1>7 DEF ConfigInv, ConfigOnFirstStart

\* send_loop hands over what it has built.
LEMMA HandOverConfig ==
  ASSUME TypeOK, StreamInv, ConfigInv, HandOver
  PROVE  ConfigInv'
  <1> DEFINE l == Len(outbound)
  <1>0. /\ UNCHANGED <<pc, streams, config_sent, received>> /\ held # Nothing /\ held' = Nothing
        /\ held.stream = streams
    BY HandOverMoves DEF client, HandOver, StreamInv
  <1>1. /\ l \in Nat /\ outbound' = Append(outbound, held) /\ DOMAIN outbound = 1..l
        /\ DOMAIN outbound' = 1..(l + 1) /\ outbound'[l + 1] = held
        /\ \A i \in 1..l : outbound'[i] = outbound[i]
        /\ outbound \in Seq(Message) /\ held \in Message
    <2>1. outbound \in Seq(Message) /\ held \in Message /\ outbound' = Append(outbound, held)
      BY HandOverMoves
    <2> QED
      BY <2>1, AppendElements
  <1>2. \A d, n : BroughtBy(outbound', d, n) <=> BroughtBy(outbound, d, n) \/ Brings(held, d, n)
    BY <1>1, BroughtAppend
  <1> HIDE DEF l
  <1>3. pc = "streaming" => \A d \in config_sent :
          BroughtBy(received, d, streams) \/ BroughtBy(outbound', d, streams)
    BY <1>2 DEF ConfigInv
  <1>4. ASSUME NEW j \in DOMAIN outbound', outbound'[j].frame.event = "Start", NEW d,
               d = DeviceOf[outbound'[j].frame.session]
        PROVE \/ BroughtBy(received, d, streams)
              \/ \E i \in 1..j : Brings(outbound'[i], d, streams)
    <2>1. CASE j \in 1..l
      <3>1. outbound'[j] = outbound[j] /\ j \in DOMAIN outbound
              /\ \A i \in 1..j : outbound'[i] = outbound[i]
        BY <1>1, <2>1
      <3> QED
        BY <1>4, <3>1 DEF ConfigInv
    <2>2. CASE j = l + 1
      <3>1. \/ BroughtBy(received, d, streams) \/ BroughtBy(outbound, d, streams)
            \/ Brings(held, d, streams)
        BY <1>0, <1>1, <1>4, <2>2 DEF ConfigInv
      <3>2. BroughtBy(outbound', d, streams) => \E i \in 1..j : Brings(outbound'[i], d, streams)
        BY <1>1, <2>2 DEF BroughtBy
      <3> QED
        BY <1>2, <3>1, <3>2
    <2> QED
      BY <1>1, <2>1, <2>2
  <1> QED
    BY <1>0, <1>3, <1>4 DEF ConfigInv, ConfigOnFirstStart

LEMMA NextConfig ==
  ASSUME TypeOK, StreamInv, StoredInv, ConfigInv, [Next]_vars
  PROVE  ConfigInv'
  <1>1. ASSUME NEW t \in Session, StartTask(t) \/ Speak(t) \/ HangUp(t) \/ Enqueue(t)
        PROVE ConfigInv'
    <2>1. UNCHANGED <<pc, streams, held, outbound, config_sent, received>>
      BY <1>1, CaptureSteps DEF StartTask, Capture, Enqueue, client, sending
    <2> QED
      BY <2>1 DEF ConfigInv, ConfigOnFirstStart
  <1>2. CASE StartAttempt \/ Drain \/ Moving \/ UNCHANGED vars
    <2>1. UNCHANGED <<streams, held, outbound, config_sent, received>>
            /\ (pc' = "streaming" => pc = "streaming")
      BY <1>2, MovingLeaves DEF StartAttempt, Drain, vars, client, sending
    <2> QED
      BY <2>1 DEF ConfigInv, ConfigOnFirstStart
  <1>3. CASE OpenStream \/ AttemptFails \/ ObserveCancel
    <2>1. held' = Nothing /\ outbound' = <<>> /\ received' = received
            /\ (pc' = "streaming" => config_sent' = {})
      BY <1>3 DEF OpenStream, AttemptFails, ObserveCancel
    <2> QED
      BY <2>1 DEF ConfigInv, ConfigOnFirstStart
  <1> QED
    BY <1>1, <1>2, <1>3, TakeConfig, HandOverConfig, ServerReadsConfig, NextSteps

-----------------------------------------------------------------------------
LEMMA InitBus ==
  ASSUME Init
  PROVE  BusInv
  <1> USE DEF Init
  <1>1. ClientType
    <2>1. backoff \in InitialBackoff..MaxBackoff /\ streams \in 0..MaxStreams
      BY Constants
    <2>2. pc \in Place
      BY DEF Place
    <2>3. cancelled \in BOOLEAN /\ established \in BOOLEAN /\ grpc_connected \in BOOLEAN
            /\ ai_status \in BOOLEAN
      OBVIOUS
    <2> QED
      BY <2>1, <2>2, <2>3, Zenon DEF ClientType
  <1>2. SenderType /\ BusType
    <2>1. 0 \in 0..(SequenceRange - 1) /\ 0 <= SessionCapacity /\ 0 <= BusCapacity
      BY Constants
    <2> QED
      BY <2>1 DEF SenderType, BusType
  <1>3. TaskType
    <2>1. \A s \in Session : 0 <= MaxFrames[s]
      BY Constants
    <2> QED
      BY <2>1 DEF TaskType
  <1>4. SortedInv
    BY DEF SortedInv, SortedMessages, Sorted
  <1>5. FlowInv
    <2>1. ASSUME NEW s \in Session PROVE Path(s) = {} /\ OfStream(s) = {}
      BY <2>1, NoNumbers DEF Path, OnTheBus, Arrived, Sending, Built, Queued, Waiting, OfStream
    <2> QED
      BY <2>1 DEF FlowInv, StagesInOrder, LatestWaits, Gapless, Older, Path, OnTheBus
  <1>6. ArrivedGapless /\ StreamInv /\ QueuedInv /\ StoredInv /\ ConfigInv
    <2>1. ArrivedGapless
      BY DEF ArrivedGapless, GaplessMessages
    <2>2. StreamInv
      BY DEF StreamInv
    <2>3. QueuedInv
      BY DEF QueuedInv, DrainedWithItsStream
    <2>4. StoredInv
      BY DEF StoredInv
    <2>5. ConfigInv
      BY DEF ConfigInv, ConfigOnFirstStart
    <2> QED
      BY <2>1, <2>2, <2>3, <2>4, <2>5
  <1> QED
    BY <1>1, <1>2, <1>3, <1>4, <1>5, <1>6, TypeParts DEF BusInv

LEMMA NextBus ==
  ASSUME BusInv, [Next]_vars
  PROVE  BusInv'
  <1> USE DEF BusInv
  <1>1. TypeOK'
    <2>1. ClientType' /\ SenderType' /\ BusType' /\ TaskType'
      BY NextClientType, NextSenderType, NextBusType, NextTaskType
    <2> QED
      BY <2>1, TypeParts, PTL
  <1>2. SortedInv' /\ FlowInv' /\ ArrivedGapless' /\ StreamInv' /\ QueuedInv' /\ StoredInv'
          /\ ConfigInv'
    BY NextSorted, NextFlow, NextArrived, NextStream, NextQueued, NextStored, NextConfig
  <1> QED
    BY <1>1, <1>2

\* What every reachable state of the audio path satisfies.
THEOREM BusHolds == Spec => []BusInv
  <1>1. Init => BusInv
    BY InitBus
  <1>2. BusInv /\ [Next]_vars => BusInv'
    BY NextBus
  <1> QED
    BY <1>1, <1>2, PTL DEF Spec

\* The variables of the audio path keep their types; in particular neither
\* channel grows beyond its capacity.
THEOREM TypeCorrect == Spec => []TypeOK
  <1>1. BusInv => TypeOK
    BY DEF BusInv
  <1> QED
    BY <1>1, BusHolds, PTL

\* grpc.rs:224-273, 403-411.  The AI server gets the frames of a session in the
\* order they were captured and none twice, and within a stream without a gap,
\* for any number of sessions, reconnects and slots: what send_loop, the drain
\* and a broken stream drop is dropped between streams.
THEOREM FramesInOrder == Spec => []InOrderOnce
  <1>1. BusInv => InOrderOnce
    <2> SUFFICES ASSUME BusInv, NEW i \in DOMAIN received, NEW j \in DOMAIN received,
                        Consecutive(i, j)
                 PROVE  /\ received[i].frame.number < received[j].frame.number
                        /\ received[i].stream = received[j].stream =>
                             received[j].frame.number = received[i].frame.number + 1
      BY DEF InOrderOnce
    <2>1. i < j /\ SameSession(received[i], received[j])
      BY DEF Consecutive
    <2>2. received[i].frame.number < received[j].frame.number
      BY <2>1 DEF BusInv, SortedInv, SortedMessages
    <2>3. ASSUME received[i].stream = received[j].stream
          PROVE  received[j].frame.number = received[i].frame.number + 1
      <3>1. PICK k \in (i + 1)..j :
               /\ SameSession(received[i], received[k])
               /\ received[k].frame.number = received[i].frame.number + 1
        BY <2>1, <2>3 DEF BusInv, ArrivedGapless, GaplessMessages, NextFollows
      <3>2. received \in Seq(Message)
        BY TypeParts DEF BusInv, SenderType
      <3>3. i \in Nat /\ j \in Nat
        BY <3>2
      <3>4. k = j
        BY <3>1, <3>3 DEF Consecutive
      <3> QED
        BY <3>1, <3>4
    <2> QED
      BY <2>2, <2>3
  <1> QED
    BY <1>1, BusHolds, PTL

\* grpc.rs:235-243.  On every stream the first START of a device brings its
\* capabilities, however often the stream was reconnected.
THEOREM ConfigComesFirst == Spec => []ConfigOnFirstStart
  <1>1. BusInv => ConfigOnFirstStart
    BY DEF BusInv, ConfigInv
  <1> QED
    BY <1>1, BusHolds, PTL

\* grpc.rs:403-411.  No frame that was queued under one stream is sent on a
\* later one, although the device tasks fill the bus while it is drained.
THEOREM DrainedBetweenStreams == Spec => []DrainedWithItsStream
  <1>1. BusInv => DrainedWithItsStream
    BY DEF BusInv, QueuedInv
  <1> QED
    BY <1>1, BusHolds, PTL

=============================================================================
