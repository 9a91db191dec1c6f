----------------------------- MODULE HubSession -----------------------------
(***************************************************************************)
(* The life of a device session in the hub: the POST /connect handler      *)
(* (hub/src/http.rs, negotiate_session), the device task it spawns         *)
(* (hub/src/device.rs, run_device) and the maps they share: device_tasks,  *)
(* AudioBus.tts_sub and AudioBus.device_configs.                           *)
(*                                                                         *)
(* A session is one POST /connect.  It stands for everything that call     *)
(* makes: its conversation id, its CancellationToken and its TTS channel.  *)
(* The runtime is multi-threaded, so every await and every access to a     *)
(* shared map is a step of its own; the map operations themselves are      *)
(* atomic (DashMap locks one shard per call).                              *)
(*                                                                         *)
(* The audio bus is here only as a bounded queue: how full it is decides   *)
(* when a device task is stuck inside send_frames, deaf to its token.      *)
(* Which frames are in it is the business of AudioBus and VadRelay.        *)
(***************************************************************************)
EXTENDS Naturals

CONSTANTS
  Session,      \* the POST /connect requests of a run
  Device,       \* device ids
  DeviceOf,     \* the device_id each request names
  NoSession,    \* absence of an entry in a map
  BusCapacity,  \* slots of the audio bus (256, hub/src/main.rs)
  TtsCapacity   \* slots of a device's TTS channel (32, hub/src/device.rs)

ASSUME SessionAssumption ==
  /\ DeviceOf \in [Session -> Device]
  /\ NoSession \notin Session

ASSUME CapacityAssumption ==
  /\ BusCapacity \in Nat \ {0}
  /\ TtsCapacity \in Nat \ {0}

VARIABLES
  pc,              \* where each session's handler or task is
  cancelled,       \* the sessions whose CancellationToken is cancelled
  device_tasks,    \* AppState.device_tasks: the registered session of a device
  device_configs,  \* AudioBus.device_configs: whose capabilities are stored
  tts_sub,         \* AudioBus.tts_sub: the session holding the device's Sender
  tts_rx,          \* frames waiting in each session's TTS channel
  bus,             \* frames waiting in the audio bus
  bus_open,        \* the gRPC client still owns the bus receiver
  hub              \* "up", "stopping" after ctrl-c, "exited"

vars == <<pc, cancelled, device_tasks, device_configs, tts_sub, tts_rx,
          bus, bus_open, hub>>

Stage == {"idle", "negotiating", "registered", "spawned", "running",
          "forwarding", "ending", "notified", "cleanup", "unsubscribe",
          "deregister", "done", "failed"}

TypeOK ==
  /\ pc \in [Session -> Stage]
  /\ cancelled \subseteq Session
  /\ device_tasks \in [Device -> Session \cup {NoSession}]
  /\ device_configs \in [Device -> Session \cup {NoSession}]
  /\ tts_sub \in [Device -> Session \cup {NoSession}]
  /\ tts_rx \in [Session -> 0..TtsCapacity]
  /\ bus \in 0..BusCapacity
  /\ bus_open \in BOOLEAN
  /\ hub \in {"up", "stopping", "exited"}

Init ==
  /\ pc = [s \in Session |-> "idle"]
  /\ cancelled = {}
  /\ device_tasks = [d \in Device |-> NoSession]
  /\ device_configs = [d \in Device |-> NoSession]
  /\ tts_sub = [d \in Device |-> NoSession]
  /\ tts_rx = [s \in Session |-> 0]
  /\ bus = 0
  /\ bus_open = TRUE
  /\ hub = "up"

-----------------------------------------------------------------------------
(* Where a session can be.                                                 *)

\* The POST /connect handler of s has not returned.
InHandler(s) == pc[s] \in {"negotiating", "registered"}

\* s is registered, or was, and its task has not yet reached its own
\* device_cancel.cancel() (device.rs:162).
Uncleaned(s) ==
  pc[s] \in {"registered", "spawned", "running", "forwarding", "ending",
             "notified"}

\* s has a device task, spawned and not returned.
HasTask(s) ==
  pc[s] \in {"spawned", "running", "forwarding", "ending", "notified",
             "cleanup", "unsubscribe", "deregister"}

\* A session that nobody has told to stop.
Live(s) == Uncleaned(s) /\ s \notin cancelled

\* The session's TTS Sender sits in tts_sub; it is the only Sender, so when
\* the entry is replaced or removed the receiver sees the channel closed.
Subscribed(s) == tts_sub[DeviceOf[s]] = s

Goto(s, stage) == pc' = [pc EXCEPT ![s] = stage]

-----------------------------------------------------------------------------
(* negotiate_session.                                                      *)

\* http.rs:155-170.  Reconnect dedup comes first: the entry is removed and
\* its token cancelled.  The new token is registered much later.
ConnectBegin(s) ==
  /\ hub = "up"
  /\ pc[s] = "idle"
  /\ LET d == DeviceOf[s] IN
       /\ cancelled' = cancelled \cup ({device_tasks[d]} \ {NoSession})
       /\ device_tasks' = [device_tasks EXCEPT ![d] = NoSession]
  /\ Goto(s, "negotiating")
  /\ UNCHANGED <<device_configs, tts_sub, tts_rx, bus, bus_open, hub>>

\* http.rs:172-296.  Any `?` on the way returns Err, and a client that goes
\* away drops the handler's future: nothing was registered.
NegotiateFail(s) ==
  /\ pc[s] = "negotiating"
  /\ Goto(s, "failed")
  /\ UNCHANGED <<cancelled, device_tasks, device_configs, tts_sub, tts_rx,
                 bus, bus_open, hub>>

\* http.rs:298-302.  insert overwrites whatever is there.
Register(s) ==
  /\ pc[s] = "negotiating"
  /\ device_tasks' = [device_tasks EXCEPT ![DeviceOf[s]] = s]
  /\ Goto(s, "registered")
  /\ UNCHANGED <<cancelled, device_configs, tts_sub, tts_rx, bus, bus_open,
                 hub>>

\* Mutant of StoreConfigAndSpawn: entry().or_insert() keeps the first
\* capabilities a device ever announced.
StoreFirstConfigAndSpawn(s) ==
  /\ pc[s] = "registered"
  /\ device_configs' = [device_configs EXCEPT
                           ![DeviceOf[s]] = IF @ = NoSession THEN s ELSE @]
  /\ Goto(s, "spawned")
  /\ UNCHANGED <<cancelled, device_tasks, tts_sub, tts_rx, bus, bus_open, hub>>

\* http.rs:305-333.  Stores the capabilities and spawns the device task.
StoreConfigAndSpawn(s) ==
  /\ pc[s] = "registered"
  /\ device_configs' = [device_configs EXCEPT ![DeviceOf[s]] = s]
  /\ Goto(s, "spawned")
  /\ UNCHANGED <<cancelled, device_tasks, tts_sub, tts_rx, bus, bus_open, hub>>

\* http.rs:248-267.  The peer connection fails or closes at any time.
PeerClosed(s) ==
  /\ InHandler(s) \/ HasTask(s)
  /\ cancelled' = cancelled \cup {s}
  /\ UNCHANGED <<pc, device_tasks, device_configs, tts_sub, tts_rx, bus,
                 bus_open, hub>>

-----------------------------------------------------------------------------
(* run_device.                                                             *)

\* device.rs:44-55.  The first thing the task does; insert drops the Sender
\* of whoever was subscribed.
Subscribe(s) ==
  /\ pc[s] = "spawned"
  /\ tts_sub' = [tts_sub EXCEPT ![DeviceOf[s]] = s]
  /\ Goto(s, "running")
  /\ UNCHANGED <<cancelled, device_tasks, device_configs, tts_rx, bus,
                 bus_open, hub>>

\* device.rs:61-98.  A mic frame the VAD lets through: the task enters
\* send_frames and stays there until the bus has room.
Forward(s) ==
  /\ pc[s] = "running"
  /\ Goto(s, "forwarding")
  /\ UNCHANGED <<cancelled, device_tasks, device_configs, tts_sub, tts_rx,
                 bus, bus_open, hub>>

\* device.rs:181-206 (and 144-157): bus.audio_tx.send(..).await returns when
\* there is a slot, or with an error once the receiver is gone.
BusAccepts == bus_open /\ bus < BusCapacity

SendFrame(s) ==
  /\ pc[s] = "forwarding"
  /\ \/ /\ BusAccepts
        /\ bus' = bus + 1
        /\ Goto(s, "running")
     \/ /\ ~bus_open
        /\ Goto(s, "ending")
        /\ UNCHANGED bus
  /\ UNCHANGED <<cancelled, device_tasks, device_configs, tts_sub, tts_rx,
                 bus_open, hub>>

\* device.rs:102-125.  One TTS frame to the peer; a send error or the two
\* second timeout ends the session.
PlayTts(s) ==
  /\ pc[s] = "running"
  /\ tts_rx[s] > 0
  /\ tts_rx' = [tts_rx EXCEPT ![s] = @ - 1]
  /\ \E next \in {"running", "ending"} : Goto(s, next)
  /\ UNCHANGED <<cancelled, device_tasks, device_configs, tts_sub, bus,
                 bus_open, hub>>

\* device.rs:129-132.  The channel yields None only after its last frame.
TtsChannelClosed(s) ==
  /\ pc[s] = "running"
  /\ ~Subscribed(s)
  /\ tts_rx[s] = 0
  /\ Goto(s, "ending")
  /\ UNCHANGED <<cancelled, device_tasks, device_configs, tts_sub, tts_rx,
                 bus, bus_open, hub>>

\* device.rs:63-69.  transport.recv() returns None.
TransportEnded(s) ==
  /\ pc[s] = "running"
  /\ Goto(s, "ending")
  /\ UNCHANGED <<cancelled, device_tasks, device_configs, tts_sub, tts_rx,
                 bus, bus_open, hub>>

\* Mutant of ObserveCancel: the loop waits on the hub's token, not its own.
ObserveHubCancel(s) ==
  /\ pc[s] = "running"
  /\ hub = "stopping"
  /\ Goto(s, "ending")
  /\ UNCHANGED <<cancelled, device_tasks, device_configs, tts_sub, tts_rx,
                 bus, bus_open, hub>>

\* device.rs:136-140.
ObserveCancel(s) ==
  /\ pc[s] = "running"
  /\ s \in cancelled
  /\ Goto(s, "ending")
  /\ UNCHANGED <<cancelled, device_tasks, device_configs, tts_sub, tts_rx,
                 bus, bus_open, hub>>

\* device.rs:144-157.  The closing END frame waits for the bus like any other.
NotifyEnd(s) ==
  /\ pc[s] = "ending"
  /\ \/ BusAccepts /\ bus' = bus + 1
     \/ ~bus_open /\ UNCHANGED bus
  /\ Goto(s, "notified")
  /\ UNCHANGED <<cancelled, device_tasks, device_configs, tts_sub, tts_rx,
                 bus_open, hub>>

\* Mutant of CancelOwnToken: a session that ends by itself keeps its token.
CancelOwnTokenSkipped(s) ==
  /\ pc[s] = "notified"
  /\ Goto(s, "cleanup")
  /\ UNCHANGED <<cancelled, device_tasks, device_configs, tts_sub, tts_rx, bus,
                 bus_open, hub>>

\* device.rs:159-162.
CancelOwnToken(s) ==
  /\ pc[s] = "notified"
  /\ cancelled' = cancelled \cup {s}
  /\ Goto(s, "cleanup")
  /\ UNCHANGED <<device_tasks, device_configs, tts_sub, tts_rx, bus, bus_open,
                 hub>>

\* Mutant of CheckOwner: map_or(false, ..), no entry means nothing to clean.
CheckOwnerIfPresent(s) ==
  /\ pc[s] = "cleanup"
  /\ LET entry == device_tasks[DeviceOf[s]] IN
       Goto(s, IF entry \in cancelled THEN "unsubscribe" ELSE "deregister")
  /\ UNCHANGED <<cancelled, device_tasks, device_configs, tts_sub, tts_rx,
                 bus, bus_open, hub>>

\* device.rs:167-170.  The answer is used after the shard lock is released.
CheckOwner(s) ==
  /\ pc[s] = "cleanup"
  /\ LET entry == device_tasks[DeviceOf[s]] IN
       Goto(s, IF entry = NoSession \/ entry \in cancelled
                 THEN "unsubscribe" ELSE "deregister")
  /\ UNCHANGED <<cancelled, device_tasks, device_configs, tts_sub, tts_rx,
                 bus, bus_open, hub>>

\* device.rs:171.  Removes the entry of the device, whoever it belongs to.
Unsubscribe(s) ==
  /\ pc[s] = "unsubscribe"
  /\ tts_sub' = [tts_sub EXCEPT ![DeviceOf[s]] = NoSession]
  /\ Goto(s, "deregister")
  /\ UNCHANGED <<cancelled, device_tasks, device_configs, tts_rx, bus,
                 bus_open, hub>>

\* Mutant of Deregister: remove() in place of remove_if().
DeregisterUnconditionally(s) ==
  /\ pc[s] = "deregister"
  /\ device_tasks' = [device_tasks EXCEPT ![DeviceOf[s]] = NoSession]
  /\ tts_rx' = [tts_rx EXCEPT ![s] = 0]
  /\ Goto(s, "done")
  /\ UNCHANGED <<cancelled, device_configs, tts_sub, bus, bus_open, hub>>

\* device.rs:173.  remove_if: the entry goes if its token is cancelled.  The
\* task returns and its receiver is dropped with the frames in it.
Deregister(s) ==
  /\ pc[s] = "deregister"
  /\ LET d == DeviceOf[s] IN
       device_tasks' = [device_tasks EXCEPT
                          ![d] = IF @ \in cancelled THEN NoSession ELSE @]
  /\ tts_rx' = [tts_rx EXCEPT ![s] = 0]
  /\ Goto(s, "done")
  /\ UNCHANGED <<cancelled, device_configs, tts_sub, bus, bus_open, hub>>

-----------------------------------------------------------------------------
(* The gRPC client and the process around the sessions.                    *)

\* grpc.rs:362-390, recv_loop.  try_send never waits: a full channel, a
\* dropped receiver and a missing subscriber all lose the frame.
RouteTts(d) ==
  /\ bus_open
  /\ LET s == tts_sub[d] IN
       /\ s # NoSession
       /\ pc[s] # "done"
       /\ tts_rx[s] < TtsCapacity
       /\ tts_rx' = [tts_rx EXCEPT ![s] = @ + 1]
  /\ UNCHANGED <<pc, cancelled, device_tasks, device_configs, tts_sub, bus,
                 bus_open, hub>>

\* grpc.rs:226-233 takes one frame from the bus, grpc.rs:403-411 all of them.
TakeFromBus ==
  /\ bus_open
  /\ bus > 0
  /\ \E left \in {bus - 1, 0} : bus' = left
  /\ UNCHANGED <<pc, cancelled, device_tasks, device_configs, tts_sub, tts_rx,
                 bus_open, hub>>

\* main.rs:73-82.  Cancels the tokens that are registered at this moment.
CtrlC ==
  /\ hub = "up"
  /\ hub' = "stopping"
  /\ cancelled' = cancelled \cup ({device_tasks[d] : d \in Device} \ {NoSession})
  /\ UNCHANGED <<pc, device_tasks, device_configs, tts_sub, tts_rx, bus,
                 bus_open>>

\* grpc.rs:71-74, 89-95: run_grpc_client returns and drops the bus receiver.
GrpcClientReturns ==
  /\ hub = "stopping"
  /\ bus_open
  /\ bus_open' = FALSE
  /\ bus' = 0
  /\ UNCHANGED <<pc, cancelled, device_tasks, device_configs, tts_sub, tts_rx,
                 hub>>

\* main.rs:84-95.  After the join or three seconds the process is gone, with
\* the sessions wherever they are.
Exit ==
  /\ hub = "stopping"
  /\ hub' = "exited"
  /\ UNCHANGED <<pc, cancelled, device_tasks, device_configs, tts_sub, tts_rx,
                 bus, bus_open>>

-----------------------------------------------------------------------------
Handler(s) ==
  \/ ConnectBegin(s)
  \/ NegotiateFail(s)
  \/ Register(s)
  \/ StoreConfigAndSpawn(s)

DeviceTask(s) ==
  \/ Subscribe(s)
  \/ Forward(s)
  \/ SendFrame(s)
  \/ PlayTts(s)
  \/ TtsChannelClosed(s)
  \/ TransportEnded(s)
  \/ ObserveCancel(s)
  \/ NotifyEnd(s)
  \/ CancelOwnToken(s)
  \/ CheckOwner(s)
  \/ Unsubscribe(s)
  \/ Deregister(s)

Process ==
  \/ \E d \in Device : RouteTts(d)
  \/ TakeFromBus
  \/ CtrlC
  \/ GrpcClientReturns
  \/ Exit

Next ==
  /\ hub # "exited"
  /\ \/ \E s \in Session : Handler(s) \/ PeerClosed(s) \/ DeviceTask(s)
     \/ Process

Spec == Init /\ [][Next]_vars

\* A device whose client sends one POST /connect at a time and waits for the
\* answer.  The hub does not enforce it.
OneHandlerPerDevice ==
  \A s, t \in Session :
    s # t /\ InHandler(s) /\ InHandler(t) => DeviceOf[s] # DeviceOf[t]

SerialNext == Next /\ OneHandlerPerDevice'

SerialSpec == Init /\ [][SerialNext]_vars

\* tokio polls every task that can run; select! picks among its ready
\* branches at random, so a branch that is ready again and again is taken; a
\* bounded channel hands out its slots in the order of the waiting senders.
\* Neither the device nor the operator is obliged to do anything.
StraightLine(s) ==
  \/ StoreConfigAndSpawn(s)
  \/ Subscribe(s)
  \/ CancelOwnToken(s)
  \/ CheckOwner(s)
  \/ Unsubscribe(s)
  \/ Deregister(s)

Running(A) == hub # "exited" /\ A

TaskFairness(s) ==
  /\ WF_vars(Running(StraightLine(s)))
  /\ SF_vars(Running(SendFrame(s) \/ NotifyEnd(s)))
  /\ SF_vars(Running(PlayTts(s) \/ TtsChannelClosed(s)))
  /\ SF_vars(Running(ObserveCancel(s)))

\* The gRPC client keeps taking frames: while connected it sends them, and
\* every failed attempt to connect drains them (see AudioBus).
FairSpec ==
  /\ Spec
  /\ \A s \in Session : TaskFairness(s)
  /\ WF_vars(Running(TakeFromBus))

-----------------------------------------------------------------------------
(* Safety with no assumption on the devices.                               *)

\* An entry of device_tasks never outlives the session it names: negotiation
\* that fails leaves none behind (http.rs:298-299) and a task that returns
\* has taken its own away (device.rs:159-173), whatever other sessions of
\* the device did meanwhile.
NoStaleRegistration ==
  \A d \in Device :
    device_tasks[d] # NoSession =>
      LET s == device_tasks[d] IN
        /\ DeviceOf[s] = d
        /\ pc[s] = "registered" \/ HasTask(s)

\* A task of device d that has yet to decide whether to remove the entry of
\* tts_sub, or has decided to.
WillUnsubscribe(s, d) ==
  /\ DeviceOf[s] = d
  /\ Uncleaned(s) \/ pc[s] \in {"cleanup", "unsubscribe"}

\* No Sender is left in tts_sub for good: as long as the device has an
\* entry, some task of that device is still going to look at it.  This is
\* what "leave tts_sub alone" (device.rs:164-166) has to be safe against: the
\* task that leaves it relies on a later one.
NoAbandonedSubscription ==
  \A d \in Device :
    tts_sub[d] # NoSession => \E s \in Session : WillUnsubscribe(s, d)

-----------------------------------------------------------------------------
(* Safety when each device connects serially.                              *)

\* A session nobody told to stop is the one device_tasks knows, so reconnect
\* dedup and shutdown can reach it (http.rs:71-73, main.rs:78-81).
LiveIsRegistered ==
  \A s \in Session : Live(s) => device_tasks[DeviceOf[s]] = s

\* At most one session of a device is live (http.rs:71-73).
OneLiveSession ==
  \A s, t \in Session :
    Live(s) /\ Live(t) /\ DeviceOf[s] = DeviceOf[t] => s = t

\* The capabilities put in SessionConfig (grpc.rs:279-294) are those the live
\* session announced, not those of a predecessor.
ConfigOfLiveSession ==
  \A s \in Session :
    Live(s) /\ HasTask(s) => device_configs[DeviceOf[s]] = s

-----------------------------------------------------------------------------
(* Liveness, unless the process exits first.                               *)

\* A session that is told to stop (reconnect, peer failure, ctrl-c) finishes
\* its cleanup, even if it was stuck in front of a full bus when told; one that
\* lost its subscription to another session of the device does not linger
\* without TTS: it plays what it has and ends (device.rs:129-132).
ToldToEnd(s) ==
  \/ s \in cancelled /\ HasTask(s)
  \/ pc[s] = "running" /\ ~Subscribed(s)

SessionEnds ==
  \A s \in Session : ToldToEnd(s) ~> pc[s] = "done" \/ hub = "exited"

=============================================================================
