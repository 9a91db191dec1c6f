--------------------------- MODULE ServerLifecycle ---------------------------
(***************************************************************************)
(* The AI server's process: main() and the lifecycle manager (memory and   *)
(* its migrations, models, MQTT, gRPC, monitor, and the way back), the     *)
(* MQTT connection it shares with paho's network thread, the work that is  *)
(* in flight when the server stops, and crashes.                           *)
(*                                                                         *)
(* main() is sequential: a signal only sets an event, so that start and    *)
(* stop never overlap.  What runs beside it is paho's thread, the tasks    *)
(* that the thread's messages start on the event loop, and gRPC calls.     *)
(* A topic is its place in the order of registration.                      *)
(***************************************************************************)
EXTENDS Naturals, FiniteSets

CONSTANTS
    Topics,      \* number of topics the handlers register
    Attempts,    \* retry_attempts of MQTTConnectionManager.connect
    Migrations,  \* number of migrations on disk
    Statements,  \* statements of each
    MaxDrops,    \* bound: times the broker or the network goes away
    MaxCrashes,  \* bound: crashes of the process
    MaxWork      \* bound: messages and calls in flight, each

ASSUME LifecycleAssumption ==
    /\ {Topics, Attempts, Statements} \subseteq Nat \ {0}
    /\ {Migrations, MaxDrops, MaxCrashes, MaxWork} \subseteq Nat

VARIABLES
    at,        \* where main() stands
    tries,     \* connection attempts so far; the topic start() is at
    mqtt,      \* [connected, running]: the two flags of the service's own
    paho,      \* the client and its network thread
    models,    \* [pending, ready, loaded]
    server,    \* [built, memory, grpc, monitor, tasks, calls, orphans]
    shutdown,  \* the signal handler's event
    failed,    \* history: a stage of stop_server raised
    db,        \* durable: [version, applied], what the database file holds
    applied,   \* statements of the open transaction
    drops, crashes

vars == <<at, tries, mqtt, paho, models, server, shutdown, failed, db, applied,
          drops, crashes>>

Models == {"LLM", "STT", "TTS", "Vision"}

\* Inside NailaAIServer(), before there is a server that could be stopped.
Building == {"opening", "migrating", "building"}
Starting == Building \cup {"loading", "connecting", "settling", "subscribing",
             "sending", "binding", "monitoring", "publishing"}
StopStages == {"announcing", "stop_monitor", "stop_grpc", "stop_mqtt", "unload"}
Stopping == {"emergency_grpc", "emergency_mqtt", "close"} \cup StopStages

PahoBoot   == [thread |-> FALSE, link |-> "down", flag |-> FALSE,
               subs |-> 0, sweep |-> 0, broker |-> {}]
MqttBoot   == [connected |-> FALSE, running |-> FALSE]
ModelsBoot == [pending |-> Models, ready |-> {}, loaded |-> FALSE]
ServerBoot == [built |-> FALSE, memory |-> "none", grpc |-> FALSE, monitor |-> FALSE,
               tasks |-> 0, calls |-> 0, orphans |-> 0]

TypeOK ==
    /\ at \in Starting \cup Stopping \cup {"serving", "exited"}
    /\ tries \in 0 .. Attempts + Topics
    /\ mqtt \in [connected : BOOLEAN, running : BOOLEAN]
    /\ paho \in [thread : BOOLEAN, link : {"down", "pending", "up"},
                 flag : BOOLEAN, subs : 0 .. Topics, sweep : 0 .. Topics + 1,
                 broker : SUBSET (1 .. Topics)]
    /\ models \in [pending : SUBSET Models, ready : SUBSET Models, loaded : BOOLEAN]
    /\ server \in [built : BOOLEAN, memory : {"none", "open", "closed"},
                   grpc : BOOLEAN, monitor : BOOLEAN, tasks : 0 .. MaxWork,
                   calls : 0 .. MaxWork, orphans : 0 .. MaxWork]
    /\ {shutdown, failed} \subseteq BOOLEAN
    /\ db \in [version : 0 .. Migrations, applied : 0 .. Migrations * Statements]
    /\ applied \in 0 .. Statements
    /\ drops \in 0 .. MaxDrops /\ crashes \in 0 .. MaxCrashes

Init ==
    /\ at = "opening" /\ tries = 0
    /\ mqtt = MqttBoot /\ paho = PahoBoot /\ models = ModelsBoot
    /\ server = ServerBoot
    /\ shutdown = FALSE /\ failed = FALSE
    /\ db = [version |-> 0, applied |-> 0] /\ applied = 0
    /\ drops = 0 /\ crashes = 0

environment == <<drops, crashes>>
durable     == <<db, applied>>
\* What a step of main() that only moves on leaves alone.
rest == <<mqtt, paho, models, server, shutdown, failed, durable, environment>>

----------------------------------------------------------------------------
\* NailaAIServer(): the database and its migrations, then the rest of it.

\* open_connection.
OpenMemory ==
    /\ at = "opening"
    /\ server' = [server EXCEPT !.memory = "open"]
    /\ at' = "migrating"
    /\ UNCHANGED <<tries, mqtt, paho, models, shutdown, failed, durable, environment>>

\* Mutation: executescript would commit statement by statement.
ApplyStatementAutocommit ==
    /\ at = "migrating" /\ db.version < Migrations /\ applied < Statements
    /\ applied' = applied + 1
    /\ db' = [db EXCEPT !.applied = @ + 1]
    /\ UNCHANGED <<at, tries, mqtt, paho, models, server, shutdown, failed, environment>>

\* One statement of the pending migration, in the open transaction.
ApplyStatement ==
    /\ at = "migrating" /\ db.version < Migrations /\ applied < Statements
    /\ applied' = applied + 1
    /\ UNCHANGED <<at, tries, mqtt, paho, models, server, shutdown, failed, db, environment>>

\* PRAGMA user_version and COMMIT.
CommitMigration ==
    /\ at = "migrating" /\ db.version < Migrations /\ applied = Statements
    /\ db' = [version |-> db.version + 1, applied |-> db.applied + applied]
    /\ applied' = 0
    /\ UNCHANGED <<at, tries, mqtt, paho, models, server, shutdown, failed, environment>>

MigrationsDone ==
    /\ at = "migrating" /\ db.version = Migrations
    /\ at' = "building"
    /\ UNCHANGED <<tries, rest>>

\* Something in it raises (a migration after its ROLLBACK, the configuration of
\* gRPC): main() has no server to stop, and a connection that was opened to the
\* database is left as it is.
ConstructorFails ==
    /\ at \in Building
    /\ applied' = 0
    /\ at' = "exited"
    /\ UNCHANGED <<tries, mqtt, paho, models, server, shutdown, failed, db, environment>>

ServerBuilt ==
    /\ at = "building"
    /\ server' = [server EXCEPT !.built = TRUE]
    /\ at' = "loading"
    /\ UNCHANGED <<tries, mqtt, paho, models, shutdown, failed, durable, environment>>

----------------------------------------------------------------------------
\* Models: load_models, all four in parallel.

\* BaseAIService.load_model turns every failure into False.
LoadModel(m) ==
    /\ at = "loading" /\ m \in models.pending
    /\ \E S \in {models.ready, models.ready \cup {m}} :
         models' = [models EXCEPT !.pending = @ \ {m}, !.ready = S]
    /\ UNCHANGED <<at, tries, mqtt, paho, server, shutdown, failed, durable, environment>>

\* The gather is done; services are wired, handlers registered.
ModelsLoaded ==
    /\ at = "loading" /\ models.pending = {}
    /\ models' = [models EXCEPT !.loaded = "LLM" \in models.ready]
    /\ at' = "connecting" /\ tries' = 0
    /\ UNCHANGED <<mqtt, paho, server, shutdown, failed, durable, environment>>

----------------------------------------------------------------------------
\* The MQTT connection, main()'s side.

\* client.connect(): the TCP connection is made and the network thread runs;
\* the broker has not answered yet.
ConnectSucceeds ==
    /\ at = "connecting"
    /\ paho' = [paho EXCEPT !.thread = TRUE, !.link = "pending"]
    /\ mqtt' = [mqtt EXCEPT !.connected = TRUE]
    /\ at' = "settling" /\ tries' = 0
    /\ UNCHANGED <<models, server, shutdown, failed, durable, environment>>

\* The next try waits 1, 2, 4, 8 seconds; the last one's failure is raised.
ConnectFails ==
    /\ at = "connecting"
    /\ tries' = tries + 1
    /\ at' = IF tries + 1 < Attempts THEN at ELSE "emergency_grpc"
    /\ UNCHANGED rest

Settled ==
    /\ at = "settling"
    /\ at' = "subscribing"
    /\ UNCHANGED <<tries, rest>>

\* subscribe(), its two halves: the topic is listed ...
ListTopic ==
    /\ at = "subscribing" /\ tries < Topics
    /\ paho' = [paho EXCEPT !.subs = tries + 1]
    /\ at' = "sending" /\ tries' = tries + 1
    /\ UNCHANGED <<mqtt, models, server, shutdown, failed, durable, environment>>

\* ... and then, if the client is connected, sent.
Sent(k) == IF paho.flag /\ paho.link = "up" THEN paho.broker \cup {k} ELSE paho.broker

SendTopic ==
    /\ at = "sending"
    /\ paho' = [paho EXCEPT !.broker = Sent(tries)]
    /\ at' = "subscribing"
    /\ UNCHANGED <<tries, mqtt, models, server, shutdown, failed, durable, environment>>

Subscribed ==
    /\ at = "subscribing" /\ tries = Topics
    /\ mqtt' = [mqtt EXCEPT !.running = TRUE]
    /\ at' = "binding" /\ tries' = 0
    /\ UNCHANGED <<paho, models, server, shutdown, failed, durable, environment>>

----------------------------------------------------------------------------
\* paho's network thread and the broker.

Paho(act) ==
    /\ at # "exited"
    /\ paho' = act
    /\ UNCHANGED <<at, tries, mqtt, models, server, shutdown, failed, durable, crashes>>

\* Mutation: a connection is taken to remember its subscriptions.
OnConnectWithoutSweep ==
    /\ paho.thread /\ paho.link = "pending"
    /\ Paho([paho EXCEPT !.link = "up", !.flag = TRUE])
    /\ UNCHANGED drops

\* CONNACK: _on_connect starts to go through the list of subscriptions.
OnConnect ==
    /\ paho.thread /\ paho.link = "pending"
    /\ Paho([paho EXCEPT !.link = "up", !.flag = TRUE, !.sweep = 1])
    /\ UNCHANGED drops

\* The broker refuses the connection; the thread tries again later.
Refused ==
    /\ paho.thread /\ paho.link = "pending" /\ drops < MaxDrops
    /\ Paho([paho EXCEPT !.link = "down"])
    /\ drops' = drops + 1

\* One turn of its loop over the list, which may grow meanwhile.
Resubscribe ==
    /\ paho.thread /\ paho.sweep > 0
    /\ Paho(IF paho.sweep <= paho.subs
            THEN [paho EXCEPT !.sweep = @ + 1, !.broker = Sent(paho.sweep)]
            ELSE [paho EXCEPT !.sweep = 0])
    /\ UNCHANGED drops

\* The link goes, and with a clean session all the broker knew.
LinkLost ==
    /\ paho.link = "up" /\ drops < MaxDrops
    /\ Paho([paho EXCEPT !.link = "down", !.broker = {}])
    /\ drops' = drops + 1

\* _on_disconnect.
OnDisconnect ==
    /\ paho.thread /\ paho.link = "down" /\ paho.flag /\ paho.sweep = 0
    /\ Paho([paho EXCEPT !.flag = FALSE])
    /\ UNCHANGED drops

\* The thread reconnects by itself.
Reconnect ==
    /\ paho.thread /\ paho.link = "down" /\ ~paho.flag
    /\ Paho([paho EXCEPT !.link = "pending"])
    /\ UNCHANGED drops

\* A message of a subscribed topic becomes a task on the event loop.
MessageArrives ==
    /\ paho.thread /\ paho.link = "up" /\ paho.broker # {} /\ paho.sweep = 0
    /\ at # "exited" /\ server.tasks < MaxWork
    /\ server' = [server EXCEPT !.tasks = @ + 1]
    /\ UNCHANGED <<at, tries, mqtt, paho, models, shutdown, failed, durable, environment>>

----------------------------------------------------------------------------
\* gRPC, the main loop, and what is in flight.

GrpcStarted ==
    /\ at = "binding"
    /\ server' = [server EXCEPT !.grpc = TRUE]
    /\ at' = "monitoring"
    /\ UNCHANGED <<tries, mqtt, paho, models, shutdown, failed, durable, environment>>

MonitorStarted ==
    /\ at = "monitoring"
    /\ server' = [server EXCEPT !.monitor = TRUE]
    /\ at' = "publishing"
    /\ UNCHANGED <<tries, mqtt, paho, models, shutdown, failed, durable, environment>>

StatusPublished ==
    /\ at = "publishing"
    /\ at' = "serving"
    /\ UNCHANGED <<tries, rest>>

\* Wiring the services, binding the port, the monitor or publishing the status
\* raises, the last two with gRPC up.
StartFails ==
    /\ at \in {"loading", "binding", "monitoring", "publishing"}
    /\ at' = "emergency_grpc"
    /\ UNCHANGED <<tries, rest>>

CallArrives ==
    /\ server.grpc /\ at \notin {"stop_grpc", "emergency_grpc"}
    /\ server.calls < MaxWork
    /\ server' = [server EXCEPT !.calls = @ + 1]
    /\ UNCHANGED <<at, tries, mqtt, paho, models, shutdown, failed, durable, environment>>

\* A clip of a call is cancelled where its orchestration, a task of its own, is
\* not cancelled with it.
OrchestrationDetached ==
    /\ at # "exited" /\ server.calls > 0 /\ server.orphans < MaxWork
    /\ server' = [server EXCEPT !.orphans = @ + 1]
    /\ UNCHANGED <<at, tries, mqtt, paho, models, shutdown, failed, durable, environment>>

\* A task, a call or what a call left behind ends; until then it may commit to
\* the memory.
WorkEnds ==
    /\ at # "exited"
    /\ \/ server.tasks > 0 /\ server' = [server EXCEPT !.tasks = @ - 1]
       \/ server.calls > 0 /\ server' = [server EXCEPT !.calls = @ - 1]
       \/ server.orphans > 0 /\ server' = [server EXCEPT !.orphans = @ - 1]
    /\ UNCHANGED <<at, tries, mqtt, paho, models, shutdown, failed, durable, environment>>

Signal ==
    /\ at \notin Building \cup {"exited"} /\ ~shutdown
    /\ shutdown' = TRUE
    /\ UNCHANGED <<at, tries, mqtt, paho, models, server, failed, durable, environment>>

\* Mutation: the signal sets an event that the main loop does not wait for.
LeaveMainLoopOnOwnEvent == FALSE /\ UNCHANGED vars

\* The event is the signal handler's: main.py:30.
LeaveMainLoop ==
    /\ at = "serving" /\ shutdown
    /\ at' = "announcing"
    /\ UNCHANGED <<tries, rest>>

----------------------------------------------------------------------------
\* The way back: _emergency_shutdown, then main()'s finally: stop_server.

Least(m, n) == IF m < n THEN m ELSE n

Goto(from, to, newServer, newMqtt, newPaho, newModels) ==
    /\ at = from /\ at' = to
    /\ server' = newServer /\ mqtt' = newMqtt /\ paho' = newPaho
    /\ models' = newModels
    /\ UNCHANGED <<tries, shutdown, failed, durable, environment>>

\* Calls in flight have five seconds and are cancelled then, each with its clip.
GrpcStopped ==
    {[server EXCEPT !.grpc = FALSE, !.calls = 0, !.orphans = n] :
        n \in server.orphans .. Least(server.orphans + server.calls, MaxWork)}

\* client.disconnect: the thread is stopped only while paho is connected.
PahoStopped ==
    IF mqtt.running /\ mqtt.connected /\ paho.flag
    THEN [paho EXCEPT !.thread = FALSE, !.link = "down", !.broker = {}]
    ELSE paho
\* NailaMQTTService.stop returns early unless start() came to its end.
MqttStopped == IF mqtt.running THEN MqttBoot ELSE mqtt
\* It raises in the middle.
MqttHalted == [mqtt EXCEPT !.running = FALSE]

\* What either of them raises is suppressed; the service does not count itself as
\* running any more.
EmergencyGrpc ==
    \E after \in GrpcStopped \cup {server} :
        Goto("emergency_grpc", "emergency_mqtt", after, mqtt, paho, models)
EmergencyMqtt ==
    \/ Goto("emergency_mqtt", "announcing", server, MqttStopped, PahoStopped, models)
    \/ Goto("emergency_mqtt", "announcing", server, MqttHalted, paho, models)

Announce    == Goto("announcing", "stop_monitor", server, mqtt, paho, models)
StopMonitor == Goto("stop_monitor", "stop_grpc",
                    [server EXCEPT !.monitor = FALSE], mqtt, paho, models)
StopGrpc    == \E after \in GrpcStopped :
                   Goto("stop_grpc", "stop_mqtt", after, mqtt, paho, models)
StopMqtt    == Goto("stop_mqtt", "unload", server, MqttStopped, PahoStopped, models)

\* unload_models: nothing at all unless the LLM was loaded.
Unloaded == [models EXCEPT !.ready = IF models.loaded THEN {} ELSE @, !.loaded = FALSE]
UnloadModels == Goto("unload", "close", server, mqtt, paho, Unloaded)

\* Mutation: no finally.
StopFailsForGood ==
    /\ at \in StopStages
    /\ at' = "exited" /\ failed' = TRUE
    /\ UNCHANGED <<tries, mqtt, paho, models, server, shutdown, durable, environment>>

\* An exception in a stage of the stop: the rest is skipped, finally is not.
StopFails ==
    /\ at \in StopStages
    /\ at' = "close" /\ failed' = TRUE
    /\ mqtt' = IF at = "stop_mqtt" THEN MqttHalted ELSE mqtt
    /\ UNCHANGED <<tries, paho, models, server, shutdown, durable, environment>>

CloseMemory == Goto("close", "exited", [server EXCEPT !.memory = "closed"],
                    mqtt, paho, models)

\* The process dies and is started again: only the database file is left.
Crash ==
    /\ at # "exited" /\ crashes < MaxCrashes
    /\ at' = "opening" /\ tries' = 0
    /\ mqtt' = MqttBoot /\ paho' = PahoBoot /\ models' = ModelsBoot
    /\ server' = ServerBoot /\ shutdown' = FALSE /\ failed' = FALSE
    /\ applied' = 0
    /\ crashes' = crashes + 1
    /\ UNCHANGED <<db, drops>>

----------------------------------------------------------------------------
Start == OpenMemory \/ ApplyStatement \/ CommitMigration \/ MigrationsDone
         \/ ConstructorFails \/ ServerBuilt
         \/ (\E m \in Models : LoadModel(m)) \/ ModelsLoaded
         \/ ConnectSucceeds \/ ConnectFails \/ Settled \/ ListTopic \/ SendTopic
         \/ Subscribed \/ GrpcStarted \/ MonitorStarted \/ StatusPublished
         \/ StartFails

Stop == LeaveMainLoop \/ EmergencyGrpc \/ EmergencyMqtt \/ Announce \/ StopMonitor
        \/ StopGrpc \/ StopMqtt \/ UnloadModels \/ StopFails \/ CloseMemory

NetworkThread == OnConnect \/ Resubscribe \/ OnDisconnect \/ Reconnect

Next == Start \/ Stop \/ NetworkThread \/ Refused \/ LinkLost \/ MessageArrives
        \/ CallArrives \/ OrchestrationDetached \/ WorkEnds \/ Signal \/ Crash

\* main() and the network thread go on; messages, calls and signals are
\* nobody's duty.
Spec == Init /\ [][Next]_vars /\ WF_vars(Start) /\ WF_vars(Stop) /\ WF_vars(NetworkThread)

----------------------------------------------------------------------------
\* A migration is applied as a whole and with its version or not at all,
\* whatever statement the process dies at.
SchemaIsVersions == db.applied = db.version * Statements

\* No topic is forgotten between main(), which lists a topic and then looks
\* whether the client is connected, and the network thread, which sets that flag
\* and then goes through the list: with the connection up and both at rest the
\* broker knows every topic listed, also after a reconnect.
NoTopicForgotten ==
    paho.link = "up" /\ paho.flag /\ paho.sweep = 0 /\ at # "sending"
        => paho.broker = 1 .. paho.subs

\* lifecycle.py:303-305: on every way out of a server that was built, an
\* emergency and a failing stage of the stop included, the store is closed, and
\* unless a stage of stop_server raised, after gRPC with all its calls, the MQTT
\* service and the monitor.  (A constructor that raises leaves it open; tasks of
\* messages and detached orchestrations are awaited by nobody and may outlive it.)
MemoryClosedLast ==
    /\ at = "exited" /\ server.built => server.memory = "closed"
    /\ server.memory = "closed" /\ ~failed =>
          server.calls = 0 /\ ~server.grpc /\ ~server.monitor /\ ~mqtt.running

\* A signal ends the process from wherever the start is, also with no broker.
SignalEnds == shutdown ~> (at = "exited" \/ ~shutdown)

=============================================================================
