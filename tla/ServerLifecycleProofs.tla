------------------------ MODULE ServerLifecycleProofs ------------------------
(***************************************************************************)
(* What holds of the server's process for any number of migrations and     *)
(* statements, topics and connection attempts, broken links and crashes    *)
(* and, in the second half, of the turns that run in it, which are there   *)
(* as the instance Turn.                                                   *)
(***************************************************************************)
EXTENDS ServerLifecycle, ExchangeMemory, FiniteSetTheorems, SequenceTheorems, TLAPS

\* How far the counter of main() gets in the two loops it is used for.
TriesInv ==
    /\ at \in Building \cup {"loading"} => tries = 0
    /\ at = "connecting" => tries < Attempts
    /\ at \in {"settling", "subscribing", "sending"} => tries <= Topics

\* What the network thread, main() and the broker know of one another.
LinkInv ==
    /\ at \in Building \cup {"loading", "connecting"} => paho = PahoBoot
    /\ at = "settling" => tries = 0 /\ paho.subs = 0
    /\ at \in {"subscribing", "sending"} => paho.subs = tries
    /\ at = "sending" => tries > 0
    /\ paho.link = "up" => paho.flag
    /\ paho.link = "pending" => ~paho.flag
    /\ ~paho.flag => paho.sweep = 0
    /\ paho.link # "up" => paho.broker = {}

\* A topic the broker does not know is one that main() is about to send or that
\* the network thread's loop over the list has still before it.
Coming(i) ==
    \/ paho.sweep > 0 /\ i >= paho.sweep
    \/ at = "sending" /\ i = tries

TopicsInv ==
    /\ paho.broker \subseteq 1 .. paho.subs
    /\ paho.link = "up" =>
          \A i \in 1 .. paho.subs : i \in paho.broker \/ Coming(i)

\* Who is there to close the memory, at which stage ...
OwnerInv ==
    /\ at \in Building => server.memory # "closed" /\ ~server.built
    /\ at \in {"migrating", "building"} => server.memory = "open"
    /\ at \notin Building \cup {"exited"} => server.memory = "open" /\ server.built
    /\ at = "exited" /\ server.built => server.memory = "closed"

\* ... and what is down by then.
StopInv ==
    /\ server.memory = "closed" => at = "exited"
    /\ at \in {"stop_grpc", "stop_mqtt", "unload", "close"} /\ ~failed => ~server.monitor
    /\ at \in {"stop_mqtt", "unload", "close"} /\ ~failed
          => server.calls = 0 /\ ~server.grpc
    /\ at \in {"unload", "close"} /\ ~failed => ~mqtt.running
    /\ server.memory = "closed" /\ ~failed =>
          ~server.monitor /\ server.calls = 0 /\ ~server.grpc /\ ~mqtt.running

LifecycleInv ==
    /\ TypeOK
    /\ SchemaIsVersions
    /\ TriesInv
    /\ LinkInv
    /\ TopicsInv
    /\ OwnerInv
    /\ StopInv

-----------------------------------------------------------------------------
(* The parts of the state, and what the steps of Next leave alone.         *)

MqttSet == [connected : BOOLEAN, running : BOOLEAN]
PahoSet == [thread : BOOLEAN, link : {"down", "pending", "up"},
            flag : BOOLEAN, subs : 0 .. Topics, sweep : 0 .. Topics + 1,
            broker : SUBSET (1 .. Topics)]
ModelsSet == [pending : SUBSET Models, ready : SUBSET Models, loaded : BOOLEAN]
ServerSet == [built : BOOLEAN, memory : {"none", "open", "closed"},
              grpc : BOOLEAN, monitor : BOOLEAN, tasks : 0 .. MaxWork,
              calls : 0 .. MaxWork, orphans : 0 .. MaxWork]

MainType ==
    /\ at \in Starting \cup Stopping \cup {"serving", "exited"}
    /\ tries \in 0 .. Attempts + Topics
    /\ applied \in 0 .. Statements

FlagsType ==
    /\ mqtt \in MqttSet
    /\ shutdown \in BOOLEAN /\ failed \in BOOLEAN
    /\ drops \in 0 .. MaxDrops /\ crashes \in 0 .. MaxCrashes

PahoType == paho \in PahoSet
ModelsType == models \in ModelsSet
ServerType == server \in ServerSet

DatabaseType ==
    db \in [version : 0 .. Migrations, applied : 0 .. Migrations * Statements]

LEMMA TypeParts ==
    TypeOK <=> /\ MainType /\ FlagsType /\ PahoType
               /\ ModelsType /\ ServerType /\ DatabaseType
  BY DEF TypeOK, MainType, FlagsType, PahoType, ModelsType, ServerType, DatabaseType,
    MqttSet, PahoSet, ModelsSet, ServerSet

\* What main() does while it starts ...
Booting == OpenMemory \/ ApplyStatement \/ CommitMigration \/ MigrationsDone
           \/ ConstructorFails \/ ServerBuilt
Loading == ModelsLoaded \/ \E m \in Models : LoadModel(m)
Dialling == ConnectSucceeds \/ ConnectFails \/ Settled
Subscribing == ListTopic \/ SendTopic \/ Subscribed
Binding == GrpcStarted \/ MonitorStarted \/ StatusPublished \/ StartFails
\* ... and when it stops; and what runs beside it.
Leaving == LeaveMainLoop \/ EmergencyGrpc \/ EmergencyMqtt \/ Announce \/ StopMonitor
Closing == StopGrpc \/ StopMqtt \/ UnloadModels \/ StopFails \/ CloseMemory
Network == OnConnect \/ Resubscribe \/ OnDisconnect \/ Reconnect \/ Refused \/ LinkLost
Working == MessageArrives \/ CallArrives \/ OrchestrationDetached \/ WorkEnds \/ Signal

LEMMA NextGroups ==
    ASSUME [Next]_vars
    PROVE  \/ Booting \/ Loading \/ Dialling \/ Subscribing \/ Binding
           \/ Leaving \/ Closing \/ Network \/ Working \/ Crash \/ UNCHANGED vars
  BY DEF Next, Start, Stop, NetworkThread, Booting, Loading, Dialling, Subscribing,
    Binding, Leaving, Closing, Network, Working

LEMMA BootingLeaves ==
    ASSUME Booting
    PROVE  UNCHANGED <<mqtt, paho, models, shutdown, failed, drops, crashes>>
  BY DEF Booting, OpenMemory, ApplyStatement, CommitMigration, MigrationsDone,
    ConstructorFails, ServerBuilt, rest, durable, environment

LEMMA LoadingLeaves ==
    ASSUME Loading
    PROVE  UNCHANGED <<mqtt, paho, server, shutdown, failed, db, applied, drops, crashes>>
  BY DEF Loading, ModelsLoaded, LoadModel, durable, environment

LEMMA DiallingLeaves ==
    ASSUME Dialling
    PROVE  UNCHANGED <<models, server, shutdown, failed, db, applied, drops, crashes>>
  BY DEF Dialling, ConnectSucceeds, ConnectFails, Settled, rest, durable, environment

LEMMA SubscribingLeaves ==
    ASSUME Subscribing
    PROVE  UNCHANGED <<models, server, shutdown, failed, db, applied, drops, crashes>>
  BY DEF Subscribing, ListTopic, SendTopic, Subscribed, durable, environment

LEMMA BindingLeaves ==
    ASSUME Binding
    PROVE  UNCHANGED <<tries, mqtt, paho, models, shutdown, failed, db, applied,
                       drops, crashes>>
  BY DEF Binding, GrpcStarted, MonitorStarted, StatusPublished, StartFails, rest,
    durable, environment

LEMMA LeavingLeaves ==
    ASSUME Leaving
    PROVE  UNCHANGED <<tries, models, shutdown, failed, db, applied, drops, crashes>>
  BY DEF Leaving, LeaveMainLoop, EmergencyGrpc, EmergencyMqtt, Announce, StopMonitor,
    Goto, rest, durable, environment

LEMMA ClosingLeaves ==
    ASSUME Closing
    PROVE  UNCHANGED <<tries, shutdown, db, applied, drops, crashes>>
  BY DEF Closing, StopGrpc, StopMqtt, UnloadModels, StopFails, CloseMemory, Goto,
    durable, environment

LEMMA NetworkLeaves ==
    ASSUME Network
    PROVE  UNCHANGED <<at, tries, mqtt, models, server, shutdown, failed, db, applied,
                       crashes>>
  BY DEF Network, OnConnect, Resubscribe, OnDisconnect, Reconnect, Refused, LinkLost,
    Paho, durable

LEMMA WorkingLeaves ==
    ASSUME Working
    PROVE  UNCHANGED <<at, tries, mqtt, paho, models, failed, db, applied, drops, crashes>>
  BY DEF Working, MessageArrives, CallArrives, OrchestrationDetached, WorkEnds, Signal,
    durable, environment

-----------------------------------------------------------------------------
(* The database.                                                           *)

LEMMA VersionBound ==
    ASSUME NEW v \in 0 .. Migrations
    PROVE  v * Statements \in 0 .. Migrations * Statements
  <1>1. Migrations \in Nat /\ Statements \in Nat /\ v \in Nat /\ v <= Migrations
    BY LifecycleAssumption
  <1>2. v * Statements \in Nat /\ Migrations * Statements \in Nat
    BY <1>1
  <1>3. v * Statements <= Migrations * Statements
    BY <1>1
  <1> QED
    BY <1>2, <1>3

\* Only the commit writes to the file, and it writes a migration with its number.
LEMMA NextSchema ==
    ASSUME TypeOK, SchemaIsVersions, [Next]_vars
    PROVE  SchemaIsVersions' /\ DatabaseType'
  <1> USE LifecycleAssumption DEF SchemaIsVersions, DatabaseType
  <1>0. DatabaseType
    BY TypeParts
  <1>1. CASE CommitMigration
    <2>1. db'.version = db.version + 1 /\ db'.applied = db.applied + Statements
      BY <1>1 DEF CommitMigration
    <2>2. db'.version \in 0 .. Migrations
      BY <1>0, <1>1, <2>1 DEF CommitMigration
    <2>3. (db.version + 1) * Statements = db.version * Statements + Statements
      BY <1>0
    <2>4. db'.applied = db'.version * Statements
      BY <2>1, <2>3
    <2>5. db' = [version |-> db'.version, applied |-> db'.applied]
      BY <1>1 DEF CommitMigration
    <2> QED
      BY <2>2, <2>4, <2>5, VersionBound
  <1>2. Booting /\ ~CommitMigration => db' = db
    BY DEF Booting, OpenMemory, ApplyStatement, MigrationsDone, ConstructorFails,
      ServerBuilt, rest, durable
  <1>3. [Next]_vars /\ ~Booting => db' = db
    BY NextGroups, LoadingLeaves, DiallingLeaves, SubscribingLeaves, BindingLeaves,
      LeavingLeaves, ClosingLeaves, NetworkLeaves, WorkingLeaves DEF Crash, vars
  <1> QED
    BY <1>0, <1>1, <1>2, <1>3

-----------------------------------------------------------------------------
(* Types.                                                                  *)

LEMMA Constants ==
    /\ Topics \in Nat /\ Attempts \in Nat /\ Statements \in Nat /\ Migrations \in Nat
    /\ Topics > 0 /\ Attempts > 0 /\ Statements > 0
    /\ MaxDrops \in Nat /\ MaxCrashes \in Nat /\ MaxWork \in Nat
  BY LifecycleAssumption

LEMMA LoadLeaves ==
    ASSUME NEW m \in Models, LoadModel(m)
    PROVE  UNCHANGED <<at, tries>>
  BY DEF LoadModel

LEMMA NextMain ==
    ASSUME TypeOK, TriesInv, [Next]_vars
    PROVE  MainType' /\ TriesInv'
  <1> USE Constants DEF MainType, TriesInv, Building, Starting, Stopping, StopStages,
        rest, durable, environment
  <1> MainType
    BY TypeParts
  <1>1. CASE Booting
    <2>1. CASE ApplyStatement
      BY <2>1 DEF ApplyStatement
    <2>2. CASE CommitMigration
      BY <2>2 DEF CommitMigration
    <2>3. CASE OpenMemory \/ MigrationsDone \/ ServerBuilt
      BY <2>3 DEF OpenMemory, MigrationsDone, ServerBuilt
    <2>4. CASE ConstructorFails
      BY <2>4 DEF ConstructorFails
    <2> QED
      BY <1>1, <2>1, <2>2, <2>3, <2>4 DEF Booting
  <1>2. CASE Loading
    <2>1. CASE ModelsLoaded
      BY <2>1 DEF ModelsLoaded
    <2>2. CASE UNCHANGED <<at, tries>>
      BY <1>2, <2>2, LoadingLeaves
    <2> QED
      BY <1>2, <2>1, <2>2, LoadLeaves DEF Loading
  <1>3. CASE Dialling
    <2>1. CASE ConnectSucceeds
      BY <2>1 DEF ConnectSucceeds
    <2>2. CASE ConnectFails
      BY <2>2 DEF ConnectFails
    <2>3. CASE Settled
      BY <2>3 DEF Settled
    <2> QED
      BY <1>3, <2>1, <2>2, <2>3 DEF Dialling
  <1>4. CASE Subscribing
    <2>1. CASE ListTopic
      BY <2>1 DEF ListTopic
    <2>2. CASE SendTopic
      BY <2>2 DEF SendTopic
    <2>3. CASE Subscribed
      BY <2>3 DEF Subscribed
    <2> QED
      BY <1>4, <2>1, <2>2, <2>3 DEF Subscribing
  <1>5. CASE Binding
    <2>1. at' \in {"monitoring", "publishing", "serving", "emergency_grpc"}
      BY <1>5 DEF Binding, GrpcStarted, MonitorStarted, StatusPublished, StartFails
    <2> QED
      BY <1>5, <2>1, BindingLeaves
  <1>6. CASE Leaving
    <2>1. at' \in {"announcing", "emergency_mqtt", "stop_monitor", "stop_grpc"}
      BY <1>6 DEF Leaving, LeaveMainLoop, EmergencyGrpc, EmergencyMqtt, Announce,
        StopMonitor, Goto
    <2> QED
      BY <1>6, <2>1, LeavingLeaves
  <1>7. CASE Closing
    <2>1. at' \in {"stop_mqtt", "unload", "close", "exited"}
      BY <1>7 DEF Closing, StopGrpc, StopMqtt, UnloadModels, StopFails,
        CloseMemory, Goto
    <2> QED
      BY <1>7, <2>1, ClosingLeaves
  <1>8. CASE Network \/ Working \/ UNCHANGED vars
    BY <1>8, NetworkLeaves, WorkingLeaves DEF vars
  <1>9. CASE Crash
    <2>1. at' = "opening" /\ tries' = 0 /\ applied' = 0
      BY <1>9 DEF Crash
    <2> QED
      BY <2>1
  <1> QED
    BY <1>1, <1>2, <1>3, <1>4, <1>5, <1>6, <1>7, <1>8, <1>9, NextGroups

LEMMA BootTypes ==
    MqttBoot \in MqttSet /\ ModelsBoot \in ModelsSet /\ ServerBoot \in ServerSet
  <1>1. MqttBoot \in MqttSet
    BY DEF MqttBoot, MqttSet
  <1>2. ModelsBoot \in ModelsSet
    BY DEF ModelsBoot, ModelsSet
  <1>3. ServerBoot \in ServerSet
    <2>1. 0 \in 0 .. MaxWork
      BY Constants
    <2> QED
      BY <2>1 DEF ServerBoot, ServerSet
  <1> QED
    BY <1>1, <1>2, <1>3

\* Records keep their type field by field.
LEMMA ModelsUpdate ==
    ASSUME NEW r \in ModelsSet
    PROVE  /\ \A S \in SUBSET Models : [r EXCEPT !.pending = S] \in ModelsSet
           /\ \A S \in SUBSET Models : [r EXCEPT !.ready = S] \in ModelsSet
           /\ \A b \in BOOLEAN : [r EXCEPT !.loaded = b] \in ModelsSet
  BY DEF ModelsSet

LEMMA MqttUpdate ==
    ASSUME NEW r \in MqttSet
    PROVE  /\ [r EXCEPT !.connected = TRUE] \in MqttSet
           /\ [r EXCEPT !.running = TRUE] \in MqttSet
           /\ [r EXCEPT !.running = FALSE] \in MqttSet
  BY DEF MqttSet

LEMMA DropsSteps ==
    ASSUME Network
    PROVE  drops' = drops \/ (drops < MaxDrops /\ drops' = drops + 1)
  <1>1. ASSUME OnConnect \/ Resubscribe \/ OnDisconnect \/ Reconnect
        PROVE  drops' = drops
    BY <1>1 DEF OnConnect, Resubscribe, OnDisconnect, Reconnect
  <1>2. ASSUME Refused \/ LinkLost
        PROVE  drops < MaxDrops /\ drops' = drops + 1
    BY <1>2 DEF Refused, LinkLost
  <1> QED
    BY <1>1, <1>2 DEF Network

LEMMA ServerUpdate ==
    ASSUME NEW r \in ServerSet, NEW b \in BOOLEAN, NEW n \in 0 .. MaxWork
    PROVE  /\ [r EXCEPT !.grpc = b] \in ServerSet /\ [r EXCEPT !.monitor = b] \in ServerSet
           /\ [r EXCEPT !.tasks = n] \in ServerSet /\ [r EXCEPT !.calls = n] \in ServerSet
           /\ [r EXCEPT !.orphans = n] \in ServerSet /\ [r EXCEPT !.built = b] \in ServerSet
           /\ [r EXCEPT !.memory = "open"] \in ServerSet
           /\ [r EXCEPT !.memory = "closed"] \in ServerSet
  BY DEF ServerSet

LEMMA NextFlags ==
    ASSUME TypeOK, [Next]_vars
    PROVE  FlagsType'
  <1> USE Constants DEF FlagsType
  <1> FlagsType
    BY TypeParts
  <1>1. CASE Booting \/ Loading \/ Binding \/ UNCHANGED vars
    BY <1>1, BootingLeaves, LoadingLeaves, BindingLeaves DEF vars
  <1>2. CASE Dialling
    <2>1. mqtt' = mqtt \/ mqtt' = [mqtt EXCEPT !.connected = TRUE]
      BY <1>2 DEF Dialling, ConnectSucceeds, ConnectFails, Settled, rest
    <2> QED
      BY <1>2, <2>1, DiallingLeaves, MqttUpdate
  <1>3. CASE Subscribing
    <2>1. mqtt' = mqtt \/ mqtt' = [mqtt EXCEPT !.running = TRUE]
      BY <1>3 DEF Subscribing, ListTopic, SendTopic, Subscribed
    <2> QED
      BY <1>3, <2>1, SubscribingLeaves, MqttUpdate
  <1>4. CASE Leaving
    <2>1. mqtt' = mqtt \/ mqtt' = MqttStopped \/ mqtt' = MqttHalted
      BY <1>4 DEF Leaving, LeaveMainLoop, EmergencyGrpc, EmergencyMqtt, Announce,
        StopMonitor, Goto, rest
    <2>2. mqtt' \in MqttSet
      BY <2>1, BootTypes, MqttUpdate DEF MqttStopped, MqttHalted
    <2> QED
      BY <1>4, <2>2, LeavingLeaves
  <1>5. CASE Closing
    <2>1. mqtt' = mqtt \/ mqtt' = MqttStopped \/ mqtt' = MqttHalted
      BY <1>5 DEF Closing, StopGrpc, StopMqtt, UnloadModels, StopFails, CloseMemory, Goto
    <2>2. failed' = failed \/ failed' = TRUE
      BY <1>5 DEF Closing, StopGrpc, StopMqtt, UnloadModels, StopFails, CloseMemory, Goto
    <2>3. mqtt' \in MqttSet /\ failed' \in BOOLEAN
      BY <2>1, <2>2, BootTypes, MqttUpdate DEF MqttStopped, MqttHalted
    <2> QED
      BY <1>5, <2>3, ClosingLeaves
  <1>6. CASE Network
    <2>1. drops' = drops \/ (drops < MaxDrops /\ drops' = drops + 1)
      BY <1>6, DropsSteps
    <2>2. drops' \in 0 .. MaxDrops
      BY <2>1
    <2> QED
      BY <1>6, <2>2, NetworkLeaves
  <1>7. CASE Working
    <2>1. shutdown' = shutdown \/ shutdown' = TRUE
      BY <1>7 DEF Working, MessageArrives, CallArrives, OrchestrationDetached, WorkEnds,
        Signal
    <2> QED
      BY <1>7, <2>1, WorkingLeaves
  <1>8. CASE Crash
    <2>1. crashes' \in 0 .. MaxCrashes
      BY <1>8 DEF Crash
    <2>2. mqtt' \in MqttSet
      BY <1>8, BootTypes DEF Crash
    <2>3. shutdown' \in BOOLEAN /\ failed' \in BOOLEAN /\ drops' = drops
      BY <1>8 DEF Crash
    <2> QED
      BY <2>1, <2>2, <2>3
  <1> QED
    BY <1>1, <1>2, <1>3, <1>4, <1>5, <1>6, <1>7, <1>8, NextGroups

LEMMA NextModels ==
    ASSUME TypeOK, [Next]_vars
    PROVE  ModelsType'
  <1> USE DEF ModelsType
  <1> ModelsType
    BY TypeParts
  <1>1. CASE Loading
    <2>1. CASE ModelsLoaded
      <3> DEFINE b == "LLM" \in models.ready
      <3>1. models' = [models EXCEPT !.loaded = b]
        BY <2>1 DEF ModelsLoaded
      <3>2. b \in BOOLEAN
        OBVIOUS
      <3> HIDE DEF b
      <3> QED
        BY <3>1, <3>2, ModelsUpdate
    <2>2. ASSUME NEW m \in Models, LoadModel(m) PROVE ModelsType'
      <3>1. PICK S \in {models.ready, models.ready \cup {m}} :
               models' = [models EXCEPT !.pending = @ \ {m}, !.ready = S]
        BY <2>2 DEF LoadModel
      <3>2. models.pending \ {m} \in SUBSET Models /\ S \in SUBSET Models
        BY DEF ModelsSet
      <3>3. models' = [[models EXCEPT !.pending = models.pending \ {m}] EXCEPT !.ready = S]
        BY <3>1 DEF ModelsSet
      <3>4. [models EXCEPT !.pending = models.pending \ {m}] \in ModelsSet
        BY <3>2, ModelsUpdate
      <3> QED
        BY <3>2, <3>3, <3>4, ModelsUpdate
    <2> QED
      BY <1>1, <2>1, <2>2 DEF Loading
  <1>2. CASE Closing
    <2>1. models' = models \/ models' = Unloaded
      BY <1>2 DEF Closing, StopGrpc, StopMqtt, UnloadModels, StopFails, CloseMemory, Goto
    <2>2. models.ready \in SUBSET Models
      BY DEF ModelsSet
    <2>3. Unloaded \in ModelsSet
      BY <2>2, ModelsUpdate DEF Unloaded
    <2> QED
      BY <2>1, <2>3
  <1>3. CASE Crash
    BY <1>3, BootTypes DEF Crash
  <1>4. [Next]_vars /\ ~Loading /\ ~Closing /\ ~Crash => models' = models
    BY NextGroups, BootingLeaves, DiallingLeaves, SubscribingLeaves, BindingLeaves,
      LeavingLeaves, NetworkLeaves, WorkingLeaves DEF vars
  <1> QED
    BY <1>1, <1>2, <1>3, <1>4

LEMMA NextServer ==
    ASSUME TypeOK, [Next]_vars
    PROVE  ServerType'
  <1> USE DEF ServerType
  <1> ServerType
    BY TypeParts
  <1>0. GrpcStopped \subseteq ServerSet
    <2> SUFFICES ASSUME NEW after \in GrpcStopped PROVE after \in ServerSet
      OBVIOUS
    <2>1. PICK n \in server.orphans .. Least(server.orphans + server.calls, MaxWork) :
             after = [server EXCEPT !.grpc = FALSE, !.calls = 0, !.orphans = n]
      BY DEF GrpcStopped
    <2>2. n \in 0 .. MaxWork /\ 0 \in 0 .. MaxWork
      BY Constants DEF Least, ServerSet
    <2> DEFINE a == [server EXCEPT !.grpc = FALSE]
               b == [a EXCEPT !.calls = 0]
    <2>3. after = [b EXCEPT !.orphans = n]
      BY <2>1 DEF ServerSet
    <2>4. a \in ServerSet
      BY <2>2, ServerUpdate
    <2> HIDE DEF a
    <2>5. b \in ServerSet
      BY <2>2, <2>4, ServerUpdate
    <2> HIDE DEF b
    <2> QED
      BY <2>2, <2>3, <2>5, ServerUpdate
  <1>1. CASE Booting
    <2>1. \/ server' = server \/ server' = [server EXCEPT !.memory = "open"]
          \/ server' = [server EXCEPT !.built = TRUE]
      BY <1>1 DEF Booting, OpenMemory, ApplyStatement, CommitMigration, MigrationsDone,
        ConstructorFails, ServerBuilt, rest
    <2> QED
      BY <2>1 DEF ServerSet
  <1>2. CASE Binding
    <2>1. \/ server' = server \/ server' = [server EXCEPT !.grpc = TRUE]
          \/ server' = [server EXCEPT !.monitor = TRUE]
      BY <1>2 DEF Binding, GrpcStarted, MonitorStarted, StatusPublished, StartFails, rest
    <2> QED
      BY <2>1 DEF ServerSet
  <1>3. CASE Leaving
    <2>1. server' = server \/ server' \in GrpcStopped
             \/ server' = [server EXCEPT !.monitor = FALSE]
      BY <1>3 DEF Leaving, LeaveMainLoop, EmergencyGrpc, EmergencyMqtt, Announce,
        StopMonitor, Goto, rest
    <2> QED
      BY <1>0, <2>1 DEF ServerSet
  <1>4. CASE Closing
    <2>1. server' = server \/ server' \in GrpcStopped
             \/ server' = [server EXCEPT !.memory = "closed"]
      BY <1>4 DEF Closing, StopGrpc, StopMqtt, UnloadModels, StopFails, CloseMemory, Goto
    <2> QED
      BY <1>0, <2>1 DEF ServerSet
  <1>5. CASE Working
    <2>1. \/ server' = server
          \/ \E n \in 0 .. MaxWork : \/ server' = [server EXCEPT !.tasks = n]
                                    \/ server' = [server EXCEPT !.calls = n]
                                    \/ server' = [server EXCEPT !.orphans = n]
      <3>1. CASE MessageArrives
        <4>1. server.tasks + 1 \in 0 .. MaxWork
          BY <3>1, Constants DEF MessageArrives, ServerSet
        <4> QED
          BY <3>1, <4>1 DEF MessageArrives
      <3>2. CASE CallArrives
        <4>1. server.calls + 1 \in 0 .. MaxWork
          BY <3>2, Constants DEF CallArrives, ServerSet
        <4> QED
          BY <3>2, <4>1 DEF CallArrives
      <3>3. CASE OrchestrationDetached
        <4>1. server.orphans + 1 \in 0 .. MaxWork
          BY <3>3, Constants DEF OrchestrationDetached, ServerSet
        <4> QED
          BY <3>3, <4>1 DEF OrchestrationDetached
      <3>4. CASE WorkEnds
        <4>1. /\ server.tasks > 0 => server.tasks - 1 \in 0 .. MaxWork
              /\ server.calls > 0 => server.calls - 1 \in 0 .. MaxWork
              /\ server.orphans > 0 => server.orphans - 1 \in 0 .. MaxWork
          BY Constants DEF ServerSet
        <4> QED
          BY <3>4, <4>1 DEF WorkEnds
      <3>5. CASE Signal
        BY <3>5 DEF Signal
      <3> QED
        BY <1>5, <3>1, <3>2, <3>3, <3>4, <3>5 DEF Working
    <2> QED
      BY <2>1, ServerUpdate
  <1>6. CASE Crash
    BY <1>6, BootTypes DEF Crash
  <1>7. CASE Loading \/ Dialling \/ Subscribing \/ Network \/ UNCHANGED vars
    BY <1>7, LoadingLeaves, DiallingLeaves, SubscribingLeaves, NetworkLeaves DEF vars
  <1> QED
    BY <1>1, <1>2, <1>3, <1>4, <1>5, <1>6, <1>7, NextGroups

LEMMA PahoUpdate ==
    ASSUME NEW r \in PahoSet, NEW b \in BOOLEAN
    PROVE  /\ [r EXCEPT !.thread = b] \in PahoSet /\ [r EXCEPT !.flag = b] \in PahoSet
           /\ \A l \in {"down", "pending", "up"} : [r EXCEPT !.link = l] \in PahoSet
           /\ \A n \in 0 .. Topics : [r EXCEPT !.subs = n] \in PahoSet
           /\ \A n \in 0 .. Topics + 1 : [r EXCEPT !.sweep = n] \in PahoSet
           /\ \A S \in SUBSET (1 .. Topics) : [r EXCEPT !.broker = S] \in PahoSet
  BY DEF PahoSet

\* A topic that is sent is one of the topics.
LEMMA SentTopics ==
    ASSUME PahoType, NEW k \in 1 .. Topics
    PROVE  Sent(k) \in SUBSET (1 .. Topics)
  BY DEF PahoType, PahoSet, Sent

LEMMA PahoBootType == PahoBoot \in PahoSet
  <1>1. 0 \in 0 .. Topics /\ 0 \in 0 .. Topics + 1
    BY Constants
  <1> QED
    BY <1>1 DEF PahoBoot, PahoSet

\* The way main() stops the client, whichever stage it is at.
LEMMA PahoStoppedType ==
    ASSUME PahoType
    PROVE  PahoStopped \in PahoSet
  <1> DEFINE p == [paho EXCEPT !.thread = FALSE]
             q == [p EXCEPT !.link = "down"]
  <1>1. p \in PahoSet
    BY PahoUpdate DEF PahoType
  <1>2. q \in PahoSet
    BY <1>1, PahoUpdate
  <1>3. [q EXCEPT !.broker = {}] \in PahoSet
    BY <1>2, PahoUpdate
  <1>4. [paho EXCEPT !.thread = FALSE, !.link = "down", !.broker = {}]
           = [q EXCEPT !.broker = {}]
    BY DEF PahoType, PahoSet
  <1> QED
    BY <1>3, <1>4 DEF PahoStopped, PahoType

LEMMA NextPaho ==
    ASSUME TypeOK, LinkInv, [Next]_vars
    PROVE  PahoType'
  <1> USE DEF PahoType
  <1> PahoType /\ MainType
    BY TypeParts
  <1>1. CASE Dialling
    <2>1. CASE ConnectSucceeds
      <3>1. paho' = [[paho EXCEPT !.thread = TRUE] EXCEPT !.link = "pending"]
        BY <2>1 DEF ConnectSucceeds, PahoSet
      <3>2. [paho EXCEPT !.thread = TRUE] \in PahoSet
        BY PahoUpdate
      <3> QED
        BY <3>1, <3>2, PahoUpdate
    <2>2. CASE ConnectFails \/ Settled
      BY <2>2 DEF ConnectFails, Settled, rest
    <2> QED
      BY <1>1, <2>1, <2>2 DEF Dialling
  <1>2. CASE Subscribing
    <2>1. CASE ListTopic
      <3>1. tries + 1 \in 0 .. Topics
        BY <2>1, Constants DEF ListTopic, MainType
      <3> QED
        BY <2>1, <3>1, PahoUpdate DEF ListTopic
    <2>2. CASE SendTopic
      <3>1. tries \in 1 .. Topics
        <4>1. tries > 0 /\ tries = paho.subs
          BY <2>2 DEF SendTopic, LinkInv
        <4> QED
          BY <4>1, Constants DEF PahoSet
      <3> QED
        BY <2>2, <3>1, SentTopics, PahoUpdate DEF SendTopic
    <2>3. CASE Subscribed
      BY <2>3 DEF Subscribed
    <2> QED
      BY <1>2, <2>1, <2>2, <2>3 DEF Subscribing
  <1>3. CASE Leaving
    <2>1. paho' = paho \/ paho' = PahoStopped
      BY <1>3 DEF Leaving, LeaveMainLoop, EmergencyGrpc, EmergencyMqtt, Announce,
        StopMonitor, Goto, rest
    <2> QED
      BY <2>1, PahoStoppedType
  <1>4. CASE Closing
    <2>1. paho' = paho \/ paho' = PahoStopped
      BY <1>4 DEF Closing, StopGrpc, StopMqtt, UnloadModels, StopFails, CloseMemory, Goto
    <2> QED
      BY <2>1, PahoStoppedType
  <1>5. CASE Network
    <2>1. CASE OnConnect
      <3> DEFINE p == [paho EXCEPT !.link = "up"]
                 q == [p EXCEPT !.flag = TRUE]
      <3>1. paho' = [q EXCEPT !.sweep = 1]
        BY <2>1 DEF OnConnect, Paho, PahoSet
      <3>2. p \in PahoSet
        BY PahoUpdate
      <3> HIDE DEF p
      <3>3. q \in PahoSet
        BY <3>2, PahoUpdate
      <3> HIDE DEF q
      <3>4. 1 \in 0 .. Topics + 1
        BY Constants
      <3> QED
        BY <3>1, <3>3, <3>4, PahoUpdate
    <2>2. CASE Resubscribe
      <3>1. CASE paho.sweep <= paho.subs
        <4>1. paho.sweep > 0 /\ paho.sweep \in 1 .. Topics /\ paho.sweep + 1 \in 0 .. Topics + 1
          BY <2>2, <3>1, Constants DEF Resubscribe, PahoSet
        <4> DEFINE p == [paho EXCEPT !.sweep = paho.sweep + 1]
        <4>2. paho' = [p EXCEPT !.broker = Sent(paho.sweep)]
          BY <2>2, <3>1 DEF Resubscribe, Paho, PahoSet
        <4>3. p \in PahoSet
          BY <4>1, PahoUpdate
        <4> QED
          BY <4>1, <4>2, <4>3, SentTopics, PahoUpdate
      <3>2. CASE ~(paho.sweep <= paho.subs)
        <4>1. 0 \in 0 .. Topics + 1
          BY Constants
        <4> QED
          BY <2>2, <3>2, <4>1, PahoUpdate DEF Resubscribe, Paho
      <3> QED
        BY <3>1, <3>2
    <2>3. CASE OnDisconnect
      BY <2>3, PahoUpdate DEF OnDisconnect, Paho
    <2>4. CASE Reconnect
      BY <2>4, PahoUpdate DEF Reconnect, Paho
    <2>5. CASE Refused
      <3>1. paho' = [paho EXCEPT !.link = "down"]
        BY <2>5 DEF Refused, Paho
      <3> QED
        BY <3>1, PahoUpdate
    <2>6. CASE LinkLost
      <3>1. paho' = [[paho EXCEPT !.link = "down"] EXCEPT !.broker = {}]
        BY <2>6 DEF LinkLost, Paho, PahoSet
      <3>2. [paho EXCEPT !.link = "down"] \in PahoSet
        BY PahoUpdate
      <3> QED
        BY <3>1, <3>2, PahoUpdate
    <2> QED
      BY <1>5, <2>1, <2>2, <2>3, <2>4, <2>5, <2>6 DEF Network
  <1>6. CASE Crash
    BY <1>6, PahoBootType DEF Crash
  <1>7. CASE Booting \/ Loading \/ Binding \/ Working \/ UNCHANGED vars
    BY <1>7, BootingLeaves, LoadingLeaves, BindingLeaves, WorkingLeaves DEF vars
  <1> QED
    BY <1>1, <1>2, <1>3, <1>4, <1>5, <1>6, <1>7, NextGroups

\* Where the constructor leads.
LEMMA BootingMoves ==
    ASSUME Booting
    PROVE  at' \in Building \cup {"exited", "loading"} /\ at \in Building
  BY DEF Booting, OpenMemory, ApplyStatement, CommitMigration, MigrationsDone,
    ConstructorFails, ServerBuilt, Building

-----------------------------------------------------------------------------
(* The connection.                                                         *)

LEMMA NextLink ==
    ASSUME TypeOK, TriesInv, LinkInv, [Next]_vars
    PROVE  LinkInv'
  <1> PahoType /\ MainType
    BY TypeParts
  <1> USE Constants DEF LinkInv, PahoType, PahoSet, Building
  <1>1. CASE Booting
    <2>1. at' \in Building \cup {"exited", "loading"} /\ at \in Building
      BY <1>1, BootingMoves
    <2> QED
      BY <1>1, <2>1, BootingLeaves DEF Building
  <1>2. CASE Loading
    <2>1. at' \in {"loading", "connecting"} /\ at = "loading"
      BY <1>2 DEF Loading, ModelsLoaded, LoadModel
    <2> QED
      BY <1>2, <2>1, LoadingLeaves
  <1>3. CASE Dialling
    <2>1. CASE ConnectSucceeds
      BY <2>1 DEF ConnectSucceeds, PahoBoot
    <2>2. CASE ConnectFails
      BY <2>2 DEF ConnectFails, rest
    <2>3. CASE Settled
      BY <2>3 DEF Settled, rest
    <2> QED
      BY <1>3, <2>1, <2>2, <2>3 DEF Dialling
  <1>4. CASE Subscribing
    <2>1. CASE ListTopic
      BY <2>1 DEF ListTopic, MainType
    <2>2. CASE SendTopic
      BY <2>2 DEF SendTopic, Sent
    <2>3. CASE Subscribed
      BY <2>3 DEF Subscribed
    <2> QED
      BY <1>4, <2>1, <2>2, <2>3 DEF Subscribing
  <1>5. CASE Binding
    <2>1. at' \in {"monitoring", "publishing", "serving", "emergency_grpc"}
      BY <1>5 DEF Binding, GrpcStarted, MonitorStarted, StatusPublished, StartFails
    <2> QED
      BY <1>5, <2>1, BindingLeaves
  <1>6. CASE Leaving
    <2>1. at' \in {"announcing", "emergency_mqtt", "stop_monitor", "stop_grpc"}
      BY <1>6 DEF Leaving, LeaveMainLoop, EmergencyGrpc, EmergencyMqtt, Announce,
        StopMonitor, Goto
    <2>2. paho' = paho \/ paho' = PahoStopped
      BY <1>6 DEF Leaving, LeaveMainLoop, EmergencyGrpc, EmergencyMqtt, Announce,
        StopMonitor, Goto, rest
    <2> QED
      BY <2>1, <2>2 DEF PahoStopped
  <1>7. CASE Closing
    <2>1. at' \in {"stop_mqtt", "unload", "close", "exited"}
      BY <1>7 DEF Closing, StopGrpc, StopMqtt, UnloadModels, StopFails,
        CloseMemory, Goto
    <2>2. paho' = paho \/ paho' = PahoStopped
      BY <1>7 DEF Closing, StopGrpc, StopMqtt, UnloadModels, StopFails, CloseMemory, Goto
    <2> QED
      BY <2>1, <2>2 DEF PahoStopped
  <1>8. CASE Network
    <2>1. at' = at /\ tries' = tries
      BY <1>8, NetworkLeaves
    <2>2. CASE OnConnect
      BY <2>1, <2>2 DEF OnConnect, Paho, PahoBoot
    <2>3. CASE Resubscribe
      BY <2>1, <2>3 DEF Resubscribe, Paho, PahoBoot, Sent
    <2>4. CASE OnDisconnect
      BY <2>1, <2>4 DEF OnDisconnect, Paho, PahoBoot
    <2>5. CASE Reconnect
      BY <2>1, <2>5 DEF Reconnect, Paho, PahoBoot
    <2>6. CASE Refused
      BY <2>1, <2>6 DEF Refused, Paho, PahoBoot
    <2>7. CASE LinkLost
      BY <2>1, <2>7 DEF LinkLost, Paho, PahoBoot
    <2> QED
      BY <1>8, <2>2, <2>3, <2>4, <2>5, <2>6, <2>7 DEF Network
  <1>9. CASE Crash
    BY <1>9 DEF Crash, PahoBoot
  <1>10. CASE Working \/ UNCHANGED vars
    BY <1>10, WorkingLeaves DEF vars
  <1> QED
    BY <1>1, <1>2, <1>3, <1>4, <1>5, <1>6, <1>7, <1>8, <1>9, <1>10, NextGroups

-----------------------------------------------------------------------------
(* The topics.                                                             *)

\* A topic sent while the link is up and the client knows of it has arrived.
LEMMA SentArrives ==
    ASSUME NEW k \in 1 .. Topics, LinkInv, paho.link = "up"
    PROVE  Sent(k) = paho.broker \cup {k}
  BY DEF LinkInv, Sent

\* TopicsInv speaks of the connection and of one stage of main() only.
LEMMA TopicsStay ==
    ASSUME TopicsInv, at' # "subscribing", at # "sending", paho' = paho \/ paho' = PahoStopped,
           PahoType
    PROVE  TopicsInv'
  BY DEF TopicsInv, Coming, PahoStopped, PahoType, PahoSet

LEMMA NextTopics ==
    ASSUME TypeOK, TriesInv, LinkInv, TopicsInv, [Next]_vars
    PROVE  TopicsInv'
  <1> PahoType /\ MainType /\ PahoType'
    BY TypeParts, NextPaho
  <1> USE Constants DEF TopicsInv, Coming, PahoType, PahoSet
  <1>1. CASE Booting
    <2>1. at' \in Building \cup {"exited", "loading"} /\ at \in Building
      BY <1>1, BootingMoves
    <2> QED
      BY <1>1, <2>1, BootingLeaves DEF Building
  <1>2. CASE Loading
    <2>1. at' \in {"loading", "connecting"} /\ at = "loading"
      BY <1>2 DEF Loading, ModelsLoaded, LoadModel
    <2> QED
      BY <1>2, <2>1, LoadingLeaves
  <1>3. CASE Dialling
    <2>1. CASE ConnectSucceeds
      BY <2>1 DEF ConnectSucceeds, LinkInv, PahoBoot
    <2>2. CASE ConnectFails
      BY <2>2 DEF ConnectFails, rest
    <2>3. CASE Settled
      BY <2>3 DEF Settled, rest
    <2> QED
      BY <1>3, <2>1, <2>2, <2>3 DEF Dialling
  <1>4. CASE Subscribing
    <2>1. CASE ListTopic
      <3>1. paho'.subs = paho.subs + 1 /\ tries' = paho.subs + 1 /\ at' = "sending"
        BY <2>1 DEF ListTopic, LinkInv
      <3>2. paho'.broker = paho.broker /\ paho'.link = paho.link /\ paho'.sweep = paho.sweep
        BY <2>1 DEF ListTopic
      <3>3. at # "sending"
        BY <2>1 DEF ListTopic
      <3> QED
        BY <3>1, <3>2, <3>3
    <2>2. CASE SendTopic
      <3>1. tries \in 1 .. paho.subs /\ tries \in 1 .. Topics
        BY <2>2 DEF SendTopic, LinkInv
      <3>2. paho'.broker = Sent(tries) /\ paho'.link = paho.link /\ paho'.subs = paho.subs
               /\ paho'.sweep = paho.sweep /\ at' = "subscribing"
        BY <2>2 DEF SendTopic
      <3>3. Sent(tries) \subseteq 1 .. paho.subs
        BY <3>1 DEF Sent
      <3>4. paho.link = "up" => Sent(tries) = paho.broker \cup {tries}
        BY <3>1, SentArrives
      <3> QED
        BY <3>1, <3>2, <3>3, <3>4
    <2>3. CASE Subscribed
      BY <2>3 DEF Subscribed
    <2> QED
      BY <1>4, <2>1, <2>2, <2>3 DEF Subscribing
  <1>5. CASE Binding
    <2>1. /\ at' \in {"monitoring", "publishing", "serving", "emergency_grpc"}
          /\ at \in {"loading", "binding", "monitoring", "publishing"}
      BY <1>5 DEF Binding, GrpcStarted, MonitorStarted, StatusPublished, StartFails
    <2> QED
      BY <1>5, <2>1, BindingLeaves, TopicsStay
  <1>6. CASE Leaving
    <2>1. at' \in {"announcing", "emergency_mqtt", "stop_monitor", "stop_grpc"}
             /\ at # "sending"
      BY <1>6 DEF Leaving, LeaveMainLoop, EmergencyGrpc, EmergencyMqtt, Announce,
        StopMonitor, Goto
    <2>2. paho' = paho \/ paho' = PahoStopped
      BY <1>6 DEF Leaving, LeaveMainLoop, EmergencyGrpc, EmergencyMqtt, Announce,
        StopMonitor, Goto, rest
    <2> QED
      BY <2>1, <2>2, TopicsStay
  <1>7. CASE Closing
    <2>1. at' \in {"stop_mqtt", "unload", "close", "exited"} /\ at # "sending"
      BY <1>7 DEF Closing, StopGrpc, StopMqtt, UnloadModels, StopFails,
        CloseMemory, StopStages, Goto
    <2>2. paho' = paho \/ paho' = PahoStopped
      BY <1>7 DEF Closing, StopGrpc, StopMqtt, UnloadModels, StopFails, CloseMemory, Goto
    <2> QED
      BY <2>1, <2>2, TopicsStay
  <1>8. CASE Network
    <2>1. at' = at /\ tries' = tries
      BY <1>8, NetworkLeaves
    <2>2. CASE OnConnect
      <3>1. paho'.sweep = 1 /\ paho'.subs = paho.subs /\ paho'.broker = paho.broker
        BY <2>2 DEF OnConnect, Paho
      <3> QED
        BY <3>1
    <2>3. CASE Resubscribe
      <3>1. CASE paho.sweep <= paho.subs
        <4>1. paho.sweep > 0 /\ paho.sweep \in 1 .. paho.subs /\ paho.sweep \in 1 .. Topics
          BY <2>3, <3>1 DEF Resubscribe
        <4>2. paho'.sweep = paho.sweep + 1 /\ paho'.broker = Sent(paho.sweep)
                 /\ paho'.link = paho.link /\ paho'.subs = paho.subs
          BY <2>3, <3>1 DEF Resubscribe, Paho
        <4>3. Sent(paho.sweep) \subseteq 1 .. paho.subs
          BY <4>1 DEF Sent
        <4>4. paho.link = "up" => Sent(paho.sweep) = paho.broker \cup {paho.sweep}
          BY <4>1, SentArrives
        <4> QED
          BY <2>1, <4>1, <4>2, <4>3, <4>4
      <3>2. CASE ~(paho.sweep <= paho.subs)
        <4>1. paho'.sweep = 0 /\ paho'.broker = paho.broker
                 /\ paho'.link = paho.link /\ paho'.subs = paho.subs
          BY <2>3, <3>2 DEF Resubscribe, Paho
        <4> QED
          BY <2>1, <3>2, <4>1
      <3> QED
        BY <3>1, <3>2
    <2>4. CASE OnDisconnect
      BY <2>1, <2>4 DEF OnDisconnect, Paho
    <2>5. CASE Reconnect
      BY <2>1, <2>5 DEF Reconnect, Paho
    <2>6. CASE Refused
      BY <2>1, <2>6 DEF Refused, Paho
    <2>7. CASE LinkLost
      BY <2>1, <2>7 DEF LinkLost, Paho
    <2> QED
      BY <1>8, <2>2, <2>3, <2>4, <2>5, <2>6, <2>7 DEF Network
  <1>9. CASE Crash
    BY <1>9 DEF Crash, PahoBoot
  <1>10. CASE Working \/ UNCHANGED vars
    BY <1>10, WorkingLeaves DEF vars
  <1> QED
    BY <1>1, <1>2, <1>3, <1>4, <1>5, <1>6, <1>7, <1>8, <1>9, <1>10, NextGroups

-----------------------------------------------------------------------------
(* The way back.                                                           *)

\* Stopping gRPC touches neither the memory nor the monitor.
LEMMA GrpcStoppedLeaves ==
    ASSUME ServerType, NEW after \in GrpcStopped
    PROVE  /\ after.memory = server.memory /\ after.built = server.built
           /\ after.monitor = server.monitor /\ after.calls = 0 /\ ~after.grpc
  BY DEF GrpcStopped, ServerType, ServerSet

\* What is in flight is none of the server's parts, and no call is left to end
\* where none is admitted.
LEMMA WorkKeeps ==
    ASSUME ServerType, Working
    PROVE  /\ server'.memory = server.memory /\ server'.built = server.built
           /\ server'.monitor = server.monitor /\ server'.grpc = server.grpc
           /\ ~server.grpc /\ server.calls = 0 => server'.calls = 0
  <1> USE DEF ServerType, ServerSet
  <1>1. CASE MessageArrives \/ OrchestrationDetached \/ Signal
    BY <1>1 DEF MessageArrives, OrchestrationDetached, Signal
  <1>2. CASE CallArrives
    <2>1. server' = [server EXCEPT !.calls = @ + 1] /\ server.grpc
      BY <1>2 DEF CallArrives
    <2> QED
      BY <2>1
  <1>3. CASE WorkEnds
    <2>1. \/ server' = [server EXCEPT !.tasks = @ - 1]
          \/ server.calls > 0 /\ server' = [server EXCEPT !.calls = @ - 1]
          \/ server' = [server EXCEPT !.orphans = @ - 1]
      BY <1>3 DEF WorkEnds
    <2>2. server.calls = 0 => ~(server.calls > 0)
      OBVIOUS
    <2> QED
      BY <2>1, <2>2
  <1> QED
    BY <1>1, <1>2, <1>3 DEF Working

LEMMA NextOwner ==
    ASSUME TypeOK, OwnerInv, [Next]_vars
    PROVE  OwnerInv'
  <1> ServerType
    BY TypeParts
  <1> USE DEF OwnerInv, ServerType, ServerSet, Building
  <1>1. CASE Booting
    <2>1. CASE OpenMemory
      BY <2>1 DEF OpenMemory
    <2>2. CASE ServerBuilt
      BY <2>2 DEF ServerBuilt
    <2>3. CASE ConstructorFails
      BY <2>3 DEF ConstructorFails
    <2>4. CASE ApplyStatement \/ CommitMigration \/ MigrationsDone
      BY <2>4 DEF ApplyStatement, CommitMigration, MigrationsDone, rest
    <2> QED
      BY <1>1, <2>1, <2>2, <2>3, <2>4 DEF Booting
  <1>2. CASE Loading
    <2>1. at' \in {"loading", "connecting"} /\ at = "loading"
      BY <1>2 DEF Loading, ModelsLoaded, LoadModel
    <2> QED
      BY <1>2, <2>1, LoadingLeaves
  <1>3. CASE Dialling
    <2>1. at' \in {"connecting", "emergency_grpc", "settling", "subscribing"}
             /\ at \in {"connecting", "settling"}
      BY <1>3 DEF Dialling, ConnectSucceeds, ConnectFails, Settled
    <2> QED
      BY <1>3, <2>1, DiallingLeaves
  <1>4. CASE Subscribing
    <2>1. at' \in {"sending", "subscribing", "binding"} /\ at \in {"sending", "subscribing"}
      BY <1>4 DEF Subscribing, ListTopic, SendTopic, Subscribed
    <2> QED
      BY <1>4, <2>1, SubscribingLeaves
  <1>5. CASE Binding
    <2>1. /\ at' \in {"monitoring", "publishing", "serving", "emergency_grpc"}
          /\ at \in {"loading", "binding", "monitoring", "publishing"}
      BY <1>5 DEF Binding, GrpcStarted, MonitorStarted, StatusPublished, StartFails
    <2>2. server'.memory = server.memory /\ server'.built = server.built
      BY <1>5 DEF Binding, GrpcStarted, MonitorStarted, StatusPublished, StartFails, rest
    <2> QED
      BY <2>1, <2>2
  <1>6. CASE Leaving
    <2>1. /\ at' \in {"announcing", "emergency_mqtt", "stop_monitor", "stop_grpc"}
          /\ at \notin Building \cup {"exited"}
      BY <1>6 DEF Leaving, LeaveMainLoop, EmergencyGrpc, EmergencyMqtt, Announce,
        StopMonitor, Goto
    <2>2. server' = server \/ server' \in GrpcStopped
             \/ server' = [server EXCEPT !.monitor = FALSE]
      BY <1>6 DEF Leaving, LeaveMainLoop, EmergencyGrpc, EmergencyMqtt, Announce,
        StopMonitor, Goto, rest
    <2>3. server'.memory = server.memory /\ server'.built = server.built
      BY <2>2, GrpcStoppedLeaves
    <2> QED
      BY <2>1, <2>3
  <1>7. CASE Closing
    <2>1. CASE CloseMemory
      BY <2>1 DEF CloseMemory, Goto
    <2>2. CASE StopGrpc \/ StopMqtt \/ UnloadModels \/ StopFails
      <3>1. /\ at' \in {"stop_mqtt", "unload", "close"}
            /\ at \notin Building \cup {"exited"}
        BY <2>2 DEF StopGrpc, StopMqtt, UnloadModels, StopFails, StopStages, Goto
      <3>2. server' = server \/ server' \in GrpcStopped
        BY <2>2 DEF StopGrpc, StopMqtt, UnloadModels, StopFails, Goto
      <3>3. server'.memory = server.memory /\ server'.built = server.built
        BY <3>2, GrpcStoppedLeaves
      <3> QED
        BY <3>1, <3>3
    <2> QED
      BY <1>7, <2>1, <2>2 DEF Closing
  <1>8. CASE Network \/ UNCHANGED vars
    BY <1>8, NetworkLeaves DEF vars
  <1>9. CASE Working
    BY <1>9, WorkKeeps, WorkingLeaves
  <1>10. CASE Crash
    BY <1>10 DEF Crash, ServerBoot
  <1> QED
    BY <1>1, <1>2, <1>3, <1>4, <1>5, <1>6, <1>7, <1>8, <1>9, <1>10, NextGroups

LEMMA NextStop ==
    ASSUME TypeOK, OwnerInv, StopInv, [Next]_vars
    PROVE  StopInv'
  <1> ServerType
    BY TypeParts
  <1> USE DEF StopInv, ServerType, ServerSet
  <1>0. at # "exited" => server.memory # "closed"
    OBVIOUS
  <1>1. CASE Booting
    <2>1. at' \in {"opening", "migrating", "building", "exited", "loading"}
             /\ at \in {"opening", "migrating", "building"}
      BY <1>1, BootingMoves DEF Building
    <2>2. server'.memory # "closed"
      BY <1>0, <1>1, <2>1 DEF Booting, OpenMemory, ApplyStatement, CommitMigration,
        MigrationsDone, ConstructorFails, ServerBuilt, rest
    <2> QED
      BY <2>1, <2>2
  <1>2. CASE Loading
    <2>1. at' \in {"loading", "connecting"} /\ at = "loading"
      BY <1>2 DEF Loading, ModelsLoaded, LoadModel
    <2> QED
      BY <1>0, <1>2, <2>1, LoadingLeaves
  <1>3. CASE Dialling
    <2>1. at' \in {"connecting", "emergency_grpc", "settling", "subscribing"}
             /\ at \in {"connecting", "settling"}
      BY <1>3 DEF Dialling, ConnectSucceeds, ConnectFails, Settled
    <2> QED
      BY <1>0, <1>3, <2>1, DiallingLeaves
  <1>4. CASE Subscribing
    <2>1. at' \in {"sending", "subscribing", "binding"} /\ at \in {"sending", "subscribing"}
      BY <1>4 DEF Subscribing, ListTopic, SendTopic, Subscribed
    <2> QED
      BY <1>0, <1>4, <2>1, SubscribingLeaves
  <1>5. CASE Binding
    <2>1. /\ at' \in {"monitoring", "publishing", "serving", "emergency_grpc"}
          /\ at # "exited"
      BY <1>5 DEF Binding, GrpcStarted, MonitorStarted, StatusPublished, StartFails
    <2>2. server'.memory = server.memory
      BY <1>5 DEF Binding, GrpcStarted, MonitorStarted, StatusPublished, StartFails, rest
    <2> QED
      BY <1>0, <2>1, <2>2
  <1>6. CASE Leaving
    <2>1. CASE StopMonitor
      <3>1. at' = "stop_grpc" /\ at = "stop_monitor" /\ ~server'.monitor
               /\ server'.memory = server.memory
        BY <2>1 DEF StopMonitor, Goto
      <3> QED
        BY <1>0, <3>1
    <2>2. CASE LeaveMainLoop \/ EmergencyGrpc \/ EmergencyMqtt \/ Announce
      <3>1. at' \in {"announcing", "emergency_mqtt", "stop_monitor"} /\ at # "exited"
        BY <2>2 DEF LeaveMainLoop, EmergencyGrpc, EmergencyMqtt, Announce, Goto
      <3>2. server' = server \/ server' \in GrpcStopped
        BY <2>2 DEF LeaveMainLoop, EmergencyGrpc, EmergencyMqtt, Announce, Goto, rest
      <3>3. server'.memory = server.memory
        BY <3>2, GrpcStoppedLeaves
      <3> QED
        BY <1>0, <3>1, <3>3
    <2> QED
      BY <1>6, <2>1, <2>2 DEF Leaving
  <1>7. CASE Closing
    <2>1. CASE StopGrpc
      <3>1. at' = "stop_mqtt" /\ at = "stop_grpc" /\ server' \in GrpcStopped
               /\ failed' = failed
        BY <2>1 DEF StopGrpc, Goto
      <3>2. /\ server'.memory = server.memory /\ server'.monitor = server.monitor
            /\ server'.calls = 0 /\ ~server'.grpc
        BY <3>1, GrpcStoppedLeaves
      <3> QED
        BY <1>0, <3>1, <3>2
    <2>2. CASE StopMqtt
      <3>1. at' = "unload" /\ at = "stop_mqtt" /\ server' = server /\ failed' = failed
               /\ mqtt' = MqttStopped
        BY <2>2 DEF StopMqtt, Goto
      <3>2. ~mqtt'.running
        BY <3>1 DEF MqttStopped, MqttBoot
      <3> QED
        BY <1>0, <3>1, <3>2
    <2>3. CASE UnloadModels
      BY <1>0, <2>3 DEF UnloadModels, Goto
    <2>4. CASE StopFails
      <3>1. at' = "close" /\ at # "exited" /\ failed' /\ server' = server
        BY <2>4 DEF StopFails, StopStages
      <3> QED
        BY <1>0, <3>1
    <2>5. CASE CloseMemory
      <3>1. /\ at' = "exited" /\ at = "close" /\ failed' = failed /\ mqtt' = mqtt
            /\ server' = [server EXCEPT !.memory = "closed"]
        BY <2>5 DEF CloseMemory, Goto
      <3> QED
        BY <3>1
    <2> QED
      BY <1>7, <2>1, <2>2, <2>3, <2>4, <2>5 DEF Closing
  <1>8. CASE Network \/ UNCHANGED vars
    BY <1>8, NetworkLeaves DEF vars
  <1>9. CASE Working
    <2>1. at' = at /\ mqtt' = mqtt /\ failed' = failed
      BY <1>9, WorkingLeaves
    <2> QED
      BY <1>9, <2>1, WorkKeeps
  <1>10. CASE Crash
    BY <1>10 DEF Crash, ServerBoot
  <1> QED
    BY <1>1, <1>2, <1>3, <1>4, <1>5, <1>6, <1>7, <1>8, <1>9, <1>10, NextGroups

-----------------------------------------------------------------------------
LEMMA InitHolds ==
    ASSUME Init
    PROVE  LifecycleInv
  <1> USE DEF Init
  <1>1. MainType /\ TriesInv
    BY Constants DEF MainType, TriesInv, Building, Starting
  <1>2. FlagsType
    <2>1. 0 \in 0 .. MaxDrops /\ 0 \in 0 .. MaxCrashes
      BY Constants
    <2>2. FALSE \in BOOLEAN
      OBVIOUS
    <2> QED
      BY <2>1, <2>2, BootTypes, Zenon DEF FlagsType
  <1>3. PahoType /\ ModelsType /\ ServerType
    BY BootTypes, PahoBootType DEF PahoType, ModelsType, ServerType
  <1>4. DatabaseType /\ SchemaIsVersions
    <2>1. 0 \in 0 .. Migrations
      BY Constants
    <2>2. 0 * Statements = 0
      BY Constants
    <2>3. 0 \in 0 .. Migrations * Statements
      BY <2>1, <2>2, VersionBound
    <2> QED
      BY <2>1, <2>2, <2>3 DEF DatabaseType, SchemaIsVersions
  <1>5. LinkInv
    BY DEF LinkInv, PahoBoot
  <1>6. TopicsInv
    BY DEF TopicsInv, PahoBoot
  <1>7. OwnerInv /\ StopInv
    BY DEF OwnerInv, StopInv, ServerBoot, Building
  <1> QED
    BY <1>1, <1>2, <1>3, <1>4, <1>5, <1>6, <1>7, TypeParts DEF LifecycleInv

LEMMA NextHolds ==
    ASSUME LifecycleInv, [Next]_vars
    PROVE  LifecycleInv'
  <1> USE DEF LifecycleInv
  <1>1. TypeOK'
    <2>1. MainType' /\ FlagsType' /\ PahoType' /\ ModelsType' /\ ServerType' /\ DatabaseType'
      BY NextMain, NextFlags, NextPaho, NextModels, NextServer, NextSchema
    <2> QED
      BY <2>1, TypeParts, PTL
  <1>2. SchemaIsVersions' /\ TriesInv' /\ LinkInv' /\ TopicsInv' /\ OwnerInv' /\ StopInv'
    BY NextSchema, NextMain, NextLink, NextTopics, NextOwner, NextStop
  <1> QED
    BY <1>1, <1>2

\* What every reachable state of the process satisfies.
THEOREM LifecycleHolds == Spec => []LifecycleInv
  <1>1. Init => LifecycleInv
    BY InitHolds
  <1>2. LifecycleInv /\ [Next]_vars => LifecycleInv'
    BY NextHolds
  <1> QED
    BY <1>1, <1>2, PTL DEF Spec

\* The variables of the process keep their types.
THEOREM TypeCorrect == Spec => []TypeOK
  <1>1. LifecycleInv => TypeOK
    BY DEF LifecycleInv
  <1> QED
    BY <1>1, LifecycleHolds, PTL

\* A migration is in the database file as a whole and with its version number,
\* or not at all, for any number of migrations and statements and after any
\* number of crashes: _run_migrations commits both in one transaction.
THEOREM SchemaMatchesVersion == Spec => []SchemaIsVersions
  <1>1. LifecycleInv => SchemaIsVersions
    BY DEF LifecycleInv
  <1> QED
    BY <1>1, LifecycleHolds, PTL

\* subscribe() lists a topic and then looks whether the client is connected,
\* _on_connect sets that flag and then goes through the list: between them no
\* topic is forgotten, for any number of topics and lost connections.
THEOREM TopicsRemembered == Spec => []NoTopicForgotten
  <1>1. LifecycleInv => NoTopicForgotten
    <2> SUFFICES ASSUME LifecycleInv, paho.link = "up", paho.sweep = 0, at # "sending"
                 PROVE  paho.broker = 1 .. paho.subs
      BY DEF NoTopicForgotten
    <2>1. \A i \in 1 .. paho.subs : i \in paho.broker
      BY DEF LifecycleInv, TopicsInv, Coming
    <2> QED
      BY <2>1 DEF LifecycleInv, TopicsInv
  <1> QED
    BY <1>1, LifecycleHolds, PTL

\* The store is closed on every way out of a server that was built, and unless a
\* stage of stop_server raised, gRPC with its calls, the MQTT service and the
\* monitor are down by then.
THEOREM StoreClosedLast == Spec => []MemoryClosedLast
  <1>1. LifecycleInv => MemoryClosedLast
    BY DEF LifecycleInv, OwnerInv, StopInv, MemoryClosedLast
  <1> QED
    BY <1>1, LifecycleHolds, PTL

(***************************************************************************)
(* The turns that the running server works off share its memory and its    *)
(* connection to the broker.  What holds of them for any number of         *)
(* devices, turns and rows, whatever assumption module Turns makes on its  *)
(* constants being the hypothesis of each result.                          *)
(***************************************************************************)
CONSTANTS Devices, Utterances, Earlier, QueueLimit, MaxInputs, MaxFaults, MaxTicks
VARIABLES wire, link, clock, front, inputs, faults

Turn == INSTANCE Turns

Spoken == {"talk", "time", "empty"}

TurnMessages ==
    {Turn!Message(h, d, w, b) : h \in Turn!Handlers, d \in Devices, w \in Spoken, b \in 0 .. 3}
    \cup {Turn!Message("task", Turn!NoDevice, w, b) : w \in Spoken, b \in 0 .. 3}

TurnRecords ==
    [via : {"mqtt", "grpc"}, dev : Devices, band : 0 .. 3, user : Spoken \cup {""},
     intent : {"time_query", "general", ""}, at : Turn!Stages \cup Turn!Outcomes,
     seen : Int, history : Seq(Nat), text : Turn!Texts, heard : BOOLEAN]

TurnRows == [dev : Devices, ts : 0 .. MaxTicks, turn : Nat, text : Turn!Texts]

TurnAnswers == [dev : Devices, turn : Nat, text : Turn!Texts \cup {"apology"}]

TurnFronts == [known : SUBSET Devices, queue : 0 .. QueueLimit,
               faces : SUBSET (Devices \cup {Turn!NoDevice}), alerts : 0 .. 1]

TurnTypes ==
    /\ wire \in Seq(TurnMessages) /\ link \in BOOLEAN
    /\ turns \in Seq(TurnRecords) /\ memory \in Seq(TurnRows)
    /\ clock \in 0 .. MaxTicks /\ front \in TurnFronts
    /\ out \in SUBSET TurnAnswers
    /\ inputs \in 0 .. MaxInputs /\ faults \in 0 .. MaxFaults

\* The order of the rows is the order of their times.
RowsInOrder ==
    /\ \A i, j \in DOMAIN memory : i < j => memory[i].ts <= memory[j].ts
    /\ \A i \in DOMAIN memory : memory[i].ts <= clock

\* What a turn has seen of memory, and what it keeps of that.
HistoryInv ==
    \A k \in DOMAIN turns :
        /\ turns[k].seen \in -1 .. Len(memory)
        /\ turns[k].seen = -1 => turns[k].history = <<>>
        /\ turns[k].seen >= 0 =>
              IsLatest(turns[k].history, OwnRows(turns[k].dev, turns[k].seen))

\* Every row is that of a turn that is done, and its only one; what was told is
\* the turn's text, or that it failed, and it is remembered unless nothing is or
\* the commit is still to come.
Unheard == {"", "empty"}

RowsInv ==
    /\ \A i, j \in DOMAIN memory :
          memory[i].turn = memory[j].turn => i = j \/ memory[i].turn = 0
    /\ \A i \in DOMAIN memory : memory[i].turn # 0 =>
          /\ memory[i].turn \in DOMAIN turns
          /\ turns[memory[i].turn].at = "done"
          /\ turns[memory[i].turn].text = memory[i].text
          /\ turns[memory[i].turn].dev = memory[i].dev

ToldRight(o) ==
    /\ o.turn \in DOMAIN turns
    /\ o.text = "apology" => turns[o.turn].at = "failed"
    /\ o.text # "apology" =>
          /\ o.text = turns[o.turn].text /\ o.text # ""
          /\ \/ turns[o.turn].user \in Unheard
             \/ \E i \in DOMAIN memory : memory[i].turn = o.turn
             \/ turns[o.turn].via = "grpc" /\ turns[o.turn].at # "done"

ToldInv == \A o \in out : ToldRight(o)

RememberedInv == RowsInv /\ ToldInv

TurnsInv == TurnTypes /\ RowsInOrder /\ HistoryInv /\ RememberedInv

----------------------------------------------------------------------------
\* What recall_recent returns.

LEMMA TurnConstants ==
    ASSUME Turn!TurnsAssumption
    PROVE  /\ HistoryLimit \in Nat /\ HistoryLimit > 0
           /\ QueueLimit \in Nat /\ MaxInputs \in Nat /\ MaxFaults \in Nat /\ MaxTicks \in Nat
           /\ Turn!NoDevice \notin Devices
  BY DEF Turn!TurnsAssumption, Turn!NoDevice

\* Module Turns counts with an instance of Cardinality of its own.
LEMMA TurnCardinality ==
    ASSUME NEW S PROVE Turn!Cardinality(S) = Cardinality(S)
  BY DEF Turn!Cardinality, Cardinality

\* The rows after row i among the given ones.
After(i, rows) == {j \in rows : j > i}

LEMMA AfterShrinks ==
    ASSUME NEW n \in Nat, NEW rows \in SUBSET (1 .. n)
    PROVE  /\ IsFiniteSet(rows)
           /\ Cardinality(rows) \in Nat
           /\ \A i \in rows : /\ IsFiniteSet(After(i, rows))
                              /\ Cardinality(After(i, rows)) \in 0 .. Cardinality(rows) - 1
           /\ \A i, j \in rows :
                 i < j => Cardinality(After(j, rows)) < Cardinality(After(i, rows))
  <1>1. IsFiniteSet(rows) /\ Cardinality(rows) \in Nat
    <2>1. IsFiniteSet(1 .. n)
      BY FS_Interval
    <2> QED
      BY <2>1, FS_Subset, FS_CardinalityType
  <1>2. ASSUME NEW i \in rows
        PROVE  /\ IsFiniteSet(After(i, rows))
               /\ Cardinality(After(i, rows)) \in 0 .. Cardinality(rows) - 1
    <2>1. After(i, rows) \in SUBSET rows /\ i \notin After(i, rows)
      BY DEF After
    <2>2. IsFiniteSet(After(i, rows)) /\ Cardinality(After(i, rows)) \in Nat
      BY <1>1, <2>1, FS_Subset, FS_CardinalityType
    <2>3. /\ Cardinality(After(i, rows)) <= Cardinality(rows)
          /\ Cardinality(rows) # Cardinality(After(i, rows))
      BY <1>1, <2>1, FS_Subset
    <2> QED
      BY <1>1, <2>2, <2>3
  <1>3. ASSUME NEW i \in rows, NEW j \in rows, i < j
        PROVE  Cardinality(After(j, rows)) < Cardinality(After(i, rows))
    <2>1. After(j, rows) \in SUBSET After(i, rows)
      <3> SUFFICES ASSUME NEW x \in rows, x > j PROVE x > i
        BY DEF After
      <3>1. x \in Int /\ i \in Int /\ j \in Int
        OBVIOUS
      <3> QED
        BY <1>3, <3>1
    <2>2. j \in After(i, rows) /\ j \notin After(j, rows)
      BY <1>3 DEF After
    <2>3. /\ Cardinality(After(j, rows)) <= Cardinality(After(i, rows))
          /\ Cardinality(After(i, rows)) # Cardinality(After(j, rows))
      BY <1>2, <2>1, <2>2, FS_Subset
    <2> QED
      BY <1>2, <2>3
  <1> QED
    BY <1>1, <1>2, <1>3

\* With the rows in the order of their times, the rank of a row is its place
\* counted from the end: later rows have smaller ranks, and every rank is taken.
LEMMA RanksAreTaken ==
    ASSUME TurnTypes, RowsInOrder, NEW d
    PROVE  LET rows == Turn!RowsOf(d)  N == Cardinality(rows) IN
           /\ rows \in SUBSET DOMAIN memory
           /\ N \in Nat
           /\ \A i \in rows : Turn!Rank(i) \in 1 .. N
           /\ \A i, j \in rows : i < j => Turn!Rank(j) < Turn!Rank(i)
           /\ \A n \in 1 .. N : \E i \in rows : Turn!Rank(i) = n
  <1> DEFINE rows == Turn!RowsOf(d)
             N    == Cardinality(rows)
             rank == [i \in rows |-> Turn!Rank(i)]
  <1>1. memory \in Seq(TurnRows) /\ Len(memory) \in Nat /\ DOMAIN memory = 1 .. Len(memory)
    BY DEF TurnTypes
  <1>2. rows \in SUBSET (1 .. Len(memory))
    BY <1>1 DEF Turn!RowsOf
  <1>3. ASSUME NEW i \in rows
        PROVE  Turn!Rank(i) = Cardinality(After(i, rows)) + 1
    <2>1. \A j \in rows : memory[j].ts \in Int
      <3> SUFFICES ASSUME NEW j \in 1 .. Len(memory) PROVE memory[j].ts \in Int
        BY <1>2
      <3>1. memory[j] \in TurnRows
        BY <1>1
      <3> QED
        BY <3>1 DEF TurnRows
    <2>2. \A j \in rows : Turn!Newer(j, i) <=> j > i
      BY <1>1, <1>2, <2>1 DEF Turn!Newer, RowsInOrder
    <2>3. memory[i].dev = d
      BY DEF Turn!RowsOf
    <2>4. {j \in Turn!RowsOf(memory[i].dev) : Turn!Newer(j, i)} = After(i, rows)
      BY <2>2, <2>3 DEF After
    <2> QED
      BY <2>4, TurnCardinality DEF Turn!Rank
  <1>4. /\ IsFiniteSet(rows) /\ N \in Nat
        /\ \A i \in rows : Turn!Rank(i) \in 1 .. N
        /\ \A i, j \in rows : i < j => Turn!Rank(j) < Turn!Rank(i)
    <2> HIDE DEF rows
    <2>1. /\ IsFiniteSet(rows) /\ N \in Nat
          /\ \A i \in rows : Cardinality(After(i, rows)) \in 0 .. N - 1
          /\ \A i, j \in rows :
                 i < j => Cardinality(After(j, rows)) < Cardinality(After(i, rows))
      BY <1>1, <1>2, AfterShrinks
    <2> QED
      BY <1>3, <2>1
  <1>5. ASSUME NEW n \in 1 .. N PROVE \E i \in rows : Turn!Rank(i) = n
    <2> HIDE DEF rows
    <2>1. \A i, j \in rows : rank[i] = rank[j] => i = j
      BY <1>1, <1>2, <1>4
    <2>2. rank \in Injection(rows, 1 .. N)
      BY <1>4, <2>1 DEF Injection, IsInjective
    <2>3. IsFiniteSet(1 .. N) /\ Cardinality(1 .. N) = N
      BY <1>4, FS_Interval
    <2>4. rank \in Surjection(rows, 1 .. N)
      BY <2>2, <2>3, FS_Injection
    <2> QED
      BY <2>4 DEF Surjection
  <1> QED
    BY <1>1, <1>2, <1>4, <1>5

\* The rows of the device, at most HistoryLimit of them, the oldest first and no
\* row left out for an older one, although the times of the rows may be equal.
LEMMA RecallIsLatest ==
    ASSUME Turn!TurnsAssumption, TurnTypes, RowsInOrder, NEW d
    PROVE  /\ Turn!Backwards(Turn!RecallRecent(d)) \in Seq(Nat)
           /\ IsLatest(Turn!Backwards(Turn!RecallRecent(d)), Turn!RowsOf(d))
  <1> DEFINE rows    == Turn!RowsOf(d)
             N       == Cardinality(rows)
             L       == Lesser(HistoryLimit, N)
             recent  == Turn!RecallRecent(d)
             history == Turn!Backwards(recent)
  <1>1. /\ rows \in SUBSET Nat /\ N \in Nat
        /\ \A i \in rows : Turn!Rank(i) \in 1 .. N
        /\ \A i, j \in rows : i < j => Turn!Rank(j) < Turn!Rank(i)
        /\ \A n \in 1 .. N : \E i \in rows : Turn!Rank(i) = n
    <2>1. memory \in Seq(TurnRows) /\ Len(memory) \in Nat /\ DOMAIN memory = 1 .. Len(memory)
      BY DEF TurnTypes
    <2> QED
      BY <2>1, RanksAreTaken
  <1>2. L \in Nat /\ L <= N
    BY <1>1, TurnConstants DEF Lesser
  <1>3. recent = [n \in 1 .. L |-> CHOOSE i \in rows : Turn!Rank(i) = n]
    BY TurnCardinality DEF Turn!RecallRecent, Turn!Lesser, Lesser
  <1>4. ASSUME NEW n \in 1 .. L
        PROVE  recent[n] \in rows /\ Turn!Rank(recent[n]) = n
    <2> HIDE DEF rows, recent
    <2>1. \E i \in rows : Turn!Rank(i) = n
      <3>1. n \in 1 .. N
        BY <1>1, <1>2
      <3> HIDE DEF N
      <3> QED
        BY <1>1, <3>1
    <2>2. recent[n] = CHOOSE i \in rows : Turn!Rank(i) = n
      BY <1>3
    <2> QED
      BY <2>1, <2>2
  <1> HIDE DEF rows, L, recent
  <1>5. DOMAIN recent = 1 .. L /\ Len(recent) = L
    BY <1>2, <1>3
  <1>6. history = [m \in 1 .. L |-> recent[L + 1 - m]]
    BY <1>5 DEF Turn!Backwards
  <1> HIDE DEF history
  <1>7. ASSUME NEW m \in 1 .. L
        PROVE  history[m] \in rows /\ Turn!Rank(history[m]) = L + 1 - m
    <2>1. L + 1 - m \in 1 .. L
      BY <1>2
    <2> QED
      BY <1>4, <1>6, <2>1
  <1>8. history \in Seq(Nat) /\ Len(history) = L /\ DOMAIN history = 1 .. L
    <2>1. \A m \in 1 .. L : history[m] \in Nat
      BY <1>1, <1>7
    <2>2. history = [m \in 1 .. L |-> history[m]]
      BY <1>6
    <2> QED
      BY <1>2, <2>1, <2>2
  \* A row of a smaller rank is a later one.
  <1>9. ASSUME NEW i \in rows, NEW j \in rows, Turn!Rank(j) < Turn!Rank(i)
        PROVE  i < j
    <2>1. i \in Nat /\ j \in Nat /\ Turn!Rank(i) \in Int /\ Turn!Rank(j) \in Int
      BY <1>1
    <2>2. i # j
      BY <1>9, <2>1
    <2>3. ASSUME j < i PROVE FALSE
      <3>1. Turn!Rank(i) < Turn!Rank(j)
        BY <1>1, <2>3
      <3> QED
        BY <1>9, <2>1, <3>1
    <2> QED
      BY <2>1, <2>2, <2>3
  <1>10. ASSUME NEW i \in rows
         PROVE  \/ \E m \in DOMAIN history : history[m] = i
                \/ \A m \in DOMAIN history : i < history[m]
    <2>1. CASE Turn!Rank(i) <= L
      <3>1. L + 1 - Turn!Rank(i) \in 1 .. L
        BY <1>1, <1>2, <2>1
      <3>2. /\ history[L + 1 - Turn!Rank(i)] \in rows
            /\ Turn!Rank(history[L + 1 - Turn!Rank(i)]) = Turn!Rank(i)
        <4> DEFINE m == L + 1 - Turn!Rank(i)
        <4>1. L + 1 - m = Turn!Rank(i)
          BY <1>1, <1>2
        <4>2. m \in 1 .. L
          BY <3>1
        <4> HIDE DEF m
        <4>3. history[m] \in rows /\ Turn!Rank(history[m]) = Turn!Rank(i)
          BY <1>7, <4>1, <4>2
        <4> QED
          BY <4>3 DEF m
      <3>3. history[L + 1 - Turn!Rank(i)] = i
        <4> DEFINE j == history[L + 1 - Turn!Rank(i)]
        <4>1. j \in rows /\ Turn!Rank(j) = Turn!Rank(i)
          BY <3>2
        <4> HIDE DEF j
        <4>2. i \in Nat /\ j \in Nat /\ Turn!Rank(i) \in Int
          BY <1>1, <4>1
        <4>3. ~(i < j) /\ ~(j < i)
          BY <1>1, <4>1, <4>2
        <4> QED
          BY <4>2, <4>3 DEF j
      <3> QED
        BY <1>8, <3>1, <3>3
    <2>2. CASE Turn!Rank(i) > L
      <3> SUFFICES ASSUME NEW m \in 1 .. L PROVE i < history[m]
        BY <1>8
      <3>1. history[m] \in rows /\ Turn!Rank(history[m]) < Turn!Rank(i)
        BY <1>1, <1>2, <1>7, <2>2
      <3> QED
        BY <1>9, <3>1
    <2> QED
      BY <1>1, <1>2, <2>1, <2>2
  <1>11. ASSUME NEW m \in DOMAIN history, NEW n \in DOMAIN history, m < n
         PROVE  history[m] < history[n]
    <2>1. /\ history[m] \in rows /\ history[n] \in rows
          /\ Turn!Rank(history[m]) = L + 1 - m /\ Turn!Rank(history[n]) = L + 1 - n
      BY <1>7, <1>8
    <2>2. Turn!Rank(history[n]) < Turn!Rank(history[m])
      BY <1>2, <1>8, <1>11, <2>1
    <2> QED
      BY <1>9, <2>1, <2>2
  <1>12. \A m \in DOMAIN history : history[m] \in rows
    BY <1>7, <1>8
  <1>13. IsLatest(history, rows)
    BY <1>8, <1>10, <1>11, <1>12, TurnCardinality DEF IsLatest, L
  <1> QED
    BY <1>8, <1>13 DEF history, recent, rows

----------------------------------------------------------------------------
\* What a message on the wire can be taken for.

LEMMA TurnHandlers ==
    Turn!Handlers = {"audio", "stt", "vision", "task",
                     "sensor", "wake", "stream", "event", "frame", "beat"}
  BY DEF Turn!Handlers, Turn!AIPatterns, Turn!DevicePatterns

\* The topic that a program publishes on names the device, if the server can
\* tell it at all.
LEMMA TopicsNameDevices ==
    ASSUME NEW h \in Turn!Handlers, NEW d
    PROVE  /\ Turn!DeviceOf(Turn!TopicFor(h, d)) \in {d, Turn!NoDevice}
           /\ Turn!TopicFor(h, d)[2] = "devices" => 
                 h # "task" /\ Turn!DeviceOf(Turn!TopicFor(h, d)) = d
  <1> DEFINE P == Turn!Patterns(h)
             t == Turn!TopicFor(h, d)
  <1>1. CASE h \in {"stt", "vision"}
    <2>1. P = <<"naila", "ai", "processing", h, "+">>
      BY <1>1 DEF Turn!Patterns, Turn!AIPatterns
    <2>2. DOMAIN P = 1 .. 5 /\ P[1] = "naila" /\ P[2] = "ai" /\ P[3] = "processing" /\ P[5] = "+"
      BY <2>1
    <2>3. Len(t) = 5 /\ t[1] = "naila" /\ t[2] = "ai" /\ t[3] = "processing" /\ t[5] = d
      BY <1>1, <2>2 DEF Turn!TopicFor
    <2> QED
      BY <2>3 DEF Turn!DeviceOf
  <1>2. CASE h = "audio"
    <2>1. P = <<"naila", "device", "+", "audio">>
      BY <1>2 DEF Turn!Patterns, Turn!AIPatterns
    <2>2. DOMAIN P = 1 .. 4 /\ P[1] = "naila" /\ P[2] = "device"
      BY <2>1
    <2>3. Len(t) = 4 /\ t[2] = "device"
      BY <1>2, <2>2 DEF Turn!TopicFor
    <2> QED
      BY <2>3 DEF Turn!DeviceOf
  <1>3. CASE h = "task"
    <2>1. P = <<"naila", "ai", "orchestration", "main", "task">>
      BY <1>3 DEF Turn!Patterns, Turn!AIPatterns
    <2>2. /\ DOMAIN P = 1 .. 5 /\ P[1] = "naila" /\ P[2] = "ai" /\ P[3] = "orchestration"
          /\ P[5] = "task"
      BY <2>1
    <2>3. Len(t) = 5 /\ t[1] = "naila" /\ t[2] = "ai" /\ t[3] = "orchestration"
      BY <1>3, <2>2 DEF Turn!TopicFor
    <2> QED
      BY <2>3 DEF Turn!DeviceOf
  <1>4. CASE h \in {"sensor", "wake", "stream", "event", "frame", "beat"}
    <2>1. DOMAIN P = 1 .. 5 /\ P[1] = "naila" /\ P[2] = "devices" /\ P[3] = "+"
      BY <1>4 DEF Turn!Patterns, Turn!AIPatterns, Turn!DevicePatterns
    <2>2. Len(t) = 5 /\ t[1] = "naila" /\ t[2] = "devices" /\ t[3] = d
      BY <1>4, <2>1 DEF Turn!TopicFor
    <2> QED
      BY <1>4, <2>2 DEF Turn!DeviceOf
  <1> QED
    BY <1>1, <1>2, <1>3, <1>4, TurnHandlers

LEMMA MessageParts ==
    ASSUME NEW m \in TurnMessages
    PROVE  /\ m.dev \in Devices \cup {Turn!NoDevice} /\ m.words \in Spoken /\ m.band \in 0 .. 3
           /\ Turn!DeviceOf(m.topic) \in Devices \cup {Turn!NoDevice}
           /\ m.topic[2] = "devices" => Turn!DeviceOf(m.topic) \in Devices
  <1>1. PICK h \in Turn!Handlers, d \in Devices \cup {Turn!NoDevice}, w \in Spoken, b \in 0 .. 3 :
             m = Turn!Message(h, d, w, b) /\ (h # "task" => d \in Devices)
    BY TurnHandlers DEF TurnMessages
  <1>2. m.topic = Turn!TopicFor(h, d) /\ m.dev = d /\ m.words = w /\ m.band = b
    BY <1>1 DEF Turn!Message
  <1> QED
    BY <1>1, <1>2, TopicsNameDevices

LEMMA MessageTyped ==
    ASSUME NEW h \in Turn!Handlers, NEW d \in Devices \cup {Turn!NoDevice},
           h # "task" => d \in Devices, NEW w \in Spoken, NEW b \in 0 .. 3
    PROVE  Turn!Message(h, d, w, b) \in TurnMessages
  BY DEF TurnMessages

\* A message whose topic matches the pattern of the sensors or of the heartbeats.
LEMMA StatusNamesDevice ==
    ASSUME TurnTypes, Turn!Received("sensor") \/ Turn!Received("beat")
    PROVE  Turn!Origin \in Devices
  <1>1. PICK h \in {"sensor", "beat"} :
             wire # <<>> /\ Turn!TopicMatches(Head(wire).topic, Turn!Patterns(h))
    BY DEF Turn!Received
  <1>2. Head(wire) \in TurnMessages
    BY <1>1 DEF TurnTypes
  <1> DEFINE t == Head(wire).topic
             P == Turn!Patterns(h)
  <1>3. Len(P) = 5 /\ P[2] = "devices" /\ \A n \in 1 .. 5 : P[n] # "#"
    <2>1. P = <<"naila", "devices", "+", "sensors", "+">>
          \/ P = <<"naila", "devices", "+", "status", "heartbeat">>
      BY DEF Turn!Patterns, Turn!AIPatterns, Turn!DevicePatterns
    <2> QED
      BY <2>1
  <1>4. Len(t) = 5 /\ Turn!Agree(t, P, 5)
    BY <1>1, <1>3 DEF Turn!TopicMatches
  <1>5. t[2] = "devices"
    BY <1>3, <1>4 DEF Turn!Agree
  <1> QED
    BY <1>2, <1>5, MessageParts DEF Turn!Origin

----------------------------------------------------------------------------
\* What the steps do, and that everything keeps its type.

\* A step that leaves turns, memory and answers alone.
Aside == UNCHANGED <<turns, memory, clock, out>>

Starts ==
    /\ \E turn \in TurnRecords :
          /\ turn.at = "recall" /\ turn.seen = -1 /\ turn.history = <<>>
          /\ turns' = Append(turns, turn)
    /\ UNCHANGED <<memory, clock, out>>

\* What the device of a turn may have been told by a step.
Adds(k, text) == out' \in {out, Turn!Told(k, text)}

\* A step of a turn on its way through the graph, or the loss of its clip.
Proceeds ==
    /\ \E k \in DOMAIN turns : \E turn \in TurnRecords :
          /\ turns[k].at \in Turn!Stages /\ turn.at \in Turn!Stages \cup {"stopped"}
          /\ turn.dev = turns[k].dev /\ turn.user = turns[k].user /\ turn.via = turns[k].via
          /\ \/ turn.seen = turns[k].seen /\ turn.history = turns[k].history
             \/ turn.seen = -1 /\ turn.history = <<>>
             \/ /\ turn.seen = Len(memory)
                /\ turn.history = Turn!Backwards(Turn!RecallRecent(turns[k].dev))
          /\ turns[k].text \in {"", turn.text}
          /\ turns' = [turns EXCEPT ![k] = turn]
          /\ Adds(k, turn.text) /\ (out' # out => turn.via = "grpc" /\ turn.text # "")
    /\ UNCHANGED <<memory, clock>>

\* The end of a turn, with a row for it or without one.
Remembered(k) ==
    /\ clock' \in clock .. MaxTicks
    /\ memory' = Append(memory, Turn!Row(k, clock'))

Forgotten(k) ==
    /\ UNCHANGED <<memory, clock>>
    /\ turns[k].user \in Unheard \/ turns[k].text = ""

Ends ==
    \E k \in DOMAIN turns : \E outcome \in {"done", "failed"} :
        /\ turns[k].at = "commit"
        /\ turns' = [turns EXCEPT ![k].at = outcome]
        /\ \/ /\ outcome = "done" /\ (Remembered(k) \/ Forgotten(k))
              /\ Adds(k, turns[k].text) /\ (out' # out => turns[k].text # "")
           \/ outcome = "failed" /\ UNCHANGED <<memory, clock>> /\ Adds(k, "apology")

LEMMA SendsTyped ==
    ASSUME TurnTypes, NEW h \in Turn!Handlers, NEW d \in Devices \cup {Turn!NoDevice},
           h # "task" => d \in Devices, NEW w \in Spoken, NEW b \in 0 .. 3,
           MaxInputs \in Nat, Turn!Send(h, d, w, b)
    PROVE  TurnTypes' /\ Aside
  <1> DEFINE m == Turn!Message(h, d, w, b)
  <1>1. m \in TurnMessages
    BY MessageTyped
  <1> HIDE DEF m
  <1>2. wire' = Append(wire, m) /\ inputs' = inputs + 1 /\ inputs < MaxInputs
        /\ UNCHANGED <<link, turns, memory, clock, front, out, faults>>
    BY DEF Turn!Send, m
  <1>3. wire' \in Seq(TurnMessages)
    BY <1>1, <1>2 DEF TurnTypes
  <1>4. inputs' \in 0 .. MaxInputs
    BY <1>2 DEF TurnTypes
  <1> QED
    BY <1>2, <1>3, <1>4 DEF TurnTypes, Aside

LEMMA HandledTyped ==
    ASSUME TurnTypes, wire # <<>>, NEW ms \in Seq(TurnMessages), NEW f \in TurnFronts,
           Turn!Handled(ms, f)
    PROVE  TurnTypes' /\ Aside
  <1>1. wire' \in {Tail(wire) \o ms, Tail(wire)} /\ front' = f
        /\ UNCHANGED <<link, turns, memory, clock, out, inputs, faults>>
    BY DEF Turn!Handled, Turn!Published
  <1>2. Tail(wire) \in Seq(TurnMessages)
    BY DEF TurnTypes
  <1>3. Tail(wire) \o ms \in Seq(TurnMessages)
    BY <1>2, ConcatProperties
  <1> QED
    BY <1>1, <1>2, <1>3 DEF TurnTypes, Aside

LEMMA NoMessages == <<>> \in Seq(TurnMessages)
  OBVIOUS

LEMMA HandlersTyped ==
    ASSUME TurnTypes, MaxFaults \in Nat, QueueLimit \in Nat,
           \/ Turn!HandleSensorData \/ Turn!HandleHeartbeat \/ Turn!HandleWakeWord
           \/ Turn!HandleVisionEvent \/ Turn!HandleStreamOrFrame \/ Turn!HandleAudioInput
           \/ Turn!HandleVisionAnalysis \/ Turn!HandleSttResult \/ Turn!IncompleteTask
    PROVE  TurnTypes' /\ Aside
  <1>1. front \in TurnFronts
    BY DEF TurnTypes
  <1>2. wire # <<>>
    BY DEF Turn!HandleSensorData, Turn!HandleHeartbeat, Turn!HandleWakeWord,
           Turn!HandleVisionEvent, Turn!HandleStreamOrFrame, Turn!HandleAudioInput,
           Turn!HandleVisionAnalysis, Turn!HandleSttResult, Turn!IncompleteTask, Turn!Received
  <1>3. /\ Head(wire) \in TurnMessages
        /\ Turn!Origin \in Devices \cup {Turn!NoDevice}
        /\ Head(wire).words \in Spoken /\ Head(wire).band \in 0 .. 3
    <2>1. Head(wire) \in TurnMessages
      BY <1>2 DEF TurnTypes
    <2> QED
      BY <2>1, MessageParts DEF Turn!Origin
  <1>4. CASE Turn!HandleSensorData
    <2> DEFINE f == [front EXCEPT !.known = @ \cup {Turn!Origin},
                                  !.alerts = IF Head(wire).band = 0 THEN 1 ELSE @]
    <2>1. Turn!Received("sensor") /\ Turn!Handled(<<>>, f)
      BY <1>4 DEF Turn!HandleSensorData
    <2>2. Turn!Origin \in Devices
      BY <2>1, StatusNamesDevice
    <2>3. f \in TurnFronts
      <3> DEFINE alerts == IF Head(wire).band = 0 THEN 1 ELSE front.alerts
      <3>1. alerts \in 0 .. 1 /\ front.known \cup {Turn!Origin} \in SUBSET Devices
        BY <1>1, <2>2 DEF TurnFronts
      <3> HIDE DEF alerts
      <3>2. [front EXCEPT !.known = @ \cup {Turn!Origin}, !.alerts = alerts] \in TurnFronts
        BY <1>1, <3>1 DEF TurnFronts
      <3> QED
        BY <3>2 DEF alerts
    <2> HIDE DEF f
    <2> QED
      BY <1>2, <2>1, <2>3, NoMessages, HandledTyped
  <1>5. CASE Turn!HandleHeartbeat
    <2> DEFINE f == [front EXCEPT !.known = @ \cup {Turn!Origin}]
    <2>1. Turn!Received("beat") /\ Turn!Handled(<<>>, f)
      BY <1>5 DEF Turn!HandleHeartbeat
    <2>2. Turn!Origin \in Devices
      BY <2>1, StatusNamesDevice
    <2>3. f \in TurnFronts
      BY <1>1, <2>2 DEF TurnFronts
    <2> HIDE DEF f
    <2> QED
      BY <1>2, <2>1, <2>3, NoMessages, HandledTyped
  <1>6. CASE Turn!HandleWakeWord
    <2> DEFINE f == [front EXCEPT !.alerts = IF Head(wire).band >= 2 THEN 1 ELSE @]
    <2>1. Turn!Handled(<<>>, f)
      BY <1>6 DEF Turn!HandleWakeWord
    <2>2. f \in TurnFronts
      BY <1>1 DEF TurnFronts
    <2> HIDE DEF f
    <2> QED
      BY <1>2, <2>1, <2>2, NoMessages, HandledTyped
  <1>7. CASE Turn!HandleVisionEvent
    <2> DEFINE f == [front EXCEPT !.faces = @ \cup {Turn!Origin}]
    <2>1. Turn!Handled(<<>>, f)
      BY <1>7 DEF Turn!HandleVisionEvent
    <2>2. f \in TurnFronts
      BY <1>1, <1>3 DEF TurnFronts
    <2> HIDE DEF f
    <2> QED
      BY <1>2, <2>1, <2>2, NoMessages, HandledTyped
  <1>8. CASE Turn!HandleStreamOrFrame
    <2> DEFINE f == [front EXCEPT !.queue = IF @ < QueueLimit THEN @ + 1 ELSE @]
    <2>1. Turn!Handled(<<>>, f)
      BY <1>8 DEF Turn!HandleStreamOrFrame
    <2>2. f \in TurnFronts
      BY <1>1 DEF TurnFronts
    <2> HIDE DEF f
    <2> QED
      BY <1>2, <2>1, <2>2, NoMessages, HandledTyped
  <1>9. CASE Turn!HandleAudioInput \/ Turn!HandleVisionAnalysis \/ Turn!IncompleteTask
    <2>1. Turn!Handled(<<>>, front)
      BY <1>9 DEF Turn!HandleAudioInput, Turn!HandleVisionAnalysis, Turn!IncompleteTask
    <2> QED
      BY <1>1, <1>2, <2>1, NoMessages, HandledTyped
  <1>10. CASE Turn!HandleSttResult
    <2> DEFINE m  == Turn!Message("task", Turn!Origin, Head(wire).words, Head(wire).band)
               ms == IF Head(wire).words # "empty" /\ Head(wire).band >= 2 THEN << m >> ELSE <<>>
    <2>1. Turn!Handled(ms, front)
      BY <1>10 DEF Turn!HandleSttResult
    <2>2. m \in TurnMessages
      BY <1>3, MessageTyped, TurnHandlers
    <2> HIDE DEF m
    <2>3. ms \in Seq(TurnMessages)
      BY <2>2
    <2> HIDE DEF ms
    <2> QED
      BY <1>1, <1>2, <2>1, <2>3, HandledTyped
  <1> QED
    BY <1>4, <1>5, <1>6, <1>7, <1>8, <1>9, <1>10

LEMMA LinkTyped ==
    ASSUME TurnTypes, MaxFaults \in Nat, Turn!Redeliver \/ Turn!LinkLost \/ Turn!LinkBack
    PROVE  TurnTypes' /\ Aside
  <1>1. CASE Turn!Redeliver
    <2>1. /\ wire # <<>> /\ faults < MaxFaults /\ faults' = faults + 1
          /\ wire' = Append(wire, Head(wire))
          /\ UNCHANGED <<link, turns, memory, clock, front, out, inputs>>
      BY <1>1 DEF Turn!Redeliver
    <2>2. wire' \in Seq(TurnMessages) /\ faults' \in 0 .. MaxFaults
      BY <2>1 DEF TurnTypes
    <2> QED
      BY <2>1, <2>2 DEF TurnTypes, Aside
  <1>2. CASE Turn!LinkLost
    <2>1. /\ faults < MaxFaults /\ faults' = faults + 1 /\ wire' = <<>> /\ link' = FALSE
          /\ UNCHANGED <<turns, memory, clock, front, out, inputs>>
      BY <1>2 DEF Turn!LinkLost
    <2>2. wire' \in Seq(TurnMessages) /\ faults' \in 0 .. MaxFaults
      BY <2>1 DEF TurnTypes
    <2> QED
      BY <2>1, <2>2 DEF TurnTypes, Aside
  <1>3. CASE Turn!LinkBack
    BY <1>3 DEF Turn!LinkBack, TurnTypes, Aside
  <1> QED
    BY <1>1, <1>2, <1>3

\* The update of one turn.
LEMMA TurnUpdate ==
    ASSUME TurnTypes, NEW k \in DOMAIN turns, NEW turn \in TurnRecords,
           turns' = [turns EXCEPT ![k] = turn]
    PROVE  /\ turns' \in Seq(TurnRecords) /\ DOMAIN turns' = DOMAIN turns
           /\ turns'[k] = turn /\ \A j \in DOMAIN turns : j # k => turns'[j] = turns[j]
  BY DEF TurnTypes

LEMMA StartsTyped ==
    ASSUME TurnTypes, MaxFaults \in Nat, NEW via \in {"mqtt", "grpc"}, NEW d \in Devices,
           NEW w \in Spoken, NEW b \in 0 .. 3, Turn!StartTurn(via, d, w, b)
    PROVE  /\ faults' \in 0 .. MaxFaults
           /\ turns' \in Seq(TurnRecords)
           /\ \E turn \in TurnRecords :
                 /\ turn.at = "recall" /\ turn.seen = -1 /\ turn.history = <<>>
                 /\ turns' = Append(turns, turn)
  <1>1. PICK in \in Turn!ProcessInput(w) :
            /\ turns' = Append(turns,
                 [via |-> via, dev |-> d, band |-> b, user |-> in.user, intent |-> in.intent,
                  at |-> "recall", seen |-> -1, history |-> <<>>, text |-> "", heard |-> TRUE])
            /\ faults' = IF in.user = "" THEN faults + 1 ELSE faults
    BY DEF Turn!StartTurn
  <1>2. /\ in.user \in Spoken \cup {""} /\ in.intent \in {"time_query", "general", ""}
        /\ in.user = "" => faults < MaxFaults
    <2>1. \/ in = [user |-> w, intent |-> "time_query"] \/ in = [user |-> w, intent |-> "general"]
          \/ in = [user |-> "", intent |-> ""] /\ faults < MaxFaults
      BY DEF Turn!ProcessInput
    <2>2. w # "" /\ w \in Spoken
      BY DEF Spoken
    <2>3. CASE in = [user |-> w, intent |-> "time_query"]
      <3>1. in.user = w /\ in.intent = "time_query"
        BY <2>3
      <3> QED
        BY <2>2, <3>1
    <2>4. CASE in = [user |-> w, intent |-> "general"]
      <3>1. in.user = w /\ in.intent = "general"
        BY <2>4
      <3> QED
        BY <2>2, <3>1
    <2>5. CASE in = [user |-> "", intent |-> ""] /\ faults < MaxFaults
      <3>1. in.user = "" /\ in.intent = ""
        BY <2>5
      <3> QED
        BY <2>5, <3>1
    <2> QED
      BY <2>1, <2>3, <2>4, <2>5
  <1> DEFINE turn == [via |-> via, dev |-> d, band |-> b, user |-> in.user, intent |-> in.intent,
                      at |-> "recall", seen |-> -1, history |-> <<>>, text |-> "",
                      heard |-> TRUE]
  <1>3. turn \in TurnRecords
    <2>1. <<>> \in Seq(Nat) /\ "" \in Turn!Texts /\ "recall" \in Turn!Stages /\ -1 \in Int
      BY DEF Turn!Texts, Turn!Stages
    <2>2. ASSUME NEW user \in Spoken \cup {""}, NEW intent \in {"time_query", "general", ""}
          PROVE  [via |-> via, dev |-> d, band |-> b, user |-> user, intent |-> intent,
                  at |-> "recall", seen |-> -1, history |-> <<>>, text |-> "",
                  heard |-> TRUE] \in TurnRecords
      BY <2>1 DEF TurnRecords
    <2> QED
      BY <1>2, <2>2
  <1>4. turn.at = "recall" /\ turn.seen = -1 /\ turn.history = <<>>
    OBVIOUS
  <1>5. turns' = Append(turns, turn)
    BY <1>1
  <1> HIDE DEF turn
  <1>6. turns' \in Seq(TurnRecords)
    BY <1>3, <1>5 DEF TurnTypes
  <1>7. faults' \in 0 .. MaxFaults
    <2>1. faults \in 0 .. MaxFaults
      BY DEF TurnTypes
    <2>2. CASE in.user = ""
      <3>1. faults < MaxFaults /\ faults' = faults + 1
        BY <1>1, <1>2, <2>2
      <3> QED
        BY <2>1, <3>1
    <2>3. CASE in.user # ""
      BY <1>1, <2>1, <2>3
    <2> QED
      BY <2>2, <2>3
  <1> QED
    BY <1>3, <1>4, <1>5, <1>6, <1>7

LEMMA MainTaskTyped ==
    ASSUME TurnTypes, MaxFaults \in Nat, Turn!HandleMainTask
    PROVE  TurnTypes' /\ Starts
  <1>1. /\ wire # <<>> /\ Head(wire).dev # Turn!NoDevice
        /\ Turn!StartTurn("mqtt", Head(wire).dev, Head(wire).words, Head(wire).band)
        /\ wire' = Tail(wire)
        /\ UNCHANGED <<link, memory, clock, front, out, inputs>>
    BY DEF Turn!HandleMainTask, Turn!Received
  <1>2. Head(wire) \in TurnMessages /\ wire' \in Seq(TurnMessages)
    BY <1>1 DEF TurnTypes
  <1>3. /\ Head(wire).dev \in Devices /\ Head(wire).words \in Spoken
        /\ Head(wire).band \in 0 .. 3
    BY <1>1, <1>2, MessageParts
  <1>4. /\ faults' \in 0 .. MaxFaults
        /\ turns' \in Seq(TurnRecords)
        /\ \E turn \in TurnRecords :
              /\ turn.at = "recall" /\ turn.seen = -1 /\ turn.history = <<>>
              /\ turns' = Append(turns, turn)
    BY <1>1, <1>3, StartsTyped
  <1> QED
    BY <1>1, <1>2, <1>4 DEF TurnTypes, Starts

LEMMA GrpcTurnTyped ==
    ASSUME TurnTypes, MaxFaults \in Nat, MaxInputs \in Nat, NEW d \in Devices,
           NEW w \in Spoken, NEW b \in 0 .. 3, Turn!GrpcTurn(d, w, b)
    PROVE  TurnTypes' /\ Starts
  <1>1. /\ inputs < MaxInputs /\ inputs' = inputs + 1
        /\ Turn!StartTurn("grpc", d, w, b)
        /\ UNCHANGED <<wire, link, memory, clock, front, out>>
    BY DEF Turn!GrpcTurn
  <1>2. /\ faults' \in 0 .. MaxFaults
        /\ turns' \in Seq(TurnRecords)
        /\ \E turn \in TurnRecords :
              /\ turn.at = "recall" /\ turn.seen = -1 /\ turn.history = <<>>
              /\ turns' = Append(turns, turn)
    BY <1>1, StartsTyped
  <1>3. inputs' \in 0 .. MaxInputs
    BY <1>1 DEF TurnTypes
  <1> QED
    BY <1>1, <1>2, <1>3 DEF TurnTypes, Starts

LEMMA ToldTyped ==
    ASSUME TurnTypes, NEW k \in DOMAIN turns, NEW text \in Turn!Texts \cup {"apology"},
           Adds(k, text)
    PROVE  out' \in SUBSET TurnAnswers
  <1>1. turns[k] \in TurnRecords /\ k \in Nat
    BY DEF TurnTypes
  <1>2. turns[k].dev \in Devices
    BY <1>1 DEF TurnRecords
  <1>3. [dev |-> turns[k].dev, turn |-> k, text |-> text] \in TurnAnswers
    BY <1>1, <1>2 DEF TurnAnswers
  <1>4. out \in SUBSET TurnAnswers
    BY DEF TurnTypes
  <1> QED
    BY <1>3, <1>4 DEF Adds, Turn!Told

LEMMA ProceedsTyped ==
    ASSUME TurnTypes, NEW k \in DOMAIN turns, NEW turn \in TurnRecords,
           turns' = [turns EXCEPT ![k] = turn],
           faults' \in 0 .. MaxFaults, Adds(k, turn.text),
           UNCHANGED <<wire, link, memory, clock, front, inputs>>
    PROVE  TurnTypes'
  <1>1. turns' \in Seq(TurnRecords)
    BY TurnUpdate
  <1>2. turn.text \in Turn!Texts
    BY DEF TurnRecords
  <1>3. out' \in SUBSET TurnAnswers
    BY <1>2, ToldTyped
  <1> QED
    BY <1>1, <1>3 DEF TurnTypes

LEMMA RunTyped ==
    ASSUME Turn!TurnsAssumption, TurnTypes, RowsInOrder, NEW k,
           \/ Turn!RetrieveContext(k) \/ Turn!RecallFails(k) \/ Turn!FirstSentence(k)
           \/ Turn!DeliverSentence(k) \/ Turn!GenerateResponse(k) \/ Turn!GenerateFails(k)
           \/ Turn!Cancel(k) \/ Turn!Detach(k)
    PROVE  TurnTypes' /\ Proceeds
  <1>1. k \in DOMAIN turns
    BY DEF Turn!RetrieveContext, Turn!RecallFails, Turn!FirstSentence, Turn!DeliverSentence,
           Turn!GenerateResponse, Turn!GenerateFails, Turn!Cancel, Turn!Detach,
           Turn!Cancelled, Turn!Step
  <1>2. turns[k] \in TurnRecords
    BY <1>1 DEF TurnTypes
  <1>3. /\ turns[k].history \in Seq(Nat) /\ turns[k].seen \in Int
        /\ Len(memory) \in Int /\ faults \in 0 .. MaxFaults
    <2>1. turns[k].history \in Seq(Nat) /\ turns[k].seen \in Int
      BY <1>2 DEF TurnRecords
    <2>2. Len(memory) \in Int /\ faults \in 0 .. MaxFaults
      BY DEF TurnTypes
    <2> QED
      BY <2>1, <2>2
  <1>4. MaxFaults \in Nat
    BY TurnConstants
  <1>5. CASE Turn!RetrieveContext(k)
    <2> DEFINE seen    == IF Turn!SkipRecall(k) THEN -1 ELSE Len(memory)
               history == IF Turn!SkipRecall(k) THEN <<>>
                          ELSE Turn!Backwards(Turn!RecallRecent(turns[k].dev))
               turn    == [turns[k] EXCEPT !.at = "generate", !.seen = seen, !.history = history]
    <2>1. /\ turns[k].at = "recall" /\ turns' = [turns EXCEPT ![k] = turn]
          /\ UNCHANGED <<wire, link, memory, clock, front, out, inputs, faults>>
      BY <1>5 DEF Turn!RetrieveContext, Turn!Step
    <2>2. seen \in Int /\ history \in Seq(Nat)
      <3>1. Turn!Backwards(Turn!RecallRecent(turns[k].dev)) \in Seq(Nat)
        BY RecallIsLatest
      <3>2. <<>> \in Seq(Nat) /\ -1 \in Int
        OBVIOUS
      <3> QED
        BY <1>3, <3>1, <3>2
    <2>3. \/ seen = -1 /\ history = <<>>
          \/ seen = Len(memory) /\ history = Turn!Backwards(Turn!RecallRecent(turns[k].dev))
      OBVIOUS
    <2> HIDE DEF seen, history
    <2>4. turn \in TurnRecords
      BY <1>2, <2>2 DEF TurnRecords, Turn!Stages
    <2>5. /\ turn.at = "generate" /\ turn.dev = turns[k].dev /\ turn.user = turns[k].user
          /\ turn.via = turns[k].via /\ turn.text = turns[k].text
          /\ turn.seen = seen /\ turn.history = history
      BY <1>2 DEF TurnRecords
    <2> HIDE DEF turn
    <2>6. Adds(k, turn.text) /\ out' = out
      BY <2>1 DEF Adds
    <2> QED
      BY <1>1, <1>3, <2>1, <2>3, <2>4, <2>5, <2>6, ProceedsTyped DEF Proceeds, Turn!Stages
  <1>6. ASSUME NEW to \in Turn!Stages \cup {"stopped"}, NEW text \in Turn!Texts,
               NEW heard \in BOOLEAN,
               turns[k].at \in Turn!Stages, turns[k].text \in {"", text},
               faults' \in {faults, faults + 1}, faults' # faults => faults < MaxFaults,
               turns' = [turns EXCEPT ![k] =
                           [turns[k] EXCEPT !.at = to, !.text = text, !.heard = heard]],
               Adds(k, text), out' # out => turns[k].via = "grpc" /\ text # "",
               UNCHANGED <<wire, link, memory, clock, front, inputs>>
        PROVE  TurnTypes' /\ Proceeds
    <2> DEFINE turn == [turns[k] EXCEPT !.at = to, !.text = text, !.heard = heard]
    <2>1. turn \in TurnRecords
      BY <1>2, <1>6 DEF TurnRecords, Turn!Stages, Turn!Outcomes
    <2>2. /\ turn.at = to /\ turn.dev = turns[k].dev /\ turn.user = turns[k].user
          /\ turn.via = turns[k].via /\ turn.text = text
          /\ turn.seen = turns[k].seen /\ turn.history = turns[k].history
      BY <1>2 DEF TurnRecords
    <2>3. turns' = [turns EXCEPT ![k] = turn]
      BY <1>6
    <2> HIDE DEF turn
    <2>4. faults' \in 0 .. MaxFaults
      <3>1. faults' = faults \/ (faults' = faults + 1 /\ faults < MaxFaults)
        BY <1>6
      <3> QED
        BY <1>3, <1>4, <3>1
    <2>5. Adds(k, turn.text) /\ (out' # out => turn.via = "grpc" /\ turn.text # "")
      BY <1>6, <2>2
    <2>6. TurnTypes'
      BY <1>1, <1>6, <2>1, <2>3, <2>4, <2>5, ProceedsTyped
    <2>7. Proceeds
      BY <1>1, <1>6, <2>1, <2>2, <2>3, <2>5 DEF Proceeds
    <2> QED
      BY <2>6, <2>7
  <1>7. turns[k].text \in Turn!Texts /\ turns[k].heard \in BOOLEAN
    BY <1>2 DEF TurnRecords
  <1>8. CASE Turn!RecallFails(k)
    <2>1. /\ turns[k].at = "recall" /\ faults < MaxFaults /\ faults' = faults + 1
          /\ turns' = [turns EXCEPT ![k] = [turns[k] EXCEPT !.at = "generate"]]
          /\ UNCHANGED <<wire, link, memory, clock, front, out, inputs>>
      BY <1>8 DEF Turn!RecallFails, Turn!Step
    <2>2. Adds(k, turns[k].text) /\ out' = out
      BY <2>1 DEF Adds
    <2>3. [turns[k] EXCEPT !.at = "generate"]
             = [turns[k] EXCEPT !.at = "generate", !.text = turns[k].text, !.heard = turns[k].heard]
      BY <1>2 DEF TurnRecords
    <2> QED
      BY <1>6, <1>7, <2>1, <2>2, <2>3 DEF Turn!Stages
  <1>9. CASE Turn!FirstSentence(k)
    <2>1. /\ turns[k].at = "generate" /\ turns[k].text = ""
          /\ turns' = [turns EXCEPT ![k] = [turns[k] EXCEPT !.text = "streamed"]]
          /\ UNCHANGED <<wire, link, memory, clock, front, out, inputs, faults>>
      BY <1>9 DEF Turn!FirstSentence, Turn!Step
    <2>2. Adds(k, "streamed") /\ out' = out /\ "streamed" \in Turn!Texts
      BY <2>1 DEF Adds, Turn!Texts
    <2>3. turns[k].at \in Turn!Stages /\ turns[k].text \in {"", "streamed"}
      BY <2>1 DEF Turn!Stages
    <2>4. [turns[k] EXCEPT !.text = "streamed"]
             = [turns[k] EXCEPT !.at = turns[k].at, !.text = "streamed", !.heard = turns[k].heard]
      BY <1>2 DEF TurnRecords
    <2> QED
      BY <1>6, <1>7, <2>1, <2>2, <2>3, <2>4
  <1>10. CASE Turn!DeliverSentence(k)
    <2>1. /\ turns[k].at = "generate" /\ turns[k].text = "streamed"
          /\ turns' = [turns EXCEPT ![k] = turns[k]]
          /\ out' = Turn!Told(k, "streamed")
          /\ UNCHANGED <<wire, link, memory, clock, front, inputs, faults>>
      BY <1>10 DEF Turn!DeliverSentence, Turn!Step
    <2>2. turns[k].via = "grpc"
      BY <1>10 DEF Turn!DeliverSentence, Turn!CanStream
    <2>3. Adds(k, turns[k].text)
      BY <2>1 DEF Adds
    <2>4. turns[k].at \in Turn!Stages /\ turns[k].text \in {"", turns[k].text}
          /\ turns[k].text # ""
      BY <2>1 DEF Turn!Stages
    <2>5. turns[k]
             = [turns[k] EXCEPT !.at = turns[k].at, !.text = turns[k].text, !.heard = turns[k].heard]
      BY <1>2 DEF TurnRecords
    <2> QED
      BY <1>6, <1>7, <2>1, <2>2, <2>3, <2>4, <2>5
  <1>11. CASE Turn!GenerateResponse(k)
    <2>1. PICK text \in Turn!Answers(k) :
             /\ turns[k].at = "generate"
             /\ turns' = [turns EXCEPT ![k] = [turns[k] EXCEPT !.at = "commit", !.text = text]]
             /\ \/ out' = out
                \/ turns[k].via = "grpc" /\ out' = Turn!Told(k, text)
             /\ UNCHANGED <<wire, link, memory, clock, front, inputs, faults>>
      BY <1>11 DEF Turn!GenerateResponse, Turn!Step
    <2>2. text \in Turn!Texts /\ text # "" /\ turns[k].text \in {"", text}
      BY <1>7 DEF Turn!Answers, Turn!DispatchAction, Turn!Texts
    <2>3. Adds(k, text) /\ (out' # out => turns[k].via = "grpc")
      BY <2>1 DEF Adds
    <2>4. turns[k].at \in Turn!Stages /\ "commit" \in Turn!Stages
      BY <2>1 DEF Turn!Stages
    <2>5. [turns[k] EXCEPT !.at = "commit", !.text = text]
             = [turns[k] EXCEPT !.at = "commit", !.text = text, !.heard = turns[k].heard]
      BY <1>2 DEF TurnRecords
    <2> QED
      BY <1>6, <1>7, <2>1, <2>2, <2>3, <2>4, <2>5
  <1>12. CASE Turn!GenerateFails(k)
    <2> DEFINE text == Turn!DispatchAction(k)
    <2>1. /\ turns[k].at = "generate" /\ turns[k].text = ""
          /\ faults < MaxFaults /\ faults' = faults + 1
          /\ turns' = [turns EXCEPT ![k] = [turns[k] EXCEPT !.at = "commit", !.text = text]]
          /\ UNCHANGED <<wire, link, memory, clock, front, out, inputs>>
      BY <1>12 DEF Turn!GenerateFails, Turn!Step
    <2>2. text \in Turn!Texts
      BY DEF Turn!DispatchAction, Turn!Texts
    <2> HIDE DEF text
    <2>3. Adds(k, text) /\ out' = out
      BY <2>1 DEF Adds
    <2>4. turns[k].at \in Turn!Stages /\ "commit" \in Turn!Stages
      BY <2>1 DEF Turn!Stages
    <2>5. [turns[k] EXCEPT !.at = "commit", !.text = text]
             = [turns[k] EXCEPT !.at = "commit", !.text = text, !.heard = turns[k].heard]
      BY <1>2 DEF TurnRecords
    <2> QED
      BY <1>6, <1>7, <2>1, <2>2, <2>3, <2>4, <2>5
  <1>13. CASE Turn!Cancel(k)
    <2>1. /\ turns[k].at \in Turn!Stages /\ faults < MaxFaults /\ faults' = faults + 1
          /\ turns' = [turns EXCEPT ![k] = [turns[k] EXCEPT !.at = "stopped"]]
          /\ UNCHANGED <<wire, link, memory, clock, front, out, inputs>>
      BY <1>13 DEF Turn!Cancel, Turn!Cancelled
    <2>2. Adds(k, turns[k].text) /\ out' = out
      BY <2>1 DEF Adds
    <2>3. [turns[k] EXCEPT !.at = "stopped"]
             = [turns[k] EXCEPT !.at = "stopped", !.text = turns[k].text, !.heard = turns[k].heard]
      BY <1>2 DEF TurnRecords
    <2> QED
      BY <1>6, <1>7, <2>1, <2>2, <2>3
  <1>14. CASE Turn!Detach(k)
    <2>1. /\ turns[k].at \in Turn!Stages /\ faults < MaxFaults /\ faults' = faults + 1
          /\ turns' = [turns EXCEPT ![k] = [turns[k] EXCEPT !.heard = FALSE]]
          /\ UNCHANGED <<wire, link, memory, clock, front, out, inputs>>
      BY <1>14 DEF Turn!Detach, Turn!Cancelled
    <2>2. Adds(k, turns[k].text) /\ out' = out
      BY <2>1 DEF Adds
    <2>3. [turns[k] EXCEPT !.heard = FALSE]
             = [turns[k] EXCEPT !.at = turns[k].at, !.text = turns[k].text, !.heard = FALSE]
      BY <1>2 DEF TurnRecords
    <2> QED
      BY <1>6, <1>7, <2>1, <2>2, <2>3
  <1> QED
    BY <1>5, <1>8, <1>9, <1>10, <1>11, <1>12, <1>13, <1>14

LEMMA RowTyped ==
    ASSUME TurnTypes, NEW k \in DOMAIN turns, NEW ts \in 0 .. MaxTicks
    PROVE  /\ Turn!Row(k, ts) \in TurnRows
           /\ Turn!Row(k, ts).dev = turns[k].dev /\ Turn!Row(k, ts).ts = ts
           /\ Turn!Row(k, ts).turn = k /\ Turn!Row(k, ts).text = turns[k].text
  <1>1. turns[k] \in TurnRecords /\ k \in Nat
    BY DEF TurnTypes
  <1>2. turns[k].dev \in Devices /\ turns[k].text \in Turn!Texts
    BY <1>1 DEF TurnRecords
  <1> QED
    BY <1>1, <1>2 DEF Turn!Row, TurnRows

LEMMA FinishTyped ==
    ASSUME TurnTypes, NEW k \in DOMAIN turns, NEW outcome \in {"done", "failed"},
           NEW text \in Turn!Texts \cup {"apology"}, Turn!Finish(k, outcome, text)
    PROVE  /\ turns' = [turns EXCEPT ![k].at = outcome] /\ turns' \in Seq(TurnRecords)
           /\ Adds(k, text) /\ (out' # out => text # "")
           /\ out' \in SUBSET TurnAnswers
           /\ UNCHANGED <<wire, link, front, inputs>>
  <1>1. turns[k] \in TurnRecords
    BY DEF TurnTypes
  <1>2. /\ turns' = [turns EXCEPT ![k].at = outcome]
        /\ Adds(k, text) /\ (out' # out => text # "")
        /\ UNCHANGED <<wire, link, front, inputs>>
    BY DEF Turn!Finish, Adds
  <1>3. [turns[k] EXCEPT !.at = outcome] \in TurnRecords
    BY <1>1 DEF TurnRecords, Turn!Outcomes
  <1>4. turns' \in Seq(TurnRecords)
    <2>1. turns' = [turns EXCEPT ![k] = [turns[k] EXCEPT !.at = outcome]]
      BY <1>2
    <2> QED
      BY <1>3, <2>1, TurnUpdate
  <1>5. out' \in SUBSET TurnAnswers
    BY <1>2, ToldTyped
  <1> QED
    BY <1>2, <1>4, <1>5

LEMMA CommitTyped ==
    ASSUME TurnTypes, MaxFaults \in Nat, MaxTicks \in Nat, NEW k,
           Turn!Commit(k) \/ Turn!CommitFails(k)
    PROVE  TurnTypes' /\ Ends
  <1>1. k \in DOMAIN turns /\ turns[k].at = "commit"
    BY DEF Turn!Commit, Turn!CommitFails
  <1>2. turns[k].text \in Turn!Texts
    <2>1. turns[k] \in TurnRecords
      BY <1>1 DEF TurnTypes
    <2> QED
      BY <2>1 DEF TurnRecords
  <1>3. CASE Turn!Commit(k)
    <2>1. faults' = faults /\ Turn!Finish(k, "done", turns[k].text)
      BY <1>3 DEF Turn!Commit
    <2>2. /\ turns' = [turns EXCEPT ![k].at = "done"] /\ turns' \in Seq(TurnRecords)
          /\ Adds(k, turns[k].text) /\ (out' # out => turns[k].text # "")
          /\ out' \in SUBSET TurnAnswers
          /\ UNCHANGED <<wire, link, front, inputs>>
      BY <1>1, <1>2, <2>1, FinishTyped
    <2>3. ASSUME Turn!Complete(k) PROVE TurnTypes' /\ Remembered(k)
      <3>1. PICK ts \in clock .. MaxTicks : clock' = ts /\ memory' = Append(memory, Turn!Row(k, ts))
        BY <1>3, <2>3 DEF Turn!Commit
      <3>2. ts \in 0 .. MaxTicks
        BY DEF TurnTypes
      <3>3. Turn!Row(k, ts) \in TurnRows
        BY <1>1, <3>2, RowTyped
      <3>4. memory' \in Seq(TurnRows)
        BY <3>1, <3>3 DEF TurnTypes
      <3>5. TurnTypes'
        BY <2>1, <2>2, <3>1, <3>2, <3>4 DEF TurnTypes
      <3> QED
        BY <3>1, <3>5 DEF Remembered
    <2>4. ASSUME ~Turn!Complete(k) PROVE TurnTypes' /\ Forgotten(k)
      <3>1. UNCHANGED <<clock, memory>>
        BY <1>3, <2>4 DEF Turn!Commit
      <3>2. turns[k].user \in Unheard \/ turns[k].text = ""
        BY <2>4 DEF Turn!Complete, Unheard
      <3>3. TurnTypes'
        BY <2>1, <2>2, <3>1 DEF TurnTypes
      <3> QED
        BY <3>1, <3>2, <3>3 DEF Forgotten
    <2> QED
      BY <1>1, <2>2, <2>3, <2>4 DEF Ends
  <1>4. CASE Turn!CommitFails(k)
    <2>1. /\ faults < MaxFaults /\ faults' = faults + 1
          /\ Turn!Finish(k, "failed", "apology")
          /\ UNCHANGED <<memory, clock>>
      BY <1>4 DEF Turn!CommitFails
    <2>2. /\ turns' = [turns EXCEPT ![k].at = "failed"] /\ turns' \in Seq(TurnRecords)
          /\ Adds(k, "apology")
          /\ out' \in SUBSET TurnAnswers
          /\ UNCHANGED <<wire, link, front, inputs>>
      BY <1>1, <2>1, FinishTyped
    <2>3. faults' \in 0 .. MaxFaults
      BY <2>1 DEF TurnTypes
    <2>4. TurnTypes'
      BY <2>1, <2>2, <2>3 DEF TurnTypes
    <2>5. Ends
      BY <1>1, <2>1, <2>2 DEF Ends
    <2> QED
      BY <2>4, <2>5
  <1> QED
    BY <1>3, <1>4

\* Every step is of one of the four kinds.
LEMMA TurnStepKinds ==
    ASSUME Turn!TurnsAssumption, TurnTypes, RowsInOrder, Turn!Next
    PROVE  TurnTypes' /\ (Aside \/ Starts \/ Proceeds \/ Ends)
  <1>1. MaxFaults \in Nat /\ QueueLimit \in Nat /\ MaxInputs \in Nat /\ MaxTicks \in Nat
    BY TurnConstants
  <1>2. CASE Turn!Arrive
    <2>1. PICK d \in Devices :
             \/ \E u \in Utterances :
                   \/ Turn!Send("stt", d, u[1], u[2]) \/ Turn!GrpcTurn(d, u[1], u[2])
                   \/ \E e \in {d, Turn!NoDevice} : Turn!Send("task", e, u[1], u[2])
             \/ \E h \in Turn!Handlers \ {"stt", "task"} : \E b \in {0, 3} :
                   Turn!Send(h, d, "empty", b)
      BY <1>2 DEF Turn!Arrive
    <2>2. CASE \E u \in Utterances :
                   \/ Turn!Send("stt", d, u[1], u[2]) \/ Turn!GrpcTurn(d, u[1], u[2])
                   \/ \E e \in {d, Turn!NoDevice} : Turn!Send("task", e, u[1], u[2])
      <3>1. PICK u \in Utterances :
                   \/ Turn!Send("stt", d, u[1], u[2]) \/ Turn!GrpcTurn(d, u[1], u[2])
                   \/ \E e \in {d, Turn!NoDevice} : Turn!Send("task", e, u[1], u[2])
        BY <2>2
      <3>2. u[1] \in Spoken /\ u[2] \in 0 .. 3
        BY DEF Turn!TurnsAssumption, Spoken
      <3>3. CASE Turn!Send("stt", d, u[1], u[2])
        BY <1>1, <3>2, <3>3, SendsTyped, TurnHandlers
      <3>4. CASE Turn!GrpcTurn(d, u[1], u[2])
        BY <1>1, <3>2, <3>4, GrpcTurnTyped
      <3>5. CASE \E e \in {d, Turn!NoDevice} : Turn!Send("task", e, u[1], u[2])
        <4>1. PICK e \in {d, Turn!NoDevice} : Turn!Send("task", e, u[1], u[2])
          BY <3>5
        <4> QED
          BY <1>1, <3>2, <4>1, SendsTyped, TurnHandlers
      <3> QED
        BY <3>1, <3>3, <3>4, <3>5
    <2>3. CASE \E h \in Turn!Handlers \ {"stt", "task"} : \E b \in {0, 3} :
                   Turn!Send(h, d, "empty", b)
      <3>1. PICK h \in Turn!Handlers \ {"stt", "task"}, b \in {0, 3} : Turn!Send(h, d, "empty", b)
        BY <2>3
      <3>2. b \in 0 .. 3 /\ "empty" \in Spoken /\ h # "task" /\ h \in Turn!Handlers
        BY DEF Spoken
      <3> QED
        BY <1>1, <3>1, <3>2, SendsTyped
    <2> QED
      BY <2>1, <2>2, <2>3
  <1>3. CASE Turn!Handle
    <2>1. CASE Turn!HandleMainTask
      BY <1>1, <2>1, MainTaskTyped
    <2>2. CASE \/ Turn!HandleSensorData \/ Turn!HandleHeartbeat \/ Turn!HandleWakeWord
               \/ Turn!HandleVisionEvent \/ Turn!HandleStreamOrFrame \/ Turn!HandleAudioInput
               \/ Turn!HandleVisionAnalysis \/ Turn!HandleSttResult \/ Turn!IncompleteTask
      BY <1>1, <2>2, HandlersTyped
    <2> QED
      BY <1>3, <2>1, <2>2 DEF Turn!Handle
  <1>4. ASSUME NEW k, Turn!Run(k) \/ Turn!Fail(k)
        PROVE  TurnTypes' /\ (Proceeds \/ Ends)
    <2>1. CASE Turn!Commit(k) \/ Turn!CommitFails(k)
      BY <1>1, <2>1, CommitTyped
    <2>2. CASE \/ Turn!RetrieveContext(k) \/ Turn!RecallFails(k) \/ Turn!FirstSentence(k)
               \/ Turn!DeliverSentence(k) \/ Turn!GenerateResponse(k) \/ Turn!GenerateFails(k)
               \/ Turn!Cancel(k) \/ Turn!Detach(k)
      BY <2>2, RunTyped
    <2> QED
      BY <1>4, <2>1, <2>2 DEF Turn!Run, Turn!Fail
  <1>5. CASE Turn!Redeliver \/ Turn!LinkLost \/ Turn!LinkBack
    BY <1>1, <1>5, LinkTyped
  <1> QED
    BY <1>2, <1>3, <1>4, <1>5 DEF Turn!Next

----------------------------------------------------------------------------
\* The invariants, by kind of step.

\* Memory only grows at its end.
LEMMA MemoryGrows ==
    ASSUME TurnTypes, NEW row \in TurnRows, memory' = Append(memory, row)
    PROVE  /\ Len(memory) \in Nat /\ DOMAIN memory = 1 .. Len(memory)
           /\ Len(memory') = Len(memory) + 1 /\ DOMAIN memory' = 1 .. Len(memory) + 1
           /\ \A i \in 1 .. Len(memory) : memory'[i] = memory[i]
           /\ memory'[Len(memory) + 1] = row
  BY DEF TurnTypes

\* What an Ends step that writes a row writes.
LEMMA EndsRow ==
    ASSUME TurnTypes, NEW k \in DOMAIN turns, clock' \in clock .. MaxTicks,
           memory' = Append(memory, Turn!Row(k, clock'))
    PROVE  LET row == Turn!Row(k, clock') IN
           /\ row \in TurnRows /\ row.dev = turns[k].dev /\ row.ts = clock' /\ row.turn = k
           /\ row.text = turns[k].text
  <1>1. clock' \in 0 .. MaxTicks
    BY DEF TurnTypes
  <1> QED
    BY <1>1, RowTyped

LEMMA EndsUpdate ==
    ASSUME TurnTypes, NEW k \in DOMAIN turns, NEW outcome, turns' = [turns EXCEPT ![k].at = outcome]
    PROVE  /\ DOMAIN turns' = DOMAIN turns
           /\ turns'[k].at = outcome
           /\ \A j \in DOMAIN turns :
                 /\ j # k => turns'[j] = turns[j]
                 /\ turns'[j].dev = turns[j].dev /\ turns'[j].user = turns[j].user
                 /\ turns'[j].seen = turns[j].seen /\ turns'[j].history = turns[j].history
                 /\ turns'[j].text = turns[j].text /\ turns'[j].via = turns[j].via
  <1>1. turns[k] \in TurnRecords
    BY DEF TurnTypes
  <1>2. /\ DOMAIN turns' = DOMAIN turns /\ turns'[k] = [turns[k] EXCEPT !.at = outcome]
        /\ \A j \in DOMAIN turns : j # k => turns'[j] = turns[j]
    BY DEF TurnTypes
  <1>3. /\ turns'[k].at = outcome
        /\ turns'[k].dev = turns[k].dev /\ turns'[k].user = turns[k].user
        /\ turns'[k].seen = turns[k].seen /\ turns'[k].history = turns[k].history
        /\ turns'[k].text = turns[k].text /\ turns'[k].via = turns[k].via
    BY <1>1, <1>2 DEF TurnRecords
  <1> QED
    BY <1>2, <1>3

LEMMA StartsUpdate ==
    ASSUME TurnTypes, NEW turn, turns' = Append(turns, turn)
    PROVE  /\ Len(turns) \in Nat /\ DOMAIN turns = 1 .. Len(turns)
           /\ DOMAIN turns' = 1 .. Len(turns) + 1
           /\ \A k \in DOMAIN turns : turns'[k] = turns[k]
           /\ turns'[Len(turns) + 1] = turn
  BY DEF TurnTypes

LEMMA OrderKept ==
    ASSUME TurnTypes, RowsInOrder, Aside \/ Starts \/ Proceeds \/ Ends
    PROVE  RowsInOrder'
  <1>1. CASE UNCHANGED <<memory, clock>>
    BY <1>1 DEF RowsInOrder
  <1>2. ASSUME NEW k \in DOMAIN turns, clock' \in clock .. MaxTicks,
               memory' = Append(memory, Turn!Row(k, clock'))
        PROVE  RowsInOrder'
    <2> DEFINE row == Turn!Row(k, clock')
    <2>1. row \in TurnRows /\ row.ts = clock'
      BY <1>2, EndsRow
    <2> HIDE DEF row
    <2>2. /\ Len(memory) \in Nat /\ DOMAIN memory = 1 .. Len(memory)
          /\ DOMAIN memory' = 1 .. Len(memory) + 1
          /\ \A i \in 1 .. Len(memory) : memory'[i] = memory[i]
          /\ memory'[Len(memory) + 1] = row
      BY <1>2, <2>1, MemoryGrows DEF row
    <2>3. clock \in Int /\ clock' \in Int /\ clock <= clock'
      BY <1>2 DEF TurnTypes
    <2>4. \A i \in 1 .. Len(memory) : memory[i].ts \in Int
      <3> SUFFICES ASSUME NEW i \in 1 .. Len(memory) PROVE memory[i].ts \in Int
        OBVIOUS
      <3>1. memory[i] \in TurnRows
        BY <2>2 DEF TurnTypes
      <3> QED
        BY <3>1 DEF TurnRows
    <2>5. \A i \in DOMAIN memory' : memory'[i].ts <= clock'
      BY <2>1, <2>2, <2>3, <2>4 DEF RowsInOrder
    <2>6. ASSUME NEW i \in DOMAIN memory', NEW j \in DOMAIN memory', i < j
          PROVE  memory'[i].ts <= memory'[j].ts
      <3>1. CASE j = Len(memory) + 1
        BY <2>1, <2>2, <2>5, <3>1
      <3>2. CASE j # Len(memory) + 1
        <4>1. i \in DOMAIN memory /\ j \in DOMAIN memory
          BY <2>2, <2>6, <3>2
        <4> QED
          BY <2>2, <2>6, <4>1 DEF RowsInOrder
      <3> QED
        BY <3>1, <3>2
    <2> QED
      BY <2>5, <2>6 DEF RowsInOrder
  <1> QED
    BY <1>1, <1>2 DEF Aside, Starts, Proceeds, Ends, Remembered, Forgotten

\* What was the past of a device stays that when rows are added.
LEMMA PastKept ==
    ASSUME TurnTypes, NEW n \in 0 .. Len(memory), NEW d,
           \/ memory' = memory
           \/ \E row \in TurnRows : memory' = Append(memory, row)
    PROVE  /\ OwnRows(d, n)' = OwnRows(d, n)
           /\ n \in 0 .. Len(memory')
  <1>1. /\ \A i \in 1 .. n : memory'[i] = memory[i]
        /\ n \in 0 .. Len(memory')
    BY MemoryGrows DEF TurnTypes
  <1> QED
    BY <1>1 DEF OwnRows

LEMMA HistoryKept ==
    ASSUME Turn!TurnsAssumption, TurnTypes, RowsInOrder, HistoryInv,
           Aside \/ Starts \/ Proceeds \/ Ends
    PROVE  HistoryInv'
  <1>1. \/ memory' = memory
        \/ \E row \in TurnRows : memory' = Append(memory, row)
    BY EndsRow DEF Aside, Starts, Proceeds, Ends, Remembered, Forgotten
  <1>2. ASSUME NEW n \in 0 .. Len(memory), NEW d
        PROVE  OwnRows(d, n)' = OwnRows(d, n) /\ n \in 0 .. Len(memory')
    BY <1>1, PastKept
  \* A turn that keeps what it has recalled, whatever else it does.
  <1>3. ASSUME NEW k \in DOMAIN turns, NEW turn,
               turn.dev = turns[k].dev, turn.seen = turns[k].seen,
               turn.history = turns[k].history
        PROVE  /\ turn.seen \in -1 .. Len(memory')
               /\ turn.seen = -1 => turn.history = <<>>
               /\ turn.seen >= 0 =>
                     IsLatest(turn.history, OwnRows(turn.dev, turn.seen)')
    <2>1. /\ turn.seen \in -1 .. Len(memory)
          /\ turn.seen = -1 => turn.history = <<>>
          /\ turn.seen >= 0 => IsLatest(turn.history, OwnRows(turn.dev, turn.seen))
      BY <1>3 DEF HistoryInv
    <2>2. CASE turn.seen = -1
      <3>1. Len(memory') \in Nat
        BY <1>2 DEF TurnTypes
      <3> QED
        BY <2>1, <2>2, <3>1
    <2>3. CASE turn.seen # -1
      <3>1. turn.seen \in 0 .. Len(memory)
        BY <2>1, <2>3 DEF TurnTypes
      <3>2. OwnRows(turn.dev, turn.seen)' = OwnRows(turn.dev, turn.seen)
            /\ turn.seen \in 0 .. Len(memory')
        BY <1>2, <3>1
      <3> QED
        BY <2>1, <3>1, <3>2
    <2> QED
      BY <2>2, <2>3
  <1>4. SUFFICES ASSUME NEW k \in DOMAIN turns', NEW turn, turn = turns'[k]
                 PROVE  /\ turn.seen \in -1 .. Len(memory')
                        /\ turn.seen = -1 => turn.history = <<>>
                        /\ turn.seen >= 0 =>
                              IsLatest(turn.history, OwnRows(turn.dev, turn.seen)')
    BY DEF HistoryInv, OwnRows
  <1>5. Len(memory) \in Nat /\ -1 \in -1 .. Len(memory)
    BY DEF TurnTypes
  <1>6. CASE Aside
    BY <1>3, <1>4, <1>6 DEF Aside
  <1>7. CASE Starts
    <2>1. PICK new \in TurnRecords :
             new.seen = -1 /\ new.history = <<>> /\ turns' = Append(turns, new)
      BY <1>7 DEF Starts
    <2>2. (k \in DOMAIN turns /\ turn = turns[k]) \/ turn = new
      BY <1>4, <2>1, StartsUpdate
    <2>3. memory' = memory
      BY <1>7 DEF Starts
    <2> QED
      BY <1>3, <1>5, <2>1, <2>2, <2>3
  <1>8. CASE Proceeds
    <2>1. PICK j \in DOMAIN turns, new \in TurnRecords :
             /\ new.dev = turns[j].dev
             /\ \/ new.seen = turns[j].seen /\ new.history = turns[j].history
                \/ new.seen = -1 /\ new.history = <<>>
                \/ /\ new.seen = Len(memory)
                   /\ new.history = Turn!Backwards(Turn!RecallRecent(turns[j].dev))
             /\ turns' = [turns EXCEPT ![j] = new]
      BY <1>8 DEF Proceeds
    <2>2. memory' = memory
      BY <1>8 DEF Proceeds
    <2>3. k \in DOMAIN turns /\ (k # j => turn = turns[k]) /\ (k = j => turn = new)
      BY <1>4, <2>1, TurnUpdate
    <2>4. CASE k # j
      BY <1>3, <2>2, <2>3, <2>4
    <2>5. CASE k = j
      <3>1. CASE new.seen = turns[j].seen /\ new.history = turns[j].history
        BY <1>3, <2>1, <2>2, <2>3, <2>5, <3>1
      <3>2. CASE new.seen = -1 /\ new.history = <<>>
        BY <1>5, <2>2, <2>3, <2>5, <3>2
      <3>3. CASE /\ new.seen = Len(memory)
                 /\ new.history = Turn!Backwards(Turn!RecallRecent(new.dev))
        <4>1. IsLatest(new.history, Turn!RowsOf(new.dev))
          BY <3>3, RecallIsLatest
        <4>2. Turn!RowsOf(new.dev) = OwnRows(new.dev, new.seen)
          BY <3>3 DEF TurnTypes, Turn!RowsOf, OwnRows
        <4>3. OwnRows(new.dev, new.seen)' = OwnRows(new.dev, new.seen)
          BY <2>2 DEF OwnRows
        <4>4. IsLatest(new.history, OwnRows(new.dev, new.seen)')
          BY <4>1, <4>2, <4>3
        <4>5. new.seen \in -1 .. Len(memory') /\ new.seen # -1
          BY <1>5, <2>2, <3>3
        <4> QED
          BY <2>3, <2>5, <4>4, <4>5
      <3> QED
        BY <2>1, <3>1, <3>2, <3>3
    <2> QED
      BY <2>4, <2>5
  <1>9. CASE Ends
    <2>1. PICK j \in DOMAIN turns, outcome \in {"done", "failed"} :
             turns' = [turns EXCEPT ![j].at = outcome]
      BY <1>9 DEF Ends
    <2>2. /\ k \in DOMAIN turns
          /\ turn.dev = turns[k].dev /\ turn.seen = turns[k].seen
          /\ turn.history = turns[k].history
      BY <1>4, <2>1, EndsUpdate
    <2> QED
      BY <1>3, <2>2
  <1> QED
    BY <1>6, <1>7, <1>8, <1>9

\* A step that writes no row changes no turn that has one.
LEMMA RowsStay ==
    ASSUME RowsInv, memory' = memory, DOMAIN turns \subseteq DOMAIN turns',
           \A k \in DOMAIN turns : turns[k].at = "done" => turns'[k] = turns[k]
    PROVE  RowsInv'
  <1>1. \A i \in DOMAIN memory' : memory'[i].turn # 0 =>
           /\ memory[i].turn \in DOMAIN turns'
           /\ turns'[memory[i].turn] = turns[memory[i].turn]
    BY DEF RowsInv
  <1> QED
    BY <1>1 DEF RowsInv

\* The row of a turn that comes to its end.
LEMMA RowsGrow ==
    ASSUME TurnTypes, RowsInv, NEW k \in DOMAIN turns, turns[k].at = "commit",
           turns' = [turns EXCEPT ![k].at = "done"], Remembered(k)
    PROVE  RowsInv' /\ \E i \in DOMAIN memory' : memory'[i].turn = k
  <1> DEFINE row == Turn!Row(k, clock')
             n   == Len(memory) + 1
  <1>1. /\ DOMAIN turns' = DOMAIN turns /\ turns'[k].at = "done"
        /\ turns'[k].dev = turns[k].dev /\ turns'[k].text = turns[k].text
        /\ \A j \in DOMAIN turns : j # k => turns'[j] = turns[j]
    BY EndsUpdate
  <1>2. row \in TurnRows /\ row.dev = turns[k].dev /\ row.turn = k /\ row.text = turns[k].text
    BY EndsRow DEF Remembered
  <1>3. memory' = Append(memory, row)
    BY DEF Remembered
  <1> HIDE DEF row
  <1>4. /\ Len(memory) \in Nat /\ DOMAIN memory = 1 .. Len(memory) /\ DOMAIN memory' = 1 .. n
        /\ \A i \in DOMAIN memory : memory'[i] = memory[i]
        /\ memory'[n] = row
    BY <1>2, <1>3, MemoryGrows
  <1>5. /\ \A i \in DOMAIN memory' : i \in DOMAIN memory \/ i = n
        /\ n \in DOMAIN memory'
    BY <1>4
  <1> HIDE DEF n
  <1>6. k # 0
    BY DEF TurnTypes
  \* The turn has no row yet.
  <1>7. \A i \in DOMAIN memory : memory[i].turn # 0 =>
           /\ memory[i].turn \in DOMAIN turns /\ memory[i].turn # k
           /\ turns'[memory[i].turn] = turns[memory[i].turn]
    BY <1>1 DEF RowsInv
  <1>8. ASSUME NEW i \in DOMAIN memory', NEW j \in DOMAIN memory',
               memory'[i].turn = memory'[j].turn
        PROVE  i = j \/ memory'[i].turn = 0
    <2>1. CASE i \in DOMAIN memory /\ j \in DOMAIN memory
      BY <1>4, <1>8, <2>1 DEF RowsInv
    <2>2. CASE i = n \/ j = n
      BY <1>2, <1>4, <1>5, <1>6, <1>7, <1>8, <2>2
    <2> QED
      BY <1>5, <2>1, <2>2
  <1>9. ASSUME NEW i \in DOMAIN memory', memory'[i].turn # 0
        PROVE  /\ memory'[i].turn \in DOMAIN turns'
               /\ turns'[memory'[i].turn].at = "done"
               /\ turns'[memory'[i].turn].text = memory'[i].text
               /\ turns'[memory'[i].turn].dev = memory'[i].dev
    <2>1. CASE i \in DOMAIN memory
      <3>1. memory'[i] = memory[i]
        BY <1>4, <2>1
      <3>2. /\ turns[memory[i].turn].at = "done"
            /\ turns[memory[i].turn].text = memory[i].text
            /\ turns[memory[i].turn].dev = memory[i].dev
        BY <1>9, <2>1, <3>1 DEF RowsInv
      <3>3. memory[i].turn \in DOMAIN turns' /\ turns'[memory[i].turn] = turns[memory[i].turn]
        BY <1>1, <1>7, <1>9, <2>1, <3>1
      <3> QED
        BY <3>1, <3>2, <3>3
    <2>2. CASE i = n
      BY <1>1, <1>2, <1>4, <2>2
    <2> QED
      BY <1>5, <2>1, <2>2
  <1>10. RowsInv'
    BY <1>8, <1>9 DEF RowsInv
  <1> QED
    BY <1>2, <1>4, <1>5, <1>10

\* What was told stays right while its turn goes on, fails or gets its row.
LEMMA ToldStays ==
    ASSUME NEW o, ToldRight(o), o.turn \in DOMAIN turns',
           turns'[o.turn].user = turns[o.turn].user, turns'[o.turn].via = turns[o.turn].via,
           turns[o.turn].text \in {"", turns'[o.turn].text},
           turns[o.turn].at = "failed" => turns'[o.turn].at = "failed",
           \/ turns'[o.turn].at # "done" \/ turns[o.turn].at = "done"
           \/ turns[o.turn].user \in Unheard \/ turns[o.turn].text = ""
           \/ \E i \in DOMAIN memory' : memory'[i].turn = o.turn,
           \A i \in DOMAIN memory : i \in DOMAIN memory' /\ memory'[i] = memory[i]
    PROVE  ToldRight(o)'
  <1>1. o.text = "apology" => turns'[o.turn].at = "failed"
    BY DEF ToldRight
  <1>2. ASSUME o.text # "apology"
        PROVE  /\ o.text = turns'[o.turn].text /\ o.text # ""
               /\ \/ turns'[o.turn].user \in Unheard
                  \/ \E i \in DOMAIN memory' : memory'[i].turn = o.turn
                  \/ turns'[o.turn].via = "grpc" /\ turns'[o.turn].at # "done"
    <2>1. o.text = turns[o.turn].text /\ o.text # ""
      BY <1>2 DEF ToldRight
    <2>2. \/ turns[o.turn].user \in Unheard
          \/ \E i \in DOMAIN memory : memory[i].turn = o.turn
          \/ turns[o.turn].via = "grpc" /\ turns[o.turn].at # "done"
      BY <1>2 DEF ToldRight
    <2> QED
      BY <2>1, <2>2
  <1> QED
    BY <1>1, <1>2 DEF ToldRight

\* What a step adds.
LEMMA AddsOne ==
    ASSUME NEW k, NEW text, Adds(k, text)
    PROVE  \A o \in out' : o \in out \/ (o.turn = k /\ o.text = text /\ out' # out)
  <1> DEFINE new == [dev |-> turns[k].dev, turn |-> k, text |-> text]
  <1>1. new.turn = k /\ new.text = text
    OBVIOUS
  <1>2. out' = out \/ out' = out \cup {new}
    BY DEF Adds, Turn!Told
  <1> HIDE DEF new
  <1> QED
    BY <1>1, <1>2

LEMMA RememberedStays ==
    ASSUME RememberedInv, UNCHANGED <<memory, out>>, DOMAIN turns \subseteq DOMAIN turns',
           \A k \in DOMAIN turns : turns'[k] = turns[k]
    PROVE  RememberedInv'
  <1>1. RowsInv'
    BY RowsStay DEF RememberedInv
  <1>2. ASSUME NEW o \in out' PROVE ToldRight(o)'
    <2>1. ToldRight(o)
      BY DEF RememberedInv, ToldInv
    <2>2. o.turn \in DOMAIN turns' /\ turns'[o.turn] = turns[o.turn]
      BY <2>1 DEF ToldRight
    <2> QED
      BY <2>1, <2>2, ToldStays
  <1> QED
    BY <1>1, <1>2 DEF RememberedInv, ToldInv

LEMMA RememberedOnTheWay ==
    ASSUME TurnTypes, RememberedInv, Proceeds
    PROVE  RememberedInv'
  <1>1. PICK k \in DOMAIN turns, turn \in TurnRecords :
           /\ turns[k].at \in Turn!Stages /\ turn.at \in Turn!Stages \cup {"stopped"}
           /\ turn.user = turns[k].user /\ turn.via = turns[k].via
           /\ turns[k].text \in {"", turn.text}
           /\ turns' = [turns EXCEPT ![k] = turn]
           /\ Adds(k, turn.text) /\ (out' # out => turn.via = "grpc" /\ turn.text # "")
    BY DEF Proceeds
  <1>2. memory' = memory
    BY DEF Proceeds
  <1>3. /\ DOMAIN turns' = DOMAIN turns /\ turns'[k] = turn
        /\ \A j \in DOMAIN turns : j # k => turns'[j] = turns[j]
    BY <1>1, TurnUpdate
  <1>4. turns[k].at \notin {"done", "failed"} /\ turn.at # "done"
    BY <1>1 DEF Turn!Stages
  <1>5. RowsInv'
    BY <1>2, <1>3, <1>4, RowsStay DEF RememberedInv
  <1>6. ASSUME NEW o \in out' PROVE ToldRight(o)'
    <2>1. CASE o \in out
      <3>1. ToldRight(o)
        BY <2>1 DEF RememberedInv, ToldInv
      <3>2. o.turn \in DOMAIN turns
        BY <3>1 DEF ToldRight
      <3>3. CASE o.turn # k
        BY <1>2, <1>3, <3>1, <3>2, <3>3, ToldStays
      <3>4. CASE o.turn = k
        BY <1>1, <1>2, <1>3, <1>4, <3>1, <3>4, ToldStays
      <3> QED
        BY <3>3, <3>4
    <2>2. CASE o.turn = k /\ o.text = turn.text /\ out' # out
      <3>1. turn.text # "apology"
        BY DEF TurnRecords, Turn!Texts
      <3> QED
        BY <1>1, <1>3, <1>4, <2>2, <3>1 DEF ToldRight
    <2>3. o \in out \/ (o.turn = k /\ o.text = turn.text /\ out' # out)
      <3>1. Adds(k, turn.text)
        BY <1>1
      <3> QED
        BY <3>1, AddsOne
    <2> QED
      BY <2>1, <2>2, <2>3
  <1> QED
    BY <1>5, <1>6 DEF RememberedInv, ToldInv

LEMMA RememberedAtEnd ==
    ASSUME TurnTypes, RememberedInv, Ends
    PROVE  RememberedInv'
  <1>1. PICK k \in DOMAIN turns, outcome \in {"done", "failed"} :
            /\ turns[k].at = "commit"
            /\ turns' = [turns EXCEPT ![k].at = outcome]
            /\ \/ /\ outcome = "done" /\ (Remembered(k) \/ Forgotten(k))
                  /\ Adds(k, turns[k].text) /\ (out' # out => turns[k].text # "")
               \/ outcome = "failed" /\ UNCHANGED <<memory, clock>> /\ Adds(k, "apology")
    BY DEF Ends
  <1>2. /\ DOMAIN turns' = DOMAIN turns /\ turns'[k].at = outcome
        /\ \A j \in DOMAIN turns :
              /\ j # k => turns'[j] = turns[j]
              /\ turns'[j].user = turns[j].user /\ turns'[j].via = turns[j].via
              /\ turns'[j].text = turns[j].text
    BY <1>1, EndsUpdate
  <1>3. \A i \in DOMAIN memory : i \in DOMAIN memory' /\ memory'[i] = memory[i]
    <2>1. CASE Remembered(k)
      <3>1. Turn!Row(k, clock') \in TurnRows /\ memory' = Append(memory, Turn!Row(k, clock'))
        BY <2>1, EndsRow DEF Remembered
      <3> QED
        BY <3>1, MemoryGrows
    <2>2. CASE memory' = memory
      BY <2>2
    <2> QED
      BY <1>1, <2>1, <2>2 DEF Forgotten
  <1>4. RowsInv'
    <2>1. CASE outcome = "done" /\ Remembered(k)
      BY <1>1, <2>1, RowsGrow DEF RememberedInv
    <2>2. CASE memory' = memory
      BY <1>1, <1>2, <2>2, RowsStay DEF RememberedInv
    <2> QED
      BY <1>1, <2>1, <2>2 DEF Forgotten
  <1>5. \/ outcome = "failed" \/ turns[k].user \in Unheard \/ turns[k].text = ""
        \/ \E i \in DOMAIN memory' : memory'[i].turn = k
    <2>1. CASE outcome = "done" /\ Remembered(k)
      BY <1>1, <2>1, RowsGrow DEF RememberedInv
    <2> QED
      BY <1>1, <2>1 DEF Forgotten
  <1>6. ASSUME NEW o \in out, ToldRight(o) PROVE ToldRight(o)'
    <2>1. o.turn \in DOMAIN turns
      BY <1>6 DEF ToldRight
    <2>2. CASE o.turn # k
      BY <1>2, <1>3, <1>6, <2>1, <2>2, ToldStays
    <2>3. CASE o.turn = k
      <3>1. turns[k].at # "failed"
        BY <1>1
      <3>2. \/ turns'[k].at # "done" \/ turns[k].user \in Unheard \/ turns[k].text = ""
            \/ \E i \in DOMAIN memory' : memory'[i].turn = k
        BY <1>2, <1>5
      <3> QED
        BY <1>2, <1>3, <1>6, <2>1, <2>3, <3>1, <3>2, ToldStays
    <2> QED
      BY <2>2, <2>3
  <1>7. ASSUME NEW o \in out' PROVE ToldRight(o)'
    <2>1. CASE o \in out
      BY <1>6, <2>1 DEF RememberedInv, ToldInv
    <2>2. CASE o \notin out /\ outcome = "done"
      <3>1. o.turn = k /\ o.text = turns[k].text /\ turns[k].text # ""
        <4> DEFINE text == turns[k].text
        <4>1. Adds(k, text) /\ (out' # out => text # "")
          BY <1>1, <2>2
        <4> HIDE DEF text
        <4>2. o.turn = k /\ o.text = text /\ text # ""
          <5>1. o \in out \/ (o.turn = k /\ o.text = text /\ out' # out)
            BY <4>1, AddsOne
          <5> QED
            BY <2>2, <4>1, <5>1
        <4> QED
          BY <4>2 DEF text
      <3>2. turns[k].text # "apology"
        <4>1. turns[k] \in TurnRecords
          BY DEF TurnTypes
        <4> QED
          BY <4>1 DEF TurnRecords, Turn!Texts
      <3>3. turns[k].user \in Unheard \/ \E i \in DOMAIN memory' : memory'[i].turn = k
        BY <1>5, <2>2, <3>1
      <3> QED
        BY <1>2, <3>1, <3>2, <3>3 DEF ToldRight
    <2>3. CASE o \notin out /\ outcome = "failed"
      <3>1. o.turn = k /\ o.text = "apology"
        BY <1>1, <2>3, AddsOne
      <3> QED
        BY <1>2, <2>3, <3>1 DEF ToldRight
    <2> QED
      BY <2>1, <2>2, <2>3
  <1> QED
    BY <1>4, <1>7 DEF RememberedInv, ToldInv

LEMMA RememberedKept ==
    ASSUME TurnTypes, RememberedInv, Aside \/ Starts \/ Proceeds \/ Ends
    PROVE  RememberedInv'
  <1>1. CASE Aside
    BY <1>1, RememberedStays DEF Aside
  <1>2. CASE Starts
    <2>1. UNCHANGED <<memory, out>> /\ \E turn : turns' = Append(turns, turn)
      BY <1>2 DEF Starts
    <2>2. DOMAIN turns \subseteq DOMAIN turns' /\ \A k \in DOMAIN turns : turns'[k] = turns[k]
      BY <2>1, StartsUpdate
    <2> QED
      BY <2>1, <2>2, RememberedStays
  <1> QED
    BY <1>1, <1>2, RememberedOnTheWay, RememberedAtEnd

\* What the invariant says to a device.
LEMMA RememberedMatches ==
    ASSUME TurnTypes, RememberedInv
    PROVE  MemoryMatchesTold
  <1>1. ASSUME NEW o \in out, NEW i \in DOMAIN memory, memory[i].turn = o.turn
        PROVE  memory[i].text = o.text
    <2>1. o.turn \in DOMAIN turns
      BY DEF RememberedInv, ToldInv, ToldRight
    <2>2. o.turn # 0
      BY <2>1 DEF TurnTypes
    <2>3. turns[o.turn].at = "done" /\ turns[o.turn].text = memory[i].text
      BY <1>1, <2>2 DEF RememberedInv, RowsInv
    <2>4. o.text # "apology"
      BY <2>3 DEF RememberedInv, ToldInv, ToldRight
    <2> QED
      BY <2>3, <2>4 DEF RememberedInv, ToldInv, ToldRight
  <1>2. \A o \in out : o.text # "apology" =>
          \/ turns[o.turn].user \in {"", "empty"}
          \/ \E i \in DOMAIN memory : memory[i].turn = o.turn
          \/ turns[o.turn].via = "grpc" /\ turns[o.turn].at # "done"
    BY DEF RememberedInv, ToldInv, ToldRight, Unheard
  <1>3. \A i, j \in DOMAIN memory :
           memory[i].turn = memory[j].turn => i = j \/ memory[i].turn = 0
    BY DEF RememberedInv, RowsInv
  <1>4. \A i \in DOMAIN memory : memory[i].turn # 0 =>
           /\ turns[memory[i].turn].at = "done"
           /\ turns[memory[i].turn].text = memory[i].text
           /\ turns[memory[i].turn].dev = memory[i].dev
    BY DEF RememberedInv, RowsInv
  <1> QED
    BY <1>1, <1>2, <1>3, <1>4 DEF MemoryMatchesTold

LEMMA TurnsInit ==
    ASSUME Turn!TurnsAssumption, Turn!Init
    PROVE  TurnsInv
  <1>1. /\ wire = <<>> /\ link = TRUE /\ turns = <<>> /\ memory \in Earlier /\ clock = 0
        /\ front = [known |-> {}, queue |-> 0, faces |-> {}, alerts |-> 0]
        /\ out = {} /\ inputs = 0 /\ faults = 0
    BY DEF Turn!Init
  <1>2. QueueLimit \in Nat /\ MaxInputs \in Nat /\ MaxFaults \in Nat /\ MaxTicks \in Nat
    BY TurnConstants
  <1>3. memory \in Seq([dev : Devices, ts : {0}, turn : {0}, text : Turn!Texts])
    BY <1>1 DEF Turn!TurnsAssumption
  <1>4. ASSUME NEW i \in DOMAIN memory
        PROVE  memory[i] \in TurnRows /\ memory[i].ts = 0 /\ memory[i].turn = 0
    <2> DEFINE old == [dev : Devices, ts : {0}, turn : {0}, text : Turn!Texts]
    <2>1. \A row \in old : row \in TurnRows /\ row.ts = 0 /\ row.turn = 0
      BY <1>2 DEF TurnRows
    <2>2. memory \in Seq(old)
      BY <1>3
    <2> HIDE DEF old
    <2>3. memory[i] \in old
      BY <2>2
    <2> QED
      BY <2>1, <2>3
  <1>5. memory \in Seq(TurnRows)
    <2>1. /\ Len(memory) \in Nat /\ DOMAIN memory = 1 .. Len(memory)
          /\ memory = [i \in 1 .. Len(memory) |-> memory[i]]
      BY <1>3
    <2> QED
      BY <1>4, <2>1
  <1>6. front \in TurnFronts
    BY <1>1, <1>2 DEF TurnFronts
  <1>7. TurnTypes
    BY <1>1, <1>2, <1>5, <1>6 DEF TurnTypes
  <1>8. RowsInOrder
    BY <1>1, <1>4 DEF RowsInOrder
  <1>9. HistoryInv
    BY <1>1 DEF HistoryInv
  <1>10. RememberedInv
    BY <1>1, <1>4 DEF RememberedInv, RowsInv, ToldInv
  <1> QED
    BY <1>7, <1>8, <1>9, <1>10 DEF TurnsInv

LEMMA TurnsNext ==
    ASSUME Turn!TurnsAssumption, TurnsInv, [Turn!Next]_Turn!vars
    PROVE  TurnsInv'
  <1> USE DEF TurnsInv
  <1>1. CASE Turn!Next
    BY <1>1, TurnStepKinds, OrderKept, HistoryKept, RememberedKept
  <1>2. CASE UNCHANGED Turn!vars
    <2>1. UNCHANGED <<wire, link, turns, memory, clock, front, out, inputs, faults>>
      BY <1>2 DEF Turn!vars
    <2>2. Aside
      BY <2>1 DEF Aside
    <2>3. TurnTypes'
      BY <2>1 DEF TurnTypes
    <2> QED
      BY <2>2, <2>3, OrderKept, HistoryKept, RememberedKept
  <1> QED
    BY <1>1, <1>2

----------------------------------------------------------------------------
\* The invariant of the turns.
THEOREM TurnsHold == ASSUME Turn!TurnsAssumption PROVE Turn!Spec => []TurnsInv
  <1>1. Turn!Init => TurnsInv
    BY TurnsInit
  <1>2. TurnsInv /\ [Turn!Next]_Turn!vars => TurnsInv'
    BY TurnsNext
  <1> QED
    BY <1>1, <1>2, PTL DEF Turn!Spec

\* Whatever arrives on the topics, the tables and queues of the handlers and the
\* turns keep their types and limits: no message makes a device of a topic that
\* names none, and no history is longer than the limit.
THEOREM TurnsTypeCorrect == ASSUME Turn!TurnsAssumption PROVE Turn!Spec => []Turn!TypeOK
  <1>1. TurnsInv => Turn!TypeOK
    <2> SUFFICES ASSUME TurnsInv PROVE Turn!TypeOK
      OBVIOUS
    <2>1. ASSUME NEW k \in DOMAIN turns
          PROVE  /\ turns[k].dev \in Devices \cup {Turn!NoDevice}
                 /\ turns[k].at \in Turn!Stages \cup Turn!Outcomes
                 /\ turns[k].text \in Turn!Texts
                 /\ Len(turns[k].history) <= HistoryLimit
      <3>1. turns[k] \in TurnRecords
        BY DEF TurnsInv, TurnTypes
      <3>2. Len(turns[k].history) <= HistoryLimit
        <4>1. HistoryLimit \in Nat
          BY TurnConstants
        <4>2. CASE turns[k].seen = -1
          BY <4>1, <4>2 DEF TurnsInv, HistoryInv
        <4>3. CASE turns[k].seen # -1
          <5>1. turns[k].seen \in 0 .. Len(memory)
            BY <4>3 DEF TurnsInv, HistoryInv, TurnTypes
          <5> DEFINE rows == OwnRows(turns[k].dev, turns[k].seen)
          <5>2. Len(turns[k].history) = Lesser(HistoryLimit, Cardinality(rows))
            BY <5>1, TurnCardinality DEF TurnsInv, HistoryInv, IsLatest
          <5>3. Cardinality(rows) \in Nat
            <6>1. rows \in SUBSET (1 .. turns[k].seen)
              BY DEF OwnRows
            <6>2. turns[k].seen \in Nat
              BY <5>1
            <6> HIDE DEF rows
            <6> QED
              BY <6>1, <6>2, AfterShrinks
          <5> QED
            BY <4>1, <5>2, <5>3 DEF Lesser
        <4> QED
          BY <4>2, <4>3
      <3> QED
        BY <3>1, <3>2 DEF TurnRecords
    <2>2. front.queue \in 0 .. QueueLimit /\ front.known \subseteq Devices
      BY DEF TurnsInv, TurnTypes, TurnFronts
    <2> QED
      BY <2>1, <2>2 DEF TurnsInv, TurnTypes, Turn!TypeOK
  <1> QED
    BY <1>1, TurnsHold, PTL

\* For any number of devices, rows and turns in any order, and for any limit: what
\* a turn recalls is the latest of its own device's past, in order.
THEOREM TurnsRecallThePast ==
    ASSUME Turn!TurnsAssumption PROVE Turn!Spec => []HistoryIsThePast
  <1>1. TurnsInv => HistoryIsThePast
    BY DEF TurnsInv, HistoryInv, HistoryIsThePast
  <1> QED
    BY <1>1, TurnsHold, PTL

\* For any number of turns over MQTT and gRPC, whatever fails or is cancelled: no
\* exchange is remembered twice, for a turn that was stopped or failed, or with
\* another answer than a device heard of it; and none that was told is forgotten
\* but where nothing was said to it, or where it was cut off before the commit.
THEOREM TurnsRememberAnswers ==
    ASSUME Turn!TurnsAssumption PROVE Turn!Spec => []MemoryMatchesTold
  <1>1. TurnsInv => MemoryMatchesTold
    BY RememberedMatches DEF TurnsInv
  <1> QED
    BY <1>1, TurnsHold, PTL

=============================================================================
