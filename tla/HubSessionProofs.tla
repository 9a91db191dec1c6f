-------------------------- MODULE HubSessionProofs --------------------------
(***************************************************************************)
(* What holds of the hub's sessions for every set of devices and requests  *)
(* and every channel capacity.                                             *)
(***************************************************************************)
EXTENDS HubSession, TLAPS

\* A session past its own device_cancel.cancel() is cancelled.
CleanedAreCancelled ==
  \A s \in Session :
    pc[s] \in {"cleanup", "unsubscribe", "deregister", "done"} => s \in cancelled

RegistryInv ==
  /\ TypeOK
  /\ NoStaleRegistration
  /\ CleanedAreCancelled
  /\ NoAbandonedSubscription

\* With serial connects: while a request is being handled nobody else's
\* session is registered for its device.
HandlerOwnsEntry ==
  \A s \in Session :
    /\ pc[s] = "negotiating" => device_tasks[DeviceOf[s]] = NoSession
    /\ pc[s] = "registered" => device_tasks[DeviceOf[s]] \in {s, NoSession}

SerialInv ==
  /\ TypeOK
  /\ OneHandlerPerDevice
  /\ CleanedAreCancelled
  /\ HandlerOwnsEntry
  /\ LiveIsRegistered
  /\ ConfigOfLiveSession

-----------------------------------------------------------------------------
LEMMA InitTypeOK == Init => TypeOK
  BY SessionAssumption, CapacityAssumption DEF Init, TypeOK, Stage

\* Every step of every handler, task and of the process keeps the types.
LEMMA NextTypeOK == TypeOK /\ [Next]_vars => TypeOK'
  <1> SUFFICES ASSUME TypeOK, [Next]_vars PROVE TypeOK'
    OBVIOUS
  <1> USE SessionAssumption, CapacityAssumption DEF TypeOK
  <1>1. ASSUME NEW s \in Session, Handler(s) \/ PeerClosed(s)
        PROVE TypeOK'
    BY <1>1 DEF Handler, PeerClosed, ConnectBegin, NegotiateFail, Register,
      StoreConfigAndSpawn, Goto, Stage
  <1>2. ASSUME NEW s \in Session, DeviceTask(s)
        PROVE TypeOK'
    <2> DEFINE d == DeviceOf[s]
    <2> d \in Device
      OBVIOUS
    <2>1. CASE Subscribe(s) \/ Unsubscribe(s)
      BY <2>1 DEF Subscribe, Unsubscribe, Goto, Stage
    <2>2. CASE Forward(s) \/ TtsChannelClosed(s) \/ TransportEnded(s)
                 \/ ObserveCancel(s) \/ CheckOwner(s)
      BY <2>2 DEF Forward, TtsChannelClosed, TransportEnded, ObserveCancel,
        CheckOwner, Goto, Stage
    <2>3. CASE SendFrame(s) \/ NotifyEnd(s)
      BY <2>3 DEF SendFrame, NotifyEnd, BusAccepts, Goto, Stage
    <2>4. CASE PlayTts(s)
      BY <2>4 DEF PlayTts, Goto, Stage
    <2>5. CASE CancelOwnToken(s)
      BY <2>5 DEF CancelOwnToken, Goto, Stage
    <2>6. CASE Deregister(s)
      BY <2>6 DEF Deregister, Goto, Stage
    <2> QED
      BY <1>2, <2>1, <2>2, <2>3, <2>4, <2>5, <2>6 DEF DeviceTask
  <1>3. CASE Process
    <2>1. ASSUME NEW d \in Device, RouteTts(d) PROVE TypeOK'
      BY <2>1 DEF RouteTts
    <2>2. CASE TakeFromBus
      BY <2>2 DEF TakeFromBus
    <2>3. CASE CtrlC
      <3>1. {device_tasks[d] : d \in Device} \ {NoSession} \subseteq Session
        OBVIOUS
      <3> QED
        BY <2>3, <3>1 DEF CtrlC
    <2>4. CASE GrpcClientReturns
      <3>1. bus' \in 0..BusCapacity
        BY <2>4, SMT DEF GrpcClientReturns
      <3> QED
        BY <2>4, <3>1, Zenon DEF GrpcClientReturns
    <2>5. CASE Exit
      BY <2>5 DEF Exit
    <2> QED
      BY <1>3, <2>1, <2>2, <2>3, <2>4, <2>5 DEF Process
  <1>4. CASE UNCHANGED vars
    BY <1>4 DEF vars
  <1> QED
    BY <1>1, <1>2, <1>3, <1>4 DEF Next

\* The hub's variables keep their types.
THEOREM TypeCorrect == Spec => []TypeOK
  BY InitTypeOK, NextTypeOK, PTL DEF Spec

-----------------------------------------------------------------------------
\* The parts of the hub that touch neither the registry nor the stages.
LEMMA ProcessFrame ==
  Process => /\ UNCHANGED <<pc, device_tasks, device_configs, tts_sub>>
             /\ cancelled \subseteq cancelled'
  BY DEF Process, RouteTts, TakeFromBus, CtrlC, GrpcClientReturns, Exit

\* No step takes a cancellation back.
LEMMA CancelIsForGood == [Next]_vars => cancelled \subseteq cancelled'
  BY ProcessFrame DEF Next, vars, Handler, PeerClosed, ConnectBegin,
    NegotiateFail, Register, StoreConfigAndSpawn, DeviceTask, Subscribe,
    Forward, SendFrame, PlayTts, TtsChannelClosed, TransportEnded,
    ObserveCancel, NotifyEnd, CancelOwnToken, CheckOwner, Unsubscribe,
    Deregister

LEMMA NextCleaned ==
  TypeOK /\ CleanedAreCancelled /\ [Next]_vars => CleanedAreCancelled'
  <1> SUFFICES ASSUME TypeOK, CleanedAreCancelled, [Next]_vars,
                      NEW t \in Session,
                      pc'[t] \in {"cleanup", "unsubscribe", "deregister", "done"}
               PROVE t \in cancelled'
    BY DEF CleanedAreCancelled
  <1> USE DEF TypeOK, CleanedAreCancelled
  <1>1. ASSUME NEW s \in Session, Handler(s) \/ PeerClosed(s)
        PROVE t \in cancelled'
    BY <1>1 DEF Handler, PeerClosed, ConnectBegin, NegotiateFail, Register,
      StoreConfigAndSpawn, Goto
  <1>2. ASSUME NEW s \in Session, DeviceTask(s)
        PROVE t \in cancelled'
    BY <1>2 DEF DeviceTask, Subscribe, Forward, SendFrame, PlayTts,
      TtsChannelClosed, TransportEnded, ObserveCancel, NotifyEnd,
      CancelOwnToken, CheckOwner, Unsubscribe, Deregister, Goto
  <1>3. CASE Process
    BY <1>3, ProcessFrame
  <1>4. CASE UNCHANGED vars
    BY <1>4 DEF vars
  <1> QED
    BY <1>1, <1>2, <1>3, <1>4 DEF Next

\* An entry names a session that is in its handler or has its task: a task
\* that returns has cancelled itself, so remove_if has taken its entry away.
LEMMA NextNoStale ==
  TypeOK /\ CleanedAreCancelled /\ NoStaleRegistration /\ [Next]_vars
    => NoStaleRegistration'
  <1> SUFFICES ASSUME TypeOK, CleanedAreCancelled, NoStaleRegistration,
                      [Next]_vars
               PROVE NoStaleRegistration'
    OBVIOUS
  <1> SUFFICES ASSUME NEW d \in Device, NEW t \in Session, device_tasks'[d] = t
               PROVE /\ DeviceOf[t] = d
                     /\ pc'[t] = "registered" \/ HasTask(t)'
    <2> device_tasks' \in [Device -> Session \cup {NoSession}]
      BY NextTypeOK DEF TypeOK
    <2> QED
      BY DEF NoStaleRegistration
  <1> USE SessionAssumption DEF TypeOK, HasTask
  <1>0. device_tasks[d] = t => /\ DeviceOf[t] = d
                               /\ pc[t] = "registered" \/ HasTask(t)
    BY DEF NoStaleRegistration
  <1>1. ASSUME NEW s \in Session, Handler(s) \/ PeerClosed(s)
        PROVE /\ DeviceOf[t] = d
              /\ pc'[t] = "registered" \/ HasTask(t)'
    BY <1>0, <1>1 DEF Handler, PeerClosed, ConnectBegin, NegotiateFail,
      Register, StoreConfigAndSpawn, Goto
  <1>2. ASSUME NEW s \in Session, DeviceTask(s)
        PROVE /\ DeviceOf[t] = d
              /\ pc'[t] = "registered" \/ HasTask(t)'
    <2>1. CASE Deregister(s)
      <3>1. s \in cancelled
        BY <2>1 DEF Deregister, CleanedAreCancelled
      <3>2. device_tasks[d] = t /\ t # s
        BY <1>0, <2>1, <3>1 DEF Deregister
      <3> QED
        BY <1>0, <2>1, <3>2 DEF Deregister, Goto
    <2>2. CASE ~Deregister(s)
      <3>1. device_tasks' = device_tasks
        BY <1>2, <2>2 DEF DeviceTask, Subscribe, Forward, SendFrame, PlayTts,
          TtsChannelClosed, TransportEnded, ObserveCancel, NotifyEnd,
          CancelOwnToken, CheckOwner, Unsubscribe
      <3>2. \/ pc' = pc
            \/ /\ HasTask(s)
               /\ \E stage \in {"running", "forwarding", "ending", "notified",
                                "cleanup", "unsubscribe", "deregister"} :
                    Goto(s, stage)
        BY <1>2, <2>2 DEF DeviceTask, Subscribe, Forward, SendFrame, PlayTts,
          TtsChannelClosed, TransportEnded, ObserveCancel, NotifyEnd,
          CancelOwnToken, CheckOwner, Unsubscribe, Goto
      <3> QED
        BY <1>0, <3>1, <3>2 DEF Goto
    <2> QED
      BY <2>1, <2>2
  <1>3. CASE Process
    BY <1>0, <1>3, ProcessFrame
  <1>4. CASE UNCHANGED vars
    BY <1>0, <1>4 DEF vars
  <1> QED
    BY <1>1, <1>2, <1>3, <1>4 DEF Next

\* A task that leaves tts_sub alone saw an uncancelled entry, and the session
\* it names has still to come to its own cleanup.
LEMMA CheckOwnerLeavesAnother ==
  ASSUME TypeOK, NoStaleRegistration, CleanedAreCancelled,
         NEW s \in Session, CheckOwner(s), pc'[s] = "deregister"
  PROVE  \E t \in Session : t # s /\ WillUnsubscribe(t, DeviceOf[s])'
  <1> DEFINE t == device_tasks[DeviceOf[s]]
  <1> USE SessionAssumption DEF TypeOK
  <1>1. t \in Session /\ t \notin cancelled /\ s \in cancelled
    BY DEF CheckOwner, Goto, CleanedAreCancelled
  <1>2. DeviceOf[t] = DeviceOf[s] /\ Uncleaned(t)
    BY <1>1 DEF NoStaleRegistration, CleanedAreCancelled, HasTask, Uncleaned
  <1> QED
    BY <1>1, <1>2 DEF CheckOwner, Goto, WillUnsubscribe, Uncleaned

\* Whatever else happens, the sessions that will look at tts_sub[d] still will.
LEMMA NextNoAbandoned ==
  RegistryInv /\ [Next]_vars => NoAbandonedSubscription'
  <1> SUFFICES ASSUME RegistryInv, [Next]_vars,
                      NEW d \in Device, tts_sub'[d] # NoSession
               PROVE \E s \in Session : WillUnsubscribe(s, d)'
    BY DEF NoAbandonedSubscription
  <1> USE SessionAssumption DEF TypeOK
  <1>0. /\ TypeOK
        /\ tts_sub[d] # NoSession => \E t \in Session : WillUnsubscribe(t, d)
    BY DEF RegistryInv, NoAbandonedSubscription
  <1>1. ASSUME NEW s \in Session, Handler(s) \/ PeerClosed(s)
        PROVE \E t \in Session : WillUnsubscribe(t, d)'
    <2>1. PICK t \in Session : WillUnsubscribe(t, d)
      BY <1>0, <1>1 DEF Handler, PeerClosed, ConnectBegin, NegotiateFail,
        Register, StoreConfigAndSpawn
    <2>2. WillUnsubscribe(t, d)'
      BY <1>0, <1>1, <2>1 DEF Handler, PeerClosed, ConnectBegin, NegotiateFail,
        Register, StoreConfigAndSpawn, Goto, WillUnsubscribe, Uncleaned
    <2> QED
      BY <2>2
  <1>2. ASSUME NEW s \in Session, DeviceTask(s)
        PROVE \E t \in Session : WillUnsubscribe(t, d)'
    <2>1. CASE Subscribe(s) /\ DeviceOf[s] = d
      <3>1. WillUnsubscribe(s, d)'
        BY <1>0, <2>1 DEF Subscribe, Goto, WillUnsubscribe, Uncleaned
      <3> QED
        BY <3>1
    <2>2. CASE Subscribe(s) /\ DeviceOf[s] # d
      <3>1. PICK t \in Session : WillUnsubscribe(t, d)
        BY <1>0, <2>2 DEF Subscribe
      <3>2. WillUnsubscribe(t, d)'
        BY <1>0, <2>2, <3>1 DEF Subscribe, Goto, WillUnsubscribe, Uncleaned
      <3> QED
        BY <3>2
    <2>3. CASE Unsubscribe(s)
      <3>1. DeviceOf[s] # d
        BY <1>0, <2>3 DEF Unsubscribe
      <3>2. PICK t \in Session : WillUnsubscribe(t, d)
        BY <1>0, <2>3, <3>1 DEF Unsubscribe
      <3>3. WillUnsubscribe(t, d)'
        BY <1>0, <2>3, <3>1, <3>2 DEF Unsubscribe, Goto, WillUnsubscribe, Uncleaned
      <3> QED
        BY <3>3
    <2>4. CASE CheckOwner(s) /\ pc'[s] = "deregister" /\ DeviceOf[s] = d
      BY <2>4, CheckOwnerLeavesAnother DEF RegistryInv
    <2>5. CASE CheckOwner(s) /\ ~(pc'[s] = "deregister" /\ DeviceOf[s] = d)
      <3>1. PICK t \in Session : WillUnsubscribe(t, d)
        BY <1>0, <2>5 DEF CheckOwner
      <3>2. WillUnsubscribe(t, d)'
        BY <1>0, <2>5, <3>1 DEF CheckOwner, Goto, WillUnsubscribe, Uncleaned
      <3> QED
        BY <3>2
    <2>6. CASE ~(Subscribe(s) \/ Unsubscribe(s) \/ CheckOwner(s))
      <3>1. PICK t \in Session : WillUnsubscribe(t, d)
        BY <1>0, <1>2, <2>6 DEF DeviceTask, Forward, SendFrame, PlayTts,
          TtsChannelClosed, TransportEnded, ObserveCancel, NotifyEnd,
          CancelOwnToken, Deregister
      <3>2. WillUnsubscribe(t, d)'
        BY <1>0, <1>2, <2>6, <3>1 DEF DeviceTask, Forward, SendFrame, PlayTts,
          TtsChannelClosed, TransportEnded, ObserveCancel, NotifyEnd,
          CancelOwnToken, Deregister, Goto, WillUnsubscribe, Uncleaned
      <3> QED
        BY <3>2
    <2> QED
      BY <1>2, <2>1, <2>2, <2>3, <2>4, <2>5, <2>6
  <1>3. CASE Process
    <2>1. PICK t \in Session : WillUnsubscribe(t, d)
      BY <1>0, <1>3, ProcessFrame
    <2>2. WillUnsubscribe(t, d)'
      BY <1>3, <2>1, ProcessFrame DEF WillUnsubscribe, Uncleaned
    <2> QED
      BY <2>2
  <1>4. CASE UNCHANGED vars
    BY <1>0, <1>4 DEF vars, WillUnsubscribe, Uncleaned
  <1> QED
    BY <1>1, <1>2, <1>3, <1>4 DEF Next

LEMMA InitRegistry == Init => RegistryInv
  <1> SUFFICES ASSUME Init PROVE RegistryInv
    OBVIOUS
  <1>1. TypeOK
    BY InitTypeOK
  <1>2. NoStaleRegistration /\ CleanedAreCancelled /\ NoAbandonedSubscription
    BY DEF Init, NoStaleRegistration, CleanedAreCancelled,
      NoAbandonedSubscription
  <1> QED
    BY <1>1, <1>2 DEF RegistryInv

LEMMA NextRegistry == RegistryInv /\ [Next]_vars => RegistryInv'
  BY NextTypeOK, NextCleaned, NextNoStale, NextNoAbandoned DEF RegistryInv

\* No entry of device_tasks names a session that is over.
THEOREM RegistrySound == Spec => []NoStaleRegistration
  <1>1. RegistryInv => NoStaleRegistration
    BY DEF RegistryInv
  <1> QED
    BY <1>1, InitRegistry, NextRegistry, PTL DEF Spec

\* Every Sender in tts_sub will be looked at by the cleanup of some session of
\* its device: none is left behind when the last session has ended.
THEOREM SubscriptionsCollected == Spec => []NoAbandonedSubscription
  <1>1. RegistryInv => NoAbandonedSubscription
    BY DEF RegistryInv
  <1> QED
    BY <1>1, InitRegistry, NextRegistry, PTL DEF Spec
-----------------------------------------------------------------------------
(* Devices that connect serially.                                          *)

LEMMA SerialIsNext == [SerialNext]_vars => [Next]_vars
  BY DEF SerialNext

\* Nobody registers a device between the removal at the start of a handler
\* and that handler's own insert.
LEMMA NextHandlerOwns ==
  SerialInv /\ [SerialNext]_vars => HandlerOwnsEntry'
  <1> SUFFICES ASSUME SerialInv, [SerialNext]_vars, NEW t \in Session
               PROVE /\ pc'[t] = "negotiating"
                          => device_tasks'[DeviceOf[t]] = NoSession
                     /\ pc'[t] = "registered"
                          => device_tasks'[DeviceOf[t]] \in {t, NoSession}
    BY DEF HandlerOwnsEntry
  <1> DEFINE Goal == /\ pc'[t] = "negotiating"
                          => device_tasks'[DeviceOf[t]] = NoSession
                     /\ pc'[t] = "registered"
                          => device_tasks'[DeviceOf[t]] \in {t, NoSession}
  <1> USE SessionAssumption DEF TypeOK
  <1>0. TypeOK /\ HandlerOwnsEntry /\ OneHandlerPerDevice
    BY DEF SerialInv
  <1>1. ASSUME NEW s \in Session, Handler(s) \/ PeerClosed(s), SerialNext
        PROVE Goal
    <2>1. OneHandlerPerDevice'
      BY <1>1 DEF SerialNext
    <2> QED
      BY <1>0, <1>1, <2>1 DEF Handler, PeerClosed, ConnectBegin, NegotiateFail,
        Register, StoreConfigAndSpawn, Goto, HandlerOwnsEntry,
        OneHandlerPerDevice, InHandler
  <1>2. ASSUME NEW s \in Session, DeviceTask(s)
        PROVE Goal
    BY <1>0, <1>2 DEF DeviceTask, Subscribe, Forward, SendFrame, PlayTts,
      TtsChannelClosed, TransportEnded, ObserveCancel, NotifyEnd,
      CancelOwnToken, CheckOwner, Unsubscribe, Deregister, Goto,
      HandlerOwnsEntry
  <1>3. CASE Process
    BY <1>0, <1>3, ProcessFrame DEF HandlerOwnsEntry
  <1>4. CASE UNCHANGED vars
    BY <1>0, <1>4 DEF vars, HandlerOwnsEntry
  <1> QED
    BY <1>1, <1>2, <1>3, <1>4 DEF Next, SerialNext

\* A live session leaves the registry only by being cancelled.
LEMMA NextLiveIsRegistered ==
  SerialInv /\ [SerialNext]_vars => LiveIsRegistered'
  <1> SUFFICES ASSUME SerialInv, [SerialNext]_vars, NEW t \in Session, Live(t)'
               PROVE device_tasks'[DeviceOf[t]] = t
    BY DEF LiveIsRegistered
  <1> USE SessionAssumption DEF TypeOK, Live, Uncleaned
  <1>0. /\ TypeOK /\ HandlerOwnsEntry /\ CleanedAreCancelled
        /\ Live(t) => device_tasks[DeviceOf[t]] = t
    BY DEF SerialInv, LiveIsRegistered
  <1>1. ASSUME NEW s \in Session, Handler(s) \/ PeerClosed(s)
        PROVE device_tasks'[DeviceOf[t]] = t
    <2>1. CASE Register(s)
      BY <1>0, <2>1 DEF Register, Goto, HandlerOwnsEntry
    <2>2. CASE ConnectBegin(s)
      BY <1>0, <2>2 DEF ConnectBegin, Goto
    <2>3. CASE NegotiateFail(s) \/ StoreConfigAndSpawn(s) \/ PeerClosed(s)
      BY <1>0, <2>3 DEF NegotiateFail, StoreConfigAndSpawn, PeerClosed, Goto
    <2> QED
      BY <1>1, <2>1, <2>2, <2>3 DEF Handler
  <1>2. ASSUME NEW s \in Session, DeviceTask(s)
        PROVE device_tasks'[DeviceOf[t]] = t
    BY <1>0, <1>2 DEF DeviceTask, Subscribe, Forward, SendFrame, PlayTts,
      TtsChannelClosed, TransportEnded, ObserveCancel, NotifyEnd,
      CancelOwnToken, CheckOwner, Unsubscribe, Deregister, Goto
  <1>3. CASE Process
    BY <1>0, <1>3, ProcessFrame
  <1>4. CASE UNCHANGED vars
    BY <1>0, <1>4 DEF vars
  <1> QED
    BY <1>1, <1>2, <1>3, <1>4 DEF Next, SerialNext

\* A handler that stores its capabilities has no live competitor.
LEMMA NextConfigOfLive ==
  SerialInv /\ [SerialNext]_vars => ConfigOfLiveSession'
  <1> SUFFICES ASSUME SerialInv, [SerialNext]_vars, NEW t \in Session,
                      Live(t)', HasTask(t)'
               PROVE device_configs'[DeviceOf[t]] = t
    BY DEF ConfigOfLiveSession
  <1> USE SessionAssumption DEF TypeOK, Live, Uncleaned, HasTask
  <1>0. /\ TypeOK /\ HandlerOwnsEntry
        /\ Live(t) => device_tasks[DeviceOf[t]] = t
        /\ Live(t) /\ HasTask(t) => device_configs[DeviceOf[t]] = t
    BY DEF SerialInv, LiveIsRegistered, ConfigOfLiveSession
  <1>1. ASSUME NEW s \in Session, Handler(s) \/ PeerClosed(s)
        PROVE device_configs'[DeviceOf[t]] = t
    BY <1>0, <1>1 DEF Handler, PeerClosed, ConnectBegin, NegotiateFail,
      Register, StoreConfigAndSpawn, Goto, HandlerOwnsEntry
  <1>2. ASSUME NEW s \in Session, DeviceTask(s)
        PROVE device_configs'[DeviceOf[t]] = t
    BY <1>0, <1>2 DEF DeviceTask, Subscribe, Forward, SendFrame, PlayTts,
      TtsChannelClosed, TransportEnded, ObserveCancel, NotifyEnd,
      CancelOwnToken, CheckOwner, Unsubscribe, Deregister, Goto
  <1>3. CASE Process
    BY <1>0, <1>3, ProcessFrame
  <1>4. CASE UNCHANGED vars
    BY <1>0, <1>4 DEF vars
  <1> QED
    BY <1>1, <1>2, <1>3, <1>4 DEF Next, SerialNext

LEMMA InitSerial == Init => SerialInv
  <1> SUFFICES ASSUME Init PROVE SerialInv
    OBVIOUS
  <1>1. TypeOK
    BY InitTypeOK
  <1>2. /\ OneHandlerPerDevice /\ CleanedAreCancelled /\ HandlerOwnsEntry
        /\ LiveIsRegistered /\ ConfigOfLiveSession
    BY DEF Init, OneHandlerPerDevice, CleanedAreCancelled, HandlerOwnsEntry,
      LiveIsRegistered, ConfigOfLiveSession, InHandler, Live, Uncleaned, HasTask
  <1> QED
    BY <1>1, <1>2 DEF SerialInv

LEMMA NextSerial == SerialInv /\ [SerialNext]_vars => SerialInv'
  <1> SUFFICES ASSUME SerialInv, [SerialNext]_vars PROVE SerialInv'
    OBVIOUS
  <1>1. TypeOK' /\ CleanedAreCancelled'
    BY SerialIsNext, NextTypeOK, NextCleaned DEF SerialInv
  <1>2. OneHandlerPerDevice'
    BY DEF SerialInv, SerialNext, OneHandlerPerDevice, InHandler, vars
  <1> QED
    BY <1>1, <1>2, NextHandlerOwns, NextLiveIsRegistered, NextConfigOfLive
    DEF SerialInv

\* Reconnect dedup works for a device that sends one POST /connect at a time:
\* it never has two sessions that nobody told to stop.
THEOREM OneLive == SerialSpec => []OneLiveSession
  <1>1. SerialInv => OneLiveSession
    BY DEF SerialInv, LiveIsRegistered, OneLiveSession
  <1> QED
    BY <1>1, InitSerial, NextSerial, PTL DEF SerialSpec

\* And every live session is the one the registry names: it gets the device's
\* audio and cancelling the registered token reaches it.
THEOREM LiveRegistered == SerialSpec => []LiveIsRegistered
  <1>1. SerialInv => LiveIsRegistered
    BY DEF SerialInv
  <1> QED
    BY <1>1, InitSerial, NextSerial, PTL DEF SerialSpec

\* A live session that has its task also finds its own capabilities stored:
\* neither an older session's cleanup nor an older connect overwrites them.
THEOREM ConfigsLive == SerialSpec => []ConfigOfLiveSession
  <1>1. SerialInv => ConfigOfLiveSession
    BY DEF SerialInv
  <1> QED
    BY <1>1, InitSerial, NextSerial, PTL DEF SerialSpec

=============================================================================
