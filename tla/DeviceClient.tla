---------------------------- MODULE DeviceClient ----------------------------
(***************************************************************************)
(* The device's audio client (devices/audio-client): the reconnect loop,   *)
(* the watchdog that restarts the audio pipeline, the PortAudio thread and *)
(* the threads of the default executor, in which everything that blocks is *)
(* run: reading the microphone queue, restarting and stopping the pipeline.*)
(*                                                                         *)
(* A job of the executor is <<"read", c>> for connection c, <<"restart",   *)
(* r>> or <<"stop", 0>>.  Stream 0 is the one of run(), stream r the one   *)
(* that restart r opened.  Lengths of timers are left out; what races them *)
(* is not.                                                                 *)
(***************************************************************************)
EXTENDS Naturals, Sequences, FiniteSets

CONSTANTS
    MaxConnections, \* bound: connections that succeed
    MaxRestarts,    \* bound: restarts in all
    MaxAttempts,    \* _RECOVERY_MAX_ATTEMPTS
    MaxWedges,      \* bound: times a running stream falls silent
    MicMax,         \* _MIC_QUEUE_MAX
    Workers         \* threads of the default executor

ASSUME ClientAssumption ==
    /\ {MaxConnections, MaxRestarts, MaxWedges} \subseteq Nat
    /\ {MaxAttempts, MicMax, Workers} \subseteq Nat \ {0}

VARIABLES
    client,     \* where run() stands
    conn,       \* the current connection's number, 0 before the first
    closed,     \* WebRTCClient._closed
    shutdown,   \* the shutdown event
    recovery,   \* where audio_recovery_loop stands
    attempt,    \* its attempt
    restarts,   \* restarts submitted so far
    fired,      \* the callback has fired since the watchdog read last_callback_monotonic
    ever,       \* last_callback_monotonic # 0.0
    stream,     \* AudioPipeline._stream
    audio,      \* audio[s]: what became of stream s
    wedges,     \* streams that have fallen silent so far
    portaudio,  \* PortAudio is initialised
    mic,        \* _mic_queue
    work,       \* the executor's queue
    stage,      \* stage[j]: where job j stands
    late        \* history: a restart outlived its wait_for or met stop()

vars == <<client, conn, closed, shutdown, recovery, attempt, restarts, fired,
          ever, stream, audio, wedges, portaudio, mic, work, stage, late>>

clientVars == <<client, conn, closed>>
watchVars  == <<recovery, attempt, restarts>>
deviceVars == <<stream, audio, wedges, portaudio>>
heardVars  == <<fired, ever>>

NoStream == MaxRestarts + 1
Streams  == 0 .. MaxRestarts
Stop     == <<"stop", 0>>
Read(c)  == <<"read", c>>
Jobs == {Read(c) : c \in 1 .. MaxConnections}
        \cup {<<"restart", r>> : r \in 1 .. MaxRestarts} \cup {Stop}
Restarts == Jobs \ ({Stop} \cup {Read(c) : c \in 1 .. MaxConnections})

ReadStages == {"getting"}
CallStages == {"closing", "forgetting", "terminating", "initialising",
               "creating", "starting", "putting"}
Ended == {"new", "returned", "failed", "stopped"}

\* The jobs that have a thread.
Running == {j \in Jobs : stage[j] \in ReadStages \cup CallStages}
\* The streams PortAudio has open, those it has started, and those whose
\* callback fires.
Opened == {s \in Streams : audio[s] \in {"unstarted", "firing", "silent"}}
Started == {s \in Streams : audio[s] \in {"firing", "silent"}}
Firing == {s \in Streams : audio[s] = "firing"}

TypeOK ==
    /\ client \in {"starting", "connecting", "connected", "backoff",
                   "stopping", "done", "exited"}
    /\ conn \in 0 .. MaxConnections
    /\ recovery \in {"off", "watching", "restarting", "confirming", "backoff",
                     "gave_up", "over"}
    /\ attempt \in 0 .. MaxAttempts
    /\ restarts \in 0 .. MaxRestarts
    /\ wedges \in 0 .. MaxWedges
    /\ stream \in Streams \cup {NoStream}
    /\ audio \in [Streams -> {"none", "unstarted", "firing", "silent", "gone"}]
    /\ mic \in Seq({"frame", "stop"}) /\ Len(mic) <= MicMax
    /\ work \in Seq(Jobs)
    /\ stage \in [Jobs -> {"queued"} \cup ReadStages \cup CallStages \cup Ended]
    /\ {closed, shutdown, fired, ever, portaudio, late} \subseteq BOOLEAN
    /\ Cardinality(Running) <= Workers

Init ==
    /\ client = "starting" /\ conn = 0 /\ closed = FALSE
    /\ shutdown = FALSE
    /\ recovery = "off" /\ attempt = 0 /\ restarts = 0
    /\ fired = FALSE /\ ever = FALSE
    /\ stream = NoStream /\ audio = [s \in Streams |-> "none"] /\ wedges = 0
    /\ portaudio = TRUE
    /\ mic = <<>>
    /\ work = <<>> /\ stage = [j \in Jobs |-> "new"]
    /\ late = FALSE

----------------------------------------------------------------------------
\* The executor.

\* run_in_executor: the job waits for a thread.
Submit(j) ==
    /\ work' = Append(work, j)
    /\ stage' = [stage EXCEPT ![j] = "queued"]

\* The queue without its job at place i.
Without(i) == SubSeq(work, 1, i - 1) \o SubSeq(work, i + 1, Len(work))

\* The awaiting task gives up: a job without a thread is cancelled with its
\* future, a running one goes on.
Abandon(j) ==
    IF stage[j] = "queued"
    THEN /\ \E i \in DOMAIN work : work[i] = j /\ work' = Without(i)
         /\ stage' = [stage EXCEPT ![j] = "failed"]
    ELSE UNCHANGED <<work, stage>>

\* A timeout of seconds: a job that has none by then found no free thread.
OutOfTime(j) ==
    /\ stage[j] \notin Ended
    /\ stage[j] = "queued" => Cardinality(Running) = Workers

FirstStage(j) == IF j \in Restarts \cup {Stop} THEN "closing" ELSE "getting"

\* A thread takes the next job.
TakeJob ==
    /\ work # <<>> /\ Cardinality(Running) < Workers
    /\ client # "exited"
    /\ work' = Tail(work)
    /\ stage' = [stage EXCEPT ![Head(work)] = FirstStage(Head(work))]
    /\ late' = \/ late
               \/ /\ Head(work) \in Restarts \cup {Stop}
                  /\ Running \cap (Restarts \cup {Stop}) # {}
    /\ UNCHANGED <<clientVars, shutdown, watchVars, heardVars, deviceVars, mic>>

\* One thread's step from stage "from" to stage "to".
Step(j, from, to) ==
    /\ stage[j] = from /\ client # "exited"
    /\ stage' = [stage EXCEPT ![j] = to]
    /\ UNCHANGED <<clientVars, shutdown, watchVars, heardVars, work, late>>

\* Mutations, one for each property of the run.

CloseStreamSkipped(j) ==
    Step(j, "closing", "forgetting") /\ UNCHANGED <<deviceVars, mic>>

ForgetStreamWithSentinel(j) ==
    /\ Step(j, "forgetting", IF j = Stop THEN "putting" ELSE "terminating")
    /\ stream' = NoStream
    /\ mic' = IF j # Stop /\ Len(mic) < MicMax THEN Append(mic, "stop") ELSE mic
    /\ UNCHANGED <<audio, wedges, portaudio>>

RestartTimesOutNever == FALSE /\ UNCHANGED vars

StopTimesOutNever == FALSE /\ UNCHANGED vars

\* _teardown_stream, in two steps: abort and close, calls that may block,
\* then the assignment.
CloseStream(j) ==
    /\ Step(j, "closing", "forgetting")
    /\ audio' = IF stream = NoStream THEN audio ELSE [audio EXCEPT ![stream] = "gone"]
    /\ UNCHANGED <<stream, wedges, portaudio, mic>>

ForgetStream(j) ==
    /\ Step(j, "forgetting", IF j = Stop THEN "putting" ELSE "terminating")
    /\ stream' = NoStream
    /\ UNCHANGED <<audio, wedges, portaudio, mic>>

\* sd._terminate closes what is open; when another restart has already done
\* it, it raises, and sd._initialize is skipped.
Terminate(j) ==
    /\ Step(j, "terminating", IF portaudio THEN "initialising" ELSE "creating")
    /\ portaudio' = FALSE
    /\ audio' = [s \in Streams |-> IF portaudio /\ s \in Opened THEN "gone" ELSE audio[s]]
    /\ UNCHANGED <<stream, wedges, mic>>

Initialize(j) ==
    /\ Step(j, "initialising", "creating")
    /\ portaudio' = TRUE
    /\ UNCHANGED <<stream, audio, wedges, mic>>

\* It raises: PortAudio stays terminated, and restart() goes on.
InitializeFails(j) ==
    /\ Step(j, "initialising", "creating")
    /\ UNCHANGED <<deviceVars, mic>>

\* start() opens a stream, which is the pipeline's from then on, and starts
\* what is the pipeline's by then: it may fire, or stay silent.
CreateStream(j) ==
    /\ portaudio
    /\ Step(j, "creating", "starting")
    /\ stream' = j[2]
    /\ audio' = [audio EXCEPT ![j[2]] = "unstarted"]
    /\ UNCHANGED <<wedges, portaudio, mic>>

StartStream(j) ==
    /\ stream # NoStream /\ audio[stream] = "unstarted"
    /\ Step(j, "starting", "returned")
    /\ \E a \in {"firing", "silent"} : audio' = [audio EXCEPT ![stream] = a]
    /\ UNCHANGED <<stream, wedges, portaudio, mic>>

\* Opening or starting it raises: the pipeline drops its stream, and one that
\* is open by then stays so.
CreateFails(j) ==
    /\ \E from \in {"creating", "starting"} : Step(j, from, "failed")
    /\ stream' = NoStream
    /\ UNCHANGED <<audio, wedges, portaudio, mic>>

\* stop()'s blocking put of the sentinel: it waits for room.
PutSentinel ==
    /\ Len(mic) < MicMax
    /\ Step(Stop, "putting", "returned")
    /\ mic' = Append(mic, "stop")
    /\ UNCHANGED deviceVars

----------------------------------------------------------------------------
\* The audio thread, and what happens to the device.

\* _callback: puts a microphone frame, dropping the oldest if there is no
\* room, and notes the time.
Callback ==
    /\ Firing # {} /\ client # "exited"
    /\ mic' = Append(IF Len(mic) = MicMax THEN Tail(mic) ELSE mic, "frame")
    /\ fired' = TRUE /\ ever' = TRUE
    /\ UNCHANGED <<clientVars, shutdown, watchVars, deviceVars, work, stage, late>>

Wedge(s) ==
    /\ audio[s] = "firing" /\ wedges < MaxWedges
    /\ wedges' = wedges + 1
    /\ audio' = [audio EXCEPT ![s] = "silent"]
    /\ UNCHANGED <<clientVars, shutdown, watchVars, heardVars, stream, portaudio,
                   mic, work, stage, late>>

----------------------------------------------------------------------------
\* The microphone track: MicTrack.recv over read_mic_frame.

Open(c) == client = "connected" /\ conn = c

\* A reader gets the head of the queue.  Its connection sends the frame and
\* asks for the next; without one the frame is lost.  The sentinel ends it.
GetFrame(c) ==
    /\ stage[Read(c)] = "getting" /\ mic # <<>> /\ client # "exited"
    /\ mic' = Tail(mic)
    /\ IF Head(mic) = "frame" /\ Open(c)
       THEN Submit(Read(c))
       ELSE /\ stage' = [stage EXCEPT ![Read(c)] =
                            IF Head(mic) = "stop" THEN "stopped" ELSE "returned"]
            /\ UNCHANGED work
    /\ UNCHANGED <<clientVars, shutdown, watchVars, heardVars, deviceVars, late>>

----------------------------------------------------------------------------
\* run(): the reconnect loop.

\* pipeline.start(), which may raise before or after it has opened a stream.
Start ==
    /\ client = "starting"
    /\ \/ /\ \E a \in {"firing", "silent"} : audio' = [audio EXCEPT ![0] = a]
          /\ stream' = 0 /\ client' = "connecting" /\ recovery' = "watching"
       \/ /\ client' = "done" /\ UNCHANGED <<stream, audio, recovery>>
       \/ /\ audio' = [audio EXCEPT ![0] = "unstarted"] /\ stream' = 0
          /\ client' = "done" /\ UNCHANGED recovery
    /\ UNCHANGED <<conn, closed, shutdown, attempt, restarts, heardVars, wedges,
                   portaudio, mic, work, stage, late>>

\* connect(): ICE gathering, the SDP exchange and the answer; it does not
\* listen to the shutdown event.  The peer connection's sender starts to pull
\* microphone frames.
Connect ==
    /\ client = "connecting" /\ conn < MaxConnections
    /\ client' = "connected" /\ conn' = conn + 1 /\ closed' = FALSE
    /\ Submit(Read(conn + 1))
    /\ UNCHANGED <<shutdown, watchVars, heardVars, deviceVars, mic, late>>

ConnectFails ==
    /\ client = "connecting"
    /\ client' = IF shutdown THEN "stopping" ELSE "backoff"
    /\ IF shutdown THEN Submit(Stop) ELSE UNCHANGED <<work, stage>>
    /\ UNCHANGED <<conn, closed, shutdown, watchVars, heardVars, deviceVars, mic, late>>

\* The peer connection fails or the TTS track ends.
TransportEnds ==
    /\ client = "connected" /\ ~closed
    /\ closed' = TRUE
    /\ UNCHANGED <<client, conn, shutdown, watchVars, heardVars, deviceVars, mic, work, stage, late>>

\* close(): the sender is stopped; its read goes on if it has a thread.
Close ==
    /\ client = "connected" /\ (closed \/ shutdown)
    /\ client' = "backoff" /\ closed' = TRUE
    /\ Abandon(Read(conn))
    /\ UNCHANGED <<conn, shutdown, watchVars, heardVars, deviceVars, mic, late>>

BackoffElapses ==
    /\ client = "backoff" /\ ~shutdown
    /\ client' = "connecting"
    /\ UNCHANGED <<conn, closed, shutdown, watchVars, heardVars, deviceVars, mic, work, stage, late>>

\* The shutdown event ends the loop; its finally hands stop() to the executor.
LeaveLoop ==
    /\ client = "backoff" /\ shutdown
    /\ client' = "stopping"
    /\ Submit(Stop)
    /\ UNCHANGED <<conn, closed, shutdown, watchVars, heardVars, deviceVars, mic, late>>

\* The end of run(): also recovery_task.cancel().
Finish ==
    /\ client' = "done"
    /\ recovery' = "over"
    /\ UNCHANGED <<conn, closed, shutdown, attempt, restarts, heardVars, deviceVars,
                   mic, late>>

StopReturns ==
    /\ client = "stopping" /\ stage[Stop] = "returned"
    /\ Finish /\ UNCHANGED <<work, stage>>

\* "exiting anyway"
StopTimesOut ==
    /\ client = "stopping" /\ OutOfTime(Stop)
    /\ Finish /\ Abandon(Stop)

\* asyncio.run and the interpreter join the executor's threads.
Exit ==
    /\ client = "done" /\ Running = {} /\ work = <<>>
    /\ client' = "exited"
    /\ UNCHANGED <<conn, closed, shutdown, watchVars, heardVars, deviceVars, mic, work, stage, late>>

\* The first signal sets the event, the second one is os._exit.
Signal ==
    /\ client \notin {"starting", "exited"}
    /\ shutdown' = TRUE
    /\ client' = IF shutdown THEN "exited" ELSE client
    /\ UNCHANGED <<conn, closed, watchVars, heardVars, deviceVars, mic, work,
                   stage, late>>

----------------------------------------------------------------------------
\* audio_recovery_loop.

TryRestart ==
    /\ restarts < MaxRestarts
    /\ recovery' = "restarting" /\ restarts' = restarts + 1
    /\ Submit(<<"restart", restarts + 1>>)

\* Three seconds without a callback, after there has been one.
NoticeStall ==
    /\ recovery = "watching" /\ ~shutdown
    /\ ever /\ Firing = {}
    /\ TryRestart
    /\ attempt' = 1 /\ fired' = FALSE
    /\ UNCHANGED <<clientVars, shutdown, ever, deviceVars, mic, late>>

\* A step of the loop that touches nothing but the loop.
Watch(to) ==
    /\ recovery' = to
    /\ UNCHANGED <<clientVars, shutdown, attempt, restarts, heardVars, deviceVars,
                   mic>>

RestartReturns ==
    /\ recovery = "restarting"
    /\ LET result == stage[<<"restart", restarts>>] IN
       /\ result \in Ended
       /\ Watch(IF result = "returned" THEN "confirming" ELSE "backoff")
    /\ UNCHANGED <<work, stage, late>>

RestartTimesOut ==
    /\ recovery = "restarting"
    /\ OutOfTime(<<"restart", restarts>>)
    /\ Watch("backoff")
    /\ Abandon(<<"restart", restarts>>)
    /\ late' = (late \/ stage[<<"restart", restarts>>] # "queued")

\* Half a second later: has the callback fired?
Confirm ==
    /\ recovery = "confirming"
    /\ Watch(IF fired THEN "watching" ELSE "backoff")
    /\ UNCHANGED <<work, stage, late>>

NextAttempt ==
    /\ recovery = "backoff" /\ ~shutdown /\ attempt < MaxAttempts
    /\ TryRestart
    /\ attempt' = attempt + 1
    /\ UNCHANGED <<clientVars, shutdown, heardVars, deviceVars, mic, late>>

GiveUp ==
    /\ recovery = "backoff" /\ ~shutdown /\ attempt = MaxAttempts
    /\ Watch("gave_up")
    /\ UNCHANGED <<work, stage, late>>

WatchEnds ==
    /\ recovery \in {"watching", "backoff"} /\ shutdown
    /\ Watch("over")
    /\ UNCHANGED <<work, stage, late>>

----------------------------------------------------------------------------
Call(j) == CloseStream(j) \/ ForgetStream(j) \/ Terminate(j) \/ Initialize(j)
           \/ InitializeFails(j) \/ CreateStream(j) \/ StartStream(j) \/ CreateFails(j)

Watchdog == NoticeStall \/ RestartReturns \/ RestartTimesOut \/ Confirm
            \/ NextAttempt \/ GiveUp \/ WatchEnds

Loop == Start \/ Connect \/ ConnectFails \/ Close \/ BackoffElapses \/ LeaveLoop
        \/ StopReturns \/ StopTimesOut \/ Exit

Next ==
    \/ Loop \/ Watchdog \/ Signal \/ TakeJob \/ PutSentinel
    \/ Callback \/ TransportEnds
    \/ \E j \in Restarts \cup {Stop} : Call(j)
    \/ \E c \in 1 .. MaxConnections : GetFrame(c)
    \/ \E s \in Streams : Wedge(s)

\* The event loop and its timers, the executor and the audio thread go on;
\* a Condition wakes its waiters in order, so no reader is passed over for
\* ever.  PortAudio's calls, which may block, need not return.
Fairness ==
    /\ WF_vars(Loop) /\ WF_vars(Watchdog) /\ WF_vars(TakeJob)
    /\ WF_vars(Callback) /\ WF_vars(PutSentinel)
    /\ \A c \in 1 .. MaxConnections : SF_vars(GetFrame(c))

Spec == Init /\ [][Next]_vars /\ Fairness

----------------------------------------------------------------------------
\* A stream that runs is the pipeline's, so that the next teardown finds it,
\* and no two are open, as long as no restart outlives its timeout or meets
\* another call.  (One that opened and did not start may be open and not the
\* pipeline's: the next restart's sd._terminate closes it, stop() does not.)
StreamOwned ==
    ~late /\ Running \cap (Restarts \cup {Stop}) = {} =>
        /\ Started \subseteq {stream}
        /\ \A s, t \in Opened : s = t

\* A restart leaves the microphone of the connection as it is (audio.py:142):
\* until shutdown an open connection has its reader, waiting or running.
MicSurvives ==
    \A c \in 1 .. MaxConnections :
        Open(c) /\ ~shutdown => stage[Read(c)] \in {"queued", "getting"}

\* A stall comes to an end, if only in giving up: also with every thread of
\* the executor blocked, or a restart that hangs.
StallEnds ==
    (ever /\ Firing = {})
        ~> (Firing # {} \/ recovery = "gave_up" \/ shutdown \/ restarts = MaxRestarts)

\* Ctrl-C ends run(), whatever the hub and the audio device do.
ShutdownCompletes == shutdown ~> client \in {"done", "exited"}

=============================================================================
