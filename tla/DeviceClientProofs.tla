------------------------- MODULE DeviceClientProofs -------------------------
(***************************************************************************)
(* What holds of the device's audio client for any number of connections,  *)
(* restarts, attempts and threads, and any capacity of the microphone      *)
(* queue.                                                                  *)
(***************************************************************************)
EXTENDS DeviceClient, FiniteSetTheorems, SequenceTheorems, TLAPS

\* The jobs that work on the pipeline.
Calls == Restarts \cup {Stop}
Working(j) == stage[j] \in CallStages

\* No queued job is one that was never submitted, and a job is submitted once,
\* except the reading of a connection.
SubmitInv ==
  /\ \A i \in DOMAIN work : stage[work[i]] # "new"
  /\ \A r \in 1 .. MaxRestarts : r > restarts => stage[<<"restart", r>>] = "new"
  /\ client \notin {"stopping", "done", "exited"} => stage[Stop] = "new"

\* The sentinel comes from stop(), and that from the shutdown.
QuietInv ==
  ~shutdown =>
    /\ stage[Stop] = "new" /\ client \notin {"stopping"}
    /\ \A i \in DOMAIN mic : mic[i] # "stop"

\* Before the pipeline is started nothing works on it.
BeginInv ==
  client = "starting" =>
    /\ recovery = "off" /\ work = <<>>
    /\ \A j \in Jobs : stage[j] = "new"
    /\ portaudio /\ \A s \in Streams : audio[s] = "none"

\* As long as no restart outlives its timeout or meets another call, one call
\* at a time works on the pipeline; when it has closed the stream none runs, and
\* when it has terminated PortAudio none is open.
Single == \A s, t \in Opened : s = t
Closed(j) == Working(j) /\ stage[j] # "closing"
Cleared(j) == stage[j] \in {"initialising", "creating"}

OwnedInv ==
  ~late =>
    /\ \A j, k \in Calls : Working(j) /\ Working(k) => j = k
    /\ (\A j \in Calls : ~Closed(j)) => Started \subseteq {stream}
    /\ \A j \in Calls : Closed(j) => Started = {}
    /\ \A j \in Calls : Cleared(j) => Opened = {}
    /\ ~portaudio => Opened = {}
    /\ Single

PipelineInv ==
  /\ TypeOK /\ IsFiniteSet(Running)
  /\ SubmitInv /\ QuietInv /\ BeginInv /\ OwnedInv /\ MicSurvives

-----------------------------------------------------------------------------
(* Constants and jobs.                                                     *)

LEMMA Constants ==
  /\ MaxConnections \in Nat /\ MaxRestarts \in Nat /\ MaxWedges \in Nat
  /\ MaxAttempts \in Nat \ {0} /\ MicMax \in Nat \ {0} /\ Workers \in Nat \ {0}
<1>1. {MaxConnections, MaxRestarts, MaxWedges} \subseteq Nat
  BY ClientAssumption
<1>2. {MaxAttempts, MicMax, Workers} \subseteq Nat \ {0}
  BY ClientAssumption
<1> QED
  BY <1>1, <1>2

LEMMA JobKinds ==
  /\ \A c, d : Read(c) = Read(d) => c = d
  /\ \A c, r : Read(c) # <<"restart", r>>
  /\ \A c : Read(c) # Stop
  /\ \A r : <<"restart", r>> # Stop
<1>1. \A c : Read(c)[1] = "read" /\ Read(c)[2] = c
  BY DEF Read
<1>2. \A r : <<"restart", r>>[1] = "restart" /\ <<"restart", r>>[2] = r
  OBVIOUS
<1>3. Stop[1] = "stop"
  BY DEF Stop
<1>4. \A c, d : Read(c) = Read(d) => c = d
  <2> SUFFICES ASSUME NEW c, NEW d, Read(c) = Read(d) PROVE c = d
    OBVIOUS
  <2>1. Read(c)[2] = c /\ Read(d)[2] = d
    BY <1>1
  <2> QED
    BY <2>1
<1>5. \A c, r : Read(c) # <<"restart", r>>
  BY <1>1, <1>2
<1>6. \A c : Read(c) # Stop
  BY <1>1, <1>3
<1>7. \A r : <<"restart", r>> # Stop
  BY <1>2, <1>3
<1> QED
  BY <1>4, <1>5, <1>6, <1>7

LEMMA JobSets ==
  /\ \A c \in 1 .. MaxConnections : Read(c) \in Jobs /\ Read(c) \notin Calls
  /\ \A r \in 1 .. MaxRestarts : <<"restart", r>> \in Restarts
  /\ Stop \in Jobs /\ Stop \in Calls /\ Calls \subseteq Jobs
  /\ \A j \in Restarts : \E r \in 1 .. MaxRestarts : j = <<"restart", r>>
  /\ \A j \in Calls : j[2] \in Streams
<1>1. \A c \in 1 .. MaxConnections : Read(c) \in Jobs /\ Read(c) \notin Calls
  BY JobKinds DEF Jobs, Calls, Restarts
<1>2. \A r \in 1 .. MaxRestarts : <<"restart", r>> \in Restarts
  BY JobKinds DEF Jobs, Restarts
<1>3. Stop \in Jobs /\ Stop \in Calls /\ Calls \subseteq Jobs
  BY DEF Jobs, Calls, Restarts
<1>4. \A j \in Restarts : \E r \in 1 .. MaxRestarts : j = <<"restart", r>>
  BY DEF Jobs, Restarts
<1>5. Stop[2] \in Streams
  BY Constants DEF Stop, Streams
<1>6. \A r \in 1 .. MaxRestarts : <<"restart", r>>[2] \in Streams
  BY Constants DEF Streams
<1>7. \A j \in Calls : j[2] \in Streams
  BY <1>4, <1>5, <1>6 DEF Calls
<1> QED
  BY <1>1, <1>2, <1>3, <1>4, <1>7

Stages == {"queued"} \cup ReadStages \cup CallStages \cup Ended

LEMMA StageNames ==
  /\ ReadStages \cup CallStages \subseteq Stages /\ Ended \subseteq Stages
  /\ "queued" \in Stages
  /\ {"new", "queued", "failed", "returned", "stopped"} \cap (ReadStages \cup CallStages) = {}
  /\ "getting" \notin CallStages
  BY DEF Stages, ReadStages, CallStages, Ended

Fates == {"none", "unstarted", "firing", "silent", "gone"}

\* Types by what they are of.
JobTypes ==
  /\ work \in Seq(Jobs)
  /\ stage \in [Jobs -> Stages]
  /\ Cardinality(Running) <= Workers

LoopTypes ==
  /\ client \in {"starting", "connecting", "connected", "backoff",
                 "stopping", "done", "exited"}
  /\ conn \in 0 .. MaxConnections
  /\ recovery \in {"off", "watching", "restarting", "confirming", "backoff",
                   "gave_up", "over"}
  /\ attempt \in 0 .. MaxAttempts
  /\ restarts \in 0 .. MaxRestarts
  /\ {closed, shutdown, fired, ever, late} \subseteq BOOLEAN

DeviceTypes ==
  /\ wedges \in 0 .. MaxWedges
  /\ stream \in Streams \cup {NoStream}
  /\ audio \in [Streams -> Fates]
  /\ mic \in Seq({"frame", "stop"}) /\ Len(mic) <= MicMax
  /\ portaudio \in BOOLEAN

LEMMA TypeParts == TypeOK <=> JobTypes /\ LoopTypes /\ DeviceTypes
<1>1. {closed, shutdown, fired, ever, portaudio, late} \subseteq BOOLEAN
        <=> {closed, shutdown, fired, ever, late} \subseteq BOOLEAN /\ portaudio \in BOOLEAN
  OBVIOUS
<1> QED
  BY <1>1, Zenon DEF TypeOK, JobTypes, LoopTypes, DeviceTypes, Stages, Fates

-----------------------------------------------------------------------------
(* What a step does to the jobs.                                           *)

\* A job is handed to the executor: a new call, or the reading of a connection.
Submits ==
  \E j \in Jobs :
    /\ Submit(j)
    /\ \/ stage[j] = "new" /\ (j = Stop => client' = "stopping" /\ shutdown)
          /\ \A r : j = <<"restart", r>> => r <= restarts'
       \/ \E c \in 1 .. MaxConnections : j = Read(c)

\* A job without a thread is cancelled.
Cancels ==
  \E i \in DOMAIN work :
    /\ stage[work[i]] = "queued" /\ work' = Without(i)
    /\ stage' = [stage EXCEPT ![work[i]] = "failed"]

\* A job that has a thread goes on, or ends.
Moves(j, s) ==
  /\ j \in Running /\ s \in Stages \ {"new", "queued"}
  /\ work' = work /\ stage' = [stage EXCEPT ![j] = s]

LEMMA AbandonStep ==
  ASSUME NEW j, Abandon(j)
  PROVE  UNCHANGED <<work, stage>> \/ Cancels
<1>1. CASE stage[j] = "queued"
  <2>1. PICK i \in DOMAIN work : work[i] = j /\ work' = Without(i)
    BY <1>1 DEF Abandon
  <2> QED
    BY <1>1, <2>1 DEF Abandon, Cancels
<1>2. CASE stage[j] # "queued"
  BY <1>2 DEF Abandon
<1> QED
  BY <1>1, <1>2

LEMMA CallStep ==
  ASSUME NEW j \in Calls, Call(j)
  PROVE  /\ \E s \in CallStages \cup {"returned", "failed"} : Moves(j, s)
         /\ UNCHANGED <<clientVars, shutdown, watchVars, heardVars, late, wedges, mic>>
<1>1. \A s : s \in CallStages \cup {"returned", "failed"} => s \in Stages \ {"new", "queued"}
  BY DEF CallStages, Stages, Ended
<1>2. ASSUME NEW from \in CallStages, NEW to \in CallStages \cup {"returned", "failed"},
             Step(j, from, to)
      PROVE  /\ \E s \in CallStages \cup {"returned", "failed"} : Moves(j, s)
             /\ UNCHANGED <<clientVars, shutdown, watchVars, heardVars, late>>
  <2>1. j \in Running
    BY <1>2, JobSets DEF Step, Running
  <2> QED
    BY <1>1, <1>2, <2>1 DEF Step, Moves
<1>3. CASE CloseStream(j)
  BY <1>2, <1>3 DEF CloseStream, CallStages
<1>4. CASE ForgetStream(j)
  BY <1>2, <1>4 DEF ForgetStream, CallStages
<1>5. CASE Terminate(j)
  BY <1>2, <1>5 DEF Terminate, CallStages
<1>6. CASE Initialize(j)
  BY <1>2, <1>6 DEF Initialize, CallStages
<1>7. CASE CreateStream(j)
  BY <1>2, <1>7 DEF CreateStream, CallStages
<1>8. CASE CreateFails(j)
  BY <1>2, <1>8 DEF CreateFails, CallStages
<1>9. CASE InitializeFails(j)
  BY <1>2, <1>9 DEF InitializeFails, deviceVars, CallStages
<1>10. CASE StartStream(j)
  BY <1>2, <1>10 DEF StartStream, CallStages
<1> QED
  BY <1>3, <1>4, <1>5, <1>6, <1>7, <1>8, <1>9, <1>10 DEF Call

LEMMA SentinelStep ==
  ASSUME PutSentinel
  PROVE  /\ Moves(Stop, "returned") /\ stage[Stop] = "putting"
         /\ Len(mic) < MicMax /\ mic' = Append(mic, "stop")
         /\ UNCHANGED <<clientVars, shutdown, watchVars, heardVars, late, deviceVars>>
<1>1. Stop \in Running
  BY JobSets DEF PutSentinel, Step, Running, CallStages
<1>2. "returned" \in Stages \ {"new", "queued"}
  BY DEF Stages, Ended
<1> QED
  BY <1>1, <1>2 DEF PutSentinel, Step, Moves

LEMMA GetFrameStep ==
  ASSUME NEW c \in 1 .. MaxConnections, GetFrame(c)
  PROVE  /\ mic # <<>> /\ mic' = Tail(mic) /\ stage[Read(c)] = "getting"
         /\ UNCHANGED <<clientVars, shutdown, watchVars, heardVars, late, deviceVars>>
         /\ \/ Head(mic) = "frame" /\ Open(c) /\ Submits /\ Submit(Read(c))
            \/ /\ Head(mic) = "stop" \/ ~Open(c) \/ Head(mic) # "frame"
               /\ \E s \in {"stopped", "returned"} : Moves(Read(c), s)
<1>1. Read(c) \in Jobs /\ Read(c) \in Running
  BY JobSets DEF GetFrame, Running, ReadStages
<1>2. {"stopped", "returned"} \subseteq Stages \ {"new", "queued"}
  BY DEF Stages, Ended
<1>3. /\ mic # <<>> /\ mic' = Tail(mic) /\ stage[Read(c)] = "getting"
      /\ UNCHANGED <<clientVars, shutdown, watchVars, heardVars, late, deviceVars>>
  BY DEF GetFrame
<1>4. CASE Head(mic) = "frame" /\ Open(c)
  <2>1. Submit(Read(c))
    BY <1>4 DEF GetFrame
  <2> QED
    BY <1>1, <1>3, <1>4, <2>1 DEF Submits
<1>5. CASE ~(Head(mic) = "frame" /\ Open(c))
  <2>1. /\ stage' = [stage EXCEPT ![Read(c)] =
                       IF Head(mic) = "stop" THEN "stopped" ELSE "returned"]
        /\ work' = work
    BY <1>5 DEF GetFrame
  <2> QED
    BY <1>1, <1>2, <1>3, <1>5, <2>1 DEF Moves
<1> QED
  BY <1>4, <1>5

\* The steps that hand a job to the executor.
LEMMA SubmitSteps ==
  ASSUME LoopTypes, SubmitInv, QuietInv
  PROVE  /\ Connect => Submits
         /\ ConnectFails => UNCHANGED <<work, stage>> \/ Submits
         /\ LeaveLoop => Submits
         /\ NoticeStall \/ NextAttempt => Submits
<1>1. conn \in 0 .. MaxConnections /\ MaxConnections \in Nat /\ MaxRestarts \in Nat
      /\ restarts \in 0 .. MaxRestarts
  BY Constants DEF LoopTypes
<1>2. Connect => Submits
  <2> SUFFICES ASSUME Connect PROVE Submits
    OBVIOUS
  <2>1. conn + 1 \in 1 .. MaxConnections
    BY <1>1 DEF Connect
  <2>2. Submit(Read(conn + 1))
    BY DEF Connect
  <2> QED
    BY <2>1, <2>2, JobSets DEF Submits
<1>3. ASSUME client \notin {"stopping", "done", "exited"}, client' = "stopping", shutdown,
             Submit(Stop)
      PROVE  Submits
  <2>1. stage[Stop] = "new"
    BY <1>3 DEF SubmitInv
  <2>2. \A r : Stop # <<"restart", r>>
    BY JobKinds
  <2> QED
    BY <1>3, <2>1, <2>2, JobSets DEF Submits
<1>4. ConnectFails => UNCHANGED <<work, stage>> \/ Submits
  BY <1>3 DEF ConnectFails
<1>5. LeaveLoop => Submits
  BY <1>3 DEF LeaveLoop
<1>6. NoticeStall \/ NextAttempt => Submits
  <2> SUFFICES ASSUME TryRestart PROVE Submits
    BY DEF NoticeStall, NextAttempt
  <2>1. restarts < MaxRestarts /\ restarts' = restarts + 1
        /\ Submit(<<"restart", restarts + 1>>)
    BY DEF TryRestart
  <2>2. restarts + 1 \in 1 .. MaxRestarts /\ restarts + 1 > restarts
        /\ restarts + 1 <= restarts'
    BY <1>1, <2>1
  <2>3. stage[<<"restart", restarts + 1>>] = "new"
    BY <2>2 DEF SubmitInv
  <2>4. <<"restart", restarts + 1>> \in Jobs
    BY <2>2, JobSets DEF Restarts
  <2>5. \A r : <<"restart", restarts + 1>> = <<"restart", r>> => r <= restarts'
    BY <2>2
  <2> QED
    BY <2>1, <2>3, <2>4, <2>5, JobKinds DEF Submits
<1> QED
  BY <1>2, <1>4, <1>5, <1>6

\* The event loop, the audio thread and the device move no running job.
LEMMA QuietSteps ==
  ASSUME LoopTypes, SubmitInv, QuietInv,
         \/ Loop \/ Watchdog \/ Signal \/ Callback \/ TransportEnds
         \/ (\E s \in Streams : Wedge(s)) \/ UNCHANGED vars
  PROVE  UNCHANGED <<work, stage>> \/ Submits \/ Cancels
<1>1. CASE Loop
  <2>1. Start \/ BackoffElapses \/ StopReturns \/ Exit => UNCHANGED <<work, stage>>
    BY DEF Start, BackoffElapses, StopReturns, Exit
  <2>2. Close => UNCHANGED <<work, stage>> \/ Cancels
    BY AbandonStep DEF Close
  <2>3. StopTimesOut => UNCHANGED <<work, stage>> \/ Cancels
    BY AbandonStep DEF StopTimesOut
  <2> QED
    BY <1>1, <2>1, <2>2, <2>3, SubmitSteps DEF Loop
<1>2. CASE Watchdog
  <2>1. RestartReturns \/ Confirm \/ GiveUp \/ WatchEnds => UNCHANGED <<work, stage>>
    BY DEF RestartReturns, Confirm, GiveUp, WatchEnds
  <2>2. RestartTimesOut => UNCHANGED <<work, stage>> \/ Cancels
    BY AbandonStep DEF RestartTimesOut
  <2> QED
    BY <1>2, <2>1, <2>2, SubmitSteps DEF Watchdog
<1>3. CASE Signal \/ Callback \/ TransportEnds \/ \E s \in Streams : Wedge(s)
  BY <1>3 DEF Signal, Callback, TransportEnds, Wedge
<1>4. CASE UNCHANGED vars
  BY <1>4 DEF vars
<1> QED
  BY <1>1, <1>2, <1>3, <1>4

LEMMA JobSteps ==
  ASSUME LoopTypes, SubmitInv, QuietInv, [Next]_vars
  PROVE  \/ UNCHANGED <<work, stage>>
         \/ Submits
         \/ Cancels
         \/ TakeJob
         \/ \E j \in Jobs, s \in Stages : Moves(j, s)
<1>1. ASSUME NEW j \in Restarts \cup {Stop}, Call(j)
      PROVE  \E k \in Jobs, s \in Stages : Moves(k, s)
  <2>1. j \in Calls /\ j \in Jobs
    BY JobSets DEF Calls
  <2> QED
    BY <1>1, <2>1, CallStep DEF Moves
<1>2. PutSentinel => \E j \in Jobs, s \in Stages : Moves(j, s)
  BY SentinelStep DEF Moves, Running
<1>3. ASSUME NEW c \in 1 .. MaxConnections, GetFrame(c)
      PROVE  Submits \/ \E k \in Jobs, s \in Stages : Moves(k, s)
  BY <1>3, GetFrameStep DEF Moves, Running
<1> QED
  BY <1>1, <1>2, <1>3, QuietSteps DEF Next

-----------------------------------------------------------------------------
(* The executor's queue.                                                   *)

LEMMA AppendedJobs ==
  ASSUME NEW S, NEW q \in Seq(S), NEW e \in S
  PROVE  /\ Append(q, e) \in Seq(S)
         /\ Len(q) \in Nat /\ Len(Append(q, e)) = Len(q) + 1
         /\ DOMAIN q = 1 .. Len(q) /\ DOMAIN Append(q, e) = 1 .. (Len(q) + 1)
         /\ \A i \in 1 .. Len(q) : Append(q, e)[i] = q[i]
         /\ Append(q, e)[Len(q) + 1] = e
         /\ \A i \in DOMAIN Append(q, e) :
              Append(q, e)[i] = e \/ \E k \in DOMAIN q : Append(q, e)[i] = q[k]
<1>1. /\ Append(q, e) \in Seq(S)
      /\ Len(q) \in Nat /\ Len(Append(q, e)) = Len(q) + 1
      /\ DOMAIN q = 1 .. Len(q) /\ DOMAIN Append(q, e) = 1 .. (Len(q) + 1)
      /\ \A i \in 1 .. Len(q) : Append(q, e)[i] = q[i]
      /\ Append(q, e)[Len(q) + 1] = e
  OBVIOUS
<1>2. ASSUME NEW i \in DOMAIN Append(q, e)
      PROVE  Append(q, e)[i] = e \/ \E k \in DOMAIN q : Append(q, e)[i] = q[k]
  <2>1. i \in 1 .. Len(q) \/ i = Len(q) + 1
    BY <1>1
  <2> QED
    BY <1>1, <2>1
<1> QED
  BY <1>1, <1>2

LEMMA TailJobs ==
  ASSUME NEW S, NEW q \in Seq(S), q # <<>>
  PROVE  /\ Tail(q) \in Seq(S) /\ Head(q) \in S
         /\ 1 \in DOMAIN q /\ Head(q) = q[1]
         /\ Len(q) \in Nat /\ Len(Tail(q)) = Len(q) - 1
         /\ \A i \in DOMAIN Tail(q) : \E k \in DOMAIN q : Tail(q)[i] = q[k]
<1>1. /\ Tail(q) \in Seq(S) /\ Len(q) \in Nat \ {0} /\ Len(Tail(q)) = Len(q) - 1
      /\ DOMAIN q = 1 .. Len(q)
  OBVIOUS
<1>2. 1 \in DOMAIN q /\ Head(q) = q[1] /\ Head(q) \in S
  BY <1>1
<1>3. ASSUME NEW i \in DOMAIN Tail(q)
      PROVE  \E k \in DOMAIN q : Tail(q)[i] = q[k]
  <2>1. i + 1 \in DOMAIN q /\ Tail(q)[i] = q[i + 1]
    BY <1>1
  <2> QED
    BY <2>1
<1> QED
  BY <1>1, <1>2, <1>3

LEMMA WithoutJob ==
  ASSUME work \in Seq(Jobs), NEW i \in DOMAIN work
  PROVE  /\ Without(i) \in Seq(Jobs)
         /\ \A k \in DOMAIN Without(i) : \E l \in DOMAIN work : Without(i)[k] = work[l]
<1> DEFINE left == SubSeq(work, 1, i - 1)
           right == SubSeq(work, i + 1, Len(work))
<1>1. Len(work) \in Nat /\ i \in 1 .. Len(work) /\ DOMAIN work = 1 .. Len(work)
  OBVIOUS
<1>2. /\ left \in Seq(Jobs) /\ Len(left) = i - 1
      /\ \A k \in 1 .. (i - 1) : left[k] = work[k]
  BY <1>1
<1>3. /\ right \in Seq(Jobs) /\ Len(right) = Len(work) - i
      /\ \A k \in 1 .. (Len(work) - i) : right[k] = work[k + i]
  BY <1>1
<1> HIDE DEF left, right
<1>4. /\ left \o right \in Seq(Jobs)
      /\ DOMAIN (left \o right) = 1 .. (Len(left) + Len(right))
      /\ \A k \in 1 .. Len(left) : (left \o right)[k] = left[k]
      /\ \A k \in (Len(left) + 1) .. (Len(left) + Len(right)) :
           (left \o right)[k] = right[k - Len(left)]
  <2>1. /\ left \o right \in Seq(Jobs)
        /\ Len(left \o right) = Len(left) + Len(right)
        /\ \A k \in 1 .. (Len(left) + Len(right)) :
             (left \o right)[k] = IF k <= Len(left) THEN left[k] ELSE right[k - Len(left)]
    BY <1>2, <1>3, ConcatProperties
  <2>2. Len(left) \in Nat /\ Len(right) \in Nat
    BY <1>2, <1>3
  <2>3. DOMAIN (left \o right) = 1 .. (Len(left) + Len(right))
    BY <2>1, <2>2
  <2> QED
    BY <2>1, <2>2, <2>3
<1>5. ASSUME NEW k \in DOMAIN (left \o right)
      PROVE  \E l \in DOMAIN work : (left \o right)[k] = work[l]
  <2>1. CASE k \in 1 .. (i - 1)
    <3>1. (left \o right)[k] = work[k] /\ k \in DOMAIN work
      BY <1>1, <1>2, <1>4, <2>1
    <3> QED
      BY <3>1
  <2>2. CASE k \in i .. (Len(work) - 1)
    <3>0. Len(left) = i - 1 /\ Len(right) = Len(work) - i
      BY <1>1, <1>2, <1>3
    <3>1. /\ k - (i - 1) \in 1 .. (Len(work) - i) /\ (k - (i - 1)) + i \in DOMAIN work
          /\ k \in (Len(left) + 1) .. (Len(left) + Len(right)) /\ Len(left) = i - 1
      BY <1>1, <2>2, <3>0
    <3>2. (left \o right)[k] = right[k - (i - 1)]
      BY <1>4, <3>1
    <3>3. right[k - (i - 1)] = work[(k - (i - 1)) + i]
      BY <1>3, <3>1
    <3> QED
      BY <3>1, <3>2, <3>3
  <2>3. k \in 1 .. (Len(work) - 1)
    BY <1>1, <1>2, <1>3, <1>4
  <2>4. k \in 1 .. (i - 1) \/ k \in i .. (Len(work) - 1)
    BY <1>1, <2>3
  <2> QED
    BY <2>1, <2>2, <2>4
<1> QED
  BY <1>4, <1>5 DEF Without, left, right

LEMMA TakenJob ==
  ASSUME JobTypes, SubmitInv, TakeJob
  PROVE  /\ Head(work) \in Jobs /\ work' = Tail(work) /\ Cardinality(Running) < Workers
         /\ stage[Head(work)] # "new"
         /\ FirstStage(Head(work)) \in {"closing", "getting"}
         /\ stage' = [stage EXCEPT ![Head(work)] = FirstStage(Head(work))]
         /\ \A k \in DOMAIN work' : \E l \in DOMAIN work : work'[k] = work[l]
         /\ work' \in Seq(Jobs)
<1>1. /\ work # <<>> /\ work \in Seq(Jobs) /\ work' = Tail(work) /\ Cardinality(Running) < Workers
      /\ stage' = [stage EXCEPT ![Head(work)] = FirstStage(Head(work))]
  BY DEF TakeJob, JobTypes
<1>2. /\ Head(work) \in Jobs /\ 1 \in DOMAIN work /\ Head(work) = work[1]
      /\ Tail(work) \in Seq(Jobs)
      /\ \A k \in DOMAIN Tail(work) : \E l \in DOMAIN work : Tail(work)[k] = work[l]
  BY <1>1, TailJobs
<1>3. stage[Head(work)] # "new"
  BY <1>2 DEF SubmitInv
<1>4. FirstStage(Head(work)) \in {"closing", "getting"}
  BY DEF FirstStage
<1> QED
  BY <1>1, <1>2, <1>3, <1>4

LEMMA JobsTyped ==
  ASSUME JobTypes, LoopTypes, IsFiniteSet(Running), SubmitInv, QuietInv, [Next]_vars
  PROVE  JobTypes' /\ IsFiniteSet(Running)'
<1>1. work \in Seq(Jobs) /\ stage \in [Jobs -> Stages] /\ Cardinality(Running) <= Workers
      /\ Workers \in Nat
  BY Constants DEF JobTypes
<1>2. ASSUME work' \in Seq(Jobs), stage' \in [Jobs -> Stages], Running' \subseteq Running
      PROVE  JobTypes' /\ IsFiniteSet(Running)'
  <2>1. IsFiniteSet(Running') /\ Cardinality(Running') <= Cardinality(Running)
    BY <1>2, FS_Subset
  <2>2. Cardinality(Running) \in Nat /\ Cardinality(Running') \in Nat
    BY <2>1, FS_CardinalityType
  <2>3. Cardinality(Running') <= Workers
    BY <1>1, <2>1, <2>2
  <2> QED
    BY <1>2, <2>1, <2>3 DEF JobTypes
<1>3. CASE UNCHANGED <<work, stage>>
  BY <1>1, <1>2, <1>3 DEF Running
<1>4. CASE Submits
  <2>1. PICK j \in Jobs : work' = Append(work, j) /\ stage' = [stage EXCEPT ![j] = "queued"]
    BY <1>4 DEF Submits, Submit
  <2>2. work' \in Seq(Jobs)
    BY <1>1, <2>1, AppendedJobs
  <2>3. stage' \in [Jobs -> Stages]
    BY <1>1, <2>1, StageNames
  <2>4. Running' \subseteq Running
    BY <1>1, <2>1, StageNames DEF Running
  <2> QED
    BY <1>2, <2>2, <2>3, <2>4
<1>5. CASE Cancels
  <2>1. PICK i \in DOMAIN work :
          work' = Without(i) /\ stage' = [stage EXCEPT ![work[i]] = "failed"]
    BY <1>5 DEF Cancels
  <2>2. work' \in Seq(Jobs) /\ work[i] \in Jobs
    BY <1>1, <2>1, WithoutJob
  <2>3. stage' \in [Jobs -> Stages]
    BY <1>1, <2>1, <2>2 DEF Stages, Ended
  <2>4. Running' \subseteq Running
    BY <1>1, <2>1, <2>2, StageNames DEF Running
  <2> QED
    BY <1>2, <2>2, <2>3, <2>4
<1>6. ASSUME NEW j \in Jobs, NEW s \in Stages, Moves(j, s)
      PROVE  JobTypes' /\ IsFiniteSet(Running)'
  <2>1. work' = work /\ stage' = [stage EXCEPT ![j] = s] /\ j \in Running
    BY <1>6 DEF Moves
  <2>2. stage' \in [Jobs -> Stages]
    BY <1>1, <2>1
  <2>3. Running' \subseteq Running
    BY <1>1, <2>1 DEF Running
  <2> QED
    BY <1>1, <1>2, <2>1, <2>2, <2>3
<1>7. CASE TakeJob
  <2>1. /\ Head(work) \in Jobs /\ Cardinality(Running) < Workers
        /\ FirstStage(Head(work)) \in {"closing", "getting"}
        /\ stage' = [stage EXCEPT ![Head(work)] = FirstStage(Head(work))]
        /\ work' \in Seq(Jobs)
    BY <1>7, TakenJob
  <2>2. stage' \in [Jobs -> Stages]
    BY <1>1, <2>1 DEF Stages, ReadStages, CallStages
  <2>3. Running' \subseteq Running \cup {Head(work)}
    BY <1>1, <2>1 DEF Running
  <2>4. /\ IsFiniteSet(Running \cup {Head(work)})
        /\ \/ Cardinality(Running \cup {Head(work)}) = Cardinality(Running)
           \/ Cardinality(Running \cup {Head(work)}) = Cardinality(Running) + 1
    BY FS_AddElement
  <2>5. /\ IsFiniteSet(Running')
        /\ Cardinality(Running') <= Cardinality(Running \cup {Head(work)})
    BY <2>3, <2>4, FS_Subset
  <2>6. Cardinality(Running) \in Nat /\ Cardinality(Running') \in Nat
    BY <2>5, FS_CardinalityType
  <2>7. Cardinality(Running') <= Workers
    BY <1>1, <2>1, <2>4, <2>5, <2>6
  <2> QED
    BY <2>1, <2>2, <2>5, <2>7 DEF JobTypes
<1> QED
  BY <1>3, <1>4, <1>5, <1>6, <1>7, JobSteps

-----------------------------------------------------------------------------
(* Which jobs have been submitted.                                         *)

\* A job that was not submitted stays so or is submitted now; one that was
\* never becomes new again.
LEMMA NewJob ==
  ASSUME JobTypes, LoopTypes, SubmitInv, QuietInv, [Next]_vars, NEW j \in Jobs
  PROVE  /\ stage[j] # "new" => stage'[j] # "new"
         /\ stage[j] = "new" =>
              \/ stage'[j] = "new"
              \/ /\ j = Stop => client' = "stopping" /\ shutdown
                 /\ \A r : j = <<"restart", r>> => r <= restarts'
              \/ \E c \in 1 .. MaxConnections : j = Read(c)
         /\ \A i \in DOMAIN work' : stage'[work'[i]] # "new"
<1>1. work \in Seq(Jobs) /\ stage \in [Jobs -> Stages]
      /\ \A i \in DOMAIN work : work[i] \in Jobs /\ stage[work[i]] # "new"
  BY DEF JobTypes, SubmitInv
<1> DEFINE Fate ==
      /\ stage[j] # "new" => stage'[j] # "new"
      /\ stage[j] = "new" =>
           \/ stage'[j] = "new"
           \/ /\ j = Stop => client' = "stopping" /\ shutdown
              /\ \A r : j = <<"restart", r>> => r <= restarts'
           \/ \E c \in 1 .. MaxConnections : j = Read(c)
<1>2. CASE UNCHANGED <<work, stage>>
  BY <1>1, <1>2
<1>3. CASE Submits
  <2>1. PICK k \in Jobs :
          /\ work' = Append(work, k) /\ stage' = [stage EXCEPT ![k] = "queued"]
          /\ \/ /\ k = Stop => client' = "stopping" /\ shutdown
                /\ \A r : k = <<"restart", r>> => r <= restarts'
             \/ \E c \in 1 .. MaxConnections : k = Read(c)
    BY <1>3 DEF Submits, Submit
  <2>2. \A l \in Jobs : stage'[l] = IF l = k THEN "queued" ELSE stage[l]
    BY <1>1, <2>1
  <2>3. Fate
    BY <2>1, <2>2
  <2>4. \A i \in DOMAIN work' : work'[i] = k \/ \E m \in DOMAIN work : work'[i] = work[m]
    BY <1>1, <2>1, AppendedJobs
  <2>5. \A i \in DOMAIN work' : stage'[work'[i]] # "new"
    BY <1>1, <2>2, <2>4
  <2> QED
    BY <2>3, <2>5
<1>4. CASE Cancels
  <2>1. PICK i \in DOMAIN work :
          work' = Without(i) /\ stage' = [stage EXCEPT ![work[i]] = "failed"]
    BY <1>4 DEF Cancels
  <2>2. \A l \in Jobs : stage'[l] = IF l = work[i] THEN "failed" ELSE stage[l]
    BY <1>1, <2>1
  <2>3. \A k \in DOMAIN work' : \E m \in DOMAIN work : work'[k] = work[m]
    BY <1>1, <2>1, WithoutJob
  <2>4. Fate
    BY <1>1, <2>2
  <2>5. \A k \in DOMAIN work' : stage'[work'[k]] # "new"
    BY <1>1, <2>2, <2>3
  <2> QED
    BY <2>4, <2>5
<1>5. ASSUME NEW k \in Jobs, NEW s \in Stages, Moves(k, s)
      PROVE  Fate /\ \A i \in DOMAIN work' : stage'[work'[i]] # "new"
  <2>1. work' = work /\ k \in Running /\ s # "new"
        /\ \A l \in Jobs : stage'[l] = IF l = k THEN s ELSE stage[l]
    BY <1>1, <1>5 DEF Moves
  <2>2. stage[k] # "new"
    BY <2>1, StageNames DEF Running
  <2> QED
    BY <1>1, <2>1, <2>2
<1>6. CASE TakeJob
  <2>1. /\ Head(work) \in Jobs /\ stage[Head(work)] # "new"
        /\ FirstStage(Head(work)) \in {"closing", "getting"}
        /\ stage' = [stage EXCEPT ![Head(work)] = FirstStage(Head(work))]
        /\ \A k \in DOMAIN work' : \E l \in DOMAIN work : work'[k] = work[l]
    BY <1>6, TakenJob
  <2>2. \A l \in Jobs :
          stage'[l] = IF l = Head(work) THEN FirstStage(Head(work)) ELSE stage[l]
    BY <1>1, <2>1
  <2>3. FirstStage(Head(work)) # "new"
    BY <2>1
  <2>4. Fate
    BY <2>1, <2>2, <2>3
  <2>5. \A k \in DOMAIN work' : stage'[work'[k]] # "new"
    BY <1>1, <2>1, <2>2, <2>3
  <2> QED
    BY <2>4, <2>5
<1> QED
  BY <1>2, <1>3, <1>4, <1>5, <1>6, JobSteps

\* How the loop, the shutdown and the watchdog go on.
LEMMA LoopKept ==
  ASSUME LoopTypes, [Next]_vars
  PROVE  /\ LoopTypes'
         /\ restarts <= restarts' /\ restarts' \in Nat
         /\ client' \notin {"stopping", "done", "exited"}
              => client \notin {"stopping", "done", "exited"}
         /\ shutdown => shutdown'
         /\ client' = "stopping" => client = "stopping" \/ shutdown'
         /\ client # "starting" => client' # "starting"
<1>1. /\ conn \in Nat /\ attempt \in Nat /\ restarts \in Nat
      /\ MaxConnections \in Nat /\ MaxAttempts \in Nat \ {0} /\ MaxRestarts \in Nat
  BY Constants DEF LoopTypes
<1> DEFINE Kept ==
      /\ LoopTypes'
      /\ restarts <= restarts' /\ restarts' \in Nat
      /\ client' \notin {"stopping", "done", "exited"}
           => client \notin {"stopping", "done", "exited"}
      /\ shutdown => shutdown'
      /\ client' = "stopping" => client = "stopping" \/ shutdown'
      /\ client # "starting" => client' # "starting"
<1>2. ASSUME UNCHANGED <<client, conn, shutdown, recovery, attempt, restarts>>,
             closed' \in BOOLEAN, fired' \in BOOLEAN, ever' \in BOOLEAN, late' \in BOOLEAN
      PROVE  Kept
  BY <1>1, <1>2 DEF LoopTypes
<1>3. closed \in BOOLEAN /\ fired \in BOOLEAN /\ ever \in BOOLEAN /\ late \in BOOLEAN
      /\ shutdown \in BOOLEAN
  BY DEF LoopTypes
<1>4. CASE TakeJob
  <2>1. late' \in BOOLEAN
    BY <1>3, <1>4, Zenon DEF TakeJob
  <2> QED
    BY <1>2, <1>3, <1>4, <2>1 DEF TakeJob, clientVars, watchVars, heardVars
<1>5. ASSUME NEW j \in Calls, Call(j)
      PROVE  Kept
  BY <1>2, <1>3, <1>5, CallStep DEF clientVars, watchVars, heardVars
<1>6. CASE PutSentinel
  BY <1>2, <1>3, <1>6, SentinelStep DEF clientVars, watchVars, heardVars
<1>7. ASSUME NEW c \in 1 .. MaxConnections, GetFrame(c)
      PROVE  Kept
  BY <1>2, <1>3, <1>7, GetFrameStep DEF clientVars, watchVars, heardVars
<1>8. CASE Callback \/ TransportEnds \/ \E s \in Streams : Wedge(s)
  BY <1>2, <1>3, <1>8 DEF Callback, TransportEnds, Wedge, clientVars, watchVars, heardVars
<1>9. CASE UNCHANGED vars
  BY <1>2, <1>3, <1>9 DEF vars, clientVars, watchVars, heardVars
<1>10. CASE Signal
  BY <1>1, <1>10 DEF Signal, LoopTypes, clientVars, watchVars, heardVars
<1>11. CASE Loop
  <2>1. ASSUME UNCHANGED <<shutdown, attempt, restarts, fired, ever, late>>,
               conn' \in 0 .. MaxConnections, closed' \in BOOLEAN,
               recovery' = recovery \/ recovery' \in {"watching", "over"},
               client # "starting" => client' # "starting",
               client' \in {"starting", "connecting", "connected", "backoff",
                            "stopping", "done", "exited"},
               client \in {"stopping", "done", "exited"} => client' \in {"done", "exited"},
               client' = "stopping" => shutdown
        PROVE  Kept
    BY <1>1, <2>1 DEF LoopTypes
  <2>2. conn + 1 \in 0 .. MaxConnections \/ ~(conn < MaxConnections)
    BY <1>1
  <2>3. Start => Kept
    BY <2>1 DEF Start, LoopTypes, heardVars
  <2>4. Connect => Kept
    BY <2>1, <2>2 DEF Connect, LoopTypes, heardVars, watchVars
  <2>5. ConnectFails => Kept
    BY <2>1 DEF ConnectFails, LoopTypes, heardVars, watchVars
  <2>6. Close \/ BackoffElapses \/ LeaveLoop => Kept
    BY <2>1 DEF Close, BackoffElapses, LeaveLoop, LoopTypes, heardVars, watchVars
  <2>7. StopReturns \/ StopTimesOut => Kept
    BY <2>1 DEF StopReturns, StopTimesOut, Finish, LoopTypes, heardVars
  <2>8. Exit => Kept
    BY <2>1 DEF Exit, LoopTypes, heardVars, watchVars
  <2> QED
    BY <1>11, <2>3, <2>4, <2>5, <2>6, <2>7, <2>8 DEF Loop
<1>12. CASE Watchdog
  <2>1. ASSUME UNCHANGED <<client, conn, closed, shutdown, ever>>,
               fired' \in BOOLEAN, late' \in BOOLEAN,
               attempt' \in 0 .. MaxAttempts, restarts' \in 0 .. MaxRestarts,
               restarts <= restarts',
               recovery' \in {"watching", "restarting", "confirming", "backoff", "gave_up",
                              "over"}
        PROVE  Kept
    BY <1>1, <2>1 DEF LoopTypes
  <2>2. attempt \in 0 .. MaxAttempts /\ restarts \in 0 .. MaxRestarts /\ restarts <= restarts
        /\ 1 \in 0 .. MaxAttempts
    BY <1>1 DEF LoopTypes
  <2>3. attempt < MaxAttempts => attempt + 1 \in 0 .. MaxAttempts
    BY <1>1
  <2>4. restarts < MaxRestarts =>
          restarts + 1 \in 0 .. MaxRestarts /\ restarts <= restarts + 1
    BY <1>1
  <2>5. NoticeStall => Kept
    BY <1>3, <2>1, <2>2, <2>4 DEF NoticeStall, TryRestart, clientVars
  <2>6. NextAttempt => Kept
    BY <1>3, <2>1, <2>3, <2>4 DEF NextAttempt, TryRestart, clientVars, heardVars
  <2>7. RestartTimesOut => late' \in BOOLEAN
    BY <1>3, Zenon DEF RestartTimesOut
  <2>8. RestartReturns \/ RestartTimesOut \/ Confirm \/ GiveUp \/ WatchEnds => Kept
    BY <1>3, <2>1, <2>2, <2>7 DEF RestartReturns, RestartTimesOut, Confirm, GiveUp,
       WatchEnds, Watch, clientVars, heardVars
  <2> QED
    BY <1>12, <2>5, <2>6, <2>8 DEF Watchdog
<1>13. Restarts \cup {Stop} = Calls
  BY DEF Calls
<1> QED
  BY <1>4, <1>5, <1>6, <1>7, <1>8, <1>9, <1>10, <1>11, <1>12, <1>13 DEF Next

LEMMA SubmitKept ==
  ASSUME JobTypes, LoopTypes, SubmitInv, QuietInv, [Next]_vars
  PROVE  SubmitInv'
<1>1. /\ restarts <= restarts' /\ restarts' \in Nat /\ restarts \in Nat
      /\ client' \notin {"stopping", "done", "exited"}
           => client \notin {"stopping", "done", "exited"}
  BY LoopKept, Constants DEF LoopTypes
<1>2. \A i \in DOMAIN work' : stage'[work'[i]] # "new"
  BY NewJob, JobSets
<1>3. ASSUME NEW r \in 1 .. MaxRestarts, r > restarts'
      PROVE  stage'[<<"restart", r>>] = "new"
  <2>1. r > restarts /\ ~(r <= restarts')
    BY <1>1, <1>3, Constants
  <2>2. stage[<<"restart", r>>] = "new" /\ <<"restart", r>> \in Jobs
    BY <2>1, JobSets DEF SubmitInv, Restarts
  <2>3. \A c : <<"restart", r>> # Read(c)
    BY JobKinds
  <2> QED
    BY <2>1, <2>2, <2>3, NewJob
<1>4. ASSUME client' \notin {"stopping", "done", "exited"}
      PROVE  stage'[Stop] = "new"
  <2>1. stage[Stop] = "new" /\ Stop \in Jobs /\ client' # "stopping"
    BY <1>1, <1>4, JobSets DEF SubmitInv
  <2>2. \A c : Stop # Read(c)
    BY JobKinds
  <2> QED
    BY <2>1, <2>2, NewJob
<1> QED
  BY <1>2, <1>3, <1>4 DEF SubmitInv

-----------------------------------------------------------------------------
(* The device and the microphone queue.                                    *)

LEMMA DeviceFrame ==
  ASSUME [Next]_vars
  PROVE  \/ UNCHANGED <<stream, audio, wedges, portaudio, mic>>
         \/ Start \/ Callback \/ PutSentinel
         \/ \E c \in 1 .. MaxConnections : GetFrame(c)
         \/ \E j \in Calls : Call(j)
         \/ \E s \in Streams : Wedge(s)
<1>1. CASE Loop
  BY <1>1 DEF Loop, Connect, ConnectFails, Close, BackoffElapses, LeaveLoop, StopReturns,
     StopTimesOut, Finish, Exit, deviceVars
<1>2. CASE Watchdog
  BY <1>2 DEF Watchdog, NoticeStall, NextAttempt, RestartReturns, RestartTimesOut, Confirm,
     GiveUp, WatchEnds, Watch, deviceVars
<1>3. CASE Signal \/ TakeJob \/ TransportEnds
  BY <1>3 DEF Signal, TakeJob, TransportEnds, deviceVars
<1>4. CASE UNCHANGED vars
  BY <1>4 DEF vars, deviceVars
<1> QED
  BY <1>1, <1>2, <1>3, <1>4 DEF Next, Calls

\* Every way the microphone queue changes.
LEMMA MicSteps ==
  ASSUME DeviceTypes, [Next]_vars
  PROVE  /\ mic' \in Seq({"frame", "stop"}) /\ Len(mic') <= MicMax
         /\ \A i \in DOMAIN mic' :
              \/ \E k \in DOMAIN mic : mic'[i] = mic[k]
              \/ mic'[i] = "frame"
              \/ stage[Stop] = "putting"
<1> DEFINE Item == {"frame", "stop"}
           Kept == /\ mic' \in Seq(Item) /\ Len(mic') <= MicMax
                   /\ \A i \in DOMAIN mic' :
                        \/ \E k \in DOMAIN mic : mic'[i] = mic[k]
                        \/ mic'[i] = "frame"
                        \/ stage[Stop] = "putting"
<1>1. mic \in Seq(Item) /\ Len(mic) \in Nat /\ Len(mic) <= MicMax /\ MicMax \in Nat \ {0}
  BY Constants DEF DeviceTypes
<1>2. CASE mic' = mic
  BY <1>1, <1>2
<1>3. ASSUME mic # <<>>, mic' = Tail(mic)
      PROVE  Kept
  <2>1. /\ Tail(mic) \in Seq(Item) /\ Len(Tail(mic)) = Len(mic) - 1
        /\ \A i \in DOMAIN Tail(mic) : \E k \in DOMAIN mic : Tail(mic)[i] = mic[k]
    BY <1>1, <1>3, TailJobs
  <2>2. Len(mic') <= MicMax
    BY <1>1, <1>3, <2>1
  <2> QED
    BY <1>3, <2>1, <2>2
<1>4. CASE Callback
  <2> DEFINE rest == IF Len(mic) = MicMax THEN Tail(mic) ELSE mic
  <2>1. mic' = Append(rest, "frame")
    BY <1>4 DEF Callback
  <2>2. /\ rest \in Seq(Item) /\ Len(rest) \in Nat /\ Len(rest) + 1 <= MicMax
        /\ \A i \in DOMAIN rest : \E k \in DOMAIN mic : rest[i] = mic[k]
    <3>1. CASE Len(mic) = MicMax
      <4>1. mic # <<>>
        BY <1>1, <3>1
      <4>2. /\ Tail(mic) \in Seq(Item) /\ Len(Tail(mic)) = Len(mic) - 1
            /\ \A i \in DOMAIN Tail(mic) : \E k \in DOMAIN mic : Tail(mic)[i] = mic[k]
        BY <1>1, <4>1, TailJobs
      <4>3. Len(Tail(mic)) \in Nat /\ Len(Tail(mic)) + 1 <= MicMax
        BY <1>1, <3>1, <4>2
      <4> QED
        BY <3>1, <4>2, <4>3
    <3>2. CASE Len(mic) # MicMax
      BY <1>1, <3>2
    <3> QED
      BY <3>1, <3>2
  <2> HIDE DEF rest
  <2>3. /\ mic' \in Seq(Item) /\ Len(mic') = Len(rest) + 1
        /\ \A i \in DOMAIN mic' : mic'[i] = "frame" \/ \E k \in DOMAIN rest : mic'[i] = rest[k]
    BY <2>1, <2>2, AppendedJobs
  <2>4. Len(mic') <= MicMax
    BY <2>2, <2>3
  <2> QED
    BY <2>2, <2>3, <2>4
<1>5. CASE PutSentinel
  <2>1. stage[Stop] = "putting" /\ Len(mic) < MicMax /\ mic' = Append(mic, "stop")
    BY <1>5, SentinelStep
  <2>2. mic' \in Seq(Item) /\ Len(mic') = Len(mic) + 1
    BY <1>1, <2>1, AppendedJobs
  <2>3. Len(mic') <= MicMax
    BY <1>1, <2>1, <2>2
  <2> QED
    BY <2>1, <2>2, <2>3
<1>6. ASSUME NEW c \in 1 .. MaxConnections, GetFrame(c)
      PROVE  Kept
  <2>1. mic # <<>> /\ mic' = Tail(mic)
    BY <1>6 DEF GetFrame
  <2> QED
    BY <1>3, <2>1
<1>7. ASSUME NEW j \in Calls, Call(j)
      PROVE  mic' = mic
  BY <1>7, CallStep
<1>8. Start \/ (\E s \in Streams : Wedge(s)) => mic' = mic
  BY DEF Start, Wedge
<1> QED
  BY <1>2, <1>4, <1>5, <1>6, <1>7, <1>8, DeviceFrame

LEMMA DeviceKept ==
  ASSUME DeviceTypes, [Next]_vars
  PROVE  DeviceTypes'
<1> DEFINE Types == /\ wedges' \in 0 .. MaxWedges
                    /\ stream' \in Streams \cup {NoStream}
                    /\ audio' \in [Streams -> Fates]
                    /\ portaudio' \in BOOLEAN
<1>1. /\ wedges \in 0 .. MaxWedges /\ stream \in Streams \cup {NoStream}
      /\ audio \in [Streams -> Fates] /\ portaudio \in BOOLEAN
  BY DEF DeviceTypes
<1>2. ASSUME UNCHANGED <<stream, audio, wedges, portaudio>>
      PROVE  Types
  BY <1>1, <1>2
<1>3. ASSUME Start
      PROVE  Types
  <2>1. 0 \in Streams
    BY Constants DEF Streams
  <2> QED
    BY <1>1, <1>3, <2>1 DEF Start, Fates
<1>4. ASSUME NEW s \in Streams, Wedge(s)
      PROVE  Types
  <2>1. wedges + 1 \in 0 .. MaxWedges
    <3>1. wedges < MaxWedges /\ wedges \in 0 .. MaxWedges /\ MaxWedges \in Nat
      BY <1>1, <1>4, Constants DEF Wedge
    <3> QED
      BY <3>1
  <2> QED
    BY <1>1, <1>4, <2>1 DEF Wedge, Fates
<1>5. ASSUME NEW j \in Calls, Call(j)
      PROVE  Types
  <2>1. CASE CloseStream(j)
    BY <1>1, <2>1 DEF CloseStream, Fates
  <2>2. CASE ForgetStream(j)
    BY <1>1, <2>2 DEF ForgetStream
  <2>3. CASE Terminate(j)
    BY <1>1, <2>3 DEF Terminate, Fates
  <2>4. CASE Initialize(j)
    BY <1>1, <2>4 DEF Initialize
  <2>5. CASE CreateStream(j)
    <3>1. j[2] \in Streams
      BY JobSets
    <3> QED
      BY <1>1, <2>5, <3>1 DEF CreateStream, Fates
  <2>6. CASE CreateFails(j)
    BY <1>1, <2>6 DEF CreateFails
  <2>7. CASE InitializeFails(j)
    BY <1>2, <2>7 DEF InitializeFails, deviceVars
  <2>8. CASE StartStream(j)
    BY <1>1, <2>8 DEF StartStream, Fates
  <2> QED
    BY <1>5, <2>1, <2>2, <2>3, <2>4, <2>5, <2>6, <2>7, <2>8 DEF Call
<1>6. ASSUME Callback
      PROVE  Types
  BY <1>2, <1>6 DEF Callback, deviceVars
<1>7. ASSUME PutSentinel
      PROVE  Types
  BY <1>2, <1>7 DEF PutSentinel, deviceVars
<1>8. ASSUME NEW c \in 1 .. MaxConnections, GetFrame(c)
      PROVE  Types
  BY <1>2, <1>8 DEF GetFrame, deviceVars
<1>9. Types
  BY <1>2, <1>3, <1>4, <1>5, <1>6, <1>7, <1>8, DeviceFrame
<1> QED
  BY <1>9, MicSteps DEF DeviceTypes

LEMMA QuietKept ==
  ASSUME JobTypes, LoopTypes, DeviceTypes, SubmitInv, QuietInv, [Next]_vars
  PROVE  QuietInv'
<1> SUFFICES ASSUME ~shutdown'
             PROVE  /\ stage'[Stop] = "new" /\ client' # "stopping"
                    /\ \A i \in DOMAIN mic' : mic'[i] # "stop"
  BY DEF QuietInv
<1>1. ~shutdown
  BY LoopKept
<1>2. /\ stage[Stop] = "new" /\ client # "stopping"
      /\ \A i \in DOMAIN mic : mic[i] # "stop"
  BY <1>1 DEF QuietInv
<1>3. stage'[Stop] = "new"
  <2>1. \A c : Stop # Read(c)
    BY JobKinds
  <2> QED
    BY <1>1, <1>2, <2>1, NewJob, JobSets
<1>4. client' # "stopping"
  BY <1>2, LoopKept
<1>5. \A i \in DOMAIN mic' : mic'[i] # "stop"
  BY <1>2, MicSteps
<1> QED
  BY <1>3, <1>4, <1>5

-----------------------------------------------------------------------------
(* Before the pipeline is started.                                         *)

LEMMA OnlyStart ==
  ASSUME BeginInv, client = "starting", [Next]_vars
  PROVE  Start \/ UNCHANGED vars
<1>1. /\ recovery = "off" /\ work = <<>> /\ client = "starting"
      /\ \A j \in Jobs : stage[j] = "new"
      /\ \A s \in Streams : audio[s] = "none"
  BY DEF BeginInv
<1>2. ~Signal /\ ~TakeJob /\ ~TransportEnds
  BY <1>1 DEF Signal, TakeJob, TransportEnds
<1>3. ~Watchdog
  BY <1>1 DEF Watchdog, NoticeStall, RestartReturns, RestartTimesOut, Confirm, NextAttempt,
     GiveUp, WatchEnds
<1>4. ~PutSentinel
  BY <1>1, JobSets DEF PutSentinel, Step
<1>5. ~Callback
  BY <1>1 DEF Callback, Firing
<1>6. \A j \in Calls : ~Call(j)
  <2>1. ASSUME NEW j \in Calls PROVE stage[j] = "new"
    BY <1>1, JobSets
  <2> QED
    BY <2>1 DEF Call, CloseStream, ForgetStream, Terminate, Initialize, InitializeFails,
       CreateStream, StartStream, CreateFails, Step
<1>7. \A c \in 1 .. MaxConnections : ~GetFrame(c)
  BY <1>1, JobSets DEF GetFrame
<1>8. \A s \in Streams : ~Wedge(s)
  BY <1>1 DEF Wedge
<1>9. Loop => Start
  BY <1>1 DEF Loop, Connect, ConnectFails, Close, BackoffElapses, LeaveLoop, StopReturns,
     StopTimesOut, Exit
<1> QED
  BY <1>2, <1>3, <1>4, <1>5, <1>6, <1>7, <1>8, <1>9 DEF Next, Calls

LEMMA BeginKept ==
  ASSUME LoopTypes, BeginInv, [Next]_vars
  PROVE  BeginInv'
<1>1. client' = "starting" => client = "starting"
  BY LoopKept
<1>2. Start => client' # "starting"
  BY DEF Start
<1>3. UNCHANGED vars => BeginInv'
  BY DEF vars, clientVars, watchVars, deviceVars, BeginInv
<1> QED
  BY <1>1, <1>2, <1>3, OnlyStart DEF BeginInv

-----------------------------------------------------------------------------
(* The connection keeps its reader.                                        *)

LEMMA MicKept ==
  ASSUME JobTypes, LoopTypes, DeviceTypes, SubmitInv, QuietInv, MicSurvives, [Next]_vars
  PROVE  MicSurvives'
<1> SUFFICES ASSUME NEW c \in 1 .. MaxConnections, ~shutdown',
                    client' = "connected", conn' = c
             PROVE  stage'[Read(c)] \in {"queued", "getting"}
  BY DEF MicSurvives, Open
<1>1. ~shutdown
  BY LoopKept
<1>2. /\ Read(c) \in Jobs /\ Read(c) \notin Calls /\ Read(c) # Stop
      /\ \A r : Read(c) # <<"restart", r>>
      /\ stage \in [Jobs -> Stages]
  BY JobSets, JobKinds DEF JobTypes
<1>3. ASSUME client = "connected", conn = c
      PROVE  stage[Read(c)] \in {"queued", "getting"}
  BY <1>1, <1>3 DEF MicSurvives, Open
<1>4. CASE Connect
  <2>1. stage' = [stage EXCEPT ![Read(c)] = "queued"]
    BY <1>4 DEF Connect, Submit
  <2> QED
    BY <1>2, <2>1
<1>5. CASE Loop /\ ~Connect
  BY <1>5 DEF Loop, Start, ConnectFails, Close, BackoffElapses, LeaveLoop, StopReturns,
     StopTimesOut, Finish, Exit
<1>6. ASSUME UNCHANGED clientVars, NEW j, NEW s, j # Read(c),
             stage' = [stage EXCEPT ![j] = s] \/ stage' = stage
      PROVE  stage'[Read(c)] \in {"queued", "getting"}
  <2>1. stage'[Read(c)] = stage[Read(c)]
    BY <1>2, <1>6
  <2>2. client = "connected" /\ conn = c
    BY <1>6 DEF clientVars
  <2> QED
    BY <1>3, <2>1, <2>2
<1>7. CASE Watchdog
  <2>1. UNCHANGED clientVars
    BY <1>7 DEF Watchdog, NoticeStall, NextAttempt, RestartReturns, RestartTimesOut, Confirm,
       GiveUp, WatchEnds, Watch
  <2>2. \E r, s : stage' = [stage EXCEPT ![<<"restart", r>>] = s] \/ stage' = stage
    BY <1>7 DEF Watchdog, NoticeStall, NextAttempt, TryRestart, Submit, RestartReturns,
       RestartTimesOut, Abandon, Confirm, GiveUp, WatchEnds
  <2> QED
    BY <1>2, <1>6, <2>1, <2>2
<1>8. CASE Signal
  BY <1>8 DEF Signal
<1>9. CASE TakeJob
  <2>1. /\ UNCHANGED clientVars
        /\ stage' = [stage EXCEPT ![Head(work)] = FirstStage(Head(work))]
    BY <1>9 DEF TakeJob
  <2>2. CASE Head(work) = Read(c)
    <3>1. FirstStage(Read(c)) = "getting"
      BY <1>2 DEF FirstStage, Calls
    <3> QED
      BY <1>2, <2>1, <2>2, <3>1
  <2>3. CASE Head(work) # Read(c)
    BY <1>6, <2>1, <2>3
  <2> QED
    BY <2>2, <2>3
<1>10. CASE PutSentinel
  BY <1>2, <1>6, <1>10, SentinelStep DEF Moves
<1>11. ASSUME NEW j \in Calls, Call(j)
       PROVE  stage'[Read(c)] \in {"queued", "getting"}
  <2>1. j # Read(c)
    BY <1>2
  <2> QED
    BY <1>6, <1>11, <2>1, CallStep DEF Moves
<1>12. ASSUME NEW d \in 1 .. MaxConnections, GetFrame(d)
       PROVE  stage'[Read(c)] \in {"queued", "getting"}
  <2>1. UNCHANGED clientVars /\ mic # <<>>
    BY <1>12, GetFrameStep
  <2>2. CASE d = c
    <3>1. Open(c)
      BY <2>1 DEF clientVars, Open
    <3>2. mic \in Seq({"frame", "stop"}) /\ \A i \in DOMAIN mic : mic[i] # "stop"
      BY <1>1 DEF DeviceTypes, QuietInv
    <3>3. Head(mic) = "frame"
      BY <2>1, <3>2, TailJobs
    <3>4. stage' = [stage EXCEPT ![Read(c)] = "queued"]
      BY <1>12, <2>2, <3>1, <3>3 DEF GetFrame, Submit
    <3> QED
      BY <1>2, <3>4
  <2>3. CASE d # c
    <3>1. Read(d) # Read(c)
      BY <2>3, JobKinds
    <3>2. \E s : stage' = [stage EXCEPT ![Read(d)] = s]
      BY <1>12 DEF GetFrame, Submit
    <3> QED
      BY <1>6, <2>1, <3>1, <3>2
  <2> QED
    BY <2>2, <2>3
<1>13. CASE Callback \/ TransportEnds \/ \E s \in Streams : Wedge(s)
  <2>1. client' = client /\ conn' = conn /\ stage' = stage
    BY <1>13 DEF Callback, TransportEnds, Wedge, clientVars
  <2> QED
    BY <1>3, <2>1
<1>14. CASE UNCHANGED vars
  <2>1. client' = client /\ conn' = conn /\ stage' = stage
    BY <1>14 DEF vars, clientVars
  <2> QED
    BY <1>3, <2>1
<1> QED
  BY <1>4, <1>5, <1>7, <1>8, <1>9, <1>10, <1>11, <1>12, <1>13, <1>14 DEF Next, Calls

-----------------------------------------------------------------------------
(* One call at a time.                                                     *)

\* No call begins, goes on or ends.
Undisturbed ==
  \A j \in Calls : stage'[j] = stage[j] \/ (~Working(j) /\ stage'[j] \notin CallStages)

LEMMA SubmitsUndisturbed ==
  ASSUME JobTypes, Submits \/ Cancels \/ UNCHANGED <<work, stage>>
  PROVE  Undisturbed
<1>1. stage \in [Jobs -> Stages] /\ Calls \subseteq Jobs
      /\ \A c \in 1 .. MaxConnections : Read(c) \notin Calls
  BY JobSets DEF JobTypes
<1>2. "new" \notin CallStages /\ "queued" \notin CallStages /\ "failed" \notin CallStages
  BY StageNames
<1>3. CASE Submits
  <2>1. PICK k \in Jobs :
          /\ stage' = [stage EXCEPT ![k] = "queued"]
          /\ stage[k] = "new" \/ \E c \in 1 .. MaxConnections : k = Read(c)
    BY <1>3 DEF Submits, Submit
  <2> SUFFICES ASSUME NEW j \in Calls
               PROVE  stage'[j] = stage[j] \/ (~Working(j) /\ stage'[j] \notin CallStages)
    BY DEF Undisturbed
  <2>2. CASE j # k
    BY <1>1, <2>1, <2>2
  <2>3. CASE j = k
    <3>1. stage[j] = "new" /\ stage'[j] = "queued"
      BY <1>1, <2>1, <2>3
    <3> QED
      BY <1>2, <3>1 DEF Working
  <2> QED
    BY <2>2, <2>3
<1>4. CASE Cancels
  <2>1. PICK i \in DOMAIN work :
          stage[work[i]] = "queued" /\ stage' = [stage EXCEPT ![work[i]] = "failed"]
    BY <1>4 DEF Cancels
  <2>2. \A j \in Calls : j # work[i] => stage'[j] = stage[j]
    BY <1>1, <2>1
  <2>3. \A j \in Calls : j = work[i] => stage[j] = "queued" /\ stage'[j] = "failed"
    BY <1>1, <2>1
  <2> QED
    BY <1>2, <2>2, <2>3 DEF Undisturbed, Working
<1>5. CASE UNCHANGED <<work, stage>>
  BY <1>5 DEF Undisturbed
<1> QED
  BY <1>3, <1>4, <1>5

LEMMA OwnedUndisturbed ==
  ASSUME OwnedInv, Undisturbed, UNCHANGED <<stream, portaudio>>, Opened' = Opened,
         Started' = Started, late => late'
  PROVE  OwnedInv'
<1> SUFFICES ASSUME ~late'
             PROVE  /\ \A j, k \in Calls : Working(j)' /\ Working(k)' => j = k
                    /\ (\A j \in Calls : ~Closed(j)') => Started \subseteq {stream}
                    /\ \A j \in Calls : Closed(j)' => Started = {}
                    /\ \A j \in Calls : Cleared(j)' => Opened = {}
                    /\ ~portaudio => Opened = {}
                    /\ Single
  BY DEF OwnedInv, Single
<1>1. /\ \A j, k \in Calls : Working(j) /\ Working(k) => j = k
      /\ (\A j \in Calls : ~Closed(j)) => Started \subseteq {stream}
      /\ \A j \in Calls : Closed(j) => Started = {}
      /\ \A j \in Calls : Cleared(j) => Opened = {}
      /\ ~portaudio => Opened = {}
      /\ Single
  BY DEF OwnedInv
<1>2. \A j \in Calls :
        /\ Working(j)' <=> Working(j)
        /\ Closed(j)' <=> Closed(j)
        /\ Cleared(j)' => Cleared(j)
  <2> SUFFICES ASSUME NEW j \in Calls
               PROVE  /\ Working(j)' <=> Working(j)
                      /\ Closed(j)' <=> Closed(j)
                      /\ Cleared(j)' => Cleared(j)
    OBVIOUS
  <2>1. stage'[j] = stage[j] \/ (~Working(j) /\ stage'[j] \notin CallStages)
    BY DEF Undisturbed
  <2> QED
    BY <2>1 DEF Working, Closed, Cleared, CallStages
<1> QED
  BY <1>1, <1>2

\* The one call at work goes on to stage s, or ends.
LEMMA OwnedByOne ==
  ASSUME JobTypes, OwnedInv, ~late, NEW j \in Calls, Working(j), NEW s,
         stage' = [stage EXCEPT ![j] = s], s # "closing",
         s \in CallStages => Started' = {}, Started' \subseteq {stream'},
         s \in {"initialising", "creating"} => Opened' = {},
         ~portaudio' => Opened' = {}, Single'
  PROVE  OwnedInv'
<1>1. stage'[j] = s /\ \A k \in Calls : k # j => stage'[k] \notin CallStages
  <2>1. \A k \in Calls : k # j => ~Working(k)
    BY DEF OwnedInv
  <2>2. stage'[j] = s /\ \A k \in Calls : k # j => stage'[k] = stage[k]
    BY JobSets DEF JobTypes
  <2> QED
    BY <2>1, <2>2 DEF Working
<1>2. \A k, l \in Calls : Working(k)' /\ Working(l)' => k = l
  BY <1>1 DEF Working
<1>3. \A k \in Calls : Closed(k)' => Started' = {}
  BY <1>1 DEF Closed, Working
<1>4. \A k \in Calls : Cleared(k)' => Opened' = {}
  <2> SUFFICES ASSUME NEW k \in Calls, Cleared(k)' PROVE Opened' = {}
    OBVIOUS
  <2>1. stage'[k] \in CallStages
    BY DEF Cleared, CallStages
  <2> QED
    BY <1>1, <2>1 DEF Cleared
<1> QED
  BY <1>2, <1>3, <1>4 DEF OwnedInv

LEMMA OwnedByCall ==
  ASSUME JobTypes, DeviceTypes, OwnedInv, ~late, NEW j \in Calls, Call(j)
  PROVE  OwnedInv'
<1>1. /\ stream \in Streams \cup {NoStream} /\ NoStream \notin Streams /\ j[2] \in Streams
      /\ audio \in [Streams -> Fates] /\ portaudio \in BOOLEAN
  BY JobSets, Constants DEF DeviceTypes, NoStream, Streams
<1>2. (~portaudio => Opened = {}) /\ Single
  BY DEF OwnedInv
<1>3. ASSUME NEW from \in CallStages, NEW to, Step(j, from, to), to # "closing",
             to \in CallStages => Started' = {}, Started' \subseteq {stream'},
             to \in {"initialising", "creating"} => Opened' = {},
             ~portaudio' => Opened' = {}, Single'
      PROVE  OwnedInv'
  <2>1. Working(j) /\ stage' = [stage EXCEPT ![j] = to]
    BY <1>3 DEF Step, Working
  <2> QED
    BY <1>3, <2>1, OwnedByOne
<1>4. ASSUME stage[j] \in CallStages \ {"closing"}
      PROVE  Started = {}
  BY <1>4 DEF OwnedInv, Closed, Working
<1>5. ASSUME audio' = audio
      PROVE  Opened' = Opened /\ Started' = Started /\ Single'
  <2>1. Opened' = Opened /\ Started' = Started
    BY <1>5 DEF Opened, Started
  <2> QED
    BY <1>2, <2>1 DEF Single
<1>6. CASE CloseStream(j)
  <2>1. Working(j) /\ stage[j] = "closing"
    BY <1>6 DEF CloseStream, Step, Working, CallStages
  <2>2. \A k \in Calls : ~Closed(k)
    BY <2>1 DEF OwnedInv, Closed
  <2>3. Started \subseteq {stream}
    BY <2>2 DEF OwnedInv
  <2>4. Started' = {} /\ Opened' \subseteq Opened
    <3>1. CASE stream = NoStream
      <4>1. audio' = audio
        BY <1>6, <3>1 DEF CloseStream
      <4>2. Started = {}
        BY <1>1, <2>3, <3>1 DEF Started
      <4> QED
        BY <1>5, <4>1, <4>2
    <3>2. CASE stream # NoStream
      <4>1. audio' = [audio EXCEPT ![stream] = "gone"] /\ stream \in Streams
        BY <1>1, <1>6, <3>2 DEF CloseStream
      <4>2. \A s \in Streams : s # stream => audio[s] \notin {"firing", "silent"}
        BY <2>3 DEF Started
      <4>3. \A s \in Streams : audio'[s] \notin {"firing", "silent"}
        BY <1>1, <4>1, <4>2
      <4>4. \A s \in Streams : audio'[s] = audio[s] \/ audio'[s] = "gone"
        BY <1>1, <4>1
      <4> QED
        BY <4>3, <4>4 DEF Started, Opened
    <3> QED
      BY <3>1, <3>2
  <2>5. Single' /\ (~portaudio' => Opened' = {})
    BY <1>2, <1>6, <2>4 DEF Single, CloseStream
  <2>6. Step(j, "closing", "forgetting")
    BY <1>6 DEF CloseStream
  <2> QED
    BY <1>3, <2>4, <2>5, <2>6 DEF CallStages
<1>7. CASE ForgetStream(j)
  <2>1. stage[j] \in CallStages \ {"closing"}
    BY <1>7 DEF ForgetStream, Step, CallStages
  <2>2. Started' = {} /\ (~portaudio' => Opened' = {}) /\ Single'
    BY <1>2, <1>4, <1>5, <1>7, <2>1 DEF ForgetStream
  <2>3. Step(j, "forgetting", IF j = Stop THEN "putting" ELSE "terminating")
    BY <1>7 DEF ForgetStream
  <2> QED
    BY <1>3, <2>2, <2>3 DEF CallStages
<1>8. CASE Terminate(j)
  <2>1. \A s \in Streams : audio'[s] = IF portaudio /\ s \in Opened THEN "gone" ELSE audio[s]
    BY <1>8 DEF Terminate
  <2>2. \A s \in Streams : s \in Opened => portaudio
    BY <1>2
  <2>3. \A s \in Streams : audio'[s] \notin {"unstarted", "firing", "silent"}
    BY <2>1, <2>2 DEF Opened
  <2>4. Opened' = {} /\ Started' = {}
    BY <2>3 DEF Opened, Started
  <2>5. Single'
    BY <2>4 DEF Single
  <2>6. Step(j, "terminating", IF portaudio THEN "initialising" ELSE "creating")
    BY <1>8 DEF Terminate
  <2> QED
    BY <1>3, <2>4, <2>5, <2>6 DEF CallStages
<1>9. CASE Initialize(j) \/ InitializeFails(j)
  <2>1. stage[j] = "initialising" /\ audio' = audio /\ Step(j, "initialising", "creating")
    BY <1>9 DEF Initialize, InitializeFails, deviceVars, Step
  <2>2. Opened = {}
    BY <2>1 DEF OwnedInv, Cleared
  <2>3. Started' = {} /\ Opened' = {} /\ Single'
    BY <1>4, <1>5, <2>1, <2>2 DEF CallStages
  <2> QED
    BY <1>3, <2>1, <2>3 DEF CallStages
<1>10. CASE CreateStream(j)
  <2>1. stage[j] = "creating" /\ portaudio' /\ Step(j, "creating", "starting")
    BY <1>1, <1>10 DEF CreateStream, Step
  <2>2. Opened = {} /\ Started = {}
    BY <1>4, <2>1 DEF OwnedInv, Cleared, CallStages
  <2>3. \A s \in Streams : audio[s] \notin {"unstarted", "firing", "silent"}
    BY <2>2 DEF Opened
  <2>4. audio' = [audio EXCEPT ![j[2]] = "unstarted"]
    BY <1>10 DEF CreateStream
  <2>5. /\ \A s \in Streams : audio'[s] \notin {"firing", "silent"}
        /\ \A s \in Streams : s # j[2] => audio'[s] # "unstarted"
    BY <1>1, <2>3, <2>4
  <2>6. Started' = {}
    BY <2>5 DEF Started
  <2>7. Single'
    BY <2>5 DEF Opened, Single
  <2> QED
    BY <1>3, <2>1, <2>6, <2>7 DEF CallStages
<1>11. CASE StartStream(j)
  <2>1. Step(j, "starting", "returned") /\ stream' = stream /\ portaudio' = portaudio
    BY <1>11 DEF StartStream
  <2>2. Started = {}
    BY <1>4, <2>1 DEF Step, CallStages
  <2>3. /\ stream \in Streams /\ audio[stream] = "unstarted"
        /\ \E a \in {"firing", "silent"} : audio' = [audio EXCEPT ![stream] = a]
    BY <1>1, <1>11 DEF StartStream
  <2>4. /\ \A s \in Streams : s # stream => audio'[s] = audio[s]
        /\ audio'[stream] \in {"firing", "silent"}
    BY <1>1, <2>3
  <2>5. Started' \subseteq {stream'}
    BY <2>1, <2>2, <2>4 DEF Started
  <2>6. Opened' = Opened
    BY <2>3, <2>4 DEF Opened
  <2>7. Single' /\ (~portaudio' => Opened' = {})
    BY <1>2, <2>1, <2>6 DEF Single
  <2> QED
    BY <1>3, <2>1, <2>5, <2>7 DEF CallStages
<1>12. CASE CreateFails(j)
  <2>1. PICK from \in {"creating", "starting"} : Step(j, from, "failed")
    BY <1>12 DEF CreateFails
  <2>2. stage[j] \in CallStages \ {"closing"} /\ from \in CallStages
    BY <2>1 DEF Step, CallStages
  <2>3. Started' = {} /\ Single' /\ (~portaudio' => Opened' = {})
    BY <1>2, <1>4, <1>5, <1>12, <2>2 DEF CreateFails
  <2> QED
    BY <1>3, <2>1, <2>2, <2>3 DEF CallStages
<1> QED
  BY <1>6, <1>7, <1>8, <1>9, <1>10, <1>11, <1>12 DEF Call

\* A restart that came late stays so.
LEMMA LateForGood ==
  ASSUME [Next]_vars
  PROVE  late => late'
<1>1. CASE Loop
  BY <1>1 DEF Loop, Start, Connect, ConnectFails, Close, BackoffElapses, LeaveLoop, StopReturns,
     StopTimesOut, Finish, Exit
<1>2. CASE Watchdog
  BY <1>2 DEF Watchdog, NoticeStall, NextAttempt, RestartReturns, RestartTimesOut,
     Confirm, GiveUp, WatchEnds
<1>3. CASE Signal \/ TakeJob \/ Callback \/ TransportEnds \/ \E s \in Streams : Wedge(s)
  BY <1>3 DEF Signal, TakeJob, Callback, TransportEnds, Wedge
<1>4. CASE PutSentinel
  BY <1>4, SentinelStep
<1>5. ASSUME NEW j \in Calls, Call(j) PROVE late => late'
  BY <1>5, CallStep
<1>6. ASSUME NEW c \in 1 .. MaxConnections, GetFrame(c) PROVE late => late'
  BY <1>6, GetFrameStep
<1>7. CASE UNCHANGED vars
  BY <1>7 DEF vars
<1> QED
  BY <1>1, <1>2, <1>3, <1>4, <1>5, <1>6, <1>7 DEF Next, Calls

\* Who may change what PortAudio has open, and the pipeline's own stream.
LEMMA OpenedFrame ==
  ASSUME DeviceTypes, [Next]_vars, ~Start, \A j \in Calls : ~Call(j)
  PROVE  UNCHANGED <<stream, portaudio>> /\ Opened' = Opened /\ Started' = Started
<1> DEFINE Same == /\ stream' = stream /\ portaudio' = portaudio
                   /\ Opened' = Opened /\ Started' = Started
<1>1. ASSUME UNCHANGED deviceVars
      PROVE  Same
  BY <1>1 DEF deviceVars, Opened, Started
<1>2. CASE Loop
  BY <1>1, <1>2 DEF Loop, Connect, ConnectFails, Close, BackoffElapses, LeaveLoop, StopReturns,
     StopTimesOut, Finish, Exit
<1>3. CASE Watchdog
  BY <1>1, <1>3 DEF Watchdog, NoticeStall, NextAttempt, RestartReturns, RestartTimesOut,
     Confirm, GiveUp, WatchEnds, Watch
<1>4. CASE Signal \/ TakeJob \/ Callback \/ TransportEnds
  BY <1>1, <1>4 DEF Signal, TakeJob, Callback, TransportEnds
<1>5. CASE PutSentinel
  BY <1>1, <1>5, SentinelStep
<1>6. ASSUME NEW c \in 1 .. MaxConnections, GetFrame(c)
      PROVE  Same
  BY <1>1, <1>6, GetFrameStep
<1>7. ASSUME NEW s \in Streams, Wedge(s)
      PROVE  Same
  <2>1. /\ stream' = stream /\ portaudio' = portaudio
        /\ audio[s] = "firing" /\ audio' = [audio EXCEPT ![s] = "silent"]
    BY <1>7 DEF Wedge
  <2>2. audio \in [Streams -> Fates]
    BY DEF DeviceTypes
  <2>3. \A t \in Streams :
          /\ audio'[t] \in {"firing", "silent"} <=> audio[t] \in {"firing", "silent"}
          /\ audio'[t] = "unstarted" <=> audio[t] = "unstarted"
    BY <2>1, <2>2
  <2> QED
    BY <2>1, <2>3 DEF Opened, Started
<1>8. CASE UNCHANGED vars
  BY <1>1, <1>8 DEF vars, deviceVars
<1>9. Same
  BY <1>2, <1>3, <1>4, <1>5, <1>6, <1>7, <1>8 DEF Next, Calls
<1> QED
  BY <1>9

LEMMA OwnedByStart ==
  ASSUME JobTypes, DeviceTypes, BeginInv, OwnedInv, Start
  PROVE  OwnedInv'
<1>1. /\ \A j \in Jobs : stage[j] = "new"
      /\ \A s \in Streams : audio[s] = "none"
      /\ audio \in [Streams -> Fates] /\ portaudio
  BY DEF BeginInv, Start, DeviceTypes
<1>2. stage' = stage /\ late' = late /\ portaudio' = portaudio
  BY DEF Start
<1>3. \A j \in Calls : ~Working(j)' /\ ~Closed(j)' /\ ~Cleared(j)'
  BY <1>1, <1>2, JobSets, StageNames DEF Closed, Cleared, Working, CallStages
<1>4. Opened' \subseteq {0} /\ Started' \subseteq {stream'}
  <2>1. CASE UNCHANGED <<stream, audio>>
    BY <1>1, <2>1 DEF Opened, Started
  <2>2. CASE stream' = 0 /\ \E a : audio' = [audio EXCEPT ![0] = a]
    <3>1. \A s \in Streams : s # 0 => audio'[s] = "none"
      BY <1>1, <2>2
    <3> QED
      BY <2>2, <3>1 DEF Opened, Started
  <2> QED
    BY <2>1, <2>2 DEF Start
<1>5. Single'
  BY <1>4 DEF Single
<1>6. portaudio'
  BY <1>1, <1>2
<1> QED
  BY <1>3, <1>4, <1>5, <1>6 DEF OwnedInv

\* A thread takes a call: no other is at work, or it is late.
LEMMA OwnedByTaking ==
  ASSUME JobTypes, OwnedInv, TakeJob, UNCHANGED <<stream, portaudio>>, Opened' = Opened,
         Started' = Started
  PROVE  OwnedInv'
<1>1. /\ work \in Seq(Jobs) /\ work # <<>> /\ stage \in [Jobs -> Stages]
      /\ stage' = [stage EXCEPT ![Head(work)] = FirstStage(Head(work))]
  BY DEF TakeJob, JobTypes
<1>2. Head(work) \in Jobs
  BY <1>1, TailJobs
<1>3. late => late'
  BY DEF TakeJob
<1>4. CASE Head(work) \notin Calls
  <2>1. \A j \in Calls : stage'[j] = stage[j]
    BY <1>1, <1>4, JobSets
  <2> QED
    BY <1>3, <2>1, OwnedUndisturbed DEF Undisturbed
<1>5. CASE Head(work) \in Calls /\ ~late'
  <2>1. ~late /\ Running \cap Calls = {}
    BY <1>5 DEF TakeJob, Calls
  <2>2. \A j \in Calls : ~Working(j)
    BY <2>1, JobSets DEF Running, Working
  <2>3. Started \subseteq {stream} /\ (~portaudio => Opened = {}) /\ Single
    BY <2>1, <2>2 DEF OwnedInv, Closed
  <2>4. Single'
    BY <2>3 DEF Single
  <2>5. stage'[Head(work)] = "closing"
    BY <1>1, <1>2, <1>5 DEF FirstStage, Calls
  <2>6. \A j \in Calls : j # Head(work) => stage'[j] \notin CallStages
    BY <1>1, <2>2, JobSets DEF Working
  <2>7. \A j \in Calls : ~Closed(j)' /\ ~Cleared(j)'
    BY <2>5, <2>6 DEF Closed, Cleared, Working, CallStages
  <2>8. \A j, k \in Calls : Working(j)' /\ Working(k)' => j = k
    BY <2>6 DEF Working
  <2> QED
    BY <2>3, <2>4, <2>7, <2>8 DEF OwnedInv
<1>6. CASE late'
  BY <1>6 DEF OwnedInv
<1> QED
  BY <1>4, <1>5, <1>6

LEMMA OwnedKept ==
  ASSUME JobTypes, LoopTypes, DeviceTypes, SubmitInv, QuietInv, BeginInv, OwnedInv, [Next]_vars
  PROVE  OwnedInv'
<1> SUFFICES ASSUME ~late' PROVE OwnedInv'
  BY DEF OwnedInv
<1>1. late => late'
  BY LateForGood
<1>2. CASE Start
  BY <1>2, OwnedByStart
<1>3. ASSUME NEW j \in Calls, Call(j) PROVE OwnedInv'
  BY <1>1, <1>3, OwnedByCall
<1>4. CASE ~Start /\ \A j \in Calls : ~Call(j)
  <2>1. UNCHANGED <<stream, portaudio>> /\ Opened' = Opened /\ Started' = Started
    BY <1>4, OpenedFrame
  <2>2. CASE TakeJob
    BY <2>1, <2>2, OwnedByTaking
  <2>3. CASE PutSentinel
    <3>1. Moves(Stop, "returned") /\ stage[Stop] = "putting"
      BY <2>3, SentinelStep
    <3>2. Working(Stop) /\ Stop \in Calls
      BY <3>1, JobSets DEF Working, CallStages
    <3>3. Started = {} /\ (~portaudio => Opened = {}) /\ Single
      BY <1>1, <3>1, <3>2 DEF OwnedInv, Closed
    <3>4. "returned" \notin CallStages
      BY StageNames
    <3>5. Single'
      BY <2>1, <3>3 DEF Single
    <3> QED
      BY <1>1, <2>1, <3>1, <3>2, <3>3, <3>4, <3>5, OwnedByOne DEF Moves
  <2>4. ASSUME NEW c \in 1 .. MaxConnections, GetFrame(c) PROVE OwnedInv'
    <3>1. Read(c) \notin Calls /\ \E s : stage' = [stage EXCEPT ![Read(c)] = s]
      BY <2>4, JobSets DEF GetFrame, Submit
    <3>2. Undisturbed
      BY <3>1, JobSets DEF Undisturbed, JobTypes
    <3> QED
      BY <1>1, <2>1, <3>2, OwnedUndisturbed
  <2>5. CASE Loop \/ Watchdog \/ Signal \/ Callback \/ TransportEnds
             \/ (\E s \in Streams : Wedge(s)) \/ UNCHANGED vars
    <3>1. Submits \/ Cancels \/ UNCHANGED <<work, stage>>
      BY <1>4, <2>5, QuietSteps
    <3> QED
      BY <1>1, <2>1, <3>1, SubmitsUndisturbed, OwnedUndisturbed
  <2> QED
    BY <1>4, <2>2, <2>3, <2>4, <2>5 DEF Next, Calls
<1> QED
  BY <1>2, <1>3, <1>4

-----------------------------------------------------------------------------
LEMMA InitHolds == Init => PipelineInv
<1> SUFFICES ASSUME Init PROVE PipelineInv
  OBVIOUS
<1>1. \A j \in Jobs : stage[j] = "new" /\ stage \in [Jobs -> Stages]
  BY DEF Init, Stages, Ended
<1>2. Running = {}
  BY <1>1, StageNames DEF Running
<1>3. IsFiniteSet(Running) /\ Cardinality(Running) = 0
  BY <1>2, FS_EmptySet
<1>4. JobTypes
  <2>1. work \in Seq(Jobs) /\ stage \in [Jobs -> Stages]
    BY <1>1 DEF Init, Stages, Ended
  <2>2. Cardinality(Running) <= Workers
    BY <1>3, Constants
  <2> QED
    BY <2>1, <2>2 DEF JobTypes
<1>5. LoopTypes
  <2>1. conn \in 0 .. MaxConnections /\ attempt \in 0 .. MaxAttempts /\ restarts \in 0 .. MaxRestarts
    BY Constants DEF Init
  <2>2. {closed, shutdown, fired, ever, late} \subseteq BOOLEAN
    BY DEF Init
  <2> QED
    BY <2>1, <2>2 DEF Init, LoopTypes
<1>6. DeviceTypes
  BY Constants DEF Init, DeviceTypes, NoStream, Fates
<1>7. SubmitInv
  <2>1. work = <<>> /\ \A j \in Jobs : stage[j] = "new"
    BY <1>1 DEF Init
  <2>2. \A r \in 1 .. MaxRestarts : <<"restart", r>> \in Jobs
    BY JobSets DEF Restarts
  <2> QED
    BY <2>1, <2>2, JobSets DEF SubmitInv
<1>8. QuietInv
  <2>1. mic = <<>> /\ client = "starting"
    BY DEF Init
  <2> QED
    BY <1>1, <2>1, JobSets DEF QuietInv
<1>9. BeginInv
  BY <1>1 DEF Init, BeginInv
<1>10. OwnedInv
  <2>1. \A j \in Calls : ~Working(j)
    BY <1>1, JobSets, StageNames DEF Working
  <2>2. Opened = {} /\ Started = {}
    BY DEF Init, Opened, Started
  <2> QED
    BY <2>1, <2>2 DEF OwnedInv, Closed, Cleared, Single, Working, CallStages
<1>11. MicSurvives
  BY DEF Init, MicSurvives, Open
<1> QED
  BY <1>3, <1>4, <1>5, <1>6, <1>7, <1>8, <1>9, <1>10, <1>11, TypeParts DEF PipelineInv

LEMMA NextKeeps ==
  ASSUME PipelineInv, [Next]_vars
  PROVE  PipelineInv'
<1>1. /\ JobTypes /\ LoopTypes /\ DeviceTypes /\ IsFiniteSet(Running)
      /\ SubmitInv /\ QuietInv /\ BeginInv /\ OwnedInv /\ MicSurvives
  BY TypeParts DEF PipelineInv
<1>2. JobTypes' /\ IsFiniteSet(Running)'
  BY <1>1, JobsTyped
<1>3. LoopTypes'
  BY <1>1, LoopKept
<1>4. DeviceTypes'
  BY <1>1, DeviceKept
<1>5. SubmitInv'
  BY <1>1, SubmitKept
<1>6. QuietInv'
  BY <1>1, QuietKept
<1>7. BeginInv'
  BY <1>1, BeginKept
<1>8. OwnedInv'
  BY <1>1, OwnedKept
<1>9. MicSurvives'
  BY <1>1, MicKept
<1>10. TypeOK'
  <2>1. TypeOK' <=> JobTypes' /\ LoopTypes' /\ DeviceTypes'
    BY TypeParts, PTL
  <2> QED
    BY <1>2, <1>3, <1>4, <2>1
<1> QED
  BY <1>2, <1>5, <1>6, <1>7, <1>8, <1>9, <1>10 DEF PipelineInv

\* The inductive invariant of the audio client.
THEOREM PipelineHolds == Spec => []PipelineInv
<1>1. PipelineInv /\ [Next]_vars => PipelineInv'
  BY NextKeeps
<1> QED
  BY InitHolds, <1>1, PTL DEF Spec

\* Every variable of the audio client has its type; the microphone queue keeps
\* to _MIC_QUEUE_MAX and the running jobs to the executor's threads.
THEOREM TypeCorrect == Spec => []TypeOK
<1>1. PipelineInv => TypeOK
  BY DEF PipelineInv
<1> QED
  BY <1>1, PipelineHolds, PTL

\* With no restart or stop at work, and none that outlived its timeout or met
\* another, PortAudio has at most one stream open, and one that runs is the
\* pipeline's, whichever of the terminating, initialising, opening and starting
\* raised before (audio.py's _teardown_stream, start, restart and stop).
THEOREM StreamsOwned == Spec => []StreamOwned
<1>1. PipelineInv => StreamOwned
  <2> SUFFICES ASSUME OwnedInv, ~late, Running \cap (Restarts \cup {Stop}) = {}
               PROVE  Started \subseteq {stream} /\ Single
    BY DEF PipelineInv, StreamOwned, Single
  <2>1. \A j \in Calls : ~Working(j)
    BY JobSets DEF Running, Working, Calls
  <2> QED
    BY <2>1 DEF OwnedInv, Closed
<1> QED
  BY <1>1, PipelineHolds, PTL

\* Until shutdown an open connection has its reader, whatever restarts come and
\* go and whichever threads are blocked: the sentinel that would end it comes
\* from stop() alone (audio.py's read_mic_frame and restart).
THEOREM MicrophoneSurvives == Spec => []MicSurvives
<1>1. PipelineInv => MicSurvives
  BY DEF PipelineInv
<1> QED
  BY <1>1, PipelineHolds, PTL

=============================================================================
