-------------------------- MODULE StreamConversation --------------------------
(***************************************************************************)
(* One StreamConversation call of the AI server (rpc/service.py): the      *)
(* reader task (_read_inputs), the processing task of the current          *)
(* utterance (_enqueue_utterance around _process_utterance), the           *)
(* orchestration task it starts (_run_orchestration) and the writer (the   *)
(* handler itself, which yields from output_queue).                        *)
(*                                                                         *)
(* asyncio runs one task at a time and switches at an await, so a step is  *)
(* what a task does between two awaits that can suspend it.                *)
(*                                                                         *)
(* What the hub puts on the stream comes from device sessions, several at  *)
(* a time, also of one device: a session that was replaced still sends its *)
(* END (hub/src/device.rs:144).  The reader has one buffer and does not    *)
(* tell them apart.  Audio is a sequence of pieces, each one chunk of an   *)
(* utterance of a session; limits in bytes and milliseconds are numbers of *)
(* pieces.  A clip is what an accepted END hands to processing; clips are  *)
(* numbered in that order.                                                 *)
(***************************************************************************)
EXTENDS Naturals, Sequences

CONSTANTS
  Session,         \* the sessions whose frames the hub puts on the stream
  MinPieces,       \* MIN_UTTERANCE_DURATION_MS
  MaxPieces,       \* MAX_AUDIO_BUFFER_BYTES
  OutputCapacity,  \* output_queue (100)
  TtsCapacity,     \* tts_queue (32)
  Lengths,         \* bound: pieces of each utterance of each session
  MaxClips,        \* bound: clips of a stream
  MaxPackets       \* bound: audio packets of a response

ASSUME StreamAssumption ==
  /\ {MinPieces, MaxPieces, OutputCapacity, TtsCapacity} \subseteq Nat \ {0}
  /\ Lengths \in [Session -> Seq(Nat)]
  /\ {MaxClips, MaxPackets} \subseteq Nat

Clip == 1..MaxClips

VARIABLES
  client,      \* "connected", "closed" its side, or "gone" (context.cancelled())
  utterance,   \* how many utterances each session has begun
  length,      \* pieces of the one it is in, 0 when silent
  over,        \* the sessions that have sent their closing END
  reader,      \* the reader task
  audio_buffer,
  clips,       \* the audio of each clip so far
  stage,       \* the processing task of each clip
  cancelling,  \* clips whose task has been cancelled and has not noticed
  offered,     \* the output each processing task is about to put
  orchestration,  \* the orchestration task of each clip
  packets,     \* audio packets it has delivered
  tts_queue,   \* of each clip
  audio_produced,  \* the clips with audio_produced set
  output_queue,
  writer,      \* "writing", "closing" in its finally, "done"
  written      \* what the client has been sent

speech == <<client, utterance, length, over>>
processing == <<stage, offered, audio_produced>>
orchestrating == <<orchestration, packets, tts_queue>>
vars == <<speech, reader, audio_buffer, clips, cancelling, processing,
          orchestrating, output_queue, writer, written>>

Piece == [session : Session, utterance : Nat \ {0}, number : Nat \ {0}]
Output == [clip : Clip \cup {0}, kind : {"audio", "final", "error"}]
Overflow == [clip |-> 0, kind |-> "error"]
Sentinel == [clip |-> 0, kind |-> "sentinel"]
Done == "done"
Active == {"stt", "waiting", "offering", "concluding"}

TypeOK ==
  /\ client \in {"connected", "closed", "gone"}
  /\ utterance \in [Session -> Nat]
  /\ length \in [Session -> Nat]
  /\ over \subseteq Session
  /\ reader \in {"reading", "reporting", "superseding", "interrupting",
                 "finishing", "closing", "done"}
  /\ audio_buffer \in Seq(Piece)
  /\ clips \in Seq(Seq(Piece)) /\ Len(clips) <= MaxClips
  /\ stage \in [Clip -> Active \cup {"none", "done", "cancelled"}]
  /\ cancelling \subseteq Clip
  /\ offered \in [Clip -> {"audio", "final", "error"}]
  /\ orchestration \in [Clip -> {"none", "running", "failed", "ending", "done"}]
  /\ packets \in [Clip -> 0..MaxPackets]
  /\ tts_queue \in [Clip -> Seq({"audio", "final", "error", Done})]
  /\ \A n \in Clip : Len(tts_queue[n]) <= TtsCapacity
  /\ audio_produced \subseteq Clip
  /\ output_queue \in Seq(Output \cup {Sentinel})
  /\ Len(output_queue) <= OutputCapacity
  /\ writer \in {"writing", "closing", "done"}
  /\ written \in Seq(Output)

\* A stream may open in the middle of an utterance: the START went out on the
\* stream before, or was drained between the two (hub/src/grpc.rs:101, 405).
Init ==
  /\ client = "connected"
  /\ \E midway \in SUBSET {s \in Session : Lengths[s] # <<>>} :
       /\ utterance = [s \in Session |-> IF s \in midway THEN 1 ELSE 0]
       /\ length = [s \in Session |-> IF s \in midway THEN 1 ELSE 0]
  /\ over = {}
  /\ reader = "reading"
  /\ audio_buffer = <<>>
  /\ clips = <<>>
  /\ stage = [n \in Clip |-> "none"]
  /\ cancelling = {}
  /\ offered = [n \in Clip |-> "final"]
  /\ orchestration = [n \in Clip |-> "none"]
  /\ packets = [n \in Clip |-> 0]
  /\ tts_queue = [n \in Clip |-> <<>>]
  /\ audio_produced = {}
  /\ output_queue = <<>>
  /\ writer = "writing"
  /\ written = <<>>

\* processing_task is the task of the last clip.
Current == Len(clips)
ProcessingDone == \A n \in Clip : n = Current => stage[n] \notin Active

Room == Len(output_queue) < OutputCapacity

-----------------------------------------------------------------------------
(* The reader.                                                             *)

\* Piece number n of the utterance u of s.
Said(s, u, n) == [session |-> s, utterance |-> u, number |-> n]
NextPiece(s) == Said(s, utterance[s], length[s] + 1)

\* service.py:235-241: the next message of the request iterator.  Bound: the
\* hub is silent after the last clip.
Receives(s) ==
  /\ reader = "reading"
  /\ client = "connected"
  /\ s \notin over
  /\ Current < MaxClips

\* service.py:243-246.  That a session is silent before its START, and is not
\* before a CONTINUE, is the hub's doing (Utterances), not the reader's.
ReadStart(s) ==
  /\ Receives(s)
  /\ length[s] = 0
  /\ utterance[s] < Len(Lengths[s])
  /\ utterance' = [utterance EXCEPT ![s] = @ + 1]
  /\ length' = [length EXCEPT ![s] = 1]
  /\ audio_buffer' = <<Said(s, utterance[s] + 1, 1)>>
  /\ UNCHANGED <<client, over, reader, clips, cancelling, processing,
                 orchestrating, output_queue, writer, written>>

\* Mutant of ReadContinue: what does not fit is dropped, what is there is kept.
ReadContinueDroppingPiece(s) ==
  /\ Receives(s)
  /\ length[s] > 0
  /\ length[s] + 1 < Lengths[s][utterance[s]]
  /\ length' = [length EXCEPT ![s] = @ + 1]
  /\ audio_buffer' = IF Len(audio_buffer) + 1 > MaxPieces
                       THEN audio_buffer
                       ELSE Append(audio_buffer, NextPiece(s))
  /\ UNCHANGED <<client, utterance, over, reader, clips, cancelling, processing,
                 orchestrating, output_queue, writer, written>>

\* service.py:269-291.  A CONTINUE is buffered whatever came before it: after
\* the END of another session, or on a stream that has had no START.  A buffer
\* that would overflow is cleared and the error is put on output_queue; a put
\* suspends only when the queue is full.
ReadContinue(s) ==
  /\ Receives(s)
  /\ length[s] > 0
  /\ length[s] + 1 < Lengths[s][utterance[s]]    \* the last piece is the END's
  /\ length' = [length EXCEPT ![s] = @ + 1]
  /\ UNCHANGED <<utterance, over>>
  /\ IF Len(audio_buffer) + 1 > MaxPieces
       THEN /\ audio_buffer' = <<>>
            /\ reader' = IF Room THEN "reading" ELSE "reporting"
            /\ output_queue' = IF Room THEN Append(output_queue, Overflow)
                                       ELSE output_queue
       ELSE /\ audio_buffer' = Append(audio_buffer, NextPiece(s))
            /\ UNCHANGED <<reader, output_queue>>
  /\ UNCHANGED <<client, clips, cancelling, processing, orchestrating, writer,
                 written>>

ReportOverflow ==
  /\ reader = "reporting"
  /\ Room
  /\ output_queue' = Append(output_queue, Overflow)
  /\ reader' = "reading"
  /\ UNCHANGED <<speech, audio_buffer, clips, cancelling, processing,
                 orchestrating, writer, written>>

\* create_task(_enqueue_utterance(frozen_audio)).
StartClip(audio) ==
  /\ clips' = Append(clips, audio)
  /\ stage' = [stage EXCEPT ![Current + 1] = "stt"]
  /\ audio_buffer' = <<>>
  /\ reader' = "reading"
  /\ UNCHANGED <<offered, audio_produced>>

\* An END of the VAD brings a last piece; the END of a session that is over
\* (hub/src/device.rs:144-157) brings none, in an utterance or outside.  What
\* the other sessions are saying goes on.
AudioAtEnd(s) ==
  {audio_buffer} \cup
    (IF length[s] > 0 THEN {Append(audio_buffer, NextPiece(s))} ELSE {})

EndOf(s, audio) ==
  /\ Receives(s)
  /\ length' = [length EXCEPT ![s] = 0]
  /\ over' = IF audio = audio_buffer THEN over \cup {s} ELSE over
  /\ UNCHANGED <<client, utterance>>

\* Mutant of ReadEnd: the clip in progress is cancelled before the length of
\* the new one is looked at.
ReadEndCancellingFirst(s) ==
  /\ \E audio \in AudioAtEnd(s) :
       /\ EndOf(s, audio)
       /\ cancelling' = IF ProcessingDone THEN cancelling ELSE cancelling \cup {Current}
       /\ IF Len(audio) < MinPieces
            THEN audio_buffer' = <<>> /\ UNCHANGED <<reader, clips, processing>>
            ELSE IF ProcessingDone
              THEN StartClip(audio)
              ELSE /\ audio_buffer' = audio
                   /\ reader' = "superseding"
                   /\ UNCHANGED <<clips, processing>>
  /\ UNCHANGED <<orchestrating, output_queue, writer, written>>

\* Mutant of ReadEnd: the clip in progress is left running.
ReadEndWithoutCancel(s) ==
  /\ \E audio \in AudioAtEnd(s) :
       /\ EndOf(s, audio)
       /\ \/ /\ Len(audio) < MinPieces
             /\ audio_buffer' = <<>>
             /\ UNCHANGED <<reader, clips, processing>>
          \/ Len(audio) >= MinPieces /\ StartClip(audio)
  /\ UNCHANGED <<cancelling, orchestrating, output_queue, writer, written>>

\* service.py:293-343.  A short clip is dropped; otherwise the clip in
\* progress is cancelled first and waited for.
ReadEnd(s) ==
  /\ \E audio \in AudioAtEnd(s) :
       /\ EndOf(s, audio)
       /\ \/ /\ Len(audio) < MinPieces
             /\ audio_buffer' = <<>>
             /\ UNCHANGED <<reader, clips, cancelling, processing>>
          \/ /\ Len(audio) >= MinPieces
             /\ ProcessingDone
             /\ StartClip(audio)
             /\ UNCHANGED cancelling
          \/ /\ Len(audio) >= MinPieces
             /\ ~ProcessingDone
             /\ cancelling' = cancelling \cup {Current}
             /\ audio_buffer' = audio
             /\ reader' = "superseding"
             /\ UNCHANGED <<clips, processing>>
  /\ UNCHANGED <<orchestrating, output_queue, writer, written>>

\* service.py:326-343.  The wait is over, also when it is this task that was
\* cancelled: the except clause swallows that.
Supersede ==
  /\ reader = "superseding"
  /\ ProcessingDone
  /\ StartClip(audio_buffer)
  /\ UNCHANGED <<speech, cancelling, orchestrating, output_queue, writer, written>>

\* service.py:345-358.  No code of the hub sends an INTERRUPT; the reader would
\* do this.
ReadInterrupt(s) ==
  /\ Receives(s)
  /\ IF ProcessingDone
       THEN /\ audio_buffer' = <<>>
            /\ UNCHANGED <<reader, cancelling>>
       ELSE /\ cancelling' = cancelling \cup {Current}
            /\ reader' = "interrupting"
            /\ UNCHANGED audio_buffer
  /\ UNCHANGED <<speech, clips, processing, orchestrating, output_queue, writer,
                 written>>

Interrupted ==
  /\ reader = "interrupting"
  /\ ProcessingDone
  /\ audio_buffer' = <<>>
  /\ reader' = "reading"
  /\ UNCHANGED <<speech, clips, cancelling, processing, orchestrating,
                 output_queue, writer, written>>

\* service.py:359-366, the finally: wait for the task, then put the sentinel.
Leave == reader' = IF ProcessingDone THEN "closing" ELSE "finishing"

ReadEof ==
  /\ reader = "reading"
  /\ client # "connected"
  /\ Leave
  /\ UNCHANGED <<speech, audio_buffer, clips, cancelling, processing,
                 orchestrating, output_queue, writer, written>>

Finished ==
  /\ reader = "finishing"
  /\ ProcessingDone
  /\ reader' = "closing"
  /\ UNCHANGED <<speech, audio_buffer, clips, cancelling, processing,
                 orchestrating, output_queue, writer, written>>

\* Mutant of PutSentinel: put_nowait, which raises when the queue is full.
PutSentinelNowait ==
  /\ reader = "closing"
  /\ output_queue' = IF Room THEN Append(output_queue, Sentinel) ELSE output_queue
  /\ reader' = "done"
  /\ UNCHANGED <<speech, audio_buffer, clips, cancelling, processing,
                 orchestrating, writer, written>>

PutSentinel ==
  /\ reader = "closing"
  /\ Room
  /\ output_queue' = Append(output_queue, Sentinel)
  /\ reader' = "done"
  /\ UNCHANGED <<speech, audio_buffer, clips, cancelling, processing,
                 orchestrating, writer, written>>

-----------------------------------------------------------------------------
(* The processing task of clip n.                                          *)

Runs(n, s) == stage[n] = s /\ n \notin cancelling

\* service.py:416-423.  What the generator yields, _enqueue_utterance puts,
\* unless the client is gone; it suspends only when output_queue is full.
Yield(n, next, kind) ==
  \/ /\ client = "gone"
     /\ stage' = [stage EXCEPT ![n] = "done"]
     /\ UNCHANGED <<offered, output_queue>>
  \/ /\ client # "gone"
     /\ Room
     /\ stage' = [stage EXCEPT ![n] = next]
     /\ output_queue' = Append(output_queue, [clip |-> n, kind |-> kind])
     /\ UNCHANGED offered
  \/ /\ client # "gone"
     /\ ~Room
     /\ stage' = [stage EXCEPT
                    ![n] = IF next = "done" THEN "concluding" ELSE "offering"]
     /\ offered' = [offered EXCEPT ![n] = kind]
     /\ UNCHANGED output_queue

\* service.py:443-499: no STT, a failed one, an empty transcription and a
\* missing orchestrator each yield one output and return.
Transcribe(n) ==
  /\ Runs(n, "stt")
  /\ \/ /\ \E kind \in {"error", "final"} : Yield(n, "done", kind)
        /\ UNCHANGED orchestration
     \/ /\ client # "gone"
        /\ stage' = [stage EXCEPT ![n] = "waiting"]
        /\ orchestration' = [orchestration EXCEPT ![n] = "running"]
        /\ UNCHANGED <<offered, output_queue>>
  /\ UNCHANGED <<speech, reader, audio_buffer, clips, cancelling, packets,
                 tts_queue, audio_produced, writer, written>>

\* What Pull does with an item that is not _DONE (service.py:696-701).
PullItem(n, item) ==
  \/ /\ client = "gone"
     /\ stage' = [stage EXCEPT ![n] = "done"]
     /\ orchestration' = [orchestration EXCEPT
                            ![n] = IF @ = "done" THEN @ ELSE "ending"]
     /\ UNCHANGED <<offered, output_queue, audio_produced>>
  \/ /\ client # "gone"
     /\ audio_produced' = audio_produced \cup {n}
     /\ Yield(n, "waiting", item)
     /\ UNCHANGED orchestration

\* Mutant of Pull: a response without audio ends without a word.
PullNothing(n) ==
  /\ Runs(n, "waiting")
  /\ tts_queue[n] # <<>>
  /\ tts_queue' = [tts_queue EXCEPT ![n] = Tail(@)]
  /\ \/ /\ Head(tts_queue[n]) = Done
        /\ stage' = [stage EXCEPT ![n] = "done"]
        /\ UNCHANGED <<offered, output_queue, audio_produced, orchestration>>
     \/ /\ Head(tts_queue[n]) # Done
        /\ PullItem(n, Head(tts_queue[n]))
  /\ UNCHANGED <<speech, reader, audio_buffer, clips, cancelling, packets,
                 writer, written>>

\* service.py:691-713.  After _DONE, a response without audio still gets a
\* final output with the text.
Pull(n) ==
  /\ Runs(n, "waiting")
  /\ tts_queue[n] # <<>>
  /\ tts_queue' = [tts_queue EXCEPT ![n] = Tail(@)]
  /\ \/ /\ Head(tts_queue[n]) = Done
        /\ IF n \in audio_produced
             THEN /\ stage' = [stage EXCEPT ![n] = "done"]
                  /\ UNCHANGED <<offered, output_queue>>
             ELSE Yield(n, "done", "final")
        /\ UNCHANGED <<audio_produced, orchestration>>
     \/ /\ Head(tts_queue[n]) # Done
        /\ PullItem(n, Head(tts_queue[n]))
  /\ UNCHANGED <<speech, reader, audio_buffer, clips, cancelling, packets,
                 writer, written>>

\* service.py:423: a put that had to wait.
Put(n) ==
  /\ Runs(n, "offering") \/ Runs(n, "concluding")
  /\ Room
  /\ output_queue' = Append(output_queue, [clip |-> n, kind |-> offered[n]])
  /\ stage' = [stage EXCEPT ![n] = IF @ = "offering" THEN "waiting" ELSE "done"]
  /\ UNCHANGED <<speech, reader, audio_buffer, clips, cancelling, offered,
                 audio_produced, orchestrating, writer, written>>

\* CancelledError surfaces.  In the generator's own await it cancels the
\* orchestration (service.py:702-704).  In _enqueue_utterance's put the
\* generator is only dropped: it gets a GeneratorExit, which is no CancelledError.
TaskCancelled(n) ==
  /\ n \in cancelling
  /\ cancelling' = cancelling \ {n}
  /\ stage' = [stage EXCEPT ![n] = "cancelled"]
  /\ orchestration' =
       [orchestration EXCEPT
          ![n] = IF stage[n] = "waiting" /\ @ # "done" THEN "ending" ELSE @]
  /\ UNCHANGED <<speech, reader, audio_buffer, clips, offered, audio_produced,
                 packets, tts_queue, output_queue, writer, written>>

-----------------------------------------------------------------------------
(* The orchestration task of clip n.                                       *)

TtsPut(n, item) ==
  /\ Len(tts_queue[n]) < TtsCapacity
  /\ tts_queue' = [tts_queue EXCEPT ![n] = Append(@, item)]

\* service.py:531-663 through response_generator.py: packets of one response,
\* the last of them final when all goes well.
Deliver(n) ==
  /\ orchestration[n] = "running"
  /\ packets[n] < MaxPackets
  /\ \/ /\ TtsPut(n, "audio")
        /\ packets' = [packets EXCEPT ![n] = @ + 1]
     \/ /\ TtsPut(n, "final")
        /\ packets' = [packets EXCEPT ![n] = MaxPackets]
  /\ UNCHANGED <<speech, reader, audio_buffer, clips, cancelling, processing,
                 orchestration, output_queue, writer, written>>

\* service.py:673-680.  process_task returns, with or without audio, or
\* raises: memory.commit_exchange comes last and is not guarded.
OrchestrationReturns(n) ==
  /\ orchestration[n] = "running"
  /\ \E next \in {"ending", "failed"} :
       orchestration' = [orchestration EXCEPT ![n] = next]
  /\ UNCHANGED <<speech, reader, audio_buffer, clips, cancelling, processing,
                 packets, tts_queue, output_queue, writer, written>>

ReportFailure(n) ==
  /\ orchestration[n] = "failed"
  /\ TtsPut(n, "error")
  /\ orchestration' = [orchestration EXCEPT ![n] = "ending"]
  /\ UNCHANGED <<speech, reader, audio_buffer, clips, cancelling, processing,
                 packets, output_queue, writer, written>>

\* Mutant of PutDone: _DONE is only put when nothing went wrong.
PutDoneIfAnswered(n) ==
  /\ orchestration[n] = "ending"
  /\ IF packets[n] > 0
       THEN TtsPut(n, Done)
       ELSE UNCHANGED tts_queue
  /\ orchestration' = [orchestration EXCEPT ![n] = "done"]
  /\ UNCHANGED <<speech, reader, audio_buffer, clips, cancelling, processing,
                 packets, output_queue, writer, written>>

\* The finally, also of a cancelled orchestration.
PutDone(n) ==
  /\ orchestration[n] = "ending"
  /\ TtsPut(n, Done)
  /\ orchestration' = [orchestration EXCEPT ![n] = "done"]
  /\ UNCHANGED <<speech, reader, audio_buffer, clips, cancelling, processing,
                 packets, output_queue, writer, written>>

-----------------------------------------------------------------------------
(* The writer and the client.                                              *)

\* service.py:370-375.
Write ==
  /\ writer = "writing"
  /\ output_queue # <<>>
  /\ client # "gone"
  /\ output_queue' = Tail(output_queue)
  /\ IF Head(output_queue) = Sentinel
       THEN writer' = "done" /\ UNCHANGED written
       ELSE written' = Append(written, Head(output_queue)) /\ UNCHANGED writer
  /\ UNCHANGED <<speech, reader, audio_buffer, clips, cancelling, processing,
                 orchestrating>>

\* service.py:376-393.  grpc cancels the handler of a client that is gone; it
\* cancels the reader and waits for it.  A task that awaits the processing
\* task passes the cancellation on to it and swallows its own.
WriterCancelled ==
  /\ writer = "writing"
  /\ client = "gone"
  /\ writer' = "closing"
  /\ \/ /\ reader \in {"reading", "reporting"}
        /\ Leave
        /\ UNCHANGED cancelling
     \/ /\ reader \in {"superseding", "interrupting", "finishing"}
        /\ cancelling' = IF ProcessingDone THEN cancelling ELSE cancelling \cup {Current}
        /\ UNCHANGED reader
     \/ /\ reader \in {"closing", "done"}
        /\ reader' = "done"
        /\ UNCHANGED cancelling
  /\ UNCHANGED <<speech, audio_buffer, clips, processing, orchestrating,
                 output_queue, written>>

WriterCloses ==
  /\ writer = "closing"
  /\ reader = "done"
  /\ writer' = "done"
  /\ UNCHANGED <<speech, reader, audio_buffer, clips, cancelling, processing,
                 orchestrating, output_queue, written>>

\* The hub closes its side of the stream, or the connection is lost.
ClientLeaves ==
  /\ \/ client = "connected" /\ client' \in {"closed", "gone"}
     \/ client = "closed" /\ client' = "gone"
  /\ writer = "writing"
  /\ UNCHANGED <<utterance, length, over, reader, audio_buffer, clips, cancelling,
                 processing, orchestrating, output_queue, writer, written>>

-----------------------------------------------------------------------------
Message(s) == ReadStart(s) \/ ReadContinue(s) \/ ReadEnd(s) \/ ReadInterrupt(s)

Reader ==
  \/ ReportOverflow
  \/ Supersede
  \/ Interrupted
  \/ ReadEof
  \/ Finished
  \/ PutSentinel

Processing(n) == Transcribe(n) \/ Pull(n) \/ Put(n) \/ TaskCancelled(n)

Orchestration(n) ==
  Deliver(n) \/ OrchestrationReturns(n) \/ ReportFailure(n) \/ PutDone(n)

Writer == Write \/ WriterCancelled \/ WriterCloses

Next ==
  \/ \E s \in Session : Message(s)
  \/ Reader
  \/ \E n \in Clip : Processing(n) \/ Orchestration(n)
  \/ Writer
  \/ ClientLeaves

Spec == Init /\ [][Next]_vars

\* The event loop does not idle while a task is ready; STT and the
\* orchestration return (their timeouts see to it), and a client that is there
\* reads.  The hub need not send anything.  The inputs of a run are bounded, so
\* nothing is assumed of how the loop divides its time among the tasks.
FairSpec ==
  /\ Spec
  /\ WF_vars(Reader \/ Writer \/ \E n \in Clip : Processing(n) \/ Orchestration(n))

-----------------------------------------------------------------------------
\* From piece i to piece j of a session: all that it said, and nothing twice.
Joined(audio, i, j) ==
  /\ audio[i].utterance = audio[j].utterance
  /\ audio[i].number < audio[j].number
  /\ \A n \in audio[i].number..audio[j].number :
       \E k \in i..j : audio[k] = Said(audio[i].session, audio[i].utterance, n)

Gapless(audio) ==
  \A i, j \in DOMAIN audio :
    i < j /\ audio[i].session = audio[j].session => Joined(audio, i, j)

\* What goes to STT has no gap and nothing from before a START, also after short
\* clips, interrupts, full buffers and clips that took over from another, and
\* with several sessions on the stream: of each of them a clip holds one run of
\* one utterance (service.py:243-343).  The run need not begin with the START:
\* the END of another session cuts it, a full buffer is thrown away in the
\* middle of it, and the stream may have opened after it.
ClipsGapless ==
  \A n \in DOMAIN clips :
    /\ Gapless(clips[n])
    /\ \A i \in DOMAIN clips[n] : clips[n][i].number = 1 => i = 1

\* The client never gets a packet of an earlier response after one of a later
\* response: the cancelled task is waited for before the next one starts
\* (service.py:322-328).
OutputsNeverGoBack ==
  \A i, j \in DOMAIN written :
    i < j /\ written[j].clip # 0 => written[i].clip <= written[j].clip

\* Noise does not cut a response off: only a clip long enough, an interrupt or
\* a lost client cancels processing (service.py:308-320).
NoiseCancelsNothing ==
  [][cancelling' \ cancelling # {} =>
       \/ Len(audio_buffer') >= MinPieces
       \/ reader' = "interrupting"
       \/ client = "gone"]_vars

\* A clip whose processing was not cancelled has been answered with something,
\* whether STT, the orchestrator or TTS failed (service.py:443-493, 680-713).
EveryClipAnswered ==
  \A n \in Clip :
    stage[n] = "done" /\ client # "gone" =>
      \/ \E i \in DOMAIN written : written[i].clip = n
      \/ \E i \in DOMAIN output_queue : output_queue[i].clip = n

\* Processing ends, with an answer or by cancellation: no await of the
\* pipeline waits for something that never comes.
ClipSettles ==
  \A n \in Clip :
    stage[n] \in Active ~> stage[n] \in {"done", "cancelled"} \/ client = "gone"

\* A hub that closes its side gets the rest of the response and then the end
\* of the stream (service.py:359-366).
ClosedStreamEnds == client = "closed" ~> writer = "done" \/ client = "gone"

=============================================================================
