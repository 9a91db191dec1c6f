------------------------------ MODULE VadRelay ------------------------------
(***************************************************************************)
(* From microphone frames to speech events: the state machine of           *)
(* hub/src/vad.rs (VadFilter::process) under the relay of                  *)
(* hub/src/device.rs (the inbound branch of run_device, send_frames and    *)
(* the closing END), for one device session.                               *)
(*                                                                         *)
(* A frame is its position in the session's microphone stream; libfvad's   *)
(* verdict on it is an input.  speech_run and silence_run describe that    *)
(* input independently of the code: how many frames up to now were speech  *)
(* (silence) without interruption.                                         *)
(***************************************************************************)
EXTENDS Naturals, Sequences

CONSTANTS
  OnsetThreshold,     \* VadConfig.onset_threshold, 3 by default
  HangoverThreshold,  \* VadConfig.hangover_threshold, 15 by default
  MaxFrames           \* bound on the frames of a session

ASSUME ThresholdAssumption ==
  /\ OnsetThreshold \in Nat
  /\ HangoverThreshold \in Nat
  /\ MaxFrames \in Nat

VARIABLES
  vad,             \* VadFilter.state
  onset_count,     \* VadFilter.onset_count
  onset_buf,       \* VadFilter.onset_buf
  hangover_count,  \* VadFilter.hangover_count
  relay,           \* RelayState of run_device
  vad_onsets,      \* HubMetrics.vad_onsets, this session's share
  vad_ends,        \* HubMetrics.vad_ends, this session's share
  over,            \* the session's loop has ended
  out,             \* the tagged frames the last step put on the bus
  upto,            \* the last frame put on the bus
  now,             \* frames received so far
  speech_run,      \* consecutive speech frames up to now
  silence_run      \* consecutive silence frames up to now

filter == <<vad, onset_count, onset_buf, hangover_count>>
metrics == <<vad_onsets, vad_ends>>
vars == <<filter, relay, metrics, over, out, upto, now, speech_run, silence_run>>

VadState == {"Silence", "MaybeSpeech", "Speaking", "MaybeSilence"}
SpeechEvent == {"Start", "Continue", "End"}
TaggedFrame == [event : SpeechEvent, frame : Nat]

\* Both counters start at 1 and are only compared after they have been
\* incremented, so the filter needs at least two frames either way.
AtLeastTwo(threshold) == IF threshold < 2 THEN 2 ELSE threshold

TypeOK ==
  /\ vad \in VadState
  /\ onset_count \in 0..AtLeastTwo(OnsetThreshold)
  /\ onset_buf \in Seq(Nat)
  /\ hangover_count \in 0..(AtLeastTwo(HangoverThreshold) - 1)
  /\ relay \in {"Idle", "Streaming"}
  /\ vad_onsets \in Nat /\ vad_ends \in Nat
  /\ over \in BOOLEAN
  /\ out \in Seq(TaggedFrame)
  /\ upto \in Nat
  /\ now \in Nat
  /\ speech_run \in 0..now /\ silence_run \in 0..now

Init ==
  /\ vad = "Silence"
  /\ onset_count = 0
  /\ onset_buf = <<>>
  /\ hangover_count = 0
  /\ relay = "Idle"
  /\ vad_onsets = 0 /\ vad_ends = 0
  /\ over = FALSE
  /\ out = <<>>
  /\ upto = 0
  /\ now = 0
  /\ speech_run = 0 /\ silence_run = 0

-----------------------------------------------------------------------------
(* The relay.                                                              *)

\* device.rs:189-193: the first frame carries the event, the rest continue it.
Tagged(event, frames) ==
  [i \in 1..Len(frames) |->
     [event |-> IF i = 1 THEN event ELSE "Continue", frame |-> frames[i]]]

\* bus.audio_tx.send for each frame.
SendFrames(event, frames) ==
  /\ out' = Tagged(event, frames)
  /\ upto' = frames[Len(frames)]

\* VadResult::Suppress, or a result the relay ignores.
SendNothing ==
  /\ out' = <<>>
  /\ UNCHANGED <<upto, relay, metrics>>

\* device.rs:73-98.  VadResult::Emit(event, frames) in the two relay states.
Emit(event, frames) ==
  \/ /\ relay = "Idle"
     /\ event = "Start"
     /\ relay' = "Streaming"
     /\ vad_onsets' = vad_onsets + 1
     /\ SendFrames(event, frames)
     /\ UNCHANGED vad_ends
  \/ /\ relay = "Idle"
     /\ event # "Start"
     /\ SendNothing
  \/ /\ relay = "Streaming"
     /\ relay' = IF event = "End" THEN "Idle" ELSE relay
     /\ vad_ends' = IF event = "End" THEN vad_ends + 1 ELSE vad_ends
     /\ SendFrames(event, frames)
     /\ UNCHANGED vad_onsets

-----------------------------------------------------------------------------
(* VadFilter::process, one operator per state.                             *)

\* vad.rs:108-118.
InSilence(speech, frame) ==
  /\ vad = "Silence"
  /\ IF speech
       THEN /\ vad' = "MaybeSpeech"
            /\ onset_count' = 1
            /\ onset_buf' = <<frame>>
            /\ UNCHANGED hangover_count
       ELSE UNCHANGED filter
  /\ SendNothing

\* Mutant of InMaybeSpeech: the buffer is left behind after the flush, and the
\* frame that confirms the onset is not in it.
InMaybeSpeechDropsConfirming(speech, frame) ==
  /\ vad = "MaybeSpeech"
  /\ \/ /\ speech
        /\ onset_count' = onset_count + 1
        /\ IF onset_count' >= OnsetThreshold
             THEN /\ vad' = "Speaking"
                  /\ onset_buf' = <<>>
                  /\ Emit("Start", onset_buf)
             ELSE /\ UNCHANGED vad
                  /\ onset_buf' = Append(onset_buf, frame)
                  /\ SendNothing
     \/ /\ ~speech
        /\ vad' = "Silence"
        /\ onset_count' = 0
        /\ onset_buf' = <<>>
        /\ SendNothing
  /\ UNCHANGED hangover_count

\* vad.rs:120-141.
InMaybeSpeech(speech, frame) ==
  /\ vad = "MaybeSpeech"
  /\ \/ /\ speech
        /\ onset_count' = onset_count + 1
        /\ IF onset_count' >= OnsetThreshold
             THEN /\ vad' = "Speaking"
                  /\ onset_buf' = <<>>
                  /\ Emit("Start", Append(onset_buf, frame))
             ELSE /\ UNCHANGED vad
                  /\ onset_buf' = Append(onset_buf, frame)
                  /\ SendNothing
     \/ /\ ~speech
        /\ vad' = "Silence"
        /\ onset_count' = 0
        /\ onset_buf' = <<>>
        /\ SendNothing
  /\ UNCHANGED hangover_count

\* vad.rs:143-152.
InSpeaking(speech, frame) ==
  /\ vad = "Speaking"
  /\ IF speech
       THEN UNCHANGED <<vad, hangover_count>>
       ELSE vad' = "MaybeSilence" /\ hangover_count' = 1
  /\ Emit("Continue", <<frame>>)
  /\ UNCHANGED <<onset_count, onset_buf>>

\* Mutant of InMaybeSilence: resumed speech does not go back to Speaking.
InMaybeSilenceNoResume(speech, frame) ==
  /\ vad = "MaybeSilence"
  /\ IF hangover_count + 1 >= HangoverThreshold
       THEN /\ vad' = "Silence"
            /\ hangover_count' = 0
            /\ Emit("End", <<frame>>)
       ELSE /\ UNCHANGED vad
            /\ hangover_count' = hangover_count + 1
            /\ Emit("Continue", <<frame>>)
  /\ UNCHANGED <<onset_count, onset_buf>>

\* Mutant of InMaybeSilence: the frame that ends the hangover is dropped.
InMaybeSilenceSuppressesEnd(speech, frame) ==
  /\ vad = "MaybeSilence"
  /\ IF speech
       THEN /\ vad' = "Speaking"
            /\ hangover_count' = 0
            /\ Emit("Continue", <<frame>>)
       ELSE IF hangover_count + 1 >= HangoverThreshold
         THEN vad' = "Silence" /\ hangover_count' = 0 /\ SendNothing
         ELSE /\ UNCHANGED vad
              /\ hangover_count' = hangover_count + 1
              /\ Emit("Continue", <<frame>>)
  /\ UNCHANGED <<onset_count, onset_buf>>

\* vad.rs:154-171.
InMaybeSilence(speech, frame) ==
  /\ vad = "MaybeSilence"
  /\ \/ /\ speech
        /\ vad' = "Speaking"
        /\ hangover_count' = 0
        /\ Emit("Continue", <<frame>>)
     \/ /\ ~speech
        /\ hangover_count + 1 >= HangoverThreshold
        /\ vad' = "Silence"
        /\ hangover_count' = 0
        /\ Emit("End", <<frame>>)
     \/ /\ ~speech
        /\ hangover_count + 1 < HangoverThreshold
        /\ hangover_count' = hangover_count + 1
        /\ Emit("Continue", <<frame>>)
        /\ UNCHANGED vad
  /\ UNCHANGED <<onset_count, onset_buf>>

\* device.rs:63-98 with vad.rs:95-106: a microphone frame arrives and libfvad
\* judges it (an error counts as silence).
Frame(speech) ==
  /\ ~over
  /\ now < MaxFrames
  /\ now' = now + 1
  /\ speech_run' = IF speech THEN speech_run + 1 ELSE 0
  /\ silence_run' = IF speech THEN 0 ELSE silence_run + 1
  /\ \/ InSilence(speech, now')
     \/ InMaybeSpeech(speech, now')
     \/ InSpeaking(speech, now')
     \/ InMaybeSilence(speech, now')
  /\ UNCHANGED over

\* device.rs:64-69, 107-157: the loop ends, for any of its reasons and in any
\* relay state, and one END without audio follows.
SessionEnds ==
  /\ ~over
  /\ over' = TRUE
  /\ out' = <<[event |-> "End", frame |-> 0]>>
  /\ UNCHANGED <<filter, relay, metrics, upto, now, speech_run, silence_run>>

Next == (\E speech \in BOOLEAN : Frame(speech)) \/ SessionEnds

Spec == Init /\ [][Next]_vars

-----------------------------------------------------------------------------
\* The relay and the VAD, two state machines in two files, agree on whether
\* an utterance is open; if they did not, the relay would swallow an END or
\* forward frames without a START (device.rs:73-98).
RelayFollowsVad ==
  relay = "Streaming" <=> vad \in {"Speaking", "MaybeSilence"}

\* Speech is confirmed by exactly so many consecutive speech frames, neither
\* missed nor confirmed early (vad.rs:6-8, hub/README.md:150).
OnsetExact ==
  /\ relay = "Idle" => speech_run < AtLeastTwo(OnsetThreshold)
  /\ out # <<>> /\ out[1].event = "Start" =>
       speech_run = AtLeastTwo(OnsetThreshold)

\* An utterance ends after exactly so many consecutive silent frames
\* (vad.rs:10-12, hub/README.md:151).
HangoverExact ==
  /\ relay = "Streaming" => silence_run < AtLeastTwo(HangoverThreshold)
  /\ out # <<>> /\ out[1].event = "End" /\ out[1].frame # 0 =>
       silence_run = AtLeastTwo(HangoverThreshold)

\* Both thresholds are what they are configured to be, but for a threshold of one.
CountsExact == OnsetExact /\ HangoverExact

\* Nothing said is cut off: a START brings the whole run of speech that
\* confirmed it, and from there on every frame is forwarded.
NothingClipped ==
  /\ relay = "Streaming" => upto = now
  /\ out # <<>> /\ out[1].event = "Start" => out[1].frame = now - speech_run + 1

\* /health: onsets and ends differ by the utterance in progress, also when
\* the session dies in the middle of it (hub/README.md:76-78).
MetricsBalance == vad_onsets = vad_ends + (IF relay = "Streaming" THEN 1 ELSE 0)

\* The stream of a session is a stream of utterances.
Stream == INSTANCE Utterances WITH open <- relay = "Streaming"
IsUtteranceStream == Stream!Spec

=============================================================================
