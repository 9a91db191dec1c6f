--------------------------- MODULE VadRelayProofs ---------------------------
(***************************************************************************)
(* What the hub's speech gating does for every onset and hangover          *)
(* threshold and sessions of every length.                                 *)
(***************************************************************************)
EXTENDS VadRelay, TLAPS

\* What each VAD state knows about the frames that led to it.
StateKnows ==
  /\ vad = "Silence" => speech_run = 0
  /\ vad = "MaybeSpeech" =>
       /\ speech_run = onset_count
       /\ onset_count \in 1..(AtLeastTwo(OnsetThreshold) - 1)
       /\ Len(onset_buf) = onset_count
       /\ upto + onset_count <= now
       /\ \A i \in 1..onset_count : onset_buf[i] = now - onset_count + i
  /\ vad = "Speaking" => silence_run = 0
  /\ vad = "MaybeSilence" =>
       /\ silence_run = hangover_count
       /\ hangover_count >= 1

\* Where the forwarded frames end.
Forwarded ==
  /\ upto <= now /\ now <= MaxFrames
  /\ relay = "Streaming" => upto = now

VadInv ==
  /\ TypeOK
  /\ StateKnows
  /\ Forwarded
  /\ RelayFollowsVad
  /\ OnsetExact
  /\ HangoverExact
  /\ NothingClipped
  /\ MetricsBalance

-----------------------------------------------------------------------------
LEMMA EmptySequences == <<>> \in Seq(Nat) /\ <<>> \in Seq(TaggedFrame)
  OBVIOUS

LEMMA InitVad == Init => VadInv
  <1> SUFFICES ASSUME Init PROVE VadInv
    OBVIOUS
  <1> USE ThresholdAssumption DEF Init, AtLeastTwo
  <1>1. TypeOK
    <2>1. over \in BOOLEAN
      OBVIOUS
    <2>2. onset_buf \in Seq(Nat) /\ out \in Seq(TaggedFrame)
      BY EmptySequences
    <2> QED
      BY <2>1, <2>2 DEF TypeOK, VadState
  <1>2. StateKnows /\ Forwarded /\ RelayFollowsVad /\ MetricsBalance
    BY DEF StateKnows, Forwarded, RelayFollowsVad, MetricsBalance
  <1>3. OnsetExact /\ HangoverExact /\ NothingClipped
    BY DEF OnsetExact, HangoverExact, NothingClipped
  <1> QED
    BY <1>1, <1>2, <1>3 DEF VadInv

\* The frames of one step go out in order, the first with the event.
LEMMA TaggedType ==
  ASSUME NEW event \in SpeechEvent, NEW frames \in Seq(Nat), Len(frames) > 0
  PROVE  /\ Tagged(event, frames) \in Seq(TaggedFrame)
         /\ Tagged(event, frames) # <<>>
         /\ Tagged(event, frames)[1] = [event |-> event, frame |-> frames[1]]
  BY DEF Tagged, TaggedFrame, SpeechEvent

\* A confirmed onset: the buffer with the confirming frame is the run of
\* speech, first to last.
LEMMA OnsetFrames ==
  ASSUME VadInv, vad = "MaybeSpeech"
  PROVE  /\ Append(onset_buf, now + 1) \in Seq(Nat)
         /\ Len(Append(onset_buf, now + 1)) = onset_count + 1
         /\ upto < now + 1 - onset_count
         /\ \A i \in 1..(onset_count + 1) :
              Append(onset_buf, now + 1)[i] = now - onset_count + i
  BY ThresholdAssumption DEF VadInv, TypeOK, StateKnows, AtLeastTwo

\* In the middle of an utterance whatever the filter emits is one frame, and
\* it is forwarded.
LEMMA OneFrameForwarded ==
  ASSUME NEW event \in SpeechEvent, NEW frame \in Nat, relay = "Streaming",
         Emit(event, <<frame>>)
  PROVE  /\ relay' = IF event = "End" THEN "Idle" ELSE "Streaming"
         /\ out' = <<[event |-> event, frame |-> frame]>>
         /\ upto' = frame
         /\ vad_onsets' = vad_onsets
         /\ vad_ends' = IF event = "End" THEN vad_ends + 1 ELSE vad_ends
  <1>1. Tagged(event, <<frame>>) = <<[event |-> event, frame |-> frame]>>
    BY DEF Tagged
  <1> QED
    BY <1>1 DEF Emit, SendFrames

LEMMA NextTypeOK == VadInv /\ [Next]_vars => TypeOK'
  <1> SUFFICES ASSUME VadInv, [Next]_vars PROVE TypeOK'
    OBVIOUS
  <1> USE ThresholdAssumption DEF AtLeastTwo
  <1>0. TypeOK
    BY DEF VadInv
  <1>1. ASSUME NEW speech \in BOOLEAN, Frame(speech) PROVE TypeOK'
    <2>1. /\ over' = over /\ over' \in BOOLEAN
          /\ now' = now + 1
          /\ now' \in Nat /\ speech_run' \in 0..now' /\ silence_run' \in 0..now'
      BY <1>0, <1>1 DEF TypeOK, Frame
    <2>2. CASE InSilence(speech, now')
      <3>0. <<now'>> \in Seq(Nat)
        BY <2>1
      <3>1. onset_buf' \in Seq(Nat) /\ out' \in Seq(TaggedFrame)
        <4>1. onset_buf' = <<now'>> \/ onset_buf' = onset_buf
          BY <2>2 DEF InSilence, filter
        <4>2. out' = <<>>
          BY <2>2 DEF InSilence, SendNothing
        <4> QED
          BY <1>0, <3>0, <4>1, <4>2, EmptySequences DEF TypeOK
      <3>2. /\ vad' \in VadState
            /\ onset_count' \in 0..AtLeastTwo(OnsetThreshold)
            /\ hangover_count' = hangover_count
            /\ relay' = relay /\ upto' = upto
            /\ vad_onsets' = vad_onsets /\ vad_ends' = vad_ends
        BY <1>0, <2>2 DEF TypeOK, VadState, InSilence, SendNothing, filter,
          metrics
      <3> QED
        BY <1>0, <2>1, <3>1, <3>2 DEF TypeOK
    <2>3. CASE InMaybeSpeech(speech, now')
      <3>1. relay = "Idle"
        BY <2>3 DEF InMaybeSpeech, VadInv, RelayFollowsVad, TypeOK
      <3>2. /\ onset_count + 1 \in 0..AtLeastTwo(OnsetThreshold)
            /\ Append(onset_buf, now') \in Seq(Nat)
            /\ Len(Append(onset_buf, now')) > 0
            /\ Append(onset_buf, now')[Len(Append(onset_buf, now'))] \in Nat
        BY <2>1, <2>3, OnsetFrames DEF InMaybeSpeech, VadInv, StateKnows, TypeOK
      <3>3. Tagged("Start", Append(onset_buf, now')) \in Seq(TaggedFrame)
        BY <3>2, TaggedType DEF SpeechEvent
      <3>4. onset_buf' \in Seq(Nat) /\ out' \in Seq(TaggedFrame)
        BY <2>3, <3>1, <3>2, <3>3, EmptySequences DEF InMaybeSpeech, Emit,
          SendFrames, SendNothing
      <3>5. /\ vad' \in VadState
            /\ onset_count' \in 0..AtLeastTwo(OnsetThreshold)
            /\ hangover_count' = hangover_count
            /\ relay' \in {"Idle", "Streaming"} /\ upto' \in Nat
            /\ vad_onsets' \in Nat /\ vad_ends' \in Nat
        BY <1>0, <2>3, <3>1, <3>2 DEF TypeOK, VadState,
          InMaybeSpeech, Emit, SendFrames, SendNothing, metrics
      <3> QED
        BY <1>0, <2>1, <3>4, <3>5 DEF TypeOK
    <2>4. CASE InSpeaking(speech, now')
      <3>1. relay = "Streaming"
        BY <2>4 DEF InSpeaking, VadInv, RelayFollowsVad
      <3>2. /\ relay' = "Streaming" /\ upto' = now'
            /\ out' = <<[event |-> "Continue", frame |-> now']>>
            /\ vad_onsets' = vad_onsets /\ vad_ends' = vad_ends
        BY <2>1, <2>4, <3>1, OneFrameForwarded DEF InSpeaking, SpeechEvent
      <3>3. out' \in Seq(TaggedFrame)
        BY <2>1, <3>2 DEF TaggedFrame, SpeechEvent
      <3> QED
        BY <1>0, <2>1, <2>4, <3>2, <3>3 DEF TypeOK, VadState, InSpeaking
    <2>5. CASE InMaybeSilence(speech, now')
      <3>1. relay = "Streaming"
        BY <2>5 DEF InMaybeSilence, VadInv, RelayFollowsVad
      <3>2. PICK event \in {"Continue", "End"} : Emit(event, <<now'>>)
        BY <2>5 DEF InMaybeSilence
      <3>3. /\ relay' \in {"Idle", "Streaming"} /\ upto' = now'
            /\ out' = <<[event |-> event, frame |-> now']>>
            /\ vad_onsets' = vad_onsets /\ vad_ends' \in Nat
        BY <1>0, <2>1, <3>1, <3>2, OneFrameForwarded DEF SpeechEvent, TypeOK
      <3>4. out' \in Seq(TaggedFrame)
        BY <2>1, <3>3 DEF TaggedFrame, SpeechEvent
      <3>5. /\ vad' \in VadState
            /\ hangover_count' \in 0..(AtLeastTwo(HangoverThreshold) - 1)
            /\ onset_count' = onset_count /\ onset_buf' = onset_buf
        BY <1>0, <2>5 DEF InMaybeSilence, TypeOK, VadState
      <3> QED
        BY <1>0, <2>1, <3>3, <3>4, <3>5 DEF TypeOK
    <2> QED
      BY <1>1, <2>2, <2>3, <2>4, <2>5 DEF Frame
  <1>2. CASE SessionEnds
    <2>1. out' \in Seq(TaggedFrame)
      BY <1>2 DEF SessionEnds, TaggedFrame, SpeechEvent
    <2>2. over' \in BOOLEAN
      BY <1>2 DEF SessionEnds
    <2> QED
      BY <1>0, <1>2, <2>1, <2>2 DEF TypeOK, SessionEnds, filter, metrics
  <1>3. CASE UNCHANGED vars
    BY <1>0, <1>3 DEF vars, TypeOK, filter, metrics
  <1> QED
    BY <1>1, <1>2, <1>3 DEF Next
-----------------------------------------------------------------------------
\* One step of the whole filter, in the terms the properties use.  frame is
\* the number of the arriving frame.
Suppressed ==
  /\ relay' = relay /\ upto' = upto /\ out' = <<>>
  /\ vad_onsets' = vad_onsets /\ vad_ends' = vad_ends

SentOne(event, frame) ==
  /\ out' = <<[event |-> event, frame |-> frame]>>
  /\ upto' = frame
  /\ vad_onsets' = vad_onsets

\* In the middle of an utterance every frame goes out by itself.
LEMMA StreamingStep ==
  ASSUME VadInv, NEW speech \in BOOLEAN, Frame(speech), relay = "Streaming"
  PROVE  /\ vad \in {"Speaking", "MaybeSilence"}
         /\ \/ /\ vad' \in {"Speaking", "MaybeSilence"}
               /\ relay' = "Streaming"
               /\ vad_ends' = vad_ends
               /\ SentOne("Continue", now + 1)
            \/ /\ vad = "MaybeSilence" /\ ~speech
               /\ hangover_count + 1 >= HangoverThreshold
               /\ vad' = "Silence"
               /\ relay' = "Idle"
               /\ vad_ends' = vad_ends + 1
               /\ SentOne("End", now + 1)
  <1> USE DEF SentOne
  <1>1. vad \in {"Speaking", "MaybeSilence"} /\ now' = now + 1 /\ now + 1 \in Nat
    BY DEF VadInv, RelayFollowsVad, TypeOK, Frame
  <1>2. CASE InSpeaking(speech, now')
    <2>1. /\ relay' = "Streaming" /\ upto' = now + 1
          /\ out' = <<[event |-> "Continue", frame |-> now + 1]>>
          /\ vad_onsets' = vad_onsets /\ vad_ends' = vad_ends
      BY <1>1, <1>2, OneFrameForwarded DEF InSpeaking, SpeechEvent
    <2> QED
      BY <1>1, <1>2, <2>1 DEF InSpeaking
  <1>3. CASE InMaybeSilence(speech, now')
    <2>1. CASE /\ vad' \in {"Speaking", "MaybeSilence"}
               /\ Emit("Continue", <<now'>>)
      <3>1. /\ relay' = "Streaming" /\ upto' = now + 1
            /\ out' = <<[event |-> "Continue", frame |-> now + 1]>>
            /\ vad_onsets' = vad_onsets /\ vad_ends' = vad_ends
        BY <1>1, <2>1, OneFrameForwarded DEF SpeechEvent
      <3> QED
        BY <1>1, <2>1, <3>1
    <2>2. CASE /\ vad' = "Silence" /\ ~speech
               /\ hangover_count + 1 >= HangoverThreshold
               /\ Emit("End", <<now'>>)
      <3>1. /\ relay' = "Idle" /\ upto' = now + 1
            /\ out' = <<[event |-> "End", frame |-> now + 1]>>
            /\ vad_onsets' = vad_onsets /\ vad_ends' = vad_ends + 1
        BY <1>1, <2>2, OneFrameForwarded DEF SpeechEvent
      <3> QED
        BY <1>1, <1>3, <2>2, <3>1 DEF InMaybeSilence
    <2> QED
      BY <1>3, <2>1, <2>2 DEF InMaybeSilence
  <1> QED
    BY <1>1, <1>2, <1>3 DEF Frame, InSilence, InMaybeSpeech

\* Between utterances a frame is held back, or it confirms an onset.
LEMMA IdleStep ==
  ASSUME VadInv, NEW speech \in BOOLEAN, Frame(speech), relay = "Idle"
  PROVE  \/ /\ vad' \in {"Silence", "MaybeSpeech"}
            /\ Suppressed
         \/ /\ vad = "MaybeSpeech" /\ speech
            /\ onset_count + 1 >= OnsetThreshold
            /\ vad' = "Speaking"
            /\ relay' = "Streaming"
            /\ vad_onsets' = vad_onsets + 1
            /\ vad_ends' = vad_ends
            /\ out' = Tagged("Start", Append(onset_buf, now + 1))
            /\ upto' = now + 1
  <1> USE DEF Suppressed
  <1>1. vad \in {"Silence", "MaybeSpeech"} /\ now' = now + 1
    BY DEF VadInv, RelayFollowsVad, TypeOK, VadState, Frame
  <1>2. CASE InSilence(speech, now')
    BY <1>2 DEF InSilence, SendNothing, filter, metrics
  <1>3. CASE InMaybeSpeech(speech, now')
    <2>1. /\ Len(Append(onset_buf, now + 1)) = onset_count + 1
          /\ Append(onset_buf, now + 1)[onset_count + 1] = now + 1
      BY <1>3, OnsetFrames DEF InMaybeSpeech, VadInv, TypeOK, StateKnows
    <2> QED
      BY <1>1, <1>3, <2>1 DEF InMaybeSpeech, Emit, SendFrames, SendNothing,
        metrics
  <1> QED
    BY <1>1, <1>2, <1>3 DEF Frame, InSpeaking, InMaybeSilence

-----------------------------------------------------------------------------
LEMMA NextStateKnows ==
  ASSUME VadInv, NEW speech \in BOOLEAN, Frame(speech)
  PROVE  StateKnows' /\ Forwarded'
  <1> USE ThresholdAssumption DEF AtLeastTwo
  <1>1. /\ now' = now + 1 /\ now < MaxFrames /\ now \in Nat
        /\ upto \in Nat /\ upto <= now
        /\ speech_run' = IF speech THEN speech_run + 1 ELSE 0
        /\ silence_run' = IF speech THEN 0 ELSE silence_run + 1
        /\ vad \in VadState
        /\ relay \in {"Idle", "Streaming"}
    BY DEF VadInv, TypeOK, Forwarded, Frame
  <1>2. Forwarded'
    <2>1. CASE relay = "Streaming"
      BY <1>1, <2>1, StreamingStep DEF SentOne, Forwarded
    <2>2. CASE relay = "Idle"
      BY <1>1, <2>2, IdleStep DEF Suppressed, Forwarded
    <2> QED
      BY <1>1, <2>1, <2>2
  <1>3. CASE InSilence(speech, now')
    <2>1. upto' = upto /\ speech_run = 0
      BY <1>3 DEF InSilence, SendNothing, VadInv, StateKnows
    <2>2. CASE speech
      <3>1. /\ vad' = "MaybeSpeech" /\ onset_count' = 1 /\ onset_buf' = <<now'>>
            /\ speech_run' = 1
        BY <1>1, <1>3, <2>1, <2>2 DEF InSilence
      <3>2. Len(onset_buf') = 1 /\ onset_buf'[1] = now'
        BY <3>1
      <3> QED
        BY <1>1, <1>2, <2>1, <3>1, <3>2 DEF StateKnows
    <2>3. CASE ~speech
      BY <1>1, <1>2, <1>3, <2>1, <2>3 DEF InSilence, StateKnows, filter
    <2> QED
      BY <2>2, <2>3
  <1>4. CASE InMaybeSpeech(speech, now')
    <2>1. /\ Append(onset_buf, now + 1) \in Seq(Nat)
          /\ Len(Append(onset_buf, now + 1)) = onset_count + 1
          /\ upto < now + 1 - onset_count
          /\ \A i \in 1..(onset_count + 1) :
               Append(onset_buf, now + 1)[i] = now - onset_count + i
          /\ onset_count \in Nat /\ onset_count >= 1
          /\ speech_run = onset_count
          /\ relay = "Idle"
      BY <1>4, OnsetFrames DEF InMaybeSpeech, VadInv, TypeOK, StateKnows,
        RelayFollowsVad
    <2>2. CASE speech /\ vad' = "MaybeSpeech"
      <3>1. /\ onset_count' = onset_count + 1
            /\ ~(onset_count + 1 >= OnsetThreshold)
            /\ onset_buf' = Append(onset_buf, now + 1)
            /\ upto' = upto
        BY <1>1, <1>4, <2>2 DEF InMaybeSpeech, SendNothing
      <3>2. /\ speech_run' = onset_count'
            /\ onset_count' \in 1..(AtLeastTwo(OnsetThreshold) - 1)
            /\ Len(onset_buf') = onset_count'
            /\ upto' + onset_count' <= now'
        BY <1>1, <2>1, <2>2, <3>1
      <3>3. \A i \in 1..onset_count' : onset_buf'[i] = now' - onset_count' + i
        <4>1. now' - onset_count' = now - onset_count
          BY <1>1, <2>1, <3>1
        <4> QED
          BY <2>1, <3>1, <4>1
      <3> QED
        BY <1>2, <2>2, <3>2, <3>3 DEF StateKnows
    <2>3. CASE speech /\ vad' = "Speaking"
      BY <1>1, <1>2, <2>3 DEF StateKnows
    <2>4. CASE ~speech
      BY <1>1, <1>2, <1>4, <2>4 DEF InMaybeSpeech, StateKnows
    <2> QED
      BY <1>4, <2>2, <2>3, <2>4 DEF InMaybeSpeech
  <1>5. CASE InSpeaking(speech, now')
    BY <1>1, <1>2, <1>5 DEF InSpeaking, StateKnows, VadInv
  <1>6. CASE InMaybeSilence(speech, now')
    <2>1. silence_run = hangover_count /\ hangover_count \in Nat
      BY <1>6 DEF InMaybeSilence, VadInv, StateKnows, TypeOK
    <2> QED
      BY <1>1, <1>2, <1>6, <2>1 DEF InMaybeSilence, StateKnows
  <1> QED
    BY <1>2, <1>3, <1>4, <1>5, <1>6 DEF Frame

LEMMA RunBelowThreshold ==
  ASSUME StateKnows', TypeOK'
  PROVE  /\ vad' \in {"Silence", "MaybeSpeech"} =>
              speech_run' < AtLeastTwo(OnsetThreshold)
         /\ vad' \in {"Speaking", "MaybeSilence"} =>
              silence_run' < AtLeastTwo(HangoverThreshold)
  <1>1. AtLeastTwo(OnsetThreshold) \in Nat /\ AtLeastTwo(HangoverThreshold) \in Nat
    BY ThresholdAssumption DEF AtLeastTwo
  <1>2. vad' = "Silence" => speech_run' < AtLeastTwo(OnsetThreshold)
    BY ThresholdAssumption DEF StateKnows, AtLeastTwo
  <1>3. vad' = "MaybeSpeech" => speech_run' < AtLeastTwo(OnsetThreshold)
    <2>1. vad' = "MaybeSpeech" =>
            /\ speech_run' = onset_count'
            /\ onset_count' \in 1..(AtLeastTwo(OnsetThreshold) - 1)
      BY DEF StateKnows
    <2> QED
      BY <1>1, <2>1
  <1>4. vad' = "Speaking" => silence_run' < AtLeastTwo(HangoverThreshold)
    BY ThresholdAssumption DEF StateKnows, AtLeastTwo
  <1>5. vad' = "MaybeSilence" => silence_run' < AtLeastTwo(HangoverThreshold)
    BY <1>1 DEF StateKnows, TypeOK
  <1> QED
    BY <1>2, <1>3, <1>4, <1>5

LEMMA NextFrame ==
  ASSUME VadInv, NEW speech \in BOOLEAN, Frame(speech), TypeOK'
  PROVE  VadInv'
  <1> USE ThresholdAssumption DEF AtLeastTwo
  <1>1. /\ now' = now + 1 /\ now \in Nat
        /\ speech_run' = IF speech THEN speech_run + 1 ELSE 0
        /\ silence_run' = IF speech THEN 0 ELSE silence_run + 1
        /\ relay \in {"Idle", "Streaming"}
        /\ vad_onsets \in Nat /\ vad_ends \in Nat
    BY DEF VadInv, TypeOK, Frame
  <1>2. StateKnows' /\ Forwarded'
    BY NextStateKnows
  <1>3. CASE relay = "Streaming"
    <2>1. RelayFollowsVad' /\ MetricsBalance'
      BY <1>1, <1>3, StreamingStep DEF RelayFollowsVad, MetricsBalance, SentOne,
        VadInv
    <2>2. PICK event \in {"Continue", "End"} :
            /\ out' = <<[event |-> event, frame |-> now + 1]>>
            /\ event = "End" =>
                 /\ vad = "MaybeSilence" /\ ~speech
                 /\ hangover_count + 1 >= HangoverThreshold
      BY <1>3, StreamingStep DEF SentOne
    <2>3. out'[1].event = event
      BY <2>2
    <2>4. OnsetExact' /\ NothingClipped'
      <3>1. relay' = "Idle" => speech_run' < AtLeastTwo(OnsetThreshold)
        <4>1. relay' = "Idle" => vad' \in {"Silence", "MaybeSpeech"}
          BY <2>1 DEF RelayFollowsVad, TypeOK, VadState
        <4> QED
          BY <1>2, <4>1, RunBelowThreshold
      <3> QED
        BY <1>2, <2>2, <2>3, <3>1 DEF OnsetExact, NothingClipped, Forwarded
    <2>5. HangoverExact'
      <3>1. relay' = "Streaming" => silence_run' < AtLeastTwo(HangoverThreshold)
        BY <1>2, <2>1, RunBelowThreshold DEF RelayFollowsVad
      <3>2. event = "End" => silence_run' = AtLeastTwo(HangoverThreshold)
        <4>1. ASSUME event = "End"
              PROVE  silence_run' = AtLeastTwo(HangoverThreshold)
          <5>1. /\ silence_run = hangover_count /\ hangover_count >= 1
                /\ hangover_count \in 0..(AtLeastTwo(HangoverThreshold) - 1)
            BY <2>2, <4>1 DEF VadInv, StateKnows, TypeOK
          <5> QED
            BY <1>1, <2>2, <4>1, <5>1
        <4> QED
          BY <4>1
      <3> QED
        BY <2>3, <3>1, <3>2 DEF HangoverExact
    <2> QED
      BY <1>2, <2>1, <2>4, <2>5 DEF VadInv
  <1>4. CASE relay = "Idle"
    <2>1. RelayFollowsVad' /\ MetricsBalance'
      BY <1>1, <1>4, IdleStep DEF RelayFollowsVad, MetricsBalance, Suppressed,
        VadInv
    <2>2. /\ relay' = "Idle" => speech_run' < AtLeastTwo(OnsetThreshold)
          /\ relay' = "Streaming" => silence_run' < AtLeastTwo(HangoverThreshold)
      <3>1. /\ relay' = "Idle" => vad' \in {"Silence", "MaybeSpeech"}
            /\ relay' = "Streaming" => vad' \in {"Speaking", "MaybeSilence"}
        BY <2>1 DEF RelayFollowsVad, TypeOK, VadState
      <3> QED
        BY <1>2, <3>1, RunBelowThreshold
    <2>3. CASE out' = <<>>
      BY <1>2, <2>1, <2>2, <2>3 DEF OnsetExact, HangoverExact, NothingClipped,
        Forwarded, VadInv
    <2>4. CASE /\ vad = "MaybeSpeech" /\ speech
               /\ onset_count + 1 >= OnsetThreshold
               /\ out' = Tagged("Start", Append(onset_buf, now + 1))
      <3>1. /\ Append(onset_buf, now + 1) \in Seq(Nat)
            /\ Len(Append(onset_buf, now + 1)) = onset_count + 1
            /\ Append(onset_buf, now + 1)[1] = now - onset_count + 1
            /\ onset_count \in 1..(AtLeastTwo(OnsetThreshold) - 1)
            /\ speech_run = onset_count
        <4>1. /\ onset_count \in 1..(AtLeastTwo(OnsetThreshold) - 1)
              /\ speech_run = onset_count
          BY <2>4 DEF VadInv, StateKnows
        <4>2. 1 \in 1..(onset_count + 1)
          BY <4>1
        <4> QED
          BY <2>4, <4>1, <4>2, OnsetFrames
      <3>2. out'[1] = [event |-> "Start", frame |-> now - onset_count + 1]
        <4>1. "Start" \in SpeechEvent /\ onset_count + 1 > 0
          BY <3>1 DEF SpeechEvent
        <4> QED
          BY <2>4, <3>1, <4>1, TaggedType
      <3>3. /\ out'[1].event = "Start" /\ out'[1].frame = now - onset_count + 1
            /\ speech_run' = onset_count + 1
        BY <1>1, <2>4, <3>1, <3>2
      <3>4. /\ speech_run' = AtLeastTwo(OnsetThreshold)
            /\ out'[1].frame = now' - speech_run' + 1
        BY <1>1, <2>4, <3>1, <3>3
      <3> QED
        BY <1>2, <2>1, <2>2, <3>3, <3>4 DEF OnsetExact, HangoverExact,
          NothingClipped, Forwarded, VadInv
    <2>5. out' = <<>> \/ (/\ vad = "MaybeSpeech" /\ speech
                          /\ onset_count + 1 >= OnsetThreshold
                          /\ out' = Tagged("Start", Append(onset_buf, now + 1)))
      BY <1>4, IdleStep DEF Suppressed
    <2> QED
      BY <2>3, <2>4, <2>5
  <1> QED
    BY <1>1, <1>3, <1>4

LEMMA NextVad == VadInv /\ [Next]_vars => VadInv'
  <1> SUFFICES ASSUME VadInv, [Next]_vars PROVE VadInv'
    OBVIOUS
  <1>1. TypeOK'
    BY NextTypeOK
  <1>2. ASSUME NEW speech \in BOOLEAN, Frame(speech) PROVE VadInv'
    BY <1>1, <1>2, NextFrame
  <1>3. CASE SessionEnds
    <2>1. out'[1].event = "End" /\ out'[1].frame = 0
      BY <1>3 DEF SessionEnds
    <2>2. /\ UNCHANGED <<vad, onset_count, onset_buf, hangover_count, relay>>
          /\ UNCHANGED <<vad_onsets, vad_ends, upto, now, speech_run, silence_run>>
      BY <1>3 DEF SessionEnds, filter, metrics
    <2>3. (StateKnows /\ Forwarded /\ RelayFollowsVad /\ MetricsBalance)'
      BY <2>2 DEF VadInv, StateKnows, Forwarded, RelayFollowsVad, MetricsBalance
    <2>4. (OnsetExact /\ HangoverExact /\ NothingClipped)'
      BY <2>1, <2>2 DEF VadInv, OnsetExact, HangoverExact, NothingClipped
    <2> QED
      BY <1>1, <2>3, <2>4 DEF VadInv
  <1>4. CASE UNCHANGED vars
    <2>1. /\ UNCHANGED <<vad, onset_count, onset_buf, hangover_count, relay>>
          /\ UNCHANGED <<vad_onsets, vad_ends, upto, now, speech_run, silence_run>>
          /\ UNCHANGED out
      BY <1>4 DEF vars, filter, metrics
    <2> QED
      BY <1>1, <2>1 DEF VadInv, StateKnows, Forwarded, RelayFollowsVad,
        MetricsBalance, OnsetExact, HangoverExact, NothingClipped
  <1> QED
    BY <1>2, <1>3, <1>4 DEF Next

-----------------------------------------------------------------------------
\* Whatever the thresholds and the verdicts of libfvad, the variables keep
\* their types: onset_count never passes the onset threshold and
\* hangover_count stays below the hangover threshold (vad.rs:28-38, 95-173).
THEOREM TypeCorrect == Spec => []TypeOK
  <1>1. VadInv => TypeOK
    BY DEF VadInv
  <1> QED
    BY <1>1, InitVad, NextVad, PTL DEF Spec

\* The relay and the VAD agree on whether an utterance is open, and the two
\* counters of /health differ by exactly that utterance (device.rs:73-98).
THEOREM RelayInStep == Spec => [](RelayFollowsVad /\ MetricsBalance)
  <1>1. VadInv => RelayFollowsVad /\ MetricsBalance
    BY DEF VadInv
  <1> QED
    BY <1>1, InitVad, NextVad, PTL DEF Spec

\* Speech is confirmed, and an utterance ended, after exactly the configured
\* number of frames, or two if the threshold is smaller (vad.rs:108-171).
THEOREM ThresholdsExact == Spec => []CountsExact
  <1>1. VadInv => CountsExact
    BY DEF VadInv, CountsExact
  <1> QED
    BY <1>1, InitVad, NextVad, PTL DEF Spec

\* An utterance is forwarded from the first frame of the run of speech that
\* confirmed it, with no gap (vad.rs:120-141, device.rs:181-206).
THEOREM SpeechNotClipped == Spec => []NothingClipped
  <1>1. VadInv => NothingClipped
    BY DEF VadInv
  <1> QED
    BY <1>1, InitVad, NextVad, PTL DEF Spec

-----------------------------------------------------------------------------
\* The buffered onset is one block of consecutive frames.
LEMMA OnsetBlock ==
  ASSUME NEW frames \in Seq(Nat), NEW first \in Nat, NEW last \in Nat,
         first <= last,
         Len(frames) = last - first + 1,
         \A i \in 1..Len(frames) : frames[i] = first + i - 1
  PROVE  Tagged("Start", frames) = Stream!Block("Start", first, last)
  BY DEF Tagged, Stream!Block

LEMMA OneFrameBlock ==
  ASSUME NEW event \in SpeechEvent, NEW frame \in Nat
  PROVE  <<[event |-> event, frame |-> frame]>> = Stream!Block(event, frame, frame)
  <1>1. frame - frame + 1 = 1
    OBVIOUS
  <1>2. \A i \in 1..1 : i = 1 /\ frame + i - 1 = frame
    OBVIOUS
  <1>3. Stream!Block(event, frame, frame)
          = [i \in 1..1 |-> [event |-> event, frame |-> frame]]
    BY <1>1, <1>2 DEF Stream!Block
  <1> QED
    BY <1>3

LEMMA StreamStep == VadInv /\ [Next]_vars => [Stream!Next]_Stream!vars
  <1> SUFFICES ASSUME VadInv, [Next]_vars PROVE [Stream!Next]_Stream!vars
    OBVIOUS
  <1> USE DEF Stream!Next
  <1>1. ASSUME NEW speech \in BOOLEAN, Frame(speech) PROVE Stream!Next
    <2>1. /\ ~over /\ over' = over
          /\ now \in Nat /\ now < MaxFrames /\ MaxFrames \in Nat
          /\ upto \in Nat /\ upto <= now
          /\ relay \in {"Idle", "Streaming"}
          /\ relay = "Streaming" => upto = now
      BY <1>1, ThresholdAssumption DEF Frame, VadInv, TypeOK, Forwarded
    <2>2. CASE relay = "Streaming"
      <3>1. /\ <<[event |-> "Continue", frame |-> upto + 1]>>
                 = Stream!Block("Continue", upto + 1, upto + 1)
            /\ <<[event |-> "End", frame |-> upto + 1]>>
                 = Stream!Block("End", upto + 1, upto + 1)
        BY <2>1, OneFrameBlock DEF SpeechEvent
      <3>2. \/ relay' = "Streaming" /\ SentOne("Continue", upto + 1)
            \/ relay' = "Idle" /\ SentOne("End", upto + 1)
        BY <1>1, <2>1, <2>2, StreamingStep
      <3>3. Stream!Continue \/ Stream!End
        BY <2>1, <2>2, <3>1, <3>2 DEF Stream!Continue, Stream!End, SentOne
      <3> QED
        BY <2>1, <3>3
    <2>3. CASE relay = "Idle" /\ Suppressed
      BY <2>1, <2>3 DEF Stream!Quiet, Suppressed
    <2>4. CASE /\ relay = "Idle" /\ vad = "MaybeSpeech"
               /\ relay' = "Streaming"
               /\ out' = Tagged("Start", Append(onset_buf, now + 1))
               /\ upto' = now + 1
      <3> DEFINE first == now - onset_count + 1
                 last == now + 1
      <3>1. /\ onset_count \in Nat /\ onset_count >= 1 /\ upto + onset_count <= now
            /\ Append(onset_buf, now + 1) \in Seq(Nat)
            /\ Len(Append(onset_buf, now + 1)) = onset_count + 1
            /\ \A i \in 1..(onset_count + 1) :
                 Append(onset_buf, now + 1)[i] = now - onset_count + i
        BY <2>4, OnsetFrames DEF VadInv, StateKnows, TypeOK
      <3>2. /\ first \in 1..MaxFrames /\ last \in 1..MaxFrames
            /\ first <= last /\ upto < first
            /\ last - first + 1 = onset_count + 1
        BY <2>1, <3>1
      <3>3. \A i \in 1..(onset_count + 1) :
              Append(onset_buf, now + 1)[i] = first + i - 1
        BY <2>1, <3>1
      <3> HIDE DEF first, last
      <3>4. out' = Stream!Block("Start", first, last)
        <4> DEFINE frames == Append(onset_buf, now + 1)
        <4>1. /\ first \in Nat /\ last \in Nat /\ first <= last
              /\ frames \in Seq(Nat) /\ Len(frames) = last - first + 1
              /\ \A i \in 1..Len(frames) : frames[i] = first + i - 1
          <5>1. frames \in Seq(Nat) /\ Len(frames) = onset_count + 1
            BY <3>1
          <5>2. \A i \in 1..(onset_count + 1) : frames[i] = first + i - 1
            BY <3>3
          <5>3. first \in Nat /\ last \in Nat /\ first <= last
            BY <3>2, ThresholdAssumption
          <5> HIDE DEF frames
          <5> QED
            BY <3>2, <5>1, <5>2, <5>3
        <4> HIDE DEF frames
        <4>2. Tagged("Start", frames) = Stream!Block("Start", first, last)
          BY <4>1, OnsetBlock
        <4> QED
          BY <2>4, <4>2 DEF frames
      <3>5. upto' = last
        BY <2>4 DEF last
      <3>6. Stream!Begin(first, last)
        BY <2>1, <2>4, <3>2, <3>4, <3>5 DEF Stream!Begin
      <3> QED
        BY <2>1, <3>2, <3>6
    <2> QED
      BY <1>1, <2>1, <2>2, <2>3, <2>4, IdleStep
  <1>2. CASE SessionEnds
    BY <1>2 DEF SessionEnds, Stream!HangUp, Stream!HangUpFrame, filter, metrics
  <1>3. CASE UNCHANGED vars
    BY <1>3 DEF vars, Stream!vars
  <1> QED
    BY <1>1, <1>2, <1>3 DEF Next

\* The frames of a session form a stream of utterances: the VAD and the relay
\* together implement Utterances.
THEOREM StreamsUtterances == Spec => IsUtteranceStream
  <1>1. Init => Stream!Init
    BY DEF Init, Stream!Init
  <1> QED
    BY <1>1, InitVad, NextVad, StreamStep, PTL DEF Spec, Stream!Spec,
      IsUtteranceStream

=============================================================================
