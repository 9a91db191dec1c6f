------------------------ MODULE StreamConversationProofs ------------------------
(***************************************************************************)
(* What holds of a StreamConversation call for any number of sessions,     *)
(* utterances, clips and packets, and any capacity of its queues.          *)
(***************************************************************************)
EXTENDS StreamConversation, Integers, TLAPS

\* A session that is speaking has begun an utterance.
SpokenInv == \A s \in Session : length[s] > 0 => utterance[s] > 0

\* Only the processing task of the last clip may be at work, and only a task at
\* work is being cancelled.
TasksInv ==
  /\ \A n \in Clip : n > Current => stage[n] = "none"
  /\ \A n \in Clip : stage[n] \in Active => n = Current
  /\ \A n \in cancelling : stage[n] \in Active

\* A clip that waits for its predecessor has a place and is long enough.
SupersedeInv ==
  reader = "superseding" => Current < MaxClips /\ Len(audio_buffer) >= MinPieces

\* An output after another is of the same clip or a later one, or of none.
InOrder(earlier, later) == later.clip # 0 => earlier.clip <= later.clip

Ordered(outputs) ==
  \A i, j \in DOMAIN outputs : i < j => InOrder(outputs[i], outputs[j])

OutputsInv ==
  /\ \A i \in DOMAIN output_queue : output_queue[i].clip <= Current
  /\ \A i \in DOMAIN written : written[i].clip <= Current
  /\ Ordered(written) /\ Ordered(output_queue)
  /\ \A i \in DOMAIN written, j \in DOMAIN output_queue :
       InOrder(written[i], output_queue[j])

AnsweredIn(outputs, n) == \E i \in DOMAIN outputs : outputs[i].clip = n
Answered(n) == AnsweredIn(written, n) \/ AnsweredIn(output_queue, n)

\* What counts as produced is on its way to the client, or about to be put.
AnswerInv ==
  /\ \A n \in audio_produced : stage[n] \notin {"none", "stt"}
  /\ client # "gone" =>
       \A n \in Clip :
         stage[n] = "done" \/ (stage[n] = "waiting" /\ n \in audio_produced) => Answered(n)

CallInv == TypeOK /\ SpokenInv /\ TasksInv /\ SupersedeInv /\ OutputsInv /\ AnswerInv

\* Nothing in the buffer is from before a START.
StartFirst(audio) == \A i \in DOMAIN audio : audio[i].number = 1 => i = 1

\* After a piece of a session comes all it has said since, u and l being the
\* utterance each session is in and how far it got.
UpTo(audio, u, l) ==
  \A i \in DOMAIN audio :
    /\ audio[i].utterance = u[audio[i].session]
    /\ audio[i].number <= l[audio[i].session]
    /\ \A n \in audio[i].number..l[audio[i].session] :
         \E k \in i..Len(audio) :
           audio[k] = Said(audio[i].session, audio[i].utterance, n)

\* While the reader reads the buffer is up to date; an END may have left the
\* utterance it froze behind.
RunInv ==
  /\ Gapless(audio_buffer) /\ StartFirst(audio_buffer)
  /\ reader \in {"reading", "reporting"} => UpTo(audio_buffer, utterance, length)
  /\ \A n \in DOMAIN clips : Gapless(clips[n]) /\ StartFirst(clips[n])

-----------------------------------------------------------------------------
(* Constants, sequences and types.                                         *)

LEMMA Constants ==
  /\ MinPieces \in Nat /\ MinPieces > 0 /\ MaxPieces \in Nat /\ MaxPieces > 0
  /\ OutputCapacity \in Nat /\ OutputCapacity > 0
  /\ TtsCapacity \in Nat /\ TtsCapacity > 0
  /\ MaxClips \in Nat /\ MaxPackets \in Nat
  /\ Lengths \in [Session -> Seq(Nat)]
<1>1. {MinPieces, MaxPieces, OutputCapacity, TtsCapacity} \subseteq Nat \ {0}
  BY StreamAssumption
<1>2. {MaxClips, MaxPackets} \subseteq Nat /\ Lengths \in [Session -> Seq(Nat)]
  BY StreamAssumption
<1> QED
  BY <1>1, <1>2

LEMMA AppendElements ==
  ASSUME NEW S, NEW q \in Seq(S), NEW e \in S
  PROVE  /\ Append(q, e) \in Seq(S)
         /\ Len(q) \in Nat /\ Len(Append(q, e)) = Len(q) + 1
         /\ DOMAIN q = 1..Len(q) /\ DOMAIN Append(q, e) = 1..(Len(q) + 1)
         /\ \A i \in 1..Len(q) : Append(q, e)[i] = q[i]
         /\ Append(q, e)[Len(q) + 1] = e
  OBVIOUS

LEMMA TailElements ==
  ASSUME NEW S, NEW q \in Seq(S), q # <<>>
  PROVE  /\ Tail(q) \in Seq(S) /\ Head(q) \in S /\ Head(q) = q[1]
         /\ Len(q) \in Nat \ {0} /\ Len(Tail(q)) = Len(q) - 1
         /\ DOMAIN q = 1..Len(q) /\ DOMAIN Tail(q) = 1..(Len(q) - 1)
         /\ \A i \in 1..(Len(q) - 1) : Tail(q)[i] = q[i + 1]
  <1>1. Tail(q) \in Seq(S) /\ Len(q) \in Nat \ {0} /\ Len(Tail(q)) = Len(q) - 1
    OBVIOUS
  <1>2. DOMAIN q = 1..Len(q) /\ DOMAIN Tail(q) = 1..(Len(q) - 1)
    BY <1>1
  <1>3. Head(q) = q[1] /\ Head(q) \in S
    BY <1>1
  <1>4. \A i \in 1..(Len(q) - 1) : Tail(q)[i] = q[i + 1]
    BY <1>1
  <1> QED
    BY <1>1, <1>2, <1>3, <1>4

LEMMA ElementTyped ==
  ASSUME NEW S, NEW q \in Seq(S)
  PROVE  \A i \in DOMAIN q : q[i] \in S
  OBVIOUS

SpeechTypes ==
  /\ client \in {"connected", "closed", "gone"}
  /\ utterance \in [Session -> Nat]
  /\ length \in [Session -> Nat]
  /\ over \subseteq Session

ReaderTypes ==
  /\ reader \in {"reading", "reporting", "superseding", "interrupting",
                 "finishing", "closing", "done"}
  /\ audio_buffer \in Seq(Piece)
  /\ clips \in Seq(Seq(Piece)) /\ Len(clips) <= MaxClips

TaskTypes ==
  /\ stage \in [Clip -> Active \cup {"none", "done", "cancelled"}]
  /\ cancelling \subseteq Clip
  /\ offered \in [Clip -> {"audio", "final", "error"}]
  /\ audio_produced \subseteq Clip

OrchestrationTypes ==
  /\ orchestration \in [Clip -> {"none", "running", "failed", "ending", "done"}]
  /\ packets \in [Clip -> 0..MaxPackets]
  /\ tts_queue \in [Clip -> Seq({"audio", "final", "error", Done})]
  /\ \A n \in Clip : Len(tts_queue[n]) <= TtsCapacity

OutputTypes ==
  /\ output_queue \in Seq(Output \cup {Sentinel})
  /\ Len(output_queue) <= OutputCapacity
  /\ writer \in {"writing", "closing", "done"}
  /\ written \in Seq(Output)

LEMMA TypeParts ==
  TypeOK <=> SpeechTypes /\ ReaderTypes /\ TaskTypes /\ OrchestrationTypes /\ OutputTypes
  BY DEF TypeOK, SpeechTypes, ReaderTypes, TaskTypes, OrchestrationTypes, OutputTypes

-----------------------------------------------------------------------------
(* Which steps touch what.                                                 *)

LEMMA SpeechFrame ==
  ASSUME [Next]_vars
  PROVE  \/ UNCHANGED <<client, utterance, length, over>>
         \/ \E s \in Session : Message(s)
         \/ ClientLeaves
  BY DEF Next, vars, speech, Reader, ReportOverflow, Supersede, Interrupted, ReadEof,
         Finished, PutSentinel, Processing, Transcribe, Pull, Put, TaskCancelled,
         Orchestration, Deliver, OrchestrationReturns, ReportFailure, PutDone,
         Writer, Write, WriterCancelled, WriterCloses

LEMMA ReaderFrame ==
  ASSUME [Next]_vars
  PROVE  \/ UNCHANGED <<reader, audio_buffer, clips>>
         \/ \E s \in Session : Message(s)
         \/ Reader
         \/ WriterCancelled
  BY DEF Next, vars, Processing, Transcribe, Pull, Put, TaskCancelled,
         Orchestration, Deliver, OrchestrationReturns, ReportFailure, PutDone,
         Writer, Write, WriterCloses, ClientLeaves

LEMMA TaskFrame ==
  ASSUME [Next]_vars
  PROVE  \/ UNCHANGED <<clips, stage, cancelling, offered, audio_produced>>
         \/ \E s \in Session : ReadEnd(s) \/ ReadInterrupt(s)
         \/ Supersede
         \/ \E n \in Clip : Processing(n)
         \/ WriterCancelled
  BY DEF Next, vars, processing, Message, ReadStart, ReadContinue, Reader, ReportOverflow,
         Interrupted, ReadEof, Finished, PutSentinel, Orchestration, Deliver,
         OrchestrationReturns, ReportFailure, PutDone, Writer, Write, WriterCloses,
         ClientLeaves

LEMMA OrchestrationFrame ==
  ASSUME [Next]_vars
  PROVE  \/ UNCHANGED <<orchestration, packets, tts_queue>>
         \/ \E n \in Clip : Processing(n) \/ Orchestration(n)
  BY DEF Next, vars, orchestrating, Message, ReadStart, ReadContinue, ReadEnd,
         ReadInterrupt, Reader, ReportOverflow, Supersede, Interrupted, ReadEof, Finished,
         PutSentinel, Writer, Write, WriterCancelled, WriterCloses, ClientLeaves

LEMMA OutputFrame ==
  ASSUME [Next]_vars
  PROVE  \/ UNCHANGED <<output_queue, writer, written>>
         \/ \E s \in Session : ReadContinue(s)
         \/ ReportOverflow \/ PutSentinel
         \/ \E n \in Clip : Processing(n)
         \/ Writer
  BY DEF Next, vars, Message, ReadStart, ReadEnd, ReadInterrupt, Reader, Supersede,
         Interrupted, ReadEof, Finished, Orchestration, Deliver, OrchestrationReturns,
         ReportFailure, PutDone, ClientLeaves
-----------------------------------------------------------------------------
(* Types: what the sessions say, the buffer and the clips.                 *)

LEMMA EndEffect ==
  ASSUME NEW s \in Session, ReadEnd(s)
  PROVE  \E audio \in AudioAtEnd(s) :
           /\ EndOf(s, audio)
           /\ \/ /\ Len(audio) < MinPieces
                 /\ audio_buffer' = <<>>
                 /\ UNCHANGED <<reader, clips, cancelling, processing>>
              \/ /\ Len(audio) >= MinPieces
                 /\ ProcessingDone
                 /\ StartClip(audio)
                 /\ UNCHANGED cancelling
              \/ /\ Len(audio) >= MinPieces
                 /\ ~ProcessingDone
                 /\ cancelling' = cancelling \cup {Current}
                 /\ audio_buffer' = audio
                 /\ reader' = "superseding"
                 /\ UNCHANGED <<clips, processing>>
  BY DEF ReadEnd

LEMMA SpeechKept ==
  ASSUME SpeechTypes, SpokenInv, [Next]_vars
  PROVE  SpeechTypes' /\ SpokenInv'
<1>2. ASSUME NEW s \in Session, ReadStart(s)
      PROVE  SpeechTypes' /\ SpokenInv'
  <2>1. /\ client' = client /\ over' = over
        /\ utterance' = [utterance EXCEPT ![s] = @ + 1]
        /\ length' = [length EXCEPT ![s] = 1]
    BY <1>2 DEF ReadStart
  <2> QED
    BY <2>1 DEF SpeechTypes, SpokenInv
<1>3. ASSUME NEW s \in Session, ReadContinue(s)
      PROVE  SpeechTypes' /\ SpokenInv'
  <2>1. /\ client' = client /\ utterance' = utterance /\ over' = over /\ length[s] > 0
        /\ length' = [length EXCEPT ![s] = @ + 1]
    BY <1>3 DEF ReadContinue
  <2> QED
    BY <2>1 DEF SpeechTypes, SpokenInv
<1>4. ASSUME NEW s \in Session, ReadEnd(s)
      PROVE  SpeechTypes' /\ SpokenInv'
  <2>1. /\ client' = client /\ utterance' = utterance
        /\ over' \in {over, over \cup {s}}
        /\ length' = [length EXCEPT ![s] = 0]
    BY <1>4, EndEffect DEF EndOf
  <2> QED
    BY <2>1 DEF SpeechTypes, SpokenInv
<1>5. CASE ClientLeaves
  BY <1>5 DEF ClientLeaves, SpeechTypes, SpokenInv
<1>6. CASE UNCHANGED <<client, utterance, length, over>>
  BY <1>6 DEF SpeechTypes, SpokenInv
<1>7. ASSUME NEW s \in Session, ReadInterrupt(s)
      PROVE  SpeechTypes' /\ SpokenInv'
  BY <1>6, <1>7 DEF ReadInterrupt, speech
<1> QED
  BY <1>2, <1>3, <1>4, <1>5, <1>6, <1>7, SpeechFrame DEF Message

\* The piece of a session that begins or goes on to speak.
LEMMA PieceTyped ==
  ASSUME SpeechTypes, SpokenInv, NEW s \in Session
  PROVE  /\ Said(s, utterance[s] + 1, 1) \in Piece
         /\ length[s] > 0 => NextPiece(s) \in Piece
<1>1. /\ utterance[s] \in Nat /\ length[s] \in Nat
      /\ length[s] > 0 => utterance[s] > 0
  BY DEF SpeechTypes, SpokenInv
<1>2. utterance[s] + 1 \in Nat \ {0} /\ length[s] + 1 \in Nat \ {0} /\ 1 \in Nat \ {0}
  BY <1>1
<1>3. length[s] > 0 => utterance[s] \in Nat \ {0}
  BY <1>1
<1> QED
  BY <1>2, <1>3 DEF Said, NextPiece, Piece

\* What an END leaves in the buffer is pieces, and no more than one comes with it.
LEMMA AudioTyped ==
  ASSUME SpeechTypes, SpokenInv, ReaderTypes, NEW s \in Session,
         NEW audio \in AudioAtEnd(s)
  PROVE  audio \in Seq(Piece) /\ Len(audio) \in Nat
<1>1. audio_buffer \in Seq(Piece)
  BY DEF ReaderTypes
<1>2. CASE audio = audio_buffer
  BY <1>1, <1>2
<1>3. CASE length[s] > 0 /\ audio = Append(audio_buffer, NextPiece(s))
  <2>1. NextPiece(s) \in Piece
    BY <1>3, PieceTyped
  <2> QED
    BY <1>1, <1>3, <2>1
<1> QED
  BY <1>2, <1>3 DEF AudioAtEnd

\* A clip that is started: its audio, and the place it takes.
StartsClip ==
  \E audio \in Seq(Piece) :
    /\ ProcessingDone /\ Current < MaxClips /\ Len(audio) >= MinPieces
    /\ StartClip(audio) /\ cancelling' = cancelling

LEMMA SupersedeStarts ==
  ASSUME ReaderTypes, SupersedeInv, Supersede
  PROVE  StartsClip
<1>1. /\ reader = "superseding" /\ ProcessingDone /\ StartClip(audio_buffer)
      /\ cancelling' = cancelling
  BY DEF Supersede
<1>2. Current < MaxClips /\ Len(audio_buffer) >= MinPieces /\ audio_buffer \in Seq(Piece)
  BY <1>1 DEF SupersedeInv, ReaderTypes
<1> QED
  BY <1>1, <1>2 DEF StartsClip

\* The three outcomes of an END.
LEMMA EndOutcomes ==
  ASSUME SpeechTypes, SpokenInv, ReaderTypes, NEW s \in Session, ReadEnd(s)
  PROVE  /\ reader = "reading" /\ client' = client /\ Current < MaxClips
         /\ UNCHANGED <<orchestration, packets, tts_queue, output_queue, writer, written>>
         /\ \/ /\ audio_buffer' = <<>>
               /\ UNCHANGED <<reader, clips, cancelling, stage, offered, audio_produced>>
            \/ StartsClip
            \/ /\ ~ProcessingDone /\ cancelling' = cancelling \cup {Current}
               /\ audio_buffer' \in Seq(Piece) /\ Len(audio_buffer') >= MinPieces
               /\ reader' = "superseding"
               /\ UNCHANGED <<clips, stage, offered, audio_produced>>
<1>1. PICK audio \in AudioAtEnd(s) :
        /\ EndOf(s, audio)
        /\ \/ /\ Len(audio) < MinPieces
              /\ audio_buffer' = <<>>
              /\ UNCHANGED <<reader, clips, cancelling, processing>>
           \/ /\ Len(audio) >= MinPieces
              /\ ProcessingDone
              /\ StartClip(audio)
              /\ UNCHANGED cancelling
           \/ /\ Len(audio) >= MinPieces
              /\ ~ProcessingDone
              /\ cancelling' = cancelling \cup {Current}
              /\ audio_buffer' = audio
              /\ reader' = "superseding"
              /\ UNCHANGED <<clips, processing>>
  BY EndEffect
<1>2. /\ reader = "reading" /\ client' = client /\ Current < MaxClips
      /\ UNCHANGED <<orchestration, packets, tts_queue, output_queue, writer, written>>
  BY <1>1 DEF ReadEnd, EndOf, Receives, orchestrating
<1>3. audio \in Seq(Piece)
  BY AudioTyped
<1> QED
  BY <1>1, <1>2, <1>3 DEF StartsClip, processing

\* A step that starts no clip.
LEMMA ReaderTyped ==
  ASSUME ReaderTypes, SupersedeInv, clips' = clips,
         audio_buffer' \in Seq(Piece),
         reader' \in {"reading", "reporting", "superseding", "interrupting",
                     "finishing", "closing", "done"},
         \/ reader' # "superseding"
         \/ reader' = reader /\ audio_buffer' = audio_buffer
         \/ Current < MaxClips /\ Len(audio_buffer') >= MinPieces
  PROVE  ReaderTypes' /\ SupersedeInv'
<1>1. ReaderTypes'
  BY DEF ReaderTypes
<1>2. Current' = Current
  BY DEF Current
<1>3. SupersedeInv'
  BY <1>2 DEF SupersedeInv
<1> QED
  BY <1>1, <1>3

LEMMA EmptyOrSame ==
  ASSUME ReaderTypes, audio_buffer' \in {<<>>, audio_buffer}
  PROVE  audio_buffer' \in Seq(Piece)
<1>1. <<>> \in Seq(Piece)
  OBVIOUS
<1> QED
  BY <1>1 DEF ReaderTypes

LEMMA ReaderKept ==
  ASSUME SpeechTypes, SpokenInv, ReaderTypes, SupersedeInv, [Next]_vars
  PROVE  ReaderTypes' /\ SupersedeInv'
<1>1. CASE StartsClip
  <2>1. PICK audio \in Seq(Piece) :
          /\ Current < MaxClips /\ clips' = Append(clips, audio)
          /\ audio_buffer' = <<>> /\ reader' = "reading"
    BY <1>1 DEF StartsClip, StartClip
  <2>2. clips \in Seq(Seq(Piece))
    BY DEF ReaderTypes
  <2>3. clips' \in Seq(Seq(Piece)) /\ Len(clips') = Len(clips) + 1 /\ Len(clips) \in Nat
    BY <2>1, <2>2, AppendElements
  <2>4. Len(clips') <= MaxClips
    BY <2>1, <2>3, Constants DEF Current
  <2> QED
    BY <2>1, <2>3, <2>4 DEF ReaderTypes, SupersedeInv
<1>2. ASSUME NEW s \in Session, ReadStart(s)
      PROVE  ReaderTypes' /\ SupersedeInv'
  <2>1. Said(s, utterance[s] + 1, 1) \in Piece
    BY PieceTyped
  <2>2. /\ reader = "reading" /\ reader' = reader /\ clips' = clips
        /\ audio_buffer' = <<Said(s, utterance[s] + 1, 1)>>
    BY <1>2 DEF ReadStart, Receives
  <2> QED
    BY <2>1, <2>2 DEF ReaderTypes, SupersedeInv
<1>3. ASSUME NEW s \in Session, ReadContinue(s)
      PROVE  ReaderTypes' /\ SupersedeInv'
  <2>1. NextPiece(s) \in Piece
    <3>1. length[s] > 0 /\ utterance' = utterance
      BY <1>3 DEF ReadContinue
    <3> QED
      BY <3>1, PieceTyped
  <2>2. /\ reader = "reading" /\ clips' = clips
        /\ audio_buffer' = <<>> \/ audio_buffer' = Append(audio_buffer, NextPiece(s))
        /\ reader' \in {"reading", "reporting"}
    BY <1>3 DEF ReadContinue, Receives
  <2>3. <<>> \in Seq(Piece) /\ Append(audio_buffer, NextPiece(s)) \in Seq(Piece)
    BY <2>1, AppendElements DEF ReaderTypes
  <2>4. audio_buffer' \in Seq(Piece)
    BY <2>2, <2>3
  <2> QED
    BY <2>2, <2>4, ReaderTyped
<1>4. ASSUME NEW s \in Session, ReadEnd(s), ~StartsClip
      PROVE  ReaderTypes' /\ SupersedeInv'
  <2>1. /\ reader = "reading" /\ Current < MaxClips /\ clips' = clips
        /\ \/ /\ audio_buffer' = <<>> /\ reader' = reader
           \/ /\ audio_buffer' \in Seq(Piece) /\ Len(audio_buffer') >= MinPieces
              /\ reader' = "superseding"
    BY <1>4, EndOutcomes
  <2>2. audio_buffer' \in Seq(Piece) /\ reader' \in {"reading", "superseding"}
    <3>1. <<>> \in Seq(Piece)
      OBVIOUS
    <3> QED
      BY <2>1, <3>1
  <2>3. reader' # "superseding" \/ (Current < MaxClips /\ Len(audio_buffer') >= MinPieces)
    BY <2>1
  <2> QED
    BY <2>1, <2>2, <2>3, ReaderTyped
<1>5. ASSUME NEW s \in Session, ReadInterrupt(s)
      PROVE  ReaderTypes' /\ SupersedeInv'
  <2>1. /\ reader = "reading" /\ clips' = clips
        /\ audio_buffer' \in {<<>>, audio_buffer}
        /\ reader' \in {"reading", "interrupting"}
    BY <1>5 DEF ReadInterrupt, Receives
  <2>2. audio_buffer' \in Seq(Piece)
    BY <2>1, EmptyOrSame
  <2> QED
    BY <2>1, <2>2, ReaderTyped
<1>6. CASE ReportOverflow \/ Interrupted \/ ReadEof \/ Finished \/ PutSentinel
  <2>1. /\ clips' = clips /\ audio_buffer' \in {<<>>, audio_buffer}
        /\ reader' \in {"reading", "finishing", "closing", "done"}
    BY <1>6 DEF ReportOverflow, Interrupted, ReadEof, Finished, PutSentinel, Leave
  <2>2. audio_buffer' \in Seq(Piece)
    BY <2>1, EmptyOrSame
  <2> QED
    BY <2>1, <2>2, ReaderTyped
<1>7. CASE WriterCancelled
  <2>1. /\ clips' = clips /\ audio_buffer' = audio_buffer
        /\ reader' = reader \/ reader' \in {"finishing", "closing", "done"}
    BY <1>7 DEF WriterCancelled, Leave
  <2>2. audio_buffer' \in Seq(Piece)
    BY <2>1, EmptyOrSame
  <2>3. reader' # "superseding" \/ reader' = reader
    BY <2>1
  <2>4. reader' \in {"reading", "reporting", "superseding", "interrupting",
                    "finishing", "closing", "done"}
    BY <2>1 DEF ReaderTypes
  <2> QED
    BY <2>1, <2>2, <2>3, <2>4, ReaderTyped
<1>8. CASE UNCHANGED <<reader, audio_buffer, clips>>
  BY <1>8 DEF ReaderTypes, SupersedeInv, Current
<1>9. Supersede => StartsClip
  BY SupersedeStarts
<1> QED
  BY <1>1, <1>2, <1>3, <1>4, <1>5, <1>6, <1>7, <1>8, <1>9, ReaderFrame DEF Message, Reader
-----------------------------------------------------------------------------
(* The processing tasks.                                                   *)

Kinds == {"audio", "final", "error"}
Onward == {"waiting", "offering", "concluding", "done"}

Puts(n) ==
  \E o \in Output : o.clip = n /\ Room /\ output_queue' = Append(output_queue, o)

\* The step of a task that is not being cancelled.  When the client is there,
\* it ends or has produced audio only with an output on its way.
Works(n) ==
  /\ stage[n] \in Active /\ n \notin cancelling
  /\ UNCHANGED <<client, clips, cancelling, writer, written>>
  /\ \E s \in Onward : stage' = [stage EXCEPT ![n] = s]
  /\ offered' \in [Clip -> Kinds]
  /\ audio_produced' \in {audio_produced, audio_produced \cup {n}}
  /\ output_queue' = output_queue \/ Puts(n)
  /\ client # "gone" =>
       /\ stage'[n] = "done" => Puts(n) \/ (stage[n] = "waiting" /\ n \in audio_produced)
       /\ stage'[n] = "waiting" /\ n \in audio_produced' => Puts(n)

LEMMA OutputOf ==
  ASSUME NEW n \in Clip, NEW kind \in Kinds
  PROVE  /\ [clip |-> n, kind |-> kind] \in Output
         /\ [clip |-> n, kind |-> kind].clip = n
  BY DEF Output, Kinds

LEMMA YieldEffect ==
  ASSUME TaskTypes, NEW n \in Clip, NEW next \in {"waiting", "done"}, NEW kind \in Kinds,
         Yield(n, next, kind)
  PROVE  /\ \E s \in Onward : stage' = [stage EXCEPT ![n] = s]
         /\ offered' \in [Clip -> Kinds]
         /\ output_queue' = output_queue \/ Puts(n)
         /\ client # "gone" /\ stage'[n] \in {"waiting", "done"} => Puts(n)
<1>1. stage \in [Clip -> Active \cup {"none", "done", "cancelled"}] /\ offered \in [Clip -> Kinds]
  BY DEF TaskTypes, Kinds
<1>2. CASE client = "gone" /\ stage' = [stage EXCEPT ![n] = "done"]
           /\ UNCHANGED <<offered, output_queue>>
  BY <1>1, <1>2 DEF Onward
<1>3. CASE client # "gone" /\ Room /\ stage' = [stage EXCEPT ![n] = next]
           /\ output_queue' = Append(output_queue, [clip |-> n, kind |-> kind])
           /\ UNCHANGED offered
  <2>1. Puts(n)
    BY <1>3, OutputOf DEF Puts
  <2> QED
    BY <1>1, <1>3, <2>1 DEF Onward
<1>4. CASE client # "gone"
           /\ stage' = [stage EXCEPT ![n] = IF next = "done" THEN "concluding" ELSE "offering"]
           /\ offered' = [offered EXCEPT ![n] = kind]
           /\ UNCHANGED output_queue
  <2>1. stage'[n] \in {"concluding", "offering"}
    BY <1>1, <1>4
  <2>2. offered' \in [Clip -> Kinds]
    BY <1>1, <1>4
  <2>3. \E s \in Onward : stage' = [stage EXCEPT ![n] = s]
    BY <1>4 DEF Onward
  <2> QED
    BY <1>4, <2>1, <2>2, <2>3
<1> QED
  BY <1>2, <1>3, <1>4 DEF Yield

LEMMA TranscribeWorks ==
  ASSUME TaskTypes, AnswerInv, NEW n \in Clip, Transcribe(n)
  PROVE  Works(n)
<1>1. /\ stage[n] = "stt" /\ n \notin cancelling /\ audio_produced' = audio_produced
      /\ UNCHANGED <<client, clips, cancelling, writer, written>>
  BY DEF Transcribe, Runs, speech
<1>2. stage[n] \in Active /\ n \notin audio_produced
  BY <1>1 DEF Active, AnswerInv
<1>3. CASE \E kind \in {"error", "final"} : Yield(n, "done", kind)
  <2>1. PICK kind \in Kinds : Yield(n, "done", kind)
    BY <1>3 DEF Kinds
  <2> QED
    BY <1>1, <1>2, <2>1, YieldEffect DEF Works
<1>4. CASE /\ stage' = [stage EXCEPT ![n] = "waiting"]
           /\ UNCHANGED <<offered, output_queue>>
  <2>1. stage'[n] = "waiting" /\ offered' \in [Clip -> Kinds]
    BY <1>4 DEF TaskTypes, Kinds
  <2>2. \E s \in Onward : stage' = [stage EXCEPT ![n] = s]
    BY <1>4 DEF Onward
  <2> QED
    BY <1>1, <1>2, <1>4, <2>1, <2>2 DEF Works
<1> QED
  BY <1>3, <1>4 DEF Transcribe

LEMMA PullWorks ==
  ASSUME TaskTypes, OrchestrationTypes, NEW n \in Clip, Pull(n)
  PROVE  Works(n)
<1>1. /\ stage[n] = "waiting" /\ n \notin cancelling
      /\ UNCHANGED <<client, clips, cancelling, writer, written>>
  BY DEF Pull, Runs, speech
<1>2. stage[n] \in Active
  BY <1>1 DEF Active
<1>3. ASSUME audio_produced' = audio_produced, n \in audio_produced,
             stage' = [stage EXCEPT ![n] = "done"], UNCHANGED <<offered, output_queue>>
      PROVE  Works(n)
  <2>1. stage'[n] = "done" /\ offered' \in [Clip -> Kinds]
    BY <1>3 DEF TaskTypes, Kinds
  <2>2. \E s \in Onward : stage' = [stage EXCEPT ![n] = s]
    BY <1>3 DEF Onward
  <2> QED
    BY <1>1, <1>2, <1>3, <2>1, <2>2 DEF Works
<1>4. ASSUME audio_produced' = audio_produced, Yield(n, "done", "final")
      PROVE  Works(n)
  <2>1. "final" \in Kinds
    BY DEF Kinds
  <2> QED
    BY <1>1, <1>2, <1>4, <2>1, YieldEffect DEF Works
<1>5. ASSUME client = "gone", audio_produced' = audio_produced,
             stage' = [stage EXCEPT ![n] = "done"], UNCHANGED <<offered, output_queue>>
      PROVE  Works(n)
  <2>1. offered' \in [Clip -> Kinds]
    BY <1>5 DEF TaskTypes, Kinds
  <2>2. \E s \in Onward : stage' = [stage EXCEPT ![n] = s]
    BY <1>5 DEF Onward
  <2> QED
    BY <1>1, <1>2, <1>5, <2>1, <2>2 DEF Works
<1>6. ASSUME NEW item \in Kinds, audio_produced' = audio_produced \cup {n},
             Yield(n, "waiting", item)
      PROVE  Works(n)
  BY <1>1, <1>2, <1>6, YieldEffect DEF Works
<1>7. tts_queue[n] \in Seq(Kinds \cup {Done}) /\ tts_queue[n] # <<>>
  BY DEF OrchestrationTypes, Kinds, Pull
<1>8. Head(tts_queue[n]) \in Kinds \cup {Done}
  BY <1>7, TailElements
<1> QED
  BY <1>3, <1>4, <1>5, <1>6, <1>8 DEF Pull, PullItem

LEMMA PutWorks ==
  ASSUME TaskTypes, NEW n \in Clip, Put(n)
  PROVE  Works(n)
<1>1. /\ stage[n] \in {"offering", "concluding"} /\ n \notin cancelling
      /\ UNCHANGED <<client, clips, cancelling, writer, written, offered, audio_produced>>
      /\ stage' = [stage EXCEPT ![n] = IF @ = "offering" THEN "waiting" ELSE "done"]
  BY DEF Put, Runs, speech
<1>2. offered \in [Clip -> Kinds]
  BY DEF TaskTypes, Kinds
<1>3. Puts(n)
  BY <1>2, OutputOf DEF Put, Puts
<1>4. stage[n] \in Active /\ \E s \in Onward : stage' = [stage EXCEPT ![n] = s]
  BY <1>1 DEF Active, Onward
<1> QED
  BY <1>1, <1>2, <1>3, <1>4 DEF Works

\* Every way the tasks change.
LEMMA TaskSteps ==
  ASSUME TypeOK, SpokenInv, SupersedeInv, AnswerInv, [Next]_vars
  PROVE  \/ StartsClip
         \/ /\ UNCHANGED <<clips, stage, offered, audio_produced>>
            /\ \/ cancelling' = cancelling
               \/ ~ProcessingDone /\ cancelling' = cancelling \cup {Current}
         \/ \E n \in Clip : Works(n) \/ TaskCancelled(n)
<1>1. SpeechTypes /\ ReaderTypes /\ TaskTypes /\ OrchestrationTypes
  BY TypeParts
<1>2. ASSUME NEW s \in Session, ReadEnd(s)
      PROVE  \/ StartsClip
             \/ /\ UNCHANGED <<clips, stage, offered, audio_produced>>
                /\ \/ cancelling' = cancelling
                   \/ ~ProcessingDone /\ cancelling' = cancelling \cup {Current}
  BY <1>1, <1>2, EndOutcomes
<1>3. ASSUME NEW s \in Session, ReadInterrupt(s)
      PROVE  /\ UNCHANGED <<clips, stage, offered, audio_produced>>
             /\ \/ cancelling' = cancelling
                \/ ~ProcessingDone /\ cancelling' = cancelling \cup {Current}
  BY <1>3 DEF ReadInterrupt, processing
<1>4. ASSUME WriterCancelled
      PROVE  /\ UNCHANGED <<clips, stage, offered, audio_produced>>
             /\ \/ cancelling' = cancelling
                \/ ~ProcessingDone /\ cancelling' = cancelling \cup {Current}
  BY <1>4 DEF WriterCancelled, processing
<1>5. Supersede => StartsClip
  BY <1>1, SupersedeStarts
<1>6. ASSUME NEW n \in Clip, Processing(n)
      PROVE  Works(n) \/ TaskCancelled(n)
  BY <1>1, <1>6, TranscribeWorks, PullWorks, PutWorks DEF Processing
<1> QED
  BY <1>2, <1>3, <1>4, <1>5, <1>6, TaskFrame

\* A clip that starts takes the next place, which no task has held.
LEMMA NewClip ==
  ASSUME ReaderTypes, TaskTypes, TasksInv, StartsClip
  PROVE  /\ Current \in Nat /\ Current' = Current + 1 /\ Current' \in Clip
         /\ stage[Current'] = "none"
         /\ stage' = [stage EXCEPT ![Current'] = "stt"]
         /\ UNCHANGED <<offered, audio_produced, cancelling>>
         /\ \A n \in Clip : stage[n] \notin Active
         /\ cancelling = {}
<1>1. PICK audio \in Seq(Piece) :
        /\ ProcessingDone /\ Current < MaxClips /\ clips' = Append(clips, audio)
        /\ stage' = [stage EXCEPT ![Current + 1] = "stt"]
        /\ UNCHANGED <<offered, audio_produced, cancelling>>
  BY DEF StartsClip, StartClip
<1>2. clips \in Seq(Seq(Piece))
  BY DEF ReaderTypes
<1>3. Current \in Nat /\ Current' = Current + 1
  BY <1>1, <1>2, AppendElements DEF Current
<1>4. Current' \in Clip /\ Current' > Current
  BY <1>1, <1>3, Constants DEF Clip
<1>5. stage[Current'] = "none"
  BY <1>4 DEF TasksInv
<1>6. \A n \in Clip : stage[n] \notin Active
  BY <1>1 DEF ProcessingDone, TasksInv
<1>7. cancelling = {}
  BY <1>6 DEF TasksInv, TaskTypes
<1> QED
  BY <1>1, <1>3, <1>4, <1>5, <1>6, <1>7

LEMMA TasksKept ==
  ASSUME TypeOK, SpokenInv, TasksInv, SupersedeInv, AnswerInv, [Next]_vars
  PROVE  TaskTypes' /\ TasksInv'
<1>1. ReaderTypes /\ TaskTypes
  BY TypeParts
<1>2. Current \in Nat
  BY <1>1 DEF ReaderTypes, Current
<1>3. \A n \in Clip : n \in Nat
  BY Constants DEF Clip
<1>4. CASE StartsClip
  <2>1. /\ Current' = Current + 1 /\ Current' \in Clip
        /\ stage' = [stage EXCEPT ![Current'] = "stt"]
        /\ UNCHANGED <<offered, audio_produced, cancelling>>
        /\ \A n \in Clip : stage[n] \notin Active
        /\ cancelling = {}
    BY <1>1, <1>4, NewClip
  <2>2. TaskTypes'
    BY <1>1, <2>1 DEF TaskTypes, Active
  <2>3. \A n \in Clip : n > Current' => n # Current' /\ n > Current
    BY <1>2, <1>3, <2>1
  <2>4. \A n \in Clip : n # Current' => stage'[n] = stage[n]
    BY <1>1, <2>1 DEF TaskTypes
  <2>5. \A n \in Clip : n > Current' => stage'[n] = "none"
    BY <2>3, <2>4 DEF TasksInv
  <2>6. \A n \in Clip : stage'[n] \in Active => n = Current'
    BY <2>1, <2>4
  <2> QED
    BY <2>1, <2>2, <2>5, <2>6 DEF TasksInv
<1>5. CASE /\ UNCHANGED <<clips, stage, offered, audio_produced>>
           /\ \/ cancelling' = cancelling
              \/ ~ProcessingDone /\ cancelling' = cancelling \cup {Current}
  <2>1. Current' = Current
    BY <1>5 DEF Current
  <2>2. ~ProcessingDone => Current \in Clip /\ stage[Current] \in Active
    BY DEF ProcessingDone
  <2>3. cancelling' \subseteq Clip /\ \A n \in cancelling' : stage[n] \in Active
    BY <1>1, <1>5, <2>2 DEF TaskTypes, TasksInv
  <2> QED
    BY <1>1, <1>5, <2>1, <2>3 DEF TaskTypes, TasksInv
<1>6. ASSUME NEW n \in Clip, Works(n)
      PROVE  TaskTypes' /\ TasksInv'
  <2>1. PICK s \in Onward : stage' = [stage EXCEPT ![n] = s]
    BY <1>6 DEF Works
  <2>2. /\ Current' = Current /\ stage[n] \in Active /\ n \notin cancelling
        /\ cancelling' = cancelling /\ offered' \in [Clip -> Kinds]
        /\ audio_produced' \in {audio_produced, audio_produced \cup {n}}
    BY <1>6 DEF Works, Current
  <2>3. n = Current
    BY <2>2 DEF TasksInv
  <2>4. Onward \subseteq Active \cup {"done"}
    BY DEF Onward, Active
  <2>5. TaskTypes'
    BY <1>1, <2>1, <2>2, <2>4 DEF TaskTypes, Kinds
  <2>6. \A m \in Clip : m # n => stage'[m] = stage[m]
    BY <1>1, <2>1 DEF TaskTypes
  <2>7. \A m \in Clip : m > Current' => stage'[m] = "none"
    BY <1>2, <2>2, <2>3, <2>6 DEF TasksInv
  <2>8. \A m \in Clip : stage'[m] \in Active => m = Current'
    BY <2>2, <2>3, <2>6 DEF TasksInv
  <2>9. \A m \in cancelling' : stage'[m] \in Active
    BY <1>1, <2>2, <2>6 DEF TasksInv, TaskTypes
  <2> QED
    BY <2>5, <2>7, <2>8, <2>9 DEF TasksInv
<1>7. ASSUME NEW n \in Clip, TaskCancelled(n)
      PROVE  TaskTypes' /\ TasksInv'
  <2>1. /\ n \in cancelling /\ cancelling' = cancelling \ {n}
        /\ stage' = [stage EXCEPT ![n] = "cancelled"]
        /\ UNCHANGED <<clips, offered, audio_produced>>
    BY <1>7 DEF TaskCancelled
  <2>2. Current' = Current
    BY <2>1 DEF Current
  <2>3. n = Current
    BY <2>1 DEF TasksInv
  <2>5. TaskTypes'
    BY <1>1, <2>1 DEF TaskTypes
  <2>6. \A m \in Clip : m # n => stage'[m] = stage[m]
    BY <1>1, <2>1 DEF TaskTypes
  <2>7. \A m \in Clip : m > Current' => stage'[m] = "none"
    BY <1>2, <2>2, <2>3, <2>6 DEF TasksInv
  <2>8. \A m \in Clip : stage'[m] \in Active => m = Current'
    BY <2>2, <2>3, <2>6 DEF TasksInv
  <2>9. \A m \in cancelling' : stage'[m] \in Active
    BY <1>1, <2>1, <2>6 DEF TasksInv, TaskTypes
  <2> QED
    BY <2>5, <2>7, <2>8, <2>9 DEF TasksInv
<1> QED
  BY <1>4, <1>5, <1>6, <1>7, TaskSteps
-----------------------------------------------------------------------------
(* The orchestration tasks.                                                *)

LEMMA OrchestrationKept ==
  ASSUME OrchestrationTypes, [Next]_vars
  PROVE  OrchestrationTypes'
<1> DEFINE Item == Kinds \cup {Done}
<1>1. /\ orchestration \in [Clip -> {"none", "running", "failed", "ending", "done"}]
      /\ packets \in [Clip -> 0..MaxPackets]
      /\ tts_queue \in [Clip -> Seq(Item)]
      /\ \A n \in Clip : Len(tts_queue[n]) <= TtsCapacity
  BY DEF OrchestrationTypes, Kinds
<1>2. MaxPackets \in Nat /\ TtsCapacity \in Nat
  BY Constants
<1>3. \A n \in Clip : tts_queue[n] \in Seq(Item) /\ Len(tts_queue[n]) \in Nat
  BY <1>1
<1>4. ASSUME NEW n \in Clip, NEW item \in Item, TtsPut(n, item)
      PROVE  /\ tts_queue' \in [Clip -> Seq(Item)]
             /\ \A m \in Clip : Len(tts_queue'[m]) <= TtsCapacity
  <2>1. Len(tts_queue[n]) < TtsCapacity
        /\ tts_queue' = [tts_queue EXCEPT ![n] = Append(tts_queue[n], item)]
    BY <1>4 DEF TtsPut
  <2>2. /\ Append(tts_queue[n], item) \in Seq(Item)
        /\ Len(Append(tts_queue[n], item)) = Len(tts_queue[n]) + 1
    BY <1>3, AppendElements
  <2>3. Len(Append(tts_queue[n], item)) <= TtsCapacity
    BY <1>2, <1>3, <2>1, <2>2
  <2> QED
    BY <1>1, <2>1, <2>2, <2>3
<1>5. ASSUME NEW n \in Clip, tts_queue[n] # <<>>,
             tts_queue' = [tts_queue EXCEPT ![n] = Tail(tts_queue[n])]
      PROVE  /\ tts_queue' \in [Clip -> Seq(Item)]
             /\ \A m \in Clip : Len(tts_queue'[m]) <= TtsCapacity
  <2>1. /\ Tail(tts_queue[n]) \in Seq(Item)
        /\ Len(Tail(tts_queue[n])) = Len(tts_queue[n]) - 1
    BY <1>3, <1>5, TailElements
  <2>2. Len(tts_queue[n]) <= TtsCapacity
    BY <1>1
  <2>3. Len(Tail(tts_queue[n])) <= TtsCapacity
    BY <1>2, <1>3, <2>1, <2>2
  <2> QED
    BY <1>1, <1>5, <2>1, <2>3
<1>6. ASSUME NEW n \in Clip,
             orchestration' = orchestration
               \/ \E s \in {"running", "failed", "ending", "done"} :
                    orchestration' = [orchestration EXCEPT ![n] = s]
      PROVE  orchestration' \in [Clip -> {"none", "running", "failed", "ending", "done"}]
  BY <1>1, <1>6
<1>7. ASSUME NEW n \in Clip, Deliver(n)
      PROVE  OrchestrationTypes'
  <2>1. orchestration' = orchestration
    BY <1>7 DEF Deliver
  <2>2. packets' \in [Clip -> 0..MaxPackets]
    <3>1. packets[n] < MaxPackets /\ packets[n] \in Nat
      BY <1>1, <1>2, <1>7 DEF Deliver
    <3>2. packets[n] + 1 \in 0..MaxPackets /\ MaxPackets \in 0..MaxPackets
      BY <1>2, <3>1
    <3>3. packets' = [packets EXCEPT ![n] = packets[n] + 1]
          \/ packets' = [packets EXCEPT ![n] = MaxPackets]
      BY <1>7 DEF Deliver
    <3> QED
      BY <1>1, <3>2, <3>3
  <2>3. TtsPut(n, "audio") \/ TtsPut(n, "final")
    BY <1>7 DEF Deliver
  <2>4. "audio" \in Item /\ "final" \in Item
    BY DEF Kinds
  <2> QED
    BY <1>1, <1>4, <2>1, <2>2, <2>3, <2>4 DEF OrchestrationTypes, Kinds
<1>8. ASSUME NEW n \in Clip, OrchestrationReturns(n)
      PROVE  OrchestrationTypes'
  BY <1>1, <1>6, <1>8 DEF OrchestrationReturns, OrchestrationTypes, Kinds
<1>9. ASSUME NEW n \in Clip, ReportFailure(n) \/ PutDone(n)
      PROVE  OrchestrationTypes'
  <2>1. packets' = packets /\ \E s \in {"ending", "done"} :
           orchestration' = [orchestration EXCEPT ![n] = s]
    BY <1>9 DEF ReportFailure, PutDone
  <2>2. TtsPut(n, "error") \/ TtsPut(n, Done)
    BY <1>9 DEF ReportFailure, PutDone
  <2>3. "error" \in Item /\ Done \in Item
    BY DEF Kinds
  <2> QED
    BY <1>1, <1>4, <1>6, <2>1, <2>2, <2>3 DEF OrchestrationTypes, Kinds
<1>10. ASSUME NEW n \in Clip, Transcribe(n)
       PROVE  OrchestrationTypes'
  <2>1. UNCHANGED <<packets, tts_queue>>
        /\ (orchestration' = orchestration
            \/ orchestration' = [orchestration EXCEPT ![n] = "running"])
    BY <1>10 DEF Transcribe
  <2> QED
    BY <1>1, <1>6, <2>1 DEF OrchestrationTypes, Kinds
<1>11. ASSUME NEW n \in Clip, Pull(n)
       PROVE  OrchestrationTypes'
  <2>1. /\ packets' = packets /\ tts_queue[n] # <<>>
        /\ tts_queue' = [tts_queue EXCEPT ![n] = Tail(tts_queue[n])]
        /\ \/ orchestration' = orchestration
           \/ orchestration' = [orchestration EXCEPT
                ![n] = IF orchestration[n] = "done" THEN orchestration[n] ELSE "ending"]
    BY <1>11 DEF Pull, PullItem
  <2>2. orchestration' \in [Clip -> {"none", "running", "failed", "ending", "done"}]
    BY <1>1, <2>1
  <2> QED
    BY <1>1, <1>5, <2>1, <2>2 DEF OrchestrationTypes, Kinds
<1>12. ASSUME NEW n \in Clip, TaskCancelled(n)
       PROVE  OrchestrationTypes'
  <2>1. /\ UNCHANGED <<packets, tts_queue>>
        /\ orchestration' = [orchestration EXCEPT
              ![n] = IF stage[n] = "waiting" /\ orchestration[n] # "done"
                       THEN "ending" ELSE orchestration[n]]
    BY <1>12 DEF TaskCancelled
  <2>2. orchestration' \in [Clip -> {"none", "running", "failed", "ending", "done"}]
    BY <1>1, <2>1
  <2> QED
    BY <1>1, <2>1, <2>2 DEF OrchestrationTypes, Kinds
<1>13. ASSUME NEW n \in Clip, Put(n)
       PROVE  OrchestrationTypes'
  BY <1>1, <1>13 DEF Put, orchestrating, OrchestrationTypes, Kinds
<1>14. CASE UNCHANGED <<orchestration, packets, tts_queue>>
  BY <1>1, <1>14 DEF OrchestrationTypes, Kinds
<1> QED
  BY <1>7, <1>8, <1>9, <1>10, <1>11, <1>12, <1>13, <1>14, OrchestrationFrame
     DEF Processing, Orchestration

-----------------------------------------------------------------------------
(* The output queue and what is written.                                   *)

\* A step that puts an output puts one of the current clip or of none.
PutsOne ==
  \E o \in Output \cup {Sentinel} :
    /\ o.clip \in {0, Current} /\ Room
    /\ output_queue' = Append(output_queue, o)
    /\ UNCHANGED <<writer, written>>

LEMMA OutputSteps ==
  ASSUME TypeOK, SpokenInv, TasksInv, SupersedeInv, AnswerInv, [Next]_vars
  PROVE  \/ UNCHANGED <<output_queue, writer, written>>
         \/ PutsOne
         \/ UNCHANGED <<output_queue, written>> /\ (WriterCancelled \/ WriterCloses)
         \/ Write
<1>1. SpeechTypes /\ ReaderTypes /\ TaskTypes /\ OrchestrationTypes
  BY TypeParts
<1>2. Overflow \in Output /\ Overflow.clip = 0 /\ Sentinel.clip = 0
  BY DEF Overflow, Sentinel, Output
<1>3. ASSUME NEW s \in Session, ReadContinue(s)
      PROVE  UNCHANGED <<output_queue, writer, written>> \/ PutsOne
  <2>1. UNCHANGED <<writer, written>>
        /\ (output_queue' = output_queue
            \/ (Room /\ output_queue' = Append(output_queue, Overflow)))
    BY <1>3 DEF ReadContinue
  <2> QED
    BY <1>2, <2>1 DEF PutsOne
<1>4. ReportOverflow => PutsOne
  BY <1>2 DEF ReportOverflow, PutsOne
<1>5. PutSentinel => PutsOne
  BY <1>2 DEF PutSentinel, PutsOne
<1>6. ASSUME NEW n \in Clip, Works(n)
      PROVE  UNCHANGED <<output_queue, writer, written>> \/ PutsOne
  <2>1. n = Current /\ UNCHANGED <<writer, written>>
    BY <1>6 DEF Works, TasksInv
  <2>2. output_queue' = output_queue \/ Puts(n)
    BY <1>6 DEF Works
  <2> QED
    BY <2>1, <2>2 DEF Puts, PutsOne
<1>7. ASSUME NEW n \in Clip, TaskCancelled(n)
      PROVE  UNCHANGED <<output_queue, writer, written>>
  BY <1>7 DEF TaskCancelled
<1>8. ASSUME NEW n \in Clip, Processing(n)
      PROVE  Works(n) \/ TaskCancelled(n)
  BY <1>1, <1>8, TranscribeWorks, PullWorks, PutWorks DEF Processing
<1>9. WriterCancelled \/ WriterCloses => UNCHANGED <<output_queue, written>>
  BY DEF WriterCancelled, WriterCloses
<1> QED
  BY <1>3, <1>4, <1>5, <1>6, <1>7, <1>8, <1>9, OutputFrame DEF Writer

\* The current clip only moves on.
LEMMA ClipsGrow ==
  ASSUME TypeOK, SpokenInv, TasksInv, SupersedeInv, AnswerInv, [Next]_vars
  PROVE  Current \in Nat /\ Current' \in Nat /\ Current <= Current'
<1>1. ReaderTypes /\ TaskTypes
  BY TypeParts
<1>2. Current \in Nat
  BY <1>1 DEF ReaderTypes, Current
<1>3. StartsClip \/ clips' = clips
  BY TaskSteps DEF Works, TaskCancelled
<1>4. StartsClip => Current' = Current + 1
  BY <1>1, NewClip
<1>5. clips' = clips => Current' = Current
  BY DEF Current
<1> QED
  BY <1>2, <1>3, <1>4, <1>5

LEMMA ClipTyped ==
  /\ Output \subseteq Output \cup {Sentinel}
  /\ \A o \in Output \cup {Sentinel} : o.clip \in Nat
<1>1. Clip \subseteq Nat
  BY Constants DEF Clip
<1>2. \A o \in Output : o.clip \in Nat
  <2>1. \A o \in Output : o.clip \in Clip \cup {0}
    BY DEF Output
  <2>2. Clip \cup {0} \subseteq Nat
    BY <1>1
  <2> QED
    BY <2>1, <2>2
<1>3. Sentinel.clip \in Nat
  BY DEF Sentinel
<1>4. ASSUME NEW o \in Output \cup {Sentinel}
      PROVE  o.clip \in Nat
  <2>1. o \in Output \/ o = Sentinel
    OBVIOUS
  <2>2. CASE o \in Output
    BY <1>2, <2>2
  <2>3. CASE o = Sentinel
    BY <1>3, <2>3
  <2> QED
    BY <2>1, <2>2, <2>3
<1>5. Output \subseteq Output \cup {Sentinel}
  OBVIOUS
<1> QED
  BY <1>4, <1>5

\* An output of clip c, or of none, after outputs of clips up to c.
LEMMA OrderedAppend ==
  ASSUME NEW q \in Seq(Output \cup {Sentinel}), NEW o \in Output \cup {Sentinel},
         NEW c \in Nat, o.clip \in {0, c}, Ordered(q), \A i \in DOMAIN q : q[i].clip <= c
  PROVE  /\ Ordered(Append(q, o))
         /\ \A i \in DOMAIN Append(q, o) : Append(q, o)[i].clip <= c
<1>1. /\ Len(q) \in Nat
      /\ DOMAIN q = 1..Len(q) /\ DOMAIN Append(q, o) = 1..(Len(q) + 1)
      /\ \A i \in 1..Len(q) : Append(q, o)[i] = q[i]
      /\ Append(q, o)[Len(q) + 1] = o
  BY AppendElements
<1>2. o.clip <= c
  OBVIOUS
<1>3. ASSUME NEW i \in DOMAIN Append(q, o)
      PROVE  Append(q, o)[i].clip <= c
  <2>1. i \in 1..Len(q) \/ i = Len(q) + 1
    BY <1>1
  <2> QED
    BY <1>1, <1>2, <2>1
<1>4. ASSUME NEW i \in DOMAIN Append(q, o), NEW j \in DOMAIN Append(q, o), i < j
      PROVE  InOrder(Append(q, o)[i], Append(q, o)[j])
  <2>1. i \in 1..Len(q)
    BY <1>1, <1>4
  <2>2. Append(q, o)[i] = q[i] /\ q[i].clip <= c
    BY <1>1, <2>1
  <2>3. CASE j \in 1..Len(q)
    <3>1. Append(q, o)[j] = q[j] /\ InOrder(q[i], q[j])
      BY <1>1, <1>4, <2>1, <2>3 DEF Ordered
    <3> QED
      BY <2>2, <3>1
  <2>4. CASE j = Len(q) + 1
    <3>1. Append(q, o)[j] = o
      BY <1>1, <2>4
    <3> QED
      BY <2>2, <3>1 DEF InOrder
  <2> QED
    BY <1>1, <2>3, <2>4
<1> QED
  BY <1>3, <1>4 DEF Ordered

LEMMA OutputsKept ==
  ASSUME TypeOK, SpokenInv, TasksInv, SupersedeInv, OutputsInv, AnswerInv, [Next]_vars
  PROVE  OutputTypes' /\ OutputsInv'
<1> DEFINE Item == Output \cup {Sentinel}
<1>1. /\ output_queue \in Seq(Item) /\ Len(output_queue) <= OutputCapacity
      /\ writer \in {"writing", "closing", "done"} /\ written \in Seq(Output)
  BY TypeParts DEF OutputTypes
<1>2. Current \in Nat /\ Current' \in Nat /\ Current <= Current'
  BY ClipsGrow
<1>3. /\ \A i \in DOMAIN output_queue : output_queue[i] \in Item /\ output_queue[i].clip \in Nat
      /\ \A i \in DOMAIN written : written[i] \in Item /\ written[i].clip \in Nat
      /\ written \in Seq(Item)
  BY <1>1, ElementTyped, ClipTyped
<1>4. /\ \A i \in DOMAIN output_queue : output_queue[i].clip <= Current'
      /\ \A i \in DOMAIN written : written[i].clip <= Current'
  BY <1>2, <1>3 DEF OutputsInv
<1>5. CASE UNCHANGED <<output_queue, written>>
           /\ writer' \in {"writing", "closing", "done"}
  <2>1. OutputTypes'
    BY <1>1, <1>5 DEF OutputTypes
  <2>2. OutputsInv'
    BY <1>4, <1>5 DEF OutputsInv, Ordered, InOrder
  <2> QED
    BY <2>1, <2>2
<1>6. CASE PutsOne
  <2>1. PICK o \in Item :
          /\ o.clip \in {0, Current} /\ Len(output_queue) < OutputCapacity
          /\ output_queue' = Append(output_queue, o)
          /\ UNCHANGED <<writer, written>>
    BY <1>6 DEF PutsOne, Room
  <2>2. /\ output_queue' \in Seq(Item) /\ Len(output_queue') = Len(output_queue) + 1
        /\ Len(output_queue) \in Nat
        /\ DOMAIN output_queue = 1..Len(output_queue)
        /\ DOMAIN output_queue' = 1..(Len(output_queue) + 1)
        /\ \A i \in 1..Len(output_queue) : output_queue'[i] = output_queue[i]
        /\ output_queue'[Len(output_queue) + 1] = o
    BY <1>1, <2>1, AppendElements
  <2>3. Len(output_queue') <= OutputCapacity
    BY <2>1, <2>2, Constants
  <2>4. OutputTypes'
    BY <1>1, <2>1, <2>2, <2>3 DEF OutputTypes
  <2>5. /\ Ordered(output_queue')
        /\ \A i \in DOMAIN output_queue' : output_queue'[i].clip <= Current
    BY <1>1, <1>2, <2>1, OrderedAppend DEF OutputsInv
  <2>6. \A i \in DOMAIN output_queue' : output_queue'[i].clip <= Current'
    <3>1. \A i \in DOMAIN output_queue' : output_queue'[i].clip \in Nat
      BY <2>2, ElementTyped, ClipTyped
    <3> QED
      BY <1>2, <2>5, <3>1
  <2>7. ASSUME NEW i \in DOMAIN written, NEW j \in DOMAIN output_queue'
        PROVE  InOrder(written[i], output_queue'[j])
    <3>1. CASE j \in 1..Len(output_queue)
      BY <2>2, <3>1 DEF OutputsInv
    <3>2. CASE j = Len(output_queue) + 1
      <4>1. output_queue'[j] = o /\ written[i].clip <= Current
        BY <2>2, <3>2 DEF OutputsInv
      <4> QED
        BY <2>1, <4>1 DEF InOrder
    <3> QED
      BY <2>2, <3>1, <3>2
  <2>8. OutputsInv'
    BY <1>4, <2>1, <2>5, <2>6, <2>7 DEF OutputsInv, Ordered
  <2> QED
    BY <2>4, <2>8
<1>7. CASE Write
  <2>1. /\ output_queue # <<>> /\ output_queue' = Tail(output_queue)
        /\ \/ writer' = "done" /\ written' = written
           \/ /\ Head(output_queue) # Sentinel
              /\ written' = Append(written, Head(output_queue)) /\ writer' = writer
    BY <1>7 DEF Write
  <2>2. /\ output_queue' \in Seq(Item)
        /\ Head(output_queue) \in Item /\ Head(output_queue) = output_queue[1]
        /\ Len(output_queue) \in Nat \ {0} /\ Len(output_queue') = Len(output_queue) - 1
        /\ DOMAIN output_queue = 1..Len(output_queue)
        /\ DOMAIN output_queue' = 1..(Len(output_queue) - 1)
        /\ \A i \in 1..(Len(output_queue) - 1) : output_queue'[i] = output_queue[i + 1]
    BY <1>1, <2>1, TailElements
  <2>3. /\ \A i \in DOMAIN output_queue' : i \in Nat /\ i + 1 \in DOMAIN output_queue
        /\ 1 \in DOMAIN output_queue
        /\ \A i \in DOMAIN output_queue' : 1 < i + 1
        /\ \A i, j \in DOMAIN output_queue' : i < j => i + 1 < j + 1
    BY <2>2
  <2>4. Len(output_queue') <= OutputCapacity
    BY <1>1, <2>2, Constants
  <2>5. written' \in Seq(Output) /\ writer' \in {"writing", "closing", "done"}
    <3>1. Head(output_queue) # Sentinel => Head(output_queue) \in Output
      BY <2>2
    <3>2. Head(output_queue) # Sentinel => Append(written, Head(output_queue)) \in Seq(Output)
      BY <1>1, <3>1, AppendElements
    <3> QED
      BY <1>1, <2>1, <3>2
  <2>6. OutputTypes'
    BY <2>2, <2>4, <2>5 DEF OutputTypes
  <2>7. \A i \in DOMAIN output_queue' : output_queue'[i].clip <= Current'
    BY <1>4, <2>2, <2>3
  <2>8. Ordered(output_queue')
    <3> SUFFICES ASSUME NEW i \in DOMAIN output_queue', NEW j \in DOMAIN output_queue', i < j
                 PROVE  InOrder(output_queue'[i], output_queue'[j])
      BY DEF Ordered
    <3>1. i + 1 < j + 1 /\ i + 1 \in DOMAIN output_queue /\ j + 1 \in DOMAIN output_queue
      BY <2>3
    <3>2. InOrder(output_queue[i + 1], output_queue[j + 1])
      BY <3>1 DEF OutputsInv, Ordered
    <3> QED
      BY <2>2, <3>2
  <2>9. \A i \in DOMAIN written, j \in DOMAIN output_queue' :
          InOrder(written[i], output_queue'[j])
    BY <2>2, <2>3 DEF OutputsInv
  <2>10. CASE written' = written
    <3>1. OutputsInv'
      BY <1>4, <2>7, <2>8, <2>9, <2>10 DEF OutputsInv
    <3> QED
      BY <2>6, <3>1
  <2>11. CASE written' = Append(written, Head(output_queue))
    <3> DEFINE o == Head(output_queue)
    <3>1. o \in Item /\ o = output_queue[1]
      BY <2>2
    <3>2. /\ Len(written) \in Nat
          /\ DOMAIN written = 1..Len(written) /\ DOMAIN written' = 1..(Len(written) + 1)
          /\ \A i \in 1..Len(written) : written'[i] = written[i]
          /\ written'[Len(written) + 1] = o
      BY <1>3, <2>11, <3>1, AppendElements
    <3> HIDE DEF o
    <3>3. \A i \in DOMAIN written' : i \in DOMAIN written \/ i = Len(written) + 1
      BY <3>2
    <3>4. o.clip <= Current'
      BY <1>4, <2>3, <3>1
    <3>5. \A i \in DOMAIN written' : written'[i].clip <= Current'
      BY <1>4, <3>2, <3>3, <3>4
    <3>6. ASSUME NEW i \in DOMAIN written', NEW j \in DOMAIN output_queue'
          PROVE  InOrder(written'[i], output_queue'[j])
      <4>1. CASE i \in DOMAIN written
        BY <2>9, <3>2, <4>1
      <4>2. CASE i = Len(written) + 1
        <5>1. written'[i] = output_queue[1] /\ output_queue'[j] = output_queue[j + 1]
          BY <2>2, <3>1, <3>2, <4>2
        <5>2. InOrder(output_queue[1], output_queue[j + 1])
          BY <2>3 DEF OutputsInv, Ordered
        <5> QED
          BY <5>1, <5>2
      <4> QED
        BY <3>3, <4>1, <4>2
    <3>7. ASSUME NEW i \in DOMAIN written', NEW j \in DOMAIN written', i < j
          PROVE  InOrder(written'[i], written'[j])
      <4>1. i \in DOMAIN written
        BY <3>2, <3>7
      <4>2. CASE j \in DOMAIN written
        <5>1. InOrder(written[i], written[j])
          BY <3>7, <4>1, <4>2 DEF OutputsInv, Ordered
        <5> QED
          BY <3>2, <4>1, <4>2, <5>1
      <4>3. CASE j = Len(written) + 1
        <5>1. InOrder(written[i], output_queue[1])
          BY <2>3, <4>1 DEF OutputsInv
        <5> QED
          BY <3>1, <3>2, <4>1, <4>3, <5>1
      <4> QED
        BY <3>3, <4>2, <4>3
    <3>8. OutputsInv'
      BY <2>7, <2>8, <3>5, <3>6, <3>7 DEF OutputsInv, Ordered
    <3> QED
      BY <2>6, <3>8
  <2> QED
    BY <2>1, <2>10, <2>11
<1>8. WriterCancelled \/ WriterCloses => writer' \in {"writing", "closing", "done"}
  BY DEF WriterCancelled, WriterCloses
<1>9. UNCHANGED writer => writer' \in {"writing", "closing", "done"}
  BY <1>1
<1> QED
  BY <1>5, <1>6, <1>7, <1>8, <1>9, OutputSteps

-----------------------------------------------------------------------------
(* Answers.                                                                *)

LEMMA PutsAnswers ==
  ASSUME OutputTypes, NEW n \in Clip, Puts(n)
  PROVE  Answered(n)'
<1>1. PICK o \in Output : o.clip = n /\ output_queue' = Append(output_queue, o)
  BY DEF Puts
<1>2. output_queue \in Seq(Output \cup {Sentinel})
  BY DEF OutputTypes
<1>3. /\ Len(output_queue) \in Nat
      /\ DOMAIN output_queue' = 1..(Len(output_queue) + 1)
      /\ output_queue'[Len(output_queue) + 1] = o
  BY <1>1, <1>2, AppendElements
<1>4. Len(output_queue) + 1 \in DOMAIN output_queue'
  BY <1>3
<1> QED
  BY <1>1, <1>3, <1>4 DEF Answered, AnsweredIn

\* An answer on its way is never lost.
LEMMA AnsweredKept ==
  ASSUME TypeOK, SpokenInv, TasksInv, SupersedeInv, AnswerInv, [Next]_vars,
         NEW n \in Clip, Answered(n)
  PROVE  Answered(n)'
<1>1. output_queue \in Seq(Output \cup {Sentinel}) /\ written \in Seq(Output)
  BY TypeParts DEF OutputTypes
<1>2. CASE UNCHANGED <<output_queue, written>>
  BY <1>2 DEF Answered, AnsweredIn
<1>3. CASE PutsOne
  <2>1. PICK o \in Output \cup {Sentinel} :
          output_queue' = Append(output_queue, o) /\ written' = written
    BY <1>3 DEF PutsOne
  <2>2. \A i \in DOMAIN output_queue :
          i \in DOMAIN output_queue' /\ output_queue'[i] = output_queue[i]
    <3>1. /\ Len(output_queue) \in Nat
          /\ DOMAIN output_queue = 1..Len(output_queue)
          /\ DOMAIN output_queue' = 1..(Len(output_queue) + 1)
          /\ \A i \in 1..Len(output_queue) : output_queue'[i] = output_queue[i]
      BY <1>1, <2>1, AppendElements
    <3> QED
      BY <3>1
  <2> QED
    BY <2>1, <2>2 DEF Answered, AnsweredIn
<1>4. CASE Write
  <2>1. /\ output_queue # <<>> /\ output_queue' = Tail(output_queue)
        /\ \/ Head(output_queue) = Sentinel /\ written' = written
           \/ Head(output_queue) # Sentinel /\ written' = Append(written, Head(output_queue))
    BY <1>4 DEF Write
  <2>2. /\ Head(output_queue) \in Output \cup {Sentinel} /\ Head(output_queue) = output_queue[1]
        /\ Len(output_queue) \in Nat \ {0}
        /\ DOMAIN output_queue = 1..Len(output_queue)
        /\ DOMAIN output_queue' = 1..(Len(output_queue) - 1)
        /\ \A i \in 1..(Len(output_queue) - 1) : output_queue'[i] = output_queue[i + 1]
    BY <1>1, <2>1, TailElements
  <2>3. \A i \in DOMAIN written : i \in DOMAIN written' /\ written'[i] = written[i]
    <3>1. CASE written' = written
      BY <3>1
    <3>2. CASE Head(output_queue) # Sentinel /\ written' = Append(written, Head(output_queue))
      <4>1. Head(output_queue) \in Output
        BY <2>2, <3>2
      <4>2. /\ Len(written) \in Nat
            /\ DOMAIN written = 1..Len(written) /\ DOMAIN written' = 1..(Len(written) + 1)
            /\ \A i \in 1..Len(written) : written'[i] = written[i]
        BY <1>1, <3>2, <4>1, AppendElements
      <4> QED
        BY <4>2
    <3> QED
      BY <2>1, <3>1, <3>2
  <2>4. CASE AnsweredIn(written, n)
    BY <2>3, <2>4 DEF Answered, AnsweredIn
  <2>5. CASE AnsweredIn(output_queue, n)
    <3>1. PICK i \in DOMAIN output_queue : output_queue[i].clip = n
      BY <2>5 DEF AnsweredIn
    <3>2. CASE i = 1
      <4>1. n # 0
        BY Constants DEF Clip
      <4>2. Head(output_queue) # Sentinel
        BY <2>2, <3>1, <3>2, <4>1 DEF Sentinel
      <4>3. Head(output_queue) \in Output /\ written' = Append(written, Head(output_queue))
        BY <2>1, <2>2, <4>2
      <4>4. /\ Len(written) \in Nat /\ DOMAIN written' = 1..(Len(written) + 1)
            /\ written'[Len(written) + 1] = Head(output_queue)
        BY <1>1, <4>3, AppendElements
      <4>5. Len(written) + 1 \in DOMAIN written' /\ written'[Len(written) + 1].clip = n
        BY <2>2, <3>1, <3>2, <4>4
      <4> QED
        BY <4>5 DEF Answered, AnsweredIn
    <3>3. CASE i # 1
      <4>1. i - 1 \in DOMAIN output_queue' /\ i - 1 \in 1..(Len(output_queue) - 1)
            /\ (i - 1) + 1 = i
        BY <2>2, <3>3
      <4>2. output_queue'[i - 1] = output_queue[i]
        BY <2>2, <4>1
      <4> QED
        BY <3>1, <4>1, <4>2 DEF Answered, AnsweredIn
    <3> QED
      BY <3>2, <3>3
  <2> QED
    BY <2>4, <2>5 DEF Answered
<1> QED
  BY <1>2, <1>3, <1>4, OutputSteps

LEMMA AnswerKept ==
  ASSUME TypeOK, SpokenInv, TasksInv, SupersedeInv, AnswerInv, [Next]_vars
  PROVE  AnswerInv'
<1>1. ReaderTypes /\ TaskTypes /\ OutputTypes
  BY TypeParts
<1>2. stage \in [Clip -> Active \cup {"none", "done", "cancelled"}] /\ audio_produced \subseteq Clip
  BY <1>1 DEF TaskTypes
<1>3. client' # "gone" => client # "gone"
  <2>1. ASSUME NEW s \in Session, Message(s)
        PROVE  client' = client
    BY <2>1, EndEffect DEF Message, ReadStart, ReadContinue, EndOf, ReadInterrupt, speech
  <2>2. ClientLeaves => client' = "gone" \/ client # "gone"
    BY DEF ClientLeaves
  <2> QED
    BY <2>1, <2>2, SpeechFrame
<1>4. CASE StartsClip
  <2>1. /\ Current' \in Clip /\ stage[Current'] = "none"
        /\ stage' = [stage EXCEPT ![Current'] = "stt"]
        /\ audio_produced' = audio_produced
    BY <1>1, <1>4, NewClip
  <2>2. stage'[Current'] = "stt" /\ \A m \in Clip : m # Current' => stage'[m] = stage[m]
    BY <1>2, <2>1
  <2>3. \A m \in audio_produced' : stage'[m] \notin {"none", "stt"}
    <3>1. Current' \notin audio_produced
      BY <2>1 DEF AnswerInv
    <3> QED
      BY <1>2, <2>1, <2>2, <3>1 DEF AnswerInv
  <2>4. ASSUME client' # "gone", NEW m \in Clip,
               stage'[m] = "done" \/ (stage'[m] = "waiting" /\ m \in audio_produced')
        PROVE  Answered(m)'
    <3>1. m # Current'
      BY <2>2, <2>4
    <3>2. Answered(m)
      BY <1>3, <2>1, <2>2, <2>4, <3>1 DEF AnswerInv
    <3> QED
      BY <3>2, AnsweredKept
  <2> QED
    BY <2>3, <2>4 DEF AnswerInv
<1>5. CASE UNCHANGED <<stage, audio_produced>>
  <2>1. ASSUME client' # "gone", NEW m \in Clip,
               stage'[m] = "done" \/ (stage'[m] = "waiting" /\ m \in audio_produced')
        PROVE  Answered(m)'
    <3>1. Answered(m)
      BY <1>3, <1>5, <2>1 DEF AnswerInv
    <3> QED
      BY <3>1, AnsweredKept
  <2> QED
    BY <1>5, <2>1 DEF AnswerInv
<1>6. ASSUME NEW n \in Clip, Works(n)
      PROVE  AnswerInv'
  <2>1. PICK s \in Onward : stage' = [stage EXCEPT ![n] = s]
    BY <1>6 DEF Works
  <2>2. /\ audio_produced' \in {audio_produced, audio_produced \cup {n}}
        /\ client # "gone" =>
             /\ stage'[n] = "done" => Puts(n) \/ (stage[n] = "waiting" /\ n \in audio_produced)
             /\ stage'[n] = "waiting" /\ n \in audio_produced' => Puts(n)
    BY <1>6 DEF Works
  <2>3. stage'[n] \notin {"none", "stt"} /\ \A m \in Clip : m # n => stage'[m] = stage[m]
    BY <1>2, <2>1 DEF Onward
  <2>4. \A m \in audio_produced' : stage'[m] \notin {"none", "stt"}
    BY <1>2, <2>2, <2>3 DEF AnswerInv
  <2>5. ASSUME client' # "gone", NEW m \in Clip,
               stage'[m] = "done" \/ (stage'[m] = "waiting" /\ m \in audio_produced')
        PROVE  Answered(m)'
    <3>1. CASE m = n
      <4>1. Puts(n) \/ Answered(n)
        BY <1>3, <2>2, <2>5, <3>1 DEF AnswerInv
      <4> QED
        BY <1>1, <3>1, <4>1, PutsAnswers, AnsweredKept
    <3>2. CASE m # n
      <4>1. Answered(m)
        BY <1>3, <2>2, <2>3, <2>5, <3>2 DEF AnswerInv
      <4> QED
        BY <4>1, AnsweredKept
    <3> QED
      BY <3>1, <3>2
  <2> QED
    BY <2>4, <2>5 DEF AnswerInv
<1>7. ASSUME NEW n \in Clip, TaskCancelled(n)
      PROVE  AnswerInv'
  <2>1. audio_produced' = audio_produced /\ stage' = [stage EXCEPT ![n] = "cancelled"]
    BY <1>7 DEF TaskCancelled
  <2>2. stage'[n] = "cancelled" /\ \A m \in Clip : m # n => stage'[m] = stage[m]
    BY <1>2, <2>1
  <2>3. \A m \in audio_produced' : stage'[m] \notin {"none", "stt"}
    BY <1>2, <2>1, <2>2 DEF AnswerInv
  <2>4. ASSUME client' # "gone", NEW m \in Clip,
               stage'[m] = "done" \/ (stage'[m] = "waiting" /\ m \in audio_produced')
        PROVE  Answered(m)'
    <3>1. m # n
      BY <2>2, <2>4
    <3>2. Answered(m)
      BY <1>3, <2>1, <2>2, <2>4, <3>1 DEF AnswerInv
    <3> QED
      BY <3>2, AnsweredKept
  <2> QED
    BY <2>3, <2>4 DEF AnswerInv
<1> QED
  BY <1>4, <1>5, <1>6, <1>7, TaskSteps

-----------------------------------------------------------------------------
(* The theorems for any number of sessions.                                *)

LEMMA InitHolds == Init => CallInv
<1> SUFFICES ASSUME Init PROVE CallInv
  OBVIOUS
<1>1. /\ client = "connected" /\ reader = "reading" /\ writer = "writing"
      /\ over = {} /\ audio_buffer = <<>> /\ clips = <<>> /\ output_queue = <<>> /\ written = <<>>
      /\ cancelling = {} /\ audio_produced = {}
      /\ stage = [n \in Clip |-> "none"] /\ offered = [n \in Clip |-> "final"]
      /\ orchestration = [n \in Clip |-> "none"]
      /\ packets = [n \in Clip |-> 0] /\ tts_queue = [n \in Clip |-> <<>>]
  BY DEF Init
<1>2. 0 \in 0..MaxPackets
  BY Constants
<1>3. SpeechTypes /\ SpokenInv
  <2>1. \E midway \in SUBSET {s \in Session : Lengths[s] # <<>>} :
          /\ utterance = [s \in Session |-> IF s \in midway THEN 1 ELSE 0]
          /\ length = [s \in Session |-> IF s \in midway THEN 1 ELSE 0]
    BY DEF Init
  <2> QED
    BY <1>1, <2>1 DEF SpeechTypes, SpokenInv
<1>4. /\ <<>> \in Seq(Piece) /\ <<>> \in Seq(Seq(Piece)) /\ <<>> \in Seq(Output)
      /\ <<>> \in Seq(Output \cup {Sentinel}) /\ <<>> \in Seq({"audio", "final", "error", Done})
      /\ Len(<<>>) = 0 /\ DOMAIN <<>> = {}
  OBVIOUS
<1>5. ReaderTypes /\ SupersedeInv
  BY <1>1, <1>4, Constants DEF ReaderTypes, SupersedeInv
<1>6. TaskTypes
  BY <1>1 DEF TaskTypes
<1>7. TasksInv
  BY <1>1 DEF TasksInv, Active
<1>8. OrchestrationTypes
  BY <1>1, <1>2, <1>4, Constants DEF OrchestrationTypes
<1>9. OutputTypes
  BY <1>1, <1>4, Constants DEF OutputTypes
<1>10. OutputsInv
  BY <1>1, <1>4 DEF OutputsInv, Ordered
<1>11. AnswerInv
  BY <1>1 DEF AnswerInv
<1> QED
  BY <1>3, <1>5, <1>6, <1>7, <1>8, <1>9, <1>10, <1>11, TypeParts DEF CallInv

LEMMA NextKeeps ==
  ASSUME CallInv, [Next]_vars
  PROVE  CallInv'
<1>1. TypeOK /\ SpokenInv /\ TasksInv /\ SupersedeInv /\ OutputsInv /\ AnswerInv
  BY DEF CallInv
<1>2. SpeechTypes /\ ReaderTypes /\ TaskTypes /\ OrchestrationTypes
  BY <1>1, TypeParts
<1>3. SpeechTypes' /\ SpokenInv'
  BY <1>1, <1>2, SpeechKept
<1>4. ReaderTypes' /\ SupersedeInv'
  BY <1>1, <1>2, ReaderKept
<1>5. TaskTypes' /\ TasksInv'
  BY <1>1, TasksKept
<1>6. OrchestrationTypes'
  BY <1>2, OrchestrationKept
<1>7. OutputTypes' /\ OutputsInv'
  BY <1>1, OutputsKept
<1>8. AnswerInv'
  BY <1>1, AnswerKept
<1>9. TypeOK'
  BY <1>3, <1>4, <1>5, <1>6, <1>7 DEF TypeOK, SpeechTypes, ReaderTypes, TaskTypes,
     OrchestrationTypes, OutputTypes
<1> QED
  BY <1>3, <1>4, <1>5, <1>7, <1>8, <1>9 DEF CallInv

\* The inductive invariant: one task at work, the last clip's; outputs in the
\* order of their clips; an answer on its way for every clip that is done.
THEOREM CallHolds == Spec => []CallInv
<1>1. CallInv /\ [Next]_vars => CallInv'
  BY NextKeeps
<1> QED
  BY InitHolds, <1>1, PTL DEF Spec

\* Every variable of the call keeps its type, and the queues their capacities.
THEOREM TypeCorrect == Spec => []TypeOK
<1>1. CallInv => TypeOK
  BY DEF CallInv
<1> QED
  BY CallHolds, <1>1, PTL

\* The client never gets a packet of an earlier response after one of a later
\* response (service.py:322-328).
THEOREM OutputsInOrder == Spec => []OutputsNeverGoBack
<1>1. CallInv => OutputsNeverGoBack
  BY DEF CallInv, OutputsInv, Ordered, InOrder, OutputsNeverGoBack
<1> QED
  BY CallHolds, <1>1, PTL

\* While the client is there, a clip whose processing has ended without being
\* cancelled has an output written or on its way (service.py:443-493, 680-713).
THEOREM ClipsAnswered == Spec => []EveryClipAnswered
<1>1. CallInv => EveryClipAnswered
  BY DEF CallInv, AnswerInv, Answered, AnsweredIn, EveryClipAnswered
<1> QED
  BY CallHolds, <1>1, PTL

\* Only a clip long enough, an interrupt or a lost client cancels processing
\* (service.py:308-320).
THEOREM NoiseHarmless == Spec => NoiseCancelsNothing
<1> DEFINE Step == cancelling' \ cancelling # {} =>
                     \/ Len(audio_buffer') >= MinPieces
                     \/ reader' = "interrupting"
                     \/ client = "gone"
<1>1. [Next]_vars => [Step]_vars
  <2> SUFFICES ASSUME [Next]_vars PROVE Step
    OBVIOUS
  <2>1. ASSUME NEW s \in Session, ReadEnd(s)
        PROVE  Step
    BY <2>1 DEF ReadEnd
  <2>2. ASSUME NEW s \in Session, ReadInterrupt(s)
        PROVE  Step
    BY <2>2 DEF ReadInterrupt
  <2>3. ASSUME NEW n \in Clip, Processing(n)
        PROVE  Step
    BY <2>3 DEF Processing, Transcribe, Pull, Put, TaskCancelled
  <2>4. Supersede \/ UNCHANGED cancelling => Step
    BY DEF Supersede
  <2>5. WriterCancelled => Step
    BY DEF WriterCancelled
  <2> QED
    BY <2>1, <2>2, <2>3, <2>4, <2>5, TaskFrame
<1> QED
  BY <1>1, PTL DEF Spec, NoiseCancelsNothing

-----------------------------------------------------------------------------
(* What goes to STT.                                                       *)

LEMMA PieceFields ==
  ASSUME NEW p \in Piece
  PROVE  /\ p.session \in Session /\ p.utterance \in Nat /\ p.number \in Nat
         /\ p.number > 0
         /\ p = Said(p.session, p.utterance, p.number)
  BY DEF Piece, Said

LEMMA SaidFields ==
  ASSUME NEW s, NEW u, NEW n
  PROVE  /\ Said(s, u, n).session = s /\ Said(s, u, n).utterance = u
         /\ Said(s, u, n).number = n
  BY DEF Said

LEMMA EmptyAudio ==
  ASSUME NEW u, NEW l
  PROVE  Gapless(<<>>) /\ StartFirst(<<>>) /\ UpTo(<<>>, u, l)
<1>1. DOMAIN <<>> = {}
  OBVIOUS
<1> QED
  BY <1>1 DEF Gapless, StartFirst, UpTo

\* The buffer after a START.
LEMMA OnePiece ==
  ASSUME NEW s \in Session, NEW u \in [Session -> Nat], NEW l \in [Session -> Nat],
         NEW p \in Piece, p = Said(s, u[s], 1), l[s] = 1
  PROVE  Gapless(<<p>>) /\ StartFirst(<<p>>) /\ UpTo(<<p>>, u, l)
<1>1. DOMAIN <<p>> = {1} /\ <<p>>[1] = p /\ Len(<<p>>) = 1
  OBVIOUS
<1>2. p.session = s /\ p.utterance = u[s] /\ p.number = 1
  BY SaidFields
<1>3. Said(p.session, p.utterance, 1) = p
  BY <1>2
<1>4. \A n \in 1..1 : n = 1
  OBVIOUS
<1>5. Gapless(<<p>>)
  BY <1>1 DEF Gapless
<1>6. StartFirst(<<p>>)
  BY <1>1 DEF StartFirst
<1>7. ASSUME NEW n \in 1..1
      PROVE  \E k \in 1..1 : <<p>>[k] = Said(p.session, p.utterance, n)
  BY <1>1, <1>3, <1>4
<1>8. UpTo(<<p>>, u, l)
  BY <1>1, <1>2, <1>7 DEF UpTo
<1> QED
  BY <1>5, <1>6, <1>8

\* A piece more of a session that goes on.
LEMMA RunGoesOn ==
  ASSUME NEW audio \in Seq(Piece), NEW s \in Session,
         NEW u \in [Session -> Nat], NEW l \in [Session -> Nat],
         NEW p \in Piece, p = Said(s, u[s], l[s] + 1), l[s] > 0,
         Gapless(audio), StartFirst(audio), UpTo(audio, u, l)
  PROVE  /\ Gapless(Append(audio, p)) /\ StartFirst(Append(audio, p))
         /\ UpTo(Append(audio, p), u, [l EXCEPT ![s] = @ + 1])
<1> DEFINE more == Append(audio, p)
           L == Len(audio)
           m == [l EXCEPT ![s] = @ + 1]
<1>1. /\ L \in Nat /\ Len(more) = L + 1
      /\ DOMAIN audio = 1..L /\ DOMAIN more = 1..(L + 1)
      /\ \A i \in 1..L : more[i] = audio[i]
      /\ more[L + 1] = p
  BY AppendElements
<1>2. \A i \in 1..L : audio[i] \in Piece
  BY <1>1, ElementTyped
<1>3. p.session = s /\ p.utterance = u[s] /\ p.number = l[s] + 1
  BY SaidFields
<1>4. l[s] \in Nat /\ m[s] = l[s] + 1 /\ \A t \in Session : t # s => m[t] = l[t]
  OBVIOUS
<1> HIDE DEF more, m
\* What follows piece i, up to the new piece when that is of its session.
<1>5. ASSUME NEW i \in 1..L, audio[i].session = s
      PROVE  /\ audio[i].utterance = u[s] /\ audio[i].number <= l[s]
             /\ audio[i].number \in Nat
             /\ \A n \in audio[i].number..(l[s] + 1) :
                  \E k \in i..(L + 1) : more[k] = Said(more[i].session, more[i].utterance, n)
  <2>1. /\ audio[i] \in Piece /\ audio[i].utterance = u[s] /\ audio[i].number <= l[s]
        /\ \A n \in audio[i].number..l[s] :
             \E k \in i..L : audio[k] = Said(audio[i].session, audio[i].utterance, n)
    BY <1>1, <1>2, <1>5 DEF UpTo
  <2>2. audio[i].number \in Nat
    BY <2>1, PieceFields
  <2>3. p = Said(more[i].session, more[i].utterance, l[s] + 1)
    BY <1>1, <1>5, <2>1, PieceFields
  <2>4. ASSUME NEW n \in audio[i].number..(l[s] + 1)
        PROVE  \E k \in i..(L + 1) : more[k] = Said(more[i].session, more[i].utterance, n)
    <3>1. CASE n = l[s] + 1
      <4>1. L + 1 \in i..(L + 1)
        BY <1>1
      <4> QED
        BY <1>1, <2>3, <3>1, <4>1
    <3>2. CASE n # l[s] + 1
      <4>1. n \in audio[i].number..l[s]
        BY <1>4, <2>2, <3>2
      <4>2. PICK k \in i..L : audio[k] = Said(audio[i].session, audio[i].utterance, n)
        BY <2>1, <4>1
      <4>3. k \in i..(L + 1) /\ k \in 1..L
        BY <1>1
      <4> QED
        BY <1>1, <4>2, <4>3
    <3> QED
      BY <3>1, <3>2
  <2> QED
    BY <2>1, <2>2, <2>4
<1>6. Gapless(more)
  <2> SUFFICES ASSUME NEW i \in DOMAIN more, NEW j \in DOMAIN more, i < j,
                      more[i].session = more[j].session
               PROVE  Joined(more, i, j)
    BY DEF Gapless
  <2>1. i \in 1..L /\ (j \in 1..L \/ j = L + 1)
    BY <1>1
  <2>2. CASE j \in 1..L
    <3>1. Joined(audio, i, j)
      BY <1>1, <2>1, <2>2 DEF Gapless
    <3>2. ASSUME NEW n \in more[i].number..more[j].number
          PROVE  \E k \in i..j : more[k] = Said(more[i].session, more[i].utterance, n)
      <4>1. PICK k \in i..j : audio[k] = Said(audio[i].session, audio[i].utterance, n)
        BY <1>1, <2>1, <2>2, <3>1 DEF Joined
      <4>2. k \in 1..L
        BY <1>1, <2>1, <2>2
      <4> QED
        BY <1>1, <2>1, <4>1, <4>2
    <3>3. /\ more[i].utterance = more[j].utterance
          /\ more[i].number < more[j].number
      BY <1>1, <2>1, <2>2, <3>1 DEF Joined
    <3> QED
      BY <3>2, <3>3 DEF Joined
  <2>3. CASE j = L + 1
    <3>1. audio[i].session = s /\ more[i] = audio[i] /\ more[j] = p
      BY <1>1, <1>3, <2>1, <2>3
    <3>2. /\ audio[i].utterance = u[s] /\ audio[i].number <= l[s]
          /\ audio[i].number \in Nat
          /\ \A n \in audio[i].number..(l[s] + 1) :
               \E k \in i..(L + 1) : more[k] = Said(more[i].session, more[i].utterance, n)
      BY <1>5, <2>1, <3>1
    <3>3. audio[i].number < l[s] + 1
      BY <1>4, <3>2
    <3> QED
      BY <1>3, <2>3, <3>1, <3>2, <3>3 DEF Joined
  <2> QED
    BY <2>1, <2>2, <2>3
<1>7. StartFirst(more)
  <2> SUFFICES ASSUME NEW i \in 1..(L + 1), more[i].number = 1 PROVE i = 1
    BY <1>1 DEF StartFirst
  <2>1. CASE i \in 1..L
    BY <1>1, <2>1 DEF StartFirst
  <2>2. CASE i = L + 1
    BY <1>1, <1>3, <1>4, <2>2
  <2> QED
    BY <1>1, <2>1, <2>2
<1>8. UpTo(more, u, m)
  <2> SUFFICES ASSUME NEW i \in 1..(L + 1)
               PROVE  /\ more[i].utterance = u[more[i].session]
                      /\ more[i].number <= m[more[i].session]
                      /\ \A n \in more[i].number..m[more[i].session] :
                           \E k \in i..(L + 1) : more[k] = Said(more[i].session, more[i].utterance, n)
    BY <1>1 DEF UpTo
  <2>1. CASE i \in 1..L /\ audio[i].session = s
    <3>1. /\ audio[i].utterance = u[s] /\ audio[i].number <= l[s]
          /\ audio[i].number \in Nat
          /\ \A n \in audio[i].number..(l[s] + 1) :
               \E k \in i..(L + 1) : more[k] = Said(more[i].session, more[i].utterance, n)
      BY <1>5, <2>1
    <3>2. audio[i].number <= l[s] + 1
      BY <1>4, <3>1
    <3> QED
      BY <1>1, <1>4, <2>1, <3>1, <3>2
  <2>2. CASE i \in 1..L /\ audio[i].session # s
    <3>1. audio[i].session \in Session /\ more[i] = audio[i]
      BY <1>1, <1>2, <2>2, PieceFields
    <3>2. m[audio[i].session] = l[audio[i].session]
      BY <1>4, <2>2, <3>1
    <3>3. /\ audio[i].utterance = u[audio[i].session]
          /\ audio[i].number <= l[audio[i].session]
          /\ \A n \in audio[i].number..l[audio[i].session] :
               \E k \in i..L : audio[k] = Said(audio[i].session, audio[i].utterance, n)
      BY <1>1, <2>2 DEF UpTo
    <3>4. ASSUME NEW n \in more[i].number..m[more[i].session]
          PROVE  \E k \in i..(L + 1) : more[k] = Said(more[i].session, more[i].utterance, n)
      <4>1. PICK k \in i..L : audio[k] = Said(audio[i].session, audio[i].utterance, n)
        BY <3>1, <3>2, <3>3
      <4>2. k \in 1..L /\ k \in i..(L + 1)
        BY <1>1, <2>2
      <4> QED
        BY <1>1, <3>1, <4>1, <4>2
    <3> QED
      BY <3>1, <3>2, <3>3, <3>4
  <2>3. CASE i = L + 1
    <3>1. more[i] = p /\ Said(p.session, p.utterance, l[s] + 1) = p
      BY <1>1, <1>3, <2>3, PieceFields
    <3>2. \A n \in (l[s] + 1)..(l[s] + 1) : n = l[s] + 1
      BY <1>4
    <3>3. l[s] + 1 <= m[s] /\ L + 1 \in i..(L + 1)
      BY <1>1, <1>4, <2>3
    <3>4. ASSUME NEW n \in (l[s] + 1)..(l[s] + 1)
          PROVE  \E k \in i..(L + 1) : more[k] = Said(more[i].session, more[i].utterance, n)
      BY <1>1, <3>1, <3>2, <3>3
    <3> QED
      BY <1>3, <1>4, <3>1, <3>3, <3>4
  <2> QED
    BY <1>1, <2>1, <2>2, <2>3
<1> QED
  BY <1>6, <1>7, <1>8 DEF more, m

ClipsSound == \A n \in DOMAIN clips : Gapless(clips[n]) /\ StartFirst(clips[n])

LEMMA RunParts ==
  RunInv' <=>
    /\ Gapless(audio_buffer') /\ StartFirst(audio_buffer')
    /\ reader' \in {"reading", "reporting"} => UpTo(audio_buffer', utterance', length')
    /\ ClipsSound'
  BY DEF RunInv, ClipsSound, Gapless, Joined, StartFirst, UpTo

\* A clip that is started out of sound audio.
LEMMA SoundClip ==
  ASSUME ReaderTypes, ClipsSound, NEW audio \in Seq(Piece),
         Gapless(audio), StartFirst(audio), StartClip(audio)
  PROVE  RunInv'
<1>1. /\ clips' = Append(clips, audio) /\ audio_buffer' = <<>> /\ reader' = "reading"
      /\ clips \in Seq(Seq(Piece))
  BY DEF StartClip, ReaderTypes
<1>2. /\ Len(clips) \in Nat
      /\ DOMAIN clips = 1..Len(clips) /\ DOMAIN clips' = 1..(Len(clips) + 1)
      /\ \A n \in 1..Len(clips) : clips'[n] = clips[n]
      /\ clips'[Len(clips) + 1] = audio
  BY <1>1, AppendElements
<1>3. ASSUME NEW n \in DOMAIN clips'
      PROVE  Gapless(clips'[n]) /\ StartFirst(clips'[n])
  <2>1. n \in 1..Len(clips) \/ n = Len(clips) + 1
    BY <1>2
  <2> QED
    BY <1>2, <2>1 DEF ClipsSound
<1>4. ClipsSound'
  BY <1>3 DEF ClipsSound, Gapless, Joined, StartFirst
<1> QED
  BY <1>1, <1>4, EmptyAudio, RunParts

LEMMA RunKept ==
  ASSUME CallInv, RunInv, [Next]_vars
  PROVE  RunInv'
<1>1. TypeOK /\ SpokenInv /\ SpeechTypes /\ ReaderTypes
  BY TypeParts DEF CallInv
<1>2. /\ length \in [Session -> Nat] /\ utterance \in [Session -> Nat]
      /\ audio_buffer \in Seq(Piece)
  BY <1>1 DEF SpeechTypes, ReaderTypes
<1>3. /\ Gapless(audio_buffer) /\ StartFirst(audio_buffer) /\ ClipsSound
      /\ reader \in {"reading", "reporting"} => UpTo(audio_buffer, utterance, length)
  BY DEF RunInv, ClipsSound
<1>4. clips' = clips => ClipsSound'
  BY <1>3 DEF ClipsSound, Gapless, Joined, StartFirst
<1>5. ASSUME NEW s \in Session, ReadStart(s)
      PROVE  RunInv'
  <2>1. /\ clips' = clips
        /\ utterance' = [utterance EXCEPT ![s] = @ + 1]
        /\ length' = [length EXCEPT ![s] = 1]
        /\ audio_buffer' = <<Said(s, utterance[s] + 1, 1)>>
    BY <1>5 DEF ReadStart
  <2>2. /\ utterance' \in [Session -> Nat] /\ utterance'[s] = utterance[s] + 1
        /\ length' \in [Session -> Nat] /\ length'[s] = 1
    BY <1>2, <2>1
  <2>3. Said(s, utterance[s] + 1, 1) \in Piece
    BY <1>1, PieceTyped
  <2> HIDE DEF Said
  <2>4. /\ Gapless(audio_buffer') /\ StartFirst(audio_buffer')
        /\ UpTo(audio_buffer', utterance', length')
    BY <2>1, <2>2, <2>3, OnePiece
  <2> QED
    BY <1>4, <2>1, <2>4, RunParts
<1>6. ASSUME NEW s \in Session, length[s] > 0, reader = "reading"
      PROVE  /\ Append(audio_buffer, NextPiece(s)) \in Seq(Piece)
             /\ Gapless(Append(audio_buffer, NextPiece(s)))
             /\ StartFirst(Append(audio_buffer, NextPiece(s)))
             /\ UpTo(Append(audio_buffer, NextPiece(s)), utterance,
                     [length EXCEPT ![s] = @ + 1])
  <2>1. NextPiece(s) \in Piece
    BY <1>1, <1>6, PieceTyped
  <2>2. NextPiece(s) = Said(s, utterance[s], length[s] + 1)
    BY DEF NextPiece
  <2>3. UpTo(audio_buffer, utterance, length)
    BY <1>3, <1>6
  <2>4. Append(audio_buffer, NextPiece(s)) \in Seq(Piece)
    BY <1>2, <2>1
  <2> QED
    BY <1>2, <1>3, <1>6, <2>1, <2>2, <2>3, <2>4, RunGoesOn
<1>7. ASSUME NEW s \in Session, ReadContinue(s)
      PROVE  RunInv'
  <2>1. /\ reader = "reading" /\ clips' = clips /\ utterance' = utterance /\ length[s] > 0
        /\ length' = [length EXCEPT ![s] = @ + 1]
        /\ audio_buffer' \in {<<>>, Append(audio_buffer, NextPiece(s))}
    BY <1>7 DEF ReadContinue, Receives
  <2>2. /\ Gapless(audio_buffer') /\ StartFirst(audio_buffer')
        /\ UpTo(audio_buffer', utterance', length')
    <3>1. CASE audio_buffer' = <<>>
      BY <3>1, EmptyAudio
    <3>2. CASE audio_buffer' = Append(audio_buffer, NextPiece(s))
      BY <1>6, <2>1, <3>2
    <3> QED
      BY <2>1, <3>1, <3>2
  <2> QED
    BY <1>4, <2>1, <2>2, RunParts
<1>8. ASSUME NEW s \in Session, ReadEnd(s)
      PROVE  RunInv'
  <2>1. PICK audio \in AudioAtEnd(s) :
          /\ EndOf(s, audio)
          /\ \/ audio_buffer' = <<>> /\ clips' = clips
             \/ StartClip(audio)
             \/ audio_buffer' = audio /\ reader' = "superseding" /\ clips' = clips
    BY <1>8, EndEffect
  <2>2. reader = "reading"
    BY <2>1 DEF EndOf, Receives
  <2>3. audio \in Seq(Piece) /\ Gapless(audio) /\ StartFirst(audio)
    <3>1. CASE audio = audio_buffer
      BY <1>2, <1>3, <3>1
    <3>2. CASE length[s] > 0 /\ audio = Append(audio_buffer, NextPiece(s))
      BY <1>6, <2>2, <3>2
    <3> QED
      BY <3>1, <3>2 DEF AudioAtEnd
  <2>4. CASE audio_buffer' = <<>> /\ clips' = clips
    BY <1>4, <2>4, EmptyAudio, RunParts
  <2>5. CASE StartClip(audio)
    BY <1>1, <1>3, <2>3, <2>5, SoundClip
  <2>6. CASE audio_buffer' = audio /\ reader' = "superseding" /\ clips' = clips
    BY <1>4, <2>3, <2>6, RunParts
  <2> QED
    BY <2>1, <2>4, <2>5, <2>6
<1>9. ASSUME UNCHANGED <<utterance, length, clips>>,
             \/ audio_buffer' = <<>>
             \/ /\ audio_buffer' = audio_buffer
                /\ \/ reader' = reader
                   \/ reader \in {"reading", "reporting"}
                   \/ reader' \notin {"reading", "reporting"}
      PROVE  RunInv'
  <2>1. Gapless(audio_buffer') /\ StartFirst(audio_buffer')
    BY <1>3, <1>9, EmptyAudio
  <2>2. reader' \in {"reading", "reporting"} => UpTo(audio_buffer', utterance', length')
    BY <1>3, <1>9, EmptyAudio
  <2> QED
    BY <1>4, <1>9, <2>1, <2>2, RunParts
<1>10. ASSUME NEW s \in Session, ReadInterrupt(s)
       PROVE  RunInv'
  BY <1>9, <1>10 DEF ReadInterrupt, Receives, speech
<1>11. CASE Supersede
  BY <1>1, <1>2, <1>3, <1>11, SoundClip DEF Supersede
<1>12. CASE ReportOverflow \/ Interrupted \/ ReadEof \/ Finished \/ PutSentinel \/ WriterCancelled
  <2>1. UNCHANGED <<utterance, length, clips>>
    BY <1>12 DEF ReportOverflow, Interrupted, ReadEof, Finished, PutSentinel,
                 WriterCancelled, speech
  <2>2. \/ audio_buffer' = <<>>
        \/ /\ audio_buffer' = audio_buffer
           /\ \/ reader' = reader
              \/ reader \in {"reading", "reporting"}
              \/ reader' \notin {"reading", "reporting"}
    BY <1>12 DEF ReportOverflow, Interrupted, ReadEof, Finished, PutSentinel,
                 WriterCancelled, Leave
  <2> QED
    BY <1>9, <2>1, <2>2
<1>13. CASE UNCHANGED <<reader, audio_buffer, clips>> /\ ~\E s \in Session : Message(s)
  <2>1. UNCHANGED <<utterance, length>>
    BY <1>13, SpeechFrame DEF ClientLeaves
  <2> QED
    BY <1>9, <1>13, <2>1
<1>14. CASE \E s \in Session : Message(s)
  BY <1>5, <1>7, <1>8, <1>10, <1>14 DEF Message
<1> QED
  BY <1>11, <1>12, <1>13, <1>14, ReaderFrame DEF Reader

\* Whatever the sessions of the hub send and in whatever order, and wherever in
\* their utterances the stream opened: what is handed to STT has of each session
\* one run of one utterance without a gap, and nothing from before a START
\* (service.py:243-343).
THEOREM ClipsWithoutGaps == Spec => []ClipsGapless
<1>1. Init => RunInv
  <2> SUFFICES ASSUME Init PROVE RunInv
    OBVIOUS
  <2>1. audio_buffer = <<>> /\ clips = <<>>
    BY DEF Init
  <2>2. DOMAIN clips = {}
    BY <2>1
  <2> QED
    BY <2>1, <2>2, EmptyAudio DEF RunInv
<1>2. RunInv /\ CallInv /\ [Next]_vars => RunInv'
  BY RunKept
<1>3. RunInv => ClipsGapless
  BY DEF RunInv, StartFirst, ClipsGapless
<1> QED
  BY CallHolds, <1>1, <1>2, <1>3, PTL DEF Spec

=============================================================================
