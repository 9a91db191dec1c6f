---------------------------- MODULE ResponseDelivery ----------------------------
(***************************************************************************)
(* How the answer to one utterance becomes packets: the sentences of the   *)
(* LLM's stream with their lookahead (agents/response_generator.py), the   *)
(* delivery callback with the Opus encoder and its lookahead               *)
(* (_grpc_audio_delivery in rpc/service.py), the orchestration task around *)
(* both, and the handler that sends what is in tts_queue.                  *)
(*                                                                         *)
(* Audio is a number of frames; frames are numbered as the encoder gets    *)
(* them, and a packet is the number of its frame.  The encoder may keep    *)
(* one frame back and yields one more packet when it is flushed, the       *)
(* padding of its look-ahead.  Pacing is left out.                         *)
(***************************************************************************)
EXTENDS Integers, Sequences

CONSTANTS
  Capacity,      \* of tts_queue (32)
  MaxSentences,  \* bound: sentences of the stream
  MaxFrames      \* bound: frames of a sentence

ASSUME DeliveryAssumption ==
  Capacity \in Nat \ {0} /\ MaxSentences \in Nat \ {0} /\ MaxFrames \in Nat \ {0}

VARIABLES
  generator,         \* the orchestration task
  taken,             \* sentences taken from the stream
  pending_sentence,  \* 0 for None
  is_final,          \* of the delivery under way
  left,              \* its frames that are not encoded yet
  encoder,           \* delivery_state["encoder"]: None, or the frames it holds
  encoded,           \* frames it was given
  emitted,           \* packets it has just yielded
  pending,           \* the packet lookahead, 0 for None
  cumulative_seq,
  silence_prepended,
  raised,            \* history: deliveries that raised, "last" if the final one
  tts_queue,
  handler,           \* _process_utterance from its queue loop on
  sent,              \* audio packets it has yielded
  closing            \* and what it has yielded besides

delivery == <<left, encoder, encoded, emitted, pending, cumulative_seq,
              silence_prepended>>
sentences == <<taken, pending_sentence>>
output == <<handler, sent, closing>>
vars == <<generator, sentences, is_final, delivery, raised, tts_queue, output>>

None == <<>>
Holding(held) == <<held>>
Held == encoder[1]
Done == [kind |-> "done"]
Error == [kind |-> "error"]

AudioPacket == [kind : {"audio"}, frame : Nat, sequence_num : Nat,
                final_stt : BOOLEAN, is_final : BOOLEAN]

MaxPackets == (MaxSentences + 1) * MaxFrames + 1

TypeOK ==
  /\ generator \in {"pulling", "fallback", "synthesizing", "encoding", "committing",
                    "failed", "ending", "over"}
  /\ taken \in 0..MaxSentences /\ pending_sentence \in 0..MaxSentences
  /\ is_final \in BOOLEAN
  /\ left \in 0..MaxFrames
  /\ encoder \in {None} \cup {Holding(held) : held \in {<<>>} \cup {<<f>> : f \in 1..MaxPackets}}
  /\ encoded \in 0..MaxPackets
  /\ emitted \in Seq(Nat) /\ Len(emitted) <= 2
  /\ pending \in 0..MaxPackets
  /\ cumulative_seq \in 0..MaxPackets
  /\ silence_prepended \in BOOLEAN
  /\ raised \in {"no", "some", "last"}
  /\ tts_queue \in Seq(AudioPacket \cup {Done, Error}) /\ Len(tts_queue) <= Capacity
  /\ handler \in {"reading", "done", "gone"}
  /\ sent \in Seq(AudioPacket)
  /\ closing \subseteq {"error", "text"}

Init ==
  /\ generator = "pulling"
  /\ taken = 0 /\ pending_sentence = 0
  /\ is_final = FALSE
  /\ left = 0
  /\ encoder = None
  /\ encoded = 0
  /\ emitted = <<>>
  /\ pending = 0
  /\ cumulative_seq = 0
  /\ silence_prepended = FALSE
  /\ raised = "no"
  /\ tts_queue = <<>>
  /\ handler = "reading"
  /\ sent = <<>>
  /\ closing = {}

-----------------------------------------------------------------------------
(* The generator: _stream_response_to_audio and the fallback around it.    *)

\* _deliver(sentence, final) begins.
Deliver(final) ==
  /\ generator' = "synthesizing"
  /\ is_final' = final

\* The stream's next sentence; the one before it is delivered, not as the last.
NextSentence ==
  /\ generator = "pulling"
  /\ taken < MaxSentences
  /\ taken' = taken + 1
  /\ pending_sentence' = taken + 1
  /\ IF pending_sentence # 0 THEN Deliver(FALSE) ELSE UNCHANGED <<generator, is_final>>
  /\ UNCHANGED <<delivery, raised, tts_queue, output>>

\* Mutant: the stream ends with the sentence in the lookahead.
StreamEndsForgetting ==
  /\ generator = "pulling"
  /\ pending_sentence' = 0
  /\ generator' = IF taken = 0 THEN "fallback" ELSE "committing"
  /\ UNCHANGED <<taken, is_final, delivery, raised, tts_queue, output>>

\* The stream ends or raises: what is pending is the last sentence.  A stream
\* without text is no response.
StreamEnds ==
  /\ generator = "pulling"
  /\ pending_sentence' = 0
  /\ IF pending_sentence # 0 THEN Deliver(TRUE)
     ELSE generator' = "fallback" /\ UNCHANGED is_final
  /\ UNCHANGED <<taken, delivery, raised, tts_queue, output>>

\* One answer as a whole, delivered as one.
Fallback ==
  /\ generator = "fallback"
  /\ Deliver(TRUE)
  /\ UNCHANGED <<sentences, delivery, raised, tts_queue, output>>

\* The callback has nothing left to encode or to flush.
CallbackReady ==
  /\ generator = "encoding"
  /\ emitted = <<>>
  /\ left = 0
  /\ ~(is_final /\ encoder # None)

\* Where the generator goes after a delivery, of the fallback's too.
AfterDelivery == IF is_final THEN "committing" ELSE "pulling"

\* Resampling, opening the encoder, encoding or flushing raises: the exception is
\* logged, and what the delivery had not sent is lost.
DeliveryRaises ==
  /\ \/ /\ generator = "synthesizing"
        /\ silence_prepended' \in {silence_prepended, TRUE}
     \/ /\ generator = "encoding"
        /\ emitted = <<>>
        /\ ~CallbackReady
        /\ UNCHANGED silence_prepended
  /\ generator' = AfterDelivery
  /\ raised' = IF is_final THEN "last" ELSE "some"
  /\ left' = 0
  /\ pending' = 0
  /\ UNCHANGED <<sentences, is_final, encoder, encoded, emitted, cumulative_seq,
                 tts_queue, output>>

-----------------------------------------------------------------------------
(* The delivery callback.                                                  *)

\* Mutant: every sentence gets an encoder of its own.
EncoderForNew(audio) == IF audio THEN Holding(<<>>) ELSE encoder

\* The encoder is opened at the first audio and kept from sentence to sentence.
EncoderFor(audio) == IF audio /\ encoder = None THEN Holding(<<>>) ELSE encoder

\* TTS returns audio of n frames, or none when it fails (it does not raise).  The
\* first audio begins with silence, so it has a frame.
Synthesized ==
  /\ generator = "synthesizing"
  /\ \E n \in 0..MaxFrames, audio \in BOOLEAN :
       /\ n > 0 => audio
       /\ audio /\ ~silence_prepended => n > 0
       /\ left' = n
       /\ encoder' = EncoderFor(audio)
       /\ silence_prepended' = (silence_prepended \/ audio)
  /\ generator' = "encoding"
  /\ UNCHANGED <<sentences, is_final, encoded, emitted, pending, cumulative_seq,
                 raised, tts_queue, output>>

\* opus_enc.encode(frame).
Encode ==
  /\ generator = "encoding"
  /\ emitted = <<>>
  /\ left > 0
  /\ left' = left - 1
  /\ encoded' = encoded + 1
  /\ LET held == Append(Held, encoded + 1)
     IN  \E k \in {Len(held) - 1, Len(held)} :
           /\ emitted' = SubSeq(held, 1, k)
           /\ encoder' = Holding(SubSeq(held, k + 1, Len(held)))
  /\ UNCHANGED <<generator, sentences, is_final, pending, cumulative_seq,
                 silence_prepended, raised, tts_queue, output>>

\* encode(None), on the final call only.
Flush ==
  /\ generator = "encoding"
  /\ emitted = <<>>
  /\ left = 0
  /\ is_final /\ encoder # None
  /\ encoded' = encoded + 1
  /\ emitted' = Append(Held, encoded + 1)
  /\ encoder' = None
  /\ UNCHANGED <<generator, sentences, is_final, left, pending, cumulative_seq,
                 silence_prepended, raised, tts_queue, output>>

\* await tts_queue.put(item).
Put(item) ==
  /\ Len(tts_queue) < Capacity
  /\ tts_queue' = Append(tts_queue, item)

\* _send_packet.
SendPacket(final) ==
  /\ Put([kind |-> "audio", frame |-> pending, sequence_num |-> cumulative_seq,
          final_stt |-> cumulative_seq = 0, is_final |-> final])
  /\ cumulative_seq' = cumulative_seq + 1

\* A packet of the encoder becomes the pending one, and the one before it can go.
NextPacket ==
  /\ generator = "encoding"
  /\ emitted # <<>>
  /\ IF pending # 0 THEN SendPacket(FALSE) ELSE UNCHANGED <<tts_queue, cumulative_seq>>
  /\ pending' = Head(emitted)
  /\ emitted' = Tail(emitted)
  /\ UNCHANGED <<generator, sentences, is_final, left, encoder, encoded,
                 silence_prepended, raised, output>>

\* Mutant: the last packet of every call is final.
ReturnFinal ==
  /\ CallbackReady
  /\ IF pending # 0 THEN SendPacket(TRUE) ELSE UNCHANGED <<tts_queue, cumulative_seq>>
  /\ pending' = 0
  /\ generator' = AfterDelivery
  /\ UNCHANGED <<sentences, is_final, left, encoder, encoded, emitted,
                 silence_prepended, raised, output>>

\* The last packet of this call, and the callback returns.
Return ==
  /\ CallbackReady
  /\ IF pending # 0 THEN SendPacket(is_final) ELSE UNCHANGED <<tts_queue, cumulative_seq>>
  /\ pending' = 0
  /\ generator' = AfterDelivery
  /\ UNCHANGED <<sentences, is_final, left, encoder, encoded, emitted,
                 silence_prepended, raised, output>>

-----------------------------------------------------------------------------
(* _run_orchestration after the generator: memory, its error, _DONE.       *)

\* process_task commits the exchange, or the database refuses.
Commit ==
  /\ generator = "committing"
  /\ generator' \in {"ending", "failed"}
  /\ UNCHANGED <<sentences, is_final, delivery, raised, tts_queue, output>>

\* Mutant: the except clause puts the error in place of _DONE.
ReportFailureOnly ==
  /\ generator = "failed"
  /\ Put(Error)
  /\ generator' = "over"
  /\ UNCHANGED <<sentences, is_final, delivery, raised, output>>

ReportFailure ==
  /\ generator = "failed"
  /\ Put(Error)
  /\ generator' = "ending"
  /\ UNCHANGED <<sentences, is_final, delivery, raised, output>>

PutDone ==
  /\ generator = "ending"
  /\ Put(Done)
  /\ generator' = "over"
  /\ UNCHANGED <<sentences, is_final, delivery, raised, output>>

-----------------------------------------------------------------------------
(* The handler.                                                            *)

\* The next item is yielded; nothing but errors and audio counts as produced.
Yield ==
  /\ handler = "reading"
  /\ tts_queue # <<>> /\ Head(tts_queue) # Done
  /\ tts_queue' = Tail(tts_queue)
  /\ IF Head(tts_queue) = Error
     THEN closing' = closing \cup {"error"} /\ UNCHANGED sent
     ELSE sent' = Append(sent, Head(tts_queue)) /\ UNCHANGED closing
  /\ UNCHANGED <<generator, sentences, is_final, delivery, raised, handler>>

\* _DONE: a response without audio is closed with a text-only final.
Conclude ==
  /\ handler = "reading"
  /\ tts_queue # <<>> /\ Head(tts_queue) = Done
  /\ tts_queue' = Tail(tts_queue)
  /\ handler' = "done"
  /\ closing' = IF sent = <<>> /\ closing = {} THEN {"text"} ELSE closing
  /\ UNCHANGED <<generator, sentences, is_final, delivery, raised, sent>>

\* The client is gone, or the device speaks again.  The orchestration is
\* cancelled, which leaves it its finally, or goes on when the handler was
\* dropped at its yield.
Abandon ==
  /\ handler = "reading"
  /\ handler' = "gone"
  /\ generator' \in {generator, IF generator \in {"ending", "over"} THEN "over" ELSE "ending"}
  /\ UNCHANGED <<sentences, is_final, delivery, raised, tts_queue, sent, closing>>

-----------------------------------------------------------------------------
Orchestration ==
  \/ NextSentence \/ StreamEnds \/ Fallback \/ DeliveryRaises
  \/ Synthesized \/ Encode \/ Flush \/ NextPacket \/ Return
  \/ Commit \/ ReportFailure \/ PutDone

Handler == Yield \/ Conclude

Next == Orchestration \/ Handler \/ Abandon

Spec == Init /\ [][Next]_vars

\* The event loop runs what is ready; the stream and TTS come to an end.
FairSpec == Spec /\ WF_vars(Orchestration) /\ WF_vars(Handler)

-----------------------------------------------------------------------------
(* Properties.                                                             *)

\* What the device gets is a Response: consecutive numbers, the transcript once,
\* and nothing after the packet that carries is_final, although neither the
\* sentence nor the packet that will be the last is known beforehand
\* (service.py:593-602, 658-663; response_generator.py:221-224).
Abstract == INSTANCE Response WITH
  packets <- [i \in DOMAIN sent |-> [sequence_num |-> sent[i].sequence_num,
                                    final_stt |-> sent[i].final_stt,
                                    is_final |-> sent[i].is_final]]
IsResponse == Abstract!Spec

\* The handler, which waits for _DONE, comes to its end whatever raised: the
\* orchestration's finally puts it in every case (service.py:673-713).
ResponseEnds == <>(handler # "reading")

\* The packets are the encoder's in order, and unless a delivery raised none is
\* missing at the end: neither lookahead nor the flush loses one, across
\* sentences, empty ones included (service.py:628-663).
AudioComplete ==
  /\ \A i, j \in DOMAIN sent : i < j => sent[i].frame < sent[j].frame
  /\ handler = "done" /\ raised = "no" => Len(sent) = encoded

\* A response that was not abandoned closes with a final: the last audio packet,
\* the text-only one or an error; unless delivering the last sentence raised
\* (service.py:662-663, 706-713).
ClosesWithFinal ==
  handler = "done" /\ raised # "last" =>
    closing # {} \/ sent[Len(sent)].is_final

================================================================================
