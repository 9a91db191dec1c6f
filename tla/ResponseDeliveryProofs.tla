------------------------- MODULE ResponseDeliveryProofs -------------------------
(***************************************************************************)
(* What holds of the delivery of a response for every number of sentences, *)
(* frames and places in tts_queue.                                         *)
(*                                                                         *)
(* The argument follows the packets by their place.  tts_queue holds the   *)
(* packets that were put and not sent, cumulative_seq - Len(sent) of them, *)
(* and behind them an error and _DONE.  What the encoder has let go ends   *)
(* at frame Passed; the packet lookahead, when it holds one, holds that.   *)
(***************************************************************************)
EXTENDS ResponseDelivery, SequenceTheorems, TLAPS

\* Frames the encoder keeps back, packets in front of the lookahead.
HeldBack == IF encoder = None THEN 0 ELSE Len(Held)
Passed   == encoded - HeldBack - Len(emitted)
Released == IF pending = 0 THEN Passed ELSE Passed - 1

\* Audio packets in tts_queue.
InQueue == cumulative_seq - Len(sent)

\* Nothing is delivered any more.
Delivered == generator \in {"committing", "failed", "ending", "over"}

\* Frames of n deliveries.
Budget(n) == n * MaxFrames

ControlTypes ==
  /\ generator \in {"pulling", "fallback", "synthesizing", "encoding", "committing",
                    "failed", "ending", "over"}
  /\ taken \in 0..MaxSentences /\ pending_sentence \in 0..MaxSentences
  /\ is_final \in BOOLEAN
  /\ raised \in {"no", "some", "last"}
  /\ handler \in {"reading", "done", "gone"}
  /\ closing \subseteq {"error", "text"}
  /\ silence_prepended \in BOOLEAN

\* The encoder holds the last frame it was given, or nothing.
EncoderInv ==
  /\ left \in 0..MaxFrames
  /\ encoded \in Nat
  /\ encoder \in {None, Holding(<<>>), Holding(<<encoded>>)}
  /\ encoder = Holding(<<encoded>>) => encoded > 0
  /\ generator = "encoding" /\ left > 0 => encoder # None

\* Packets come out of it in order, and the lookahead is the one before them.
LookaheadInv ==
  /\ emitted \in Seq(Nat) /\ Len(emitted) <= 2
  /\ Passed \in Nat
  /\ \A i \in DOMAIN emitted : emitted[i] = Passed + i
  /\ pending \in Nat
  /\ pending # 0 => pending = Passed

\* The deliveries begun so far bound the frames.
FramesInv ==
  /\ generator \in {"pulling", "fallback"} => encoded <= Budget(taken)
  /\ generator = "synthesizing" /\ ~is_final => encoded + MaxFrames <= Budget(taken)
  /\ generator = "synthesizing" /\ is_final => encoded + MaxFrames <= Budget(taken + 1)
  /\ generator = "encoding" /\ ~is_final => encoded + left <= Budget(taken)
  /\ generator = "encoding" /\ is_final /\ encoder # None =>
       encoded + left <= Budget(taken + 1)
  /\ generator = "encoding" /\ is_final => encoded + left <= Budget(taken + 1) + 1
  /\ Delivered => encoded <= Budget(taken + 1) + 1

QueueTypes ==
  /\ sent \in Seq(AudioPacket)
  /\ tts_queue \in Seq(AudioPacket \cup {Done, Error}) /\ Len(tts_queue) <= Capacity
  /\ cumulative_seq \in Nat
  /\ InQueue \in 0..Len(tts_queue)

\* Every packet is either sent or in the queue, at its number.
PlacesInv ==
  /\ \A i \in DOMAIN sent : sent[i].sequence_num = i - 1 /\ (sent[i].final_stt <=> i = 1)
  /\ \A i \in 1..InQueue :
       /\ tts_queue[i] \in AudioPacket
       /\ tts_queue[i].sequence_num = Len(sent) + i - 1
       /\ tts_queue[i].final_stt <=> Len(sent) + i = 1
  /\ \A i \in DOMAIN tts_queue : i > InQueue => tts_queue[i] \in {Done, Error}
  /\ InQueue < Len(tts_queue) => generator \in {"ending", "over"}

\* No frame overtakes another; none is missing while nothing has raised.
OrderInv ==
  /\ cumulative_seq <= Released
  /\ raised = "no" => cumulative_seq = Released
  /\ \A i \in DOMAIN sent : sent[i].frame <= Released
  /\ \A i \in 1..InQueue : tts_queue[i].frame <= Released
  /\ \A i, j \in DOMAIN sent : i < j => sent[i].frame < sent[j].frame
  /\ \A i, j \in 1..InQueue : i < j => tts_queue[i].frame < tts_queue[j].frame
  /\ \A i \in DOMAIN sent, j \in 1..InQueue : sent[i].frame < tts_queue[j].frame

\* A packet with is_final is the last.
LastInv ==
  /\ \A i \in DOMAIN sent : sent[i].is_final => Delivered /\ i = cumulative_seq
  /\ \A i \in 1..InQueue : tts_queue[i].is_final => Delivered /\ i = InQueue

\* The encoder is gone before the last packet is sent, and not before: it was
\* never opened, or its flush is on its way.
FlushInv ==
  /\ encoder = None /\ ~Delivered =>
       \/ encoded = 0
       \/ generator = "encoding" /\ is_final /\ (emitted # <<>> \/ pending # 0)
  /\ Delivered /\ handler # "gone" =>
       /\ emitted = <<>> /\ pending = 0
       /\ raised # "last" => encoder = None

\* The last packet of a response is final.
FinalInv ==
  Delivered /\ handler # "gone" /\ raised # "last" /\ cumulative_seq > 0 =>
    IF InQueue = 0 THEN sent[Len(sent)].is_final ELSE tts_queue[InQueue].is_final

\* _DONE is behind everything else, and read once.
DoneInv ==
  /\ generator \notin {"encoding"} /\ handler # "gone" => emitted = <<>> /\ pending = 0
  /\ generator # "over" => \A i \in DOMAIN tts_queue : tts_queue[i] # Done
  /\ \A i \in DOMAIN tts_queue : tts_queue[i] = Done => i = Len(tts_queue)
  /\ handler = "done" =>
       generator = "over" /\ tts_queue = <<>> /\ (sent # <<>> \/ closing # {})

DeliveryInv ==
  /\ ControlTypes
  /\ EncoderInv
  /\ LookaheadInv
  /\ FramesInv
  /\ QueueTypes
  /\ PlacesInv
  /\ OrderInv
  /\ LastInv
  /\ FlushInv
  /\ FinalInv
  /\ DoneInv

-----------------------------------------------------------------------------
(* Numbers, items and sequences of them.                                   *)

Item == AudioPacket \cup {Done, Error}

LEMMA Constants ==
  /\ Capacity \in Nat /\ Capacity > 0
  /\ MaxSentences \in Nat
  /\ MaxFrames \in Nat /\ MaxFrames > 0
  BY DeliveryAssumption

\* One more delivery is one more sentence's frames.
LEMMA BudgetGrows ==
  ASSUME NEW n \in 0..MaxSentences
  PROVE  /\ Budget(n) \in Nat /\ Budget(n + 1) \in Nat
         /\ Budget(n + 1) = Budget(n) + MaxFrames
         /\ Budget(n + 1) + 1 <= MaxPackets
         /\ MaxPackets \in Nat
<1>1. n \in Nat /\ n + 1 <= MaxSentences + 1 /\ MaxFrames \in Nat /\ MaxSentences \in Nat
  BY Constants
<1>2. n * MaxFrames \in Nat /\ (n + 1) * MaxFrames = n * MaxFrames + MaxFrames
  BY <1>1
<1>3. (n + 1) * MaxFrames <= (MaxSentences + 1) * MaxFrames
  BY <1>1
<1>4. (MaxSentences + 1) * MaxFrames \in Nat
  BY <1>1
<1> QED
  BY <1>1, <1>2, <1>3, <1>4 DEF Budget, MaxPackets

LEMMA PacketFields ==
  ASSUME NEW p \in AudioPacket
  PROVE  /\ p.frame \in Nat /\ p.sequence_num \in Nat
         /\ p.final_stt \in BOOLEAN /\ p.is_final \in BOOLEAN
         /\ p # Done /\ p # Error
  BY DEF AudioPacket, Done, Error

LEMMA AppendElements ==
  ASSUME NEW S, NEW q \in Seq(S), NEW e \in S
  PROVE  /\ Append(q, e) \in Seq(S)
         /\ Len(q) \in Nat /\ Len(Append(q, e)) = Len(q) + 1
         /\ DOMAIN q = 1..Len(q) /\ DOMAIN Append(q, e) = 1..(Len(q) + 1)
         /\ \A i \in 1..Len(q) : Append(q, e)[i] = q[i]
         /\ Append(q, e)[Len(q) + 1] = e
  OBVIOUS

LEMMA TailElements ==
  ASSUME NEW S, NEW q \in Seq(S), q # <<>>
  PROVE  /\ Tail(q) \in Seq(S) /\ Head(q) \in S /\ Head(q) = q[1]
         /\ Len(q) \in Nat \ {0} /\ Len(Tail(q)) = Len(q) - 1
         /\ DOMAIN q = 1..Len(q) /\ DOMAIN Tail(q) = 1..(Len(q) - 1)
         /\ \A i \in 1..(Len(q) - 1) : Tail(q)[i] = q[i + 1]
  <1>1. Tail(q) \in Seq(S) /\ Len(q) \in Nat \ {0} /\ Len(Tail(q)) = Len(q) - 1
    OBVIOUS
  <1>2. DOMAIN q = 1..Len(q) /\ DOMAIN Tail(q) = 1..(Len(q) - 1)
    BY <1>1
  <1>3. Head(q) = q[1] /\ Head(q) \in S
    BY <1>1
  <1>4. \A i \in 1..(Len(q) - 1) : Tail(q)[i] = q[i + 1]
    BY <1>1
  <1> QED
    BY <1>1, <1>2, <1>3, <1>4

LEMMA ElementTyped ==
  ASSUME NEW S, NEW q \in Seq(S)
  PROVE  \A i \in DOMAIN q : q[i] \in S
  OBVIOUS

-----------------------------------------------------------------------------
(* What the invariant says.                                                *)

\* The encoder is not open, holds nothing, or the last frame.
LEMMA EncoderCases ==
  ASSUME EncoderInv
  PROVE  /\ encoded \in Nat
         /\ \/ encoder = None /\ HeldBack = 0
            \/ /\ encoder # None /\ encoder = Holding(<<>>)
               /\ Held = <<>> /\ HeldBack = 0
            \/ /\ encoder # None /\ encoder = Holding(<<encoded>>)
               /\ Held = <<encoded>> /\ HeldBack = 1 /\ encoded > 0
<1>1. encoded \in Nat
  BY DEF EncoderInv
<1>2. CASE encoder = None
  BY <1>1, <1>2 DEF HeldBack
<1>3. CASE encoder = Holding(<<>>)
  <2>1. encoder # None /\ Held = <<>>
    BY <1>3 DEF Holding, None, Held
  <2> QED
    BY <1>1, <1>3, <2>1 DEF HeldBack
<1>4. CASE encoder = Holding(<<encoded>>)
  <2>1. encoder # None /\ Held = <<encoded>>
    BY <1>4 DEF Holding, None, Held
  <2>2. Len(Held) = 1
    BY <2>1
  <2>3. encoded > 0
    BY <1>4 DEF EncoderInv
  <2> QED
    BY <1>1, <1>4, <2>1, <2>2, <2>3 DEF HeldBack
<1> QED
  BY <1>2, <1>3, <1>4 DEF EncoderInv

LEMMA Quantities ==
  ASSUME DeliveryInv
  PROVE  /\ encoded \in Nat /\ Len(emitted) \in Nat /\ Len(emitted) <= 2
         /\ HeldBack \in 0..1 /\ HeldBack <= encoded
         /\ Passed \in Nat /\ Passed = encoded - HeldBack - Len(emitted)
         /\ Released \in Nat
         /\ cumulative_seq \in Nat /\ Len(sent) \in Nat /\ Len(tts_queue) \in Nat
         /\ InQueue \in Nat /\ InQueue = cumulative_seq - Len(sent)
         /\ InQueue <= Len(tts_queue)
<1>1. encoded \in Nat /\ HeldBack \in 0..1 /\ HeldBack <= encoded
  BY EncoderCases DEF DeliveryInv
<1>2. emitted \in Seq(Nat) /\ Len(emitted) <= 2 /\ Passed \in Nat
  BY DEF DeliveryInv, LookaheadInv
<1>3. Released \in Nat
  BY <1>2 DEF DeliveryInv, LookaheadInv, Released
<1>4. cumulative_seq \in Nat /\ Len(sent) \in Nat /\ Len(tts_queue) \in Nat
  BY DEF DeliveryInv, QueueTypes
<1>5. InQueue \in Nat /\ InQueue <= Len(tts_queue)
  BY <1>4 DEF DeliveryInv, QueueTypes
<1> QED
  BY <1>1, <1>2, <1>3, <1>4, <1>5 DEF Passed, InQueue

LEMMA InvBudget ==
  ASSUME DeliveryInv
  PROVE  encoded <= Budget(taken + 1) + 1
<1>1. /\ Budget(taken) \in Nat /\ Budget(taken + 1) \in Nat
      /\ Budget(taken + 1) = Budget(taken) + MaxFrames
  BY BudgetGrows DEF DeliveryInv, ControlTypes
<1>2. encoded \in Nat /\ MaxFrames \in Nat
  BY Quantities, Constants
<1>3. Budget(taken) <= Budget(taken + 1)
  BY <1>1, <1>2
<1>4. CASE generator \in {"pulling", "fallback"}
  <2>1. encoded <= Budget(taken)
    BY <1>4 DEF DeliveryInv, FramesInv
  <2> QED
    BY <1>1, <1>2, <1>3, <2>1
<1>5. CASE generator = "synthesizing"
  <2>1. encoded + MaxFrames <= Budget(taken) \/ encoded + MaxFrames <= Budget(taken + 1)
    BY <1>5 DEF DeliveryInv, FramesInv
  <2> QED
    BY <1>1, <1>2, <1>3, <2>1
<1>6. CASE generator = "encoding"
  <2>1. left \in Nat
    BY Constants DEF DeliveryInv, EncoderInv
  <2>2. encoded + left <= Budget(taken) \/ encoded + left <= Budget(taken + 1) + 1
    BY <1>6 DEF DeliveryInv, FramesInv
  <2>3. encoded <= encoded + left
    BY <1>2, <2>1
  <2> QED
    BY <1>1, <1>2, <1>3, <2>1, <2>2, <2>3
<1>7. CASE Delivered
  BY <1>7 DEF DeliveryInv, FramesInv
<1> QED
  BY <1>4, <1>5, <1>6, <1>7 DEF DeliveryInv, ControlTypes, Delivered

LEMMA InvTypes ==
  ASSUME DeliveryInv
  PROVE  TypeOK
<1>1. Budget(taken + 1) + 1 <= MaxPackets /\ MaxPackets \in Nat /\ Budget(taken + 1) \in Nat
  BY BudgetGrows DEF DeliveryInv, ControlTypes
<1>2. encoded <= Budget(taken + 1) + 1
  BY InvBudget
<1>3. encoded \in 0..MaxPackets
  BY <1>1, <1>2, Quantities, Constants
<1>4. encoder \in {None} \cup {Holding(held) : held \in {<<>>} \cup {<<f>> : f \in 1..MaxPackets}}
  BY <1>3 DEF DeliveryInv, EncoderInv
<1>5. pending \in 0..MaxPackets
  BY <1>1, <1>3, Quantities DEF DeliveryInv, LookaheadInv
<1>6. cumulative_seq \in 0..MaxPackets
  <2>1. cumulative_seq <= Released /\ Released <= Passed /\ Passed <= encoded
    BY Quantities DEF DeliveryInv, OrderInv, Released
  <2> QED
    BY <1>1, <1>3, <2>1, Quantities
<1>7. ControlTypes /\ left \in 0..MaxFrames /\ emitted \in Seq(Nat) /\ Len(emitted) <= 2
  BY DEF DeliveryInv, EncoderInv, LookaheadInv
<1>8. /\ sent \in Seq(AudioPacket)
      /\ tts_queue \in Seq(AudioPacket \cup {Done, Error}) /\ Len(tts_queue) <= Capacity
  BY DEF DeliveryInv, QueueTypes
<1> QED
  BY <1>3, <1>4, <1>5, <1>6, <1>7, <1>8 DEF TypeOK, ControlTypes

\* At the end everything the encoder let go has been sent.
LEMMA InvComplete ==
  ASSUME DeliveryInv
  PROVE  AudioComplete
<1>1. \A i, j \in DOMAIN sent : i < j => sent[i].frame < sent[j].frame
  BY DEF DeliveryInv, OrderInv
<1>2. ASSUME handler = "done", raised = "no"
      PROVE  Len(sent) = encoded
  <2>1. generator = "over" /\ tts_queue = <<>>
    BY <1>2 DEF DeliveryInv, DoneInv
  <2>2. Len(sent) = cumulative_seq
    BY <2>1, Quantities
  <2>3. emitted = <<>> /\ pending = 0 /\ encoder = None
    BY <1>2, <2>1 DEF DeliveryInv, FlushInv, Delivered
  <2>4. Released = encoded
    BY <2>3, Quantities DEF Released, HeldBack
  <2> QED
    BY <1>2, <2>2, <2>4 DEF DeliveryInv, OrderInv
<1> QED
  BY <1>1, <1>2 DEF AudioComplete

LEMMA InvCloses ==
  ASSUME DeliveryInv
  PROVE  ClosesWithFinal
<1> SUFFICES ASSUME handler = "done", raised # "last", closing = {}
             PROVE  sent[Len(sent)].is_final
  BY DEF ClosesWithFinal
<1>1. generator = "over" /\ tts_queue = <<>> /\ sent # <<>>
  BY DEF DeliveryInv, DoneInv
<1>2. InQueue = 0 /\ cumulative_seq > 0
  <2>1. Len(sent) > 0
    BY <1>1 DEF DeliveryInv, QueueTypes
  <2> QED
    BY <1>1, <2>1, Quantities
<1> QED
  BY <1>1, <1>2 DEF DeliveryInv, FinalInv, Delivered

-----------------------------------------------------------------------------
(* What a step leaves alone.                                               *)

LEMMA DeliverySame ==
  ASSUME DeliveryInv, UNCHANGED <<encoder, encoded, emitted, pending>>
  PROVE  /\ HeldBack' = HeldBack /\ Passed' = Passed /\ Released' = Released
         /\ LookaheadInv'
<1>1. HeldBack' = HeldBack
  BY DEF HeldBack, Held
<1>2. Passed' = Passed
  BY <1>1 DEF Passed
<1>3. Released' = Released
  BY <1>2 DEF Released
<1> QED
  BY <1>1, <1>2, <1>3 DEF DeliveryInv, LookaheadInv

LEMMA QueueSame ==
  ASSUME DeliveryInv, UNCHANGED <<sent, tts_queue, cumulative_seq>>
  PROVE  InQueue' = InQueue /\ QueueTypes'
<1>1. InQueue' = InQueue
  BY DEF InQueue
<1> QED
  BY <1>1 DEF DeliveryInv, QueueTypes

\* OrderInv speaks of nothing but the packets and how far they may go.
LEMMA OrderSame ==
  ASSUME DeliveryInv, UNCHANGED <<sent, tts_queue, cumulative_seq, raised>>,
         Released' = Released
  PROVE  OrderInv'
  BY QueueSame DEF DeliveryInv, OrderInv

\* Before the last delivery is over no packet is final.
LEMMA NoneFinal ==
  ASSUME DeliveryInv, ~Delivered
  PROVE  /\ \A i \in DOMAIN sent : ~sent[i].is_final
         /\ \A i \in 1..InQueue : ~tts_queue[i].is_final
         /\ InQueue = Len(tts_queue)
         /\ \A i \in DOMAIN tts_queue : tts_queue[i] # Done
         /\ handler # "done"
<1>1. /\ \A i \in DOMAIN sent : ~sent[i].is_final
      /\ \A i \in 1..InQueue : ~tts_queue[i].is_final
  BY DEF DeliveryInv, LastInv
<1>2. generator \notin {"ending", "over"}
  BY DEF Delivered
<1>3. InQueue = Len(tts_queue)
  <2>1. ~(InQueue < Len(tts_queue))
    BY <1>2 DEF DeliveryInv, PlacesInv
  <2> QED
    BY <2>1, Quantities
<1>4. (\A i \in DOMAIN tts_queue : tts_queue[i] # Done) /\ handler # "done"
  BY <1>2 DEF DeliveryInv, DoneInv
<1> QED
  BY <1>1, <1>3, <1>4

-----------------------------------------------------------------------------
(* The sentences: the generator between two deliveries.                    *)

SentenceStep == NextSentence \/ StreamEnds \/ Fallback \/ Commit

LEMMA SentenceEffect ==
  ASSUME DeliveryInv, SentenceStep
  PROVE  /\ UNCHANGED <<left, encoder, encoded, emitted, pending, cumulative_seq,
                        silence_prepended, raised, tts_queue, handler, sent, closing>>
         /\ \/ /\ generator \in {"pulling", "fallback"}
               /\ generator' \in {"pulling", "fallback", "synthesizing"}
            \/ generator = "committing" /\ generator' \in {"ending", "failed"}
         /\ taken' \in 0..MaxSentences /\ pending_sentence' \in 0..MaxSentences
         /\ is_final' \in BOOLEAN
<1>1. CASE NextSentence
  <2>1. /\ UNCHANGED <<left, encoder, encoded, emitted, pending, cumulative_seq,
                       silence_prepended, raised, tts_queue, handler, sent, closing>>
        /\ generator = "pulling" /\ generator' \in {"pulling", "synthesizing"}
    BY <1>1 DEF NextSentence, Deliver, delivery, output
  <2>2. taken' \in 0..MaxSentences /\ pending_sentence' \in 0..MaxSentences
    BY <1>1, Constants DEF NextSentence, DeliveryInv, ControlTypes
  <2>3. is_final' \in BOOLEAN
    BY <1>1 DEF NextSentence, Deliver, DeliveryInv, ControlTypes
  <2> QED
    BY <2>1, <2>2, <2>3
<1>2. CASE StreamEnds
  <2>1. /\ UNCHANGED <<left, encoder, encoded, emitted, pending, cumulative_seq,
                       silence_prepended, raised, tts_queue, handler, sent, closing>>
        /\ generator = "pulling" /\ generator' \in {"fallback", "synthesizing"}
    BY <1>2 DEF StreamEnds, Deliver, delivery, output
  <2>2. taken' \in 0..MaxSentences /\ pending_sentence' \in 0..MaxSentences
    BY <1>2, Constants DEF StreamEnds, DeliveryInv, ControlTypes
  <2>3. is_final' \in BOOLEAN
    BY <1>2 DEF StreamEnds, Deliver, DeliveryInv, ControlTypes
  <2> QED
    BY <2>1, <2>2, <2>3
<1>3. CASE Fallback
  BY <1>3 DEF Fallback, Deliver, sentences, delivery, output, DeliveryInv, ControlTypes
<1>4. CASE Commit
  BY <1>4 DEF Commit, sentences, delivery, output, DeliveryInv, ControlTypes
<1> QED
  BY <1>1, <1>2, <1>3, <1>4 DEF SentenceStep

LEMMA SentenceFrames ==
  ASSUME DeliveryInv, SentenceStep
  PROVE  FramesInv'
<1>1. taken \in 0..MaxSentences /\ encoded \in Nat /\ MaxFrames \in Nat
  BY Quantities, Constants DEF DeliveryInv, ControlTypes
<1>2. /\ Budget(taken) \in Nat /\ Budget(taken + 1) = Budget(taken) + MaxFrames
  BY <1>1, BudgetGrows
<1>3. CASE NextSentence
  <2>1. generator = "pulling" /\ taken' = taken + 1 /\ encoded' = encoded
    BY <1>3 DEF NextSentence, delivery
  <2>2. encoded <= Budget(taken)
    BY <2>1 DEF DeliveryInv, FramesInv
  <2>3. Budget(taken') = Budget(taken + 1)
    BY <2>1
  <2>4. CASE generator' = "pulling"
    <3>1. encoded' <= Budget(taken')
      BY <1>1, <1>2, <2>1, <2>2, <2>3
    <3> QED
      BY <2>4, <3>1 DEF FramesInv, Delivered, Budget
  <2>5. CASE generator' = "synthesizing" /\ ~is_final'
    <3>1. encoded' + MaxFrames <= Budget(taken')
      BY <1>1, <1>2, <2>1, <2>2, <2>3
    <3> QED
      BY <2>5, <3>1 DEF FramesInv, Delivered, Budget
  <2> QED
    BY <1>3, <2>1, <2>4, <2>5 DEF NextSentence, Deliver
<1>4. CASE StreamEnds \/ Fallback
  <2>1. generator \in {"pulling", "fallback"} /\ taken' = taken /\ encoded' = encoded
    BY <1>4 DEF StreamEnds, Fallback, delivery, sentences
  <2>2. encoded <= Budget(taken)
    BY <2>1 DEF DeliveryInv, FramesInv
  <2>3. CASE generator' = "fallback"
    BY <2>1, <2>2, <2>3 DEF FramesInv, Delivered, Budget
  <2>4. CASE generator' = "synthesizing" /\ is_final'
    <3>1. encoded' + MaxFrames <= Budget(taken + 1)
      BY <1>1, <1>2, <2>1, <2>2
    <3> QED
      BY <2>1, <2>4, <3>1 DEF FramesInv, Delivered, Budget
  <2> QED
    BY <1>4, <2>3, <2>4 DEF StreamEnds, Fallback, Deliver
<1>5. CASE Commit
  <2>1. Delivered /\ Delivered' /\ taken' = taken /\ encoded' = encoded
    BY <1>5 DEF Commit, Delivered, delivery, sentences
  <2>2. encoded' <= Budget(taken' + 1) + 1
    BY <2>1 DEF DeliveryInv, FramesInv
  <2> QED
    BY <2>1, <2>2 DEF FramesInv, Delivered, Budget
<1> QED
  BY <1>3, <1>4, <1>5 DEF SentenceStep

LEMMA SentenceKeeps ==
  ASSUME DeliveryInv, SentenceStep
  PROVE  DeliveryInv'
<1>1. /\ UNCHANGED <<left, encoder, encoded, emitted, pending, cumulative_seq,
                     raised, tts_queue, handler, sent, closing>>
      /\ \/ /\ generator \in {"pulling", "fallback"}
            /\ generator' \in {"pulling", "fallback", "synthesizing"}
         \/ generator = "committing" /\ generator' \in {"ending", "failed"}
  BY SentenceEffect
<1>2. (Delivered' <=> Delivered) /\ generator' \notin {"encoding", "over"}
  BY <1>1 DEF Delivered
<1>3. InQueue' = InQueue /\ QueueTypes'
  BY <1>1, QueueSame
<1>4. Released' = Released /\ LookaheadInv'
  BY <1>1, DeliverySame
<1>5. ControlTypes'
  BY SentenceEffect DEF DeliveryInv, ControlTypes
<1>6. EncoderInv'
  BY <1>1 DEF DeliveryInv, EncoderInv
<1>7. PlacesInv'
  BY <1>1, <1>3 DEF DeliveryInv, PlacesInv
<1>8. OrderInv'
  BY <1>1, <1>4, OrderSame
<1>9. LastInv'
  BY <1>1, <1>2, <1>3 DEF DeliveryInv, LastInv
<1>10. FlushInv'
  BY <1>1, <1>2 DEF DeliveryInv, FlushInv
<1>11. FinalInv'
  BY <1>1, <1>2, <1>3 DEF DeliveryInv, FinalInv
<1>12. DoneInv'
  BY <1>1, <1>2 DEF DeliveryInv, DoneInv
<1> QED
  BY <1>3, <1>4, <1>5, <1>6, <1>7, <1>8, <1>9, <1>10, <1>11, <1>12, SentenceFrames
     DEF DeliveryInv

-----------------------------------------------------------------------------
(* The encoder: a delivery that raises, synthesis, encoding and the flush. *)

LEMMA RaisedFrames ==
  ASSUME DeliveryInv, DeliveryRaises
  PROVE  FramesInv'
<1>1. taken \in 0..MaxSentences /\ encoded \in Nat /\ left \in Nat /\ MaxFrames \in Nat
  BY Quantities, Constants DEF DeliveryInv, ControlTypes, EncoderInv
<1>2. Budget(taken) \in Nat /\ Budget(taken + 1) = Budget(taken) + MaxFrames
  BY <1>1, BudgetGrows
<1>3. /\ taken' = taken /\ is_final' = is_final /\ encoded' = encoded
      /\ generator \in {"synthesizing", "encoding"}
      /\ is_final => generator' = "committing"
      /\ ~is_final => generator' = "pulling"
  BY DEF DeliveryRaises, sentences, AfterDelivery
<1>4. CASE is_final
  <2>1. encoded + MaxFrames <= Budget(taken + 1) \/ encoded + left <= Budget(taken + 1) + 1
    BY <1>3, <1>4 DEF DeliveryInv, FramesInv
  <2>2. encoded' <= Budget(taken' + 1) + 1
    BY <1>1, <1>2, <1>3, <2>1
  <2> QED
    BY <1>3, <1>4, <2>2 DEF FramesInv, Delivered, Budget
<1>5. CASE ~is_final
  <2>1. encoded + MaxFrames <= Budget(taken) \/ encoded + left <= Budget(taken)
    BY <1>3, <1>5 DEF DeliveryInv, FramesInv
  <2>2. encoded' <= Budget(taken')
    BY <1>1, <1>2, <1>3, <2>1
  <2> QED
    BY <1>3, <1>5, <2>2 DEF FramesInv, Delivered, Budget
<1> QED
  BY <1>4, <1>5

\* What the lookahead held is lost; the encoder keeps what it has.
LEMMA RaisedKeeps ==
  ASSUME DeliveryInv, DeliveryRaises
  PROVE  DeliveryInv'
<1>1. /\ UNCHANGED <<taken, pending_sentence, is_final, encoder, encoded, emitted,
                     cumulative_seq, tts_queue, handler, sent, closing>>
      /\ generator \in {"synthesizing", "encoding"}
      /\ generator = "encoding" => emitted = <<>>
      /\ left' = 0 /\ pending' = 0
      /\ is_final => generator' = "committing" /\ raised' = "last"
      /\ ~is_final => generator' = "pulling" /\ raised' = "some"
  BY DEF DeliveryRaises, sentences, output, AfterDelivery
<1>2. ~Delivered /\ (Delivered' <=> is_final) /\ generator' \in {"committing", "pulling"}
  <2>1. ~Delivered
    BY <1>1 DEF Delivered
  <2>2. CASE is_final
    BY <1>1, <2>2 DEF Delivered
  <2>3. CASE ~is_final
    BY <1>1, <2>3 DEF Delivered
  <2> QED
    BY <2>1, <2>2, <2>3
<1>3. InQueue' = InQueue /\ QueueTypes'
  BY <1>1, QueueSame
<1>4. HeldBack' = HeldBack /\ Passed' = Passed /\ Released' = Passed
  <2>1. HeldBack' = HeldBack
    BY <1>1 DEF HeldBack, Held
  <2>2. Passed' = Passed
    BY <1>1, <2>1 DEF Passed
  <2> QED
    BY <1>1, <2>1, <2>2 DEF Released
<1>5. ControlTypes'
  <2>1. silence_prepended' \in BOOLEAN
    BY DEF DeliveryRaises, DeliveryInv, ControlTypes
  <2>2. generator' \in {"committing", "pulling"} /\ raised' \in {"last", "some"}
    BY <1>1
  <2> QED
    BY <1>1, <2>1, <2>2 DEF DeliveryInv, ControlTypes
<1>6. EncoderInv'
  BY <1>1, <1>2, Constants DEF DeliveryInv, EncoderInv
<1>7. LookaheadInv'
  BY <1>1, <1>4 DEF DeliveryInv, LookaheadInv
<1>8. PlacesInv'
  BY <1>1, <1>2, <1>3, NoneFinal, Quantities DEF DeliveryInv, PlacesInv
<1>9. OrderInv'
  <2>1. Released <= Released' /\ Released \in Nat /\ Released' \in Nat
    BY <1>4, Quantities DEF Released
  <2>2. cumulative_seq' <= Released'
    BY <1>1, <2>1, Quantities DEF DeliveryInv, OrderInv
  <2>3. \A i \in DOMAIN sent' : sent'[i].frame <= Released'
    <3> SUFFICES ASSUME NEW i \in DOMAIN sent
                 PROVE  sent[i].frame <= Released'
      BY <1>1
    <3>1. sent[i].frame \in Nat
      BY PacketFields, ElementTyped DEF DeliveryInv, QueueTypes
    <3> QED
      BY <2>1, <3>1 DEF DeliveryInv, OrderInv
  <2>4. \A i \in 1..InQueue' : tts_queue'[i].frame <= Released'
    <3> SUFFICES ASSUME NEW i \in 1..InQueue
                 PROVE  tts_queue[i].frame <= Released'
      BY <1>1, <1>3
    <3>1. tts_queue[i].frame \in Nat
      BY PacketFields DEF DeliveryInv, PlacesInv
    <3> QED
      BY <2>1, <3>1 DEF DeliveryInv, OrderInv
  <2>5. raised' # "no"
    BY <1>1
  <2> QED
    BY <1>1, <1>3, <2>2, <2>3, <2>4, <2>5 DEF DeliveryInv, OrderInv
<1>10. LastInv'
  BY <1>1, <1>2, <1>3, NoneFinal DEF LastInv
<1>11. FlushInv'
  <2>1. handler # "gone" => emitted = <<>>
    BY <1>1 DEF DeliveryInv, DoneInv
  <2>2. ASSUME encoder = None, ~is_final
        PROVE  encoded = 0
    BY <1>1, <1>2, <2>2 DEF DeliveryInv, FlushInv
  <2> QED
    BY <1>1, <1>2, <2>1, <2>2 DEF FlushInv
<1>12. FinalInv'
  BY <1>1, <1>2 DEF FinalInv
<1>13. DoneInv'
  <2>1. handler # "gone" => emitted = <<>>
    BY <1>1 DEF DeliveryInv, DoneInv
  <2> QED
    BY <1>1, <1>2, <2>1, NoneFinal DEF DeliveryInv, DoneInv
<1> QED
  BY <1>3, <1>5, <1>6, <1>7, <1>8, <1>9, <1>10, <1>11, <1>12, <1>13, RaisedFrames
     DEF DeliveryInv

\* The first audio opens the encoder, which holds nothing then.
LEMMA SynthesizedKeeps ==
  ASSUME DeliveryInv, Synthesized
  PROVE  DeliveryInv'
<1>1. /\ UNCHANGED <<taken, pending_sentence, is_final, encoded, emitted, pending,
                     cumulative_seq, raised, tts_queue, handler, sent, closing>>
      /\ generator = "synthesizing" /\ generator' = "encoding"
      /\ left' \in 0..MaxFrames
      /\ encoder' = encoder \/ (encoder = None /\ encoder' = Holding(<<>>))
      /\ left' > 0 => encoder' # None
  <2>1. /\ UNCHANGED <<taken, pending_sentence, is_final, encoded, emitted, pending,
                       cumulative_seq, raised, tts_queue, handler, sent, closing>>
        /\ generator = "synthesizing" /\ generator' = "encoding"
    BY DEF Synthesized, sentences, output
  <2>2. PICK n \in 0..MaxFrames, audio \in BOOLEAN :
          (n > 0 => audio) /\ left' = n /\ encoder' = EncoderFor(audio)
    BY DEF Synthesized
  <2>3. Holding(<<>>) # None
    BY DEF Holding, None
  <2>4. encoder' = encoder \/ (encoder = None /\ encoder' = Holding(<<>>))
    BY <2>2 DEF EncoderFor
  <2>5. audio => encoder' # None
    BY <2>2, <2>3 DEF EncoderFor
  <2>6. left' \in 0..MaxFrames /\ (left' > 0 => audio)
    BY <2>2
  <2> QED
    BY <2>1, <2>4, <2>5, <2>6
<1>2. ~Delivered /\ ~Delivered'
  BY <1>1 DEF Delivered
<1>3. InQueue' = InQueue /\ QueueTypes'
  BY <1>1, QueueSame
<1>4. HeldBack' = HeldBack
  <2>1. CASE encoder' = encoder
    BY <2>1 DEF HeldBack, Held
  <2>2. CASE encoder = None /\ encoder' = Holding(<<>>)
    <3>1. Held' = <<>> /\ encoder' # None
      BY <2>2 DEF Held, Holding, None
    <3>2. Len(Held') = 0
      BY <3>1
    <3> QED
      BY <2>2, <3>1, <3>2 DEF HeldBack
  <2> QED
    BY <1>1, <2>1, <2>2
<1>5. Passed' = Passed /\ Released' = Released
  BY <1>1, <1>4 DEF Passed, Released
<1>6. ControlTypes'
  <2>1. silence_prepended' \in BOOLEAN
    BY DEF Synthesized, DeliveryInv, ControlTypes
  <2> QED
    BY <1>1, <2>1 DEF DeliveryInv, ControlTypes
<1>7. EncoderInv'
  BY <1>1 DEF DeliveryInv, EncoderInv, Holding, None
<1>8. LookaheadInv'
  BY <1>1, <1>5 DEF DeliveryInv, LookaheadInv
<1>9. FramesInv'
  <2>1. encoded \in Nat /\ left' \in Nat /\ left' <= MaxFrames /\ MaxFrames \in Nat
    BY <1>1, Quantities, Constants
  <2>2. CASE ~is_final
    <3>1. encoded + MaxFrames <= Budget(taken) /\ Budget(taken) \in Nat
      BY <1>1, <2>2, BudgetGrows DEF DeliveryInv, FramesInv, ControlTypes
    <3>2. encoded + left' <= Budget(taken)
      BY <2>1, <3>1
    <3> QED
      BY <1>1, <1>2, <2>2, <3>2 DEF FramesInv, Budget
  <2>3. CASE is_final
    <3>1. encoded + MaxFrames <= Budget(taken + 1) /\ Budget(taken + 1) \in Nat
      BY <1>1, <2>3, BudgetGrows DEF DeliveryInv, FramesInv, ControlTypes
    <3>2. /\ encoded + left' <= Budget(taken + 1)
          /\ encoded + left' <= Budget(taken + 1) + 1
      BY <2>1, <3>1
    <3> QED
      BY <1>1, <1>2, <2>3, <3>2 DEF FramesInv, Budget
  <2> QED
    BY <2>2, <2>3
<1>10. PlacesInv'
  BY <1>1, <1>2, <1>3, NoneFinal, Quantities DEF DeliveryInv, PlacesInv
<1>11. OrderInv'
  BY <1>1, <1>5, OrderSame
<1>12. LastInv'
  BY <1>1, <1>3, NoneFinal, <1>2 DEF LastInv
<1>13. FlushInv'
  BY <1>1, <1>2 DEF DeliveryInv, FlushInv
<1>14. FinalInv'
  BY <1>2 DEF FinalInv
<1>15. DoneInv'
  BY <1>1, <1>2, NoneFinal DEF DeliveryInv, DoneInv
<1> QED
  BY <1>3, <1>6, <1>7, <1>8, <1>9, <1>10, <1>11, <1>12, <1>13, <1>14, <1>15
     DEF DeliveryInv

\* The two sequences the encoder may hold while it encodes, and their parts.
LEMMA OneFrame ==
  ASSUME NEW f \in Nat
  PROVE  /\ <<f>> \in Seq(Nat) /\ Len(<<f>>) = 1
         /\ Append(<<>>, f) = <<f>>
         /\ SubSeq(<<f>>, 1, 0) = <<>> /\ SubSeq(<<f>>, 2, 1) = <<>>
         /\ SubSeq(<<f>>, 1, 1) = <<f>>
<1>1. <<f>> \in Seq(Nat) /\ Len(<<f>>) = 1 /\ <<f>>[1] = f
  OBVIOUS
<1>2. Append(<<>>, f) = <<f>>
  <2>1. <<>> \in Seq(Nat) /\ Len(<<>>) = 0
    OBVIOUS
  <2>2. /\ Append(<<>>, f) \in Seq(Nat) /\ Len(Append(<<>>, f)) = 1
        /\ Append(<<>>, f)[1] = f
    BY <2>1, AppendElements
  <2>3. \A i \in 1..1 : Append(<<>>, f)[i] = <<f>>[i]
    BY <1>1, <2>2
  <2> QED
    BY <1>1, <2>2, <2>3, SeqEqual, Zenon
<1>3. SubSeq(<<f>>, 1, 0) = <<>> /\ SubSeq(<<f>>, 2, 1) = <<>>
  BY SubSeqEmpty
<1>4. SubSeq(<<f>>, 1, 1) = <<f>>
  BY <1>1, SubSeqFull
<1> QED
  BY <1>1, <1>2, <1>3, <1>4

LEMMA TwoFrames ==
  ASSUME NEW f \in Nat, NEW g \in Nat
  PROVE  /\ <<f, g>> \in Seq(Nat) /\ Len(<<f, g>>) = 2
         /\ Append(<<f>>, g) = <<f, g>>
         /\ SubSeq(<<f, g>>, 1, 1) = <<f>> /\ SubSeq(<<f, g>>, 2, 2) = <<g>>
         /\ SubSeq(<<f, g>>, 1, 2) = <<f, g>> /\ SubSeq(<<f, g>>, 3, 2) = <<>>
<1>1. /\ <<f, g>> \in Seq(Nat) /\ Len(<<f, g>>) = 2
      /\ <<f, g>>[1] = f /\ <<f, g>>[2] = g
  OBVIOUS
<1>2. Append(<<f>>, g) = <<f, g>>
  <2>1. <<f>> \in Seq(Nat) /\ Len(<<f>>) = 1 /\ <<f>>[1] = f
    OBVIOUS
  <2>2. /\ Append(<<f>>, g) \in Seq(Nat) /\ Len(Append(<<f>>, g)) = 2
        /\ Append(<<f>>, g)[1] = f /\ Append(<<f>>, g)[2] = g
    BY <2>1, AppendElements
  <2>3. \A i \in 1..2 : Append(<<f>>, g)[i] = <<f, g>>[i]
    BY <1>1, <2>2
  <2> QED
    BY <1>1, <2>2, <2>3, SeqEqual, Zenon
<1>3. SubSeq(<<f, g>>, 3, 2) = <<>>
  BY SubSeqEmpty
<1>4. SubSeq(<<f, g>>, 1, 2) = <<f, g>>
  BY <1>1, SubSeqFull
<1>5. ASSUME NEW m \in 1..2, NEW h \in Nat, <<f, g>>[m] = h
      PROVE  SubSeq(<<f, g>>, m, m) = <<h>>
  <2>1. /\ SubSeq(<<f, g>>, m, m) \in Seq(Nat) /\ Len(SubSeq(<<f, g>>, m, m)) = 1
        /\ SubSeq(<<f, g>>, m, m)[1] = h
    <3>1. /\ SubSeq(<<f, g>>, m, m) \in Seq(Nat)
          /\ Len(SubSeq(<<f, g>>, m, m)) = IF m <= m THEN m - m + 1 ELSE 0
          /\ \A i \in 1..(m - m + 1) : SubSeq(<<f, g>>, m, m)[i] = <<f, g>>[m + i - 1]
      BY <1>1, <1>5, SubSeqProperties
    <3> QED
      BY <1>5, <3>1
  <2>2. <<h>> \in Seq(Nat) /\ Len(<<h>>) = 1 /\ <<h>>[1] = h
    OBVIOUS
  <2>3. \A i \in 1..1 : SubSeq(<<f, g>>, m, m)[i] = <<h>>[i]
    BY <2>1, <2>2
  <2> QED
    BY <2>1, <2>2, <2>3, SeqEqual, Zenon
<1>6. SubSeq(<<f, g>>, 1, 1) = <<f>> /\ SubSeq(<<f, g>>, 2, 2) = <<g>>
  BY <1>1, <1>5
<1> QED
  BY <1>1, <1>2, <1>3, <1>4, <1>6

\* What opus_enc.encode may yield: all it holds, or all but the new frame.
LEMMA EncodeOutcomes ==
  ASSUME EncoderInv, encoder # None, emitted = <<>>, Encode
  PROVE  /\ encoded' = encoded + 1
         /\ \/ /\ HeldBack = 0 /\ emitted' = <<>> /\ encoder' = Holding(<<encoded + 1>>)
            \/ /\ HeldBack = 0 /\ emitted' = <<encoded + 1>> /\ encoder' = Holding(<<>>)
            \/ /\ HeldBack = 1 /\ emitted' = <<encoded>>
               /\ encoder' = Holding(<<encoded + 1>>)
            \/ /\ HeldBack = 1 /\ emitted' = <<encoded, encoded + 1>>
               /\ encoder' = Holding(<<>>)
<1>1. encoded \in Nat /\ encoded + 1 \in Nat
  BY EncoderCases
<1> DEFINE next == encoded + 1
           held == Append(Held, next)
<1>2. /\ encoded' = next
      /\ \E k \in {Len(held) - 1, Len(held)} :
           /\ emitted' = SubSeq(held, 1, k)
           /\ encoder' = Holding(SubSeq(held, k + 1, Len(held)))
  BY DEF Encode
<1>3. next \in Nat
  BY <1>1
<1> SUFFICES
      \/ /\ HeldBack = 0 /\ emitted' = <<>> /\ encoder' = Holding(<<next>>)
      \/ /\ HeldBack = 0 /\ emitted' = <<next>> /\ encoder' = Holding(<<>>)
      \/ /\ HeldBack = 1 /\ emitted' = <<encoded>> /\ encoder' = Holding(<<next>>)
      \/ /\ HeldBack = 1 /\ emitted' = <<encoded, next>> /\ encoder' = Holding(<<>>)
  BY <1>2, Zenon
<1> HIDE DEF next
<1>4. CASE Held = <<>> /\ HeldBack = 0
  <2>1. held = <<next>>
    BY <1>3, <1>4, OneFrame, Zenon
  <2>2. /\ SubSeq(<<next>>, 1, 0) = <<>> /\ SubSeq(<<next>>, 1, 1) = <<next>>
        /\ SubSeq(<<next>>, 2, 1) = <<>> /\ Len(<<next>>) = 1
    BY <1>3, OneFrame, Zenon
  <2> HIDE DEF held
  <2>3. \E k \in {0, 1} : /\ emitted' = SubSeq(<<next>>, 1, k)
                          /\ encoder' = Holding(SubSeq(<<next>>, k + 1, 1))
    <3>1. Len(held) - 1 = 0 /\ Len(held) = 1
      BY <2>1, <2>2
    <3> QED
      BY <1>2, <2>1, <3>1, Zenon
  <2>4. 0 + 1 = 1 /\ 1 + 1 = 2
    OBVIOUS
  <2> QED
    BY <1>4, <2>2, <2>3, <2>4, Zenon
<1>5. CASE Held = <<encoded>> /\ HeldBack = 1
  <2>1. held = <<encoded, next>>
    BY <1>1, <1>3, <1>5, TwoFrames, Zenon
  <2>2. /\ SubSeq(<<encoded, next>>, 1, 1) = <<encoded>>
        /\ SubSeq(<<encoded, next>>, 2, 2) = <<next>>
        /\ SubSeq(<<encoded, next>>, 1, 2) = <<encoded, next>>
        /\ SubSeq(<<encoded, next>>, 3, 2) = <<>>
        /\ Len(<<encoded, next>>) = 2
    BY <1>1, <1>3, TwoFrames, Zenon
  <2> HIDE DEF held
  <2>3. \E k \in {1, 2} : /\ emitted' = SubSeq(<<encoded, next>>, 1, k)
                          /\ encoder' = Holding(SubSeq(<<encoded, next>>, k + 1, 2))
    <3>1. Len(held) - 1 = 1 /\ Len(held) = 2
      BY <2>1, <2>2
    <3> QED
      BY <1>2, <2>1, <3>1, Zenon
  <2>4. 1 + 1 = 2 /\ 2 + 1 = 3
    OBVIOUS
  <2> QED
    BY <1>5, <2>2, <2>3, <2>4, Zenon
<1> QED
  BY <1>4, <1>5, EncoderCases, Zenon

\* What comes out of the encoder are the frames after Passed, in order.
LEMMA EncodedInOrder ==
  ASSUME DeliveryInv, emitted = <<>>, encoder # None, encoded' = encoded + 1,
         \/ /\ HeldBack = 0 /\ emitted' = <<>> /\ encoder' = Holding(<<encoded + 1>>)
         \/ /\ HeldBack = 0 /\ emitted' = <<encoded + 1>>
            /\ encoder' \in {None, Holding(<<>>)}
         \/ /\ HeldBack = 1 /\ emitted' = <<encoded>>
            /\ encoder' = Holding(<<encoded + 1>>)
         \/ /\ HeldBack = 1 /\ emitted' = <<encoded, encoded + 1>>
            /\ encoder' \in {None, Holding(<<>>)}
  PROVE  /\ Passed' = Passed
         /\ emitted' \in Seq(Nat) /\ Len(emitted') <= 2
         /\ \A i \in DOMAIN emitted' : emitted'[i] = Passed' + i
<1>1. encoded \in Nat /\ Len(emitted) = 0 /\ Passed = encoded - HeldBack
  BY Quantities
<1>2. ASSUME NEW held, encoder' = Holding(held)
      PROVE  HeldBack' = Len(held)
  BY <1>2 DEF HeldBack, Held, Holding, None
<1>3. Len(<<>>) = 0 /\ Len(<<encoded + 1>>) = 1
  BY <1>1
<1>4. encoder' \in {None, Holding(<<>>)} => HeldBack' = 0
  BY <1>2, <1>3 DEF HeldBack
<1>5. encoder' = Holding(<<encoded + 1>>) => HeldBack' = 1
  BY <1>2, <1>3
<1>6. Passed' = encoded' - HeldBack' - Len(emitted')
  BY DEF Passed
<1>7. CASE HeldBack = 0 /\ emitted' = <<>> /\ HeldBack' = 1
  BY <1>1, <1>6, <1>7
<1>8. CASE HeldBack = 0 /\ emitted' = <<encoded + 1>> /\ HeldBack' = 0
  BY <1>1, <1>6, <1>8
<1>9. CASE HeldBack = 1 /\ emitted' = <<encoded>> /\ HeldBack' = 1
  BY <1>1, <1>6, <1>9
<1>10. CASE HeldBack = 1 /\ emitted' = <<encoded, encoded + 1>> /\ HeldBack' = 0
  BY <1>1, <1>6, <1>10
<1> QED
  BY <1>4, <1>5, <1>7, <1>8, <1>9, <1>10

\* A frame more in the encoder, packets out of it: opus_enc.encode and its flush.
LEMMA EncoderKeeps ==
  ASSUME DeliveryInv, generator = "encoding", emitted = <<>>, encoder # None,
         encoded' = encoded + 1, Passed' = Passed,
         emitted' \in Seq(Nat), Len(emitted') <= 2,
         \A i \in DOMAIN emitted' : emitted'[i] = Passed' + i,
         EncoderInv', FramesInv',
         \/ encoder' # None
         \/ encoder' = None /\ is_final /\ emitted' # <<>>,
         UNCHANGED <<generator, taken, pending_sentence, is_final, pending,
                     cumulative_seq, silence_prepended, raised, tts_queue,
                     handler, sent, closing>>
  PROVE  DeliveryInv'
<1>1. ~Delivered /\ ~Delivered'
  BY DEF Delivered
<1>2. InQueue' = InQueue /\ QueueTypes'
  BY QueueSame
<1>3. Released' = Released
  BY DEF Released
<1>4. ControlTypes'
  BY DEF DeliveryInv, ControlTypes
<1>5. LookaheadInv'
  BY DEF DeliveryInv, LookaheadInv
<1>6. PlacesInv'
  BY <1>2 DEF DeliveryInv, PlacesInv
<1>7. OrderInv'
  BY <1>3, OrderSame
<1>8. LastInv'
  BY <1>1, <1>2, NoneFinal DEF LastInv
<1>9. FlushInv'
  BY <1>1 DEF FlushInv
<1>10. FinalInv'
  BY <1>1 DEF FinalInv
<1>11. DoneInv'
  BY <1>1, NoneFinal DEF DeliveryInv, DoneInv
<1> QED
  BY <1>2, <1>4, <1>5, <1>6, <1>7, <1>8, <1>9, <1>10, <1>11 DEF DeliveryInv

LEMMA EncodeKeeps ==
  ASSUME DeliveryInv, Encode
  PROVE  DeliveryInv'
<1>1. /\ UNCHANGED <<generator, taken, pending_sentence, is_final, pending,
                     cumulative_seq, silence_prepended, raised, tts_queue,
                     handler, sent, closing>>
      /\ generator = "encoding" /\ emitted = <<>>
      /\ left > 0 /\ left' = left - 1
  BY DEF Encode, sentences, output
<1>2. encoder # None
  BY <1>1 DEF DeliveryInv, EncoderInv
<1>3. left \in Nat /\ left <= MaxFrames /\ MaxFrames \in Nat /\ encoded \in Nat
  BY Constants, Quantities DEF DeliveryInv, EncoderInv
<1>4. EncoderInv
  BY DEF DeliveryInv
<1>5. /\ encoded' = encoded + 1
      /\ \/ /\ HeldBack = 0 /\ emitted' = <<>> /\ encoder' = Holding(<<encoded + 1>>)
         \/ /\ HeldBack = 0 /\ emitted' = <<encoded + 1>> /\ encoder' = Holding(<<>>)
         \/ /\ HeldBack = 1 /\ emitted' = <<encoded>>
            /\ encoder' = Holding(<<encoded + 1>>)
         \/ /\ HeldBack = 1 /\ emitted' = <<encoded, encoded + 1>>
            /\ encoder' = Holding(<<>>)
  BY <1>1, <1>2, <1>4, EncodeOutcomes
<1>6. /\ Passed' = Passed
      /\ emitted' \in Seq(Nat) /\ Len(emitted') <= 2
      /\ \A i \in DOMAIN emitted' : emitted'[i] = Passed' + i
  BY <1>1, <1>2, <1>5, EncodedInOrder
<1>7. encoder' # None
  BY <1>5 DEF Holding, None
<1>8. EncoderInv'
  <2>1. left' \in 0..MaxFrames /\ encoded' \in Nat /\ encoded' > 0
    BY <1>1, <1>3, <1>5
  <2>2. encoder' \in {Holding(<<>>), Holding(<<encoded'>>)}
    BY <1>5
  <2> QED
    BY <1>7, <2>1, <2>2 DEF EncoderInv
<1>9. FramesInv'
  <2>1. encoded' + left' = encoded + left
    BY <1>1, <1>3, <1>5
  <2> QED
    BY <1>1, <1>2, <2>1 DEF DeliveryInv, FramesInv, Delivered, Budget
<1> QED
  BY <1>1, <1>2, <1>5, <1>6, <1>7, <1>8, <1>9, EncoderKeeps

LEMMA FlushKeeps ==
  ASSUME DeliveryInv, Flush
  PROVE  DeliveryInv'
<1>1. /\ UNCHANGED <<generator, taken, pending_sentence, is_final, left, pending,
                     cumulative_seq, silence_prepended, raised, tts_queue,
                     handler, sent, closing>>
      /\ generator = "encoding" /\ emitted = <<>> /\ left = 0
      /\ is_final /\ encoder # None
      /\ encoded' = encoded + 1
      /\ emitted' = Append(Held, encoded + 1)
      /\ encoder' = None
  BY DEF Flush, sentences, output
<1>2. EncoderInv /\ encoded \in Nat
  BY Quantities DEF DeliveryInv
<1>3. \/ HeldBack = 0 /\ emitted' = <<encoded + 1>>
      \/ HeldBack = 1 /\ emitted' = <<encoded, encoded + 1>>
  <2>1. CASE Held = <<>> /\ HeldBack = 0
    BY <1>1, <1>2, <2>1, OneFrame
  <2>2. CASE Held = <<encoded>> /\ HeldBack = 1
    BY <1>1, <1>2, <2>2, TwoFrames
  <2> QED
    BY <1>1, <1>2, <2>1, <2>2, EncoderCases
<1>4. /\ Passed' = Passed
      /\ emitted' \in Seq(Nat) /\ Len(emitted') <= 2
      /\ \A i \in DOMAIN emitted' : emitted'[i] = Passed' + i
  BY <1>1, <1>3, EncodedInOrder
<1>5. emitted' # <<>>
  BY <1>3
<1>6. EncoderInv'
  BY <1>1, <1>2, Constants DEF EncoderInv, None, Holding
<1>7. FramesInv'
  <2>1. encoded + left <= Budget(taken + 1) /\ Budget(taken + 1) \in Nat
    BY <1>1, BudgetGrows DEF DeliveryInv, FramesInv, ControlTypes
  <2>2. encoded' + left' <= Budget(taken + 1) + 1
    BY <1>1, <1>2, <2>1
  <2> QED
    BY <1>1, <2>2 DEF FramesInv, Delivered, Budget
<1> QED
  BY <1>1, <1>4, <1>5, <1>6, <1>7, EncoderKeeps

-----------------------------------------------------------------------------
(* The lookahead: a packet is sent when the next one is there, or none is. *)

\* The packet that goes is the next in order and in number.
LEMMA PacketSent ==
  ASSUME DeliveryInv, generator = "encoding", pending # 0,
         NEW final \in BOOLEAN, SendPacket(final), sent' = sent,
         Released' = Released + 1
  PROVE  /\ cumulative_seq' = cumulative_seq + 1
         /\ InQueue' = InQueue + 1 /\ InQueue' = Len(tts_queue')
         /\ DOMAIN tts_queue' = 1..InQueue'
         /\ \A i \in 1..InQueue : tts_queue'[i] = tts_queue[i]
         /\ tts_queue'[InQueue'].is_final = final
         /\ \A i \in DOMAIN tts_queue' : tts_queue'[i] # Done
         /\ QueueTypes'
         /\ raised' = raised => OrderInv'
         /\ PlacesInv'
<1> DEFINE packet == [kind |-> "audio", frame |-> pending, sequence_num |-> cumulative_seq,
                      final_stt |-> cumulative_seq = 0, is_final |-> final]
<1>1. ~Delivered /\ InQueue = Len(tts_queue) /\ \A i \in DOMAIN tts_queue : tts_queue[i] # Done
  <2>1. ~Delivered
    BY DEF Delivered
  <2> QED
    BY <2>1, NoneFinal
<1>2. /\ pending \in Nat /\ pending = Passed /\ Passed = Released + 1
      /\ cumulative_seq \in Nat /\ Released \in Nat
  <2>1. pending \in Nat /\ pending = Passed
    BY DEF DeliveryInv, LookaheadInv
  <2> QED
    BY <2>1, Quantities DEF Released
<1>3. packet \in AudioPacket
  BY <1>2 DEF AudioPacket
<1>4. /\ packet.frame = pending /\ packet.sequence_num = cumulative_seq
      /\ packet.final_stt = (cumulative_seq = 0) /\ packet.is_final = final
  OBVIOUS
<1>5. /\ Len(tts_queue) < Capacity /\ tts_queue' = Append(tts_queue, packet)
      /\ cumulative_seq' = cumulative_seq + 1
  BY DEF SendPacket, Put
<1> HIDE DEF packet
<1>6. tts_queue \in Seq(Item) /\ packet \in Item /\ sent \in Seq(AudioPacket)
  BY <1>3 DEF DeliveryInv, QueueTypes, Item
<1>7. /\ tts_queue' \in Seq(Item) /\ Len(tts_queue') = Len(tts_queue) + 1
      /\ DOMAIN tts_queue = 1..Len(tts_queue)
      /\ DOMAIN tts_queue' = 1..(Len(tts_queue) + 1)
      /\ \A i \in 1..Len(tts_queue) : tts_queue'[i] = tts_queue[i]
      /\ tts_queue'[Len(tts_queue) + 1] = packet
  BY <1>5, <1>6, AppendElements
<1>8. Len(tts_queue) \in Nat /\ Len(sent) \in Nat /\ InQueue = cumulative_seq - Len(sent)
  BY Quantities
<1>9. InQueue' = InQueue + 1 /\ InQueue' = Len(tts_queue')
  <2>1. InQueue' = cumulative_seq' - Len(sent)
    BY DEF InQueue
  <2> QED
    BY <1>1, <1>2, <1>5, <1>7, <1>8, <2>1
<1>10. \A i \in 1..InQueue' : i \in 1..InQueue \/ (i = InQueue' /\ i = InQueue + 1)
  BY <1>1, <1>8, <1>9
<1>11. tts_queue'[InQueue'] = packet /\ \A i \in 1..InQueue : tts_queue'[i] = tts_queue[i]
  BY <1>1, <1>7, <1>9
<1>12. QueueTypes'
  <2>1. /\ sent' \in Seq(AudioPacket) /\ tts_queue' \in Seq(AudioPacket \cup {Done, Error})
        /\ cumulative_seq' \in Nat
    BY <1>2, <1>5, <1>6, <1>7 DEF Item
  <2>2. Len(tts_queue') <= Capacity /\ InQueue' \in 0..Len(tts_queue')
    BY <1>1, <1>5, <1>7, <1>8, <1>9, Constants
  <2> QED
    BY <2>1, <2>2 DEF QueueTypes
<1>13. PlacesInv'
  <2>1. \A i \in DOMAIN sent' :
          sent'[i].sequence_num = i - 1 /\ (sent'[i].final_stt <=> i = 1)
    BY DEF DeliveryInv, PlacesInv
  <2>2. ASSUME NEW i \in 1..InQueue'
        PROVE  /\ tts_queue'[i] \in AudioPacket
               /\ tts_queue'[i].sequence_num = Len(sent') + i - 1
               /\ tts_queue'[i].final_stt <=> Len(sent') + i = 1
    <3>1. CASE i \in 1..InQueue
      BY <1>11, <3>1 DEF DeliveryInv, PlacesInv
    <3>2. CASE i = InQueue'
      <4>1. tts_queue'[i] = packet
        BY <1>11, <3>2
      <4>2. cumulative_seq = Len(sent') + i - 1
        BY <1>2, <1>8, <1>9, <3>2
      <4>3. cumulative_seq = 0 <=> Len(sent') + i = 1
        BY <1>2, <1>8, <1>9, <3>2
      <4> QED
        BY <1>3, <1>4, <4>1, <4>2, <4>3
    <3> QED
      BY <1>10, <3>1, <3>2
  <2>3. \A i \in DOMAIN tts_queue' : ~(i > InQueue')
    BY <1>7, <1>8, <1>9
  <2>4. ~(InQueue' < Len(tts_queue'))
    BY <1>7, <1>8, <1>9
  <2> QED
    BY <2>1, <2>2, <2>3, <2>4 DEF PlacesInv
<1>14. ASSUME raised' = raised
       PROVE  OrderInv'
  <2>1. /\ \A i \in DOMAIN sent : sent[i].frame \in Nat
        /\ \A i \in 1..InQueue : tts_queue[i].frame \in Nat
    <3>1. \A i \in DOMAIN sent : sent[i] \in AudioPacket
      BY <1>6, ElementTyped
    <3>2. \A i \in 1..InQueue : tts_queue[i] \in AudioPacket
      BY DEF DeliveryInv, PlacesInv
    <3> QED
      BY <3>1, <3>2, PacketFields
  <2>2. packet.frame = Released' /\ Released' = Released + 1
    BY <1>2, <1>4
  <2>3. cumulative_seq' <= Released' /\ (raised' = "no" => cumulative_seq' = Released')
    BY <1>2, <1>5, <1>14 DEF DeliveryInv, OrderInv
  <2>4. \A i \in DOMAIN sent' : sent'[i].frame <= Released'
    BY <1>2, <2>1 DEF DeliveryInv, OrderInv
  <2>5. \A i \in 1..InQueue' : tts_queue'[i].frame <= Released'
    BY <1>2, <1>10, <1>11, <2>1, <2>2 DEF DeliveryInv, OrderInv
  <2>6. \A i, j \in DOMAIN sent' : i < j => sent'[i].frame < sent'[j].frame
    BY DEF DeliveryInv, OrderInv
  <2>7. ASSUME NEW i \in 1..InQueue', NEW j \in 1..InQueue', i < j
        PROVE  tts_queue'[i].frame < tts_queue'[j].frame
    <3>1. i \in 1..InQueue
      BY <1>1, <1>8, <1>9, <2>7
    <3>2. CASE j \in 1..InQueue
      BY <1>11, <2>7, <3>1, <3>2 DEF DeliveryInv, OrderInv
    <3>3. CASE j = InQueue'
      <4>1. tts_queue[i].frame <= Released /\ tts_queue[i].frame \in Nat
        BY <2>1, <3>1 DEF DeliveryInv, OrderInv
      <4> QED
        BY <1>2, <1>11, <2>2, <3>1, <3>3, <4>1
    <3> QED
      BY <1>10, <3>2, <3>3
  <2>8. ASSUME NEW i \in DOMAIN sent', NEW j \in 1..InQueue'
        PROVE  sent'[i].frame < tts_queue'[j].frame
    <3>1. CASE j \in 1..InQueue
      BY <1>11, <3>1 DEF DeliveryInv, OrderInv
    <3>2. CASE j = InQueue'
      <4>1. sent[i].frame <= Released /\ sent[i].frame \in Nat
        BY <2>1 DEF DeliveryInv, OrderInv
      <4> QED
        BY <1>2, <1>11, <2>2, <3>2, <4>1
    <3> QED
      BY <1>10, <3>1, <3>2
  <2> QED
    BY <2>3, <2>4, <2>5, <2>6, <2>7, <2>8 DEF OrderInv
<1>15. \A i \in DOMAIN tts_queue' : tts_queue'[i] # Done
  <2>1. packet # Done
    BY <1>3, PacketFields
  <2> QED
    BY <1>1, <1>7, <1>9, <1>10, <1>11, <2>1
<1> QED
  BY <1>4, <1>5, <1>7, <1>9, <1>11, <1>12, <1>13, <1>14, <1>15

LEMMA NextPacketKeeps ==
  ASSUME DeliveryInv, NextPacket
  PROVE  DeliveryInv'
<1>1. /\ UNCHANGED <<generator, taken, pending_sentence, is_final, left, encoder, encoded,
                     silence_prepended, raised, handler, sent, closing>>
      /\ generator = "encoding" /\ emitted # <<>>
      /\ pending' = Head(emitted) /\ emitted' = Tail(emitted)
  BY DEF NextPacket, sentences, output
<1>2. ~Delivered /\ ~Delivered'
  BY <1>1 DEF Delivered
<1>3. /\ emitted \in Seq(Nat) /\ Len(emitted) <= 2 /\ Passed \in Nat
      /\ \A i \in DOMAIN emitted : emitted[i] = Passed + i
  BY DEF DeliveryInv, LookaheadInv
<1>4. /\ emitted' \in Seq(Nat) /\ Len(emitted) \in Nat \ {0}
      /\ Len(emitted') = Len(emitted) - 1
      /\ DOMAIN emitted = 1..Len(emitted) /\ DOMAIN emitted' = 1..(Len(emitted) - 1)
      /\ \A i \in 1..(Len(emitted) - 1) : emitted'[i] = emitted[i + 1]
      /\ pending' = emitted[1]
  BY <1>1, <1>3, TailElements
<1>5. Passed' = Passed + 1 /\ pending' = Passed' /\ Released' = Passed
  <2>1. HeldBack' = HeldBack
    BY <1>1 DEF HeldBack, Held
  <2>2. Passed' = encoded - HeldBack - Len(emitted')
    BY <1>1, <2>1 DEF Passed
  <2>3. Passed' = Passed + 1
    <3>1. Len(emitted') = Len(emitted) - 1
      BY <1>4
    <3>2. Passed = encoded - HeldBack - Len(emitted) /\ encoded \in Nat
          /\ HeldBack \in Int /\ Len(emitted) \in Nat
      BY Quantities
    <3> QED
      BY <2>2, <3>1, <3>2
  <2>4. pending' = Passed + 1
    BY <1>3, <1>4
  <2> QED
    BY <1>3, <2>3, <2>4 DEF Released
<1>6. LookaheadInv'
  <2>1. \A i \in DOMAIN emitted' : emitted'[i] = Passed' + i
    BY <1>3, <1>4, <1>5
  <2>2. Len(emitted') <= 2 /\ pending' \in Nat /\ Passed' \in Nat
    BY <1>3, <1>4, <1>5
  <2> QED
    BY <1>4, <1>5, <2>1, <2>2 DEF LookaheadInv
<1>7. ControlTypes' /\ EncoderInv' /\ FramesInv'
  <2>1. ControlTypes'
    BY <1>1 DEF DeliveryInv, ControlTypes
  <2>2. EncoderInv'
    BY <1>1 DEF DeliveryInv, EncoderInv
  <2>3. FramesInv'
    BY <1>1 DEF DeliveryInv, FramesInv, Delivered, Budget
  <2> QED
    BY <2>1, <2>2, <2>3
<1>8. QueueTypes' /\ PlacesInv' /\ OrderInv' /\ LastInv'
      /\ \A i \in DOMAIN tts_queue' : tts_queue'[i] # Done
  <2>1. CASE pending = 0
    <3>1. UNCHANGED <<sent, tts_queue, cumulative_seq>>
      BY <1>1, <2>1 DEF NextPacket
    <3>2. Released' = Released
      BY <1>5, <2>1 DEF Released
    <3>3. QueueTypes' /\ InQueue' = InQueue
      BY <3>1, QueueSame
    <3>4. PlacesInv'
      BY <1>1, <3>1, <3>3 DEF DeliveryInv, PlacesInv
    <3>5. OrderInv'
      BY <1>1, <3>1, <3>2, OrderSame
    <3>6. LastInv'
      BY <1>2, <3>1, <3>3, NoneFinal DEF LastInv
    <3> QED
      BY <1>2, <3>1, <3>3, <3>4, <3>5, <3>6, NoneFinal
  <2>2. CASE pending # 0
    <3>1. SendPacket(FALSE)
      BY <2>2 DEF NextPacket
    <3>2. Released' = Released + 1
      BY <1>3, <1>5, <2>2 DEF Released
    <3>3. /\ InQueue' = InQueue + 1
          /\ \A i \in 1..InQueue : tts_queue'[i] = tts_queue[i]
          /\ tts_queue'[InQueue'].is_final = FALSE
          /\ \A i \in DOMAIN tts_queue' : tts_queue'[i] # Done
          /\ QueueTypes' /\ PlacesInv' /\ (raised' = raised => OrderInv')
      BY <1>1, <2>2, <3>1, <3>2, PacketSent
    <3>4. \A i \in 1..InQueue' : ~tts_queue'[i].is_final
      <4>1. \A i \in 1..InQueue' : i \in 1..InQueue \/ i = InQueue'
        BY <3>3, Quantities
      <4> QED
        BY <1>2, <3>3, <4>1, NoneFinal
    <3>5. LastInv'
      BY <1>1, <1>2, <3>4, NoneFinal DEF LastInv
    <3> QED
      BY <1>1, <3>3, <3>5
  <2> QED
    BY <2>1, <2>2
<1>9. FlushInv'
  <2>1. pending' # 0
    BY <1>3, <1>5
  <2> QED
    BY <1>1, <1>2, <2>1 DEF DeliveryInv, FlushInv
<1>10. FinalInv'
  BY <1>2 DEF FinalInv
<1>11. DoneInv'
  BY <1>1, <1>2, <1>8, NoneFinal DEF DoneInv
<1> QED
  BY <1>6, <1>7, <1>8, <1>9, <1>10, <1>11 DEF DeliveryInv

LEMMA ReturnFrames ==
  ASSUME DeliveryInv, Return
  PROVE  FramesInv'
<1>1. /\ taken' = taken /\ encoded' = encoded /\ is_final' = is_final
      /\ generator = "encoding"
      /\ is_final => generator' = "committing"
      /\ ~is_final => generator' = "pulling"
  BY DEF Return, CallbackReady, AfterDelivery, sentences
<1>2. encoded \in Nat /\ left = 0
  BY Quantities DEF Return, CallbackReady
<1>3. CASE is_final
  <2>1. encoded + left <= Budget(taken + 1) + 1
    BY <1>1, <1>3 DEF DeliveryInv, FramesInv
  <2>2. encoded' <= Budget(taken' + 1) + 1
    BY <1>1, <1>2, <2>1
  <2> QED
    BY <1>1, <1>3, <2>2 DEF FramesInv, Delivered, Budget
<1>4. CASE ~is_final
  <2>1. encoded + left <= Budget(taken)
    BY <1>1, <1>4 DEF DeliveryInv, FramesInv
  <2>2. encoded' <= Budget(taken')
    BY <1>1, <1>2, <2>1
  <2> QED
    BY <1>1, <1>4, <2>2 DEF FramesInv, Delivered, Budget
<1> QED
  BY <1>3, <1>4

\* The last packet of the call, final with the last sentence.
LEMMA ReturnKeeps ==
  ASSUME DeliveryInv, Return
  PROVE  DeliveryInv'
<1>1. /\ UNCHANGED <<taken, pending_sentence, is_final, left, encoder, encoded, emitted,
                     silence_prepended, raised, handler, sent, closing>>
      /\ generator = "encoding" /\ emitted = <<>> /\ left = 0
      /\ is_final => encoder = None
      /\ pending' = 0
      /\ is_final => generator' = "committing"
      /\ ~is_final => generator' = "pulling"
  BY DEF Return, CallbackReady, AfterDelivery, sentences, output
<1>2. ~Delivered /\ (Delivered' <=> is_final) /\ generator' \in {"committing", "pulling"}
  <2>1. ~Delivered
    BY <1>1 DEF Delivered
  <2>2. CASE is_final
    BY <1>1, <2>2 DEF Delivered
  <2>3. CASE ~is_final
    BY <1>1, <2>3 DEF Delivered
  <2> QED
    BY <2>1, <2>2, <2>3
<1>3. HeldBack' = HeldBack /\ Passed' = Passed /\ Released' = Passed
  <2>1. HeldBack' = HeldBack
    BY <1>1 DEF HeldBack, Held
  <2>2. Passed' = Passed
    BY <1>1, <2>1 DEF Passed
  <2> QED
    BY <1>1, <2>1, <2>2 DEF Released
<1>4. ControlTypes'
  BY <1>1, <1>2 DEF DeliveryInv, ControlTypes
<1>5. EncoderInv'
  BY <1>1, <1>2 DEF DeliveryInv, EncoderInv
<1>6. LookaheadInv'
  BY <1>1, <1>3 DEF DeliveryInv, LookaheadInv
<1>7. FlushInv'
  <2>1. ASSUME encoder = None, ~is_final
        PROVE  encoded = 0
    BY <1>1, <1>2, <2>1 DEF DeliveryInv, FlushInv
  <2> QED
    BY <1>1, <1>2, <2>1 DEF FlushInv
<1>8. ~is_final => FinalInv'
  BY <1>2 DEF FinalInv
<1>9. QueueTypes' /\ PlacesInv' /\ OrderInv' /\ LastInv' /\ FinalInv'
      /\ \A i \in DOMAIN tts_queue' : tts_queue'[i] # Done
  <2>1. CASE pending = 0
    <3>1. UNCHANGED <<sent, tts_queue, cumulative_seq>>
      BY <1>1, <2>1 DEF Return
    <3>2. Released' = Released
      BY <1>3, <2>1 DEF Released
    <3>3. QueueTypes' /\ InQueue' = InQueue
      BY <3>1, QueueSame
    <3>4. PlacesInv'
      BY <1>2, <3>1, <3>3, NoneFinal, Quantities DEF DeliveryInv, PlacesInv
    <3>5. OrderInv'
      BY <1>1, <3>1, <3>2, OrderSame
    <3>6. LastInv'
      BY <1>2, <3>1, <3>3, NoneFinal DEF LastInv
    <3>7. is_final => cumulative_seq = 0
      <4> SUFFICES ASSUME is_final
                   PROVE  cumulative_seq = 0
        OBVIOUS
      <4>1. encoded = 0
        BY <1>1, <1>2, <2>1 DEF DeliveryInv, FlushInv
      <4>2. Released <= encoded
        BY <2>1, Quantities DEF Released
      <4>3. cumulative_seq <= Released
        BY DEF DeliveryInv, OrderInv
      <4> QED
        BY <4>1, <4>2, <4>3, Quantities
    <3>8. is_final => FinalInv'
      BY <3>1, <3>7 DEF FinalInv
    <3> QED
      BY <1>2, <1>8, <3>1, <3>3, <3>4, <3>5, <3>6, <3>8, NoneFinal
  <2>2. CASE pending # 0
    <3>1. SendPacket(is_final) /\ is_final \in BOOLEAN
      BY <2>2 DEF Return, DeliveryInv, ControlTypes
    <3>2. Released' = Released + 1
      BY <1>3, <2>2, Quantities DEF Released
    <3>3. /\ InQueue' = InQueue + 1
          /\ \A i \in 1..InQueue : tts_queue'[i] = tts_queue[i]
          /\ tts_queue'[InQueue'].is_final = is_final
          /\ \A i \in DOMAIN tts_queue' : tts_queue'[i] # Done
          /\ QueueTypes' /\ PlacesInv' /\ (raised' = raised => OrderInv')
      BY <1>1, <2>2, <3>1, <3>2, PacketSent
    <3>4. \A i \in 1..InQueue' : tts_queue'[i].is_final => is_final /\ i = InQueue'
      <4>1. \A i \in 1..InQueue' : i \in 1..InQueue \/ i = InQueue'
        BY <3>3, Quantities
      <4> QED
        BY <1>2, <3>3, <4>1, NoneFinal
    <3>5. LastInv'
      BY <1>1, <1>2, <3>4, NoneFinal DEF LastInv
    <3>6. is_final => FinalInv'
      <4>1. InQueue' # 0
        BY <3>3, Quantities
      <4> QED
        BY <3>3, <4>1 DEF FinalInv
    <3> QED
      BY <1>1, <1>8, <3>3, <3>5, <3>6
  <2> QED
    BY <2>1, <2>2
<1>10. DoneInv'
  BY <1>1, <1>2, <1>9, NoneFinal DEF DoneInv
<1> QED
  BY <1>4, <1>5, <1>6, <1>7, <1>9, <1>10, ReturnFrames DEF DeliveryInv

-----------------------------------------------------------------------------
(* The end of the orchestration: its error and _DONE.                      *)

LEMMA LastItemsKeep ==
  ASSUME DeliveryInv, ReportFailure \/ PutDone
  PROVE  DeliveryInv'
<1>1. PICK item \in {Error, Done} :
        /\ Len(tts_queue) < Capacity /\ tts_queue' = Append(tts_queue, item)
        /\ item = Error => generator = "failed" /\ generator' = "ending"
        /\ item = Done => generator = "ending" /\ generator' = "over"
  <2>1. Error # Done
    BY DEF Error, Done
  <2>2. CASE ReportFailure
    BY <2>1, <2>2 DEF ReportFailure, Put
  <2>3. CASE PutDone
    BY <2>1, <2>3 DEF PutDone, Put
  <2> QED
    BY <2>2, <2>3
<1>2. UNCHANGED <<taken, pending_sentence, is_final, left, encoder, encoded, emitted,
                  pending, cumulative_seq, silence_prepended, raised, handler, sent,
                  closing>>
  BY DEF ReportFailure, PutDone, sentences, delivery, output
<1>3. /\ generator \in {"failed", "ending"} /\ generator' \in {"ending", "over"}
      /\ Delivered /\ Delivered'
  BY <1>1 DEF Delivered
<1>4. tts_queue \in Seq(Item) /\ item \in Item
  BY DEF DeliveryInv, QueueTypes, Item
<1>5. /\ tts_queue' \in Seq(Item) /\ Len(tts_queue') = Len(tts_queue) + 1
      /\ DOMAIN tts_queue = 1..Len(tts_queue)
      /\ DOMAIN tts_queue' = 1..(Len(tts_queue) + 1)
      /\ \A i \in 1..Len(tts_queue) : tts_queue'[i] = tts_queue[i]
      /\ tts_queue'[Len(tts_queue) + 1] = item
  BY <1>1, <1>4, AppendElements
<1>6. InQueue' = InQueue /\ InQueue \in Nat /\ Len(tts_queue) \in Nat
      /\ InQueue <= Len(tts_queue)
  BY <1>2, Quantities DEF InQueue
<1>7. \A i \in 1..InQueue : i \in DOMAIN tts_queue /\ tts_queue'[i] = tts_queue[i]
  BY <1>5, <1>6
<1>8. \A i \in DOMAIN tts_queue' :
        (i \in DOMAIN tts_queue /\ tts_queue'[i] = tts_queue[i] /\ i <= Len(tts_queue))
        \/ (i = Len(tts_queue) + 1 /\ tts_queue'[i] = item)
  BY <1>5, <1>6
<1>9. Released' = Released /\ LookaheadInv'
  BY <1>2, DeliverySame
<1>10. ControlTypes'
  BY <1>2, <1>3 DEF DeliveryInv, ControlTypes
<1>11. EncoderInv'
  BY <1>2, <1>3 DEF DeliveryInv, EncoderInv
<1>12. FramesInv'
  <2>1. encoded' <= Budget(taken' + 1) + 1
    BY <1>2, <1>3 DEF DeliveryInv, FramesInv
  <2> QED
    BY <1>3, <2>1 DEF FramesInv, Budget
<1>13. QueueTypes'
  <2>1. Len(tts_queue') <= Capacity /\ InQueue' \in 0..Len(tts_queue')
    BY <1>1, <1>5, <1>6, Constants
  <2> QED
    BY <1>2, <1>5, <2>1 DEF DeliveryInv, QueueTypes, Item
<1>14. PlacesInv'
  <2>1. \A i \in 1..InQueue' :
          /\ tts_queue'[i] \in AudioPacket
          /\ tts_queue'[i].sequence_num = Len(sent') + i - 1
          /\ tts_queue'[i].final_stt <=> Len(sent') + i = 1
    BY <1>2, <1>6, <1>7 DEF DeliveryInv, PlacesInv
  <2>2. \A i \in DOMAIN tts_queue' : i > InQueue' => tts_queue'[i] \in {Done, Error}
    BY <1>6, <1>8 DEF DeliveryInv, PlacesInv
  <2> QED
    BY <1>2, <1>3, <2>1, <2>2 DEF DeliveryInv, PlacesInv
<1>15. OrderInv'
  BY <1>2, <1>6, <1>7, <1>9 DEF DeliveryInv, OrderInv
<1>16. LastInv'
  BY <1>2, <1>3, <1>6, <1>7 DEF DeliveryInv, LastInv
<1>17. FlushInv'
  BY <1>2, <1>3 DEF DeliveryInv, FlushInv
<1>18. FinalInv'
  <2>1. InQueue # 0 => tts_queue'[InQueue] = tts_queue[InQueue]
    BY <1>6, <1>7
  <2> QED
    BY <1>2, <1>3, <1>6, <2>1 DEF DeliveryInv, FinalInv
<1>19. DoneInv'
  <2>1. \A i \in DOMAIN tts_queue : tts_queue[i] # Done
    BY <1>3 DEF DeliveryInv, DoneInv
  <2>2. Error # Done
    BY DEF Error, Done
  <2>3. generator' # "over" => \A i \in DOMAIN tts_queue' : tts_queue'[i] # Done
    BY <1>1, <1>8, <2>1, <2>2
  <2>4. \A i \in DOMAIN tts_queue' : tts_queue'[i] = Done => i = Len(tts_queue')
    BY <1>5, <1>8, <2>1
  <2>5. handler' # "done"
    BY <1>2, <1>3 DEF DeliveryInv, DoneInv
  <2>6. handler' # "gone" => emitted' = <<>> /\ pending' = 0
    BY <1>2, <1>3 DEF DeliveryInv, FlushInv
  <2> QED
    BY <2>3, <2>4, <2>5, <2>6 DEF DoneInv
<1> QED
  BY <1>9, <1>10, <1>11, <1>12, <1>13, <1>14, <1>15, <1>16, <1>17, <1>18, <1>19
     DEF DeliveryInv

-----------------------------------------------------------------------------
(* The handler: it sends what is in the queue, in order, until _DONE.      *)

\* What a step of the queue's reader leaves of the rest.
LEMMA HandlerLeaves ==
  ASSUME DeliveryInv,
         UNCHANGED <<generator, taken, pending_sentence, is_final, left, encoder, encoded,
                     emitted, pending, cumulative_seq, silence_prepended, raised>>
  PROVE  /\ EncoderInv' /\ LookaheadInv' /\ FramesInv'
         /\ Released' = Released /\ (Delivered' <=> Delivered)
<1>1. EncoderInv'
  BY DEF DeliveryInv, EncoderInv
<1>2. LookaheadInv' /\ Released' = Released
  BY DeliverySame
<1>3. Delivered' <=> Delivered
  BY DEF Delivered
<1>4. FramesInv'
  BY <1>3 DEF DeliveryInv, FramesInv, Budget
<1> QED
  BY <1>1, <1>2, <1>3, <1>4

\* The queue after its first item.
LEMMA ItemTaken ==
  ASSUME DeliveryInv, tts_queue # <<>>, tts_queue' = Tail(tts_queue)
  PROVE  /\ tts_queue' \in Seq(Item) /\ tts_queue[1] = Head(tts_queue)
         /\ Len(tts_queue) > 0 /\ Len(tts_queue') = Len(tts_queue) - 1
         /\ DOMAIN tts_queue = 1..Len(tts_queue) /\ 1 \in DOMAIN tts_queue
         /\ DOMAIN tts_queue' = 1..(Len(tts_queue) - 1)
         /\ \A i \in DOMAIN tts_queue' :
              i + 1 \in DOMAIN tts_queue /\ tts_queue'[i] = tts_queue[i + 1]
<1>1. tts_queue \in Seq(Item)
  BY DEF DeliveryInv, QueueTypes, Item
<1>2. /\ tts_queue' \in Seq(Item) /\ tts_queue[1] = Head(tts_queue)
      /\ Len(tts_queue) \in Nat \ {0} /\ Len(tts_queue') = Len(tts_queue) - 1
      /\ DOMAIN tts_queue = 1..Len(tts_queue)
      /\ DOMAIN tts_queue' = 1..(Len(tts_queue) - 1)
      /\ \A i \in 1..(Len(tts_queue) - 1) : tts_queue'[i] = tts_queue[i + 1]
  BY <1>1, TailElements
<1> QED
  BY <1>2

\* Error and _DONE are behind all audio.
LEMMA FirstItem ==
  ASSUME DeliveryInv, tts_queue # <<>>
  PROVE  /\ Head(tts_queue) \in {Done, Error} => InQueue = 0
         /\ Head(tts_queue) \notin {Done, Error} =>
              InQueue > 0 /\ Head(tts_queue) \in AudioPacket
<1>1. /\ tts_queue[1] = Head(tts_queue) /\ 1 \in DOMAIN tts_queue
  <2>1. tts_queue \in Seq(Item)
    BY DEF DeliveryInv, QueueTypes, Item
  <2> QED
    BY <2>1, TailElements
<1>2. CASE InQueue = 0
  BY <1>1, <1>2 DEF DeliveryInv, PlacesInv
<1>3. CASE InQueue > 0
  <2>1. tts_queue[1] \in AudioPacket
    BY <1>3, Quantities DEF DeliveryInv, PlacesInv
  <2> QED
    BY <1>1, <1>3, <2>1, PacketFields
<1> QED
  BY <1>2, <1>3, Quantities

\* A packet is yielded: the one with the next number.
LEMMA AudioSent ==
  ASSUME DeliveryInv, Yield, Head(tts_queue) # Error
  PROVE  /\ Head(tts_queue) \in AudioPacket /\ InQueue > 0
         /\ sent' = Append(sent, Head(tts_queue))
         /\ sent' \in Seq(AudioPacket) /\ Len(sent') = Len(sent) + 1
         /\ DOMAIN sent = 1..Len(sent) /\ DOMAIN sent' = 1..(Len(sent) + 1)
         /\ \A i \in 1..Len(sent) : sent'[i] = sent[i]
         /\ sent'[Len(sent) + 1] = tts_queue[1]
         /\ InQueue' = InQueue - 1
<1>1. /\ tts_queue # <<>> /\ Head(tts_queue) \notin {Done, Error}
      /\ sent' = Append(sent, Head(tts_queue)) /\ cumulative_seq' = cumulative_seq
      /\ tts_queue' = Tail(tts_queue)
  BY DEF Yield, delivery
<1>2. Head(tts_queue) \in AudioPacket /\ InQueue > 0 /\ tts_queue[1] = Head(tts_queue)
  BY <1>1, FirstItem, ItemTaken
<1>3. sent \in Seq(AudioPacket)
  BY DEF DeliveryInv, QueueTypes
<1>4. /\ sent' \in Seq(AudioPacket) /\ Len(sent') = Len(sent) + 1
      /\ DOMAIN sent = 1..Len(sent) /\ DOMAIN sent' = 1..(Len(sent) + 1)
      /\ \A i \in 1..Len(sent) : sent'[i] = sent[i]
      /\ sent'[Len(sent) + 1] = Head(tts_queue)
  BY <1>1, <1>2, <1>3, AppendElements
<1>5. InQueue' = InQueue - 1
  <2>1. InQueue' = cumulative_seq - Len(sent')
    BY <1>1 DEF InQueue
  <2> QED
    BY <1>4, <2>1, Quantities
<1> QED
  BY <1>1, <1>2, <1>4, <1>5

LEMMA AudioSentKeeps ==
  ASSUME DeliveryInv, Yield, Head(tts_queue) # Error
  PROVE  DeliveryInv'
<1>1. /\ UNCHANGED <<generator, taken, pending_sentence, is_final, left, encoder, encoded,
                     emitted, pending, cumulative_seq, silence_prepended, raised, handler,
                     closing>>
      /\ handler = "reading" /\ tts_queue # <<>> /\ tts_queue' = Tail(tts_queue)
  BY DEF Yield, sentences, delivery
<1>2. EncoderInv' /\ LookaheadInv' /\ FramesInv' /\ Released' = Released
      /\ (Delivered' <=> Delivered)
  BY <1>1, HandlerLeaves
<1>3. /\ tts_queue' \in Seq(Item)
      /\ Len(tts_queue) > 0 /\ Len(tts_queue') = Len(tts_queue) - 1
      /\ DOMAIN tts_queue = 1..Len(tts_queue)
      /\ DOMAIN tts_queue' = 1..(Len(tts_queue) - 1)
      /\ \A i \in DOMAIN tts_queue' :
           i + 1 \in DOMAIN tts_queue /\ tts_queue'[i] = tts_queue[i + 1]
  BY <1>1, ItemTaken
<1>4. /\ InQueue > 0 /\ InQueue' = InQueue - 1
      /\ sent' \in Seq(AudioPacket) /\ Len(sent') = Len(sent) + 1
      /\ DOMAIN sent = 1..Len(sent) /\ DOMAIN sent' = 1..(Len(sent) + 1)
      /\ \A i \in 1..Len(sent) : sent'[i] = sent[i]
      /\ sent'[Len(sent) + 1] = tts_queue[1]
  BY AudioSent
<1>5. /\ InQueue \in Nat /\ InQueue <= Len(tts_queue) /\ Len(tts_queue) \in Nat
      /\ Len(sent) \in Nat /\ InQueue = cumulative_seq - Len(sent) /\ cumulative_seq \in Nat
  BY Quantities
<1>6. 1 \in 1..InQueue /\ InQueue # 0
  <2>1. InQueue > 0 /\ InQueue \in Nat
    BY <1>4, <1>5
  <2> QED
    BY <2>1
<1>7. \A i \in 1..InQueue' : i + 1 \in 1..InQueue /\ tts_queue'[i] = tts_queue[i + 1]
  <2>1. InQueue' = InQueue - 1
    BY <1>4
  <2>2. \A i \in 1..InQueue' : i + 1 \in 1..InQueue /\ i \in 1..(Len(tts_queue) - 1)
    BY <1>5, <2>1
  <2> QED
    BY <1>3, <2>2
<1>8. \A i \in DOMAIN sent' : (i \in DOMAIN sent /\ sent'[i] = sent[i])
                             \/ (i = Len(sent) + 1 /\ sent'[i] = tts_queue[1])
  BY <1>4, <1>5
<1>9. ControlTypes'
  BY <1>1 DEF DeliveryInv, ControlTypes
<1>10. QueueTypes'
  <2>1. Len(tts_queue') <= Capacity /\ InQueue' \in 0..Len(tts_queue')
    BY <1>3, <1>4, <1>5, Constants DEF DeliveryInv, QueueTypes
  <2> QED
    BY <1>1, <1>3, <1>4, <1>5, <2>1 DEF QueueTypes, Item
<1>11. PlacesInv'
  <2>1. ASSUME NEW i \in DOMAIN sent'
        PROVE  sent'[i].sequence_num = i - 1 /\ (sent'[i].final_stt <=> i = 1)
    <3>1. CASE i \in DOMAIN sent /\ sent'[i] = sent[i]
      BY <3>1 DEF DeliveryInv, PlacesInv
    <3>2. CASE i = Len(sent) + 1 /\ sent'[i] = tts_queue[1]
      <4>1. /\ tts_queue[1].sequence_num = Len(sent) + 1 - 1
            /\ tts_queue[1].final_stt <=> Len(sent) + 1 = 1
        BY <1>6 DEF DeliveryInv, PlacesInv
      <4> QED
        BY <3>2, <4>1
    <3> QED
      BY <1>8, <3>1, <3>2
  <2>2. ASSUME NEW i \in 1..InQueue'
        PROVE  /\ tts_queue'[i] \in AudioPacket
               /\ tts_queue'[i].sequence_num = Len(sent') + i - 1
               /\ tts_queue'[i].final_stt <=> Len(sent') + i = 1
    <3>1. i + 1 \in 1..InQueue /\ tts_queue'[i] = tts_queue[i + 1]
      BY <1>7
    <3>2. /\ tts_queue[i + 1] \in AudioPacket
          /\ tts_queue[i + 1].sequence_num = Len(sent) + (i + 1) - 1
          /\ tts_queue[i + 1].final_stt <=> Len(sent) + (i + 1) = 1
      BY <3>1 DEF DeliveryInv, PlacesInv
    <3>3. Len(sent) + (i + 1) = Len(sent') + i
      BY <1>4, <1>5
    <3> QED
      BY <3>1, <3>2, <3>3
  <2>3. \A i \in DOMAIN tts_queue' : i > InQueue' => tts_queue'[i] \in {Done, Error}
    <3> SUFFICES ASSUME NEW i \in DOMAIN tts_queue', i > InQueue'
                 PROVE  tts_queue'[i] \in {Done, Error}
      OBVIOUS
    <3>1. i + 1 \in DOMAIN tts_queue /\ tts_queue'[i] = tts_queue[i + 1] /\ i + 1 > InQueue
      BY <1>3, <1>4, <1>5
    <3> QED
      BY <3>1 DEF DeliveryInv, PlacesInv
  <2>4. InQueue' < Len(tts_queue') => generator' \in {"ending", "over"}
    BY <1>1, <1>3, <1>4, <1>5 DEF DeliveryInv, PlacesInv
  <2> QED
    BY <2>1, <2>2, <2>3, <2>4 DEF PlacesInv
<1>12. OrderInv'
  <2>1. cumulative_seq' <= Released' /\ (raised' = "no" => cumulative_seq' = Released')
    BY <1>1, <1>2 DEF DeliveryInv, OrderInv
  <2>2. tts_queue[1].frame <= Released
    BY <1>6 DEF DeliveryInv, OrderInv
  <2>3. \A i \in DOMAIN sent' : sent'[i].frame <= Released'
    BY <1>2, <1>8, <2>2 DEF DeliveryInv, OrderInv
  <2>4. \A i \in 1..InQueue' : tts_queue'[i].frame <= Released'
    BY <1>2, <1>7 DEF DeliveryInv, OrderInv
  <2>5. ASSUME NEW i \in DOMAIN sent', NEW j \in DOMAIN sent', i < j
        PROVE  sent'[i].frame < sent'[j].frame
    <3>1. i \in DOMAIN sent /\ sent'[i] = sent[i]
      BY <1>4, <1>5, <2>5
    <3>2. CASE j \in DOMAIN sent /\ sent'[j] = sent[j]
      BY <2>5, <3>1, <3>2 DEF DeliveryInv, OrderInv
    <3>3. CASE sent'[j] = tts_queue[1]
      BY <1>6, <3>1, <3>3 DEF DeliveryInv, OrderInv
    <3> QED
      BY <1>8, <3>2, <3>3
  <2>6. ASSUME NEW i \in 1..InQueue', NEW j \in 1..InQueue', i < j
        PROVE  tts_queue'[i].frame < tts_queue'[j].frame
    <3>1. i + 1 \in 1..InQueue /\ j + 1 \in 1..InQueue /\ i + 1 < j + 1
      BY <1>7, <2>6
    <3> QED
      BY <1>7, <3>1 DEF DeliveryInv, OrderInv
  <2>7. ASSUME NEW i \in DOMAIN sent', NEW j \in 1..InQueue'
        PROVE  sent'[i].frame < tts_queue'[j].frame
    <3>1. j + 1 \in 1..InQueue /\ tts_queue'[j] = tts_queue[j + 1] /\ 1 < j + 1
      BY <1>7
    <3>2. CASE i \in DOMAIN sent /\ sent'[i] = sent[i]
      BY <3>1, <3>2 DEF DeliveryInv, OrderInv
    <3>3. CASE sent'[i] = tts_queue[1]
      BY <1>6, <3>1, <3>3 DEF DeliveryInv, OrderInv
    <3> QED
      BY <1>8, <3>2, <3>3
  <2> QED
    BY <2>1, <2>3, <2>4, <2>5, <2>6, <2>7 DEF OrderInv
<1>13. LastInv'
  <2>1. ASSUME NEW i \in DOMAIN sent', sent'[i].is_final
        PROVE  Delivered' /\ i = cumulative_seq'
    <3>1. CASE i \in DOMAIN sent /\ sent'[i] = sent[i]
      BY <1>1, <1>2, <2>1, <3>1 DEF DeliveryInv, LastInv
    <3>2. CASE i = Len(sent) + 1 /\ sent'[i] = tts_queue[1]
      <4>1. Delivered /\ 1 = InQueue
        BY <1>6, <2>1, <3>2 DEF DeliveryInv, LastInv
      <4> QED
        BY <1>1, <1>2, <1>5, <3>2, <4>1
    <3> QED
      BY <1>8, <3>1, <3>2
  <2>2. ASSUME NEW i \in 1..InQueue', tts_queue'[i].is_final
        PROVE  Delivered' /\ i = InQueue'
    <3>1. i + 1 \in 1..InQueue /\ tts_queue'[i] = tts_queue[i + 1]
      BY <1>7
    <3>2. Delivered /\ i + 1 = InQueue
      BY <2>2, <3>1 DEF DeliveryInv, LastInv
    <3> QED
      BY <1>2, <1>4, <1>5, <3>2
  <2> QED
    BY <2>1, <2>2 DEF LastInv
<1>14. FlushInv'
  BY <1>1, <1>2 DEF DeliveryInv, FlushInv
<1>15. FinalInv'
  <2> SUFFICES ASSUME Delivered, raised # "last", cumulative_seq > 0
               PROVE  IF InQueue' = 0 THEN sent'[Len(sent')].is_final
                                      ELSE tts_queue'[InQueue'].is_final
    BY <1>1, <1>2 DEF FinalInv
  <2>1. tts_queue[InQueue].is_final
    BY <1>1, <1>6 DEF DeliveryInv, FinalInv
  <2>2. CASE InQueue' = 0
    BY <1>4, <1>5, <2>1, <2>2
  <2>3. CASE InQueue' # 0
    <3>1. InQueue' \in 1..InQueue' /\ InQueue' + 1 = InQueue
      BY <1>4, <1>5, <2>3
    <3>2. tts_queue'[InQueue'] = tts_queue[InQueue]
      BY <1>7, <3>1
    <3> QED
      BY <2>1, <2>3, <3>2
  <2> QED
    BY <2>2, <2>3
<1>16. DoneInv'
  <2>1. \A i \in DOMAIN tts_queue' : tts_queue'[i] = Done => i = Len(tts_queue')
    <3> SUFFICES ASSUME NEW i \in DOMAIN tts_queue', tts_queue'[i] = Done
                 PROVE  i = Len(tts_queue')
      OBVIOUS
    <3>1. i + 1 = Len(tts_queue)
      BY <1>3 DEF DeliveryInv, DoneInv
    <3> QED
      BY <1>3, <1>5, <3>1
  <2>2. generator' # "over" => \A i \in DOMAIN tts_queue' : tts_queue'[i] # Done
    BY <1>1, <1>3 DEF DeliveryInv, DoneInv
  <2> QED
    BY <1>1, <2>1, <2>2 DEF DeliveryInv, DoneInv
<1> QED
  BY <1>2, <1>9, <1>10, <1>11, <1>12, <1>13, <1>14, <1>15, <1>16 DEF DeliveryInv

\* An error or _DONE is read when all audio has been sent.
LEMMA EndReadKeeps ==
  ASSUME DeliveryInv, (Yield /\ Head(tts_queue) = Error) \/ Conclude
  PROVE  DeliveryInv'
<1>1. /\ UNCHANGED <<generator, taken, pending_sentence, is_final, left, encoder, encoded,
                     emitted, pending, cumulative_seq, silence_prepended, raised, sent>>
      /\ handler = "reading" /\ handler' \in {"reading", "done"}
      /\ tts_queue # <<>> /\ tts_queue' = Tail(tts_queue)
      /\ Head(tts_queue) \in {Done, Error}
      /\ closing' \subseteq closing \cup {"error", "text"}
      /\ handler' = "done" =>
           Head(tts_queue) = Done /\ (sent # <<>> \/ closing' # {})
  <2>1. CASE Yield /\ Head(tts_queue) = Error
    BY <2>1 DEF Yield, sentences, delivery
  <2>2. CASE Conclude
    BY <2>2 DEF Conclude, sentences, delivery
  <2> QED
    BY <2>1, <2>2
<1>2. EncoderInv' /\ LookaheadInv' /\ FramesInv' /\ Released' = Released
      /\ (Delivered' <=> Delivered)
  BY <1>1, HandlerLeaves
<1>3. /\ tts_queue' \in Seq(Item) /\ tts_queue[1] = Head(tts_queue)
      /\ Len(tts_queue) > 0 /\ Len(tts_queue') = Len(tts_queue) - 1
      /\ DOMAIN tts_queue = 1..Len(tts_queue) /\ 1 \in DOMAIN tts_queue
      /\ DOMAIN tts_queue' = 1..(Len(tts_queue) - 1)
      /\ \A i \in DOMAIN tts_queue' :
           i + 1 \in DOMAIN tts_queue /\ tts_queue'[i] = tts_queue[i + 1]
  BY <1>1, ItemTaken
<1>4. InQueue = 0 /\ InQueue' = 0 /\ Len(tts_queue) \in Nat
  <2>1. InQueue = 0
    BY <1>1, FirstItem
  <2>2. InQueue' = InQueue
    BY <1>1 DEF InQueue
  <2> QED
    BY <2>1, <2>2, Quantities
<1>5. ControlTypes'
  BY <1>1 DEF DeliveryInv, ControlTypes
<1>6. QueueTypes'
  <2>1. Len(tts_queue') <= Capacity /\ 0 \in 0..Len(tts_queue')
    BY <1>3, <1>4, Constants DEF DeliveryInv, QueueTypes
  <2> QED
    BY <1>1, <1>3, <1>4, <2>1 DEF DeliveryInv, QueueTypes, Item
<1>7. PlacesInv'
  <2>1. generator \in {"ending", "over"}
    BY <1>3, <1>4 DEF DeliveryInv, PlacesInv
  <2>2. \A i \in DOMAIN tts_queue' : tts_queue'[i] \in {Done, Error}
    <3> SUFFICES ASSUME NEW i \in DOMAIN tts_queue'
                 PROVE  tts_queue'[i] \in {Done, Error}
      OBVIOUS
    <3>1. i + 1 \in DOMAIN tts_queue /\ tts_queue'[i] = tts_queue[i + 1] /\ i + 1 > InQueue
      BY <1>3, <1>4
    <3> QED
      BY <3>1 DEF DeliveryInv, PlacesInv
  <2> QED
    BY <1>1, <1>4, <2>1, <2>2 DEF DeliveryInv, PlacesInv
<1>8. OrderInv'
  BY <1>1, <1>2, <1>4 DEF DeliveryInv, OrderInv
<1>9. LastInv'
  BY <1>1, <1>2, <1>4 DEF DeliveryInv, LastInv
<1>10. FlushInv'
  BY <1>1, <1>2 DEF DeliveryInv, FlushInv
<1>11. FinalInv'
  BY <1>1, <1>2, <1>4 DEF DeliveryInv, FinalInv
<1>12. DoneInv'
  <2>1. \A i \in DOMAIN tts_queue' : tts_queue'[i] = Done => i = Len(tts_queue')
    <3> SUFFICES ASSUME NEW i \in DOMAIN tts_queue', tts_queue'[i] = Done
                 PROVE  i = Len(tts_queue')
      OBVIOUS
    <3>1. i + 1 = Len(tts_queue)
      BY <1>3 DEF DeliveryInv, DoneInv
    <3> QED
      BY <1>3, <1>4, <3>1
  <2>2. generator' # "over" => \A i \in DOMAIN tts_queue' : tts_queue'[i] # Done
    BY <1>1, <1>3 DEF DeliveryInv, DoneInv
  <2>3. ASSUME handler' = "done"
        PROVE  generator' = "over" /\ tts_queue' = <<>> /\ (sent' # <<>> \/ closing' # {})
    <3>1. tts_queue[1] = Done
      BY <1>1, <1>3, <2>3
    <3>2. generator = "over" /\ Len(tts_queue) = 1
      BY <1>3, <3>1 DEF DeliveryInv, DoneInv
    <3>3. tts_queue' = <<>>
      BY <1>3, <3>2
    <3> QED
      BY <1>1, <2>3, <3>2, <3>3
  <2>4. generator' # "encoding" /\ handler' # "gone" => emitted' = <<>> /\ pending' = 0
    BY <1>1 DEF DeliveryInv, DoneInv
  <2> QED
    BY <2>1, <2>2, <2>3, <2>4 DEF DoneInv
<1> QED
  BY <1>2, <1>5, <1>6, <1>7, <1>8, <1>9, <1>10, <1>11, <1>12 DEF DeliveryInv

\* The response is given up; the orchestration is cancelled, or goes on alone.
LEMMA AbandonKeeps ==
  ASSUME DeliveryInv, Abandon
  PROVE  DeliveryInv'
<1>1. /\ UNCHANGED <<taken, pending_sentence, is_final, left, encoder, encoded, emitted,
                     pending, cumulative_seq, silence_prepended, raised, tts_queue, sent,
                     closing>>
      /\ handler' = "gone"
      /\ generator' = generator \/ generator' \in {"ending", "over"}
      /\ generator' = "over" => generator \in {"ending", "over"}
      /\ generator = "over" => generator' = "over"
  BY DEF Abandon, sentences, delivery
<1>2. (Delivered => Delivered') /\ (~Delivered' => generator' = generator /\ ~Delivered)
  BY <1>1 DEF Delivered
<1>3. InQueue' = InQueue /\ QueueTypes'
  BY <1>1, QueueSame
<1>4. Released' = Released /\ LookaheadInv'
  BY <1>1, DeliverySame
<1>5. ControlTypes'
  BY <1>1 DEF DeliveryInv, ControlTypes
<1>6. EncoderInv'
  BY <1>1 DEF DeliveryInv, EncoderInv
<1>7. FramesInv'
  <2>1. CASE generator' = generator
    BY <1>1, <2>1 DEF DeliveryInv, FramesInv, Delivered, Budget
  <2>2. CASE generator' \in {"ending", "over"}
    <3>1. encoded' <= Budget(taken' + 1) + 1
      BY <1>1, InvBudget
    <3> QED
      BY <2>2, <3>1 DEF FramesInv, Budget
  <2> QED
    BY <1>1, <2>1, <2>2
<1>8. PlacesInv'
  <2>1. generator \in {"ending", "over"} => generator' \in {"ending", "over"}
    BY <1>1
  <2> QED
    BY <1>1, <1>3, <2>1 DEF DeliveryInv, PlacesInv
<1>9. OrderInv'
  BY <1>1, <1>4, OrderSame
<1>10. LastInv'
  BY <1>1, <1>2, <1>3 DEF DeliveryInv, LastInv
<1>11. FlushInv'
  BY <1>1, <1>2 DEF DeliveryInv, FlushInv
<1>12. FinalInv'
  BY <1>1 DEF FinalInv
<1>13. DoneInv'
  BY <1>1 DEF DeliveryInv, DoneInv
<1> QED
  BY <1>3, <1>4, <1>5, <1>6, <1>7, <1>8, <1>9, <1>10, <1>11, <1>12, <1>13
     DEF DeliveryInv

-----------------------------------------------------------------------------
(* The theorems.                                                           *)

LEMMA InitInv == Init => DeliveryInv
<1> SUFFICES ASSUME Init
             PROVE  DeliveryInv
  OBVIOUS
<1>1. /\ generator = "pulling" /\ taken = 0 /\ pending_sentence = 0
      /\ left = 0 /\ encoder = None /\ encoded = 0 /\ emitted = <<>> /\ pending = 0
      /\ cumulative_seq = 0 /\ raised = "no"
      /\ tts_queue = <<>> /\ handler = "reading" /\ sent = <<>> /\ closing = {}
  BY DEF Init
<1>2. ~Delivered
  BY <1>1 DEF Delivered
<1>3. HeldBack = 0 /\ Passed = 0 /\ Released = 0 /\ InQueue = 0
  <2>1. /\ Len(emitted) = 0 /\ Len(sent) = 0
        /\ encoder = None /\ encoded = 0 /\ pending = 0 /\ cumulative_seq = 0
    BY <1>1
  <2>2. HeldBack = 0 /\ InQueue = 0
    BY <2>1 DEF HeldBack, InQueue
  <2>3. Passed = 0
    BY <2>1, <2>2 DEF Passed
  <2> QED
    BY <2>1, <2>2, <2>3 DEF Released
<1>4. ControlTypes
  <2>1. is_final \in BOOLEAN /\ silence_prepended \in BOOLEAN
    BY DEF Init
  <2>2. taken \in 0..MaxSentences /\ pending_sentence \in 0..MaxSentences
    BY <1>1, Constants
  <2> QED
    BY <1>1, <2>1, <2>2 DEF ControlTypes
<1>5. EncoderInv
  BY <1>1, Constants DEF EncoderInv, Holding, None
<1>6. LookaheadInv
  BY <1>1, <1>3 DEF LookaheadInv
<1>7. FramesInv
  <2>1. 0 \in 0..MaxSentences
    BY Constants
  <2>2. Budget(0) \in Nat
    BY <2>1, BudgetGrows
  <2> QED
    BY <1>1, <1>2, <2>2 DEF FramesInv
<1>8. QueueTypes
  BY <1>1, <1>3, Constants DEF QueueTypes
<1>9. PlacesInv
  BY <1>1, <1>3 DEF PlacesInv
<1>10. OrderInv
  BY <1>1, <1>3 DEF OrderInv
<1>11. LastInv
  BY <1>1, <1>3 DEF LastInv
<1>12. FlushInv
  BY <1>1, <1>2 DEF FlushInv
<1>13. FinalInv
  BY <1>2 DEF FinalInv
<1>14. DoneInv
  BY <1>1 DEF DoneInv
<1> QED
  BY <1>4, <1>5, <1>6, <1>7, <1>8, <1>9, <1>10, <1>11, <1>12, <1>13, <1>14
     DEF DeliveryInv

LEMMA StutterKeeps ==
  ASSUME DeliveryInv, UNCHANGED vars
  PROVE  DeliveryInv'
<1>1. UNCHANGED <<generator, taken, pending_sentence, is_final, left, encoder, encoded,
                  emitted, pending, cumulative_seq, silence_prepended, raised, tts_queue,
                  handler, sent, closing>>
  BY DEF vars, sentences, delivery, output
<1>2. EncoderInv' /\ LookaheadInv' /\ FramesInv' /\ Released' = Released
      /\ (Delivered' <=> Delivered)
  BY <1>1, HandlerLeaves
<1>3. InQueue' = InQueue /\ QueueTypes'
  BY <1>1, QueueSame
<1>4. ControlTypes' /\ OrderInv'
  <2>1. ControlTypes'
    BY <1>1 DEF DeliveryInv, ControlTypes
  <2> QED
    BY <1>1, <1>2, <2>1, OrderSame
<1>5. PlacesInv' /\ LastInv'
  <2>1. PlacesInv'
    BY <1>1, <1>3 DEF DeliveryInv, PlacesInv
  <2>2. LastInv'
    BY <1>1, <1>2, <1>3 DEF DeliveryInv, LastInv
  <2> QED
    BY <2>1, <2>2
<1>6. FlushInv' /\ FinalInv' /\ DoneInv'
  <2>1. FlushInv'
    BY <1>1, <1>2 DEF DeliveryInv, FlushInv
  <2>2. FinalInv'
    BY <1>1, <1>2, <1>3 DEF DeliveryInv, FinalInv
  <2>3. DoneInv'
    BY <1>1 DEF DeliveryInv, DoneInv
  <2> QED
    BY <2>1, <2>2, <2>3
<1> QED
  BY <1>2, <1>3, <1>4, <1>5, <1>6 DEF DeliveryInv

LEMMA NextKeeps ==
  ASSUME DeliveryInv, [Next]_vars
  PROVE  DeliveryInv'
<1>1. CASE NextSentence \/ StreamEnds \/ Fallback \/ Commit
  BY <1>1, SentenceKeeps DEF SentenceStep
<1>2. CASE DeliveryRaises
  BY <1>2, RaisedKeeps
<1>3. CASE Synthesized
  BY <1>3, SynthesizedKeeps
<1>4. CASE Encode
  BY <1>4, EncodeKeeps
<1>5. CASE Flush
  BY <1>5, FlushKeeps
<1>6. CASE NextPacket
  BY <1>6, NextPacketKeeps
<1>7. CASE Return
  BY <1>7, ReturnKeeps
<1>8. CASE ReportFailure \/ PutDone
  BY <1>8, LastItemsKeep
<1>9. CASE Yield \/ Conclude
  BY <1>9, AudioSentKeeps, EndReadKeeps
<1>10. CASE Abandon
  BY <1>10, AbandonKeeps
<1>11. CASE UNCHANGED vars
  BY <1>11, StutterKeeps
<1> QED
  BY <1>1, <1>2, <1>3, <1>4, <1>5, <1>6, <1>7, <1>8, <1>9, <1>10, <1>11
     DEF Next, Orchestration, Handler

\* The inductive invariant: places, order and end of the packets.
THEOREM DeliveryHolds == Spec => []DeliveryInv
<1>1. DeliveryInv /\ [Next]_vars => DeliveryInv'
  BY NextKeeps
<1> QED
  BY InitInv, <1>1, PTL DEF Spec

\* Every variable keeps its type: tts_queue its capacity, the frames their bound
\* and the encoder at most one frame (rpc/service.py:531-663).
THEOREM TypeCorrect == Spec => []TypeOK
<1>1. DeliveryInv => TypeOK
  BY InvTypes
<1> QED
  BY DeliveryHolds, <1>1, PTL

\* However many sentences an answer has and whichever of them are empty, the
\* packets sent are the encoder's in order, and all of them unless a delivery
\* raised (service.py:628-663).
THEOREM PacketsComplete == Spec => []AudioComplete
<1>1. DeliveryInv => AudioComplete
  BY InvComplete
<1> QED
  BY DeliveryHolds, <1>1, PTL

\* A response that was not abandoned, and whose last delivery did not raise,
\* closes with a final (service.py:662-663, 706-713).
THEOREM ResponseCloses == Spec => []ClosesWithFinal
<1>1. DeliveryInv => ClosesWithFinal
  BY InvCloses
<1> QED
  BY DeliveryHolds, <1>1, PTL

-----------------------------------------------------------------------------
(* The refinement: what is sent is a Response.                             *)

\* The packets as the device sees them, the mapping of Abstract.
Packets == [i \in DOMAIN sent |-> [sequence_num |-> sent[i].sequence_num,
                                   final_stt |-> sent[i].final_stt,
                                   is_final |-> sent[i].is_final]]

LEMMA FunctionIsSeq ==
  ASSUME NEW S, NEW n \in Nat, NEW f \in [1..n -> S]
  PROVE  f \in Seq(S) /\ Len(f) = n
<1>1. f \in Seq(S)
  BY SeqDef
<1>2. 1..Len(f) = 1..n /\ Len(f) \in Nat
  BY <1>1, LenProperties
<1> QED
  BY <1>1, <1>2

\* A packet that is yielded is the next of the Response.
LEMMA YieldIsPacket ==
  ASSUME DeliveryInv, Yield, Head(tts_queue) # Error
  PROVE  Abstract!Next
<1> DEFINE packet == tts_queue[1]
<1>1. /\ InQueue > 0
      /\ sent' \in Seq(AudioPacket) /\ Len(sent') = Len(sent) + 1
      /\ DOMAIN sent = 1..Len(sent) /\ DOMAIN sent' = 1..(Len(sent) + 1)
      /\ \A i \in 1..Len(sent) : sent'[i] = sent[i]
      /\ sent'[Len(sent) + 1] = packet
  BY AudioSent
<1>2. Len(sent) \in Nat /\ InQueue \in Nat /\ InQueue = cumulative_seq - Len(sent)
      /\ cumulative_seq \in Nat
  BY Quantities
<1>3. 1 \in 1..InQueue
  <2>1. InQueue > 0 /\ InQueue \in Nat
    BY <1>1, <1>2
  <2> QED
    BY <2>1
<1>4. /\ packet \in AudioPacket
      /\ packet.sequence_num = Len(sent)
      /\ packet.final_stt <=> Len(sent) = 0
  <2>1. /\ packet \in AudioPacket
        /\ packet.sequence_num = Len(sent) + 1 - 1
        /\ packet.final_stt <=> Len(sent) + 1 = 1
    BY <1>3 DEF DeliveryInv, PlacesInv
  <2>2. Len(sent) + 1 - 1 = Len(sent) /\ (Len(sent) + 1 = 1 <=> Len(sent) = 0)
    BY <1>2
  <2> QED
    BY <2>1, <2>2
<1>5. packet.is_final \in BOOLEAN /\ packet.final_stt \in BOOLEAN
  BY <1>4, PacketFields
<1> DEFINE S == [sequence_num : Nat, final_stt : BOOLEAN, is_final : BOOLEAN]
           next == [sequence_num |-> Len(sent), final_stt |-> packet.final_stt,
                    is_final |-> packet.is_final]
<1>6. next \in S
  BY <1>2, <1>5
<1>7. Packets \in Seq(S) /\ Len(Packets) = Len(sent) /\ DOMAIN Packets = 1..Len(sent)
  <2>1. sent \in Seq(AudioPacket)
    BY DEF DeliveryInv, QueueTypes
  <2>2. \A i \in DOMAIN sent : [sequence_num |-> sent[i].sequence_num,
                               final_stt |-> sent[i].final_stt,
                               is_final |-> sent[i].is_final] \in S
    BY <2>1, ElementTyped, PacketFields
  <2>3. Packets \in [1..Len(sent) -> S] /\ DOMAIN Packets = 1..Len(sent)
    BY <1>1, <2>2 DEF Packets
  <2> QED
    BY <1>2, <2>3, FunctionIsSeq
<1>8. Packets' \in Seq(S) /\ Len(Packets') = Len(sent) + 1
  <2>1. \A i \in DOMAIN sent' : [sequence_num |-> sent'[i].sequence_num,
                                final_stt |-> sent'[i].final_stt,
                                is_final |-> sent'[i].is_final] \in S
    BY <1>1, ElementTyped, PacketFields
  <2>2. Packets' \in [1..(Len(sent) + 1) -> S] /\ DOMAIN Packets' = 1..(Len(sent) + 1)
    BY <1>1, <2>1 DEF Packets
  <2>3. Len(sent) + 1 \in Nat
    BY <1>2
  <2> QED
    BY <2>2, <2>3, FunctionIsSeq
<1>9. Packets' = Append(Packets, next)
  <2>1. /\ Append(Packets, next) \in Seq(S) /\ Len(Append(Packets, next)) = Len(sent) + 1
        /\ \A i \in 1..Len(sent) : Append(Packets, next)[i] = Packets[i]
        /\ Append(Packets, next)[Len(sent) + 1] = next
    BY <1>6, <1>7, AppendElements
  <2>2. \A i \in 1..Len(sent) : Packets'[i] = Packets[i]
    BY <1>1, <1>2 DEF Packets
  <2>3. Packets'[Len(sent) + 1] = next
    <3>1. Len(sent) + 1 \in DOMAIN sent'
      BY <1>1, <1>2
    <3>2. Packets'[Len(sent) + 1] = [sequence_num |-> packet.sequence_num,
                                    final_stt |-> packet.final_stt,
                                    is_final |-> packet.is_final]
      BY <1>1, <3>1 DEF Packets
    <3> QED
      BY <1>4, <3>2
  <2>4. \A i \in 1..(Len(sent) + 1) : i \in 1..Len(sent) \/ i = Len(sent) + 1
    BY <1>2
  <2>5. \A i \in 1..(Len(sent) + 1) : Packets'[i] = Append(Packets, next)[i]
    BY <2>1, <2>2, <2>3, <2>4
  <2> HIDE DEF next, S
  <2> QED
    BY <1>8, <2>1, <2>5, SeqEqual, Zenon
<1>10. \A i \in DOMAIN Packets : ~Packets[i].is_final
  <2> SUFFICES ASSUME NEW i \in DOMAIN sent
               PROVE  ~sent[i].is_final
    BY DEF Packets
  <2>1. i # cumulative_seq
    <3>1. i <= Len(sent) /\ i \in Nat
      BY <1>1, <1>2
    <3>2. cumulative_seq > Len(sent)
      BY <1>2, <1>3
    <3> QED
      BY <1>2, <3>1, <3>2
  <2> QED
    BY <2>1 DEF DeliveryInv, LastInv
<1>11. packet.final_stt = (Packets = <<>>)
  <2>1. Packets = <<>> <=> Len(sent) = 0
    BY <1>7
  <2> QED
    BY <1>4, <1>5, <2>1
<1>12. next = [sequence_num |-> Len(Packets), final_stt |-> Packets = <<>>,
               is_final |-> packet.is_final]
  BY <1>7, <1>11
<1>13. \E final \in BOOLEAN :
         /\ \A i \in DOMAIN Packets : ~Packets[i].is_final
         /\ Packets' = Append(Packets, [sequence_num |-> Len(Packets),
                                       final_stt |-> Packets = <<>>,
                                       is_final |-> final])
  BY <1>5, <1>9, <1>10, <1>12, Zenon
<1> QED
  BY <1>13 DEF Abstract!Next, Abstract!Packet, Packets

\* The detailed specification implements Response: every packet the handler
\* yields is the next one, numbered without a gap, the transcript on the first
\* only and nothing after a final one (service.py:593-602, 658-663).
THEOREM DeliversResponse == Spec => IsResponse
<1>1. Init => Abstract!Init
  BY DEF Init, Abstract!Init
<1>2. DeliveryInv /\ [Next]_vars => [Abstract!Next]_Packets
  <2> SUFFICES ASSUME DeliveryInv, [Next]_vars
               PROVE  [Abstract!Next]_Packets
    OBVIOUS
  <2>1. CASE Yield /\ Head(tts_queue) # Error
    BY <2>1, YieldIsPacket
  <2>2. CASE sent' = sent
    BY <2>2 DEF Packets
  <2>3. sent' = sent \/ (Yield /\ Head(tts_queue) # Error)
    BY DEF Next, Orchestration, Handler, Abandon, Yield, Conclude, NextSentence,
           StreamEnds, Fallback, DeliveryRaises, Synthesized, Encode, Flush, NextPacket,
           Return, Commit, ReportFailure, PutDone, vars, output
  <2> QED
    BY <2>1, <2>2, <2>3
<1> QED
  BY DeliveryHolds, <1>1, <1>2, PTL DEF Spec, IsResponse, Abstract!Spec, Packets

===============================================================================
