----------------------------- MODULE LlmPoolProofs -----------------------------
(***************************************************************************)
(* What holds of the LLM's pool for any number of turns, slots and         *)
(* sentences and, in the second half, of the services beside it, which are *)
(* there as the instance Service.                                          *)
(***************************************************************************)
EXTENDS LlmPool, ServiceAnswers, FiniteSetTheorems, SequenceTheorems, TLAPS

Stages == {"idle", "waiting", "granted", "finishing"} \cup Holding \cup Over

\* The typing of everything but the two counters of the pool, whose bounds are a
\* consequence of PoolBalanced.
Typing ==
  /\ stage \in [Turn -> Stages]
  /\ attempt \in [Turn -> 0..MaxAttempts]
  /\ calls \in [Turn -> Nat]
  /\ queued \in [Turn -> Nat]
  /\ sentinel \in [Turn -> BOOLEAN]
  /\ taken \in [Turn -> Nat]
  /\ \A t \in Turn : queued[t] + taken[t] <= MaxSentences
  /\ ahead \in [Turn -> SUBSET Turn]
  /\ value \in Nat
  /\ active \in Nat

\* A turn's model call belongs to the stage the turn is in: none before it has a
\* slot, the stream's until its sentinel, and at most the one it gave up on
\* afterwards.
CallOfStage(t) ==
  /\ calls[t] <= 1
  /\ stage[t] \in {"idle", "waiting", "granted"} =>
       calls[t] = 0 /\ taken[t] = 0 /\ queued[t] = 0
  /\ stage[t] = "idle" => ~sentinel[t]
  /\ stage[t] \in {"waiting", "granted"} /\ attempt[t] = 0 => ~sentinel[t]
  /\ stage[t] \in {"pulling", "delivering"} =>
       attempt[t] = 0 /\ (sentinel[t] => calls[t] = 0)
  /\ taken[t] > 0 =>
       attempt[t] = 0 /\ stage[t] \notin {"waiting", "granted", "answered", "pattern"}
  /\ stage[t] = "calling" => taken[t] = 0 /\ queued[t] = 0

PoolInv ==
  /\ Typing
  /\ PoolBalanced
  /\ WaitersNotForgotten

CallInv == \A t \in Turn : CallOfStage(t)

-----------------------------------------------------------------------------
(* Counting.                                                               *)

LEMMA TurnSets ==
  /\ IsFiniteSet(Turn)
  /\ \A S \in SUBSET Turn : IsFiniteSet(S) /\ Cardinality(S) \in Nat
  /\ Waiting \in SUBSET Turn /\ Granted \in SUBSET Turn /\ Inside \in SUBSET Turn
<1>1. IsFiniteSet(Turn)
  BY PoolAssumption
<1>2. \A S \in SUBSET Turn : IsFiniteSet(S) /\ Cardinality(S) \in Nat
  BY <1>1, FS_Subset, FS_CardinalityType
<1> QED
  BY <1>1, <1>2 DEF Waiting, Granted, Inside

\* The sum of two sets of turns without a turn in common.
LEMMA DisjointSum ==
  ASSUME NEW S \in SUBSET Turn, NEW T \in SUBSET Turn, S \cap T = {}
  PROVE  Cardinality(S \cup T) = Cardinality(S) + Cardinality(T)
<1>1. Cardinality(S \cup T)
        = Cardinality(S) + Cardinality(T) - Cardinality(S \cap T)
  BY TurnSets, FS_Union
<1>2. Cardinality(S \cap T) = 0
  BY FS_EmptySet
<1> QED
  BY <1>1, <1>2, TurnSets

\* Whom a step of t moves, and what it does to the numbers.
LEMMA MoveCounts ==
  ASSUME Typing, NEW t \in Turn, NEW x \in Stages \ {"granted"},
         NEW W \in SUBSET Line(t), Move(t, x, W)
  PROVE  /\ stage' \in [Turn -> Stages] /\ ahead' \in [Turn -> SUBSET Turn]
         /\ \A u \in Turn : stage'[u] = IF u \in W THEN "granted"
                                        ELSE IF u = t THEN x ELSE stage[u]
         /\ Waiting' = IF x = "waiting" THEN (Line(t) \ W) \cup {t} ELSE Line(t) \ W
         /\ Granted' = (Granted \ {t}) \cup W
         /\ Cardinality(Granted') =
              (IF stage[t] = "granted" THEN Cardinality(Granted) - 1
                                       ELSE Cardinality(Granted)) + Cardinality(W)
         /\ Cardinality(Inside') =
              IF x \in Holding /\ stage[t] \notin Holding THEN Cardinality(Inside) + 1
              ELSE IF x \notin Holding /\ stage[t] \in Holding
              THEN Cardinality(Inside) - 1
              ELSE Cardinality(Inside)
<1>1. W \in SUBSET Turn /\ t \notin W /\ \A w \in W : stage[w] = "waiting"
  BY DEF Line, Waiting
<1>2. /\ stage' \in [Turn -> Stages] /\ ahead' \in [Turn -> SUBSET Turn]
      /\ \A u \in Turn : stage'[u] = IF u \in W THEN "granted"
                                     ELSE IF u = t THEN x ELSE stage[u]
  BY <1>1 DEF Move, Typing, Stages, Line, Waiting
<1>3. Waiting' = IF x = "waiting" THEN (Line(t) \ W) \cup {t} ELSE Line(t) \ W
  BY <1>1, <1>2 DEF Waiting, Line
<1>4. Granted' = (Granted \ {t}) \cup W
  BY <1>1, <1>2 DEF Granted
<1>5. Inside' = IF x \in Holding THEN Inside \cup {t} ELSE Inside \ {t}
  BY <1>1, <1>2 DEF Inside, Holding
<1>6. Cardinality(Granted') = Cardinality(Granted \ {t}) + Cardinality(W)
  <2>1. Granted \ {t} \in SUBSET Turn /\ (Granted \ {t}) \cap W = {}
    BY <1>1 DEF Granted
  <2> QED
    BY <1>1, <1>4, <2>1, DisjointSum
<1>7. Cardinality(Granted \ {t}) = IF stage[t] = "granted" THEN Cardinality(Granted) - 1
                                   ELSE Cardinality(Granted)
  <2>1. IsFiniteSet(Granted) /\ (t \in Granted <=> stage[t] = "granted")
    BY TurnSets DEF Granted
  <2> QED
    BY <2>1, FS_RemoveElement
<1>8. Cardinality(Inside') =
        IF x \in Holding /\ stage[t] \notin Holding THEN Cardinality(Inside) + 1
        ELSE IF x \notin Holding /\ stage[t] \in Holding THEN Cardinality(Inside) - 1
        ELSE Cardinality(Inside)
  <2>1. IsFiniteSet(Inside) /\ (t \in Inside <=> stage[t] \in Holding)
    BY TurnSets DEF Inside
  <2>2. CASE x \in Holding
    BY <1>5, <2>1, <2>2, FS_AddElement
  <2>3. CASE x \notin Holding
    BY <1>5, <2>1, <2>3, FS_RemoveElement
  <2> QED
    BY <2>2, <2>3
<1> QED
  BY <1>2, <1>3, <1>4, <1>6, <1>7, <1>8

-----------------------------------------------------------------------------
(* One turn's step at the pool.                                            *)

\* What a turn gives back when it leaves its stage for another one.
Slot(t) == IF stage[t] \in Holding \cup {"granted"} THEN 1 ELSE 0

\* The pool as t leaves it: v slots and n requests are right, and if somebody is
\* left in line beside a free slot, somebody else is about to run.
LeftRight(t, W, v, n) ==
  /\ W \in SUBSET Line(t)
  /\ v \in Nat /\ n \in Nat
  /\ v + Cardinality(W) = value + Slot(t)
  /\ n = IF stage[t] \in Holding THEN active - 1 ELSE active
  /\ v > 0 /\ Line(t) \ W # {} => (Granted \ {t}) \cup W # {}

Counters ==
  /\ stage \in [Turn -> Stages]
  /\ ahead \in [Turn -> SUBSET Turn]
  /\ value \in Nat
  /\ active \in Nat
  /\ PoolBalanced
  /\ WaitersNotForgotten

LEMMA SetCounts ==
  /\ Cardinality(Granted) \in Nat
  /\ Cardinality(Inside) \in Nat
  /\ \A t \in Turn : \A W \in SUBSET Line(t) : Cardinality(W) \in Nat
BY TurnSets DEF Line

\* The numbers before the step, for the arithmetic of the lemmas below.
LEMMA CountsBefore ==
  ASSUME PoolInv, NEW t \in Turn, NEW W, NEW STATE v, NEW STATE n, LeftRight(t, W, v, n)
  PROVE  /\ Cardinality(Granted) \in Nat /\ Cardinality(Inside) \in Nat
         /\ Cardinality(W) \in Nat /\ v \in Nat /\ n \in Nat
         /\ value + Cardinality(Granted) + Cardinality(Inside) = MaxConcurrent
         /\ active = Cardinality(Inside) /\ value \in Nat
         /\ v + Cardinality(W) = IF stage[t] \in Holding \/ stage[t] = "granted"
                                 THEN value + 1 ELSE value
         /\ n = IF stage[t] \in Holding THEN active - 1 ELSE active
         /\ ~(stage[t] \in Holding /\ stage[t] = "granted")
BY SetCounts DEF PoolInv, Typing, PoolBalanced, LeftRight, Slot, Holding

LEMMA SettleCounts ==
  ASSUME PoolInv, NEW t \in Turn, NEW W, NEW STATE v, NEW STATE n, LeftRight(t, W, v, n),
         NEW x \in Stages \ (Holding \cup {"granted", "waiting"}),
         Settle(t, x, W, v, n)
  PROVE  Counters'
<1> USE DEF PoolInv
<1>1. Move(t, x, W) /\ W \in SUBSET Line(t) /\ value' = v /\ active' = n
  BY DEF Settle, LeftRight
<1>2. /\ stage' \in [Turn -> Stages] /\ ahead' \in [Turn -> SUBSET Turn]
      /\ Waiting' = Line(t) \ W
      /\ Granted' = (Granted \ {t}) \cup W
      /\ Cardinality(Granted') =
           (IF stage[t] = "granted" THEN Cardinality(Granted) - 1
                                    ELSE Cardinality(Granted)) + Cardinality(W)
      /\ Cardinality(Inside') = IF stage[t] \in Holding THEN Cardinality(Inside) - 1
                                ELSE Cardinality(Inside)
  BY <1>1, MoveCounts
<1>3. PoolBalanced'
  BY <1>1, <1>2, CountsBefore DEF PoolBalanced
<1>4. WaitersNotForgotten'
  BY <1>1, <1>2 DEF WaitersNotForgotten, LeftRight
<1> QED
  BY <1>1, <1>2, <1>3, <1>4 DEF Counters, LeftRight

LEMMA AcquireCounts ==
  ASSUME PoolInv, NEW t \in Turn, NEW W, NEW STATE v, NEW STATE n, LeftRight(t, W, v, n),
         NEW a \in 0..MaxAttempts, Acquire(t, a, W, v, n)
  PROVE  Counters'
<1> USE DEF PoolInv
<1> DEFINE locked == v = 0 \/ \E u \in Turn \ {t} : stage[u] \in {"waiting", "granted"}
<1>1. CASE locked /\ Move(t, "waiting", W) /\ value' = v /\ active' = n
  <2>1. "waiting" \in Stages \ {"granted"} /\ "waiting" \notin Holding
    BY DEF Stages, Holding
  <2>2. W \in SUBSET Line(t)
    BY DEF LeftRight
  <2>3. /\ stage' \in [Turn -> Stages] /\ ahead' \in [Turn -> SUBSET Turn]
        /\ Granted' = (Granted \ {t}) \cup W
        /\ Cardinality(Granted') =
             (IF stage[t] = "granted" THEN Cardinality(Granted) - 1
                                      ELSE Cardinality(Granted)) + Cardinality(W)
        /\ Cardinality(Inside') =
             IF stage[t] \in Holding THEN Cardinality(Inside) - 1
             ELSE Cardinality(Inside)
    BY <1>1, <2>1, <2>2, MoveCounts
  <2>4. PoolBalanced'
    BY <1>1, <2>3, CountsBefore DEF PoolBalanced
  <2>5. ASSUME v > 0 PROVE Granted' # {}
    <3>1. PICK u \in Turn \ {t} : stage[u] \in {"waiting", "granted"}
      BY <1>1, <2>5
    <3>2. CASE stage[u] = "granted"
      BY <2>3, <3>2 DEF Granted
    <3>3. CASE stage[u] = "waiting"
      BY <2>3, <2>5, <3>3 DEF LeftRight, Line, Waiting
    <3> QED
      BY <3>1, <3>2, <3>3
  <2> QED
    BY <1>1, <2>3, <2>4, <2>5 DEF Counters, LeftRight, WaitersNotForgotten
<1>2. ASSUME NEW x \in {"pulling", "calling"}, ~locked, Move(t, x, W),
             value' = v - 1, active' = n + 1
      PROVE  Counters'
  <2>1. x \in Stages \ {"granted"} /\ x \in Holding /\ x # "waiting"
    BY <1>2 DEF Stages, Holding
  <2>2. W \in SUBSET Line(t) /\ Line(t) = {}
    BY <1>2 DEF LeftRight, Line, Waiting
  <2>3. /\ stage' \in [Turn -> Stages] /\ ahead' \in [Turn -> SUBSET Turn]
        /\ Waiting' = {}
        /\ Cardinality(Granted') =
             (IF stage[t] = "granted" THEN Cardinality(Granted) - 1
                                      ELSE Cardinality(Granted)) + Cardinality(W)
        /\ Cardinality(Inside') =
             IF stage[t] \notin Holding THEN Cardinality(Inside) + 1
             ELSE Cardinality(Inside)
    BY <1>2, <2>1, <2>2, MoveCounts
  <2>4. PoolBalanced'
    BY <1>2, <2>3, CountsBefore DEF PoolBalanced
  <2> QED
    BY <1>2, <2>3, <2>4 DEF Counters, LeftRight, WaitersNotForgotten
<1>3. MaxAttempts = 2
  BY DEF MaxAttempts
<1> QED
  BY <1>1, <1>2 DEF Acquire

LEMMA FallbackCounts ==
  ASSUME PoolInv, NEW t \in Turn, NEW W, NEW STATE v, NEW STATE n, LeftRight(t, W, v, n),
         Fallback(t, W, v, n)
  PROVE  Counters'
<1>1. attempt[t] \in 0..MaxAttempts
  BY DEF PoolInv, Typing
<1>2. CASE attempt[t] < MaxAttempts
  <2>1. attempt[t] + 1 \in 0..MaxAttempts
    BY <1>1, <1>2 DEF MaxAttempts
  <2> QED
    BY <1>2, <2>1, AcquireCounts DEF Fallback
<1>3. CASE ~(attempt[t] < MaxAttempts)
  BY <1>3, SettleCounts DEF Fallback, Stages, Holding, Over
<1> QED
  BY <1>2, <1>3

\* The two ways to leave: out of line, and out of the pool.
LEMMA LeaveLine ==
  ASSUME PoolInv, NEW t \in Turn, InLine(t), NEW W \in SUBSET Line(t),
         Woken(W, t, Relinquished(t))
  PROVE  LeftRight(t, W, Relinquished(t) - Cardinality(W), active)
<1>1. Cardinality(W) \in Nat /\ value \in Nat /\ active \in Nat
  BY SetCounts DEF PoolInv, Typing
<1>2. stage[t] \notin Holding
  BY DEF InLine, Holding
<1>3. Relinquished(t) = value + Slot(t) /\ Relinquished(t) \in Nat
  BY <1>1, <1>2 DEF Relinquished, InLine, Slot
<1>4. /\ Cardinality(W) <= Relinquished(t)
      /\ Cardinality(W) = Relinquished(t) \/ W = Line(t)
  BY DEF Woken
<1> DEFINE v == Relinquished(t) - Cardinality(W)
<1>5. v \in Nat /\ v + Cardinality(W) = value + Slot(t)
  <2>1. Slot(t) \in Nat
    BY DEF Slot
  <2> QED
    BY <1>1, <1>3, <1>4, <2>1
<1>6. v > 0 => Line(t) \ W = {}
  BY <1>1, <1>3, <1>4
<1> HIDE DEF v
<1>7. LeftRight(t, W, v, active)
  BY <1>1, <1>2, <1>5, <1>6 DEF LeftRight
<1> QED
  BY <1>7 DEF v

LEMMA LeavePool ==
  ASSUME PoolInv, NEW t \in Turn, stage[t] \in Holding, active > 0,
         NEW W \in SUBSET Line(t), Woken(W, t, 1)
  PROVE  LeftRight(t, W, Freed(W), active - 1)
<1>1. Cardinality(W) \in Nat /\ value \in Nat /\ active \in Nat
  BY SetCounts DEF PoolInv, Typing
<1>2. Cardinality(W) = 1 => W # {}
  BY FS_EmptySet
<1>3. W = Line(t) \/ W # {}
  BY <1>2 DEF Woken
<1>4. Freed(W) \in Nat /\ Freed(W) + Cardinality(W) = value + 1
  BY <1>1 DEF Woken, Freed
<1>5. active - 1 \in Nat
  BY <1>1
<1> QED
  BY <1>3, <1>4, <1>5 DEF LeftRight, Slot

LEMMA ReleaseCounts ==
  ASSUME PoolInv, NEW t \in Turn, stage[t] \in Holding,
         NEW x \in Stages \ (Holding \cup {"granted", "waiting"}), Release(t, x)
  PROVE  Counters'
<1>1. PICK W \in SUBSET Line(t) :
        Woken(W, t, 1) /\ Settle(t, x, W, Freed(W), active - 1)
  BY DEF Release
<1>2. LeftRight(t, W, Freed(W), active - 1)
  BY <1>1, LeavePool DEF Release
<1> QED
  BY <1>1, <1>2, SettleCounts

\* A waiter with a slot goes in.
LEMMA EnterCounts ==
  ASSUME PoolInv, NEW t \in Turn, Enter(t)
  PROVE  Counters'
<1>1. PICK W \in SUBSET Line(t), x \in {"pulling", "calling"} :
        Woken(W, t, value) /\ Move(t, x, W) /\ value' = value - Cardinality(W)
  BY DEF Enter
<1>2. x \in Stages \ {"granted"} /\ x \in Holding /\ x # "waiting"
  BY DEF Stages, Holding
<1>3. stage[t] = "granted" /\ stage[t] \notin Holding /\ active' = active + 1
  BY DEF Enter, Holding
<1>4. /\ stage' \in [Turn -> Stages] /\ ahead' \in [Turn -> SUBSET Turn]
      /\ Waiting' = Line(t) \ W
      /\ Cardinality(Granted') = Cardinality(Granted) - 1 + Cardinality(W)
      /\ Cardinality(Inside') = Cardinality(Inside) + 1
  BY <1>1, <1>2, <1>3, MoveCounts DEF PoolInv
<1>5. /\ Cardinality(W) \in Nat /\ Cardinality(W) <= value
      /\ W = Line(t) \/ Cardinality(W) = value
      /\ value \in Nat /\ active \in Nat
      /\ value + Cardinality(Granted) + Cardinality(Inside) = MaxConcurrent
      /\ active = Cardinality(Inside)
      /\ Cardinality(Granted) \in Nat /\ Cardinality(Inside) \in Nat
  BY <1>1, SetCounts DEF Woken, PoolInv, Typing, PoolBalanced
<1>6. PoolBalanced'
  BY <1>1, <1>3, <1>4, <1>5 DEF PoolBalanced
<1>7. value' \in Nat /\ active' \in Nat
  BY <1>1, <1>3, <1>5
<1>8. value' > 0 => Waiting' = {}
  BY <1>1, <1>4, <1>5
<1> QED
  BY <1>4, <1>6, <1>7, <1>8 DEF Counters, WaitersNotForgotten

\* A step of the turn that does not touch the pool.
LEMMA AsideCounts ==
  ASSUME PoolInv, NEW t \in Turn, NEW x \in Stages \ {"waiting", "granted"},
         stage[t] \notin {"waiting", "granted"},
         x \in Holding <=> stage[t] \in Holding,
         stage' = [stage EXCEPT ![t] = x], UNCHANGED <<ahead, value, active>>
  PROVE  Counters'
<1>1. /\ stage' \in [Turn -> Stages]
      /\ Waiting' = Waiting /\ Granted' = Granted /\ Inside' = Inside
  BY DEF PoolInv, Typing, Waiting, Granted, Inside
<1> QED
  BY <1>1 DEF Counters, PoolInv, Typing, PoolBalanced, WaitersNotForgotten

LEMMA StillCounts ==
  ASSUME PoolInv, UNCHANGED <<stage, ahead, value, active>>
  PROVE  Counters'
BY DEF Counters, PoolInv, Typing, PoolBalanced, WaitersNotForgotten, Waiting,
  Granted, Inside

\* Every step keeps the pool's books.
LEMMA NextCounts == PoolInv /\ [Next]_vars => Counters'
<1> SUFFICES ASSUME PoolInv, [Next]_vars PROVE Counters'
  OBVIOUS
<1>1. CASE UNCHANGED vars
  BY <1>1, StillCounts DEF vars
<1>2. ASSUME NEW t \in Turn, NEW a \in {0, 1}, Begin(t, a) PROVE Counters'
  <2>1. LeftRight(t, {}, value, active)
    <3>1. Cardinality({}) = 0
      BY FS_EmptySet
    <3>2. stage[t] \notin Holding \cup {"granted"}
      BY <1>2 DEF Begin, Holding
    <3>3. value > 0 /\ Line(t) \ {} # {} => (Granted \ {t}) \cup {} # {}
      BY <3>2 DEF PoolInv, WaitersNotForgotten, Line, Granted
    <3>4. value \in Nat /\ active \in Nat
      BY DEF PoolInv, Typing
    <3> QED
      BY <3>1, <3>2, <3>3, <3>4 DEF LeftRight, Slot
  <2>2. a \in 0..MaxAttempts
    BY DEF MaxAttempts
  <2> QED
    BY <1>2, <2>1, <2>2, AcquireCounts DEF Begin
<1>3. ASSUME NEW t \in Turn, PoolTimesOut(t) PROVE Counters'
  <2>1. PICK W \in SUBSET Line(t) :
          /\ Woken(W, t, Relinquished(t))
          /\ Fallback(t, W, Relinquished(t) - Cardinality(W), active)
    BY <1>3 DEF PoolTimesOut
  <2> QED
    BY <1>3, <2>1, LeaveLine, FallbackCounts DEF PoolTimesOut
<1>4. ASSUME NEW t \in Turn, CancelledInLine(t) PROVE Counters'
  <2>1. PICK W \in SUBSET Line(t) :
          /\ Woken(W, t, Relinquished(t))
          /\ Settle(t, "cancelled", W, Relinquished(t) - Cardinality(W), active)
    BY <1>4 DEF CancelledInLine
  <2>2. "cancelled" \in Stages \ (Holding \cup {"granted", "waiting"})
    BY DEF Stages, Holding, Over
  <2> QED
    BY <1>4, <2>1, <2>2, LeaveLine, SettleCounts DEF CancelledInLine
<1>5. ASSUME NEW t \in Turn,
             \/ Joined(t) \/ GeneratorClosed(t) \/ ChatReturns(t)
             \/ ChatTimesOut(t) \/ CancelledCalling(t)
             \/ StreamEnds(t) /\ taken[t] > 0
      PROVE  Counters'
  <2>1. {"cancelled", "answered", "pattern", "finishing"}
          \subseteq Stages \ (Holding \cup {"granted", "waiting"})
    BY DEF Stages, Holding, Over
  <2>2. stage[t] \in Holding
    BY <1>5 DEF Joined, GeneratorClosed, ChatReturns, ChatTimesOut,
      CancelledCalling, StreamEnds, Holding
  <2>3. \E x \in {"cancelled", "answered", "pattern", "finishing"} : Release(t, x)
    BY <1>5 DEF Joined, GeneratorClosed, ChatReturns, ChatTimesOut,
      CancelledCalling, StreamEnds
  <2> QED
    BY <2>1, <2>2, <2>3, ReleaseCounts
<1>6. ASSUME NEW t \in Turn, StreamEnds(t), ~(taken[t] > 0) PROVE Counters'
  <2>1. PICK W \in SUBSET Line(t) :
          Woken(W, t, 1) /\ Fallback(t, W, Freed(W), active - 1)
    BY <1>6 DEF StreamEnds
  <2>2. stage[t] \in Holding /\ active > 0
    BY <1>6 DEF StreamEnds, Holding
  <2> QED
    BY <2>1, <2>2, LeavePool, FallbackCounts
<1>7. ASSUME NEW t \in Turn,
             \/ Pull(t) \/ Delivered(t) \/ LastDelivered(t) \/ CancelledPulling(t)
             \/ CancelledDelivering(t) \/ CancelledFinishing(t)
      PROVE  Counters'
  <2>1. CASE Pull(t) \/ Delivered(t) \/ CancelledPulling(t) \/ CancelledDelivering(t)
    <3>1. /\ stage[t] \in {"pulling", "delivering"}
          /\ \E x \in {"pulling", "delivering", "joining", "closing"} :
               stage' = [stage EXCEPT ![t] = x]
          /\ UNCHANGED <<ahead, value, active>>
      BY <2>1 DEF Pull, Delivered, CancelledPulling, CancelledDelivering
    <3> QED
      BY <3>1, AsideCounts DEF Stages, Holding
  <2>2. CASE LastDelivered(t) \/ CancelledFinishing(t)
    <3>1. /\ stage[t] = "finishing"
          /\ \E x \in {"streamed", "cancelled"} : stage' = [stage EXCEPT ![t] = x]
          /\ UNCHANGED <<ahead, value, active>>
      BY <2>2 DEF LastDelivered, CancelledFinishing
    <3> QED
      BY <3>1, AsideCounts DEF Stages, Holding, Over
  <2> QED
    BY <1>7, <2>1, <2>2
<1>8. ASSUME NEW t \in Turn, Produce(t) \/ CallEnds(t) PROVE Counters'
  BY <1>8, StillCounts DEF Produce, CallEnds
<1> QED
  BY <1>1, <1>2, <1>3, <1>4, <1>5, <1>6, <1>7, <1>8, EnterCounts
  DEF Next, Advance, Cancel

-----------------------------------------------------------------------------
(* The turn's own state.                                                   *)

\* What Settle, Acquire and Fallback leave of a turn's attempts and calls.
TurnAfter(t, x, a, c) ==
  /\ attempt' = [attempt EXCEPT ![t] = a]
  /\ calls' = [calls EXCEPT ![t] = c]
  /\ \E W \in SUBSET Line(t) : Move(t, x, W)

LEMMA SettleTurn ==
  ASSUME Typing, NEW t \in Turn, NEW W \in SUBSET Line(t), NEW STATE v, NEW STATE n,
         NEW x, Settle(t, x, W, v, n)
  PROVE  TurnAfter(t, x, attempt[t], calls[t])
BY DEF Typing, Settle, TurnAfter

LEMMA AcquireTurn ==
  ASSUME Typing, NEW t \in Turn, NEW W \in SUBSET Line(t), NEW STATE v, NEW STATE n,
         NEW STATE a, Acquire(t, a, W, v, n)
  PROVE  \/ TurnAfter(t, "waiting", a, calls[t])
         \/ TurnAfter(t, IF a = 0 THEN "pulling" ELSE "calling", a, calls[t] + 1)
BY DEF Typing, Acquire, TurnAfter

LEMMA FallbackTurn ==
  ASSUME Typing, NEW t \in Turn, NEW W \in SUBSET Line(t), NEW STATE v, NEW STATE n,
         Fallback(t, W, v, n)
  PROVE  \/ TurnAfter(t, "pattern", attempt[t], calls[t])
         \/ /\ attempt[t] < MaxAttempts
            /\ \/ TurnAfter(t, "waiting", attempt[t] + 1, calls[t])
               \/ TurnAfter(t, "calling", attempt[t] + 1, calls[t] + 1)
<1>1. attempt[t] \in Nat
  BY DEF Typing
<1>2. CASE attempt[t] < MaxAttempts
  <2>1. Acquire(t, attempt[t] + 1, W, v, n) /\ attempt[t] + 1 # 0
    BY <1>1, <1>2 DEF Fallback
  <2> QED
    BY <1>2, <2>1, AcquireTurn
<1>3. CASE ~(attempt[t] < MaxAttempts)
  BY <1>3, SettleTurn DEF Fallback
<1> QED
  BY <1>2, <1>3

\* It is enough to look at the turn that moves: a turn that is woken has the
\* state of a waiting one.
LEMMA OneTurnMoves ==
  ASSUME Typing, CallInv, NEW t \in Turn, NEW x, NEW STATE a, NEW STATE c,
         a \in 0..MaxAttempts, c \in Nat, TurnAfter(t, x, a, c), UNCHANGED streams,
         /\ stage'[t] = x /\ attempt'[t] = a /\ calls'[t] = c
            => CallOfStage(t)'
  PROVE  /\ CallInv'
         /\ attempt' \in [Turn -> 0..MaxAttempts] /\ calls' \in [Turn -> Nat]
<1>1. PICK W \in SUBSET Line(t) : Move(t, x, W)
  BY DEF TurnAfter
<1>2. attempt' \in [Turn -> 0..MaxAttempts] /\ calls' \in [Turn -> Nat]
  BY DEF Typing, TurnAfter
<1>3. CallOfStage(t)'
  BY <1>1 DEF Typing, TurnAfter, Move, Line, Waiting
<1>4. ASSUME NEW u \in Turn \ {t} PROVE CallOfStage(u)'
  <2>1. /\ calls'[u] = calls[u] /\ attempt'[u] = attempt[u]
        /\ taken'[u] = taken[u] /\ queued'[u] = queued[u] /\ sentinel'[u] = sentinel[u]
    BY DEF Typing, TurnAfter, streams
  <2>2. \/ stage'[u] = stage[u]
        \/ stage[u] = "waiting" /\ stage'[u] = "granted"
    BY <1>1 DEF Move, Line, Waiting
  <2>3. CallOfStage(u)
    BY DEF CallInv
  <2> QED
    BY <2>1, <2>2, <2>3 DEF CallOfStage
<1> QED
  BY <1>2, <1>3, <1>4 DEF CallInv

Turns ==
  /\ CallInv
  /\ attempt \in [Turn -> 0..MaxAttempts]
  /\ calls \in [Turn -> Nat]
  /\ queued \in [Turn -> Nat]
  /\ sentinel \in [Turn -> BOOLEAN]
  /\ taken \in [Turn -> Nat]
  /\ \A t \in Turn : queued[t] + taken[t] <= MaxSentences

LEMMA StreamsKept ==
  ASSUME Typing, UNCHANGED streams, CallInv',
         attempt' \in [Turn -> 0..MaxAttempts], calls' \in [Turn -> Nat]
  PROVE  Turns'
BY DEF Typing, Turns, streams

\* A turn that falls back has taken no sentence and runs no call.
LEMMA FallbackKeeps ==
  ASSUME Typing, CallInv, NEW t \in Turn, NEW W \in SUBSET Line(t), NEW STATE v, NEW STATE n,
         Fallback(t, W, v, n), UNCHANGED streams,
         calls[t] = 0, taken[t] = 0, queued[t] = 0
  PROVE  Turns'
<1>1. /\ attempt[t] \in 0..MaxAttempts /\ calls[t] \in Nat
      /\ taken'[t] = 0 /\ queued'[t] = 0
  BY DEF Typing, streams
<1>2. CASE TurnAfter(t, "pattern", attempt[t], calls[t])
  BY <1>1, <1>2, OneTurnMoves, StreamsKept DEF CallOfStage
<1>3. ASSUME attempt[t] < MaxAttempts, TurnAfter(t, "waiting", attempt[t] + 1, calls[t])
      PROVE  Turns'
  <2>1. attempt[t] + 1 \in 0..MaxAttempts
    BY <1>1, <1>3 DEF MaxAttempts
  <2> QED
    BY <1>1, <1>3, <2>1, OneTurnMoves, StreamsKept DEF CallOfStage
<1>4. ASSUME attempt[t] < MaxAttempts,
             TurnAfter(t, "calling", attempt[t] + 1, calls[t] + 1)
      PROVE  Turns'
  <2>1. attempt[t] + 1 \in 0..MaxAttempts
    BY <1>1, <1>4 DEF MaxAttempts
  <2>2. calls[t] + 1 = 1
    OBVIOUS
  <2> QED
    BY <1>1, <1>4, <2>1, <2>2, OneTurnMoves, StreamsKept DEF CallOfStage
<1> QED
  BY <1>2, <1>3, <1>4, FallbackTurn

\* Neither does a turn that ends, or that has taken what it will take.
LEMMA SettleKeeps ==
  ASSUME Typing, CallInv, NEW t \in Turn, NEW W \in SUBSET Line(t), NEW STATE v, NEW STATE n,
         NEW x \in {"cancelled", "answered", "pattern", "finishing"},
         Settle(t, x, W, v, n), UNCHANGED streams,
         x \in {"answered", "pattern"} => taken[t] = 0
  PROVE  Turns'
<1>1. /\ attempt[t] \in 0..MaxAttempts /\ calls[t] \in Nat /\ taken[t] \in Nat
      /\ taken'[t] = taken[t] /\ queued'[t] = queued[t]
  BY DEF Typing, streams
<1>2. CallOfStage(t)
  BY DEF CallInv
<1>3. TurnAfter(t, x, attempt[t], calls[t])
  BY SettleTurn
<1> QED
  BY <1>1, <1>2, <1>3, OneTurnMoves, StreamsKept DEF CallOfStage

\* Every step keeps the turns' own state.
LEMMA NextTurns == PoolInv /\ CallInv /\ [Next]_vars => Turns'
<1> SUFFICES ASSUME Typing, CallInv, [Next]_vars PROVE Turns'
  BY DEF PoolInv
<1>1. CASE UNCHANGED vars
  BY <1>1 DEF Typing, Turns, CallInv, CallOfStage, vars, streams
<1>2. ASSUME NEW t \in Turn, NEW a \in {0, 1}, Begin(t, a) PROVE Turns'
  <2>1. /\ a \in 0..MaxAttempts /\ UNCHANGED streams
        /\ calls[t] = 0 /\ taken'[t] = 0 /\ queued'[t] = 0 /\ ~(taken'[t] > 0)
        /\ {} \in SUBSET Line(t) /\ ~sentinel'[t]
    <3>1. stage[t] = "idle" /\ UNCHANGED streams
      BY <1>2 DEF Begin
    <3>2. calls[t] = 0 /\ taken[t] = 0 /\ queued[t] = 0 /\ ~sentinel[t]
      BY <3>1 DEF CallInv, CallOfStage
    <3>3. taken'[t] = 0 /\ queued'[t] = 0 /\ ~sentinel'[t]
      BY <3>1, <3>2 DEF streams
    <3> QED
      BY <3>1, <3>2, <3>3 DEF MaxAttempts
  <2>2. \/ TurnAfter(t, "waiting", a, 0)
        \/ TurnAfter(t, IF a = 0 THEN "pulling" ELSE "calling", a, 1)
    <3>1. Acquire(t, a, {}, value, active)
      BY <1>2 DEF Begin
    <3>2. \/ TurnAfter(t, "waiting", a, calls[t])
          \/ TurnAfter(t, IF a = 0 THEN "pulling" ELSE "calling", a, calls[t] + 1)
      BY <2>1, <3>1, AcquireTurn
    <3>3. calls[t] + 1 = 1 /\ calls[t] = 0
      BY <2>1
    <3> QED
      BY <3>2, <3>3
  <2>3. CASE TurnAfter(t, "waiting", a, 0)
    BY <2>1, <2>3, OneTurnMoves, StreamsKept DEF CallOfStage
  <2>4. CASE TurnAfter(t, IF a = 0 THEN "pulling" ELSE "calling", a, 1)
    <3>1. CASE a = 0 /\ TurnAfter(t, "pulling", 0, 1)
      BY <2>1, <3>1, OneTurnMoves, StreamsKept DEF CallOfStage
    <3>2. CASE a = 1 /\ TurnAfter(t, "calling", 1, 1)
      BY <2>1, <3>2, OneTurnMoves, StreamsKept DEF CallOfStage
    <3> QED
      BY <2>4, <3>1, <3>2
  <2> QED
    BY <2>2, <2>3, <2>4
<1>3. ASSUME NEW t \in Turn, Enter(t) PROVE Turns'
  <2>1. /\ calls[t] = 0 /\ taken'[t] = 0 /\ queued'[t] = 0 /\ sentinel'[t] = sentinel[t]
        /\ attempt[t] = 0 => ~sentinel[t]
        /\ UNCHANGED streams /\ attempt[t] \in 0..MaxAttempts
    BY <1>3 DEF Enter, streams, CallInv, CallOfStage, Typing
  <2>2. TurnAfter(t, IF attempt[t] = 0 THEN "pulling" ELSE "calling", attempt[t], 1)
    BY <1>3, <2>1 DEF Enter, TurnAfter, Typing
  <2>3. CASE attempt[t] = 0
    <3>1. TurnAfter(t, "pulling", 0, 1)
      BY <2>2, <2>3
    <3> QED
      BY <2>1, <2>3, <3>1, OneTurnMoves, StreamsKept DEF CallOfStage
  <2>4. CASE attempt[t] # 0
    <3>1. TurnAfter(t, "calling", attempt[t], 1)
      BY <2>2, <2>4
    <3> QED
      BY <2>1, <2>4, <3>1, OneTurnMoves, StreamsKept DEF CallOfStage
  <2> QED
    BY <2>3, <2>4
<1>4. ASSUME NEW t \in Turn, PoolTimesOut(t) PROVE Turns'
  <2>1. /\ calls[t] = 0 /\ taken[t] = 0 /\ queued[t] = 0 /\ UNCHANGED streams
        /\ \E W \in SUBSET Line(t) :
             Fallback(t, W, Relinquished(t) - Cardinality(W), active)
    BY <1>4 DEF PoolTimesOut, InLine, CallInv, CallOfStage
  <2> QED
    BY <2>1, FallbackKeeps
<1>5. ASSUME NEW t \in Turn, CancelledInLine(t) PROVE Turns'
  <2>1. /\ UNCHANGED streams
        /\ \E W \in SUBSET Line(t) :
             Settle(t, "cancelled", W, Relinquished(t) - Cardinality(W), active)
    BY <1>5 DEF CancelledInLine
  <2> QED
    BY <2>1, SettleKeeps
<1>6. ASSUME NEW t \in Turn, StreamEnds(t) PROVE Turns'
  <2>1. /\ calls[t] = 0 /\ queued[t] = 0 /\ taken[t] \in Nat /\ UNCHANGED streams
    BY <1>6 DEF StreamEnds, CallInv, CallOfStage, Typing
  <2>2. CASE taken[t] > 0 /\ Release(t, "finishing")
    BY <2>1, <2>2, SettleKeeps DEF Release
  <2>3. CASE taken[t] = 0 /\ \E W \in SUBSET Line(t) : Fallback(t, W, Freed(W), active - 1)
    BY <2>1, <2>3, FallbackKeeps
  <2> QED
    BY <1>6, <2>2, <2>3 DEF StreamEnds
<1>7. ASSUME NEW t \in Turn,
             \/ Joined(t) \/ GeneratorClosed(t) \/ ChatReturns(t)
             \/ ChatTimesOut(t) \/ CancelledCalling(t)
      PROVE  Turns'
  <2>1. UNCHANGED streams /\ \E x \in {"cancelled", "answered", "pattern"} :
          Release(t, x) /\ (x \in {"answered", "pattern"} => taken[t] = 0)
    BY <1>7 DEF Joined, GeneratorClosed, ChatReturns, ChatTimesOut, CancelledCalling,
      CallInv, CallOfStage
  <2> QED
    BY <2>1, SettleKeeps DEF Release
<1>8. ASSUME NEW t \in Turn, Pull(t) PROVE Turns'
  BY <1>8 DEF Pull, Typing, Turns, CallInv, CallOfStage
<1>9. ASSUME NEW t \in Turn,
             \/ Delivered(t) \/ LastDelivered(t) \/ CancelledPulling(t)
             \/ CancelledDelivering(t) \/ CancelledFinishing(t)
      PROVE  Turns'
  BY <1>9 DEF Delivered, LastDelivered, CancelledPulling, CancelledDelivering,
    CancelledFinishing, streams, Typing, Turns, CallInv, CallOfStage
<1>10. ASSUME NEW t \in Turn, Produce(t) PROVE Turns'
  <2>1. CallOfStage(t) /\ stage[t] \in {"pulling", "delivering"}
    BY <1>10 DEF Produce, CallInv
  <2>2. /\ queued' \in [Turn -> Nat]
        /\ queued'[t] + taken[t] <= MaxSentences
        /\ \A u \in Turn \ {t} : queued'[u] = queued[u]
    BY <1>10, PoolAssumption DEF Produce, Typing
  <2>3. CallOfStage(t)'
    BY <1>10, <2>1 DEF Produce, CallOfStage
  <2>4. \A u \in Turn \ {t} : CallOfStage(u)'
    BY <1>10, <2>2 DEF Produce, CallInv, CallOfStage
  <2> QED
    BY <1>10, <2>2, <2>3, <2>4 DEF Produce, Typing, Turns, CallInv
<1>11. ASSUME NEW t \in Turn, CallEnds(t) PROVE Turns'
  <2>1. calls[t] = 1 /\ CallOfStage(t)
    BY <1>11 DEF CallEnds, Typing, CallInv, CallOfStage
  <2>2. /\ calls' \in [Turn -> Nat] /\ calls'[t] = 0
        /\ sentinel' \in [Turn -> BOOLEAN]
        /\ \A u \in Turn \ {t} : calls'[u] = calls[u] /\ sentinel'[u] = sentinel[u]
    BY <1>11, <2>1 DEF CallEnds, Typing
  <2>3. CallOfStage(t)'
    BY <1>11, <2>1, <2>2 DEF CallEnds, CallOfStage
  <2>4. \A u \in Turn \ {t} : CallOfStage(u)'
    BY <1>11, <2>2 DEF CallEnds, CallInv, CallOfStage
  <2> QED
    BY <1>11, <2>2, <2>3, <2>4 DEF CallEnds, Typing, Turns, CallInv
<1> QED
  BY <1>1, <1>2, <1>3, <1>4, <1>5, <1>6, <1>7, <1>8, <1>9, <1>10, <1>11
  DEF Next, Advance, Cancel

-----------------------------------------------------------------------------
LEMMA InitInv == Init => PoolInv /\ CallInv
<1> SUFFICES ASSUME Init PROVE PoolInv /\ CallInv
  OBVIOUS
<1>1. Waiting = {} /\ Granted = {} /\ Inside = {}
  BY DEF Init, Waiting, Granted, Inside, Holding
<1>2. Cardinality({}) = 0
  BY FS_EmptySet
<1>3. PoolBalanced /\ WaitersNotForgotten
  BY <1>1, <1>2, PoolAssumption DEF Init, PoolBalanced, WaitersNotForgotten
<1>4. Typing /\ CallInv
  BY PoolAssumption DEF Init, Typing, Stages, MaxAttempts, CallInv, CallOfStage
<1> QED
  BY <1>3, <1>4 DEF PoolInv

LEMMA Invariance == Spec => [](PoolInv /\ CallInv)
<1>1. PoolInv /\ CallInv /\ [Next]_vars => (PoolInv /\ CallInv)'
  BY NextCounts, NextTurns DEF PoolInv, Typing, Counters, Turns
<1> QED
  BY InitInv, <1>1, PTL DEF Spec

\* Type correctness: no counter leaves its range, the pool's two among them.
THEOREM TypeCorrect == Spec => []TypeOK
<1>1. PoolInv => TypeOK
  <2> SUFFICES ASSUME PoolInv PROVE TypeOK
    OBVIOUS
  <2>1. value \in 0..MaxConcurrent /\ active \in 0..MaxConcurrent
    BY SetCounts, PoolAssumption DEF PoolInv, Typing, PoolBalanced
  <2>2. queued \in [Turn -> 0..MaxSentences] /\ taken \in [Turn -> 0..MaxSentences]
    BY PoolAssumption DEF PoolInv, Typing
  <2> QED
    BY <2>1, <2>2 DEF PoolInv, Typing, TypeOK, Stages
<1> QED
  BY <1>1, Invariance, PTL

\* No slot of the pool is lost or invented, for any number of turns and slots,
\* wherever a timeout or a cancellation hits (resource_pool.py:29-55).
THEOREM SlotsBalanced == Spec => []PoolBalanced
  BY Invariance, PTL DEF PoolInv

\* Nobody waits beside a free slot unless somebody is about to wake them.
THEOREM NobodyForgotten == Spec => []WaitersNotForgotten
  BY Invariance, PTL DEF PoolInv

\* A turn never runs the model twice at a time (response_generator.py:342-346).
THEOREM SingleCall == Spec => []OneCallPerTurn
<1>1. CallInv => OneCallPerTurn
  BY DEF CallInv, CallOfStage, OneCallPerTurn
<1> QED
  BY <1>1, Invariance, PTL

\* What has begun to be spoken is not answered a second time.
THEOREM SingleAnswer == Spec => []NoSecondAnswer
<1>1. CallInv => NoSecondAnswer
  BY DEF CallInv, CallOfStage, NoSecondAnswer
<1> QED
  BY <1>1, Invariance, PTL
----------------------------------------------------------------------------

(***************************************************************************)
(* The services that those turns call, the language model apart: clips to  *)
(* transcribe, phrases to say, images and the weather.  What holds of them *)
(* for any number of callers, retries, slots and cache entries, whatever   *)
(* assumption module Services makes on its constants being the hypothesis  *)
(* of each result.                                                         *)
(***************************************************************************)
CONSTANTS Clips, Batches, Phrases, Images, SttSlots, TtsSlots, MaxRetries, CacheLimit,
          MaxCalls, MaxFaults
VARIABLES phrases, scenes, geo, place, disk, made, faults

Service == INSTANCE Services

RequestStages == {"lost", "done", "asked", "waiting", "preparing", "running", "geocoding",
                  "locating", "fetching", "forecasting"}

Parts == [clip : Clips, idx : Nat, tries : 0 .. MaxRetries, st : {"todo", "ok", "failed"}]

RequestRecords ==
    [op    : {"none", "transcribe", "batch", "speak", "see", "weather"},
     item  : Seq(Clips) \cup Phrases \cup Images \cup Named \cup {"here", "none"},
     at    : RequestStages,
     parts : Seq(Parts),
     known : BOOLEAN,
     read  : {"none", "current", "old"},
     got   : Seq(Clips \cup Phrases \cup Images \cup Named
                 \cup {"raised", "empty", "current", "old", "nowhere", "error"})]

\* What a request has on its way and what it returns, by its kind: a part is that
\* of the clip at the place it kept, and what is kept of the place is the one asked
\* for or one of the server's.
AtItsPlace(part, item) == part.idx \in DOMAIN item /\ part.clip = item[part.idx]

InOrder(got, item) ==
    Len(got) = Len(item) /\ \A i \in DOMAIN item : got[i] \in {"empty", item[i]}

HearInv(r) ==
    /\ r.item \in Seq(Clips) /\ r.at \in {"waiting", "preparing", "running", "done"}
    /\ r.at = "running" => \A j \in DOMAIN r.parts : AtItsPlace(r.parts[j], r.item)
    /\ r.at = "done" => \/ r.op = "transcribe" /\ r.got = << "raised" >>
                        \/ InOrder(r.got, r.item)

SpeakInv(r) ==
    /\ r.item \in Phrases /\ r.at \in {"asked", "waiting", "running", "done"}
    /\ r.at = "done" => \A i \in DOMAIN r.got : r.got[i].words = r.item.words
                                                /\ r.got[i].voice = r.item.voice

SeeInv(r) ==
    /\ r.item \in Images /\ r.at \in {"asked", "running", "done"}
    /\ r.at = "done" => r.got \in {<<>>, << r.item >>}

WeatherInv(r) ==
    /\ r.item \in Named \cup {"here"}
    /\ r.at \in {"asked", "geocoding", "locating", "fetching", "forecasting", "done"}
    /\ r.at = "geocoding" => r.item \in Named
    /\ r.at = "forecasting" => r.got[1] # "nowhere"
    /\ r.at \in {"forecasting", "done"} => (r.got[1] \in Named => r.got[1] = r.item)
    /\ r.at = "fetching" /\ r.known => r.read = "old"
    /\ r.at = "done" => (r.got[1] = "nowhere" => ~r.known)

RequestInv(r) ==
    /\ r.op = "none" => r.at = "lost"
    /\ r.op \in {"transcribe", "batch"} => HearInv(r)
    /\ r.op = "speak" => SpeakInv(r)
    /\ r.op = "see" => SeeInv(r)
    /\ r.op = "weather" => WeatherInv(r)

RequestsInv ==
    /\ requests \in [Callers -> RequestRecords]
    /\ \A k \in Callers : RequestInv(requests[k])

\* An entry is the result for its key, and the only one.
PhraseEntries == {[key |-> Service!CacheKey(p), of |-> p] : p \in Phrases}
SceneEntries  == {[key |-> m, of |-> m] : m \in Images}

CacheInv(cache, entries) ==
    /\ cache \in Seq(entries) /\ Len(cache) <= CacheLimit
    /\ \A i, j \in DOMAIN cache : cache[i].key = cache[j].key => i = j

CachesInv == CacheInv(phrases, PhraseEntries) /\ CacheInv(scenes, SceneEntries)

PlacesInv ==
    /\ geo \in [Named -> {"unknown", "found", "absent"}]
    /\ place \in {"none", "current", "old"} /\ disk \in {"none", "current", "old"}
    /\ made \in 0 .. MaxCalls /\ faults \in 0 .. MaxFaults

\* As long as somebody who could have a location asks, there is one in the process
\* or on disk: the file is torn only by who has put one in the process, or when
\* the process dies and the question with it.
Located  == place # "none" \/ disk # "none"
KnownInv == \A k \in Callers : requests[k].known /\ requests[k].at # "done" => Located

\* What is kept by each step whatever is known of the location, and all of it.
CallsInv    == RequestsInv /\ CachesInv /\ PlacesInv
ServicesInv == CallsInv /\ KnownInv

----------------------------------------------------------------------------
\* The caches.

LEMMA ServiceConstants ==
    ASSUME Service!ServicesAssumption
    PROVE  /\ CacheLimit \in Nat /\ CacheLimit > 0 /\ MaxRetries \in Nat
           /\ MaxCalls \in Nat /\ MaxFaults \in Nat
           /\ Batches \subseteq Seq(Clips)
           /\ \A q \in Named : q \notin {"here", "current", "old", "nowhere", "error"}
  BY DEF Service!ServicesAssumption

\* What is looked up is an entry of the key.
LEMMA FoundEntry ==
    ASSUME NEW entries, NEW cache \in Seq(entries), NEW key, Service!Has(cache, key)
    PROVE  /\ Service!Find(cache, key) \in DOMAIN cache
           /\ cache[Service!Find(cache, key)] \in entries
           /\ cache[Service!Find(cache, key)].key = key
  <1>1. PICK i \in DOMAIN cache : cache[i].key = key
    BY DEF Service!Has
  <1>2. Service!Find(cache, key) \in DOMAIN cache /\ cache[Service!Find(cache, key)].key = key
    BY <1>1 DEF Service!Find
  <1> QED
    BY <1>2

\* Without the entry of a key a cache has the others in their order.
LEMMA WithoutKey ==
    ASSUME NEW entries, NEW cache, CacheInv(cache, entries), CacheLimit \in Nat, NEW key
    PROVE  /\ CacheInv(Service!Without(cache, key), entries)
           /\ \A i \in DOMAIN Service!Without(cache, key) :
                 Service!Without(cache, key)[i].key # key
           /\ Service!Has(cache, key) => Len(Service!Without(cache, key)) < Len(cache)
  <1> DEFINE rest == Service!Without(cache, key)
  <1>1. /\ cache \in Seq(entries) /\ Len(cache) \in Nat /\ Len(cache) <= CacheLimit
        /\ DOMAIN cache = 1 .. Len(cache)
        /\ \A i, j \in 1 .. Len(cache) : cache[i].key = cache[j].key => i = j
    BY DEF CacheInv
  <1>2. CASE ~Service!Has(cache, key)
    <2>1. rest = cache
      BY <1>2 DEF Service!Without
    <2>2. \A i \in DOMAIN cache : cache[i].key # key
      BY <1>2 DEF Service!Has
    <2> QED
      BY <1>2, <2>1, <2>2
  <1>3. CASE Service!Has(cache, key)
    <2> DEFINE f == Service!Find(cache, key)
               a == SubSeq(cache, 1, f - 1)
               b == SubSeq(cache, f + 1, Len(cache))
    <2>1. f \in 1 .. Len(cache) /\ cache[f].key = key
      BY <1>1, <1>3, FoundEntry
    <2> HIDE DEF f
    <2>2. /\ a \in Seq(entries) /\ Len(a) = f - 1
          /\ \A i \in 1 .. f - 1 : a[i] = cache[i]
      BY <1>1, <2>1
    <2>3. /\ b \in Seq(entries) /\ Len(b) = Len(cache) - f
          /\ \A i \in 1 .. Len(cache) - f : b[i] = cache[f + i]
      <3>1. /\ f + 1 \in Int /\ Len(cache) \in Int
            /\ \A i \in f + 1 .. Len(cache) : cache[i] \in entries
        BY <1>1, <2>1
      <3>2. /\ b \in Seq(entries)
            /\ Len(b) = IF f + 1 <= Len(cache) THEN Len(cache) - (f + 1) + 1 ELSE 0
            /\ \A i \in 1 .. Len(cache) - (f + 1) + 1 : b[i] = cache[(f + 1) + i - 1]
        BY <3>1, SubSeqProperties
      <3>3. Len(b) = Len(cache) - f /\ Len(cache) - (f + 1) + 1 = Len(cache) - f
        <4>1. ASSUME NEW n \in Nat, NEW m \in 1 .. n
              PROVE  /\ n - (m + 1) + 1 = n - m
                     /\ (IF m + 1 <= n THEN n - (m + 1) + 1 ELSE 0) = n - m
          OBVIOUS
        <4> HIDE DEF b
        <4> QED
          BY <1>1, <2>1, <3>2, <4>1
      <3>4. \A i \in 1 .. Len(cache) - f : (f + 1) + i - 1 = f + i
        BY <1>1, <2>1
      <3> QED
        BY <3>2, <3>3, <3>4
    <2>4. rest = a \o b
      BY <1>3 DEF Service!Without, f
    <2> HIDE DEF a, b, rest
    <2>5. /\ rest \in Seq(entries) /\ Len(rest) = Len(cache) - 1
          /\ \A i \in 1 .. Len(rest) : rest[i] = IF i < f THEN cache[i] ELSE cache[i + 1]
      <3>1. /\ rest \in Seq(entries) /\ Len(rest) = Len(a) + Len(b)
            /\ \A i \in 1 .. Len(a) + Len(b) :
                  rest[i] = IF i <= Len(a) THEN a[i] ELSE b[i - Len(a)]
        BY <2>2, <2>3, <2>4, ConcatProperties
      <3>2. Len(rest) = Len(cache) - 1
        BY <1>1, <2>1, <2>2, <2>3, <3>1
      <3>3. ASSUME NEW i \in 1 .. Len(rest)
            PROVE  rest[i] = IF i < f THEN cache[i] ELSE cache[i + 1]
        <4>1. CASE i < f
          BY <1>1, <2>1, <2>2, <3>1, <3>2, <3>3, <4>1
        <4>2. CASE i >= f
          <5>1. rest[i] = b[i - (f - 1)] /\ i - (f - 1) \in 1 .. Len(cache) - f
            BY <1>1, <2>1, <2>2, <2>3, <3>1, <3>2, <4>2
          <5>2. f + (i - (f - 1)) = i + 1
            BY <2>1
          <5>3. b[i - (f - 1)] = cache[f + (i - (f - 1))]
            BY <2>3, <5>1
          <5> QED
            BY <2>1, <4>2, <5>1, <5>2, <5>3
        <4> QED
          BY <2>1, <4>1, <4>2
      <3> QED
        BY <3>1, <3>2, <3>3
    <2> DEFINE from(i) == IF i < f THEN i ELSE i + 1
    <2>6. \A i \in 1 .. Len(rest) : /\ from(i) \in 1 .. Len(cache) /\ from(i) # f
                                    /\ rest[i] = cache[from(i)]
      BY <1>1, <2>1, <2>5
    <2>7. \A i, j \in 1 .. Len(rest) : from(i) = from(j) => i = j
      BY <1>1, <2>1, <2>5
    <2> HIDE DEF from
    <2>8. \A i, j \in 1 .. Len(rest) : rest[i].key = rest[j].key => i = j
      BY <1>1, <2>6, <2>7
    <2>9. \A i \in 1 .. Len(rest) : rest[i].key # key
      BY <1>1, <2>1, <2>6
    <2>10. DOMAIN rest = 1 .. Len(rest) /\ Len(rest) < Len(cache) /\ Len(rest) <= CacheLimit
      BY <1>1, <2>5
    <2> QED
      BY <2>5, <2>8, <2>9, <2>10 DEF CacheInv, rest
  <1> QED
    BY <1>2, <1>3

LEMMA AppendsEntry ==
    ASSUME NEW entries, NEW cache, CacheInv(cache, entries), CacheLimit \in Nat,
           Len(cache) < CacheLimit, NEW e \in entries,
           \A i \in DOMAIN cache : cache[i].key # e.key
    PROVE  CacheInv(Append(cache, e), entries)
  <1> DEFINE new == Append(cache, e)
  <1>1. /\ cache \in Seq(entries) /\ Len(cache) \in Nat /\ DOMAIN cache = 1 .. Len(cache)
        /\ \A i, j \in 1 .. Len(cache) : cache[i].key = cache[j].key => i = j
    BY DEF CacheInv
  <1>2. /\ new \in Seq(entries) /\ Len(new) = Len(cache) + 1 /\ DOMAIN new = 1 .. Len(cache) + 1
        /\ \A i \in 1 .. Len(cache) : new[i] = cache[i]
        /\ new[Len(cache) + 1] = e
    BY <1>1
  <1> HIDE DEF new
  <1>3. ASSUME NEW i \in DOMAIN new, NEW j \in DOMAIN new, new[i].key = new[j].key
        PROVE  i = j
    <2>1. CASE i \in 1 .. Len(cache) /\ j \in 1 .. Len(cache)
      BY <1>1, <1>2, <1>3, <2>1
    <2>2. CASE i = Len(cache) + 1 /\ j \in 1 .. Len(cache)
      BY <1>1, <1>2, <1>3, <2>2
    <2>3. CASE i \in 1 .. Len(cache) /\ j = Len(cache) + 1
      BY <1>1, <1>2, <1>3, <2>3
    <2> QED
      BY <1>1, <1>2, <2>1, <2>2, <2>3
  <1>4. Len(new) <= CacheLimit
    BY <1>1, <1>2
  <1> QED
    BY <1>2, <1>3, <1>4 DEF CacheInv, new

LEMMA DropsOldest ==
    ASSUME NEW entries, NEW cache, CacheInv(cache, entries), CacheLimit \in Nat, cache # <<>>
    PROVE  CacheInv(Tail(cache), entries) /\ Len(Tail(cache)) = Len(cache) - 1
  <1> DEFINE rest == Tail(cache)
  <1>1. /\ cache \in Seq(entries) /\ Len(cache) \in Nat /\ Len(cache) <= CacheLimit
        /\ DOMAIN cache = 1 .. Len(cache)
        /\ \A i, j \in 1 .. Len(cache) : cache[i].key = cache[j].key => i = j
    BY DEF CacheInv
  <1>2. /\ rest \in Seq(entries) /\ Len(rest) = Len(cache) - 1
        /\ DOMAIN rest = 1 .. Len(cache) - 1
        /\ \A i \in 1 .. Len(cache) - 1 : rest[i] = cache[i + 1]
    BY <1>1
  <1> HIDE DEF rest
  <1>3. ASSUME NEW i \in DOMAIN rest
        PROVE  i + 1 \in 1 .. Len(cache) /\ rest[i] = cache[i + 1]
    BY <1>1, <1>2
  <1>4. ASSUME NEW i \in DOMAIN rest, NEW j \in DOMAIN rest, rest[i].key = rest[j].key
        PROVE  i = j
    <2>1. i + 1 = j + 1
      BY <1>1, <1>3, <1>4
    <2> QED
      BY <1>2, <2>1
  <1>5. Len(rest) <= CacheLimit
    BY <1>1, <1>2
  <1> QED
    BY <1>2, <1>4, <1>5 DEF CacheInv, rest

LEMMA StaysOfTail ==
    ASSUME NEW entries, NEW cache, CacheInv(cache, entries), cache # <<>>
    PROVE  \A i \in DOMAIN Tail(cache) : \E j \in DOMAIN cache : Tail(cache)[i] = cache[j]
  <1>1. cache \in Seq(entries)
    BY DEF CacheInv
  <1>2. ASSUME NEW i \in DOMAIN Tail(cache)
        PROVE  i + 1 \in DOMAIN cache /\ Tail(cache)[i] = cache[i + 1]
    BY <1>1, <1>2
  <1> QED
    BY <1>2

\* A hit moves the entry to the end.
LEMMA TouchedKept ==
    ASSUME NEW entries, NEW cache, CacheInv(cache, entries), CacheLimit \in Nat, NEW key,
           Service!Has(cache, key)
    PROVE  CacheInv(Service!Touched(cache, key), entries)
  <1> DEFINE rest == Service!Without(cache, key)
             e    == cache[Service!Find(cache, key)]
  <1>1. /\ CacheInv(rest, entries) /\ Len(rest) < Len(cache)
        /\ \A i \in DOMAIN rest : rest[i].key # key
    BY WithoutKey
  <1>2. e \in entries /\ e.key = key
    BY FoundEntry DEF CacheInv
  <1>3. Len(rest) < CacheLimit
    BY <1>1 DEF CacheInv
  <1> HIDE DEF rest, e
  <1>4. CacheInv(Append(rest, e), entries)
    BY <1>1, <1>2, <1>3, AppendsEntry
  <1> QED
    BY <1>4 DEF Service!Touched, rest, e

\* A new entry takes the place of the one of its key or, when the cache is full,
\* of the oldest.
LEMMA PutKept ==
    ASSUME NEW entries, NEW cache, CacheInv(cache, entries), CacheLimit \in Nat \ {0},
           NEW key, NEW of, [key |-> key, of |-> of] \in entries
    PROVE  CacheInv(Service!Put(cache, key, of), entries)
  <1> DEFINE rest == Service!Without(cache, key)
             room == IF Len(rest) >= CacheLimit THEN Tail(rest) ELSE rest
             e    == [key |-> key, of |-> of]
  <1>1. CacheInv(rest, entries) /\ \A i \in DOMAIN rest : rest[i].key # key
    BY WithoutKey
  <1>2. e \in entries /\ e.key = key
    OBVIOUS
  <1>3. Service!Put(cache, key, of) = Append(room, e)
    BY DEF Service!Put
  <1> HIDE DEF rest, e
  <1>4. Len(rest) \in Nat /\ Len(rest) <= CacheLimit
    BY <1>1 DEF CacheInv
  <1>5. /\ CacheInv(room, entries) /\ Len(room) < CacheLimit
        /\ \A i \in DOMAIN room : room[i].key # key
    <2>1. CASE Len(rest) >= CacheLimit
      <3>1. rest # <<>>
        BY <1>4, <2>1
      <3>2. /\ CacheInv(Tail(rest), entries) /\ Len(Tail(rest)) = Len(rest) - 1
            /\ \A i \in DOMAIN Tail(rest) : \E j \in DOMAIN rest : Tail(rest)[i] = rest[j]
        <4>1. CacheLimit \in Nat /\ CacheInv(rest, entries)
          BY <1>1
        <4>2. CacheInv(Tail(rest), entries) /\ Len(Tail(rest)) = Len(rest) - 1
          BY <3>1, <4>1, DropsOldest
        <4>3. \A i \in DOMAIN Tail(rest) : \E j \in DOMAIN rest : Tail(rest)[i] = rest[j]
          BY <3>1, <4>1, StaysOfTail
        <4> QED
          BY <4>2, <4>3
      <3>3. \A i \in DOMAIN Tail(rest) : Tail(rest)[i].key # key
        BY <1>1, <3>2
      <3> QED
        BY <1>4, <2>1, <3>2, <3>3
    <2>2. CASE ~(Len(rest) >= CacheLimit)
      BY <1>1, <1>4, <2>2
    <2> QED
      BY <2>1, <2>2
  <1> HIDE DEF room
  <1>6. CacheInv(Append(room, e), entries)
    <2>1. CacheLimit \in Nat
      OBVIOUS
    <2> QED
      BY <1>2, <1>5, <2>1, AppendsEntry
  <1> QED
    BY <1>3, <1>6

----------------------------------------------------------------------------
\* The requests.

\* Of a request, what its invariant speaks of.
LEMMA RequestFields ==
    ASSUME NEW r \in RequestRecords
    PROVE  /\ r.at \in RequestStages /\ r.parts \in Seq(Parts) /\ r.known \in BOOLEAN
           /\ r.read \in {"none", "current", "old"}
  BY DEF RequestRecords

\* Of the invariant of a request, what concerns its kind.
LEMMA OfItsKind ==
    ASSUME NEW r
    PROVE  /\ r.op \in {"transcribe", "batch"} => (RequestInv(r) <=> HearInv(r))
           /\ r.op = "speak" => (RequestInv(r) <=> SpeakInv(r))
           /\ r.op = "see" => (RequestInv(r) <=> SeeInv(r))
           /\ r.op = "weather" => (RequestInv(r) <=> WeatherInv(r))
  BY DEF RequestInv

LEMMA RequestReplaced ==
    ASSUME RequestsInv, NEW k \in Callers, NEW r \in RequestRecords, RequestInv(r),
           requests' = [requests EXCEPT ![k] = r]
    PROVE  RequestsInv'
  <1>1. requests' \in [Callers -> RequestRecords]
    BY DEF RequestsInv
  <1>2. ASSUME NEW j \in Callers PROVE RequestInv(requests'[j])
    <2>1. requests'[j] = IF j = k THEN r ELSE requests[j]
      BY DEF RequestsInv
    <2> QED
      BY <2>1 DEF RequestsInv
  <1> QED
    BY <1>1, <1>2 DEF RequestsInv

LEMMA MovesRecord ==
    ASSUME RequestsInv, NEW k \in Callers, NEW at \in RequestStages, Service!Moves(k, at)
    PROVE  \E r \in RequestRecords :
              /\ requests' = [requests EXCEPT ![k] = r]
              /\ r.op = requests[k].op /\ r.item = requests[k].item /\ r.at = at
              /\ r.parts = requests[k].parts /\ r.known = requests[k].known
              /\ r.got = requests[k].got
  <1> DEFINE r == [requests[k] EXCEPT !.at = at]
  <1>1. requests[k] \in RequestRecords
    BY DEF RequestsInv
  <1>2. /\ r \in RequestRecords
        /\ r.op = requests[k].op /\ r.item = requests[k].item /\ r.at = at
        /\ r.parts = requests[k].parts /\ r.known = requests[k].known
        /\ r.got = requests[k].got
    BY <1>1 DEF RequestRecords
  <1>3. requests' = [requests EXCEPT ![k] = r]
    BY DEF Service!Moves
  <1> QED
    BY <1>2, <1>3

Gots == Seq(Clips \cup Phrases \cup Images \cup Named
            \cup {"raised", "empty", "current", "old", "nowhere", "error"})

LEMMA ReturnsRecord ==
    ASSUME RequestsInv, NEW k \in Callers, NEW got \in Gots, Service!Returns(k, got)
    PROVE  \E r \in RequestRecords :
              /\ requests' = [requests EXCEPT ![k] = r]
              /\ r.op = requests[k].op /\ r.item = requests[k].item /\ r.at = "done"
              /\ r.known = requests[k].known /\ r.got = got
  <1> DEFINE r == [requests[k] EXCEPT !.at = "done", !.got = got, !.parts = <<>>]
  <1>1. requests[k] \in RequestRecords
    BY DEF RequestsInv
  <1>2. "done" \in RequestStages /\ <<>> \in Seq(Parts)
    BY DEF RequestStages
  <1>3. /\ r \in RequestRecords
        /\ r.op = requests[k].op /\ r.item = requests[k].item /\ r.at = "done"
        /\ r.known = requests[k].known /\ r.got = got
    BY <1>1, <1>2 DEF RequestRecords, Gots
  <1>4. requests' = [requests EXCEPT ![k] = r]
    BY DEF Service!Returns, RequestsInv
  <1> QED
    BY <1>3, <1>4

LEMMA FoundRecord ==
    ASSUME RequestsInv, NEW k \in Callers, NEW p, << p >> \in Gots, Service!Found(k, p)
    PROVE  \E r \in RequestRecords :
              /\ requests' = [requests EXCEPT ![k] = r]
              /\ r.op = requests[k].op /\ r.item = requests[k].item /\ r.at = "forecasting"
              /\ r.got = << p >>
  <1> DEFINE r == [requests[k] EXCEPT !.at = "forecasting", !.got = << p >>]
  <1>1. requests[k] \in RequestRecords
    BY DEF RequestsInv
  <1>2. "forecasting" \in RequestStages
    BY DEF RequestStages
  <1>3. /\ r \in RequestRecords
        /\ r.op = requests[k].op /\ r.item = requests[k].item /\ r.at = "forecasting"
        /\ r.got = << p >>
    BY <1>1, <1>2 DEF RequestRecords, Gots
  <1>4. requests' = [requests EXCEPT ![k] = r]
    BY DEF Service!Found, RequestsInv
  <1> QED
    BY <1>3, <1>4

\* A step of one request that leaves the rest as typed as it was.
Still == CachesInv' /\ PlacesInv'

LEMMA Unmoved ==
    ASSUME CachesInv, PlacesInv, UNCHANGED <<phrases, scenes, geo, place, disk, made>>,
           faults' \in 0 .. MaxFaults
    PROVE  Still
  BY DEF Still, CachesInv, PlacesInv

LEMMA FaultTyped ==
    ASSUME PlacesInv, MaxFaults \in Nat, Service!Fault PROVE faults' \in 0 .. MaxFaults
  BY DEF PlacesInv, Service!Fault

Asked(op, item, at, known) ==
    [op |-> op, item |-> item, at |-> at, parts |-> <<>>, known |-> known, read |-> "none",
     got |-> <<>>]

LEMMA CallKept ==
    ASSUME CallsInv, KnownInv, MaxCalls \in Nat, NEW k \in Callers, NEW op, NEW item, NEW at,
           \A known \in BOOLEAN : /\ Asked(op, item, at, known) \in RequestRecords
                                  /\ RequestInv(Asked(op, item, at, known)),
           Service!Call(k, op, item, at)
    PROVE  CallsInv' /\ KnownInv'
  <1> DEFINE known == op = "weather" /\ (place # "none" \/ disk # "none")
             r     == Asked(op, item, at, known)
  <1>1. /\ requests' = [requests EXCEPT ![k] = r]
        /\ made < MaxCalls /\ made' = made + 1
        /\ UNCHANGED <<phrases, scenes, geo, place, disk, faults>>
    BY DEF Service!Call, Service!location, Asked
  <1>2. r \in RequestRecords /\ RequestInv(r)
    BY known \in BOOLEAN
  <1>3. r.known => Located
    BY DEF Asked, Located
  <1> HIDE DEF r
  <1>4. RequestsInv'
    BY <1>1, <1>2, RequestReplaced DEF CallsInv
  <1>5. made' \in 0 .. MaxCalls
    BY <1>1 DEF CallsInv, PlacesInv
  <1>6. CachesInv' /\ PlacesInv'
    BY <1>1, <1>5 DEF CallsInv, CachesInv, PlacesInv
  <1>7. KnownInv'
    <2>1. ASSUME NEW j \in Callers PROVE requests'[j] = IF j = k THEN r ELSE requests[j]
      BY <1>1 DEF CallsInv, RequestsInv
    <2>2. Located' = Located
      BY <1>1 DEF Located
    <2> QED
      BY <1>3, <2>1, <2>2 DEF CallsInv, RequestsInv, KnownInv
  <1> QED
    BY <1>4, <1>6, <1>7 DEF CallsInv

LEMMA AsksKept ==
    ASSUME Service!ServicesAssumption, CallsInv, KnownInv, NEW k \in Callers, Service!Asks(k)
    PROVE  CallsInv' /\ KnownInv'
  <1>1. MaxCalls \in Nat /\ Batches \subseteq Seq(Clips)
    BY ServiceConstants
  <1>2. <<>> \in Gots /\ <<>> \in Seq(Parts)
    BY DEF Gots
  <1>3. ASSUME NEW op \in {"transcribe", "batch"}, NEW item \in Seq(Clips),
               NEW at \in {"waiting", "preparing"}, Service!Call(k, op, item, at)
        PROVE  CallsInv' /\ KnownInv'
    <2>1. ASSUME NEW known \in BOOLEAN
          PROVE  /\ Asked(op, item, at, known) \in RequestRecords
                 /\ RequestInv(Asked(op, item, at, known))
      <3> DEFINE r == Asked(op, item, at, known)
      <3>1. r \in RequestRecords
        BY <1>2 DEF Asked, RequestRecords, RequestStages, Gots
      <3>2. r.op = op /\ r.item = item /\ r.at = at
        BY DEF Asked
      <3> HIDE DEF r
      <3>3. RequestInv(r)
        BY <3>2 DEF RequestInv, HearInv
      <3> QED
        BY <3>1, <3>3 DEF r
    <2> QED
      BY <1>1, <1>3, <2>1, CallKept
  <1>4. CASE Service!Transcribe(k)
    <2>1. PICK c \in Clips : Service!Call(k, "transcribe", << c >>, "waiting")
      BY <1>4 DEF Service!Transcribe
    <2>2. << c >> \in Seq(Clips)
      OBVIOUS
    <2> QED
      BY <1>3, <2>1, <2>2
  <1>5. CASE Service!TranscribeBatch(k)
    <2>1. PICK b \in Batches : Service!Call(k, "batch", b, "preparing")
      BY <1>5 DEF Service!TranscribeBatch
    <2>2. b \in Seq(Clips)
      BY <1>1
    <2> QED
      BY <1>3, <2>1, <2>2
  <1>6. ASSUME NEW op \in {"speak", "see", "weather"}, NEW item,
               Service!Call(k, op, item, "asked"),
               op = "speak" => item \in Phrases, op = "see" => item \in Images,
               op = "weather" => item \in Named \cup {"here"}
        PROVE  CallsInv' /\ KnownInv'
    <2>1. item \in Phrases \cup Images \cup Named \cup {"here"}
      BY <1>6
    <2>2. ASSUME NEW known \in BOOLEAN
          PROVE  /\ Asked(op, item, "asked", known) \in RequestRecords
                 /\ RequestInv(Asked(op, item, "asked", known))
      <3> DEFINE r == Asked(op, item, "asked", known)
      <3>1. r \in RequestRecords
        BY <1>2, <2>1 DEF Asked, RequestRecords, RequestStages, Gots
      <3>2. r.op = op /\ r.item = item /\ r.at = "asked"
        BY DEF Asked
      <3> HIDE DEF r
      <3>3. RequestInv(r)
        BY <1>6, <3>2 DEF RequestInv, SpeakInv, SeeInv, WeatherInv
      <3> QED
        BY <3>1, <3>3 DEF r
    <2> QED
      BY <1>1, <1>6, <2>2, CallKept
  <1>7. CASE Service!Speak(k)
    BY <1>6, <1>7 DEF Service!Speak
  <1>8. CASE Service!See(k)
    BY <1>6, <1>8 DEF Service!See
  <1>9. CASE Service!Weather(k)
    BY <1>6, <1>9 DEF Service!Weather
  <1> QED
    BY <1>4, <1>5, <1>7, <1>8, <1>9 DEF Service!Asks

\* One that has moved, failed or returned, and nothing else changed.
LEMMA AloneKept ==
    ASSUME CallsInv, NEW k \in Callers, NEW r \in RequestRecords, RequestInv(r),
           requests' = [requests EXCEPT ![k] = r],
           UNCHANGED <<phrases, scenes, geo, place, disk, made>>, faults' \in 0 .. MaxFaults
    PROVE  CallsInv'
  <1>1. RequestsInv'
    BY RequestReplaced DEF CallsInv
  <1>2. Still
    BY Unmoved DEF CallsInv
  <1> QED
    BY <1>1, <1>2 DEF CallsInv, Still

LEMMA SlotsKept ==
    ASSUME CallsInv, NEW k \in Callers, NEW op \in {"transcribe", "speak"},
           Service!GetSlot(k, op) \/ Service!SlotTimesOut(k, op)
    PROVE  CallsInv'
  <1>1. /\ requests[k] \in RequestRecords /\ RequestInv(requests[k])
        /\ requests[k].op = op /\ requests[k].at = "waiting"
        /\ UNCHANGED <<phrases, scenes, geo, place, disk, made>> /\ faults' \in 0 .. MaxFaults
    BY DEF CallsInv, RequestsInv, PlacesInv, Service!GetSlot, Service!SlotTimesOut, Service!At,
           Service!caches, Service!location
  <1>2. CASE Service!GetSlot(k, op)
    <2> DEFINE at == IF op = "speak" THEN "running" ELSE "preparing"
    <2>1. at \in RequestStages /\ Service!Moves(k, at)
      BY <1>2 DEF Service!GetSlot, RequestStages
    <2>2. \/ op = "speak" /\ at = "running"
          \/ op = "transcribe" /\ at = "preparing"
      OBVIOUS
    <2> HIDE DEF at
    <2>3. PICK r \in RequestRecords :
             /\ requests' = [requests EXCEPT ![k] = r]
             /\ r.op = op /\ r.item = requests[k].item /\ r.at = at
      BY <1>1, <2>1, MovesRecord DEF CallsInv
    <2>4. RequestInv(r)
      BY <1>1, <2>2, <2>3 DEF RequestInv, HearInv, SpeakInv
    <2> QED
      BY <1>1, <2>3, <2>4, AloneKept
  <1>3. CASE Service!SlotTimesOut(k, op)
    <2> DEFINE got == IF op = "speak" THEN <<>> ELSE << "raised" >>
    <2>1. got \in Gots /\ Service!Returns(k, got)
      <3>1. <<>> \in Gots /\ << "raised" >> \in Gots
        BY DEF Gots
      <3>2. Service!Returns(k, got)
        BY <1>3 DEF Service!SlotTimesOut
      <3> QED
        BY <3>1, <3>2
    <2>2. \/ op = "speak" /\ got = <<>>
          \/ op = "transcribe" /\ got = << "raised" >>
      OBVIOUS
    <2> HIDE DEF got
    <2>3. PICK r \in RequestRecords :
             /\ requests' = [requests EXCEPT ![k] = r]
             /\ r.op = op /\ r.item = requests[k].item /\ r.at = "done" /\ r.got = got
      BY <1>1, <2>1, ReturnsRecord DEF CallsInv
    <2>4. CASE op = "speak" /\ got = <<>>
      <3>1. SpeakInv(requests[k])
        BY <1>1, <2>4, OfItsKind
      <3>2. RequestInv(r)
        BY <1>1, <2>3, <2>4, <3>1, OfItsKind DEF SpeakInv
      <3> QED
        BY <1>1, <2>3, <3>2, AloneKept
    <2>5. CASE op = "transcribe" /\ got = << "raised" >>
      <3>1. HearInv(requests[k])
        BY <1>1, <2>5, OfItsKind
      <3>2. RequestInv(r)
        BY <1>1, <2>3, <2>5, <3>1, OfItsKind DEF HearInv
      <3> QED
        BY <1>1, <2>3, <3>2, AloneKept
    <2> QED
      BY <2>2, <2>4, <2>5
  <1> QED
    BY <1>2, <1>3

LEMMA PartTyped ==
    ASSUME MaxRetries \in Nat, NEW c \in Clips, NEW n \in Nat
    PROVE  /\ Service!Part(c, n) \in Parts
           /\ Service!Part(c, n).clip = c /\ Service!Part(c, n).idx = n
  BY DEF Service!Part, Parts

\* The clips that could be decoded keep their places.
LEMMA PreprocessKept ==
    ASSUME CallsInv, MaxRetries \in Nat, MaxFaults \in Nat, NEW k \in Callers,
           Service!Preprocess(k)
    PROVE  CallsInv'
  <1> DEFINE item == requests[k].item
  <1>1. /\ requests[k] \in RequestRecords /\ RequestInv(requests[k])
        /\ requests[k].op \in {"transcribe", "batch"} /\ requests[k].at = "preparing"
        /\ UNCHANGED <<phrases, scenes, geo, place, disk, made>>
    BY DEF CallsInv, RequestsInv, Service!Preprocess, Service!At, Service!caches,
           Service!location
  <1>2. item \in Seq(Clips)
    BY <1>1, OfItsKind DEF HearInv
  <1>3. PICK n \in 0 .. Len(item) : \E valid \in [1 .. n -> 1 .. Len(item)] :
           /\ faults' = faults \/ Service!Fault
           /\ requests' = [requests EXCEPT ![k].at = "running",
                 ![k].parts = [i \in 1 .. n |-> Service!Part(item[valid[i]], valid[i])]]
    BY DEF Service!Preprocess
  <1>4. PICK valid \in [1 .. n -> 1 .. Len(item)] :
           /\ faults' = faults \/ Service!Fault
           /\ requests' = [requests EXCEPT ![k].at = "running",
                 ![k].parts = [i \in 1 .. n |-> Service!Part(item[valid[i]], valid[i])]]
    BY <1>3
  <1>5. faults' \in 0 .. MaxFaults
    BY <1>4, FaultTyped DEF CallsInv, PlacesInv
  <1> DEFINE parts == [i \in 1 .. n |-> Service!Part(item[valid[i]], valid[i])]
             r     == [requests[k] EXCEPT !.at = "running", !.parts = parts]
  <1>6. requests' = [requests EXCEPT ![k] = r]
    BY <1>4 DEF CallsInv, RequestsInv
  <1>7. ASSUME NEW i \in 1 .. n
        PROVE  /\ Service!Part(item[valid[i]], valid[i]) \in Parts
               /\ AtItsPlace(Service!Part(item[valid[i]], valid[i]), item)
    <2> DEFINE v == valid[i]
    <2>1. v \in 1 .. Len(item)
      OBVIOUS
    <2> HIDE DEF item, v
    <2>2. v \in Nat /\ v \in DOMAIN item /\ item[v] \in Clips
      BY <1>2, <2>1
    <2>3. /\ Service!Part(item[v], v) \in Parts /\ Service!Part(item[v], v).clip = item[v]
          /\ Service!Part(item[v], v).idx = v
      BY <2>2, PartTyped
    <2>4. AtItsPlace(Service!Part(item[v], v), item)
      BY <2>2, <2>3 DEF AtItsPlace
    <2> QED
      BY <2>3, <2>4 DEF v
  <1>8. /\ parts \in Seq(Parts) /\ DOMAIN parts = 1 .. n
        /\ \A j \in DOMAIN parts : AtItsPlace(parts[j], item)
    <2>1. n \in Nat
      BY <1>2
    <2> HIDE DEF item
    <2> QED
      BY <1>7, <2>1
  <1> HIDE DEF parts
  <1>9. /\ r \in RequestRecords
        /\ r.op = requests[k].op /\ r.item = item /\ r.at = "running" /\ r.parts = parts
    BY <1>1, <1>8 DEF RequestRecords, RequestStages
  <1> HIDE DEF r, item
  <1>10. RequestInv(r)
    BY <1>1, <1>2, <1>8, <1>9, OfItsKind DEF HearInv
  <1> QED
    BY <1>1, <1>5, <1>6, <1>9, <1>10, AloneKept

\* What becomes of a part leaves it the part of its clip.
LEMMA SettleKept ==
    ASSUME CallsInv, NEW k \in Callers, NEW i, Service!Todo(k, i), NEW part \in Parts,
           part.clip = requests[k].parts[i].clip, part.idx = requests[k].parts[i].idx,
           Service!Settle(k, i, part)
    PROVE  CallsInv'
  <1>1. /\ requests[k] \in RequestRecords /\ RequestInv(requests[k])
        /\ requests[k].op \in {"transcribe", "batch"} /\ requests[k].at = "running"
        /\ i \in DOMAIN requests[k].parts
    BY DEF CallsInv, RequestsInv, Service!Todo, Service!Hearing, Service!At
  <1> DEFINE old   == requests[k].parts
             parts == [old EXCEPT ![i] = part]
             r     == [requests[k] EXCEPT !.parts = parts]
  <1>2. /\ requests' = [requests EXCEPT ![k] = r]
        /\ UNCHANGED <<phrases, scenes, geo, place, disk, made>> /\ faults' \in 0 .. MaxFaults
    BY DEF Service!Settle, Service!caches, Service!location, CallsInv, RequestsInv, PlacesInv
  <1>3. old \in Seq(Parts)
    BY <1>1, RequestFields
  <1>4. HearInv(requests[k])
    BY <1>1, OfItsKind
  <1>5. \A j \in DOMAIN old : AtItsPlace(old[j], requests[k].item)
    BY <1>1, <1>4 DEF HearInv
  <1>6. /\ parts \in Seq(Parts) /\ DOMAIN parts = DOMAIN old
        /\ \A j \in DOMAIN old : parts[j] = IF j = i THEN part ELSE old[j]
    BY <1>1, <1>3
  <1>7. \A j \in DOMAIN parts : AtItsPlace(parts[j], requests[k].item)
    <2> HIDE DEF old, parts
    <2>1. AtItsPlace(part, requests[k].item)
      BY <1>1, <1>5 DEF AtItsPlace, old
    <2> QED
      BY <1>5, <1>6, <2>1
  <1> HIDE DEF parts
  <1>8. /\ r \in RequestRecords
        /\ r.op = requests[k].op /\ r.item = requests[k].item /\ r.at = requests[k].at
        /\ r.parts = parts
    BY <1>1, <1>6 DEF RequestRecords
  <1> HIDE DEF r
  <1>9. RequestInv(r)
    BY <1>1, <1>4, <1>7, <1>8, OfItsKind DEF HearInv
  <1> QED
    BY <1>2, <1>8, <1>9, AloneKept

LEMMA AttemptsKept ==
    ASSUME CallsInv, MaxRetries \in Nat, NEW k \in Callers, NEW i,
           Service!Heard(k, i) \/ Service!AttemptFails(k, i)
    PROVE  CallsInv'
  <1> DEFINE p == requests[k].parts[i]
  <1>1. Service!Todo(k, i)
    BY DEF Service!Heard, Service!AttemptFails
  <1>2. p \in Parts
    <2>1. requests[k] \in RequestRecords /\ i \in DOMAIN requests[k].parts
      BY <1>1 DEF CallsInv, RequestsInv, Service!Todo
    <2>2. requests[k].parts \in Seq(Parts)
      BY <2>1, RequestFields
    <2> QED
      BY <2>1, <2>2
  <1>3. \E part \in Parts :
           part.clip = p.clip /\ part.idx = p.idx /\ Service!Settle(k, i, part)
    <2>1. ASSUME NEW st \in {"ok", "failed"}, Service!Settle(k, i, [p EXCEPT !.st = st])
          PROVE  \E part \in Parts :
                    part.clip = p.clip /\ part.idx = p.idx /\ Service!Settle(k, i, part)
      <3>1. /\ [p EXCEPT !.st = st] \in Parts
            /\ [p EXCEPT !.st = st].clip = p.clip /\ [p EXCEPT !.st = st].idx = p.idx
        BY <1>2 DEF Parts
      <3> QED
        BY <2>1, <3>1
    <2>2. ASSUME p.tries < MaxRetries, Service!Settle(k, i, [p EXCEPT !.tries = @ + 1])
          PROVE  \E part \in Parts :
                    part.clip = p.clip /\ part.idx = p.idx /\ Service!Settle(k, i, part)
      <3>1. p.tries + 1 \in 0 .. MaxRetries
        BY <1>2, <2>2 DEF Parts
      <3>2. /\ [p EXCEPT !.tries = @ + 1] \in Parts
            /\ [p EXCEPT !.tries = @ + 1].clip = p.clip
            /\ [p EXCEPT !.tries = @ + 1].idx = p.idx
        BY <1>2, <3>1 DEF Parts
      <3> QED
        BY <2>2, <3>2
    <2>3. \/ Service!Settle(k, i, [p EXCEPT !.st = "ok"])
          \/ Service!Settle(k, i, [p EXCEPT !.st = "failed"])
          \/ Service!Settle(k, i, [p EXCEPT !.tries = @ + 1]) /\ p.tries < MaxRetries
      BY DEF Service!Heard, Service!AttemptFails
    <2> QED
      BY <2>1, <2>2, <2>3
  <1> HIDE DEF p
  <1>4. PICK part \in Parts :
           part.clip = p.clip /\ part.idx = p.idx /\ Service!Settle(k, i, part)
    BY <1>3
  <1> QED
    BY <1>1, <1>4, SettleKept DEF p

\* At the place of a clip is what the model made of the part that kept the place.
LEMMA ResultsInOrder ==
    ASSUME NEW k \in Callers, requests[k].item \in Seq(Clips),
           \A j \in DOMAIN requests[k].parts :
              AtItsPlace(requests[k].parts[j], requests[k].item)
    PROVE  InOrder(Service!Results(k), requests[k].item) /\ Service!Results(k) \in Gots
  <1> DEFINE item  == requests[k].item
             parts == requests[k].parts
             of(i) == {j \in DOMAIN parts : parts[j].idx = i}
             res(i) == IF of(i) = {} THEN "empty"
                       ELSE Service!TextOf(parts[CHOOSE j \in of(i) : TRUE])
  <1>1. Service!Results(k) = [i \in DOMAIN item |-> res(i)]
    BY DEF Service!Results
  <1>2. item \in Seq(Clips) /\ DOMAIN item = 1 .. Len(item) /\ Len(item) \in Nat
    OBVIOUS
  <1>3. ASSUME NEW i \in DOMAIN item PROVE res(i) \in {"empty", item[i]}
    <2>1. CASE of(i) = {}
      BY <2>1
    <2>2. CASE of(i) # {}
      <3> DEFINE j == CHOOSE j \in of(i) : TRUE
      <3>1. j \in of(i)
        BY <2>2
      <3>2. j \in DOMAIN parts /\ parts[j].idx = i
        BY <3>1
      <3> HIDE DEF j
      <3>3. parts[j].clip = item[i]
        BY <3>2 DEF AtItsPlace
      <3>4. Service!TextOf(parts[j]) \in {"empty", item[i]}
        BY <3>3 DEF Service!TextOf
      <3> QED
        BY <2>2, <3>4 DEF j
    <2> QED
      BY <2>1, <2>2
  <1> HIDE DEF item, res
  <1>4. \A i \in 1 .. Len(item) : res(i) \in Clips \cup {"empty"}
    BY <1>2, <1>3
  <1> DEFINE got == [i \in 1 .. Len(item) |-> res(i)]
  <1>5. got \in Seq(Clips \cup {"empty"}) /\ Len(got) = Len(item)
        /\ \A i \in DOMAIN item : got[i] \in {"empty", item[i]}
    BY <1>2, <1>3, <1>4
  <1>6. Service!Results(k) = got
    BY <1>1, <1>2
  <1> HIDE DEF got
  <1>7. got \in Gots
    <2>1. got \in Seq(Clips \cup {"empty"})
      BY <1>5
    <2>2. Clips \cup {"empty"} \subseteq Clips \cup Phrases \cup Images \cup Named
             \cup {"raised", "empty", "current", "old", "nowhere", "error"}
      OBVIOUS
    <2> QED
      BY <2>1, <2>2 DEF Gots
  <1> QED
    BY <1>5, <1>6, <1>7 DEF InOrder, item

\* When the segments fail, too, each clip of the request has a result, an empty one.
LEMMA EmptyInOrder ==
    ASSUME NEW k \in Callers, requests[k].item \in Seq(Clips)
    PROVE  InOrder(Service!AllEmpty(k), requests[k].item) /\ Service!AllEmpty(k) \in Gots
  <1> DEFINE item == requests[k].item
             got  == [i \in 1 .. Len(item) |-> "empty"]
  <1>1. item \in Seq(Clips) /\ DOMAIN item = 1 .. Len(item) /\ Len(item) \in Nat
    OBVIOUS
  <1>2. Service!AllEmpty(k) = got
    BY <1>1 DEF Service!AllEmpty
  <1> HIDE DEF item
  <1>3. InOrder(got, item) /\ got \in Gots
    BY <1>1 DEF InOrder, Gots
  <1> QED
    BY <1>2, <1>3 DEF item

\* What is handed back has each clip's result at the clip's place.
LEMMA HandedBack ==
    ASSUME CallsInv, MaxFaults \in Nat, NEW k \in Callers,
           Service!Transcribed(k) \/ Service!SegmentsFail(k)
    PROVE  CallsInv'
  <1>1. /\ requests[k] \in RequestRecords /\ RequestInv(requests[k])
        /\ requests[k].op \in {"transcribe", "batch"} /\ requests[k].at = "running"
    BY DEF CallsInv, RequestsInv, Service!Transcribed, Service!SegmentsFail,
           Service!AllSettled, Service!Hearing, Service!At
  <1>2. /\ UNCHANGED <<phrases, scenes, geo, place, disk, made>>
        /\ faults' = faults \/ Service!Fault
    BY DEF Service!Transcribed, Service!SegmentsFail, Service!caches, Service!location
  <1>3. faults' \in 0 .. MaxFaults
    BY <1>2, FaultTyped DEF CallsInv, PlacesInv
  <1>4. PICK got \in {Service!Results(k), Service!AllEmpty(k)} : Service!Returns(k, got)
    BY DEF Service!Transcribed, Service!SegmentsFail
  <1>5. /\ requests[k].item \in Seq(Clips)
        /\ \A j \in DOMAIN requests[k].parts :
              AtItsPlace(requests[k].parts[j], requests[k].item)
    BY <1>1, OfItsKind DEF HearInv
  <1>6. InOrder(got, requests[k].item) /\ got \in Gots
    BY <1>4, <1>5, ResultsInOrder, EmptyInOrder
  <1>7. PICK r \in RequestRecords :
           /\ requests' = [requests EXCEPT ![k] = r]
           /\ r.op = requests[k].op /\ r.item = requests[k].item /\ r.at = "done" /\ r.got = got
    BY <1>4, <1>6, ReturnsRecord DEF CallsInv
  <1>8. RequestInv(r)
    BY <1>1, <1>5, <1>6, <1>7, OfItsKind DEF HearInv
  <1> QED
    BY <1>2, <1>3, <1>7, <1>8, AloneKept

----------------------------------------------------------------------------
\* Phrases and images.

LEMMA SpeechKept ==
    ASSUME Service!ServicesAssumption, CallsInv, NEW k \in Callers,
           Service!LookUpPhrase(k) \/ Service!Synthesized(k) \/ Service!SynthesisFails(k)
    PROVE  CallsInv'
  <1> DEFINE p   == requests[k].item
             key == Service!CacheKey(p)
  <1>1. /\ requests[k] \in RequestRecords /\ requests[k].op = "speak" /\ p \in Phrases
        /\ CacheInv(phrases, PhraseEntries)
    <2>1. /\ requests[k] \in RequestRecords /\ requests[k].op = "speak"
          /\ RequestInv(requests[k]) /\ CacheInv(phrases, PhraseEntries)
      BY DEF CallsInv, RequestsInv, CachesInv, Service!LookUpPhrase, Service!Synthesized,
             Service!SynthesisFails, Service!At
    <2> QED
      BY <2>1, OfItsKind DEF SpeakInv
  <1>2. CacheLimit \in Nat \ {0} /\ MaxFaults \in Nat
    BY ServiceConstants
  <1>3. \A q \in Phrases : << q >> \in Gots
    BY DEF Gots
  <1>4. ASSUME NEW got \in Gots, Service!Returns(k, got),
               \A i \in DOMAIN got : got[i].words = p.words /\ got[i].voice = p.voice
        PROVE  RequestsInv'
    <2>1. PICK r \in RequestRecords :
             /\ requests' = [requests EXCEPT ![k] = r]
             /\ r.op = "speak" /\ r.item = p /\ r.at = "done" /\ r.got = got
      BY <1>1, <1>4, ReturnsRecord DEF CallsInv
    <2>2. RequestInv(r)
      BY <1>1, <1>4, <2>1, OfItsKind DEF SpeakInv
    <2> QED
      BY <2>1, <2>2, RequestReplaced DEF CallsInv
  <1>5. CASE Service!LookUpPhrase(k)
    <2>1. UNCHANGED <<scenes, geo, place, disk, made, faults>>
      BY <1>5 DEF Service!LookUpPhrase, Service!location
    <2>2. CASE Service!Has(phrases, key)
      <3> DEFINE e == phrases[Service!Find(phrases, key)]
      <3>1. e \in PhraseEntries /\ e.key = key
        BY <1>1, <2>2, FoundEntry DEF CacheInv
      <3>20. \A x \in PhraseEntries :
                \E q \in Phrases : x.of = q /\ Service!CacheKey(q) = x.key
        BY DEF PhraseEntries
      <3> HIDE DEF e
      <3>2. PICK q \in Phrases : e.of = q /\ Service!CacheKey(q) = key
        BY <3>1, <3>20
      <3> USE DEF e
      <3>3. q.words = p.words /\ q.voice = p.voice
        BY <3>2 DEF Service!CacheKey
      <3>4. Service!Returns(k, << q >>) /\ phrases' = Service!Touched(phrases, key)
        BY <1>5, <2>2, <3>2 DEF Service!LookUpPhrase
      <3>5. RequestsInv'
        <4>1. << q >> \in Gots /\ \A i \in DOMAIN << q >> : << q >>[i] = q
          BY <1>3
        <4> QED
          BY <1>4, <3>3, <3>4, <4>1
      <3>6. CacheInv(Service!Touched(phrases, key), PhraseEntries)
        BY <1>1, <1>2, <2>2, TouchedKept
      <3> QED
        BY <2>1, <3>4, <3>5, <3>6 DEF CallsInv, CachesInv, PlacesInv
    <2>3. CASE ~Service!Has(phrases, key)
      <3>1. Service!Moves(k, "waiting") /\ phrases' = phrases
        BY <1>5, <2>3 DEF Service!LookUpPhrase
      <3>2. "waiting" \in RequestStages
        BY DEF RequestStages
      <3>3. PICK r \in RequestRecords :
               /\ requests' = [requests EXCEPT ![k] = r]
               /\ r.op = "speak" /\ r.item = p /\ r.at = "waiting"
        BY <1>1, <3>1, <3>2, MovesRecord DEF CallsInv
      <3>4. RequestInv(r)
        BY <1>1, <3>3, OfItsKind DEF SpeakInv
      <3> QED
        BY <2>1, <3>1, <3>3, <3>4, AloneKept DEF CallsInv, PlacesInv
    <2> QED
      BY <2>2, <2>3
  <1>6. CASE Service!Synthesized(k)
    <2>1. /\ phrases' = Service!Put(phrases, key, p) /\ Service!Returns(k, << p >>)
          /\ UNCHANGED <<scenes, geo, place, disk, made, faults>>
      BY <1>6 DEF Service!Synthesized, Service!location
    <2>2. [key |-> key, of |-> p] \in PhraseEntries
      BY <1>1 DEF PhraseEntries
    <2>3. CacheInv(Service!Put(phrases, key, p), PhraseEntries)
      BY <1>1, <1>2, <2>2, PutKept
    <2>4. RequestsInv'
      <3>1. << p >> \in Gots /\ \A i \in DOMAIN << p >> : << p >>[i] = p
        BY <1>1, <1>3
      <3> QED
        BY <1>4, <2>1, <3>1
    <2> QED
      BY <2>1, <2>3, <2>4 DEF CallsInv, CachesInv, PlacesInv
  <1>7. CASE Service!SynthesisFails(k)
    <2>1. /\ Service!Returns(k, <<>>) /\ Service!Fault
          /\ UNCHANGED <<phrases, scenes, geo, place, disk, made>>
      BY <1>7 DEF Service!SynthesisFails, Service!caches, Service!location
    <2>2. <<>> \in Gots
      BY DEF Gots
    <2>3. RequestsInv'
      BY <1>4, <2>1, <2>2
    <2>4. Still
      BY <1>2, <2>1, FaultTyped, Unmoved DEF CallsInv
    <2> QED
      BY <2>3, <2>4 DEF CallsInv, Still
  <1> QED
    BY <1>5, <1>6, <1>7

LEMMA SightKept ==
    ASSUME Service!ServicesAssumption, CallsInv, NEW k \in Callers,
           Service!LookUpScene(k) \/ Service!SceneAnalyzed(k) \/ Service!DetectionFails(k)
    PROVE  CallsInv'
  <1> DEFINE m == requests[k].item
  <1>1. /\ requests[k] \in RequestRecords /\ requests[k].op = "see" /\ m \in Images
        /\ CacheInv(scenes, SceneEntries)
    <2>1. /\ requests[k] \in RequestRecords /\ requests[k].op = "see"
          /\ RequestInv(requests[k]) /\ CacheInv(scenes, SceneEntries)
      BY DEF CallsInv, RequestsInv, CachesInv, Service!LookUpScene, Service!SceneAnalyzed,
             Service!DetectionFails, Service!At
    <2> QED
      BY <2>1, OfItsKind DEF SeeInv
  <1>2. CacheLimit \in Nat \ {0} /\ MaxFaults \in Nat
    BY ServiceConstants
  <1>3. <<>> \in Gots /\ << m >> \in Gots
    BY <1>1 DEF Gots
  <1>4. ASSUME NEW got \in {<<>>, << m >>}, Service!Returns(k, got)
        PROVE  RequestsInv'
    <2>1. PICK r \in RequestRecords :
             /\ requests' = [requests EXCEPT ![k] = r]
             /\ r.op = "see" /\ r.item = m /\ r.at = "done" /\ r.got = got
      BY <1>1, <1>3, <1>4, ReturnsRecord DEF CallsInv
    <2>2. RequestInv(r)
      BY <1>1, <1>4, <2>1, OfItsKind DEF SeeInv
    <2> QED
      BY <2>1, <2>2, RequestReplaced DEF CallsInv
  <1>5. CASE Service!LookUpScene(k)
    <2>1. UNCHANGED <<phrases, geo, place, disk, made, faults>>
      BY <1>5 DEF Service!LookUpScene, Service!location
    <2>2. \/ /\ Service!Has(scenes, m)
             /\ Service!Returns(k, << scenes[Service!Find(scenes, m)].of >>)
             /\ scenes' = Service!Touched(scenes, m)
          \/ Service!Moves(k, "running") /\ scenes' = Service!Without(scenes, m)
      BY <1>5 DEF Service!LookUpScene
    <2>3. CASE /\ Service!Has(scenes, m)
               /\ Service!Returns(k, << scenes[Service!Find(scenes, m)].of >>)
               /\ scenes' = Service!Touched(scenes, m)
      <3> DEFINE e == scenes[Service!Find(scenes, m)]
      <3>1. e \in SceneEntries /\ e.key = m
        BY <1>1, <2>3, FoundEntry DEF CacheInv
      <3>20. \A x \in SceneEntries : x.of = x.key
        BY DEF SceneEntries
      <3>2. e.of = m
        BY <3>1, <3>20
      <3>3. RequestsInv'
        BY <1>4, <2>3, <3>2
      <3>4. CacheInv(Service!Touched(scenes, m), SceneEntries)
        BY <1>1, <1>2, <2>3, TouchedKept
      <3> QED
        BY <2>1, <2>3, <3>3, <3>4 DEF CallsInv, CachesInv, PlacesInv
    <2>4. CASE Service!Moves(k, "running") /\ scenes' = Service!Without(scenes, m)
      <3>1. "running" \in RequestStages
        BY DEF RequestStages
      <3>2. PICK r \in RequestRecords :
               /\ requests' = [requests EXCEPT ![k] = r]
               /\ r.op = "see" /\ r.item = m /\ r.at = "running"
        BY <1>1, <2>4, <3>1, MovesRecord DEF CallsInv
      <3>3. RequestInv(r)
        BY <1>1, <3>2, OfItsKind DEF SeeInv
      <3>4. RequestsInv'
        BY <3>2, <3>3, RequestReplaced DEF CallsInv
      <3>5. CacheInv(Service!Without(scenes, m), SceneEntries)
        BY <1>1, <1>2, WithoutKey
      <3> QED
        BY <2>1, <2>4, <3>4, <3>5 DEF CallsInv, CachesInv, PlacesInv
    <2> QED
      BY <2>2, <2>3, <2>4
  <1>6. CASE Service!SceneAnalyzed(k)
    <2>1. /\ scenes' = Service!Put(scenes, m, m) /\ Service!Returns(k, << m >>)
          /\ UNCHANGED <<phrases, geo, place, disk, made, faults>>
      BY <1>6 DEF Service!SceneAnalyzed, Service!location
    <2>2. [key |-> m, of |-> m] \in SceneEntries
      BY <1>1 DEF SceneEntries
    <2>3. CacheInv(Service!Put(scenes, m, m), SceneEntries)
      BY <1>1, <1>2, <2>2, PutKept
    <2>4. RequestsInv'
      BY <1>4, <2>1
    <2> QED
      BY <2>1, <2>3, <2>4 DEF CallsInv, CachesInv, PlacesInv
  <1>7. CASE Service!DetectionFails(k)
    <2>1. /\ Service!Returns(k, <<>>) /\ Service!Fault
          /\ UNCHANGED <<phrases, scenes, geo, place, disk, made>>
      BY <1>7 DEF Service!DetectionFails, Service!caches, Service!location
    <2>2. RequestsInv'
      BY <1>4, <2>1
    <2>3. Still
      BY <1>2, <2>1, FaultTyped, Unmoved DEF CallsInv
    <2> QED
      BY <2>2, <2>3 DEF CallsInv, Still
  <1> QED
    BY <1>5, <1>6, <1>7

----------------------------------------------------------------------------
\* The weather.

LEMMA PlaceGots ==
    ASSUME NEW p \in Named \cup {"current", "old", "nowhere", "error"}
    PROVE  << p >> \in Gots
  BY DEF Gots

\* One request for the weather goes on.
LEMMA WeatherStep ==
    ASSUME CallsInv, NEW k \in Callers, requests[k].op = "weather",
           requests[k].item \in Named \cup {"here"},
           \/ \E at \in {"locating", "geocoding"} :
                 Service!Moves(k, at) /\ (at = "geocoding" => requests[k].item \in Named)
           \/ \E p \in Named \cup {"current", "old"} :
                 /\ Service!Found(k, p) /\ p # "nowhere"
                 /\ p \in Named => p = requests[k].item
           \/ /\ \E p \in {"nowhere", "error"} :
                    /\ Service!Returns(k, << p >>) /\ p \notin Named
                    /\ p = "nowhere" => ~requests[k].known
    PROVE  RequestsInv'
  <1>1. CASE \E at \in {"locating", "geocoding"} :
                Service!Moves(k, at) /\ (at = "geocoding" => requests[k].item \in Named)
    <2>1. PICK at \in {"locating", "geocoding"} :
                Service!Moves(k, at) /\ (at = "geocoding" => requests[k].item \in Named)
      BY <1>1
    <2>2. at \in RequestStages
      BY DEF RequestStages
    <2>3. PICK r \in RequestRecords :
             /\ requests' = [requests EXCEPT ![k] = r]
             /\ r.op = "weather" /\ r.item = requests[k].item /\ r.at = at
      BY <2>1, <2>2, MovesRecord DEF CallsInv
    <2>4. RequestInv(r)
      BY <2>1, <2>3, OfItsKind DEF WeatherInv
    <2> QED
      BY <2>3, <2>4, RequestReplaced DEF CallsInv
  <1>2. CASE \E p \in Named \cup {"current", "old"} :
                /\ Service!Found(k, p) /\ p # "nowhere"
                /\ p \in Named => p = requests[k].item
    <2>1. PICK p \in Named \cup {"current", "old"} :
                /\ Service!Found(k, p) /\ p # "nowhere"
                /\ p \in Named => p = requests[k].item
      BY <1>2
    <2>20. << p >> \in Gots
      BY PlaceGots
    <2>2. PICK r \in RequestRecords :
             /\ requests' = [requests EXCEPT ![k] = r]
             /\ r.op = "weather" /\ r.item = requests[k].item /\ r.at = "forecasting"
             /\ r.got = << p >>
      BY <2>1, <2>20, FoundRecord DEF CallsInv
    <2>3. RequestInv(r)
      BY <2>1, <2>2, OfItsKind DEF WeatherInv
    <2> QED
      BY <2>2, <2>3, RequestReplaced DEF CallsInv
  <1>3. CASE \E p \in {"nowhere", "error"} :
                /\ Service!Returns(k, << p >>) /\ p \notin Named
                /\ p = "nowhere" => ~requests[k].known
    <2>1. PICK p \in {"nowhere", "error"} :
                /\ Service!Returns(k, << p >>) /\ p \notin Named
                /\ p = "nowhere" => ~requests[k].known
      BY <1>3
    <2>2. PICK r \in RequestRecords :
             /\ requests' = [requests EXCEPT ![k] = r]
             /\ r.op = "weather" /\ r.item = requests[k].item /\ r.at = "done"
             /\ r.known = requests[k].known /\ r.got = << p >>
      BY <2>1, PlaceGots, ReturnsRecord DEF CallsInv
    <2>3. RequestInv(r)
      BY <2>1, <2>2, OfItsKind DEF WeatherInv
    <2> QED
      BY <2>2, <2>3, RequestReplaced DEF CallsInv
  <1> QED
    BY <1>1, <1>2, <1>3

LEMMA WeatherKept ==
    ASSUME Service!ServicesAssumption, CallsInv, KnownInv, NEW k \in Callers,
           \/ Service!ExtractLocation(k) \/ Service!Geocoded(k) \/ Service!GeocodeFails(k)
           \/ Service!IpLookup(k) \/ Service!Fetched(k) \/ Service!FetchedNotWritten(k)
           \/ Service!FetchFails(k) \/ Service!Forecast(k) \/ Service!ForecastFails(k)
    PROVE  CallsInv'
  <1> DEFINE q == requests[k].item
  <1>1. /\ requests[k] \in RequestRecords /\ requests[k].op = "weather"
        /\ WeatherInv(requests[k]) /\ q \in Named \cup {"here"}
    <2>1. /\ requests[k] \in RequestRecords /\ requests[k].op = "weather"
          /\ RequestInv(requests[k])
      BY DEF CallsInv, RequestsInv, Service!ExtractLocation, Service!Geocoded,
             Service!GeocodeFails, Service!IpLookup, Service!Fetched, Service!FetchedNotWritten,
             Service!FetchFails, Service!Forecast, Service!ForecastFails, Service!At
    <2> QED
      BY <2>1, OfItsKind DEF WeatherInv
  <1>2. /\ MaxFaults \in Nat
        /\ \A p \in Named : p \notin {"here", "current", "old", "nowhere", "error"}
    BY ServiceConstants
  <1>3. PlacesInv /\ CachesInv
    BY DEF CallsInv
  <1>4. UNCHANGED <<phrases, scenes, made>> /\ (faults' = faults \/ Service!Fault)
    BY DEF Service!ExtractLocation, Service!Geocoded, Service!GeocodeFails, Service!IpLookup,
           Service!Fetched, Service!FetchedNotWritten, Service!FetchFails, Service!Forecast,
           Service!ForecastFails, Service!caches
  <1>5. faults' \in 0 .. MaxFaults
    BY <1>2, <1>3, <1>4, FaultTyped DEF PlacesInv
  <1>6. ASSUME RequestsInv', UNCHANGED <<geo, place, disk>>
        PROVE  CallsInv'
    BY <1>3, <1>4, <1>5, <1>6 DEF CallsInv, CachesInv, PlacesInv
  <1>7. ASSUME RequestsInv', geo' \in [Named -> {"unknown", "found", "absent"}],
               place' \in {"none", "current", "old"}, disk' \in {"none", "current", "old"}
        PROVE  CallsInv'
    BY <1>3, <1>4, <1>5, <1>7 DEF CallsInv, CachesInv, PlacesInv
  <1>8. CASE Service!ExtractLocation(k)
    <2>1. UNCHANGED <<geo, place, disk>>
      BY <1>8 DEF Service!ExtractLocation, Service!location
    <2>2. CASE q = "here"
      <3>1. Service!Moves(k, "locating")
        BY <1>8, <2>2 DEF Service!ExtractLocation
      <3> QED
        BY <1>1, <1>6, <2>1, <3>1, WeatherStep
    <2>3. CASE q # "here"
      <3>1. q \in Named /\ geo[q] \in {"unknown", "found", "absent"}
        BY <1>1, <1>3, <2>3 DEF PlacesInv
      <3>2. \/ geo[q] = "found" /\ Service!Found(k, q)
            \/ geo[q] = "absent" /\ Service!Moves(k, "locating")
            \/ geo[q] = "unknown" /\ Service!Moves(k, "geocoding")
        BY <1>8, <2>3, <3>1 DEF Service!ExtractLocation
      <3>3. q # "nowhere"
        BY <1>2, <3>1
      <3> QED
        BY <1>1, <1>6, <2>1, <3>1, <3>2, <3>3, WeatherStep
    <2> QED
      BY <2>2, <2>3
  <1>9. CASE Service!Geocoded(k)
    <2>1. q \in Named /\ q # "nowhere"
      BY <1>1, <1>2, <1>9 DEF Service!Geocoded, Service!At, WeatherInv
    <2>2. /\ \/ Service!Found(k, q) /\ geo' = [geo EXCEPT ![q] = "found"]
             \/ Service!Moves(k, "locating") /\ geo' = [geo EXCEPT ![q] = "absent"]
          /\ UNCHANGED <<place, disk>>
      BY <1>9 DEF Service!Geocoded
    <2>3. geo' \in [Named -> {"unknown", "found", "absent"}]
      BY <1>3, <2>2 DEF PlacesInv
    <2>4. RequestsInv'
      BY <1>1, <2>1, <2>2, WeatherStep
    <2> QED
      BY <1>3, <1>7, <2>2, <2>3, <2>4 DEF PlacesInv
  <1>10. CASE Service!GeocodeFails(k)
    <2>1. Service!Moves(k, "locating") /\ UNCHANGED <<geo, place, disk>>
      BY <1>10 DEF Service!GeocodeFails, Service!location
    <2> QED
      BY <1>1, <1>6, <2>1, WeatherStep
  <1>11. CASE Service!IpLookup(k)
    <2>1. place \in {"none", "current", "old"} /\ disk \in {"none", "current", "old"}
          /\ geo' = geo /\ disk' = disk
      BY <1>3, <1>11 DEF PlacesInv, Service!IpLookup
    <2>2. CASE place # "none"
      <3>1. Service!Found(k, place) /\ place' = place
        BY <1>11, <2>2 DEF Service!IpLookup
      <3>2. place \in {"current", "old"} /\ place \notin Named
        BY <1>2, <2>1, <2>2
      <3> QED
        BY <1>1, <1>6, <2>1, <3>1, <3>2, WeatherStep
    <2>3. CASE place = "none" /\ disk = "current"
      <3>1. Service!Found(k, "current") /\ place' = "current"
        BY <1>11, <2>3 DEF Service!IpLookup
      <3>2. "current" \notin Named
        BY <1>2
      <3>3. RequestsInv'
        BY <1>1, <3>1, <3>2, WeatherStep
      <3> QED
        BY <1>3, <1>7, <2>1, <3>1, <3>3 DEF PlacesInv
    <2>4. CASE place = "none" /\ disk # "current"
      <3> DEFINE r == [requests[k] EXCEPT !.at = "fetching", !.read = disk]
      <3>1. /\ requests' = [requests EXCEPT ![k] = r] /\ place' = place
        BY <1>11, <2>4 DEF Service!IpLookup, CallsInv, RequestsInv
      <3>2. /\ r \in RequestRecords /\ r.op = "weather" /\ r.item = q /\ r.at = "fetching"
            /\ r.known = requests[k].known /\ r.read = disk
        BY <1>1, <2>1 DEF RequestRecords, RequestStages
      <3> HIDE DEF r
      <3>20. requests[k].at = "locating"
        BY <1>11 DEF Service!IpLookup, Service!At
      <3>21. r.known => disk = "old"
        BY <2>1, <2>4, <3>2, <3>20 DEF KnownInv, Located
      <3>3. RequestInv(r)
        BY <1>1, <3>2, <3>21, OfItsKind DEF WeatherInv
      <3>4. RequestsInv'
        BY <3>1, <3>2, <3>3, RequestReplaced DEF CallsInv
      <3> QED
        BY <1>6, <2>1, <3>1, <3>4
    <2> QED
      BY <2>2, <2>3, <2>4
  <1>12. CASE Service!Fetched(k) \/ Service!FetchedNotWritten(k)
    <2>1. /\ Service!Found(k, "current") /\ place' = "current" /\ geo' = geo
          /\ disk' \in {disk, "none", "current"}
      BY <1>12 DEF Service!Fetched, Service!FetchedNotWritten
    <2>2. "current" \notin Named
      BY <1>2
    <2>3. RequestsInv'
      BY <1>1, <2>1, <2>2, WeatherStep
    <2> QED
      BY <1>3, <1>7, <2>1, <2>3 DEF PlacesInv
  <1>13. CASE Service!FetchFails(k)
    <2>1. geo' = geo /\ disk' = disk
      BY <1>13 DEF Service!FetchFails
    <2>2. CASE requests[k].read = "old"
      <3>1. Service!Found(k, "old") /\ place' = "old"
        BY <1>13, <2>2 DEF Service!FetchFails
      <3>2. "old" \notin Named
        BY <1>2
      <3>3. RequestsInv'
        BY <1>1, <3>1, <3>2, WeatherStep
      <3> QED
        BY <1>3, <1>7, <2>1, <3>1, <3>3 DEF PlacesInv
    <2>3. CASE requests[k].read # "old"
      <3>1. Service!Returns(k, << "nowhere" >>) /\ place' = place
        BY <1>13, <2>3 DEF Service!FetchFails
      <3>2. "nowhere" \notin Named
        BY <1>2
      <3>3. ~requests[k].known
        BY <1>1, <1>13, <2>3 DEF Service!FetchFails, Service!At, WeatherInv
      <3> QED
        BY <1>1, <1>6, <2>1, <3>1, <3>2, <3>3, WeatherStep
    <2> QED
      BY <2>2, <2>3
  <1>14. CASE Service!Forecast(k)
    <2>1. /\ requests[k].at = "forecasting" /\ Service!Moves(k, "done")
          /\ UNCHANGED <<geo, place, disk>>
      BY <1>14 DEF Service!Forecast, Service!At, Service!location
    <2>2. "done" \in RequestStages
      BY DEF RequestStages
    <2>3. PICK r \in RequestRecords :
             /\ requests' = [requests EXCEPT ![k] = r]
             /\ r.op = "weather" /\ r.item = q /\ r.at = "done" /\ r.got = requests[k].got
      BY <1>1, <2>1, <2>2, MovesRecord DEF CallsInv
    <2>4. RequestInv(r)
      BY <1>1, <2>1, <2>3, OfItsKind DEF WeatherInv
    <2>5. RequestsInv'
      BY <2>3, <2>4, RequestReplaced DEF CallsInv
    <2> QED
      BY <1>6, <2>1, <2>5
  <1>15. CASE Service!ForecastFails(k)
    <2>1. Service!Returns(k, << "error" >>) /\ UNCHANGED <<geo, place, disk>>
      BY <1>15 DEF Service!ForecastFails, Service!location
    <2>2. "error" \notin Named
      BY <1>2
    <2> QED
      BY <1>1, <1>6, <2>1, <2>2, WeatherStep
  <1> QED
    BY <1>8, <1>9, <1>10, <1>11, <1>12, <1>13, <1>14, <1>15

----------------------------------------------------------------------------
\* All the steps.

\* Of what was called before the process died only the answers are left.
LEMMA RestartKept ==
    ASSUME Service!ServicesAssumption, ServicesInv, Service!Restart
    PROVE  ServicesInv'
  <1>1. MaxFaults \in Nat /\ CacheLimit \in Nat
    BY ServiceConstants
  <1>2. Service!NoCall \in RequestRecords /\ RequestInv(Service!NoCall)
    <2>1. Service!NoCall \in RequestRecords
      BY DEF Service!NoCall, RequestRecords, RequestStages
    <2>2. RequestInv(Service!NoCall)
      BY DEF Service!NoCall, RequestInv
    <2> QED
      BY <2>1, <2>2
  <1>3. RequestsInv'
    <2> DEFINE none == Service!NoCall
    <2>1. requests' = [k \in Callers |-> IF requests[k].at = "done" THEN requests[k] ELSE none]
      BY DEF Service!Restart
    <2>2. none \in RequestRecords /\ RequestInv(none)
      BY <1>2
    <2> HIDE DEF none
    <2>3. ASSUME NEW k \in Callers
          PROVE  requests'[k] \in RequestRecords /\ RequestInv(requests'[k])
      <3>1. requests'[k] \in {requests[k], none}
        BY <2>1
      <3>2. requests[k] \in RequestRecords /\ RequestInv(requests[k])
        BY DEF ServicesInv, CallsInv, RequestsInv
      <3> QED
        BY <2>2, <3>1, <3>2
    <2>4. requests' \in [Callers -> RequestRecords]
      BY <2>1, <2>3
    <2> QED
      BY <2>3, <2>4 DEF RequestsInv
  <1>4. CachesInv'
    <2>1. phrases' = <<>> /\ scenes' = <<>>
      BY DEF Service!Restart
    <2>2. \A entries : CacheInv(<<>>, entries)
      BY <1>1 DEF CacheInv
    <2> QED
      BY <2>1, <2>2 DEF CachesInv
  <1>5. PlacesInv'
    <2>1. faults' \in 0 .. MaxFaults
      BY <1>1, FaultTyped DEF ServicesInv, CallsInv, PlacesInv, Service!Restart
    <2>2. /\ geo' = [q \in Named |-> "unknown"] /\ place' = "none" /\ made' = made
          /\ disk' \in {disk, "none"}
      BY DEF Service!Restart
    <2> QED
      BY <2>1, <2>2 DEF ServicesInv, CallsInv, PlacesInv
  <1>6. KnownInv'
    <2>1. ASSUME NEW k \in Callers
          PROVE  ~(requests'[k].known /\ requests'[k].at # "done")
      BY DEF Service!Restart, Service!NoCall
    <2> QED
      BY <2>1 DEF KnownInv
  <1> QED
    BY <1>3, <1>4, <1>5, <1>6 DEF ServicesInv, CallsInv

LEMMA AgeKept ==
    ASSUME Service!ServicesAssumption, ServicesInv, Service!Age
    PROVE  ServicesInv'
  <1>1. faults' \in 0 .. MaxFaults
    BY ServiceConstants, FaultTyped DEF ServicesInv, CallsInv, Service!Age
  <1>2. UNCHANGED <<requests, phrases, scenes, geo, place, made>> /\ disk' = "old"
    BY DEF Service!Age, Service!caches
  <1> QED
    BY <1>1, <1>2 DEF ServicesInv, CallsInv, RequestsInv, CachesInv, PlacesInv, KnownInv, Located

LEMMA AdvanceKept ==
    ASSUME Service!ServicesAssumption, CallsInv, KnownInv, NEW k \in Callers,
           Service!Advance(k) \/ Service!Fail(k)
    PROVE  CallsInv'
  <1>1. MaxRetries \in Nat /\ MaxFaults \in Nat
    BY ServiceConstants
  <1>2. CASE \E op \in {"transcribe", "speak"} :
                Service!GetSlot(k, op) \/ Service!SlotTimesOut(k, op)
    BY <1>2, SlotsKept
  <1>3. CASE Service!Preprocess(k)
    BY <1>1, <1>3, PreprocessKept
  <1>4. CASE \E i \in DOMAIN requests[k].parts :
                Service!Heard(k, i) \/ Service!AttemptFails(k, i)
    BY <1>1, <1>4, AttemptsKept
  <1>5. CASE Service!Transcribed(k) \/ Service!SegmentsFail(k)
    BY <1>1, <1>5, HandedBack
  <1>6. CASE Service!LookUpPhrase(k) \/ Service!Synthesized(k) \/ Service!SynthesisFails(k)
    BY <1>6, SpeechKept
  <1>7. CASE Service!LookUpScene(k) \/ Service!SceneAnalyzed(k) \/ Service!DetectionFails(k)
    BY <1>7, SightKept
  <1>8. CASE \/ Service!ExtractLocation(k) \/ Service!Geocoded(k) \/ Service!GeocodeFails(k)
             \/ Service!IpLookup(k) \/ Service!Fetched(k) \/ Service!FetchedNotWritten(k)
             \/ Service!FetchFails(k) \/ Service!Forecast(k) \/ Service!ForecastFails(k)
    BY <1>8, WeatherKept
  <1> QED
    BY <1>2, <1>3, <1>4, <1>5, <1>6, <1>7, <1>8 DEF Service!Advance, Service!Fail

\* A step of a caller is one of a call that has not returned, which keeps what was
\* known when it was made.
Keeps(k) == \E r : requests' = [requests EXCEPT ![k] = r] /\ r.known = requests[k].known

LEMMA GoesOn ==
    ASSUME CallsInv, NEW k \in Callers, Service!Advance(k) \/ Service!Fail(k)
    PROVE  requests[k].at # "done" /\ Keeps(k)
  <1>1. /\ requests \in [Callers -> RequestRecords] /\ requests[k] \in RequestRecords
        /\ RequestInv(requests[k])
    BY DEF CallsInv, RequestsInv
  <1>2. ASSUME NEW at, Service!Moves(k, at) PROVE Keeps(k)
    <2>1. requests' = [requests EXCEPT ![k] = [requests[k] EXCEPT !.at = at]]
      BY <1>1, <1>2 DEF Service!Moves
    <2>2. [requests[k] EXCEPT !.at = at].known = requests[k].known
      BY <1>1 DEF RequestRecords
    <2> QED
      BY <2>1, <2>2 DEF Keeps
  <1>3. ASSUME NEW got, Service!Returns(k, got) PROVE Keeps(k)
    <2> DEFINE r == [requests[k] EXCEPT !.at = "done", !.got = got, !.parts = <<>>]
    <2>1. requests' = [requests EXCEPT ![k] = r]
      BY <1>1, <1>3 DEF Service!Returns
    <2>2. r.known = requests[k].known
      BY <1>1 DEF RequestRecords
    <2> QED
      BY <2>1, <2>2 DEF Keeps
  <1>4. ASSUME NEW p, Service!Found(k, p) PROVE Keeps(k)
    <2> DEFINE r == [requests[k] EXCEPT !.at = "forecasting", !.got = << p >>]
    <2>1. requests' = [requests EXCEPT ![k] = r]
      BY <1>1, <1>4 DEF Service!Found
    <2>2. r.known = requests[k].known
      BY <1>1 DEF RequestRecords
    <2> QED
      BY <2>1, <2>2 DEF Keeps
  <1>5. ASSUME NEW i, NEW part, Service!Settle(k, i, part) PROVE Keeps(k)
    <2> DEFINE parts == [requests[k].parts EXCEPT ![i] = part]
               r     == [requests[k] EXCEPT !.parts = parts]
    <2>1. requests' = [requests EXCEPT ![k] = r]
      BY <1>1, <1>5 DEF Service!Settle
    <2> HIDE DEF parts
    <2>2. r.known = requests[k].known
      BY <1>1 DEF RequestRecords
    <2> QED
      BY <2>1, <2>2 DEF Keeps
  <1>6. ASSUME NEW parts,
               requests' = [requests EXCEPT ![k].at = "running", ![k].parts = parts]
        PROVE  Keeps(k)
    <2> DEFINE r == [requests[k] EXCEPT !.at = "running", !.parts = parts]
    <2>1. requests' = [requests EXCEPT ![k] = r]
      BY <1>1, <1>6
    <2>2. r.known = requests[k].known
      BY <1>1 DEF RequestRecords
    <2> QED
      BY <2>1, <2>2 DEF Keeps
  <1>7. ASSUME requests' = [requests EXCEPT ![k].at = "fetching", ![k].read = disk]
        PROVE  Keeps(k)
    <2> DEFINE r == [requests[k] EXCEPT !.at = "fetching", !.read = disk]
    <2>1. requests' = [requests EXCEPT ![k] = r]
      BY <1>1, <1>7
    <2>2. r.known = requests[k].known
      BY <1>1 DEF RequestRecords
    <2> QED
      BY <2>1, <2>2 DEF Keeps
  <1>8. CASE \E op \in {"transcribe", "speak"} :
                Service!GetSlot(k, op) \/ Service!SlotTimesOut(k, op)
    BY <1>2, <1>3, <1>8 DEF Service!GetSlot, Service!SlotTimesOut, Service!At
  <1>9. CASE Service!Preprocess(k)
    BY <1>6, <1>9 DEF Service!Preprocess, Service!At
  <1>10. CASE \E i \in DOMAIN requests[k].parts :
                 Service!Heard(k, i) \/ Service!AttemptFails(k, i)
    <2>1. PICK i \in DOMAIN requests[k].parts :
             Service!Heard(k, i) \/ Service!AttemptFails(k, i)
      BY <1>10
    <2>2. requests[k].at # "done" /\ \E part : Service!Settle(k, i, part)
      BY <2>1 DEF Service!Heard, Service!AttemptFails, Service!Todo, Service!Hearing, Service!At
    <2> QED
      BY <1>5, <2>2
  <1>11. CASE \/ Service!Transcribed(k) \/ Service!SegmentsFail(k)
              \/ Service!Synthesized(k) \/ Service!SynthesisFails(k)
              \/ Service!SceneAnalyzed(k) \/ Service!DetectionFails(k)
              \/ Service!ForecastFails(k)
    BY <1>3, <1>11 DEF Service!Transcribed, Service!SegmentsFail, Service!AllSettled,
       Service!Hearing, Service!Synthesized, Service!SynthesisFails, Service!SceneAnalyzed,
       Service!DetectionFails, Service!ForecastFails, Service!At
  <1>12. CASE Service!LookUpPhrase(k) \/ Service!LookUpScene(k)
    BY <1>2, <1>3, <1>12 DEF Service!LookUpPhrase, Service!LookUpScene, Service!At
  <1>13. CASE \/ Service!Geocoded(k) \/ Service!GeocodeFails(k) \/ Service!Fetched(k)
              \/ Service!FetchedNotWritten(k) \/ Service!FetchFails(k) \/ Service!Forecast(k)
    BY <1>2, <1>3, <1>4, <1>13 DEF Service!Geocoded, Service!GeocodeFails, Service!Fetched,
       Service!FetchedNotWritten, Service!FetchFails, Service!Forecast, Service!At
  <1>14. CASE Service!ExtractLocation(k)
    <2> DEFINE q == requests[k].item
    <2>1. q = "here" \/ geo[q] \in {"unknown", "found", "absent"}
      BY <1>1, <1>14, OfItsKind DEF Service!ExtractLocation, Service!At, WeatherInv, CallsInv,
         PlacesInv
    <2>2. \/ Service!Moves(k, "locating") \/ Service!Moves(k, "geocoding")
          \/ Service!Found(k, q)
      BY <1>14, <2>1 DEF Service!ExtractLocation
    <2> QED
      BY <1>2, <1>4, <1>14, <2>2 DEF Service!ExtractLocation, Service!At
  <1>15. CASE Service!IpLookup(k)
    <2>1. \/ Service!Found(k, place) \/ Service!Found(k, "current")
          \/ requests' = [requests EXCEPT ![k].at = "fetching", ![k].read = disk]
      BY <1>15 DEF Service!IpLookup
    <2> QED
      BY <1>4, <1>7, <1>15, <2>1 DEF Service!IpLookup, Service!At
  <1> QED
    BY <1>8, <1>9, <1>10, <1>11, <1>12, <1>13, <1>14, <1>15 DEF Service!Advance, Service!Fail

\* No step of a caller takes away the last location there is.
LEMMA LocatedKept ==
    ASSUME NEW k \in Callers, Service!Advance(k) \/ Service!Fail(k)
    PROVE  Located => Located'
  <1>1. CASE Service!IpLookup(k)
    BY <1>1 DEF Service!IpLookup, Located
  <1>2. CASE Service!Fetched(k) \/ Service!FetchedNotWritten(k) \/ Service!FetchFails(k)
    BY <1>2 DEF Service!Fetched, Service!FetchedNotWritten, Service!FetchFails, Located
  <1>3. CASE UNCHANGED <<place, disk>>
    BY <1>3 DEF Located
  <1> QED
    BY <1>1, <1>2, <1>3
    DEF Service!Advance, Service!Fail, Service!GetSlot, Service!SlotTimesOut,
        Service!Preprocess, Service!Heard, Service!AttemptFails, Service!Settle,
        Service!Transcribed, Service!SegmentsFail, Service!LookUpPhrase,
        Service!Synthesized, Service!SynthesisFails, Service!LookUpScene,
        Service!SceneAnalyzed, Service!DetectionFails, Service!ExtractLocation,
        Service!Geocoded, Service!GeocodeFails, Service!Forecast,
        Service!ForecastFails, Service!caches, Service!location

LEMMA KnownKept ==
    ASSUME CallsInv, KnownInv, NEW k \in Callers, Service!Advance(k) \/ Service!Fail(k)
    PROVE  KnownInv'
  <1>1. requests[k].at # "done" /\ Keeps(k)
    BY GoesOn
  <1>2. PICK r : requests' = [requests EXCEPT ![k] = r] /\ r.known = requests[k].known
    BY <1>1 DEF Keeps
  <1>3. ASSUME NEW j \in Callers
        PROVE  /\ requests'[j].known = requests[j].known
               /\ requests'[j].at # "done" => requests[j].at # "done"
    <2>1. requests'[j] = IF j = k THEN r ELSE requests[j]
      BY <1>2 DEF CallsInv, RequestsInv
    <2> QED
      BY <1>1, <1>2, <2>1
  <1>4. Located => Located'
    BY LocatedKept
  <1> QED
    BY <1>3, <1>4 DEF KnownInv

LEMMA ServicesInit ==
    ASSUME Service!ServicesAssumption, Service!Init PROVE ServicesInv
  <1>1. /\ CacheLimit \in Nat /\ MaxCalls \in Nat /\ MaxFaults \in Nat
    BY ServiceConstants
  <1>2. RequestsInv
    <2>1. Service!NoCall \in RequestRecords
      BY DEF Service!NoCall, RequestRecords, RequestStages
    <2>2. RequestInv(Service!NoCall)
      BY DEF Service!NoCall, RequestInv
    <2>3. requests = [k \in Callers |-> Service!NoCall]
      BY DEF Service!Init
    <2> QED
      BY <2>1, <2>2, <2>3 DEF RequestsInv
  <1>3. CachesInv
    <2>1. \A entries : CacheInv(<<>>, entries)
      BY <1>1 DEF CacheInv
    <2> QED
      BY <2>1 DEF CachesInv, Service!Init
  <1>4. PlacesInv
    BY <1>1 DEF PlacesInv, Service!Init
  <1>5. KnownInv
    BY DEF KnownInv, Service!Init, Service!NoCall
  <1> QED
    BY <1>2, <1>3, <1>4, <1>5 DEF ServicesInv, CallsInv

LEMMA ServicesNext ==
    ASSUME Service!ServicesAssumption, ServicesInv, [Service!Next]_(Service!vars)
    PROVE  ServicesInv'
  <1>1. ASSUME NEW k \in Callers, Service!Asks(k) \/ Service!Advance(k) \/ Service!Fail(k)
        PROVE  ServicesInv'
    <2>1. CallsInv /\ KnownInv
      BY DEF ServicesInv
    <2>2. CallsInv' /\ KnownInv'
      BY <1>1, <2>1, AsksKept, AdvanceKept, KnownKept
    <2> QED
      BY <2>2 DEF ServicesInv
  <1>2. CASE Service!Age
    BY <1>2, AgeKept
  <1>3. CASE Service!Restart
    BY <1>3, RestartKept
  <1>4. CASE UNCHANGED Service!vars
    BY <1>4 DEF ServicesInv, CallsInv, RequestsInv, CachesInv, PlacesInv, KnownInv, Located,
       Service!vars
  <1> QED
    BY <1>1, <1>2, <1>3, <1>4 DEF Service!Next

\* The invariant of the services, for any number of callers, slots, retries and
\* cache entries.
THEOREM ServicesHold ==
    ASSUME Service!ServicesAssumption PROVE Service!Spec => []ServicesInv
  <1>1. Service!Init => ServicesInv
    BY ServicesInit
  <1>2. ServicesInv /\ [Service!Next]_(Service!vars) => ServicesInv'
    BY ServicesNext
  <1> QED
    BY <1>1, <1>2, PTL DEF Service!Spec

\* The types of the services' state; neither cache outgrows its limit
\* (tts.py:37-43, cache.py:53-64).
THEOREM ServicesTypeCorrect ==
    ASSUME Service!ServicesAssumption PROVE Service!Spec => []Service!TypeOK
  <1>1. ServicesInv => Service!TypeOK
    <2> SUFFICES ASSUME ServicesInv PROVE Service!TypeOK
      OBVIOUS
    <2>1. ASSUME NEW k \in Callers
          PROVE  /\ requests[k].op \in {"none", "transcribe", "batch", "speak", "see", "weather"}
                 /\ requests[k].at \in RequestStages
      <3>1. requests[k] \in RequestRecords
        BY DEF ServicesInv, CallsInv, RequestsInv
      <3> QED
        BY <3>1 DEF RequestRecords
    <2>2. DOMAIN requests = Callers
      BY DEF ServicesInv, CallsInv, RequestsInv
    <2>3. Len(phrases) <= CacheLimit /\ Len(scenes) <= CacheLimit
      BY DEF ServicesInv, CallsInv, CachesInv, CacheInv
    <2> QED
      BY <2>1, <2>2, <2>3
      DEF ServicesInv, CallsInv, PlacesInv, RequestStages, Service!TypeOK, Service!Over
  <1> QED
    BY <1>1, ServicesHold, PTL

\* However lookups, evictions and stores of several calls interleave, a cache has
\* one entry of a key at most, with the result for that key, and never more than
\* its limit (tts.py:37-43, cache.py:53-64).
THEOREM CachesKeepTheirKeys ==
    ASSUME Service!ServicesAssumption PROVE Service!Spec => []CachesInv
  <1>1. ServicesInv => CachesInv
    BY DEF ServicesInv, CallsInv
  <1> QED
    BY <1>1, ServicesHold, PTL

\* Whatever is left out before the model, fails in it or is retried, a clip's text
\* is returned at the clip's place in the request and nowhere else (stt.py:287,
\* 323-348), for requests of any length and any number of callers.
THEOREM BatchesInOrder ==
    ASSUME Service!ServicesAssumption PROVE Service!Spec => []BatchInOrder
  <1>1. ServicesInv => BatchInOrder
    <2> SUFFICES ASSUME ServicesInv, NEW k \in Callers, requests[k].at = "done",
                        requests[k].op \in {"transcribe", "batch"}
                 PROVE  \/ requests[k].op = "transcribe" /\ requests[k].got = << "raised" >>
                        \/ InOrder(requests[k].got, requests[k].item)
      BY DEF BatchInOrder, InOrder
    <2>1. RequestInv(requests[k])
      BY DEF ServicesInv, CallsInv, RequestsInv
    <2> QED
      BY <2>1, OfItsKind DEF HearInv
  <1> QED
    BY <1>1, ServicesHold, PTL

\* Whatever other calls, failures and evictions came between, who asks gets what was
\* asked for or a sign that there is none, and a question for the weather is
\* answered with a place if a location could be read when it was asked.
THEOREM ServicesAnswerTheirOwn ==
    ASSUME Service!ServicesAssumption PROVE Service!Spec => []OwnAnswer
  <1>1. ServicesInv => OwnAnswer
    <2> SUFFICES ASSUME ServicesInv,
                        NEW k \in Callers, requests[k].at = "done"
                 PROVE  /\ requests[k].op = "speak" =>
                              \A i \in DOMAIN requests[k].got :
                                 /\ requests[k].got[i].words = requests[k].item.words
                                 /\ requests[k].got[i].voice = requests[k].item.voice
                        /\ requests[k].op = "see" => requests[k].got \in {<<>>, << requests[k].item >>}
                        /\ requests[k].op = "weather" =>
                              /\ requests[k].got[1] \in Named => requests[k].got[1] = requests[k].item
                              /\ requests[k].got[1] = "nowhere" => ~requests[k].known
      BY DEF OwnAnswer
    <2>1. RequestInv(requests[k])
      BY DEF ServicesInv, CallsInv, RequestsInv
    <2>2. ASSUME requests[k].op = "speak" PROVE SpeakInv(requests[k])
      BY <2>1, <2>2, OfItsKind
    <2>3. ASSUME requests[k].op = "see" PROVE SeeInv(requests[k])
      BY <2>1, <2>3, OfItsKind
    <2>4. ASSUME requests[k].op = "weather" PROVE WeatherInv(requests[k])
      BY <2>1, <2>4, OfItsKind
    <2> QED
      BY <2>2, <2>3, <2>4 DEF SpeakInv, SeeInv, WeatherInv
  <1> QED
    BY <1>1, ServicesHold, PTL

=============================================================================
