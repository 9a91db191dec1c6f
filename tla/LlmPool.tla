-------------------------------- MODULE LlmPool --------------------------------
(***************************************************************************)
(* The turns of all conversations at the one LLM of the AI server:         *)
(* ResponseGenerator's streaming path and its fallback                     *)
(* (agents/response_generator.py), LLMService's two ways to run the model  *)
(* on an executor thread (services/llm.py) and the ResourcePool that       *)
(* limits them (utils/resource_pool.py).                                   *)
(*                                                                         *)
(* A turn is one run of the generator by a task, which may be cancelled    *)
(* (the device speaks again, the client is gone).  A model call is a       *)
(* thread, which nobody can cancel.  Time is abstract: a timeout may       *)
(* happen as soon as it is running.                                        *)
(***************************************************************************)
EXTENDS Integers, FiniteSets

CONSTANTS
  Turn,           \* the turns
  MaxConcurrent,  \* LLM_MAX_CONCURRENT_REQUESTS
  MaxSentences    \* bound: sentences of a stream

ASSUME PoolAssumption ==
  /\ IsFiniteSet(Turn)
  /\ MaxConcurrent \in Nat \ {0}
  /\ MaxSentences \in Nat

VARIABLES
  stage,     \* where the turn's task stands
  attempt,   \* 0 for the stream, then the attempts of _generate_llm_response
  calls,     \* model calls of the turn that are running
  queued,    \* sentences in the stream's queue
  sentinel,  \* its _SENTINEL is behind them
  taken,     \* sentences the turn has taken out
  ahead,     \* who was waiting for a slot when the turn began to
  value,     \* of the semaphore
  active     \* _active_requests

streams == <<queued, sentinel, taken>>
vars == <<stage, attempt, calls, streams, ahead, value, active>>

Holding == {"pulling", "delivering", "joining", "closing", "calling"}
Over == {"streamed", "answered", "pattern", "cancelled"}
MaxAttempts == 2

TypeOK ==
  /\ stage \in [Turn -> {"idle", "waiting", "granted", "finishing"}
                          \cup Holding \cup Over]
  /\ attempt \in [Turn -> 0..MaxAttempts]
  /\ calls \in [Turn -> Nat]
  /\ queued \in [Turn -> 0..MaxSentences]
  /\ sentinel \in [Turn -> BOOLEAN]
  /\ taken \in [Turn -> 0..MaxSentences]
  /\ ahead \in [Turn -> SUBSET Turn]
  /\ value \in 0..MaxConcurrent
  /\ active \in 0..MaxConcurrent

Init ==
  /\ stage = [t \in Turn |-> "idle"]
  /\ attempt = [t \in Turn |-> 0]
  /\ calls = [t \in Turn |-> 0]
  /\ queued = [t \in Turn |-> 0]
  /\ sentinel = [t \in Turn |-> FALSE]
  /\ taken = [t \in Turn |-> 0]
  /\ ahead = [t \in Turn |-> {}]
  /\ value = MaxConcurrent
  /\ active = 0

Waiting == {t \in Turn : stage[t] = "waiting"}
Granted == {t \in Turn : stage[t] = "granted"}
Inside == {t \in Turn : stage[t] \in Holding}

-----------------------------------------------------------------------------
(* asyncio.Semaphore, whose waiters are futures in a deque: a granted      *)
(* waiter has its future done and stays there until its task runs.         *)

\* Who is left in line when t is not.
Line(t) == Waiting \ {t}

\* Mutant: nobody is woken.
WokenNever(W, t, n) == W = {}

\* The first n of them, or all.
Woken(W, t, n) ==
  /\ W \subseteq Line(t)
  /\ Cardinality(W) <= n
  /\ W = Line(t) \/ Cardinality(W) = n
  /\ \A w \in W : ahead[w] \cap Line(t) \subseteq W

\* The task t goes on to stage x and those in W find their future done.
Move(t, x, W) ==
  /\ stage' = [u \in Turn |-> IF u \in W THEN "granted"
                              ELSE IF u = t THEN x ELSE stage[u]]
  /\ ahead' = [u \in Turn |-> IF u # t THEN ahead[u] \cap (Line(t) \ W)
                              ELSE IF x = "waiting" THEN Line(t) \ W ELSE {}]

\* A turn that goes on to x while the pool is as it leaves it: v free slots and
\* n active requests.
Settle(t, x, W, v, n) ==
  /\ Move(t, x, W)
  /\ value' = v
  /\ active' = n
  /\ UNCHANGED <<attempt, calls>>

\* ResourcePool.__aenter__ up to where it suspends, and what its caller does at
\* once when it does not: start the thread of the stream or of the chat call.
Acquire(t, a, W, v, n) ==
  LET locked == v = 0 \/ \E u \in Turn \ {t} : stage[u] \in {"waiting", "granted"}
  IN  /\ attempt' = [attempt EXCEPT ![t] = a]
      /\ \/ /\ locked
            /\ Move(t, "waiting", W)
            /\ value' = v
            /\ active' = n
            /\ UNCHANGED calls
         \/ /\ ~locked
            /\ Move(t, IF a = 0 THEN "pulling" ELSE "calling", W)
            /\ value' = v - 1
            /\ active' = n + 1
            /\ calls' = [calls EXCEPT ![t] = @ + 1]

\* A caller without an answer: the next attempt, or a pattern-based response.
Fallback(t, W, v, n) ==
  IF attempt[t] < MaxAttempts
  THEN Acquire(t, attempt[t] + 1, W, v, n)
  ELSE Settle(t, "pattern", W, v, n)

-----------------------------------------------------------------------------
(* The line for a slot.                                                    *)

\* generate_response, on the streaming path or not.
Begin(t, a) ==
  /\ stage[t] = "idle"
  /\ Acquire(t, a, {}, value, active)
  /\ UNCHANGED streams

\* acquire() returns: it wakes whoever it finds in line while there are slots.
Enter(t) ==
  /\ stage[t] = "granted"
  /\ \E W \in SUBSET Line(t) :
       /\ Woken(W, t, value)
       /\ Move(t, IF attempt[t] = 0 THEN "pulling" ELSE "calling", W)
       /\ value' = value - Cardinality(W)
  /\ active' = active + 1
  /\ calls' = [calls EXCEPT ![t] = @ + 1]
  /\ UNCHANGED <<attempt, streams>>

\* Mutant: a slot that was just granted is lost.
RelinquishedNever(t) == value

\* The slots there are when acquire() is cancelled: a granted one is returned.
Relinquished(t) == IF stage[t] = "granted" THEN value + 1 ELSE value

InLine(t) == stage[t] \in {"waiting", "granted"}

\* The pool's timeout, also of a waiter whose slot is granted and whose task has
\* not run yet.
PoolTimesOut(t) ==
  /\ InLine(t)
  /\ \E W \in SUBSET Line(t) :
       LET v == Relinquished(t) IN
         /\ Woken(W, t, v)
         /\ Fallback(t, W, v - Cardinality(W), active)
  /\ UNCHANGED streams

CancelledInLine(t) ==
  /\ InLine(t)
  /\ \E W \in SUBSET Line(t) :
       LET v == Relinquished(t) IN
         /\ Woken(W, t, v)
         /\ Settle(t, "cancelled", W, v - Cardinality(W), active)
  /\ UNCHANGED streams

-----------------------------------------------------------------------------
(* Leaving the pool.                                                       *)

\* The slots after __aexit__ of a turn inside, with those in W woken.
Freed(W) == value + 1 - Cardinality(W)

\* __aexit__, and the turn goes on to x.
Release(t, x) ==
  /\ active > 0
  /\ \E W \in SUBSET Line(t) :
       /\ Woken(W, t, 1)
       /\ Settle(t, x, W, Freed(W), active - 1)

-----------------------------------------------------------------------------
(* Model calls, on threads of the default executor.                        *)

\* A sentence is complete.  What a thread queues for a stream that nobody
\* reads any more is left out.
Produce(t) ==
  /\ calls[t] > 0
  /\ stage[t] \in {"pulling", "delivering"}
  /\ ~sentinel[t]
  /\ queued[t] + taken[t] < MaxSentences
  /\ queued' = [queued EXCEPT ![t] = @ + 1]
  /\ UNCHANGED <<stage, attempt, calls, sentinel, taken, ahead, value, active>>

\* Mutant: a call that raises queues no sentinel.
CallEndsSilently(t) ==
  /\ calls[t] > 0
  /\ calls' = [calls EXCEPT ![t] = @ - 1]
  /\ \E clean \in BOOLEAN :
       sentinel' = [sentinel EXCEPT ![t] = clean /\ attempt[t] = 0]
  /\ UNCHANGED <<stage, attempt, queued, taken, ahead, value, active>>

\* The call returns or raises; a stream's sentinel is queued either way.
CallEnds(t) ==
  /\ calls[t] > 0
  /\ calls' = [calls EXCEPT ![t] = @ - 1]
  /\ sentinel' = [sentinel EXCEPT ![t] = attempt[t] = 0]
  /\ UNCHANGED <<stage, attempt, queued, taken, ahead, value, active>>

-----------------------------------------------------------------------------
(* The streaming path.                                                     *)

\* The next sentence.  The one before it is delivered now, so there is nothing
\* to wait for at the first.
Pull(t) ==
  /\ stage[t] = "pulling"
  /\ queued[t] > 0
  /\ queued' = [queued EXCEPT ![t] = @ - 1]
  /\ taken' = [taken EXCEPT ![t] = @ + 1]
  /\ stage' = [stage EXCEPT ![t] = IF taken[t] = 0 THEN "pulling" ELSE "delivering"]
  /\ UNCHANGED <<attempt, calls, sentinel, ahead, value, active>>

\* TTS and the delivery callback return or raise.
Delivered(t) ==
  /\ stage[t] = "delivering"
  /\ stage' = [stage EXCEPT ![t] = "pulling"]
  /\ UNCHANGED <<attempt, calls, streams, ahead, value, active>>

\* Mutant: a response that has not been heard yet does not count.
StreamEndsUnlessHeard(t) ==
  /\ stage[t] = "pulling"
  /\ queued[t] = 0 /\ sentinel[t]
  /\ \/ taken[t] > 1 /\ Release(t, "finishing")
     \/ /\ taken[t] <= 1
        /\ active > 0
        /\ \E W \in SUBSET Line(t) :
             /\ Woken(W, t, 1)
             /\ Fallback(t, W, Freed(W), active - 1)
  /\ UNCHANGED streams

\* The sentinel: both generators finish.  A stream without a sentence is no
\* response, and the chat path is taken.
StreamEnds(t) ==
  /\ stage[t] = "pulling"
  /\ queued[t] = 0 /\ sentinel[t]
  /\ \/ taken[t] > 0 /\ Release(t, "finishing")
     \/ /\ taken[t] = 0
        /\ active > 0
        /\ \E W \in SUBSET Line(t) :
             /\ Woken(W, t, 1)
             /\ Fallback(t, W, Freed(W), active - 1)
  /\ UNCHANGED streams

LastDelivered(t) ==
  /\ stage[t] = "finishing"
  /\ stage' = [stage EXCEPT ![t] = "streamed"]
  /\ UNCHANGED <<attempt, calls, streams, ahead, value, active>>

\* Cancelled at queue.get(): _stream_chat_impl's finally waits for its thread.
CancelledPulling(t) ==
  /\ stage[t] = "pulling"
  /\ stage' = [stage EXCEPT ![t] = "joining"]
  /\ UNCHANGED <<attempt, calls, streams, ahead, value, active>>

Joined(t) ==
  /\ stage[t] = "joining"
  /\ calls[t] = 0
  /\ Release(t, "cancelled")
  /\ UNCHANGED streams

\* Cancelled in a delivery, with both generators suspended at their yield: the
\* event loop closes the outer one in a task of its own ...
CancelledDelivering(t) ==
  /\ stage[t] = "delivering"
  /\ stage' = [stage EXCEPT ![t] = "closing"]
  /\ UNCHANGED <<attempt, calls, streams, ahead, value, active>>

\* ... which drops the inner one, that waits for the thread elsewhere, and
\* leaves the pool at once.
GeneratorClosed(t) ==
  /\ stage[t] = "closing"
  /\ Release(t, "cancelled")
  /\ UNCHANGED streams

CancelledFinishing(t) ==
  /\ stage[t] = "finishing"
  /\ stage' = [stage EXCEPT ![t] = "cancelled"]
  /\ UNCHANGED <<attempt, calls, streams, ahead, value, active>>

-----------------------------------------------------------------------------
(* The chat path, _generate_llm_response.                                  *)

\* The model's text, or a pattern when there is none.
ChatReturns(t) ==
  /\ stage[t] = "calling"
  /\ calls[t] = 0
  /\ \E x \in {"answered", "pattern"} : Release(t, x)
  /\ UNCHANGED streams

\* Mutant: the timeout is retried like an error.
ChatTimeoutRetried(t) ==
  /\ stage[t] = "calling"
  /\ active > 0
  /\ \E W \in SUBSET Line(t) :
       /\ Woken(W, t, 1)
       /\ Fallback(t, W, Freed(W), active - 1)
  /\ UNCHANGED streams

\* MAX_INFERENCE_TIME_SECONDS: not retried, the thread is still running.  The
\* pool's timeout is the shorter one (config/llm.py:50, 65), so a turn in line
\* meets that.
ChatTimesOut(t) ==
  /\ stage[t] = "calling"
  /\ Release(t, "pattern")
  /\ UNCHANGED streams

CancelledCalling(t) ==
  /\ stage[t] = "calling"
  /\ Release(t, "cancelled")
  /\ UNCHANGED streams

-----------------------------------------------------------------------------
\* What the turn's task and the timers do by themselves.
Advance(t) ==
  \/ Enter(t) \/ PoolTimesOut(t)
  \/ Pull(t) \/ Delivered(t) \/ StreamEnds(t) \/ LastDelivered(t)
  \/ Joined(t) \/ GeneratorClosed(t)
  \/ ChatReturns(t) \/ ChatTimesOut(t)

\* orchestration_task.cancel().
Cancel(t) ==
  \/ CancelledInLine(t) \/ CancelledPulling(t) \/ CancelledDelivering(t)
  \/ CancelledFinishing(t) \/ CancelledCalling(t)

Next ==
  \E t \in Turn :
    \/ \E a \in {0, 1} : Begin(t, a)
    \/ Advance(t)
    \/ Cancel(t)
    \/ Produce(t)
    \/ CallEnds(t)

Spec == Init /\ [][Next]_vars

\* The event loop runs ready tasks, timers fire, TTS returns and the model stops
\* by itself (max_tokens).
FairSpec ==
  Spec /\ \A t \in Turn : WF_vars(Advance(t)) /\ WF_vars(CallEnds(t))

-----------------------------------------------------------------------------
(* Properties.                                                             *)

\* Free slots, slots handed to a waiter that has not run yet and turns inside
\* add up to max_concurrent, whatever timed out or was cancelled in between
\* (resource_pool.py:29-55): no slot is lost and none is invented.
PoolBalanced ==
  /\ value + Cardinality(Granted) + Cardinality(Inside) = MaxConcurrent
  /\ active = Cardinality(Inside)

\* A turn waits beside a free slot only while somebody who is about to run will
\* wake it (the semaphore keeps first-come order by making newcomers wait).
WaitersNotForgotten == value > 0 /\ Waiting # {} => Granted # {}

\* A turn never runs the model twice at a time: response_generator.py:342-346,
\* across the stream, its fallback, retries and timeouts.
OneCallPerTurn == \A t \in Turn : calls[t] <= 1

\* A turn that has begun to speak the stream's answer is not answered again by
\* the fallback (response_generator.py:117, 254-272).
NoSecondAnswer ==
  \A t \in Turn : taken[t] > 0 =>
    attempt[t] = 0 /\ stage[t] \notin {"waiting", "granted", "answered", "pattern"}

\* Every turn ends, also when the pool is full, the model fails or the turn is
\* cancelled anywhere.
TurnEnds == \A t \in Turn : stage[t] # "idle" ~> stage[t] \in Over

\* resource_pool.py:19 ("Maximum number of concurrent operations"), of the
\* operations that have no timeout: at most max_concurrent streams drive the
\* model at a time.  The code breaks this: a turn cancelled during a delivery
\* gives its slot back while its thread runs on.
StreamsWithinLimit ==
  Cardinality({t \in Turn : calls[t] > 0 /\ attempt[t] = 0}) <= MaxConcurrent

================================================================================
