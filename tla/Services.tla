------------------------------- MODULE Services -------------------------------
(***************************************************************************)
(* What the turns of the AI server call, several at a time: transcription  *)
(* with its slots, retries and batches, synthesis with its phrase cache,   *)
(* scene analysis with its content cache, and the weather action with the  *)
(* location it keeps in the process and on disk.                           *)
(*                                                                         *)
(* A call of a model in the executor and a request over the network end in *)
(* a step of their own, so that what was read before may be stale then.    *)
(* The models are loaded (ServerLifecycle has how); a time limit is a step *)
(* that may come whenever the wait is not over.                            *)
(***************************************************************************)
EXTENDS Integers, Sequences, FiniteSets, ServiceAnswers

CONSTANTS
    Clips, Batches,     \* audio to transcribe, and sequences of it
    Phrases,            \* what is to be said: [words, caps, voice]
    Images,
    SttSlots, TtsSlots, \* MAX_CONCURRENT_REQUESTS of the pools
    MaxRetries,         \* stt_config.MAX_RETRIES
    CacheLimit,         \* sizes of the phrase cache and the scene cache
    MaxCalls,           \* bound: calls made
    MaxFaults           \* bound: failures other than those that are retried

ASSUME ServicesAssumption ==
    /\ {SttSlots, TtsSlots, CacheLimit} \subseteq Nat \ {0}
    /\ {MaxRetries, MaxCalls, MaxFaults} \subseteq Nat
    /\ Batches \subseteq Seq(Clips)
    /\ Named \cap {"here", "current", "old", "nowhere", "error"} = {}

VARIABLES
    phrases,  \* TTSPhraseLRUCache: [key, of], the oldest first
    scenes,   \* ContentHashCache, likewise
    geo,      \* _GEOCODE_CACHE
    place,    \* _IP_LOCATION: none, a fetched one, or one too old
    disk,     \* ip_location.json: none that can be read, a recent or an old record
    made,     \* calls made
    faults    \* failures so far

vars == <<requests, phrases, scenes, geo, place, disk, made, faults>>
caches == <<phrases, scenes, made>>
location == <<geo, place, disk>>

\* The last call of a caller has returned or died with the process.
Over == {"done", "lost"}

NoCall == [op |-> "none", item |-> "none", at |-> "lost", parts |-> <<>>,
           known |-> FALSE, read |-> "none", got |-> <<>>]

TypeOK ==
    /\ DOMAIN requests = Callers
    /\ \A k \in Callers :
          /\ requests[k].op \in {"none", "transcribe", "batch", "speak", "see", "weather"}
          /\ requests[k].at \in Over \cup {"asked", "waiting", "preparing", "running",
                             "geocoding", "locating", "fetching", "forecasting"}
    /\ Len(phrases) <= CacheLimit /\ Len(scenes) <= CacheLimit
    /\ geo \in [Named -> {"unknown", "found", "absent"}]
    /\ place \in {"none", "current", "old"}
    /\ disk \in {"none", "current", "old"}
    /\ made \in 0 .. MaxCalls /\ faults \in 0 .. MaxFaults

Init ==
    /\ requests = [k \in Callers |-> NoCall] /\ phrases = <<>> /\ scenes = <<>>
    /\ geo = [q \in Named |-> "unknown"]
    /\ place = "none" /\ disk \in {"none", "old"}
    /\ made = 0 /\ faults = 0

----------------------------------------------------------------------------
\* Calls.

\* For the weather it is kept whether a location could be had without a request.
Call(k, op, item, at) ==
    /\ requests[k].at \in Over /\ made < MaxCalls /\ made' = made + 1
    /\ requests' = [requests EXCEPT ![k] =
          [op |-> op, item |-> item, at |-> at, parts |-> <<>>,
           known |-> op = "weather" /\ (place # "none" \/ disk # "none"),
           read |-> "none", got |-> <<>>]]
    /\ UNCHANGED <<phrases, scenes, location, faults>>

Transcribe(k) == \E c \in Clips : Call(k, "transcribe", << c >>, "waiting")
\* A batch takes no slot.
TranscribeBatch(k) == \E b \in Batches : Call(k, "batch", b, "preparing")
Speak(k)   == \E p \in Phrases : Call(k, "speak", p, "asked")
See(k)     == \E m \in Images : Call(k, "see", m, "asked")
Weather(k) == \E q \in Named \cup {"here"} : Call(k, "weather", q, "asked")

At(k, op, at)   == requests[k].op = op /\ requests[k].at = at
Moves(k, at)    == requests' = [requests EXCEPT ![k].at = at]
Returns(k, got) == requests' = [requests EXCEPT ![k].at = "done", ![k].got = got,
                                          ![k].parts = <<>>]
Fault           == faults < MaxFaults /\ faults' = faults + 1

----------------------------------------------------------------------------
\* Slots.

Slots(op)  == IF op = "speak" THEN TtsSlots ELSE SttSlots
Inside(op) == {k \in Callers : At(k, op, "preparing") \/ At(k, op, "running")}

GetSlot(k, op) ==
    /\ At(k, op, "waiting") /\ Cardinality(Inside(op)) < Slots(op)
    /\ Moves(k, IF op = "speak" THEN "running" ELSE "preparing")
    /\ UNCHANGED <<caches, location, faults>>

\* To synthesize, one more failure; to transcribe_audio, which takes the slot
\* outside of its try, an exception for the caller.
SlotTimesOut(k, op) ==
    /\ At(k, op, "waiting") /\ Cardinality(Inside(op)) = Slots(op)
    /\ Returns(k, IF op = "speak" THEN <<>> ELSE << "raised" >>)
    /\ UNCHANGED <<caches, location, faults>>

----------------------------------------------------------------------------
\* Transcription, of one clip or of a batch side by side.

Part(clip, idx) == [clip |-> clip, idx |-> idx, tries |-> 0, st |-> "todo"]

\* The clips are decoded; those that are too small, of a strange format or broken
\* are left out (valid_items), and a valid item keeps its place in the request.
Preprocess(k) ==
    /\ At(k, "transcribe", "preparing") \/ At(k, "batch", "preparing")
    /\ LET item == requests[k].item IN
       \E n \in 0 .. Len(item) : \E valid \in [1 .. n -> 1 .. Len(item)] :
          /\ \A i, j \in 1 .. n : i < j => valid[i] < valid[j]
          /\ IF n < Len(item) THEN Fault ELSE UNCHANGED faults
          /\ requests' = [requests EXCEPT ![k].at = "running",
                 ![k].parts = [i \in 1 .. n |-> Part(item[valid[i]], valid[i])]]
    /\ UNCHANGED <<caches, location>>

Hearing(k) == At(k, "transcribe", "running") \/ At(k, "batch", "running")
Todo(k, i) == Hearing(k) /\ i \in DOMAIN requests[k].parts /\ requests[k].parts[i].st = "todo"

Settle(k, i, part) ==
    /\ requests' = [requests EXCEPT ![k].parts[i] = part]
    /\ UNCHANGED <<caches, location, faults>>

Heard(k, i) ==
    Todo(k, i) /\ Settle(k, i, [requests[k].parts[i] EXCEPT !.st = "ok"])

\* Mutation: the failures are not counted.
AttemptFailsUncounted(k, i) ==
    Todo(k, i) /\ Settle(k, i, [requests[k].parts[i] EXCEPT
                                   !.tries = IF @ < MaxRetries THEN @ + 1 ELSE 0])

\* The wrapper of retry_on_failure: MaxRetries more attempts.
AttemptFails(k, i) ==
    /\ Todo(k, i)
    /\ LET p == requests[k].parts[i] IN
       Settle(k, i, IF p.tries < MaxRetries THEN [p EXCEPT !.tries = @ + 1]
                                            ELSE [p EXCEPT !.st = "failed"])

AllSettled(k) == Hearing(k) /\ \A i \in DOMAIN requests[k].parts : ~Todo(k, i)

\* What the model made of a valid item (the zip with the transcriptions).
TextOf(part) == IF part.st = "ok" THEN part.clip ELSE "empty"

\* Mutation: result_map by the position among the valid items.
ResultsByPosition(k) ==
    [i \in DOMAIN requests[k].item |->
       IF i \in DOMAIN requests[k].parts THEN TextOf(requests[k].parts[i]) ELSE "empty"]

\* result_map by the places that the valid items kept, filled in where there is none.
Results(k) ==
    LET parts  == requests[k].parts
        of(i)  == {j \in DOMAIN parts : parts[j].idx = i}
    IN [i \in DOMAIN requests[k].item |->
          IF of(i) = {} THEN "empty" ELSE TextOf(parts[CHOOSE j \in of(i) : TRUE])]

AllEmpty(k) == [i \in DOMAIN requests[k].item |-> "empty"]

Transcribed(k) ==
    /\ AllSettled(k) /\ Returns(k, Results(k))
    /\ UNCHANGED <<caches, location, faults>>

\* The model is lazy and its segments are read outside of the retries and, in a
\* batch, outside of what keeps the items apart: all of them are lost.
SegmentsFail(k) ==
    /\ AllSettled(k) /\ Results(k) # AllEmpty(k)
    /\ Returns(k, AllEmpty(k)) /\ Fault
    /\ UNCHANGED <<caches, location>>

----------------------------------------------------------------------------
\* The two caches with a limit.

Has(cache, key)    == \E i \in DOMAIN cache : cache[i].key = key
Find(cache, key)   == (CHOOSE i \in DOMAIN cache : cache[i].key = key)
\* Of one key there is at most one entry.
Without(cache, key) ==
    IF Has(cache, key)
    THEN SubSeq(cache, 1, Find(cache, key) - 1) \o SubSeq(cache, Find(cache, key) + 1, Len(cache))
    ELSE cache
Touched(cache, key) == Append(Without(cache, key), cache[Find(cache, key)])

Put(cache, key, of) ==
    LET kept == Without(cache, key)
        room == IF Len(kept) >= CacheLimit THEN Tail(kept) ELSE kept
    IN Append(room, [key |-> key, of |-> of])

\* Mutation: CACHE_INCLUDES_PARAMETERS is off.
KeyOfWords(p) == << p.words >>

\* Lower case, and the voice.
CacheKey(p) == << p.words, p.voice >>

\* synthesize: looked up, and stored after the synthesis if there is one.
LookUpPhrase(k) ==
    /\ At(k, "speak", "asked")
    /\ LET key == CacheKey(requests[k].item) IN
       IF Has(phrases, key)
       THEN Returns(k, << phrases[Find(phrases, key)].of >>) /\ phrases' = Touched(phrases, key)
       ELSE Moves(k, "waiting") /\ UNCHANGED phrases
    /\ UNCHANGED <<scenes, location, made, faults>>

Synthesized(k) ==
    /\ At(k, "speak", "running")
    /\ phrases' = Put(phrases, CacheKey(requests[k].item), requests[k].item)
    /\ Returns(k, << requests[k].item >>)
    /\ UNCHANGED <<scenes, location, made, faults>>

SynthesisFails(k) ==
    /\ At(k, "speak", "running") /\ Returns(k, <<>>) /\ Fault
    /\ UNCHANGED <<caches, location>>

\* analyze_scene: an entry may have expired.
LookUpScene(k) ==
    /\ At(k, "see", "asked")
    /\ LET m == requests[k].item IN
       \/ /\ Has(scenes, m)
          /\ Returns(k, << scenes[Find(scenes, m)].of >>) /\ scenes' = Touched(scenes, m)
       \/ Moves(k, "running") /\ scenes' = Without(scenes, m)
    /\ UNCHANGED <<phrases, location, made, faults>>

SceneAnalyzed(k) ==
    /\ At(k, "see", "running")
    /\ scenes' = Put(scenes, requests[k].item, requests[k].item)
    /\ Returns(k, << requests[k].item >>)
    /\ UNCHANGED <<phrases, location, made, faults>>

\* To the graph's vision node, an error that ends the analysis, not the turn.
DetectionFails(k) ==
    /\ At(k, "see", "running") /\ Returns(k, <<>>) /\ Fault
    /\ UNCHANGED <<caches, location>>

----------------------------------------------------------------------------
\* The weather: a place, then the forecast for it.

Found(k, p) == requests' = [requests EXCEPT ![k].at = "forecasting", ![k].got = << p >>]

ExtractLocation(k) ==
    /\ At(k, "weather", "asked")
    /\ LET q == requests[k].item IN
       IF q = "here" THEN Moves(k, "locating")
       ELSE CASE geo[q] = "found"   -> Found(k, q)
              [] geo[q] = "absent"  -> Moves(k, "locating")
              [] geo[q] = "unknown" -> Moves(k, "geocoding")
    /\ UNCHANGED <<caches, location, faults>>

\* That there is no such place is remembered, too; an error is not.
Geocoded(k) ==
    /\ At(k, "weather", "geocoding")
    /\ \/ Found(k, requests[k].item) /\ geo' = [geo EXCEPT ![requests[k].item] = "found"]
       \/ Moves(k, "locating") /\ geo' = [geo EXCEPT ![requests[k].item] = "absent"]
    /\ UNCHANGED <<caches, place, disk, faults>>

GeocodeFails(k) ==
    /\ At(k, "weather", "geocoding") /\ Moves(k, "locating") /\ Fault
    /\ UNCHANGED <<caches, location>>

\* _ip_lookup up to the request: what it read from disk it keeps over the wait.
IpLookup(k) ==
    /\ At(k, "weather", "locating")
    /\ CASE place # "none"   -> Found(k, place) /\ UNCHANGED place
         [] place = "none" /\ disk = "current" -> Found(k, "current") /\ place' = "current"
         [] OTHER            -> /\ requests' = [requests EXCEPT ![k].at = "fetching",
                                                           ![k].read = disk]
                                /\ UNCHANGED place
    /\ UNCHANGED <<caches, geo, disk, faults>>

Fetched(k) ==
    /\ At(k, "weather", "fetching")
    /\ place' = "current" /\ disk' = "current" /\ Found(k, "current")
    /\ UNCHANGED <<caches, geo, faults>>

\* As before, but the file could not be written or not to its end.
FetchedNotWritten(k) ==
    /\ At(k, "weather", "fetching") /\ Fault
    /\ place' = "current" /\ disk' \in {disk, "none"} /\ Found(k, "current")
    /\ UNCHANGED <<caches, geo>>

\* No reply, or one without a location: the record read before the request or
\* none, also when another call has found a location meanwhile.
FetchFails(k) ==
    /\ At(k, "weather", "fetching")
    /\ IF requests[k].read = "old"
       THEN Found(k, "old") /\ place' = "old"
       ELSE Returns(k, << "nowhere" >>) /\ UNCHANGED place
    /\ UNCHANGED <<caches, geo, disk, faults>>

Forecast(k) ==
    /\ At(k, "weather", "forecasting") /\ Moves(k, "done")
    /\ UNCHANGED <<caches, location, faults>>

ForecastFails(k) ==
    /\ At(k, "weather", "forecasting") /\ Returns(k, << "error" >>) /\ Fault
    /\ UNCHANGED <<caches, location>>

----------------------------------------------------------------------------
\* Thirty days pass; the process dies, maybe while it writes the file.
Age ==
    /\ disk = "current" /\ disk' = "old" /\ Fault
    /\ UNCHANGED <<requests, caches, geo, place>>

Restart ==
    /\ Fault
    /\ requests' = [k \in Callers |-> IF requests[k].at = "done" THEN requests[k] ELSE NoCall]
    /\ phrases' = <<>> /\ scenes' = <<>>
    /\ geo' = [q \in Named |-> "unknown"] /\ place' = "none"
    /\ UNCHANGED made
    /\ disk' \in {disk} \cup {"none" : k \in {j \in Callers : requests[j].at = "fetching"}}

Advance(k) ==
    \/ \E op \in {"transcribe", "speak"} : GetSlot(k, op) \/ SlotTimesOut(k, op)
    \/ Preprocess(k) \/ (\E i \in DOMAIN requests[k].parts : Heard(k, i) \/ AttemptFails(k, i))
    \/ Transcribed(k) \/ LookUpPhrase(k) \/ Synthesized(k) \/ LookUpScene(k)
    \/ SceneAnalyzed(k) \/ ExtractLocation(k) \/ Geocoded(k) \/ IpLookup(k)
    \/ Fetched(k) \/ Forecast(k)

Fail(k) ==
    \/ SegmentsFail(k) \/ SynthesisFails(k) \/ DetectionFails(k) \/ GeocodeFails(k)
    \/ FetchedNotWritten(k) \/ FetchFails(k) \/ ForecastFails(k)

Asks(k) ==
    Transcribe(k) \/ TranscribeBatch(k) \/ Speak(k) \/ See(k) \/ Weather(k)

Next == (\E k \in Callers : Asks(k) \/ Advance(k) \/ Fail(k)) \/ Age \/ Restart

\* The event loop goes on with every call, an executor's job and a request over
\* the network end, and a wait for a slot has its time limit.
Spec == Init /\ [][Next]_vars /\ \A k \in Callers : WF_vars(Advance(k))

----------------------------------------------------------------------------
\* Every call returns: however often the model fails, the retries come to an end,
\* and so does the wait for a slot.
CallsReturn == \A k \in Callers : (requests[k].at \notin Over) ~> (requests[k].at \in Over)

=============================================================================
