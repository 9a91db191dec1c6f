---------------------------- MODULE ServiceAnswers ----------------------------
(***************************************************************************)
(* What the services of the AI server promise to who calls them.           *)
(***************************************************************************)
EXTENDS Integers, Sequences

CONSTANTS
    Named,              \* places an utterance may name
    Callers             \* bound: calls at a time

VARIABLE
    requests  \* of each caller the last one: [op, item, at, parts, known, read, got]

\* stt.py:287, "TranscriptionResult objects in the same order as input": whatever
\* is left out before the model, fails in it or is retried, and in whatever order
\* the attempts end, a clip's text is returned at the clip's place in the request,
\* and at the places of the others there is an empty result.
BatchInOrder ==
    \A k \in Callers : requests[k].at = "done" /\ requests[k].op \in {"transcribe", "batch"} =>
       LET item == requests[k].item  got == requests[k].got IN
       \/ requests[k].op = "transcribe" /\ got = << "raised" >>
       \/ Len(got) = Len(item) /\ \A i \in DOMAIN item : got[i] \in {"empty", item[i]}

\* Who asks gets what was asked for or a sign that there is none, whatever the
\* caches with their limits, failures and other calls did meanwhile: a phrase its
\* words and voice (tts.py:300-305), an image its own scene (vision.py:462), and
\* a question for the weather the place it names or the server's, which is not
\* unknown to a turn that could read a location, of any age, when it began
\* (weather_handler.py:12-14), even if the record was torn after that. What another
\* call stores after the question was asked is not looked for (193-196).
OwnAnswer ==
    \A k \in Callers : requests[k].at = "done" =>
       LET item == requests[k].item  got == requests[k].got IN
       /\ requests[k].op = "speak" =>
             \A i \in DOMAIN got : got[i].words = item.words /\ got[i].voice = item.voice
       /\ requests[k].op = "see" => got \in {<<>>, << item >>}
       /\ requests[k].op = "weather" =>
             /\ got[1] \in Named => got[1] = item
             /\ got[1] = "nowhere" => ~requests[k].known

=============================================================================
