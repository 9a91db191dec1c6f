---------------------------- MODULE ExchangeMemory ----------------------------
(***************************************************************************)
(* What the conversation memory of the AI server promises to the turns     *)
(* that share it and to the devices they answer.                           *)
(***************************************************************************)
EXTENDS Integers, Sequences, FiniteSets

CONSTANT
    HistoryLimit    \* orch_config.HISTORY_LIMIT

VARIABLES
    turns,    \* the turns started so far
    memory,   \* the exchanges table, in the order of exchange_id
    out       \* what devices were told: [dev, turn, text]

Lesser(a, b) == IF a < b THEN a ELSE b

OwnRows(d, n) == {i \in 1 .. n : memory[i].dev = d}

IsLatest(history, rows) ==
    /\ Len(history) = Lesser(HistoryLimit, Cardinality(rows))
    /\ \A m \in DOMAIN history : history[m] \in rows
    /\ \A m, n \in DOMAIN history : m < n => history[m] < history[n]
    /\ \A i \in rows : \/ \E m \in DOMAIN history : history[m] = i
                       \/ \A m \in DOMAIN history : i < history[m]

\* graphs/orchestration.py:107: what a turn is given as the conversation is the
\* most recent exchanges of its own device, in the order in which they were
\* committed, whatever turns of this and other devices ran meanwhile and however
\* many of them fell into one millisecond.
HistoryIsThePast ==
    \A k \in DOMAIN turns : turns[k].seen >= 0 =>
        IsLatest(turns[k].history, OwnRows(turns[k].dev, turns[k].seen))

\* orchestrator.py:3, "persists the completed turn": an exchange is remembered
\* once, for a turn that was neither stopped nor failed, and never with another
\* answer than the device was told, also over gRPC, where sentences are told
\* before the answer is complete, and also if the clip is gone by the commit; and
\* what a device was told is remembered, unless the turn had no input, failed, or
\* is one over gRPC that is still on its way to the commit or was stopped there.
MemoryMatchesTold ==
    /\ \A i, j \in DOMAIN memory :
          memory[i].turn = memory[j].turn => i = j \/ memory[i].turn = 0
    /\ \A i \in DOMAIN memory : memory[i].turn # 0 =>
          LET t == turns[memory[i].turn] IN
          t.at = "done" /\ t.text = memory[i].text /\ t.dev = memory[i].dev
    /\ \A o \in out : \A i \in DOMAIN memory :
          memory[i].turn = o.turn => memory[i].text = o.text
    /\ \A o \in out : o.text # "apology" =>
          \/ turns[o.turn].user \in {"", "empty"}
          \/ \E i \in DOMAIN memory : memory[i].turn = o.turn
          \/ turns[o.turn].via = "grpc" /\ turns[o.turn].at # "done"

=============================================================================
