------------------------------- MODULE MCTurns -------------------------------
\* A small instance of Turns: what is said covers every answer and every guard.
EXTENDS Turns

CONSTANTS d1, d2

MCUtterances == {<<"talk", 2>>, <<"time", 3>>, <<"empty", 0>>}

OldRow(d) == [dev |-> d, ts |-> 0, turn |-> 0, text |-> "llm"]
MCEarlier == {<<>>, <<OldRow(d1), OldRow(d2), OldRow(d1)>>}

=============================================================================
