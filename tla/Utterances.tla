----------------------------- MODULE Utterances -----------------------------
(***************************************************************************)
(* What the consumer of a device's frames may rely on (the AI server's     *)
(* StreamConversation, rpc/service.py:229-343): speech arrives as          *)
(* utterances, each a START, then CONTINUEs, then an END, each a run of    *)
(* consecutive microphone frames, and no frame twice.                      *)
(*                                                                         *)
(* The hub adds one END without audio when the device's session is over    *)
(* (hub/src/device.rs:144-157), whether or not an utterance is open.       *)
(***************************************************************************)
EXTENDS Naturals, Sequences

CONSTANT MaxFrames   \* frames a session's microphone delivers

VARIABLES
  open,    \* an utterance has started and not ended
  upto,    \* the last microphone frame forwarded, 0 before the first
  out,     \* what the last step sent: a sequence of [event, frame]
  over     \* the device's session is over

vars == <<open, upto, out, over>>

\* Frames first..last, the first of them tagged event.
Block(event, first, last) ==
  [i \in 1..(last - first + 1) |->
     [event |-> IF i = 1 THEN event ELSE "Continue", frame |-> first + i - 1]]

\* The END of a finished session carries no frame.
HangUpFrame == [event |-> "End", frame |-> 0]

Init == /\ open = FALSE
        /\ upto = 0
        /\ out = <<>>
        /\ over = FALSE

Begin(first, last) ==
  /\ ~open
  /\ upto < first
  /\ first <= last
  /\ out' = Block("Start", first, last)
  /\ open' = TRUE
  /\ upto' = last
  /\ UNCHANGED over

Continue ==
  /\ open
  /\ out' = Block("Continue", upto + 1, upto + 1)
  /\ upto' = upto + 1
  /\ UNCHANGED <<open, over>>

End ==
  /\ open
  /\ out' = Block("End", upto + 1, upto + 1)
  /\ upto' = upto + 1
  /\ open' = FALSE
  /\ UNCHANGED over

\* Silence, or speech not confirmed yet: only between utterances.
Quiet ==
  /\ ~open
  /\ out' = <<>>
  /\ UNCHANGED <<open, upto, over>>

HangUp ==
  /\ out' = <<HangUpFrame>>
  /\ over' = TRUE
  /\ UNCHANGED <<open, upto>>

Next ==
  /\ ~over
  /\ \/ \E first, last \in 1..MaxFrames : Begin(first, last)
     \/ Continue
     \/ End
     \/ Quiet
     \/ HangUp

Spec == Init /\ [][Next]_vars

=============================================================================
