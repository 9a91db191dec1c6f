----------------------- MODULE MCStreamConversation -----------------------
(* Sessions and utterances for checking StreamConversation.                *)
EXTENDS StreamConversation, TLC

CONSTANTS s1, s2

\* An utterance longer than the buffer beside a short one.
LongBesideShort == s1 :> <<3>> @@ s2 :> <<2>>

===========================================================================
