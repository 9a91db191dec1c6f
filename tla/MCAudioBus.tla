----------------------------- MODULE MCAudioBus -----------------------------
(* Instances of AudioBus for TLC. *)
EXTENDS AudioBus, TLC

CONSTANTS s1, s2, d1

OneDevice == s1 :> d1 @@ s2 :> d1
OnlyOne == s1 :> d1

\* The first session gets as far as two frames, the one after it begins.
TwoThenOne == s1 :> 2 @@ s2 :> 1
JustOne == s1 :> 1

=============================================================================
