-------------------------------- MODULE Response --------------------------------
(***************************************************************************)
(* What a device is promised of the spoken answer to one utterance: audio  *)
(* packets numbered from 0 without a gap, the transcript on the first one  *)
(* only, and nothing after a packet that says it is the last.              *)
(* proto/nailaV1.proto, AudioOutput.                                       *)
(***************************************************************************)
EXTENDS Naturals, Sequences

VARIABLE packets  \* sent so far

Init == packets = <<>>

\* The next packet, the last one or not.
Packet(final) ==
  /\ \A i \in DOMAIN packets : ~packets[i].is_final
  /\ packets' = Append(packets, [sequence_num |-> Len(packets),
                                final_stt |-> packets = <<>>,
                                is_final |-> final])

Next == \E final \in BOOLEAN : Packet(final)

Spec == Init /\ [][Next]_packets

================================================================================
