---------------------------- MODULE MCHubSession ----------------------------
(* Constant values for checking HubSession.                                *)
EXTENDS HubSession, TLC

CONSTANTS d1, d2, s1, s2, s3

\* A session and the one that replaces it.
OneDevice == [s \in Session |-> d1]

\* Two sessions of one device beside a session of another.
TwoDevices == [s \in Session |-> IF s = s3 THEN d2 ELSE d1]

=============================================================================
