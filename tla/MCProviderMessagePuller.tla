----------------------- MODULE MCProviderMessagePuller -----------------------
(* Instances of ProviderMessagePuller for TLC.                              *)
EXTENDS ProviderMessagePuller

CONSTANTS a, b, c

TwoSessions == <<a, b>>
ThreeSessions == <<a, b, c>>

=============================================================================
