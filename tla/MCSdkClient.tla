---------------------------- MODULE MCSdkClient ----------------------------
(* Two programs, one with each Go SDK, use the same authority.             *)
EXTENDS SdkClient, TLC

CONSTANTS c1, c2

OneOfEach == c1 :> "v2" @@ c2 :> "v3"
=============================================================================
