--------------------------- MODULE MCLocalVerify ---------------------------
(* Two deployments with equal kids; one of them rotates its keys.          *)
EXTENDS LocalVerify, TLC

CONSTANTS d1, d2

OneRotates == d1 :> 2 @@ d2 :> 1
=============================================================================
