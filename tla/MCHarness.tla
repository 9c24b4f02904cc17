----------------------------- MODULE MCHarness -----------------------------
(* Two runners, as go test starts for the packages conformance/runner and *)
(* conformance/presentation, and three ports.                              *)
EXTENDS Harness, TLC

\* One fixture with a denial after an accepted call, one with an introspection.
TwoFixtures == <<<<"ok", "deny">>, <<"inactive">>>>

\* They stand for N-T2-4 and N-T1-1; the flags are those the README shows.
Families == "T2-" :> {1} @@ "O-" :> {}
=============================================================================
