--------------------------- MODULE MCFakeRegistry ---------------------------
(* Small instances of FakeRegistry for TLC.                                *)
EXTENDS FakeRegistry, TLC

HandlerSymmetry == Permutations(Handlers)
=============================================================================
