----------------------------- MODULE MCHarness -----------------------------
(* Harness on small instances: sizes and bounds come from the cfg files.   *)
EXTENDS Harness
=============================================================================
