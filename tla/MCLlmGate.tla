----------------------------- MODULE MCLlmGate -----------------------------
(* LlmGate on a small clock: the values come from the cfg files.           *)
EXTENDS LlmGate
=============================================================================
