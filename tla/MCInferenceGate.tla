-------------------------- MODULE MCInferenceGate --------------------------
(* Small instances of the inference gate. *)
EXTENDS InferenceGate
=============================================================================
