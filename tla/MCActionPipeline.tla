--------------------------- MODULE MCActionPipeline ----------------------------
(* ActionPipeline on small sets for TLC.  Callers, payloads and attempt ids are *)
(* interchangeable in every property the symmetric runs check.                 *)
EXTENDS ActionPipeline, TLC

Symmetry ==
  Permutations(Callers) \cup Permutations(Payloads) \cup Permutations(AttemptIds)
================================================================================
