---------------------------- MODULE MCRealtimeHub ----------------------------
(* Definitions for model-checking RealtimeHub with TLC. *)
EXTENDS RealtimeHub, TLC

\* Sessions and publishers are interchangeable in runs of invariants only.
Symmetry == Permutations(Sessions) \cup Permutations(Publishers)
==============================================================================
