----------------------------- MODULE MCObjectStore -----------------------------
(* Definitions for model-checking ObjectStore with TLC. *)
EXTENDS ObjectStore, TLC

\* Calls are interchangeable.
Symmetry == Permutations(Calls)
=============================================================================
