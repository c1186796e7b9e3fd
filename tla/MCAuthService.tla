----------------------------- MODULE MCAuthService -----------------------------
(* Definitions for model-checking AuthService with TLC. *)
EXTENDS AuthService, TLC

\* Calls are interchangeable in runs without liveness.
Symmetry == Permutations(Calls)
=============================================================================
