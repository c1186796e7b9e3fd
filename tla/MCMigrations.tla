----------------------------- MODULE MCMigrations -----------------------------
(* Definitions for model-checking Migrations with TLC. *)
EXTENDS Migrations, TLC

\* Processes are interchangeable.
Symmetry == Permutations(Procs)
=============================================================================
