------------------------------- MODULE MCPool -------------------------------
(* Pool with interchangeable callers, for the runs without liveness. *)
EXTENDS Pool, TLC
Symmetry == Permutations(Callers)
=============================================================================
