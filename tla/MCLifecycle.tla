----------------------------- MODULE MCLifecycle -----------------------------
(* Instances of Lifecycle for TLC.  Workers are interchangeable.              *)
EXTENDS Lifecycle, TLC

Symmetry == Permutations(Worker)
=============================================================================
