------------------------------- MODULE MCPool -------------------------------
(***************************************************************************)
(* Model checking of Pool: descriptors and workers are interchangeable.    *)
(***************************************************************************)
EXTENDS Pool, TLC

Symmetry == Permutations(Fd) \cup Permutations(Workers)
=============================================================================
