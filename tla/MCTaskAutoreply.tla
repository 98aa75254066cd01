-------------------------- MODULE MCTaskAutoreply --------------------------
(* Two instances that may be exchanged: none is named in the initial state *)
(* or in a property that a run with symmetry checks.                       *)
EXTENDS TaskAutoreply, TLC

CONSTANTS i1, i2

Interchangeable == Permutations(Instances)
=============================================================================
