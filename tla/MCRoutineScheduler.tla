------------------------- MODULE MCRoutineScheduler -------------------------
(* One default and one custom routine, two manual runs that may overlap.   *)
(* Requests are interchangeable: nothing distinguishes or orders them.     *)
EXTENDS RoutineScheduler, TLC

CONSTANTS m1, m2

Interchangeable == Permutations(Requests)
=============================================================================
