--------------------------- MODULE MCVwsRequests ---------------------------
(* Model checking of VwsRequests: the callers are interchangeable.         *)
EXTENDS VwsRequests, TLC

Symmetry == Permutations(Callers)
=============================================================================
