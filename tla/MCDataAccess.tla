---------------------------- MODULE MCDataAccess ----------------------------
(* Two owners, two processes, two requests at once.                          *)
EXTENDS DataAccess, TLC
Symmetry == Permutations(Requests) \cup Permutations(People)
=============================================================================
