------------------------- MODULE MCBlueprintEditing -------------------------
(***************************************************************************)
(* BlueprintEditing on small instances: databases are numbers, the order   *)
(* their pointers are moved in.                                            *)
(***************************************************************************)
EXTENDS BlueprintEditing, TLC

\* requests are interchangeable; databases are not, ids order the stamps
Symmetry == Permutations(Handlers)
=============================================================================
