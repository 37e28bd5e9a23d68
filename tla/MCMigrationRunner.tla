------------------------- MODULE MCMigrationRunner -------------------------
(* Instances of MigrationRunner for TLC: sizes and manifests.              *)
EXTENDS MigrationRunner, TLC

CONSTANTS r1, r2

(* Two versions: one with an irreversible statement between reversible     *)
(* ones, and a short one.                                                  *)
MixedSize == <<3, 2>>
MixedDown == {<<1, 1>>, <<1, 3>>, <<2, 1>>, <<2, 2>>}

(* Everything reversible, and a version of a single statement last.        *)
PlainSize == [v \in Versions |-> IF v = 1 THEN 2 ELSE 1]
PlainDown == {s \in Versions \X (1..2) : s[2] <= PlainSize[s[1]]}

Symmetry == Permutations({r1, r2})
=============================================================================
