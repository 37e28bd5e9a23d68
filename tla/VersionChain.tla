---------------------------- MODULE VersionChain ----------------------------
(* What the migration runner promises of one database, seen from outside:  *)
(* a recorded version (level) and the set of versions whose changes are in *)
(* the schema (built).  A version is put on top or taken off the top as a  *)
(* whole; stamp only declares.                                             *)
EXTENDS Integers

CONSTANT NV
VARIABLES level, built

Init == level = 0 /\ built = {}

Advance ==
  /\ level < NV /\ level + 1 \notin built
  /\ level' = level + 1
  /\ built' = built \cup {level + 1}

Retreat ==
  /\ level > 0 /\ level \in built
  /\ level' = level - 1
  /\ built' = built \ {level}

Declare ==
  /\ level' \in 1..NV
  /\ UNCHANGED built

Next == Advance \/ Retreat \/ Declare
Spec == Init /\ [][Next]_<<level, built>>
=============================================================================
