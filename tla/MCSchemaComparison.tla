------------------------ MODULE MCSchemaComparison ------------------------
(* Differences of three statements.                                         *)
EXTENDS SchemaComparison, TLC

Change(of, needs, creates, destructive, procedural) ==
  [of |-> of, needs |-> needs, creates |-> creates,
   destructive |-> destructive, procedural |-> procedural]
SomeDifferences == {
  \* three changes, each on top of the one before, the first destructive
  Change(<<1, 2, 3>>, <<{}, {1}, {2}>>, <<0, 1, 2>>, {1}, {}),
  \* two changes, and code that needs both and has to be read
  Change(<<1, 2, 3>>, <<{}, {}, {1, 2}>>, <<1, 2, 3>>, {}, {3}),
  \* a DROP and a CREATE, and what stands on them
  Change(<<1, 1, 2>>, <<{}, {1}>>, <<0, 0, 1>>, {}, {}),
  \* an order the linter refuses, a change torn apart, and an object created twice
  Change(<<1, 2, 3>>, <<{3}, {}, {}>>, <<0, 0, 1>>, {}, {}),
  Change(<<1, 2, 1>>, <<{}, {}>>, <<0, 0, 0>>, {2}, {}),
  Change(<<1, 2, 3>>, <<{}, {}, {1}>>, <<1, 1, 2>>, {}, {}) }
Symmetry == Permutations(Requests)
=============================================================================
