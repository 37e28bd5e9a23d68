--------------------------- MODULE MCAccessChanges ---------------------------
EXTENDS AccessChanges, TLC
CONSTANTS ana, eva, leo
Person(active, duties) == [exists |-> TRUE, active |-> active, credential |-> TRUE, duties |-> duties]
Absent == [exists |-> FALSE, active |-> FALSE, credential |-> FALSE, duties |-> {}]
\* a fresh install with its window, two administrators and an operator, and one
\* administrator beside another that is not active
Pending(t, a, want, before, override) ==
  [target |-> t, requester |-> a, want |-> want, before |-> before, override |-> override, status |-> "pending"]
MCStarts ==
  {[account |-> ana :> Person(TRUE, {Admin}) @@ eva :> Absent @@ leo :> Absent, open |-> TRUE, rows |-> <<>>],
   [account |-> ana :> Person(TRUE, {Admin}) @@ eva :> Person(TRUE, {Admin}) @@ leo :> Person(TRUE, {Officer}),
    open |-> FALSE, rows |-> <<Pending(leo, ana, {Officer, "owner"}, {Officer}, TRUE)>>],
   [account |-> ana :> Person(TRUE, {Admin}) @@ eva :> Person(FALSE, {Admin, "owner"}) @@ leo :> Absent,
    open |-> FALSE, rows |-> <<>>]}
Alike == Permutations(Handlers)
==============================================================================
