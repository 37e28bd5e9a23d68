----------------------- MODULE SchemaComparisonProofs -----------------------
(***************************************************************************)
(* Proofs about SchemaComparison, for every set of finite differences, any *)
(* number of comparisons and requests, and every bound.                    *)
(*                                                                         *)
(* The statements of an execution are a closed and sane part of what its   *)
(* comparison found, in their order; what the comparison did not find was  *)
(* in effect already, and what is in effect stays.  Requests that read the *)
(* same state of the inventory use one key, so that two of them never run  *)
(* at once: whoever is not overtaken finds what it left.                   *)
(***************************************************************************)
EXTENDS SchemaComparison, FiniteSetTheorems, SequenceTheorems, TLAPS

-----------------------------------------------------------------------------
(* What the closures of plan_integrity.py compute, for every finite plan.  *)
(* Each closure is a recursive function over sets of groups.  That some    *)
(* function satisfies its equation is shown by giving one: the union of    *)
(* the sets below that lack nothing, the intersection of those above.      *)
(* That no other function does follows from the least set of groups where  *)
(* two would differ, which the strict subsets of a finite set always have. *)

\* a set of groups that lacks nothing
Whole(plan, groups) == Needs(plan, groups) \subseteq groups
\* the most of some groups that lacks nothing, and the least around them that does
Greatest(plan, groups) == {g \in groups : \E some \in SUBSET groups : g \in some /\ Whole(plan, some)}
Least(plan, groups) ==
  {g \in Groups(plan) : \A more \in SUBSET Groups(plan) :
                          groups \subseteq more /\ Whole(plan, more) => g \in more}
\* those of some groups that lack nothing of them
Kept(plan, groups) == {g \in groups : Needs(plan, {g}) \subseteq groups}

\* the equations of the two closures
Shrinks(plan, f) ==
  f = [groups \in SUBSET Groups(plan) |->
        LET kept == {g \in groups : Needs(plan, {g}) \subseteq groups} IN
        IF kept = groups THEN groups ELSE f[kept]]
Grows(plan, f) ==
  f = [groups \in SUBSET Groups(plan) |->
        IF Needs(plan, groups) \subseteq groups THEN groups
        ELSE f[groups \cup Needs(plan, groups)]]

-----------------------------------------------------------------------------
(* Needs, groups and items.                                                *)

\* What some groups need is what each of them needs, and belongs to the plan.
LEMMA NeedsOfEach ==
  ASSUME NEW plan, NEW groups
  PROVE  /\ \A g \in groups : Needs(plan, {g}) \subseteq Needs(plan, groups)
         /\ \A n \in Needs(plan, groups) : \E g \in groups : n \in Needs(plan, {g})
         /\ Needs(plan, groups) \subseteq Groups(plan)
<1>1. ASSUME NEW n, NEW G
      PROVE  n \in Needs(plan, G) <=> n \in Groups(plan) /\ \E g \in G : n \in plan.needs[g]
  BY DEF Needs
<1> QED
  BY <1>1

LEMMA WholeByEach ==
  ASSUME NEW plan, NEW groups
  PROVE  Whole(plan, groups) <=> \A g \in groups : Needs(plan, {g}) \subseteq groups
BY NeedsOfEach DEF Whole

\* The statements of some groups of the plan are of these groups, and are all of them.
LEMMA ItemsGroups ==
  ASSUME NEW plan, NEW groups \in SUBSET Groups(plan)
  PROVE  /\ ItemsOf(plan, groups) \subseteq plan.items
         /\ GroupsOf(plan, ItemsOf(plan, groups)) = groups
BY DEF ItemsOf, GroupsOf, Groups

\* A choice is closed when it is the statements of its groups, and they lack nothing.
LEMMA ClosedIsWhole ==
  ASSUME NEW plan, NEW groups \in SUBSET Groups(plan), Whole(plan, groups)
  PROVE  Closed(plan, ItemsOf(plan, groups))
BY ItemsGroups DEF Closed, Whole

LEMMA ClosedGives ==
  ASSUME NEW plan, NEW chosen \in SUBSET plan.items, Closed(plan, chosen)
  PROVE  /\ Whole(plan, GroupsOf(plan, chosen))
         /\ ItemsOf(plan, GroupsOf(plan, chosen)) = chosen
         /\ GroupsOf(plan, chosen) \in SUBSET Groups(plan)
BY DEF Closed, Whole, ItemsOf, GroupsOf, Groups

-----------------------------------------------------------------------------
(* The two closures.                                                       *)

\* The strict subsets of a finite set are well founded: a non-empty set of them has one
\* of which no other one of them is a part.
LEMMA SmallestSet ==
  ASSUME NEW S, IsFiniteSet(S), NEW sets \in SUBSET SUBSET S, sets # {}
  PROVE  \E least \in sets : \A other \in sets : ~(other \subseteq least /\ other # least)
<1>1. IsWellFoundedOn(StrictSubsetOrdering(S), SUBSET S)
  BY FS_StrictSubsetOrderingWellFounded, FS_FiniteSubsetsOfFinite
<1>2. PICK least \in sets : \A other \in sets : <<other, least>> \notin StrictSubsetOrdering(S)
  BY <1>1, WFMin
<1> QED
  BY <1>2 DEF StrictSubsetOrdering

\* What is whole among some groups is kept by a round of the pruning.
LEMMA KeptHoldsWhole ==
  ASSUME NEW plan, NEW groups, NEW some \in SUBSET groups, Whole(plan, some)
  PROVE  some \subseteq Kept(plan, groups)
BY WholeByEach DEF Kept

LEMMA GreatestOfKept ==
  ASSUME NEW plan, NEW groups
  PROVE  Greatest(plan, groups) = Greatest(plan, Kept(plan, groups))
<1>1. Kept(plan, groups) \subseteq groups
  BY DEF Kept
<1> QED
  BY <1>1, KeptHoldsWhole DEF Greatest

LEMMA GreatestOfWhole ==
  ASSUME NEW plan, NEW groups, Kept(plan, groups) = groups
  PROVE  Greatest(plan, groups) = groups
<1>1. Whole(plan, groups)
  BY WholeByEach DEF Kept
<1> QED
  BY <1>1 DEF Greatest

LEMMA ShrinkExists ==
  ASSUME NEW plan
  PROVE  \E f : Shrinks(plan, f)
<1> DEFINE f == [groups \in SUBSET Groups(plan) |-> Greatest(plan, groups)]
<1>1. ASSUME NEW groups \in SUBSET Groups(plan)
      PROVE  f[groups] = IF Kept(plan, groups) = groups THEN groups ELSE f[Kept(plan, groups)]
  <2>1. Kept(plan, groups) \in SUBSET Groups(plan)
    BY DEF Kept
  <2> QED
    BY <2>1, GreatestOfKept, GreatestOfWhole
<1>2. f = [groups \in SUBSET Groups(plan) |->
             IF Kept(plan, groups) = groups THEN groups ELSE f[Kept(plan, groups)]]
  BY <1>1
<1> HIDE DEF f
<1> QED
  BY <1>2, Zenon DEF Shrinks, Kept

LEMMA ShrinkUnique ==
  ASSUME NEW plan, IsFiniteSet(Groups(plan)), NEW f, Shrinks(plan, f),
         NEW groups \in SUBSET Groups(plan)
  PROVE  f[groups] = Greatest(plan, groups)
<1> DEFINE wrong == {bad \in SUBSET Groups(plan) : f[bad] # Greatest(plan, bad)}
<1>1. SUFFICES ASSUME wrong # {} PROVE FALSE
  OBVIOUS
<1>2. PICK bad \in wrong : \A other \in wrong : ~(other \subseteq bad /\ other # bad)
  <2>1. wrong \in SUBSET SUBSET Groups(plan)
    OBVIOUS
  <2> HIDE DEF wrong
  <2> QED
    BY <1>1, <2>1, SmallestSet
<1>3. f[bad] = IF Kept(plan, bad) = bad THEN bad ELSE f[Kept(plan, bad)]
  BY DEF Shrinks, Kept
<1>4. Kept(plan, bad) \subseteq bad
  BY DEF Kept
<1>5. CASE Kept(plan, bad) = bad
  BY <1>3, <1>5, GreatestOfWhole
<1>6. CASE Kept(plan, bad) # bad
  <2>1. Kept(plan, bad) \notin wrong
    BY <1>2, <1>4, <1>6
  <2>2. f[Kept(plan, bad)] = Greatest(plan, Kept(plan, bad))
    BY <2>1, <1>4
  <2> QED
    BY <2>2, <1>3, <1>6, GreatestOfKept
<1> QED
  BY <1>5, <1>6

\* What prune_unsatisfied keeps of some statements: the most of their groups that lacks
\* nothing.
THEOREM PruneGreatest ==
  ASSUME NEW plan, IsFiniteSet(Groups(plan)), NEW allowed \in SUBSET plan.items
  PROVE  Prune(plan, allowed) = ItemsOf(plan, Greatest(plan, GroupsOf(plan, allowed)))
<1> DEFINE shrink == CHOOSE f : Shrinks(plan, f)
<1>1. Shrinks(plan, shrink)
  BY ShrinkExists
<1>2. Prune(plan, allowed) = ItemsOf(plan, shrink[GroupsOf(plan, allowed)])
  BY Zenon DEF Prune, Shrinks
<1>3. GroupsOf(plan, allowed) \in SUBSET Groups(plan)
  BY DEF GroupsOf, Groups
<1> HIDE DEF shrink
<1> QED
  BY <1>1, <1>2, <1>3, ShrinkUnique

-----------------------------------------------------------------------------
LEMMA NeedsOfMore ==
  ASSUME NEW plan, NEW groups, NEW more, groups \subseteq more
  PROVE  Needs(plan, groups) \subseteq Needs(plan, more)
BY DEF Needs

\* What holds some groups and lacks nothing holds a round of the expansion.
LEMMA LeastOfGrown ==
  ASSUME NEW plan, NEW groups
  PROVE  Least(plan, groups) = Least(plan, groups \cup Needs(plan, groups))
<1>1. ASSUME NEW more, groups \subseteq more, Whole(plan, more)
      PROVE  groups \cup Needs(plan, groups) \subseteq more
  BY <1>1, NeedsOfMore DEF Whole
<1> QED
  BY <1>1 DEF Least

LEMMA LeastOfWhole ==
  ASSUME NEW plan, NEW groups \in SUBSET Groups(plan), Whole(plan, groups)
  PROVE  Least(plan, groups) = groups
BY DEF Least

LEMMA GrowExists ==
  ASSUME NEW plan
  PROVE  \E f : Grows(plan, f)
<1> DEFINE f == [groups \in SUBSET Groups(plan) |-> Least(plan, groups)]
<1>1. ASSUME NEW groups \in SUBSET Groups(plan)
      PROVE  f[groups] = IF Needs(plan, groups) \subseteq groups THEN groups
                         ELSE f[groups \cup Needs(plan, groups)]
  <2>1. groups \cup Needs(plan, groups) \in SUBSET Groups(plan)
    BY NeedsOfEach
  <2> QED
    BY <2>1, LeastOfGrown, LeastOfWhole DEF Whole
<1>2. f = [groups \in SUBSET Groups(plan) |->
             IF Needs(plan, groups) \subseteq groups THEN groups
             ELSE f[groups \cup Needs(plan, groups)]]
  BY <1>1
<1> HIDE DEF f
<1> QED
  BY <1>2, Zenon DEF Grows

LEMMA GrowUnique ==
  ASSUME NEW plan, IsFiniteSet(Groups(plan)), NEW f, Grows(plan, f),
         NEW groups \in SUBSET Groups(plan)
  PROVE  f[groups] = Least(plan, groups)
<1> DEFINE all == Groups(plan)
           Grown(S) == S \cup Needs(plan, S)
           wrong == {rest \in SUBSET all : f[all \ rest] # Least(plan, all \ rest)}
<1>1. SUFFICES ASSUME all \ groups \in wrong PROVE FALSE
  <2>1. all \ (all \ groups) = groups /\ all \ groups \in SUBSET all
    OBVIOUS
  <2> QED
    BY <2>1
<1>2. PICK rest \in wrong : \A other \in wrong : ~(other \subseteq rest /\ other # rest)
  <2>1. wrong \in SUBSET SUBSET all
    OBVIOUS
  <2> HIDE DEF wrong
  <2> QED
    BY <1>1, <2>1, SmallestSet
<1> DEFINE bad == all \ rest
<1>3. bad \in SUBSET all /\ f[bad] # Least(plan, bad)
  BY <1>2
<1>4. f[bad] = IF Needs(plan, bad) \subseteq bad THEN bad ELSE f[Grown(bad)]
  BY <1>3 DEF Grows
<1>5. CASE Needs(plan, bad) \subseteq bad
  BY <1>3, <1>4, <1>5, LeastOfWhole DEF Whole
<1>6. CASE ~(Needs(plan, bad) \subseteq bad)
  <2>1. Needs(plan, bad) \subseteq all
    BY NeedsOfEach
  <2>2. all \ Grown(bad) \subseteq rest /\ all \ Grown(bad) # rest
    BY <1>2, <1>6, <2>1
  <2>3. all \ (all \ Grown(bad)) = Grown(bad)
    BY <1>3, <2>1
  <2>4. all \ Grown(bad) \notin wrong /\ all \ Grown(bad) \in SUBSET all
    BY <1>2, <2>2
  <2>5. f[Grown(bad)] = Least(plan, Grown(bad))
    BY <2>3, <2>4
  <2> QED
    BY <2>5, <1>3, <1>4, <1>6, LeastOfGrown
<1> QED
  BY <1>5, <1>6

\* What expand_selection completes some statements to: the least groups around theirs
\* that lack nothing.
THEOREM ExpandLeast ==
  ASSUME NEW plan, IsFiniteSet(Groups(plan)), NEW chosen \in SUBSET plan.items
  PROVE  Expand(plan, chosen) = ItemsOf(plan, Least(plan, GroupsOf(plan, chosen)))
<1> DEFINE grow == CHOOSE f : Grows(plan, f)
<1>1. Grows(plan, grow)
  BY GrowExists
<1>2. Expand(plan, chosen) = ItemsOf(plan, grow[GroupsOf(plan, chosen)])
  BY Zenon DEF Expand, Grows
<1>3. GroupsOf(plan, chosen) \in SUBSET Groups(plan)
  BY DEF GroupsOf, Groups
<1> HIDE DEF grow
<1> QED
  BY <1>1, <1>2, <1>3, GrowUnique

-----------------------------------------------------------------------------
(* Selections.                                                             *)

LEMMA GreatestIsWhole ==
  ASSUME NEW plan, NEW groups
  PROVE  Whole(plan, Greatest(plan, groups)) /\ Greatest(plan, groups) \subseteq groups
<1>1. ASSUME NEW g \in Greatest(plan, groups)
      PROVE  Needs(plan, {g}) \subseteq Greatest(plan, groups)
  <2>1. PICK some \in SUBSET groups : g \in some /\ Whole(plan, some)
    BY DEF Greatest
  <2>2. Needs(plan, {g}) \subseteq some
    BY <2>1, WholeByEach
  <2> QED
    BY <2>1, <2>2 DEF Greatest
<1> QED
  BY <1>1, WholeByEach DEF Greatest

LEMMA LeastIsWhole ==
  ASSUME NEW plan, NEW groups \in SUBSET Groups(plan)
  PROVE  Whole(plan, Least(plan, groups)) /\ groups \subseteq Least(plan, groups)
<1>1. ASSUME NEW g \in Least(plan, groups), NEW n \in Needs(plan, {g}),
             NEW more \in SUBSET Groups(plan), groups \subseteq more, Whole(plan, more)
      PROVE  n \in more
  BY <1>1, WholeByEach DEF Least
<1>2. \A g \in Least(plan, groups) : Needs(plan, {g}) \subseteq Groups(plan)
  BY NeedsOfEach
<1>3. \A g \in Least(plan, groups) : Needs(plan, {g}) \subseteq Least(plan, groups)
  BY <1>1, <1>2 DEF Least
<1> QED
  BY <1>3, WholeByEach DEF Least

\* expand_selection: the least selection that holds the chosen statements, with whole
\* changes and all they need.
THEOREM ExpandIsLeastClosed ==
  ASSUME NEW plan, IsFiniteSet(Groups(plan)), NEW chosen \in SUBSET plan.items
  PROVE  /\ Expand(plan, chosen) \in SUBSET plan.items
         /\ Closed(plan, Expand(plan, chosen))
         /\ chosen \subseteq Expand(plan, chosen)
         /\ \A other \in SUBSET plan.items :
              Closed(plan, other) /\ chosen \subseteq other => Expand(plan, chosen) \subseteq other
<1> DEFINE G == GroupsOf(plan, chosen)
           L == Least(plan, G)
<1>1. Expand(plan, chosen) = ItemsOf(plan, L)
  BY ExpandLeast
<1>2. G \in SUBSET Groups(plan) /\ L \in SUBSET Groups(plan)
  BY DEF GroupsOf, Groups, Least
<1>3. Whole(plan, L) /\ G \subseteq L
  BY <1>2, LeastIsWhole
<1>4. chosen \subseteq ItemsOf(plan, L)
  BY <1>3 DEF ItemsOf, GroupsOf
<1>5. ASSUME NEW other \in SUBSET plan.items, Closed(plan, other), chosen \subseteq other
      PROVE  ItemsOf(plan, L) \subseteq other
  <2>1. /\ Whole(plan, GroupsOf(plan, other))
        /\ ItemsOf(plan, GroupsOf(plan, other)) = other
        /\ GroupsOf(plan, other) \in SUBSET Groups(plan)
    BY <1>5, ClosedGives
  <2>2. G \subseteq GroupsOf(plan, other)
    BY <1>5 DEF GroupsOf
  <2>3. L \subseteq GroupsOf(plan, other)
    BY <2>1, <2>2 DEF Least
  <2>4. ItemsOf(plan, L) \subseteq ItemsOf(plan, GroupsOf(plan, other))
    BY <2>3 DEF ItemsOf
  <2> QED
    BY <2>1, <2>4
<1> HIDE DEF G, L
<1>6. ItemsOf(plan, L) \in SUBSET plan.items /\ Closed(plan, ItemsOf(plan, L))
  BY <1>2, <1>3, ItemsGroups, ClosedIsWhole
<1> QED
  BY <1>1, <1>4, <1>5, <1>6

\* prune_unsatisfied: a selection with whole changes and all they need; and when the
\* statements it was given are whole changes, the greatest one among them.
THEOREM PruneIsGreatestClosed ==
  ASSUME NEW plan, IsFiniteSet(Groups(plan)), NEW allowed \in SUBSET plan.items
  PROVE  /\ Prune(plan, allowed) \in SUBSET plan.items
         /\ Closed(plan, Prune(plan, allowed))
         /\ \A other \in SUBSET plan.items :
              Closed(plan, other) /\ other \subseteq allowed => other \subseteq Prune(plan, allowed)
<1> DEFINE G == GroupsOf(plan, allowed)
           M == Greatest(plan, G)
<1>1. Prune(plan, allowed) = ItemsOf(plan, M)
  BY PruneGreatest
<1>2. Whole(plan, M) /\ M \subseteq G
  BY GreatestIsWhole
<1>3. G \in SUBSET Groups(plan)
  BY DEF GroupsOf, Groups
<1>4. ASSUME NEW other \in SUBSET plan.items, Closed(plan, other), other \subseteq allowed
      PROVE  other \subseteq ItemsOf(plan, M)
  <2>1. /\ Whole(plan, GroupsOf(plan, other))
        /\ ItemsOf(plan, GroupsOf(plan, other)) = other
    BY <1>4, ClosedGives
  <2>2. GroupsOf(plan, other) \subseteq G
    BY <1>4 DEF GroupsOf
  <2>3. GroupsOf(plan, other) \subseteq M
    BY <2>1, <2>2 DEF Greatest
  <2>4. ItemsOf(plan, GroupsOf(plan, other)) \subseteq ItemsOf(plan, M)
    BY <2>3 DEF ItemsOf
  <2> QED
    BY <2>1, <2>4
<1> HIDE DEF G, M
<1>5. M \in SUBSET Groups(plan)
  BY <1>2, <1>3
<1>6. ItemsOf(plan, M) \in SUBSET plan.items /\ Closed(plan, ItemsOf(plan, M))
  BY <1>2, <1>5, ItemsGroups, ClosedIsWhole
<1> QED
  BY <1>1, <1>4, <1>6

-----------------------------------------------------------------------------
(* The inductive invariant.                                                *)

Tried(r) == {request[r].todo[k] : k \in DOMAIN request[r].todo}
Executing(r) == request[r].at \in {"drift", "lock", "run"}

\* The state of the inventory a request read gives it its key, which it holds while it
\* runs.
Keys ==
  /\ row.id \in {0, epoch}
  /\ \A r \in Requests : Executing(r) =>
       /\ request[r].seen <= epoch
       /\ request[r].seen = epoch => request[r].key = row.id
       /\ \A s \in Requests : Executing(s) /\ request[s].seen = request[r].seen =>
            request[s].key = request[r].key
  /\ \A r \in Requests : request[r].at = "run" => lock[request[r].key] = r

\* A comparison has what was missing when it was made, and is made once.
Snapshots ==
  /\ \A c \in Comparisons : comparison[c].status # "none" =>
       /\ comparison[c].base.done \subseteq done
       /\ comparison[c].items = Statements \ comparison[c].base.done
  /\ \A r \in Requests : request[r].at = "compare" =>
       /\ comparison[request[r].on].status = "none" /\ request[r].base.done \subseteq done
       /\ \A s \in Requests : request[s].at = "compare" /\ request[s].on = request[r].on => s = r

\* What an execution sends: a closed and sane part of its plan, in order.
Sound(plan, todo) ==
  LET tried == {todo[k] : k \in DOMAIN todo} IN
  /\ \A j, k \in DOMAIN todo : j < k => todo[j] < todo[k]
  /\ tried \subseteq plan.items /\ Closed(plan, tried) /\ Sane(plan, tried)
Planned ==
  \A r \in Requests : Executing(r) =>
    /\ comparison[request[r].on].status # "none"
    /\ request[r].base = comparison[request[r].on].base
    /\ Sound(PlanOf(request[r].on), request[r].todo)

\* What it noted of what it sent.
Noted ==
  \A r \in Requests :
    /\ request[r].at \notin {"run", "record"} => request[r].ran = <<>>
    /\ Len(request[r].ran) <= Len(request[r].todo)
    /\ \A k \in DOMAIN request[r].ran :
         request[r].ran[k] = "applied" => request[r].todo[k] \in done

\* Whoever was not overtaken finds the structure of its comparison and what it sent.
Found(r) ==
  ~request[r].overtaken =>
    /\ request[r].at = "lock" => done = request[r].base.done
    /\ request[r].at = "run" =>
         \A s \in done \ request[r].base.done :
           \E k \in DOMAIN request[r].ran : s = request[r].todo[k]
Untouched == \A r \in Requests : Found(r)

Inv == TypeOK /\ Keys /\ Snapshots /\ Planned /\ Noted /\ Untouched /\ ResultsTrue

-----------------------------------------------------------------------------
(* The order of statements.                                                *)

\* Place n of an order is of the statement that n - 1 others come before: there is one,
\* and later places have later statements.
LEMMA InOrderSorts ==
  ASSUME NEW items \in SUBSET Nat, IsFiniteSet(items)
  PROVE  /\ InOrder(items) \in Seq(items)
         /\ {InOrder(items)[k] : k \in DOMAIN InOrder(items)} = items
         /\ \A j, k \in DOMAIN InOrder(items) : j < k => InOrder(items)[j] < InOrder(items)[k]
<1> DEFINE size == Cardinality(items)
           before(i) == {j \in items : j < i}
           below == [i \in items |-> Cardinality(before(i))]
           places == 0..(size - 1)
           order == InOrder(items)
<1>1. size \in Nat
  BY FS_CardinalityType
<1>2. \A i \in items : IsFiniteSet(before(i)) /\ Cardinality(before(i)) \in Nat
  BY FS_Subset, FS_CardinalityType
<1>3. \A i \in items : Cardinality(before(i)) < size
  <2>1. TAKE i \in items
  <2>2. before(i) \in SUBSET items /\ before(i) # items
    OBVIOUS
  <2> QED
    BY <2>2, <1>1, <1>2, FS_Subset
<1>4. below \in [items -> places]
  BY <1>1, <1>2, <1>3
<1>5. \A i, j \in items : i < j => below[i] < below[j]
  <2>1. SUFFICES ASSUME NEW i \in items, NEW j \in items, i < j
        PROVE Cardinality(before(i)) < Cardinality(before(j))
    OBVIOUS
  <2>2. i \in Nat /\ j \in Nat
    OBVIOUS
  <2>3. before(i) \subseteq before(j)
    <3>1. ASSUME NEW x \in items, x < i PROVE x < j
      <4>1. x \in Nat
        OBVIOUS
      <4> QED
        BY <2>1, <2>2, <3>1, <4>1
    <3> QED
      BY <3>1
  <2>4. i \in before(j) /\ i \notin before(i)
    BY <2>1, <2>2
  <2> HIDE DEF before
  <2> QED
    BY <2>3, <2>4, <1>2, FS_Subset
<1>6. /\ order = [n \in 1..size |-> CHOOSE i \in items : Cardinality(before(i)) = n - 1]
      /\ \A i \in items : below[i] = Cardinality(before(i))
  BY DEF InOrder
<1> HIDE DEF before, below, order
<1>7. \A i, j \in items : below[i] = below[j] => i = j
  <2>1. SUFFICES ASSUME NEW i \in items, NEW j \in items, below[i] = below[j], i # j PROVE FALSE
    OBVIOUS
  <2>2. i \in Nat /\ j \in Nat /\ below[i] \in places /\ below[j] \in places
    BY <1>4
  <2>3. i < j \/ j < i
    BY <2>1, <2>2
  <2> QED
    BY <1>1, <1>5, <2>1, <2>2, <2>3
<1>8. below \in Surjection(items, places)
  <2>1. IsFiniteSet(places) /\ Cardinality(places) = size
    <3>1. 0 \in Int /\ size - 1 \in Int
      BY <1>1
    <3> QED
      BY <3>1, <1>1, FS_Interval
  <2>2. below \in Injection(items, places)
    BY <1>4, <1>7 DEF Injection, IsInjective
  <2> QED
    BY <2>1, <2>2, FS_Injection
<1>9. \A n \in 1..size : order[n] \in items /\ below[order[n]] = n - 1
  <2>1. TAKE n \in 1..size
  <2>2. n - 1 \in places
    BY <1>1
  <2>3. \E i \in items : Cardinality(before(i)) = n - 1
    BY <2>2, <1>6, <1>8 DEF Surjection
  <2> QED
    BY <2>3, <1>6
<1>10. order \in Seq(items) /\ DOMAIN order = 1..size
  <2>1. order \in [1..size -> items]
    BY <1>6, <1>9
  <2> QED
    BY <2>1, <1>1
<1>11. \A i \in items : \E n \in 1..size : order[n] = i
  <2>1. TAKE i \in items
  <2>2. below[i] \in places
    BY <1>4
  <2>3. below[i] + 1 \in 1..size /\ (below[i] + 1) - 1 = below[i]
    BY <2>2, <1>1
  <2>4. order[below[i] + 1] = i
    BY <2>3, <1>7, <1>9
  <2> QED
    BY <2>3, <2>4
<1>12. \A j, k \in 1..size : j < k => order[j] < order[k]
  <2>1. SUFFICES ASSUME NEW j \in 1..size, NEW k \in 1..size, j < k, ~(order[j] < order[k])
        PROVE  FALSE
    OBVIOUS
  <2>2. order[j] \in Nat /\ order[k] \in Nat /\ order[j] \in items /\ order[k] \in items
    BY <1>9
  <2>3. order[k] < order[j] \/ order[k] = order[j]
    BY <2>1, <2>2
  <2>4. below[order[j]] = j - 1 /\ below[order[k]] = k - 1
    BY <1>9
  <2> QED
    BY <1>1, <1>5, <2>1, <2>2, <2>3, <2>4
<1> QED
  BY <1>9, <1>10, <1>11, <1>12 DEF order

-----------------------------------------------------------------------------
(* Plans of comparisons.                                                   *)

LEMMA StatementsFinite ==
  ASSUME TypeOK
  PROVE  /\ IsFiniteSet(Statements) /\ Statements \subseteq Nat
         /\ \A i \in Statements : difference.of[i] \notin difference.needs[difference.of[i]]
BY DifferencesAssumption DEF TypeOK, Statements

LEMMA GroupsFinite ==
  ASSUME NEW plan, IsFiniteSet(plan.items)
  PROVE  IsFiniteSet(Groups(plan))
<1> DEFINE f == [i \in plan.items |-> plan.of[i]]
<1>1. f \in Surjection(plan.items, Groups(plan))
  BY DEF Surjection, Groups, GroupsOf
<1> QED
  BY <1>1, FS_Surjection

LEMMA PlanParts ==
  ASSUME NEW c \in Comparisons
  PROVE  /\ PlanOf(c).items = comparison[c].items /\ PlanOf(c).of = difference.of
         /\ PlanOf(c).needs = difference.needs /\ PlanOf(c).creates = difference.creates
BY DEF PlanOf

\* Whatever the mode, the statements of an execution are a closed part of its comparison's.
LEMMA ResolvedClosed ==
  ASSUME TypeOK, NEW c \in Comparisons, NEW mode, NEW selected \in SUBSET comparison[c].items,
         mode = "custom" => Closed(PlanOf(c), selected)
  PROVE  /\ Resolved(c, mode, selected) \in SUBSET comparison[c].items
         /\ Closed(PlanOf(c), Resolved(c, mode, selected))
<1>1. IsFiniteSet(comparison[c].items)
  BY StatementsFinite, FS_Subset DEF TypeOK, Comparison
<1>2. IsFiniteSet(Groups(PlanOf(c)))
  BY <1>1, PlanParts, GroupsFinite
<1>3. Allowed(c, mode) \in SUBSET PlanOf(c).items
  BY PlanParts DEF Allowed
<1> QED
  BY <1>2, <1>3, PlanParts, PruneIsGreatestClosed DEF Resolved

LEMMA ResolvedInOrder ==
  ASSUME TypeOK, NEW c \in Comparisons, NEW items \in SUBSET comparison[c].items
  PROVE  /\ InOrder(items) \in Seq(items) /\ InOrder(items) \in Seq(Statements)
         /\ {InOrder(items)[k] : k \in DOMAIN InOrder(items)} = items
         /\ \A j, k \in DOMAIN InOrder(items) : j < k => InOrder(items)[j] < InOrder(items)[k]
<1>1. items \in SUBSET Statements /\ items \in SUBSET Nat /\ IsFiniteSet(items)
  BY StatementsFinite, FS_Subset DEF TypeOK, Comparison
<1>2. InOrder(items) \in Seq(items)
  BY <1>1, InOrderSorts
<1>3. InOrder(items) \in Seq(Statements)
  <2> DEFINE order == InOrder(items)
  <2> HIDE DEF order
  <2>1. Len(order) \in Nat /\ order \in [1..Len(order) -> items]
    BY <1>2 DEF order
  <2>2. order \in [1..Len(order) -> Statements]
    BY <1>1, <2>1
  <2>3. order \in Seq(Statements)
    BY <2>1, <2>2
  <2> QED
    BY <2>3 DEF order
<1> QED
  BY <1>1, <1>2, <1>3, InOrderSorts

LEMMA IdleTyped ==
  /\ Idle \in Request
  /\ Idle.at = "idle" /\ Idle.ran = <<>> /\ Idle.todo = <<>> /\ Idle.overtaken = FALSE
BY NamesAssumption, BoundsAssumption DEF Idle, Request, Structures

-----------------------------------------------------------------------------
(* Init and every step preserve it.                                        *)

\* The differences never change, and what is in effect stays.
LEMMA DifferenceStays ==
  ASSUME [Next]_vars
  PROVE  difference' = difference /\ done \subseteq done'
<1>1. ASSUME NEW r \in Requests, Run(r) \/ RunLost(r)
      PROVE  difference' = difference /\ done \subseteq done'
  BY <1>1 DEF Run, RunLost
<1>2. ASSUME NEW r \in Requests,
             \/ Compare(r) \/ Refuse(r) \/ CheckDrift(r) \/ AcquireLock(r)
             \/ RunFails(r) \/ ReleaseLock(r) \/ Record(r)
      PROVE  difference' = difference /\ done' = done
  BY <1>2 DEF Compare, Refuse, CheckDrift, AcquireLock, RunFails, ReleaseLock, Record
<1>3. ASSUME NEW r \in Requests, NEW c \in Comparisons, NEW mode, NEW selected,
             BeginCompare(r, c) \/ BeginExecute(r, c, mode, selected)
      PROVE  difference' = difference /\ done' = done
  BY <1>3 DEF BeginCompare, BeginExecute
<1>4. CASE Crash \/ Register \/ Reassign \/ Unregister \/ Alter \/ UNCHANGED vars
  BY <1>4 DEF Crash, Register, Reassign, Unregister, Alter, vars
<1> QED
  BY <1>1, <1>2, <1>3, <1>4 DEF Next

\* Few steps write the comparisons.
LEMMA ComparisonsSame ==
  ASSUME [Next]_vars
  PROVE  \/ comparison' = comparison \/ Unregister
         \/ \E r \in Requests : Compare(r) \/ Record(r)
<1>1. ASSUME NEW r \in Requests,
             \/ Refuse(r) \/ CheckDrift(r) \/ AcquireLock(r) \/ Run(r)
             \/ RunFails(r) \/ RunLost(r) \/ ReleaseLock(r)
      PROVE  comparison' = comparison
  BY <1>1 DEF Refuse, CheckDrift, AcquireLock, Run, RunFails, RunLost, ReleaseLock
<1>2. ASSUME NEW r \in Requests, NEW c \in Comparisons, NEW mode, NEW selected,
             BeginCompare(r, c) \/ BeginExecute(r, c, mode, selected)
      PROVE  comparison' = comparison
  BY <1>2 DEF BeginCompare, BeginExecute
<1>3. CASE Crash \/ Register \/ Reassign \/ Alter \/ UNCHANGED vars
  BY <1>3 DEF Crash, Register, Reassign, Alter, vars
<1> QED
  BY <1>1, <1>2, <1>3 DEF Next

LEMMA TypesStay ==
  ASSUME [Next]_vars
  PROVE  /\ difference' = difference /\ Statements' = Statements
         /\ Comparison' = Comparison /\ Request' = Request
BY DifferenceStays DEF Statements, Structures, Comparison, Request

LEMMA ComparisonTyped ==
  ASSUME TypeOK, NEW c \in Comparisons
  PROVE  /\ comparison[c] \in Comparison /\ comparison[c].base \in Structures
         /\ comparison[c].status \in {"none", "live", "gone"}
         /\ comparison[c].items \in SUBSET Statements
         /\ comparison[c].result \in [Statements -> Results]
BY DEF TypeOK, Comparison

LEMMA RequestTyped ==
  ASSUME TypeOK, NEW r \in Requests
  PROVE  /\ request[r] \in Request /\ request[r].base \in Structures
         /\ request[r].on \in Comparisons /\ request[r].overtaken \in BOOLEAN
         /\ request[r].key \in 0..MaxEpoch /\ request[r].seen \in 0..MaxEpoch
         /\ request[r].todo \in Seq(Statements) /\ request[r].ran \in Seq({"applied", "failed"})
         /\ Len(request[r].todo) \in Nat /\ Len(request[r].ran) \in Nat
         /\ DOMAIN request[r].todo = 1..Len(request[r].todo)
         /\ DOMAIN request[r].ran = 1..Len(request[r].ran)
BY DEF TypeOK, Request

LEMMA StructureTyped ==
  ASSUME TypeOK
  PROVE  Structure \in Structures
BY DEF TypeOK, Structure, Structures

\* What the two updates of a request keep.
LEMMA StandTyped ==
  ASSUME TypeOK, NEW r \in Requests, NEW place \in Request, Stand(r, place)
  PROVE  request' \in [Requests -> Request]
BY DEF TypeOK, Stand

LEMMA RanEffect ==
  ASSUME TypeOK, NEW r \in Requests, NEW result \in {"applied", "failed"}, NEW effect \in BOOLEAN,
         Ran(r, result, effect)
  PROVE  /\ request' \in [Requests -> Request]
         /\ request'[r] = [request[r] EXCEPT !.ran = Append(request[r].ran, result)]
         /\ \A s \in Requests \ {r} :
              request'[s] = [request[s] EXCEPT !.overtaken = @ \/ (effect /\ Overtaken(r, s))]
<1>1. \A s \in Requests : Overtaken(r, s) \in BOOLEAN
  BY DEF Overtaken
<1>2. [request[r] EXCEPT !.ran = Append(request[r].ran, result)] \in Request
  <2>1. Append(request[r].ran, result) \in Seq({"applied", "failed"})
    BY RequestTyped
  <2> QED
    BY <2>1, RequestTyped DEF Request
<1>3. \A s \in Requests : [request[s] EXCEPT !.overtaken = @ \/ (effect /\ Overtaken(r, s))] \in Request
  <2>1. TAKE s \in Requests
  <2>2. PICK w \in BOOLEAN : w = (request[s].overtaken \/ (effect /\ Overtaken(r, s)))
    BY <1>1, RequestTyped
  <2>3. [request[s] EXCEPT !.overtaken = w] \in Request
    BY RequestTyped DEF Request
  <2> QED
    BY <2>2, <2>3
<1> QED
  BY <1>2, <1>3 DEF Ran

\* A request that begins, and the later updates of one.
LEMMA BeginsTyped ==
  ASSUME TypeOK, NEW c \in Comparisons, NEW base \in Structures, NEW todo \in Seq(Statements)
  PROVE  /\ [Idle EXCEPT !.at = "compare", !.on = c, !.key = row.id, !.base = base] \in Request
         /\ [Idle EXCEPT !.at = "drift", !.on = c, !.key = row.id, !.seen = epoch,
                         !.base = base, !.todo = todo] \in Request
<1>1. row.id \in 0..MaxEpoch /\ epoch \in 0..MaxEpoch /\ 0 \in 0..MaxEpoch
  BY BoundsAssumption DEF TypeOK
<1>2. Idle \in Request
  BY IdleTyped
<1>3. [Idle EXCEPT !.at = "compare", !.on = c, !.key = row.id, !.base = base] \in Request
  BY <1>1, <1>2 DEF Request
<1>4. [Idle EXCEPT !.at = "drift", !.on = c, !.key = row.id, !.seen = epoch, !.base = base,
                   !.todo = todo] \in Request
  BY <1>1, <1>2 DEF Request
<1> QED
  BY <1>3, <1>4

LEMMA MovedTyped ==
  ASSUME TypeOK, NEW r \in Requests, NEW at \in {"lock", "run", "record"}
  PROVE  [request[r] EXCEPT !.at = at] \in Request
BY RequestTyped DEF Request

LEMMA NextTyped ==
  ASSUME TypeOK, NEW r \in Requests, Sending(r)
  PROVE  /\ NextStatement(r) \in Statements /\ Sent(r) + 1 \in DOMAIN request[r].todo
         /\ Sent(r) = Len(request[r].ran)
BY RequestTyped DEF Sending, NextStatement, Sent

LEMMA NewComparison ==
  ASSUME TypeOK, NEW r \in Requests, Compare(r)
  PROVE  comparison' \in [Comparisons -> Comparison]
<1> DEFINE new == [status |-> "live", target |-> request[r].key, base |-> request[r].base,
                   items |-> Statements \ request[r].base.done,
                   result |-> [s \in Statements |-> "none"]]
<1>1. [s \in Statements |-> "none"] \in [Statements -> Results]
  BY DEF Results
<1>2. new \in Comparison
  BY <1>1, RequestTyped DEF Comparison
<1>3. comparison' = comparison \/ comparison' = [comparison EXCEPT ![request[r].on] = new]
  BY DEF Compare
<1> HIDE DEF new
<1> QED
  BY <1>2, <1>3 DEF TypeOK

\* The result of a statement of an execution is what was noted of it, or that it was not
\* sent.
LEMMA ResultNoted ==
  ASSUME TypeOK, NEW r \in Requests, NEW s \in Tried(r)
  PROVE  \/ ResultOf(r, s) = "skipped"
         \/ \E k \in DOMAIN request[r].todo :
              /\ request[r].todo[k] = s /\ k \in DOMAIN request[r].ran
              /\ ResultOf(r, s) = request[r].ran[k]
<1> DEFINE k == CHOOSE k \in DOMAIN request[r].todo : request[r].todo[k] = s
<1>1. k \in DOMAIN request[r].todo /\ request[r].todo[k] = s
  BY DEF Tried
<1>2. k <= Sent(r) => k \in DOMAIN request[r].ran
  BY <1>1, RequestTyped DEF Sent
<1> QED
  BY <1>1, <1>2 DEF ResultOf

LEMMA RecordEffect ==
  ASSUME TypeOK, NEW r \in Requests, Record(r)
  PROVE  /\ comparison' \in [Comparisons -> Comparison]
         /\ \A c \in Comparisons :
              /\ comparison'[c].status = comparison[c].status
              /\ comparison'[c].base = comparison[c].base
              /\ comparison'[c].items = comparison[c].items
              /\ \A s \in Statements :
                   \/ comparison'[c].result[s] = comparison[c].result[s]
                   \/ comparison'[c].result[s] = "skipped"
                   \/ \E k \in DOMAIN request[r].todo :
                        /\ request[r].todo[k] = s /\ k \in DOMAIN request[r].ran
                        /\ comparison'[c].result[s] = request[r].ran[k]
<1> DEFINE c == request[r].on
           result == [s \in Statements |-> IF s \in Tried(r) THEN ResultOf(r, s)
                                           ELSE comparison[c].result[s]]
           new == [comparison[c] EXCEPT !.result = result]
<1>1. c \in Comparisons /\ comparison[c] \in Comparison /\ comparison[c].result \in [Statements -> Results]
  BY RequestTyped, ComparisonTyped
<1>2. \A k \in DOMAIN request[r].ran : request[r].ran[k] \in {"applied", "failed"}
  BY RequestTyped
<1>3. result \in [Statements -> Results]
  BY <1>1, <1>2, ResultNoted DEF Results
<1>4. comparison' = comparison \/ comparison' = [comparison EXCEPT ![c] = new]
  BY DEF Record, Tried
<1>5. \A s \in Statements :
        \/ result[s] = comparison[c].result[s] \/ result[s] = "skipped"
        \/ \E k \in DOMAIN request[r].todo :
             request[r].todo[k] = s /\ k \in DOMAIN request[r].ran /\ result[s] = request[r].ran[k]
  BY ResultNoted
<1> HIDE DEF result
<1>6. /\ new \in Comparison /\ new.result = result /\ new.status = comparison[c].status
      /\ new.base = comparison[c].base /\ new.items = comparison[c].items
  BY <1>1, <1>3 DEF Comparison
<1> HIDE DEF new, c
<1> QED
  BY <1>1, <1>4, <1>5, <1>6 DEF TypeOK

\* Every step keeps the types.
LEMMA TypeStep ==
  ASSUME TypeOK, [Next]_vars
  PROVE  TypeOK'
<1> USE TypesStay DEF TypeOK
<1>1. ASSUME NEW r \in Requests, Compare(r) PROVE TypeOK'
  <2>1. request' \in [Requests -> Request]
    BY <1>1, IdleTyped, StandTyped DEF Compare, Leave
  <2> QED
    BY <1>1, <2>1, NewComparison DEF Compare
<1>2. ASSUME NEW r \in Requests, Refuse(r) PROVE TypeOK'
  <2>1. request' \in [Requests -> Request]
    BY <1>2, IdleTyped, StandTyped DEF Refuse, Leave
  <2> QED
    BY <1>2, <2>1 DEF Refuse
<1>3. ASSUME NEW r \in Requests, NEW c \in Comparisons, BeginCompare(r, c) PROVE TypeOK'
  <2>1. <<>> \in Seq(Statements)
    OBVIOUS
  <2>2. [Idle EXCEPT !.at = "compare", !.on = c, !.key = row.id, !.base = Structure] \in Request
    BY <2>1, BeginsTyped, StructureTyped
  <2>3. request' \in [Requests -> Request]
    BY <1>3, <2>2, StandTyped DEF BeginCompare
  <2> QED
    BY <1>3, <2>3 DEF BeginCompare
<1>4. ASSUME NEW r \in Requests, NEW c \in Comparisons, NEW mode \in {"all",
         "all_except_destructive", "custom"}, NEW selected \in SUBSET comparison[c].items,
         BeginExecute(r, c, mode, selected) PROVE TypeOK'
  <2>1. InOrder(Resolved(c, mode, selected)) \in Seq(Statements)
    BY <1>4, ResolvedClosed, ResolvedInOrder DEF BeginExecute
  <2>2. request' \in [Requests -> Request]
    BY <1>4, <2>1, BeginsTyped, ComparisonTyped, StandTyped DEF BeginExecute
  <2> QED
    BY <1>4, <2>2 DEF BeginExecute
<1>5. ASSUME NEW r \in Requests, CheckDrift(r) PROVE TypeOK'
  <2>1. request' \in [Requests -> Request]
    BY <1>5, IdleTyped, MovedTyped, StandTyped DEF CheckDrift, Leave
  <2> QED
    BY <1>5, <2>1 DEF CheckDrift
<1>6. ASSUME NEW r \in Requests, AcquireLock(r) PROVE TypeOK'
  <2>1. request' \in [Requests -> Request]
    BY <1>6, MovedTyped, StandTyped DEF AcquireLock
  <2> QED
    BY <1>6, <2>1, RequestTyped DEF AcquireLock
<1>7. ASSUME NEW r \in Requests, Run(r) PROVE TypeOK'
  <2>1. request' \in [Requests -> Request]
    BY <1>7, RanEffect DEF Run
  <2> QED
    BY <1>7, <2>1, NextTyped DEF Run
<1>8. ASSUME NEW r \in Requests, RunFails(r) PROVE TypeOK'
  <2>1. request' \in [Requests -> Request]
    BY <1>8, RanEffect DEF RunFails
  <2> QED
    BY <1>8, <2>1 DEF RunFails
<1>9. ASSUME NEW r \in Requests, RunLost(r) PROVE TypeOK'
  <2>1. request' \in [Requests -> Request]
    BY <1>9, RanEffect DEF RunLost
  <2> QED
    BY <1>9, <2>1, NextTyped DEF RunLost
<1>10. ASSUME NEW r \in Requests, ReleaseLock(r) PROVE TypeOK'
  <2>1. request' \in [Requests -> Request]
    BY <1>10, MovedTyped, StandTyped DEF ReleaseLock
  <2> QED
    BY <1>10, <2>1, RequestTyped DEF ReleaseLock
<1>11. ASSUME NEW r \in Requests, Record(r) PROVE TypeOK'
  <2>1. request' \in [Requests -> Request]
    BY <1>11, IdleTyped, StandTyped DEF Record, Leave
  <2> QED
    BY <1>11, <2>1, RecordEffect DEF Record
<1>12. ASSUME Crash PROVE TypeOK'
  <2>1. request' \in [Requests -> Request]
    BY <1>12, IdleTyped DEF Crash
  <2> QED
    BY <1>12, <2>1 DEF Crash
<1>13. ASSUME Register PROVE TypeOK'
  BY <1>13, BoundsAssumption DEF Register
<1>14. ASSUME Reassign PROVE TypeOK'
  BY <1>14 DEF Reassign
<1>15. ASSUME Unregister PROVE TypeOK'
  <2>1. \A c \in Comparisons :
          comparison[c] \in Comparison /\ [comparison[c] EXCEPT !.status = "gone"] \in Comparison
    BY ComparisonTyped DEF Comparison
  <2>2. comparison' \in [Comparisons -> Comparison]
    BY <1>15, <2>1 DEF Unregister
  <2> QED
    BY <1>15, <2>2, BoundsAssumption DEF Unregister, NoRow
<1>16. ASSUME Alter PROVE TypeOK'
  BY <1>16, BoundsAssumption DEF Alter
<1>17. CASE UNCHANGED vars
  BY <1>17 DEF vars
<1> HIDE DEF TypeOK
<1> QED
  BY <1>1, <1>2, <1>3, <1>4, <1>5, <1>6, <1>7, <1>8, <1>9, <1>10, <1>11, <1>12, <1>13, <1>14,
    <1>15, <1>16, <1>17 DEF Next

-----------------------------------------------------------------------------
(* What the steps do to the fields of a request.                           *)

Others(r) == \A s \in Requests \ {r} : request'[s] = request[s]

LEMMA LeaveFields ==
  ASSUME TypeOK, NEW r \in Requests, Leave(r)
  PROVE  /\ request'[r].at = "idle" /\ request'[r].ran = <<>> /\ request'[r].todo = <<>>
         /\ request'[r].overtaken = FALSE /\ Others(r)
BY IdleTyped DEF TypeOK, Leave, Stand, Others

LEMMA BeginCompareFields ==
  ASSUME TypeOK, NEW r \in Requests, NEW c \in Comparisons, BeginCompare(r, c)
  PROVE  /\ request'[r].at = "compare" /\ request'[r].on = c /\ request'[r].base = Structure
         /\ request'[r].ran = <<>> /\ request'[r].todo = <<>>
         /\ request'[r].overtaken = FALSE /\ Others(r)
<1>1. PICK new : new = [Idle EXCEPT !.at = "compare", !.on = c, !.key = row.id, !.base = Structure]
  OBVIOUS
<1>2. /\ new.at = "compare" /\ new.on = c /\ new.base = Structure /\ new.ran = <<>>
      /\ new.todo = <<>> /\ new.overtaken = FALSE
  BY <1>1, IdleTyped DEF Request
<1>3. Stand(r, new)
  BY <1>1 DEF BeginCompare
<1> QED
  BY <1>2, <1>3 DEF TypeOK, Stand, Others

LEMMA BeginExecuteFields ==
  ASSUME TypeOK, NEW r \in Requests, NEW c \in Comparisons, NEW mode, NEW selected,
         BeginExecute(r, c, mode, selected)
  PROVE  /\ request'[r].at = "drift" /\ request'[r].on = c /\ request'[r].key = row.id
         /\ request'[r].seen = epoch /\ request'[r].base = comparison[c].base
         /\ request'[r].todo = InOrder(Resolved(c, mode, selected))
         /\ request'[r].ran = <<>> /\ request'[r].overtaken = FALSE /\ Others(r)
<1>1. PICK new : new = [Idle EXCEPT !.at = "drift", !.on = c, !.key = row.id, !.seen = epoch,
                          !.base = comparison[c].base, !.todo = InOrder(Resolved(c, mode, selected))]
  OBVIOUS
<1>2. /\ new.at = "drift" /\ new.on = c /\ new.key = row.id /\ new.seen = epoch
      /\ new.base = comparison[c].base /\ new.todo = InOrder(Resolved(c, mode, selected))
      /\ new.ran = <<>> /\ new.overtaken = FALSE
  BY <1>1, IdleTyped DEF Request
<1>3. Stand(r, new)
  BY <1>1 DEF BeginExecute
<1> QED
  BY <1>2, <1>3 DEF TypeOK, Stand, Others

LEMMA MoveFields ==
  ASSUME TypeOK, NEW r \in Requests, NEW at, Stand(r, [request[r] EXCEPT !.at = at])
  PROVE  /\ request'[r].at = at /\ request'[r].on = request[r].on
         /\ request'[r].key = request[r].key /\ request'[r].seen = request[r].seen
         /\ request'[r].base = request[r].base /\ request'[r].todo = request[r].todo
         /\ request'[r].ran = request[r].ran
         /\ request'[r].overtaken = request[r].overtaken /\ Others(r)
<1>1. PICK new : new = [request[r] EXCEPT !.at = at]
  OBVIOUS
<1>2. /\ new.at = at /\ new.on = request[r].on /\ new.key = request[r].key
      /\ new.seen = request[r].seen /\ new.base = request[r].base
      /\ new.todo = request[r].todo /\ new.ran = request[r].ran
      /\ new.overtaken = request[r].overtaken
  BY <1>1, RequestTyped DEF Request
<1> QED
  BY <1>1, <1>2 DEF TypeOK, Stand, Others

LEMMA CheckDriftFields ==
  ASSUME TypeOK, NEW r \in Requests, CheckDrift(r)
  PROVE  /\ request[r].at = "drift" /\ Others(r)
         /\ \/ /\ request'[r].at = "idle" /\ request'[r].ran = <<>> /\ request'[r].todo = <<>>
               /\ request'[r].overtaken = FALSE
            \/ /\ Structure = request[r].base /\ request'[r].at = "lock"
               /\ request'[r].on = request[r].on /\ request'[r].key = request[r].key
               /\ request'[r].seen = request[r].seen /\ request'[r].base = request[r].base
               /\ request'[r].todo = request[r].todo /\ request'[r].ran = request[r].ran
               /\ request'[r].overtaken = request[r].overtaken
<1>1. CASE Structure = request[r].base
  BY <1>1, MoveFields DEF CheckDrift
<1>2. CASE Structure # request[r].base
  BY <1>2, LeaveFields DEF CheckDrift
<1> QED
  BY <1>1, <1>2 DEF CheckDrift

LEMMA RanFields ==
  ASSUME TypeOK, NEW r \in Requests, NEW result \in {"applied", "failed"}, NEW effect \in BOOLEAN,
         Ran(r, result, effect)
  PROVE  /\ \A s \in Requests :
              /\ request'[s].at = request[s].at /\ request'[s].on = request[s].on
              /\ request'[s].key = request[s].key /\ request'[s].seen = request[s].seen
              /\ request'[s].base = request[s].base /\ request'[s].todo = request[s].todo
         /\ request'[r].ran = Append(request[r].ran, result)
         /\ request'[r].overtaken = request[r].overtaken
         /\ \A s \in Requests \ {r} :
              /\ request'[s].ran = request[s].ran
              /\ request'[s].overtaken = (request[s].overtaken \/ (effect /\ Overtaken(r, s)))
<1>1. \A s \in Requests : request[s] \in Request
  BY RequestTyped
<1>2. PICK mine : mine = [request[r] EXCEPT !.ran = Append(request[r].ran, result)]
  OBVIOUS
<1>3. /\ mine.at = request[r].at /\ mine.on = request[r].on /\ mine.key = request[r].key
      /\ mine.seen = request[r].seen /\ mine.base = request[r].base /\ mine.todo = request[r].todo
      /\ mine.ran = Append(request[r].ran, result) /\ mine.overtaken = request[r].overtaken
  BY <1>1, <1>2 DEF Request
<1>4. request'[r] = mine
  BY <1>2, RanEffect
<1>5. ASSUME NEW s \in Requests, s # r
      PROVE  /\ request'[s].at = request[s].at /\ request'[s].on = request[s].on
             /\ request'[s].key = request[s].key /\ request'[s].seen = request[s].seen
             /\ request'[s].base = request[s].base /\ request'[s].todo = request[s].todo
             /\ request'[s].ran = request[s].ran
             /\ request'[s].overtaken = (request[s].overtaken \/ (effect /\ Overtaken(r, s)))
  <2>1. PICK flag : flag = (request[s].overtaken \/ (effect /\ Overtaken(r, s)))
    OBVIOUS
  <2>2. request'[s] = [request[s] EXCEPT !.overtaken = flag]
    <3>1. request'[s] = [request[s] EXCEPT !.overtaken =
                           request[s].overtaken \/ (effect /\ Overtaken(r, s))]
      BY <1>5, RanEffect
    <3> QED
      BY <2>1, <3>1
  <2>3. /\ request'[s].at = request[s].at /\ request'[s].on = request[s].on
        /\ request'[s].key = request[s].key /\ request'[s].seen = request[s].seen
        /\ request'[s].base = request[s].base /\ request'[s].todo = request[s].todo
        /\ request'[s].ran = request[s].ran /\ request'[s].overtaken = flag
    BY <1>1, <2>2 DEF Request
  <2> QED
    BY <2>1, <2>3
<1> QED
  BY <1>3, <1>4, <1>5

-----------------------------------------------------------------------------
(* Every step preserves it.                                                *)

LEMMA KeysNumbers ==
  ASSUME TypeOK
  PROVE  /\ row.id \in Nat /\ epoch \in Nat
         /\ \A r \in Requests : request[r].seen \in Nat /\ request[r].key \in Nat
BY BoundsAssumption, RequestTyped DEF TypeOK

\* While the inventory and the locks stay, a request keeps its key or leaves.
LEMMA KeysStay ==
  ASSUME TypeOK, Keys, row' = row, epoch' = epoch, lock' = lock,
         \A s \in Requests : Executing(s)' =>
           /\ Executing(s) /\ request'[s].key = request[s].key /\ request'[s].seen = request[s].seen
           /\ request'[s].at = "run" => request[s].at = "run"
  PROVE  Keys'
BY KeysNumbers DEF Keys, Executing

\* Whoever read the inventory as it is now has its key, whoever read it as it was at the
\* same time has the same.
LEMMA KeysStep ==
  ASSUME TypeOK, Keys, [Next]_vars
  PROVE  Keys'
<1>1. ASSUME NEW r \in Requests, Compare(r) PROVE Keys'
  <2>1. /\ request'[r].at = "idle" /\ Others(r)
    BY <1>1, LeaveFields DEF Compare
  <2> QED
    BY <1>1, <2>1, KeysStay DEF Compare, Executing, Others
<1>2. ASSUME NEW r \in Requests, Refuse(r) PROVE Keys'
  <2>1. /\ request'[r].at = "idle" /\ Others(r)
    BY <1>2, LeaveFields DEF Refuse
  <2> QED
    BY <1>2, <2>1, KeysStay DEF Refuse, Executing, Others
<1>3. ASSUME NEW r \in Requests, NEW c \in Comparisons, BeginCompare(r, c) PROVE Keys'
  <2>1. /\ request'[r].at = "compare" /\ Others(r)
    BY <1>3, BeginCompareFields
  <2> QED
    BY <1>3, <2>1, KeysStay DEF BeginCompare, Executing, Others
<1>4. ASSUME NEW r \in Requests, NEW c \in Comparisons, NEW mode \in {"all",
         "all_except_destructive", "custom"}, NEW selected \in SUBSET comparison[c].items,
         BeginExecute(r, c, mode, selected) PROVE Keys'
  <2>1. /\ request'[r].at = "drift" /\ request'[r].key = row.id /\ request'[r].seen = epoch
        /\ Others(r)
    BY <1>4, BeginExecuteFields
  <2> QED
    BY <1>4, <2>1, KeysNumbers DEF BeginExecute, Keys, Executing, Others
<1>5. ASSUME NEW r \in Requests, CheckDrift(r) PROVE Keys'
  <2>1. /\ request'[r].at = "idle" \/ (/\ request'[r].at = "lock" /\ request'[r].key = request[r].key
                                  /\ request'[r].seen = request[r].seen)
        /\ Others(r) /\ Executing(r)
    BY <1>5, CheckDriftFields DEF Executing
  <2> QED
    BY <1>5, <2>1, KeysStay DEF CheckDrift, Executing, Others
<1>6. ASSUME NEW r \in Requests, AcquireLock(r) PROVE Keys'
  <2>1. /\ request[r].at = "lock" /\ request'[r].at = "run" /\ request'[r].key = request[r].key
        /\ request'[r].seen = request[r].seen /\ Others(r)
    BY <1>6, MoveFields DEF AcquireLock
  <2>2. \A s \in Requests : request[s].at = "run" => request[s].key # request[r].key
    BY <1>6, NamesAssumption DEF AcquireLock, Keys
  <2>3. /\ lock'[request[r].key] = r
        /\ \A key : key # request[r].key => lock'[key] = lock[key]
    BY <1>6, RequestTyped DEF AcquireLock, TypeOK
  <2> QED
    BY <1>6, <2>1, <2>2, <2>3, KeysNumbers DEF AcquireLock, Keys, Executing, Others
<1>7. ASSUME NEW r \in Requests, Run(r) PROVE Keys'
  <2>1. \A s \in Requests : /\ request'[s].at = request[s].at /\ request'[s].key = request[s].key
                              /\ request'[s].seen = request[s].seen
    BY <1>7, RanFields DEF Run
  <2> QED
    BY <1>7, <2>1, KeysStay DEF Run, Executing, Others
<1>8. ASSUME NEW r \in Requests, RunFails(r) PROVE Keys'
  <2>1. \A s \in Requests : /\ request'[s].at = request[s].at /\ request'[s].key = request[s].key
                              /\ request'[s].seen = request[s].seen
    BY <1>8, RanFields DEF RunFails
  <2> QED
    BY <1>8, <2>1, KeysStay DEF RunFails, Executing, Others
<1>9. ASSUME NEW r \in Requests, RunLost(r) PROVE Keys'
  <2>1. \A s \in Requests : /\ request'[s].at = request[s].at /\ request'[s].key = request[s].key
                              /\ request'[s].seen = request[s].seen
    BY <1>9, RanFields DEF RunLost
  <2> QED
    BY <1>9, <2>1, KeysStay DEF RunLost, Executing, Others
<1>10. ASSUME NEW r \in Requests, ReleaseLock(r) PROVE Keys'
  <2>1. /\ request[r].at = "run" /\ request'[r].at = "record" /\ Others(r)
    BY <1>10, MoveFields DEF ReleaseLock
  <2>2. \A s \in Requests \ {r} : request[s].at = "run" => request[s].key # request[r].key
    BY <1>10, <2>1 DEF Keys
  <2> QED
    BY <1>10, <2>1, <2>2, KeysNumbers DEF ReleaseLock, Keys, Executing, Others
<1>11. ASSUME NEW r \in Requests, Record(r) PROVE Keys'
  <2>1. /\ request'[r].at = "idle" /\ Others(r)
    BY <1>11, LeaveFields DEF Record
  <2> QED
    BY <1>11, <2>1, KeysStay DEF Record, Executing, Others
<1>12. ASSUME Crash PROVE Keys'
  BY <1>12, IdleTyped DEF Crash, Keys, Executing
<1>13. ASSUME Register PROVE Keys'
  BY <1>13, KeysNumbers DEF Register, Keys, Executing
<1>14. ASSUME Reassign PROVE Keys'
  BY <1>14, KeysNumbers DEF Reassign, Keys, Executing, TypeOK
<1>15. ASSUME Unregister PROVE Keys'
  BY <1>15, KeysNumbers DEF Unregister, Keys, Executing, NoRow
<1>16. ASSUME Alter PROVE Keys'
  BY <1>16 DEF Alter, Keys, Executing
<1>17. CASE UNCHANGED vars
  BY <1>17 DEF Keys, Executing, vars
<1> QED
  BY <1>1, <1>2, <1>3, <1>4, <1>5, <1>6, <1>7, <1>8, <1>9, <1>10, <1>11, <1>12, <1>13, <1>14,
    <1>15, <1>16, <1>17 DEF Next

\* A comparison that was made stays as it is, but for its results, or is gone.
MadeStays(c) ==
  comparison[c].status # "none" =>
    /\ comparison'[c].status # "none" /\ comparison'[c].base = comparison[c].base
    /\ comparison'[c].items = comparison[c].items

\* Unless a comparison is made, none changes but for its results.
NoneMade == \A c \in Comparisons : MadeStays(c) /\
              (comparison[c].status = "none" => comparison'[c].status = "none")

LEMMA CompareFields ==
  ASSUME TypeOK, NEW r \in Requests, Compare(r)
  PROVE  LET c == request[r].on IN
         /\ \/ comparison' = comparison
            \/ /\ comparison'[c].status = "live" /\ comparison'[c].base = request[r].base
               /\ comparison'[c].items = Statements \ request[r].base.done
               /\ \A s \in Statements : comparison'[c].result[s] = "none"
         /\ \A d \in Comparisons \ {c} : comparison'[d] = comparison[d]
<1>1. request[r].on \in Comparisons
  BY RequestTyped
<1> QED
  BY <1>1 DEF TypeOK, Compare

LEMMA UnregisterFields ==
  ASSUME TypeOK, Unregister, NEW c \in Comparisons
  PROVE  /\ comparison'[c].base = comparison[c].base /\ comparison'[c].items = comparison[c].items
         /\ comparison'[c].result = comparison[c].result
         /\ \/ comparison'[c].status = comparison[c].status
            \/ comparison[c].status # "none" /\ comparison'[c].status = "gone"
BY ComparisonTyped DEF Unregister, Comparison

LEMMA UnmadeStays ==
  ASSUME TypeOK, [Next]_vars
  PROVE  NoneMade \/ \E r \in Requests : Compare(r)
<1>1. CASE comparison' = comparison
  BY <1>1 DEF NoneMade, MadeStays
<1>2. CASE Unregister
  BY <1>2, UnregisterFields DEF NoneMade, MadeStays
<1>3. ASSUME NEW r \in Requests, Record(r) PROVE NoneMade
  BY <1>3, RecordEffect DEF NoneMade, MadeStays
<1> QED
  BY <1>1, <1>2, <1>3, ComparisonsSame

\* Unless one is made or begun, the comparisons are as true of the target as before.
LEMMA SnapshotsStay ==
  ASSUME TypeOK, Snapshots, [Next]_vars, NoneMade,
         \A s \in Requests : request'[s].at = "compare" =>
           /\ request[s].at = "compare" /\ request'[s].on = request[s].on
           /\ request'[s].base = request[s].base
  PROVE  Snapshots'
<1>1. done \subseteq done' /\ Statements' = Statements
  BY DifferenceStays, TypesStay
<1>2. \A s \in Requests : request[s].on \in Comparisons
  BY RequestTyped
<1> QED
  BY <1>1, <1>2 DEF Snapshots, NoneMade, MadeStays

LEMMA SnapshotsStep ==
  ASSUME TypeOK, Snapshots, [Next]_vars
  PROVE  Snapshots'
<1>1. ASSUME NEW r \in Requests, Compare(r) PROVE Snapshots'
  <2> DEFINE c == request[r].on
  <2>1. request'[r].at = "idle" /\ Others(r) /\ request[r].at = "compare"
    BY <1>1, LeaveFields DEF Compare
  <2>2. done' = done /\ Statements' = Statements /\ c \in Comparisons
    BY <1>1, TypesStay, RequestTyped DEF Compare
  <2>3. /\ \/ comparison' = comparison
           \/ /\ comparison'[c].base = request[r].base
              /\ comparison'[c].items = Statements \ request[r].base.done
        /\ \A d \in Comparisons \ {c} : comparison'[d] = comparison[d]
    BY <1>1, CompareFields
  <2>4. /\ request[r].base.done \subseteq done
        /\ \A s \in Requests \ {r} : request[s].at = "compare" => request[s].on # c
    BY <2>1 DEF Snapshots
  <2>5. \A s \in Requests : request[s].on \in Comparisons
    BY RequestTyped
  <2> HIDE DEF c
  <2> QED
    BY <2>1, <2>2, <2>3, <2>4, <2>5 DEF Snapshots, Others
<1>2. ASSUME NEW r \in Requests, Refuse(r) PROVE Snapshots'
  <2>1. /\ request'[r].at # "compare" /\ Others(r)
    BY <1>2, LeaveFields DEF Refuse
  <2>2. NoneMade
    BY <1>2 DEF Refuse, NoneMade, MadeStays
  <2> QED
    BY <1>2, <2>1, <2>2, SnapshotsStay DEF Others
<1>3. ASSUME NEW r \in Requests, NEW c \in Comparisons, BeginCompare(r, c) PROVE Snapshots'
  <2>1. request'[r].at = "compare" /\ request'[r].on = c /\ request'[r].base = Structure /\ Others(r)
    BY <1>3, BeginCompareFields
  <2>2. /\ comparison' = comparison /\ done' = done /\ Statements' = Statements
        /\ Structure.done = done /\ comparison[c].status = "none"
        /\ \A s \in Requests : request[s].at = "compare" => request[s].on # c
    BY <1>3, TypesStay DEF BeginCompare, Structure
  <2> QED
    BY <2>1, <2>2 DEF Snapshots, Others
<1>4. ASSUME NEW r \in Requests, NEW c \in Comparisons, NEW mode \in {"all",
         "all_except_destructive", "custom"}, NEW selected \in SUBSET comparison[c].items,
         BeginExecute(r, c, mode, selected) PROVE Snapshots'
  <2>1. /\ request'[r].at # "compare" /\ Others(r)
    BY <1>4, BeginExecuteFields
  <2>2. NoneMade
    BY <1>4 DEF BeginExecute, NoneMade, MadeStays
  <2> QED
    BY <1>4, <2>1, <2>2, SnapshotsStay DEF Others
<1>5. ASSUME NEW r \in Requests, CheckDrift(r) PROVE Snapshots'
  <2>1. /\ request'[r].at # "compare" /\ Others(r)
    BY <1>5, CheckDriftFields
  <2>2. NoneMade
    BY <1>5 DEF CheckDrift, NoneMade, MadeStays
  <2> QED
    BY <1>5, <2>1, <2>2, SnapshotsStay DEF Others
<1>6. ASSUME NEW r \in Requests, AcquireLock(r) PROVE Snapshots'
  <2>1. /\ request'[r].at # "compare" /\ Others(r)
    BY <1>6, MoveFields DEF AcquireLock
  <2>2. NoneMade
    BY <1>6 DEF AcquireLock, NoneMade, MadeStays
  <2> QED
    BY <1>6, <2>1, <2>2, SnapshotsStay DEF Others
<1>7. ASSUME NEW r \in Requests, Run(r) PROVE Snapshots'
  <2>1. \A s \in Requests : /\ request'[s].at = request[s].at /\ request'[s].on = request[s].on
                              /\ request'[s].base = request[s].base
    BY <1>7, RanFields DEF Run
  <2>2. NoneMade
    BY <1>7 DEF Run, NoneMade, MadeStays
  <2> QED
    BY <1>7, <2>1, <2>2, SnapshotsStay DEF Others
<1>8. ASSUME NEW r \in Requests, RunFails(r) PROVE Snapshots'
  <2>1. \A s \in Requests : /\ request'[s].at = request[s].at /\ request'[s].on = request[s].on
                              /\ request'[s].base = request[s].base
    BY <1>8, RanFields DEF RunFails
  <2>2. NoneMade
    BY <1>8 DEF RunFails, NoneMade, MadeStays
  <2> QED
    BY <1>8, <2>1, <2>2, SnapshotsStay DEF Others
<1>9. ASSUME NEW r \in Requests, RunLost(r) PROVE Snapshots'
  <2>1. \A s \in Requests : /\ request'[s].at = request[s].at /\ request'[s].on = request[s].on
                              /\ request'[s].base = request[s].base
    BY <1>9, RanFields DEF RunLost
  <2>2. NoneMade
    BY <1>9 DEF RunLost, NoneMade, MadeStays
  <2> QED
    BY <1>9, <2>1, <2>2, SnapshotsStay DEF Others
<1>10. ASSUME NEW r \in Requests, ReleaseLock(r) PROVE Snapshots'
  <2>1. /\ request'[r].at # "compare" /\ Others(r)
    BY <1>10, MoveFields DEF ReleaseLock
  <2>2. NoneMade
    BY <1>10 DEF ReleaseLock, NoneMade, MadeStays
  <2> QED
    BY <1>10, <2>1, <2>2, SnapshotsStay DEF Others
<1>11. ASSUME NEW r \in Requests, Record(r) PROVE Snapshots'
  <2>1. /\ request'[r].at # "compare" /\ Others(r)
    BY <1>11, LeaveFields DEF Record
  <2>2. NoneMade
    BY <1>11, RecordEffect DEF NoneMade, MadeStays
  <2> QED
    BY <1>11, <2>1, <2>2, SnapshotsStay DEF Others
<1>12. ASSUME Crash PROVE Snapshots'
  <2>1. NoneMade
    BY <1>12 DEF Crash, NoneMade, MadeStays
  <2> QED
    BY <1>12, <2>1, IdleTyped, SnapshotsStay DEF Crash
<1>13. ASSUME Register PROVE Snapshots'
  <2>1. NoneMade
    BY <1>13 DEF Register, NoneMade, MadeStays
  <2> QED
    BY <1>13, <2>1, SnapshotsStay DEF Register
<1>14. ASSUME Reassign PROVE Snapshots'
  <2>1. NoneMade
    BY <1>14 DEF Reassign, NoneMade, MadeStays
  <2> QED
    BY <1>14, <2>1, SnapshotsStay DEF Reassign
<1>15. ASSUME Unregister PROVE Snapshots'
  <2>1. NoneMade
    BY <1>15, UnregisterFields DEF NoneMade, MadeStays
  <2> QED
    BY <1>15, <2>1, SnapshotsStay DEF Unregister
<1>16. ASSUME Alter PROVE Snapshots'
  <2>1. NoneMade
    BY <1>16 DEF Alter, NoneMade, MadeStays
  <2> QED
    BY <1>16, <2>1, SnapshotsStay DEF Alter
<1>17. CASE UNCHANGED vars
  BY <1>17 DEF Snapshots, Statements, vars
<1> QED
  BY <1>1, <1>2, <1>3, <1>4, <1>5, <1>6, <1>7, <1>8, <1>9, <1>10, <1>11, <1>12, <1>13, <1>14,
    <1>15, <1>16, <1>17 DEF Next

LEMMA MadeAllStay ==
  ASSUME TypeOK, Snapshots, [Next]_vars
  PROVE  \A c \in Comparisons : MadeStays(c)
<1>1. ASSUME NEW r \in Requests, Compare(r), NEW c \in Comparisons PROVE MadeStays(c)
  <2>1. comparison[request[r].on].status = "none"
    BY <1>1 DEF Compare, Snapshots
  <2>2. c # request[r].on => comparison'[c] = comparison[c]
    BY <1>1, CompareFields
  <2> QED
    BY <2>1, <2>2 DEF MadeStays
<1> QED
  BY <1>1, UnmadeStays DEF NoneMade

\* The plan of a comparison that was made stays.
LEMMA PlanStays ==
  ASSUME TypeOK, Snapshots, [Next]_vars, NEW c \in Comparisons, comparison[c].status # "none"
  PROVE  PlanOf(c)' = PlanOf(c)
<1>1. difference' = difference /\ comparison'[c].items = comparison[c].items
  BY TypesStay, MadeAllStay DEF MadeStays
<1> QED
  BY <1>1 DEF PlanOf

\* Whoever still executes what it did sends what it did.
LEMMA PlannedStay ==
  ASSUME TypeOK, Snapshots, Planned, [Next]_vars, NEW s \in Requests, Executing(s),
         request'[s].on = request[s].on, request'[s].base = request[s].base,
         request'[s].todo = request[s].todo
  PROVE  /\ comparison'[request'[s].on].status # "none"
         /\ request'[s].base = comparison'[request'[s].on].base
         /\ Sound(PlanOf(request[s].on), request[s].todo)'
<1> DEFINE c == request[s].on
<1>1. c \in Comparisons /\ comparison[c].status # "none"
  BY RequestTyped DEF Planned
<1>2. PICK d, todo : d = c /\ todo = request[s].todo
  OBVIOUS
<1>3. PlanOf(d)' = PlanOf(d)
  BY <1>1, <1>2, PlanStays
<1>4. Sound(PlanOf(d), todo)
  BY <1>2 DEF Planned
<1>5. Sound(PlanOf(d)', todo)
  BY <1>3, <1>4
<1>6. request'[s].on = d /\ request'[s].todo = todo
  BY <1>2
<1>7. Sound(PlanOf(request[s].on), request[s].todo)'
  BY <1>5, <1>6
<1> QED
  BY <1>1, <1>7, MadeAllStay DEF Planned, MadeStays

\* A request that executes goes on with what it read.
GoesOn(s) ==
  request'[s].at \in {"drift", "lock", "run"} =>
    /\ Executing(s) /\ request'[s].on = request[s].on /\ request'[s].base = request[s].base
    /\ request'[s].todo = request[s].todo

Begins(s) ==
  \E c \in Comparisons, mode \in {"all", "all_except_destructive", "custom"} :
    \E selected \in SUBSET comparison[c].items : BeginExecute(s, c, mode, selected)

LEMMA GoesOnStep ==
  ASSUME TypeOK, NEW s \in Requests, [Next]_vars
  PROVE  GoesOn(s) \/ Begins(s)
<1>1. ASSUME NEW r \in Requests, Compare(r) PROVE GoesOn(s) \/ Begins(s)
  <2>1. /\ request'[r].at = "idle" /\ Others(r)
    BY <1>1, LeaveFields DEF Compare
  <2> QED
    BY <1>1, <2>1, IdleTyped DEF GoesOn, Others, Executing
<1>2. ASSUME NEW r \in Requests, Refuse(r) PROVE GoesOn(s) \/ Begins(s)
  <2>1. /\ request'[r].at = "idle" /\ Others(r)
    BY <1>2, LeaveFields DEF Refuse
  <2> QED
    BY <1>2, <2>1, IdleTyped DEF GoesOn, Others, Executing
<1>3. ASSUME NEW r \in Requests, NEW c \in Comparisons, BeginCompare(r, c) PROVE GoesOn(s) \/
         Begins(s)
  <2>1. /\ request'[r].at = "compare" /\ Others(r)
    BY <1>3, BeginCompareFields
  <2> QED
    BY <1>3, <2>1, IdleTyped DEF GoesOn, Others, Executing
<1>4. ASSUME NEW r \in Requests, NEW c \in Comparisons, NEW mode \in {"all",
         "all_except_destructive", "custom"}, NEW selected \in SUBSET comparison[c].items,
         BeginExecute(r, c, mode, selected) PROVE GoesOn(s) \/ Begins(s)
  <2>1. Others(r) /\ Begins(r)
    BY <1>4, BeginExecuteFields DEF Begins
  <2> QED
    BY <2>1 DEF GoesOn, Others, Executing
<1>5. ASSUME NEW r \in Requests, CheckDrift(r) PROVE GoesOn(s) \/ Begins(s)
  BY <1>5, CheckDriftFields DEF GoesOn, Others, Executing
<1>6. ASSUME NEW r \in Requests, AcquireLock(r) PROVE GoesOn(s) \/ Begins(s)
  <2>1. /\ Executing(r) /\ request'[r].on = request[r].on /\ request'[r].base = request[r].base
        /\ request'[r].todo = request[r].todo /\ Others(r)
    BY <1>6, MoveFields DEF AcquireLock, Executing
  <2> QED
    BY <1>6, <2>1, IdleTyped DEF GoesOn, Others, Executing
<1>7. ASSUME NEW r \in Requests, Run(r) PROVE GoesOn(s) \/ Begins(s)
  <2>1. \A q \in Requests : /\ request'[q].at = request[q].at /\ request'[q].on = request[q].on
                              /\ request'[q].base = request[q].base /\ request'[q].todo = request[q].todo
    BY <1>7, RanFields DEF Run
  <2> QED
    BY <1>7, <2>1, IdleTyped DEF GoesOn, Others, Executing
<1>8. ASSUME NEW r \in Requests, RunFails(r) PROVE GoesOn(s) \/ Begins(s)
  <2>1. \A q \in Requests : /\ request'[q].at = request[q].at /\ request'[q].on = request[q].on
                              /\ request'[q].base = request[q].base /\ request'[q].todo = request[q].todo
    BY <1>8, RanFields DEF RunFails
  <2> QED
    BY <1>8, <2>1, IdleTyped DEF GoesOn, Others, Executing
<1>9. ASSUME NEW r \in Requests, RunLost(r) PROVE GoesOn(s) \/ Begins(s)
  <2>1. \A q \in Requests : /\ request'[q].at = request[q].at /\ request'[q].on = request[q].on
                              /\ request'[q].base = request[q].base /\ request'[q].todo = request[q].todo
    BY <1>9, RanFields DEF RunLost
  <2> QED
    BY <1>9, <2>1, IdleTyped DEF GoesOn, Others, Executing
<1>10. ASSUME NEW r \in Requests, ReleaseLock(r) PROVE GoesOn(s) \/ Begins(s)
  <2>1. /\ Executing(r) /\ request'[r].on = request[r].on /\ request'[r].base = request[r].base
        /\ request'[r].todo = request[r].todo /\ Others(r)
    BY <1>10, MoveFields DEF ReleaseLock, Executing
  <2> QED
    BY <1>10, <2>1, IdleTyped DEF GoesOn, Others, Executing
<1>11. ASSUME NEW r \in Requests, Record(r) PROVE GoesOn(s) \/ Begins(s)
  <2>1. /\ request'[r].at = "idle" /\ Others(r)
    BY <1>11, LeaveFields DEF Record
  <2> QED
    BY <1>11, <2>1, IdleTyped DEF GoesOn, Others, Executing
<1>12. ASSUME Crash PROVE GoesOn(s) \/ Begins(s)
  BY <1>12, IdleTyped DEF Crash, GoesOn, Executing
<1>13. ASSUME Register PROVE GoesOn(s) \/ Begins(s)
  BY <1>13 DEF Register, GoesOn, Executing
<1>14. ASSUME Reassign PROVE GoesOn(s) \/ Begins(s)
  BY <1>14 DEF Reassign, GoesOn, Executing
<1>15. ASSUME Unregister PROVE GoesOn(s) \/ Begins(s)
  BY <1>15 DEF Unregister, GoesOn, Executing
<1>16. ASSUME Alter PROVE GoesOn(s) \/ Begins(s)
  BY <1>16 DEF Alter, GoesOn, Executing
<1>17. CASE UNCHANGED vars
  BY <1>17 DEF GoesOn, Executing, vars
<1> QED
  BY <1>1, <1>2, <1>3, <1>4, <1>5, <1>6, <1>7, <1>8, <1>9, <1>10, <1>11, <1>12, <1>13, <1>14,
    <1>15, <1>16, <1>17 DEF Next

LEMMA BeginsPlanned ==
  ASSUME TypeOK, Snapshots, [Next]_vars, NEW r \in Requests, Begins(r)
  PROVE  /\ comparison'[request'[r].on].status # "none"
         /\ request'[r].base = comparison'[request'[r].on].base
         /\ Sound(PlanOf(request[r].on), request[r].todo)'
<1>1. PICK c \in Comparisons, mode \in {"all", "all_except_destructive", "custom"} :
        \E selected \in SUBSET comparison[c].items : BeginExecute(r, c, mode, selected)
  BY DEF Begins
<1>2. PICK selected \in SUBSET comparison[c].items : BeginExecute(r, c, mode, selected)
  BY <1>1
<1> DEFINE items == Resolved(c, mode, selected)
<1>3. /\ comparison[c].status = "live" /\ (mode = "custom" => Closed(PlanOf(c), selected))
      /\ Sane(PlanOf(c), items)
  BY <1>2 DEF BeginExecute
<1>4. items \in SUBSET comparison[c].items /\ Closed(PlanOf(c), items)
  BY <1>3, ResolvedClosed
<1>5. PICK todo : todo = InOrder(items)
  OBVIOUS
<1>6. Sound(PlanOf(c), todo)
  <2> DEFINE tried == {todo[k] : k \in DOMAIN todo}
  <2>1. tried = items /\ \A j, k \in DOMAIN todo : j < k => todo[j] < todo[k]
    BY <1>4, <1>5, ResolvedInOrder
  <2>2. tried \subseteq PlanOf(c).items
    BY <1>4, <2>1, PlanParts
  <2>3. Closed(PlanOf(c), tried) /\ Sane(PlanOf(c), tried)
    BY <1>3, <1>4, <2>1
  <2> QED
    BY <2>1, <2>2, <2>3 DEF Sound
<1>7. PlanOf(c)' = PlanOf(c)
  BY <1>3, PlanStays
<1>8. Sound(PlanOf(c)', todo)
  BY <1>6, <1>7
<1>9. request'[r].on = c /\ request'[r].todo = todo /\ request'[r].base = comparison[c].base
  BY <1>2, <1>5, BeginExecuteFields
<1>10. Sound(PlanOf(request[r].on), request[r].todo)'
  BY <1>8, <1>9
<1>11. comparison'[c].status # "none" /\ comparison'[c].base = comparison[c].base
  BY <1>3, MadeAllStay DEF MadeStays
<1> QED
  BY <1>9, <1>10, <1>11

LEMMA PlannedStep ==
  ASSUME TypeOK, Snapshots, Planned, [Next]_vars
  PROVE  Planned'
<1>1. ASSUME NEW s \in Requests, request'[s].at \in {"drift", "lock", "run"}
      PROVE  /\ comparison'[request'[s].on].status # "none"
             /\ request'[s].base = comparison'[request'[s].on].base
             /\ Sound(PlanOf(request[s].on), request[s].todo)'
  <2>1. CASE GoesOn(s)
    BY <1>1, <2>1, PlannedStay DEF GoesOn
  <2>2. CASE Begins(s)
    BY <2>2, BeginsPlanned
  <2> QED
    BY <2>1, <2>2, GoesOnStep
<1> QED
  BY <1>1 DEF Planned, Executing

-----------------------------------------------------------------------------
(* What requests note, and what they find.                                 *)

\* A request that sends nothing keeps what it noted, or starts over.
NotesStay(s) ==
  \/ request'[s].ran = <<>>
  \/ /\ request'[s].ran = request[s].ran /\ request'[s].todo = request[s].todo
     /\ request'[s].at \notin {"run", "record"} => request[s].at \notin {"run", "record"}

LEMMA NotedStay ==
  ASSUME TypeOK, Noted, [Next]_vars, NEW s \in Requests, NotesStay(s),
         Len(request'[s].todo) \in Nat
  PROVE  /\ request'[s].at \notin {"run", "record"} => request'[s].ran = <<>>
         /\ Len(request'[s].ran) <= Len(request'[s].todo)
         /\ \A k \in DOMAIN request'[s].ran :
              request'[s].ran[k] = "applied" => request'[s].todo[k] \in done'
BY DifferenceStays, RequestTyped DEF Noted, NotesStay

\* A request that sends a statement notes what it got.
LEMMA NotedRan ==
  ASSUME TypeOK, Noted, [Next]_vars, NEW r \in Requests, Sending(r),
         NEW result \in {"applied", "failed"}, request'[r].ran = Append(request[r].ran, result),
         request'[r].todo = request[r].todo, request'[r].at = request[r].at,
         result = "applied" => NextStatement(r) \in done'
  PROVE  /\ request'[r].at \notin {"run", "record"} => request'[r].ran = <<>>
         /\ Len(request'[r].ran) <= Len(request'[r].todo)
         /\ \A k \in DOMAIN request'[r].ran :
              request'[r].ran[k] = "applied" => request'[r].todo[k] \in done'
<1> DEFINE old == request[r].ran
           new == Append(old, result)
<1>1. /\ old \in Seq({"applied", "failed"}) /\ Len(old) \in Nat /\ DOMAIN old = 1..Len(old)
      /\ Len(request[r].todo) \in Nat
  BY RequestTyped
<1>2. /\ Len(new) = Len(old) + 1 /\ DOMAIN new = 1..(Len(old) + 1)
      /\ new[Len(old) + 1] = result /\ \A k \in 1..Len(old) : new[k] = old[k]
  BY <1>1
<1>3. request[r].at = "run" /\ Len(old) < Len(request[r].todo)
      /\ NextStatement(r) = request[r].todo[Len(old) + 1]
  BY DEF Sending, NextStatement, Sent
<1>4. \A k \in 1..Len(old) : old[k] = "applied" => request[r].todo[k] \in done'
  BY <1>1, DifferenceStays DEF Noted
<1> HIDE DEF old, new
<1>5. request'[r].ran = new
  BY DEF new, old
<1>6. \A k \in DOMAIN new : new[k] = "applied" => request[r].todo[k] \in done'
  <2>1. TAKE k \in DOMAIN new
  <2>2. k \in 1..Len(old) \/ k = Len(old) + 1
    BY <1>1, <1>2
  <2> QED
    BY <1>2, <1>3, <1>4, <2>2
<1> QED
  BY <1>1, <1>2, <1>3, <1>5, <1>6

Sends(s) ==
  /\ Sending(s) /\ request'[s].todo = request[s].todo /\ request'[s].at = request[s].at
  /\ \E result \in {"applied", "failed"} :
       /\ request'[s].ran = Append(request[s].ran, result)
       /\ result = "applied" => NextStatement(s) \in done'

LEMMA NotesStep ==
  ASSUME TypeOK, NEW s \in Requests, [Next]_vars
  PROVE  NotesStay(s) \/ Sends(s)
<1>1. ASSUME NEW r \in Requests, Compare(r) PROVE NotesStay(s) \/ Sends(s)
  <2>1. /\ request'[r].ran = <<>> /\ Others(r)
    BY <1>1, LeaveFields DEF Compare
  <2> QED
    BY <1>1, <2>1, IdleTyped DEF NotesStay, Others
<1>2. ASSUME NEW r \in Requests, Refuse(r) PROVE NotesStay(s) \/ Sends(s)
  <2>1. /\ request'[r].ran = <<>> /\ Others(r)
    BY <1>2, LeaveFields DEF Refuse
  <2> QED
    BY <1>2, <2>1, IdleTyped DEF NotesStay, Others
<1>3. ASSUME NEW r \in Requests, NEW c \in Comparisons, BeginCompare(r, c) PROVE NotesStay(s) \/
         Sends(s)
  <2>1. /\ request'[r].ran = <<>> /\ Others(r)
    BY <1>3, BeginCompareFields
  <2> QED
    BY <1>3, <2>1, IdleTyped DEF NotesStay, Others
<1>4. ASSUME NEW r \in Requests, NEW c \in Comparisons, NEW mode \in {"all",
         "all_except_destructive", "custom"}, NEW selected \in SUBSET comparison[c].items,
         BeginExecute(r, c, mode, selected) PROVE NotesStay(s) \/ Sends(s)
  <2>1. /\ request'[r].ran = <<>> /\ Others(r)
    BY <1>4, BeginExecuteFields
  <2> QED
    BY <1>4, <2>1, IdleTyped DEF NotesStay, Others
<1>5. ASSUME NEW r \in Requests, CheckDrift(r) PROVE NotesStay(s) \/ Sends(s)
  BY <1>5, CheckDriftFields DEF NotesStay, Others
<1>6. ASSUME NEW r \in Requests, AcquireLock(r) PROVE NotesStay(s) \/ Sends(s)
  <2>1. /\ request'[r].ran = request[r].ran /\ request'[r].todo = request[r].todo
        /\ request'[r].at \in {"run", "record"} /\ Others(r)
    BY <1>6, MoveFields DEF AcquireLock
  <2> QED
    BY <1>6, <2>1, IdleTyped DEF NotesStay, Others
<1>7. ASSUME NEW r \in Requests, Run(r) PROVE NotesStay(s) \/ Sends(s)
  <2>1. /\ request'[r].ran = Append(request[r].ran, "applied")
        /\ \A t \in Requests : request'[t].at = request[t].at /\ request'[t].todo = request[t].todo
        /\ \A t \in Requests \ {r} : request'[t].ran = request[t].ran
    BY <1>7, RanFields DEF Run
  <2>2. CASE s = r
    BY <1>7, <2>1, <2>2 DEF Run, Sends
  <2>3. CASE s # r
    BY <2>1, <2>3 DEF NotesStay
  <2> QED
    BY <2>2, <2>3
<1>8. ASSUME NEW r \in Requests, RunFails(r) PROVE NotesStay(s) \/ Sends(s)
  <2>1. /\ request'[r].ran = Append(request[r].ran, "failed")
        /\ \A t \in Requests : request'[t].at = request[t].at /\ request'[t].todo = request[t].todo
        /\ \A t \in Requests \ {r} : request'[t].ran = request[t].ran
    BY <1>8, RanFields DEF RunFails
  <2>2. CASE s = r
    BY <1>8, <2>1, <2>2 DEF RunFails, Sends
  <2>3. CASE s # r
    BY <2>1, <2>3 DEF NotesStay
  <2> QED
    BY <2>2, <2>3
<1>9. ASSUME NEW r \in Requests, RunLost(r) PROVE NotesStay(s) \/ Sends(s)
  <2>1. /\ request'[r].ran = Append(request[r].ran, "failed")
        /\ \A t \in Requests : request'[t].at = request[t].at /\ request'[t].todo = request[t].todo
        /\ \A t \in Requests \ {r} : request'[t].ran = request[t].ran
    BY <1>9, RanFields DEF RunLost
  <2>2. CASE s = r
    BY <1>9, <2>1, <2>2 DEF RunLost, Sends
  <2>3. CASE s # r
    BY <2>1, <2>3 DEF NotesStay
  <2> QED
    BY <2>2, <2>3
<1>10. ASSUME NEW r \in Requests, ReleaseLock(r) PROVE NotesStay(s) \/ Sends(s)
  <2>1. /\ request'[r].ran = request[r].ran /\ request'[r].todo = request[r].todo
        /\ request'[r].at \in {"run", "record"} /\ Others(r)
    BY <1>10, MoveFields DEF ReleaseLock
  <2> QED
    BY <1>10, <2>1, IdleTyped DEF NotesStay, Others
<1>11. ASSUME NEW r \in Requests, Record(r) PROVE NotesStay(s) \/ Sends(s)
  <2>1. /\ request'[r].ran = <<>> /\ Others(r)
    BY <1>11, LeaveFields DEF Record
  <2> QED
    BY <1>11, <2>1, IdleTyped DEF NotesStay, Others
<1>12. ASSUME Crash PROVE NotesStay(s) \/ Sends(s)
  BY <1>12, IdleTyped DEF Crash, NotesStay
<1>13. ASSUME Register PROVE NotesStay(s) \/ Sends(s)
  BY <1>13 DEF Register, NotesStay
<1>14. ASSUME Reassign PROVE NotesStay(s) \/ Sends(s)
  BY <1>14 DEF Reassign, NotesStay
<1>15. ASSUME Unregister PROVE NotesStay(s) \/ Sends(s)
  BY <1>15 DEF Unregister, NotesStay
<1>16. ASSUME Alter PROVE NotesStay(s) \/ Sends(s)
  BY <1>16 DEF Alter, NotesStay
<1>17. CASE UNCHANGED vars
  BY <1>17 DEF NotesStay, vars
<1> QED
  BY <1>1, <1>2, <1>3, <1>4, <1>5, <1>6, <1>7, <1>8, <1>9, <1>10, <1>11, <1>12, <1>13, <1>14,
    <1>15, <1>16, <1>17 DEF Next

LEMMA NotedStep ==
  ASSUME TypeOK, TypeOK', Noted, [Next]_vars
  PROVE  Noted'
<1>1. ASSUME NEW s \in Requests
      PROVE  /\ request'[s].at \notin {"run", "record"} => request'[s].ran = <<>>
             /\ Len(request'[s].ran) <= Len(request'[s].todo)
             /\ \A k \in DOMAIN request'[s].ran :
                  request'[s].ran[k] = "applied" => request'[s].todo[k] \in done'
  <2>1. Len(request'[s].todo) \in Nat
    <3>1. request'[s].todo \in Seq(Statements)
      BY TypesStay DEF TypeOK, Request
    <3> QED
      BY <3>1
  <2>2. CASE NotesStay(s)
    BY <2>1, <2>2, NotedStay
  <2>3. CASE Sends(s)
    BY <2>3, NotedRan DEF Sends
  <2> QED
    BY <2>2, <2>3, NotesStep
<1> QED
  BY <1>1 DEF Noted

\* Two requests that run with what they read of the same inventory are one.
LEMMA OneRuns ==
  ASSUME TypeOK, Keys, NEW r \in Requests, NEW s \in Requests,
         request[r].at = "run", request[s].at = "run", request[s].seen = request[r].seen
  PROVE  s = r
BY DEF Keys, Executing

\* While the target stays, whoever waits or runs finds what it found.
LEMMA FoundStays ==
  ASSUME NEW s, Found(s), done' = done, request'[s] = request[s]
  PROVE  Found(s)'
BY DEF Found

\* A statement that takes effect is seen by whoever sends it, and overtakes the others.
LEMMA FoundRan ==
  ASSUME TypeOK, Keys, Untouched, NEW r \in Requests, NEW s \in Requests, Sending(r),
         NEW result \in {"applied", "failed"}, Ran(r, result, TRUE),
         done' = done \cup {NextStatement(r)}
  PROVE  Found(s)'
<1> DEFINE old == request[r].ran
           new == Append(old, result)
<1>1. CASE s = r
  <2>1. /\ request'[r].at = "run" /\ request[r].at = "run" /\ request'[r].base = request[r].base
        /\ request'[r].todo = request[r].todo /\ request'[r].ran = new
        /\ request'[r].overtaken = request[r].overtaken
    BY RanFields DEF Sending
  <2>2. old \in Seq({"applied", "failed"}) /\ Len(old) \in Nat /\ DOMAIN old = 1..Len(old)
    BY RequestTyped
  <2>3. DOMAIN new = 1..(Len(old) + 1)
    BY <2>2
  <2>4. DOMAIN old \subseteq DOMAIN new /\ Len(old) + 1 \in DOMAIN new
    BY <2>2, <2>3
  <2>5. NextStatement(r) = request[r].todo[Len(old) + 1]
    BY DEF NextStatement, Sent
  <2> HIDE DEF new
  <2> QED
    BY <1>1, <2>1, <2>4, <2>5 DEF Untouched, Found
<1>2. CASE s # r
  <2>1. /\ request'[s].at = request[s].at /\ request'[s].base = request[s].base
        /\ request'[s].overtaken = (request[s].overtaken \/ Overtaken(r, s))
    BY <1>2, RanFields
  <2>2. request[s].at \in {"lock", "run"} => Overtaken(r, s)
    BY <1>2, OneRuns DEF Overtaken, Sending
  <2> QED
    BY <2>1, <2>2 DEF Found
<1> QED
  BY <1>1, <1>2

LEMMA FoundStep ==
  ASSUME TypeOK, Keys, Untouched, NEW s \in Requests, [Next]_vars
  PROVE  Found(s)'
<1>1. ASSUME NEW r \in Requests, Compare(r) PROVE Found(s)'
  <2>1. /\ request'[r].at = "idle" /\ Others(r)
    BY <1>1, LeaveFields DEF Compare
  <2>2. done' = done
    BY <1>1 DEF Compare
  <2>3. CASE s = r
    BY <2>1, <2>3 DEF Found
  <2>4. CASE s # r
    BY <2>1, <2>2, <2>4, FoundStays DEF Others, Untouched
  <2> QED
    BY <2>3, <2>4
<1>2. ASSUME NEW r \in Requests, Refuse(r) PROVE Found(s)'
  <2>1. /\ request'[r].at = "idle" /\ Others(r)
    BY <1>2, LeaveFields DEF Refuse
  <2>2. done' = done
    BY <1>2 DEF Refuse
  <2>3. CASE s = r
    BY <2>1, <2>3 DEF Found
  <2>4. CASE s # r
    BY <2>1, <2>2, <2>4, FoundStays DEF Others, Untouched
  <2> QED
    BY <2>3, <2>4
<1>3. ASSUME NEW r \in Requests, NEW c \in Comparisons, BeginCompare(r, c) PROVE Found(s)'
  <2>1. /\ request'[r].at = "compare" /\ Others(r)
    BY <1>3, BeginCompareFields
  <2>2. done' = done
    BY <1>3 DEF BeginCompare
  <2>3. CASE s = r
    BY <2>1, <2>3 DEF Found
  <2>4. CASE s # r
    BY <2>1, <2>2, <2>4, FoundStays DEF Others, Untouched
  <2> QED
    BY <2>3, <2>4
<1>4. ASSUME NEW r \in Requests, NEW c \in Comparisons, NEW mode \in {"all",
         "all_except_destructive", "custom"}, NEW selected \in SUBSET comparison[c].items,
         BeginExecute(r, c, mode, selected) PROVE Found(s)'
  <2>1. /\ request'[r].at = "drift" /\ Others(r)
    BY <1>4, BeginExecuteFields
  <2>2. done' = done
    BY <1>4 DEF BeginExecute
  <2>3. CASE s = r
    BY <2>1, <2>3 DEF Found
  <2>4. CASE s # r
    BY <2>1, <2>2, <2>4, FoundStays DEF Others, Untouched
  <2> QED
    BY <2>3, <2>4
<1>5. ASSUME NEW r \in Requests, CheckDrift(r) PROVE Found(s)'
  <2>1. done' = done /\ (Structure = request[r].base => request[r].base.done = done)
    BY <1>5 DEF CheckDrift, Structure
  <2>2. CASE s = r
    BY <1>5, <2>1, <2>2, CheckDriftFields DEF Found
  <2>3. CASE s # r
    <3>1. Others(r)
      BY <1>5, CheckDriftFields
    <3> QED
      BY <2>1, <2>3, <3>1, FoundStays DEF Others, Untouched
  <2> QED
    BY <2>2, <2>3
<1>6. ASSUME NEW r \in Requests, AcquireLock(r) PROVE Found(s)'
  <2>1. /\ request[r].at = "lock" /\ request'[r].at = "run" /\ request'[r].base = request[r].base
        /\ request'[r].overtaken = request[r].overtaken /\ Others(r) /\ done' = done
    BY <1>6, MoveFields DEF AcquireLock
  <2>2. CASE s = r
    BY <2>1, <2>2 DEF Found, Untouched
  <2>3. CASE s # r
    BY <2>1, <2>3, FoundStays DEF Others, Untouched
  <2> QED
    BY <2>2, <2>3
<1>7. ASSUME NEW r \in Requests, Run(r) PROVE Found(s)'
  BY <1>7, FoundRan DEF Run
<1>8. ASSUME NEW r \in Requests, RunFails(r) PROVE Found(s)'
  <2> DEFINE old == request[r].ran
             new == Append(old, "failed")
  <2>1. /\ request'[s].at = request[s].at /\ request'[s].base = request[s].base
        /\ request'[s].todo = request[s].todo /\ (s # r => request'[s].ran = request[s].ran)
        /\ request'[r].ran = new /\ done' = done
    BY <1>8, RanFields DEF RunFails
  <2>2. request'[s].overtaken = request[s].overtaken
    <3>1. CASE s = r
      BY <1>8, <3>1, RanFields DEF RunFails
    <3>2. CASE s # r
      <4>1. request'[s].overtaken = (request[s].overtaken \/ (FALSE /\ Overtaken(r, s)))
        BY <1>8, <3>2, RanFields DEF RunFails
      <4>2. request[s].overtaken \in BOOLEAN
        BY RequestTyped
      <4> QED
        BY <4>1, <4>2
    <3> QED
      BY <3>1, <3>2
  <2>3. DOMAIN old \subseteq DOMAIN new
    BY RequestTyped
  <2> HIDE DEF new
  <2>4. DOMAIN request[s].ran \subseteq DOMAIN request'[s].ran
    BY <2>1, <2>3
  <2> QED
    BY <2>1, <2>4, <2>2 DEF Found, Untouched
<1>9. ASSUME NEW r \in Requests, RunLost(r) PROVE Found(s)'
  BY <1>9, FoundRan DEF RunLost
<1>10. ASSUME NEW r \in Requests, ReleaseLock(r) PROVE Found(s)'
  <2>1. /\ request'[r].at = "record" /\ Others(r)
    BY <1>10, MoveFields DEF ReleaseLock
  <2>2. done' = done
    BY <1>10 DEF ReleaseLock
  <2>3. CASE s = r
    BY <2>1, <2>3 DEF Found
  <2>4. CASE s # r
    BY <2>1, <2>2, <2>4, FoundStays DEF Others, Untouched
  <2> QED
    BY <2>3, <2>4
<1>11. ASSUME NEW r \in Requests, Record(r) PROVE Found(s)'
  <2>1. /\ request'[r].at = "idle" /\ Others(r)
    BY <1>11, LeaveFields DEF Record
  <2>2. done' = done
    BY <1>11 DEF Record
  <2>3. CASE s = r
    BY <2>1, <2>3 DEF Found
  <2>4. CASE s # r
    BY <2>1, <2>2, <2>4, FoundStays DEF Others, Untouched
  <2> QED
    BY <2>3, <2>4
<1>12. ASSUME Crash PROVE Found(s)'
  BY <1>12, IdleTyped DEF Crash, Found
<1>13. ASSUME Register PROVE Found(s)'
  BY <1>13, FoundStays DEF Register, Untouched
<1>14. ASSUME Reassign PROVE Found(s)'
  BY <1>14, FoundStays DEF Reassign, Untouched
<1>15. ASSUME Unregister PROVE Found(s)'
  BY <1>15, FoundStays DEF Unregister, Untouched
<1>16. ASSUME Alter PROVE Found(s)'
  BY <1>16, FoundStays DEF Alter, Untouched
<1>17. CASE UNCHANGED vars
  BY <1>17 DEF Found, Untouched, vars
<1> QED
  BY <1>1, <1>2, <1>3, <1>4, <1>5, <1>6, <1>7, <1>8, <1>9, <1>10, <1>11, <1>12, <1>13, <1>14,
    <1>15, <1>16, <1>17 DEF Next

LEMMA ResultsStep ==
  ASSUME TypeOK, Noted, ResultsTrue, [Next]_vars
  PROVE  ResultsTrue'
<1> USE DEF ResultsTrue
<1>1. done \subseteq done' /\ Statements' = Statements
  BY DifferenceStays, TypesStay
<1>2. CASE comparison' = comparison
  BY <1>1, <1>2
<1>3. ASSUME NEW r \in Requests, Compare(r) PROVE ResultsTrue'
  BY <1>1, <1>3, CompareFields
<1>4. CASE Unregister
  BY <1>1, <1>4, UnregisterFields
<1>5. ASSUME NEW r \in Requests, Record(r) PROVE ResultsTrue'
  <2>1. \A k \in DOMAIN request[r].ran :
          request[r].ran[k] = "applied" => request[r].todo[k] \in done
    BY DEF Noted
  <2> QED
    BY <1>1, <1>5, <2>1, RecordEffect
<1> HIDE DEF ResultsTrue
<1> QED
  BY <1>2, <1>3, <1>4, <1>5, ComparisonsSame

LEMMA InitInv == Init => Inv
<1> SUFFICES ASSUME Init PROVE Inv
  OBVIOUS
<1>1. NoComparison \in Comparison /\ NoComparison.status = "none"
  BY BoundsAssumption DEF NoComparison, Comparison, Structures, Results
<1>2. TypeOK
  BY <1>1, IdleTyped, BoundsAssumption DEF Init, TypeOK, NoRow
<1>3. Keys /\ Snapshots /\ Planned
  BY <1>1, IdleTyped DEF Init, Keys, Snapshots, Planned, Executing, NoRow
<1>4. Noted /\ Untouched
  BY IdleTyped DEF Init, Noted, Untouched, Found
<1>5. ResultsTrue
  BY <1>1 DEF Init, ResultsTrue
<1> QED
  BY <1>2, <1>3, <1>4, <1>5 DEF Inv

LEMMA NextInv ==
  ASSUME Inv, [Next]_vars
  PROVE  Inv'
<1>1. TypeOK'
  BY TypeStep DEF Inv
<1>2. Keys' /\ Snapshots' /\ Planned'
  BY KeysStep, SnapshotsStep, PlannedStep DEF Inv
<1>3. Noted' /\ ResultsTrue'
  BY <1>1, NotedStep, ResultsStep DEF Inv
<1>4. Untouched'
  <2>1. \A s \in Requests : Found(s)'
    BY FoundStep DEF Inv
  <2> QED
    BY <2>1 DEF Untouched
<1> QED
  BY <1>1, <1>2, <1>3, <1>4 DEF Inv

LEMMA InvHolds == Spec => []Inv
<1>1. Inv /\ [Next]_vars => Inv'
  BY NextInv
<1> QED
  BY InitInv, <1>1, PTL DEF Spec

-----------------------------------------------------------------------------
(* What follows from it.                                                   *)

\* What an execution is about to send, and what it sent.
LEMMA SendingParts ==
  ASSUME Inv, NEW r \in Requests, Sending(r)
  PROVE  LET c == request[r].on
             todo == request[r].todo
             ran == request[r].ran
         IN  /\ request[r].at = "run" /\ Executing(r) /\ c \in Comparisons
             /\ comparison[c].status # "none" /\ request[r].base = comparison[c].base
             /\ comparison[c].base.done \subseteq done
             /\ comparison[c].items = Statements \ comparison[c].base.done
             /\ Len(ran) \in Nat /\ Len(todo) \in Nat
             /\ DOMAIN todo = 1..Len(todo) /\ DOMAIN ran = 1..Len(ran)
             /\ Len(ran) + 1 \in DOMAIN todo
             /\ DOMAIN ran \subseteq DOMAIN todo
             /\ NextStatement(r) = todo[Len(ran) + 1]
             /\ Sound(PlanOf(c), todo)
             /\ \A k \in DOMAIN ran : ran[k] = "applied" /\ todo[k] \in done
<1>1. /\ TypeOK /\ request[r].at = "run" /\ Executing(r) /\ Sent(r) < Len(request[r].todo)
      /\ ~Failed(r) /\ Sent(r) = Len(request[r].ran)
  BY DEF Inv, Sending, Executing, Sent
<1>2. /\ request[r].on \in Comparisons
      /\ request[r].ran \in Seq({"applied", "failed"})
      /\ Len(request[r].ran) \in Nat /\ Len(request[r].todo) \in Nat
      /\ DOMAIN request[r].todo = 1..Len(request[r].todo)
      /\ DOMAIN request[r].ran = 1..Len(request[r].ran)
  BY <1>1, RequestTyped
<1>3. \A k \in DOMAIN request[r].ran : request[r].ran[k] = "applied"
  <2>1. \A k \in DOMAIN request[r].ran : request[r].ran[k] \in {"applied", "failed"}
    BY <1>2
  <2> QED
    BY <1>1, <1>2, <2>1 DEF Failed
<1>4. /\ comparison[request[r].on].status # "none"
      /\ request[r].base = comparison[request[r].on].base
      /\ Sound(PlanOf(request[r].on), request[r].todo)
  BY <1>1 DEF Inv, Planned
<1>5. /\ comparison[request[r].on].base.done \subseteq done
      /\ comparison[request[r].on].items = Statements \ comparison[request[r].on].base.done
  BY <1>2, <1>4 DEF Inv, Snapshots
<1>6. \A k \in DOMAIN request[r].ran : request[r].todo[k] \in done
  BY <1>3 DEF Inv, Noted
<1>7. NextStatement(r) = request[r].todo[Len(request[r].ran) + 1]
  BY DEF NextStatement, Sent
<1> QED
  BY <1>1, <1>2, <1>3, <1>4, <1>5, <1>6, <1>7

LEMMA InvNoRepeat == Inv => NoRepeat
<1> SUFFICES ASSUME Inv, NEW r \in Requests, Sending(r), NextStatement(r) \in done,
                    ~request[r].overtaken
             PROVE FALSE
  BY DEF NoRepeat, Inv, TypeOK
<1> DEFINE todo == request[r].todo
           next == Len(request[r].ran) + 1
<1>1. /\ request[r].at = "run" /\ Len(request[r].ran) \in Nat
      /\ next \in DOMAIN todo /\ DOMAIN request[r].ran \subseteq DOMAIN todo
      /\ DOMAIN request[r].ran = 1..Len(request[r].ran) /\ NextStatement(r) = todo[next]
      /\ comparison[request[r].on].items = Statements \ request[r].base.done
      /\ request[r].on \in Comparisons /\ Sound(PlanOf(request[r].on), todo)
  BY SendingParts
<1>2. todo[next] \notin request[r].base.done
  BY <1>1, PlanParts DEF Sound
<1>3. PICK k \in DOMAIN request[r].ran : todo[next] = todo[k]
  BY <1>1, <1>2 DEF Inv, Untouched, Found
<1>4. k < next /\ k \in DOMAIN todo
  BY <1>1, <1>3
<1>5. todo[k] < todo[next]
  BY <1>1, <1>4 DEF Sound
<1>6. todo[k] \in Nat
  BY <1>1, <1>4, RequestTyped, StatementsFinite DEF Inv
<1> QED
  BY <1>3, <1>5, <1>6

LEMMA InvBase == Inv => BaseBeforeDependent
<1> SUFFICES ASSUME Inv, NEW r \in Requests, Sending(r), NEW s \in Statements,
                    difference.of[s] \in difference.needs[difference.of[NextStatement(r)]]
             PROVE  s \in done
  BY DEF BaseBeforeDependent
<1> DEFINE c == request[r].on
           todo == request[r].todo
           next == Len(request[r].ran) + 1
           plan == PlanOf(c)
           tried == {todo[k] : k \in DOMAIN todo}
<1>1. /\ comparison[c].base.done \subseteq done /\ comparison[c].items = Statements \ comparison[c].base.done
      /\ next \in DOMAIN todo /\ DOMAIN todo \subseteq Nat /\ Len(request[r].ran) \in Nat
      /\ DOMAIN request[r].ran = 1..Len(request[r].ran)
      /\ NextStatement(r) = todo[next] /\ c \in Comparisons /\ Sound(plan, todo)
      /\ \A k \in DOMAIN request[r].ran : todo[k] \in done
  BY SendingParts
<1>2. /\ plan.items = comparison[c].items /\ plan.of = difference.of
      /\ plan.needs = difference.needs
  BY <1>1, PlanParts
<1>3. CASE s \in comparison[c].base.done
  BY <1>1, <1>3
<1>4. CASE s \in plan.items
  <2>1. Closed(plan, tried) /\ Sane(plan, tried) /\ tried \subseteq plan.items
    BY <1>1 DEF Sound
  <2>2. todo[next] \in tried
    BY <1>1
  <2>3. s \in tried
    <3>1. plan.of[todo[next]] \in GroupsOf(plan, tried) /\ plan.of[s] \in Groups(plan)
      BY <1>4, <2>2 DEF GroupsOf, Groups
    <3>2. plan.of[s] \in Needs(plan, GroupsOf(plan, tried))
      BY <1>1, <1>2, <3>1 DEF Needs
    <3> QED
      BY <1>4, <2>1, <3>2 DEF Closed, ItemsOf
  <2>4. PICK k \in DOMAIN todo : todo[k] = s
    BY <2>3
  <2>5. s <= todo[next]
    BY <1>1, <1>2, <2>1, <2>2, <2>3 DEF Sane
  <2>6. todo \in Seq(Statements) /\ Len(todo) \in Nat /\ DOMAIN todo = 1..Len(todo)
    BY RequestTyped DEF Inv
  <2> HIDE DEF todo, next
  <2>7. todo[next] \in Statements
    BY <1>1, <2>6
  <2>8. Statements \subseteq Nat
        /\ \A i \in Statements : difference.of[i] \notin difference.needs[difference.of[i]]
    BY StatementsFinite DEF Inv
  <2>9. s # todo[next] /\ s \in Nat /\ todo[next] \in Nat
    BY <1>1, <2>7, <2>8
  <2>10. next < k => todo[next] < todo[k]
    BY <1>1, <2>4 DEF Sound
  <2>11. k # next /\ ~(next < k)
    BY <2>4, <2>5, <2>9, <2>10
  <2>12. k \in DOMAIN request[r].ran
    <3>1. Len(request[r].ran) \in Nat /\ DOMAIN request[r].ran = 1..Len(request[r].ran)
      BY <1>1
    <3>2. k \in Nat /\ 1 <= k
      BY <2>4, <2>6
    <3> QED
      BY <2>11, <3>1, <3>2 DEF next
  <2> QED
    BY <1>1, <2>4, <2>12
<1> QED
  BY <1>1, <1>2, <1>3, <1>4

\* What is left of a difference, with whatever needs of its groups, is a finite plan.
LEMMA LeftFinite ==
  ASSUME TypeOK, NEW left \in SUBSET Statements, NEW needs
  PROVE  LET plan == [items |-> left, of |-> difference.of, needs |-> needs,
                      creates |-> difference.creates]
         IN  plan.items = left /\ IsFiniteSet(Groups(plan))
<1> DEFINE plan == [items |-> left, of |-> difference.of, needs |-> needs,
                    creates |-> difference.creates]
<1>1. plan.items = left
  OBVIOUS
<1>2. IsFiniteSet(left)
  BY StatementsFinite, FS_Subset
<1> HIDE DEF plan
<1>3. IsFiniteSet(Groups(plan))
  BY <1>1, <1>2, GroupsFinite
<1> QED
  BY <1>1, <1>3 DEF plan

LEMMA InvSelections == TypeOK => SelectionExact
<1> SUFFICES ASSUME TypeOK, NEW left \in SUBSET Statements, NEW needs, NEW items \in SUBSET left
             PROVE
               LET plan == [items |-> left, of |-> difference.of, needs |-> needs,
                            creates |-> difference.creates]
                   complete == {chosen \in SUBSET left : Closed(plan, chosen)}
               IN
               /\ Expand(plan, items) \in complete
               /\ \A other \in complete : items \subseteq other => Expand(plan, items) \subseteq other
               /\ Prune(plan, items) \in complete
               /\ \A other \in complete : other \subseteq items => other \subseteq Prune(plan, items)
  BY ZenonT(60) DEF SelectionExact
<1> DEFINE plan == [items |-> left, of |-> difference.of, needs |-> needs,
                    creates |-> difference.creates]
<1>1. plan.items = left /\ IsFiniteSet(Groups(plan))
  BY LeftFinite
<1> HIDE DEF plan
<1>2. /\ Expand(plan, items) \in SUBSET left /\ Closed(plan, Expand(plan, items))
      /\ \A other \in SUBSET left :
           Closed(plan, other) /\ items \subseteq other => Expand(plan, items) \subseteq other
  BY <1>1, ExpandIsLeastClosed
<1>3. /\ Prune(plan, items) \in SUBSET left /\ Closed(plan, Prune(plan, items))
      /\ \A other \in SUBSET left :
           Closed(plan, other) /\ other \subseteq items => other \subseteq Prune(plan, items)
  BY <1>1, PruneIsGreatestClosed
<1> QED
  BY <1>2, <1>3 DEF plan

-----------------------------------------------------------------------------
(* The theorems.                                                           *)

\* Every reachable state is typed.
THEOREM TypeCorrect == Spec => []TypeOK
<1>1. Inv => TypeOK
  BY DEF Inv
<1> QED
  BY <1>1, InvHolds, PTL

\* execute_comparison: a statement is sent to the engine when all that its group needs is
\* in effect, for every difference, mode, selection and failure.
THEOREM BasesFirst == Spec => []BaseBeforeDependent
  BY InvBase, InvHolds, PTL

\* _assert_fingerprint and the lock: only a request that somebody overtook sends what is
\* in effect.
THEOREM NothingTwice == Spec => []NoRepeat
  BY InvNoRepeat, InvHolds, PTL

\* _record_item_results: what a comparison shows as applied is in effect.
THEOREM ResultsTruthful == Spec => []ResultsTrue
<1>1. Inv => ResultsTrue
  BY DEF Inv
<1> QED
  BY <1>1, InvHolds, PTL

\* plan_integrity: for every finite difference and whatever its groups need, a selection
\* is completed to the least closed one around it, and a filter leaves the greatest closed
\* one within.
THEOREM SelectionsExact == Spec => []SelectionExact
<1>1. Inv => SelectionExact
  BY InvSelections DEF Inv
<1> QED
  BY <1>1, InvHolds, PTL
=============================================================================
