---------------------- MODULE CollationConversionProofs ----------------------
(***************************************************************************)
(* Proofs about CollationConversion, for every set of plans, every order   *)
(* of finitely many tables, any objects and any number of lost answers,    *)
(* and about CollationJobs, for any jobs, plans, requests and workers.     *)
(*                                                                         *)
(* First the groups: the fold that unites the ends of the keys, one key at *)
(* a time, gives the connected components, whatever the order.  Then what  *)
(* each action does to each field.  Then the inductive invariant, part by  *)
(* part: what the worker remembers of a group or an object whose turn it   *)
(* is, against the engine and the items; between two turns nothing is left *)
(* to remember, and the items and lost answers tell the rest.              *)
(*                                                                         *)
(* The last part is about CollationJobs, the life of the jobs around it.   *)
(* The two share no variable.                                              *)
(***************************************************************************)
EXTENDS CollationConversion, CollationJobs, FiniteSetTheorems, NaturalsInduction,
        WellFoundedInduction, TLAPS

-----------------------------------------------------------------------------
(* The inductive invariant.                                                *)

\* What the worker remembers, what an item may say, and where the worker is in a group.
Labels == {"verify", "lock", "database", "keys", "tables", "drop", "convert", "add", "undrop",
           "revert", "readd", "report", "objects", "drop object", "create object",
           "grant object", "finish", "settle", "over", "dead"}
Memory ==
  [at : Labels, todo : SUBSET Tables, objects : SUBSET Objects, failed : BOOLEAN,
   unread : BOOLEAN, object : Objects \cup {"none"}, block : SUBSET Tables,
   steps : SUBSET Tables, done : SUBSET Tables, dropped : SUBSET plan.keys,
   sweep : SUBSET plan.keys, blocking : BOOLEAN, says : [ForeignKeys -> Says]]
Items == [database : {"none", "ok", "error"}, table : [Tables -> Says], key : [ForeignKeys -> Says],
          object : [Objects -> Says]]
Types == TypeOK /\ plan \in Plans /\ w \in Memory /\ item \in Items

InGroup == w.at \in {"drop", "convert", "add", "undrop", "revert", "readd", "report"}
Restoring == w.at \in {"undrop", "revert", "readd"}

\* Whoever gave the job up or died stopped at once.
Alive == ended \notin {"escaped", "crashed"}
Living == w.at \notin {"over", "dead"} => Alive

\* The database's default is what the item of its ALTER says.
Database ==
  /\ w.at \in {"verify", "lock", "database"} => item.database = "none"
  /\ item.database = "ok" => default = "new"
  /\ managed.collation = "new" => plan.managed /\ item.database = "ok"

\* An object before its turn, during it, and after it.
Kept(x) == object[x] = "old" /\ (x \in plan.granted => x \in grants)
ObjectTrue(x) ==
  /\ item.object[x] = "ok" => object[x] = "new" /\ (x \in plan.granted => x \in grants)
  /\ item.object[x] = "kept" => Kept(x)
  /\ item.object[x] = "missing" => object[x] = "absent"
Recreated ==
  /\ w.objects \subseteq plan.objects
  /\ \A x \in w.objects : Kept(x) /\ item.object[x] = "none"
  /\ w.at \in {"drop object", "create object", "grant object"} =>
       /\ w.object \in plan.objects \ w.objects
       /\ item.object[w.object] = "open"
       /\ w.at = "drop object" => Kept(w.object)
       /\ w.at = "create object" => object[w.object] = "absent"
       /\ w.at = "grant object" => object[w.object] = "new"
  /\ \A x \in plan.objects : /\ Known(x) => ObjectTrue(x)
                             /\ object[x] = "absent" => item.object[x] # "none"

\* A table is converted once, and its item says so.
TableTrue(t) ==
  /\ item.table[t] \in {"ok", "stuck"} => t \in converted
  /\ item.table[t] \in {"kept", "skipped", "reverted"} => t \notin converted
Once ==
  /\ \A t \in Converting : Known(t) => TableTrue(t)
  /\ w.todo \cap Converting \cap converted = {}
  /\ w.steps \subseteq Converting /\ w.done \subseteq Converting \cap converted
  /\ w.steps \cap w.done = {} /\ w.todo \cap (w.steps \cup w.done) = {}
  /\ w.at \in {"drop", "convert"} => w.steps \cap converted = {}

\* A key is out of the engine while its group dropped it, or its item says so.
KeyTrue(fk) ==
  IF InGroup /\ fk \in GroupKeys(w.block) THEN fk \in w.dropped <=> fk \notin keys
  ELSE item.key[fk] = "missing" <=> fk \notin keys
Stored ==
  /\ InGroup =>
       /\ plan.engine = "mariadb" /\ w.block \in Blocks
       /\ w.sweep \subseteq GroupKeys(w.block) /\ w.dropped \subseteq GroupKeys(w.block)
       /\ \A fk \in GroupKeys(w.block) : item.key[fk] = "open"
  /\ w.at = "drop" => w.sweep \cap w.dropped = {}
  /\ w.at = "undrop" => w.sweep \cap w.dropped = {}
  /\ w.at = "add" => w.sweep = w.dropped
  /\ w.at = "report" => w.dropped = {}
  /\ w.at = "readd" => w.sweep \subseteq w.dropped
  /\ \A fk \in ForeignKeys : w.says[fk] # "none"
  /\ w.at \notin {"over", "dead"} => \A fk \in ForeignKeys :
       w.says[fk] = "missing" <=> w.at = "readd" /\ fk \in w.dropped \ w.sweep
  /\ Alive => \A fk \in plan.keys : Known(fk) => KeyTrue(fk)
  /\ \A fk \in plan.keys \ keys : item.key[fk] # "none"

\* A group before its turn, during it, and after it.
ConfessedBy(b) ==
  \/ \E t \in b \cap Converting : item.table[t] = "stuck" \/ ~Known(t)
  \/ \E fk \in GroupKeys(b) : item.key[fk] = "missing" \/ ~Known(fk)
Waiting(b) ==
  /\ b \cap Converting \subseteq w.todo
  /\ GroupKeys(b) \subseteq keys
  /\ \A fk \in GroupKeys(b) : item.key[fk] = "none"
Turn(tables) ==
  /\ w.steps \cup w.done \subseteq tables /\ w.todo \cap tables = {}
  /\ w.at = "drop" => w.steps = tables /\ w.done = {}
  /\ w.at = "convert" => w.steps \cup w.done = tables
  /\ w.at \in {"add", "report"} => w.done = tables
  /\ Restoring => \A t \in tables :
       t \notin converted \/ t \in w.done \/ item.table[t] = "stuck" \/ ~Known(t)
  /\ w.at = "readd" => w.done = {}
Grouped ==
  /\ w.at \in {"verify", "lock", "database", "keys"} =>
       w.todo = Tables /\ keys = plan.keys /\ ~w.unread
  /\ plan.engine = "mariadb" =>
       /\ w.unread => ~InGroup /\ Converting \cap converted = {} /\ keys = plan.keys
       /\ ~w.unread => \A b \in Blocks : w.todo \cap b \cap Converting # {} => Waiting(b)
       /\ InGroup => Turn(w.block \cap Converting)
       /\ Alive => \A b \in Blocks : (InGroup /\ b = w.block) \/ Whole(b) \/ ConfessedBy(b)

Inv == Types /\ Living /\ Database /\ Recreated /\ Once /\ Stored /\ Grouped

-----------------------------------------------------------------------------
(* The plan, the order of its tables.                                      *)

\* What a plan is made of.
LEMMA OfThePlan ==
  ASSUME plan \in Plans
  PROVE  /\ plan.skip \subseteq Tables /\ plan.keys \subseteq ForeignKeys
         /\ plan.objects \subseteq Objects /\ plan.granted \subseteq plan.objects
         /\ plan.default \in BOOLEAN /\ plan.managed \in BOOLEAN
         /\ plan.engine = "postgresql" => ~plan.default /\ plan.objects = {}
BY ConversionAssumption

\* The keys that touch a table to convert, and their ends.
LEMMA Relates ==
  ASSUME plan \in Plans
  PROVE  /\ Converting \subseteq Tables /\ Relevant \subseteq plan.keys
         /\ Relevant \subseteq ForeignKeys
         /\ \A fk \in Relevant : fk[1] \in Ends /\ fk[2] \in Ends
         /\ \A fk \in ForeignKeys : fk[1] \in Tables /\ fk[2] \in Tables
         /\ Ends \subseteq Tables
<1>1. \A fk \in ForeignKeys : fk[1] \in Tables /\ fk[2] \in Tables
  BY ConversionAssumption
<1>2. Converting \subseteq Tables /\ Relevant \subseteq plan.keys /\ Relevant \subseteq ForeignKeys
  BY OfThePlan DEF Converting, Relevant
<1>3. \A fk \in Relevant : fk[1] \in Ends /\ fk[2] \in Ends
  BY DEF Ends
<1>4. Ends \subseteq Tables
  BY <1>1, <1>2 DEF Ends
<1> QED
  BY <1>1, <1>2, <1>3, <1>4

\* A set of numbers has a least one; below a bound, it has a greatest one.
LEMMA LeastNatural ==
  ASSUME NEW S \in SUBSET Nat, S # {}
  PROVE  \E m \in S : \A j \in S : m <= j
<1>1. PICK m \in S : \A j \in S : <<j, m>> \notin OpToRel(<, Nat)
  BY NatLessThanWellFounded, WFMin
<1>2. \A j \in S : ~(j < m)
  BY <1>1 DEF OpToRel
<1> QED
  BY <1>2

LEMMA GreatestNatural ==
  ASSUME NEW n \in Nat, NEW S \in SUBSET (0..n), S # {}
  PROVE  \E m \in S : \A j \in S : m >= j
<1> DEFINE over == {n - j : j \in S}
<1>1. over \in SUBSET Nat /\ over # {}
  <2>1. ASSUME NEW j \in S PROVE j \in 0..n /\ n - j \in Nat
    OBVIOUS
  <2>2. PICK j \in S : TRUE
    OBVIOUS
  <2> QED
    BY <2>1, <2>2
<1>2. PICK k \in over : \A j \in over : k <= j
  <2> HIDE DEF over
  <2> QED BY <1>1, LeastNatural
<1>3. PICK m \in S : k = n - m
  OBVIOUS
<1>4. \A j \in S : n - m <= n - j
  BY <1>2, <1>3
<1> QED
  BY <1>4

\* The first and the last of some tables in the plan's order are among them.
LEMMA AmongThem ==
  ASSUME NEW tables \in SUBSET Tables, tables # {}
  PROVE  FirstOf(tables) \in tables /\ LastOf(tables) \in tables
<1> DEFINE S == Places(tables)
<1>1. /\ TableOrder \in Seq(Tables) /\ Len(TableOrder) \in Nat
      /\ DOMAIN TableOrder = 1..Len(TableOrder)
  BY ConversionAssumption
<1>2. S \subseteq DOMAIN TableOrder /\ S \in SUBSET (0..Len(TableOrder)) /\ S \in SUBSET Nat
  BY <1>1 DEF Places
<1>3. S # {}
  <2>1. PICK t \in tables : TRUE
    OBVIOUS
  <2>2. PICK n \in DOMAIN TableOrder : TableOrder[n] = t
    BY DEF Tables, Range
  <2> QED
    BY <2>1, <2>2 DEF Places
<1>4. Min(S) \in S
  <2>1. \E m \in S : \A j \in S : m <= j
    BY <1>2, <1>3, LeastNatural
  <2> QED
    BY <2>1 DEF Min
<1>5. Max(S) \in S
  <2>1. \E m \in S : \A j \in S : m >= j
    BY <1>1, <1>2, <1>3, GreatestNatural
  <2> QED
    BY <2>1 DEF Max
<1>6. \A n \in S : TableOrder[n] \in tables
  BY DEF Places
<1> QED
  BY <1>4, <1>5, <1>6 DEF FirstOf, LastOf

-----------------------------------------------------------------------------
(* The groups.                                                             *)

\* A set of ends is closed under some keys when none of them leads out of it; what a table
\* is joined to by the keys is what no closed set around the table leaves out.
ClosedUnder(s, S) == \A fk \in s : fk[1] \in S <=> fk[2] \in S
Joined(s, t) == {u \in Ends : \A S \in SUBSET Ends : t \in S /\ ClosedUnder(s, S) => u \in S}
Parts(s) == {Joined(s, t) : t \in Ends}

\* What a table is joined to is closed, and is the least closed set around it.
LEMMA JoinedIsClosed ==
  ASSUME NEW s, NEW t \in Ends, \A fk \in s : fk[1] \in Ends /\ fk[2] \in Ends
  PROVE  t \in Joined(s, t) /\ Joined(s, t) \in SUBSET Ends /\ ClosedUnder(s, Joined(s, t))
<1>1. t \in Joined(s, t) /\ Joined(s, t) \in SUBSET Ends
  BY DEF Joined
<1>2. ASSUME NEW fk \in s PROVE fk[1] \in Joined(s, t) <=> fk[2] \in Joined(s, t)
  BY DEF Joined, ClosedUnder
<1> QED
  BY <1>1, <1>2 DEF ClosedUnder

LEMMA JoinedIsLeast ==
  ASSUME NEW s, NEW t, NEW S \in SUBSET Ends, t \in S, ClosedUnder(s, S)
  PROVE  Joined(s, t) \subseteq S
BY DEF Joined

\* To be joined goes both ways: two tables of a part have the same part.
LEMMA JoinedBack ==
  ASSUME NEW s, NEW t \in Ends, NEW u \in Joined(s, t),
         \A fk \in s : fk[1] \in Ends /\ fk[2] \in Ends
  PROVE  t \in Joined(s, u) /\ Joined(s, u) = Joined(s, t)
<1>1. u \in Ends
  BY DEF Joined
<1>2. t \in Joined(s, u)
  <2>1. SUFFICES ASSUME t \notin Joined(s, u) PROVE FALSE
    OBVIOUS
  <2> DEFINE S == Ends \ Joined(s, u)
  <2>2. t \in S /\ u \notin S
    BY <1>1, <2>1, JoinedIsClosed
  <2>3. ClosedUnder(s, S)
    BY <1>1, JoinedIsClosed DEF ClosedUnder
  <2> HIDE DEF S
  <2>4. S \in SUBSET Ends
    BY DEF S
  <2> QED
    BY <2>2, <2>3, <2>4, JoinedIsLeast
<1>3. Joined(s, u) \subseteq Joined(s, t)
  BY JoinedIsClosed, JoinedIsLeast
<1>4. Joined(s, t) \subseteq Joined(s, u)
  BY <1>1, <1>2, JoinedIsClosed, JoinedIsLeast
<1> QED
  BY <1>2, <1>3, <1>4

\* One step of the fold: uniting the parts of a key's ends gives the parts of the keys so far
\* and that one.
LEMMA OneKeyMore ==
  ASSUME NEW s, NEW x, x[1] \in Ends, x[2] \in Ends,
         \A fk \in s : fk[1] \in Ends /\ fk[2] \in Ends
  PROVE  Union(x, Parts(s)) = Parts(s \cup {x})
<1> DEFINE J == Joined(s, x[1]) \cup Joined(s, x[2])
           more == s \cup {x}
<1>0. \A fk \in more : fk[1] \in Ends /\ fk[2] \in Ends
  OBVIOUS
<1>1. J \in SUBSET Ends /\ x[1] \in J /\ x[2] \in J
  BY JoinedIsClosed
<1>2. ClosedUnder(more, J)
  <2>1. ClosedUnder(s, Joined(s, x[1])) /\ ClosedUnder(s, Joined(s, x[2]))
    BY JoinedIsClosed
  <2> QED
    BY <1>1, <2>1 DEF ClosedUnder
<1>3. \A S \in SUBSET Ends :
        ClosedUnder(more, S) <=> ClosedUnder(s, S) /\ (x[1] \in S <=> x[2] \in S)
  BY DEF ClosedUnder
<1>4. ASSUME NEW t \in J PROVE t \in Ends /\ Joined(more, t) = J
  <2>1. t \in Ends /\ Joined(more, t) \subseteq J
    BY <1>1, <1>2, JoinedIsLeast
  <2> DEFINE S == Joined(more, t)
  <2>2. S \in SUBSET Ends /\ t \in S /\ ClosedUnder(s, S) /\ (x[1] \in S <=> x[2] \in S)
    BY <1>0, <1>3, <2>1, JoinedIsClosed
  <2> HIDE DEF S
  <2>3. Joined(s, t) \subseteq S
    BY <2>2, JoinedIsLeast
  <2>4. CASE t \in Joined(s, x[1])
    <3>1. x[1] \in S
      BY <2>3, <2>4, JoinedBack
    <3>2. Joined(s, x[1]) \subseteq S /\ Joined(s, x[2]) \subseteq S
      BY <2>2, <3>1, JoinedIsLeast
    <3> QED
      BY <2>1, <3>2 DEF S
  <2>5. CASE t \in Joined(s, x[2])
    <3>1. x[2] \in S
      BY <2>3, <2>5, JoinedBack
    <3>2. Joined(s, x[1]) \subseteq S /\ Joined(s, x[2]) \subseteq S
      BY <2>2, <3>1, JoinedIsLeast
    <3> QED
      BY <2>1, <3>2 DEF S
  <2> QED
    BY <2>4, <2>5
<1>5. ASSUME NEW t \in Ends, t \notin J
      PROVE  Joined(more, t) = Joined(s, t) /\ x[1] \notin Joined(s, t) /\ x[2] \notin Joined(s, t)
  <2>1. x[1] \notin Joined(s, t) /\ x[2] \notin Joined(s, t)
    BY <1>5, JoinedBack
  <2> DEFINE S == Joined(s, t)
             M == Joined(more, t)
  <2>2. S \in SUBSET Ends /\ t \in S /\ ClosedUnder(more, S)
    BY <1>3, <2>1, JoinedIsClosed
  <2>3. M \in SUBSET Ends /\ t \in M /\ ClosedUnder(s, M)
    BY <1>0, <1>3, JoinedIsClosed
  <2>4. M \subseteq S
    <3> HIDE DEF S
    <3> QED BY <2>2, JoinedIsLeast
  <2>5. S \subseteq M
    <3> HIDE DEF M
    <3> QED BY <2>3, JoinedIsLeast
  <2> QED
    BY <2>1, <2>4, <2>5
<1> DEFINE joined == {b \in Parts(s) : x[1] \in b \/ x[2] \in b}
<1>6. joined = {Joined(s, x[1]), Joined(s, x[2])}
  <2>1. Joined(s, x[1]) \in joined /\ Joined(s, x[2]) \in joined
    BY JoinedIsClosed DEF Parts
  <2>2. ASSUME NEW b \in joined PROVE b = Joined(s, x[1]) \/ b = Joined(s, x[2])
    <3>1. PICK t \in Ends : b = Joined(s, t)
      BY DEF Parts
    <3> QED
      BY <2>2, <3>1, JoinedBack
  <2> QED
    BY <2>1, <2>2
<1>7. UNION joined = J
  BY <1>6
<1>8. Union(x, Parts(s)) = (Parts(s) \ joined) \cup {J}
  BY <1>7 DEF Union
<1> HIDE DEF J, joined, more
<1>9. J \in Parts(more)
  <2>1. J = Joined(more, x[1])
    BY <1>1, <1>4
  <2> QED
    BY <2>1 DEF Parts
<1>10. ASSUME NEW b \in Parts(s) \ joined PROVE b \in Parts(more)
  <2>1. PICK t \in Ends : b = Joined(s, t)
    BY DEF Parts
  <2>2. t \notin J
    <3>1. SUFFICES ASSUME t \in J PROVE FALSE
      OBVIOUS
    <3>2. t \in Joined(s, x[1]) \/ t \in Joined(s, x[2])
      BY <3>1 DEF J
    <3> QED
      BY <1>6, <1>10, <2>1, <3>2, JoinedBack
  <2> QED
    BY <1>5, <2>1, <2>2 DEF Parts
<1>11. ASSUME NEW b \in Parts(more), b # J PROVE b \in Parts(s) \ joined
  <2>1. PICK t \in Ends : b = Joined(more, t)
    BY DEF Parts
  <2>2. t \notin J
    BY <1>4, <1>11, <2>1
  <2>3. b = Joined(s, t) /\ x[1] \notin b /\ x[2] \notin b
    BY <1>5, <2>1, <2>2
  <2> QED
    BY <2>3 DEF Parts, joined
<1>12. more = s \cup {x}
  BY DEF more
<1> QED
  BY <1>8, <1>9, <1>10, <1>11, <1>12

\* The fold of the keys is a function over sets of keys.  The parts satisfy its equation,
\* and nothing else does: no smallest set of keys has another result.
Folds(f) ==
  f = [s \in SUBSET Relevant |->
        IF s = {} THEN {{t} : t \in Ends}
        ELSE Union(CHOOSE x \in s : TRUE, f[s \ {CHOOSE x \in s : TRUE}])]

\* Where the fold starts: no key joins anything.
LEMMA PartsOfNone ==
  Parts({}) = {{t} : t \in Ends}
<1>1. ASSUME NEW t \in Ends PROVE Joined({}, t) = {t}
  <2>1. t \in Joined({}, t)
    BY DEF Joined
  <2>2. Joined({}, t) \subseteq {t}
    <3>1. ClosedUnder({}, {t}) /\ {t} \in SUBSET Ends
      BY DEF ClosedUnder
    <3> QED
      BY <3>1, JoinedIsLeast
  <2> QED
    BY <2>1, <2>2
<1> QED
  BY <1>1 DEF Parts

\* The step of the fold, from the set without one of its keys, whichever it is.
LEMMA PartsOfMore ==
  ASSUME NEW s \in SUBSET Relevant, NEW x \in s
  PROVE  Parts(s) = Union(x, Parts(s \ {x}))
<1>1. \A fk \in s : fk[1] \in Ends /\ fk[2] \in Ends
  BY DEF Ends
<1>2. (s \ {x}) \cup {x} = s
  OBVIOUS
<1> QED
  BY <1>1, <1>2, OneKeyMore

\* The parts satisfy the equation of the fold.
LEMMA FoldExists ==
  \E f : Folds(f)
<1> DEFINE f == [s \in SUBSET Relevant |-> Parts(s)]
           pick(s) == CHOOSE x \in s : TRUE
<1>1. ASSUME NEW s \in SUBSET Relevant
      PROVE  f[s] = IF s = {} THEN {{t} : t \in Ends} ELSE Union(pick(s), f[s \ {pick(s)}])
  <2>1. CASE s = {}
    BY <2>1, PartsOfNone
  <2>2. CASE s # {}
    <3>1. pick(s) \in s /\ s \ {pick(s)} \in SUBSET Relevant
      BY <2>2
    <3> HIDE DEF pick
    <3> QED
      BY <2>2, <3>1, PartsOfMore
  <2> QED
    BY <2>1, <2>2
<1>2. f = [s \in SUBSET Relevant |->
             IF s = {} THEN {{t} : t \in Ends} ELSE Union(pick(s), f[s \ {pick(s)}])]
  <2> HIDE DEF pick
  <2> QED BY <1>1
<1> HIDE DEF f
<1> QED
  BY <1>2, Zenon DEF Folds

\* Whatever satisfies the equation is the parts: there is no smallest exception.
LEMMA FoldUnique ==
  ASSUME IsFiniteSet(Relevant), NEW f, Folds(f), NEW s \in SUBSET Relevant
  PROVE  f[s] = Parts(s)
<1> DEFINE wrong == {bad \in SUBSET Relevant : f[bad] # Parts(bad)}
<1>1. SUFFICES ASSUME wrong # {} PROVE FALSE
  OBVIOUS
<1>2. PICK bad \in wrong : \A other \in wrong : ~(other \subseteq bad /\ other # bad)
  <2>1. wrong \in SUBSET SUBSET Relevant
    OBVIOUS
  <2>2. IsWellFoundedOn(StrictSubsetOrdering(Relevant), SUBSET Relevant)
    BY FS_StrictSubsetOrderingWellFounded, FS_FiniteSubsetsOfFinite
  <2> HIDE DEF wrong
  <2>3. PICK bad \in wrong :
          \A other \in wrong : <<other, bad>> \notin StrictSubsetOrdering(Relevant)
    BY <1>1, <2>1, <2>2, WFMin
  <2> QED
    BY <2>1, <2>3 DEF StrictSubsetOrdering
<1> DEFINE pick == CHOOSE x \in bad : TRUE
<1>3. f[bad] = IF bad = {} THEN {{t} : t \in Ends} ELSE Union(pick, f[bad \ {pick}])
  BY DEF Folds
<1>4. CASE bad = {}
  BY <1>3, <1>4, PartsOfNone
<1>5. CASE bad # {}
  <2>1. pick \in bad /\ bad \ {pick} \in SUBSET Relevant
    BY <1>5
  <2> HIDE DEF pick
  <2>2. f[bad \ {pick}] = Parts(bad \ {pick})
    BY <1>2, <2>1
  <2> QED
    BY <1>3, <1>5, <2>1, <2>2, PartsOfMore
<1> QED
  BY <1>4, <1>5

\* The plan orders finitely many tables, so there are finitely many keys between them.
LEMMA FinitelyManyKeys ==
  ASSUME plan \in Plans
  PROVE  IsFiniteSet(Relevant)
<1>1. /\ TableOrder \in Seq(Tables) /\ Len(TableOrder) \in Nat
      /\ DOMAIN TableOrder = 1..Len(TableOrder)
  BY ConversionAssumption
<1>2. IsFiniteSet(DOMAIN TableOrder)
  BY <1>1, FS_Interval
<1>3. TableOrder \in Surjection(DOMAIN TableOrder, Tables)
  BY <1>1 DEF Surjection, Tables, Range
<1>4. IsFiniteSet(Tables)
  BY <1>2, <1>3, FS_Surjection
<1>5. IsFiniteSet(Tables \X Tables)
  BY <1>4, FS_Product
<1> QED
  BY <1>5, Relates, ConversionAssumption, FS_Subset

\* _fk_groups, lines 2017 to 2036.  Whatever the keys of the schema and whatever order they
\* are joined in, the groups are what the keys join.
LEMMA BlocksAreParts ==
  ASSUME plan \in Plans
  PROVE  Blocks = Parts(Relevant)
<1>1. PICK f : Blocks = f[Relevant] /\ f = CHOOSE g : Folds(g)
  BY Zenon DEF Blocks, FoldSet, MapThenFoldSet, Folds
<1>2. Folds(f)
  BY <1>1, FoldExists
<1> QED
  BY <1>1, <1>2, FinitelyManyKeys, FoldUnique

\* A table at a key is in one group, a group has its own keys, and each key is of one.
LEMMA Partition ==
  ASSUME plan \in Plans
  PROVE  /\ \A t \in Ends : /\ BlockOf(t) \in Blocks /\ t \in BlockOf(t)
                            /\ BlockOf(t) = Joined(Relevant, t)
         /\ \A b \in Blocks : b \in SUBSET Ends /\ b \in SUBSET Tables
         /\ \A b \in Blocks : \A t \in b : t \in Ends /\ BlockOf(t) = b
         /\ \A b \in Blocks : \A fk \in GroupKeys(b) : fk \in Relevant /\ fk[1] \in b /\ fk[2] \in b
         /\ \A fk \in Relevant : fk \in GroupKeys(BlockOf(fk[1])) /\ fk[2] \in BlockOf(fk[1])
         /\ \A b \in Blocks : \A c \in Blocks : b # c => GroupKeys(b) \cap GroupKeys(c) = {}
<1>0. \A fk \in Relevant : fk[1] \in Ends /\ fk[2] \in Ends
  BY Relates
<1>1. ASSUME NEW b \in Blocks
      PROVE  b \in SUBSET Ends /\ ClosedUnder(Relevant, b) /\ \A t \in b : b = Joined(Relevant, t)
  <2>1. PICK t \in Ends : b = Joined(Relevant, t)
    BY BlocksAreParts DEF Parts
  <2> QED
    BY <1>0, <2>1, JoinedIsClosed, JoinedBack
<1>2. ASSUME NEW t \in Ends
      PROVE  BlockOf(t) \in Blocks /\ t \in BlockOf(t) /\ BlockOf(t) = Joined(Relevant, t)
  <2>1. Joined(Relevant, t) \in Blocks /\ t \in Joined(Relevant, t)
    BY <1>0, BlocksAreParts, JoinedIsClosed DEF Parts
  <2>2. BlockOf(t) \in Blocks /\ t \in BlockOf(t)
    BY <2>1 DEF BlockOf
  <2> QED
    BY <1>1, <2>2
<1>3. \A b \in Blocks : \A t \in b : t \in Ends /\ BlockOf(t) = b
  BY <1>1, <1>2
<1>4. \A b \in Blocks : \A fk \in GroupKeys(b) : fk \in Relevant /\ fk[1] \in b /\ fk[2] \in b
  BY <1>1 DEF GroupKeys, ClosedUnder
<1>5. \A fk \in Relevant : fk \in GroupKeys(BlockOf(fk[1])) /\ fk[2] \in BlockOf(fk[1])
  BY <1>0, <1>1, <1>2 DEF GroupKeys, ClosedUnder
<1>6. \A b \in Blocks : b \in SUBSET Tables
  BY <1>1, Relates
<1> QED
  BY <1>1, <1>2, <1>3, <1>4, <1>5, <1>6

\* _fk_groups: two tables are of one group exactly when keys connect them.
LEMMA Components ==
  ASSUME plan \in Plans
  PROVE  GroupsAreComponents
<1>1. SUFFICES ASSUME NEW t \in Ends, NEW u \in Ends
      PROVE  BlockOf(t) = BlockOf(u) <=> Connected(t, u)
  BY DEF GroupsAreComponents
<1>2. Connected(t, u) <=> u \in Joined(Relevant, t)
  BY DEF Connected, Joined, ClosedUnder
<1> QED
  BY <1>1, <1>2, Partition

-----------------------------------------------------------------------------
(* Types.                                                                  *)

\* The state a job starts in has its type.
LEMMA TypesInit ==
  ASSUME Init
  PROVE  Types
<1>1. plan \in Plans
  BY DEF Init
<1>2. w \in Memory
  <2>1. plan.objects \subseteq Objects
    BY <1>1, OfThePlan
  <2>2. Open \in [ForeignKeys -> Says]
    BY DEF Open, Says
  <2> QED
    BY <2>1, <2>2 DEF Init, Fresh, Memory, Labels
<1>3. item \in Items
  BY DEF Init, Items, Says
<1>4. TypeOK
  BY <1>1, <1>3, OfThePlan DEF Init, TypeOK, Items
<1> QED
  BY <1>1, <1>2, <1>3, <1>4 DEF Types

\* What the types say of the fields, for the steps that follow.
LEMMA TypesGives ==
  ASSUME Types
  PROVE  /\ plan \in Plans /\ w \in Memory /\ item \in Items
         /\ w.at \in Labels /\ w.todo \in SUBSET Tables /\ w.steps \in SUBSET Tables
         /\ w.done \in SUBSET Tables /\ w.block \in SUBSET Tables
         /\ w.dropped \in SUBSET plan.keys /\ w.sweep \in SUBSET plan.keys
         /\ w.failed \in BOOLEAN /\ w.says \in [ForeignKeys -> Says]
         /\ Open \in [ForeignKeys -> Says]
         /\ \A b \in Blocks : GroupKeys(b) \in SUBSET plan.keys /\ b \in SUBSET Tables
<1>1. plan \in Plans /\ w \in Memory /\ item \in Items
  BY DEF Types
<1>2. \A b \in Blocks : GroupKeys(b) \in SUBSET plan.keys /\ b \in SUBSET Tables
  BY <1>1, Relates, Partition DEF GroupKeys
<1>3. Open \in [ForeignKeys -> Says]
  BY DEF Open, Says
<1> QED
  BY <1>1, <1>2, <1>3 DEF Memory

\* The table whose turn it is, and the tables and keys a group is restored by.
LEMMA TheTurn ==
  ASSUME Types, AtTable
  PROVE  Next1 \in w.todo /\ Next1 \in Tables
BY TypesGives, AmongThem DEF AtTable, Next1

LEMMA TheGroup ==
  ASSUME Types, AtTable, HasGroup(Next1)
  PROVE  /\ BlockOf(Next1) \in Blocks /\ Next1 \in BlockOf(Next1)
         /\ BlockOf(Next1) \in SUBSET Tables /\ GroupKeys(BlockOf(Next1)) \in SUBSET plan.keys
BY TypesGives, Partition DEF HasGroup

\* The updates of the memory that a group is reported and restored by keep its type.
LEMMA SaidType ==
  ASSUME NEW r \in Memory, NEW fks, NEW what \in Says
  PROVE  /\ Said(r, fks, what) \in Memory
         /\ Said(r, fks, what) = [r EXCEPT !.says = Said(r, fks, what).says]
BY DEF Said, Memory

LEMMA RestoreType ==
  ASSUME NEW r \in Memory, \A b \in SUBSET Tables : GroupKeys(b) \in SUBSET plan.keys
  PROVE  Restore(r) \in Memory
BY DEF Restore, Memory, Labels

\* Every step keeps the types.
LEMMA TypesStep ==
  ASSUME Types, [Next]_vars
  PROVE  Types'
<1> DEFINE JobRow == [status : {"running", "succeeded", "failed", "canceled", "interrupted"},
                      cancel : BOOLEAN]
           Rows == [status : {"active", "error"}, collation : {"old", "new"}]
<1>1. /\ plan \in Plans /\ w \in Memory /\ item \in Items
      /\ job \in JobRow /\ managed \in Rows /\ default \in {"old", "new"}
      /\ converted \in SUBSET Tables /\ keys \in SUBSET plan.keys
      /\ object \in [Objects -> {"old", "new", "absent"}] /\ grants \in SUBSET plan.granted
  BY DEF Types, TypeOK
<1>2. \A b \in SUBSET Tables : GroupKeys(b) \in SUBSET plan.keys
  BY <1>1, Relates DEF GroupKeys
<1>3. SUFFICES /\ plan' = plan /\ w' \in Memory /\ item' \in Items
               /\ job' \in JobRow /\ managed' \in Rows /\ default' \in {"old", "new"}
               /\ converted' \in SUBSET Tables /\ keys' \in SUBSET plan.keys
               /\ object' \in [Objects -> {"old", "new", "absent"}]
               /\ grants' \in SUBSET plan.granted
  BY <1>1 DEF Types, TypeOK, Items, Says, Memory
<1> USE <1>1, <1>2
<1> USE DEF gateway, remote
<1>4. ASSUME NEW l \in Labels, Goto(l) PROVE w' \in Memory
  BY <1>4 DEF Goto, Memory
<1>5. CASE Verify \/ Drifted \/ Locked \/ LockBusy \/ NoDatabaseStep \/ CancelSeen \/ Escape
           \/ Crash \/ Sweep \/ Cancel
  BY <1>5, <1>4 DEF Verify, Drifted, Locked, LockBusy, NoDatabaseStep, CancelSeen, Escape,
                    Crash, Sweep, Cancel, Abandon, Labels
<1>6. CASE TablesDone \/ ObjectsDone \/ FinishStatus \/ FinishManaged \/ Undropped
  BY <1>6, <1>4 DEF TablesDone, ObjectsDone, FinishStatus, FinishManaged, Undropped,
     Labels, Synced
<1>7. CASE SkipTable \/ RefuseTable
  <2> USE <1>7, TheTurn
  <2>1. w' \in Memory
    <3>1. CASE SkipTable
      BY <3>1 DEF SkipTable, Memory
    <3>2. CASE RefuseTable
      BY <3>2 DEF RefuseTable, Memory
    <3> QED
      BY <3>1, <3>2
  <2>2. item' \in Items
    BY DEF SkipTable, RefuseTable, Items, Says
  <2> QED
    BY <2>1, <2>2 DEF SkipTable, RefuseTable
<1>8. CASE \E unread \in BOOLEAN : ReadKeys(unread)
  <2>1. PICK unread \in BOOLEAN : ReadKeys(unread)
    BY <1>8
  <2>2. w' \in Memory
    <3>1. "tables" \in Labels
      BY DEF Labels
    <3> QED
      BY <2>1, <3>1 DEF ReadKeys, Memory
  <2> QED
    BY <2>1, <2>2 DEF ReadKeys
<1>9. ASSUME NEW o \in Outcome, AlterDatabase(o) PROVE <1>3!1
  <2>1. "keys" \in Labels /\ "finish" \in Labels
    BY DEF Labels
  <2>2. w' \in Memory
    BY <1>9, <2>1 DEF AlterDatabase, Memory
  <2>3. item' \in Items
    BY <1>9 DEF AlterDatabase, Items
  <2> QED
    BY <1>9, <2>2, <2>3 DEF AlterDatabase
<1>10. ASSUME NEW o \in Outcome, ConvertTable(o) PROVE <1>3!1
  <2> USE <1>10, TheTurn
  <2>1. w' \in Memory
    BY DEF ConvertTable, Memory
  <2>2. item' \in Items
    BY DEF ConvertTable, Items, Says
  <2>3. converted' \in SUBSET Tables
    BY DEF ConvertTable, Convert, Effective
  <2> QED
    BY <2>1, <2>2, <2>3 DEF ConvertTable
<1>11. CASE GroupUnknown
  <2> USE <1>11, TheTurn, TheGroup
  <2>1. w' \in Memory
    BY DEF GroupUnknown, Memory
  <2>2. item' \in Items
    BY DEF GroupUnknown, Items, Says
  <2> QED
    BY <2>1, <2>2 DEF GroupUnknown
<1>12. CASE GroupCopies
  <2> USE <1>12, TheTurn, TheGroup
  <2>1. w' \in Memory
    BY DEF GroupCopies, Memory, Labels
  <2>2. item' \in Items
    BY DEF GroupCopies, Items, Says
  <2> QED
    BY <2>1, <2>2 DEF GroupCopies
<1>13. ASSUME NEW fk \in ForeignKeys, NEW o \in Outcome, GroupDrop(fk, o) PROVE <1>3!1
  <2> USE <1>13
  <2>1. w' \in Memory
    <3>1. CASE o = "applied"
      <4>1. "convert" \in Labels /\ "drop" \in Labels
        BY DEF Labels
      <4>2. w' = [w EXCEPT !.sweep = @ \ {fk}, !.dropped = @ \cup {fk},
                           !.at = IF w.sweep = {fk} THEN "convert" ELSE "drop"]
        BY <3>1 DEF GroupDrop
      <4>3. fk \in plan.keys
        BY TypesGives DEF GroupDrop
      <4> QED
        BY <4>1, <4>2, <4>3 DEF Memory
    <3>2. CASE o # "applied"
      <4> DEFINE r == [w EXCEPT !.failed = TRUE]
      <4>1. r \in Memory
        BY DEF Memory
      <4>2. w' = Restore(Said(r, w.sweep, "kept"))
        BY <3>2 DEF GroupDrop
      <4> HIDE DEF r
      <4>3. Said(r, w.sweep, "kept") \in Memory
        BY <4>1, SaidType DEF Says
      <4> QED
        BY <4>2, <4>3, RestoreType
    <3> QED
      BY <3>1, <3>2
  <2>2. item' \in Items
    BY DEF GroupDrop, Items, Says
  <2>3. keys' \in SUBSET plan.keys
    BY DEF GroupDrop, Drop
  <2> QED
    BY <2>1, <2>2, <2>3 DEF GroupDrop
<1>14. ASSUME NEW o \in Outcome, GroupConvert(o) PROVE <1>3!1
  <2> USE <1>14
  <2> DEFINE t == FirstOf(w.steps)
  <2>0. t \in Tables
    BY TypesGives, AmongThem DEF GroupConvert
  <2>1. w' \in Memory
    <3>1. CASE o = "applied"
      BY <2>0, <3>1 DEF GroupConvert, Memory
    <3>2. CASE o # "applied"
      <4> DEFINE r == [w EXCEPT !.failed = TRUE]
      <4>1. r \in Memory
        BY DEF Memory
      <4>2. w' = Restore(r)
        BY <3>2 DEF GroupConvert
      <4> QED
        BY <4>1, <4>2, RestoreType
    <3> QED
      BY <3>1, <3>2
  <2>2. item' \in Items
    <3>1. item' = [item EXCEPT !.table = [u \in Tables |->
          CASE u = t -> IF o = "applied" THEN "ok" ELSE "kept"
            [] o # "applied" /\ u \in w.steps \ {t} -> "skipped"
            [] OTHER -> item.table[u]]]
      BY DEF GroupConvert
    <3> HIDE DEF t
    <3> QED
      BY <3>1 DEF Items, Says
  <2>3. converted' \in SUBSET Tables
    BY <2>0 DEF GroupConvert, Convert, Effective
  <2> QED
    BY <2>1, <2>2, <2>3 DEF GroupConvert
<1>15. CASE GroupConverted \/ Reverted
  <2>1. "add" \in Labels /\ "readd" \in Labels
    BY DEF Labels
  <2>2. w' \in Memory
    <3>1. CASE GroupConverted
      BY <2>1, <3>1 DEF GroupConverted, Memory
    <3>2. CASE Reverted
      BY <2>1, <3>2 DEF Reverted, Memory
    <3> QED
      BY <1>15, <3>1, <3>2
  <2> QED
    BY <1>15, <2>2 DEF GroupConverted, Reverted
<1>16. ASSUME NEW fk \in ForeignKeys, NEW o \in Outcome, GroupAdd(fk, o) PROVE <1>3!1
  <2> USE <1>16
  <2>1. w' \in Memory
    <3>1. CASE o = "applied"
      <4> DEFINE r == Said(w, {fk}, "ok")
      <4>1. r \in Memory
        BY SaidType DEF Says
      <4>2. w' = [r EXCEPT !.sweep = @ \ {fk}, !.dropped = @ \ {fk},
                           !.at = IF w.sweep = {fk} THEN "report" ELSE "add"]
        BY <3>1 DEF GroupAdd
      <4> HIDE DEF r
      <4> QED
        BY <4>1, <4>2 DEF Memory, Labels
    <3>2. CASE o # "applied"
      <4> DEFINE r == [w EXCEPT !.failed = TRUE]
      <4>1. r \in Memory
        BY DEF Memory
      <4>2. w' = Restore(Said(r, {fk}, "failed"))
        BY <3>2 DEF GroupAdd
      <4> HIDE DEF r
      <4>3. Said(r, {fk}, "failed") \in Memory
        BY <4>1, SaidType DEF Says
      <4> QED
        BY <4>2, <4>3, RestoreType
    <3> QED
      BY <3>1, <3>2
  <2>2. keys' \in SUBSET plan.keys
    BY TypesGives DEF GroupAdd, Add
  <2> QED
    BY <2>1, <2>2 DEF GroupAdd
<1>17. ASSUME NEW fk \in ForeignKeys, NEW o \in Outcome, Undrop(fk, o) PROVE <1>3!1
  <2> USE <1>17
  <2> DEFINE r == [w EXCEPT !.sweep = @ \ {fk}]
  <2>0. r \in Memory
    BY DEF Memory
  <2>1. w' \in Memory
    <3>1. CASE o = "applied"
      <4>1. w' = [r EXCEPT !.dropped = @ \cup {fk}] /\ fk \in plan.keys
        BY <3>1, TypesGives DEF Undrop
      <4> HIDE DEF r
      <4> QED
        BY <2>0, <4>1 DEF Memory
    <3>2. CASE o # "applied"
      <4>1. w' = [Said(r, {fk}, "kept") EXCEPT !.blocking = TRUE]
        BY <3>2 DEF Undrop
      <4> HIDE DEF r
      <4>2. Said(r, {fk}, "kept") \in Memory
        BY <2>0, SaidType DEF Says
      <4> QED
        BY <4>1, <4>2 DEF Memory
    <3> QED
      BY <3>1, <3>2
  <2>2. keys' \in SUBSET plan.keys
    BY DEF Undrop, Drop
  <2> QED
    BY <2>1, <2>2 DEF Undrop
<1>18. ASSUME NEW o \in Outcome, Revert(o) PROVE <1>3!1
  <2> USE <1>18
  <2> DEFINE t == LastOf(w.done)
  <2>0. t \in Tables
    BY TypesGives, AmongThem DEF Revert
  <2>1. w' \in Memory
    BY DEF Revert, Memory
  <2>2. item' \in Items
    BY <2>0 DEF Revert, Items, Says
  <2>3. converted' \in SUBSET Tables
    BY DEF Revert
  <2> QED
    BY <2>1, <2>2, <2>3 DEF Revert
<1>19. ASSUME NEW fk \in ForeignKeys, NEW o \in Outcome, Readd(fk, o) PROVE <1>3!1
  <2> USE <1>19
  <2> DEFINE r == [w EXCEPT !.sweep = @ \ {fk}]
             d == [r EXCEPT !.dropped = @ \ {fk}]
  <2>0. r \in Memory
    BY DEF Memory
  <2>1. d \in Memory
    <3> HIDE DEF r
    <3> QED BY <2>0 DEF Memory
  <2>2. w' = IF o = "applied" THEN Said(d, {fk}, "restored") ELSE Said(r, {fk}, "missing")
    BY DEF Readd
  <2>3. w' \in Memory
    <3> HIDE DEF r, d
    <3> QED BY <2>0, <2>1, <2>2, SaidType DEF Says
  <2>4. keys' \in SUBSET plan.keys
    BY TypesGives DEF Readd, Add
  <2> QED
    BY <2>3, <2>4 DEF Readd
<1>20. CASE GroupReport
  <2> USE <1>20
  <2>1. w' \in Memory
    <3>1. "tables" \in Labels
      BY DEF Labels
    <3> QED
      BY <3>1, TypesGives DEF GroupReport, Memory
  <2>2. item' \in Items
    BY TypesGives DEF GroupReport, Items
  <2> QED
    BY <2>1, <2>2 DEF GroupReport
<1>21. ASSUME NEW x \in Objects, ObjectUnread(x) \/ ObjectCopy(x) PROVE <1>3!1
  <2> USE <1>21
  <2>1. w' \in Memory
    <3>1. "drop object" \in Labels
      BY DEF Labels
    <3>2. CASE ObjectUnread(x)
      BY <3>2 DEF ObjectUnread, Memory
    <3>3. CASE ObjectCopy(x)
      BY <3>1, <3>3 DEF ObjectCopy, Memory
    <3> QED
      BY <3>2, <3>3
  <2>2. item' \in Items
    BY DEF ObjectUnread, ObjectCopy, Items, Says
  <2> QED
    BY <2>1, <2>2 DEF ObjectUnread, ObjectCopy
<1>22. ASSUME NEW x \in Objects, NEW o \in Outcome, ObjectDrop(x, o) PROVE <1>3!1
  <2>1. \/ w' = [w EXCEPT !.at = "create object"] /\ item' = item
        \/ w' = [w EXCEPT !.at = "objects", !.failed = TRUE]
           /\ item' = [item EXCEPT !.object[x] = "kept"]
    BY <1>22 DEF ObjectDrop, Goto
  <2>2. w' \in Memory
    <3>1. "objects" \in Labels /\ "create object" \in Labels
      BY DEF Labels
    <3>2. ASSUME w' = [w EXCEPT !.at = "create object"] PROVE w' \in Memory
      BY <3>1, <3>2 DEF Memory
    <3>3. ASSUME w' = [w EXCEPT !.at = "objects", !.failed = TRUE] PROVE w' \in Memory
      BY <3>1, <3>3 DEF Memory
    <3> QED
      BY <2>1, <3>2, <3>3
  <2>3. item' \in Items
    <3>1. "kept" \in Says
      BY DEF Says
    <3>2. ASSUME item' = [item EXCEPT !.object[x] = "kept"] PROVE item' \in Items
      BY <3>1, <3>2 DEF Items
    <3> QED
      BY <2>1, <3>2
  <2>4. object' \in [Objects -> {"old", "new", "absent"}] /\ grants' \in SUBSET plan.granted
    BY <1>22 DEF ObjectDrop, Effective
  <2> QED
    BY <1>22, <2>2, <2>3, <2>4 DEF ObjectDrop
<1>25. ASSUME NEW x \in Objects, NEW o \in Outcome, ObjectCreate(x, o) PROVE <1>3!1
  <2>1. \/ w' = [w EXCEPT !.at = "grant object"] /\ item' = item
        \/ w' = [w EXCEPT !.at = "objects", !.failed = TRUE]
           /\ item' = [item EXCEPT !.object[x] = "missing"]
    BY <1>25 DEF ObjectCreate, Goto
  <2>2. w' \in Memory
    <3>1. "objects" \in Labels /\ "grant object" \in Labels
      BY DEF Labels
    <3>2. ASSUME w' = [w EXCEPT !.at = "grant object"] PROVE w' \in Memory
      BY <3>1, <3>2 DEF Memory
    <3>3. ASSUME w' = [w EXCEPT !.at = "objects", !.failed = TRUE] PROVE w' \in Memory
      BY <3>1, <3>3 DEF Memory
    <3> QED
      BY <2>1, <3>2, <3>3
  <2>3. item' \in Items
    <3>1. "missing" \in Says
      BY DEF Says
    <3>2. ASSUME item' = [item EXCEPT !.object[x] = "missing"] PROVE item' \in Items
      BY <3>1, <3>2 DEF Items
    <3> QED
      BY <2>1, <3>2
  <2>4. object' \in [Objects -> {"old", "new", "absent"}]
    BY <1>25 DEF ObjectCreate, Effective
  <2> QED
    BY <1>25, <2>2, <2>3, <2>4 DEF ObjectCreate
<1>23. ASSUME NEW x \in Objects, NEW ok \in BOOLEAN, ObjectGrant(x, ok) PROVE <1>3!1
  <2> USE <1>23
  <2>1. w' \in Memory
    <3>1. "objects" \in Labels
      BY DEF Labels
    <3> QED
      BY <3>1 DEF ObjectGrant, Memory
  <2>2. item' \in Items
    BY DEF ObjectGrant, Items, Says
  <2> QED
    BY <2>1, <2>2 DEF ObjectGrant
<1>24. CASE UNCHANGED vars
  BY <1>24 DEF vars
<1> QED
  BY <1>5, <1>6, <1>7, <1>8, <1>9, <1>10, <1>11, <1>12, <1>13, <1>14, <1>15, <1>16, <1>17,
     <1>18, <1>19, <1>20, <1>21, <1>22, <1>23, <1>24, <1>25 DEF Next, Worker, Group, Recreate

-----------------------------------------------------------------------------
(* What the steps do, field by field.                                      *)

\* the fields of the worker's memory that only a group uses, and those it leaves alone
GroupFields == <<w.block, w.steps, w.done, w.dropped, w.sweep, w.says>>
OtherFields == <<w.objects, w.object, w.unread, w.block>>
Engine == <<default, converted, keys, object, grants>>

\* Steps that only move the worker on, or end its work.
LEMMA MoveDoes ==
  ASSUME Types,
         \/ Verify \/ Drifted \/ Locked \/ LockBusy \/ NoDatabaseStep \/ CancelSeen
         \/ TablesDone \/ ObjectsDone \/ FinishStatus \/ FinishManaged \/ Undropped
         \/ Escape \/ Crash \/ Sweep \/ Cancel
  PROVE  /\ UNCHANGED <<plan, item, lost, Engine, GroupFields, OtherFields, w.todo>>
         /\ \/ w'.at = w.at /\ ended' = ended
            \/ w'.at = "dead" /\ ended' = "crashed"
            \/ w'.at = "over" /\ ended' = "escaped"
            \/ w.at \in {"verify", "lock"} /\ w'.at = "over" /\ ended' = "untouched"
            \/ w.at \in {"tables", "objects"} /\ w'.at = "over" /\ ended' = "canceled"
            \/ w.at = "finish" /\ w'.at = "settle" /\ ended' = "finished"
            \/ <<w.at, w'.at>> \in {<<"verify", "lock">>, <<"lock", "database">>,
                  <<"database", "keys">>, <<"objects", "finish">>, <<"settle", "over">>}
               /\ ended' = ended
            \/ w.at = "tables" /\ w'.at = "objects" /\ ended' = ended
            \/ w.at = "undrop" /\ w'.at = "revert" /\ w.sweep = {} /\ ended' = ended
<1> USE DEF gateway, remote, Engine, GroupFields, OtherFields, Goto, Memory
<1>0. w \in Memory
  BY DEF Types
<1>1. CASE Verify \/ Locked \/ NoDatabaseStep
  BY <1>0, <1>1 DEF Verify, Locked, NoDatabaseStep
<1>2. CASE Drifted \/ LockBusy \/ Escape
  BY <1>0, <1>2 DEF Drifted, LockBusy, Escape, Abandon
<1>3. CASE CancelSeen \/ FinishStatus \/ FinishManaged
  BY <1>0, <1>3 DEF CancelSeen, FinishStatus, FinishManaged
<1>4. CASE TablesDone \/ ObjectsDone \/ Undropped
  BY <1>0, <1>4 DEF TablesDone, ObjectsDone, Undropped
<1>5. CASE Crash \/ Sweep \/ Cancel
  BY <1>0, <1>5 DEF Crash, Sweep, Cancel
<1> QED
  BY <1>1, <1>2, <1>3, <1>4, <1>5

\* The step of the database's default, and the reading of the keys.
LEMMA DatabaseDoes ==
  ASSUME Types, NEW o \in Outcome, AlterDatabase(o)
  PROVE  /\ w.at = "database" /\ w'.at \in {"keys", "finish"}
         /\ UNCHANGED <<plan, item.table, item.key, item.object, lost, ended, managed,
                        converted, keys, object, grants, GroupFields, OtherFields, w.todo>>
         /\ item'.database = IF o = "applied" THEN "ok" ELSE "error"
         /\ o = "applied" => default' = "new"
BY DEF AlterDatabase, Effective, Types, Memory, Items, GroupFields, OtherFields

LEMMA ReadKeysDoes ==
  ASSUME Types, NEW unread \in BOOLEAN, ReadKeys(unread)
  PROVE  /\ w.at = "keys" /\ w'.at = "tables" /\ w'.unread = unread
         /\ UNCHANGED <<plan, item, lost, ended, managed, Engine, GroupFields, w.objects,
                        w.object, w.todo>>
BY DEF ReadKeys, Types, Memory, gateway, remote, Engine, GroupFields

\* Steps that deal with one table outside the groups.
LEMMA TableDoes ==
  ASSUME Types, NEW o \in Outcome, SkipTable \/ RefuseTable \/ ConvertTable(o)
  PROVE  /\ w.at = "tables" /\ w'.at = "tables"
         /\ Next1 \in w.todo /\ Next1 \in Tables /\ w'.todo = w.todo \ {Next1}
         /\ UNCHANGED <<plan, item.database, item.key, item.object, ended, managed, default,
                        keys, object, grants, GroupFields, OtherFields>>
         /\ lost \subseteq lost'
         /\ \E what \in {"ok", "kept", "skipped"} :
              /\ item'.table = [item.table EXCEPT ![Next1] = what]
              /\ \/ Next1 \notin Converting /\ converted' = converted
                 \/ w.unread /\ what = "kept" /\ converted' = converted
                 \/ /\ ~w.unread /\ ~HasGroup(Next1)
                    /\ \/ Next1 \in lost' /\ converted' = converted \cup {Next1}
                       \/ what = "ok" /\ converted' = converted \cup {Next1}
                       \/ what = "kept" /\ converted' = converted
<1>1. w \in Memory /\ item \in Items
  BY DEF Types
<1>2. AtTable
  BY DEF SkipTable, RefuseTable, ConvertTable
<1>3. w.at = "tables" /\ Next1 \in w.todo /\ Next1 \in Tables
  BY <1>2, TheTurn DEF AtTable
<1> USE DEF remote, GroupFields, OtherFields, Memory, Items
<1>4. CASE SkipTable
  BY <1>1, <1>3, <1>4 DEF SkipTable, Converting
<1>5. CASE RefuseTable
  BY <1>1, <1>3, <1>5 DEF RefuseTable
<1>6. CASE ConvertTable(o)
  BY <1>1, <1>3, <1>6 DEF ConvertTable, Convert, Effective, Noted, Outcome
<1> QED
  BY <1>4, <1>5, <1>6

\* Steps that deal with an object.
LEMMA ObjectPickDoes ==
  ASSUME Types, NEW x \in Objects, ObjectUnread(x) \/ ObjectCopy(x)
  PROVE  /\ w.at = "objects" /\ x \in w.objects /\ w'.objects = w.objects \ {x}
         /\ UNCHANGED <<plan, item.database, item.table, item.key, ended, managed, lost, Engine,
                        GroupFields, w.todo, w.unread>>
         /\ \/ w'.at = "objects" /\ item'.object = [item.object EXCEPT ![x] = "kept"]
            \/ w'.at = "drop object" /\ w'.object = x
               /\ item'.object = [item.object EXCEPT ![x] = "open"]
<1> USE DEF Types, remote, Engine, GroupFields, Memory, Items, AtObject
<1>1. CASE ObjectUnread(x)
  BY <1>1 DEF ObjectUnread
<1>2. CASE ObjectCopy(x)
  BY <1>2 DEF ObjectCopy
<1> QED
  BY <1>1, <1>2

LEMMA ObjectDropDoes ==
  ASSUME Types, NEW x \in Objects, NEW o \in Outcome, ObjectDrop(x, o)
  PROVE  /\ w.at = "drop object" /\ x = w.object
         /\ UNCHANGED <<plan, item.database, item.table, item.key, ended, managed, default,
                        converted, keys, GroupFields, OtherFields, w.todo>>
         /\ lost \subseteq lost'
         /\ \/ /\ o = "applied" /\ w'.at = "create object" /\ item'.object = item.object
               /\ object' = [object EXCEPT ![x] = "absent"] /\ grants' = grants \ {x}
            \/ /\ w'.at = "objects" /\ item'.object = [item.object EXCEPT ![x] = "kept"]
               /\ \/ o = "lost" /\ x \in lost' /\ object' = [object EXCEPT ![x] = "absent"]
                                /\ grants' = grants \ {x}
                  \/ o = "refused" /\ object' = object /\ grants' = grants
<1> USE DEF Types, GroupFields, OtherFields, Memory, Items, At
<1>1. CASE o = "applied"
  BY <1>1 DEF ObjectDrop, Goto, Effective, Noted
<1>2. CASE o # "applied"
  <2>1. /\ w' = [w EXCEPT !.at = "objects", !.failed = TRUE]
        /\ item' = [item EXCEPT !.object[x] = "kept"]
    BY <1>2 DEF ObjectDrop
  <2>2. /\ w'.at = "objects" /\ UNCHANGED <<GroupFields, OtherFields, w.todo>>
        /\ UNCHANGED <<item.database, item.table, item.key>>
        /\ item'.object = [item.object EXCEPT ![x] = "kept"]
    BY <2>1
  <2>3. /\ w.at = "drop object" /\ x = w.object /\ lost \subseteq lost'
        /\ UNCHANGED <<plan, ended, managed, default, converted, keys>>
        /\ \/ o = "lost" /\ x \in lost' /\ object' = [object EXCEPT ![x] = "absent"]
                         /\ grants' = grants \ {x}
           \/ o = "refused" /\ object' = object /\ grants' = grants
    BY <1>2 DEF ObjectDrop, Effective, Noted, Outcome
  <2> QED
    BY <2>2, <2>3
<1> QED
  BY <1>1, <1>2

LEMMA ObjectCreateDoes ==
  ASSUME Types, NEW x \in Objects, NEW o \in Outcome, ObjectCreate(x, o)
  PROVE  /\ w.at = "create object" /\ x = w.object
         /\ UNCHANGED <<plan, item.database, item.table, item.key, ended, managed, default,
                        converted, keys, grants, GroupFields, OtherFields, w.todo>>
         /\ lost \subseteq lost'
         /\ \/ /\ o = "applied" /\ w'.at = "grant object" /\ item'.object = item.object
               /\ object' = [object EXCEPT ![x] = "new"]
            \/ /\ w'.at = "objects" /\ item'.object = [item.object EXCEPT ![x] = "missing"]
               /\ \/ o = "lost" /\ x \in lost' /\ object' = [object EXCEPT ![x] = "new"]
                  \/ o = "refused" /\ object' = object
<1> USE DEF Types, GroupFields, OtherFields, Memory, Items, At
<1>1. CASE o = "applied"
  BY <1>1 DEF ObjectCreate, Goto, Effective, Noted
<1>2. CASE o # "applied"
  <2>1. /\ w' = [w EXCEPT !.at = "objects", !.failed = TRUE]
        /\ item' = [item EXCEPT !.object[x] = "missing"]
    BY <1>2 DEF ObjectCreate
  <2>2. /\ w'.at = "objects" /\ UNCHANGED <<GroupFields, OtherFields, w.todo>>
        /\ UNCHANGED <<item.database, item.table, item.key>>
        /\ item'.object = [item.object EXCEPT ![x] = "missing"]
    BY <2>1
  <2>3. /\ w.at = "create object" /\ x = w.object /\ lost \subseteq lost'
        /\ UNCHANGED <<plan, ended, managed, default, converted, keys, grants>>
        /\ \/ o = "lost" /\ x \in lost' /\ object' = [object EXCEPT ![x] = "new"]
           \/ o = "refused" /\ object' = object
    BY <1>2 DEF ObjectCreate, Effective, Noted, Outcome
  <2> QED
    BY <2>2, <2>3
<1> QED
  BY <1>1, <1>2

LEMMA ObjectGrantDoes ==
  ASSUME Types, NEW x \in Objects, NEW ok \in BOOLEAN, ObjectGrant(x, ok)
  PROVE  /\ w.at = "grant object" /\ x = w.object /\ w'.at = "objects"
         /\ UNCHANGED <<plan, item.database, item.table, item.key, ended, managed, default,
                        converted, keys, object, lost, GroupFields, OtherFields, w.todo>>
         /\ item'.object = [item.object EXCEPT ![x] = IF ok THEN "ok" ELSE "ungranted"]
         /\ grants \subseteq grants' /\ (ok /\ x \in plan.granted => x \in grants')
         /\ \A y \in Objects \ {x} : y \in grants' => y \in grants
BY DEF ObjectGrant, Types, GroupFields, OtherFields, Memory, Items, At

\* Steps that deal with a group of tables joined by keys.
LEMMA GroupUnknownDoes ==
  ASSUME Types, GroupUnknown
  PROVE  /\ w.at = "tables" /\ w'.at = "tables" /\ ~w.unread /\ plan.engine = "mariadb"
         /\ UNCHANGED <<plan, item.database, item.key, item.object, ended, managed, lost, Engine,
                        GroupFields, OtherFields>>
         /\ \E b \in Blocks :
              /\ Next1 \in b \cap Converting /\ Next1 \in w.todo
              /\ w'.todo = w.todo \ (b \cap Converting)
              /\ item'.table = [t \in Tables |->
                   IF t \in b \cap Converting THEN "kept" ELSE item.table[t]]
<1>1. AtTable /\ HasGroup(Next1)
  BY DEF GroupUnknown
<1>2. /\ w.at = "tables" /\ Next1 \in w.todo /\ plan.engine = "mariadb"
      /\ BlockOf(Next1) \in Blocks /\ Next1 \in BlockOf(Next1)
  BY <1>1, TheTurn, TheGroup DEF AtTable, HasGroup
<1> DEFINE b == BlockOf(Next1)
<1>3. /\ Next1 \in Converting
      /\ UNCHANGED <<plan, item.database, item.key, item.object, ended, managed, lost, Engine,
                     GroupFields, OtherFields>>
      /\ w'.at = w.at /\ ~w.unread /\ w'.todo = w.todo \ (b \cap Converting)
      /\ item'.table =
           [t \in Tables |-> IF t \in b \cap Converting THEN "kept" ELSE item.table[t]]
  BY DEF GroupUnknown, Types, remote, Engine, GroupFields, OtherFields, Memory, Items
<1> HIDE DEF b
<1> QED
  BY <1>2, <1>3 DEF b

LEMMA GroupCopiesDoes ==
  ASSUME Types, GroupCopies
  PROVE  /\ w.at = "tables" /\ w'.at = "drop" /\ ~w.unread /\ plan.engine = "mariadb"
         /\ UNCHANGED <<plan, item.database, item.table, item.object, ended, managed, lost, Engine,
                        w.objects, w.object, w.unread, w.says>>
         /\ \E b \in Blocks :
              /\ Next1 \in b \cap Converting /\ Next1 \in w.todo
              /\ w'.block = b /\ w'.steps = b \cap Converting /\ w'.done = {} /\ w'.dropped = {}
              /\ w'.sweep = GroupKeys(b) /\ w'.todo = w.todo \ (b \cap Converting)
              /\ item'.key = [fk \in ForeignKeys |->
                   IF fk \in GroupKeys(b) THEN "open" ELSE item.key[fk]]
<1>1. AtTable /\ HasGroup(Next1)
  BY DEF GroupCopies
<1>2. /\ w.at = "tables" /\ Next1 \in w.todo /\ plan.engine = "mariadb"
      /\ BlockOf(Next1) \in Blocks /\ Next1 \in BlockOf(Next1)
  BY <1>1, TheTurn, TheGroup DEF AtTable, HasGroup
<1> DEFINE b == BlockOf(Next1)
<1>3. /\ Next1 \in Converting
      /\ UNCHANGED <<plan, item.database, item.table, item.object, ended, managed, lost, Engine,
                     w.objects, w.object, w.unread, w.says>>
      /\ w'.at = "drop" /\ ~w.unread /\ w'.todo = w.todo \ (b \cap Converting)
      /\ w'.block = b /\ w'.steps = b \cap Converting /\ w'.done = {} /\ w'.dropped = {}
      /\ w'.sweep = GroupKeys(b)
      /\ item'.key =
           [fk \in ForeignKeys |-> IF fk \in GroupKeys(b) THEN "open" ELSE item.key[fk]]
  BY DEF GroupCopies, Types, remote, Engine, Memory, Items
<1> HIDE DEF b
<1> QED
  BY <1>2, <1>3 DEF b

\* Reporting keys changes what the worker says of them, and nothing else.
LEMMA SaidDoes ==
  ASSUME NEW r \in Memory, NEW fks, NEW what
  PROVE  /\ Said(r, fks, what).says =
              [fk \in ForeignKeys |-> IF fk \in fks THEN what ELSE r.says[fk]]
         /\ \A f \in {"at", "todo", "objects", "failed", "unread", "object", "block", "steps",
                      "done", "dropped", "sweep", "blocking"} : Said(r, fks, what)[f] = r[f]
         /\ DOMAIN Said(r, fks, what) = DOMAIN r
BY DEF Said, Memory

\* The restoring of a group starts with the keys that are back, if a table is converted.
Backward(r) ==
  /\ w'.todo = w.todo
  /\ UNCHANGED <<w.objects, w.object, w.unread, w.block, w.steps, w.done, w.dropped>>
  /\ w'.says = r.says
  /\ IF w.done # {} THEN w'.at = "undrop" /\ w'.sweep = GroupKeys(w.block) \ w.dropped
     ELSE w'.at = "readd" /\ w'.sweep = w.dropped

\* A failure in a group sends the worker back, from the memory it has then.
LEMMA BackwardDoes ==
  ASSUME w \in Memory, NEW r \in Memory, w' = Restore(r), r.todo = w.todo, r.objects = w.objects,
         r.object = w.object, r.unread = w.unread, r.block = w.block, r.steps = w.steps,
         r.done = w.done, r.dropped = w.dropped
  PROVE  Backward(r)
<1>1. CASE w.done # {}
  BY <1>1 DEF Restore, Backward, Memory
<1>2. CASE w.done = {}
  BY <1>2 DEF Restore, Backward, Memory
<1> QED
  BY <1>1, <1>2

\* What a statement on a key leaves alone.
KeyAside ==
  UNCHANGED <<plan, item.database, item.object, ended, managed, default, converted, object, grants,
              OtherFields, w.todo, w.steps, w.done>>

\* (b) A key is dropped, or the group goes back.
LEMMA GroupDropDoes ==
  ASSUME Types, NEW fk \in ForeignKeys, NEW o \in Outcome, GroupDrop(fk, o)
  PROVE  /\ w.at = "drop" /\ fk \in w.sweep /\ KeyAside /\ item'.key = item.key
         /\ lost \subseteq lost'
         /\ \/ /\ w'.at = (IF w.sweep = {fk} THEN "convert" ELSE "drop")
               /\ w'.sweep = w.sweep \ {fk} /\ w'.dropped = w.dropped \cup {fk}
               /\ keys' = keys \ {fk} /\ item'.table = item.table /\ w'.says = w.says
            \/ /\ w'.dropped = w.dropped
               /\ keys' = keys \/ (keys' = keys \ {fk} /\ fk \in lost')
               /\ item'.table =
                    [t \in Tables |-> IF t \in w.steps THEN "kept" ELSE item.table[t]]
               /\ w'.says = [f \in ForeignKeys |-> IF f \in w.sweep THEN "kept" ELSE w.says[f]]
               /\ IF w.done # {} THEN w'.at = "undrop" /\ w'.sweep = GroupKeys(w.block) \ w.dropped
                  ELSE w'.at = "readd" /\ w'.sweep = w.dropped
<1>1. w \in Memory /\ item \in Items
  BY DEF Types
<1>2. CASE o = "applied"
  <2>1. /\ w.at = "drop" /\ fk \in w.sweep /\ keys' = keys \ {fk} /\ lost \subseteq lost'
        /\ w' = [w EXCEPT !.sweep = @ \ {fk}, !.dropped = @ \cup {fk},
                          !.at = IF w.sweep = {fk} THEN "convert" ELSE "drop"]
        /\ UNCHANGED <<plan, item, managed, default, converted, object, grants, ended>>
    BY <1>2 DEF GroupDrop, Drop, Noted, Effective
  <2>2. /\ w'.at = (IF w.sweep = {fk} THEN "convert" ELSE "drop")
        /\ w'.sweep = w.sweep \ {fk} /\ w'.dropped = w.dropped \cup {fk} /\ w'.says = w.says
        /\ UNCHANGED <<OtherFields, w.todo, w.steps, w.done>>
    BY <1>1, <2>1 DEF OtherFields, Memory
  <2> QED
    BY <2>1, <2>2 DEF KeyAside
<1>3. CASE o # "applied"
  <2> DEFINE r == [w EXCEPT !.failed = TRUE]
             s == Said(r, w.sweep, "kept")
  <2>1. r \in Memory
    BY <1>1 DEF Memory
  <2>2. r.todo = w.todo /\ r.objects = w.objects /\ r.object = w.object /\ r.unread = w.unread
        /\ r.block = w.block /\ r.steps = w.steps /\ r.done = w.done /\ r.dropped = w.dropped
        /\ r.says = w.says
    BY <1>1 DEF Memory
  <2>3. /\ w' = Restore(s) /\ w.at = "drop" /\ fk \in w.sweep
        /\ UNCHANGED <<plan, job, managed, default, converted, object, grants, ended>>
        /\ item' = [item EXCEPT !.table = [t \in Tables |->
               IF t \in w.steps THEN "kept" ELSE item.table[t]]]
        /\ lost \subseteq lost' /\ (keys' = keys \/ (keys' = keys \ {fk} /\ fk \in lost'))
    BY <1>1, <1>3 DEF GroupDrop, Drop, Noted, Effective, Outcome, Items
  <2> HIDE DEF r
  <2>4. s \in Memory
    BY <2>1, SaidType DEF Says
  <2>5. /\ s.says = [f \in ForeignKeys |-> IF f \in w.sweep THEN "kept" ELSE w.says[f]]
        /\ s.todo = w.todo /\ s.objects = w.objects /\ s.object = w.object
        /\ s.unread = w.unread /\ s.block = w.block /\ s.steps = w.steps /\ s.done = w.done
        /\ s.dropped = w.dropped
    BY <2>1, <2>2, SaidDoes
  <2> HIDE DEF s
  <2>6. Backward(s)
    BY <1>1, <2>3, <2>4, <2>5, BackwardDoes
  <2>7. /\ item'.table = [t \in Tables |-> IF t \in w.steps THEN "kept" ELSE item.table[t]]
        /\ item'.key = item.key /\ item'.database = item.database /\ item'.object = item.object
    BY <1>1, <2>3 DEF Items
  <2> QED
    BY <2>3, <2>5, <2>6, <2>7 DEF Backward, KeyAside, OtherFields
<1> QED
  BY <1>2, <1>3

\* (c) A table of the group is converted, or the group goes back.
LEMMA GroupConvertDoes ==
  ASSUME Types, NEW o \in Outcome, GroupConvert(o)
  PROVE  /\ w.at = "convert" /\ w.steps # {} /\ lost \subseteq lost'
         /\ UNCHANGED <<plan, item.database, item.object, item.key, ended, managed, default, keys,
                        object, grants, OtherFields, w.todo, w.dropped, w.says>>
         /\ \E t \in w.steps :
              \/ /\ w'.at = "convert" /\ w'.steps = w.steps \ {t} /\ w'.done = w.done \cup {t}
                 /\ w'.sweep = w.sweep /\ converted' = converted \cup {t}
                 /\ item'.table = [item.table EXCEPT ![t] = "ok"]
              \/ /\ w'.steps = w.steps /\ w'.done = w.done
                 /\ IF w.done # {}
                    THEN w'.at = "undrop" /\ w'.sweep = GroupKeys(w.block) \ w.dropped
                    ELSE w'.at = "readd" /\ w'.sweep = w.dropped
                 /\ converted' = converted \/ (converted' = converted \cup {t} /\ t \in lost')
                 /\ item'.table = [u \in Tables |-> IF u = t THEN "kept"
                      ELSE IF u \in w.steps THEN "skipped" ELSE item.table[u]]
<1>1. w \in Memory /\ item \in Items
  BY DEF Types
<1> DEFINE t == FirstOf(w.steps)
           table == [u \in Tables |->
             CASE u = t -> IF o = "applied" THEN "ok" ELSE "kept"
               [] o # "applied" /\ u \in w.steps \ {t} -> "skipped"
               [] OTHER -> item.table[u]]
<1>2. w.at = "convert" /\ w.steps # {} /\ t \in w.steps /\ t \in Tables
  BY TypesGives, AmongThem DEF GroupConvert
<1>3. /\ UNCHANGED <<plan, job, managed, default, keys, object, grants, ended>>
      /\ item' = [item EXCEPT !.table = table]
      /\ IF o = "applied" THEN w' = [w EXCEPT !.steps = @ \ {t}, !.done = @ \cup {t}]
         ELSE w' = Restore([w EXCEPT !.failed = TRUE])
      /\ Convert(t, o)
  BY DEF GroupConvert
<1> HIDE DEF t
<1>4. /\ item'.table = table /\ UNCHANGED <<item.database, item.key, item.object>>
  BY <1>1, <1>3 DEF Items
<1>5. lost \subseteq lost'
  BY <1>3 DEF Convert, Noted
<1>6. CASE o = "applied"
  <2>1. table = [item.table EXCEPT ![t] = "ok"]
    BY <1>1, <1>6 DEF Items
  <2>2. converted' = converted \cup {t}
    BY <1>3, <1>6 DEF Convert, Effective
  <2> HIDE DEF table
  <2>3. /\ w'.at = "convert" /\ w'.steps = w.steps \ {t} /\ w'.done = w.done \cup {t}
        /\ w'.sweep = w.sweep /\ UNCHANGED <<OtherFields, w.todo, w.dropped, w.says>>
    BY <1>1, <1>2, <1>3, <1>6 DEF Memory, OtherFields
  <2> QED
    BY <1>2, <1>3, <1>4, <1>5, <2>1, <2>2, <2>3
<1>7. CASE o # "applied"
  <2> DEFINE r == [w EXCEPT !.failed = TRUE]
  <2>1. r \in Memory
    BY <1>1 DEF Memory
  <2>2. r.todo = w.todo /\ r.objects = w.objects /\ r.object = w.object /\ r.unread = w.unread
        /\ r.block = w.block /\ r.steps = w.steps /\ r.done = w.done /\ r.dropped = w.dropped
        /\ r.says = w.says
    BY <1>1 DEF Memory
  <2>3. w' = Restore(r)
    BY <1>3, <1>7
  <2> HIDE DEF r
  <2>4. Backward(r)
    BY <1>1, <2>1, <2>2, <2>3, BackwardDoes
  <2>5. table = [u \in Tables |-> IF u = t THEN "kept"
                   ELSE IF u \in w.steps THEN "skipped" ELSE item.table[u]]
    BY <1>7
  <2>6. converted' = converted \/ (converted' = converted \cup {t} /\ t \in lost')
    BY <1>3, <1>7 DEF Convert, Effective, Noted, Outcome
  <2> HIDE DEF table
  <2> QED
    BY <1>2, <1>3, <1>4, <1>5, <2>2, <2>4, <2>5, <2>6 DEF Backward, OtherFields
<1> QED
  BY <1>6, <1>7

\* The next sweep starts with the keys that are out.
LEMMA GroupConvertedDoes ==
  ASSUME Types, GroupConverted \/ Reverted
  PROVE  /\ UNCHANGED <<plan, item, ended, managed, lost, Engine, OtherFields, w.todo, w.steps,
                        w.done, w.dropped, w.says>>
         /\ w'.sweep = w.dropped
         /\ \/ w.at = "convert" /\ w.steps = {} /\ w'.at = "add"
            \/ w.at = "revert" /\ w.done = {} /\ w'.at = "readd"
<1> USE DEF Types, gateway, remote, Engine, OtherFields, Memory
<1>1. CASE GroupConverted
  BY <1>1 DEF GroupConverted
<1>2. CASE Reverted
  BY <1>2 DEF Reverted
<1> QED
  BY <1>1, <1>2

\* (d) A key is recreated, or the group goes back.
LEMMA GroupAddDoes ==
  ASSUME Types, NEW fk \in ForeignKeys, NEW o \in Outcome, GroupAdd(fk, o)
  PROVE  /\ w.at = "add" /\ fk \in w.sweep /\ KeyAside /\ UNCHANGED item
         /\ lost \subseteq lost'
         /\ \/ /\ w'.at = (IF w.sweep = {fk} THEN "report" ELSE "add")
               /\ w'.sweep = w.sweep \ {fk} /\ w'.dropped = w.dropped \ {fk}
               /\ keys' = keys \cup {fk}
               /\ w'.says = [f \in ForeignKeys |-> IF f \in {fk} THEN "ok" ELSE w.says[f]]
            \/ /\ w'.dropped = w.dropped
               /\ keys' = keys \/ (keys' = keys \cup {fk} /\ fk \in lost')
               /\ w'.says = [f \in ForeignKeys |-> IF f \in {fk} THEN "failed" ELSE w.says[f]]
               /\ IF w.done # {} THEN w'.at = "undrop" /\ w'.sweep = GroupKeys(w.block) \ w.dropped
                  ELSE w'.at = "readd" /\ w'.sweep = w.dropped
<1>1. w \in Memory /\ item \in Items
  BY DEF Types
<1>2. CASE o = "applied"
  <2> DEFINE r == Said(w, {fk}, "ok")
  <2>1. r \in Memory
    BY <1>1, SaidType DEF Says
  <2>2. /\ r.says = [f \in ForeignKeys |-> IF f \in {fk} THEN "ok" ELSE w.says[f]]
        /\ r.todo = w.todo /\ r.objects = w.objects /\ r.object = w.object
        /\ r.unread = w.unread /\ r.block = w.block /\ r.steps = w.steps /\ r.done = w.done
        /\ r.dropped = w.dropped /\ r.sweep = w.sweep
    BY <1>1, SaidDoes
  <2>3. /\ w' = [r EXCEPT !.sweep = @ \ {fk}, !.dropped = @ \ {fk},
                   !.at = IF w.sweep = {fk} THEN "report" ELSE "add"]
        /\ w.at = "add" /\ fk \in w.sweep
        /\ UNCHANGED <<plan, job, item, managed, default, converted, object, grants, ended>>
        /\ keys' = keys \cup {fk} /\ lost \subseteq lost'
    BY <1>2 DEF GroupAdd, Add, Noted, Effective, gateway
  <2> HIDE DEF r
  <2>4. /\ w'.at = (IF w.sweep = {fk} THEN "report" ELSE "add")
        /\ w'.sweep = w.sweep \ {fk} /\ w'.dropped = w.dropped \ {fk} /\ w'.says = r.says
        /\ UNCHANGED <<OtherFields, w.todo, w.steps, w.done>>
    BY <2>1, <2>2, <2>3 DEF Memory, OtherFields
  <2> QED
    BY <2>2, <2>3, <2>4 DEF KeyAside
<1>3. CASE o # "applied"
  <2> DEFINE r == [w EXCEPT !.failed = TRUE]
             s == Said(r, {fk}, "failed")
  <2>1. r \in Memory
    BY <1>1 DEF Memory
  <2>2. r.todo = w.todo /\ r.objects = w.objects /\ r.object = w.object /\ r.unread = w.unread
        /\ r.block = w.block /\ r.steps = w.steps /\ r.done = w.done /\ r.dropped = w.dropped
        /\ r.says = w.says
    BY <1>1 DEF Memory
  <2>3. /\ w' = Restore(s) /\ w.at = "add" /\ fk \in w.sweep
        /\ UNCHANGED <<plan, job, item, managed, default, converted, object, grants, ended>>
        /\ lost \subseteq lost' /\ (keys' = keys \/ (keys' = keys \cup {fk} /\ fk \in lost'))
    BY <1>3 DEF GroupAdd, Add, Noted, Effective, Outcome, gateway
  <2> HIDE DEF r
  <2>4. s \in Memory
    BY <2>1, SaidType DEF Says
  <2>5. /\ s.says = [f \in ForeignKeys |-> IF f \in {fk} THEN "failed" ELSE w.says[f]]
        /\ s.todo = w.todo /\ s.objects = w.objects /\ s.object = w.object
        /\ s.unread = w.unread /\ s.block = w.block /\ s.steps = w.steps /\ s.done = w.done
        /\ s.dropped = w.dropped
    BY <2>1, <2>2, SaidDoes
  <2> HIDE DEF s
  <2>6. Backward(s)
    BY <1>1, <2>3, <2>4, <2>5, BackwardDoes
  <2> QED
    BY <2>3, <2>5, <2>6 DEF Backward, KeyAside, OtherFields
<1> QED
  BY <1>2, <1>3

\* The two sweeps over the keys of a group that is restored.
LEMMA UndropDoes ==
  ASSUME Types, NEW fk \in ForeignKeys, NEW o \in Outcome, Undrop(fk, o)
  PROVE  /\ w.at = "undrop" /\ w'.at = "undrop" /\ fk \in w.sweep /\ KeyAside /\ UNCHANGED item
         /\ w'.sweep = w.sweep \ {fk} /\ lost \subseteq lost'
         /\ \/ w'.dropped = w.dropped \cup {fk} /\ keys' = keys \ {fk} /\ w'.says = w.says
            \/ /\ w'.dropped = w.dropped
               /\ keys' = keys \/ (keys' = keys \ {fk} /\ fk \in lost')
               /\ w'.says = [f \in ForeignKeys |-> IF f \in {fk} THEN "kept" ELSE w.says[f]]
<1>1. w \in Memory
  BY DEF Types
<1> DEFINE r == [w EXCEPT !.sweep = @ \ {fk}]
<1>2. /\ r \in Memory /\ r.at = w.at /\ r.todo = w.todo /\ r.objects = w.objects
      /\ r.object = w.object /\ r.unread = w.unread /\ r.block = w.block /\ r.steps = w.steps
      /\ r.done = w.done /\ r.dropped = w.dropped /\ r.says = w.says
      /\ r.sweep = w.sweep \ {fk}
  BY <1>1 DEF Memory
<1>3. /\ w.at = "undrop" /\ fk \in w.sweep /\ Drop(fk, o)
      /\ UNCHANGED <<plan, job, item, managed, default, converted, object, grants, ended>>
      /\ IF o = "applied" THEN w' = [r EXCEPT !.dropped = @ \cup {fk}]
         ELSE w' = [Said(r, {fk}, "kept") EXCEPT !.blocking = TRUE]
  BY DEF Undrop, gateway
<1> HIDE DEF r
<1>4. CASE o = "applied"
  <2>1. /\ w'.dropped = w.dropped \cup {fk} /\ w'.says = w.says /\ w'.at = "undrop"
        /\ w'.sweep = w.sweep \ {fk} /\ UNCHANGED <<OtherFields, w.todo, w.steps, w.done>>
    BY <1>2, <1>3, <1>4 DEF OtherFields, Memory
  <2>2. keys' = keys \ {fk} /\ lost \subseteq lost'
    BY <1>3, <1>4 DEF Drop, Noted, Effective
  <2> QED
    BY <1>3, <2>1, <2>2 DEF KeyAside
<1>5. CASE o # "applied"
  <2> DEFINE s == Said(r, {fk}, "kept")
  <2>1. s \in Memory
    BY <1>2, SaidType DEF Says
  <2>2. /\ s.says = [f \in ForeignKeys |-> IF f \in {fk} THEN "kept" ELSE w.says[f]]
        /\ s.at = w.at /\ s.todo = w.todo /\ s.objects = w.objects /\ s.object = w.object
        /\ s.unread = w.unread /\ s.block = w.block /\ s.steps = w.steps /\ s.done = w.done
        /\ s.dropped = w.dropped /\ s.sweep = w.sweep \ {fk}
    BY <1>2, SaidDoes
  <2>3. w' = [s EXCEPT !.blocking = TRUE]
    BY <1>3, <1>5
  <2> HIDE DEF s
  <2>4. /\ w'.dropped = w.dropped /\ w'.says = s.says /\ w'.at = "undrop"
        /\ w'.sweep = w.sweep \ {fk} /\ UNCHANGED <<OtherFields, w.todo, w.steps, w.done>>
    BY <1>3, <2>1, <2>2, <2>3 DEF OtherFields, Memory
  <2>5. (keys' = keys \/ (keys' = keys \ {fk} /\ fk \in lost')) /\ lost \subseteq lost'
    BY <1>3, <1>5 DEF Drop, Noted, Effective, Outcome
  <2> QED
    BY <1>3, <2>2, <2>4, <2>5 DEF KeyAside
<1> QED
  BY <1>4, <1>5

LEMMA ReaddDoes ==
  ASSUME Types, NEW fk \in ForeignKeys, NEW o \in Outcome, Readd(fk, o)
  PROVE  /\ w.at = "readd" /\ w'.at = "readd" /\ fk \in w.sweep /\ KeyAside /\ UNCHANGED item
         /\ w'.sweep = w.sweep \ {fk} /\ lost \subseteq lost'
         /\ \/ /\ w'.dropped = w.dropped \ {fk} /\ keys' = keys \cup {fk}
               /\ w'.says = [f \in ForeignKeys |-> IF f \in {fk} THEN "restored" ELSE w.says[f]]
            \/ /\ w'.dropped = w.dropped
               /\ keys' = keys \/ (keys' = keys \cup {fk} /\ fk \in lost')
               /\ w'.says = [f \in ForeignKeys |-> IF f \in {fk} THEN "missing" ELSE w.says[f]]
<1>1. w \in Memory
  BY DEF Types
<1> DEFINE r == [w EXCEPT !.sweep = @ \ {fk}]
           d == [r EXCEPT !.dropped = @ \ {fk}]
<1>2. /\ r \in Memory /\ r.at = w.at /\ r.todo = w.todo /\ r.objects = w.objects
      /\ r.object = w.object /\ r.unread = w.unread /\ r.block = w.block /\ r.steps = w.steps
      /\ r.done = w.done /\ r.dropped = w.dropped /\ r.says = w.says
      /\ r.sweep = w.sweep \ {fk}
  BY <1>1 DEF Memory
<1>3. /\ w.at = "readd" /\ fk \in w.sweep /\ Add(fk, o)
      /\ UNCHANGED <<plan, job, item, managed, default, converted, object, grants, ended>>
      /\ IF o = "applied" THEN w' = Said(d, {fk}, "restored") ELSE w' = Said(r, {fk}, "missing")
  BY DEF Readd, gateway
<1> HIDE DEF r
<1>4. CASE o = "applied"
  <2>1. /\ d \in Memory /\ d.at = w.at /\ d.todo = w.todo /\ d.objects = w.objects
        /\ d.object = w.object /\ d.unread = w.unread /\ d.block = w.block /\ d.steps = w.steps
        /\ d.done = w.done /\ d.dropped = w.dropped \ {fk} /\ d.says = w.says
        /\ d.sweep = w.sweep \ {fk}
    BY <1>2 DEF Memory
  <2> HIDE DEF d
  <2>2. /\ w'.says = [f \in ForeignKeys |-> IF f \in {fk} THEN "restored" ELSE w.says[f]]
        /\ w'.dropped = w.dropped \ {fk} /\ w'.at = "readd" /\ w'.sweep = w.sweep \ {fk}
        /\ UNCHANGED <<OtherFields, w.todo, w.steps, w.done>>
    BY <1>3, <1>4, <2>1, SaidDoes DEF OtherFields
  <2>3. keys' = keys \cup {fk} /\ lost \subseteq lost'
    BY <1>3, <1>4 DEF Add, Noted, Effective
  <2> QED
    BY <1>3, <2>2, <2>3 DEF KeyAside
<1>5. CASE o # "applied"
  <2>1. /\ w'.says = [f \in ForeignKeys |-> IF f \in {fk} THEN "missing" ELSE w.says[f]]
        /\ w'.dropped = w.dropped /\ w'.at = "readd" /\ w'.sweep = w.sweep \ {fk}
        /\ UNCHANGED <<OtherFields, w.todo, w.steps, w.done>>
    BY <1>2, <1>3, <1>5, SaidDoes DEF OtherFields
  <2>2. (keys' = keys \/ (keys' = keys \cup {fk} /\ fk \in lost')) /\ lost \subseteq lost'
    BY <1>3, <1>5 DEF Add, Noted, Effective, Outcome
  <2> QED
    BY <1>3, <2>1, <2>2 DEF KeyAside
<1> QED
  BY <1>4, <1>5

\* A converted table is taken back, or its item says that it stays.
LEMMA RevertDoes ==
  ASSUME Types, NEW o \in Outcome, Revert(o)
  PROVE  /\ w.at = "revert" /\ w'.at = "revert" /\ lost \subseteq lost'
         /\ UNCHANGED <<plan, item.database, item.object, item.key, ended, managed, default, keys,
                        object, grants, OtherFields, w.todo, w.steps, w.dropped, w.sweep, w.says>>
         /\ \E t \in w.done :
              /\ w'.done = w.done \ {t}
              /\ \/ /\ converted' = converted \ {t}
                    /\ item'.table = [item.table EXCEPT ![t] = "reverted"]
                 \/ /\ item'.table = [item.table EXCEPT ![t] = "stuck"]
                    /\ \/ converted' = converted
                       \/ converted' = converted \ {t} /\ t \in lost'
<1>1. w \in Memory /\ item \in Items
  BY DEF Types
<1> DEFINE t == LastOf(w.done)
<1>2. w.at = "revert" /\ w.done # {} /\ t \in w.done /\ t \in Tables
  BY TypesGives, AmongThem DEF Revert
<1>3. /\ UNCHANGED <<plan, job, managed, default, keys, object, grants, ended>>
      /\ item' = [item EXCEPT !.table[t] = IF o = "applied" THEN "reverted" ELSE "stuck"]
      /\ w' = [w EXCEPT !.done = @ \ {t}]
      /\ converted' = IF Effective(o) THEN converted \ {t} ELSE converted
      /\ Noted(o, t)
  BY DEF Revert
<1> HIDE DEF t
<1>4. /\ item'.table = [item.table EXCEPT ![t] = IF o = "applied" THEN "reverted" ELSE "stuck"]
      /\ UNCHANGED <<item.database, item.object, item.key>>
  BY <1>1, <1>3 DEF Items
<1>5. /\ w'.done = w.done \ {t} /\ w'.at = "revert"
      /\ UNCHANGED <<OtherFields, w.todo, w.steps, w.dropped, w.sweep, w.says>>
  BY <1>1, <1>2, <1>3 DEF Memory, OtherFields
<1>6. CASE o = "applied"
  BY <1>2, <1>3, <1>4, <1>5, <1>6 DEF Effective, Noted
<1>7. CASE o # "applied"
  BY <1>2, <1>3, <1>4, <1>5, <1>7 DEF Effective, Noted, Outcome
<1> QED
  BY <1>6, <1>7

\* The items of the keys get what the worker says of them, and the group is over.
LEMMA GroupReportDoes ==
  ASSUME Types, GroupReport
  PROVE  /\ w.at = "report" \/ (w.at = "readd" /\ w.sweep = {})
         /\ w'.at = "tables" /\ w'.steps = {} /\ w'.done = {} /\ w'.dropped = {} /\ w'.sweep = {}
         /\ w'.says = Open
         /\ UNCHANGED <<plan, item.database, item.table, item.object, ended, managed, lost, Engine,
                        w.objects, w.object, w.unread, w.todo>>
         /\ item'.key = [fk \in ForeignKeys |->
              IF fk \in GroupKeys(w.block) THEN w.says[fk] ELSE item.key[fk]]
BY DEF GroupReport, Types, remote, Engine, Memory, Items

\* Every step is one of these.
LEMMA Steps ==
  ASSUME [Next]_vars
  PROVE  \/ \/ Verify \/ Drifted \/ Locked \/ LockBusy \/ NoDatabaseStep \/ CancelSeen \/ TablesDone
            \/ ObjectsDone \/ FinishStatus \/ FinishManaged \/ Undropped \/ Escape \/ Crash
            \/ Sweep \/ Cancel
         \/ \E o \in Outcome : AlterDatabase(o)
         \/ \E unread \in BOOLEAN : ReadKeys(unread)
         \/ \E o \in Outcome : SkipTable \/ RefuseTable \/ ConvertTable(o)
         \/ \E x \in Objects : ObjectUnread(x) \/ ObjectCopy(x)
         \/ \E x \in Objects : \E o \in Outcome : ObjectDrop(x, o)
         \/ \E x \in Objects : \E o \in Outcome : ObjectCreate(x, o)
         \/ \E x \in Objects : \E ok \in BOOLEAN : ObjectGrant(x, ok)
         \/ GroupUnknown
         \/ GroupCopies
         \/ GroupConverted \/ Reverted
         \/ GroupReport
         \/ \E o \in Outcome : GroupConvert(o)
         \/ \E o \in Outcome : Revert(o)
         \/ \E o \in Outcome : \E fk \in ForeignKeys : GroupDrop(fk, o)
         \/ \E o \in Outcome : \E fk \in ForeignKeys : GroupAdd(fk, o)
         \/ \E o \in Outcome : \E fk \in ForeignKeys : Undrop(fk, o)
         \/ \E o \in Outcome : \E fk \in ForeignKeys : Readd(fk, o)
         \/ UNCHANGED vars
<1>1. "applied" \in Outcome
  BY DEF Outcome
<1> QED
  BY <1>1 DEF Next, Worker, Group, Recreate

-----------------------------------------------------------------------------
(* Each part of the invariant is kept by every step.                       *)

\* The groups are those of the plan, which no step changes.
LEMMA PlanStays ==
  ASSUME plan' = plan
  PROVE  /\ Converting' = Converting /\ Relevant' = Relevant /\ Ends' = Ends /\ Blocks' = Blocks
         /\ Tables' = Tables
         /\ \A b : GroupKeys(b)' = GroupKeys(b)
<1>1. Converting' = Converting
  BY DEF Converting
<1>2. Relevant' = Relevant
  BY <1>1 DEF Relevant
<1>3. Ends' = Ends
  BY <1>2 DEF Ends
<1>4. Blocks' = Blocks
  BY <1>2, <1>3 DEF Blocks
<1>5. \A b : GroupKeys(b)' = GroupKeys(b)
  BY <1>2 DEF GroupKeys
<1> QED
  BY <1>1, <1>2, <1>3, <1>4, <1>5 DEF Tables

\* Whoever goes on has not given up.
LEMMA LivingStep ==
  ASSUME Types, Living, [Next]_vars
  PROVE  Living'
<1>1. ASSUME ended' = ended, w.at \notin {"over", "dead"} PROVE Living'
  BY <1>1 DEF Living, Alive
<1>2. CASE Verify \/ Drifted \/ Locked \/ LockBusy \/ NoDatabaseStep \/ CancelSeen \/ TablesDone
           \/ ObjectsDone \/ FinishStatus \/ FinishManaged \/ Undropped \/ Escape \/ Crash
           \/ Sweep \/ Cancel
  BY <1>2, MoveDoes DEF Living, Alive
<1>3. ASSUME NEW o \in Outcome, AlterDatabase(o) PROVE Living'
  BY <1>1, <1>3, DatabaseDoes
<1>4. ASSUME NEW unread \in BOOLEAN, ReadKeys(unread) PROVE Living'
  BY <1>1, <1>4, ReadKeysDoes
<1>5. ASSUME NEW o \in Outcome, SkipTable \/ RefuseTable \/ ConvertTable(o) PROVE Living'
  BY <1>1, <1>5, TableDoes
<1>6. ASSUME NEW x \in Objects, ObjectUnread(x) \/ ObjectCopy(x) PROVE Living'
  BY <1>1, <1>6, ObjectPickDoes
<1>7. ASSUME NEW x \in Objects, NEW o \in Outcome, ObjectDrop(x, o) PROVE Living'
  BY <1>1, <1>7, ObjectDropDoes
<1>8. ASSUME NEW x \in Objects, NEW o \in Outcome, ObjectCreate(x, o) PROVE Living'
  BY <1>1, <1>8, ObjectCreateDoes
<1>9. ASSUME NEW x \in Objects, NEW ok \in BOOLEAN, ObjectGrant(x, ok) PROVE Living'
  BY <1>1, <1>9, ObjectGrantDoes
<1>10. CASE GroupUnknown
  BY <1>1, <1>10, GroupUnknownDoes
<1>11. CASE GroupCopies
  BY <1>1, <1>11, GroupCopiesDoes
<1>12. CASE GroupConverted \/ Reverted
  BY <1>1, <1>12, GroupConvertedDoes
<1>13. CASE GroupReport
  BY <1>1, <1>13, GroupReportDoes
<1>14. ASSUME NEW o \in Outcome, GroupConvert(o) PROVE Living'
  BY <1>1, <1>14, GroupConvertDoes
<1>15. ASSUME NEW o \in Outcome, Revert(o) PROVE Living'
  BY <1>1, <1>15, RevertDoes
<1>16. ASSUME NEW o \in Outcome, NEW fk \in ForeignKeys, GroupDrop(fk, o) PROVE Living'
  BY <1>1, <1>16, GroupDropDoes DEF KeyAside
<1>17. ASSUME NEW o \in Outcome, NEW fk \in ForeignKeys, GroupAdd(fk, o) PROVE Living'
  BY <1>1, <1>17, GroupAddDoes DEF KeyAside
<1>18. ASSUME NEW o \in Outcome, NEW fk \in ForeignKeys, Undrop(fk, o) PROVE Living'
  BY <1>1, <1>18, UndropDoes DEF KeyAside
<1>19. ASSUME NEW o \in Outcome, NEW fk \in ForeignKeys, Readd(fk, o) PROVE Living'
  BY <1>1, <1>19, ReaddDoes DEF KeyAside
<1>20. CASE UNCHANGED vars
  BY <1>20 DEF vars, Living, Alive
<1> QED
  BY <1>2, <1>3, <1>4, <1>5, <1>6, <1>7, <1>8, <1>9, <1>10, <1>11, <1>12, <1>13, <1>14,
     <1>15,
     <1>16, <1>17, <1>18, <1>19, <1>20, Steps

\* The item of the database, and the inventory after it.
LEMMA DatabaseStep ==
  ASSUME Types, Database, [Next]_vars
  PROVE  Database'
<1> DEFINE Early == {"verify", "lock", "database"}
<1>1. ASSUME plan' = plan, default' = default, managed' = managed,
             item'.database = item.database, w'.at \in Early => w.at \in Early
      PROVE  Database'
  BY <1>1 DEF Database
<1>2. CASE Verify \/ Drifted \/ Locked \/ LockBusy \/ NoDatabaseStep \/ CancelSeen \/ TablesDone
           \/ ObjectsDone \/ FinishStatus \/ FinishManaged \/ Undropped \/ Escape \/ Crash
           \/ Sweep \/ Cancel
  <2>1. /\ plan' = plan /\ item' = item /\ default' = default
        /\ w'.at \in Early => w.at \in Early
    BY <1>2, MoveDoes DEF Engine
  <2>2. managed' = managed \/ FinishManaged
    BY <1>2 DEF Verify, Drifted, Locked, LockBusy, NoDatabaseStep, CancelSeen, TablesDone,
       ObjectsDone, FinishStatus, Undropped, Escape, Crash, Sweep, Cancel, Abandon, gateway, remote
  <2>3. ASSUME FinishManaged, managed'.collation = "new"
        PROVE  managed.collation = "new" \/ (plan.managed /\ item.database = "ok")
    <3>1. managed \in [status : {"active", "error"}, collation : {"old", "new"}]
      BY DEF Types, TypeOK
    <3>2. /\ \/ managed' = managed \/ managed' = Synced
             \/ managed' = [managed EXCEPT !.status = "error"]
          /\ plan.managed \/ managed' = managed
      BY <2>3 DEF FinishManaged
    <3> QED
      BY <2>3, <3>1, <3>2 DEF Synced
  <2> QED
    BY <2>1, <2>2, <2>3 DEF Database
<1>3. ASSUME NEW o \in Outcome, AlterDatabase(o) PROVE Database'
  BY <1>3, DatabaseDoes DEF Database
<1>4. ASSUME NEW unread \in BOOLEAN, ReadKeys(unread) PROVE Database'
  BY <1>4, <1>1, ReadKeysDoes DEF Engine
<1>5. ASSUME NEW o \in Outcome, SkipTable \/ RefuseTable \/ ConvertTable(o) PROVE Database'
  BY <1>5, <1>1, TableDoes
<1>6. ASSUME NEW x \in Objects, ObjectUnread(x) \/ ObjectCopy(x) PROVE Database'
  BY <1>6, <1>1, ObjectPickDoes DEF Engine
<1>7. ASSUME NEW x \in Objects, NEW o \in Outcome, ObjectDrop(x, o) PROVE Database'
  BY <1>7, <1>1, ObjectDropDoes
<1>8. ASSUME NEW x \in Objects, NEW o \in Outcome, ObjectCreate(x, o) PROVE Database'
  BY <1>8, <1>1, ObjectCreateDoes
<1>9. ASSUME NEW x \in Objects, NEW ok \in BOOLEAN, ObjectGrant(x, ok) PROVE Database'
  BY <1>9, <1>1, ObjectGrantDoes
<1>10. CASE GroupUnknown
  BY <1>10, <1>1, GroupUnknownDoes DEF Engine
<1>11. CASE GroupCopies
  BY <1>11, <1>1, GroupCopiesDoes DEF Engine
<1>12. CASE GroupConverted \/ Reverted
  BY <1>12, <1>1, GroupConvertedDoes DEF Engine
<1>13. CASE GroupReport
  BY <1>13, <1>1, GroupReportDoes DEF Engine
<1>14. ASSUME NEW o \in Outcome, GroupConvert(o) PROVE Database'
  BY <1>14, <1>1, GroupConvertDoes
<1>15. ASSUME NEW o \in Outcome, Revert(o) PROVE Database'
  BY <1>15, <1>1, RevertDoes
<1>16. ASSUME NEW o \in Outcome, NEW fk \in ForeignKeys, GroupDrop(fk, o) PROVE Database'
  BY <1>16, <1>1, GroupDropDoes DEF KeyAside
<1>17. ASSUME NEW o \in Outcome, NEW fk \in ForeignKeys, GroupAdd(fk, o) PROVE Database'
  BY <1>17, <1>1, GroupAddDoes DEF KeyAside
<1>18. ASSUME NEW o \in Outcome, NEW fk \in ForeignKeys, Undrop(fk, o) PROVE Database'
  BY <1>18, <1>1, UndropDoes DEF KeyAside
<1>19. ASSUME NEW o \in Outcome, NEW fk \in ForeignKeys, Readd(fk, o) PROVE Database'
  BY <1>19, <1>1, ReaddDoes DEF KeyAside
<1>20. CASE UNCHANGED vars
  BY <1>20, <1>1 DEF vars
<1> QED
  BY <1>2, <1>3, <1>4, <1>5, <1>6, <1>7, <1>8, <1>9, <1>10, <1>11, <1>12, <1>13, <1>14,
     <1>15, <1>16, <1>17, <1>18, <1>19, <1>20, Steps

\* An object is as it was until its turn, and after it what its item says.
LEMMA RecreatedStep ==
  ASSUME Types, Recreated, [Next]_vars
  PROVE  Recreated'
<1> DEFINE Turning == {"drop object", "create object", "grant object"}
<1>0. plan \in Plans /\ plan.objects \subseteq Objects /\ item.object \in [Objects -> Says]
      /\ object \in [Objects -> {"old", "new", "absent"}]
  BY OfThePlan DEF Types, Items, TypeOK
<1>1. ASSUME plan' = plan, object' = object, grants' = grants, item'.object = item.object,
             w'.objects = w.objects, lost \subseteq lost',
             w'.at \in Turning => w'.at = w.at /\ w'.object = w.object
      PROVE  Recreated'
  <2>1. \A x : Known(x)' => Known(x)
    BY <1>1 DEF Known
  <2>2. \A x : (Kept(x)' <=> Kept(x)) /\ (ObjectTrue(x)' <=> ObjectTrue(x))
    BY <1>1 DEF Kept, ObjectTrue
  <2>3. Kept(w.object)' <=> Kept(w'.object)
    BY <1>1 DEF Kept
  <2> QED
    BY <1>1, <2>1, <2>2, <2>3 DEF Recreated
<1>2. CASE Verify \/ Drifted \/ Locked \/ LockBusy \/ NoDatabaseStep \/ CancelSeen \/ TablesDone
           \/ ObjectsDone \/ FinishStatus \/ FinishManaged \/ Undropped \/ Escape \/ Crash
           \/ Sweep \/ Cancel
  BY <1>2, <1>1, MoveDoes DEF Engine, OtherFields
<1>3. ASSUME NEW o \in Outcome, AlterDatabase(o) PROVE Recreated'
  BY <1>3, <1>1, DatabaseDoes DEF Engine, OtherFields
<1>4. ASSUME NEW unread \in BOOLEAN, ReadKeys(unread) PROVE Recreated'
  BY <1>4, <1>1, ReadKeysDoes DEF Engine, OtherFields
<1>5. ASSUME NEW o \in Outcome, SkipTable \/ RefuseTable \/ ConvertTable(o) PROVE Recreated'
  BY <1>5, <1>1, TableDoes DEF Engine, OtherFields
<1>6. ASSUME NEW x \in Objects, ObjectUnread(x) \/ ObjectCopy(x) PROVE Recreated'
  <2>1. w.at = "objects" /\ x \in w.objects /\ x \in plan.objects /\ Kept(x)
        /\ item.object[x] = "none"
        /\ plan' = plan /\ object' = object /\ grants' = grants /\ lost' = lost
        /\ w'.objects = w.objects \ {x}
    BY <1>6, ObjectPickDoes DEF Recreated, Engine
  <2>2. /\ \A y \in Objects \ {x} : item'.object[y] = item.object[y]
        /\ \/ w'.at = "objects" /\ item'.object[x] = "kept"
           \/ w'.at = "drop object" /\ w'.object = x /\ item'.object[x] = "open"
    BY <1>0, <1>6, ObjectPickDoes
  <2>3. \A y : (Known(y)' <=> Known(y)) /\ (Kept(y)' <=> Kept(y))
    BY <2>1 DEF Known, Kept
  <2>4. Kept(w.object)' <=> Kept(w'.object)
    BY <2>1 DEF Kept
  <2>5. ASSUME NEW y \in plan.objects, Known(y)
        PROVE  ObjectTrue(y)'
    <3>1. CASE y = x
      BY <2>1, <2>2, <3>1 DEF ObjectTrue, Kept
    <3>2. CASE y # x
      <4>1. ObjectTrue(y) /\ y \in Objects \ {x}
        BY <1>0, <2>5, <3>2 DEF Recreated
      <4> QED
        BY <2>1, <2>2, <4>1 DEF ObjectTrue, Kept
    <3> QED
      BY <3>1, <3>2
  <2>6. \A y \in plan.objects : object'[y] = "absent" => item'.object[y] # "none"
    BY <1>0, <2>1, <2>2 DEF Recreated
  <2>7. \A y \in w'.objects : Kept(y) /\ item'.object[y] = "none"
    BY <1>0, <2>1, <2>2 DEF Recreated
  <2> QED
    BY <2>1, <2>2, <2>3, <2>4, <2>5, <2>6, <2>7 DEF Recreated
<1>7. ASSUME NEW x \in Objects, NEW o \in Outcome, ObjectDrop(x, o) PROVE Recreated'
  <2>1. w.at = "drop object" /\ x = w.object /\ x \in plan.objects \ w.objects
        /\ item.object[x] = "open"
        /\ plan' = plan /\ w'.object = w.object /\ w'.objects = w.objects /\ lost \subseteq lost'
        /\ Kept(x)
    BY <1>7, ObjectDropDoes DEF Recreated, OtherFields
  <2>2. \A y \in Objects \ {x} : /\ item'.object[y] = item.object[y] /\ object'[y] = object[y]
                                 /\ y \in grants' <=> y \in grants
    <3>1. /\ item'.object = item.object \/ item'.object = [item.object EXCEPT ![x] = "kept"]
          /\ object' = object \/ object' = [object EXCEPT ![x] = "absent"]
          /\ grants' = grants \/ grants' = grants \ {x}
      BY <1>7, ObjectDropDoes
    <3> QED
      BY <1>0, <3>1
  <2>3. \/ w'.at = "create object" /\ item'.object[x] = "open" /\ object'[x] = "absent"
        \/ /\ w'.at = "objects" /\ item'.object[x] = "kept"
           /\ x \in lost' \/ (object'[x] = object[x] /\ (x \in grants => x \in grants'))
    BY <1>0, <1>7, <2>1, ObjectDropDoes DEF Kept
  <2>4. \A y : Known(y)' => Known(y)
    BY <2>1 DEF Known
  <2>5. \A y \in Objects \ {x} : (Kept(y)' <=> Kept(y)) /\ (ObjectTrue(y)' <=> ObjectTrue(y))
    BY <2>1, <2>2 DEF Kept, ObjectTrue
  <2>6. ASSUME NEW y \in plan.objects, Known(y)'
        PROVE  ObjectTrue(y)'
    <3>1. CASE y = x
      BY <2>1, <2>3, <2>6, <3>1 DEF ObjectTrue, Kept, Known
    <3>2. CASE y # x
      BY <1>0, <2>4, <2>5, <2>6, <3>2 DEF Recreated
    <3> QED
      BY <3>1, <3>2
  <2>7. ASSUME NEW y \in plan.objects, object'[y] = "absent" PROVE item'.object[y] # "none"
    <3>1. CASE y = x
      BY <2>3, <3>1
    <3>2. CASE y # x
      BY <1>0, <2>2, <2>7, <3>2 DEF Recreated
    <3> QED
      BY <3>1, <3>2
  <2>8. \A y \in w.objects : Kept(y)' /\ item'.object[y] = "none"
    BY <1>0, <2>1, <2>2, <2>5 DEF Recreated
  <2> QED
    BY <2>1, <2>2, <2>3, <2>6, <2>7, <2>8 DEF Recreated
<1>8. ASSUME NEW x \in Objects, NEW o \in Outcome, ObjectCreate(x, o) PROVE Recreated'
  <2>1. w.at = "create object" /\ x = w.object /\ x \in plan.objects \ w.objects
        /\ item.object[x] = "open"
        /\ plan' = plan /\ w'.object = w.object /\ w'.objects = w.objects /\ lost \subseteq lost'
        /\ object[x] = "absent"
    BY <1>8, ObjectCreateDoes DEF Recreated, OtherFields
  <2>2. \A y \in Objects \ {x} : /\ item'.object[y] = item.object[y] /\ object'[y] = object[y]
                                 /\ y \in grants' <=> y \in grants
    BY <1>0, <1>8, <2>1, ObjectCreateDoes
  <2>3. \/ w'.at = "grant object" /\ item'.object[x] = "open" /\ object'[x] = "new"
        \/ /\ w'.at = "objects" /\ item'.object[x] = "missing"
           /\ x \in lost' \/ object'[x] = "absent"
    BY <1>0, <1>8, <2>1, ObjectCreateDoes
  <2>4. \A y : Known(y)' => Known(y)
    BY <2>1 DEF Known
  <2>5. \A y \in Objects \ {x} : (Kept(y)' <=> Kept(y)) /\ (ObjectTrue(y)' <=> ObjectTrue(y))
    BY <2>1, <2>2 DEF Kept, ObjectTrue
  <2>6. ASSUME NEW y \in plan.objects, Known(y)'
        PROVE  ObjectTrue(y)'
    <3>1. CASE y = x
      BY <2>1, <2>3, <2>6, <3>1 DEF ObjectTrue, Kept, Known
    <3>2. CASE y # x
      BY <1>0, <2>4, <2>5, <2>6, <3>2 DEF Recreated
    <3> QED
      BY <3>1, <3>2
  <2>7. ASSUME NEW y \in plan.objects, object'[y] = "absent" PROVE item'.object[y] # "none"
    <3>1. CASE y = x
      BY <2>3, <3>1
    <3>2. CASE y # x
      BY <1>0, <2>2, <2>7, <3>2 DEF Recreated
    <3> QED
      BY <3>1, <3>2
  <2>8. \A y \in w.objects : Kept(y)' /\ item'.object[y] = "none"
    BY <1>0, <2>1, <2>2, <2>5 DEF Recreated
  <2> QED
    BY <2>1, <2>2, <2>3, <2>6, <2>7, <2>8 DEF Recreated
<1>9. ASSUME NEW x \in Objects, NEW ok \in BOOLEAN, ObjectGrant(x, ok) PROVE Recreated'
  <2>1. w.at = "grant object" /\ x = w.object /\ x \in plan.objects \ w.objects
        /\ item.object[x] = "open"
        /\ plan' = plan /\ w'.object = w.object /\ w'.objects = w.objects /\ lost \subseteq lost'
        /\ object[x] = "new"
    BY <1>9, ObjectGrantDoes DEF Recreated, OtherFields
  <2>2. \A y \in Objects \ {x} : /\ item'.object[y] = item.object[y] /\ object'[y] = object[y]
                                 /\ y \in grants' <=> y \in grants
    BY <1>0, <1>9, <2>1, ObjectGrantDoes
  <2>3. /\ w'.at = "objects" /\ object'[x] = "new"
        /\ item'.object[x] = (IF ok THEN "ok" ELSE "ungranted")
        /\ ok /\ x \in plan.granted => x \in grants'
    BY <1>0, <1>9, <2>1, ObjectGrantDoes
  <2>4. \A y : Known(y)' => Known(y)
    BY <2>1 DEF Known
  <2>5. \A y \in Objects \ {x} : (Kept(y)' <=> Kept(y)) /\ (ObjectTrue(y)' <=> ObjectTrue(y))
    BY <2>1, <2>2 DEF Kept, ObjectTrue
  <2>6. ASSUME NEW y \in plan.objects, Known(y)'
        PROVE  ObjectTrue(y)'
    <3>1. CASE y = x
      BY <2>1, <2>3, <2>6, <3>1 DEF ObjectTrue, Kept, Known
    <3>2. CASE y # x
      BY <1>0, <2>4, <2>5, <2>6, <3>2 DEF Recreated
    <3> QED
      BY <3>1, <3>2
  <2>7. ASSUME NEW y \in plan.objects, object'[y] = "absent" PROVE item'.object[y] # "none"
    <3>1. CASE y = x
      BY <2>3, <3>1
    <3>2. CASE y # x
      BY <1>0, <2>2, <2>7, <3>2 DEF Recreated
    <3> QED
      BY <3>1, <3>2
  <2>8. \A y \in w.objects : Kept(y)' /\ item'.object[y] = "none"
    BY <1>0, <2>1, <2>2, <2>5 DEF Recreated
  <2> QED
    BY <2>1, <2>2, <2>3, <2>6, <2>7, <2>8 DEF Recreated
<1>10. CASE GroupUnknown
  BY <1>10, <1>1, GroupUnknownDoes DEF Engine, OtherFields
<1>11. CASE GroupCopies
  BY <1>11, <1>1, GroupCopiesDoes DEF Engine, OtherFields
<1>12. CASE GroupConverted \/ Reverted
  BY <1>12, <1>1, GroupConvertedDoes DEF Engine, OtherFields
<1>13. CASE GroupReport
  BY <1>13, <1>1, GroupReportDoes DEF Engine, OtherFields
<1>14. ASSUME NEW o \in Outcome, GroupConvert(o) PROVE Recreated'
  BY <1>14, <1>1, GroupConvertDoes DEF Engine, OtherFields
<1>15. ASSUME NEW o \in Outcome, Revert(o) PROVE Recreated'
  BY <1>15, <1>1, RevertDoes DEF Engine, OtherFields
<1>16. ASSUME NEW o \in Outcome, NEW fk \in ForeignKeys, GroupDrop(fk, o) PROVE Recreated'
  BY <1>16, <1>1, GroupDropDoes DEF KeyAside, Engine, OtherFields
<1>17. ASSUME NEW o \in Outcome, NEW fk \in ForeignKeys, GroupAdd(fk, o) PROVE Recreated'
  BY <1>17, <1>1, GroupAddDoes DEF KeyAside, Engine, OtherFields
<1>18. ASSUME NEW o \in Outcome, NEW fk \in ForeignKeys, Undrop(fk, o) PROVE Recreated'
  BY <1>18, <1>1, UndropDoes DEF KeyAside, Engine, OtherFields
<1>19. ASSUME NEW o \in Outcome, NEW fk \in ForeignKeys, Readd(fk, o) PROVE Recreated'
  BY <1>19, <1>1, ReaddDoes DEF KeyAside, Engine, OtherFields
<1>20. CASE UNCHANGED vars
  BY <1>20, <1>1 DEF vars
<1> QED
  BY <1>2, <1>3, <1>4, <1>5, <1>6, <1>7, <1>8, <1>9, <1>10, <1>11, <1>12, <1>13, <1>14,
     <1>15, <1>16, <1>17, <1>18, <1>19, <1>20, Steps

\* A table is converted by the step that takes it off the list, and its item says so.
LEMMA OnceStep ==
  ASSUME Types, Once, Grouped, [Next]_vars
  PROVE  Once'
<1>0. /\ plan \in Plans /\ item.table \in [Tables -> Says] /\ Converting \subseteq Tables
      /\ \A b \in Blocks : b \in SUBSET Tables
  BY Relates, Partition DEF Types, Items
<1>a. \A t : Known(t)' /\ lost \subseteq lost' => Known(t)
  BY DEF Known
<1>1. ASSUME plan' = plan, item'.table = item.table, converted' = converted, w'.todo = w.todo,
             w'.steps = w.steps, w'.done = w.done, lost \subseteq lost',
             w'.at \in {"drop", "convert"} => w.at \in {"drop", "convert"}
      PROVE  Once'
  <2>1. \A t : TableTrue(t)' <=> TableTrue(t)
    BY <1>1 DEF TableTrue
  <2> QED
    BY <1>1, <1>a, <2>1, PlanStays DEF Once
<1>2. CASE Verify \/ Drifted \/ Locked \/ LockBusy \/ NoDatabaseStep \/ CancelSeen \/ TablesDone
           \/ ObjectsDone \/ FinishStatus \/ FinishManaged \/ Undropped \/ Escape \/ Crash
           \/ Sweep \/ Cancel
  BY <1>2, <1>1, MoveDoes DEF Engine, GroupFields, OtherFields
<1>3. ASSUME NEW o \in Outcome, AlterDatabase(o) PROVE Once'
  BY <1>3, <1>1, DatabaseDoes DEF Engine, GroupFields, OtherFields
<1>4. ASSUME NEW unread \in BOOLEAN, ReadKeys(unread) PROVE Once'
  BY <1>4, <1>1, ReadKeysDoes DEF Engine, GroupFields, OtherFields
<1>5. ASSUME NEW o \in Outcome, SkipTable \/ RefuseTable \/ ConvertTable(o) PROVE Once'
  <2>1. /\ w.at = "tables" /\ w'.at = "tables" /\ Next1 \in w.todo /\ Next1 \in Tables
        /\ w'.todo = w.todo \ {Next1} /\ w'.steps = w.steps /\ w'.done = w.done
        /\ lost \subseteq lost' /\ Converting' = Converting
    BY <1>5, TableDoes, PlanStays DEF GroupFields
  <2>2. PICK what \in {"ok", "kept", "skipped"} :
          /\ item'.table = [item.table EXCEPT ![Next1] = what]
          /\ \/ Next1 \notin Converting /\ converted' = converted
             \/ what = "kept" /\ converted' = converted
             \/ Next1 \in lost' /\ converted' = converted \cup {Next1}
             \/ what = "ok" /\ converted' = converted \cup {Next1}
    BY <1>5, TableDoes
  <2>3. ASSUME NEW t \in Converting, Known(t)' PROVE TableTrue(t)'
    <3>1. CASE t = Next1
      BY <1>0, <2>1, <2>2, <2>3, <3>1 DEF Known, TableTrue, Once
    <3>2. CASE t # Next1
      BY <1>0, <1>a, <2>1, <2>2, <2>3, <3>2 DEF TableTrue, Once
    <3> QED
      BY <3>1, <3>2
  <2> QED
    BY <2>1, <2>2, <2>3 DEF Once
<1>6. ASSUME NEW x \in Objects, ObjectUnread(x) \/ ObjectCopy(x) PROVE Once'
  BY <1>6, <1>1, ObjectPickDoes DEF Engine, GroupFields, OtherFields
<1>7. ASSUME NEW x \in Objects, NEW o \in Outcome, ObjectDrop(x, o) PROVE Once'
  BY <1>7, <1>1, ObjectDropDoes DEF Engine, GroupFields, OtherFields
<1>8. ASSUME NEW x \in Objects, NEW o \in Outcome, ObjectCreate(x, o) PROVE Once'
  BY <1>8, <1>1, ObjectCreateDoes DEF Engine, GroupFields, OtherFields
<1>9. ASSUME NEW x \in Objects, NEW ok \in BOOLEAN, ObjectGrant(x, ok) PROVE Once'
  BY <1>9, <1>1, ObjectGrantDoes DEF Engine, GroupFields, OtherFields
<1>10. CASE GroupUnknown
  <2>1. PICK b \in Blocks :
          /\ Next1 \in b \cap Converting /\ Next1 \in w.todo
          /\ w'.todo = w.todo \ (b \cap Converting)
          /\ item'.table =
               [t \in Tables |-> IF t \in b \cap Converting THEN "kept" ELSE item.table[t]]
    BY <1>10, GroupUnknownDoes
  <2>2. /\ w.at = "tables" /\ w'.at = "tables" /\ ~w.unread /\ plan.engine = "mariadb"
        /\ converted' = converted /\ w'.steps = w.steps /\ w'.done = w.done /\ lost' = lost
        /\ Converting' = Converting
    BY <1>10, GroupUnknownDoes, PlanStays DEF Engine, GroupFields
  <2>3. b \cap Converting \subseteq w.todo
    BY <2>1, <2>2 DEF Grouped, Waiting
  <2>4. ASSUME NEW t \in Converting, Known(t) PROVE TableTrue(t)'
    <3>1. CASE t \in b
      BY <1>0, <2>1, <2>2, <2>3, <3>1 DEF TableTrue, Once
    <3>2. CASE t \notin b
      BY <1>0, <2>1, <2>2, <2>4, <3>2 DEF TableTrue, Once
    <3> QED
      BY <3>1, <3>2
  <2> QED
    BY <1>a, <2>1, <2>2, <2>4 DEF Once
<1>11. CASE GroupCopies
  <2>1. PICK b \in Blocks :
          /\ Next1 \in b \cap Converting /\ Next1 \in w.todo
          /\ w'.steps = b \cap Converting /\ w'.done = {} /\ w'.todo = w.todo \ (b \cap Converting)
    BY <1>11, GroupCopiesDoes
  <2>2. /\ ~w.unread /\ plan.engine = "mariadb" /\ converted' = converted
        /\ item'.table = item.table /\ lost' = lost /\ Converting' = Converting
    BY <1>11, GroupCopiesDoes, PlanStays DEF Engine
  <2>3. b \cap Converting \subseteq w.todo
    BY <2>1, <2>2 DEF Grouped, Waiting
  <2>4. \A t : TableTrue(t)' <=> TableTrue(t)
    BY <2>2 DEF TableTrue
  <2> QED
    BY <1>a, <2>1, <2>2, <2>3, <2>4 DEF Once
<1>12. CASE GroupConverted \/ Reverted
  BY <1>12, <1>1, GroupConvertedDoes DEF Engine, GroupFields, OtherFields
<1>13. CASE GroupReport
  <2>1. /\ w'.at = "tables" /\ w'.steps = {} /\ w'.done = {} /\ w'.todo = w.todo
        /\ item'.table = item.table /\ converted' = converted /\ lost' = lost
        /\ Converting' = Converting
    BY <1>13, GroupReportDoes, PlanStays DEF Engine
  <2>2. \A t : TableTrue(t)' <=> TableTrue(t)
    BY <2>1 DEF TableTrue
  <2> QED
    BY <1>a, <2>1, <2>2 DEF Once
<1>14. ASSUME NEW o \in Outcome, GroupConvert(o) PROVE Once'
  <2>1. /\ w.at = "convert" /\ w'.todo = w.todo /\ lost \subseteq lost' /\ Converting' = Converting
    BY <1>14, GroupConvertDoes, PlanStays
  <2>2. PICK t \in w.steps :
          \/ /\ w'.at = "convert" /\ w'.steps = w.steps \ {t} /\ w'.done = w.done \cup {t}
             /\ converted' = converted \cup {t} /\ item'.table = [item.table EXCEPT ![t] = "ok"]
          \/ /\ w'.steps = w.steps /\ w'.done = w.done /\ w'.at \in {"undrop", "readd"}
             /\ converted' = converted \/ (converted' = converted \cup {t} /\ t \in lost')
             /\ item'.table = [u \in Tables |-> IF u = t THEN "kept"
                  ELSE IF u \in w.steps THEN "skipped" ELSE item.table[u]]
    BY <1>14, GroupConvertDoes
  <2>3. t \in Converting /\ t \notin converted /\ w.steps \cap converted = {} /\ t \notin w.todo
    BY <2>1, <2>2 DEF Once
  <2>4. ASSUME NEW u \in Converting, Known(u)' PROVE TableTrue(u)'
    <3>1. CASE u = t
      BY <1>0, <2>2, <2>3, <2>4, <3>1 DEF Known, TableTrue
    <3>2. CASE u # t /\ u \in w.steps
      BY <1>0, <1>a, <2>1, <2>2, <2>3, <2>4, <3>2 DEF TableTrue, Once
    <3>3. CASE u \notin w.steps
      BY <1>0, <1>a, <2>1, <2>2, <2>3, <2>4, <3>3 DEF TableTrue, Once
    <3> QED
      BY <3>1, <3>2, <3>3
  <2>5. w'.todo \cap Converting \cap converted' = {}
    BY <2>1, <2>2, <2>3 DEF Once
  <2>6. w'.steps \subseteq Converting /\ w'.done \subseteq Converting \cap converted'
    BY <2>2, <2>3 DEF Once
  <2>7. w'.steps \cap w'.done = {} /\ w'.todo \cap (w'.steps \cup w'.done) = {}
    BY <2>1, <2>2, <2>3 DEF Once
  <2>8. w'.at \in {"drop", "convert"} => w'.steps \cap converted' = {}
    BY <2>2, <2>3
  <2> QED
    BY <2>1, <2>4, <2>5, <2>6, <2>7, <2>8 DEF Once
<1>15. ASSUME NEW o \in Outcome, Revert(o) PROVE Once'
  <2>1. /\ w'.at = "revert" /\ w'.todo = w.todo /\ w'.steps = w.steps /\ lost \subseteq lost'
        /\ Converting' = Converting
    BY <1>15, RevertDoes, PlanStays
  <2>2. PICK t \in w.done :
          /\ w'.done = w.done \ {t}
          /\ \/ /\ converted' = converted \ {t}
                /\ item'.table = [item.table EXCEPT ![t] = "reverted"]
             \/ /\ item'.table = [item.table EXCEPT ![t] = "stuck"]
                /\ \/ converted' = converted
                   \/ converted' = converted \ {t} /\ t \in lost'
    BY <1>15, RevertDoes
  <2>3. t \in Converting /\ t \in converted
    BY <2>2 DEF Once
  <2>4. ASSUME NEW u \in Converting, Known(u)' PROVE TableTrue(u)'
    <3>1. CASE u = t
      BY <1>0, <2>2, <2>3, <2>4, <3>1 DEF Known, TableTrue
    <3>2. CASE u # t
      BY <1>0, <1>a, <2>1, <2>2, <2>4, <3>2 DEF TableTrue, Once
    <3> QED
      BY <3>1, <3>2
  <2> QED
    BY <2>1, <2>2, <2>3, <2>4 DEF Once
<1>16. ASSUME NEW o \in Outcome, NEW fk \in ForeignKeys, GroupDrop(fk, o) PROVE Once'
  <2>1. /\ w.at = "drop" /\ w'.todo = w.todo /\ w'.steps = w.steps /\ w'.done = w.done
        /\ converted' = converted /\ lost \subseteq lost' /\ Converting' = Converting
    BY <1>16, GroupDropDoes, PlanStays DEF KeyAside
  <2>2. \/ item'.table = item.table
        \/ item'.table = [t \in Tables |-> IF t \in w.steps THEN "kept" ELSE item.table[t]]
    BY <1>16, GroupDropDoes
  <2>3. ASSUME NEW t \in Converting, Known(t)' PROVE TableTrue(t)'
    <3>1. TableTrue(t)
      BY <1>a, <2>1, <2>3 DEF Once
    <3>2. t \in w.steps => t \notin converted
      BY <2>1 DEF Once
    <3> QED
      BY <1>0, <2>1, <2>2, <3>1, <3>2 DEF TableTrue
  <2> QED
    BY <2>1, <2>3 DEF Once
<1>17. ASSUME NEW o \in Outcome, NEW fk \in ForeignKeys, GroupAdd(fk, o) PROVE Once'
  BY <1>17, <1>1, GroupAddDoes DEF KeyAside
<1>18. ASSUME NEW o \in Outcome, NEW fk \in ForeignKeys, Undrop(fk, o) PROVE Once'
  BY <1>18, <1>1, UndropDoes DEF KeyAside
<1>19. ASSUME NEW o \in Outcome, NEW fk \in ForeignKeys, Readd(fk, o) PROVE Once'
  BY <1>19, <1>1, ReaddDoes DEF KeyAside
<1>20. CASE UNCHANGED vars
  BY <1>20, <1>1 DEF vars
<1> QED
  BY <1>2, <1>3, <1>4, <1>5, <1>6, <1>7, <1>8, <1>9, <1>10, <1>11, <1>12, <1>13, <1>14,
     <1>15, <1>16, <1>17, <1>18, <1>19, <1>20, Steps

\* A step within a group keeps what is stored when the keys of the group it left out are
\* those it knows to be out, and those it gave up are the ones it calls missing.
LEMMA KeyStep ==
  ASSUME Types, Living, Stored, InGroup, InGroup', plan' = plan, ended' = ended,
         w'.block = w.block, item'.key = item.key, lost \subseteq lost',
         w'.sweep \subseteq GroupKeys(w.block), w'.dropped \subseteq GroupKeys(w.block),
         \A f \in plan.keys \ GroupKeys(w.block) : f \in keys' <=> f \in keys,
         \A f \in GroupKeys(w.block) : f \notin lost' => (f \in w'.dropped <=> f \notin keys'),
         w'.at \in {"drop", "undrop"} => w'.sweep \cap w'.dropped = {},
         w'.at = "add" => w'.sweep = w'.dropped,
         w'.at = "report" => w'.dropped = {},
         w'.at = "readd" => w'.sweep \subseteq w'.dropped,
         \A f \in ForeignKeys : w'.says[f] # "none",
         \A f \in ForeignKeys :
           w'.says[f] = "missing" <=> w'.at = "readd" /\ f \in w'.dropped \ w'.sweep
  PROVE  Stored'
<1>1. GroupKeys(w.block)' = GroupKeys(w.block) /\ Blocks' = Blocks
  BY PlanStays DEF GroupKeys
<1>2. Alive
  BY DEF InGroup, Living
<1>3. InGroup =>
       /\ plan.engine = "mariadb" /\ w.block \in Blocks
       /\ \A fk \in GroupKeys(w.block) : item.key[fk] = "open"
  BY DEF Stored
<1>4. ASSUME NEW f \in plan.keys, Known(f)' PROVE KeyTrue(f)'
  <2>1. f \notin lost' /\ Known(f)
    BY <1>4 DEF Known
  <2>2. KeyTrue(f)
    BY <1>2, <2>1 DEF Stored
  <2> QED
    BY <1>1, <2>1, <2>2 DEF KeyTrue
<1>5. \A f \in plan.keys \ keys' : item'.key[f] # "none"
  BY <1>3 DEF Stored
<1> QED
  BY <1>1, <1>3, <1>4, <1>5 DEF Stored

\* The keys out of the engine are those the worker remembers or an item tells of.
LEMMA StoredStep ==
  ASSUME Types, Living, Stored, Grouped, [Next]_vars
  PROVE  Stored'
<1>0. /\ plan \in Plans /\ item.key \in [ForeignKeys -> Says] /\ plan.keys \subseteq ForeignKeys
      /\ w.says \in [ForeignKeys -> Says] /\ w.at \in Labels
      /\ \A b \in Blocks : GroupKeys(b) \in SUBSET ForeignKeys /\ GroupKeys(b) \subseteq plan.keys
  BY TypesGives, OfThePlan DEF Items
<1>1. ASSUME plan' = plan, keys' = keys, item'.key = item.key, lost \subseteq lost',
             UNCHANGED <<w.block, w.dropped, w.sweep, w.says>>,
             \/ w'.at = w.at /\ ended' = ended
             \/ w'.at \in {"over", "dead"} /\ ~Alive'
             \/ w.at \notin {"over", "dead"} /\ ~InGroup /\ ~InGroup'
             \/ w.at = "undrop" /\ w'.at = "revert" /\ ended' = ended
      PROVE  Stored'
  <2>1. GroupKeys(w.block)' = GroupKeys(w.block) /\ Blocks' = Blocks
    BY <1>1, PlanStays DEF GroupKeys
  <2>2. \A f : Known(f)' => Known(f)
    BY <1>1 DEF Known
  <2>3. Alive' => Alive
    BY <1>1 DEF Alive, Living
  <2>4. InGroup' => InGroup
    BY <1>1 DEF InGroup
  <2>5. ASSUME Alive', NEW f \in plan.keys, Known(f)' PROVE KeyTrue(f)'
    <3>1. KeyTrue(f)
      BY <2>2, <2>3, <2>5 DEF Stored
    <3>2. InGroup' <=> InGroup
      BY <1>1, <2>5 DEF InGroup
    <3> QED
      BY <1>1, <2>1, <3>1, <3>2 DEF KeyTrue
  <2>6. w'.at \notin {"over", "dead"} => \A f \in ForeignKeys :
          w'.says[f] = "missing" <=> w'.at = "readd" /\ f \in w'.dropped \ w'.sweep
    BY <1>1 DEF Stored, InGroup
  <2>7. w'.at \in {"drop", "undrop", "add", "report", "readd"} => w'.at = w.at
    BY <1>1 DEF InGroup
  <2> QED
    BY <1>1, <2>1, <2>4, <2>5, <2>6, <2>7 DEF Stored
<1>2. CASE Verify \/ Drifted \/ Locked \/ LockBusy \/ NoDatabaseStep \/ CancelSeen \/ TablesDone
           \/ ObjectsDone \/ FinishStatus \/ FinishManaged \/ Undropped \/ Escape \/ Crash
           \/ Sweep \/ Cancel
  <2>1. /\ plan' = plan /\ keys' = keys /\ item' = item /\ lost' = lost
        /\ UNCHANGED <<w.block, w.dropped, w.sweep, w.says>>
    BY <1>2, MoveDoes DEF Engine, GroupFields
  <2>2. \/ w'.at = w.at /\ ended' = ended
        \/ w'.at \in {"over", "dead"} /\ ~Alive'
        \/ w.at \notin {"over", "dead"} /\ ~InGroup /\ ~InGroup'
        \/ w.at = "undrop" /\ w'.at = "revert" /\ ended' = ended
    BY <1>2, MoveDoes DEF Alive, InGroup
  <2> QED
    BY <1>1, <2>1, <2>2
<1>3. ASSUME NEW o \in Outcome, AlterDatabase(o) PROVE Stored'
  BY <1>3, <1>1, DatabaseDoes DEF Engine, GroupFields, OtherFields, InGroup
<1>4. ASSUME NEW unread \in BOOLEAN, ReadKeys(unread) PROVE Stored'
  BY <1>4, <1>1, ReadKeysDoes DEF Engine, GroupFields, OtherFields, InGroup
<1>5. ASSUME NEW o \in Outcome, SkipTable \/ RefuseTable \/ ConvertTable(o) PROVE Stored'
  BY <1>5, <1>1, TableDoes DEF Engine, GroupFields, OtherFields, InGroup
<1>6. ASSUME NEW x \in Objects, ObjectUnread(x) \/ ObjectCopy(x) PROVE Stored'
  BY <1>6, <1>1, ObjectPickDoes DEF Engine, GroupFields, OtherFields, InGroup
<1>7. ASSUME NEW x \in Objects, NEW o \in Outcome, ObjectDrop(x, o) PROVE Stored'
  BY <1>7, <1>1, ObjectDropDoes DEF Engine, GroupFields, OtherFields, InGroup
<1>8. ASSUME NEW x \in Objects, NEW o \in Outcome, ObjectCreate(x, o) PROVE Stored'
  BY <1>8, <1>1, ObjectCreateDoes DEF Engine, GroupFields, OtherFields, InGroup
<1>9. ASSUME NEW x \in Objects, NEW ok \in BOOLEAN, ObjectGrant(x, ok) PROVE Stored'
  BY <1>9, <1>1, ObjectGrantDoes DEF Engine, GroupFields, OtherFields, InGroup
<1>10. CASE GroupUnknown
  BY <1>10, <1>1, GroupUnknownDoes DEF Engine, GroupFields, OtherFields, InGroup
<1>11. CASE GroupCopies
  <2>1. PICK b \in Blocks :
          /\ Next1 \in b \cap Converting /\ Next1 \in w.todo
          /\ w'.block = b /\ w'.dropped = {} /\ w'.sweep = GroupKeys(b)
          /\ item'.key =
               [fk \in ForeignKeys |-> IF fk \in GroupKeys(b) THEN "open" ELSE item.key[fk]]
    BY <1>11, GroupCopiesDoes
  <2>2. /\ w.at = "tables" /\ w'.at = "drop" /\ ~w.unread /\ plan.engine = "mariadb"
        /\ plan' = plan /\ keys' = keys /\ lost' = lost /\ ended' = ended /\ w'.says = w.says
    BY <1>11, GroupCopiesDoes DEF Engine
  <2>3. GroupKeys(b) \subseteq keys
    BY <2>1, <2>2 DEF Grouped, Waiting
  <2>4. GroupKeys(w.block)' = GroupKeys(b) /\ Blocks' = Blocks
    BY <2>1, <2>2, PlanStays DEF GroupKeys
  <2>5. ASSUME NEW f \in plan.keys, Known(f)' PROVE KeyTrue(f)'
    <3>1. Known(f) /\ Alive
      BY <2>2, <2>5 DEF Known, Living
    <3>2. KeyTrue(f)
      BY <3>1 DEF Stored
    <3>3. item.key[f] = "missing" <=> f \notin keys
      BY <2>2, <3>2 DEF KeyTrue, InGroup
    <3>4. f \notin GroupKeys(b) => item'.key[f] = item.key[f]
      BY <1>0, <2>1
    <3> QED
      BY <2>1, <2>2, <2>3, <2>4, <3>3, <3>4 DEF KeyTrue, InGroup
  <2>6. \A f \in plan.keys \ keys' : item'.key[f] # "none"
    BY <1>0, <2>1, <2>2 DEF Stored
  <2>7. \A f \in GroupKeys(b) : item'.key[f] = "open"
    BY <1>0, <2>1
  <2>8. \A f \in ForeignKeys : w'.says[f] # "none" /\ w'.says[f] # "missing"
    BY <2>2 DEF Stored
  <2> QED
    BY <2>1, <2>2, <2>4, <2>5, <2>6, <2>7, <2>8 DEF Stored
<1>12. CASE GroupConverted \/ Reverted
  <2>1. /\ plan' = plan /\ ended' = ended /\ w'.block = w.block /\ item' = item /\ lost' = lost
        /\ keys' = keys /\ w'.dropped = w.dropped /\ w'.sweep = w.dropped /\ w'.says = w.says
        /\ w.at \in {"convert", "revert"} /\ w'.at \in {"add", "readd"}
    BY <1>12, GroupConvertedDoes DEF Engine, OtherFields
  <2>2. InGroup /\ InGroup' /\ Alive
    BY <2>1 DEF InGroup, Living
  <2>3. /\ w.dropped \subseteq GroupKeys(w.block) /\ w.block \in Blocks
        /\ \A f \in plan.keys : f \notin lost => KeyTrue(f)
        /\ \A f \in ForeignKeys : w.says[f] # "none" /\ w.says[f] # "missing"
    BY <2>1, <2>2 DEF Stored, Known
  <2>4. \A f \in GroupKeys(w.block) : f \notin lost => (f \in w.dropped <=> f \notin keys)
    BY <1>0, <2>2, <2>3 DEF KeyTrue
  <2> QED
    BY <2>1, <2>2, <2>3, <2>4, KeyStep
<1>13. CASE GroupReport
  <2>1. /\ w'.at = "tables" /\ w'.dropped = {} /\ w'.sweep = {} /\ w'.says = Open
        /\ plan' = plan /\ keys' = keys /\ lost' = lost /\ ended' = ended
        /\ item'.key = [fk \in ForeignKeys |->
             IF fk \in GroupKeys(w.block) THEN w.says[fk] ELSE item.key[fk]]
        /\ w.at = "report" \/ (w.at = "readd" /\ w.sweep = {})
    BY <1>13, GroupReportDoes DEF Engine
  <2>2. InGroup /\ ~InGroup' /\ Alive
    BY <2>1 DEF InGroup, Living
  <2>3. ASSUME NEW f \in plan.keys, Known(f)' PROVE KeyTrue(f)'
    <3>1. KeyTrue(f)
      BY <2>1, <2>2, <2>3 DEF Stored, Known
    <3>2. w.says[f] = "missing" <=> f \in w.dropped
      BY <1>0, <2>1 DEF Stored
    <3>3. CASE f \in GroupKeys(w.block)
      BY <1>0, <2>1, <2>2, <3>1, <3>2, <3>3 DEF KeyTrue
    <3>4. CASE f \notin GroupKeys(w.block)
      BY <1>0, <2>1, <2>2, <3>1, <3>4 DEF KeyTrue
    <3> QED
      BY <3>3, <3>4
  <2>4. \A f \in plan.keys \ keys' : item'.key[f] # "none"
    BY <1>0, <2>1 DEF Stored
  <2>5. \A f \in ForeignKeys : w'.says[f] = "open"
    BY <2>1 DEF Open
  <2> QED
    BY <2>1, <2>2, <2>3, <2>4, <2>5 DEF Stored
<1>14. ASSUME NEW o \in Outcome, GroupConvert(o) PROVE Stored'
  <2>1. /\ plan' = plan /\ ended' = ended /\ w'.block = w.block /\ item'.key = item.key
        /\ lost \subseteq lost' /\ keys' = keys /\ w'.dropped = w.dropped /\ w'.says = w.says
        /\ w.at = "convert"
        /\ \/ w'.at = "convert" /\ w'.sweep = w.sweep
           \/ w'.at = "undrop" /\ w'.sweep = GroupKeys(w.block) \ w.dropped
           \/ w'.at = "readd" /\ w'.sweep = w.dropped
    BY <1>14, GroupConvertDoes DEF OtherFields
  <2>2. InGroup /\ InGroup' /\ Alive
    BY <2>1 DEF InGroup, Living
  <2>3. /\ w.dropped \subseteq GroupKeys(w.block) /\ w.sweep \subseteq GroupKeys(w.block)
        /\ w.block \in Blocks /\ \A f \in plan.keys : f \notin lost => KeyTrue(f)
        /\ \A f \in ForeignKeys : w.says[f] # "none"
        /\ \A f \in ForeignKeys :
             w.says[f] = "missing" <=> w.at = "readd" /\ f \in w.dropped \ w.sweep
    BY <2>1, <2>2 DEF Stored, Known
  <2>4. \A f \in GroupKeys(w.block) : f \notin lost => (f \in w.dropped <=> f \notin keys)
    BY <1>0, <2>2, <2>3 DEF KeyTrue
  <2> QED
    BY <2>1, <2>2, <2>3, <2>4, KeyStep
<1>15. ASSUME NEW o \in Outcome, Revert(o) PROVE Stored'
  BY <1>15, <1>1, RevertDoes DEF Engine, GroupFields, OtherFields, InGroup
<1>16. ASSUME NEW o \in Outcome, NEW fk \in ForeignKeys, GroupDrop(fk, o) PROVE Stored'
  <2>1. /\ plan' = plan /\ ended' = ended /\ w'.block = w.block /\ item'.key = item.key
        /\ lost \subseteq lost' /\ w.at = "drop" /\ fk \in w.sweep
        /\ \/ /\ w'.at = (IF w.sweep = {fk} THEN "convert" ELSE "drop")
              /\ w'.sweep = w.sweep \ {fk} /\ w'.dropped = w.dropped \cup {fk}
              /\ keys' = keys \ {fk} /\ w'.says = w.says
           \/ /\ w'.dropped = w.dropped
              /\ keys' = keys \/ (keys' = keys \ {fk} /\ fk \in lost')
              /\ w'.says = [f \in ForeignKeys |-> IF f \in w.sweep THEN "kept" ELSE w.says[f]]
              /\ \/ w'.at = "undrop" /\ w'.sweep = GroupKeys(w.block) \ w.dropped
                 \/ w'.at = "readd" /\ w'.sweep = w.dropped
    BY <1>16, GroupDropDoes DEF KeyAside, OtherFields
  <2>2. InGroup /\ InGroup' /\ Alive
    BY <2>1 DEF InGroup, Living
  <2>3. /\ w.dropped \subseteq GroupKeys(w.block) /\ w.sweep \subseteq GroupKeys(w.block)
        /\ w.block \in Blocks /\ \A f \in plan.keys : f \notin lost => KeyTrue(f)
        /\ \A f \in ForeignKeys : w.says[f] # "none"
        /\ \A f \in ForeignKeys :
             w.says[f] = "missing" <=> w.at = "readd" /\ f \in w.dropped \ w.sweep
    BY <2>1, <2>2 DEF Stored, Known
  <2>4. \A f \in GroupKeys(w.block) : f \notin lost => (f \in w.dropped <=> f \notin keys)
    BY <1>0, <2>2, <2>3 DEF KeyTrue
  <2>5. w.sweep \cap w.dropped = {}
    BY <2>1 DEF Stored
  <2>6. /\ \A f \in plan.keys \ GroupKeys(w.block) : f \in keys' <=> f \in keys
        /\ \A f \in GroupKeys(w.block) : f \notin lost' => (f \in w'.dropped <=> f \notin keys')
    BY <2>1, <2>3, <2>4, <2>5
  <2>7. w'.sweep \subseteq GroupKeys(w.block) /\ w'.dropped \subseteq GroupKeys(w.block)
    BY <2>1, <2>3
  <2>8. /\ \A f \in ForeignKeys : w'.says[f] # "none"
        /\ \A f \in ForeignKeys :
             w'.says[f] = "missing" <=> w'.at = "readd" /\ f \in w'.dropped \ w'.sweep
    BY <1>0, <2>1, <2>3, <2>5
  <2>9. /\ w'.at \in {"drop", "undrop"} => w'.sweep \cap w'.dropped = {}
        /\ w'.at = "add" => w'.sweep = w'.dropped
        /\ w'.at = "report" => w'.dropped = {}
        /\ w'.at = "readd" => w'.sweep \subseteq w'.dropped
    BY <2>1, <2>5
  <2> QED
    BY <2>1, <2>2, <2>6, <2>7, <2>8, <2>9, KeyStep
<1>17. ASSUME NEW o \in Outcome, NEW fk \in ForeignKeys, GroupAdd(fk, o) PROVE Stored'
  <2>1. /\ plan' = plan /\ ended' = ended /\ w'.block = w.block /\ item'.key = item.key
        /\ lost \subseteq lost' /\ w.at = "add" /\ fk \in w.sweep
        /\ \/ /\ w'.at = (IF w.sweep = {fk} THEN "report" ELSE "add")
              /\ w'.sweep = w.sweep \ {fk} /\ w'.dropped = w.dropped \ {fk}
              /\ keys' = keys \cup {fk}
              /\ w'.says = [f \in ForeignKeys |-> IF f \in {fk} THEN "ok" ELSE w.says[f]]
           \/ /\ w'.dropped = w.dropped
              /\ keys' = keys \/ (keys' = keys \cup {fk} /\ fk \in lost')
              /\ w'.says = [f \in ForeignKeys |-> IF f \in {fk} THEN "failed" ELSE w.says[f]]
              /\ \/ w'.at = "undrop" /\ w'.sweep = GroupKeys(w.block) \ w.dropped
                 \/ w'.at = "readd" /\ w'.sweep = w.dropped
    BY <1>17, GroupAddDoes DEF KeyAside, OtherFields
  <2>2. InGroup /\ InGroup' /\ Alive
    BY <2>1 DEF InGroup, Living
  <2>3. /\ w.dropped \subseteq GroupKeys(w.block) /\ w.sweep \subseteq GroupKeys(w.block)
        /\ w.block \in Blocks /\ \A f \in plan.keys : f \notin lost => KeyTrue(f)
        /\ \A f \in ForeignKeys : w.says[f] # "none"
        /\ \A f \in ForeignKeys :
             w.says[f] = "missing" <=> w.at = "readd" /\ f \in w.dropped \ w.sweep
    BY <2>1, <2>2 DEF Stored, Known
  <2>4. \A f \in GroupKeys(w.block) : f \notin lost => (f \in w.dropped <=> f \notin keys)
    BY <1>0, <2>2, <2>3 DEF KeyTrue
  <2>5. w.sweep = w.dropped
    BY <2>1 DEF Stored
  <2>6. /\ \A f \in plan.keys \ GroupKeys(w.block) : f \in keys' <=> f \in keys
        /\ \A f \in GroupKeys(w.block) : f \notin lost' => (f \in w'.dropped <=> f \notin keys')
    BY <2>1, <2>3, <2>4, <2>5
  <2>7. w'.sweep \subseteq GroupKeys(w.block) /\ w'.dropped \subseteq GroupKeys(w.block)
    BY <2>1, <2>3
  <2>8. /\ \A f \in ForeignKeys : w'.says[f] # "none"
        /\ \A f \in ForeignKeys :
             w'.says[f] = "missing" <=> w'.at = "readd" /\ f \in w'.dropped \ w'.sweep
    BY <1>0, <2>1, <2>3, <2>5
  <2>9. /\ w'.at \in {"drop", "undrop"} => w'.sweep \cap w'.dropped = {}
        /\ w'.at = "add" => w'.sweep = w'.dropped
        /\ w'.at = "report" => w'.dropped = {}
        /\ w'.at = "readd" => w'.sweep \subseteq w'.dropped
    BY <2>1, <2>5
  <2> QED
    BY <2>1, <2>2, <2>6, <2>7, <2>8, <2>9, KeyStep
<1>18. ASSUME NEW o \in Outcome, NEW fk \in ForeignKeys, Undrop(fk, o) PROVE Stored'
  <2>1. /\ plan' = plan /\ ended' = ended /\ w'.block = w.block /\ item'.key = item.key
        /\ lost \subseteq lost' /\ w.at = "undrop" /\ fk \in w.sweep
        /\ w'.at = "undrop" /\ w'.sweep = w.sweep \ {fk}
        /\ \/ w'.dropped = w.dropped \cup {fk} /\ keys' = keys \ {fk} /\ w'.says = w.says
           \/ /\ w'.dropped = w.dropped
              /\ keys' = keys \/ (keys' = keys \ {fk} /\ fk \in lost')
              /\ w'.says = [f \in ForeignKeys |-> IF f \in {fk} THEN "kept" ELSE w.says[f]]
    BY <1>18, UndropDoes DEF KeyAside, OtherFields
  <2>2. InGroup /\ InGroup' /\ Alive
    BY <2>1 DEF InGroup, Living
  <2>3. /\ w.dropped \subseteq GroupKeys(w.block) /\ w.sweep \subseteq GroupKeys(w.block)
        /\ w.block \in Blocks /\ \A f \in plan.keys : f \notin lost => KeyTrue(f)
        /\ \A f \in ForeignKeys : w.says[f] # "none"
        /\ \A f \in ForeignKeys :
             w.says[f] = "missing" <=> w.at = "readd" /\ f \in w.dropped \ w.sweep
    BY <2>1, <2>2 DEF Stored, Known
  <2>4. \A f \in GroupKeys(w.block) : f \notin lost => (f \in w.dropped <=> f \notin keys)
    BY <1>0, <2>2, <2>3 DEF KeyTrue
  <2>5. w.sweep \cap w.dropped = {}
    BY <2>1 DEF Stored
  <2>6. /\ \A f \in plan.keys \ GroupKeys(w.block) : f \in keys' <=> f \in keys
        /\ \A f \in GroupKeys(w.block) : f \notin lost' => (f \in w'.dropped <=> f \notin keys')
    BY <2>1, <2>3, <2>4, <2>5
  <2>7. w'.sweep \subseteq GroupKeys(w.block) /\ w'.dropped \subseteq GroupKeys(w.block)
    BY <2>1, <2>3
  <2>8. /\ \A f \in ForeignKeys : w'.says[f] # "none"
        /\ \A f \in ForeignKeys :
             w'.says[f] = "missing" <=> w'.at = "readd" /\ f \in w'.dropped \ w'.sweep
    BY <1>0, <2>1, <2>3, <2>5
  <2>9. /\ w'.at \in {"drop", "undrop"} => w'.sweep \cap w'.dropped = {}
        /\ w'.at = "add" => w'.sweep = w'.dropped
        /\ w'.at = "report" => w'.dropped = {}
        /\ w'.at = "readd" => w'.sweep \subseteq w'.dropped
    BY <2>1, <2>5
  <2> QED
    BY <2>1, <2>2, <2>6, <2>7, <2>8, <2>9, KeyStep
<1>19. ASSUME NEW o \in Outcome, NEW fk \in ForeignKeys, Readd(fk, o) PROVE Stored'
  <2>1. /\ plan' = plan /\ ended' = ended /\ w'.block = w.block /\ item'.key = item.key
        /\ lost \subseteq lost' /\ w.at = "readd" /\ fk \in w.sweep
        /\ w'.at = "readd" /\ w'.sweep = w.sweep \ {fk}
        /\ \/ /\ w'.dropped = w.dropped \ {fk} /\ keys' = keys \cup {fk}
              /\ w'.says = [f \in ForeignKeys |-> IF f \in {fk} THEN "restored" ELSE w.says[f]]
           \/ /\ w'.dropped = w.dropped
              /\ keys' = keys \/ (keys' = keys \cup {fk} /\ fk \in lost')
              /\ w'.says = [f \in ForeignKeys |-> IF f \in {fk} THEN "missing" ELSE w.says[f]]
    BY <1>19, ReaddDoes DEF KeyAside, OtherFields
  <2>2. InGroup /\ InGroup' /\ Alive
    BY <2>1 DEF InGroup, Living
  <2>3. /\ w.dropped \subseteq GroupKeys(w.block) /\ w.sweep \subseteq GroupKeys(w.block)
        /\ w.block \in Blocks /\ \A f \in plan.keys : f \notin lost => KeyTrue(f)
        /\ \A f \in ForeignKeys : w.says[f] # "none"
        /\ \A f \in ForeignKeys :
             w.says[f] = "missing" <=> w.at = "readd" /\ f \in w.dropped \ w.sweep
    BY <2>1, <2>2 DEF Stored, Known
  <2>4. \A f \in GroupKeys(w.block) : f \notin lost => (f \in w.dropped <=> f \notin keys)
    BY <1>0, <2>2, <2>3 DEF KeyTrue
  <2>5. w.sweep \subseteq w.dropped
    BY <2>1 DEF Stored
  <2>6. /\ \A f \in plan.keys \ GroupKeys(w.block) : f \in keys' <=> f \in keys
        /\ \A f \in GroupKeys(w.block) : f \notin lost' => (f \in w'.dropped <=> f \notin keys')
    BY <2>1, <2>3, <2>4, <2>5
  <2>7. w'.sweep \subseteq GroupKeys(w.block) /\ w'.dropped \subseteq GroupKeys(w.block)
    BY <2>1, <2>3
  <2>8. /\ \A f \in ForeignKeys : w'.says[f] # "none"
        /\ \A f \in ForeignKeys :
             w'.says[f] = "missing" <=> w'.at = "readd" /\ f \in w'.dropped \ w'.sweep
    BY <1>0, <2>1, <2>3, <2>5
  <2>9. /\ w'.at \in {"drop", "undrop"} => w'.sweep \cap w'.dropped = {}
        /\ w'.at = "add" => w'.sweep = w'.dropped
        /\ w'.at = "report" => w'.dropped = {}
        /\ w'.at = "readd" => w'.sweep \subseteq w'.dropped
    BY <2>1, <2>5
  <2> QED
    BY <2>1, <2>2, <2>6, <2>7, <2>8, <2>9, KeyStep
<1>20. CASE UNCHANGED vars
  BY <1>20, <1>1 DEF vars
<1> QED
  BY <1>2, <1>3, <1>4, <1>5, <1>6, <1>7, <1>8, <1>9, <1>10, <1>11, <1>12, <1>13, <1>14,
     <1>15, <1>16, <1>17, <1>18, <1>19, <1>20, Steps

\* No table and no key is of two groups.
LEMMA Apart ==
  ASSUME plan \in Plans, NEW b \in Blocks, NEW c \in Blocks, b # c
  PROVE  b \cap c = {} /\ GroupKeys(b) \cap GroupKeys(c) = {}
BY Partition

\* A step outside a group leaves it whole, or as broken as its items say.
LEMMA OtherGroup ==
  ASSUME plan' = plan, lost \subseteq lost', NEW b \in Blocks, Whole(b) \/ ConfessedBy(b),
         \A t \in b \cap Converting : /\ t \in converted' <=> t \in converted
                                      /\ item.table[t] = "stuck" => item'.table[t] = "stuck",
         \A f \in GroupKeys(b) : /\ f \in keys' <=> f \in keys
                                 /\ item.key[f] = "missing" => item'.key[f] = "missing"
  PROVE  Whole(b)' \/ ConfessedBy(b)'
<1>1. GroupKeys(b)' = GroupKeys(b) /\ Converting' = Converting
  BY PlanStays
<1>2. CASE Whole(b)
  BY <1>1, <1>2 DEF Whole
<1>3. CASE ConfessedBy(b)
  BY <1>1, <1>3 DEF ConfessedBy, Known
<1> QED
  BY <1>2, <1>3

\* A step within a group keeps it in its turn, and does not touch another.
LEMMA GroupStep ==
  ASSUME Types, Living, Once, Stored, Grouped, InGroup, InGroup', plan' = plan, ended' = ended,
         w'.block = w.block, w'.todo = w.todo, w'.unread = w.unread, item'.key = item.key,
         lost \subseteq lost',
         \A f \in plan.keys \ GroupKeys(w.block) : f \in keys' <=> f \in keys,
         \A t \in Converting \ w.block : /\ t \in converted' <=> t \in converted
                                         /\ item'.table[t] = item.table[t],
         w'.steps \cup w'.done \subseteq w.block \cap Converting,
         w'.at = "drop" => w'.steps = w.block \cap Converting /\ w'.done = {},
         w'.at = "convert" => w'.steps \cup w'.done = w.block \cap Converting,
         w'.at \in {"add", "report"} => w'.done = w.block \cap Converting,
         w'.at \in {"undrop", "revert", "readd"} => \A t \in w.block \cap Converting :
           t \notin converted' \/ t \in w'.done \/ item'.table[t] = "stuck" \/ t \in lost',
         w'.at = "readd" => w'.done = {}
  PROVE  Grouped'
<1>1. Converting' = Converting /\ Blocks' = Blocks /\ \A b : GroupKeys(b)' = GroupKeys(b)
  BY PlanStays
<1>2. /\ plan.engine = "mariadb" /\ w.block \in Blocks /\ ~w.unread /\ plan \in Plans /\ Alive
      /\ w.todo \cap (w.block \cap Converting) = {}
      /\ \A b \in Blocks : w.todo \cap b \cap Converting # {} => Waiting(b)
      /\ \A b \in Blocks : b = w.block \/ Whole(b) \/ ConfessedBy(b)
  <2>1. Alive /\ plan \in Plans /\ plan.engine = "mariadb" /\ w.block \in Blocks
    BY DEF InGroup, Living, Stored, Types
  <2> QED
    BY <2>1 DEF Grouped, Turn
<1>3. Turn(w.block \cap Converting)'
  BY <1>1, <1>2 DEF Turn, Restoring, Known
<1>4. ASSUME NEW b \in Blocks, b # w.block
      PROVE  /\ \A f \in GroupKeys(b) : f \in keys' <=> f \in keys
             /\ \A u \in b \cap Converting : /\ u \in converted' <=> u \in converted
                                             /\ item'.table[u] = item.table[u]
  <2>1. b \cap w.block = {} /\ GroupKeys(b) \cap GroupKeys(w.block) = {}
    BY <1>2, <1>4, Apart
  <2>2. GroupKeys(b) \subseteq plan.keys
    BY <1>2, Relates DEF GroupKeys
  <2> QED
    BY <2>1, <2>2
<1>5. ASSUME NEW b \in Blocks, w'.todo \cap b \cap Converting # {} PROVE Waiting(b)'
  <2>1. b # w.block /\ Waiting(b)
    BY <1>2, <1>5
  <2>2. \A f \in GroupKeys(b) : f \in keys' <=> f \in keys
    BY <1>4, <2>1
  <2> QED
    BY <1>1, <2>1, <2>2 DEF Waiting
<1>6. ASSUME NEW b \in Blocks, b # w.block PROVE Whole(b)' \/ ConfessedBy(b)'
  BY <1>2, <1>4, <1>6, OtherGroup
<1>7. w'.at \notin {"verify", "lock", "database", "keys"}
  BY DEF InGroup
<1> QED
  BY <1>1, <1>2, <1>3, <1>5, <1>6, <1>7 DEF Grouped

\* A group is untouched before its turn, and whole or confessed after it.
LEMMA GroupedStep ==
  ASSUME Types, Living, Once, Stored, Grouped, [Next]_vars
  PROVE  Grouped'
<1> DEFINE Early == {"verify", "lock", "database", "keys"}
<1>0. /\ plan \in Plans /\ item.table \in [Tables -> Says] /\ item.key \in [ForeignKeys -> Says]
      /\ Converting \subseteq Tables /\ w.at \in Labels
      /\ \A b \in Blocks : /\ b \subseteq Tables /\ b \subseteq Ends
                           /\ GroupKeys(b) \subseteq ForeignKeys /\ GroupKeys(b) \subseteq plan.keys
  <2>1. plan \in Plans /\ plan.keys \subseteq ForeignKeys
    BY TypesGives, OfThePlan
  <2> QED
    BY <2>1, TypesGives, Relates, Partition DEF Items
<1>1. ASSUME plan' = plan, keys' = keys, item'.key = item.key, item'.table = item.table,
             converted' = converted, lost \subseteq lost',
             UNCHANGED <<w.block, w.todo, w.unread, w.steps, w.done>>,
             w'.at \in Early => w.at \in Early,
             \/ w'.at = w.at /\ ended' = ended
             \/ w'.at \in {"over", "dead"} /\ ~Alive'
             \/ w.at \notin {"over", "dead"} /\ ~InGroup /\ ~InGroup'
             \/ w.at = "undrop" /\ w'.at = "revert" /\ ended' = ended
      PROVE  Grouped'
  <2>1. Converting' = Converting /\ Blocks' = Blocks /\ \A b : GroupKeys(b)' = GroupKeys(b)
    BY <1>1, PlanStays
  <2>2. (Alive' => Alive) /\ (InGroup' => InGroup) /\ (Alive' /\ InGroup => InGroup')
    BY <1>1 DEF Alive, Living, InGroup
  <2>3. \A b \in Blocks : Waiting(b)' <=> Waiting(b)
    BY <1>1, <2>1 DEF Waiting
  <2>4. \A b \in Blocks : (Whole(b) \/ ConfessedBy(b)) => (Whole(b)' \/ ConfessedBy(b)')
    BY <1>1, OtherGroup
  <2>5. InGroup' /\ Turn(w.block \cap Converting) => Turn(w.block \cap Converting)'
    BY <1>1, <2>1 DEF Turn, Restoring, Known, InGroup
  <2>6. plan.engine = "mariadb" /\ Alive' => \A b \in Blocks :
          (InGroup' /\ b = w'.block) \/ Whole(b)' \/ ConfessedBy(b)'
    BY <1>1, <2>2, <2>4 DEF Grouped
  <2>7. w'.at \in Early => w'.todo = Tables /\ keys' = plan'.keys /\ ~w'.unread
    BY <1>1 DEF Grouped
  <2>8. plan.engine = "mariadb" /\ w'.unread =>
          ~InGroup' /\ Converting \cap converted' = {} /\ keys' = plan.keys
    BY <1>1, <2>2 DEF Grouped
  <2>9. plan.engine = "mariadb" /\ ~w'.unread =>
          \A b \in Blocks : w'.todo \cap b \cap Converting # {} => Waiting(b)'
    BY <1>1, <2>3 DEF Grouped
  <2>10. plan.engine = "mariadb" /\ InGroup' => Turn(w.block \cap Converting)'
    BY <2>2, <2>5 DEF Grouped
  <2> QED
    BY <1>1, <2>1, <2>6, <2>7, <2>8, <2>9, <2>10 DEF Grouped
<1>2. CASE Verify \/ Drifted \/ Locked \/ LockBusy \/ NoDatabaseStep \/ CancelSeen \/ TablesDone
           \/ ObjectsDone \/ FinishStatus \/ FinishManaged \/ Undropped \/ Escape \/ Crash
           \/ Sweep \/ Cancel
  <2>1. /\ plan' = plan /\ keys' = keys /\ item' = item /\ lost' = lost /\ converted' = converted
        /\ UNCHANGED <<w.block, w.todo, w.unread, w.steps, w.done>>
        /\ w'.at \in Early => w.at \in Early
    BY <1>2, MoveDoes DEF Engine, GroupFields, OtherFields
  <2>2. \/ w'.at = w.at /\ ended' = ended
        \/ w'.at \in {"over", "dead"} /\ ~Alive'
        \/ w.at \notin {"over", "dead"} /\ ~InGroup /\ ~InGroup'
        \/ w.at = "undrop" /\ w'.at = "revert" /\ ended' = ended
    BY <1>2, MoveDoes DEF Alive, InGroup
  <2> QED
    BY <1>1, <2>1, <2>2
<1>3. ASSUME NEW o \in Outcome, AlterDatabase(o) PROVE Grouped'
  BY <1>3, <1>1, DatabaseDoes DEF Engine, GroupFields, OtherFields, InGroup
<1>4. ASSUME NEW unread \in BOOLEAN, ReadKeys(unread) PROVE Grouped'
  <2>1. /\ w.at = "keys" /\ w'.at = "tables" /\ w'.unread = unread
        /\ plan' = plan /\ item' = item /\ lost' = lost /\ ended' = ended /\ keys' = keys
        /\ converted' = converted /\ w'.todo = w.todo
    BY <1>4, ReadKeysDoes DEF Engine
  <2>2. Converting' = Converting /\ Blocks' = Blocks /\ \A b : GroupKeys(b)' = GroupKeys(b)
    BY <2>1, PlanStays
  <2>3. /\ ~InGroup /\ ~InGroup' /\ Alive /\ ~w.unread /\ w.todo = Tables /\ keys = plan.keys
        /\ Converting \cap converted = {}
    BY <1>0, <2>1 DEF InGroup, Living, Grouped, Once
  <2>4. \A b \in Blocks : Waiting(b)' <=> Waiting(b)
    BY <2>1, <2>2 DEF Waiting
  <2>5. \A b \in Blocks : (Whole(b) \/ ConfessedBy(b)) => (Whole(b)' \/ ConfessedBy(b)')
    BY <2>1, OtherGroup
  <2> QED
    BY <2>1, <2>2, <2>3, <2>4, <2>5 DEF Grouped
<1>5. ASSUME NEW o \in Outcome, SkipTable \/ RefuseTable \/ ConvertTable(o) PROVE Grouped'
  <2>1. /\ w.at = "tables" /\ w'.at = "tables" /\ Next1 \in w.todo /\ Next1 \in Tables
        /\ w'.todo = w.todo \ {Next1} /\ w'.block = w.block /\ w'.unread = w.unread
        /\ plan' = plan /\ ended' = ended /\ keys' = keys /\ item'.key = item.key
        /\ lost \subseteq lost'
    BY <1>5, TableDoes DEF GroupFields, OtherFields
  <2>2. PICK what \in {"ok", "kept", "skipped"} :
          /\ item'.table = [item.table EXCEPT ![Next1] = what]
          /\ \/ Next1 \notin Converting /\ converted' = converted
             \/ w.unread /\ what = "kept" /\ converted' = converted
             \/ ~w.unread /\ ~HasGroup(Next1)
                /\ (converted' = converted \cup {Next1} \/ converted' = converted)
    BY <1>5, TableDoes
  <2>3. Converting' = Converting /\ Blocks' = Blocks /\ \A b : GroupKeys(b)' = GroupKeys(b)
    BY <2>1, PlanStays
  <2>4. ~InGroup /\ ~InGroup' /\ Alive
    BY <2>1 DEF InGroup, Living
  <2>5. SUFFICES ASSUME plan.engine = "mariadb"
        PROVE  /\ w'.unread => Converting \cap converted' = {} /\ keys' = plan.keys
               /\ ~w'.unread => \A b \in Blocks : w'.todo \cap b \cap Converting # {} => Waiting(b)'
               /\ \A b \in Blocks : Whole(b)' \/ ConfessedBy(b)'
    BY <2>1, <2>3, <2>4 DEF Grouped
  <2>6. CASE w.unread
    <3>1. /\ Converting \cap converted = {} /\ keys = plan.keys /\ converted' = converted
      BY <2>2, <2>5, <2>6 DEF Grouped, Once
    <3>2. \A b \in Blocks : Whole(b)'
      BY <1>0, <2>1, <2>3, <3>1 DEF Whole
    <3> QED
      BY <2>1, <2>6, <3>1, <3>2
  <2>7. CASE ~w.unread
    <3>1. \A b \in Blocks : Next1 \notin b \cap Converting
      BY <1>0, <2>2, <2>5, <2>7 DEF HasGroup
    <3>2. \A b \in Blocks : \A u \in b \cap Converting :
            (u \in converted' <=> u \in converted) /\ item'.table[u] = item.table[u]
      BY <1>0, <2>2, <3>1
    <3>3. \A b \in Blocks : Whole(b)' \/ ConfessedBy(b)'
      BY <2>1, <2>4, <2>5, <3>2, OtherGroup DEF Grouped
    <3>4. ASSUME NEW b \in Blocks, w'.todo \cap b \cap Converting # {} PROVE Waiting(b)'
      <4>1. Waiting(b)
        BY <2>1, <2>5, <2>7, <3>4 DEF Grouped
      <4> QED
        BY <2>1, <2>3, <3>1, <4>1 DEF Waiting
    <3> QED
      BY <2>1, <2>7, <3>3, <3>4
  <2> QED
    BY <2>6, <2>7
<1>6. ASSUME NEW x \in Objects, ObjectUnread(x) \/ ObjectCopy(x) PROVE Grouped'
  BY <1>6, <1>1, ObjectPickDoes DEF Engine, GroupFields, OtherFields, InGroup
<1>7. ASSUME NEW x \in Objects, NEW o \in Outcome, ObjectDrop(x, o) PROVE Grouped'
  BY <1>7, <1>1, ObjectDropDoes DEF Engine, GroupFields, OtherFields, InGroup
<1>8. ASSUME NEW x \in Objects, NEW o \in Outcome, ObjectCreate(x, o) PROVE Grouped'
  BY <1>8, <1>1, ObjectCreateDoes DEF Engine, GroupFields, OtherFields, InGroup
<1>9. ASSUME NEW x \in Objects, NEW ok \in BOOLEAN, ObjectGrant(x, ok) PROVE Grouped'
  BY <1>9, <1>1, ObjectGrantDoes DEF Engine, GroupFields, OtherFields, InGroup
<1>10. CASE GroupUnknown
  <2>1. PICK b \in Blocks :
          /\ Next1 \in b \cap Converting /\ Next1 \in w.todo
          /\ w'.todo = w.todo \ (b \cap Converting)
          /\ item'.table =
               [t \in Tables |-> IF t \in b \cap Converting THEN "kept" ELSE item.table[t]]
    BY <1>10, GroupUnknownDoes
  <2>2. /\ w.at = "tables" /\ w'.at = "tables" /\ ~w.unread /\ w'.unread = w.unread
        /\ plan.engine = "mariadb" /\ plan' = plan /\ ended' = ended /\ keys' = keys
        /\ item'.key = item.key /\ converted' = converted /\ lost' = lost
    BY <1>10, GroupUnknownDoes DEF Engine, GroupFields, OtherFields
  <2>3. Converting' = Converting /\ Blocks' = Blocks /\ \A c : GroupKeys(c)' = GroupKeys(c)
    BY <2>2, PlanStays
  <2>4. ~InGroup /\ ~InGroup' /\ Alive
    BY <2>2 DEF InGroup, Living
  <2>5. Waiting(b)
    BY <2>1, <2>2 DEF Grouped
  <2>6. Whole(b)'
    BY <2>1, <2>2, <2>3, <2>5 DEF Whole, Waiting, Once
  <2>7. ASSUME NEW c \in Blocks, c # b PROVE Whole(c)' \/ ConfessedBy(c)'
    <3>1. c \cap b = {}
      BY <1>0, <2>7, Apart
    <3>2. \A t \in c \cap Converting : item'.table[t] = item.table[t]
      BY <1>0, <2>1, <3>1
    <3>3. Whole(c) \/ ConfessedBy(c)
      BY <2>2, <2>4 DEF Grouped
    <3> QED
      BY <2>2, <3>2, <3>3, OtherGroup
  <2>8. ASSUME NEW c \in Blocks, w'.todo \cap c \cap Converting # {} PROVE Waiting(c)'
    <3>1. c # b
      BY <2>1, <2>8
    <3>2. c \cap b = {}
      BY <1>0, <3>1, Apart
    <3>3. Waiting(c)
      BY <2>1, <2>2, <2>8 DEF Grouped
    <3> QED
      BY <2>1, <2>2, <2>3, <3>2, <3>3 DEF Waiting
  <2> QED
    BY <2>2, <2>3, <2>4, <2>6, <2>7, <2>8 DEF Grouped
<1>11. CASE GroupCopies
  <2>1. PICK b \in Blocks :
          /\ Next1 \in b \cap Converting /\ Next1 \in w.todo
          /\ w'.block = b /\ w'.steps = b \cap Converting /\ w'.done = {}
          /\ w'.todo = w.todo \ (b \cap Converting)
          /\ item'.key =
               [fk \in ForeignKeys |-> IF fk \in GroupKeys(b) THEN "open" ELSE item.key[fk]]
    BY <1>11, GroupCopiesDoes
  <2>2. /\ w.at = "tables" /\ w'.at = "drop" /\ ~w.unread /\ w'.unread = w.unread
        /\ plan.engine = "mariadb" /\ plan' = plan /\ ended' = ended /\ keys' = keys
        /\ item'.table = item.table /\ converted' = converted /\ lost' = lost
    BY <1>11, GroupCopiesDoes DEF Engine
  <2>3. Converting' = Converting /\ Blocks' = Blocks /\ \A c : GroupKeys(c)' = GroupKeys(c)
    BY <2>2, PlanStays
  <2>4. ~InGroup /\ InGroup' /\ Alive
    BY <2>2 DEF InGroup, Living
  <2>5. Turn(w.block \cap Converting)'
    BY <2>1, <2>2, <2>3 DEF Turn, Restoring
  <2>6. ASSUME NEW c \in Blocks, c # b PROVE \A f \in GroupKeys(c) : item'.key[f] = item.key[f]
    <3>1. GroupKeys(c) \cap GroupKeys(b) = {}
      BY <1>0, <2>6, Apart
    <3> QED
      BY <1>0, <2>1, <3>1
  <2>7. ASSUME NEW c \in Blocks, c # b PROVE Whole(c)' \/ ConfessedBy(c)'
    <3>1. Whole(c) \/ ConfessedBy(c)
      BY <2>2, <2>4 DEF Grouped
    <3> QED
      BY <2>2, <2>6, <2>7, <3>1, OtherGroup
  <2>8. ASSUME NEW c \in Blocks, w'.todo \cap c \cap Converting # {} PROVE Waiting(c)'
    <3>1. c # b
      BY <2>1, <2>8
    <3>2. c \cap b = {}
      BY <1>0, <3>1, Apart
    <3>3. Waiting(c)
      BY <2>1, <2>2, <2>8 DEF Grouped
    <3> QED
      BY <2>1, <2>2, <2>3, <2>6, <3>1, <3>2, <3>3 DEF Waiting
  <2> QED
    BY <2>1, <2>2, <2>3, <2>4, <2>5, <2>7, <2>8 DEF Grouped
<1>12. CASE GroupConverted \/ Reverted
  <2>1. /\ plan' = plan /\ ended' = ended /\ item' = item /\ lost' = lost /\ keys' = keys
        /\ converted' = converted
        /\ UNCHANGED <<w.block, w.todo, w.unread, w.steps, w.done>>
        /\ \/ w.at = "convert" /\ w.steps = {} /\ w'.at = "add"
           \/ w.at = "revert" /\ w.done = {} /\ w'.at = "readd"
    BY <1>12, GroupConvertedDoes DEF Engine, OtherFields
  <2>2. InGroup /\ InGroup'
    BY <2>1 DEF InGroup
  <2>3. /\ plan.engine = "mariadb" /\ w.block \in Blocks /\ Turn(w.block \cap Converting)
        /\ w.sweep \subseteq GroupKeys(w.block)
    BY <2>2 DEF Stored, Grouped
  <2>4. /\ w'.steps \cup w'.done \subseteq w.block \cap Converting
        /\ w'.at = "add" => w'.done = w.block \cap Converting
        /\ w'.at = "readd" => \A t \in w.block \cap Converting :
             t \notin converted' \/ t \in w'.done \/ item'.table[t] = "stuck" \/ t \in lost'
        /\ w'.at = "readd" => w'.done = {}
    BY <2>1, <2>3 DEF Turn, Restoring, Known
  <2> QED
    BY <2>1, <2>2, <2>4, GroupStep
<1>13. CASE GroupReport
  <2>0. PICK b \in Blocks : b = w.block
    <3>1. w.at \in {"report", "readd"}
      BY <1>13, GroupReportDoes
    <3> QED
      BY <3>1 DEF Stored, InGroup
  <2>1. /\ w'.at = "tables" /\ w'.todo = w.todo /\ w'.unread = w.unread
        /\ plan' = plan /\ keys' = keys /\ lost' = lost /\ ended' = ended
        /\ converted' = converted /\ item'.table = item.table
        /\ item'.key =
             [fk \in ForeignKeys |-> IF fk \in GroupKeys(b) THEN w.says[fk] ELSE item.key[fk]]
        /\ w.at = "report" \/ (w.at = "readd" /\ w.sweep = {})
    BY <1>13, <2>0, GroupReportDoes DEF Engine
  <2>2. Converting' = Converting /\ Blocks' = Blocks /\ \A c : GroupKeys(c)' = GroupKeys(c)
    BY <2>1, PlanStays
  <2>3. /\ InGroup /\ ~InGroup' /\ Alive /\ b \in Blocks /\ plan.engine = "mariadb" /\ ~w.unread
    BY <2>0, <2>1 DEF InGroup, Living, Stored, Grouped
  <2>4. /\ w.todo \cap (b \cap Converting) = {}
        /\ w.at = "report" => w.done = b \cap Converting
        /\ w.at = "readd" => \A t \in b \cap Converting :
             t \notin converted \/ item.table[t] = "stuck" \/ ~Known(t)
    BY <2>0, <2>3 DEF Grouped, Turn, Restoring
  <2>5. \A f \in GroupKeys(b) : Known(f) => (f \in w.dropped <=> f \notin keys)
    BY <1>0, <2>0, <2>3 DEF Stored, KeyTrue
  <2>6. \A f \in GroupKeys(b) : w.says[f] = "missing" <=> f \in w.dropped
    BY <1>0, <2>1, <2>3 DEF Stored
  <2>7. \A f \in GroupKeys(b) : item'.key[f] = w.says[f]
    BY <1>0, <2>1, <2>3
  <2>8. \A f \in GroupKeys(b) : f \notin keys => item'.key[f] = "missing" \/ f \in lost'
    BY <2>1, <2>5, <2>6, <2>7 DEF Known
  <2>9. w.at = "report" => b \cap Converting \subseteq converted
    BY <2>4 DEF Once
  <2>10. Whole(b)' \/ ConfessedBy(b)'
    <3>1. SUFFICES ASSUME ~ConfessedBy(b)' PROVE Whole(b)'
      OBVIOUS
    <3>2. /\ \A t \in b \cap Converting : item.table[t] # "stuck" /\ Known(t)
          /\ \A f \in GroupKeys(b) : item'.key[f] # "missing" /\ f \notin lost'
      BY <2>1, <2>2, <3>1 DEF ConfessedBy, Known
    <3>3. GroupKeys(b) \subseteq keys
      BY <2>8, <3>2
    <3>4. b \cap Converting \subseteq converted \/ b \cap Converting \cap converted = {}
      BY <2>1, <2>4, <2>9, <3>2
    <3> QED
      BY <2>1, <2>2, <3>3, <3>4 DEF Whole
  <2>11. ASSUME NEW c \in Blocks, c # b
         PROVE  /\ \A f \in GroupKeys(c) : item'.key[f] = item.key[f]
                /\ Whole(c)' \/ ConfessedBy(c)'
    <3>1. GroupKeys(c) \cap GroupKeys(b) = {}
      BY <1>0, <2>3, <2>11, Apart
    <3>2. \A f \in GroupKeys(c) : item'.key[f] = item.key[f]
      BY <1>0, <2>1, <3>1
    <3>3. Whole(c) \/ ConfessedBy(c)
      BY <2>0, <2>3, <2>11 DEF Grouped
    <3> QED
      BY <2>1, <3>2, <3>3, OtherGroup
  <2>12. ASSUME NEW c \in Blocks, w'.todo \cap c \cap Converting # {} PROVE Waiting(c)'
    <3>1. c # b
      BY <2>1, <2>4, <2>12
    <3>2. Waiting(c)
      BY <2>1, <2>3, <2>12 DEF Grouped
    <3> QED
      BY <2>1, <2>2, <2>11, <3>1, <3>2 DEF Waiting
  <2> QED
    BY <2>1, <2>2, <2>3, <2>10, <2>11, <2>12 DEF Grouped
<1>14. ASSUME NEW o \in Outcome, GroupConvert(o) PROVE Grouped'
  <2>1. /\ plan' = plan /\ ended' = ended /\ item'.key = item.key /\ lost \subseteq lost'
        /\ keys' = keys /\ w.at = "convert"
        /\ UNCHANGED <<w.block, w.todo, w.unread>>
        /\ w'.at \in {"convert", "undrop", "readd"}
    BY <1>14, GroupConvertDoes DEF OtherFields
  <2>2. InGroup /\ InGroup'
    BY <2>1 DEF InGroup
  <2>3. /\ plan.engine = "mariadb" /\ w.block \in Blocks /\ Turn(w.block \cap Converting)
        /\ w.sweep \subseteq GroupKeys(w.block)
    BY <2>2 DEF Stored, Grouped
  <2>4. PICK t \in w.steps :
          \/ /\ w'.at = "convert" /\ w'.steps = w.steps \ {t} /\ w'.done = w.done \cup {t}
             /\ converted' = converted \cup {t} /\ item'.table = [item.table EXCEPT ![t] = "ok"]
          \/ /\ w'.steps = w.steps /\ w'.done = w.done
             /\ IF w.done # {} THEN w'.at = "undrop" ELSE w'.at = "readd"
             /\ converted' = converted \/ (converted' = converted \cup {t} /\ t \in lost')
             /\ item'.table = [u \in Tables |-> IF u = t THEN "kept"
                  ELSE IF u \in w.steps THEN "skipped" ELSE item.table[u]]
    BY <1>14, GroupConvertDoes
  <2>5. /\ w.steps \cup w.done = w.block \cap Converting /\ w.steps \cap converted = {}
    BY <2>1, <2>3 DEF Turn, Once
  <2>6. \A u \in Converting \ w.block : /\ u \in converted' <=> u \in converted
                                        /\ item'.table[u] = item.table[u]
    BY <1>0, <2>4, <2>5
  <2>7. /\ w'.steps \cup w'.done = w.block \cap Converting
        /\ w'.at \in {"undrop", "readd"} => \A u \in w.block \cap Converting :
             u \notin converted' \/ u \in w'.done \/ u \in lost'
        /\ w'.at = "readd" => w'.done = {}
    BY <2>4, <2>5
  <2> QED
    BY <2>1, <2>2, <2>6, <2>7, GroupStep
<1>15. ASSUME NEW o \in Outcome, Revert(o) PROVE Grouped'
  <2>1. /\ plan' = plan /\ ended' = ended /\ item'.key = item.key /\ lost \subseteq lost'
        /\ keys' = keys /\ w.at = "revert" /\ w'.at = "revert"
        /\ UNCHANGED <<w.block, w.todo, w.unread, w.steps>>
    BY <1>15, RevertDoes DEF OtherFields
  <2>2. InGroup /\ InGroup'
    BY <2>1 DEF InGroup
  <2>3. /\ plan.engine = "mariadb" /\ w.block \in Blocks /\ Turn(w.block \cap Converting)
        /\ w.sweep \subseteq GroupKeys(w.block)
    BY <2>2 DEF Stored, Grouped
  <2>4. PICK t \in w.done :
          /\ w'.done = w.done \ {t}
          /\ \/ /\ converted' = converted \ {t}
                /\ item'.table = [item.table EXCEPT ![t] = "reverted"]
             \/ /\ item'.table = [item.table EXCEPT ![t] = "stuck"]
                /\ converted' = converted \/ (converted' = converted \ {t} /\ t \in lost')
    BY <1>15, RevertDoes
  <2>5. /\ w.steps \cup w.done \subseteq w.block \cap Converting
        /\ \A u \in w.block \cap Converting :
             u \notin converted \/ u \in w.done \/ item.table[u] = "stuck" \/ u \in lost
    BY <2>1, <2>3 DEF Turn, Restoring, Known
  <2>6. \A u \in Converting \ w.block : /\ u \in converted' <=> u \in converted
                                        /\ item'.table[u] = item.table[u]
    BY <1>0, <2>4, <2>5
  <2>7. ASSUME NEW u \in w.block \cap Converting
        PROVE  u \notin converted' \/ u \in w'.done \/ item'.table[u] = "stuck" \/ u \in lost'
    <3>1. CASE u = t
      BY <1>0, <2>4, <3>1
    <3>2. CASE u # t
      BY <1>0, <2>1, <2>4, <2>5, <3>2
    <3> QED
      BY <3>1, <3>2
  <2>8. w'.steps \cup w'.done \subseteq w.block \cap Converting
    BY <2>1, <2>4, <2>5
  <2> QED
    BY <2>1, <2>2, <2>6, <2>7, <2>8, GroupStep
<1>16. ASSUME NEW o \in Outcome, NEW fk \in ForeignKeys, GroupDrop(fk, o) PROVE Grouped'
  <2>1. /\ plan' = plan /\ ended' = ended /\ item'.key = item.key /\ lost \subseteq lost'
        /\ converted' = converted /\ fk \in w.sweep
        /\ (keys' = keys \/ keys' = keys \ {fk} \/ keys' = keys \cup {fk})
        /\ UNCHANGED <<w.block, w.todo, w.unread, w.steps, w.done>>
        /\ w.at = "drop" /\ w'.at \in {"drop", "convert", "undrop", "readd"}
        /\ w'.at = "undrop" => w.done # {}
        /\ \/ item'.table = item.table /\ w'.at \in {"drop", "convert"}
           \/ item'.table = [t \in Tables |-> IF t \in w.steps THEN "kept" ELSE item.table[t]]
    BY <1>16, GroupDropDoes DEF KeyAside, OtherFields
  <2>2. InGroup /\ InGroup'
    BY <2>1 DEF InGroup
  <2>3. /\ plan.engine = "mariadb" /\ w.block \in Blocks /\ Turn(w.block \cap Converting)
        /\ w.sweep \subseteq GroupKeys(w.block)
    BY <2>2 DEF Stored, Grouped
  <2>4. \A f \in plan.keys \ GroupKeys(w.block) : f \in keys' <=> f \in keys
    BY <2>1, <2>3
  <2>5. /\ w.steps = w.block \cap Converting /\ w.done = {} /\ w.steps \cap converted = {}
    BY <2>1, <2>3 DEF Turn, Once
  <2>6. \A u \in Converting \ w.block : item'.table[u] = item.table[u]
    BY <1>0, <2>1, <2>5
  <2>7. \A t \in w.block \cap Converting : t \notin converted'
    BY <2>1, <2>5
  <2>8. /\ w'.steps = w.block \cap Converting /\ w'.done = {}
        /\ w'.at \notin {"add", "report"}
    BY <2>1, <2>5
  <2> QED
    BY <2>1, <2>2, <2>4, <2>6, <2>7, <2>8, GroupStep
<1>17. ASSUME NEW o \in Outcome, NEW fk \in ForeignKeys, GroupAdd(fk, o) PROVE Grouped'
  <2>1. /\ plan' = plan /\ ended' = ended /\ item'.key = item.key /\ lost \subseteq lost'
        /\ converted' = converted /\ fk \in w.sweep
        /\ (keys' = keys \/ keys' = keys \ {fk} \/ keys' = keys \cup {fk})
        /\ UNCHANGED <<w.block, w.todo, w.unread, w.steps, w.done>>
        /\ item' = item /\ w.at = "add" /\ w'.at \in {"add", "report", "undrop", "readd"}
        /\ w'.at = "readd" => w.done = {}
    BY <1>17, GroupAddDoes DEF KeyAside, OtherFields
  <2>2. InGroup /\ InGroup'
    BY <2>1 DEF InGroup
  <2>3. /\ plan.engine = "mariadb" /\ w.block \in Blocks /\ Turn(w.block \cap Converting)
        /\ w.sweep \subseteq GroupKeys(w.block)
    BY <2>2 DEF Stored, Grouped
  <2>4. \A f \in plan.keys \ GroupKeys(w.block) : f \in keys' <=> f \in keys
    BY <2>1, <2>3
  <2>5. w.done = w.block \cap Converting /\ w.steps \subseteq w.block \cap Converting
    BY <2>1, <2>3 DEF Turn
  <2> QED
    BY <2>1, <2>2, <2>4, <2>5, GroupStep
<1>18. ASSUME NEW o \in Outcome, NEW fk \in ForeignKeys, Undrop(fk, o) PROVE Grouped'
  <2>1. /\ plan' = plan /\ ended' = ended /\ item'.key = item.key /\ lost \subseteq lost'
        /\ converted' = converted /\ fk \in w.sweep
        /\ (keys' = keys \/ keys' = keys \ {fk} \/ keys' = keys \cup {fk})
        /\ UNCHANGED <<w.block, w.todo, w.unread, w.steps, w.done>>
        /\ item' = item /\ w.at = "undrop" /\ w'.at = "undrop"
    BY <1>18, UndropDoes DEF KeyAside, OtherFields
  <2>2. InGroup /\ InGroup'
    BY <2>1 DEF InGroup
  <2>3. /\ plan.engine = "mariadb" /\ w.block \in Blocks /\ Turn(w.block \cap Converting)
        /\ w.sweep \subseteq GroupKeys(w.block)
    BY <2>2 DEF Stored, Grouped
  <2>4. \A f \in plan.keys \ GroupKeys(w.block) : f \in keys' <=> f \in keys
    BY <2>1, <2>3
  <2>5. /\ w.steps \cup w.done \subseteq w.block \cap Converting
        /\ w.at = "readd" => w.done = {}
        /\ \A t \in w.block \cap Converting :
             t \notin converted \/ t \in w.done \/ item.table[t] = "stuck" \/ t \in lost
    BY <2>1, <2>3 DEF Turn, Restoring, Known
  <2>6. /\ w'.steps \cup w'.done \subseteq w.block \cap Converting
        /\ w'.at = "readd" => w'.done = {}
        /\ \A t \in w.block \cap Converting :
             t \notin converted' \/ t \in w'.done \/ item'.table[t] = "stuck" \/ t \in lost'
    BY <2>1, <2>5
  <2> QED
    BY <2>1, <2>2, <2>4, <2>6, GroupStep
<1>19. ASSUME NEW o \in Outcome, NEW fk \in ForeignKeys, Readd(fk, o) PROVE Grouped'
  <2>1. /\ plan' = plan /\ ended' = ended /\ item'.key = item.key /\ lost \subseteq lost'
        /\ converted' = converted /\ fk \in w.sweep
        /\ (keys' = keys \/ keys' = keys \ {fk} \/ keys' = keys \cup {fk})
        /\ UNCHANGED <<w.block, w.todo, w.unread, w.steps, w.done>>
        /\ item' = item /\ w.at = "readd" /\ w'.at = "readd"
    BY <1>19, ReaddDoes DEF KeyAside, OtherFields
  <2>2. InGroup /\ InGroup'
    BY <2>1 DEF InGroup
  <2>3. /\ plan.engine = "mariadb" /\ w.block \in Blocks /\ Turn(w.block \cap Converting)
        /\ w.sweep \subseteq GroupKeys(w.block)
    BY <2>2 DEF Stored, Grouped
  <2>4. \A f \in plan.keys \ GroupKeys(w.block) : f \in keys' <=> f \in keys
    BY <2>1, <2>3
  <2>5. /\ w.steps \cup w.done \subseteq w.block \cap Converting
        /\ w.at = "readd" => w.done = {}
        /\ \A t \in w.block \cap Converting :
             t \notin converted \/ t \in w.done \/ item.table[t] = "stuck" \/ t \in lost
    BY <2>1, <2>3 DEF Turn, Restoring, Known
  <2>6. /\ w'.steps \cup w'.done \subseteq w.block \cap Converting
        /\ w'.at = "readd" => w'.done = {}
        /\ \A t \in w.block \cap Converting :
             t \notin converted' \/ t \in w'.done \/ item'.table[t] = "stuck" \/ t \in lost'
    BY <2>1, <2>5
  <2> QED
    BY <2>1, <2>2, <2>4, <2>6, GroupStep
<1>20. CASE UNCHANGED vars
  BY <1>20, <1>1 DEF vars
<1> QED
  BY <1>2, <1>3, <1>4, <1>5, <1>6, <1>7, <1>8, <1>9, <1>10, <1>11, <1>12, <1>13, <1>14,
     <1>15, <1>16, <1>17, <1>18, <1>19, <1>20, Steps

-----------------------------------------------------------------------------
(* The theorems.                                                           *)

\* A job starts with everything as it was and nothing said.
LEMMA InvInit ==
  ASSUME Init
  PROVE  Inv
<1>1. Types /\ plan \in Plans
  BY TypesInit DEF Init
<1>2. /\ w = Fresh /\ w.at = "verify" /\ w.todo = Tables /\ w.objects = plan.objects
      /\ w.unread = FALSE /\ w.steps = {} /\ w.done = {} /\ w.says = Open
  BY DEF Init, Fresh
<1>3. /\ converted = plan.skip /\ keys = plan.keys /\ grants = plan.granted /\ ended = "no"
      /\ item.database = "none" /\ managed.collation = "old"
      /\ \A t \in Tables : item.table[t] = "none"
      /\ \A fk \in ForeignKeys : item.key[fk] = "none"
      /\ \A x \in Objects : item.object[x] = "none"
      /\ \A x \in plan.objects : x \in Objects => object[x] = "old"
  BY DEF Init
<1>4. /\ Converting \cap converted = {} /\ Converting \subseteq Tables
      /\ plan.objects \subseteq Objects /\ plan.keys \subseteq ForeignKeys
      /\ \A b \in Blocks : /\ GroupKeys(b) \subseteq plan.keys
                           /\ b \cap Converting \subseteq Tables
  BY <1>1, <1>3, OfThePlan, Relates DEF Converting, GroupKeys
<1>5. ~InGroup
  BY <1>2 DEF InGroup
<1>6. Living /\ Database
  BY <1>2, <1>3 DEF Living, Alive, Database
<1>7. Recreated
  BY <1>2, <1>3, <1>4 DEF Recreated, Kept, ObjectTrue
<1>8. Once
  BY <1>2, <1>3, <1>4 DEF Once, TableTrue
<1>9. Stored
  <2>1. \A fk \in ForeignKeys : w.says[fk] = "open"
    BY <1>2 DEF Open
  <2>2. \A fk \in plan.keys : KeyTrue(fk)
    BY <1>3, <1>4, <1>5 DEF KeyTrue
  <2> QED
    BY <1>2, <1>3, <1>5, <2>1, <2>2 DEF Stored
<1>10. Grouped
  <2>1. \A b \in Blocks : Waiting(b) /\ Whole(b)
    BY <1>2, <1>3, <1>4 DEF Waiting, Whole
  <2> QED
    BY <1>2, <1>3, <1>4, <1>5, <2>1 DEF Grouped
<1> QED
  BY <1>1, <1>6, <1>7, <1>8, <1>9, <1>10 DEF Inv

\* A running conversion keeps its invariant, wherever it fails, stops or dies.
THEOREM InvHolds == Spec => []Inv
<1>1. Init => Inv
  BY InvInit
<1>2. Inv /\ [Next]_vars => Inv'
  BY TypesStep, LivingStep, DatabaseStep, RecreatedStep, OnceStep, StoredStep,
     GroupedStep DEF Inv
<1> QED
  BY <1>1, <1>2, PTL DEF Spec

\* The engine, the items and the worker's memory keep their types, for every plan.
THEOREM TypeCorrect == Spec => []TypeOK
<1>1. Inv => TypeOK
  BY DEF Inv, Types
<1> QED
  BY <1>1, InvHolds, PTL

\* _fk_groups, line 2017: the groups of the worker are the tables that keys join, for every
\* schema and every set of excluded tables.
THEOREM GroupsJoin == Spec => []GroupsAreComponents
<1>1. Inv => plan \in Plans
  BY DEF Inv, Types
<1>2. Inv => GroupsAreComponents
  BY <1>1, Components
<1> QED
  BY <1>2, InvHolds, PTL

\* _convert_fk_group, lines 2060 to 2075: between two groups, each is all converted or all
\* as it was, with its keys, unless an item or a lost answer tells of the rest.
THEOREM GroupsWhole == Spec => []GroupWhole
<1>1. ASSUME Inv PROVE GroupWhole
  <2>1. SUFFICES ASSUME BetweenGroups, plan.engine = "mariadb", NEW b \in Blocks
        PROVE  Whole(b) \/ Confessed(b)
    BY DEF GroupWhole
  <2>2. ~InGroup /\ Alive
    BY <2>1 DEF BetweenGroups, InGroup, Alive
  <2>3. Whole(b) \/ ConfessedBy(b)
    BY <1>1, <2>1, <2>2 DEF Inv, Grouped
  <2> QED
    BY <2>3 DEF Confessed, ConfessedBy
<1> QED
  BY <1>1, InvHolds, PTL

\* The items of _record_item: between two groups and two objects they say of tables, keys,
\* objects and grants what the engine has, but for lost answers.
THEOREM ItemsTell == Spec => []ItemsTrue
<1>1. ASSUME Inv PROVE ItemsTrue
  <2>1. SUFFICES ASSUME BetweenGroups PROVE ItemsTrue!2
    BY DEF ItemsTrue
  <2>2. ~InGroup /\ Alive
    BY <2>1 DEF BetweenGroups, InGroup, Alive
  <2>3. /\ \A t \in Converting : Known(t) => TableTrue(t)
        /\ \A fk \in plan.keys : Known(fk) => (item.key[fk] = "missing" <=> fk \notin keys)
        /\ \A x \in plan.objects : Known(x) => ObjectTrue(x)
    BY <1>1, <2>2 DEF Inv, Once, Stored, KeyTrue, Recreated
  <2> QED
    BY <2>3 DEF TableTrue, ObjectTrue, Kept
<1> QED
  BY <1>1, InvHolds, PTL

\* _convert_fk_group (a) and _recreate_object (3): what a failure, a crash or a lost answer
\* leaves out of the engine has an item with its definition.
THEOREM CopiesFirst == Spec => []CopyBeforeDrop
<1>1. Inv => CopyBeforeDrop
  BY DEF Inv, Stored, Recreated, CopyBeforeDrop
<1> QED
  BY <1>1, InvHolds, PTL

\* _sync_managed_charset: the inventory names the target collation only for a managed
\* database whose default it is.
THEOREM InventoryTells == Spec => []InventoryTruthful
<1>1. Inv => InventoryTruthful
  BY DEF Inv, Database, InventoryTruthful
<1> QED
  BY <1>1, InvHolds, PTL

-----------------------------------------------------------------------------
(* The jobs around a conversion, and the batch of a blueprint: the         *)
(* inductive invariant of CollationJobs.                                   *)

Sels == Selections \cup {Everything, Nothing}
Tokens == {Plan[s][v] : s \in Sels, v \in Nat} \cup {Nothing}
RowType == [status : Terminal \cup {"absent", "pending", "running"}, sel : Sels,
            token : Tokens, version : Nat, cancel : BOOLEAN]
PlaceType == [at : {"idle", "done", "preview", "check", "enqueue", "batch",
                    "load", "guard", "verify", "convert"},
              job : Jobs \cup {Nothing}, sel : Sels, version : Nat, token : Tokens,
              todo : SUBSET Jobs, enqueued : BOOLEAN]
BatchType == [status : {"absent", "pending", "running", "done", "failed", "canceled"},
              jobs : SUBSET Jobs, tokens : UNION {[S -> Tokens] : S \in SUBSET Jobs}]

RowsTyped == row \in [Jobs -> RowType]
Typed ==
  /\ RowsTyped /\ batch \in BatchType
  /\ inventory \in [Databases -> Nat]
  /\ queue \in Seq(Jobs)
  /\ worker \in [Workers -> PlaceType] /\ request \in [Requests -> PlaceType]
  /\ issued \in [Jobs -> SUBSET Tokens] /\ confirmed \in [Jobs -> SUBSET Tokens]
  /\ late \subseteq Jobs /\ refused \subseteq Jobs

\* What a request, the queue and a worker hold is a job that exists.
Executing(s) == s.at \in {"preview", "check", "enqueue"}
Running(s) == s.at \in {"load", "guard", "verify", "convert"}
Exists(j) == j \in Jobs /\ row[j].status # "absent"
Existing ==
  /\ \A r \in Requests : /\ request[r].todo \subseteq DOMAIN batch.tokens
                         /\ ~Running(request[r])
                         /\ Executing(request[r]) => Exists(request[r].job)
  /\ batch.status = "absent" => DOMAIN batch.tokens = {}
  /\ \A i \in DOMAIN queue : Exists(queue[i])
  /\ \A w1 \in Workers : worker[w1] = Idle \/ (Running(worker[w1]) /\ Exists(worker[w1].job))

\* Nobody rewrote the row of a job since an execution of it read the row.
RowConfirmed(x, plans) == Plan[x.sel][x.version] \in plans
Reads(s, x) == /\ s.at = "check" => s.sel = x.sel /\ s.version = x.version
               /\ s.at = "enqueue" => s.token = Plan[x.sel][x.version]
Carries(s, x, plans) == /\ s.at = "load" => RowConfirmed(x, plans)
                        /\ s.at \in {"guard", "verify", "convert"} => RowConfirmed(s, plans)
Faithful ==
  \A j \in Jobs \ late :
    /\ \A r \in Requests : request[r].job = j => Reads(request[r], row[j])
    /\ \A i \in DOMAIN queue : queue[i] = j => RowConfirmed(row[j], confirmed[j])
    /\ \A w1 \in Workers : worker[w1].job = j => Carries(worker[w1], row[j], confirmed[j])

JobsInv == Typed /\ Existing /\ Faithful

LEMMA MinIsLeast ==
  ASSUME NEW S \in SUBSET Nat, S # {}
  PROVE  Min(S) \in S /\ \A x \in S : Min(S) <= x
<1>1. PICK m \in S : \A j \in S : <<j, m>> \notin OpToRel(<, Nat)
  BY NatLessThanWellFounded, WFMin
<1>2. \A j \in S : ~(j < m)
  BY <1>1 DEF OpToRel
<1>3. \E x \in S : \A y \in S : x <= y
  BY <1>2
<1> QED
  BY <1>3 DEF Min

\* the initial state
LEMMA JobsBegin == JobsInit => JobsInv
<1> SUFFICES ASSUME JobsInit PROVE JobsInv
  OBVIOUS
<1>1. Typed
  <2>1. Idle \in PlaceType
    BY DEF Idle, PlaceType, Sels, Tokens
  <2>2. Blank \in RowType
    BY DEF Blank, RowType, Sels, Tokens
  <2>3. batch \in BatchType
    <3>1. [j \in {} |-> Nothing] \in [{} -> Tokens] /\ {} \in SUBSET Jobs
      OBVIOUS
    <3>2. [j \in {} |-> Nothing] \in UNION {[S -> Tokens] : S \in SUBSET Jobs}
      BY <3>1
    <3> QED
      BY <3>2 DEF JobsInit, BatchType
  <2> QED
    BY <2>1, <2>2, <2>3 DEF Typed, JobsInit, RowsTyped
<1>2. Existing
  BY DEF Existing, JobsInit, Idle, Executing, Running
<1>3. Faithful
  BY DEF Faithful, JobsInit, Reads, Carries, Idle
<1> QED
  BY <1>1, <1>2, <1>3 DEF JobsInv

\* the next job of a batch execution is one of its jobs
LEMMA NextOfIsTodo ==
  ASSUME Typed, NEW r \in Requests, InBatch(r)
  PROVE  NextOf(r) \in request[r].todo /\ NextOf(r) \in Jobs
<1> DEFINE places == {i \in DOMAIN Order : Order[i] \in request[r].todo}
<1>1. request[r].todo \subseteq Jobs /\ request[r].todo # {}
  BY DEF Typed, PlaceType, InBatch
<1>2. places \in SUBSET Nat /\ places # {}
  BY <1>1, JobsAssumption DEF Jobs
<1>3. Min(places) \in places
  BY <1>2, MinIsLeast
<1> QED
  BY <1>1, <1>3 DEF NextOf

\* what each elementary step writes has its type
LEMMA IdleTyped == Idle \in PlaceType /\ Done \in PlaceType /\ Blank \in RowType
<1>1. Idle \in PlaceType
  BY DEF Idle, PlaceType, Sels, Tokens
<1>2. Done \in PlaceType
  BY <1>1 DEF Done, PlaceType
<1>3. Blank \in RowType
  BY DEF Blank, RowType, Sels, Tokens
<1> QED
  BY <1>1, <1>2, <1>3

LEMMA CurrentTyped ==
  ASSUME Typed, NEW j \in Jobs
  PROVE  Current(j) \in Nat /\ \A s \in Sels : Plan[s][Current(j)] \in Tokens
<1>1. Db[j] \in Databases
  BY DEF Databases
<1>2. Current(j) \in Nat
  BY <1>1 DEF Current, Typed
<1> QED
  BY <1>2 DEF Tokens

LEMMA AskTyped ==
  ASSUME Typed, NEW r, NEW place \in PlaceType, Ask(r, place)
  PROVE  request' \in [Requests -> PlaceType]
BY DEF Ask, Typed

LEMMA StandTyped ==
  ASSUME Typed, NEW w1, NEW place \in PlaceType, Stand(w1, place)
  PROVE  worker' \in [Workers -> PlaceType]
BY DEF Stand, Typed

LEMMA RowTyped ==
  ASSUME Typed, NEW j, NEW x \in RowType, row' = [row EXCEPT ![j] = x]
  PROVE  RowsTyped'
BY DEF RowsTyped, Typed

LEMMA AnsweredTyped ==
  ASSUME Typed, NEW r \in Requests, NEW e \in BOOLEAN
  PROVE  Answered(r, e) \in PlaceType
<1>1. request[r] \in PlaceType
  BY DEF Typed
<1> QED
  BY <1>1, IdleTyped DEF Answered, Done, PlaceType, Idle

\* adopting a drift writes the version only
LEMMA AdoptTyped ==
  ASSUME Typed, NEW r \in Requests, request[r].job \in Jobs, NEW force, Adopt(r, force)
  PROVE  RowsTyped' /\ late' \subseteq Jobs
<1>1. row[request[r].job] \in RowType /\ Current(request[r].job) \in Nat
  BY CurrentTyped DEF Typed, RowsTyped
<1>2. [row[request[r].job] EXCEPT !.version = Current(request[r].job)] \in RowType
  BY <1>1 DEF RowType
<1> QED
  BY <1>1, <1>2 DEF Adopt, Rewritten, Typed, RowsTyped

\* one step per action: types
LEMMA TypedStep ==
  ASSUME Typed, Existing, [JobsNext]_jobsVars
  PROVE  Typed'
<1>1. ASSUME NEW w1 \in Workers, Claim(w1)
      PROVE  Typed'
  <2>1. queue # <<>> /\ Head(queue) \in Jobs /\ queue' \in Seq(Jobs)
    BY <1>1 DEF Claim, Typed
  <2>2. row[Head(queue)] \in RowType
    BY <2>1 DEF Typed, RowsTyped
  <2>3. /\ [row[Head(queue)] EXCEPT !.status = "running"] \in RowType
        /\ [row[Head(queue)] EXCEPT !.status = "canceled"] \in RowType
    BY <2>2 DEF RowType, Terminal
  <2>4. RowsTyped'
    BY <1>1, <2>1, <2>3 DEF Claim, SetStatus, Typed, RowsTyped
  <2>5. [Idle EXCEPT !.at = "load", !.job = Head(queue)] \in PlaceType
    BY <2>1, IdleTyped DEF PlaceType
  <2>6. worker' \in [Workers -> PlaceType]
    BY <1>1, <2>5 DEF Claim, Stand, Typed
  <2> QED
    BY <1>1, <2>1, <2>4, <2>6 DEF Claim, ghosts, Typed
<1>2. ASSUME NEW w1 \in Workers, Load(w1)
      PROVE  Typed'
  <2>1. worker[w1] \in PlaceType /\ worker[w1].job \in Jobs
    BY <1>2 DEF Load, Typed, Existing, Exists, Idle
  <2>2. row[worker[w1].job] \in RowType
    BY <2>1 DEF Typed, RowsTyped
  <2>3. [worker[w1] EXCEPT !.at = "guard", !.sel = row[worker[w1].job].sel,
                           !.version = row[worker[w1].job].version] \in PlaceType
    BY <2>1, <2>2 DEF PlaceType, RowType
  <2>4. worker' \in [Workers -> PlaceType]
    BY <1>2, <2>3, StandTyped DEF Load
  <2> QED
    BY <1>2, <2>4 DEF Load, rows, ghosts, Typed, RowsTyped
<1>3. ASSUME NEW w1 \in Workers, EndsUnwritten(w1)
      PROVE  Typed'
  <2>1. worker' \in [Workers -> PlaceType]
    BY <1>3, IdleTyped, StandTyped DEF EndsUnwritten
  <2> QED
    BY <1>3, <2>1 DEF EndsUnwritten, rows, ghosts, Typed, RowsTyped
<1>26. ASSUME NEW w1 \in Workers, ClaimFails(w1)
       PROVE  Typed'
  <2>1. Head(queue) \in Jobs /\ queue' \in Seq(Jobs)
    BY <1>26 DEF ClaimFails, Typed
  <2> QED
    BY <1>26, <2>1 DEF ClaimFails, rows, Typed, RowsTyped
<1>4. ASSUME NEW w1 \in Workers, Guard(w1)
      PROVE  Typed'
  <2>1. worker[w1] \in PlaceType
    BY DEF Typed
  <2>2. [worker[w1] EXCEPT !.at = "verify"] \in PlaceType
    BY <2>1 DEF PlaceType
  <2>3. worker' \in [Workers -> PlaceType]
    BY <1>4, <2>2, StandTyped DEF Guard, Move
  <2> QED
    BY <1>4, <2>3 DEF Guard, rows, ghosts, Typed, RowsTyped
<1>5. ASSUME NEW w1 \in Workers, VerifyFingerprint(w1)
      PROVE  Typed'
  <2>1. worker[w1] \in PlaceType
    BY DEF Typed
  <2>2. [worker[w1] EXCEPT !.at = "convert"] \in PlaceType
    BY <2>1 DEF PlaceType
  <2>3. worker' \in [Workers -> PlaceType]
    BY <1>5, <2>2, StandTyped DEF VerifyFingerprint, Move
  <2> QED
    BY <1>5, <2>3 DEF VerifyFingerprint, rows, ghosts, Typed, RowsTyped
<1>6. ASSUME NEW w1 \in Workers, FailDrifted(w1)
      PROVE  Typed'
  <2>1. worker[w1].job \in Jobs
    BY <1>6 DEF FailDrifted, Typed, Existing, Exists, Idle
  <2>2. row[worker[w1].job] \in RowType
    BY <2>1 DEF Typed, RowsTyped
  <2>3. [row[worker[w1].job] EXCEPT !.status = "failed"] \in RowType
    BY <2>2 DEF RowType, Terminal
  <2>4. RowsTyped'
    BY <1>6, <2>3, RowTyped DEF FailDrifted, SetStatus, Typed, RowsTyped
  <2>5. worker' \in [Workers -> PlaceType]
    BY <1>6, IdleTyped, StandTyped DEF FailDrifted
  <2> QED
    BY <1>6, <2>4, <2>5 DEF FailDrifted, ghosts, Typed
<1>7. ASSUME NEW w1 \in Workers, NEW status \in {"succeeded", "failed", "canceled"},
             Finish(w1, status)
      PROVE  Typed'
  <2>1. worker[w1].job \in Jobs
    BY <1>7 DEF Finish, Typed, Existing, Exists, Idle
  <2>2. row[worker[w1].job] \in RowType
    BY <2>1 DEF Typed, RowsTyped
  <2>3. [row[worker[w1].job] EXCEPT !.status = status] \in RowType
    BY <2>2 DEF RowType, Terminal
  <2>4. RowsTyped'
    BY <1>7, <2>3, RowTyped DEF Finish, SetStatus, Typed, RowsTyped
  <2>5. worker' \in [Workers -> PlaceType]
    BY <1>7, IdleTyped, StandTyped DEF Finish
  <2> QED
    BY <1>7, <2>4, <2>5 DEF Finish, ghosts, Typed
<1>8. ASSUME NEW r \in Requests, NEW s \in Selections, NEW force \in BOOLEAN,
             WritePreview(r, s, force)
      PROVE  Typed'
  <2> DEFINE k == request[r].job
  <2>1. k \in Jobs
    BY <1>8 DEF WritePreview, Existing, Executing, Exists
  <2>2. row[k] \in RowType /\ Current(k) \in Nat /\ Plan[s][Current(k)] \in Tokens /\ s \in Sels
    BY <2>1, CurrentTyped DEF Typed, RowsTyped, Sels
  <2>3. [row[k] EXCEPT !.sel = s, !.token = Plan[s][Current(k)],
                       !.version = IF force THEN Current(k) ELSE @] \in RowType
    BY <2>2 DEF RowType
  <2>4. row' = [row EXCEPT ![k] = [row[k] EXCEPT !.sel = s, !.token = Plan[s][Current(k)],
                                                 !.version = IF force THEN Current(k) ELSE @]]
    BY <1>8, <2>1, <2>2 DEF WritePreview, Typed, RowsTyped, RowType
  <2>5. RowsTyped'
    BY <2>3, <2>4, RowTyped
  <2>6. request' \in [Requests -> PlaceType]
    BY <1>8, IdleTyped, AskTyped DEF WritePreview
  <2>7. issued' \in [Jobs -> SUBSET Tokens] /\ late' \subseteq Jobs
    BY <1>8, <2>1, <2>2 DEF WritePreview, Rewritten, Typed
  <2> QED
    BY <1>8, <2>5, <2>6, <2>7 DEF WritePreview, Typed
<1>9. ASSUME NEW r \in Requests, NEW force \in BOOLEAN, Accept(r, force)
      PROVE  Typed'
  <2>1. request[r] \in PlaceType /\ request[r].job \in Jobs
    BY <1>9 DEF Accept, Existing, Executing, Exists, Typed
  <2>2. RowsTyped' /\ late' \subseteq Jobs
    BY <1>9, <2>1, AdoptTyped DEF Accept
  <2>3. Expected(r) \in Tokens
    BY <2>1, CurrentTyped DEF Expected, PlaceType
  <2>4. [request[r] EXCEPT !.at = "enqueue", !.token = Expected(r)] \in PlaceType
    BY <2>1, <2>3 DEF PlaceType
  <2>5. request' \in [Requests -> PlaceType]
    BY <1>9, <2>4, AskTyped DEF Accept
  <2> QED
    BY <1>9, <2>2, <2>5 DEF Accept, Typed
<1>10. ASSUME NEW r \in Requests, NEW force \in BOOLEAN, Refuse(r, force)
      PROVE  Typed'
  <2>1. request[r].job \in Jobs
    BY <1>10 DEF Refuse, Existing, Executing, Exists
  <2>2. RowsTyped' /\ late' \subseteq Jobs
    BY <1>10, <2>1, AdoptTyped DEF Refuse
  <2>3. request' \in [Requests -> PlaceType]
    BY <1>10, AnsweredTyped, AskTyped DEF Refuse
  <2>4. refused' \subseteq Jobs
    BY <1>10, NextOfIsTodo DEF Refuse, Typed
  <2> QED
    BY <1>10, <2>2, <2>3, <2>4 DEF Refuse, Typed
<1>11. ASSUME NEW r \in Requests, BatchJob(r)
      PROVE  Typed'
  <2> DEFINE k == NextOf(r)
             asked == [request[r] EXCEPT !.token = batch.tokens[k]]
  <2>1. k \in Jobs /\ k \in DOMAIN batch.tokens
    BY <1>11, NextOfIsTodo DEF BatchJob, Existing
  <2>2. asked \in PlaceType /\ k \in Jobs
    <3>1. PICK S \in SUBSET Jobs : batch.tokens \in [S -> Tokens]
      BY DEF Typed, BatchType
    <3>2. batch.tokens[k] \in Tokens
      BY <2>1, <3>1
    <3>3. request[r] \in PlaceType
      BY DEF Typed
    <3> QED
      BY <2>1, <3>2, <3>3 DEF PlaceType
  <2> HIDE DEF asked
  <2>3. row[k] \in RowType
    BY <2>2 DEF Typed, RowsTyped
  <2>4. [asked EXCEPT !.at = "check", !.job = k, !.sel = row[k].sel,
                        !.version = row[k].version] \in PlaceType
    BY <2>2, <2>3, IdleTyped DEF PlaceType, RowType
  <2>5. request' \in [Requests -> PlaceType]
    BY <1>11, <2>4, AskTyped DEF BatchJob, Validated, asked
  <2> QED
    BY <1>11, <2>5 DEF BatchJob, rows, ghosts, Typed, RowsTyped
<1>12. ASSUME NEW r \in Requests, BatchJobRefused(r)
      PROVE  Typed'
  <2>1. request' \in [Requests -> PlaceType]
    BY <1>12, AnsweredTyped, AskTyped DEF BatchJobRefused
  <2>2. refused' \subseteq Jobs
    BY <1>12, NextOfIsTodo DEF BatchJobRefused, Typed
  <2> QED
    BY <1>12, <2>1, <2>2 DEF BatchJobRefused, rows, Typed, RowsTyped
<1>13. ASSUME NEW r \in Requests, Enqueue(r)
      PROVE  Typed'
  <2>1. request[r] \in PlaceType /\ request[r].job \in Jobs /\ request[r].token \in Tokens
    BY <1>13 DEF Enqueue, Existing, Executing, Exists, Typed, PlaceType
  <2>2. request' \in [Requests -> PlaceType]
    BY <1>13, AnsweredTyped, AskTyped DEF Enqueue
  <2>3. queue' \in Seq(Jobs) /\ confirmed' \in [Jobs -> SUBSET Tokens]
    BY <1>13, <2>1 DEF Enqueue, Typed
  <2> QED
    BY <1>13, <2>2, <2>3 DEF Enqueue, rows, Typed, RowsTyped
<1>14. ASSUME NEW r \in Requests, FinishBatch(r)
      PROVE  Typed'
  <2>1. request' \in [Requests -> PlaceType]
    BY <1>14, IdleTyped, AskTyped DEF FinishBatch
  <2>2. batch' \in BatchType
    BY <1>14 DEF FinishBatch, Typed, BatchType
  <2> QED
    BY <1>14, <2>1, <2>2 DEF FinishBatch, ghosts, Typed, RowsTyped
<1>15. ASSUME NEW r \in Requests, BeginBatch(r)
      PROVE  Typed'
  <2>1. Planned \subseteq Jobs
    BY DEF Planned, Typed, BatchType
  <2>2. [Idle EXCEPT !.at = "batch", !.todo = Planned] \in PlaceType
    BY <2>1, IdleTyped DEF PlaceType
  <2>3. request' \in [Requests -> PlaceType]
    BY <1>15, <2>2, AskTyped DEF BeginBatch
  <2> QED
    BY <1>15, <2>3 DEF BeginBatch, rows, ghosts, Typed, RowsTyped
<1>16. ASSUME NEW r \in Requests, NEW j \in Jobs, BeginPreview(r, j)
      PROVE  Typed'
  <2>1. row[j] \in RowType
    BY DEF Typed, RowsTyped
  <2>2. [Idle EXCEPT !.at = "preview", !.job = j, !.version = row[j].version] \in PlaceType
    BY <2>1, IdleTyped DEF PlaceType, RowType
  <2>3. request' \in [Requests -> PlaceType]
    BY <1>16, <2>2, AskTyped DEF BeginPreview
  <2> QED
    BY <1>16, <2>3 DEF BeginPreview, rows, ghosts, Typed, RowsTyped
<1>17. ASSUME NEW r \in Requests, NEW j \in Jobs, BeginExecute(r, j)
      PROVE  Typed'
  <2>1. j \in Jobs
    OBVIOUS
  <2>2. row[j] \in RowType
    BY <2>1 DEF Typed, RowsTyped
  <2>3. [Idle EXCEPT !.at = "check", !.job = j, !.sel = row[j].sel,
                        !.version = row[j].version] \in PlaceType
    BY <2>1, <2>2, IdleTyped DEF PlaceType, RowType
  <2>4. request' \in [Requests -> PlaceType]
    BY <1>17, <2>3, AskTyped DEF BeginExecute, Validated
  <2> QED
    BY <1>17, <2>4 DEF BeginExecute, rows, ghosts, Typed, RowsTyped
<1>18. ASSUME NEW j \in Jobs, CreatePlan(j)
      PROVE  Typed'
  <2>1. [Blank EXCEPT !.status = "pending", !.version = Current(j)] \in RowType
    BY IdleTyped, CurrentTyped DEF RowType
  <2>2. RowsTyped'
    BY <1>18, <2>1, RowTyped DEF CreatePlan
  <2> QED
    BY <1>18, <2>2 DEF CreatePlan, memory, ghosts, Typed
<1>19. ASSUME NEW j \in Jobs, CancelJob(j)
      PROVE  Typed'
  <2>1. row[j] \in RowType
    BY DEF Typed, RowsTyped
  <2>2. [row[j] EXCEPT !.cancel = TRUE] \in RowType
    BY <2>1 DEF RowType
  <2>3. RowsTyped'
    BY <1>19, <2>2, RowTyped DEF CancelJob
  <2> QED
    BY <1>19, <2>3 DEF CancelJob, memory, ghosts, Typed
<1>20. ASSUME NEW members \in SUBSET Jobs, NEW unplanned \in SUBSET Jobs,
             CreateBatchPlan(members, unplanned)
      PROVE  Typed'
  <2> DEFINE good == members \ unplanned
             shown(j) == Plan[Everything][Current(j)]
             new(j) == [Blank EXCEPT !.status = "pending", !.version = Current(j),
                                       !.sel = IF j \in good THEN Everything ELSE Nothing,
                                       !.token = IF j \in good THEN shown(j) ELSE Nothing]
  <2>1. \A j \in Jobs : shown(j) \in Tokens /\ Current(j) \in Nat
    BY CurrentTyped DEF Sels
  <2>2. \A j \in Jobs : new(j) \in RowType
    <3>1. Everything \in Sels /\ Nothing \in Sels /\ Nothing \in Tokens
      BY DEF Sels, Tokens
    <3> HIDE DEF shown, good
    <3> QED
      BY <2>1, <3>1, IdleTyped DEF RowType
  <2>3. /\ row' = [j \in Jobs |-> IF j \notin members THEN row[j] ELSE new(j)]
        /\ batch' = [status |-> "pending", jobs |-> members, tokens |-> [j \in good |-> shown(j)]]
        /\ issued' = [j \in Jobs |-> IF j \in good THEN {shown(j)} ELSE issued[j]]
    BY <1>20 DEF CreateBatchPlan
  <2>4. RowsTyped'
    <3> HIDE DEF new
    <3> QED
      BY <2>2, <2>3 DEF RowsTyped, Typed
  <2>5. batch' \in BatchType
    <3>1. good \in SUBSET Jobs
      OBVIOUS
    <3>2. [j \in good |-> shown(j)] \in [good -> Tokens]
      BY <2>1, <3>1
    <3>3. [j \in good |-> shown(j)] \in UNION {[S -> Tokens] : S \in SUBSET Jobs}
      BY <3>1, <3>2
    <3> HIDE DEF shown, good
    <3> QED
      BY <2>3, <3>3 DEF BatchType
  <2>6. issued' \in [Jobs -> SUBSET Tokens]
    BY <2>1, <2>3 DEF Typed
  <2> QED
    BY <1>20, <2>4, <2>5, <2>6 DEF CreateBatchPlan, memory, Typed
<1>21. ASSUME CancelBatch
      PROVE  Typed'
  <2>1. \A j \in Jobs : row[j] \in RowType
    BY DEF Typed, RowsTyped
  <2>2. \A j \in Jobs : [row[j] EXCEPT !.cancel = TRUE] \in RowType
    BY <2>1 DEF RowType
  <2>3. RowsTyped'
    BY <1>21, <2>1, <2>2 DEF CancelBatch, RowsTyped
  <2>4. batch' \in BatchType
    BY <1>21 DEF CancelBatch, Typed, BatchType
  <2> QED
    BY <1>21, <2>3, <2>4 DEF CancelBatch, memory, ghosts, Typed
<1>22. ASSUME ListBatch
      PROVE  Typed'
  <2>1. batch' \in BatchType
    BY <1>22 DEF ListBatch, BatchOutcome, Typed, BatchType
  <2> QED
    BY <1>22, <2>1 DEF ListBatch, memory, ghosts, Typed, RowsTyped
<1>23. ASSUME NEW d \in Databases, Alter(d)
      PROVE  Typed'
  <2>1. inventory' \in [Databases -> Nat]
    BY <1>23 DEF Alter, Typed
  <2> QED
    BY <1>23, <2>1 DEF Alter, rows, memory, ghosts, Typed, RowsTyped
<1>24. ASSUME Restart
      PROVE  Typed'
  <2>1. \A j \in Jobs : row[j] \in RowType
    BY DEF Typed, RowsTyped
  <2>2. \A j \in Jobs : [row[j] EXCEPT !.status = "interrupted"] \in RowType
    BY <2>1 DEF RowType, Terminal
  <2>3. RowsTyped'
    BY <1>24, <2>1, <2>2 DEF Restart, RowsTyped
  <2>4. batch' \in BatchType
    BY <1>24 DEF Restart, Typed, BatchType
  <2>5. worker' \in [Workers -> PlaceType] /\ request' \in [Requests -> PlaceType]
    BY <1>24, IdleTyped DEF Restart
  <2>6. queue' \in Seq(Jobs)
    BY <1>24 DEF Restart
  <2> QED
    BY <1>24, <2>3, <2>4, <2>5, <2>6 DEF Restart, ghosts, Typed
<1>25. CASE UNCHANGED jobsVars
  BY <1>25 DEF jobsVars, Typed, RowsTyped
<1> QED
  BY <1>1, <1>2, <1>3, <1>4, <1>5, <1>6, <1>7, <1>8, <1>9, <1>10, <1>11, <1>12, <1>13,
     <1>14, <1>15, <1>16, <1>17, <1>18, <1>19, <1>20, <1>21, <1>22, <1>23, <1>24, <1>25, <1>26
     DEF JobsNext, Work, Serve, Arrive

\* one step per action: nothing holds a job before its row exists
LEMMA ExistingStep ==
  ASSUME Typed, Existing, [JobsNext]_jobsVars
  PROVE  Existing'
<1>1. ASSUME NEW w1 \in Workers, Claim(w1)
      PROVE  Existing'
  <2> DEFINE k == Head(queue)
  <2>1. queue # <<>> /\ k = queue[1] /\ Exists(k)
    BY <1>1 DEF Claim, Typed, Existing
  <2>2. \A j : Exists(j) => Exists(j)'
    BY <1>1 DEF Claim, Claimable, SetStatus, Exists, Typed, RowsTyped, RowType
  <2>3. \A i \in DOMAIN queue' : i + 1 \in DOMAIN queue /\ queue'[i] = queue[i + 1]
    BY <1>1, <2>1 DEF Claim, Typed
  <2>4. \A v \in Workers : worker'[v] # worker[v] => Running(worker'[v]) /\ worker'[v].job = k
    <3>1. CASE worker' = worker
      BY <3>1
    <3>2. CASE worker' # worker
      <4>1. worker' = [worker EXCEPT ![w1] = [Idle EXCEPT !.at = "load", !.job = k]]
        BY <1>1, <3>2 DEF Claim, Stand
      <4>2. \A v \in Workers : worker'[v] # worker[v] =>
              worker'[v] = [Idle EXCEPT !.at = "load", !.job = k]
        BY <4>1 DEF Typed
      <4>3. [Idle EXCEPT !.at = "load", !.job = k].at = "load"
            /\ [Idle EXCEPT !.at = "load", !.job = k].job = k
        BY DEF Idle
      <4> QED
        BY <4>2, <4>3 DEF Running
    <3> QED
      BY <3>1, <3>2
  <2>5. UNCHANGED <<request, batch>>
    BY <1>1 DEF Claim
  <2> HIDE DEF k
  <2> QED
    BY <2>1, <2>2, <2>3, <2>4, <2>5 DEF Existing
<1>2. ASSUME NEW w1 \in Workers, Load(w1)
      PROVE  Existing'
  <2>1. \A j : Exists(j) => Exists(j)'
    BY <1>2 DEF Load, Stand, Exists, Typed, RowsTyped, RowType, rows
  <2>2. worker[w1] \in PlaceType /\ Running(worker[w1]) /\ Exists(worker[w1].job)
    BY <1>2 DEF Load, Existing, Typed, Idle
  <2>3. Running(worker'[w1]) /\ worker'[w1].job = worker[w1].job
    BY <1>2, <2>2 DEF Load, Stand, Typed, PlaceType, Running
  <2>4. \A v \in Workers \ {w1} : worker'[v] = worker[v]
    BY <1>2 DEF Load, Stand, Typed
  <2>5. UNCHANGED <<request, batch, queue>>
    BY <1>2 DEF Load, rows, ghosts
  <2> QED
    BY <2>1, <2>2, <2>3, <2>4, <2>5 DEF Existing
<1>3. ASSUME NEW w1 \in Workers, EndsUnwritten(w1)
      PROVE  Existing'
  BY <1>3 DEF EndsUnwritten, Stand, Idle, Typed, RowsTyped, RowType,
     PlaceType, BatchType, Existing, Executing, Running, Exists, rows,
     memory, ghosts
<1>26. ASSUME NEW w1 \in Workers, ClaimFails(w1)
       PROVE  Existing'
  <2>1. queue \in Seq(Jobs) /\ queue # <<>> /\ queue' = Tail(queue)
    BY <1>26 DEF ClaimFails, Typed
  <2>2. \A i \in DOMAIN queue' : i + 1 \in DOMAIN queue /\ queue'[i] = queue[i + 1]
    BY <2>1
  <2> QED
    BY <1>26, <2>1, <2>2 DEF ClaimFails, Existing, Executing, Running, Exists, rows
<1>4. ASSUME NEW w1 \in Workers, Guard(w1)
      PROVE  Existing'
  <2>1. \A j : Exists(j) => Exists(j)'
    BY <1>4 DEF Guard, Stand, Move, Exists, Typed, RowsTyped, RowType, rows
  <2>2. worker[w1] \in PlaceType /\ Running(worker[w1]) /\ Exists(worker[w1].job)
    BY <1>4 DEF Guard, Existing, Typed, Idle
  <2>3. Running(worker'[w1]) /\ worker'[w1].job = worker[w1].job
    BY <1>4, <2>2 DEF Guard, Stand, Move, Typed, PlaceType, Running
  <2>4. \A v \in Workers \ {w1} : worker'[v] = worker[v]
    BY <1>4 DEF Guard, Stand, Move, Typed
  <2>5. UNCHANGED <<request, batch, queue>>
    BY <1>4 DEF Guard, rows, ghosts
  <2> QED
    BY <2>1, <2>2, <2>3, <2>4, <2>5 DEF Existing
<1>5. ASSUME NEW w1 \in Workers, VerifyFingerprint(w1)
      PROVE  Existing'
  <2>1. \A j : Exists(j) => Exists(j)'
    BY <1>5 DEF VerifyFingerprint, Stand, Move, Exists, Typed, RowsTyped, RowType, rows
  <2>2. worker[w1] \in PlaceType /\ Running(worker[w1]) /\ Exists(worker[w1].job)
    BY <1>5 DEF VerifyFingerprint, Existing, Typed, Idle
  <2>3. Running(worker'[w1]) /\ worker'[w1].job = worker[w1].job
    BY <1>5, <2>2 DEF VerifyFingerprint, Stand, Move, Typed, PlaceType, Running
  <2>4. \A v \in Workers \ {w1} : worker'[v] = worker[v]
    BY <1>5 DEF VerifyFingerprint, Stand, Move, Typed
  <2>5. UNCHANGED <<request, batch, queue>>
    BY <1>5 DEF VerifyFingerprint, rows, ghosts
  <2> QED
    BY <2>1, <2>2, <2>3, <2>4, <2>5 DEF Existing
<1>6. ASSUME NEW w1 \in Workers, FailDrifted(w1)
      PROVE  Existing'
  <2>1. \A j : Exists(j) => Exists(j)'
    BY <1>6 DEF FailDrifted, SetStatus, Stand, Exists, Typed, RowsTyped, RowType, rows
  <2>2. worker[w1] \in PlaceType /\ Running(worker[w1]) /\ Exists(worker[w1].job)
    BY <1>6 DEF FailDrifted, Existing, Typed, Idle
  <2>3. worker'[w1] = Idle
    BY <1>6, <2>2 DEF FailDrifted, SetStatus, Stand, Typed, PlaceType, Running
  <2>4. \A v \in Workers \ {w1} : worker'[v] = worker[v]
    BY <1>6 DEF FailDrifted, SetStatus, Stand, Typed
  <2>5. UNCHANGED <<request, batch, queue>>
    BY <1>6 DEF FailDrifted, rows, ghosts
  <2> QED
    BY <2>1, <2>2, <2>3, <2>4, <2>5 DEF Existing
<1>7. ASSUME NEW w1 \in Workers, NEW status \in {"succeeded", "failed", "canceled"},
             Finish(w1, status)
      PROVE  Existing'
  <2>1. \A j : Exists(j) => Exists(j)'
    BY <1>7 DEF Finish, SetStatus, Stand, Exists, Typed, RowsTyped, RowType, rows
  <2>2. worker[w1] \in PlaceType /\ Running(worker[w1]) /\ Exists(worker[w1].job)
    BY <1>7 DEF Finish, Existing, Typed, Idle
  <2>3. worker'[w1] = Idle
    BY <1>7, <2>2 DEF Finish, SetStatus, Stand, Typed, PlaceType, Running
  <2>4. \A v \in Workers \ {w1} : worker'[v] = worker[v]
    BY <1>7 DEF Finish, SetStatus, Stand, Typed
  <2>5. UNCHANGED <<request, batch, queue>>
    BY <1>7 DEF Finish, rows, ghosts
  <2> QED
    BY <2>1, <2>2, <2>3, <2>4, <2>5 DEF Existing
<1>8. ASSUME NEW r \in Requests, NEW s \in Selections, NEW force \in BOOLEAN,
             WritePreview(r, s, force)
      PROVE  Existing'
  <2>1. Exists(request[r].job) /\ request[r] \in PlaceType
    BY <1>8 DEF WritePreview, Existing, Executing, Typed
  <2>2. \A j : Exists(j) => Exists(j)'
    BY <1>8, <2>1 DEF WritePreview, Exists, Typed, RowsTyped, RowType
  <2>3. request'[r].at = "done" /\ request'[r].todo = {}
    BY <1>8, <2>1, NextOfIsTodo DEF WritePreview, Ask, Answered, Done, Idle, Typed, PlaceType
  <2>4. \A q \in Requests \ {r} : request'[q] = request[q]
    BY <1>8 DEF WritePreview, Ask, Typed
  <2>5. UNCHANGED <<worker, batch, queue>>
    BY <1>8 DEF WritePreview
  <2> QED
    BY <2>1, <2>2, <2>3, <2>4, <2>5 DEF Existing, Executing, Running
<1>9. ASSUME NEW r \in Requests, NEW force \in BOOLEAN, Accept(r, force)
      PROVE  Existing'
  <2>1. Exists(request[r].job) /\ request[r] \in PlaceType
    BY <1>9 DEF Accept, Existing, Executing, Typed
  <2>2. \A j : Exists(j) => Exists(j)'
    BY <1>9, <2>1 DEF Accept, Adopt, Exists, Typed, RowsTyped, RowType
  <2>3. /\ request'[r].at = "enqueue" /\ request'[r].job = request[r].job
        /\ request'[r].todo = request[r].todo
    BY <1>9, <2>1, NextOfIsTodo DEF Accept, Ask, Answered, Done, Idle, Typed, PlaceType
  <2>4. \A q \in Requests \ {r} : request'[q] = request[q]
    BY <1>9 DEF Accept, Ask, Typed
  <2>5. UNCHANGED <<worker, batch, queue>>
    BY <1>9 DEF Accept
  <2> QED
    BY <2>1, <2>2, <2>3, <2>4, <2>5 DEF Existing, Executing, Running
<1>10. ASSUME NEW r \in Requests, NEW force \in BOOLEAN, Refuse(r, force)
      PROVE  Existing'
  <2>1. Exists(request[r].job) /\ request[r] \in PlaceType
    BY <1>10 DEF Refuse, Existing, Executing, Typed
  <2>2. \A j : Exists(j) => Exists(j)'
    BY <1>10, <2>1 DEF Refuse, Adopt, Exists, Typed, RowsTyped, RowType
  <2>3. request'[r].at \in {"done", "batch"} /\ request'[r].todo \subseteq request[r].todo
    BY <1>10, <2>1, NextOfIsTodo DEF Refuse, Ask, Answered, Done, Idle, Typed, PlaceType
  <2>4. \A q \in Requests \ {r} : request'[q] = request[q]
    BY <1>10 DEF Refuse, Ask, Typed
  <2>5. UNCHANGED <<worker, batch, queue>>
    BY <1>10 DEF Refuse
  <2> QED
    BY <2>1, <2>2, <2>3, <2>4, <2>5 DEF Existing, Executing, Running
<1>11. ASSUME NEW r \in Requests, BatchJob(r)
      PROVE  Existing'
  BY <1>11, NextOfIsTodo DEF BatchJob, Validated, Ask, Typed, RowsTyped,
     RowType, PlaceType, BatchType, Existing, Executing, Running, Exists,
     rows, memory, ghosts
<1>12. ASSUME NEW r \in Requests, BatchJobRefused(r)
      PROVE  Existing'
  BY <1>12, NextOfIsTodo DEF BatchJobRefused, Ask, Answered, Idle,
     Done, Typed, RowsTyped, RowType, PlaceType, BatchType, Existing,
     Executing, Running, Exists, rows, memory, ghosts
<1>13. ASSUME NEW r \in Requests, Enqueue(r)
      PROVE  Existing'
  BY <1>13 DEF Enqueue, Ask, Answered, Idle, Done, Typed, RowsTyped,
     RowType, PlaceType, BatchType, Existing, Executing, Running, Exists,
     rows, memory, ghosts
<1>14. ASSUME NEW r \in Requests, FinishBatch(r)
      PROVE  Existing'
  BY <1>14 DEF FinishBatch, Ask, Done, Idle, Typed, RowsTyped,
     RowType, PlaceType, BatchType, Existing, Executing, Running, Exists,
     rows, memory, ghosts
<1>15. ASSUME NEW r \in Requests, BeginBatch(r)
      PROVE  Existing'
  BY <1>15 DEF BeginBatch, Ask, Idle, Planned, Typed, RowsTyped,
     RowType, PlaceType, BatchType, Existing, Executing, Running, Exists,
     rows, memory, ghosts
<1>16. ASSUME NEW r \in Requests, NEW j \in Jobs, BeginPreview(r, j)
      PROVE  Existing'
  BY <1>16 DEF BeginPreview, Ask, Idle, Typed, RowsTyped, RowType,
     PlaceType, BatchType, Existing, Executing, Running, Exists, rows,
     memory, ghosts
<1>17. ASSUME NEW r \in Requests, NEW j \in Jobs, BeginExecute(r, j)
      PROVE  Existing'
  BY <1>17 DEF BeginExecute, Validated, Ask, Idle, Typed, RowsTyped,
     RowType, PlaceType, BatchType, Existing, Executing, Running, Exists,
     rows, memory, ghosts
<1>18. ASSUME NEW j \in Jobs, CreatePlan(j)
      PROVE  Existing'
  BY <1>18 DEF CreatePlan, Blank, Current, Typed, RowsTyped, RowType,
     PlaceType, BatchType, Existing, Executing, Running, Exists, rows,
     memory, ghosts
<1>19. ASSUME NEW j \in Jobs, CancelJob(j)
      PROVE  Existing'
  BY <1>19 DEF CancelJob, Typed, RowsTyped, RowType, PlaceType, BatchType,
     Existing, Executing, Running, Exists, rows, memory, ghosts
<1>20. ASSUME NEW members \in SUBSET Jobs, NEW unplanned \in SUBSET Jobs,
             CreateBatchPlan(members, unplanned)
      PROVE  Existing'
  BY <1>20 DEF CreateBatchPlan, Blank, Current, Typed, RowsTyped,
     RowType, PlaceType, BatchType, Existing, Executing, Running, Exists,
     rows, memory, ghosts
<1>21. ASSUME CancelBatch
      PROVE  Existing'
  BY <1>21 DEF CancelBatch, Typed, RowsTyped, RowType, PlaceType, BatchType,
     Existing, Executing, Running, Exists, rows, memory, ghosts
<1>22. ASSUME ListBatch
      PROVE  Existing'
  BY <1>22 DEF ListBatch, BatchOutcome, Typed, RowsTyped, RowType, PlaceType,
     BatchType, Existing, Executing, Running, Exists, rows, memory,
     ghosts
<1>23. ASSUME NEW d \in Databases, Alter(d)
      PROVE  Existing'
  BY <1>23 DEF Alter, Typed, RowsTyped, RowType, PlaceType, BatchType,
     Existing, Executing, Running, Exists, rows, memory, ghosts
<1>24. ASSUME Restart
      PROVE  Existing'
  BY <1>24 DEF Restart, Idle, Done, Typed, RowsTyped, RowType,
     PlaceType, BatchType, Existing, Executing, Running, Exists, rows,
     memory, ghosts
<1>25. CASE UNCHANGED jobsVars
  BY <1>25 DEF jobsVars, Typed, RowsTyped, RowType, PlaceType, BatchType, Existing,
     Executing, Running, Exists
<1> QED
  BY <1>1, <1>2, <1>3, <1>4, <1>5, <1>6, <1>7, <1>8, <1>9, <1>10, <1>11, <1>12, <1>13,
     <1>14, <1>15, <1>16, <1>17, <1>18, <1>19, <1>20, <1>21, <1>22, <1>23, <1>24, <1>25, <1>26
     DEF JobsNext, Work, Serve, Arrive

\* writing a status leaves the rest of the row, adopting a drift all but its version
LEMMA StatusOnly ==
  ASSUME Typed, NEW k, NEW status, row' = [row EXCEPT ![k].status = status], NEW j \in Jobs
  PROVE  /\ row'[j].sel = row[j].sel /\ row'[j].version = row[j].version
         /\ row'[j].status \in {row[j].status, status}
<1>1. row[j] \in RowType
  BY DEF Typed, RowsTyped
<1>2. row'[j] = IF j = k THEN [row[j] EXCEPT !.status = status] ELSE row[j]
  BY DEF Typed, RowsTyped
<1> QED
  BY <1>1, <1>2 DEF RowType

LEMMA AdoptOnly ==
  ASSUME Typed, NEW r \in Requests, NEW force, Adopt(r, force), NEW j \in Jobs
  PROVE  /\ row'[j].sel = row[j].sel /\ row'[j].status = row[j].status
         /\ Drift(r) /\ force /\ j = request[r].job => row'[j].version = Current(j)
         /\ ~(Drift(r) /\ force) => row' = row
<1>1. row[j] \in RowType
  BY DEF Typed, RowsTyped
<1>2. CASE ~(Drift(r) /\ force)
  BY <1>2 DEF Adopt
<1>3. CASE Drift(r) /\ force
  <2>1. row' = [row EXCEPT ![request[r].job].version = Current(request[r].job)]
    BY <1>3 DEF Adopt
  <2>2. row'[j] = IF j = request[r].job THEN [row[j] EXCEPT !.version = Current(j)] ELSE row[j]
    BY <2>1 DEF Typed, RowsTyped
  <2> QED
    BY <1>1, <1>3, <2>2 DEF RowType
<1> QED
  BY <1>2, <1>3

\* a row that nothing points at may be written
LEMMA FaithfulKept ==
  ASSUME Existing, Faithful, UNCHANGED <<request, queue, worker, confirmed, late>>,
         \A j \in Jobs : row'[j] = row[j] \/ ~Exists(j)
  PROVE  Faithful'
<1> SUFFICES ASSUME NEW j \in Jobs \ late
             PROVE  /\ \A r \in Requests : request[r].job = j => Reads(request[r], row'[j])
                    /\ \A i \in DOMAIN queue : queue[i] = j => RowConfirmed(row'[j], confirmed'[j])
                    /\ \A v \in Workers : worker[v].job = j => Carries(worker[v], row'[j], confirmed'[j])
  BY DEF Faithful
<1>1. CASE ~Exists(j)
  BY <1>1 DEF Existing, Executing, Running, Idle, Reads, Carries
<1>2. CASE row'[j] = row[j]
  BY <1>2 DEF Faithful, Reads, Carries, RowConfirmed
<1> QED
  BY <1>1, <1>2

\* one step per action: a row that was read, queued or claimed is the confirmed one, or late
LEMMA FaithfulStep ==
  ASSUME Typed, Existing, Faithful, [JobsNext]_jobsVars
  PROVE  Faithful'
<1>1. ASSUME NEW w1 \in Workers, Claim(w1)
      PROVE  Faithful'
  <2> DEFINE k == Head(queue)
  <2>1. queue # <<>> /\ k = queue[1] /\ 1 \in DOMAIN queue
    BY <1>1 DEF Claim, Typed
  <2>2. \A j \in Jobs : row'[j].sel = row[j].sel /\ row'[j].version = row[j].version
    BY <1>1, StatusOnly DEF Claim, SetStatus
  <2>3. \A i \in DOMAIN queue' : i + 1 \in DOMAIN queue /\ queue'[i] = queue[i + 1]
    BY <1>1, <2>1 DEF Claim, Typed
  <2>4. \A v \in Workers : worker'[v] # worker[v] => worker'[v].at = "load" /\ worker'[v].job = k
    BY <1>1 DEF Claim, Stand, Idle, Typed
  <2>5. UNCHANGED <<request, confirmed, late>>
    BY <1>1 DEF Claim, ghosts
  <2>6. \A j \in Jobs : RowConfirmed(row[j], confirmed[j]) => RowConfirmed(row'[j], confirmed'[j])
    BY <2>2, <2>5 DEF RowConfirmed
  <2> HIDE DEF k
  <2>7. ASSUME NEW j \in Jobs \ late
        PROVE  /\ \A r \in Requests : request[r].job = j => Reads(request[r], row'[j])
               /\ \A i \in DOMAIN queue' : queue'[i] = j => RowConfirmed(row'[j], confirmed'[j])
               /\ \A v \in Workers : worker'[v].job = j => Carries(worker'[v], row'[j], confirmed'[j])
    <3>1. \A r \in Requests : request[r].job = j => Reads(request[r], row'[j])
      BY <2>2, <2>5 DEF Faithful, Reads
    <3>2. \A i \in DOMAIN queue' : queue'[i] = j => RowConfirmed(row'[j], confirmed'[j])
      BY <2>3, <2>6 DEF Faithful
    <3>3. ASSUME NEW v \in Workers, worker'[v].job = j PROVE Carries(worker'[v], row'[j], confirmed'[j])
      <4>1. CASE worker'[v] = worker[v]
        BY <2>5, <2>6, <3>3, <4>1 DEF Faithful, Carries, RowConfirmed
      <4>2. CASE worker'[v] # worker[v]
        BY <2>1, <2>4, <2>6, <3>3, <4>2 DEF Faithful, Carries, RowConfirmed
      <4> QED
        BY <4>1, <4>2
    <3> QED
      BY <3>1, <3>2, <3>3
  <2> QED
    BY <2>5, <2>7 DEF Faithful
<1>2. ASSUME NEW w1 \in Workers, Load(w1)
      PROVE  Faithful'
  BY <1>2 DEF Load, Stand, Typed, RowsTyped, RowType, PlaceType, Existing,
     Executing, Running, Exists, Faithful, RowConfirmed, Reads, Carries,
     UnderWay, InQueue, rows, memory, ghosts
<1>3. ASSUME NEW w1 \in Workers, EndsUnwritten(w1)
      PROVE  Faithful'
  BY <1>3 DEF EndsUnwritten, Stand, Idle, Typed, RowsTyped, RowType,
     PlaceType, Existing, Executing, Running, Exists, Faithful, RowConfirmed,
     Reads, Carries, UnderWay, InQueue, rows, memory, ghosts
<1>26. ASSUME NEW w1 \in Workers, ClaimFails(w1)
       PROVE  Faithful'
  <2>1. queue \in Seq(Jobs) /\ queue # <<>> /\ queue' = Tail(queue)
    BY <1>26 DEF ClaimFails, Typed
  <2>2. \A i \in DOMAIN queue' : i + 1 \in DOMAIN queue /\ queue'[i] = queue[i + 1]
    BY <2>1
  <2> QED
    BY <1>26, <2>1, <2>2 DEF ClaimFails, Faithful, RowConfirmed, Reads, Carries, UnderWay, InQueue,
       Exists, rows
<1>4. ASSUME NEW w1 \in Workers, Guard(w1)
      PROVE  Faithful'
  BY <1>4 DEF Guard, Stand, Move, Typed, RowsTyped, RowType, PlaceType,
     Existing, Executing, Running, Exists, Faithful, RowConfirmed, Reads,
     Carries, UnderWay, InQueue, rows, memory, ghosts
<1>5. ASSUME NEW w1 \in Workers, VerifyFingerprint(w1)
      PROVE  Faithful'
  BY <1>5 DEF VerifyFingerprint, Stand, Move, Typed, RowsTyped, RowType, PlaceType,
     Existing, Executing, Running, Exists, Faithful, RowConfirmed, Reads,
     Carries, UnderWay, InQueue, rows, memory, ghosts
<1>6. ASSUME NEW w1 \in Workers, FailDrifted(w1)
      PROVE  Faithful'
  BY <1>6 DEF FailDrifted, SetStatus, Stand, Idle, Typed, RowsTyped,
     RowType, PlaceType, Existing, Executing, Running, Exists, Faithful,
     RowConfirmed, Reads, Carries, UnderWay, InQueue, rows, memory, ghosts
<1>7. ASSUME NEW w1 \in Workers, NEW status \in {"succeeded", "failed", "canceled"},
             Finish(w1, status)
      PROVE  Faithful'
  BY <1>7 DEF Finish, SetStatus, Stand, Idle, Typed, RowsTyped,
     RowType, PlaceType, Existing, Executing, Running, Exists, Faithful,
     RowConfirmed, Reads, Carries, UnderWay, InQueue, rows, memory, ghosts
<1>8. ASSUME NEW r \in Requests, NEW s \in Selections, NEW force \in BOOLEAN,
             WritePreview(r, s, force)
      PROVE  Faithful'
  <2> DEFINE k == request[r].job
  <2>1. /\ \A j \in Jobs : j # k => row'[j] = row[j]
        /\ UnderWay(r, k) => k \in late'
    BY <1>8 DEF WritePreview, Rewritten, Typed, RowsTyped
  <2> HIDE DEF k
  <2>2. UNCHANGED <<queue, worker, confirmed>> /\ late \subseteq late'
    BY <1>8 DEF WritePreview, Adopt, Rewritten
  <2>3. \A q \in Requests \ {r} : request'[q] = request[q]
    BY <1>8 DEF WritePreview, Ask, Typed
  <2>4. ASSUME NEW j \in Jobs \ late'
        PROVE  /\ \A q \in Requests : request'[q].job = j => Reads(request'[q], row'[j])
               /\ \A i \in DOMAIN queue : queue[i] = j => RowConfirmed(row'[j], confirmed'[j])
               /\ \A v \in Workers : worker[v].job = j => Carries(worker[v], row'[j], confirmed'[j])
    <3>1. Reads(request'[r], row'[j]) \/ request'[r].job # j
      BY <1>8 DEF WritePreview, Ask, Done, Idle, Typed, Reads
    <3>2. CASE j = k /\ row'[j] # row[j]
      <4>1. ~UnderWay(r, j)
        BY <2>1, <2>4, <3>2
      <4>2. \A q \in Requests \ {r} : request[q].job = j => Reads(request[q], row'[j])
        BY <4>1 DEF UnderWay, InQueue, Reads
      <4>3. /\ \A i \in DOMAIN queue : queue[i] # j
            /\ \A v \in Workers : worker[v].job # j
        BY <4>1 DEF UnderWay, InQueue
      <4> QED
        BY <2>3, <3>1, <4>2, <4>3
    <3>3. CASE j # k \/ row'[j] = row[j]
      <4>1. row'[j] = row[j]
        BY <2>1, <3>3
      <4>2. Faithful /\ j \in Jobs \ late
        BY <2>2, <2>4
      <4>3. \A q \in Requests \ {r} : request[q].job = j => Reads(request[q], row'[j])
        BY <4>1, <4>2 DEF Faithful, Reads
      <4>4. RowConfirmed(row[j], confirmed[j]) => RowConfirmed(row'[j], confirmed'[j])
        BY <2>2, <4>1 DEF RowConfirmed
      <4>5. /\ \A i \in DOMAIN queue : queue[i] = j => RowConfirmed(row'[j], confirmed'[j])
            /\ \A v \in Workers : worker[v].job = j => Carries(worker[v], row'[j], confirmed'[j])
        BY <2>2, <4>2, <4>4 DEF Faithful, Carries, RowConfirmed
      <4> QED
        BY <2>3, <3>1, <4>3, <4>5
    <3> QED
      BY <3>2, <3>3
  <2> QED
    BY <2>2, <2>4 DEF Faithful
<1>9. ASSUME NEW r \in Requests, NEW force \in BOOLEAN, Accept(r, force)
      PROVE  Faithful'
  <2> DEFINE k == request[r].job
  <2>1. request[r] \in PlaceType /\ k \in Jobs /\ row[k] \in RowType /\ request[r].at = "check"
    BY <1>9 DEF Accept, Existing, Executing, Exists, Typed, RowsTyped
  <2>2. /\ \A j \in Jobs : j # k => row'[j] = row[j]
        /\ row'[k] # row[k] /\ UnderWay(r, k) => k \in late'
    BY <1>9 DEF Accept, Adopt, Rewritten, Typed, RowsTyped
  <2>3. /\ request'[r].at = "enqueue" /\ request'[r].job = k
        /\ request'[r].token = Plan[request[r].sel][Current(k)]
    BY <1>9, <2>1 DEF Accept, Ask, Expected, Typed, PlaceType
  <2>4. /\ row'[k].sel = row[k].sel
        /\ (row'[k].version = Current(k) \/ (row' = row /\ request[r].version = Current(k)))
    BY <1>9, <2>1, AdoptOnly DEF Accept, Drift
  <2> HIDE DEF k
  <2>5. UNCHANGED <<queue, worker, confirmed>> /\ late \subseteq late'
    BY <1>9 DEF Accept, Adopt, Rewritten
  <2>6. \A q \in Requests \ {r} : request'[q] = request[q]
    BY <1>9 DEF Accept, Ask, Typed
  <2>7. ASSUME NEW j \in Jobs \ late'
        PROVE  /\ \A q \in Requests : request'[q].job = j => Reads(request'[q], row'[j])
               /\ \A i \in DOMAIN queue : queue[i] = j => RowConfirmed(row'[j], confirmed'[j])
               /\ \A v \in Workers : worker[v].job = j => Carries(worker[v], row'[j], confirmed'[j])
    <3>1. Reads(request'[r], row'[j]) \/ request'[r].job # j
      <4>1. CASE j = k
        <5>1. request[r].sel = row[k].sel /\ request[r].version = row[k].version
          BY <2>1, <2>5, <2>7, <4>1 DEF Faithful, Reads, k
        <5>2. Reads(request'[r], row'[j])
          BY <2>3, <2>4, <4>1, <5>1 DEF Reads
        <5> QED
          BY <5>2
      <4>2. CASE j # k
        BY <2>3, <4>2
      <4> QED
        BY <4>1, <4>2
    <3>2. CASE j = k /\ row'[j] # row[j]
      <4>1. ~UnderWay(r, j)
        BY <2>2, <2>7, <3>2
      <4>2. \A q \in Requests \ {r} : request[q].job = j => Reads(request[q], row'[j])
        BY <4>1 DEF UnderWay, InQueue, Reads
      <4>3. /\ \A i \in DOMAIN queue : queue[i] # j
            /\ \A v \in Workers : worker[v].job # j
        BY <4>1 DEF UnderWay, InQueue
      <4> QED
        BY <2>6, <3>1, <4>2, <4>3
    <3>3. CASE j # k \/ row'[j] = row[j]
      <4>1. row'[j] = row[j]
        BY <2>2, <3>3
      <4>2. Faithful /\ j \in Jobs \ late
        BY <2>5, <2>7
      <4>3. \A q \in Requests \ {r} : request[q].job = j => Reads(request[q], row'[j])
        BY <4>1, <4>2 DEF Faithful, Reads
      <4>4. RowConfirmed(row[j], confirmed[j]) => RowConfirmed(row'[j], confirmed'[j])
        BY <2>5, <4>1 DEF RowConfirmed
      <4>5. /\ \A i \in DOMAIN queue : queue[i] = j => RowConfirmed(row'[j], confirmed'[j])
            /\ \A v \in Workers : worker[v].job = j => Carries(worker[v], row'[j], confirmed'[j])
        BY <2>5, <4>2, <4>4 DEF Faithful, Carries, RowConfirmed
      <4> QED
        BY <2>6, <3>1, <4>3, <4>5
    <3> QED
      BY <3>2, <3>3
  <2> QED
    BY <2>5, <2>7 DEF Faithful
<1>10. ASSUME NEW r \in Requests, NEW force \in BOOLEAN, Refuse(r, force)
      PROVE  Faithful'
  BY <1>10 DEF Refuse, Adopt, Rewritten, Ask, Answered, Idle,
     Done, Current, Typed, RowsTyped, RowType, PlaceType, Existing,
     Executing, Running, Exists, Faithful, RowConfirmed, Reads, Carries,
     UnderWay, InQueue, rows, memory, ghosts
<1>11. ASSUME NEW r \in Requests, BatchJob(r)
      PROVE  Faithful'
  BY <1>11, NextOfIsTodo DEF BatchJob, Validated, Ask, Typed, RowsTyped,
     RowType, PlaceType, Existing, Executing, Running, Exists, Faithful,
     RowConfirmed, Reads, Carries, UnderWay, InQueue, rows, memory, ghosts
<1>12. ASSUME NEW r \in Requests, BatchJobRefused(r)
      PROVE  Faithful'
  BY <1>12, NextOfIsTodo DEF BatchJobRefused, Ask, Answered, Idle,
     Done, Typed, RowsTyped, RowType, PlaceType, Existing, Executing,
     Running, Exists, Faithful, RowConfirmed, Reads, Carries, UnderWay, InQueue,
     rows, memory, ghosts
<1>13. ASSUME NEW r \in Requests, Enqueue(r)
      PROVE  Faithful'
  BY <1>13 DEF Enqueue, Ask, Answered, Idle, Done, Typed, RowsTyped,
     RowType, PlaceType, Existing, Executing, Running, Exists, Faithful,
     RowConfirmed, Reads, Carries, UnderWay, InQueue, rows, memory, ghosts
<1>14. ASSUME NEW r \in Requests, FinishBatch(r)
      PROVE  Faithful'
  BY <1>14 DEF FinishBatch, Ask, Done, Idle, Typed, RowsTyped,
     RowType, PlaceType, Existing, Executing, Running, Exists, Faithful,
     RowConfirmed, Reads, Carries, UnderWay, InQueue, rows, memory, ghosts
<1>15. ASSUME NEW r \in Requests, BeginBatch(r)
      PROVE  Faithful'
  BY <1>15 DEF BeginBatch, Ask, Idle, Planned, Typed, RowsTyped,
     RowType, PlaceType, Existing, Executing, Running, Exists, Faithful,
     RowConfirmed, Reads, Carries, UnderWay, InQueue, rows, memory, ghosts
<1>16. ASSUME NEW r \in Requests, NEW j \in Jobs, BeginPreview(r, j)
      PROVE  Faithful'
  BY <1>16 DEF BeginPreview, Ask, Idle, Typed, RowsTyped, RowType,
     PlaceType, Existing, Executing, Running, Exists, Faithful, RowConfirmed,
     Reads, Carries, UnderWay, InQueue, rows, memory, ghosts
<1>17. ASSUME NEW r \in Requests, NEW j \in Jobs, BeginExecute(r, j)
      PROVE  Faithful'
  BY <1>17 DEF BeginExecute, Validated, Ask, Idle, Typed, RowsTyped,
     RowType, PlaceType, Existing, Executing, Running, Exists, Faithful,
     RowConfirmed, Reads, Carries, UnderWay, InQueue, rows, memory, ghosts
<1>18. ASSUME NEW j \in Jobs, CreatePlan(j)
      PROVE  Faithful'
  <2>1. ~Exists(j) /\ \A k \in Jobs \ {j} : row'[k] = row[k]
    BY <1>18 DEF CreatePlan, Exists, Typed, RowsTyped
  <2>2. UNCHANGED <<request, queue, worker, confirmed, late>>
    BY <1>18 DEF CreatePlan, memory, ghosts
  <2> QED
    BY <2>1, <2>2, FaithfulKept
<1>19. ASSUME NEW j \in Jobs, CancelJob(j)
      PROVE  Faithful'
  BY <1>19 DEF CancelJob, Typed, RowsTyped, RowType, PlaceType, Existing,
     Executing, Running, Exists, Faithful, RowConfirmed, Reads, Carries,
     UnderWay, InQueue, rows, memory, ghosts
<1>20. ASSUME NEW members \in SUBSET Jobs, NEW unplanned \in SUBSET Jobs,
             CreateBatchPlan(members, unplanned)
      PROVE  Faithful'
  <2>1. \A k \in Jobs : row'[k] = row[k] \/ ~Exists(k)
    BY <1>20 DEF CreateBatchPlan, Exists
  <2>2. UNCHANGED <<request, queue, worker, confirmed, late>>
    BY <1>20 DEF CreateBatchPlan, memory
  <2> QED
    BY <2>1, <2>2, FaithfulKept
<1>21. ASSUME CancelBatch
      PROVE  Faithful'
  BY <1>21 DEF CancelBatch, Typed, RowsTyped, RowType, PlaceType, Existing,
     Executing, Running, Exists, Faithful, RowConfirmed, Reads, Carries,
     UnderWay, InQueue, rows, memory, ghosts
<1>22. ASSUME ListBatch
      PROVE  Faithful'
  BY <1>22 DEF ListBatch, BatchOutcome, Typed, RowsTyped, RowType, PlaceType,
     Existing, Executing, Running, Exists, Faithful, RowConfirmed, Reads,
     Carries, UnderWay, InQueue, rows, memory, ghosts
<1>23. ASSUME NEW d \in Databases, Alter(d)
      PROVE  Faithful'
  BY <1>23 DEF Alter, Typed, RowsTyped, RowType, PlaceType, Existing,
     Executing, Running, Exists, Faithful, RowConfirmed, Reads, Carries,
     UnderWay, InQueue, rows, memory, ghosts
<1>24. ASSUME Restart
      PROVE  Faithful'
  BY <1>24 DEF Restart, Idle, Done, Typed, RowsTyped, RowType,
     PlaceType, Existing, Executing, Running, Exists, Faithful, RowConfirmed,
     Reads, Carries, UnderWay, InQueue, rows, memory, ghosts
<1>25. CASE UNCHANGED jobsVars
  BY <1>25 DEF jobsVars, Typed, RowsTyped, RowType, PlaceType, Existing, Executing,
     Running, Exists, Faithful, RowConfirmed, Reads, Carries, UnderWay, InQueue
<1> QED
  BY <1>1, <1>2, <1>3, <1>4, <1>5, <1>6, <1>7, <1>8, <1>9, <1>10, <1>11, <1>12, <1>13,
     <1>14, <1>15, <1>16, <1>17, <1>18, <1>19, <1>20, <1>21, <1>22, <1>23, <1>24, <1>25, <1>26
     DEF JobsNext, Work, Serve, Arrive

LEMMA JobsInvariant == JobsSpec => []JobsInv
<1>1. JobsInv /\ [JobsNext]_jobsVars => JobsInv'
  BY TypedStep, ExistingStep, FaithfulStep DEF JobsInv
<1> QED
  BY JobsBegin, <1>1, PTL DEF JobsSpec

\* The rows of the jobs and of the batch, the queue and the inventory keep their types.
THEOREM JobsTypeCorrect == JobsSpec => []JobsTypeOK
<1>1. ASSUME JobsInv PROVE JobsTypeOK
  <2>1. ASSUME NEW j \in Jobs
        PROVE  /\ row[j].status \in Terminal \cup {"absent", "pending", "running"}
               /\ row[j].sel \in Selections \cup {Nothing} /\ row[j].cancel \in BOOLEAN
               /\ row[j].version \in Nat
    <3>1. row[j] \in RowType
      BY <1>1 DEF JobsInv, Typed, RowsTyped
    <3> QED
      BY <3>1, JobsAssumption DEF RowType, Sels
  <2>2. batch.status \in {"absent", "pending", "running", "done", "failed", "canceled"}
    BY <1>1 DEF JobsInv, Typed, BatchType
  <2> QED
    BY <1>1, <2>1, <2>2 DEF JobsInv, Typed, JobsTypeOK
<1> QED
  BY <1>1, JobsInvariant, PTL

(* ConvertsConfirmed for every set of jobs and databases, any plans, and   *)
(* any number of requests, workers and restarts: a worker converts on a    *)
(* plan an execute confirmed, unless the row was rewritten meanwhile.      *)
THEOREM ConvertsOnlyConfirmed == JobsSpec => ConvertsConfirmed
<1>1. ASSUME JobsInv, [JobsNext]_jobsVars PROVE SetOutConfirmed
  <2> SUFFICES ASSUME NEW v \in Workers, worker[v].at = "verify", worker'[v].at = "convert"
               PROVE  worker[v].job \in late
                      \/ Plan[worker[v].sel][Current(worker[v].job)] \in confirmed[worker[v].job]
    BY DEF SetOutConfirmed
  <2>1. worker \in [Workers -> PlaceType] /\ worker' # worker
    BY <1>1 DEF JobsInv, Typed
  <2>2. PICK u \in Workers : Work(u) \/ EndsUnwritten(u) \/ Restart
    BY <1>1, <2>1 DEF JobsNext, jobsVars, Serve, Arrive, rows, memory,
       WritePreview, Accept, Refuse, BatchJob, BatchJobRefused, Enqueue, FinishBatch,
       BeginBatch, BeginPreview, BeginExecute, CreatePlan, CancelJob, CreateBatchPlan,
       CancelBatch, ListBatch, Alter, ClaimFails
  <2>3. u = v /\ VerifyFingerprint(v)
    BY <2>1, <2>2 DEF Work, Claim, Load, EndsUnwritten, Guard, VerifyFingerprint, FailDrifted, Finish,
       Restart, Stand, Move, Idle, PlaceType
  <2>4. worker[v].version = Current(worker[v].job)
    BY <2>3 DEF VerifyFingerprint
  <2>5. worker[v].job \in Jobs
    BY <1>1 DEF JobsInv, Existing, Idle, Exists
  <2> QED
    BY <1>1, <2>4, <2>5 DEF JobsInv, Faithful, Carries, RowConfirmed
<1> QED
  BY <1>1, JobsInvariant, PTL DEF JobsSpec, ConvertsConfirmed

-----------------------------------------------------------------------------
(* What an execution enqueued: such a job exists, and as long as it is     *)
(* pending, and no restart has lost the queue, it is in it.                *)

Enqueued ==
  /\ EnqueuedWaits /\ crashes \in Nat
  /\ \A j \in Jobs : confirmed[j] # {} => Exists(j)

LEMMA EnqueuedKept ==
  ASSUME Enqueued, UNCHANGED <<queue, confirmed, crashes>>, refused \subseteq refused',
         \A k \in Jobs : Exists(k) => /\ row'[k].status # "absent"
                                      /\ row'[k].status = "pending" => row[k].status = "pending"
  PROVE  Enqueued'
  BY DEF Enqueued, EnqueuedWaits, InQueue, Exists

\* taking the head out leaves the others in the queue
LEMMA RestWaits ==
  ASSUME queue \in Seq(Jobs), queue # <<>>, queue' = Tail(queue),
         NEW j \in Jobs, j # Head(queue), InQueue(j)
  PROVE  InQueue(j)'
<1>1. PICK i \in DOMAIN queue : queue[i] = j
  BY DEF InQueue
<1>2. i \in 2..Len(queue) /\ i - 1 \in 1..Len(queue') /\ queue'[i - 1] = queue[i]
  BY <1>1
<1>3. i - 1 \in DOMAIN queue'
  BY <1>2
<1> QED
  BY <1>1, <1>2, <1>3 DEF InQueue

LEMMA EnqueuedStep ==
  ASSUME Typed, Existing, Enqueued, [JobsNext]_jobsVars
  PROVE  Enqueued'
<1>1. ASSUME NEW w1 \in Workers, Claim(w1) PROVE Enqueued'
  <2> DEFINE k == Head(queue)
  <2>1. queue \in Seq(Jobs) /\ queue # <<>> /\ queue' = Tail(queue) /\ k \in Jobs /\ k = queue[1]
    BY <1>1 DEF Claim, Typed
  <2>2. UNCHANGED <<confirmed, crashes, refused>>
    BY <1>1 DEF Claim, ghosts
  <2>3. /\ row'[k].status # "pending"
        /\ row'[k].status = "absent" => row[k].status = "absent"
        /\ \A j \in Jobs \ {k} : row'[j] = row[j]
    BY <1>1, <2>1 DEF Claim, Claimable, SetStatus, Typed, RowsTyped, RowType
  <2>4. ASSUME NEW j \in Jobs, j # k, InQueue(j) PROVE InQueue(j)'
    BY <2>1, <2>4, RestWaits DEF k
  <2> HIDE DEF k
  <2> QED
    BY <2>2, <2>3, <2>4 DEF Enqueued, EnqueuedWaits, Exists
<1>2. ASSUME NEW w1 \in Workers, Load(w1) \/ EndsUnwritten(w1) \/ Guard(w1) \/ VerifyFingerprint(w1)
      PROVE  Enqueued'
  BY <1>2, EnqueuedKept DEF Load, EndsUnwritten, Guard, VerifyFingerprint, rows, ghosts, Exists
<1>3. ASSUME NEW w1 \in Workers,
             FailDrifted(w1) \/ \E status \in {"succeeded", "failed", "canceled"} : Finish(w1, status)
      PROVE  Enqueued'
  <2>1. PICK status \in {"succeeded", "failed", "canceled"} : SetStatus(worker[w1].job, status)
    BY <1>3 DEF FailDrifted, Finish
  <2>2. \A k \in Jobs : row'[k].status \in {row[k].status, status}
    BY <2>1, StatusOnly DEF SetStatus
  <2>3. UNCHANGED <<queue, confirmed, crashes>> /\ refused \subseteq refused'
    BY <1>3 DEF FailDrifted, Finish, ghosts
  <2> QED
    BY <2>1, <2>2, <2>3, EnqueuedKept DEF Exists
<1>4. ASSUME NEW r \in Requests, NEW s \in Selections, NEW force \in BOOLEAN, WritePreview(r, s, force)
      PROVE  Enqueued'
  <2>1. \A k \in Jobs : row'[k].status = row[k].status
    BY <1>4 DEF WritePreview, Typed, RowsTyped, RowType
  <2>2. UNCHANGED <<queue, confirmed, crashes>> /\ refused \subseteq refused'
    BY <1>4 DEF WritePreview
  <2> QED
    BY <2>1, <2>2, EnqueuedKept DEF Exists
<1>5. ASSUME NEW r \in Requests, NEW force \in BOOLEAN, Accept(r, force) \/ Refuse(r, force)
      PROVE  Enqueued'
  <2>1. Adopt(r, force) /\ UNCHANGED <<queue, confirmed, crashes>> /\ refused \subseteq refused'
    BY <1>5 DEF Accept, Refuse
  <2>2. \A k \in Jobs : row'[k].status = row[k].status
    BY <2>1, AdoptOnly
  <2> QED
    BY <2>1, <2>2, EnqueuedKept DEF Exists
<1>6. ASSUME NEW r \in Requests, Enqueue(r) PROVE Enqueued'
  <2>1. PICK k : k = request[r].job /\ Exists(k)
    BY <1>6 DEF Enqueue, Existing, Executing
  <2>2. /\ queue \in Seq(Jobs) /\ k \in Jobs /\ queue' = Append(queue, k)
        /\ UNCHANGED <<row, crashes, refused>>
        /\ \A j \in Jobs \ {k} : confirmed'[j] = confirmed[j]
    BY <1>6, <2>1 DEF Enqueue, Typed, Exists, rows
  <2>3. InQueue(k)'
    <3>1. Len(queue) + 1 \in DOMAIN queue' /\ queue'[Len(queue) + 1] = k
      BY <2>2
    <3> QED
      BY <3>1 DEF InQueue
  <2>4. ASSUME NEW j \in Jobs, InQueue(j) PROVE InQueue(j)'
    <3>1. PICK i \in DOMAIN queue : queue[i] = j
      BY <2>4 DEF InQueue
    <3>2. i \in DOMAIN queue' /\ queue'[i] = j
      BY <2>2, <3>1
    <3> QED
      BY <3>2 DEF InQueue
  <2> QED
    BY <2>1, <2>2, <2>3, <2>4 DEF Enqueued, EnqueuedWaits, Exists
<1>7. ASSUME NEW r \in Requests, BatchJob(r) \/ BatchJobRefused(r) \/ FinishBatch(r) \/ Arrive(r)
      PROVE  Enqueued'
  <2>1. UNCHANGED <<row, queue, confirmed, crashes>> /\ refused \subseteq refused'
    BY <1>7 DEF BatchJob, BatchJobRefused, FinishBatch, Arrive, BeginBatch, BeginPreview,
       BeginExecute, rows, ghosts
  <2> QED
    BY <2>1, EnqueuedKept DEF Exists
<1>8. ASSUME NEW j \in Jobs, CreatePlan(j) \/ CancelJob(j) PROVE Enqueued'
  <2>1. \A k \in Jobs : Exists(k) => row'[k].status = row[k].status
    BY <1>8 DEF CreatePlan, CancelJob, Typed, RowsTyped, RowType, Exists
  <2>2. UNCHANGED <<queue, confirmed, crashes>> /\ refused \subseteq refused'
    BY <1>8 DEF CreatePlan, CancelJob, memory, ghosts
  <2> QED
    BY <2>1, <2>2, EnqueuedKept DEF Exists
<1>9. ASSUME NEW members \in SUBSET Jobs, NEW unplanned \in SUBSET Jobs,
             CreateBatchPlan(members, unplanned)
      PROVE  Enqueued'
  <2>1. \A k \in Jobs : row'[k] = row[k] \/ ~Exists(k)
    BY <1>9 DEF CreateBatchPlan, Exists
  <2>2. UNCHANGED <<queue, confirmed, crashes>> /\ refused \subseteq refused'
    BY <1>9 DEF CreateBatchPlan, memory
  <2> QED
    BY <2>1, <2>2, EnqueuedKept DEF Exists
<1>10. ASSUME CancelBatch PROVE Enqueued'
  <2>1. \A k \in Jobs : row'[k].status = row[k].status
    BY <1>10 DEF CancelBatch, Typed, RowsTyped, RowType
  <2>2. UNCHANGED <<queue, confirmed, crashes>> /\ refused \subseteq refused'
    BY <1>10 DEF CancelBatch, memory, ghosts
  <2> QED
    BY <2>1, <2>2, EnqueuedKept DEF Exists
<1>11. ASSUME ListBatch \/ \E d \in Databases : Alter(d) PROVE Enqueued'
  BY <1>11, EnqueuedKept DEF ListBatch, Alter, rows, memory, ghosts, Exists
<1>12. ASSUME Restart PROVE Enqueued'
  <2>1. crashes' = crashes + 1 /\ UNCHANGED <<confirmed, refused>>
    BY <1>12 DEF Restart, ghosts
  <2>2. \A k \in Jobs : Exists(k) => row'[k].status # "absent"
    BY <1>12 DEF Restart, Exists, Typed, RowsTyped, RowType
  <2> QED
    BY <2>1, <2>2 DEF Enqueued, EnqueuedWaits, Exists
<1>13. ASSUME NEW w1 \in Workers, ClaimFails(w1) PROVE Enqueued'
  <2>1. queue \in Seq(Jobs) /\ queue # <<>> /\ queue' = Tail(queue)
    BY <1>13 DEF ClaimFails, Typed
  <2>2. UNCHANGED <<row, confirmed, crashes>> /\ refused' = refused \cup {Head(queue)}
    BY <1>13 DEF ClaimFails, rows
  <2>3. \A j \in Jobs \ refused' : InQueue(j) => InQueue(j)'
    BY <2>1, <2>2, RestWaits
  <2> QED
    BY <2>2, <2>3 DEF Enqueued, EnqueuedWaits, Exists
<1>14. CASE UNCHANGED jobsVars
  BY <1>14, EnqueuedKept DEF jobsVars, Exists
<1> QED
  BY <1>1, <1>2, <1>3, <1>4, <1>5, <1>6, <1>7, <1>8, <1>9, <1>10, <1>11, <1>12, <1>13, <1>14
     DEF JobsNext, Work, Serve

(* run_job's refused claim: a job somebody enqueued and that is still      *)
(* pending is in the queue, however cancellations, executions and claims   *)
(* cross, until a restart or a claim that fails loses it.                  *)
THEOREM EnqueuedIsKept == JobsSpec => []EnqueuedWaits
<1>1. JobsInit => Enqueued
  BY DEF JobsInit, Enqueued, EnqueuedWaits
<1>2. JobsInv /\ Enqueued /\ [JobsNext]_jobsVars => Enqueued'
  BY EnqueuedStep DEF JobsInv
<1>3. Enqueued => EnqueuedWaits
  BY DEF Enqueued
<1> QED
  BY <1>1, <1>2, <1>3, JobsInvariant, PTL DEF JobsSpec

=============================================================================
