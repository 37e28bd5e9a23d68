----------------------- MODULE BlueprintEditingProofs -----------------------
(***************************************************************************)
(* BlueprintEditing, proved for every set of databases and requests and    *)
(* every bound: what each database has of the blueprint is the versions up *)
(* to the number its pointer stands for, through renumberings and renames  *)
(* that fail at any call; and an edit traces every database whose SQL it   *)
(* changes under its feet.                                                 *)
(***************************************************************************)
EXTENDS BlueprintEditing, FiniteSetTheorems, WellFoundedInduction, TLAPS

-----------------------------------------------------------------------------
(* The inductive invariant.                                                *)

\* A request is at a place of its operation, with what that place needs.
Shape(s) ==
  /\ s.op = "none" => s.at \in {"new", "over"}
  /\ s.op \in Applies => s.at \in {"loaded", "record"} /\ s.d \in DBs
  /\ s.op = "edit" => s.at = "edit" /\ s.number # 0
  /\ s.op \in Moves => s.at \in {"move", "undo"}
  /\ s.op = "delete" =>
       /\ s.number # 0 /\ \A n \in s.later : n > s.number
       /\ \A d \in s.todo \cup s.done : s.from[d] # 0
  /\ s.op = "rename" => s.to # s.slug
  /\ s.at = "record" => s.m \in Migs
  /\ s.todo \cap s.done = {}
  /\ s.op \notin Moves => s.done = {}
  /\ s.at # "undo" => s.left = {}
Types == TypeOK /\ \A h \in Handlers : Shape(handler[h])

Has(turns, m) == \E i \in DOMAIN turns : turns[i] = m

\* An id never used is nowhere yet, and no two versions have one number.
Fresh ==
  /\ \A m \in Migs : sealed[m][1] = 0 =>
       /\ version[m] = 0 /\ text[m] = 0
       /\ \A d \in DBs : ~Has(schema[d], m)
       /\ \A h \in Handlers : handler[h].chain[m] = 0
  /\ \A m, k \in Migs : version[m] # 0 /\ version[m] = version[k] => m = k
  /\ \A d \in DBs : \A r \in ran[d] : Has(schema[d], r[1])

\* Deletes and renames that overlap each other, or an apply, are excused.
Alone ==
  /\ \A h, k \in Handlers : Moving(h) /\ Moving(k) /\ h # k => excused = DBs
  /\ \A h, k \in Handlers : Moving(h) /\ handler[k].op \in Applies => handler[k].d \in excused

\* A database that nothing excuses and no request left moved.
Sure(d) == d \notin excused \cup named /\ \A h \in Handlers : d \notin handler[h].left

\* What a database had by turn is, of the versions listed, those up to a number, in order.
Fits(listed, turns, p) ==
  /\ p = 0 \/ \E m \in Migs : listed[m] = p
  /\ \A m \in Migs : listed[m] # 0 => (Has(turns, m) <=> listed[m] <= p)
  /\ \A i, j \in DOMAIN turns :
       i < j /\ listed[turns[i]] # 0 /\ listed[turns[j]] # 0 => listed[turns[i]] < listed[turns[j]]

Other == 1 - slug
Recording(d) == \E h \in Handlers : handler[h].at = "record" /\ handler[h].d = d
Still(d) == \A h \in Handlers : d \notin handler[h].done

\* Where a database is when no request holds it moved ...
Resting(d) ==
  /\ Fits(version, schema[d], Pointer(d)) /\ table[d][Other] = 0
  /\ ~Recording(d) => cached[d] = Pointer(d)
\* ... and when one does.
Stamped(s, d) ==
  /\ Fits(version, schema[d], s.from[d]) /\ Pointer(d) = s.from[d] - 1
  /\ table[d][Other] = 0 /\ cached[d] = s.from[d]
Renamed(s, d) ==
  /\ Fits(version, schema[d], table[d][s.to]) /\ Pointer(d) = 0 /\ cached[d] = table[d][s.to]
Place(d) ==
  /\ Still(d) => Resting(d)
  /\ \A h \in Handlers : d \in handler[h].done =>
       IF handler[h].op = "delete" THEN Stamped(handler[h], d) ELSE Renamed(handler[h], d)
Places == \A d \in DBs : Sure(d) => Place(d)

\* The plan of a delete or rename under way still fits the blueprint.
DeletePlan(s, d) ==
  /\ d \in s.todo => Pointer(d) = s.from[d]
  /\ s.from[d] = 0 => Pointer(d) < s.number
  /\ d \in s.todo \cup s.done =>
       /\ s.from[d] > s.number /\ s.from[d] - 1 > 0
       /\ \E m \in Migs : version[m] = s.from[d]
       /\ \E m \in Migs : version[m] = s.from[d] - 1
       /\ \A m \in Migs : version[m] > s.number /\ version[m] \notin s.later =>
            version[m] > s.from[d]
  /\ s.from[d] # 0 /\ s.at = "move" => d \in s.todo \cup s.done
RenamePlan(s, d) == s.at = "move" /\ d \notin s.todo \cup s.done => Pointer(d) = 0
PlanFits(s, d) ==
  /\ s.slug = slug
  /\ s.op = "delete" => DeletePlan(s, d)
  /\ s.op = "rename" => RenamePlan(s, d)
Plans == \A d \in DBs, h \in Handlers : Sure(d) /\ Moving(h) => PlanFits(handler[h], d)

\* What an apply or a rollback loaded still holds of its database.
ChainFits(chain, listed) ==
  \A m \in Migs :
    IF chain[m] # 0 THEN listed[m] = chain[m]
    ELSE listed[m] # 0 => \A k \in Migs : listed[m] > chain[k]
Loads ==
  \A h \in Handlers : handler[h].op \in Applies /\ handler[h].d \notin excused =>
    /\ handler[h].slug = slug
    /\ handler[h].at = "record" => version[handler[h].m] # 0
    /\ handler[h].at = "loaded" => ChainFits(handler[h].chain, version)

\* What ran is in the history, or about to be.
ToBook(d, m) ==
  \E h \in Handlers : LET s == handler[h] IN
    s.at = "record" /\ s.op = "up" /\ s.d = d /\ s.m = m
Booked ==
  \A d \in DBs \ excused : \A r \in ran[d] :
    version[r[1]] # 0 => r[1] \in history[d] \/ ToBook(d, r[1])

\* An edit traced everybody before it writes, and what was loaded is current.
Edits ==
  /\ \A h \in Handlers, d \in DBs \ blurred : Editing(h) =>
       /\ ~Busy(d)
       /\ \A r \in ran[d] : r[1] = handler[h].m /\ version[r[1]] # 0 => <<r[1], d>> \in diverged
  /\ \A h \in Handlers : handler[h].at = "loaded" /\ handler[h].d \notin blurred =>
       handler[h].sql = text

Inv == Types /\ Fresh /\ Alone /\ Places /\ Plans /\ Loads /\ Booked /\ Edits /\ EditsTraced

-----------------------------------------------------------------------------
(* Numbers.                                                                *)

\* A set of numbers has a least one; a finite one has a greatest one.
LEMMA MinIsLeast ==
  ASSUME NEW S \in SUBSET Nat, S # {}
  PROVE  Min(S) \in S /\ \A x \in S : Min(S) <= x
<1>1. PICK m \in S : \A j \in S : <<j, m>> \notin OpToRel(<, Nat)
  BY NatLessThanWellFounded, WFMin
<1>2. \A j \in S : ~(j < m)
  BY <1>1 DEF OpToRel
<1>3. \E x \in S : \A y \in S : x <= y
  BY <1>2
<1> QED
  BY <1>3 DEF Min

LEMMA MaxIsGreatest ==
  ASSUME NEW S \in SUBSET Nat, IsFiniteSet(S), S # {}
  PROVE  Max(S) \in S /\ \A x \in S : x <= Max(S)
<1> DEFINE over(x) == {k \in S : k > x}
           overs == {over(x) : x \in S}
<1>1. IsWellFoundedOn(StrictSubsetOrdering(S), SUBSET S)
  BY FS_StrictSubsetOrderingWellFounded, FS_FiniteSubsetsOfFinite
<1>2. overs \in SUBSET SUBSET S /\ overs # {}
  OBVIOUS
<1>3. PICK least \in overs : \A other \in overs : <<other, least>> \notin StrictSubsetOrdering(S)
  <2> HIDE DEF overs
  <2> QED BY <1>1, <1>2, WFMin
<1>4. PICK m \in S : least = over(m)
  BY DEF overs
<1>5. ASSUME NEW y \in S, y > m PROVE FALSE
  <2>0. y \in Nat /\ m \in Nat /\ \A z \in S : z \in Nat /\ (z > y => z > m)
    BY <1>5
  <2>1. over(y) \subseteq over(m) /\ y \in over(m) /\ y \notin over(y)
    <3> HIDE DEF overs
    <3>1. y \in over(m) /\ ~(y > y)
      BY <1>5, <2>0
    <3>2. y \notin over(y)
      BY <3>1
    <3>3. \A k \in over(y) : k \in S /\ k > y
      OBVIOUS
    <3>4. \A k \in S : k > m => k \in over(m)
      OBVIOUS
    <3>5. over(y) \subseteq over(m)
      BY <2>0, <3>3, <3>4
    <3> QED
      BY <3>1, <3>2, <3>5
  <2>2. over(y) \in overs
    BY DEF overs
  <2>3. over(y) \in SUBSET S /\ least \in SUBSET S /\ over(y) \subseteq least /\ over(y) # least
    BY <1>4, <2>1
  <2> HIDE DEF over, overs
  <2>4. <<over(y), least>> \in StrictSubsetOrdering(S)
    BY <2>3 DEF StrictSubsetOrdering
  <2> QED
    BY <1>3, <2>2, <2>4
<1>6. \A y \in S : m >= y
  BY <1>5
<1>7. \E x \in S : \A y \in S : x >= y
  BY <1>6
<1>8. Max(S) \in S /\ \A y \in S : Max(S) >= y
  BY <1>7 DEF Max
<1> QED
  BY <1>8

LEMMA Naturals ==
  /\ MaxMigs \in Nat /\ MaxVersion \in Nat /\ MaxFaults \in Nat /\ Top \in Nat
  /\ Top <= MaxMigs /\ Top <= MaxVersion
  /\ Migs \subseteq Nat /\ 0 \notin Migs /\ Numbers \subseteq Nat /\ 0 \in Numbers
  /\ Slugs = {0, 1} /\ Texts = {0, 1} /\ DBs \subseteq Nat /\ IsFiniteSet(DBs)
  BY BlueprintAssumption DEF Migs, Numbers, Slugs, Texts

\* The first and the last of some databases are among them.
LEMMA FirstAndLast ==
  ASSUME NEW S \in SUBSET DBs, S # {}
  PROVE  Min(S) \in S /\ Max(S) \in S
<1>1. S \in SUBSET Nat /\ IsFiniteSet(S)
  BY Naturals, FS_Subset
<1> QED
  BY <1>1, MinIsLeast, MaxIsGreatest

-----------------------------------------------------------------------------
(* What a chain gives an apply and a rollback.                             *)

LEMMA NextUp ==
  ASSUME NEW chain \in [Migs -> Numbers], NEW p \in Numbers, Above(chain, p) # {}
  PROVE  LET next == Min(Above(chain, p)) IN
         /\ next \in Numbers /\ next > p
         /\ Holder(chain, next) \in Migs /\ chain[Holder(chain, next)] = next
         /\ \A k \in Migs : chain[k] > p => chain[k] >= next
<1> DEFINE next == Min(Above(chain, p))
<1>1. Above(chain, p) \in SUBSET Nat
  BY Naturals DEF Above
<1>2. next \in Above(chain, p) /\ \A x \in Above(chain, p) : next <= x
  BY <1>1, MinIsLeast
<1> HIDE DEF next
<1>3. next \in Numbers /\ next > p /\ \E m \in Migs : chain[m] = next
  BY <1>2, Naturals DEF Above, Numbers
<1>4. Holder(chain, next) \in Migs /\ chain[Holder(chain, next)] = next
  BY <1>3 DEF Holder
<1>5. ASSUME NEW k \in Migs, chain[k] > p PROVE chain[k] >= next
  <2>1. chain[k] \in Above(chain, p)
    BY <1>5, Naturals DEF Above, Numbers
  <2> QED
    BY <1>1, <1>2, <2>1
<1> QED
  BY <1>3, <1>4, <1>5 DEF next

LEMMA NextDown ==
  ASSUME NEW chain \in [Migs -> Numbers], NEW p \in Numbers, p # 0, Resolves(p, chain)
  PROVE  LET next == Max(Below(chain, p) \cup {0}) IN
         /\ next \in Numbers /\ next < p
         /\ next = 0 \/ \E k \in Migs : chain[k] = next
         /\ Holder(chain, p) \in Migs /\ chain[Holder(chain, p)] = p
         /\ \A k \in Migs : chain[k] < p => chain[k] <= next
<1> DEFINE S == Below(chain, p) \cup {0}
           next == Max(S)
<1>1. S \in SUBSET Nat /\ IsFiniteSet(S) /\ S # {} /\ \A x \in S : x < p
  <2>1. S \subseteq 0..(p - 1)
    BY Naturals DEF Below
  <2>2. IsFiniteSet(0..(p - 1))
    BY Naturals, FS_Interval
  <2> QED
    BY <2>1, <2>2, FS_Subset, Naturals
<1>2. next \in S /\ \A x \in S : x <= next
  <2> HIDE DEF S
  <2> QED BY <1>1, MaxIsGreatest
<1>3. \A k \in Migs : chain[k] < p => chain[k] \in S
  BY Naturals DEF Below, Numbers
<1>4. \A x \in S : x = 0 \/ \E k \in Migs : chain[k] = x
  BY DEF Below
<1>5. Holder(chain, p) \in Migs /\ chain[Holder(chain, p)] = p
  BY DEF Holder, Resolves
<1> HIDE DEF S
<1>6. next < p /\ next \in Nat
  BY <1>1, <1>2
<1> HIDE DEF next
<1>7. next \in Numbers
  BY <1>6, Naturals DEF Numbers
<1>8. next = 0 \/ \E k \in Migs : chain[k] = next
  BY <1>2, <1>4
<1>9. \A k \in Migs : chain[k] < p => chain[k] <= next
  BY <1>2, <1>3
<1> QED
  BY <1>5, <1>6, <1>7, <1>8, <1>9 DEF next, S

-----------------------------------------------------------------------------
(* What a database has of the versions listed.                             *)

\* The last of the listed versions it had has the number it stands at.
LEMMA FitsLast ==
  ASSUME NEW listed \in [Migs -> Numbers], NEW turns, NEW p \in Numbers,
         DOMAIN turns \subseteq Nat, IsFiniteSet(DOMAIN turns),
         \A i \in DOMAIN turns : turns[i] \in Migs,
         Fits(listed, turns, p),
         NEW kept, kept = {i \in DOMAIN turns : listed[turns[i]] # 0}
  PROVE  (IF kept = {} THEN 0 ELSE listed[turns[Max(kept)]]) = p
<1>1. CASE kept = {}
  <2>1. ASSUME NEW m \in Migs, listed[m] = p, p # 0 PROVE FALSE
    <3>1. Has(turns, m)
      BY <2>1 DEF Fits, Numbers
    <3> QED
      BY <1>1, <2>1, <3>1 DEF Has
  <2> QED
    BY <1>1, <2>1 DEF Fits
<1>2. CASE kept # {}
  <2> DEFINE last == Max(kept)
  <2>1. kept \in SUBSET Nat /\ IsFiniteSet(kept)
    BY FS_Subset
  <2>2. last \in kept /\ \A i \in kept : i <= last
    BY <1>2, <2>1, MaxIsGreatest
  <2> HIDE DEF last
  <2>3. last \in DOMAIN turns /\ turns[last] \in Migs /\ listed[turns[last]] # 0
    BY <2>2
  <2>4. listed[turns[last]] <= p
    BY <2>3 DEF Fits, Has
  <2>5. p # 0
    <3>1. p \in Nat /\ listed[turns[last]] \in Nat
      BY <2>3, Naturals
    <3> QED
      BY <2>3, <2>4, <3>1
  <2>6. PICK m \in Migs : listed[m] = p
    BY <2>5 DEF Fits
  <2>7. PICK i \in DOMAIN turns : turns[i] = m
    <3>1. p \in Nat
      BY Naturals
    <3>2. listed[m] # 0 /\ listed[m] <= p
      BY <2>5, <2>6, <3>1
    <3>3. Has(turns, m)
      BY <3>2 DEF Fits
    <3> QED
      BY <3>3 DEF Has
  <2>8. i \in kept /\ i <= last /\ i \in Nat /\ last \in Nat
    BY <2>1, <2>2, <2>5, <2>6, <2>7
  <2>9. i = last \/ listed[turns[i]] < listed[turns[last]]
    BY <2>3, <2>5, <2>6, <2>7, <2>8 DEF Fits
  <2>10. listed[turns[last]] = p
    <3>1. p \in Nat /\ listed[turns[last]] \in Nat
      BY <2>3, Naturals
    <3>2. listed[turns[i]] = p
      BY <2>6, <2>7
    <3> QED
      BY <2>4, <2>9, <3>1, <3>2
  <2> QED
    BY <1>2, <2>10 DEF last
<1> QED
  BY <1>1, <1>2

\* A new version above it.
LEMMA FitsNew ==
  ASSUME NEW listed \in [Migs -> Numbers], NEW turns, NEW p \in Numbers,
         \A i \in DOMAIN turns : turns[i] \in Migs,
         Fits(listed, turns, p),
         NEW m \in Migs, listed[m] = 0, ~Has(turns, m), NEW v \in Numbers, v > p
  PROVE  Fits([listed EXCEPT ![m] = v], turns, p)
<1> DEFINE new == [listed EXCEPT ![m] = v]
<1>1. new[m] = v /\ \A k \in Migs \ {m} : new[k] = listed[k]
  OBVIOUS
<1>2. \A i \in DOMAIN turns : turns[i] \in Migs \ {m}
  BY DEF Has
<1> HIDE DEF new
<1>3. p = 0 \/ \E k \in Migs : new[k] = p
  BY <1>1 DEF Fits
<1>4. ASSUME NEW k \in Migs, new[k] # 0 PROVE Has(turns, k) <=> new[k] <= p
  BY <1>1, <1>4, Naturals DEF Fits, Numbers
<1>5. \A i, j \in DOMAIN turns :
        i < j /\ new[turns[i]] # 0 /\ new[turns[j]] # 0 => new[turns[i]] < new[turns[j]]
  BY <1>1, <1>2 DEF Fits
<1>6. Fits(new, turns, p)
  BY <1>3, <1>4, <1>5 DEF Fits
<1> QED
  BY <1>6 DEF new

\* The next version of a chain applied.
LEMMA FitsUp ==
  ASSUME NEW listed \in [Migs -> Numbers], NEW turns, NEW p \in Numbers,
         NEW chain \in [Migs -> Numbers], NEW m \in Migs, NEW next \in Numbers, NEW n \in Nat,
         DOMAIN turns \subseteq Nat, \A i \in DOMAIN turns : turns[i] \in Migs /\ i < n,
         Fits(listed, turns, p), ChainFits(chain, listed),
         \A k, l \in Migs : listed[k] # 0 /\ listed[k] = listed[l] => k = l,
         chain[m] = next, next > p, \A k \in Migs : chain[k] > p => chain[k] >= next,
         NEW more, DOMAIN more = DOMAIN turns \cup {n}, more[n] = m,
         \A i \in DOMAIN turns : more[i] = turns[i]
  PROVE  Fits(listed, more, next)
<1>0. n \notin DOMAIN turns
  BY Naturals
<1>1. /\ DOMAIN more = DOMAIN turns \cup {n} /\ more[n] = m
      /\ \A i \in DOMAIN turns : more[i] = turns[i] /\ i # n
  BY <1>0
<1>2. \A k \in Migs : Has(more, k) <=> Has(turns, k) \/ k = m
  BY <1>1 DEF Has
<1>3. next # 0 /\ listed[m] = next
  BY Naturals DEF ChainFits, Numbers
<1>4. ASSUME NEW k \in Migs, listed[k] # 0 PROVE listed[k] <= next <=> listed[k] <= p \/ k = m
  <2>1. listed[k] \in Nat /\ chain[k] \in Nat /\ p \in Nat /\ next \in Nat
    BY Naturals
  <2>2. CASE chain[k] # 0
    <3>1. listed[k] = chain[k]
      BY <2>2 DEF ChainFits
    <3> QED
      BY <1>3, <1>4, <2>1, <3>1
  <2>3. CASE chain[k] = 0
    <3>1. listed[k] > next
      BY <1>4, <2>3 DEF ChainFits
    <3> QED
      BY <1>3, <2>1, <3>1
  <2> QED
    BY <2>2, <2>3
<1>5. ASSUME NEW i \in DOMAIN more, NEW j \in DOMAIN more,
             i < j, listed[more[i]] # 0, listed[more[j]] # 0
      PROVE  listed[more[i]] < listed[more[j]]
  <2>1. i \in DOMAIN turns
    BY <1>1, <1>5
  <2>2. CASE j \in DOMAIN turns
    BY <1>1, <1>5, <2>1, <2>2 DEF Fits
  <2>3. CASE j = n
    <3>1. Has(turns, turns[i]) /\ turns[i] \in Migs /\ listed[turns[i]] # 0
      BY <1>1, <1>5, <2>1 DEF Has
    <3>2. listed[turns[i]] <= p /\ listed[turns[i]] \in Nat /\ p \in Nat /\ next \in Nat
      BY <3>1, Naturals DEF Fits
    <3> QED
      BY <1>1, <1>3, <2>1, <2>3, <3>2
  <2> QED
    BY <1>1, <2>2, <2>3
<1>6. \A k \in Migs : listed[k] # 0 => (Has(more, k) <=> listed[k] <= next)
  BY <1>2, <1>3, <1>4 DEF Fits
<1> QED
  BY <1>3, <1>5, <1>6 DEF Fits

\* The version a database stands at rolled back.
LEMMA FitsDown ==
  ASSUME NEW listed \in [Migs -> Numbers], NEW turns, NEW p \in Numbers,
         NEW chain \in [Migs -> Numbers], NEW m \in Migs, NEW next \in Numbers,
         DOMAIN turns \subseteq Nat, \A i \in DOMAIN turns : turns[i] \in Migs,
         Fits(listed, turns, p), ChainFits(chain, listed),
         \A k, l \in Migs : listed[k] # 0 /\ listed[k] = listed[l] => k = l,
         chain[m] = p, p # 0, next < p, next = 0 \/ \E k \in Migs : chain[k] = next,
         \A k \in Migs : chain[k] < p => chain[k] <= next,
         NEW less, less = [i \in {j \in DOMAIN turns : turns[j] # m} |-> turns[i]]
  PROVE  Fits(listed, less, next)
<1>1. /\ DOMAIN less \subseteq DOMAIN turns
      /\ \A i \in DOMAIN less : less[i] = turns[i]
      /\ \A i \in DOMAIN turns : i \in DOMAIN less <=> turns[i] # m
  OBVIOUS
<1>2. \A k \in Migs : Has(less, k) <=> Has(turns, k) /\ k # m
  BY <1>1 DEF Has
<1>3. listed[m] = p
  BY DEF ChainFits
<1>4. next = 0 \/ \E k \in Migs : listed[k] = next
  BY DEF ChainFits
<1>5. ASSUME NEW k \in Migs, listed[k] # 0 PROVE listed[k] <= next <=> listed[k] <= p /\ k # m
  <2>1. listed[k] \in Nat /\ chain[k] \in Nat /\ p \in Nat /\ next \in Nat
    BY Naturals
  <2>2. CASE chain[k] # 0
    <3>1. listed[k] = chain[k] /\ (chain[k] = p => k = m)
      BY <1>3, <1>5, <2>2 DEF ChainFits
    <3> QED
      BY <1>3, <1>5, <2>1, <3>1
  <2>3. CASE chain[k] = 0
    <3>1. listed[k] > p
      BY <1>5, <2>3 DEF ChainFits
    <3> QED
      BY <2>1, <3>1
  <2> QED
    BY <2>2, <2>3
<1>6. \A i, j \in DOMAIN less :
        i < j /\ listed[less[i]] # 0 /\ listed[less[j]] # 0 => listed[less[i]] < listed[less[j]]
  BY <1>1 DEF Fits
<1>7. \A k \in Migs : listed[k] # 0 => (Has(less, k) <=> listed[k] <= next)
  BY <1>2, <1>5 DEF Fits
<1> QED
  BY <1>4, <1>6, <1>7 DEF Fits

\* The numbers after a delete.
LEMMA FitsRenumbered ==
  ASSUME NEW listed \in [Migs -> Numbers], NEW turns, NEW p \in Numbers,
         \A i \in DOMAIN turns : turns[i] \in Migs,
         Fits(listed, turns, p), NEW n \in Numbers, n # 0, NEW later \in SUBSET Numbers,
         \A l \in later : l > n,
         NEW after, \A m \in Migs : \/ listed[m] = n /\ after[m] = 0
                                    \/ listed[m] \in later /\ after[m] = listed[m] - 1
                                    \/ listed[m] # n /\ listed[m] \notin later /\ after[m] = listed[m],
         \A m, k \in Migs : m # k /\ after[m] # 0 => after[m] # after[k],
         NEW q, \/ p < n /\ q = p
                \/ /\ p > n /\ q = p - 1
                   /\ \A m \in Migs : listed[m] > n /\ listed[m] \notin later => listed[m] > p
  PROVE  Fits(after, turns, q)
<1>1. /\ n \in Nat /\ p \in Nat /\ n > 0 /\ \A m \in Migs : listed[m] \in Nat
      /\ \A l \in later : l \in Nat /\ l > n
  <2>1. n \in Nat /\ p \in Nat /\ (\A m \in Migs : listed[m] \in Nat) /\ \A l \in later : l \in Nat
    BY Naturals
  <2> QED
    BY <2>1
<1>2. \A m \in Migs : \/ listed[m] = n /\ after[m] = 0
                      \/ listed[m] > n /\ listed[m] \in later /\ after[m] = listed[m] - 1
                      \/ listed[m] # n /\ listed[m] \notin later /\ after[m] = listed[m]
  BY <1>1
<1>3. q = 0 \/ \E m \in Migs : after[m] = q
  <2>1. CASE p = 0
    BY <1>1, <2>1
  <2>2. CASE p # 0
    <3>1. PICK m \in Migs : listed[m] = p
      BY <2>2 DEF Fits
    <3>2. after[m] = q
      BY <1>1, <1>2, <3>1
    <3> QED
      BY <3>2
  <2> QED
    BY <2>1, <2>2
<1>4. ASSUME NEW m \in Migs, after[m] # 0 PROVE Has(turns, m) <=> after[m] <= q
  <2>1. listed[m] # 0
    BY <1>1, <1>2, <1>4
  <2>2. Has(turns, m) <=> listed[m] <= p
    BY <2>1 DEF Fits
  <2>3. listed[m] <= p <=> after[m] <= q
    BY <1>1, <1>2, <1>4
  <2> QED
    BY <2>2, <2>3
<1>5. ASSUME NEW i \in DOMAIN turns, NEW j \in DOMAIN turns,
             i < j, after[turns[i]] # 0, after[turns[j]] # 0
      PROVE  after[turns[i]] < after[turns[j]]
  <2> DEFINE a == turns[i]
             b == turns[j]
  <2>0. a \in Migs /\ b \in Migs
    OBVIOUS
  <2>1. listed[a] # 0 /\ listed[b] # 0
    BY <1>1, <1>2, <1>5, <2>0
  <2>2. listed[a] < listed[b]
    BY <1>5, <2>1 DEF Fits
  <2> HIDE DEF a, b
  <2>3. listed[a] \in Nat /\ listed[b] \in Nat /\ a # b
    BY <1>1, <2>0, <2>2
  <2>4. after[a] # after[b]
    BY <1>5, <2>0, <2>3 DEF a, b
  <2>5. after[a] # 0 /\ after[b] # 0
    BY <1>5 DEF a, b
  <2>6. after[a] < after[b]
    BY <1>1, <1>2, <2>0, <2>2, <2>3, <2>4, <2>5
  <2> QED
    BY <2>6 DEF a, b
<1> QED
  BY <1>3, <1>4, <1>5 DEF Fits

-----------------------------------------------------------------------------
(* Types, and the places of a request.                                     *)

LEMMA NewIs ==
  /\ New \in HandlerType /\ Over \in HandlerType /\ Shape(New) /\ Shape(Over)
  /\ Over.at = "over" /\ Over.op = "none" /\ Over.done = {} /\ Over.left = {}
  /\ Over.d = 0 /\ \A m \in Migs : Over.chain[m] = 0
  /\ New.at = "new" /\ New.op = "none" /\ New.done = {} /\ New.left = {} /\ New.todo = {}
  /\ \A m \in Migs : New.chain[m] = 0
<1>1. New \in HandlerType /\ Over \in HandlerType
  BY Naturals DEF New, Over, HandlerType, Applies, Moves
<1> QED
  BY <1>1 DEF New, Over, Shape, Applies, Moves

\* A step gives one request its next state.
LEMMA StepIs ==
  ASSUME TypeOK, NEW h \in Handlers, NEW state, Step(h, state)
  PROVE  /\ handler'[h] = state
         /\ \A k \in Handlers : k # h => handler'[k] = handler[k]
  BY DEF TypeOK, Step

LEMMA StepTypes ==
  ASSUME Types, NEW h \in Handlers, NEW state \in HandlerType, Shape(state), Step(h, state)
  PROVE  handler' \in [Handlers -> HandlerType] /\ \A k \in Handlers : Shape(handler'[k])
<1>1. handler' \in [Handlers -> HandlerType]
  BY DEF Types, TypeOK, Step
<1>2. \A k \in Handlers : handler'[k] = IF k = h THEN state ELSE handler[k]
  BY StepIs DEF Types
<1> QED
  BY <1>1, <1>2 DEF Types

\* What an apply or a rollback reads is of its type.
LEMMA Reads ==
  ASSUME Types, NEW h \in Handlers, handler[h].op \in Applies
  PROVE  LET s == handler[h] IN
         /\ s \in HandlerType /\ s.d \in DBs /\ s.slug \in Slugs
         /\ s.chain \in [Migs -> Numbers] /\ s.sql \in [Migs -> Texts]
         /\ table[s.d][s.slug] \in Numbers
  BY DEF Types, TypeOK, HandlerType, Shape

LEMMA LatestIs ==
  ASSUME NEW turns, DOMAIN turns \subseteq Nat, IsFiniteSet(DOMAIN turns)
  PROVE  Latest(turns) \in Nat /\ \A i \in DOMAIN turns : i <= Latest(turns)
<1>1. DOMAIN turns \cup {0} \in SUBSET Nat /\ IsFiniteSet(DOMAIN turns \cup {0})
  BY FS_AddElement
<1>2. DOMAIN turns \cup {0} # {}
  OBVIOUS
<1> QED
  BY <1>1, <1>2, MaxIsGreatest DEF Latest

LEMMA TypesInit == Init => Types
<1> SUFFICES ASSUME Init PROVE Types
  OBVIOUS
<1>1. version \in [Migs -> Numbers] /\ text \in [Migs -> Texts] /\ slug \in Slugs
  BY Naturals DEF Init, Migs, Numbers
<1>2. sealed \in [Migs -> Numbers \X Texts]
  BY <1>1, Naturals DEF Init
<1>3. cached \in [DBs -> Numbers] /\ table \in [DBs -> [Slugs -> Numbers]]
  <2>1. cached \in [DBs -> Numbers]
    BY Naturals DEF Init, Numbers
  <2> QED
    BY <2>1, Naturals DEF Init
<1>4. \A d \in DBs : 1..cached[d] \subseteq Migs
  BY Naturals DEF Init, Migs
<1>5. history \in [DBs -> SUBSET Migs] /\ ran \in [DBs -> SUBSET (Migs \X Texts)]
  BY <1>4, Naturals DEF Init
<1>6. \A d \in DBs : schema[d] = [i \in 1..cached[d] |-> i] /\ DOMAIN schema[d] = 1..cached[d]
  BY DEF Init
<1>7. schema = [d \in DBs |-> [i \in DOMAIN schema[d] |-> schema[d][i]]]
  BY <1>6 DEF Init
<1>8. \A d \in DBs : /\ DOMAIN schema[d] \subseteq Nat /\ IsFiniteSet(DOMAIN schema[d])
                     /\ \A i \in DOMAIN schema[d] : schema[d][i] \in Migs
  <2> SUFFICES ASSUME NEW d \in DBs
               PROVE  /\ DOMAIN schema[d] \subseteq Nat /\ IsFiniteSet(DOMAIN schema[d])
                      /\ \A i \in DOMAIN schema[d] : schema[d][i] \in Migs
    OBVIOUS
  <2>1. cached[d] \in Numbers
    BY <1>3
  <2>2. cached[d] \in Int /\ 1 \in Int
    <3>1. cached[d] \in Nat
      BY <2>1, Naturals
    <3> QED
      BY <3>1
  <2>3. IsFiniteSet(1..cached[d]) /\ 1..cached[d] \subseteq Nat
    BY <2>2, FS_Interval
  <2>4. DOMAIN schema[d] = 1..cached[d] /\ \A i \in 1..cached[d] : schema[d][i] = i
    BY <1>6
  <2> HIDE DEF Numbers
  <2> QED
    BY <1>4, <2>3, <2>4
<1>9. handler \in [Handlers -> HandlerType] /\ \A h \in Handlers : Shape(handler[h])
  BY NewIs DEF Init
<1>10. diverged \subseteq Migs \X DBs /\ faults \in Nat /\ named \subseteq DBs
       /\ excused \subseteq DBs /\ blurred \subseteq DBs
  BY DEF Init
<1> QED
  BY <1>1, <1>2, <1>3, <1>5, <1>7, <1>8, <1>9, <1>10 DEF Types, TypeOK

\* A call of a move, there or back, gives a database another number of its type.
LEMMA MoveTypes ==
  ASSUME Types, NEW h \in Handlers, Moving(h), NEW d \in handler[h].todo \cup handler[h].done
  PROVE  /\ handler[h] \in HandlerType /\ Shape(handler[h]) /\ d \in DBs
         /\ Forth(handler[h], d) \in [Slugs -> Numbers]
         /\ Back(handler[h], d) \in [Slugs -> Numbers]
<1> DEFINE s == handler[h]
<1>1. /\ s \in HandlerType /\ Shape(s) /\ d \in DBs /\ s.slug \in Slugs /\ s.to \in Slugs
      /\ s.from \in [DBs -> Numbers] /\ table[d] \in [Slugs -> Numbers]
  BY DEF Types, TypeOK, HandlerType
<1>2. s.op = "delete" => s.from[d] \in Numbers /\ s.from[d] # 0
  BY <1>1 DEF Shape
<1> HIDE DEF s
<1>3. s.op = "delete" => s.from[d] - 1 \in Numbers
  BY <1>2, Naturals DEF Numbers
<1>4. Forth(s, d) \in [Slugs -> Numbers] /\ Back(s, d) \in [Slugs -> Numbers]
  BY <1>1, <1>2, <1>3, Naturals DEF Forth, Back
<1> QED
  BY <1>1, <1>4 DEF s

\* Every action keeps the types and the places of the requests.
LEMMA TypesStep == Types /\ Next => Types'
<1> SUFFICES ASSUME Types, Next PROVE Types'
  OBVIOUS
<1>0. TypeOK /\ \A h \in Handlers : handler[h] \in HandlerType /\ Shape(handler[h])
  BY DEF Types, TypeOK
<1>1. ASSUME NEW m \in Migs, NEW v \in 1..MaxVersion, Create(m, v) PROVE Types'
  <2>1. v \in Numbers
    BY Naturals DEF Numbers
  <2>2. version' \in [Migs -> Numbers] /\ sealed' \in [Migs -> Numbers \X Texts]
    BY <1>0, <1>1, <2>1, Naturals DEF TypeOK, Create
  <2>3. excused' \subseteq DBs
    BY <1>0, <1>1 DEF TypeOK, Create
  <2> QED
    BY <1>0, <1>1, <2>2, <2>3 DEF Types, TypeOK, Create, books
<1>2. ASSUME NEW h \in Handlers, NEW d \in DBs, NEW op \in Applies, Load(h, op, d) PROVE Types'
  <2> DEFINE s == [New EXCEPT !.at = "loaded", !.op = op, !.d = d, !.slug = slug,
                              !.chain = version, !.sql = text]
  <2>1. s \in HandlerType /\ Shape(s)
    <3>0. slug \in Slugs /\ version \in [Migs -> Numbers] /\ text \in [Migs -> Texts]
          /\ d \in DBs \cup {0} /\ op \in Applies /\ New \in HandlerType
      BY <1>0, NewIs DEF TypeOK
    <3>1. s \in HandlerType
      BY ONLY <3>0 DEF HandlerType
    <3>2. s.at = "loaded" /\ s.op \in Applies /\ s.d = d /\ s.done = {} /\ s.todo = {} /\ s.left = {}
      BY NewIs DEF HandlerType
    <3> QED
      BY <3>1, <3>2 DEF Shape, Applies, Moves
  <2>2. Step(h, s)
    BY <1>2 DEF Load
  <2> HIDE DEF s
  <2>3. handler' \in [Handlers -> HandlerType] /\ \A k \in Handlers : Shape(handler'[k])
    BY <2>1, <2>2, StepTypes
  <2>4. excused' \subseteq DBs /\ blurred' \subseteq DBs
    BY <1>0, <1>2 DEF Load, TypeOK
  <2> QED
    BY <1>0, <1>2, <2>3, <2>4 DEF Types, TypeOK, Load, rows, books
<1>3. ASSUME NEW h \in Handlers, RunUp(h) PROVE Types'
  <2> DEFINE s == handler[h]
             d == s.d
             p == table[d][s.slug]
             next == Min(Above(s.chain, p))
             m == Holder(s.chain, next)
             state == [s EXCEPT !.at = "record", !.m = m]
             more == [i \in DOMAIN schema[d] \cup {Latest(schema[d]) + 1} |->
                        IF i \in DOMAIN schema[d] THEN schema[d][i] ELSE m]
  <2>0. s \in HandlerType /\ Shape(s) /\ s.op = "up" /\ s.at = "loaded" /\ d \in DBs
        /\ p \in Numbers /\ s.chain \in [Migs -> Numbers] /\ s.sql \in [Migs -> Texts]
        /\ s.slug \in Slugs
    BY <1>3, <1>0, Reads DEF RunUp, Applies
  <2>1. next \in Numbers /\ m \in Migs
    BY <1>3, <2>0, NextUp DEF RunUp
  <2>2. /\ table' = [table EXCEPT ![d][s.slug] = next]
        /\ schema' = [schema EXCEPT ![d] = more]
        /\ ran' = [ran EXCEPT ![d] = @ \cup {<<m, s.sql[m]>>}]
        /\ Step(h, state)
    BY <1>3 DEF RunUp, Point
  <2> HIDE DEF m, next, p
  <2>3. state \in HandlerType /\ Shape(state)
    BY <2>0, <2>1 DEF HandlerType, Shape, Applies, Moves
  <2> HIDE DEF s, d, state
  <2>4. handler' \in [Handlers -> HandlerType] /\ \A k \in Handlers : Shape(handler'[k])
    BY <2>2, <2>3, StepTypes
  <2>5. table' \in [DBs -> [Slugs -> Numbers]]
    BY <1>0, <2>0, <2>1, <2>2 DEF TypeOK
  <2>6. ran' \in [DBs -> SUBSET (Migs \X Texts)]
    BY <1>0, <2>0, <2>1, <2>2 DEF TypeOK
  <2>7. DOMAIN more \subseteq Nat /\ IsFiniteSet(DOMAIN more)
        /\ \A i \in DOMAIN more : more[i] \in Migs
    <3>1. DOMAIN schema[d] \subseteq Nat /\ IsFiniteSet(DOMAIN schema[d])
          /\ \A i \in DOMAIN schema[d] : schema[d][i] \in Migs
      BY <1>0, <2>0 DEF TypeOK
    <3>2. Latest(schema[d]) + 1 \in Nat
      BY <3>1, LatestIs
    <3>3. DOMAIN more = DOMAIN schema[d] \cup {Latest(schema[d]) + 1}
      OBVIOUS
    <3>4. IsFiniteSet(DOMAIN more)
      BY <3>1, <3>3, FS_AddElement
    <3> QED
      BY <2>1, <3>1, <3>2, <3>3, <3>4
  <2>8. more = [i \in DOMAIN more |-> more[i]]
    OBVIOUS
  <2> HIDE DEF more
  <2>9. schema' = [e \in DBs |-> IF e = d THEN more ELSE schema[e]]
    BY <1>0, <2>2 DEF TypeOK
  <2>10. /\ schema' = [e \in DBs |-> [i \in DOMAIN schema'[e] |-> schema'[e][i]]]
         /\ \A e \in DBs : /\ DOMAIN schema'[e] \subseteq Nat /\ IsFiniteSet(DOMAIN schema'[e])
                           /\ \A i \in DOMAIN schema'[e] : schema'[e][i] \in Migs
    <3>1. \A e \in DBs : schema'[e] = IF e = d THEN more ELSE schema[e]
      BY <2>9
    <3>2. \A e \in DBs : schema[e] = [i \in DOMAIN schema[e] |-> schema[e][i]]
      BY <1>0 DEF TypeOK
    <3>3. \A e \in DBs : schema'[e] = [i \in DOMAIN schema'[e] |-> schema'[e][i]]
      BY <2>8, <3>1, <3>2
    <3> QED
      BY <1>0, <2>7, <2>9, <3>1, <3>3 DEF TypeOK
  <2> QED
    BY <1>0, <1>3, <2>4, <2>5, <2>6, <2>10 DEF Types, TypeOK, RunUp, rows, books
<1>4. ASSUME NEW h \in Handlers, RunDown(h) PROVE Types'
  <2> DEFINE s == handler[h]
             d == s.d
             p == table[d][s.slug]
             m == Holder(s.chain, p)
             next == Max(Below(s.chain, p) \cup {0})
             state == [s EXCEPT !.at = "record", !.m = m]
             less == [i \in {j \in DOMAIN schema[d] : schema[d][j] # m} |-> schema[d][i]]
  <2>0. s \in HandlerType /\ Shape(s) /\ s.op = "down" /\ s.at = "loaded" /\ d \in DBs
        /\ p \in Numbers /\ s.chain \in [Migs -> Numbers] /\ s.slug \in Slugs
    BY <1>4, <1>0, Reads DEF RunDown, Applies
  <2>1. next \in Numbers /\ m \in Migs
    BY <1>4, <2>0, NextDown DEF RunDown
  <2>2. /\ table' = [table EXCEPT ![d][s.slug] = next]
        /\ schema' = [schema EXCEPT ![d] = less]
        /\ ran' = [ran EXCEPT ![d] = @ \ ({m} \X Texts)]
        /\ Step(h, state)
    BY <1>4 DEF RunDown, Point
  <2> HIDE DEF m, next, p
  <2>3. state \in HandlerType /\ Shape(state)
    BY <2>0, <2>1 DEF HandlerType, Shape, Applies, Moves
  <2> HIDE DEF s, d, state
  <2>4. handler' \in [Handlers -> HandlerType] /\ \A k \in Handlers : Shape(handler'[k])
    BY <2>2, <2>3, StepTypes
  <2>5. table' \in [DBs -> [Slugs -> Numbers]] /\ ran' \in [DBs -> SUBSET (Migs \X Texts)]
    BY <1>0, <2>0, <2>1, <2>2 DEF TypeOK
  <2>7. DOMAIN less \subseteq Nat /\ IsFiniteSet(DOMAIN less)
        /\ \A i \in DOMAIN less : less[i] \in Migs
    <3>1. DOMAIN schema[d] \subseteq Nat /\ IsFiniteSet(DOMAIN schema[d])
          /\ \A i \in DOMAIN schema[d] : schema[d][i] \in Migs
      BY <1>0, <2>0 DEF TypeOK
    <3>2. DOMAIN less \subseteq DOMAIN schema[d]
      OBVIOUS
    <3> QED
      BY <3>1, <3>2, FS_Subset
  <2>8. less = [i \in DOMAIN less |-> less[i]]
    OBVIOUS
  <2> HIDE DEF less
  <2>9. schema' = [e \in DBs |-> IF e = d THEN less ELSE schema[e]]
    BY <1>0, <2>2 DEF TypeOK
  <2>10. /\ schema' = [e \in DBs |-> [i \in DOMAIN schema'[e] |-> schema'[e][i]]]
         /\ \A e \in DBs : /\ DOMAIN schema'[e] \subseteq Nat /\ IsFiniteSet(DOMAIN schema'[e])
                           /\ \A i \in DOMAIN schema'[e] : schema'[e][i] \in Migs
    <3>1. \A e \in DBs : schema'[e] = IF e = d THEN less ELSE schema[e]
      BY <2>9
    <3>2. \A e \in DBs : schema[e] = [i \in DOMAIN schema[e] |-> schema[e][i]]
      BY <1>0 DEF TypeOK
    <3>3. \A e \in DBs : schema'[e] = [i \in DOMAIN schema'[e] |-> schema'[e][i]]
      BY <2>8, <3>1, <3>2
    <3> QED
      BY <1>0, <2>7, <2>9, <3>1, <3>3 DEF TypeOK
  <2> QED
    BY <1>0, <1>4, <2>4, <2>5, <2>10 DEF Types, TypeOK, RunDown, rows, books
<1>5. ASSUME NEW h \in Handlers, Refuse(h) \/ Rename(h) \/ RenameFails(h) \/ Report(h) \/ Crash(h)
      PROVE  Types'
  <2>1. Step(h, Over)
    BY <1>5 DEF Refuse, Rename, RenameFails, Report, Crash
  <2>2. handler' \in [Handlers -> HandlerType] /\ \A k \in Handlers : Shape(handler'[k])
    BY <2>1, NewIs, StepTypes
  <2>3. /\ handler[h].d \in DBs \cup {0} /\ handler[h].to \in Slugs
        /\ handler[h].done \subseteq DBs /\ handler[h].left \subseteq DBs
    BY <1>0 DEF HandlerType
  <2>4. slug' \in Slugs /\ faults' \in Nat /\ named' \subseteq DBs
    BY <1>0, <1>5, <2>3 DEF TypeOK, Refuse, Rename, RenameFails, Report, Crash, ghosts, Fails
  <2>5. excused' \subseteq DBs
    <3>1. CASE Crash(h)
      <4>1. handler[h].at = "record" => handler[h].d \in DBs
        BY <1>0 DEF HandlerType, Shape, Applies, Moves
      <4> QED
        BY <1>0, <2>3, <3>1, <4>1 DEF TypeOK, Crash
    <3> QED
      BY <1>0, <1>5, <2>3, <3>1 DEF TypeOK, Refuse, Rename, RenameFails, Report, ghosts
  <2> QED
    BY <1>0, <1>5, <2>2, <2>4, <2>5
       DEF Types, TypeOK, Refuse, Rename, RenameFails, Report, Crash, rows, books, ghosts
<1>6. ASSUME NEW h \in Handlers, Record(h) PROVE Types'
  <2>1. Step(h, Over)
    BY <1>6 DEF Record
  <2>2. handler' \in [Handlers -> HandlerType] /\ \A k \in Handlers : Shape(handler'[k])
    BY <2>1, NewIs, StepTypes
  <2>3. /\ handler[h].d \in DBs /\ handler[h].m \in Migs
        /\ table[handler[h].d][handler[h].slug] \in Numbers
    BY <1>0, <1>6, Reads DEF Record, Applies, Shape
  <2>4. history' \in [DBs -> SUBSET Migs] /\ cached' \in [DBs -> Numbers]
    <3>1. CASE UNCHANGED <<history, cached>>
      BY <1>0, <3>1 DEF TypeOK
    <3>2. CASE handler[h].m \in Rows
      <4> DEFINE more == IF handler[h].op = "up" THEN {handler[h].m} ELSE {}
      <4>1. /\ history' = [history EXCEPT ![handler[h].d] = @ \cup more]
            /\ cached' = [cached EXCEPT ![handler[h].d] = table[handler[h].d][handler[h].slug]]
        BY <1>6, <3>2 DEF Record
      <4>2. more \subseteq Migs
        BY <2>3
      <4> HIDE DEF more
      <4>3. history' \in [DBs -> SUBSET Migs]
        BY <1>0, <2>3, <4>1, <4>2 DEF TypeOK
      <4>4. cached' \in [DBs -> Numbers]
        BY <1>0, <2>3, <4>1 DEF TypeOK
      <4> QED
        BY <4>3, <4>4
    <3> QED
      BY <1>6, <3>1, <3>2 DEF Record
  <2> QED
    BY <1>0, <1>6, <2>2, <2>4 DEF Types, TypeOK, Record, rows, ghosts
<1>7. ASSUME NEW h \in Handlers, NEW m \in Migs, NEW deaf \in SUBSET DBs, BeginEdit(h, m, deaf)
      PROVE  Types'
  <2> DEFINE s == [New EXCEPT !.at = "edit", !.op = "edit", !.m = m, !.number = version[m]]
  <2>1. s \in HandlerType /\ Shape(s)
    <3>1. s \in HandlerType /\ version[m] # 0
      BY <1>0, <1>7, NewIs DEF HandlerType, TypeOK, BeginEdit, Rows
    <3>2. s.at = "edit" /\ s.op = "edit" /\ s.number = version[m] /\ s.done = {} /\ s.left = {}
          /\ s.todo = {}
      BY NewIs DEF HandlerType
    <3> QED
      BY <3>1, <3>2 DEF Shape, Applies, Moves
  <2>2. Step(h, s)
    BY <1>7 DEF BeginEdit
  <2> HIDE DEF s
  <2>3. handler' \in [Handlers -> HandlerType] /\ \A k \in Handlers : Shape(handler'[k])
    BY <2>1, <2>2, StepTypes
  <2>4. diverged' \subseteq Migs \X DBs
    BY <1>0, <1>7 DEF TypeOK, BeginEdit, Blocking
  <2>5. Moved \subseteq DBs
    BY <1>0 DEF Moved, HandlerType
  <2>6. blurred' \subseteq DBs
    BY <1>0, <1>7, <2>5 DEF TypeOK, BeginEdit
  <2> QED
    BY <1>0, <1>7, <2>3, <2>4, <2>6 DEF Types, TypeOK, BeginEdit, rows
<1>8. ASSUME NEW h \in Handlers, WriteEdit(h) PROVE Types'
  <2>1. Step(h, Over)
    BY <1>8 DEF WriteEdit
  <2>2. handler' \in [Handlers -> HandlerType] /\ \A k \in Handlers : Shape(handler'[k])
    BY <2>1, NewIs, StepTypes
  <2>3. handler[h].m \in Migs /\ handler[h].number \in Numbers
    BY <1>0, <1>8 DEF WriteEdit, Rows, HandlerType
  <2>4. text' \in [Migs -> Texts] /\ sealed' \in [Migs -> Numbers \X Texts]
    BY <1>0, <1>8, <2>3, Naturals DEF TypeOK, WriteEdit
  <2> QED
    BY <1>0, <1>8, <2>2, <2>4 DEF Types, TypeOK, WriteEdit, books, ghosts
<1>9. ASSUME NEW h \in Handlers, NEW m \in Migs, NEW deaf \in SUBSET DBs, PlanDelete(h, m, deaf)
      PROVE  Types'
  <2> DEFINE from == [d \in DBs |-> IF d \in Ahead(m) THEN Pointer(d) ELSE 0]
             later == {n \in Versions : n > version[m]}
             plan == [New EXCEPT !.op = "delete", !.m = m, !.number = version[m], !.chain = version,
                                 !.from = from, !.later = later]
             s == [plan EXCEPT !.at = "move", !.slug = slug, !.todo = Ahead(m)]
  <2>1. from \in [DBs -> Numbers] /\ later \subseteq Numbers /\ version[m] \in Numbers
        /\ version[m] # 0 /\ Ahead(m) \subseteq DBs
    BY <1>0, <1>9, Naturals DEF TypeOK, Pointer, Versions, Rows, Ahead, PlanDelete
  <2>2. \A n \in later : n > version[m]
    OBVIOUS
  <2>3. \A d \in Ahead(m) : from[d] # 0
    <3>1. \A d \in Ahead(m) : Pointer(d) > version[m] /\ Pointer(d) \in Nat /\ version[m] \in Nat
      BY <1>0, <2>1, Naturals DEF Ahead, Pointer, TypeOK
    <3> QED
      BY <2>1, <3>1
  <2>4. Begin(h, plan, Ahead(m))
    BY <1>9 DEF PlanDelete
  <2> HIDE DEF from, later
  <2>5. s \in HandlerType /\ Shape(s)
    <3>a. slug \in Slugs /\ version \in [Migs -> Numbers] /\ New \in HandlerType
      BY <1>0, NewIs DEF TypeOK
    <3>0. plan \in HandlerType
      BY ONLY <2>1, <3>a DEF HandlerType, Moves
    <3>1. s \in HandlerType
      <4> HIDE DEF plan
      <4> QED
        BY ONLY <2>1, <3>a, <3>0 DEF HandlerType
    <3>2. /\ s.at = "move" /\ s.op = "delete" /\ s.number = version[m] /\ s.later = later
          /\ s.from = from /\ s.todo = Ahead(m) /\ s.done = {} /\ s.left = {}
      BY NewIs DEF HandlerType
    <3> HIDE DEF s
    <3>3. /\ s.number # 0 /\ \A n \in s.later : n > s.number
          /\ \A d \in s.todo \cup s.done : s.from[d] # 0
      BY <2>1, <2>2, <2>3, <3>2
    <3>4. s.op \notin Applies /\ s.op # "none" /\ s.op # "edit" /\ s.op # "rename"
          /\ s.todo \cap s.done = {}
      BY <3>2 DEF Applies
    <3> QED
      BY <3>1, <3>2, <3>3, <3>4 DEF Shape
  <2>6. Step(h, s)
    BY <2>4 DEF Begin
  <2>9. UNCHANGED <<rows, slug, table, books, faults, schema, ran, named, blurred>>
        /\ excused' = excused \cup Overlap
    BY <2>4 DEF Begin
  <2> HIDE DEF s, plan
  <2>7. handler' \in [Handlers -> HandlerType] /\ \A k \in Handlers : Shape(handler'[k])
    BY <2>5, <2>6, StepTypes
  <2>8. excused' \subseteq DBs
    BY <1>0, <2>9 DEF TypeOK, Overlap
  <2> QED
    BY <1>0, <2>7, <2>8, <2>9 DEF Types, TypeOK, rows, books
<1>10. ASSUME NEW h \in Handlers, NEW to \in Slugs, PlanRename(h, to) PROVE Types'
  <2> DEFINE todo == {d \in DBs : Pointer(d) # 0}
             plan == [New EXCEPT !.op = "rename", !.to = to]
             s == [plan EXCEPT !.at = "move", !.slug = slug, !.todo = todo]
  <2>4. Begin(h, plan, todo)
    BY <1>10 DEF PlanRename
  <2>5. s \in HandlerType /\ Shape(s)
    <3>0. slug \in Slugs /\ to \in Slugs /\ todo \subseteq DBs /\ New \in HandlerType
      BY <1>0, NewIs DEF TypeOK
    <3>1. s \in HandlerType
      <4> HIDE DEF todo
      <4> QED
        BY ONLY <3>0 DEF HandlerType, Moves
    <3>2. /\ s.at = "move" /\ s.op = "rename" /\ s.to = to /\ s.slug = slug
          /\ s.done = {} /\ s.left = {} /\ to # slug
      BY <1>10, NewIs DEF HandlerType, PlanRename
    <3> HIDE DEF s
    <3> QED
      BY <3>1, <3>2 DEF Shape, Applies, Moves
  <2>6. Step(h, s)
    BY <2>4 DEF Begin
  <2>9. UNCHANGED <<rows, slug, table, books, faults, schema, ran, named, blurred>>
        /\ excused' = excused \cup Overlap
    BY <2>4 DEF Begin
  <2> HIDE DEF s, plan
  <2>7. handler' \in [Handlers -> HandlerType] /\ \A k \in Handlers : Shape(handler'[k])
    BY <2>5, <2>6, StepTypes
  <2>8. excused' \subseteq DBs
    BY <1>0, <2>9 DEF TypeOK, Overlap
  <2> QED
    BY <1>0, <2>7, <2>8, <2>9 DEF Types, TypeOK, rows, books
<1>11. ASSUME NEW h \in Handlers, Move(h) PROVE Types'
  <2> DEFINE s == handler[h]
             d == Min(s.todo)
             ahead == [s EXCEPT !.todo = @ \ {d}, !.done = @ \cup {d}]
             undo == [s EXCEPT !.at = "undo"]
  <2>1. Moving(h) /\ s.at = "move" /\ s.todo # {} /\ s \in HandlerType /\ Shape(s)
    BY <1>0, <1>11 DEF Move
  <2>2. d \in s.todo /\ d \in DBs
    BY <2>1, FirstAndLast DEF HandlerType
  <2>3. Forth(s, d) \in [Slugs -> Numbers]
    BY <2>1, <2>2, MoveTypes
  <2>4. /\ Step(h, ahead) \/ Step(h, undo)
        /\ table' = table \/ table' = [table EXCEPT ![d] = Forth(s, d)]
        /\ faults' = faults \/ faults' = faults + 1
        /\ excused' = excused \/ excused' = excused \cup {d}
    BY <1>11 DEF Move, Fails
  <2>5. UNCHANGED <<rows, slug, books, schema, ran, named, blurred>>
    BY <1>11 DEF Move
  <2> HIDE DEF d
  <2>6. ahead \in HandlerType /\ undo \in HandlerType
    BY <2>1, <2>2 DEF HandlerType
  <2>7. Shape(ahead) /\ Shape(undo)
    BY <2>1, <2>2 DEF Shape, HandlerType, Moving, Moves, Applies
  <2> HIDE DEF ahead, undo, s
  <2>8. handler' \in [Handlers -> HandlerType] /\ \A k \in Handlers : Shape(handler'[k])
    BY <2>4, <2>6, <2>7, StepTypes
  <2>9. table' \in [DBs -> [Slugs -> Numbers]]
    <3>1. table \in [DBs -> [Slugs -> Numbers]]
      BY <1>0 DEF TypeOK
    <3> DEFINE it == Forth(s, d)
    <3>2. it \in [Slugs -> Numbers] /\ (table' = table \/ table' = [table EXCEPT ![d] = it])
      BY <2>3, <2>4
    <3> HIDE DEF it
    <3> QED
      BY <2>2, <3>1, <3>2
  <2>10. faults' \in Nat /\ excused' \subseteq DBs
    BY <1>0, <2>2, <2>4 DEF TypeOK
  <2> QED
    BY <1>0, <2>5, <2>8, <2>9, <2>10 DEF Types, TypeOK, rows, books
<1>12. ASSUME NEW h \in Handlers, Undo(h) PROVE Types'
  <2> DEFINE s == handler[h]
             d == Max(s.done)
             back == [s EXCEPT !.done = @ \ {d}]
             left == [s EXCEPT !.done = @ \ {d}, !.left = @ \cup {d}]
  <2>1. Moving(h) /\ s.at = "undo" /\ s.done # {} /\ s \in HandlerType /\ Shape(s)
    BY <1>0, <1>12 DEF Undo
  <2>2. d \in s.done /\ d \in DBs
    BY <2>1, FirstAndLast DEF HandlerType
  <2>3. Back(s, d) \in [Slugs -> Numbers]
    BY <2>1, <2>2, MoveTypes
  <2>4. /\ Step(h, back) \/ Step(h, left)
        /\ table' = table \/ table' = [table EXCEPT ![d] = Back(s, d)]
        /\ faults' = faults \/ faults' = faults + 1
    BY <1>12 DEF Undo, Fails
  <2>5. UNCHANGED <<rows, slug, books, ghosts>>
    BY <1>12 DEF Undo
  <2> HIDE DEF d
  <2>6. back \in HandlerType /\ left \in HandlerType
    BY <2>1, <2>2 DEF HandlerType
  <2>7. Shape(back) /\ Shape(left)
    BY <2>1, <2>2 DEF Shape, HandlerType, Moving, Moves, Applies
  <2> HIDE DEF back, left, s
  <2>8. handler' \in [Handlers -> HandlerType] /\ \A k \in Handlers : Shape(handler'[k])
    BY <2>4, <2>6, <2>7, StepTypes
  <2>9. table' \in [DBs -> [Slugs -> Numbers]]
    <3>1. table \in [DBs -> [Slugs -> Numbers]]
      BY <1>0 DEF TypeOK
    <3> DEFINE it == Back(s, d)
    <3>2. it \in [Slugs -> Numbers] /\ (table' = table \/ table' = [table EXCEPT ![d] = it])
      BY <2>3, <2>4
    <3> HIDE DEF it
    <3> QED
      BY <2>2, <3>1, <3>2
  <2>10. faults' \in Nat
    BY <1>0, <2>4 DEF TypeOK
  <2> QED
    BY <1>0, <2>5, <2>8, <2>9, <2>10 DEF Types, TypeOK, rows, books, ghosts
<1>13. ASSUME NEW h \in Handlers, Renumber(h) PROVE Types'
  <2> DEFINE s == handler[h]
  <2>1. s \in HandlerType /\ Shape(s) /\ s.op = "delete"
    BY <1>0, <1>13 DEF Renumber
  <2>2. /\ s.number \in Numbers /\ s.later \subseteq Numbers /\ s.from \in [DBs -> Numbers]
        /\ \A n \in s.later : n > s.number
    BY <2>1 DEF HandlerType, Shape
  <2>3. \A n \in Numbers : n # 0 => n - 1 \in Numbers
    BY Naturals DEF Numbers
  <2>4. 0 \notin s.later
    <3>1. s.number \in Nat
      BY <2>2, Naturals
    <3>2. ~(0 > s.number)
      BY <3>1
    <3> QED
      BY <2>2, <3>2
  <2>5. Step(h, Over)
    BY <1>13 DEF Renumber
  <2>6. handler' \in [Handlers -> HandlerType] /\ \A k \in Handlers : Shape(handler'[k])
    BY <2>5, NewIs, StepTypes
  <2>7. version' = Renumbered(s)
        /\ sealed' = [m \in Migs |-> IF version[m] \in s.later THEN <<version[m] - 1, text[m]>>
                                     ELSE sealed[m]]
        /\ cached' = [d \in DBs |-> IF s.from[d] # 0 THEN s.from[d] - 1 ELSE cached[d]]
        /\ history' \in [DBs -> SUBSET Migs]
    BY <1>0, <1>13 DEF Renumber, TypeOK
  <2> HIDE DEF s
  <2>8. \A m \in Migs : version[m] \in s.later => version[m] - 1 \in Numbers
    BY <2>2, <2>3, <2>4
  <2>9. version' \in [Migs -> Numbers]
    BY <1>0, <2>7, <2>8, Naturals DEF Renumbered, TypeOK
  <2>10. sealed' \in [Migs -> Numbers \X Texts] /\ cached' \in [DBs -> Numbers]
    BY <1>0, <2>2, <2>3, <2>7, <2>8 DEF TypeOK
  <2> QED
    BY <1>0, <1>13, <2>6, <2>7, <2>9, <2>10 DEF Types, TypeOK, Renumber, ghosts
<1>14. ASSUME NEW h \in Handlers, RenumberFails(h) PROVE Types'
  <2> DEFINE s == handler[h]
             undo == [s EXCEPT !.at = "undo"]
  <2>1. s.op = "delete" /\ s \in HandlerType /\ Shape(s)
    BY <1>0, <1>14 DEF RenumberFails
  <2>2. undo \in HandlerType /\ Shape(undo)
    BY <2>1 DEF HandlerType, Shape, Moves, Applies
  <2>3. Step(h, undo) /\ faults' \in Nat
    BY <1>0, <1>14 DEF RenumberFails, Fails, TypeOK
  <2> HIDE DEF undo
  <2>4. handler' \in [Handlers -> HandlerType] /\ \A k \in Handlers : Shape(handler'[k])
    BY <2>2, <2>3, StepTypes
  <2> QED
    BY <1>0, <1>14, <2>3, <2>4 DEF Types, TypeOK, RenumberFails, rows, books, ghosts
<1> QED
  BY <1>1, <1>2, <1>3, <1>4, <1>5, <1>6, <1>7, <1>8, <1>9, <1>10, <1>11, <1>12, <1>13, <1>14
     DEF Next, Applies

-----------------------------------------------------------------------------
(* What each step of a request leaves, field by field.                     *)

Others(h) == \A k \in Handlers : k # h => handler'[k] = handler[k]
Appended(turns, m) ==
  [i \in DOMAIN turns \cup {Latest(turns) + 1} |-> IF i \in DOMAIN turns THEN turns[i] ELSE m]
Without(turns, m) == [i \in {j \in DOMAIN turns : turns[j] # m} |-> turns[i]]

LEMMA LoadIs ==
  ASSUME Types, NEW h \in Handlers, NEW d \in DBs, NEW op \in Applies, Load(h, op, d)
  PROVE  LET t == handler'[h] IN
         /\ handler[h].at = "new" /\ Others(h)
         /\ t.at = "loaded" /\ t.op = op /\ t.d = d /\ t.slug = slug /\ t.chain = version
         /\ t.sql = text /\ t.todo = {} /\ t.done = {} /\ t.left = {}
         /\ UNCHANGED <<version, text, sealed, slug, table, cached, history, diverged, schema, ran, named>>
<1> DEFINE t == [New EXCEPT !.at = "loaded", !.op = op, !.d = d, !.slug = slug,
                            !.chain = version, !.sql = text]
<1>1. handler[h].at = "new" /\ Step(h, t)
      /\ UNCHANGED <<version, text, sealed, slug, table, cached, history, diverged, schema, ran, named>>
  BY DEF Load, rows, books
<1>2. /\ t.at = "loaded" /\ t.op = op /\ t.d = d /\ t.slug = slug /\ t.chain = version
      /\ t.sql = text /\ t.todo = {} /\ t.done = {} /\ t.left = {}
  BY NewIs DEF HandlerType
<1> HIDE DEF t
<1>3. handler'[h] = t /\ Others(h)
  BY <1>1, StepIs DEF Types, Others
<1> QED
  BY <1>1, <1>2, <1>3

LEMMA RunUpIs ==
  ASSUME Types, NEW h \in Handlers, RunUp(h)
  PROVE  \E d \in DBs, p \in Numbers, next \in Numbers, m \in Migs :
         LET s == handler[h] t == handler'[h] IN
         /\ s.at = "loaded" /\ s.op = "up" /\ s.d = d /\ s.slug \in Slugs /\ p = table[d][s.slug]
         /\ s.chain \in [Migs -> Numbers] /\ s.chain[m] = next /\ next > p
         /\ \A k \in Migs : s.chain[k] > p => s.chain[k] >= next
         /\ Others(h) /\ t.at = "record" /\ t.op = "up" /\ t.d = d /\ t.slug = s.slug /\ t.m = m
         /\ t.chain = s.chain /\ t.sql = s.sql /\ t.done = s.done /\ t.left = s.left
         /\ \A e \in DBs, n \in Slugs :
              table'[e][n] = IF e = d /\ n = s.slug THEN next ELSE table[e][n]
         /\ schema'[d] = Appended(schema[d], m) /\ ran'[d] = ran[d] \cup {<<m, s.sql[m]>>}
         /\ \A e \in DBs \ {d} : schema'[e] = schema[e] /\ ran'[e] = ran[e]
         /\ UNCHANGED <<version, text, sealed, slug, cached, history, diverged, named, excused, blurred>>
<1> DEFINE s == handler[h]
           d == s.d
           p == table[d][s.slug]
           next == Min(Above(s.chain, p))
           m == Holder(s.chain, next)
           t == [s EXCEPT !.at = "record", !.m = m]
<1>1. s.op = "up" /\ s.at = "loaded" /\ d \in DBs /\ p \in Numbers
      /\ s.chain \in [Migs -> Numbers] /\ s.slug \in Slugs /\ s \in HandlerType
  BY Reads DEF RunUp, Applies
<1>2. /\ next \in Numbers /\ next > p /\ m \in Migs /\ s.chain[m] = next
      /\ \A k \in Migs : s.chain[k] > p => s.chain[k] >= next
  BY <1>1, NextUp DEF RunUp
<1>3. /\ table' = [table EXCEPT ![d][s.slug] = next]
      /\ schema' = [schema EXCEPT ![d] = Appended(schema[d], m)]
      /\ ran' = [ran EXCEPT ![d] = ran[d] \cup {<<m, s.sql[m]>>}]
      /\ Step(h, t)
      /\ UNCHANGED <<version, text, sealed, slug, cached, history, diverged, named, excused, blurred>>
  BY DEF RunUp, Point, Appended, rows, books
<1> HIDE DEF m, next, p
<1>4. /\ t.at = "record" /\ t.op = "up" /\ t.d = d /\ t.slug = s.slug /\ t.m = m
      /\ t.chain = s.chain /\ t.sql = s.sql /\ t.done = s.done /\ t.left = s.left
  BY <1>1 DEF HandlerType
<1> HIDE DEF t
<1>5. handler'[h] = t /\ Others(h)
  BY <1>3, StepIs DEF Types, Others
<1>6. \A e \in DBs, n \in Slugs : table'[e][n] = IF e = d /\ n = s.slug THEN next ELSE table[e][n]
  BY <1>1, <1>3 DEF Types, TypeOK
<1>7. /\ schema'[d] = Appended(schema[d], m) /\ ran'[d] = ran[d] \cup {<<m, s.sql[m]>>}
      /\ \A e \in DBs \ {d} : schema'[e] = schema[e] /\ ran'[e] = ran[e]
  BY <1>1, <1>3 DEF Types, TypeOK
<1>8. p = table[d][s.slug]
  BY DEF p
<1> d \in DBs /\ p \in Numbers /\ next \in Numbers /\ m \in Migs
  BY <1>1, <1>2
<1> WITNESS d \in DBs, p \in Numbers, next \in Numbers, m \in Migs
<1> QED
  BY <1>1, <1>2, <1>3, <1>4, <1>5, <1>6, <1>7, <1>8

LEMMA RunDownIs ==
  ASSUME Types, NEW h \in Handlers, RunDown(h)
  PROVE  \E d \in DBs, p \in Numbers, next \in Numbers, m \in Migs :
         LET s == handler[h] t == handler'[h] IN
         /\ s.at = "loaded" /\ s.op = "down" /\ s.d = d /\ s.slug \in Slugs /\ p = table[d][s.slug]
         /\ s.chain \in [Migs -> Numbers] /\ s.chain[m] = p /\ p # 0 /\ next < p
         /\ next = 0 \/ \E k \in Migs : s.chain[k] = next
         /\ \A k \in Migs : s.chain[k] < p => s.chain[k] <= next
         /\ Others(h) /\ t.at = "record" /\ t.op = "down" /\ t.d = d /\ t.slug = s.slug /\ t.m = m
         /\ t.chain = s.chain /\ t.sql = s.sql /\ t.done = s.done /\ t.left = s.left
         /\ \A e \in DBs, n \in Slugs :
              table'[e][n] = IF e = d /\ n = s.slug THEN next ELSE table[e][n]
         /\ schema'[d] = Without(schema[d], m) /\ ran'[d] = ran[d] \ ({m} \X Texts)
         /\ \A e \in DBs \ {d} : schema'[e] = schema[e] /\ ran'[e] = ran[e]
         /\ UNCHANGED <<version, text, sealed, slug, cached, history, diverged, named, excused, blurred>>
<1> DEFINE s == handler[h]
           d == s.d
           p == table[d][s.slug]
           m == Holder(s.chain, p)
           next == Max(Below(s.chain, p) \cup {0})
           t == [s EXCEPT !.at = "record", !.m = m]
<1>1. s.op = "down" /\ s.at = "loaded" /\ d \in DBs /\ p \in Numbers /\ p # 0
      /\ s.chain \in [Migs -> Numbers] /\ s.slug \in Slugs /\ s \in HandlerType
  BY Reads DEF RunDown, Applies
<1>2. /\ next \in Numbers /\ next < p /\ m \in Migs /\ s.chain[m] = p
      /\ next = 0 \/ \E k \in Migs : s.chain[k] = next
      /\ \A k \in Migs : s.chain[k] < p => s.chain[k] <= next
  BY <1>1, NextDown DEF RunDown
<1>3. /\ table' = [table EXCEPT ![d][s.slug] = next]
      /\ schema' = [schema EXCEPT ![d] = Without(schema[d], m)]
      /\ ran' = [ran EXCEPT ![d] = ran[d] \ ({m} \X Texts)]
      /\ Step(h, t)
      /\ UNCHANGED <<version, text, sealed, slug, cached, history, diverged, named, excused, blurred>>
  BY DEF RunDown, Point, Without, rows, books
<1> HIDE DEF m, next, p
<1>4. /\ t.at = "record" /\ t.op = "down" /\ t.d = d /\ t.slug = s.slug /\ t.m = m
      /\ t.chain = s.chain /\ t.sql = s.sql /\ t.done = s.done /\ t.left = s.left
  BY <1>1 DEF HandlerType
<1> HIDE DEF t
<1>5. handler'[h] = t /\ Others(h)
  BY <1>3, StepIs DEF Types, Others
<1>6. \A e \in DBs, n \in Slugs : table'[e][n] = IF e = d /\ n = s.slug THEN next ELSE table[e][n]
  BY <1>1, <1>3 DEF Types, TypeOK
<1>7. /\ schema'[d] = Without(schema[d], m) /\ ran'[d] = ran[d] \ ({m} \X Texts)
      /\ \A e \in DBs \ {d} : schema'[e] = schema[e] /\ ran'[e] = ran[e]
  BY <1>1, <1>3 DEF Types, TypeOK
<1>8. p = table[d][s.slug]
  BY DEF p
<1> d \in DBs /\ p \in Numbers /\ next \in Numbers /\ m \in Migs
  BY <1>1, <1>2
<1> WITNESS d \in DBs, p \in Numbers, next \in Numbers, m \in Migs
<1> QED
  BY <1>1, <1>2, <1>3, <1>4, <1>5, <1>6, <1>7, <1>8

\* A request that ends, answered or not.
LEMMA OverIs ==
  ASSUME Types, NEW h \in Handlers,
         Refuse(h) \/ Record(h) \/ WriteEdit(h) \/ Renumber(h) \/ Rename(h) \/ RenameFails(h)
         \/ Report(h) \/ Crash(h)
  PROVE  LET t == handler'[h] IN
         /\ Others(h) /\ t.at = "over" /\ t.op = "none" /\ t.d = 0 /\ t.done = {} /\ t.left = {}
         /\ \A m \in Migs : t.chain[m] = 0
<1>1. Step(h, Over)
  BY DEF Refuse, Record, WriteEdit, Renumber, Rename, RenameFails, Report, Crash
<1> QED
  BY <1>1, StepIs, NewIs DEF Types, Others

LEMMA EditIs ==
  ASSUME Types, NEW h \in Handlers, NEW m \in Migs, NEW deaf \in SUBSET DBs, BeginEdit(h, m, deaf)
  PROVE  LET t == handler'[h] IN
         /\ handler[h].at = "new" /\ Others(h) /\ version[m] # 0
         /\ t.at = "edit" /\ t.op = "edit" /\ t.m = m /\ t.done = {} /\ t.left = {}
         /\ \A k \in Migs : t.chain[k] = 0
         /\ UNCHANGED <<version, text, sealed, slug, table, cached, history, schema, ran, named, excused>>
<1> DEFINE t == [New EXCEPT !.at = "edit", !.op = "edit", !.m = m, !.number = version[m]]
<1>1. handler[h].at = "new" /\ Step(h, t) /\ version[m] # 0
      /\ UNCHANGED <<version, text, sealed, slug, table, cached, history, schema, ran, named, excused>>
  BY DEF BeginEdit, rows, Rows
<1>2. /\ t.at = "edit" /\ t.op = "edit" /\ t.m = m /\ t.done = {} /\ t.left = {}
      /\ \A k \in Migs : t.chain[k] = 0
  BY NewIs DEF HandlerType
<1> HIDE DEF t
<1>3. handler'[h] = t /\ Others(h)
  BY <1>1, StepIs DEF Types, Others
<1> QED
  BY <1>1, <1>2, <1>3

LEMMA DeleteIs ==
  ASSUME Types, NEW h \in Handlers, NEW m \in Migs, NEW deaf \in SUBSET DBs, PlanDelete(h, m, deaf)
  PROVE  LET t == handler'[h] IN
         /\ handler[h].at = "new" /\ Others(h) /\ version[m] # 0 /\ Blockers(m, deaf) = {}
         /\ t.at = "move" /\ t.op = "delete" /\ t.slug = slug /\ t.number = version[m]
         /\ t.chain = version /\ t.todo = Ahead(m) /\ t.done = {} /\ t.left = {}
         /\ t.later = {n \in Versions : n > version[m]}
         /\ \A d \in DBs : t.from[d] = IF d \in Ahead(m) THEN Pointer(d) ELSE 0
         /\ excused' = excused \cup Overlap
         /\ UNCHANGED <<version, text, sealed, slug, table, cached, history, diverged, schema, ran, named, blurred>>
<1> DEFINE from == [d \in DBs |-> IF d \in Ahead(m) THEN Pointer(d) ELSE 0]
           later == {n \in Versions : n > version[m]}
           plan == [New EXCEPT !.op = "delete", !.m = m, !.number = version[m], !.chain = version,
                               !.from = from, !.later = later]
           t == [plan EXCEPT !.at = "move", !.slug = slug, !.todo = Ahead(m)]
<1>1. handler[h].at = "new" /\ Begin(h, plan, Ahead(m)) /\ version[m] # 0 /\ Blockers(m, deaf) = {}
  BY DEF PlanDelete, Rows
<1>2. /\ Step(h, t) /\ excused' = excused \cup Overlap
      /\ UNCHANGED <<version, text, sealed, slug, table, cached, history, diverged, schema, ran, named, blurred>>
  BY <1>1 DEF Begin, rows, books
<1>3. \A d \in DBs : from[d] = IF d \in Ahead(m) THEN Pointer(d) ELSE 0
  OBVIOUS
<1> HIDE DEF from
<1>4. /\ t.at = "move" /\ t.op = "delete" /\ t.slug = slug /\ t.number = version[m]
      /\ t.chain = version /\ t.todo = Ahead(m) /\ t.done = {} /\ t.left = {}
      /\ t.later = later /\ t.from = from
  BY NewIs DEF HandlerType
<1> HIDE DEF t
<1>5. handler'[h] = t /\ Others(h)
  BY <1>2, StepIs DEF Types, Others
<1> QED
  BY <1>1, <1>2, <1>3, <1>4, <1>5

LEMMA RenameIs ==
  ASSUME Types, NEW h \in Handlers, NEW to \in Slugs, PlanRename(h, to)
  PROVE  LET t == handler'[h] IN
         /\ handler[h].at = "new" /\ Others(h) /\ to # slug
         /\ t.at = "move" /\ t.op = "rename" /\ t.slug = slug /\ t.to = to
         /\ t.todo = {d \in DBs : Pointer(d) # 0} /\ t.done = {} /\ t.left = {}
         /\ \A k \in Migs : t.chain[k] = 0
         /\ excused' = excused \cup Overlap
         /\ UNCHANGED <<version, text, sealed, slug, table, cached, history, diverged, schema, ran, named, blurred>>
<1> DEFINE todo == {d \in DBs : Pointer(d) # 0}
           plan == [New EXCEPT !.op = "rename", !.to = to]
           t == [plan EXCEPT !.at = "move", !.slug = slug, !.todo = todo]
<1>1. handler[h].at = "new" /\ Begin(h, plan, todo) /\ to # slug
  BY DEF PlanRename
<1>2. /\ Step(h, t) /\ excused' = excused \cup Overlap
      /\ UNCHANGED <<version, text, sealed, slug, table, cached, history, diverged, schema, ran, named, blurred>>
  BY <1>1 DEF Begin, rows, books
<1>4. /\ t.at = "move" /\ t.op = "rename" /\ t.slug = slug /\ t.to = to
      /\ t.todo = todo /\ t.done = {} /\ t.left = {} /\ \A k \in Migs : t.chain[k] = 0
  BY NewIs DEF HandlerType
<1> HIDE DEF t
<1>5. handler'[h] = t /\ Others(h)
  BY <1>2, StepIs DEF Types, Others
<1> QED
  BY <1>1, <1>2, <1>4, <1>5

\* One call of a move: done, not done, or done and its answer lost.
LEMMA MoveIs ==
  ASSUME Types, NEW h \in Handlers, Move(h)
  PROVE  \E d \in DBs :
         LET s == handler[h] t == handler'[h] IN
         /\ Moving(h) /\ s.at = "move" /\ d \in s.todo /\ d \notin s.done /\ Others(h)
         /\ t.op = s.op /\ t.slug = s.slug /\ t.to = s.to /\ t.number = s.number /\ t.from = s.from
         /\ t.later = s.later /\ t.chain = s.chain /\ t.left = s.left /\ t.d = s.d
         /\ \/ /\ t.at = "move" /\ t.todo = s.todo \ {d} /\ t.done = s.done \cup {d}
               /\ CanForth(s, d) /\ table'[d] = Forth(s, d) /\ excused' = excused
            \/ /\ t.at = "undo" /\ t.todo = s.todo /\ t.done = s.done
               /\ \/ table'[d] = table[d] /\ excused' = excused
                  \/ excused' = excused \cup {d}
         /\ \A e \in DBs \ {d} : table'[e] = table[e]
         /\ UNCHANGED <<version, text, sealed, slug, cached, history, diverged, schema, ran, named, blurred>>
<1> DEFINE s == handler[h]
           d == Min(s.todo)
           ahead == [s EXCEPT !.todo = @ \ {d}, !.done = @ \cup {d}]
           undo == [s EXCEPT !.at = "undo"]
<1>1. Moving(h) /\ s.at = "move" /\ s.todo # {} /\ s \in HandlerType /\ Shape(s)
  BY DEF Move, Types, TypeOK
<1>2. d \in s.todo /\ d \in DBs /\ d \notin s.done
  BY <1>1, FirstAndLast DEF HandlerType, Shape
<1>3. \/ CanForth(s, d) /\ table' = [table EXCEPT ![d] = Forth(s, d)] /\ Step(h, ahead)
         /\ excused' = excused
      \/ Step(h, undo) /\ table' = table /\ excused' = excused
      \/ Step(h, undo) /\ table' = [table EXCEPT ![d] = Forth(s, d)] /\ excused' = excused \cup {d}
  BY DEF Move
<1>4. UNCHANGED <<version, text, sealed, slug, cached, history, diverged, schema, ran, named, blurred>>
  BY DEF Move, rows, books
<1> HIDE DEF d
<1>5. LET t == ahead IN
      /\ t.op = s.op /\ t.slug = s.slug /\ t.to = s.to /\ t.number = s.number /\ t.from = s.from
      /\ t.later = s.later /\ t.chain = s.chain /\ t.left = s.left /\ t.d = s.d
      /\ t.at = "move" /\ t.todo = s.todo \ {d} /\ t.done = s.done \cup {d}
  BY <1>1 DEF HandlerType
<1>6. LET t == undo IN
      /\ t.op = s.op /\ t.slug = s.slug /\ t.to = s.to /\ t.number = s.number /\ t.from = s.from
      /\ t.later = s.later /\ t.chain = s.chain /\ t.left = s.left /\ t.d = s.d
      /\ t.at = "undo" /\ t.todo = s.todo /\ t.done = s.done
  BY <1>1 DEF HandlerType
<1> HIDE DEF ahead, undo
<1>7. Others(h) /\ (Step(h, ahead) => handler'[h] = ahead) /\ (Step(h, undo) => handler'[h] = undo)
  BY <1>3, StepIs DEF Types, Others
<1>8. table \in [DBs -> [Slugs -> Numbers]]
  BY DEF Types, TypeOK
<1>9. \A e \in DBs \ {d} : table'[e] = table[e]
  BY <1>2, <1>3, <1>8
<1>10. \/ table' = table
       \/ table'[d] = Forth(s, d)
  BY <1>2, <1>3, <1>8
<1>11. CASE Step(h, ahead) /\ CanForth(s, d) /\ excused' = excused /\ table'[d] = Forth(s, d)
  BY <1>1, <1>2, <1>4, <1>5, <1>7, <1>9, <1>11
<1>12. CASE Step(h, undo) /\ ((table' = table /\ excused' = excused) \/ excused' = excused \cup {d})
  BY <1>1, <1>2, <1>4, <1>6, <1>7, <1>9, <1>12
<1>13. CanForth(s, d) /\ table' = [table EXCEPT ![d] = Forth(s, d)] => table'[d] = Forth(s, d)
  BY <1>2, <1>8
<1> QED
  BY <1>3, <1>11, <1>12, <1>13

LEMMA FailIs ==
  ASSUME Types, NEW h \in Handlers, RenumberFails(h)
  PROVE  LET s == handler[h] t == handler'[h] IN
         /\ Moving(h) /\ s.op = "delete" /\ s.at = "move" /\ s.todo = {} /\ Others(h)
         /\ t.op = s.op /\ t.slug = s.slug /\ t.to = s.to /\ t.number = s.number /\ t.from = s.from
         /\ t.later = s.later /\ t.chain = s.chain /\ t.left = s.left /\ t.d = s.d
         /\ t.at = "undo" /\ t.todo = s.todo /\ t.done = s.done
         /\ UNCHANGED <<version, text, sealed, slug, table, cached, history, diverged, schema, ran,
                        named, excused, blurred>>
<1> DEFINE s == handler[h]
           t == [s EXCEPT !.at = "undo"]
<1>1. s.op = "delete" /\ s.at = "move" /\ s.todo = {} /\ Step(h, t) /\ s \in HandlerType
      /\ UNCHANGED <<version, text, sealed, slug, table, cached, history, diverged, schema, ran,
                     named, excused, blurred>>
  BY DEF RenumberFails, rows, books, ghosts, Types, TypeOK
<1>2. /\ t.op = s.op /\ t.slug = s.slug /\ t.to = s.to /\ t.number = s.number /\ t.from = s.from
      /\ t.later = s.later /\ t.chain = s.chain /\ t.left = s.left /\ t.d = s.d
      /\ t.at = "undo" /\ t.todo = s.todo /\ t.done = s.done
  BY <1>1 DEF HandlerType
<1> HIDE DEF t
<1>3. handler'[h] = t /\ Others(h)
  BY <1>1, StepIs DEF Types, Others
<1> QED
  BY <1>1, <1>2, <1>3 DEF Moving

\* One database given back, or left.
LEMMA UndoIs ==
  ASSUME Types, NEW h \in Handlers, Undo(h)
  PROVE  \E d \in DBs :
         LET s == handler[h] t == handler'[h] IN
         /\ Moving(h) /\ s.at = "undo" /\ d \in s.done /\ Others(h)
         /\ t.op = s.op /\ t.slug = s.slug /\ t.to = s.to /\ t.number = s.number /\ t.from = s.from
         /\ t.later = s.later /\ t.chain = s.chain /\ t.d = s.d /\ t.at = "undo" /\ t.todo = s.todo
         /\ t.done = s.done \ {d}
         /\ \/ t.left = s.left /\ table'[d] = Back(s, d) /\ CanBack(s, d)
            \/ t.left = s.left \cup {d}
         /\ \A e \in DBs \ {d} : table'[e] = table[e]
         /\ UNCHANGED <<version, text, sealed, slug, cached, history, diverged, schema, ran, named,
                        excused, blurred>>
<1> DEFINE s == handler[h]
           d == Max(s.done)
           back == [s EXCEPT !.done = @ \ {d}]
           left == [s EXCEPT !.done = @ \ {d}, !.left = @ \cup {d}]
<1>1. Moving(h) /\ s.at = "undo" /\ s.done # {} /\ s \in HandlerType
  BY DEF Undo, Types, TypeOK
<1>2. d \in s.done /\ d \in DBs
  BY <1>1, FirstAndLast DEF HandlerType
<1>3. \/ CanBack(s, d) /\ table' = [table EXCEPT ![d] = Back(s, d)] /\ Step(h, back)
      \/ Step(h, left) /\ table' = table
      \/ Step(h, left) /\ table' = [table EXCEPT ![d] = Back(s, d)]
  BY DEF Undo
<1>4. UNCHANGED <<version, text, sealed, slug, cached, history, diverged, schema, ran, named,
                  excused, blurred>>
  BY DEF Undo, rows, books, ghosts
<1> HIDE DEF d
<1>5. LET t == back IN
      /\ t.op = s.op /\ t.slug = s.slug /\ t.to = s.to /\ t.number = s.number /\ t.from = s.from
      /\ t.later = s.later /\ t.chain = s.chain /\ t.d = s.d /\ t.at = "undo" /\ t.todo = s.todo
      /\ t.done = s.done \ {d} /\ t.left = s.left
  BY <1>1 DEF HandlerType
<1>6. LET t == left IN
      /\ t.op = s.op /\ t.slug = s.slug /\ t.to = s.to /\ t.number = s.number /\ t.from = s.from
      /\ t.later = s.later /\ t.chain = s.chain /\ t.d = s.d /\ t.at = "undo" /\ t.todo = s.todo
      /\ t.done = s.done \ {d} /\ t.left = s.left \cup {d}
  BY <1>1 DEF HandlerType
<1> HIDE DEF back, left
<1>7. Others(h) /\ (Step(h, back) => handler'[h] = back) /\ (Step(h, left) => handler'[h] = left)
  BY <1>3, StepIs DEF Types, Others
<1>8. table \in [DBs -> [Slugs -> Numbers]]
  BY DEF Types, TypeOK
<1>9. \A e \in DBs \ {d} : table'[e] = table[e]
  BY <1>2, <1>3, <1>8
<1>10. table' = [table EXCEPT ![d] = Back(s, d)] => table'[d] = Back(s, d)
  BY <1>2, <1>8
<1>11. CASE Step(h, back) /\ CanBack(s, d) /\ table'[d] = Back(s, d)
  BY <1>1, <1>2, <1>4, <1>5, <1>7, <1>9, <1>11
<1>12. CASE Step(h, left)
  BY <1>1, <1>2, <1>4, <1>6, <1>7, <1>9, <1>12
<1> QED
  BY <1>3, <1>10, <1>11, <1>12

-----------------------------------------------------------------------------
(* Ids never used, and numbers used once.                                  *)

LEMMA FreshInit == Init => Fresh
<1> SUFFICES ASSUME Init PROVE Fresh
  OBVIOUS
<1>0. Types
  BY TypesInit
<1>1. ASSUME NEW m \in Migs, sealed[m][1] = 0
      PROVE  /\ version[m] = 0 /\ text[m] = 0 /\ \A d \in DBs : ~Has(schema[d], m)
             /\ \A h \in Handlers : handler[h].chain[m] = 0
  <2>1. version[m] = 0 /\ text[m] = 0 /\ m > Top
    BY <1>1, Naturals DEF Init
  <2>2. ASSUME NEW d \in DBs PROVE ~Has(schema[d], m)
    <3>1. schema[d] = [i \in 1..cached[d] |-> i] /\ cached[d] \in 0..Top
      BY DEF Init
    <3> QED
      BY <2>1, <3>1, Naturals DEF Has
  <2> QED
    BY <2>1, <2>2, NewIs DEF Init
<1>2. \A m, k \in Migs : version[m] # 0 /\ version[m] = version[k] => m = k
  BY Naturals DEF Init
<1>3. ASSUME NEW d \in DBs, NEW r \in ran[d] PROVE Has(schema[d], r[1])
  <2>1. ran[d] \subseteq (1..cached[d]) \X {0} /\ schema[d] = [i \in 1..cached[d] |-> i]
    BY DEF Init
  <2> QED
    BY <2>1 DEF Has
<1> QED
  BY <1>1, <1>2, <1>3 DEF Fresh

LEMMA AppendedHas ==
  ASSUME NEW turns, DOMAIN turns \subseteq Nat, IsFiniteSet(DOMAIN turns), NEW m
  PROVE  /\ \A k : Has(Appended(turns, m), k) <=> Has(turns, k) \/ k = m
         /\ \A k : Has(Without(turns, m), k) <=> Has(turns, k) /\ k # m
<1> DEFINE n == Latest(turns) + 1
<1>1. n \notin DOMAIN turns
  BY LatestIs
<1>2. /\ DOMAIN Appended(turns, m) = DOMAIN turns \cup {n}
      /\ Appended(turns, m)[n] = m /\ \A i \in DOMAIN turns : Appended(turns, m)[i] = turns[i]
  BY <1>1 DEF Appended
<1>3. /\ DOMAIN Without(turns, m) = {j \in DOMAIN turns : turns[j] # m}
      /\ \A i \in DOMAIN Without(turns, m) : Without(turns, m)[i] = turns[i]
  BY DEF Without
<1> QED
  BY <1>2, <1>3 DEF Has

\* What every action but those on the rows and the runs leaves alone.
LEMMA FreshKept ==
  ASSUME Types, Fresh, UNCHANGED <<version, text, sealed, schema, ran>>,
         \A k \in Handlers : \/ handler'[k].chain = handler[k].chain
                             \/ handler'[k].chain = version
                             \/ \A m \in Migs : handler'[k].chain[m] = 0
  PROVE  Fresh'
  BY DEF Fresh

LEMMA FreshStep == Types /\ Fresh /\ Next => Fresh'
<1> SUFFICES ASSUME Types, Fresh, Next PROVE Fresh'
  OBVIOUS
<1>0. TypeOK
  BY DEF Types
<1>1. ASSUME NEW m \in Migs, NEW v \in 1..MaxVersion, Create(m, v) PROVE Fresh'
  <2>1. /\ version' = [version EXCEPT ![m] = v] /\ sealed' = [sealed EXCEPT ![m] = <<v, 0>>]
        /\ UNCHANGED <<text, schema, ran, handler>> /\ v # 0 /\ v \notin Versions
    BY <1>1 DEF Create
  <2>2. /\ version'[m] = v /\ sealed'[m][1] = v
        /\ \A k \in Migs : k # m => version'[k] = version[k] /\ sealed'[k] = sealed[k]
    BY <1>0, <2>1 DEF TypeOK
  <2>3. \A k, l \in Migs : version'[k] # 0 /\ version'[k] = version'[l] => k = l
    <3>1. \A k \in Migs : version[k] # v
      BY <2>1 DEF Versions, Rows
    <3> QED
      BY <2>2, <3>1 DEF Fresh
  <2> QED
    BY <2>1, <2>2, <2>3 DEF Fresh
<1>2. ASSUME NEW h \in Handlers, NEW d \in DBs, NEW op \in Applies, Load(h, op, d) PROVE Fresh'
  BY <1>2, LoadIs, FreshKept DEF Others
<1>3. ASSUME NEW h \in Handlers, RunUp(h) PROVE Fresh'
  <2>1. PICK d \in DBs, p \in Numbers, next \in Numbers, m \in Migs :
        LET s == handler[h] t == handler'[h] IN
        /\ s.chain[m] = next /\ next > p /\ Others(h) /\ t.chain = s.chain
        /\ schema'[d] = Appended(schema[d], m) /\ ran'[d] = ran[d] \cup {<<m, s.sql[m]>>}
        /\ \A e \in DBs \ {d} : schema'[e] = schema[e] /\ ran'[e] = ran[e]
        /\ UNCHANGED <<version, text, sealed>>
    BY <1>3, RunUpIs
  <2>2. handler[h].chain[m] # 0
    BY <2>1, Naturals
  <2>3. sealed[m][1] # 0
    BY <2>2 DEF Fresh
  <2>4. DOMAIN schema[d] \subseteq Nat /\ IsFiniteSet(DOMAIN schema[d])
    BY <1>0 DEF TypeOK
  <2>5. \A k : Has(schema'[d], k) <=> Has(schema[d], k) \/ k = m
    BY <2>1, <2>4, AppendedHas
  <2>6. \A k \in Handlers : handler'[k].chain = handler[k].chain
    BY <2>1 DEF Others
  <2>7. \A e \in DBs : \A r \in ran'[e] : Has(schema'[e], r[1])
    BY <2>1, <2>5 DEF Fresh
  <2>8. \A k \in Migs : sealed[k][1] = 0 => \A e \in DBs : ~Has(schema'[e], k)
    BY <2>1, <2>3, <2>5 DEF Fresh
  <2> QED
    BY <2>1, <2>6, <2>7, <2>8 DEF Fresh
<1>4. ASSUME NEW h \in Handlers, RunDown(h) PROVE Fresh'
  <2>1. PICK d \in DBs, p \in Numbers, next \in Numbers, m \in Migs :
        LET s == handler[h] t == handler'[h] IN
        /\ Others(h) /\ t.chain = s.chain
        /\ schema'[d] = Without(schema[d], m) /\ ran'[d] = ran[d] \ ({m} \X Texts)
        /\ \A e \in DBs \ {d} : schema'[e] = schema[e] /\ ran'[e] = ran[e]
        /\ UNCHANGED <<version, text, sealed>>
    BY <1>4, RunDownIs
  <2>4. DOMAIN schema[d] \subseteq Nat /\ IsFiniteSet(DOMAIN schema[d])
    BY <1>0 DEF TypeOK
  <2>5. \A k : Has(schema'[d], k) <=> Has(schema[d], k) /\ k # m
    BY <2>1, <2>4, AppendedHas
  <2>6. \A k \in Handlers : handler'[k].chain = handler[k].chain
    BY <2>1 DEF Others
  <2>7. ASSUME NEW e \in DBs, NEW r \in ran'[e] PROVE Has(schema'[e], r[1])
    <3>1. CASE e # d
      BY <2>1, <2>7, <3>1 DEF Fresh
    <3>2. CASE e = d
      <4>1. r \in ran[d] /\ r \notin {m} \X Texts /\ r \in Migs \X Texts
        BY <1>0, <2>1, <2>7, <3>2 DEF TypeOK
      <4>2. r[1] # m
        BY <4>1
      <4> QED
        BY <2>5, <3>2, <4>1, <4>2 DEF Fresh
    <3> QED
      BY <3>1, <3>2
  <2>8. \A k \in Migs : sealed[k][1] = 0 => \A e \in DBs : ~Has(schema'[e], k)
    BY <2>1, <2>5 DEF Fresh
  <2> QED
    BY <2>1, <2>6, <2>7, <2>8 DEF Fresh
<1>5. ASSUME NEW h \in Handlers,
             Refuse(h) \/ Record(h) \/ Rename(h) \/ RenameFails(h) \/ Report(h) \/ Crash(h)
      PROVE  Fresh'
  <2>1. UNCHANGED <<version, text, sealed, schema, ran>>
    BY <1>5 DEF Refuse, Record, Rename, RenameFails, Report, Crash, rows, ghosts
  <2> QED
    BY <1>5, <2>1, OverIs, FreshKept DEF Others
<1>6. ASSUME NEW h \in Handlers, NEW m \in Migs, NEW deaf \in SUBSET DBs, BeginEdit(h, m, deaf)
      PROVE  Fresh'
  <2>1. UNCHANGED <<version, text, sealed, schema, ran>> /\ Others(h)
        /\ \A k \in Migs : handler'[h].chain[k] = 0
    BY <1>6, EditIs
  <2> QED
    BY <2>1, FreshKept DEF Others
<1>7. ASSUME NEW h \in Handlers, WriteEdit(h) PROVE Fresh'
  <2>1. handler[h].m \in Migs /\ version[handler[h].m] # 0 /\ handler[h].number # 0
    BY <1>7 DEF WriteEdit, Rows, Types, Shape, Editing
  <2>2. /\ sealed'[handler[h].m][1] # 0
        /\ \A k \in Migs \ {handler[h].m} : text'[k] = text[k] /\ sealed'[k] = sealed[k]
        /\ UNCHANGED <<version, schema, ran>>
    BY <1>0, <1>7, <2>1 DEF WriteEdit, TypeOK, ghosts
  <2>3. \A k \in Handlers : handler'[k].chain = handler[k].chain
                            \/ \A m \in Migs : handler'[k].chain[m] = 0
    BY <1>7, OverIs DEF Others
  <2> QED
    BY <2>2, <2>3 DEF Fresh
<1>8. ASSUME NEW h \in Handlers, NEW m \in Migs, NEW deaf \in SUBSET DBs, PlanDelete(h, m, deaf)
      PROVE  Fresh'
  <2>1. UNCHANGED <<version, text, sealed, schema, ran>> /\ Others(h) /\ handler'[h].chain = version
    BY <1>8, DeleteIs
  <2> QED
    BY <2>1, FreshKept DEF Others
<1>9. ASSUME NEW h \in Handlers, NEW to \in Slugs, PlanRename(h, to) PROVE Fresh'
  <2>1. UNCHANGED <<version, text, sealed, schema, ran>> /\ Others(h)
        /\ \A k \in Migs : handler'[h].chain[k] = 0
    BY <1>9, RenameIs
  <2> QED
    BY <2>1, FreshKept DEF Others
<1>10. ASSUME NEW h \in Handlers, Move(h) \/ RenumberFails(h) \/ Undo(h) PROVE Fresh'
  <2>1. UNCHANGED <<version, text, sealed, schema, ran>> /\ Others(h)
        /\ handler'[h].chain = handler[h].chain
    BY <1>10, MoveIs, FailIs, UndoIs
  <2> QED
    BY <2>1, FreshKept DEF Others
<1>11. ASSUME NEW h \in Handlers, Renumber(h) PROVE Fresh'
  <2> DEFINE s == handler[h]
  <2>1. s \in HandlerType /\ s.number \in Nat /\ s.later \subseteq Nat /\ s.number # 0
        /\ \A n \in s.later : n > s.number
    BY <1>11, Naturals DEF Types, TypeOK, HandlerType, Renumber, Shape
  <2>2. /\ version' = Renumbered(s) /\ Renumbers(s) /\ UNCHANGED <<text, schema, ran>>
        /\ sealed' = [m \in Migs |-> IF version[m] \in s.later THEN <<version[m] - 1, text[m]>>
                                     ELSE sealed[m]]
    BY <1>11 DEF Renumber, ghosts
  <2>3. \A m, k \in Migs : version'[m] # 0 /\ version'[m] = version'[k] => m = k
    BY <2>2 DEF Renumbers
  <2> HIDE DEF s
  <2>4. ASSUME NEW m \in Migs, sealed'[m][1] = 0 PROVE sealed[m][1] = 0 /\ version'[m] = 0
    <3>1. version[m] \notin s.later
      <4>1. SUFFICES ASSUME version[m] \in s.later PROVE FALSE
        OBVIOUS
      <4>2. version[m] - 1 # 0
        BY <2>1, <4>1
      <4> QED
        BY <2>2, <2>4, <4>1, <4>2
    <3>2. sealed[m][1] = 0
      BY <2>2, <2>4, <3>1
    <3>3. version[m] = 0
      BY <3>2 DEF Fresh
    <3> QED
      BY <2>1, <2>2, <3>1, <3>2, <3>3 DEF Renumbered
  <2>5. \A k \in Handlers : handler'[k].chain = handler[k].chain
                            \/ \A m \in Migs : handler'[k].chain[m] = 0
    BY <1>11, OverIs DEF Others
  <2> QED
    BY <2>2, <2>3, <2>4, <2>5 DEF Fresh
<1> QED
  BY <1>1, <1>2, <1>3, <1>4, <1>5, <1>6, <1>7, <1>8, <1>9, <1>10, <1>11 DEF Next, Applies

-----------------------------------------------------------------------------
(* Who overlaps is excused, and who is sure was sure before.               *)

\* A request that has not begun, or is over, is no operation.
LEMMA Idle ==
  ASSUME Types, NEW h \in Handlers, handler[h].at \in {"new", "over"}
  PROVE  handler[h].op = "none" /\ handler[h].done = {} /\ handler[h].left = {}
  BY DEF Types, TypeOK, HandlerType, Shape, Applies, Moves

LEMMA AloneKept ==
  ASSUME Alone, excused \subseteq excused', excused' \subseteq DBs,
         \A k \in Handlers : \/ handler'[k].op = handler[k].op /\ handler'[k].d = handler[k].d
                             \/ handler'[k].op \notin Moves \cup Applies
  PROVE  Alone'
  BY DEF Alone, Moving, Moves, Applies

LEMMA AloneStep == Types /\ Alone /\ Next => Alone'
<1> SUFFICES ASSUME Types, Alone, Next PROVE Alone'
  OBVIOUS
<1>0. TypeOK /\ excused \subseteq DBs /\ excused' \subseteq DBs
  BY TypesStep DEF Types, TypeOK
<1>1. ASSUME NEW m \in Migs, NEW v \in 1..MaxVersion, Create(m, v) PROVE Alone'
  BY <1>0, <1>1, AloneKept DEF Create
<1>2. ASSUME NEW h \in Handlers, NEW d \in DBs, NEW op \in Applies, Load(h, op, d) PROVE Alone'
  <2>1. Others(h) /\ handler'[h].op \in Applies /\ handler'[h].d = d /\ handler[h].op = "none"
        /\ excused \subseteq excused' /\ ((\E k \in Handlers : Moving(k)) => d \in excused')
    <3>1. Others(h) /\ handler'[h].op = op /\ handler'[h].d = d /\ handler[h].at = "new"
      BY <1>2, LoadIs
    <3>2. excused \subseteq excused' /\ ((\E k \in Handlers : Moving(k)) => d \in excused')
      BY <1>2 DEF Load
    <3> QED
      BY <3>1, <3>2, Idle
  <2> QED
    BY <1>0, <2>1 DEF Alone, Others, Moving, Applies
<1>3. ASSUME NEW h \in Handlers, RunUp(h) \/ RunDown(h) PROVE Alone'
  <2>1. Others(h) /\ handler'[h].op = handler[h].op /\ handler'[h].d = handler[h].d
        /\ UNCHANGED excused
    BY <1>3, RunUpIs, RunDownIs
  <2> QED
    BY <1>0, <2>1, AloneKept DEF Others
<1>4. ASSUME NEW h \in Handlers,
             Refuse(h) \/ Record(h) \/ WriteEdit(h) \/ Renumber(h) \/ Rename(h) \/ RenameFails(h)
             \/ Report(h) \/ Crash(h)
      PROVE  Alone'
  <2>1. excused \subseteq excused'
    BY <1>4 DEF Refuse, Record, WriteEdit, Renumber, Rename, RenameFails, Report, Crash, ghosts
  <2>2. Others(h) /\ handler'[h].op = "none"
    BY <1>4, OverIs
  <2> QED
    BY <1>0, <2>1, <2>2, AloneKept DEF Others, Moves, Applies
<1>5. ASSUME NEW h \in Handlers, NEW m \in Migs, NEW deaf \in SUBSET DBs, BeginEdit(h, m, deaf)
      PROVE  Alone'
  <2>1. Others(h) /\ handler'[h].op = "edit" /\ UNCHANGED excused
    BY <1>5, EditIs
  <2> QED
    BY <1>0, <2>1, AloneKept DEF Others, Moves, Applies
<1>6. ASSUME NEW h \in Handlers, handler[h].at = "new", Others(h), handler'[h].op \in Moves,
             excused' = excused \cup Overlap
      PROVE  Alone'
  <2>1. handler[h].op = "none"
    BY <1>6, Idle
  <2>2. \A k \in Handlers : k # h => handler'[k] = handler[k]
    BY <1>6 DEF Others
  <2>3. CASE \E k \in Handlers : Moving(k)
    <3>1. excused' = DBs
      BY <1>0, <1>6, <2>3 DEF Overlap
    <3>2. ASSUME NEW k \in Handlers, handler'[k].op \in Applies PROVE handler'[k].d \in DBs
      BY <3>2, TypesStep DEF Types, Shape
    <3> QED
      BY <3>1, <3>2 DEF Alone
  <2>4. CASE ~\E k \in Handlers : Moving(k)
    <3>1. \A k \in Handlers : k # h => handler'[k].op \notin Moves
      BY <2>2, <2>4 DEF Moving, Moves
    <3>2. ASSUME NEW k \in Handlers, handler'[k].op \in Applies PROVE handler'[k].d \in excused'
      <4>1. handler'[k] = handler[k] /\ handler[k].d \in DBs
        BY <1>6, <2>2, <3>2 DEF Types, Shape, Moves, Applies
      <4> QED
        BY <1>6, <2>4, <3>2, <4>1 DEF Overlap, Busy, Applies
    <3> QED
      BY <3>1, <3>2 DEF Alone, Moving, Moves
  <2> QED
    BY <2>3, <2>4
<1>7. ASSUME NEW h \in Handlers, NEW m \in Migs, NEW deaf \in SUBSET DBs, PlanDelete(h, m, deaf)
      PROVE  Alone'
  BY <1>6, <1>7, DeleteIs DEF Moves
<1>8. ASSUME NEW h \in Handlers, NEW to \in Slugs, PlanRename(h, to) PROVE Alone'
  BY <1>6, <1>8, RenameIs DEF Moves
<1>9. ASSUME NEW h \in Handlers, Move(h) \/ RenumberFails(h) \/ Undo(h) PROVE Alone'
  <2>1. Others(h) /\ handler'[h].op = handler[h].op /\ handler'[h].d = handler[h].d
        /\ excused \subseteq excused'
    BY <1>9, MoveIs, FailIs, UndoIs
  <2> QED
    BY <1>0, <2>1, AloneKept DEF Others
<1> QED
  BY <1>1, <1>2, <1>3, <1>4, <1>5, <1>7, <1>8, <1>9 DEF Next, Applies

\* What excuses a database stays.
LEMMA SureBefore ==
  ASSUME Types, Next, NEW d \in DBs, Sure(d)'
  PROVE  Sure(d)
<1>1. \A h \in Handlers : handler[h].left # {} => handler[h].at = "undo" /\ Moving(h)
  BY DEF Types, TypeOK, HandlerType, Shape, Moving, Moves, Applies
<1>2. excused \subseteq excused' /\ named \subseteq named'
  <2>1. \A h \in Handlers : Move(h) => excused \subseteq excused' /\ UNCHANGED named
    BY MoveIs
  <2>2. ASSUME NEW h \in Handlers, NEW m \in Migs, NEW deaf \in SUBSET DBs,
               BeginEdit(h, m, deaf) \/ PlanDelete(h, m, deaf)
        PROVE  excused \subseteq excused' /\ UNCHANGED named
    BY <2>2, EditIs, DeleteIs
  <2>3. ASSUME NEW h \in Handlers, NEW to \in Slugs, PlanRename(h, to)
        PROVE  excused \subseteq excused' /\ UNCHANGED named
    BY <2>3, RenameIs
  <2>4. \A h \in Handlers : RunUp(h) \/ RunDown(h) \/ RenumberFails(h) \/ Undo(h) =>
          UNCHANGED <<excused, named>>
    BY RunUpIs, RunDownIs, FailIs, UndoIs
  <2>5. ASSUME NEW h \in Handlers,
               Refuse(h) \/ Record(h) \/ WriteEdit(h) \/ Renumber(h) \/ Rename(h) \/ RenameFails(h)
               \/ Report(h) \/ Crash(h)
        PROVE  excused \subseteq excused' /\ named \subseteq named'
    BY <2>5 DEF Refuse, Record, WriteEdit, Renumber, Rename, RenameFails, Report, Crash, ghosts
  <2>6. \A h \in Handlers, e \in DBs, op \in Applies : Load(h, op, e) =>
          excused \subseteq excused' /\ UNCHANGED named
    BY DEF Load
  <2>7. \A m \in Migs, v \in 1..MaxVersion : Create(m, v) =>
          excused \subseteq excused' /\ UNCHANGED named
    BY DEF Create
  <2> QED
    BY <2>1, <2>2, <2>3, <2>4, <2>5, <2>6, <2>7 DEF Next, Applies
<1>3. ASSUME NEW k \in Handlers, d \in handler[k].left PROVE FALSE
  <2>1. handler[k].at = "undo" /\ Moving(k) /\ d \notin handler'[k].left /\ handler'[k] # handler[k]
    BY <1>1, <1>3 DEF Sure
  <2>2. \A h \in Handlers : Others(h) => h = k
    BY <2>1 DEF Others
  <2>3. ~\E m \in Migs, v \in 1..MaxVersion : Create(m, v)
    BY <2>1 DEF Create
  <2>4. ~\E h \in Handlers, m \in Migs, deaf \in SUBSET DBs :
           BeginEdit(h, m, deaf) \/ PlanDelete(h, m, deaf)
    <3>1. ASSUME NEW h \in Handlers, NEW m \in Migs, NEW deaf \in SUBSET DBs,
                 BeginEdit(h, m, deaf) \/ PlanDelete(h, m, deaf)
          PROVE  FALSE
      <4>1. Others(h) /\ handler[h].at = "new"
        BY <3>1, EditIs, DeleteIs
      <4> QED
        BY <2>1, <2>2, <4>1
    <3> QED
      BY <3>1
  <2>5. ~\E h \in Handlers, to \in Slugs : PlanRename(h, to)
    BY <2>1, <2>2, RenameIs
  <2>6. ~\E h \in Handlers, e \in DBs, op \in Applies : Load(h, op, e)
    BY <2>1, <2>2, LoadIs
  <2>7. ~\E h \in Handlers : RunUp(h) \/ RunDown(h) \/ RenumberFails(h) \/ Move(h)
    BY <2>1, <2>2, RunUpIs, RunDownIs, FailIs, MoveIs
  <2>8. ~Undo(k)
    BY <1>3, <2>1, UndoIs
  <2>9. \A h \in Handlers : ~Undo(h)
    BY <2>2, <2>8, UndoIs
  <2>10. ASSUME NEW h \in Handlers,
               Refuse(h) \/ Record(h) \/ WriteEdit(h) \/ Renumber(h) \/ Rename(h) \/ RenameFails(h)
               \/ Report(h) \/ Crash(h)
        PROVE  FALSE
    <3>1. h = k
      BY <2>2, <2>10, OverIs
    <3>2. Report(k) \/ Crash(k)
      BY <2>1, <2>10, <3>1
         DEF Refuse, Record, WriteEdit, Editing, Moving, Renumber, Rename, RenameFails
    <3>3. CASE Report(k)
      BY <1>3, <3>3 DEF Report, Sure
    <3>4. CASE Crash(k)
      BY <1>3, <2>1, <3>4 DEF Crash, Sure
    <3> QED
      BY <3>2, <3>3, <3>4
  <2> QED
    BY <2>3, <2>4, <2>5, <2>6, <2>7, <2>9, <2>10 DEF Next, Applies
<1> QED
  BY <1>2, <1>3 DEF Sure

-----------------------------------------------------------------------------
(* Where a database is.                                                    *)

\* A delete or rename that nothing excuses is alone, with no apply of the database.
LEMMA OnlyMover ==
  ASSUME Types, Alone, NEW d \in DBs, d \notin excused, NEW h \in Handlers, Moving(h)
  PROVE  /\ \A k \in Handlers : k # h => ~Moving(k) /\ handler[k].done = {} /\ handler[k].left = {}
         /\ \A k \in Handlers : handler[k].op \in Applies => handler[k].d # d
         /\ ~Recording(d)
<1>1. \A k \in Handlers : k # h => ~Moving(k)
  BY DEF Alone
<1>2. \A k \in Handlers : ~Moving(k) => handler[k].done = {} /\ handler[k].left = {}
  BY DEF Types, TypeOK, HandlerType, Shape, Moving, Moves, Applies
<1>3. \A k \in Handlers : handler[k].op \in Applies => handler[k].d # d
  BY DEF Alone
<1>4. \A k \in Handlers : handler[k].at = "record" => handler[k].op \in Applies
  BY DEF Types, TypeOK, HandlerType, Shape, Moves, Applies
<1> QED
  BY <1>1, <1>2, <1>3, <1>4 DEF Recording

\* With no delete or rename under way, no database is held.
LEMMA NoMover ==
  ASSUME Types, \A h \in Handlers : ~Moving(h)
  PROVE  \A h \in Handlers : handler[h].done = {} /\ handler[h].left = {}
  BY DEF Types, TypeOK, HandlerType, Shape, Moving, Moves, Applies

LEMMA PlaceKept ==
  ASSUME NEW d \in DBs, Places, Sure(d), UNCHANGED <<version, slug>>,
         table'[d] = table[d], schema'[d] = schema[d], cached'[d] = cached[d],
         Recording(d)' <=> Recording(d),
         \A k \in Handlers : (d \in handler'[k].done) <=> (d \in handler[k].done),
         \A k \in Handlers : d \in handler[k].done =>
           handler'[k].op = handler[k].op /\ handler'[k].from[d] = handler[k].from[d]
           /\ handler'[k].to = handler[k].to
  PROVE  Place(d)'
<1>1. Place(d)
  BY DEF Places
<1>2. Still(d)' <=> Still(d)
  BY DEF Still
<1>3. Resting(d) => Resting(d)'
  BY DEF Resting, Fits, Has, Pointer, Other
<1>4. ASSUME NEW k \in Handlers, d \in handler'[k].done
      PROVE  IF handler'[k].op = "delete" THEN Stamped(handler[k], d)' ELSE Renamed(handler[k], d)'
  <2>1. /\ d \in handler[k].done /\ handler'[k].op = handler[k].op
        /\ handler'[k].from[d] = handler[k].from[d] /\ handler'[k].to = handler[k].to
    BY <1>4
  <2>2. IF handler[k].op = "delete" THEN Stamped(handler[k], d) ELSE Renamed(handler[k], d)
    BY <1>1, <2>1 DEF Place
  <2>3. CASE handler[k].op = "delete"
    BY <2>1, <2>2, <2>3 DEF Stamped, Fits, Has, Pointer, Other
  <2>4. CASE handler[k].op # "delete"
    BY <2>1, <2>2, <2>4 DEF Renamed, Fits, Has, Pointer
  <2> QED
    BY <2>3, <2>4
<1> QED
  BY <1>1, <1>2, <1>3, <1>4 DEF Place

LEMMA PlacesInit == Init => Places
<1> SUFFICES ASSUME Init, NEW d \in DBs PROVE Place(d)
  BY DEF Places
<1>1. /\ slug = 0 /\ cached[d] \in 0..Top /\ Pointer(d) = cached[d] /\ table[d][Other] = 0
      /\ schema[d] = [i \in 1..cached[d] |-> i]
  BY Naturals DEF Init, Pointer, Other
<1>2. \A m \in Migs : version[m] = IF m <= Top THEN m ELSE 0
  BY DEF Init
<1>3. Fits(version, schema[d], cached[d])
  <2> DEFINE p == cached[d]
  <2>1. \A m \in Migs : Has(schema[d], m) <=> m <= p
    BY <1>1, Naturals DEF Has, Migs
  <2>2. p = 0 \/ \E m \in Migs : version[m] = p
    BY <1>1, <1>2, Naturals DEF Migs
  <2>3. \A m \in Migs : version[m] # 0 => version[m] = m
    BY <1>2
  <2>4. \A i \in DOMAIN schema[d] : schema[d][i] = i /\ i \in Migs
    BY <1>1, Naturals DEF Migs
  <2> QED
    BY <2>1, <2>2, <2>3, <2>4 DEF Fits
<1>4. Resting(d)
  BY <1>1, <1>3 DEF Resting
<1>5. \A h \in Handlers : handler[h].done = {}
  BY NewIs DEF Init
<1> QED
  BY <1>4, <1>5 DEF Place

\* A version created above all a database is at, whoever holds it.
LEMMA PlaceCreated ==
  ASSUME Types, Fresh, Alone, Places, Plans, NEW m \in Migs, NEW v \in 1..MaxVersion, Create(m, v),
         NEW d \in DBs, Sure(d)', Sure(d)
  PROVE  Place(d)' /\ \A h \in Handlers : Moving(h) => PlanFits(handler[h], d)'
<1>0. /\ version \in [Migs -> Numbers] /\ table[d] \in [Slugs -> Numbers] /\ slug \in Slugs
      /\ \A i \in DOMAIN schema[d] : schema[d][i] \in Migs
  BY DEF Types, TypeOK
<1>1. /\ version' = [version EXCEPT ![m] = v] /\ v \notin Versions /\ v \in Numbers /\ v # 0
      /\ UNCHANGED <<slug, table, cached, handler, schema>> /\ ~Under(d, v)
      /\ version[m] = 0 /\ ~Has(schema[d], m)
  BY Naturals DEF Create, Sure, Fresh, books, Numbers
<1>2. /\ version'[m] = v /\ \A k \in Migs : k # m => version'[k] = version[k]
      /\ \A k \in Migs : version[k] # v
  BY <1>0, <1>1 DEF Versions, Rows
<1>3. \A n \in Slugs : table[d][n] \in Nat /\ table[d][n] <= v /\ v \in Nat
  <2>1. v \in Nat /\ \A n \in Slugs : table[d][n] \in Nat
    BY <1>0, <1>1, Naturals
  <2>2. \A n \in Slugs : ~(table[d][n] > v)
    BY <1>1 DEF Under
  <2> QED
    BY <2>1, <2>2
<1>4. ASSUME NEW p \in Numbers, p <= v, Fits(version, schema[d], p) PROVE Fits(version', schema[d], p)
  <2>1. p # v
    BY <1>1, <1>2, <1>4 DEF Fits
  <2>2. v > p
    BY <1>1, <1>4, <2>1, Naturals
  <2> QED
    BY <1>0, <1>1, <1>4, <2>2, FitsNew
<1>5. ASSUME NEW h \in Handlers, Moving(h), handler[h].op = "delete",
             d \in handler[h].todo \cup handler[h].done
      PROVE  handler[h].from[d] \in Numbers /\ handler[h].from[d] < v
  <2> DEFINE s == handler[h]
  <2>1. DeletePlan(s, d) /\ s.from[d] \in Numbers /\ s.todo \cap s.done = {}
    BY <1>5 DEF Plans, PlanFits, Types, TypeOK, HandlerType, Shape
  <2>2. Pointer(d) = s.from[d] \/ Pointer(d) = s.from[d] - 1
    <3>1. CASE d \in s.todo
      BY <2>1, <3>1 DEF DeletePlan
    <3>2. CASE d \in s.done
      <4>1. Stamped(s, d)
        BY <1>5, <3>2 DEF Places, Place
      <4> QED
        BY <4>1 DEF Stamped
    <3> QED
      BY <1>5, <3>1, <3>2
  <2>3. s.from[d] # v /\ s.from[d] - 1 # v
    BY <1>2, <1>5, <2>1 DEF DeletePlan
  <2>4. Pointer(d) <= v /\ s.from[d] \in Nat /\ v \in Nat
    BY <1>0, <1>3, <2>1, Naturals DEF Pointer
  <2> QED
    BY <2>1, <2>2, <2>3, <2>4
<1>6. Resting(d) => Resting(d)'
  BY <1>0, <1>1, <1>3, <1>4 DEF Resting, Pointer, Other, Recording
<1>7. ASSUME NEW h \in Handlers, d \in handler[h].done
      PROVE  IF handler[h].op = "delete" THEN Stamped(handler[h], d)' ELSE Renamed(handler[h], d)'
  <2>1. Moving(h) /\ handler[h].to \in Slugs
    BY <1>7 DEF Types, TypeOK, HandlerType, Shape, Moving, Moves
  <2>2. IF handler[h].op = "delete" THEN Stamped(handler[h], d) ELSE Renamed(handler[h], d)
    BY <1>7 DEF Places, Place
  <2>3. CASE handler[h].op = "delete"
    <3>1. handler[h].from[d] \in Numbers /\ handler[h].from[d] < v
      BY <1>5, <1>7, <2>1, <2>3
    <3>2. handler[h].from[d] <= v
      <4>1. handler[h].from[d] \in Nat /\ v \in Nat
        BY <1>1, <3>1, Naturals
      <4> QED
        BY <3>1, <4>1
    <3>3. Fits(version', schema[d], handler[h].from[d])
      BY <1>4, <2>2, <2>3, <3>1, <3>2 DEF Stamped
    <3> QED
      BY <1>1, <2>2, <2>3, <3>3 DEF Stamped, Pointer, Other
  <2>4. CASE handler[h].op # "delete"
    <3>1. Fits(version', schema[d], table[d][handler[h].to])
      BY <1>0, <1>3, <1>4, <2>1, <2>2, <2>4 DEF Renamed
    <3> QED
      BY <1>1, <2>2, <2>4, <3>1 DEF Renamed, Pointer
  <2> QED
    BY <2>3, <2>4
<1>8. Place(d)'
  BY <1>1, <1>6, <1>7 DEF Places, Place, Still
<1>9. ASSUME NEW h \in Handlers, Moving(h) PROVE PlanFits(handler[h], d)'
  <2> DEFINE s == handler[h]
  <2>1. PlanFits(s, d)
    BY <1>9 DEF Plans
  <2>2. ASSUME s.op = "delete", d \in s.todo \cup s.done
        PROVE  /\ \E k \in Migs : version'[k] = s.from[d]
               /\ \E k \in Migs : version'[k] = s.from[d] - 1
               /\ \A k \in Migs : version'[k] > s.number /\ version'[k] \notin s.later =>
                    version'[k] > s.from[d]
    <3>1. DeletePlan(s, d) /\ s.from[d] \in Nat /\ s.from[d] < v /\ s.from[d] # 0
      BY <1>5, <1>9, <2>1, <2>2, Naturals DEF PlanFits, Types, Shape
    <3>2. s.from[d] - 1 # 0
      BY <2>2, <3>1 DEF DeletePlan
    <3>3. \A k \in Migs : version[k] # 0 => version'[k] = version[k]
      BY <1>1, <1>2
    <3>4. (\E k \in Migs : version'[k] = s.from[d]) /\ (\E k \in Migs : version'[k] = s.from[d] - 1)
      BY <2>2, <3>1, <3>2, <3>3 DEF DeletePlan
    <3>5. v > s.from[d]
      BY <1>3, <3>1
    <3> QED
      BY <1>2, <2>2, <3>1, <3>4, <3>5 DEF DeletePlan
  <2> QED
    BY <1>1, <2>1, <2>2 DEF PlanFits, DeletePlan, RenamePlan, Pointer
<1> QED
  BY <1>8, <1>9

\* A database whose apply or rollback nothing excuses is held by nobody.
LEMMA Applied ==
  ASSUME Types, Alone, Places, Loads, NEW h \in Handlers, handler[h].op \in Applies,
         NEW d \in DBs, handler[h].d = d, Sure(d)
  PROVE  /\ \A k \in Handlers : ~Moving(k) /\ handler[k].done = {} /\ handler[k].left = {}
         /\ Resting(d) /\ handler[h].slug = slug
         /\ handler[h].at = "loaded" => ChainFits(handler[h].chain, version)
         /\ handler[h].at = "record" => version[handler[h].m] # 0
<1>1. \A k \in Handlers : ~Moving(k)
  BY OnlyMover DEF Sure
<1>2. \A k \in Handlers : handler[k].done = {} /\ handler[k].left = {}
  BY <1>1, NoMover
<1>3. Resting(d)
  BY <1>2 DEF Places, Place, Still
<1> QED
  BY <1>1, <1>2, <1>3 DEF Loads, Sure

\* One version more, or one less.
LEMMA PlaceRun ==
  ASSUME Types, Fresh, Alone, Places, Loads, NEW h \in Handlers, RunUp(h) \/ RunDown(h),
         NEW d \in DBs, Sure(d)
  PROVE  Place(d)'
<1>0. TypeOK /\ slug \in Slugs /\ version \in [Migs -> Numbers]
      /\ DOMAIN schema[d] \subseteq Nat /\ IsFiniteSet(DOMAIN schema[d])
      /\ \A i \in DOMAIN schema[d] : schema[d][i] \in Migs
  BY DEF Types, TypeOK
<1>1. CASE handler[h].d # d
  <2>1. /\ UNCHANGED <<version, slug, cached>> /\ schema'[d] = schema[d]
        /\ \A n \in Slugs : table'[d][n] = table[d][n]
        /\ Others(h) /\ handler'[h].d = handler[h].d /\ handler'[h].done = handler[h].done
        /\ handler[h].op \in Applies
    BY <1>1, RunUpIs, RunDownIs DEF Applies
  <2>2. table'[d] = table[d]
    <3>1. table[d] \in [Slugs -> Numbers] /\ table'[d] \in [Slugs -> Numbers]
      <4>1. Next
        BY DEF Next
      <4> QED
        BY <4>1, TypesStep DEF Types, TypeOK
    <3> QED
      BY <2>1, <3>1
  <2>3. Recording(d)' <=> Recording(d)
    BY <1>1, <2>1 DEF Recording, Others
  <2>4. handler[h].done = {}
    BY <2>1 DEF Types, Shape, Applies, Moves
  <2> QED
    BY <2>1, <2>2, <2>3, <2>4, PlaceKept DEF Others
<1>2. CASE handler[h].d = d
  <2>1. handler[h].op \in Applies
    BY RunUpIs, RunDownIs DEF Applies
  <2>2. /\ \A k \in Handlers : handler[k].done = {}
        /\ Resting(d) /\ handler[h].slug = slug
        /\ handler[h].at = "loaded" => ChainFits(handler[h].chain, version)
    BY <1>2, <2>1, Applied
  <2>3. \A k, l \in Migs : version[k] # 0 /\ version[k] = version[l] => k = l
    BY DEF Fresh
  <2>4. \A k \in Handlers : handler'[k].done = {}
    BY <2>2, RunUpIs, RunDownIs DEF Others
  <2>5. Recording(d)'
    <3>1. handler'[h].at = "record" /\ handler'[h].d = d
      BY <1>2, RunUpIs, RunDownIs
    <3> QED
      BY <3>1 DEF Recording
  <2>6. ASSUME NEW next \in Numbers, table'[d][slug] = next, UNCHANGED <<slug, version>>,
               table'[d][1 - slug] = table[d][1 - slug], Fits(version, schema'[d], next)
        PROVE  Resting(d)'
    BY <2>2, <2>5, <2>6 DEF Resting, Pointer, Other
  <2>7. ASSUME RunUp(h) PROVE Resting(d)'
    <3>1. PICK p \in Numbers, next \in Numbers, m \in Migs :
          LET s == handler[h] IN
          /\ s.at = "loaded" /\ p = table[d][s.slug]
          /\ s.chain \in [Migs -> Numbers] /\ s.chain[m] = next /\ next > p
          /\ \A k \in Migs : s.chain[k] > p => s.chain[k] >= next
          /\ \A n \in Slugs : table'[d][n] = IF n = s.slug THEN next ELSE table[d][n]
          /\ schema'[d] = Appended(schema[d], m)
          /\ UNCHANGED <<version, slug>>
      BY <1>2, <2>7, RunUpIs
    <3>2. Fits(version, schema[d], p) /\ ChainFits(handler[h].chain, version)
      BY <2>2, <3>1 DEF Resting, Pointer
    <3> DEFINE n == Latest(schema[d]) + 1
    <3>3. n \in Nat /\ \A i \in DOMAIN schema[d] : i < n
      BY <1>0, LatestIs
    <3>4. Appended(schema[d], m) =
            [i \in DOMAIN schema[d] \cup {n} |-> IF i \in DOMAIN schema[d] THEN schema[d][i] ELSE m]
      BY DEF Appended
    <3> HIDE DEF n
    <3>5. Fits(version, schema'[d], next)
      <4> DEFINE turns == schema[d]
                 chain == handler[h].chain
                 more == Appended(turns, m)
      <4>1. DOMAIN turns \subseteq Nat /\ \A i \in DOMAIN turns : turns[i] \in Migs /\ i < n
        BY <1>0, <3>3
      <4>2. chain[m] = next /\ next > p /\ \A k \in Migs : chain[k] > p => chain[k] >= next
        BY <3>1
      <4>3. Fits(version, turns, p) /\ ChainFits(chain, version) /\ chain \in [Migs -> Numbers]
        BY <3>1, <3>2
      <4>4. /\ DOMAIN more = DOMAIN turns \cup {n} /\ more[n] = m
            /\ \A i \in DOMAIN turns : more[i] = turns[i]
        <5>1. n \notin DOMAIN turns
          BY <3>3, <4>1
        <5> QED
          BY <3>4, <5>1
      <4> HIDE DEF turns, chain, more
      <4>5. Fits(version, more, next)
        BY ONLY <1>0, <2>3, <3>3, <4>1, <4>2, <4>3, <4>4, FitsUp, SMTT(40)
      <4> QED
        BY <3>1, <4>5 DEF more, turns
    <3>6. 1 - slug \in Slugs /\ 1 - slug # slug
      BY <1>0, Naturals
    <3> QED
      <4>1. table'[d][slug] = next /\ table'[d][1 - slug] = table[d][1 - slug]
        BY <1>0, <2>2, <3>1, <3>6
      <4> QED
        BY <2>6, <3>1, <3>5, <4>1
  <2>8. ASSUME RunDown(h) PROVE Resting(d)'
    <3>1. PICK p \in Numbers, next \in Numbers, m \in Migs :
          LET s == handler[h] IN
          /\ s.at = "loaded" /\ p = table[d][s.slug]
          /\ s.chain \in [Migs -> Numbers] /\ s.chain[m] = p /\ p # 0 /\ next < p
          /\ next = 0 \/ \E k \in Migs : s.chain[k] = next
          /\ \A k \in Migs : s.chain[k] < p => s.chain[k] <= next
          /\ \A n \in Slugs : table'[d][n] = IF n = s.slug THEN next ELSE table[d][n]
          /\ schema'[d] = Without(schema[d], m)
          /\ UNCHANGED <<version, slug>>
      BY <1>2, <2>8, RunDownIs
    <3>2. Fits(version, schema[d], p) /\ ChainFits(handler[h].chain, version)
      BY <2>2, <3>1 DEF Resting, Pointer
    <3>5. Fits(version, schema'[d], next)
      <4> DEFINE turns == schema[d]
                 chain == handler[h].chain
                 less == Without(turns, m)
      <4>1. DOMAIN turns \subseteq Nat /\ \A i \in DOMAIN turns : turns[i] \in Migs
        BY <1>0
      <4>2. /\ chain[m] = p /\ p # 0 /\ next < p /\ (next = 0 \/ \E k \in Migs : chain[k] = next)
            /\ \A k \in Migs : chain[k] < p => chain[k] <= next
        BY <3>1
      <4>3. Fits(version, turns, p) /\ ChainFits(chain, version) /\ chain \in [Migs -> Numbers]
        BY <3>1, <3>2
      <4>4. less = [i \in {j \in DOMAIN turns : turns[j] # m} |-> turns[i]]
        BY DEF Without
      <4> HIDE DEF turns, chain, less
      <4>5. Fits(version, less, next)
        BY <1>0, <2>3, <4>1, <4>2, <4>3, <4>4, FitsDown
      <4> QED
        BY <3>1, <4>5 DEF less, turns
    <3>6. 1 - slug \in Slugs /\ 1 - slug # slug
      BY <1>0, Naturals
    <3> QED
      <4>1. table'[d][slug] = next /\ table'[d][1 - slug] = table[d][1 - slug]
        BY <1>0, <2>2, <3>1, <3>6
      <4> QED
        BY <2>6, <3>1, <3>5, <4>1
  <2>9. Resting(d)'
    BY <2>7, <2>8
  <2> QED
    BY <2>4, <2>9 DEF Place
<1> QED
  BY <1>1, <1>2

\* The pointer read back into the books.
LEMMA PlaceRecorded ==
  ASSUME Types, Alone, Places, Loads, NEW h \in Handlers, Record(h), NEW d \in DBs, Sure(d)
  PROVE  Place(d)'
<1>1. /\ handler[h].op \in Applies /\ handler[h].at = "record" /\ handler[h].m \in Migs
      /\ UNCHANGED <<version, slug, table, schema>> /\ handler[h].done = {}
      /\ handler[h].d \in DBs
  BY DEF Record, rows, ghosts, Applies, Types, Shape, Moves
<1>2. Others(h) /\ handler'[h].at = "over" /\ handler'[h].done = {}
  BY OverIs
<1>3. cached \in [DBs -> Numbers]
  BY DEF Types, TypeOK
<1>4. CASE handler[h].d # d
  <2>1. cached'[d] = cached[d]
    BY <1>1, <1>3, <1>4 DEF Record
  <2>2. Recording(d)' <=> Recording(d)
    BY <1>2, <1>4 DEF Recording, Others
  <2> QED
    BY <1>1, <1>2, <2>1, <2>2, PlaceKept DEF Others
<1>5. CASE handler[h].d = d
  <2>1. /\ \A k \in Handlers : handler[k].done = {}
        /\ Resting(d) /\ handler[h].slug = slug /\ version[handler[h].m] # 0
    BY <1>1, <1>5, Applied
  <2>2. cached'[d] = table[d][slug]
    BY <1>1, <1>3, <1>5, <2>1 DEF Record, Rows
  <2>3. Resting(d)'
    BY <1>1, <2>1, <2>2 DEF Resting, Fits, Has, Pointer, Other
  <2> QED
    BY <1>2, <2>1, <2>3 DEF Place, Others
<1> QED
  BY <1>4, <1>5

\* A plan made of the pointers as they are.
LEMMA PlanMade ==
  ASSUME Types, Alone, Places, NEW h \in Handlers, NEW d \in DBs, Sure(d), d \notin Overlap,
         \/ \E m \in Migs, deaf \in SUBSET DBs : PlanDelete(h, m, deaf)
         \/ \E to \in Slugs : PlanRename(h, to)
  PROVE  PlanFits(handler[h], d)' /\ \A k \in Handlers : k # h => ~Moving(k)'
<1>0. TypeOK /\ version \in [Migs -> Numbers] /\ Pointer(d) \in Nat /\ Pointer(d) \in Numbers
  BY Naturals DEF Types, TypeOK, Pointer
<1>1. (\A k \in Handlers : ~Moving(k)) /\ ~Busy(d)
  BY DEF Overlap
<1>2. ~Recording(d)
  <2>1. \A k \in Handlers : handler[k].at = "record" => handler[k].op \in Applies
    BY DEF Types, TypeOK, HandlerType, Shape, Moves, Applies
  <2> QED
    BY <1>1, <2>1 DEF Recording, Busy, Applies
<1>3. Resting(d)
  BY <1>1, NoMover DEF Places, Place, Still
<1>4. Others(h)
  BY DeleteIs, RenameIs
<1>5. \A k \in Handlers : k # h => ~Moving(k)'
  BY <1>1, <1>4 DEF Others, Moving
<1>6. ASSUME NEW m \in Migs, NEW deaf \in SUBSET DBs, PlanDelete(h, m, deaf)
      PROVE  PlanFits(handler[h], d)'
  <2> DEFINE t == handler'[h]
  <2>1. /\ version[m] # 0 /\ Blockers(m, deaf) = {}
        /\ t.at = "move" /\ t.op = "delete" /\ t.slug = slug /\ t.number = version[m]
        /\ t.todo = Ahead(m) /\ t.done = {} /\ t.later = {n \in Versions : n > version[m]}
        /\ t.from[d] = IF d \in Ahead(m) THEN Pointer(d) ELSE 0
        /\ UNCHANGED <<version, slug, table>>
    BY <1>6, DeleteIs
  <2>2. version[m] \in Nat
    BY <1>0, Naturals
  <2>3. CASE d \in Ahead(m)
    <3>1. Pointer(d) > version[m]
      BY <2>3 DEF Ahead
    <3>2. Pointer(d) \in Versions /\ Pointer(d) - 1 \in Versions
      BY <2>1, <2>3 DEF Blockers
    <3>3. Pointer(d) - 1 > 0
      <4>1. Pointer(d) - 1 # 0 /\ Pointer(d) # 0
        BY <3>2 DEF Versions, Rows
      <4> QED
        BY <1>0, <4>1
    <3>4. (\E k \in Migs : version[k] = Pointer(d)) /\ (\E k \in Migs : version[k] = Pointer(d) - 1)
      BY <3>2 DEF Versions, Rows
    <3>5. \A k \in Migs : version[k] > version[m] => version[k] \in t.later
      <4>1. \A k \in Migs : version[k] > version[m] => version[k] # 0
        BY <1>0, <2>2, Naturals
      <4> QED
        BY <2>1, <4>1 DEF Versions, Rows
    <3>6. DeletePlan(handler[h], d)'
      BY <2>1, <2>3, <3>1, <3>3, <3>4, <3>5 DEF DeletePlan, Pointer
    <3> QED
      BY <2>1, <3>6 DEF PlanFits
  <2>4. CASE d \notin Ahead(m)
    <3>1. Pointer(d) < version[m]
      <4>1. CASE Seen(d)
        <5>1. Pointer(d) # version[m] /\ ~(Pointer(d) > version[m])
          BY <2>1, <2>4, <4>1 DEF Blockers, Ahead
        <5> QED
          BY <1>0, <2>2, <5>1
      <4>2. CASE ~Seen(d)
        <5>1. Pointer(d) = 0
          BY <1>2, <1>3, <4>2 DEF Seen, Resting
        <5> QED
          BY <2>1, <2>2, <5>1
      <4> QED
        BY <4>1, <4>2
    <3>2. DeletePlan(handler[h], d)'
      BY <2>1, <2>4, <3>1 DEF DeletePlan, Pointer
    <3> QED
      BY <2>1, <3>2 DEF PlanFits
  <2> QED
    BY <2>3, <2>4
<1>7. ASSUME NEW to \in Slugs, PlanRename(h, to) PROVE PlanFits(handler[h], d)'
  <2>1. LET t == handler'[h] IN
        /\ t.op = "rename" /\ t.slug = slug /\ t.todo = {e \in DBs : Pointer(e) # 0}
        /\ UNCHANGED <<slug, table>>
    BY <1>7, RenameIs
  <2> QED
    BY <2>1 DEF PlanFits, RenamePlan, Pointer
<1> QED
  BY <1>5, <1>6, <1>7

\* One database moved.
LEMMA PlaceMoved ==
  ASSUME Types, Alone, Places, Plans, NEW h \in Handlers, Move(h), NEW d \in DBs, Sure(d), Sure(d)'
  PROVE  Place(d)' /\ PlanFits(handler[h], d)' /\ \A k \in Handlers : k # h => ~Moving(k)'
<1> DEFINE s == handler[h]
           t == handler'[h]
<1>1. PICK e \in DBs :
        /\ Moving(h) /\ s.at = "move" /\ e \in s.todo /\ e \notin s.done /\ Others(h)
        /\ t.op = s.op /\ t.slug = s.slug /\ t.to = s.to /\ t.number = s.number /\ t.from = s.from
        /\ t.later = s.later
        /\ \/ /\ t.at = "move" /\ t.todo = s.todo \ {e} /\ t.done = s.done \cup {e}
              /\ table'[e] = Forth(s, e) /\ excused' = excused
           \/ /\ t.at = "undo" /\ t.todo = s.todo /\ t.done = s.done
              /\ \/ table'[e] = table[e] /\ excused' = excused
                 \/ excused' = excused \cup {e}
        /\ \A c \in DBs \ {e} : table'[c] = table[c]
        /\ UNCHANGED <<version, slug, cached, schema>>
  BY MoveIs
<1>2. /\ \A k \in Handlers : k # h => ~Moving(k) /\ handler[k].done = {}
      /\ ~Recording(d)
  BY <1>1, OnlyMover DEF Sure
<1>3. PlanFits(s, d) /\ s \in HandlerType /\ Shape(s) /\ slug \in Slugs /\ s.todo \cap s.done = {}
      /\ table[d] \in [Slugs -> Numbers] /\ s.to \in Slugs /\ (s.op = "delete" \/ s.op = "rename")
  BY <1>1 DEF Plans, Types, TypeOK, HandlerType, Shape, Moving
<1>4. ~Recording(d)' /\ \A k \in Handlers : k # h => ~Moving(k)' /\ handler'[k] = handler[k]
  <2>1. \A k \in Handlers : k # h => handler'[k] = handler[k]
    BY <1>1 DEF Others
  <2>2. t.at # "record"
    BY <1>1
  <2> QED
    BY <1>2, <2>1, <2>2 DEF Recording, Moving
<1>5. CASE table'[d] = table[d] /\ ((d \in t.done) <=> (d \in s.done))
  <2>1. \A k \in Handlers : (d \in handler'[k].done) <=> (d \in handler[k].done)
    BY <1>4, <1>5 
  <2>2. \A k \in Handlers : d \in handler[k].done =>
           handler'[k].op = handler[k].op /\ handler'[k].from[d] = handler[k].from[d]
           /\ handler'[k].to = handler[k].to
    BY <1>1, <1>4 
  <2>3. Place(d)'
    BY <1>1, <1>2, <1>4, <1>5, <2>1, <2>2, PlaceKept
  <2>4. d \in t.todo \cup t.done <=> d \in s.todo \cup s.done
    BY <1>1, <1>5
  <2>5. DeletePlan(s, d) => DeletePlan(handler[h], d)'
    BY <1>1, <1>5, <2>4 DEF DeletePlan, Pointer
  <2>6. RenamePlan(s, d) => RenamePlan(handler[h], d)'
    BY <1>1, <1>5, <2>4 DEF RenamePlan, Pointer
  <2>7. PlanFits(handler[h], d)'
    BY <1>1, <1>3, <2>5, <2>6 DEF PlanFits
  <2> QED
    BY <1>4, <2>3, <2>7
<1>6. CASE d = e /\ t.at = "move" /\ t.todo = s.todo \ {d} /\ t.done = s.done \cup {d}
           /\ table'[d] = Forth(s, d)
  <2>1. Still(d)
    BY <1>1, <1>2, <1>6 DEF Still
  <2>2. Resting(d) /\ cached[d] = Pointer(d)
    BY <1>2, <2>1 DEF Places, Place, Resting
  <2>3. CASE s.op = "delete"
    <3>1. DeletePlan(s, d) /\ s.slug = slug /\ Pointer(d) = s.from[d]
      BY <1>1, <1>3, <1>6, <2>3 DEF PlanFits, DeletePlan
    <3>2. /\ table'[d][slug] = s.from[d] - 1
          /\ table'[d][1 - slug] = table[d][1 - slug]
      BY <1>3, <1>6, <2>3, <3>1, Naturals DEF Forth
    <3>3. Stamped(handler[h], d)'
      BY <1>1, <2>2, <3>1, <3>2 DEF Stamped, Resting, Pointer, Other, Fits, Has
    <3>4. PlanFits(handler[h], d)'
      BY <1>1, <1>6, <2>3, <3>1 DEF PlanFits, DeletePlan
    <3>5. \A k \in Handlers : d \in handler'[k].done => k = h
      BY <1>2, <1>4
    <3>6. ~Still(d)'
      BY <1>6 DEF Still
    <3> QED
      BY <1>1, <1>4, <2>3, <3>3, <3>4, <3>5, <3>6 DEF Place
  <2>4. CASE s.op = "rename"
    <3>1. s.slug = slug /\ s.to = 1 - slug
      BY <1>3, <2>4, Naturals DEF PlanFits, Shape
    <3>2. /\ table'[d][slug] = 0 /\ table'[d][s.to] = table[d][slug]
      BY <1>3, <1>6, <2>4, <3>1, Naturals DEF Forth
    <3>3. Renamed(handler[h], d)'
      BY <1>1, <2>2, <3>1, <3>2 DEF Renamed, Resting, Pointer, Other, Fits, Has
    <3>4. PlanFits(handler[h], d)'
      BY <1>1, <1>6, <2>4, <3>1 DEF PlanFits, RenamePlan
    <3>5. \A k \in Handlers : d \in handler'[k].done => k = h
      BY <1>2, <1>4
    <3>6. ~Still(d)'
      BY <1>6 DEF Still
    <3> QED
      BY <1>1, <1>4, <2>4, <3>3, <3>4, <3>5, <3>6 DEF Place
  <2> QED
    BY <1>3, <2>3, <2>4
<1>7. CASE d # e
  BY <1>1, <1>5, <1>7
<1>8. CASE d = e
  <2>1. d \notin excused'
    BY DEF Sure
  <2> QED
    BY <1>1, <1>5, <1>6, <1>8, <2>1
<1> QED
  BY <1>7, <1>8

\* One database given back, or left and named.
LEMMA PlaceUndone ==
  ASSUME Types, Alone, Places, Plans, NEW h \in Handlers, Undo(h), NEW d \in DBs, Sure(d), Sure(d)'
  PROVE  Place(d)' /\ PlanFits(handler[h], d)' /\ \A k \in Handlers : k # h => ~Moving(k)'
<1> DEFINE s == handler[h]
           t == handler'[h]
<1>1. PICK e \in DBs :
        /\ Moving(h) /\ s.at = "undo" /\ e \in s.done /\ Others(h)
        /\ t.op = s.op /\ t.slug = s.slug /\ t.to = s.to /\ t.number = s.number /\ t.from = s.from
        /\ t.later = s.later /\ t.at = "undo" /\ t.todo = s.todo
        /\ t.done = s.done \ {e}
        /\ \/ t.left = s.left /\ table'[e] = Back(s, e)
           \/ t.left = s.left \cup {e}
        /\ \A c \in DBs \ {e} : table'[c] = table[c]
        /\ UNCHANGED <<version, slug, cached, schema>>
  BY UndoIs
<1>2. /\ \A k \in Handlers : k # h => ~Moving(k) /\ handler[k].done = {}
      /\ ~Recording(d)
  BY <1>1, OnlyMover DEF Sure
<1>3. PlanFits(s, d) /\ s \in HandlerType /\ Shape(s) /\ slug \in Slugs /\ s.todo \cap s.done = {}
      /\ table[d] \in [Slugs -> Numbers] /\ s.to \in Slugs /\ (s.op = "delete" \/ s.op = "rename")
  BY <1>1 DEF Plans, Types, TypeOK, HandlerType, Shape, Moving
<1>a. d \notin t.left
  BY DEF Sure
<1>4. ~Recording(d)' /\ \A k \in Handlers : k # h => ~Moving(k)' /\ handler'[k] = handler[k]
  <2>1. \A k \in Handlers : k # h => handler'[k] = handler[k]
    BY <1>1 DEF Others
  <2>2. t.at # "record"
    BY <1>1
  <2> QED
    BY <1>2, <2>1, <2>2 DEF Recording, Moving
<1>5. CASE d # e
  <2>0. table'[d] = table[d] /\ ((d \in t.done) <=> (d \in s.done))
    BY <1>1, <1>5
  <2>1. \A k \in Handlers : (d \in handler'[k].done) <=> (d \in handler[k].done)
    BY <1>4, <2>0 
  <2>2. \A k \in Handlers : d \in handler[k].done =>
           handler'[k].op = handler[k].op /\ handler'[k].from[d] = handler[k].from[d]
           /\ handler'[k].to = handler[k].to
    BY <1>1, <1>4 
  <2>3. Place(d)'
    BY <1>1, <1>2, <1>4, <2>0, <2>1, <2>2, PlaceKept
  <2>5. DeletePlan(s, d) => DeletePlan(handler[h], d)'
    BY <1>1, <2>0 DEF DeletePlan, Pointer
  <2>6. RenamePlan(handler[h], d)'
    BY <1>1 DEF RenamePlan
  <2>7. PlanFits(handler[h], d)'
    BY <1>1, <1>3, <2>5, <2>6 DEF PlanFits
  <2> QED
    BY <1>4, <2>3, <2>7
<1>6. CASE d = e
  <2>0. table'[d] = Back(s, d) /\ d \in s.done /\ d \notin s.todo /\ d \notin t.done /\ d \notin t.todo
    BY <1>1, <1>3, <1>6, <1>a
  <2>1. IF s.op = "delete" THEN Stamped(s, d) ELSE Renamed(s, d)
    BY <2>0 DEF Places, Place
  <2>2. Still(d)' /\ \A k \in Handlers : d \notin handler'[k].done
    BY <1>2, <1>4, <2>0 DEF Still
  <2>3. CASE s.op = "delete"
    <3>1. /\ s.slug = slug /\ table'[d][slug] = s.from[d] /\ table'[d][1 - slug] = table[d][1 - slug]
      BY <1>3, <2>0, <2>3, Naturals DEF Back, PlanFits
    <3>2. Resting(d)'
      BY <1>1, <2>1, <2>3, <3>1 DEF Stamped, Resting, Pointer, Other, Fits, Has
    <3>3. s.from[d] # 0
      BY <1>3, <2>0, <2>3 DEF Shape
    <3>4. PlanFits(handler[h], d)'
      BY <1>1, <2>0, <2>3, <3>1, <3>3 DEF PlanFits, DeletePlan
    <3> QED
      BY <1>4, <2>2, <3>2, <3>4 DEF Place
  <2>4. CASE s.op = "rename"
    <3>1. s.slug = slug /\ s.to = 1 - slug
      BY <1>3, <2>4, Naturals DEF PlanFits, Shape
    <3>2. table'[d][slug] = table[d][1 - slug] /\ table'[d][1 - slug] = 0
      BY <1>3, <2>0, <2>4, <3>1, Naturals DEF Back
    <3>3. Resting(d)'
      BY <1>1, <2>1, <2>4, <3>1, <3>2 DEF Renamed, Resting, Pointer, Other, Fits, Has
    <3>4. PlanFits(handler[h], d)'
      BY <1>1, <2>4, <3>1 DEF PlanFits, RenamePlan
    <3> QED
      BY <1>4, <2>2, <3>3, <3>4 DEF Place
  <2> QED
    BY <1>3, <2>3, <2>4
<1> QED
  BY <1>5, <1>6

\* The rows renumbered: where a stamped database is by the new numbers.
LEMMA PlaceRenumbered ==
  ASSUME Types, Fresh, Alone, Places, Plans, NEW h \in Handlers, Renumber(h), NEW d \in DBs, Sure(d)
  PROVE  Place(d)' /\ \A k \in Handlers : ~Moving(k)'
<1> DEFINE s == handler[h]
<1>1. /\ s.op = "delete" /\ s.at = "move" /\ s.todo = {} /\ Renumbers(s) /\ version' = Renumbered(s)
      /\ cached'[d] = IF s.from[d] # 0 THEN s.from[d] - 1 ELSE cached[d]
      /\ UNCHANGED <<slug, table, schema>>
  BY DEF Renumber, ghosts
<1>2. s \in HandlerType /\ Shape(s) /\ s.number \in Numbers /\ s.number # 0
      /\ s.later \in SUBSET Numbers /\ (\A n \in s.later : n > s.number)
      /\ s.from[d] \in Numbers /\ version \in [Migs -> Numbers]
      /\ \A i \in DOMAIN schema[d] : schema[d][i] \in Migs
  BY <1>1 DEF Types, TypeOK, HandlerType, Shape
<1>3. /\ \A k \in Handlers : k # h => ~Moving(k) /\ handler[k].done = {}
      /\ ~Recording(d)
  BY <1>1, OnlyMover DEF Sure, Moving
<1>4. Others(h) /\ handler'[h].done = {} /\ handler'[h].op = "none" /\ handler'[h].at = "over"
  BY OverIs
<1>5. /\ \A k \in Handlers : handler'[k].done = {} /\ ~Moving(k)'
      /\ ~Recording(d)'
  BY <1>3, <1>4 DEF Others, Moving, Recording
<1>6. DeletePlan(s, d)
  BY <1>1 DEF Plans, PlanFits, Moving
<1> DEFINE after == version'
<1>7. /\ \A m \in Migs : \/ version[m] = s.number /\ after[m] = 0
                         \/ version[m] \in s.later /\ after[m] = version[m] - 1
                         \/ version[m] # s.number /\ version[m] \notin s.later /\ after[m] = version[m]
      /\ \A m, k \in Migs : m # k /\ after[m] # 0 => after[m] # after[k]
  <2>0. s.number \in Nat /\ ~(s.number > s.number)
    <3>1. s.number \in Nat
      BY <1>2, Naturals
    <3> QED
      BY <3>1
  <2>1. s.number \notin s.later
    BY <1>2, <2>0
  <2> QED
    BY <1>1, <2>1 DEF Renumbered, Renumbers
<1> DEFINE turns == schema[d]
           n == s.number
           later == s.later
<1>8. ASSUME NEW p \in Numbers, NEW q, Fits(version, turns, p),
             \/ p < n /\ q = p
             \/ /\ p > n /\ q = p - 1
                /\ \A m \in Migs : version[m] > n /\ version[m] \notin later => version[m] > p
      PROVE  Fits(after, turns, q)
  <2>1. n \in Numbers /\ n # 0 /\ later \in SUBSET Numbers /\ (\A l \in later : l > n)
        /\ \A i \in DOMAIN turns : turns[i] \in Migs
    BY <1>2
  <2>0. /\ p \in Numbers /\ Fits(version, turns, p)
        /\ \/ p < n /\ q = p
           \/ /\ p > n /\ q = p - 1
              /\ \A m \in Migs : version[m] > n /\ version[m] \notin later => version[m] > p
    BY <1>8
  <2>2. \A m \in Migs : \/ version[m] = n /\ after[m] = 0
                        \/ version[m] \in later /\ after[m] = version[m] - 1
                        \/ version[m] # n /\ version[m] \notin later /\ after[m] = version[m]
    BY <1>7
  <2>3. \A m, k \in Migs : m # k /\ after[m] # 0 => after[m] # after[k]
    BY <1>7
  <2> HIDE DEF turns, n, later, after
  <2> QED
    BY ONLY <1>2, <2>0, <2>1, <2>2, <2>3, FitsRenumbered, SMTT(40)
<1>9. CASE d \in s.done
  <2>1. Stamped(s, d)
    BY <1>1, <1>9 DEF Places, Place
  <2>2. /\ s.from[d] # 0 /\ s.from[d] > n
        /\ \A m \in Migs : version[m] > n /\ version[m] \notin later => version[m] > s.from[d]
    BY <1>1, <1>2, <1>6, <1>9 DEF DeletePlan, Shape
  <2>3. Fits(after, turns, s.from[d] - 1)
    BY <1>2, <1>8, <2>1, <2>2 DEF Stamped
  <2>4. Resting(d)'
    BY <1>1, <2>1, <2>2, <2>3 DEF Stamped, Resting, Pointer, Other
  <2> QED
    BY <1>5, <2>4 DEF Place
<1>10. CASE d \notin s.done
  <2>1. Resting(d) /\ cached[d] = Pointer(d)
    BY <1>3, <1>10 DEF Places, Place, Still, Resting
  <2>2. s.from[d] = 0 /\ Pointer(d) < n /\ Pointer(d) \in Numbers
    BY <1>1, <1>6, <1>10 DEF DeletePlan, Types, TypeOK, Pointer
  <2>3. Fits(after, turns, Pointer(d))
    BY <1>8, <2>1, <2>2 DEF Resting
  <2>4. Resting(d)'
    BY <1>1, <2>1, <2>2, <2>3 DEF Resting, Pointer, Other
  <2> QED
    BY <1>5, <2>4 DEF Place
<1> QED
  BY <1>5, <1>9, <1>10

\* The slug changed after the tables.
LEMMA PlaceSwitched ==
  ASSUME Types, Alone, Places, Plans, NEW h \in Handlers, Rename(h), NEW d \in DBs, Sure(d)
  PROVE  Place(d)' /\ \A k \in Handlers : ~Moving(k)'
<1> DEFINE s == handler[h]
<1>1. /\ s.op = "rename" /\ s.at = "move" /\ s.todo = {} /\ slug' = s.to
      /\ UNCHANGED <<version, table, schema, cached>>
  BY DEF Rename, rows, books, ghosts
<1>2. slug \in Slugs /\ s.to \in Slugs /\ s.to # s.slug
  BY <1>1 DEF Types, TypeOK, HandlerType, Shape
<1>3. /\ \A k \in Handlers : k # h => ~Moving(k) /\ handler[k].done = {}
      /\ ~Recording(d)
  BY <1>1, OnlyMover DEF Sure, Moving
<1>4. Others(h) /\ handler'[h].done = {} /\ handler'[h].op = "none" /\ handler'[h].at = "over"
  BY OverIs
<1>5. /\ \A k \in Handlers : handler'[k].done = {} /\ ~Moving(k)'
      /\ ~Recording(d)'
  BY <1>3, <1>4 DEF Others, Moving, Recording
<1>6. RenamePlan(s, d) /\ s.slug = slug
  BY <1>1 DEF Plans, PlanFits, Moving
<1>7. s.to = 1 - slug /\ 1 - s.to = slug
  BY <1>2, <1>6, Naturals
<1>8. CASE d \in s.done
  <2>1. Renamed(s, d)
    BY <1>1, <1>8 DEF Places, Place
  <2>2. Resting(d)'
    BY <1>1, <1>7, <2>1 DEF Renamed, Resting, Pointer, Other, Fits, Has
  <2> QED
    BY <1>5, <2>2 DEF Place
<1>9. CASE d \notin s.done
  <2>1. Resting(d) /\ cached[d] = Pointer(d)
    BY <1>3, <1>9 DEF Places, Place, Still, Resting
  <2>2. Pointer(d) = 0
    BY <1>1, <1>6, <1>9 DEF RenamePlan
  <2>3. Resting(d)'
    BY <1>1, <1>7, <2>1, <2>2 DEF Resting, Pointer, Other, Fits, Has
  <2> QED
    BY <1>5, <2>3 DEF Place
<1> QED
  BY <1>5, <1>8, <1>9

\* A step that moves, renumbers and holds nothing.
LEMMA PlaceLeft ==
  ASSUME NEW d \in DBs, Places, Plans, Sure(d), NEW h \in Handlers, Others(h),
         UNCHANGED <<version, slug, table, schema, cached>>,
         (handler'[h].at = "record" /\ handler'[h].d = d) <=> (handler[h].at = "record" /\ handler[h].d = d),
         d \in handler'[h].done <=> d \in handler[h].done,
         \/ handler'[h].done = {}
         \/ /\ handler'[h].op = handler[h].op /\ handler'[h].from = handler[h].from
            /\ handler'[h].to = handler[h].to
  PROVE  Place(d)' /\ \A k \in Handlers : k # h /\ Moving(k)' => PlanFits(handler[k], d)'
<1>1. Recording(d)' <=> Recording(d)
  BY DEF Recording, Others
<1>2. Place(d)'
  BY <1>1, PlaceKept DEF Others
<1>3. ASSUME NEW k \in Handlers, k # h, Moving(k)' PROVE PlanFits(handler[k], d)'
  <2>1. handler'[k] = handler[k]
    BY <1>3 DEF Others
  <2>2. PlanFits(handler[k], d)
    BY <1>3, <2>1 DEF Plans, Moving
  <2> QED
    BY <2>1, <2>2 DEF PlanFits, DeletePlan, RenamePlan, Pointer
<1> QED
  BY <1>2, <1>3

\* Places and plans together: what one step leaves of each.
LEMMA PlacesStep == Types /\ Fresh /\ Alone /\ Places /\ Plans /\ Loads /\ Next => Places' /\ Plans'
<1> SUFFICES ASSUME Types, Fresh, Alone, Places, Plans, Loads, Next, NEW d \in DBs, Sure(d)'
             PROVE  Place(d)' /\ \A h \in Handlers : Moving(h)' => PlanFits(handler[h], d)'
  BY DEF Places, Plans
<1>0. Sure(d)
  BY SureBefore
<1>1. ASSUME NEW m \in Migs, NEW v \in 1..MaxVersion, Create(m, v)
      PROVE  Place(d)' /\ \A h \in Handlers : Moving(h)' => PlanFits(handler[h], d)'
  <2>1. UNCHANGED handler
    BY <1>1 DEF Create
  <2>2. Place(d)' /\ \A h \in Handlers : Moving(h) => PlanFits(handler[h], d)'
    BY <1>0, <1>1, PlaceCreated
  <2> QED
    BY <2>1, <2>2 DEF Moving
<1>2. ASSUME NEW h \in Handlers, NEW e \in DBs, NEW op \in Applies, Load(h, op, e)
      PROVE  Place(d)' /\ \A k \in Handlers : Moving(k)' => PlanFits(handler[k], d)'
  <2>1. handler[h].at = "new" /\ Others(h) /\ handler'[h].at = "loaded" /\ handler'[h].op = op
        /\ handler'[h].done = {} /\ UNCHANGED <<version, slug, table, schema, cached>>
    BY <1>2, LoadIs
  <2>2. handler[h].done = {} /\ ~Moving(h)'
    BY <2>1, Idle DEF Applies, Moving
  <2> QED
    BY <1>0, <2>1, <2>2, PlaceLeft
<1>3. ASSUME NEW h \in Handlers, RunUp(h) \/ RunDown(h)
      PROVE  Place(d)' /\ \A k \in Handlers : Moving(k)' => PlanFits(handler[k], d)'
  <2>1. Place(d)'
    BY <1>0, <1>3, PlaceRun
  <2>2. /\ Others(h) /\ handler'[h].op = handler[h].op /\ handler[h].op \in Applies
        /\ UNCHANGED <<version, slug>> /\ handler[h].d \in DBs
        /\ \A e \in DBs, n \in Slugs : e # handler[h].d => table'[e][n] = table[e][n]
    BY <1>3, RunUpIs, RunDownIs DEF Applies
  <2>3. ASSUME NEW k \in Handlers, Moving(k)' PROVE PlanFits(handler[k], d)'
    <3>1. k # h /\ handler'[k] = handler[k] /\ Moving(k)
      BY <2>2, <2>3 DEF Moving, Others, Applies
    <3>2. handler[h].d # d
      BY <1>0, <2>2, <3>1, OnlyMover DEF Sure
    <3>3. Pointer(d)' = Pointer(d)
      BY <2>2, <3>2 DEF Pointer, Types, TypeOK
    <3>4. PlanFits(handler[k], d)
      BY <1>0, <3>1 DEF Plans
    <3> QED
      BY <2>2, <3>1, <3>3, <3>4 DEF PlanFits, DeletePlan, RenamePlan
  <2> QED
    BY <2>1, <2>3
<1>4. ASSUME NEW h \in Handlers, Refuse(h) \/ WriteEdit(h) \/ Report(h) \/ RenameFails(h) \/ Crash(h)
      PROVE  Place(d)' /\ \A k \in Handlers : Moving(k)' => PlanFits(handler[k], d)'
  <2>1. Others(h) /\ handler'[h].at = "over" /\ handler'[h].op = "none" /\ handler'[h].done = {}
    BY <1>4, OverIs
  <2>2. UNCHANGED <<version, slug, table, schema, cached>>
    BY <1>4 DEF Refuse, WriteEdit, Report, RenameFails, Crash, rows, books, ghosts
  <2>3. ~Moving(h) => handler[h].done = {}
    BY DEF Types, TypeOK, HandlerType, Shape, Moving, Moves, Applies
  <2>4. d \notin handler[h].done
    <3>1. CASE RenameFails(h)
      BY <3>1 DEF RenameFails, Sure
    <3>2. CASE Crash(h)
      <4>1. CASE ~Moving(h)
        BY <2>3, <4>1
      <4>2. CASE Moving(h)
        <5>1. excused' = excused \cup handler[h].done \cup handler[h].left
          <6>1. handler[h].at # "record"
            BY <4>2 DEF Types, TypeOK, HandlerType, Shape, Moving, Moves
          <6> QED
            BY <3>2, <4>2, <6>1 DEF Crash
        <5>2. d \notin excused'
          BY DEF Sure
        <5> QED
          BY <5>1, <5>2
      <4> QED
        BY <4>1, <4>2
    <3> QED
      BY <1>4, <2>3, <3>1, <3>2 DEF Refuse, WriteEdit, Editing, Moving, Report
  <2>5. ~(handler[h].at = "record" /\ handler[h].d = d)
    <3>1. CASE Crash(h)
      <4>1. handler[h].at = "record" => ~Moving(h)
        BY DEF Types, TypeOK, HandlerType, Shape, Moving, Moves
      <4> QED
        BY <3>1, <4>1 DEF Crash, Sure
    <3>2. CASE WriteEdit(h)
      BY <3>2 DEF WriteEdit, Editing, Types, Shape
    <3> QED
      BY <1>4, <3>1, <3>2 DEF Refuse, Report, RenameFails
  <2> QED
    BY <1>0, <2>1, <2>2, <2>4, <2>5, PlaceLeft DEF Moving
<1>5. ASSUME NEW h \in Handlers, Record(h)
      PROVE  Place(d)' /\ \A k \in Handlers : Moving(k)' => PlanFits(handler[k], d)'
  <2>1. Others(h) /\ handler'[h].op = "none"
    BY <1>5, OverIs
  <2>2. UNCHANGED <<version, slug, table>>
    BY <1>5 DEF Record, rows
  <2>3. ASSUME NEW k \in Handlers, Moving(k)' PROVE PlanFits(handler[k], d)'
    <3>1. handler'[k] = handler[k] /\ Moving(k)
      BY <2>1, <2>3 DEF Moving, Others
    <3>2. PlanFits(handler[k], d)
      BY <1>0, <3>1 DEF Plans
    <3> QED
      BY <2>2, <3>1, <3>2 DEF PlanFits, DeletePlan, RenamePlan, Pointer
  <2> QED
    BY <1>0, <1>5, <2>3, PlaceRecorded
<1>6. ASSUME NEW h \in Handlers, NEW m \in Migs, NEW deaf \in SUBSET DBs, BeginEdit(h, m, deaf)
      PROVE  Place(d)' /\ \A k \in Handlers : Moving(k)' => PlanFits(handler[k], d)'
  <2>1. handler[h].at = "new" /\ Others(h) /\ handler'[h].at = "edit" /\ handler'[h].op = "edit"
        /\ handler'[h].done = {} /\ UNCHANGED <<version, slug, table, schema, cached>>
    BY <1>6, EditIs
  <2>2. handler[h].done = {} /\ ~Moving(h)'
    BY <2>1, Idle DEF Moving
  <2> QED
    BY <1>0, <2>1, <2>2, PlaceLeft
<1>7. ASSUME NEW h \in Handlers, \/ \E m \in Migs, deaf \in SUBSET DBs : PlanDelete(h, m, deaf)
                                 \/ \E to \in Slugs : PlanRename(h, to)
      PROVE  Place(d)' /\ \A k \in Handlers : Moving(k)' => PlanFits(handler[k], d)'
  <2>1. handler[h].at = "new" /\ Others(h) /\ handler'[h].at = "move" /\ handler'[h].done = {}
        /\ excused' = excused \cup Overlap /\ UNCHANGED <<version, slug, table, schema, cached>>
    BY <1>7, DeleteIs, RenameIs
  <2>2. handler[h].done = {} /\ d \notin Overlap
    BY <2>1, Idle DEF Sure
  <2>3. Place(d)'
    BY <1>0, <2>1, <2>2, PlaceLeft
  <2> QED
    BY <1>0, <1>7, <2>2, <2>3, PlanMade
<1>8. ASSUME NEW h \in Handlers, Move(h) \/ Undo(h)
      PROVE  Place(d)' /\ \A k \in Handlers : Moving(k)' => PlanFits(handler[k], d)'
  BY <1>0, <1>8, PlaceMoved, PlaceUndone
<1>9. ASSUME NEW h \in Handlers, RenumberFails(h)
      PROVE  Place(d)' /\ \A k \in Handlers : Moving(k)' => PlanFits(handler[k], d)'
  <2>1. LET s == handler[h] t == handler'[h] IN
        /\ Moving(h) /\ s.op = "delete" /\ s.at = "move" /\ s.todo = {} /\ Others(h)
        /\ t.op = s.op /\ t.slug = s.slug /\ t.to = s.to /\ t.number = s.number /\ t.from = s.from
        /\ t.later = s.later /\ t.at = "undo" /\ t.todo = s.todo /\ t.done = s.done
        /\ UNCHANGED <<version, slug, table, cached, schema>>
    BY <1>9, FailIs
  <2>2. Place(d)' /\ \A k \in Handlers : k # h /\ Moving(k)' => PlanFits(handler[k], d)'
    BY <1>0, <2>1, PlaceLeft
  <2>3. PlanFits(handler[h], d)
    BY <1>0, <2>1 DEF Plans
  <2>4. PlanFits(handler[h], d)'
    BY <2>1, <2>3 DEF PlanFits, DeletePlan, Pointer
  <2> QED
    BY <2>2, <2>4
<1>10. ASSUME NEW h \in Handlers, Renumber(h) \/ Rename(h)
       PROVE  Place(d)' /\ \A k \in Handlers : Moving(k)' => PlanFits(handler[k], d)'
  BY <1>0, <1>10, PlaceRenumbered, PlaceSwitched
<1> QED
  BY <1>1, <1>2, <1>3, <1>4, <1>5, <1>6, <1>7, <1>8, <1>9, <1>10 DEF Next, Applies

-----------------------------------------------------------------------------
(* What an apply or a rollback loaded.                                     *)

LEMMA LoadsKept ==
  ASSUME Loads, UNCHANGED <<version, slug>>, excused \subseteq excused',
         \A k \in Handlers : handler'[k].op \in Applies => handler'[k] = handler[k]
  PROVE  Loads'
<1> SUFFICES ASSUME NEW k \in Handlers, handler'[k].op \in Applies, handler'[k].d \notin excused'
             PROVE  /\ handler'[k].slug = slug'
                    /\ handler'[k].at = "record" => version'[handler'[k].m] # 0
                    /\ handler'[k].at = "loaded" => ChainFits(handler'[k].chain, version')
  BY DEF Loads
<1> QED
  BY DEF Loads

\* An apply or a rollback across a renumbering or a rename is excused.
LEMMA LoadsSwitched ==
  ASSUME Types, Alone, NEW h \in Handlers, Renumber(h) \/ Rename(h)
  PROVE  Loads'
<1>1. Moving(h) /\ UNCHANGED excused
  BY DEF Renumber, Rename, Moving, ghosts
<1>2. Others(h) /\ handler'[h].op = "none"
  BY OverIs
<1>3. ASSUME NEW k \in Handlers, handler'[k].op \in Applies PROVE handler'[k].d \in excused'
  <2>1. handler'[k] = handler[k]
    BY <1>2, <1>3 DEF Others, Applies
  <2> QED
    BY <1>1, <1>3, <2>1 DEF Alone
<1> QED
  BY <1>3 DEF Loads

LEMMA LoadsStep == Types /\ Fresh /\ Alone /\ Loads /\ Next => Loads'
<1> SUFFICES ASSUME Types, Fresh, Alone, Loads, Next PROVE Loads'
  OBVIOUS
<1>0. version \in [Migs -> Numbers]
  BY DEF Types, TypeOK
<1>1. ASSUME NEW m \in Migs, NEW v \in 1..MaxVersion, Create(m, v) PROVE Loads'
  <2>1. /\ version' = [version EXCEPT ![m] = v] /\ v \notin Versions /\ version[m] = 0
        /\ UNCHANGED <<slug, handler>> /\ excused' = excused \cup {d \in DBs : Under(d, v)}
        /\ \A k \in Handlers : handler[k].chain[m] = 0
    BY <1>1 DEF Create, Fresh
  <2>2. /\ version'[m] = v /\ (\A k \in Migs : k # m => version'[k] = version[k])
        /\ (\A k \in Migs : version[k] # v) /\ v \in Nat /\ v # 0
    BY <1>0, <2>1, Naturals DEF Versions, Rows
  <2>3. ASSUME NEW k \in Handlers, handler[k].at = "loaded", handler[k].op \in Applies,
               handler[k].d \notin excused'
        PROVE  ChainFits(handler[k].chain, version')
    <3> DEFINE chain == handler[k].chain
    <3>1. chain \in [Migs -> Numbers] /\ handler[k].d \in DBs
      BY <2>3, Reads
    <3>2. ChainFits(chain, version) /\ ~Under(handler[k].d, v)
      BY <2>1, <2>3, <3>1 DEF Loads
    <3>3. \A l \in Migs : ~(chain[l] > v)
      BY <2>3, <3>2 DEF Under
    <3>4. ASSUME NEW l \in Migs PROVE chain[l] < v
      <4>1. chain[l] \in Nat /\ chain[l] <= v
        <5>1. chain[l] \in Nat
          BY <3>1, Naturals
        <5> QED
          BY <2>2, <3>3, <5>1
      <4>2. chain[l] # v
        BY <2>2, <3>2 DEF ChainFits
      <4> QED
        BY <2>2, <4>1, <4>2
    <3>5. chain[m] = 0
      BY <2>1
    <3> HIDE DEF chain
    <3>6. ChainFits(chain, version')
      BY <2>2, <3>2, <3>4, <3>5 DEF ChainFits
    <3> QED
      BY <3>6 DEF chain
  <2>4. ASSUME NEW k \in Handlers, handler[k].at = "record", handler[k].op \in Applies,
               handler[k].d \notin excused'
        PROVE  version'[handler[k].m] # 0
    <3>1. version[handler[k].m] # 0 /\ handler[k].m \in Migs
      BY <2>1, <2>4 DEF Loads, Types, Shape
    <3> QED
      BY <2>1, <2>2, <3>1
  <2> QED
    BY <2>1, <2>3, <2>4 DEF Loads
<1>2. ASSUME NEW h \in Handlers, NEW d \in DBs, NEW op \in Applies, Load(h, op, d) PROVE Loads'
  <2>1. LET t == handler'[h] IN
        /\ Others(h) /\ t.at = "loaded" /\ t.slug = slug /\ t.chain = version
        /\ UNCHANGED <<version, slug>>
    BY <1>2, LoadIs
  <2>2. excused \subseteq excused'
    BY <1>2 DEF Load
  <2>3. ChainFits(version, version)
    BY DEF ChainFits
  <2>4. \A k \in Handlers : k # h => handler'[k] = handler[k]
    BY <2>1 DEF Others
  <2>5. ASSUME NEW k \in Handlers, handler'[k].op \in Applies, handler'[k].d \notin excused'
        PROVE  /\ handler'[k].slug = slug'
               /\ handler'[k].at = "record" => version'[handler'[k].m] # 0
               /\ handler'[k].at = "loaded" => ChainFits(handler'[k].chain, version')
    <3>1. CASE k = h
      BY <2>1, <2>3, <3>1
    <3>2. CASE k # h
      BY <2>1, <2>2, <2>4, <2>5, <3>2 DEF Loads
    <3> QED
      BY <3>1, <3>2
  <2> QED
    BY <2>5 DEF Loads
<1>3. ASSUME NEW h \in Handlers, RunUp(h) \/ RunDown(h) PROVE Loads'
  <2>1. PICK d \in DBs, n \in Numbers, m \in Migs :
        LET s == handler[h] t == handler'[h] IN
        /\ s.at = "loaded" /\ s.d = d /\ s.op \in Applies /\ s.chain[m] = n /\ n # 0
        /\ Others(h) /\ t.at = "record" /\ t.op = s.op /\ t.d = d /\ t.slug = s.slug /\ t.m = m
        /\ UNCHANGED <<version, slug, excused>>
    <3>1. CASE RunUp(h)
      <4>1. PICK d \in DBs, p \in Numbers, n \in Numbers, m \in Migs :
            LET s == handler[h] t == handler'[h] IN
            /\ s.at = "loaded" /\ s.d = d /\ s.op = "up" /\ s.chain[m] = n /\ n > p
            /\ Others(h) /\ t.at = "record" /\ t.op = "up" /\ t.d = d /\ t.slug = s.slug /\ t.m = m
            /\ UNCHANGED <<version, slug, excused>>
        BY <3>1, RunUpIs
      <4>2. n # 0
        BY <4>1, Naturals
      <4> QED
        BY <4>1, <4>2 DEF Applies
    <3>2. CASE RunDown(h)
      BY <3>2, RunDownIs DEF Applies
    <3> QED
      BY <1>3, <3>1, <3>2
  <2>2. \A k \in Handlers : k # h => handler'[k] = handler[k]
    BY <2>1 DEF Others
  <2>3. d \notin excused => version[m] # 0 /\ handler[h].slug = slug
    BY <2>1 DEF Loads, ChainFits
  <2>4. ASSUME NEW k \in Handlers, handler'[k].op \in Applies, handler'[k].d \notin excused'
        PROVE  /\ handler'[k].slug = slug'
               /\ handler'[k].at = "record" => version'[handler'[k].m] # 0
               /\ handler'[k].at = "loaded" => ChainFits(handler'[k].chain, version')
    <3>1. CASE k = h
      BY <2>1, <2>3, <2>4, <3>1
    <3>2. CASE k # h
      BY <2>1, <2>2, <2>4, <3>2 DEF Loads
    <3> QED
      BY <3>1, <3>2
  <2> QED
    BY <2>4 DEF Loads
<1>4. ASSUME NEW h \in Handlers,
             Refuse(h) \/ Record(h) \/ WriteEdit(h) \/ RenameFails(h) \/ Report(h) \/ Crash(h)
      PROVE  Loads'
  <2>1. Others(h) /\ handler'[h].op = "none"
    BY <1>4, OverIs
  <2>2. UNCHANGED <<version, slug>> /\ excused \subseteq excused'
    BY <1>4 DEF Refuse, Record, WriteEdit, RenameFails, Report, Crash, rows, ghosts
  <2> QED
    BY <2>1, <2>2, LoadsKept DEF Others, Applies
<1>5. ASSUME NEW h \in Handlers, Renumber(h) \/ Rename(h) PROVE Loads'
  BY <1>5, LoadsSwitched
<1>6. ASSUME NEW h \in Handlers, NEW m \in Migs, NEW deaf \in SUBSET DBs,
             BeginEdit(h, m, deaf) \/ PlanDelete(h, m, deaf)
      PROVE  Loads'
  <2>1. Others(h) /\ handler'[h].op \notin Applies /\ UNCHANGED <<version, slug>>
        /\ excused \subseteq excused'
    BY <1>6, EditIs, DeleteIs DEF Applies
  <2> QED
    BY <2>1, LoadsKept DEF Others
<1>7. ASSUME NEW h \in Handlers, NEW to \in Slugs, PlanRename(h, to) PROVE Loads'
  <2>1. Others(h) /\ handler'[h].op \notin Applies /\ UNCHANGED <<version, slug>>
        /\ excused \subseteq excused'
    BY <1>7, RenameIs DEF Applies
  <2> QED
    BY <2>1, LoadsKept DEF Others
<1>8. ASSUME NEW h \in Handlers, Move(h) \/ RenumberFails(h) \/ Undo(h) PROVE Loads'
  <2>1. Others(h) /\ Moving(h) /\ handler'[h].op = handler[h].op /\ UNCHANGED <<version, slug>>
        /\ excused \subseteq excused'
    BY <1>8, MoveIs, FailIs, UndoIs
  <2>2. handler'[h].op \notin Applies
    BY <2>1 DEF Moving, Applies
  <2> QED
    BY <2>1, <2>2, LoadsKept DEF Others
<1> QED
  BY <1>1, <1>2, <1>3, <1>4, <1>5, <1>6, <1>7, <1>8 DEF Next, Applies

-----------------------------------------------------------------------------
(* Who has the SQL of a migration is in the books, or traced.              *)

LEMMA RanIs ==
  ASSUME Types, NEW d \in DBs, NEW r \in ran[d]
  PROVE  r \in Migs \X Texts /\ r[1] \in Migs /\ r[2] \in Texts /\ r = <<r[1], r[2]>>
  BY DEF Types, TypeOK

\* A version listed that a database got through the gateway was listed before.
LEMMA ListedBefore ==
  ASSUME Types, Fresh, Next, NEW d \in DBs, NEW r \in ran[d], version'[r[1]] # 0
  PROVE  version[r[1]] # 0
<1>0. r[1] \in Migs /\ version \in [Migs -> Numbers]
  BY RanIs DEF Types, TypeOK
<1>1. CASE UNCHANGED version
  BY <1>1
<1>2. ASSUME NEW m \in Migs, NEW v \in 1..MaxVersion, Create(m, v) PROVE version[r[1]] # 0
  <2>1. m # r[1]
    BY <1>2 DEF Create, Fresh
  <2> QED
    BY <1>0, <1>2, <2>1 DEF Create
<1>3. ASSUME NEW h \in Handlers, Renumber(h) PROVE version[r[1]] # 0
  <2> DEFINE s == handler[h]
  <2>1. s.number \in Nat /\ s.number # 0 /\ s.later \subseteq Nat /\ \A n \in s.later : n > s.number
    BY <1>3, Naturals DEF Renumber, Types, TypeOK, HandlerType, Shape
  <2>2. 0 \notin s.later
    BY <2>1
  <2>3. version' = Renumbered(s)
    BY <1>3 DEF Renumber
  <2> HIDE DEF s
  <2>4. version[r[1]] = 0 => version'[r[1]] = 0
    BY <1>0, <2>1, <2>2, <2>3 DEF Renumbered
  <2> QED
    BY <2>4
<1>4. \A h \in Handlers : RunUp(h) \/ RunDown(h) \/ Move(h) \/ Undo(h) \/ RenumberFails(h) =>
        UNCHANGED version
  BY RunUpIs, RunDownIs, MoveIs, UndoIs, FailIs
<1>5. ASSUME NEW h \in Handlers, NEW m \in Migs, NEW deaf \in SUBSET DBs,
             BeginEdit(h, m, deaf) \/ PlanDelete(h, m, deaf)
      PROVE  UNCHANGED version
  BY <1>5, EditIs, DeleteIs
<1>6. ASSUME NEW h \in Handlers, NEW to \in Slugs, PlanRename(h, to) PROVE UNCHANGED version
  BY <1>6, RenameIs
<1>7. ASSUME NEW h \in Handlers, NEW e \in DBs, NEW op \in Applies, Load(h, op, e)
      PROVE  UNCHANGED version
  BY <1>7, LoadIs
<1>8. ASSUME NEW h \in Handlers,
             Refuse(h) \/ Record(h) \/ WriteEdit(h) \/ Rename(h) \/ RenameFails(h) \/ Report(h)
             \/ Crash(h)
      PROVE  UNCHANGED version
  BY <1>8 DEF Refuse, Record, WriteEdit, Rename, RenameFails, Report, Crash, rows
<1> QED
  BY <1>1, <1>2, <1>3, <1>4, <1>5, <1>6, <1>7, <1>8 DEF Next, Applies

LEMMA BookedKept ==
  ASSUME Types, Fresh, Next, Booked, excused \subseteq excused',
         UNCHANGED <<ran, history>>,
         \A k \in Handlers : handler[k].at = "record" => handler'[k] = handler[k]
  PROVE  Booked'
<1> SUFFICES ASSUME NEW d \in DBs, d \notin excused', NEW r \in ran[d], version'[r[1]] # 0
             PROVE  r[1] \in history[d] \/ ToBook(d, r[1])'
  BY DEF Booked
<1>1. version[r[1]] # 0
  BY ListedBefore
<1>2. r[1] \in history[d] \/ ToBook(d, r[1])
  BY <1>1 DEF Booked
<1>3. ToBook(d, r[1]) => ToBook(d, r[1])'
  BY DEF ToBook
<1> QED
  BY <1>2, <1>3

LEMMA BookedStep == Types /\ Fresh /\ Booked /\ Next => Booked'
<1> SUFFICES ASSUME Types, Fresh, Booked, Next PROVE Booked'
  OBVIOUS
<1>1. ASSUME NEW m \in Migs, NEW v \in 1..MaxVersion, Create(m, v) PROVE Booked'
  <2>1. UNCHANGED <<ran, history, handler>> /\ excused \subseteq excused'
    BY <1>1 DEF Create, books
  <2> QED
    BY <2>1, BookedKept
<1>2. ASSUME NEW h \in Handlers, NEW d \in DBs, NEW op \in Applies, Load(h, op, d) PROVE Booked'
  <2>1. handler[h].at = "new" /\ Others(h) /\ UNCHANGED <<ran, history>>
    BY <1>2, LoadIs
  <2>2. excused \subseteq excused'
    BY <1>2 DEF Load
  <2> QED
    BY <2>1, <2>2, BookedKept DEF Others
<1>3. ASSUME NEW h \in Handlers, RunUp(h) PROVE Booked'
  <2>1. PICK d \in DBs, m \in Migs :
        LET s == handler[h] t == handler'[h] IN
        /\ s.at = "loaded" /\ Others(h) /\ t.at = "record" /\ t.op = "up" /\ t.d = d /\ t.m = m
        /\ ran'[d] = ran[d] \cup {<<m, s.sql[m]>>} /\ \A e \in DBs \ {d} : ran'[e] = ran[e]
        /\ UNCHANGED <<version, history, excused>>
    BY <1>3, RunUpIs
  <2>2. ASSUME NEW e \in DBs, NEW x, ToBook(e, x) PROVE ToBook(e, x)'
    BY <2>1, <2>2 DEF ToBook, Others
  <2>3. ToBook(d, m)'
    BY <2>1 DEF ToBook
  <2>4. ASSUME NEW e \in DBs, e \notin excused', NEW r \in ran'[e], version'[r[1]] # 0
        PROVE  r[1] \in history'[e] \/ ToBook(e, r[1])'
    <3>1. CASE r \in ran[e]
      BY <2>1, <2>2, <2>4, <3>1 DEF Booked
    <3>2. CASE r \notin ran[e]
      <4>1. e = d /\ r = <<m, handler[h].sql[m]>>
        BY <2>1, <2>4, <3>2
      <4> QED
        BY <2>3, <4>1
    <3> QED
      BY <3>1, <3>2
  <2> QED
    BY <2>4 DEF Booked
<1>4. ASSUME NEW h \in Handlers, RunDown(h) PROVE Booked'
  <2>1. PICK d \in DBs, m \in Migs :
        LET s == handler[h] t == handler'[h] IN
        /\ s.at = "loaded" /\ Others(h)
        /\ ran'[d] = ran[d] \ ({m} \X Texts) /\ \A e \in DBs \ {d} : ran'[e] = ran[e]
        /\ UNCHANGED <<version, history, excused>>
    BY <1>4, RunDownIs
  <2>2. ASSUME NEW e \in DBs, NEW x, ToBook(e, x) PROVE ToBook(e, x)'
    BY <2>1, <2>2 DEF ToBook, Others
  <2>3. \A e \in DBs : ran'[e] \subseteq ran[e]
    BY <2>1
  <2> QED
    BY <2>1, <2>2, <2>3 DEF Booked
<1>5. ASSUME NEW h \in Handlers, Record(h) PROVE Booked'
  <2> DEFINE s == handler[h]
  <2>1. Others(h) /\ UNCHANGED <<version, ran, excused>> /\ s.d \in DBs /\ s.m \in Migs
    BY <1>5, OverIs DEF Record, rows, ghosts, Types, Shape, Applies
  <2>2. \A e \in DBs : history[e] \subseteq history'[e]
    <3>1. history \in [DBs -> SUBSET Migs]
      BY DEF Types, TypeOK
    <3>2. \/ UNCHANGED history
          \/ history' = [history EXCEPT ![s.d] = @ \cup (IF s.op = "up" THEN {s.m} ELSE {})]
      BY <1>5 DEF Record
    <3> QED
      BY <2>1, <3>1, <3>2
  <2>3. s.op = "up" /\ version[s.m] # 0 => s.m \in history'[s.d]
    <3>1. history \in [DBs -> SUBSET Migs]
      BY DEF Types, TypeOK
    <3>2. version[s.m] # 0 =>
            history' = [history EXCEPT ![s.d] = @ \cup (IF s.op = "up" THEN {s.m} ELSE {})]
      BY <1>5, <2>1 DEF Record, Rows
    <3> QED
      BY <2>1, <3>1, <3>2
  <2>4. ASSUME NEW e \in DBs, NEW x, version[x] # 0, ToBook(e, x)
        PROVE  ToBook(e, x)' \/ x \in history'[e]
    <3>1. PICK k \in Handlers :
            handler[k].at = "record" /\ handler[k].op = "up" /\ handler[k].d = e /\ handler[k].m = x
      BY <2>4 DEF ToBook
    <3>2. CASE k = h
      BY <2>3, <2>4, <3>1, <3>2
    <3>3. CASE k # h
      BY <2>1, <3>1, <3>3 DEF ToBook, Others
    <3> QED
      BY <3>2, <3>3
  <2> QED
    BY <2>1, <2>2, <2>4 DEF Booked
<1>6. ASSUME NEW h \in Handlers,
             Refuse(h) \/ WriteEdit(h) \/ Rename(h) \/ RenameFails(h) \/ Report(h)
      PROVE  Booked'
  <2>1. Others(h) /\ handler[h].at # "record"
    BY <1>6, OverIs DEF Refuse, WriteEdit, Editing, Rename, RenameFails, Report, Types, Shape
  <2>2. UNCHANGED <<ran, history>> /\ excused \subseteq excused'
    BY <1>6 DEF Refuse, WriteEdit, Rename, RenameFails, Report, books, ghosts
  <2> QED
    BY <2>1, <2>2, BookedKept DEF Others
<1>7. ASSUME NEW h \in Handlers, Crash(h) PROVE Booked'
  <2>1. Others(h) /\ UNCHANGED <<ran, history, version>> /\ excused \subseteq excused'
    BY <1>7, OverIs DEF Crash, books, rows
  <2>2. handler[h].at = "record" => handler[h].d \in excused'
    <3>1. ASSUME handler[h].at = "record" PROVE handler[h].d \in excused'
      <4>1. ~Moving(h)
        BY <3>1 DEF Types, TypeOK, HandlerType, Shape, Moving, Moves
      <4> QED
        BY <1>7, <3>1, <4>1 DEF Crash
    <3> QED
      BY <3>1
  <2>3. ASSUME NEW d \in DBs, d \notin excused', NEW x, ToBook(d, x) PROVE ToBook(d, x)'
    <3>1. PICK k \in Handlers :
            handler[k].at = "record" /\ handler[k].op = "up" /\ handler[k].d = d /\ handler[k].m = x
      BY <2>3 DEF ToBook
    <3>2. k # h
      BY <2>2, <2>3, <3>1
    <3> QED
      BY <2>1, <3>1, <3>2 DEF ToBook, Others
  <2> QED
    BY <2>1, <2>3 DEF Booked
<1>8. ASSUME NEW h \in Handlers, Renumber(h) PROVE Booked'
  <2> DEFINE s == handler[h]
             gone == {m \in Rows : version[m] = s.number}
  <2>1. Others(h) /\ UNCHANGED <<ran, excused>> /\ s.op = "delete"
        /\ version' = Renumbered(s) /\ \A d \in DBs : history'[d] = history[d] \ gone
    BY <1>8, OverIs DEF Renumber, ghosts
  <2>2. s.at # "record"
    BY <1>8 DEF Renumber
  <2>3. ASSUME NEW d \in DBs, d \notin excused', NEW r \in ran'[d], version'[r[1]] # 0
        PROVE  r[1] \in history'[d] \/ ToBook(d, r[1])'
    <3>1. r \in ran[d] /\ r[1] \in Migs
      BY <2>1, <2>3, RanIs
    <3>2. version[r[1]] # 0
      BY <2>3, <3>1, ListedBefore
    <3>3. r[1] \notin gone
      <4>1. \A n \in s.later : n > s.number /\ s.number \in Nat
        BY <2>1, Naturals DEF Types, TypeOK, HandlerType, Shape
      <4>2. s.number \notin s.later
        BY <4>1
      <4>3. version[r[1]] = s.number => version'[r[1]] = 0
        BY <2>1, <3>1, <4>2 DEF Renumbered
      <4> QED
        BY <2>3, <4>3
    <3>4. r[1] \in history[d] \/ ToBook(d, r[1])
      BY <2>1, <2>3, <3>1, <3>2 DEF Booked
    <3>5. ToBook(d, r[1]) => ToBook(d, r[1])'
      BY <2>1, <2>2 DEF ToBook, Others
    <3> QED
      BY <2>1, <3>3, <3>4, <3>5
  <2> QED
    BY <2>3 DEF Booked
<1>9. ASSUME NEW h \in Handlers, NEW m \in Migs, NEW deaf \in SUBSET DBs,
             BeginEdit(h, m, deaf) \/ PlanDelete(h, m, deaf)
      PROVE  Booked'
  <2>1. handler[h].at = "new" /\ Others(h) /\ UNCHANGED <<ran, history>> /\ excused \subseteq excused'
    BY <1>9, EditIs, DeleteIs
  <2> QED
    BY <2>1, BookedKept DEF Others
<1>10. ASSUME NEW h \in Handlers, NEW to \in Slugs, PlanRename(h, to) PROVE Booked'
  <2>1. handler[h].at = "new" /\ Others(h) /\ UNCHANGED <<ran, history>> /\ excused \subseteq excused'
    BY <1>10, RenameIs
  <2> QED
    BY <2>1, BookedKept DEF Others
<1>11. ASSUME NEW h \in Handlers, Move(h) \/ RenumberFails(h) \/ Undo(h) PROVE Booked'
  <2>1. handler[h].at # "record" /\ Others(h) /\ UNCHANGED <<ran, history>>
        /\ excused \subseteq excused'
    BY <1>11, MoveIs, FailIs, UndoIs
  <2> QED
    BY <2>1, BookedKept DEF Others
<1> QED
  BY <1>1, <1>2, <1>3, <1>4, <1>5, <1>6, <1>7, <1>8, <1>9, <1>10, <1>11 DEF Next, Applies

\* A database nothing hides from an edit, that has its migration, is asked and traced.
LEMMA TracedNow ==
  ASSUME Inv, NEW h \in Handlers, NEW m \in Migs, NEW deaf \in SUBSET DBs, BeginEdit(h, m, deaf),
         NEW d \in DBs, d \notin blurred', NEW r \in ran[d], r[1] = m
  PROVE  <<m, d>> \in diverged'
<1>1. /\ version[m] # 0 /\ d \notin excused \cup named \cup Moved /\ ~Busy(d)
      /\ diverged' = diverged \cup ({m} \X Blocking(m, deaf))
  BY DEF BeginEdit, Rows
<1>2. /\ Types /\ Fresh /\ Places /\ Booked
  BY DEF Inv
<1>3. \A k \in Handlers : ~Moving(k) => handler[k].done = {} /\ handler[k].left = {}
  BY <1>2 DEF Types, TypeOK, HandlerType, Shape, Moving, Moves, Applies
<1>4. \A k \in Handlers : d \notin handler[k].done /\ d \notin handler[k].left
  BY <1>1, <1>3 DEF Moved
<1>5. Resting(d)
  BY <1>1, <1>2, <1>4 DEF Sure, Still, Places, Place
<1>6. m \in history[d]
  <2>1. ~ToBook(d, m)
    BY <1>1 DEF ToBook, Busy
  <2> QED
    BY <1>1, <1>2, <2>1 DEF Booked
<1>7. Has(schema[d], m)
  BY <1>2 DEF Fresh
<1>8. version[m] <= Pointer(d)
  BY <1>1, <1>5, <1>7 DEF Resting, Fits
<1>9. Pointer(d) >= version[m]
  <2>1. Pointer(d) \in Nat /\ version[m] \in Nat
    BY <1>2, Naturals DEF Types, TypeOK, Pointer
  <2> QED
    BY <1>8, <2>1
<1>10. d \in Blocking(m, deaf)
  BY <1>6, <1>9 DEF Blocking
<1> QED
  BY <1>1, <1>10

LEMMA EditsKept ==
  ASSUME Types, Fresh, Next, Edits, blurred \subseteq blurred', diverged \subseteq diverged',
         UNCHANGED <<ran, text>>, NEW h \in Handlers, Others(h),
         handler'[h].op = "none" \/ handler'[h].op \in Moves
  PROVE  Edits'
<1>1. \A k \in Handlers : Editing(k)' => k # h /\ handler'[k] = handler[k] /\ Editing(k)
  BY DEF Editing, Others, Moves
<1>2. \A d \in DBs : Busy(d)' => Busy(d)
  BY DEF Busy, Others, Moves
<1>3. handler'[h].at # "loaded"
  BY TypesStep DEF Types, TypeOK, HandlerType, Shape, Moves
<1>4. ASSUME NEW k \in Handlers, NEW d \in DBs, d \notin blurred', Editing(k)',
             NEW r \in ran'[d], r[1] = handler'[k].m, version'[r[1]] # 0
      PROVE  <<r[1], d>> \in diverged'
  <2>1. version[r[1]] # 0
    BY <1>4, ListedBefore
  <2> QED
    BY <1>1, <1>4, <2>1 DEF Edits
<1>5. \A k \in Handlers, d \in DBs \ blurred' : Editing(k)' => ~Busy(d)'
  BY <1>1, <1>2 DEF Edits
<1>6. \A k \in Handlers : handler'[k].at = "loaded" /\ handler'[k].d \notin blurred' =>
        handler'[k].sql = text'
  BY <1>3 DEF Edits, Others
<1> QED
  BY <1>4, <1>5, <1>6 DEF Edits

LEMMA EditsStep == Inv /\ Next => Edits'
<1> SUFFICES ASSUME Inv, Next PROVE Edits'
  OBVIOUS
<1>0. Types /\ Fresh /\ Edits
  BY DEF Inv
<1>1. ASSUME NEW m \in Migs, NEW v \in 1..MaxVersion, Create(m, v) PROVE Edits'
  <2>1. UNCHANGED <<handler, ran, text, diverged, blurred>>
    BY <1>1 DEF Create, books
  <2>2. ASSUME NEW h \in Handlers, NEW d \in DBs \ blurred', Editing(h)',
               NEW r \in ran[d], r[1] = handler[h].m, version'[r[1]] # 0
        PROVE  <<r[1], d>> \in diverged
    <3>1. version[r[1]] # 0
      BY <1>0, <2>2, ListedBefore
    <3> QED
      BY <1>0, <2>1, <2>2, <3>1 DEF Edits, Editing
  <2> QED
    BY <1>0, <2>1, <2>2 DEF Edits, Editing, Busy
<1>2. ASSUME NEW h \in Handlers, NEW d \in DBs, NEW op \in Applies, Load(h, op, d) PROVE Edits'
  <2>1. /\ Others(h) /\ handler'[h].at = "loaded" /\ handler'[h].op = op /\ handler'[h].d = d
        /\ handler'[h].sql = text /\ UNCHANGED <<version, text, ran, diverged>>
    BY <1>0, <1>2, LoadIs
  <2>2. blurred \subseteq blurred' /\ ((\E k \in Handlers : Editing(k)) => d \in blurred')
    BY <1>2 DEF Load
  <2>3. \A k \in Handlers : Editing(k)' => Editing(k) /\ handler'[k] = handler[k]
    BY <2>1 DEF Editing, Others, Applies
  <2>4. \A e \in DBs : Busy(e)' => Busy(e) \/ e = d
    BY <2>1 DEF Busy, Others
  <2>5. \A k \in Handlers, e \in DBs \ blurred' : Editing(k)' => ~Busy(e)'
    BY <1>0, <2>2, <2>3, <2>4 DEF Edits
  <2>6. \A k \in Handlers, e \in DBs \ blurred' : Editing(k)' =>
          \A r \in ran'[e] : r[1] = handler'[k].m /\ version'[r[1]] # 0 => <<r[1], e>> \in diverged'
    BY <1>0, <2>1, <2>2, <2>3 DEF Edits
  <2>7. \A k \in Handlers : handler'[k].at = "loaded" /\ handler'[k].d \notin blurred' =>
          handler'[k].sql = text'
    BY <1>0, <2>1, <2>2 DEF Edits, Others
  <2> QED
    BY <2>5, <2>6, <2>7 DEF Edits
<1>3. ASSUME NEW h \in Handlers, RunUp(h) \/ RunDown(h) PROVE Edits'
  <2>1. PICK d \in DBs :
        LET s == handler[h] t == handler'[h] IN
        /\ s.at = "loaded" /\ s.op \in Applies /\ s.d = d
        /\ Others(h) /\ t.at = "record" /\ t.op = s.op /\ t.d = d
        /\ \A e \in DBs \ {d} : ran'[e] = ran[e]
        /\ UNCHANGED <<version, text, diverged, blurred>>
    BY <1>0, <1>3, RunUpIs, RunDownIs DEF Applies
  <2>2. Busy(d)
    BY <2>1 DEF Busy, Applies
  <2>3. \A k \in Handlers : Editing(k)' => Editing(k) /\ handler'[k] = handler[k]
    BY <2>1 DEF Editing, Others, Applies
  <2>4. \A e \in DBs : Busy(e)' => Busy(e)
    BY <2>1 DEF Busy, Others, Applies
  <2>5. \A k \in Handlers, e \in DBs \ blurred' : Editing(k)' => ~Busy(e)' /\ e # d
    BY <1>0, <2>1, <2>2, <2>3, <2>4 DEF Edits
  <2>6. \A k \in Handlers, e \in DBs \ blurred' : Editing(k)' =>
          \A r \in ran'[e] : r[1] = handler'[k].m /\ version'[r[1]] # 0 => <<r[1], e>> \in diverged'
    BY <1>0, <2>1, <2>3, <2>5 DEF Edits
  <2>7. \A k \in Handlers : handler'[k].at = "loaded" /\ handler'[k].d \notin blurred' =>
          handler'[k].sql = text'
    BY <1>0, <2>1 DEF Edits, Others
  <2> QED
    BY <2>5, <2>6, <2>7 DEF Edits
<1>4. ASSUME NEW h \in Handlers,
             Refuse(h) \/ Record(h) \/ Renumber(h) \/ Rename(h) \/ RenameFails(h) \/ Report(h)
             \/ Crash(h)
      PROVE  Edits'
  <2>1. Others(h) /\ handler'[h].op = "none"
    BY <1>0, <1>4, OverIs
  <2>2. UNCHANGED <<ran, text, diverged, blurred>>
    BY <1>4 DEF Refuse, Record, Renumber, Rename, RenameFails, Report, Crash, rows, books, ghosts
  <2> QED
    BY <1>0, <2>1, <2>2, EditsKept
<1>5. ASSUME NEW h \in Handlers, WriteEdit(h) PROVE Edits'
  <2>1. Editing(h) /\ Others(h) /\ handler'[h].op = "none" /\ handler'[h].at = "over"
        /\ UNCHANGED <<version, ran, diverged, blurred>>
    BY <1>0, <1>5, OverIs DEF WriteEdit, books, ghosts
  <2>2. \A k \in Handlers : Editing(k)' => Editing(k) /\ handler'[k] = handler[k]
    BY <2>1 DEF Editing, Others
  <2>3. \A e \in DBs : Busy(e)' => Busy(e)
    BY <2>1 DEF Busy, Others
  <2>4. ASSUME NEW k \in Handlers, handler'[k].at = "loaded", handler'[k].d \notin blurred' PROVE FALSE
    <3>1. handler'[k] = handler[k]
      BY <2>1, <2>4 DEF Others
    <3>2. handler[k].op \in Applies /\ handler[k].d \in DBs
      BY <1>0, <2>4, <3>1 DEF Types, TypeOK, HandlerType, Shape, Moves, Applies
    <3>3. Busy(handler[k].d)
      BY <3>2 DEF Busy, Applies
    <3> QED
      BY <1>0, <2>1, <2>4, <3>1, <3>2, <3>3 DEF Edits
  <2>5. \A k \in Handlers, e \in DBs \ blurred' : Editing(k)' => ~Busy(e)'
    BY <1>0, <2>1, <2>2, <2>3 DEF Edits
  <2>6. \A k \in Handlers, e \in DBs \ blurred' : Editing(k)' =>
          \A r \in ran'[e] : r[1] = handler'[k].m /\ version'[r[1]] # 0 => <<r[1], e>> \in diverged'
    BY <1>0, <2>1, <2>2 DEF Edits
  <2> QED
    BY <2>4, <2>5, <2>6 DEF Edits
<1>6. ASSUME NEW h \in Handlers, NEW m \in Migs, NEW deaf \in SUBSET DBs, BeginEdit(h, m, deaf)
      PROVE  Edits'
  <2>1. /\ Others(h) /\ handler'[h].at = "edit" /\ handler'[h].op = "edit" /\ handler'[h].m = m
        /\ UNCHANGED <<version, text, ran>>
    BY <1>0, <1>6, EditIs
  <2>2. blurred \subseteq blurred' /\ diverged \subseteq diverged'
        /\ \A d \in DBs : Busy(d) => d \in blurred'
    BY <1>6 DEF BeginEdit
  <2>3. \A e \in DBs : Busy(e)' => Busy(e)
    BY <2>1 DEF Busy, Others
  <2>4. ASSUME NEW k \in Handlers, NEW d \in DBs \ blurred', Editing(k)', NEW r \in ran'[d],
               r[1] = handler'[k].m, version'[r[1]] # 0
        PROVE  <<r[1], d>> \in diverged'
    <3>1. CASE k = h
      BY <1>6, <2>1, <2>4, <3>1, TracedNow
    <3>2. CASE k # h
      BY <1>0, <2>1, <2>2, <2>4, <3>2 DEF Edits, Editing, Others
    <3> QED
      BY <3>1, <3>2
  <2>5. \A k \in Handlers : handler'[k].at = "loaded" /\ handler'[k].d \notin blurred' =>
          handler'[k].sql = text'
    BY <1>0, <2>1, <2>2 DEF Edits, Others
  <2> QED
    BY <2>2, <2>3, <2>4, <2>5 DEF Edits
<1>7. ASSUME NEW h \in Handlers, NEW m \in Migs, NEW deaf \in SUBSET DBs, PlanDelete(h, m, deaf)
      PROVE  Edits'
  <2>1. Others(h) /\ handler'[h].op \in Moves /\ UNCHANGED <<ran, text, diverged, blurred>>
    BY <1>0, <1>7, DeleteIs DEF Moves
  <2> QED
    BY <1>0, <2>1, EditsKept
<1>8. ASSUME NEW h \in Handlers, NEW to \in Slugs, PlanRename(h, to) PROVE Edits'
  <2>1. Others(h) /\ handler'[h].op \in Moves /\ UNCHANGED <<ran, text, diverged, blurred>>
    BY <1>0, <1>8, RenameIs DEF Moves
  <2> QED
    BY <1>0, <2>1, EditsKept
<1>9. ASSUME NEW h \in Handlers, Move(h) \/ RenumberFails(h) \/ Undo(h) PROVE Edits'
  <2>1. Others(h) /\ Moving(h) /\ handler'[h].op = handler[h].op
        /\ UNCHANGED <<ran, text, diverged, blurred>>
    BY <1>0, <1>9, MoveIs, FailIs, UndoIs
  <2>2. handler'[h].op \in Moves
    BY <2>1 DEF Moving, Moves
  <2> QED
    BY <1>0, <2>1, <2>2, EditsKept
<1> QED
  BY <1>1, <1>2, <1>3, <1>4, <1>5, <1>6, <1>7, <1>8, <1>9 DEF Next, Applies

LEMMA TracedKept ==
  ASSUME Types, Fresh, Next, EditsTraced, blurred \subseteq blurred', diverged \subseteq diverged',
         UNCHANGED text, \A d \in DBs : ran'[d] \subseteq ran[d]
  PROVE  EditsTraced'
<1> SUFFICES ASSUME NEW d \in DBs, d \notin blurred', NEW r \in ran'[d], version'[r[1]] # 0, r[1] \in Migs
             PROVE  r[2] = text[r[1]] \/ <<r[1], d>> \in diverged'
  BY DEF EditsTraced, Rows
<1>1. version[r[1]] # 0 /\ r \in ran[d]
  BY ListedBefore
<1> QED
  BY <1>1 DEF EditsTraced, Rows

LEMMA TracedStep == Inv /\ Next => EditsTraced'
<1> SUFFICES ASSUME Inv, Next PROVE EditsTraced'
  OBVIOUS
<1>0. Types /\ Fresh /\ Edits /\ EditsTraced /\ TypeOK
  BY DEF Inv, Types
<1>1. ASSUME NEW m \in Migs, NEW v \in 1..MaxVersion, Create(m, v) PROVE EditsTraced'
  <2>1. UNCHANGED <<ran, text, diverged, blurred>>
    BY <1>1 DEF Create, books
  <2> QED
    BY <1>0, <2>1, TracedKept
<1>2. ASSUME NEW h \in Handlers, NEW d \in DBs, NEW op \in Applies, Load(h, op, d) PROVE EditsTraced'
  <2>1. UNCHANGED <<ran, text, diverged>>
    BY <1>0, <1>2, LoadIs DEF Load, books
  <2>2. blurred \subseteq blurred'
    BY <1>2 DEF Load
  <2> QED
    BY <1>0, <2>1, <2>2, TracedKept
<1>3. ASSUME NEW h \in Handlers, RunUp(h) PROVE EditsTraced'
  <2>1. PICK d \in DBs, m \in Migs :
        LET s == handler[h] IN
        /\ s.at = "loaded" /\ s.d = d
        /\ ran'[d] = ran[d] \cup {<<m, s.sql[m]>>} /\ \A e \in DBs \ {d} : ran'[e] = ran[e]
        /\ UNCHANGED <<version, text, diverged, blurred>>
    BY <1>0, <1>3, RunUpIs
  <2>2. ASSUME NEW e \in DBs \ blurred, NEW r \in ran'[e], r \notin ran[e] PROVE r[2] = text[r[1]]
    <3>1. e = d /\ r = <<m, handler[h].sql[m]>>
      BY <2>1, <2>2
    <3>2. handler[h].sql = text
      BY <1>0, <2>1, <2>2, <3>1 DEF Edits
    <3> QED
      BY <3>1, <3>2
  <2> QED
    BY <1>0, <2>1, <2>2 DEF EditsTraced, Rows
<1>4. ASSUME NEW h \in Handlers, RunDown(h) PROVE EditsTraced'
  <2>1. UNCHANGED <<text, diverged, blurred>> /\ \A e \in DBs : ran'[e] \subseteq ran[e]
    BY <1>0, <1>4, RunDownIs
  <2> QED
    BY <1>0, <2>1, TracedKept
<1>5. ASSUME NEW h \in Handlers,
             Refuse(h) \/ Record(h) \/ Renumber(h) \/ Rename(h) \/ RenameFails(h) \/ Report(h)
             \/ Crash(h)
      PROVE  EditsTraced'
  <2>1. UNCHANGED <<ran, text, diverged, blurred>>
    BY <1>5 DEF Refuse, Record, Renumber, Rename, RenameFails, Report, Crash, rows, books, ghosts
  <2> QED
    BY <1>0, <2>1, TracedKept
<1>6. ASSUME NEW h \in Handlers, WriteEdit(h) PROVE EditsTraced'
  <2> DEFINE m == handler[h].m
  <2>1. Editing(h) /\ m \in Migs /\ text' = [text EXCEPT ![m] = 1]
        /\ UNCHANGED <<version, ran, diverged, blurred>>
    BY <1>6 DEF WriteEdit, Rows, books, ghosts
  <2>2. \A k \in Migs : k # m => text'[k] = text[k]
    BY <1>0, <2>1 DEF TypeOK
  <2>3. ASSUME NEW d \in DBs \ blurred, NEW r \in ran[d], r[1] \in Rows
        PROVE  r[2] = text'[r[1]] \/ <<r[1], d>> \in diverged
    <3>1. CASE r[1] = m
      BY <1>0, <2>1, <2>3, <3>1 DEF Edits, Rows
    <3>2. CASE r[1] # m
      BY <1>0, <2>2, <2>3, <3>2 DEF EditsTraced, Rows
    <3> QED
      BY <3>1, <3>2
  <2> QED
    BY <2>1, <2>3 DEF EditsTraced, Rows
<1>7. ASSUME NEW h \in Handlers, NEW m \in Migs, NEW deaf \in SUBSET DBs,
             BeginEdit(h, m, deaf) \/ PlanDelete(h, m, deaf)
      PROVE  EditsTraced'
  <2>1. UNCHANGED <<ran, text>>
    BY <1>0, <1>7, EditIs, DeleteIs
  <2>2. blurred \subseteq blurred' /\ diverged \subseteq diverged'
    BY <1>7, <1>0, DeleteIs DEF BeginEdit
  <2> QED
    BY <1>0, <2>1, <2>2, TracedKept
<1>8. ASSUME NEW h \in Handlers, NEW to \in Slugs, PlanRename(h, to) PROVE EditsTraced'
  <2>1. UNCHANGED <<ran, text, diverged, blurred>>
    BY <1>0, <1>8, RenameIs
  <2> QED
    BY <1>0, <2>1, TracedKept
<1>9. ASSUME NEW h \in Handlers, Move(h) \/ RenumberFails(h) \/ Undo(h) PROVE EditsTraced'
  <2>1. UNCHANGED <<ran, text, diverged, blurred>>
    BY <1>0, <1>9, MoveIs, FailIs, UndoIs
  <2> QED
    BY <1>0, <2>1, TracedKept
<1> QED
  BY <1>1, <1>2, <1>3, <1>4, <1>5, <1>6, <1>7, <1>8, <1>9 DEF Next, Applies

-----------------------------------------------------------------------------
(* The theorems.                                                           *)

LEMMA InvInit == Init => Inv
<1> SUFFICES ASSUME Init PROVE Inv
  OBVIOUS
<1>1. Types /\ Fresh /\ Places
  BY TypesInit, FreshInit, PlacesInit
<1>2. \A h \in Handlers : handler[h].op = "none" /\ handler[h].at = "new"
  BY NewIs DEF Init
<1>3. Alone /\ Plans /\ Loads /\ Edits
  BY <1>2 DEF Alone, Plans, Loads, Edits, Moving, Editing, Applies
<1>4. Booked
  BY DEF Init, Booked
<1>5. EditsTraced
  <2>1. ASSUME NEW d \in DBs, NEW r \in ran[d] PROVE r[2] = 0
    BY <2>1 DEF Init
  <2> QED
    BY <1>1, <2>1 DEF EditsTraced, Rows, Init
<1> QED
  BY <1>1, <1>3, <1>4, <1>5 DEF Inv

LEMMA InvStep == Inv /\ [Next]_vars => Inv'
<1> SUFFICES ASSUME Inv, [Next]_vars PROVE Inv'
  OBVIOUS
<1>1. CASE Next
  BY <1>1, TypesStep, FreshStep, AloneStep, PlacesStep, LoadsStep, BookedStep, EditsStep, TracedStep
     DEF Inv
<1>2. CASE UNCHANGED vars
  <2>1. UNCHANGED <<version, text, sealed, slug, table, cached, history, diverged, handler, faults,
                    schema, ran, named, excused, blurred>>
    BY <1>2 DEF vars, rows, books, ghosts
  <2>2. Types' /\ Fresh' /\ Alone'
    BY <2>1 DEF Inv, Types, TypeOK, Fresh, Alone, Moving
  <2>3. Places' /\ Plans'
    <3>1. \A d \in DBs : (Sure(d)' <=> Sure(d)) /\ (Place(d)' <=> Place(d))
      BY <2>1 DEF Sure, Place, Still, Resting, Recording, Stamped, Renamed, Fits, Has, Pointer, Other
    <3>2. \A d \in DBs, h \in Handlers : Moving(h)' /\ PlanFits(handler[h], d) =>
            Moving(h) /\ PlanFits(handler[h], d)'
      BY <2>1 DEF Moving, PlanFits, DeletePlan, RenamePlan, Pointer
    <3> QED
      BY <2>1, <3>1, <3>2 DEF Inv, Places, Plans, Moving
  <2>4. Loads' /\ Booked'
    BY <2>1 DEF Inv, Loads, Booked, ToBook, ChainFits
  <2>5. Edits' /\ EditsTraced'
    BY <2>1 DEF Inv, Edits, Editing, Busy, EditsTraced, Rows
  <2> QED
    BY <2>2, <2>3, <2>4, <2>5 DEF Inv
<1> QED
  BY <1>1, <1>2

(* The invariant every result below rests on.                              *)
THEOREM Invariance == Spec => []Inv
<1> QED
  BY InvInit, InvStep, PTL DEF Spec

(* Every variable keeps its type, for all databases, requests and bounds.  *)
THEOREM TypeCorrect == Spec => []TypeOK
<1>1. Inv => TypeOK
  BY DEF Inv, Types
<1> QED
  BY <1>1, Invariance, PTL

(* PointersTrue for every instance: with no delete or rename under way the *)
(* pointer the gateway reads is the number of the last listed migration    *)
(* the database has, after any renumbering, rename and compensation that   *)
(* _apply_renumber, rename_slug and the two _compensate loops can make,    *)
(* but for the databases they name or that PointersTrue excuses.           *)
THEOREM PointersTell == Spec => []PointersTrue
<1>1. Inv => PointersTrue
  <2> SUFFICES ASSUME Inv, \A h \in Handlers : ~Moving(h), NEW d \in DBs, d \notin named \cup excused
               PROVE  Pointer(d) = Standing(d)
    BY DEF PointersTrue
  <2>1. TypeOK /\ \A h \in Handlers : handler[h].done = {} /\ handler[h].left = {}
    BY NoMover DEF Inv, Types
  <2>2. Resting(d)
    BY <2>1 DEF Inv, Sure, Still, Places, Place
  <2> DEFINE kept == {i \in DOMAIN schema[d] : version[schema[d][i]] # 0}
  <2>3. kept = {i \in DOMAIN schema[d] : schema[d][i] \in Rows}
    BY <2>1 DEF TypeOK, Rows
  <2>4. /\ version \in [Migs -> Numbers] /\ Pointer(d) \in Numbers
        /\ DOMAIN schema[d] \subseteq Nat /\ IsFiniteSet(DOMAIN schema[d])
        /\ \A i \in DOMAIN schema[d] : schema[d][i] \in Migs
    BY <2>1 DEF TypeOK, Pointer
  <2>5. (IF kept = {} THEN 0 ELSE version[schema[d][Max(kept)]]) = Pointer(d)
    BY <2>2, <2>4, FitsLast DEF Resting
  <2> QED
    BY <2>3, <2>5 DEF Standing
<1> QED
  BY <1>1, Invariance, PTL

(* EditsTraced for every instance: whoever update_migration finds with     *)
(* _still_applied_live, no database it could see is left with other SQL    *)
(* than the blueprint shows and no trace of it.                            *)
THEOREM EditsTell == Spec => []EditsTraced
<1>1. Inv => EditsTraced
  BY DEF Inv
<1> QED
  BY <1>1, Invariance, PTL

=============================================================================
