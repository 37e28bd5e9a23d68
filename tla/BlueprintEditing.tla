-------------------------- MODULE BlueprintEditing --------------------------
(***************************************************************************)
(* One blueprint while people delete, create and edit its versions and     *)
(* rename it, and databases apply the versions and roll them back:         *)
(* controllers/model_migration_controller.py, rename_slug of               *)
(* controllers/database_model_controller.py, and as much of                *)
(* controllers/managed_migration_controller.py as a pointer depends on.    *)
(*                                                                         *)
(* A migration is an id; its number (model_migrations.version) may change: *)
(* deleting a version renumbers the later ones, after the pointer of every *)
(* database ahead of it has been moved on its engine, one by one.  The     *)
(* pointer is the number in the engine's own version table, which is named *)
(* after the slug: a rename first renames it, one by one.  A session of    *)
(* the gateway's database is a step, so is a call to an engine; a refused  *)
(* request is no step.  Deletes and renames come with a fresh token.  What *)
(* MigrationRunner models (statements, checkpoints, the lock) is left out. *)
(***************************************************************************)
EXTENDS Naturals, FiniteSets, FiniteSetsExt

CONSTANTS
  DBs, Handlers,   \* databases (numbers: stamps go in order of id) and requests
  Top,             \* versions the blueprint begins with
  MaxMigs,         \* bound: migrations ever
  MaxVersion,      \* bound: numbers in use
  MaxFaults        \* bound: failed or lost calls, and dead processes

Migs == 1..MaxMigs
Texts == 0..1      \* bound: a migration is edited once
Slugs == 0..1      \* bound: two names to rename to and back

ASSUME BlueprintAssumption ==
  /\ DBs \subseteq Nat /\ IsFiniteSet(DBs)
  /\ MaxMigs \in Nat /\ MaxVersion \in Nat /\ MaxFaults \in Nat
  /\ Top \in 0..MaxMigs /\ Top <= MaxVersion

VARIABLES
  version,    \* model_migrations.version; 0 is no row
  text,       \* its SQL
  sealed,     \* its checksum: the number and the SQL it covers
  slug,       \* database_models.slug
  table,      \* engine: the number in the version table of each slug;
              \* 0 is base, or no table
  cached,     \* managed_databases.model_version; 0 is NULL
  history,    \* database_migration_history: migrations applied with success
  diverged,   \* audit_logs: <<migration, database>> of edits after an apply
  handler,    \* memory: the requests
  faults,     \* ghost: calls failed so far
  schema,     \* ghost: the migrations whose DDL each database has, by turn
  ran,        \* ghost: the SQL each database got through the gateway
  named,      \* ghost: databases an answer names as left moved
  excused,    \* ghost: databases a delete or rename overlapped, lost or died upon
  blurred     \* ghost: databases an edit could not see as they were

rows == <<version, text, sealed>>
books == <<cached, history, diverged>>
ghosts == <<schema, ran, named, excused, blurred>>
vars == <<rows, slug, table, books, handler, faults, ghosts>>

New == [at |-> "new", op |-> "none", slug |-> 0, chain |-> [m \in Migs |-> 0],
        d |-> 0, sql |-> [m \in Migs |-> 0],                \* an apply or a rollback
        m |-> 0, number |-> 0,                              \* ... the migration, an edit's, a delete's
        to |-> 0, from |-> [d \in DBs |-> 0], later |-> {},  \* plan of a rename, of a delete
        todo |-> {}, done |-> {}, left |-> {}]              \* databases to move, moved, left moved
Over == [New EXCEPT !.at = "over"]

Init ==
  /\ version = [m \in Migs |-> IF m <= Top THEN m ELSE 0]
  /\ text = [m \in Migs |-> 0] /\ sealed = [m \in Migs |-> <<version[m], 0>>]
  /\ slug = 0 /\ cached \in [DBs -> 0..Top]
  /\ table = [d \in DBs |-> [n \in Slugs |-> IF n = 0 THEN cached[d] ELSE 0]]
  /\ \E adopted \in SUBSET DBs :   \* adopted at a version: nothing ran through the gateway
       /\ history = [d \in DBs |-> IF d \in adopted THEN {} ELSE 1..cached[d]]
       /\ ran = [d \in DBs |-> IF d \in adopted THEN {} ELSE (1..cached[d]) \X {0}]
  /\ schema = [d \in DBs |-> [i \in 1..cached[d] |-> i]]
  /\ diverged = {} /\ handler = [h \in Handlers |-> New] /\ faults = 0
  /\ named = {} /\ excused = {} /\ blurred = {}

-----------------------------------------------------------------------------
Rows == {m \in Migs : version[m] # 0}
Versions == {version[m] : m \in Rows}
Step(h, state) == handler' = [handler EXCEPT ![h] = state]
Fails == faults < MaxFaults /\ faults' = faults + 1

\* get_current_version, by the slug of the blueprint as it is now
Pointer(d) == table[d][slug]
Point(d, name, n) == table' = [table EXCEPT ![d][name] = n]

Moving(h) == handler[h].op \in {"delete", "rename"}
Editing(h) == handler[h].op = "edit"
Busy(d) == \E h \in Handlers : handler[h].op \in {"up", "down"} /\ handler[h].d = d

\* _verify_integrity: the checksum of every version is recomputed
Integrity == \A m \in Rows : sealed[m] = <<version[m], text[m]>>
\* Alembic resolves the pointer in the files of the loaded chain
Resolves(number, chain) == number = 0 \/ \E m \in Migs : chain[m] = number

-----------------------------------------------------------------------------
\* a number below one a database stands at, whatever the name of its table, or
\* below one of the chain an apply or rollback of it has loaded
Under(d, v) ==
  \/ \E n \in Slugs : table[d][n] > v
  \/ \E h \in Handlers : /\ handler[h].at = "loaded" /\ handler[h].d = d
                         /\ \E m \in Migs : handler[h].chain[m] > v

\* create_migration: the next number, or a number of the caller's
Create(m, v) ==
  /\ sealed[m][1] = 0 /\ \A k \in Rows : k < m
  /\ v \notin Versions
  /\ version' = [version EXCEPT ![m] = v] /\ sealed' = [sealed EXCEPT ![m] = <<v, 0>>]
  /\ excused' = excused \cup {d \in DBs : Under(d, v)}
  /\ UNCHANGED <<text, slug, table, books, handler, faults, schema, ran, named, blurred>>

\* apply and rollback: the session that loads the chain and the slug
Load(h, op, d) ==
  /\ handler[h].at = "new" /\ Integrity
  /\ Step(h, [New EXCEPT !.at = "loaded", !.op = op, !.d = d, !.slug = slug,
                         !.chain = version, !.sql = text])
  /\ excused' = IF \E k \in Handlers : Moving(k) THEN excused \cup {d} ELSE excused
  /\ blurred' = IF \E k \in Handlers : Editing(k) THEN blurred \cup {d} ELSE blurred
  /\ UNCHANGED <<rows, slug, table, books, faults, schema, ran, named>>

Below(chain, n) == {chain[m] : m \in Migs} \cap (0..(n - 1))
Above(chain, n) == {chain[m] : m \in Migs} \cap ((n + 1)..MaxVersion)
Latest(turns) == Max(DOMAIN turns \cup {0})
Holder(chain, n) == CHOOSE m \in Migs : chain[m] = n

\* under the lock of the database: one migration up
RunUp(h) ==
  LET s == handler[h]
      current == table[s.d][s.slug]
      next == Min(Above(s.chain, current))
      m == Holder(s.chain, next)
  IN
  /\ s.op = "up" /\ s.at = "loaded"
  /\ Resolves(current, s.chain) /\ Above(s.chain, current) # {}
  /\ Point(s.d, s.slug, next)
  /\ schema' = [schema EXCEPT ![s.d] =
       [i \in DOMAIN @ \cup {Latest(@) + 1} |-> IF i \in DOMAIN @ THEN @[i] ELSE m]]
  /\ ran' = [ran EXCEPT ![s.d] = @ \cup {<<m, s.sql[m]>>}]
  /\ Step(h, [s EXCEPT !.at = "record", !.m = m])
  /\ UNCHANGED <<rows, slug, books, faults, named, excused, blurred>>

\* one migration down: its reverse, and the pointer to the one before it
RunDown(h) ==
  LET s == handler[h]
      current == table[s.d][s.slug]
      m == Holder(s.chain, current)
  IN
  /\ s.op = "down" /\ s.at = "loaded"
  /\ current # 0 /\ Resolves(current, s.chain)
  /\ Point(s.d, s.slug, Max(Below(s.chain, current) \cup {0}))
  /\ schema' = [schema EXCEPT ![s.d] = [i \in {j \in DOMAIN @ : @[j] # m} |-> @[i]]]
  /\ ran' = [ran EXCEPT ![s.d] = @ \ ({m} \X Texts)]
  /\ Step(h, [s EXCEPT !.at = "record", !.m = m])
  /\ UNCHANGED <<rows, slug, books, faults, named, excused, blurred>>

\* nothing to run, or a pointer that names no version of the chain
Refuse(h) ==
  LET s == handler[h]
      current == table[s.d][s.slug]
  IN
  /\ s.op \in {"up", "down"} /\ s.at = "loaded"
  /\ \/ ~Resolves(current, s.chain)
     \/ s.op = "up" /\ Above(s.chain, current) = {}
     \/ s.op = "down" /\ current = 0
  /\ Step(h, Over)
  /\ UNCHANGED <<rows, slug, table, books, faults, ghosts>>

\* _record_history, whose row needs its migration, and then the pointer
\* read back from the engine: two sessions, nothing reads one without the other
Record(h) ==
  LET s == handler[h] IN
  /\ s.op \in {"up", "down"} /\ s.at = "record"
  /\ IF s.m \in Rows
     THEN /\ history' = [history EXCEPT ![s.d] = @ \cup (IF s.op = "up" THEN {s.m} ELSE {})]
          /\ cached' = [cached EXCEPT ![s.d] = table[s.d][s.slug]]
     ELSE UNCHANGED <<history, cached>>
  /\ Step(h, Over)
  /\ UNCHANGED <<rows, slug, table, diverged, faults, ghosts>>

-----------------------------------------------------------------------------
(* Mutant: the criterion of a delete, a database standing exactly there. *)
BlockingStanding(m, deaf) == {d \in DBs : m \in history[d] /\ (d \in deaf \/ Pointer(d) = version[m])}

\* _still_applied_live: databases with history whose engine reaches it,
\* and those whose engine does not answer
Blocking(m, deaf) == {d \in DBs : m \in history[d] /\ (d \in deaf \/ Pointer(d) >= version[m])}

Moved == UNION {handler[h].done \cup handler[h].left : h \in {k \in Handlers : Moving(k)}}

\* update_migration, to its audit of intent: who depends on the SQL today
\* is asked for consent by token, and traced before the row is touched
BeginEdit(h, m, deaf) ==
  /\ handler[h].at = "new" /\ m \in Rows /\ text[m] = 0
  /\ diverged' = diverged \cup ({m} \X Blocking(m, deaf))
  /\ Step(h, [New EXCEPT !.at = "edit", !.op = "edit", !.m = m, !.number = version[m]])
  /\ blurred' = blurred \cup excused \cup named \cup Moved \cup {d \in DBs : Busy(d)}
  /\ UNCHANGED <<rows, slug, table, cached, history, faults, schema, ran, named, excused>>

\* ... and its write: the checksum covers the number read at the start
WriteEdit(h) ==
  LET s == handler[h] IN
  /\ Editing(h) /\ s.m \in Rows
  /\ text' = [text EXCEPT ![s.m] = 1]
  /\ sealed' = [sealed EXCEPT ![s.m] = <<s.number, 1>>]
  /\ Step(h, Over)
  /\ UNCHANGED <<version, slug, table, books, faults, ghosts>>

-----------------------------------------------------------------------------
\* _blueprint_database_states reads only what the gateway ever positioned
Seen(d) == cached[d] # 0 \/ history[d] # {}

(* Mutant: the databases of the history, as the edit does. *)
AheadByHistory(m) == {d \in DBs : history[d] # {} /\ Pointer(d) > version[m]}

Ahead(m) == {d \in DBs : Seen(d) /\ Pointer(d) > version[m]}

\* a database that does not answer, stands there, or has no number to go to
Blockers(m, deaf) ==
  {d \in DBs : Seen(d) /\ (d \in deaf \/ Pointer(d) = version[m])}
  \cup {d \in Ahead(m) : ~({Pointer(d), Pointer(d) - 1} \subseteq Versions)}

Overlap == IF \E k \in Handlers : Moving(k) THEN DBs ELSE {d \in DBs : Busy(d)}
Begin(h, plan, todo) ==
  /\ Step(h, [plan EXCEPT !.at = "move", !.slug = slug, !.todo = todo])
  /\ excused' = excused \cup Overlap
  /\ UNCHANGED <<rows, slug, table, books, faults, schema, ran, named, blurred>>

\* delete_migration, its session: the plan and the chain as numbered today
PlanDelete(h, m, deaf) ==
  /\ handler[h].at = "new" /\ m \in Rows /\ Blockers(m, deaf) = {}
  /\ Begin(h, [New EXCEPT !.op = "delete", !.m = m, !.number = version[m], !.chain = version,
                          !.from = [d \in DBs |-> IF d \in Ahead(m) THEN Pointer(d) ELSE 0],
                          !.later = {n \in Versions : n > version[m]}], Ahead(m))

\* rename_slug_plan and its guards: every engine answers, none has both tables
PlanRename(h, to) ==
  /\ handler[h].at = "new" /\ to # slug
  /\ \A d \in DBs : Pointer(d) = 0 \/ table[d][to] = 0
  /\ Begin(h, [New EXCEPT !.op = "rename", !.to = to], {d \in DBs : Pointer(d) # 0})

\* one call to an engine: runner.stamp, or the table renamed under the lock
Forth(s, d) ==
  IF s.op = "delete" THEN [table[d] EXCEPT ![s.slug] = s.from[d] - 1]
  ELSE [table[d] EXCEPT ![s.to] = table[d][s.slug], ![s.slug] = 0]
Back(s, d) ==
  IF s.op = "delete" THEN [table[d] EXCEPT ![s.slug] = s.from[d]]
  ELSE [table[d] EXCEPT ![s.slug] = table[d][s.to], ![s.to] = 0]
\* ... which fails for a pointer of another chain, or a name that is missing or taken
CanMove(s, d, from, to) ==
  IF s.op = "delete" THEN Resolves(table[d][s.slug], s.chain)
  ELSE table[d][from] # 0 /\ table[d][to] = 0
CanForth(s, d) == CanMove(s, d, s.slug, IF s.op = "rename" THEN s.to ELSE s.slug)
CanBack(s, d) == CanMove(s, d, IF s.op = "rename" THEN s.to ELSE s.slug, s.slug)

\* _run_stamp_phase, or the loop of rename_slug: one database
Move(h) ==
  LET s == handler[h]
      d == Min(s.todo)
      moved == [table EXCEPT ![d] = Forth(s, d)]
      undo == Step(h, [s EXCEPT !.at = "undo"])
  IN
  /\ Moving(h) /\ s.at = "move" /\ s.todo # {}
  /\ \/ /\ CanForth(s, d) /\ table' = moved
        /\ Step(h, [s EXCEPT !.todo = @ \ {d}, !.done = @ \cup {d}])
        /\ UNCHANGED <<faults, excused>>
     \/ ~CanForth(s, d) /\ undo /\ UNCHANGED <<table, faults, excused>>
     \/ Fails /\ undo /\ UNCHANGED <<table, excused>>
     \/ \* the answer is lost: moved, and not among those to give back
        Fails /\ undo /\ CanForth(s, d) /\ table' = moved /\ excused' = excused \cup {d}
  /\ UNCHANGED <<rows, slug, books, schema, ran, named, blurred>>

\* the numbers after the delete, of the rows found by number today
Renumbered(s) ==
  [m \in Migs |-> CASE version[m] = s.number -> 0
                    [] version[m] \in s.later -> version[m] - 1
                    [] OTHER -> version[m]]
\* every row of the plan is still there, and UNIQUE holds
Renumbers(s) ==
  /\ {s.number} \cup s.later \subseteq Versions
  /\ \A m, k \in Migs : (m # k /\ Renumbered(s)[m] # 0) => Renumbered(s)[m] # Renumbered(s)[k]

\* _apply_renumber: one transaction
Renumber(h) ==
  LET s == handler[h]
      gone == {m \in Rows : version[m] = s.number}
  IN
  /\ s.op = "delete" /\ s.at = "move" /\ s.todo = {} /\ Renumbers(s)
  /\ version' = Renumbered(s)
  /\ sealed' = [m \in Migs |-> IF version[m] \in s.later THEN <<version[m] - 1, text[m]>> ELSE sealed[m]]
  /\ history' = [d \in DBs |-> history[d] \ gone]
  /\ cached' = [d \in DBs |-> IF s.from[d] # 0 THEN s.from[d] - 1 ELSE cached[d]]
  /\ Step(h, Over)
  /\ UNCHANGED <<text, slug, table, diverged, faults, ghosts>>

\* ... which fails for a row that vanished, or for any other error
RenumberFails(h) ==
  LET s == handler[h] IN
  /\ s.op = "delete" /\ s.at = "move" /\ s.todo = {}
  /\ \/ ~Renumbers(s) /\ UNCHANGED faults
     \/ Fails
  /\ Step(h, [s EXCEPT !.at = "undo"])
  /\ UNCHANGED <<rows, slug, table, books, ghosts>>

\* rename_slug, its last session
Rename(h) ==
  LET s == handler[h] IN
  /\ s.op = "rename" /\ s.at = "move" /\ s.todo = {}
  /\ slug' = s.to /\ Step(h, Over)
  /\ UNCHANGED <<rows, table, books, faults, ghosts>>

\* ... whose failure nothing compensates: every table keeps its new name
RenameFails(h) ==
  LET s == handler[h] IN
  /\ s.op = "rename" /\ s.at = "move" /\ s.todo = {}
  /\ Fails /\ Step(h, Over) /\ excused' = excused \cup s.done
  /\ UNCHANGED <<rows, slug, table, books, schema, ran, named, blurred>>

\* _compensate_stamps, _compensate_renames: one database, in the opposite order
Undo(h) ==
  LET s == handler[h]
      d == Max(s.done)
      back == [table EXCEPT ![d] = Back(s, d)]
  IN
  /\ Moving(h) /\ s.at = "undo" /\ s.done # {}
  /\ \/ /\ CanBack(s, d) /\ table' = back
        /\ Step(h, [s EXCEPT !.done = @ \ {d}]) /\ UNCHANGED faults
     \/ /\ \/ ~CanBack(s, d) /\ UNCHANGED <<table, faults>>
           \/ Fails /\ UNCHANGED table
           \/ Fails /\ CanBack(s, d) /\ table' = back
        /\ Step(h, [s EXCEPT !.done = @ \ {d}, !.left = @ \cup {d}])
  /\ UNCHANGED <<rows, slug, books, ghosts>>

\* the 409, naming those left where they should not be
Report(h) ==
  LET s == handler[h] IN
  /\ Moving(h) /\ s.at = "undo" /\ s.done = {}
  /\ named' = named \cup s.left /\ Step(h, Over)
  /\ UNCHANGED <<rows, slug, table, books, faults, schema, ran, excused, blurred>>

\* the process dies with the request in it
Crash(h) ==
  LET s == handler[h] IN
  /\ s.at \notin {"new", "over"} /\ Fails /\ Step(h, Over)
  /\ excused' = excused \cup (CASE Moving(h) -> s.done \cup s.left
                                [] s.at = "record" -> {s.d}
                                [] OTHER -> {})
  /\ UNCHANGED <<rows, slug, table, books, schema, ran, named, blurred>>

-----------------------------------------------------------------------------
Next ==
  \/ \E m \in Migs, v \in 1..MaxVersion : Create(m, v)
  \/ \E h \in Handlers :
       \/ \E d \in DBs, op \in {"up", "down"} : Load(h, op, d)
       \/ RunUp(h) \/ RunDown(h) \/ Refuse(h) \/ Record(h)
       \/ \E m \in Migs, deaf \in SUBSET DBs : BeginEdit(h, m, deaf) \/ PlanDelete(h, m, deaf)
       \/ \E to \in Slugs : PlanRename(h, to)
       \/ WriteEdit(h) \/ Move(h) \/ Renumber(h) \/ RenumberFails(h) \/ Rename(h) \/ RenameFails(h)
       \/ Undo(h) \/ Report(h) \/ Crash(h)

Spec == Init /\ [][Next]_vars

-----------------------------------------------------------------------------
Numbers == 0..MaxVersion
Applies == {"up", "down"}
Moves == {"delete", "rename"}
HandlerType ==
  [at : {"new", "over", "loaded", "record", "edit", "move", "undo"},
   op : {"none", "edit"} \cup Applies \cup Moves,
   slug : Slugs, chain : [Migs -> Numbers], d : DBs \cup {0}, sql : [Migs -> Texts],
   m : Migs \cup {0}, number : Numbers, to : Slugs, from : [DBs -> Numbers],
   later : SUBSET Numbers, todo : SUBSET DBs, done : SUBSET DBs, left : SUBSET DBs]

TypeOK ==
  /\ version \in [Migs -> Numbers] /\ text \in [Migs -> Texts]
  /\ sealed \in [Migs -> Numbers \X Texts] /\ slug \in Slugs
  /\ table \in [DBs -> [Slugs -> Numbers]] /\ cached \in [DBs -> Numbers]
  /\ history \in [DBs -> SUBSET Migs] /\ diverged \subseteq Migs \X DBs
  /\ handler \in [Handlers -> HandlerType] /\ faults \in Nat
  /\ schema = [d \in DBs |-> [i \in DOMAIN schema[d] |-> schema[d][i]]]
  /\ \A d \in DBs : /\ DOMAIN schema[d] \subseteq Nat /\ IsFiniteSet(DOMAIN schema[d])
                    /\ \A i \in DOMAIN schema[d] : schema[d][i] \in Migs
  /\ ran \in [DBs -> SUBSET (Migs \X Texts)]
  /\ named \subseteq DBs /\ excused \subseteq DBs /\ blurred \subseteq DBs

-----------------------------------------------------------------------------
\* the last migration a database has, of those the blueprint still lists
Standing(d) ==
  LET kept == {i \in DOMAIN schema[d] : schema[d][i] \in Rows}
  IN  IF kept = {} THEN 0 ELSE version[schema[d][Max(kept)]]

(* Whatever fails on the way, when no delete or rename is under way the    *)
(* pointer the gateway reads names the migration its database stands at,   *)
(* renumbered or not, unless the answer named the database as left moved   *)
(* (_run_stamp_phase, _compensate_stamps, _apply_renumber, rename_slug,    *)
(* _compensate_renames).  Excused is what the code accepts or cannot see:  *)
(* a lost answer, a dead process, a rename whose last write failed, an     *)
(* apply, delete or rename across the plan, a version created below the    *)
(* pointer or below what an apply under way has loaded.                    *)
PointersTrue ==
  (\A h \in Handlers : ~Moving(h)) => \A d \in DBs \ (named \cup excused) : Pointer(d) = Standing(d)

(* A database never holds, of a migration it applied, SQL other than what  *)
(* the blueprint shows without a trace of it, however deletes and renames  *)
(* come between the apply and the edit (_still_applied_live,               *)
(* update_migration).                                                      *)
EditsTraced ==
  \A d \in DBs \ blurred : \A r \in ran[d] :
    r[1] \in Rows => (r[2] = text[r[1]] \/ <<r[1], d>> \in diverged)

-----------------------------------------------------------------------------
(* What the comments of the code promise and does not hold.                *)

(* The slug is changed last so that the gateway never reads a name no      *)
(* engine has, with the whole chain pending (rename_slug).  Its own write  *)
(* fails, or a database applies its first version meanwhile.               *)
ChainNotPending ==
  (\A h \in Handlers : ~Moving(h)) =>
    \A d \in DBs \ named : (DOMAIN schema[d] # {} /\ cached[d] # 0) => (Pointer(d) # 0 \/ cached[d] \notin Versions)

(* No database runs a migration it already has: a delete is no rollback    *)
(* (delete_migration).  An apply while pointers are being moved reads the  *)
(* number of the migration before and runs the same one again.             *)
RunsOnce == \A d \in DBs : \A i, j \in DOMAIN schema[d] : i # j => schema[d][i] # schema[d][j]

(* Renumbering recomputes every checksum, so the blueprint stays usable    *)
(* (_apply_renumber).  An edit that read the old number seals it back.     *)
SealsHold == Integrity

(* A database that is in some version was positioned by the gateway, so    *)
(* the filter of the plan sees it (_blueprint_database_states).  A process *)
(* that dies between the engine and the books leaves one unseen.           *)
FilterSound == \A d \in DBs : (Pointer(d) # 0 /\ ~Busy(d)) => Seen(d)

(* A delete removes the migration its plan was made of: by the number it   *)
(* had, which another delete and a new version give to another one.        *)
DeletesPlanned == [][\A h \in Handlers : Renumber(h) => version'[handler[h].m] = 0]_vars
=============================================================================
