------------------------- MODULE CollationConversion -------------------------
(***************************************************************************)
(* One running collation conversion, statement by statement: _pipeline,    *)
(* _run_phases, _convert_fk_group, _recreate_object and _finish of         *)
(* collation_conversion_controller.py, from the claim of the job to its    *)
(* end.  CollationJobs models the life of the job around it.               *)
(*                                                                         *)
(* The engine has no transactional DDL: each statement is a step, which    *)
(* the engine may apply, refuse, or apply while its answer is lost (the    *)
(* code then takes it for refused).  The process may die between two       *)
(* steps, and a write of the gateway's own database may fail, which no     *)
(* handler but run_job's catches.                                          *)
(***************************************************************************)
EXTENDS Integers, Sequences, FiniteSets, FiniteSetsExt

CONSTANTS
  TableOrder,   \* the plan's order of the tables
  ForeignKeys,  \* foreign keys on text columns a schema may have: <<table, referred>>
  Objects,      \* routines and views with a frozen collation
  Plans,        \* the plans to check, each with the schema it meets
  MaxLost       \* bound: statements whose answer is lost

Tables == Range(TableOrder)

ASSUME ConversionAssumption ==
  /\ TableOrder \in Seq(Tables) /\ IsInjective(TableOrder)
  /\ ForeignKeys \subseteq Tables \X Tables
  /\ Plans \subseteq [engine : {"mysql", "mariadb", "postgresql"}, default : BOOLEAN,
                     skip : SUBSET Tables, keys : SUBSET ForeignKeys,
                     objects : SUBSET Objects, granted : SUBSET Objects, managed : BOOLEAN]
  /\ \A p \in Plans : /\ p.granted \subseteq p.objects
                      /\ p.engine = "postgresql" => ~p.default /\ p.objects = {}
  /\ MaxLost \in Nat

VARIABLES
  plan,       \* the job's frozen choices and the schema they meet
  job,        \* collation_conversion_jobs: status, cancel_requested
  item,       \* collation_conversion_job_items: what they tell
  managed,    \* managed_databases: status, and which collation the row names
  default,    \* engine: the default collation of the database
  converted,  \* engine: tables in the target collation
  keys,       \* engine: foreign keys in place
  object,     \* engine: the object as it was, recreated, or absent
  grants,     \* engine: objects whose routine privileges are in place
  w,          \* the worker's memory
  lost,       \* ghost: what a lost answer was about
  ended       \* ghost: how the job ended

gateway == <<job, item, managed>>
remote == <<default, converted, keys, object, grants>>
vars == <<plan, job, item, managed, default, converted, keys, object, grants, w, lost, ended>>

Outcome == {"applied", "refused", "lost"}
Effective(o) == o # "refused"
Noted(o, x) ==
  /\ o = "lost" => Cardinality(lost) < MaxLost
  /\ lost' = IF o = "lost" THEN lost \cup {x} ELSE lost

-----------------------------------------------------------------------------
(* _fk_groups: tables joined by foreign keys are one unit of conversion.   *)

Converting == Tables \ plan.skip
Relevant == {fk \in plan.keys : fk[1] \in Converting \/ fk[2] \in Converting}
Ends == UNION {{fk[1], fk[2]} : fk \in Relevant}

(* Mutant: keys are grouped by pairs.                                    *)
UnionPairs(fk, blocks) == blocks \cup {{fk[1], fk[2]}}

\* one step of the union-find: the blocks of a key's ends become one
Union(fk, blocks) ==
  LET joined == {b \in blocks : fk[1] \in b \/ fk[2] \in b}
  IN  (blocks \ joined) \cup {UNION joined}
Blocks == FoldSet(Union, {{t} : t \in Ends}, Relevant)
HasGroup(t) == plan.engine = "mariadb" /\ t \in Ends
BlockOf(t) == CHOOSE b \in Blocks : t \in b
GroupKeys(b) == {fk \in Relevant : fk[1] \in b}

-----------------------------------------------------------------------------
(* The tables a worker still has to convert, and those it has converted,   *)
(* are sets: the plan's order says which one is next, or was last.         *)
Places(tables) == {n \in DOMAIN TableOrder : TableOrder[n] \in tables}
FirstOf(tables) == TableOrder[Min(Places(tables))]
LastOf(tables) == TableOrder[Max(Places(tables))]

Open == [fk \in ForeignKeys |-> "open"]
Fresh == [at |-> "verify", todo |-> Tables, objects |-> plan.objects, failed |-> FALSE,
          unread |-> FALSE, object |-> "none", block |-> {}, steps |-> {}, done |-> {},
          dropped |-> {}, sweep |-> {}, blocking |-> FALSE, says |-> Open]

Init ==
  /\ plan \in Plans
  /\ job = [status |-> "running", cancel |-> FALSE]
  /\ item = [database |-> "none", table |-> [t \in Tables |-> "none"],
             key |-> [fk \in ForeignKeys |-> "none"], object |-> [x \in Objects |-> "none"]]
  /\ managed = [status |-> "active", collation |-> "old"]
  /\ default = "old" /\ converted = plan.skip /\ keys = plan.keys
  /\ object = [x \in Objects |-> IF x \in plan.objects THEN "old" ELSE "absent"]
  /\ grants = plan.granted
  /\ w = Fresh
  /\ lost = {} /\ ended = "no"

Goto(at) == w' = [w EXCEPT !.at = at]
\* run_job's handlers and _pipeline's early return: failed, and nothing else
Abandon(why) ==
  /\ job' = [job EXCEPT !.status = "failed"]
  /\ Goto("over") /\ ended' = why
  /\ UNCHANGED <<plan, item, managed, remote, lost>>

\* _pipeline: the fingerprint of the inventory, then the advisory lock
Verify == w.at = "verify" /\ Goto("lock") /\ UNCHANGED <<plan, gateway, remote, lost, ended>>
Drifted == w.at = "verify" /\ Abandon("untouched")
Locked == w.at = "lock" /\ Goto("database") /\ UNCHANGED <<plan, gateway, remote, lost, ended>>
LockBusy == w.at = "lock" /\ Abandon("untouched")

\* phase 1: ALTER DATABASE, the only step whose failure stops the job
AlterDatabase(o) ==
  /\ w.at = "database" /\ plan.default
  /\ default' = IF Effective(o) THEN "new" ELSE "old"
  /\ item' = [item EXCEPT !.database = IF o = "applied" THEN "ok" ELSE "error"]
  /\ w' = [w EXCEPT !.failed = o # "applied",
                    !.at = IF o = "applied" THEN "keys" ELSE "finish"]
  /\ UNCHANGED <<plan, job, managed, converted, keys, object, grants, lost, ended>>
NoDatabaseStep ==
  /\ w.at = "database" /\ ~plan.default
  /\ Goto("keys") /\ UNCHANGED <<plan, gateway, remote, lost, ended>>

-----------------------------------------------------------------------------
(* Phase 2: the tables, in the plan's order.                               *)

\* _read_fk_groups: MariaDB only; the keys are read now, or cannot be
ReadKeys(unread) ==
  /\ w.at = "keys"
  /\ unread => plan.engine = "mariadb" /\ Converting # {}
  /\ w' = [w EXCEPT !.at = "tables", !.unread = unread]
  /\ UNCHANGED <<plan, gateway, remote, lost, ended>>

\* the mark is read through a cache of two seconds, afresh the first time
MayGoOn == job.cancel => w.todo # Tables
Next1 == FirstOf(w.todo)
AtTable == w.at = "tables" /\ w.todo # {} /\ MayGoOn
AtObject(x) == w.at = "objects" /\ x \in w.objects

CancelSeen ==
  /\ (w.at = "tables" /\ w.todo # {}) \/ (w.at = "objects" /\ w.objects # {})
  /\ job.cancel
  /\ job' = [job EXCEPT !.status = "canceled"]
  /\ Goto("over") /\ ended' = "canceled"
  /\ UNCHANGED <<plan, item, managed, remote, lost>>

SkipTable ==
  /\ AtTable /\ Next1 \in plan.skip
  /\ item' = [item EXCEPT !.table[Next1] = "skipped"]
  /\ w' = [w EXCEPT !.todo = @ \ {Next1}]
  /\ UNCHANGED <<plan, job, managed, remote, lost, ended>>

\* fail-closed: without the keys of the schema no table is converted
RefuseTable ==
  /\ AtTable /\ w.unread /\ Next1 \in Converting
  /\ item' = [item EXCEPT !.table[Next1] = "kept"]
  /\ w' = [w EXCEPT !.todo = @ \ {Next1}, !.failed = TRUE]
  /\ UNCHANGED <<plan, job, managed, remote, lost, ended>>

\* MariaDB refuses CONVERT TO under a key on text (1832); the others do not
Convertible(t) == plan.engine = "mariadb" => \A fk \in keys : t \notin {fk[1], fk[2]}
Convert(t, o) ==
  /\ Effective(o) => Convertible(t)
  /\ converted' = IF Effective(o) THEN converted \cup {t} ELSE converted
  /\ Noted(o, t)

ConvertTable(o) ==
  /\ AtTable /\ ~w.unread /\ Next1 \in Converting /\ ~HasGroup(Next1)
  /\ Convert(Next1, o)
  /\ item' = [item EXCEPT !.table[Next1] = IF o = "applied" THEN "ok" ELSE "kept"]
  /\ w' = [w EXCEPT !.todo = @ \ {Next1}, !.failed = @ \/ o # "applied"]
  /\ UNCHANGED <<plan, job, managed, default, keys, object, grants, ended>>

\* _convert_fk_group (0): an original collation is unknown, no table is touched
GroupUnknown ==
  /\ AtTable /\ ~w.unread /\ Next1 \in Converting /\ HasGroup(Next1)
  /\ LET b == BlockOf(Next1) IN
     /\ item' = [item EXCEPT !.table = [t \in Tables |->
          IF t \in b \cap Converting THEN "kept" ELSE @[t]]]
     /\ w' = [w EXCEPT !.todo = @ \ (b \cap Converting),
                       !.failed = TRUE]
  /\ UNCHANGED <<plan, job, managed, remote, lost, ended>>

\* (a) the ADD CONSTRAINT of every key is stored before any is dropped
GroupCopies ==
  /\ AtTable /\ ~w.unread /\ Next1 \in Converting /\ HasGroup(Next1)
  /\ LET b == BlockOf(Next1) IN
     /\ item' = [item EXCEPT !.key = [fk \in ForeignKeys |->
          IF fk \in GroupKeys(b) THEN "open" ELSE @[fk]]]
     /\ w' = [w EXCEPT !.at = "drop", !.block = b, !.steps = b \cap Converting, !.done = {},
                       !.dropped = {}, !.sweep = GroupKeys(b), !.blocking = FALSE,
                       !.todo = @ \ (b \cap Converting)]
  /\ UNCHANGED <<plan, job, managed, remote, lost, ended>>

\* the statements on a key; neither is applied twice
Drop(fk, o) ==
  /\ Effective(o) => fk \in keys
  /\ keys' = IF Effective(o) THEN keys \ {fk} ELSE keys
  /\ Noted(o, fk)
Add(fk, o) ==
  /\ Effective(o) => fk \notin keys
  /\ keys' = IF Effective(o) THEN keys \cup {fk} ELSE keys
  /\ Noted(o, fk)

(* Mutant: the converted tables are not taken back.                      *)
RestoreKeysOnly(r) == [r EXCEPT !.at = "readd", !.sweep = r.dropped]

\* restore(): which sweep comes first
Restore(r) ==
  IF r.done # {}
  THEN [r EXCEPT !.at = "undrop", !.sweep = GroupKeys(r.block) \ r.dropped]
  ELSE [r EXCEPT !.at = "readd", !.sweep = r.dropped]
Said(r, fks, what) == [r EXCEPT !.says = [fk \in ForeignKeys |-> IF fk \in fks THEN what ELSE @[fk]]]

\* (b) drop the keys; a failure gives the group up
GroupDrop(fk, o) ==
  /\ w.at = "drop" /\ fk \in w.sweep
  /\ Drop(fk, o)
  /\ IF o = "applied"
     THEN /\ w' = [w EXCEPT !.sweep = @ \ {fk}, !.dropped = @ \cup {fk},
                            !.at = IF w.sweep = {fk} THEN "convert" ELSE "drop"]
          /\ UNCHANGED item
     ELSE /\ item' = [item EXCEPT !.table = [t \in Tables |->
               IF t \in w.steps THEN "kept" ELSE @[t]]]
          /\ w' = Restore(Said([w EXCEPT !.failed = TRUE], w.sweep, "kept"))
  /\ UNCHANGED <<plan, job, managed, default, converted, object, grants, ended>>

\* (c) convert the tables of the group; a failure skips the rest and restores
GroupConvert(o) ==
  /\ w.at = "convert" /\ w.steps # {}
  /\ LET t == FirstOf(w.steps) IN
     /\ Convert(t, o)
     /\ item' = [item EXCEPT !.table = [u \in Tables |->
          CASE u = t -> IF o = "applied" THEN "ok" ELSE "kept"
            [] o # "applied" /\ u \in w.steps \ {t} -> "skipped"
            [] OTHER -> @[u]]]
     /\ w' = IF o = "applied"
             THEN [w EXCEPT !.steps = @ \ {t}, !.done = @ \cup {t}]
             ELSE Restore([w EXCEPT !.failed = TRUE])
  /\ UNCHANGED <<plan, job, managed, default, keys, object, grants, ended>>
GroupConverted ==
  /\ w.at = "convert" /\ w.steps = {}
  /\ w' = [w EXCEPT !.at = "add", !.sweep = w.dropped]
  /\ UNCHANGED <<plan, gateway, remote, lost, ended>>

\* (d) recreate the keys; a failure takes the whole group back
GroupAdd(fk, o) ==
  /\ w.at = "add" /\ fk \in w.sweep
  /\ Add(fk, o)
  /\ w' = IF o = "applied"
          THEN [Said(w, {fk}, "ok") EXCEPT !.sweep = @ \ {fk}, !.dropped = @ \ {fk},
                 !.at = IF w.sweep = {fk} THEN "report" ELSE "add"]
          ELSE Restore(Said([w EXCEPT !.failed = TRUE], {fk}, "failed"))
  /\ UNCHANGED <<plan, gateway, default, converted, object, grants, ended>>

\* restore 1: the keys (d) had recreated are dropped again
Undrop(fk, o) ==
  /\ w.at = "undrop" /\ fk \in w.sweep
  /\ Drop(fk, o)
  /\ w' = LET r == [w EXCEPT !.sweep = @ \ {fk}] IN
          IF o = "applied" THEN [r EXCEPT !.dropped = @ \cup {fk}]
          ELSE [Said(r, {fk}, "kept") EXCEPT !.blocking = TRUE]
  /\ UNCHANGED <<plan, gateway, default, converted, object, grants, ended>>
Undropped ==
  /\ w.at = "undrop" /\ w.sweep = {}
  /\ Goto("revert") /\ UNCHANGED <<plan, gateway, remote, lost, ended>>

\* restore 2: the converted tables go back, last first, unless a key blocks them
Revert(o) ==
  /\ w.at = "revert" /\ w.done # {}
  /\ LET t == LastOf(w.done) IN
     /\ w.blocking => o = "refused"
     /\ Effective(o) => Convertible(t)
     /\ converted' = IF Effective(o) THEN converted \ {t} ELSE converted
     /\ Noted(o, t)
     /\ item' = [item EXCEPT !.table[t] = IF o = "applied" THEN "reverted" ELSE "stuck"]
     /\ w' = [w EXCEPT !.done = @ \ {t}]
  /\ UNCHANGED <<plan, job, managed, default, keys, object, grants, ended>>
Reverted ==
  /\ w.at = "revert" /\ w.done = {}
  /\ w' = [w EXCEPT !.at = "readd", !.sweep = w.dropped]
  /\ UNCHANGED <<plan, gateway, remote, lost, ended>>

\* restore 3: what is dropped is recreated
Readd(fk, o) ==
  /\ w.at = "readd" /\ fk \in w.sweep
  /\ Add(fk, o)
  /\ w' = LET r == [w EXCEPT !.sweep = @ \ {fk}] IN
          IF o = "applied" THEN Said([r EXCEPT !.dropped = @ \ {fk}], {fk}, "restored")
          ELSE Said(r, {fk}, "missing")
  /\ UNCHANGED <<plan, gateway, default, converted, object, grants, ended>>

\* finish() of the group: the items of its keys get their outcome
GroupReport ==
  /\ w.at = "report" \/ (w.at = "readd" /\ w.sweep = {})
  /\ item' = [item EXCEPT !.key = [fk \in ForeignKeys |->
       IF fk \in GroupKeys(w.block) THEN w.says[fk] ELSE @[fk]]]
  /\ w' = [w EXCEPT !.at = "tables", !.block = {}, !.steps = {}, !.done = {}, !.dropped = {},
                    !.sweep = {}, !.blocking = FALSE, !.says = Open]
  /\ UNCHANGED <<plan, job, managed, remote, lost, ended>>

TablesDone ==
  /\ w.at = "tables" /\ w.todo = {}
  /\ Goto("objects") /\ UNCHANGED <<plan, gateway, remote, lost, ended>>

-----------------------------------------------------------------------------
(* Phase 3: _recreate_object, one object at a time.                        *)

At(x) == w.object = x
\* (1), (2): the body or the grants cannot be read: nothing is dropped
ObjectUnread(x) ==
  /\ AtObject(x)
  /\ item' = [item EXCEPT !.object[x] = "kept"]
  /\ w' = [w EXCEPT !.objects = @ \ {x}, !.failed = TRUE]
  /\ UNCHANGED <<plan, job, managed, remote, lost, ended>>
(* Mutant: the body is not stored before the drop.                       *)
ObjectCopyLate(x) ==
  /\ AtObject(x)
  /\ w' = [w EXCEPT !.objects = @ \ {x}, !.object = x, !.at = "drop object"]
  /\ UNCHANGED <<plan, gateway, remote, lost, ended>>

\* (3): the body is stored before the engine is touched
ObjectCopy(x) ==
  /\ AtObject(x)
  /\ item' = [item EXCEPT !.object[x] = "open"]
  /\ w' = [w EXCEPT !.objects = @ \ {x}, !.object = x, !.at = "drop object"]
  /\ UNCHANGED <<plan, job, managed, remote, lost, ended>>
\* (4): DROP, which takes the routine's grants with it, and CREATE
ObjectDrop(x, o) ==
  /\ w.at = "drop object" /\ At(x)
  /\ object' = IF Effective(o) THEN [object EXCEPT ![x] = "absent"] ELSE object
  /\ grants' = IF Effective(o) THEN grants \ {x} ELSE grants
  /\ Noted(o, x)
  /\ IF o = "applied" THEN Goto("create object") /\ UNCHANGED item
     ELSE /\ item' = [item EXCEPT !.object[x] = "kept"]
          /\ w' = [w EXCEPT !.at = "objects", !.failed = TRUE]
  /\ UNCHANGED <<plan, job, managed, default, converted, keys, ended>>
ObjectCreate(x, o) ==
  /\ w.at = "create object" /\ At(x)
  /\ object' = IF Effective(o) THEN [object EXCEPT ![x] = "new"] ELSE object
  /\ Noted(o, x)
  /\ IF o = "applied" THEN Goto("grant object") /\ UNCHANGED item
     ELSE /\ item' = [item EXCEPT !.object[x] = "missing"]
          /\ w' = [w EXCEPT !.at = "objects", !.failed = TRUE]
  /\ UNCHANGED <<plan, job, managed, default, converted, keys, grants, ended>>
(* Mutant: a failure to give the grants back is silenced.                *)
ObjectGrantSilent(x, ok) ==
  /\ w.at = "grant object" /\ At(x)
  /\ grants' = IF ok /\ x \in plan.granted THEN grants \cup {x} ELSE grants
  /\ item' = [item EXCEPT !.object[x] = "ok"]
  /\ Goto("objects")
  /\ UNCHANGED <<plan, job, managed, default, converted, keys, object, lost, ended>>

\* (5): the captured grants are given back
ObjectGrant(x, ok) ==
  /\ w.at = "grant object" /\ At(x)
  /\ x \notin plan.granted => ok
  /\ grants' = IF ok /\ x \in plan.granted THEN grants \cup {x} ELSE grants
  /\ item' = [item EXCEPT !.object[x] = IF ok THEN "ok" ELSE "ungranted"]
  /\ w' = [w EXCEPT !.at = "objects", !.failed = @ \/ ~ok]
  /\ UNCHANGED <<plan, job, managed, default, converted, keys, object, lost, ended>>

ObjectsDone ==
  /\ w.at = "objects" /\ w.objects = {}
  /\ Goto("finish") /\ UNCHANGED <<plan, gateway, remote, lost, ended>>

-----------------------------------------------------------------------------
\* _finish: the status first, then the quarantine or the inventory's collation
FinishStatus ==
  /\ w.at = "finish"
  /\ job' = [job EXCEPT !.status = IF w.failed THEN "failed" ELSE "succeeded"]
  /\ Goto("settle") /\ ended' = "finished"
  /\ UNCHANGED <<plan, item, managed, remote, lost>>

(* Mutant: the inventory follows every success.                          *)
SyncedAlways == [managed EXCEPT !.collation = "new"]

\* _sync_managed_charset: only what the ALTER DATABASE item says was done
Synced ==
  IF plan.engine # "postgresql" /\ item.database = "ok"
  THEN [managed EXCEPT !.collation = "new"] ELSE managed
FinishManaged ==
  /\ w.at = "settle"
  /\ managed' = IF ~plan.managed THEN managed
                ELSE IF w.failed THEN [managed EXCEPT !.status = "error"] ELSE Synced
  /\ Goto("over") /\ UNCHANGED <<plan, job, item, remote, lost, ended>>

\* a write of the gateway's database fails: run_job catches it, nobody compensates
Writes ==
  \/ w.at \in {"database", "tables", "drop", "convert", "revert", "report", "objects",
               "drop object", "create object", "grant object", "finish"}
  \/ w.at = "readd" /\ w.sweep = {}
  \/ w.at = "settle" /\ w.failed
Escape == Writes /\ Abandon("escaped")

\* cancel: accepted while the job runs
Cancel ==
  /\ job.status = "running" /\ ~job.cancel
  /\ job' = [job EXCEPT !.cancel = TRUE]
  /\ UNCHANGED <<plan, item, managed, remote, w, lost, ended>>

Crash ==
  /\ w.at \notin {"over", "dead"}
  /\ Goto("dead") /\ ended' = "crashed"
  /\ UNCHANGED <<plan, gateway, remote, lost>>
\* sweep_interrupted at the next start
Sweep ==
  /\ w.at = "dead" /\ job.status = "running"
  /\ job' = [job EXCEPT !.status = "interrupted"]
  /\ UNCHANGED <<plan, item, managed, remote, w, lost, ended>>

Group ==
  \/ GroupUnknown \/ GroupCopies \/ GroupConverted \/ Undropped \/ Reverted \/ GroupReport
  \/ \E o \in Outcome : \/ GroupConvert(o) \/ Revert(o)
                        \/ \E fk \in ForeignKeys : \/ GroupDrop(fk, o) \/ GroupAdd(fk, o)
                                                   \/ Undrop(fk, o) \/ Readd(fk, o)
Recreate ==
  \E x \in Objects : \/ ObjectUnread(x) \/ ObjectCopy(x)
                     \/ \E o \in Outcome : ObjectDrop(x, o) \/ ObjectCreate(x, o)
                     \/ \E ok \in BOOLEAN : ObjectGrant(x, ok)
Worker ==
  \/ Verify \/ Drifted \/ Locked \/ LockBusy \/ NoDatabaseStep \/ CancelSeen
  \/ SkipTable \/ RefuseTable \/ TablesDone \/ ObjectsDone \/ FinishStatus \/ FinishManaged
  \/ \E unread \in BOOLEAN : ReadKeys(unread)
  \/ \E o \in Outcome : AlterDatabase(o) \/ ConvertTable(o)
  \/ Group \/ Recreate
Next == Worker \/ Escape \/ Cancel \/ Crash \/ Sweep

Spec == Init /\ [][Next]_vars /\ WF_vars(Worker) /\ WF_vars(Sweep)

-----------------------------------------------------------------------------
Says == {"none", "open", "ok", "kept", "skipped", "reverted", "stuck", "failed",
         "restored", "missing", "ungranted"}
TypeOK ==
  /\ job \in [status : {"running", "succeeded", "failed", "canceled", "interrupted"},
              cancel : BOOLEAN]
  /\ managed \in [status : {"active", "error"}, collation : {"old", "new"}]
  /\ default \in {"old", "new"} /\ converted \subseteq Tables /\ keys \subseteq plan.keys
  /\ object \in [Objects -> {"old", "new", "absent"}] /\ grants \subseteq plan.granted
  /\ item.table \in [Tables -> Says] /\ item.key \in [ForeignKeys -> Says]
  /\ item.object \in [Objects -> Says]

\* _fk_groups (line 2017): groups are the connected components of the keys that
\* touch a table to convert, so dropping the keys of one group is enough to
\* convert its tables; a grouping by pairs would leave a key of b in place.
Connected(t, u) ==
  \A S \in SUBSET Ends :
    t \in S /\ (\A fk \in Relevant : fk[1] \in S <=> fk[2] \in S) => u \in S
GroupsAreComponents ==
  \A t, u \in Ends : BlockOf(t) = BlockOf(u) <=> Connected(t, u)

\* _convert_fk_group (lines 2060-2075): when the worker is between groups, every
\* group of MariaDB tables it has dealt with is all converted or all as it was,
\* with every key in place, unless an item of the group says which table stayed
\* converted or which key is missing, or an answer about the group was lost.
Known(x) == x \notin lost
Whole(b) ==
  /\ GroupKeys(b) \subseteq keys
  /\ b \cap Converting \subseteq converted \/ b \cap Converting \cap converted = {}
Confessed(b) ==
  \/ \E t \in b : item.table[t] = "stuck" \/ ~Known(t)
  \/ \E fk \in GroupKeys(b) : item.key[fk] = "missing" \/ ~Known(fk)
BetweenGroups == w.at \in {"tables", "objects", "finish", "settle", "over"}
                 /\ ended \notin {"escaped", "crashed"}
GroupWhole ==
  BetweenGroups /\ plan.engine = "mariadb" => \A b \in Blocks : Whole(b) \/ Confessed(b)

\* the items are what the operator repairs by: once a group or an object is
\* done, an item never says of a table, key or object other than what the
\* engine holds, except where the answer to a statement about it was lost.
ItemsTrue ==
  BetweenGroups =>
    /\ \A t \in Converting : Known(t) =>
         /\ item.table[t] \in {"ok", "stuck"} => t \in converted
         /\ item.table[t] \in {"kept", "skipped", "reverted"} => t \notin converted
    /\ \A fk \in plan.keys : Known(fk) =>
         IF item.key[fk] = "missing" THEN fk \notin keys ELSE fk \in keys
    /\ \A x \in plan.objects : Known(x) =>
         /\ item.object[x] = "ok" => object[x] = "new" /\ (x \in plan.granted => x \in grants)
         /\ item.object[x] = "kept" => object[x] = "old" /\ (x \in plan.granted => x \in grants)
         /\ item.object[x] = "missing" => object[x] = "absent"

\* _recreate_object (3) and _convert_fk_group (a): whenever the process dies or
\* an error escapes, a key or an object that is no longer in the engine has an
\* item with its DDL: the only copy there is.
CopyBeforeDrop ==
  /\ \A fk \in plan.keys \ keys : item.key[fk] # "none"
  /\ \A x \in plan.objects : object[x] = "absent" => item.object[x] # "none"

\* _sync_managed_charset: the inventory never names a default collation that
\* the database does not have.
InventoryTruthful == managed.collation = "new" => plan.managed /\ default = "new"

\* a running job ends, whatever fails and wherever the process dies.
JobEnds == job.status = "running" ~> job.status # "running"

\* _convert_fk_group (e), line 2073: "si la compensación misma falla ... el job
\* queda failed y _finish pone la BD en cuarentena".
CompensationQuarantined ==
  (w.at = "over" /\ ended # "escaped" /\ plan.managed
     /\ \E fk \in ForeignKeys : item.key[fk] = "missing")
  => job.status = "failed" /\ managed.status = "error"
=============================================================================
