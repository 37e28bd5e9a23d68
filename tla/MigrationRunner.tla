-------------------------- MODULE MigrationRunner --------------------------
(***************************************************************************)
(* The blueprint migration runner on ONE managed database: the handlers of *)
(* managed_migration_controller.py (apply, rollback, stamp,                *)
(* reconcile_partial) and the runner below them (db_admin/migrations.py,   *)
(* db_admin/migration_progress.py), executed by several API requests.      *)
(*                                                                         *)
(* Four pieces of state live in three places.  The target engine holds the *)
(* physical schema (phys) and Alembic's version table (ledger); its        *)
(* session-level advisory lock is `lock`.  The gateway's own database      *)
(* holds the per-statement checkpoints (ckUp, ckDown) and the inventory    *)
(* row: status = error (quarantined) and model_version (cached).  Nothing  *)
(* but the code's order of steps keeps them in agreement.                  *)
(*                                                                         *)
(* A statement is a pair <<v, i>>, the i-th of version v.  It is DDL:      *)
(* running it where its effect is already present fails, and so does the   *)
(* reverse where the effect is absent.                                     *)
(***************************************************************************)
EXTENDS Integers, FiniteSets

CONSTANTS
  Requests,       \* concurrent API requests
  NoOne,          \* the value of `lock` when the advisory lock is free
  NV,             \* the blueprint has versions 1..NV; 0 is the base
  Size,           \* Size[v]: number of up statements of version v
  HasDown,        \* the statements whose manifest row carries a down_sql
  Resumable,      \* versions for which is_resumable answers True
  Destructive,    \* versions with a destructive change
  EnvBlocks,      \* the environment forbids destructive versions
  Transactional,  \* use_transactional_ddl: PostgreSQL, one transaction per version
  Ops,            \* the operations requests may ask for
  Modes,          \* the on_failure modes apply is called with
  MaxLost         \* bound: acknowledgements lost between engine and checkpoint

Versions == 1..NV

ASSUME RequestsAssumption == NoOne \notin Requests
ASSUME SizeAssumption == NV \in Nat /\ Size \in [Versions -> Nat \ {0}]

Stmt == UNION {{v} \X (1..Size[v]) : v \in Versions}

ASSUME ManifestAssumption ==
  /\ HasDown \subseteq Stmt
  /\ Resumable \subseteq Versions
  /\ Destructive \subseteq Versions
ASSUME ModeAssumption ==
  /\ Transactional \in BOOLEAN /\ EnvBlocks \in BOOLEAN
  /\ Ops \subseteq {"apply", "rollback", "stamp", "reconcile"}
  /\ Modes \subseteq {"auto", "reconcile", "leave"}
  /\ MaxLost \in Nat

VARIABLES
  phys,        \* target: statements whose effect is in the physical schema
  ledger,      \* target: the version in Alembic's version table
  lock,        \* target: holder of the advisory lock
  ckUp,        \* gateway: last_statement_index, direction up (0: no row)
  ckDown,      \* gateway: the same, direction down
  quarantined, \* gateway: managed_databases.status = error
  cached,      \* gateway: managed_databases.model_version
  pc,          \* where each request is
  ctx,         \* what each request has read and decided so far
  lost,        \* ghost: acknowledgements lost so far
  unheard,     \* ghost: what they were for: direction and statement
  declared     \* ghost: a stamp has asserted a version without running it

target  == <<phys, ledger>>
progress == <<ckUp, ckDown>>
inventory == <<quarantined, cached>>
ghosts  == <<lost, unheard, declared>>
vars == <<phys, ledger, lock, ckUp, ckDown, quarantined, cached, pc, ctx,
          lost, unheard, declared>>

-----------------------------------------------------------------------------
(* Statement lists.  The down list of a version holds its reversible       *)
(* statements from the last to the first; a reconciliation walks the same  *)
(* list from the checkpoint down.                                          *)

Reversible(v) == {i \in 1..Size[v] : <<v, i>> \in HasDown}
Rank(v, i) == Cardinality({j \in Reversible(v) : j >= i})
DownSize(v) == Cardinality(Reversible(v))

PC == {"idle", "guard", "files", "lock", "run", "stmt", "ack", "clear",
       "unlock", "settle", "read", "sync", "mark", "forget"}
Critical == {"run", "stmt", "ack", "clear", "unlock"}
NoCtx == [op |-> "none", phase |-> "none", mode |-> "leave", force |-> FALSE,
          goal |-> 0, seen |-> 0, cur |-> 0, pos |-> 0, failed |-> FALSE,
          offUp |-> [v \in Versions |-> 0], offDown |-> [v \in Versions |-> 0]]

(* incomplete_progress_for_database: 0 < last_statement_index < total.     *)
IncompleteUp == {v \in Versions : 0 < ckUp[v] /\ ckUp[v] < Size[v]}
IncompleteDown == {v \in Versions : 0 < ckDown[v] /\ ckDown[v] < DownSize(v)}

(* Mutant: resumes one statement too far.                                  *)
OffsetPastNext(v) ==
  IF ~Transactional /\ v \in IncompleteUp THEN ckUp[v] + 1 ELSE 0

(* _resolve_resume_offset, both directions, for every version at once.     *)
OffsetUp(v) ==
  IF ~Transactional /\ v \in Resumable /\ v \in IncompleteUp THEN ckUp[v] ELSE 0
OffsetDown(v) ==
  IF ~Transactional /\ v \in Resumable /\ v \in IncompleteDown THEN ckDown[v] ELSE 0

(* The indices a context still has to execute; the one that comes next     *)
(* (a set of at most one); the position once i is done; what doing i       *)
(* changes, and whether the engine can do it.                              *)
Left(c) ==
  CASE c.phase = "up"   -> {i \in 1..Size[c.cur] : i > c.pos}
    [] c.phase = "down" -> {i \in Reversible(c.cur) : Rank(c.cur, i) > c.pos}
    [] c.phase = "undo" -> {i \in Reversible(c.cur) : i <= c.pos}
Frontier(c) ==
  {i \in Left(c) : \A j \in Left(c) : IF c.phase = "up" THEN i <= j ELSE i >= j}
After(c, i) ==
  CASE c.phase = "up" -> i [] c.phase = "down" -> Rank(c.cur, i) [] OTHER -> i - 1
Effect(c, i) ==
  IF c.phase = "up" THEN phys \cup {<<c.cur, i>>} ELSE phys \ {<<c.cur, i>>}
Applicable(c, i) == (<<c.cur, i>> \in phys) <=> c.phase # "up"

Goto(r, label) == pc' = [pc EXCEPT ![r] = label]
Finish(r) == Goto(r, "idle") /\ ctx' = [ctx EXCEPT ![r] = NoCtx]

Init ==
  /\ phys = {} /\ ledger = 0 /\ lock = NoOne
  /\ ckUp = [v \in Versions |-> 0] /\ ckDown = [v \in Versions |-> 0]
  /\ quarantined = FALSE /\ cached = 0
  /\ pc = [r \in Requests |-> "idle"] /\ ctx = [r \in Requests |-> NoCtx]
  /\ lost = 0 /\ unheard = {} /\ declared = FALSE

-----------------------------------------------------------------------------
(* Entering a handler: the quarantine flag and the checkpoints are read    *)
(* from the gateway before anything is locked.                             *)

BeginApply(r) ==
  /\ pc[r] = "idle" /\ "apply" \in Ops
  /\ \E goal \in Versions, mode \in Modes, force \in BOOLEAN :
       /\ quarantined => force
       /\ IncompleteDown = {}
       /\ ctx' = [ctx EXCEPT ![r] =
            [NoCtx EXCEPT !.op = "apply", !.phase = "up", !.goal = goal,
                          !.mode = mode]]
  /\ Goto(r, "guard")
  /\ UNCHANGED <<target, lock, progress, inventory, ghosts>>

(* Mutant: no _guard_partial_before_rollback.                              *)
BeginRollbackUnguarded(r) ==
  /\ pc[r] = "idle" /\ "rollback" \in Ops
  /\ ctx' = [ctx EXCEPT ![r] = [NoCtx EXCEPT !.op = "rollback", !.phase = "down"]]
  /\ Goto(r, "guard")
  /\ UNCHANGED <<target, lock, progress, inventory, ghosts>>

BeginRollback(r) ==
  /\ pc[r] = "idle" /\ "rollback" \in Ops
  /\ IncompleteUp = {}
  /\ ctx' = [ctx EXCEPT ![r] = [NoCtx EXCEPT !.op = "rollback", !.phase = "down"]]
  /\ Goto(r, "guard")
  /\ UNCHANGED <<target, lock, progress, inventory, ghosts>>

BeginStamp(r) ==
  /\ pc[r] = "idle" /\ "stamp" \in Ops
  /\ \E goal \in Versions, force \in BOOLEAN :
       /\ (IncompleteUp \cup IncompleteDown # {}) => force
       /\ ctx' = [ctx EXCEPT ![r] =
            [NoCtx EXCEPT !.op = "stamp", !.phase = "none", !.goal = goal,
                          !.seen = goal, !.force = force]]
  /\ Goto(r, "files")
  /\ UNCHANGED <<target, lock, progress, inventory, ghosts>>

(* _reconcile_plan: what a reconciliation of the first k statements of v   *)
(* could undo, and what it could not.                                      *)
Undoable(v, k) == {i \in Reversible(v) : i <= k}
Stuck(v, k) == (1..k) \ Reversible(v)

BeginReconcile(r) ==
  /\ pc[r] = "idle" /\ "reconcile" \in Ops
  /\ \E v \in IncompleteUp, force \in BOOLEAN :
       /\ \A w \in IncompleteUp : w <= v
       /\ Undoable(v, ckUp[v]) # {}
       /\ Stuck(v, ckUp[v]) # {} => force
       /\ ctx' = [ctx EXCEPT ![r] =
            [NoCtx EXCEPT !.op = "reconcile", !.phase = "undo",
                          !.cur = v, !.pos = ckUp[v]]]
  /\ Goto(r, "lock")
  /\ UNCHANGED <<target, lock, progress, inventory, ghosts>>

(* Mutant: the destructive versions are not looked at.                     *)
GuardWithoutEnvironment(r) ==
  /\ pc[r] = "guard" /\ ctx[r].op = "apply"
  /\ ctx' = [ctx EXCEPT ![r].seen = ledger]
  /\ Goto(r, "files")
  /\ UNCHANGED <<target, lock, progress, inventory, ghosts>>

(* apply reads the engine's version and vets the versions pending from it  *)
(* (_guard_environment_destructive); rollback compares it with             *)
(* confirm_version and requires a down_sql on the whole path.              *)
Guard(r) ==
  /\ pc[r] = "guard"
  /\ \/ /\ ctx[r].op = "apply"
        /\ EnvBlocks => ~ \E v \in Destructive : ledger < v /\ v <= ctx[r].goal
        /\ ctx' = [ctx EXCEPT ![r].seen = ledger]
     \/ /\ ctx[r].op = "rollback"
        /\ \E dest \in 0..(ledger - 1) :
             /\ dest = 0 => ledger = 1
             /\ \A v \in (dest + 1)..ledger : Reversible(v) # {}
             /\ ctx' = [ctx EXCEPT ![r].seen = ledger, ![r].goal = dest]
  /\ Goto(r, "files")
  /\ UNCHANGED <<target, lock, progress, inventory, ghosts>>

(* The 409 of any guard, and of the lock once its timeout expires.         *)
Refuse(r) ==
  /\ pc[r] = "guard" \/ (pc[r] = "lock" /\ lock # NoOne)
  /\ Finish(r)
  /\ UNCHANGED <<target, lock, progress, inventory, ghosts>>

(* _prepared writes the revision files, with the statements the checkpoint *)
(* says are left, BEFORE it takes the advisory lock.                       *)
WriteRevisionFiles(r) ==
  /\ pc[r] = "files"
  /\ ctx' = [ctx EXCEPT ![r].offUp = [v \in Versions |-> OffsetUp(v)],
                        ![r].offDown = [v \in Versions |-> OffsetDown(v)]]
  /\ Goto(r, "lock")
  /\ UNCHANGED <<target, lock, progress, inventory, ghosts>>

(* Mutant: GET_LOCK's answer is not looked at.                             *)
AcquireLockUnchecked(r) ==
  /\ pc[r] = "lock"
  /\ lock' = r
  /\ Goto(r, IF ctx[r].phase = "undo" THEN "stmt" ELSE "run")
  /\ UNCHANGED <<target, progress, inventory, ctx, ghosts>>

AcquireLock(r) ==
  /\ pc[r] = "lock" /\ lock = NoOne
  /\ lock' = r
  /\ Goto(r, IF ctx[r].phase = "undo" THEN "stmt" ELSE "run")
  /\ UNCHANGED <<target, progress, inventory, ctx, ghosts>>

-----------------------------------------------------------------------------
(* Under the lock.  The current version is read again here, and the next   *)
(* version in the direction of the request is taken from it.               *)

NextVersion(r) ==
  /\ pc[r] = "run" /\ ctx[r].phase \in {"up", "down"}
  /\ LET up == ctx[r].phase = "up"
         v  == IF up THEN ledger + 1 ELSE ledger
     IN IF IF up THEN ledger < ctx[r].goal ELSE ledger > ctx[r].goal
        THEN /\ ctx' = [ctx EXCEPT ![r].cur = v,
                  ![r].pos = IF up THEN ctx[r].offUp[v] ELSE ctx[r].offDown[v]]
             /\ Goto(r, "stmt")
        ELSE /\ Goto(r, "unlock") /\ UNCHANGED ctx
  /\ UNCHANGED <<target, lock, progress, inventory, ghosts>>

StampLedger(r) ==
  /\ pc[r] = "run" /\ ctx[r].op = "stamp"
  /\ ledger' = ctx[r].goal
  /\ declared' = (declared \/ ctx[r].goal # ledger \/ ctx[r].force)
  /\ Goto(r, "unlock")
  /\ UNCHANGED <<phys, lock, progress, inventory, ctx, lost, unheard>>

(* One statement.  In AUTOCOMMIT its effect is durable at once; in a       *)
(* transaction it waits for Commit.                                        *)
ExecStatement(r) ==
  /\ pc[r] = "stmt"
  /\ \E i \in Frontier(ctx[r]) :
       /\ Applicable(ctx[r], i)
       /\ IF Transactional
          THEN /\ ctx' = [ctx EXCEPT ![r].pos = After(ctx[r], i)]
               /\ UNCHANGED <<phys, pc>>
          ELSE /\ phys' = Effect(ctx[r], i)
               /\ Goto(r, "ack") /\ UNCHANGED ctx
  /\ UNCHANGED <<ledger, lock, progress, inventory, ghosts>>

(* Mutant: a reverse that succeeded leaves the checkpoint where it was.    *)
RecordOnlyForwards(r) ==
  /\ pc[r] = "ack"
  /\ \E i \in Frontier(ctx[r]) :
       /\ ckUp' = IF ctx[r].phase = "up" THEN [ckUp EXCEPT ![ctx[r].cur] = i] ELSE ckUp
       /\ ctx' = [ctx EXCEPT ![r].pos = After(ctx[r], i)]
  /\ Goto(r, "stmt")
  /\ UNCHANGED <<target, lock, ckDown, inventory, ghosts>>

(* record_statement, after the statement; for a reconciliation the         *)
(* checkpoint goes down and the row disappears at 0.  A version that is    *)
(* not resumable records nothing.                                          *)
RecordStatement(r) ==
  /\ pc[r] = "ack"
  /\ LET c == ctx[r]
         kept == c.cur \in Resumable
     IN \E i \in Frontier(c) :
          /\ ckUp' = IF kept /\ c.phase # "down"
                     THEN [ckUp EXCEPT ![c.cur] = After(c, i)] ELSE ckUp
          /\ ckDown' = IF kept /\ c.phase = "down"
                       THEN [ckDown EXCEPT ![c.cur] = After(c, i)] ELSE ckDown
          /\ ctx' = [ctx EXCEPT ![r].pos = After(c, i)]
  /\ Goto(r, "stmt")
  /\ UNCHANGED <<target, lock, inventory, ghosts>>

(* What a request has sent to the engine and not recorded.                 *)
InFlight(r) == IF pc[r] = "ack" THEN {ctx[r].cur} \X Frontier(ctx[r]) ELSE {}
Unrecorded(r) == {ctx[r].phase} \X InFlight(r)

(* The statement took effect but the client saw an error (socket timeout,  *)
(* dropped connection), or record_statement itself failed.                 *)
LoseAck(r) ==
  /\ pc[r] = "ack" /\ lost < MaxLost
  /\ lost' = lost + 1 /\ unheard' = unheard \cup Unrecorded(r)
  /\ ctx' = [ctx EXCEPT ![r].failed = TRUE]
  /\ Goto(r, "unlock")
  /\ UNCHANGED <<target, lock, progress, inventory, declared>>

(* The engine or the gateway reports an error that the runner turns into a *)
(* failed result: a statement, the write of the version table, or (apply)  *)
(* the removal of the checkpoint.  A transaction in progress is gone.      *)
Fail(r) ==
  /\ \/ pc[r] = "stmt" /\ (ctx[r].phase = "undo" => Left(ctx[r]) # {})
     \/ pc[r] = "clear" /\ ctx[r].phase = "up"
  /\ ctx' = [ctx EXCEPT ![r].failed = TRUE]
  /\ Goto(r, "unlock")
  /\ UNCHANGED <<target, lock, progress, inventory, ghosts>>

(* Mutant: the version is not written with the transaction.                *)
CommitSchemaOnly(r) ==
  LET c == ctx[r] IN
  /\ pc[r] = "stmt" /\ c.phase \in {"up", "down"} /\ Left(c) = {}
  /\ phys' = IF c.phase = "up" THEN phys \cup {s \in Stmt : s[1] = c.cur}
                               ELSE phys \ {s \in HasDown : s[1] = c.cur}
  /\ Goto(r, "clear")
  /\ UNCHANGED <<ledger, lock, progress, inventory, ctx, ghosts>>

(* The end of a version.  Alembic writes the version table after the last  *)
(* statement: a second write in AUTOCOMMIT, the same commit otherwise.     *)
Commit(r) ==
  LET c == ctx[r] IN
  /\ pc[r] = "stmt" /\ c.phase \in {"up", "down"} /\ Left(c) = {}
  /\ c.phase = "down" => Reversible(c.cur) # {}  \* else NotImplementedError
  /\ ledger' = IF c.phase = "up" THEN c.cur ELSE c.cur - 1
  /\ phys' = CASE ~Transactional -> phys
               [] Transactional /\ c.phase = "up" ->
                    phys \cup {s \in Stmt : s[1] = c.cur}
               [] Transactional /\ c.phase = "down" ->
                    phys \ {s \in HasDown : s[1] = c.cur}
  /\ Goto(r, "clear")
  /\ UNCHANGED <<lock, progress, inventory, ctx, ghosts>>

ClearProgress(r) ==
  LET c == ctx[r] IN
  /\ pc[r] = "clear"
  /\ IF c.phase = "up"
     THEN ckUp' = [ckUp EXCEPT ![c.cur] = 0] /\ UNCHANGED ckDown
     ELSE ckDown' = [ckDown EXCEPT ![c.cur] = 0] /\ UNCHANGED ckUp
  /\ Goto(r, "run")
  /\ UNCHANGED <<target, lock, inventory, ctx, ghosts>>

UndoFinished(r) ==
  /\ pc[r] = "stmt" /\ ctx[r].phase = "undo" /\ Left(ctx[r]) = {}
  /\ Goto(r, "unlock")
  /\ UNCHANGED <<target, lock, progress, inventory, ctx, ghosts>>

(* Mutant: the lock is not released after a failure.                       *)
ReleaseLockOnSuccess(r) ==
  /\ pc[r] = "unlock"
  /\ lock' = IF ctx[r].failed THEN lock ELSE NoOne
  /\ Goto(r, "read")
  /\ UNCHANGED <<target, progress, inventory, ctx, ghosts>>

(* Leaving _prepared: the lock goes, and the revision files with it.       *)
ReleaseLock(r) ==
  /\ pc[r] = "unlock"
  /\ lock' = NoOne
  /\ ctx' = [ctx EXCEPT ![r] = [@ EXCEPT !.pos = 0,
                 !.offUp = NoCtx.offUp, !.offDown = NoCtx.offDown]]
  /\ Goto(r, CASE ctx[r].op = "stamp" -> "sync"
               [] ctx[r].phase = "down" -> "read"
               [] OTHER -> "settle")
  /\ UNCHANGED <<target, progress, inventory, ghosts>>

-----------------------------------------------------------------------------
(* After the run.  A failed apply may reconcile at once                    *)
(* (_auto_reconcile_after_failure), which takes the lock again.            *)

WantsUndo(c) ==
  /\ c.failed /\ c.mode # "leave" /\ c.cur \in IncompleteUp
  /\ Undoable(c.cur, ckUp[c.cur]) # {}
  /\ c.mode = "auto" => Stuck(c.cur, ckUp[c.cur]) = {}

SettleApply(r) ==
  /\ pc[r] = "settle" /\ ctx[r].phase = "up"
  /\ IF WantsUndo(ctx[r])
     THEN /\ ctx' = [ctx EXCEPT ![r].phase = "undo", ![r].failed = FALSE,
                                ![r].pos = ckUp[ctx[r].cur]]
          /\ Goto(r, "lock")
     ELSE Goto(r, "read") /\ UNCHANGED ctx
  /\ UNCHANGED <<target, lock, progress, inventory, ghosts>>

(* fully_reconciled: no reverse failed and the checkpoint row is gone.     *)
SettleUndo(r) ==
  LET fully == ~ctx[r].failed /\ ckUp[ctx[r].cur] = 0 IN
  /\ pc[r] = "settle" /\ ctx[r].phase = "undo"
  /\ IF ctx[r].op = "apply"
     THEN /\ ctx' = [ctx EXCEPT ![r].failed = ~fully]
          /\ Goto(r, "read") /\ UNCHANGED quarantined
     ELSE /\ quarantined' = (quarantined /\ ~fully)
          /\ Finish(r)
  /\ UNCHANGED <<target, lock, progress, cached, ghosts>>

(* _sync_model_version_from_engine: read the engine, then write the row.   *)
ReadVersion(r) ==
  /\ pc[r] = "read"
  /\ ctx' = [ctx EXCEPT ![r].seen = ledger]
  /\ Goto(r, "sync")
  /\ UNCHANGED <<target, lock, progress, inventory, ghosts>>

SetModelVersion(r) ==
  /\ pc[r] = "sync"
  /\ cached' = ctx[r].seen
  /\ Goto(r, "mark")
  /\ UNCHANGED <<target, lock, progress, quarantined, ctx, ghosts>>

SetQuarantine(r) ==
  /\ pc[r] = "mark"
  /\ quarantined' = ctx[r].failed
  /\ IF ctx[r].op = "stamp" /\ ctx[r].force
     THEN Goto(r, "forget") /\ UNCHANGED ctx
     ELSE Finish(r)
  /\ UNCHANGED <<target, lock, progress, cached, ghosts>>

(* stamp with force: clear_progress_for_database.                          *)
ForgetProgress(r) ==
  /\ pc[r] = "forget"
  /\ ckUp' = [v \in Versions |-> 0] /\ ckDown' = [v \in Versions |-> 0]
  /\ Finish(r)
  /\ UNCHANGED <<target, lock, inventory, ghosts>>

(* The process dies, or an exception leaves the handler (the engine is     *)
(* unreachable, a gateway write raises).  The engine drops the session and *)
(* with it the lock; what was already executed stays.                      *)
Crash(r) ==
  /\ pc[r] # "idle"
  /\ pc[r] = "ack" => lost < MaxLost
  /\ lost' = IF pc[r] = "ack" THEN lost + 1 ELSE lost
  /\ unheard' = unheard \cup Unrecorded(r)
  /\ lock' = IF lock = r THEN NoOne ELSE lock
  /\ Finish(r)
  /\ UNCHANGED <<target, progress, inventory, declared>>

Begin(r) == BeginApply(r) \/ BeginRollback(r) \/ BeginStamp(r) \/ BeginReconcile(r)
Step(r) ==
  \/ Guard(r) \/ Refuse(r) \/ WriteRevisionFiles(r) \/ AcquireLock(r)
  \/ NextVersion(r) \/ StampLedger(r) \/ ExecStatement(r) \/ RecordStatement(r)
  \/ LoseAck(r) \/ Fail(r) \/ Commit(r) \/ ClearProgress(r) \/ UndoFinished(r)
  \/ ReleaseLock(r) \/ SettleApply(r) \/ SettleUndo(r) \/ ReadVersion(r)
  \/ SetModelVersion(r) \/ SetQuarantine(r) \/ ForgetProgress(r)

Next == \E r \in Requests : Begin(r) \/ Step(r) \/ Crash(r)
Spec == Init /\ [][Next]_vars
FairSpec == Spec /\ \A r \in Requests : WF_vars(Step(r))

-----------------------------------------------------------------------------
(* Properties.                                                             *)

Ctx ==
  [op : {"none", "apply", "rollback", "stamp", "reconcile"},
   phase : {"none", "up", "down", "undo"}, mode : {"auto", "reconcile", "leave"},
   force : BOOLEAN, failed : BOOLEAN,
   goal : 0..NV, seen : 0..NV, cur : 0..NV, pos : Nat,
   offUp : [Versions -> Nat], offDown : [Versions -> Nat]]

TypeOK ==
  /\ phys \subseteq Stmt /\ ledger \in 0..NV /\ lock \in Requests \cup {NoOne}
  /\ ckUp \in [Versions -> Nat] /\ ckDown \in [Versions -> Nat]
  /\ quarantined \in BOOLEAN /\ cached \in 0..NV
  /\ pc \in [Requests -> PC] /\ ctx \in [Requests -> Ctx]
  /\ lost \in Nat /\ declared \in BOOLEAN
  /\ unheard \subseteq {"up", "down", "undo"} \X Stmt

(* Only the request that holds the advisory lock is between taking it and  *)
(* giving it back: no two requests ever run DDL on the database at once.   *)
HolderRuns == \A r \in Requests : pc[r] \in Critical => lock = r

(* What the version table and the checkpoints say of version v: the        *)
(* statements the two together claim to be in the schema.  A checkpoint    *)
(* that reached its total says nothing (it may precede the version write   *)
(* or survive it), so such a version is left out.                          *)
Books(v) ==
  IF v <= ledger
  THEN {<<v, i>> : i \in {j \in 1..Size[v] :
          j \in Reversible(v) => Rank(v, j) > ckDown[v]}}
  ELSE {<<v, i>> : i \in 1..ckUp[v]}
Legible(v) ==
  /\ v \in Resumable \/ Transactional
  /\ IF v <= ledger THEN DownSize(v) = 0 \/ ckDown[v] < DownSize(v)
                    ELSE ckUp[v] < Size[v]
Drift ==
  UNION {(Books(v) \ phys) \cup {s \in HasDown \cap phys : s[1] = v /\ s \notin Books(v)}
         : v \in {w \in Versions : Legible(w)}}

(* The physical schema differs from what the version table and the         *)
(* checkpoints say only by statements whose acknowledgement was lost or is *)
(* on its way: no sequence of failures, resumed runs, rollbacks and        *)
(* reconciliations skips or repeats a statement silently, unless a reverse *)
(* of a reconciliation went unrecorded.  A statement without a reverse may *)
(* outlive its version; a stamp may declare anything.                      *)
InDoubt == {u[2] : u \in unheard} \cup UNION {InFlight(r) : r \in Requests}
ReverseUnheard == \E u \in unheard : u[1] = "undo"
BooksWithinLost == ~declared /\ ~ReverseUnheard => Drift \subseteq InDoubt

(* A resumed version is never missing a statement below the point where it *)
(* resumes: recording after execution costs at most a noisy repetition     *)
(* (_render_revision).                                                     *)
ResumeNeverSkips ==
  ~Transactional =>
    \A r \in Requests :
      pc[r] = "stmt" /\ ctx[r].phase = "up" =>
        {ctx[r].cur} \X (1..ctx[r].pos) \subseteq phys

(* A half-applied version is the one right after the recorded version, a   *)
(* half-reverted one is the recorded version itself, and never both: the   *)
(* guards of apply and rollback leave retry or reconciliation as the only  *)
(* way out (_guard_partial_before_rollback, _guard_partial_down_...).      *)
PartialAtTheEdge ==
  ~declared =>
    /\ IncompleteUp \subseteq {ledger + 1} /\ IncompleteDown \subseteq {ledger}
    /\ IncompleteUp = {} \/ IncompleteDown = {}

(* A rollback only reverts versions the caller confirmed from: at or below *)
(* the version it saw, above the version it asked for.                     *)
RevertsOnlyConfirmed ==
  \A r \in Requests :
    pc[r] \in {"stmt", "ack"} /\ ctx[r].phase = "down" =>
      ctx[r].goal < ctx[r].cur /\ ctx[r].cur <= ctx[r].seen

(* Where the environment forbids destructive versions, no statement of one *)
(* is run forwards, whoever moved the database between the guard and the   *)
(* lock (_guard_environment_destructive): only a version that was recorded *)
(* as applied when the guard looked can be, after a stamp took it back.    *)
NoDestructiveUnderBlock ==
  EnvBlocks =>
    \A r \in Requests :
      pc[r] \in {"stmt", "ack"} /\ ctx[r].phase = "up" =>
        ctx[r].cur \notin Destructive \/ ctx[r].cur <= ctx[r].seen

(* Reverses never run on top of a later version: while a rollback executes *)
(* the down list of v, no reversible statement of a version above v is in  *)
(* the schema.                                                             *)
NoRollbackOverPartial ==
  ~declared /\ lost = 0 =>
    \A r \in Requests :
      pc[r] \in {"stmt", "ack"} /\ ctx[r].phase = "down" =>
        \A s \in HasDown \cap phys : s[1] <= ctx[r].cur

(* The same, as long as no reverse of a reconciliation went unrecorded:    *)
(* then the checkpoint counts a statement that is gone.                    *)
ResumeSound == ~ReverseUnheard => ResumeNeverSkips

(* With one transaction per version the version table is the truth about   *)
(* the schema: the versions completely there are exactly those up to the   *)
(* recorded one, whatever crashed.                                         *)
Built == {v \in Versions : {v} \X (1..Size[v]) \subseteq phys}
LedgerIsTruth == Transactional /\ ~declared => Built = 1..ledger

(* The transactional runner implements the chain of versions an operator   *)
(* imagines: whole versions on and off the top, and declarations.          *)
Chain == INSTANCE VersionChain WITH level <- ledger, built <- Built
ImplementsChain == Chain!Spec

(* A lock taken is given back.                                             *)
LockReleased == \A r \in Requests : lock = r ~> lock # r
=============================================================================
