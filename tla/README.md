# Verification of Datum (database-api-gateway)

TLA+ modules that model the stateful core of this repository, the TLC runs that
check them on small instances, and TLAPS proofs of what matters most for every
value of the constants. Paths are relative to the repository (`src/`); line
numbers of every modelled definition are in `PROJECT.json`, "map".

Run a configuration with `tlc -config MCExportJobs_jobs.cfg MCExportJobs.tla`,
and the proofs of a module with `tlapm ExportJobsProofs.tla`.

Contents

1. [The system](#1-the-system)
2. [Components, their state and what makes them correct](#2-components-their-state-and-what-makes-them-correct)
3. [Modules](#3-modules)
4. [Runs and bounds](#4-runs-and-bounds)
5. [Fairness](#5-fairness)
6. [Proofs](#6-proofs)
7. [Where the code and its documentation disagree](#7-where-the-code-and-its-documentation-disagree)
8. [What is not modelled](#8-what-is-not-modelled)
9. [Plan](#9-plan)

## 1. The system

Datum is a FastAPI gateway to many MySQL, MariaDB and PostgreSQL servers. An
HTTP request reaches a controller (`app/controllers`), which reads and writes
the **gateway's own database** (the *metadata*: servers, inventory, jobs,
checkpoints) and opens connections to **target servers** through an adapter
(`app/services/db_admin`). Nothing spans the two with a transaction. Long work
goes to **in-process thread pools**, one per kind of job, whose queues live in
memory; a restart loses them, and sweeps in the `lifespan` of `main.py` tidy up
the rows that were left `running`. Exports also write to a **spool directory**.

So there are four places that fail separately, and the difficulty of this code
is the order in which it writes to them:

| place | survives a restart | survives a failing request | lock |
| --- | --- | --- | --- |
| metadata database | yes | what was committed | conditional `UPDATE ... WHERE status = 'pending'` |
| target server | yes | everything (MySQL DDL), or nothing of the transaction (PostgreSQL) | session advisory lock, gone with the session |
| spool directory | yes | yes, until somebody removes it | none |
| process memory | no | yes | `threading.Lock` per database or server |

The engine's advisory lock also works across processes. The in-process locks and
sets do not; the job systems assume one process and so do their models.

## 2. Components, their state and what makes them correct

The full list with the files of each, modelled or not, is in `PROJECT.json`,
"components". The hazards, each at its line and with the properties aimed at it,
are there too. This is the summary.

### Modelled

**Blueprint migration runner** (`managed_migration_controller.py`,
`db_admin/migrations.py`, `db_admin/migration_progress.py`).
*State*: Alembic's version table and the physical schema in the target; a
checkpoint per (database, version, direction) and the inventory's `status` and
`model_version` in the metadata; the advisory lock.
*Operations*: apply (with `on_failure` auto, reconcile or leave), rollback,
stamp, reconcile_partial.
*Hard*: MySQL commits every DDL statement by itself, so a version can be half
there; the statement, its checkpoint and the version table are three writes; the
plan of a request is computed before the lock and carried out under it.
*Correct when*: nothing runs without the lock; no statement is skipped or
repeated silently; a half-done version is next to the recorded one; a rollback
reverts only what was confirmed; on PostgreSQL versions are all or nothing and
the version table tells the truth.

**Database exports** (`export_controller.py`, `export_runner.py`,
`export_storage.py`).
*State*: `export_jobs` and `export_artifacts` rows, the files of the spool, the
pool's queue, the set of admitted jobs.
*Operations*: plan, preview (freezes a selection), execute (confirms it and
enqueues), cancel, download, retention purge, start-up sweeps; the worker's
claim, guard, spool, rename, row, report.
*Hard*: a job waits in the queue as `pending` and can be previewed again; file
and row are written and removed in two steps by three actors.
*Correct when*: a plan is exported once, and what was confirmed; a cancelled
export leaves nothing; a row that offers a file has it; no file stays behind; a
running job ends.

**Clone batches and clone jobs** (`clone_batch_controller.py`,
`clone_controller.py`, `clone_batch_runner.py`, `clone_runner.py`,
`db_admin/data_copy.py`).
*State*: `clone_batches`, `clone_batch_items`, `clone_jobs`; the databases and
rows of the target; the walk of each batch and the pipeline of each job.
*Operations*: plan a batch, execute, cancel, retry what failed; the serial walk
(create the job, link it, preview it, run it); execute or cancel one job by
itself; the sweeps.
*Hard*: a row's state is its job's state once it has one; the job can be run
from elsewhere; rows are committed as they are copied and recorded at the end.
*Correct when*: one row is copied at a time per server; `done` means copied;
nothing of a closed batch runs; a batch ends; a retry does not load rows twice.

**Collation conversions** (`collation_conversion_controller.py`,
`collation_conversion_runner.py`).
*State*: jobs, items and batches in the metadata; tables, foreign keys, routines
and their privileges in the target; a `quarantined` inventory row.
*Operations*: plan, preview, execute and cancel one job; plan, execute, cancel and
list the batch of a blueprint; the worker's claim and its phases (default
collation, tables or groups of tables, objects); the sweep.
*Hard*: no statement can be rolled back, so a group of tables joined by foreign
keys is converted by dropping the keys, altering, and adding them again, with a
compensation that may fail itself; a job waits in a queue while its plan can be
previewed again.
*Correct when*: a group ends whole or an item says what is missing; items never lie;
the DDL of what was dropped is stored first; a job that was enqueued is started or
closed; a worker sets out on the plan somebody confirmed; a batch ends.

**Blueprint editing** (`model_migration_controller.py`, `rename_slug` of
`database_model_controller.py`).
*State*: the versions and their checksums, the slug; the pointer of each database in
its own version table; the history and the cached pointer in the inventory.
*Operations*: create, edit and delete a version (with renumbering), rename the slug.
*Hard*: N engines are written one by one before one transaction of the metadata, with
a compensation in the opposite order; meanwhile databases apply, and others edit.
*Correct when*: afterwards each pointer names what its database holds; SQL a
database ran is not replaced without a trace.

**Schema comparisons** (`schema_comparison_controller.py`, `plan_integrity.py`).
*State*: a comparison with its statements, their groups and results, and the
fingerprint of the target; the target's structure; its inventory row; the lock.
*Operations*: create, execute in three modes, and the inventory's adopt, update and
delete of the target meanwhile.
*Hard*: the check of the structure comes before the lock, the key of the lock depends
on the inventory, the results are written after both, and a filter may take out what
another statement stands on.
*Correct when*: nothing runs before what it needs; nothing in effect runs again; a
result says what happened.

**Data access of agents** (inventory: `managed_database_controller.py`).
*State*: the data credential and its probe, who asked and who approved; an account in
the engine; an in-process lock.
*Operations*: provision, verify, clear, request, approve, revoke, delete the database,
move it to another environment; an agent's read.
*Correct when*: open data was asked for by one owner and approved by another; a green
probe is of the stored password; no account is left that no row can revoke.

**Duties of the gateway's users** (`gateway_user_controller.py`,
`access_request_controller.py`, `sod_service.py`, `user_model.py`).
*State*: accounts and roles, requests, exceptions, the bootstrap window.
*Operations*: create, update, set_access, approve, dismiss and expire requests, accept
an invitation, recovery at start-up.
*Hard*: every handler reads and decides in one session and writes in later ones.
*Correct when*: an elevation has two other people behind it; an administrator always
remains; a security officer stands alone or with a live exception.

**Encryption keys** (`core/crypto.py`, `services/crypto_rotation.py`).
*State*: wrapped data keys, ciphertexts, each process's cache of keys.
*Operations*: encrypt, decrypt, rotate.
*Correct when*: whatever is stored can be decrypted.

### How they interact

The job systems share a pattern (a row claimed conditionally, a worker in memory, a
sweep at start-up) and two resources: the target server, which clones and
conversions write, exports read and the runner migrates, and the **advisory lock** of
a database, taken by the runner, the clones, the collation conversion and the
execution of a comparison. The lock's key is the inventory id, or a synthetic one for
a database outside the inventory. Each module has the lock for itself; one that
composes its users is the next of the plan. The sweeps run in the order of
`main.py:116-128`: clone jobs, clone batches, collations, exports, and, further
down, expired and orphaned artifacts; each model contains its own part of it.
`BlueprintEditing` contains the runner as seen from the editor (load, run one
version, record), because the two meet in the pointer; `MigrationRunner` looks
inside one version with the blueprint held still.

### Not modelled yet

| component | state and operations | hard | correct when |
| --- | --- | --- | --- |
| inventory, the rest (`managed_database_controller.py`) | managed databases; adopt, provision, quarantine | in-process lock against engine lock | one row per database, one writer at a time |
| sessions and step-up (`core/session_store.py`) | sessions; create, resolve, revoke | idle update against revocation | a revoked session never resolves again |
| capability grants | grants; ask, approve, expire | checks before the claim | a grant ends when it says |
| API and integration tokens | tokens; issue, use, revoke | expiry and revocation under use | a revoked token does nothing |
| query console, MCP, environments, servers, engine accounts, audit, rate limits | mostly one row each, or text | parsing | out of scope or later, see section 8 |

## 3. Modules

| module | models | proofs |
| --- | --- | --- |
| `MigrationRunner` | the runner on one database, several requests | `MigrationRunnerProofs` |
| `VersionChain` | abstract: whole versions put on and taken off the top | refined by `MigrationRunner` |
| `ExportJobs` | exports, their workers, store and start-up | `ExportJobsProofs` |
| `CloneBatch` | batches of clones, their jobs and start-up | `CloneBatchProofs` |
| `CollationConversion` | one running conversion, statement by statement | `CollationConversionProofs` |
| `CollationJobs` | conversion jobs and the batch of a blueprint around it | `CollationConversionProofs` |
| `PlanIntegrity` | which statements of a comparison may be chosen, as operators | `SchemaComparisonProofs` |
| `SchemaComparison` | comparisons of a target and their execution on it | `SchemaComparisonProofs` |
| `BlueprintEditing` | versions created, edited, deleted and the slug renamed while databases move | `BlueprintEditingProofs` |
| `DataAccess` | the agents' credential of one database and its opt-in | `DataAccessProofs` |
| `AccessChanges` | duties of accounts, their second approver, separation, bootstrap | `AccessChangesProofs` |
| `CredentialKeys` | the data key, its rotation and the caches of processes | |
| `MC...` | instances for TLC: sizes, manifests, symmetry | |

### `MigrationRunner`

`phys` is the set of statements `<<version, index>>` whose effect is in the
schema, `ledger` the version table, `ckUp`/`ckDown` the checkpoints, `quarantined`
and `cached` the inventory row, `lock` the advisory lock, and `pc`/`ctx` where
each request is and what it has read. One action per step between two places:

* before the lock: `BeginApply`, `BeginRollback`, `BeginStamp`, `BeginReconcile`
  (handler and its checkpoint guards), `Guard` (environment and confirmation),
  `WriteRevisionFiles` (where the resume offsets are fixed);
* under it: `AcquireLock`, `NextVersion`, `ExecStatement`, `RecordStatement`,
  `Commit`, `ClearProgress`, `StampLedger`, `UndoFinished`, `ReleaseLock`;
* after it: `SettleApply` (and the automatic reconciliation), `SettleUndo`,
  `ReadVersion`, `SetModelVersion`, `SetQuarantine`, `ForgetProgress`;
* what goes wrong: `Refuse` (409), `Fail` (an error the runner turns into a
  result), `LoseAck` (the effect without its acknowledgement), `Crash`.

`unheard` remembers the statements whose outcome nobody heard, with the direction
they ran in, and `InFlight` is the one a request has sent and not recorded.
`BooksWithinLost` says that these are the only ones about which the version table
and the checkpoints may be wrong. It excludes the state after a *reverse* of a
reconciliation went unheard: then the checkpoint counts a statement that is gone,
the next apply resumes above it, and nothing the code keeps could tell.

A statement is DDL: running it where its effect is already there fails, and so
does its reverse where it is absent. With `Transactional` its effect waits for
`Commit`. The content of a statement is left out, and so are checksums: editing a
version while a database is in the middle of it belongs to the editing module.

### `ExportJobs`

`job` and `artifact` are the rows, `file` the spool (`part` and `final` name),
`catalog` the version of the source's catalogue (what fingerprints compare),
`queue`, `inflight`, `worker`, `request` and `purging` the process's memory, and
`proc` the step of its start-up. `FreezeSelection` is the second session of a
preview. `Claim` to `Leave` are `run_job`, with one action wherever a crash or
another actor may come between: `OpenSpool`, `WriteAll`, `Rename`, `InsertRow`,
`Report`, and their failures. Whatever ends a job writes its status to the same
database that may just have failed, so `End` has two outcomes: the status is written,
or the job stays `running` and is one of `unended`; so is a job whose claim was
committed and not answered, or whose context could not be loaded, or that a start-up
could not close. Only the next start-up's sweep empties `unended`. `ConsumeFile`/`ConsumeRow` and
`PurgeFiles`/`PurgeRows` are the two removers, `SweepInterrupted`,
`SweepOrphans` and `SweepFails` the start-up.

Left out: what is written, the byte quota, the manifest, the download counter. A
removal that fails (`_unlink_quietly`) is a hazard without a property yet.

### `CloneBatch`

`batch`, `row` and `job` are the rows of the three tables; `exists` the
databases of the target; `thread` the walk of a batch, `work` the pipeline of a
job, `cancelling` the jobs a `cancel_batch` has read and not marked yet. A row of
a batch and its job are named by the pair of batch and database. `Mode[d]` says
whether the target has to be created or must exist (then rows are appended).
`TakeServerGuard` to `FinishBatch` are `run_batch` and `_run_item`; `Claim` is
the conditional update of `run_job`, by the walk (`RunRow`) or by a request on
the job (`ExecuteClone`); `TakeLock` to `CloseJob` are the phases.

Abstractions, all of which only add behaviours or cut what no property sees:

* the first batch is made fresh and the others are retries (a bound on what is
  enumerated, not on the interleavings between them);
* the caller's scope is any non-empty subset of the rows;
* rows are walked in any order, and the cancel flag (read every two seconds) may
  be seen at any check or at none;
* the wait in the pool of `clone_runner` is part of `ExecuteClone`, and the
  loading of the context part of the wait for the lock (`LoadFails` is the
  failure there);
* the statements of the structure phase are one step that succeeds
  (`PrepareTarget`) or fails (`PhaseFails`).

### `CollationConversion`

`plan` is what the job froze and the schema it meets (engine, tables to leave out,
foreign keys, objects, privileges); `default`, `converted`, `keys`, `object` and
`grants` are the engine, `item` and `managed` the metadata, `w` the worker.
`Blocks` is the union-find of `_fk_groups`, a fold of the keys that touch a table to
convert. The tables still to convert (`todo`), those of the group left to convert (`steps`)
and those it has converted (`done`) are sets; the plan's order says which one is first or
last. From there one action per statement:
`Verify`, the lock, the default collation, then each table by itself or each group
(its keys stored and dropped, its tables altered, its keys added again, and, when
something fails, tables given back and the keys with them), then each object (copy,
drop, create, privileges), then `_finish`. A statement is `applied`, `refused` or
`lost`: applied, and taken for refused. `lost` remembers what a lost answer was
about, and is the only thing an item may be wrong about.

Left out: pacing and timeouts of statements, and the text of DDL.

### `CollationJobs`

`row` and `batch` are the rows, `inventory` the version of what
`collation_inventory` reads, `queue`, `worker` and `request` the process. `Plan[s][v]`
says which plan selection `s` has on inventory `v`: a change of the inventory need
not change the plan, which is why a fingerprint and a token are two things.
`Claim`, `Load`, `Guard`, `VerifyFingerprint`/`FailDrifted` and `Finish` are `run_job`;
`ClaimFails` is a claim the metadata database does not take, which leaves the job pending and
out of the queue; `EndsUnwritten` a context that cannot be read or an ending that cannot be
written, which leaves it running. `InQueue` is what an enqueued job waits in, `late` are the
jobs whose row a preview or an `execute` with `force` rewrote after an execution was
under way, `refused` those a batch did not enqueue or whose claim failed, `Stranded` the jobs
of a batch that nobody will run. It has no name in common
with `CollationConversion`, so that one module of proofs extends both.

### `PlanIntegrity` and `SchemaComparison`

`PlanIntegrity` has the operators of `plan_integrity.py`: `Expand` and `Prune` are its
two closures, written as recursive functions over sets of groups, `Closed` and `Sane`
its two checks. `SelectionExact` compares them with what they are for: the least
complete selection above, the greatest complete one below. It is evaluated once per
initial state, over every graph of needs of its groups and every subset of the
statements, the cyclic graphs included.

In `SchemaComparison` the source stands still: `difference` is what it has and the
target has not, `done` the statements of it in effect, `outside` what others changed;
both are the structure a fingerprint compares. `row` and `epoch` are the inventory
row and its ids (0 is the synthetic key), `comparison` the row with its items,
`request` what a handler has read. `BeginCompare` and `Compare` are
`create_comparison`; `BeginExecute`, `CheckDrift`, `AcquireLock`, `Run` (or `RunFails`,
or `RunLost`: in effect, and its answer lost), `ReleaseLock` and `Record` are
`execute_comparison`; `Register`, `Reassign`, `Unregister` are the inventory.

`overtaken` is set in a request when another one's statement takes effect between its
check of the structure and its lock, or while they hold different keys. `NoRepeat`
allows a repetition only then.

Left out: `schema_diff`, the export of the SQL, and expiry and quarantine, which only
refuse. Adopting a comparison creates a version and applies it: `BlueprintEditing`
and `MigrationRunner`.

### `BlueprintEditing`

A migration is an id; `version` is its number, `sealed` what its checksum covers,
`table[d]` the number in each version table of a database's engine (one per slug),
`cached` and `history` the inventory's books, `handler` what a request has read. A
session of the metadata is one action and so is each call to an engine. `PlanDelete`,
`Move` (one database each), `Renumber` and, on failure, `Undo` (one database each, in
the opposite order) and `Report` are `delete_migration`; `PlanRename`, the same `Move`
and `Undo`, and `Rename` are `rename_slug`. `Load`, `RunUp`/`RunDown` and `Record` are
an apply or rollback of one version: the chain, the numbers and the slug it uses are
those of `Load`. `BeginEdit` writes the audit of intent, `WriteEdit` the row.

The ghosts `schema` and `ran` are what each database really holds. `excused` and
`blurred` collect the databases about which the code cannot know or does not check:
a lost answer, a dead process, a request that overlapped the plan, a version created
below a pointer or below what an apply under way has loaded (`Under`). Everything a test would call a failure (an engine that refuses in
the middle, a compensation that refuses) is not excused, only `named` in the 409.

Left out: reviews and captures, checkpoints under a delete (`MigrationRunner` has
them), mirrors, the manifest, the rename of the legacy prefix.

### `DataAccess`

`row` is the credential with its opt-in, `account` the password of the engine's
account (0 is none), `lock` the process's set of databases being provisioned. Each
handler is a chain of sessions: `BeginProvision` to `Engine`, `BeginVerify` to
`Record`, `BeginClear` to `Erase` (and `Delete`), `BeginAsk` to `Ask`, `BeginApprove` to
`Approve`, `BeginRevoke` and `Revoke`. A session that reads the opt-in and then writes it
is two steps: `ReadAsk`, `ReadApprove`, `ReadCut` and `BeginRevoke` keep what was read
(`seen`), and `Ask`, `Approve`, `Cut` and `Revoke` flush only the columns that differ
from it (`Flushed`), as the ORM does, so that another request may commit in between. What
happens then depends on the gateway's database, which the constant `SnapshotIsolation`
says: with `innodb_snapshot_isolation` the flush of a row that changed since it was read
is refused (error 1020, `Conflict`), without it the columns of the two requests mix. The
runs have it on, for the repository says so of its deployment
(`app/core/session_store.py:29-34`: "La BD de metadatos corre MariaDB 11.8 con
``innodb_snapshot_isolation=ON``"); `app/core/database.py` supports others, and section 7
shows what happens there. `Abort` is any failure under the lock. Two processes are modelled because
the deployment allows several workers although the lock excludes only one's
requests; `overlapped` says when that happened, `raced` that the database was
deleted under a provisioning. An agent's read is `Open`, `AgentGate` (the opt-in),
`DataTarget` (reads the credential) and `Select` (connects with it), or `Denied`;
`GreenIsProbed` also covers the password it connects with.

### `AccessChanges`

`account` has the duties that need a second approver (owner, access_admin,
security_officer), `exceptions` the live overrides, `rows` the requests, `open` the
bootstrap window. A request reads and decides in `Begin...` and then takes one action
per session: `WriteAccess`, `WriteUpdate`, `CreateRow`, `GrantGlobals`,
`WriteApproved`, `Settle` (override or reconciliation), `Withdraw`, `Supersede`,
`Insert`. `agreed` remembers who stood behind a duty, `founding` what the start or the
window gave, `unguarded` the writes that skip the lock, `excused` the accounts whose
state changed between the decision and the write.

Left out: sessions and their revocation, what raises nobody (viewer, operator), the
scopes (folded into `owner`), and `ACCESS_FOUR_EYES` off.

### `CredentialKeys`

Keys are numbered; a process caches the active one and `HistorySize` before it
until it rotates by itself. `Rotated` are the rows that the rotation reads: servers
and server users, not the data credentials of the managed databases.

## 4. Runs and bounds

Bounds are constants named `Max...` and appear in the guards of the action they
bound: `MaxLost` lost acknowledgements, `MaxCrash` restarts, `MaxAlter` changes
of a source or an inventory, `MaxDrift` targets created or dropped by others,
`MaxQueue` entries of the pool's queue, `MaxRequests` calls, `MaxFaults` failed, lost
or died-upon calls, `MaxMigs` migrations ever and `MaxVersion` numbers, `MaxRows`
elevations, `MaxPasswords` passwords, `MaxKeys` rotations, `MaxEpoch` entries and exits
of the inventory, `MaxOutside` changes of a target by others. Nothing else is bounded but
the sets of actors.

| run | instance | checks | distinct states |
| --- | --- | --- | --- |
| `runner_mysql_one_request` | AUTOCOMMIT, one request, all operations and modes; a version of three statements, one irreversible, and one of two; one lost acknowledgement | `BooksWithinLost`, `ResumeSound`, `PartialAtTheEdge`, `LockReleased` | 1 330 314 |
| `runner_postgres` | one transaction per version, two requests of apply, rollback and stamp, two versions, the last destructive and banned | `LedgerIsTruth`, `HolderRuns`, `NoDestructiveUnderBlock`, `ImplementsChain` | 372 426 (symmetry) |
| `export_lifecycle` | one plan, two requests, two workers, one changed catalogue, one restart | `OneGeneration`, `CanceledLeavesNothing`, `AvailableHasFile`, `NoResidue`, `Settles` | 656 521 |
| `clone_walk` | one batch of a database to create and an existing one, one restart | `DoneMeansCopied`, `NothingRunsWhenOver`, `BatchSettles` | 439 043 |
| `clone_retry` | two batches and one existing database, one restart, one drift | `SerialRows`, `RetrySound` | 4 562 726 (symmetry) |
| `collation_conversion` | three tables, every set of three keys (one from a table to itself) on MariaDB, a MySQL and a PostgreSQL schema; one lost answer, a crash or a failed write anywhere | `GroupsAreComponents`, `GroupWhole`, `ItemsTrue`, `CopyBeforeDrop`, `InventoryTruthful` | 168 208 |
| `collation_batch` | two jobs of two databases, one worker, two requests, one changed inventory, one restart | `EnqueuedWaits`, `ConvertsConfirmed`, `BatchSettles` | 1 074 159 |
| `blueprint_edits` | two databases, two versions and up to two new ones, numbers up to four, two requests of any kind, one fault | `PointersTrue`, `EditsTraced` | 494 592 (symmetry) |
| `comparison_execution` | six differences of three statements, one comparison, two requests, two changes of the inventory, one of the target | `SelectionExact`, `BaseBeforeDependent`, `NoRepeat`, `ResultsTrue` | 1 410 246 (symmetry) |
| `data_access` | two requests, two processes, two owners, two passwords; changes of the access and reads by agents; snapshot isolation | `OpenedByTwo`, `GreenIsProbed`, `NoOrphanAccount` | 4 108 880 (symmetry) |
| `access_changes` | three accounts, two requests, two elevations | `ElevatedByTwo`, `AdminRemains`, `OfficerStandsAlone` | 374 232 (symmetry) |

One further run, `keys_data_credential`, shows a disagreement; it and the
configurations kept for others are in section 7.

Why the bounds are enough: a version of three statements has a first, a middle
and a last one, and the irreversible one in the middle makes a reconciliation
stop half-way; two requests are what every race here needs (each involves one
reader and one writer), and the third actor of the exports, the purge, is always
there; one restart at *every* step covers every state a process can die in, and a
second one meets the same start-up again. One request at a time is deliberate in
the first run: with two requests of every kind, `ResumeSound` fails for the reason
section 7 gives, and the books with it, and this run shows that concurrency is the
only reason. That a rollback reverts only what was confirmed is no property of it: one
request by itself cannot break it, and section 7 shows what two do.
`ResumeSound` is `ResumeNeverSkips` as long as no reverse of a reconciliation went
unheard.

On PostgreSQL the two requests meet with one free version and one banned one; that
the invariants hold for any number of versions and requests, and the refinement
with them, is proved (section 6). `MCMigrationRunner_apply.cfg` is kept beside the
runs for two concurrent applies or stamps on MySQL: `BooksWithinLost`, `HolderRuns` and
`NoDestructiveUnderBlock` hold in its 496 198 states. That the books hold there shows
that it takes a reconciliation or a rollback, not just a second apply or a stamp, to
break them; with `"rollback"` among its `Ops` they do not hold.

The type invariants of the modules that have a proof module are proved, and are no part
of the runs. A comparison of three statements has a chain, a statement with two bases,
a change of two statements, and the three plans `Sane` refuses; two
comparisons with two requests are too many states, and `MCSchemaComparison_again.cfg`,
kept beside the runs, has two comparisons with one request: the three invariants hold
in its 3 675 463 states.

That the groups are the components of the keys, and that they are left whole or
confessed, is proved for every schema (section 6); the run shows it for every set of three
keys. The three-key schemas have every shape three tables can have (a chain, a star, a cycle
through a self-reference), with each table left out of the plan or not. Two versions and two
new ones, in four numbers, are a chain of up to four with databases behind, at and ahead of the
deleted number, or one with gaps that are filled later; two databases are what a
half-done phase needs. (With three versions and one new one, as before, a gap below a
loaded chain could not be filled, and what section 6 tells of it was not seen.)
`MCBlueprintEditing_three.cfg` is the larger instance with three requests, two
versions and one new one: both properties hold in its 4 685 857 states, in about
five minutes, so it is no run. Two requests are a reader and a writer of the same
account; `AlwaysAnAdmin` needs three, and has its own configuration (section 7).

Deadlock is checked in the runner's runs: a request can always begin. It is
switched off elsewhere, where every job or request may be over and every bound
used up; what should go on is said by `Settles` and `BatchSettles`.

Every property has a mutant in `PROJECT.json`: a change to one definition, the
way a bug would change the code, that the run finds. Mutated definitions stand
next to the original, under a comment that begins with "Mutant:".

Named windows. Some properties hold except where the code leaves a gap, and the
gap is spelled out in the formula instead of being modelled away. `unswept`
collects the exports whose files a failure left behind (a sweep that swallowed an error,
a row that could not be inserted after its file was renamed) and the clones that failed
outside their pipeline; `unended` the exports, and `refused` and the second half of
`Stranded` the conversions, about which the metadata database failed just when their
status was due; `unrecorded` the clone jobs whose copied
rows were never recorded; `purging` and the stage `consumed` the moment between a
file's removal and its row's. `late`, `Stranded`, `excused`, `blurred`,
`overlapped`, `overtaken`, `raced` and `unguarded` of the newer modules are explained with them in
section 3. The runs that violate a stated promise show what
those gaps mean for it.

## 5. Fairness

Only threads of the process are fair, and only weakly: once started they are
scheduled by the interpreter.

* `MigrationRunner`: `WF(Step(r))`, since a request that has begun is executed to
  its end; not for beginning one, nor for crashes. The wait for the lock ends too
  (the lock is granted or its timeout answers 409: `Refuse`).
* `ExportJobs`: `WF` of every worker and of start-up and purge together (start-up
  is sequential code; the purge is a periodic task of the event loop). None for
  requests.
* `CloneBatch`: `WF` of the start-up, of every walk and of every pipeline, each a
  thread of its own. None for requests, crashes or the world outside.

* `CollationConversion`: `WF` of the worker. `CollationJobs`: `WF` of every worker and
  of every request that has begun (a batch execution enqueues in the request).
  A claim, a context or an ending may fail, but nothing obliges it to.
* the others state no liveness, and no fairness.

Weak fairness of a walk is enough although it waits for the server's guard: each
batch enters it once, so it is free for good after finitely many others.

## 6. Proofs

`tlapm` proves every obligation from nothing; the only assumptions are the named
ones on the constants (`SizeAssumption`, `ManifestAssumption`, `ModeAssumption`,
`RequestsAssumption`, `ExportAssumption`, `CloneAssumption`, `ProcessesAssumption`,
`PeopleAssumption`, `PasswordsAssumption`, `IsolationAssumption`, `UsersAssumption`, `StartsAssumption`,
`DifferencesAssumption`, `NamesAssumption`, `BoundsAssumption`, `ConversionAssumption`,
`JobsAssumption`, `BlueprintAssumption`), which TLC evaluates in
every run, the hypothesis `Alone` of three theorems about the runner and the hypothesis
`SnapshotIsolation` of `SecondOwner`, explained there.
Each proof module begins with its inductive invariant, in named parts; TLC checked the
parts on an instance before they were proved, and a proof has one lemma per part (or
per action, where the actions write much) on top of lemmas that say what a step does to
one record.

**`MigrationRunnerProofs`**, for every blueprint and set of requests.
`TypeCorrect` needs `Placed`: a request that executes statements has a version and
a direction, without which `Frontier` has no type. `MutualExclusion` (`HolderRuns`)
is inductive by itself: a request leaves the critical section, by releasing or by
crashing, in the same step in which it gives the lock back.
`LedgerTruthful` and `RunnerIsChain` (the refinement of
`VersionChain`) are for transactional DDL and share `ChainInv`:

* `NoProgress`: no checkpoint and no resume offset ever exists there, so every
  version starts at its first statement;
* `WholeVersions`: each version is completely in the schema or has no reversible
  statement there;
* `Executing`: what a request executes is next to the recorded version, and once
  it got past the first statement that statement's presence agrees with the
  direction. This is the part that makes the rest inductive: it is what forbids
  committing a version that is already there;
* `Truth`: the complete versions are those up to the recorded one, until a stamp
  declares otherwise.

`CommitUp` and `CommitDown` carry the set argument; `HolderRuns` is used to know
that no other request executes meanwhile.

`DestructiveBlocked` (`NoDestructiveUnderBlock`) holds for any number of requests.
`Roles` ties operation, direction and place of a request; `Vetted` says that between
the guard and the end no destructive version lies above the version the guard saw and
below the goal.

The other properties of the AUTOCOMMIT runner are proved under `Alone`: at most one
request at a time. The hypothesis is necessary, since they fail with two
requests that overlap between the guard and the lock (`MCMigrationRunner_skip.cfg` in
section 7), and it is not much of a restriction of what happens one
after the other: any number of operations, crashes, failures and lost answers, with any
blueprint. What is proved is that the checkpoints work as long as nobody interferes.

* `PartialIsAtTheEdge`: `Track` follows one request: the version it executes is beside
  the recorded one (`Beside`), only one direction has incomplete checkpoints and it is
  the request's own (`OneSided`), the resume offsets in its files are those of the
  checkpoints (`OffsetsFit`), its position is its checkpoint's (`AtCheckpoint`).
  With transactions it follows from `NoProgress`.
* `ResumesSoundly`: `Known(r)` is the schema as the request knows it, without the effect
  it has not recorded. `NoGap`: below a checkpoint, and below the position of a request
  going up, everything is known to be there. `RecordStatement` is the only step that
  moves either (`GapRecord`): one position, one statement.
* `BooksHonest`: `Told` says of each version what the books must mean. Above the
  recorded version nothing reversible is there beyond the checkpoint, except what went
  unheard; at or below it the part of the down list before the checkpoint is gone, the
  rest is there, with the same exception. A checkpoint that is *full* means only that
  the version is all there or all gone; such a version starts over, and `GoesUp` and
  `GoesDown` say that its first statement then fails, which is why the books are not
  read for it (`Legible`) and why nothing false is recorded. Ranks in down lists are
  cardinalities, and the lemmas `RankBound`, `RankFalls` and `LastRank` are the
  arithmetic of "the first k of the list".

The first version of `BooksWithinLost` counted: the books differ from the schema by no
more statements than answers were lost. It held in the run and resisted its proof, and
rightly: with three reversible statements, one lost answer to a *reverse* makes the
next apply skip that statement; if it dies after its last statement and before the
version table, the checkpoint is full, the version starts over, fails at once, and a
rollback then finds several statements out of place for one lost answer. The property
now names the statements instead of counting them, and excludes that case by name.

**`ExportJobsProofs`**, for any number of plans, requests and workers.
`ExportedOnce` and `CancelLeavesNothing` follow from `Core`: the claim is exclusive
(`OneWorker`, `ClaimedRuns`), a claimed job was not written before its spool is
opened (`SpoolUnopened`), an unclaimed one never (`UnclaimedNotRun`); rows and
files exist only after a claim (`NothingUnclaimed`), no row while the worker still
may be cancelled (`NoRowWhileWriting`), and consumers and purges only act where a
row was found (`RowFound`), which is what keeps them from creating a row for a
cancelled job. `QuietStart` closes the restart: while the sweeps run there are no
threads. `OfferedHasFile` and `NothingLeftBehind` add `Files`: before its row is
inserted a job has none (`NoRowBefore`, `PartHasNoRow`), a worker about to insert the row
has the final file (`FinalAtRow`), consumers and the purge remove the file before they
touch the row (`DeletedFirst`), and while the process serves, a file is being written, is
offered, or is in `unswept` (`Accounted`).

**`CloneBatchProofs`**, for every set of batches and databases. `RowsAreSerial`
comes from `OneGuarded` and `BatchWorks` (the batch's thread only works on the row
it waits for, inside the guard). `OverIsStill` comes from `WalkRuns` (a walk belongs
to a running batch) and `Accounted`: a running job is being worked on, or waits
for the sweep of this start-up, or is in `unswept`. `DoneIsCopied` needs
`Loaded` (a copy past its rows put them there), `WorkClaimed`, and `NoJobYet` with
`TurnTaken` (no job before its row's turn), which keeps a finished job's status
from being overwritten by a second plan of the same row. Here there is one lemma
per action for the types (`...Types`) and one for `Core` (`...Core`), on top of
lemmas that say what each elementary update does to its record (`...Effect`).
`RetriesAreSound` proves the action property `RetrySound` from `Recorded`: rows a job
put into a target are recorded, or about to be, or in `unrecorded` (the crash or the
failed write between the copy and its record). With `Originless` (a batch not yet
planned has no origin) only `RetryFailed` can make a row with an origin pending
(`PlannedByRetry`), and its `Retryable` reads exactly that record. `WritersAlone` is
`OneWriter`: what the advisory lock is for, across batches and single executions.

**`DataAccessProofs`**, for any number of requests, processes, owners and passwords.
The lock of a process and the ghost `overlapped` leave at most one request in the locked
part of provision, verify and clear (`Exclusive`), so what its holder read stays true
until it writes (`Held`): a verification has the stored password and what the probe saw
of it, a clear has dropped the account before it erases the row, a provisioning writes
its row, unverified, before it sets the password. `Fresh` gives `ProbedSecret` its other
half: a password drawn anew is not in any agent's hands. `SecondOwner` is independent of
the lock, and rests on `SnapshotIsolation`: what a session read of the opt-in is what the
row still says when its flush is accepted (`FlushDoes` says that then the columns
written and those left alone make the row that was meant). `Asking` says that whoever
stands in the row has asked since the last revocation, and that an approval in progress is
another person's than the one it read. Without the hypothesis the theorem is false
(section 7); the other two need nothing of the kind.

**`AccessChangesProofs`**, for every set of accounts and requests. `TwoPeopleAgreed`
holds although handlers decide on what they read and write later, because nobody
un-agrees: a duty that was backed when it was read (`Grounded`) is backed when it is
written (`StaysBacked`), so two requests that overlap can only put back a duty somebody
had agreed to. `Deciding` records what each request decided. `LastAdminGuarded` follows
from the count under the lock, and says nothing once a write skipped it. That two duties
do not conflict is no such stable fact: `DutiesApart` needs `Covered`, where only
requests that will record the exception cover a conflict, not those that wait for their
approval.

**`SchemaComparisonProofs`** begins with `PlanIntegrity`, for every finite set of groups and
every relation of needs.
`Expand` and `Prune` are recursive functions over sets of groups, and the library's
induction rules cannot be instantiated here; but strict inclusion of finite sets is well
founded, and a well-founded order has minimal elements (`SmallestSet`, from `WFMin`). So
a set of arguments with a wrong result has a smallest one, which the defining equation
refutes; that a function with that equation exists at all (`ShrinkExists`, `GrowExists`)
is shown with the closure itself as the witness. `ExpandLeast` and `PruneGreatest` say
that the results are the least closed set above, and the greatest closed set below;
`ExpandIsLeastClosed` and `PruneIsGreatestClosed` say it of statements instead of groups.

The executions of `SchemaComparison` use both. What an execution sends is a closed and sane part
of its comparison, in order (`Planned`, with `InOrderSorts`: the places of a sequence
sorted by rank); what the comparison did not find was in effect, and what is in effect
stays (`Snapshots`). So `BasesFirst` holds however executions overlap. Requests that read
the same state of the inventory use one key and two of them never run at once (`Keys`):
whoever was not overtaken finds exactly what it left (`Untouched`), hence `NothingTwice`.
`SelectionsExact` is those two facts applied to every comparison's plan.

**`CollationConversionProofs`**, for every set of plans, any finite order of tables and
any number of lost answers. `GroupsJoin` is about a fold, whose result needs induction
over the set of keys; as for `PlanIntegrity`, strict inclusion of finite sets is well
founded, so a set of keys whose fold is wrong has a smallest one. What the fold gives is
stated first without it: `Joined(s, t)` is the least set around `t` that no key of `s`
leads out of, and `OneKeyMore` says that uniting the parts of a key's ends gives the
parts of one key more, in whatever order the keys come. From that follows `Partition`: a
table is of one group, and so is a key.

The rest has one invariant in seven parts, each of a state between "before its turn" and
"after it": `Recreated` (an object is as it was, then its place in drop, create and grant
says what the engine holds, then its item does), `Once` (a table leaves the list in the
step that converts it), `Stored` (within a group, the keys out of the engine are exactly
those in `w.dropped`; outside, exactly those whose item is `missing`), `Grouped` (a group
not begun is untouched; `Turn` says for each place of the worker which of its tables are
converted; a group that is over is `Whole` or confessed), `Database` and `Living`. It is
`Stored` and `Turn` together that make the compensation right: when it has taken back the
tables it could and put back the keys it could, whatever is left is a table its item calls
`stuck` or a key the report will call `missing`. `Living` is the window: after an escaped
error or a crash nothing is claimed of the group under way, only that the copies are there
(`CopiesFirst`). Each action has a lemma that says what it does to each field
(`GroupDropDoes`, `RevertDoes`, ...), and each part a lemma with one step per action.

The end of the same module is about `CollationJobs`, for any jobs, databases, plans,
requests, workers and restarts. `JobsTypeCorrect` is its type invariant.
`ConvertsOnlyConfirmed` follows a plan from the request that read the row to the
worker that converts: `Faithful` says, of every job that is not `late`, that what a request
read is what the row says (`Reads`), and that the row of a queued or claimed job, or the copy
a worker has made of it, is a plan somebody confirmed (`Carries`). It is inductive because
whoever rewrites a row with an execution under way makes the job late, and because nothing
holds a job before its row exists (`Existing`), when `create_plan` writes it without looking.
The worker compares the inventory with the copy it carries; hence the property.
`EnqueuedIsKept` (`EnqueuedWaits`) goes through every handler that writes a row or the queue:
nothing makes a job pending again, whoever is confirmed was put into the queue in the same
step (`Enqueued`), and what leaves the queue is started, closed, or excused (`RestWaits` for
those behind it).

**`BlueprintEditingProofs`**, for every set of databases and requests, any number of
versions at the start, migrations, numbers and faults. A database is followed by the
turns in which it got its migrations (`schema`), and `Fits(listed, turns, p)` says that, of
the versions listed, it has exactly those up to `p`, in order of their numbers. The
invariant is about the databases nothing excuses and no request left moved (`Sure`):

* `Places`: where no request holds it moved, the database fits its pointer and the
  inventory says so too (`Resting`); where one does, it fits what the request read when it
  began, and the pointer is one below (`Stamped`), or the number under the new name
  (`Renamed`). So `Undo` gives back the truth, and `Renumber` makes truth of what was
  moved, all at once: `PlaceRenumbered` with `FitsRenumbered`, which says that a set of
  versions stays a prefix when one number leaves and those above it move down;
* `Plans`: what a delete or rename read still fits while it runs, so what it has not moved
  stands where its plan says and what it does not move has nothing to move;
* `Loads`: the chain an apply holds differs from the blueprint only by versions above all of
  it (`ChainFits`), so one more version, or one less, keeps `Fits` (`FitsUp`, `FitsDown`);
* `Fresh`: no two versions have one number, and an id never used is nowhere; `Alone`: whoever
  overlaps a delete or rename is excused; these make the others inductive;
* `Booked` and `Edits`: what ran is in the history or about to be, and an edit has traced
  whoever `Blocking` shows it before it writes. `Fits` is needed here too: what a database
  ran is at or below its pointer, which is why comparing with the pointer finds it.

The proof changed the model. `PointersTrue` had excused a version created below a pointer
as it is read; two steps could not be proved, and TLC found both with larger bounds: a
version created in a gap below the chain an apply has loaded and is about to climb, and one
created while a rename has moved the table, when the pointer under the old name is 0. Both
are the same gap of `create_migration`, which looks at no pointer, and `Under` now says so.

Only model-checked: the liveness properties (`LockReleased`, `Settles`,
`BatchSettles`), which need fairness and `ENABLED`, out of this prover's reach. Every
other property of a passing run is a theorem.

## 7. Where the code and its documentation disagree

One disagreement is a run of its own, quoted in `PROJECT.json`, "findings":

| run | property | what happens |
| --- | --- | --- |
| `keys_data_credential` | `EveryCredentialReadable` | a rotation re-encrypts the credentials of servers and server users only; after more rotations than the history keeps, the data credential of a managed database can no longer be decrypted |

The others are kept as configurations to run by hand, one property each; TLC finds
each violated, mostly within seconds. The text beside the property is what the
repository says.

| configuration | property | what happens |
| --- | --- | --- |
| `MCMigrationRunner_skip.cfg` | `ResumeNeverSkips` | an apply fixes its resume offset, a reconciliation undoes those statements under the lock, the apply then skips them and records the version |
| `MCMigrationRunner_rob2.cfg` | `NoRollbackOverPartial` | all statements of a version ran, the write of the version table failed; its checkpoint is at its total, which the guard does not count as partial, and a rollback of the version below runs |
| `MCMigrationRunner_confirm.cfg` | `RevertsOnlyConfirmed` | a version is applied between the comparison with `confirm_version` and the lock, and the rollback reverts it too |
| `MCExportJobs_unconfirmed.cfg` | `ExportsConfirmed` | a preview that began before an execute was enqueued freezes another selection, and the worker exports it |
| `MCExportJobs_twice.cfg` | `DeliveredOnce` | two downloads that overlap both receive a single-use artifact |
| `MCExportJobs_ended.cfg` | `EveryFailureIsAStatus` | the failure of a job is answered by writing its status to the database that failed: when that fails too, the exception leaves `run_job`, although `export_controller.py:1867` says "Nunca lanza: todo fallo termina como estado del job"; the job is running, and counts against the limit of running exports, until the next start-up |
| `MCCloneBatch_dirty.cfg` | `RetryIntact` | rows were copied and their record was not written: the retry takes the target for intact and appends them again |
| `MCCollationConversion_quarantine.cfg` | `CompensationQuarantined` | a group's compensation failed, then the job is cancelled: it ends canceled without `_finish` (line 1868), although line 2069 says "el job queda ``failed`` y ``_finish`` pone la BD en cuarentena" |
| `MCAccessChanges_last.cfg` | `AlwaysAnAdmin` | a PATCH deactivates an account it read as inactive, so it takes no lock (`gateway_user_controller.py:439-449`); it was activated and made the last administrator meanwhile (`user_model.py:236`: "siempre debe existir al menos uno"). Needs three requests; about a minute |
| `MCDataAccess_mixed.cfg` | `OpenedByTwo` | on a metadata database without snapshot isolation: a revocation or a new request commits between an approval's comparison and its flush, and the access ends open without a second owner, although `managed_database_controller.py:489` says the comparison catches "El pedido cambió entre la lectura y la escritura (revocado o re-pedido)" |
| `MCBlueprintEditing_overlap.cfg` | `SealsHold` | an edit that read a version's number before a delete renumbered it seals its checksum with the old number; from then on every apply of the blueprint answers 409 |

With the constants of the last one, the other properties at the end of
`BlueprintEditing` fail as well (put their name in the place of `SealsHold`;
`DeletesPlanned` is a PROPERTY):

* `ChainNotPending`: the last commit of `rename_slug` is outside any handler; when it
  fails every table has the new name and the slug the old one, which is what its
  docstring says the order is for ("la cadena entera pasa a figurar pendiente").
  Nothing compensates.
* `RunsOnce`: an apply while a delete moves pointers reads the number of the migration
  before, and runs the same migration again.
* `FilterSound`: a process that dies between the engine and the inventory leaves a
  database that is in a version and that the filter of a delete's plan skips.
* `DeletesPlanned`: a delete finds its row by the number of its plan; after another
  delete and a new version, that number is of another migration.

What the first three and `SealsHold` to `DeletesPlanned` have in common: what a handler
decides in one session, or before a lock, is not decided again in the next. The same
cause is behind weaker observations, which the ghosts of section 3 delimit:

* runner: a destructive version that a stamp takes back between the environment's guard
  and the lock is applied again in spite of the ban; `NoDestructiveUnderBlock` counts the
  versions recorded when the guard looked;
* comparisons: the structure is compared before the lock
  (`schema_comparison_controller.py:1769`), so an execution that waited for another one
  runs its statements on what that one made, and stops at the first that fails; a
  registration in between makes the two lock different keys; adopting a comparison
  twice without applying it writes the same DDL into two versions (line 1323);
* conversions: `execute` with `force` adopts the drifted fingerprint before the token is
  compared (`collation_conversion_controller.py:1339`); `FinishBatch` overwrites a status
  it has not re-read (3051); a batch with a job whose preview failed settles only at
  the next start-up, and so does one with a job whose claim or ending could not be
  written; a job of no batch that was cancelled in the queue when the process stopped
  stays pending for good, for the sweep only closes those of a running batch;
* data access: with snapshot isolation a revocation that overlaps another write of the
  opt-in is refused with error 1020, although its docstring promises it to be immediate;
  an opening made where one owner was enough stays open when the database
  is moved to production; a failed clear leaves the pending request standing, and
  another owner can approve it (`managed_database_controller.py:972`); a delete that
  races a provisioning leaves an account without a row;
* duties: an approval writes the whole access read when it was checked, so a removal in
  between is undone; two creations for the same person leave two pending requests; an
  override applied after a removal leaves an exception nothing needs;
* blueprint: two deletes that overlap and a compensation leave a pointer no version has;
  a version created with an explicit number below a pointer makes the next rollback
  name a migration that never ran;
* keys: other processes use their cached keys until they restart; a write that overlaps
  a rotation is lost.

The runs use as little as shows the disagreement: two requests (one for the rollback),
no lost acknowledgement, and for the clones one existing database.

## 8. What is not modelled

* **Text**: SQL generation and parsing (`mysql_adapter`, `postgres_adapter`,
  `sql_dialect`, `export_writer`, `query_policy`, `agent_sql_policy`), diffs of
  catalogues (`schema_diff`), formatting. Pure functions over large data; the
  models take them as "this statement has this effect or fails".
* **Stateless or one-row parts**: the lookups of target resolution, servers, environments,
  projects, the MCP dispatch, the HTTP surface, audit and rate limits.
* **Parts of the modelled components**: for the runner `apply_all`, the capture and
  review gates, the rename of the legacy version table, history and mirror; for
  exports the packager, the quota, failing removals; for clones the preview of a job
  executed by itself, quarantine and adoption; for comparisons the export of their SQL;
  for agents' reads the scopes and the classification of their SQL; for conversions
  pacing and
  the preview's text; for the editor reviews, captures and the manifest.
  `PROJECT.json` marks these
  components "partly".
* **Several processes**: only `DataAccess` and `CredentialKeys` have them; the job
  systems assume one, as their code does. The first data key is there from the start
  (`bootstrap_dek` at the first start-up of one process).
* **Time**: timeouts and expiries are steps that may happen, not durations.

## 9. Plan

Done: the job systems (runner, exports, clones, conversions), comparisons, blueprint
editing, data access, duties and keys; proofs for all but the keys.

1. `DatabaseLocks`: the clone, the collation conversion and the runner as lock users
   beside the comparison, whose module has the two kinds of key; quarantine with it.
2. An abstract specification shared by exports, clones and conversions, a *job
   lifecycle* (planned, claimed once, one terminal state) that all of them implement.
3. `apply_all`; failing removals of spool files.
4. Sessions, step-up and tokens.

Proofs, in this order: what two concurrent requests of the runner do
keep without reconciliations and rollbacks (`ResumeNeverSkips`, for any number of them);
the job lifecycle as refinements.
