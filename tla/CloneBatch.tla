----------------------------- MODULE CloneBatch -----------------------------
(***************************************************************************)
(* Batches of database clones towards one server:                          *)
(* clone_batch_controller.py (plan, execute, cancel, the serial walk,      *)
(* retry), the clone jobs it creates (clone_controller.py: plan, preview,  *)
(* execute, cancel, run_job and its phases), their two in-process runners  *)
(* and the start-up sweeps of main.py.                                     *)
(*                                                                         *)
(* A row of a batch is a target database; its job exists once the walk     *)
(* reaches it, and from then on the state of the row is the state of the   *)
(* job.  The job can also be executed and cancelled by itself.  Batches    *)
(* after the first are retries of earlier ones.  The target server keeps   *)
(* what was written whatever happens to the process.                       *)
(***************************************************************************)
EXTENDS Integers, FiniteSets

CONSTANTS
  Batches, Dbs,
  Mode,         \* Mode[d]: target_mode, "new" or "existing" (then data_only, append)
  None,         \* no database, no batch
  MaxDrift,     \* bound: target databases created or dropped by others
  MaxCrash      \* bound: restarts of the process

ASSUME CloneAssumption ==
  /\ Mode \in [Dbs -> {"new", "existing"}] /\ None \notin Dbs \cup Batches
  /\ MaxDrift \in Nat /\ MaxCrash \in Nat

VARIABLES
  batch,       \* clone_batches: status, cancel_requested
  row,         \* clone_batch_items: outcome, and whether clone_job_id is set
  job,         \* clone_jobs: status, cancel_requested, rows_copied recorded
  exists,      \* target: the databases that exist
  thread,      \* memory: the batch's walk: where it is, rows left, current row
  work,        \* memory: the pipeline of a job: where it is and who runs it
  cancelling,  \* memory: jobs a cancel_batch has read and not marked yet
  proc, drift, crashes,
  loader,      \* ghost: the batches whose job wrote rows into a target
  origin,      \* ghost: the batch a retry was made from
  unrecorded,  \* ghost: jobs that wrote rows and ended without recording it
  unswept      \* ghost: jobs and batches whose status a failure left unwritten

walk == <<thread, cancelling>>
process == <<proc, crashes>>
outside == <<exists, drift>>
ghosts == <<loader, origin, unrecorded, unswept>>
vars == <<batch, row, job, exists, thread, work, cancelling, proc, drift,
          crashes, loader, origin, unrecorded, unswept>>

Jobs == Batches \X Dbs
Live == {"pending", "running"}
Over == {"done", "partial", "canceled", "interrupted"}
Idle == [at |-> "off", todo |-> {}, db |-> None]
NoWork == [at |-> "off", by |-> "nobody"]
NoJob == [status |-> "absent", cancel |-> FALSE, items |-> FALSE]
NoRow == [outcome |-> "absent", linked |-> FALSE]
Locked == {"prepare", "copy", "record", "close"}  \* under the advisory lock
Guarded == {"next", "plan", "link", "preview"}  \* inside server_guard

Init ==
  /\ batch = [b \in Batches |-> [status |-> "absent", cancel |-> FALSE]]
  /\ row = [x \in Jobs |-> NoRow] /\ job = [x \in Jobs |-> NoJob]
  /\ exists = {d \in Dbs : Mode[d] = "existing"}
  /\ thread = [b \in Batches |-> Idle] /\ cancelling = [b \in Batches |-> {}]
  /\ work = [x \in Jobs |-> NoWork]
  /\ proc = "up" /\ drift = 0 /\ crashes = 0
  /\ loader = [d \in Dbs |-> {}] /\ origin = [b \in Batches |-> None]
  /\ unrecorded = {} /\ unswept = {}

(* _row_status_expr: the job's status once the row has a job.              *)
Effective(x) == IF row[x].linked THEN job[x].status ELSE row[x].outcome
RowsOf(b) == {d \in Dbs : row[<<b, d>>].outcome # "absent"}
Pending(b) == {d \in Dbs : row[<<b, d>>].outcome = "pending"}

(* The target must not exist for "new", and must for "existing".           *)
Fits(d) == (Mode[d] = "new") <=> d \notin exists

SetJob(x, status) == job' = [job EXCEPT ![x].status = status]
SetRow(x, outcome) == row' = [row EXCEPT ![x].outcome = outcome]
Walk(b, at) == thread' = [thread EXCEPT ![b].at = at]
WorkAt(x, at) == work' = [work EXCEPT ![x].at = at]
Stop(x) == work' = [work EXCEPT ![x] = NoWork]

-----------------------------------------------------------------------------
(* Requests.                                                               *)

(* create_batch_plan: a row that does not fit is kept, blocked; a batch    *)
(* without an executable row is refused.                                   *)
Plan(b, D) ==
  /\ \E d \in D : Fits(d)
  /\ batch' = [batch EXCEPT ![b].status = "pending"]
  /\ row' = [x \in Jobs |->
       IF x[1] = b /\ x[2] \in D
       THEN [NoRow EXCEPT !.outcome = IF Fits(x[2]) THEN "pending" ELSE "blocked"]
       ELSE row[x]]
  /\ UNCHANGED <<job, outside, walk, work, process, loader, unrecorded, unswept>>

CreateBatch(b) ==
  /\ proc = "up" /\ \A c \in Batches : batch[c].status = "absent"
  /\ \E D \in SUBSET Dbs : Plan(b, D)
  /\ UNCHANGED origin

(* Mutant: retry_candidates does not ask whether rows were copied.         *)
RetryableUnseen(b) ==
  {d \in RowsOf(b) : LET x == <<b, d>> IN
     /\ Effective(x) # "succeeded"
     /\ row[x].linked => ~ (Mode[d] = "new" /\ d \in exists)}

(* retry_candidates: not succeeded, and no job, or a job without recorded  *)
(* rows whose target it did not create.  The batch's status is not asked.  *)
Retryable(b) ==
  {d \in RowsOf(b) : LET x == <<b, d>> IN
     /\ Effective(x) # "succeeded"
     /\ row[x].linked => ~job[x].items /\ ~ (Mode[d] = "new" /\ d \in exists)}

RetryFailed(b, c) ==
  /\ proc = "up" /\ batch[b].status # "absent" /\ batch[c].status = "absent"
  /\ Plan(c, Retryable(b))
  /\ origin' = [origin EXCEPT ![c] = b]

(* The conditional claim; allowed is what the scope of the caller leaves.  *)
ExecuteBatch(b) ==
  /\ proc = "up" /\ batch[b].status = "pending" /\ ~batch[b].cancel
  /\ batch' = [batch EXCEPT ![b].status = "running"]
  /\ \E allowed \in SUBSET Pending(b) \ {{}} :
       thread' = [thread EXCEPT ![b] = [at |-> "guard", todo |-> allowed, db |-> None]]
  /\ UNCHANGED <<row, job, outside, cancelling, work, process, ghosts>>

(* cancel_batch sets the flag and reads the jobs in progress, commits, and *)
(* then marks them one by one.                                             *)
CancelBatch(b) ==
  /\ proc = "up" /\ batch[b].status \in Live /\ ~batch[b].cancel
  /\ batch' = [batch EXCEPT ![b].cancel = TRUE]
  /\ cancelling' = [cancelling EXCEPT ![b] =
       {d \in Dbs : row[<<b, d>>].linked /\ job[<<b, d>>].status \in Live}]
  /\ UNCHANGED <<row, job, outside, thread, work, process, ghosts>>

RequestCancel(b, d) ==
  LET x == <<b, d>> IN
  /\ d \in cancelling[b]
  /\ cancelling' = [cancelling EXCEPT ![b] = @ \ {d}]
  /\ job' = [job EXCEPT ![x].cancel = @ \/ job[x].status \in Live]
  /\ UNCHANGED <<batch, row, outside, thread, work, process, ghosts>>

(* cancel on the job of a row, by itself.                                  *)
CancelClone(x) ==
  /\ proc = "up" /\ job[x].status \in Live /\ ~job[x].cancel
  /\ job' = [job EXCEPT ![x].cancel = TRUE]
  /\ UNCHANGED <<batch, row, outside, walk, work, process, ghosts>>

-----------------------------------------------------------------------------
(* The walk of a batch (run_batch, _run_item), in its own thread.          *)

(* Mutant: no guard per server.                                            *)
EnterUnguarded(b) ==
  /\ thread[b].at = "guard"
  /\ Walk(b, "next")
  /\ UNCHANGED <<batch, row, job, outside, cancelling, work, process, ghosts>>

TakeServerGuard(b) ==
  /\ thread[b].at = "guard"
  /\ \A c \in Batches : thread[c].at \notin Guarded
  /\ Walk(b, "next")
  /\ UNCHANGED <<batch, row, job, outside, cancelling, work, process, ghosts>>

(* run_job runs in this thread: the next row waits for it.                 *)
Ready(b) ==
  thread[b].at = "next" /\ (thread[b].db # None => work[<<b, thread[b].db>>].by # "batch")

NextRow(b) ==
  /\ Ready(b) /\ thread[b].todo # {} /\ ~batch[b].cancel
  /\ \E d \in thread[b].todo :
       thread' = [thread EXCEPT ![b] = [at |-> "plan", todo |-> @.todo \ {d}, db |-> d]]
  /\ UNCHANGED <<batch, row, job, outside, cancelling, work, process, ghosts>>

(* The flag is looked at before each row: the rest is closed.              *)
CloseRemaining(b) ==
  /\ Ready(b) /\ thread[b].todo # {} /\ batch[b].cancel
  /\ row' = [x \in Jobs |-> IF x[1] = b /\ row[x].outcome = "pending"
                            THEN [row[x] EXCEPT !.outcome = "canceled"] ELSE row[x]]
  /\ thread' = [thread EXCEPT ![b].todo = {}]
  /\ UNCHANGED <<batch, job, outside, cancelling, work, process, ghosts>>

(* create_plan against the server as it is now: a job ...                  *)
CreateJob(b) ==
  LET d == thread[b].db IN
  /\ thread[b].at = "plan" /\ Fits(d)
  /\ SetJob(<<b, d>>, "pending")
  /\ Walk(b, "link")
  /\ UNCHANGED <<batch, row, outside, cancelling, work, process, ghosts>>

LinkJob(b) ==
  /\ thread[b].at = "link"
  /\ row' = [row EXCEPT ![<<b, thread[b].db>>] = [outcome |-> "none", linked |-> TRUE]]
  /\ Walk(b, "preview")
  /\ UNCHANGED <<batch, job, outside, cancelling, work, process, ghosts>>

(* ... or a refusal; an unexpected error anywhere in the row also ends in  *)
(* _block_item, with or without a job.                                     *)
BlockItem(b) ==
  /\ thread[b].at \in {"plan", "link", "preview"}
  /\ SetRow(<<b, thread[b].db>>, "blocked")
  /\ Walk(b, "next")
  /\ UNCHANGED <<batch, job, outside, cancelling, work, process, ghosts>>

(* The preview refuses, or reports blocking issues: abort_pending_job.     *)
AbortPendingJob(b) ==
  LET x == <<b, thread[b].db>> IN
  /\ thread[b].at = "preview"
  /\ job' = [job EXCEPT ![x].status = IF @ = "pending" THEN "failed" ELSE @]
  /\ Walk(b, "next")
  /\ UNCHANGED <<batch, row, outside, cancelling, work, process, ghosts>>

(* run_job: UPDATE ... WHERE status = 'pending'; whoever changes no row    *)
(* leaves.                                                                 *)
Claim(x, by) ==
  \/ /\ job[x].status = "pending"
     /\ SetJob(x, "running") /\ work' = [work EXCEPT ![x] = [at |-> "load", by |-> by]]
  \/ job[x].status # "pending" /\ UNCHANGED <<job, work>>

(* The preview froze the spec; run_job is called.                          *)
RunRow(b) ==
  /\ thread[b].at = "preview"
  /\ Claim(<<b, thread[b].db>>, "batch")
  /\ Walk(b, "next")
  /\ UNCHANGED <<batch, row, outside, cancelling, process, ghosts>>

(* execute_clone on the job of a row, by itself: it is claimed the same    *)
(* way by a thread of clone_runner, some time after the request.           *)
ExecuteClone(x) ==
  /\ proc = "up" /\ job[x].status = "pending"
  /\ Claim(x, "pool")
  /\ UNCHANGED <<batch, row, outside, walk, process, ghosts>>

(* Mutant: only the rows that have a job are counted.                      *)
FinishCountingJobs(b) ==
  LET jobs == {d \in RowsOf(b) : row[<<b, d>>].linked} IN
  /\ Ready(b) /\ thread[b].todo = {}
  /\ batch' = [batch EXCEPT ![b].status =
       CASE batch[b].cancel -> "canceled"
         [] \A d \in jobs : job[<<b, d>>].status = "succeeded" -> "done"
         [] OTHER -> "partial"]
  /\ thread' = [thread EXCEPT ![b] = Idle]
  /\ UNCHANGED <<row, job, outside, cancelling, work, process, ghosts>>

(* The outcome is written once, from the states the rows have now.         *)
FinishBatch(b) ==
  /\ Ready(b) /\ thread[b].todo = {}
  /\ batch' = [batch EXCEPT ![b].status =
       CASE batch[b].cancel -> "canceled"
         [] ~batch[b].cancel /\ \A d \in RowsOf(b) : Effective(<<b, d>>) = "succeeded" -> "done"
         [] OTHER -> "partial"]
  /\ thread' = [thread EXCEPT ![b] = Idle]
  /\ UNCHANGED <<row, job, outside, cancelling, work, process, ghosts>>

(* The gateway's database fails under the walk itself: only the log knows. *)
WalkFails(b) ==
  /\ thread[b].at = "guard" \/ Ready(b)
  /\ thread' = [thread EXCEPT ![b] = Idle]
  /\ unswept' = unswept \cup {b}
  /\ UNCHANGED <<batch, row, job, outside, cancelling, work, process, loader, origin, unrecorded>>

-----------------------------------------------------------------------------
(* The pipeline of a job (run_job, _pipeline, _run_phases).                *)

(* A failure before the try block: nothing sets the status, and the walk   *)
(* blocks the row.                                                         *)
LoadFails(x) ==
  /\ work[x].at = "load"
  /\ row' = [row EXCEPT ![x].outcome = IF work[x].by = "batch" THEN "blocked" ELSE @]
  /\ Stop(x)
  /\ unswept' = unswept \cup {x}
  /\ UNCHANGED <<batch, job, outside, walk, process, loader, origin, unrecorded>>

TakeLock(x) ==
  /\ work[x].at = "load"
  /\ \A b \in Batches : work[<<b, x[2]>>].at \notin Locked
  /\ WorkAt(x, "prepare")
  /\ UNCHANGED <<batch, row, job, outside, walk, process, ghosts>>

(* A lock timeout, a source or a target that changed, a statement that     *)
(* fails, a target that (no longer) exists.                                *)
PhaseFails(x) ==
  /\ work[x].at \in {"load", "prepare", "copy"}
  /\ SetJob(x, "failed") /\ Stop(x)
  /\ UNCHANGED <<batch, row, outside, walk, process, ghosts>>

(* The checker reads the flag at most every two seconds.                   *)
CancelSeen(x) ==
  /\ work[x].at \in {"prepare", "copy", "close"} /\ job[x].cancel
  /\ SetJob(x, "canceled") /\ Stop(x)
  /\ UNCHANGED <<batch, row, outside, walk, process, ghosts>>

PrepareTarget(x) ==
  /\ work[x].at = "prepare" /\ Fits(x[2])
  /\ exists' = exists \cup {x[2]}
  /\ WorkAt(x, "copy")
  /\ UNCHANGED <<batch, row, job, drift, walk, process, ghosts>>

(* copy_tables commits as it goes.                                         *)
CopyRows(x) ==
  /\ work[x].at = "copy" /\ x[2] \in exists
  /\ loader' = [loader EXCEPT ![x[2]] = @ \cup {x[1]}]
  /\ WorkAt(x, "record")
  /\ UNCHANGED <<batch, row, job, outside, walk, process, origin, unrecorded, unswept>>

(* The items, with rows_copied, are written when every table is done.      *)
RecordItems(x) ==
  /\ work[x].at = "record"
  /\ job' = [job EXCEPT ![x].items = TRUE]
  /\ WorkAt(x, "close")
  /\ UNCHANGED <<batch, row, outside, walk, process, ghosts>>

(* The gateway's database fails under the copy or under _record_items.     *)
RecordFails(x) ==
  /\ work[x].at = "record"
  /\ SetJob(x, "failed") /\ Stop(x)
  /\ unrecorded' = unrecorded \cup {x}
  /\ UNCHANGED <<batch, row, outside, walk, process, loader, origin, unswept>>

CloseJob(x) ==
  /\ work[x].at = "close"
  /\ \E status \in {"succeeded", "failed"} : SetJob(x, status)
  /\ Stop(x)
  /\ UNCHANGED <<batch, row, outside, walk, process, ghosts>>

-----------------------------------------------------------------------------
(* Restarts and the world outside.                                         *)

Crash ==
  /\ crashes < MaxCrash /\ crashes' = crashes + 1
  /\ proc' = "jobs"
  /\ thread' = [b \in Batches |-> Idle] /\ cancelling' = [b \in Batches |-> {}]
  /\ work' = [x \in Jobs |-> NoWork]
  /\ unrecorded' = unrecorded \cup {x \in Jobs : work[x].at = "record"}
  /\ UNCHANGED <<batch, row, job, outside, loader, origin, unswept>>

(* Mutant: the jobs of the batches are left to the sweep of the batches.   *)
SweepNoJobs ==
  /\ proc = "jobs" /\ proc' = "batches"
  /\ UNCHANGED <<batch, row, job, outside, walk, work, crashes, ghosts>>

SweepJobs ==
  /\ proc = "jobs" /\ proc' = "batches"
  /\ job' = [x \in Jobs |-> IF job[x].status = "running"
                            THEN [job[x] EXCEPT !.status = "interrupted"] ELSE job[x]]
  /\ UNCHANGED <<batch, row, outside, walk, work, crashes, ghosts>>

(* Mutant: batches are not swept.                                          *)
SweepNoBatches ==
  /\ proc = "batches" /\ proc' = "up"
  /\ UNCHANGED <<batch, row, job, outside, walk, work, crashes, ghosts>>

SweepBatches ==
  LET hung == {b \in Batches : batch[b].status = "running"} IN
  /\ proc = "batches" /\ proc' = "up"
  /\ batch' = [b \in Batches |-> IF b \in hung
                 THEN [batch[b] EXCEPT !.status = "interrupted"] ELSE batch[b]]
  /\ row' = [x \in Jobs |-> IF x[1] \in hung /\ row[x].outcome = "pending"
                            THEN [row[x] EXCEPT !.outcome = "skipped"] ELSE row[x]]
  /\ UNCHANGED <<job, outside, walk, work, crashes, ghosts>>

(* A sweep never stops the start-up: it catches whatever fails in it.      *)
SweepFails ==
  /\ \/ proc = "jobs" /\ proc' = "batches"
     \/ proc = "batches" /\ proc' = "up"
  /\ unswept' = unswept
       \cup {x \in Jobs : proc = "jobs" /\ job[x].status = "running"}
       \cup {b \in Batches : proc = "batches" /\ batch[b].status = "running"}
  /\ UNCHANGED <<batch, row, job, outside, walk, work, crashes, loader, origin, unrecorded>>

(* Somebody creates or drops a target database.                            *)
TargetDrifts ==
  /\ drift < MaxDrift /\ drift' = drift + 1
  /\ \E d \in Dbs : /\ exists' = (exists \ {d}) \cup ({d} \ exists)
                    /\ loader' = [loader EXCEPT ![d] = {}]
  /\ UNCHANGED <<batch, row, job, walk, work, process, origin, unrecorded, unswept>>

Request ==
  \/ \E b \in Batches : CreateBatch(b) \/ ExecuteBatch(b) \/ CancelBatch(b)
  \/ \E b \in Batches, c \in Batches : RetryFailed(b, c)
  \/ \E b \in Batches, d \in Dbs : RequestCancel(b, d)
  \/ \E x \in Jobs : ExecuteClone(x) \/ CancelClone(x)
Walking(b) ==
  \/ TakeServerGuard(b) \/ NextRow(b) \/ CloseRemaining(b)
  \/ CreateJob(b) \/ LinkJob(b) \/ BlockItem(b) \/ AbortPendingJob(b)
  \/ RunRow(b) \/ FinishBatch(b) \/ WalkFails(b)
Cloning(x) ==
  \/ LoadFails(x) \/ TakeLock(x) \/ PhaseFails(x)
  \/ CancelSeen(x) \/ PrepareTarget(x) \/ CopyRows(x) \/ RecordItems(x) \/ RecordFails(x)
  \/ CloseJob(x)
StartUp == SweepJobs \/ SweepBatches \/ SweepFails

Next ==
  \/ Request \/ StartUp \/ Crash \/ TargetDrifts
  \/ \E b \in Batches : Walking(b)
  \/ \E x \in Jobs : Cloning(x)

Spec == Init /\ [][Next]_vars
FairSpec ==
  /\ Spec /\ WF_vars(StartUp)
  /\ \A b \in Batches : WF_vars(Walking(b))
  /\ \A x \in Jobs : WF_vars(Cloning(x))

-----------------------------------------------------------------------------
(* Properties.                                                             *)

TypeOK ==
  /\ batch \in [Batches -> [status : {"absent"} \cup Live \cup Over, cancel : BOOLEAN]]
  /\ row \in [Jobs -> [outcome : {"absent", "pending", "blocked", "canceled", "skipped", "none"},
                       linked : BOOLEAN]]
  /\ job \in [Jobs -> [status : {"absent", "succeeded", "failed", "canceled", "interrupted"}
                                \cup Live, cancel : BOOLEAN, items : BOOLEAN]]
  /\ exists \subseteq Dbs
  /\ thread \in [Batches -> [at : {"off", "guard"} \cup Guarded,
                             todo : SUBSET Dbs, db : Dbs \cup {None}]]
  /\ work \in [Jobs -> [at : {"off", "load"} \cup Locked,
                        by : {"nobody", "batch", "pool"}]]
  /\ cancelling \in [Batches -> SUBSET Dbs]
  /\ proc \in {"up", "jobs", "batches"} /\ drift \in 0..MaxDrift /\ crashes \in 0..MaxCrash
  /\ loader \in [Dbs -> SUBSET Batches] /\ origin \in [Batches -> Batches \cup {None}]
  /\ unrecorded \subseteq Jobs /\ unswept \subseteq Jobs \cup Batches

(* Batches towards one server copy one database at a time, whatever        *)
(* batches were confirmed meanwhile ("Las filas van en serie").            *)
SerialRows ==
  \A x, y \in Jobs : work[x].by = "batch" /\ work[y].by = "batch" => x = y

(* A batch that ended well copied every row the operator confirmed, the    *)
(* blocked and the omitted ones included (_finish_batch): each job ran to  *)
(* its end, and its rows went into the target unless that was dropped.     *)
DoneMeansCopied ==
  \A b \in Batches : batch[b].status = "done" =>
    \A d \in RowsOf(b) :
      /\ row[<<b, d>>].linked /\ job[<<b, d>>].status = "succeeded"
      /\ drift = 0 => b \in loader[d]

(* When a batch is over nothing of it is still being copied (the order of  *)
(* the two sweeps), except a job that somebody executed by itself or whose *)
(* failure escaped run_job.                                                *)
NothingRunsWhenOver ==
  proc = "up" =>
    \A x \in Jobs : batch[x[1]].status \in Over /\ job[x].status = "running" =>
      work[x].by = "pool" \/ x \in unswept

(* A retry takes up a row with a job on an existing target only if the job *)
(* left nothing there (retry_candidates, con_datos), except rows whose     *)
(* record is not written yet or never was.                                 *)
RetrySound ==
  [][\A c \in Batches, d \in Dbs :
       row[<<c, d>>].outcome = "absent" /\ row'[<<c, d>>].outcome = "pending"
         /\ origin'[c] # None /\ Mode[d] = "existing" =>
       LET x == <<origin'[c], d>> IN
         row[x].linked /\ x[1] \in loader[d] => x \in unrecorded \/ work[x].at = "record"]_vars

(* A running batch ends, or a restart ends it (run_batch: an error in a    *)
(* row does not bring the batch down), unless the gateway's database fails *)
(* under the walk or under the sweep.                                      *)
BatchSettles ==
  \A b \in Batches :
    batch[b].status = "running" ~> (batch[b].status # "running" \/ b \in unswept)

(* Once every batch is over and no job runs, a retry only takes up rows    *)
(* whose existing target is intact (retry_candidates: "solo es             *)
(* reintentable la fila cuyo destino quedó intacto").                      *)
RetryIntact ==
  [][(\A b \in Batches : batch[b].status \notin Live) /\ (\A x \in Jobs : work[x] = NoWork) =>
       \A c \in Batches, d \in Dbs :
         row[<<c, d>>].outcome = "absent" /\ row'[<<c, d>>].outcome = "pending"
           /\ origin'[c] # None /\ Mode[d] = "existing" => loader[d] = {}]_vars
=============================================================================
