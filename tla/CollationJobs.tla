---------------------------- MODULE CollationJobs ----------------------------
(***************************************************************************)
(* The life of collation conversion jobs and of the batch of a blueprint:  *)
(* create_plan, preview, execute, cancel, create_batch_plan,               *)
(* execute_batch, cancel_batch, list_batch, the claim of run_job, the      *)
(* workers of collation_conversion_runner.py and the sweep at start-up.    *)
(* CollationConversion models what happens inside a running job; a module  *)
(* may extend both, so no name is in both.                                 *)
(*                                                                         *)
(* A token is a hash of the plan, and the plan is computed from the        *)
(* selection and the inventory of the database: Plan[selection, version].  *)
(* A change of the inventory (fingerprint) need not change a plan.         *)
(***************************************************************************)
EXTENDS Naturals, FiniteSets, Sequences, FiniteSetsExt

CONSTANTS
  Order,        \* the jobs there can be, in the order a batch numbers them
  MaxRequests,  \* bound: API calls, numbered in the order they arrive
  Workers,
  Db,           \* Db[j]: the database of job j
  Selections,   \* what a preview can select; the batch selects Everything
  Everything,
  Plan,         \* Plan[s][v]: the plan of selection s on inventory version v
  Nothing,
  MaxAlter,     \* bound: changes of the inventories
  MaxQueue,     \* bound: the pool's queue
  MaxCrash      \* bound: restarts

Jobs == {Order[i] : i \in DOMAIN Order}
Databases == {Db[j] : j \in Jobs}
Requests == 1..MaxRequests

ASSUME JobsAssumption ==
  /\ Order \in Seq(Jobs) /\ Nothing \notin Jobs \cup Selections
  /\ Everything \in Selections
  /\ MaxRequests \in Nat /\ MaxAlter \in Nat /\ MaxQueue \in Nat /\ MaxCrash \in Nat

VARIABLES
  row,        \* collation_conversion_jobs
  batch,      \* collation_conversion_batches: status, its jobs, the tokens it was planned with
  inventory,  \* engine: version of what collation_inventory reads
  queue,      \* memory: jobs submitted to the pool
  worker,     \* memory: the pool's threads
  request,    \* memory: API requests
  crashes,
  issued,     \* ghost: plans a preview showed
  confirmed,  \* ghost: plans an execute confirmed
  late,       \* ghost: jobs whose row was rewritten once an execution was under way
  refused     \* ghost: jobs a batch execution did not enqueue, or whose claim failed

rows == <<row, batch>>
memory == <<queue, worker, request>>
ghosts == <<issued, confirmed, late, refused>>
jobsVars == <<row, batch, inventory, queue, worker, request, crashes, issued, confirmed, late, refused>>

Terminal == {"succeeded", "failed", "canceled", "interrupted"}
Idle == [at |-> "idle", job |-> Nothing, sel |-> Nothing, version |-> 0,
         token |-> Nothing, todo |-> {}, enqueued |-> FALSE]
Done == [Idle EXCEPT !.at = "done"]
Blank == [status |-> "absent", sel |-> Nothing, token |-> Nothing, version |-> 0, cancel |-> FALSE]

JobsInit ==
  /\ row = [j \in Jobs |-> Blank]
  /\ batch = [status |-> "absent", jobs |-> {}, tokens |-> [j \in {} |-> Nothing]]
  /\ inventory = [d \in Databases |-> 0]
  /\ queue = <<>> /\ worker = [w \in Workers |-> Idle] /\ request = [r \in Requests |-> Idle]
  /\ crashes = 0
  /\ issued = [j \in Jobs |-> {}] /\ confirmed = [j \in Jobs |-> {}]
  /\ late = {} /\ refused = {}

Current(j) == inventory[Db[j]]
SetStatus(j, status) == row' = [row EXCEPT ![j].status = status]
Ask(r, place) == request' = [request EXCEPT ![r] = place]

-----------------------------------------------------------------------------
(* Plans and previews.                                                     *)

CreatePlan(j) ==
  /\ row[j].status = "absent"
  /\ row' = [row EXCEPT ![j] = [Blank EXCEPT !.status = "pending", !.version = Current(j)]]
  /\ UNCHANGED <<batch, inventory, memory, crashes, ghosts>>

\* create_batch_plan, for databases without a job; one whose preview fails keeps
\* a pending job
CreateBatchPlan(members, unplanned) ==
  /\ batch.status = "absent" /\ unplanned \subseteq members
  /\ members # {} /\ \A j \in members : row[j].status = "absent"
  /\ LET Shown(j) == Plan[Everything][Current(j)]
         good == members \ unplanned
     IN  /\ row' = [j \in Jobs |->
              IF j \notin members THEN row[j]
              ELSE [Blank EXCEPT !.status = "pending", !.version = Current(j),
                      !.sel = IF j \in good THEN Everything ELSE Nothing,
                      !.token = IF j \in good THEN Shown(j) ELSE Nothing]]
         /\ batch' = [status |-> "pending", jobs |-> members, tokens |-> [j \in good |-> Shown(j)]]
         /\ issued' = [j \in Jobs |-> IF j \in good THEN {Shown(j)} ELSE issued[j]]
  /\ UNCHANGED <<inventory, memory, crashes, confirmed, late, refused>>

InQueue(j) == \E i \in DOMAIN queue : queue[i] = j
\* an execution of the job other than r's has read its row and has not reached the engine
UnderWay(r, j) ==
  \/ \E q \in Requests \ {r} : request[q].job = j /\ request[q].at \in {"check", "enqueue"}
  \/ InQueue(j)
  \/ \E w \in Workers : worker[w].job = j
Rewritten(r, j) == late' = IF UnderWay(r, j) THEN late \cup {j} ELSE late

\* preview: the status is read in one session, the selection written in another
BeginPreview(r, j) ==
  /\ request[r] = Idle /\ row[j].status = "pending"
  /\ Ask(r, [Idle EXCEPT !.at = "preview", !.job = j, !.version = row[j].version])
  /\ UNCHANGED <<rows, inventory, queue, worker, crashes, ghosts>>
WritePreview(r, s, force) ==
  LET j == request[r].job
      shown == Plan[s][Current(j)]
  IN
  /\ request[r].at = "preview"
  /\ request[r].version # Current(j) => force
  /\ row' = [row EXCEPT ![j].sel = s, ![j].token = shown,
                        ![j].version = IF force THEN Current(j) ELSE @]
  /\ issued' = [issued EXCEPT ![j] = @ \cup {shown}]
  /\ Rewritten(r, j) /\ Ask(r, Done)
  /\ UNCHANGED <<batch, inventory, queue, worker, crashes, confirmed, refused>>

-----------------------------------------------------------------------------
(* Execution.  _validate_job_execution is shared by the single execute and *)
(* by the batch: the row is read, then the inventory, then the token is    *)
(* compared; with force a drifted fingerprint is adopted on the way.       *)

Validated(r, j, place) ==
  /\ row[j].status = "pending" /\ row[j].sel # Nothing
  /\ Ask(r, [place EXCEPT !.at = "check", !.job = j, !.sel = row[j].sel,
                          !.version = row[j].version])

BeginExecute(r, j) ==
  /\ request[r] = Idle
  /\ Validated(r, j, Idle)
  /\ UNCHANGED <<rows, inventory, queue, worker, crashes, ghosts>>

\* execute_batch: the batch is pending, its set of jobs and tokens is the planned one
Planned == {j \in batch.jobs : row[j].status = "pending" /\ row[j].token # Nothing}
BeginBatch(r) ==
  /\ request[r] = Idle /\ batch.status = "pending"
  /\ Planned = DOMAIN batch.tokens
  /\ \A j \in DOMAIN batch.tokens : row[j].token = batch.tokens[j]
  /\ Ask(r, [Idle EXCEPT !.at = "batch", !.todo = Planned])
  /\ UNCHANGED <<rows, inventory, queue, worker, crashes, ghosts>>
InBatch(r) == request[r].todo # {}
NextOf(r) == Order[Min({i \in DOMAIN Order : Order[i] \in request[r].todo})]
BatchJob(r) ==
  /\ request[r].at = "batch" /\ InBatch(r)
  /\ Validated(r, NextOf(r), [request[r] EXCEPT !.token = batch.tokens[NextOf(r)]])
  /\ UNCHANGED <<rows, inventory, queue, worker, crashes, ghosts>>
\* an answer ends a single request and is one item of a batch
Answered(r, enqueued) ==
  IF InBatch(r)
  THEN [Idle EXCEPT !.at = "batch", !.todo = request[r].todo \ {NextOf(r)},
                    !.enqueued = request[r].enqueued \/ enqueued]
  ELSE Done
BatchJobRefused(r) ==
  /\ request[r].at = "batch" /\ InBatch(r)
  /\ row[NextOf(r)].status # "pending" \/ row[NextOf(r)].sel = Nothing
  /\ Ask(r, Answered(r, FALSE))
  /\ refused' = refused \cup {NextOf(r)}
  /\ UNCHANGED <<rows, inventory, queue, worker, crashes, issued, confirmed, late>>

Drift(r) == request[r].version # Current(request[r].job)
Expected(r) == Plan[request[r].sel][Current(request[r].job)]
Adopt(r, force) ==
  LET j == request[r].job IN
  IF Drift(r) /\ force
  THEN row' = [row EXCEPT ![j].version = Current(j)] /\ Rewritten(r, j)
  ELSE UNCHANGED <<row, late>>

\* the token of a batch is the stored one; a client presents one it was shown
Presents(r) == IF InBatch(r) THEN request[r].token = Expected(r)
               ELSE Expected(r) \in issued[request[r].job]
Accept(r, force) ==
  /\ request[r].at = "check" /\ (Drift(r) => force)
  /\ Presents(r)
  /\ Adopt(r, force)
  /\ Ask(r, [request[r] EXCEPT !.at = "enqueue", !.token = Expected(r)])
  /\ UNCHANGED <<batch, inventory, queue, worker, crashes, issued, confirmed, refused>>
\* drifted without force, a wrong token, an empty plan, an engine that does not
\* answer; with force the drift was adopted before the token was compared
Refuse(r, force) ==
  /\ request[r].at = "check"
  /\ Adopt(r, force)
  /\ Ask(r, Answered(r, FALSE))
  /\ refused' = IF InBatch(r) THEN refused \cup {NextOf(r)} ELSE refused
  /\ UNCHANGED <<batch, inventory, queue, worker, crashes, issued, confirmed>>

Enqueue(r) ==
  LET j == request[r].job IN
  /\ request[r].at = "enqueue" /\ Len(queue) < MaxQueue
  /\ queue' = Append(queue, j)
  /\ confirmed' = [confirmed EXCEPT ![j] = @ \cup {request[r].token}]
  /\ Ask(r, Answered(r, TRUE))
  /\ UNCHANGED <<rows, inventory, worker, crashes, issued, late, refused>>

\* the batch's status is written without reading it again
FinishBatch(r) ==
  /\ request[r].at = "batch" /\ ~InBatch(r)
  /\ batch' = [batch EXCEPT !.status = IF request[r].enqueued THEN "running" ELSE "failed"]
  /\ Ask(r, Done)
  /\ UNCHANGED <<row, inventory, queue, worker, crashes, ghosts>>

CancelJob(j) ==
  /\ row[j].status \in {"pending", "running"} /\ ~row[j].cancel
  /\ row' = [row EXCEPT ![j].cancel = TRUE]
  /\ UNCHANGED <<batch, inventory, memory, crashes, ghosts>>
CancelBatch ==
  /\ batch.status \in {"pending", "running"}
  /\ row' = [j \in Jobs |->
       IF j \in batch.jobs /\ row[j].status \in {"pending", "running"}
       THEN [row[j] EXCEPT !.cancel = TRUE] ELSE row[j]]
  /\ batch' = [batch EXCEPT !.status = "canceled"]
  /\ UNCHANGED <<inventory, memory, crashes, ghosts>>

\* list_batch derives the outcome when it is read
Over == \A j \in batch.jobs : row[j].status \in Terminal
BatchOutcome == IF \A j \in batch.jobs : row[j].status = "succeeded" THEN "done" ELSE "failed"
ListBatch ==
  /\ batch.status = "running" /\ Over
  /\ batch' = [batch EXCEPT !.status = BatchOutcome]
  /\ UNCHANGED <<row, inventory, memory, crashes, ghosts>>

-----------------------------------------------------------------------------
(* The workers: run_job.                                                   *)

Stand(w, place) == worker' = [worker EXCEPT ![w] = place]
Move(w, at) == Stand(w, [worker[w] EXCEPT !.at = at])

\* the claim is one conditional UPDATE; failing it, a cancelled job is closed
Claimable(j) == row[j].status = "pending" /\ ~row[j].cancel
(* Mutant: a claim that fails returns without closing a cancelled job.     *)
ClaimSilent(w) ==
  /\ worker[w] = Idle /\ queue # <<>>
  /\ LET j == Head(queue) IN
     IF Claimable(j)
     THEN SetStatus(j, "running") /\ Stand(w, [Idle EXCEPT !.at = "load", !.job = j])
     ELSE UNCHANGED <<row, worker>>
  /\ queue' = Tail(queue)
  /\ UNCHANGED <<batch, inventory, request, crashes, ghosts>>

Claim(w) ==
  /\ worker[w] = Idle /\ queue # <<>>
  /\ LET j == Head(queue) IN
     IF Claimable(j)
     THEN SetStatus(j, "running") /\ Stand(w, [Idle EXCEPT !.at = "load", !.job = j])
     ELSE /\ row' = IF row[j].status = "pending" THEN [row EXCEPT ![j].status = "canceled"] ELSE row
          /\ UNCHANGED worker
  /\ queue' = Tail(queue)
  /\ UNCHANGED <<batch, inventory, request, crashes, ghosts>>

\* the claim itself cannot be written: the job stays as it is and leaves the queue
ClaimFails(w) ==
  /\ worker[w] = Idle /\ queue # <<>>
  /\ queue' = Tail(queue) /\ refused' = refused \cup {Head(queue)}
  /\ UNCHANGED <<rows, inventory, worker, request, crashes, issued, confirmed, late>>

Load(w) ==
  LET j == worker[w].job IN
  /\ worker[w].at = "load"
  /\ Stand(w, [worker[w] EXCEPT !.at = "guard", !.sel = row[j].sel, !.version = row[j].version])
  /\ UNCHANGED <<rows, inventory, queue, request, crashes, ghosts>>
\* the context is read outside run_job's try, and the status that ends a job is
\* written by the same metadata database: failing either, the job stays running
EndsUnwritten(w) ==
  /\ worker[w].at \in {"load", "verify", "convert"} /\ Stand(w, Idle)
  /\ UNCHANGED <<rows, inventory, queue, request, crashes, ghosts>>

(* Mutant: the worker does not compare the fingerprint again.             *)
VerifyNothing(w) ==
  /\ worker[w].at = "verify" /\ Move(w, "convert")
  /\ UNCHANGED <<rows, inventory, queue, request, crashes, ghosts>>

\* database_guard, then the fingerprint
Guarded(w, d) == worker[w].at \in {"verify", "convert"} /\ Db[worker[w].job] = d
Guard(w) ==
  /\ worker[w].at = "guard"
  /\ \A v \in Workers : ~Guarded(v, Db[worker[w].job])
  /\ Move(w, "verify")
  /\ UNCHANGED <<rows, inventory, queue, request, crashes, ghosts>>
VerifyFingerprint(w) ==
  /\ worker[w].at = "verify" /\ worker[w].version = Current(worker[w].job)
  /\ Move(w, "convert")
  /\ UNCHANGED <<rows, inventory, queue, request, crashes, ghosts>>
FailDrifted(w) ==
  /\ worker[w].at = "verify" /\ worker[w].version # Current(worker[w].job)
  /\ SetStatus(worker[w].job, "failed") /\ Stand(w, Idle)
  /\ UNCHANGED <<batch, inventory, queue, request, crashes, ghosts>>
\* the advisory lock, which may be busy, and what CollationConversion models
Finish(w, status) ==
  /\ worker[w].at = "convert"
  /\ status = "canceled" => row[worker[w].job].cancel
  /\ SetStatus(worker[w].job, status) /\ Stand(w, Idle)
  /\ UNCHANGED <<batch, inventory, queue, request, crashes, ghosts>>

Changes == FoldSet(LAMBDA d, n : n + inventory[d], 0, Databases)
\* somebody changes the schema of a database
Alter(d) ==
  /\ Changes < MaxAlter
  /\ inventory' = [inventory EXCEPT ![d] = @ + 1]
  /\ UNCHANGED <<rows, memory, crashes, ghosts>>

\* the process dies; sweep_interrupted closes what was running or queued in a running batch
Swept(j) ==
  \/ row[j].status = "running"
  \/ row[j].status = "pending" /\ j \in batch.jobs /\ batch.status = "running"
Restart ==
  /\ crashes < MaxCrash /\ crashes' = crashes + 1
  /\ queue' = <<>> /\ worker' = [w \in Workers |-> Idle] /\ request' = [r \in Requests |-> IF request[r] = Idle THEN Idle ELSE Done]
  /\ row' = [j \in Jobs |-> IF Swept(j) THEN [row[j] EXCEPT !.status = "interrupted"] ELSE row[j]]
  /\ batch' = IF batch.status = "running" THEN [batch EXCEPT !.status = "failed"] ELSE batch
  /\ UNCHANGED <<inventory, ghosts>>

Work(w) ==
  \/ Claim(w) \/ Load(w) \/ Guard(w) \/ VerifyFingerprint(w) \/ FailDrifted(w)
  \/ \E status \in {"succeeded", "failed", "canceled"} : Finish(w, status)
Serve(r) ==
  \/ \E s \in Selections, force \in BOOLEAN : WritePreview(r, s, force)
  \/ \E force \in BOOLEAN : Accept(r, force) \/ Refuse(r, force)
  \/ BatchJob(r) \/ BatchJobRefused(r) \/ Enqueue(r) \/ FinishBatch(r)
Arrive(r) ==
  /\ \A q \in 1..(r - 1) : request[q] # Idle
  /\ BeginBatch(r) \/ \E j \in Jobs : BeginPreview(r, j) \/ BeginExecute(r, j)
JobsNext ==
  \/ \E w \in Workers : Work(w) \/ ClaimFails(w) \/ EndsUnwritten(w)
  \/ \E r \in Requests : Serve(r) \/ Arrive(r)
  \/ \E j \in Jobs : CreatePlan(j) \/ CancelJob(j)
  \/ \E members \in SUBSET Jobs, unplanned \in SUBSET Jobs : CreateBatchPlan(members, unplanned)
  \/ CancelBatch \/ ListBatch \/ (\E d \in Databases : Alter(d)) \/ Restart

\* the threads of the pool and of the server run; nobody has to call anything
JobsSpec ==
  /\ JobsInit /\ [][JobsNext]_jobsVars
  /\ \A w \in Workers : WF_jobsVars(Work(w))
  /\ \A r \in Requests : WF_jobsVars(Serve(r))

-----------------------------------------------------------------------------
JobsTypeOK ==
  /\ \A j \in Jobs : /\ row[j].status \in Terminal \cup {"absent", "pending", "running"}
                     /\ row[j].sel \in Selections \cup {Nothing} /\ row[j].cancel \in BOOLEAN
                     /\ row[j].version \in Nat
  /\ batch.status \in {"absent", "pending", "running", "done", "failed", "canceled"}
  /\ queue \in Seq(Jobs) /\ inventory \in [Databases -> Nat]

\* "hay que cerrarlo, o queda `pending` para siempre porque nadie lo va a volver
\* a encolar" (run_job): a job that an execution enqueued and that is still
\* pending, cancelled or not, is in the queue. Whoever takes it out starts it or
\* closes it, whatever cancellations, previews, batches and second executions
\* crossed it on the way; only a restart, or a claim the metadata database did
\* not take, loses it.
EnqueuedWaits ==
  crashes = 0 =>
    \A j \in Jobs \ refused : row[j].status = "pending" /\ confirmed[j] # {} => InQueue(j)

\* a running batch comes to its end by itself, through cancellations and
\* restarts, unless one of its jobs never entered the queue or left it unclaimed
\* (its preview, its validation or its claim failed: only a restart would close
\* it) or lost its worker without an ending.
Stranded(j) ==
  \/ j \in refused \/ j \notin DOMAIN batch.tokens
  \/ row[j].status = "running" /\ \A w \in Workers : worker[w].job # j
BatchSettles ==
  batch.status = "running" ~>
    (batch.status # "running" \/ Over \/ \E j \in batch.jobs : Stranded(j))

\* whoever begins to convert does so on a confirmed plan, or after a rewrite
SetOutConfirmed ==
  \A w \in Workers :
    LET j == worker[w].job IN
    worker[w].at = "verify" /\ worker'[w].at = "convert" =>
      j \in late \/ Plan[worker[w].sel][Current(j)] \in confirmed[j]

\* _pipeline's fingerprint and the token ("preferimos NO tocar nada antes que
\* convertir un esquema distinto del que el operador confirmó"): a worker sets
\* out only on a plan an execute confirmed, unless a preview or a call with
\* force rewrote the row while the execution was under way.
ConvertsConfirmed == [][SetOutConfirmed]_jobsVars
=============================================================================
