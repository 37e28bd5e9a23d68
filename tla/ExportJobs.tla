----------------------------- MODULE ExportJobs -----------------------------
(***************************************************************************)
(* Database exports: export_controller.py (plan, preview, execute, cancel, *)
(* run_job, download), export_runner.py (the in-process worker pool) and   *)
(* export_storage.py (the spool directory), with the start-up sweeps of    *)
(* main.py.                                                                *)
(*                                                                         *)
(* An export lives in three places that fail separately: the gateway's     *)
(* database (job, artifact), the disk (file) and the memory of the process *)
(* (the pool's queue, the set of admitted jobs, workers and requests),     *)
(* which a restart empties.  The source database is read only: of it only  *)
(* the version of its catalogue is kept, which fingerprints stand for.     *)
(***************************************************************************)
EXTENDS Integers, FiniteSets, Sequences

CONSTANTS
  Jobs, Requests, Workers,
  Db,           \* Db[j]: the database job j exports
  Selections,   \* what a preview can freeze: spec, objects and tables
  Nothing,      \* no job, no selection
  Limit,        \* EXPORT_MAX_CONCURRENT_GLOBAL
  SingleUse,    \* EXPORT_SINGLE_USE_DOWNLOAD
  MaxQueue,     \* bound: the pool's queue, which the code does not bound
  MaxAlter,     \* bound: changes of the source catalogue
  MaxCrash      \* bound: restarts of the process

ASSUME ExportAssumption ==
  /\ Nothing \notin Jobs \cup Selections
  /\ Limit \in Nat \ {0} /\ SingleUse \in BOOLEAN
  /\ MaxQueue \in Nat /\ MaxAlter \in Nat /\ MaxCrash \in Nat

VARIABLES
  job,        \* export_jobs: status, frozen selection, fingerprint, cancel_requested
  artifact,   \* export_artifacts.state, "none" without a row
  expired,    \* artifacts whose expires_at has passed
  file,       \* the spool directory: nothing, <token>.part or the final name
  catalog,    \* source: version of the catalogue
  queue,      \* memory: what the pool has been given and not started
  inflight,   \* memory: export_runner._inflight
  worker,     \* memory: the pool's threads
  request,    \* memory: API requests
  purging,    \* memory: artifacts a purge has unlinked and not committed
  proc,       \* the process: serving, or at a step of its start-up
  crashes,
  runs,       \* ghost: how often each job wrote an artifact
  confirmed,  \* ghost: selections an execute confirmed
  built,      \* ghost: the selection an artifact was made from
  unswept,    \* ghost: files and rows a failure left to themselves
  unended     \* ghost: jobs a failure of the gateway's database left running

rows == <<job, artifact, expired>>
disk == <<file, purging>>
pool == <<queue, inflight, worker>>
ghosts == <<runs, confirmed, built, unswept, unended>>
vars == <<job, artifact, expired, file, catalog, queue, inflight, worker,
          request, purging, proc, crashes, runs, confirmed, built, unswept, unended>>

Terminal == {"succeeded", "failed", "canceled", "interrupted"}
At(stage, j, sel, cat) ==
  [stage |-> stage, job |-> j, sel |-> sel, cat |-> cat, ok |-> FALSE]
Idle == At("idle", Nothing, Nothing, 0)
Holding == {"check", "write", "rename", "row", "report"}  \* inside database_guard

Init ==
  /\ job = [j \in Jobs |->
       [status |-> "absent", sel |-> Nothing, cat |-> 0, cancel |-> FALSE]]
  /\ artifact = [j \in Jobs |-> "none"] /\ expired = {}
  /\ file = [j \in Jobs |-> "none"] /\ catalog = 0
  /\ queue = <<>> /\ inflight = {} /\ worker = [w \in Workers |-> Idle]
  /\ request = [r \in Requests |-> Idle] /\ purging = {}
  /\ proc = "up" /\ crashes = 0
  /\ runs = [j \in Jobs |-> 0] /\ confirmed = [j \in Jobs |-> {}]
  /\ built = [j \in Jobs |-> Nothing] /\ unswept = {} /\ unended = {}

Ask(r, stage, j, sel, cat) ==
  request' = [request EXCEPT ![r] = At(stage, j, sel, cat)]
Pass(r, stage) == request' = [request EXCEPT ![r].stage = stage]
Answer(r) == request' = [request EXCEPT ![r] = Idle]
SetStatus(j, status) == job' = [job EXCEPT ![j].status = status]

-----------------------------------------------------------------------------
(* Requests.                                                               *)

CreatePlan(j) ==
  /\ proc = "up" /\ job[j].status = "absent"
  /\ SetStatus(j, "pending")
  /\ UNCHANGED <<artifact, expired, disk, catalog, pool, request, proc, crashes, ghosts>>

(* preview checks the status, reads the source, and writes what it froze   *)
(* in a session of its own, without looking at the status again.           *)
BeginPreview(r, j) ==
  /\ proc = "up" /\ request[r].stage = "idle" /\ job[j].status = "pending"
  /\ \E sel \in Selections : Ask(r, "freeze", j, sel, catalog)
  /\ UNCHANGED <<rows, disk, catalog, pool, proc, crashes, ghosts>>

FreezeSelection(r) ==
  LET q == request[r] IN
  /\ q.stage = "freeze"
  /\ job' = [job EXCEPT ![q.job].sel = q.sel, ![q.job].cat = q.cat]
  /\ Answer(r)
  /\ UNCHANGED <<artifact, expired, disk, catalog, pool, proc, crashes, ghosts>>

BeginExecute(r, j) ==
  /\ proc = "up" /\ request[r].stage = "idle"
  /\ job[j].status = "pending" /\ job[j].sel # Nothing
  /\ Ask(r, "capacity", j, job[j].sel, job[j].cat)
  /\ UNCHANGED <<rows, disk, catalog, pool, proc, crashes, ghosts>>

(* _guard_concurrency: the larger of two counts.                           *)
CheckCapacity(r) ==
  LET running == {j \in Jobs : job[j].status = "running"} IN
  /\ request[r].stage = "capacity"
  /\ Cardinality(running) < Limit /\ Cardinality(inflight) < Limit
  /\ Pass(r, "enqueue")
  /\ UNCHANGED <<rows, disk, catalog, pool, proc, crashes, ghosts>>

(* The catalogue is read again and must be the frozen one; the intent is   *)
(* audited; the job is handed to the pool.                                 *)
Enqueue(r) ==
  LET q == request[r] IN
  /\ q.stage = "enqueue" /\ catalog = q.cat /\ Len(queue) < MaxQueue
  /\ queue' = Append(queue, q.job) /\ inflight' = inflight \cup {q.job}
  /\ confirmed' = [confirmed EXCEPT ![q.job] = @ \cup {q.sel}]
  /\ Answer(r)
  /\ UNCHANGED <<rows, disk, catalog, worker, proc, crashes, runs, built, unswept, unended>>

(* Any guard may answer 4xx; a dry-run preview writes nothing.             *)
Refuse(r) ==
  /\ request[r].stage \in {"freeze", "capacity", "enqueue", "send"}
  /\ Answer(r)
  /\ UNCHANGED <<rows, disk, catalog, pool, proc, crashes, ghosts>>

Cancel(j) ==
  /\ proc = "up" /\ job[j].status \in {"pending", "running"} /\ ~job[j].cancel
  /\ job' = [job EXCEPT ![j].cancel = TRUE]
  /\ UNCHANGED <<artifact, expired, disk, catalog, pool, request, proc, crashes, ghosts>>

(* prepare_download: a terminal job, an artifact that can be delivered and *)
(* its file.                                                               *)
PrepareDownload(r, j) ==
  /\ proc = "up" /\ request[r].stage = "idle" /\ job[j].status \in Terminal
  /\ artifact[j] = "available" /\ j \notin expired /\ file[j] = "final"
  /\ Ask(r, "send", j, Nothing, 0)
  /\ UNCHANGED <<rows, disk, catalog, pool, proc, crashes, ghosts>>

(* The response is sent; the background task then deletes the file if the  *)
(* range covered it whole (finish_delivery, consume).                      *)
SendFile(r) ==
  LET j == request[r].job IN
  /\ request[r].stage = "send" /\ file[j] = "final"
  /\ \/ SingleUse /\ Pass(r, "consume")
     \/ Answer(r)
  /\ UNCHANGED <<rows, disk, catalog, pool, proc, crashes, ghosts>>

ConsumeFile(r) ==
  LET j == request[r].job IN
  /\ request[r].stage = "consume"
  /\ file' = [file EXCEPT ![j] = "none"]
  /\ Pass(r, "consumed")
  /\ UNCHANGED <<rows, purging, catalog, pool, proc, crashes, ghosts>>

ConsumeRow(r) ==
  LET j == request[r].job IN
  /\ request[r].stage = "consumed"
  /\ artifact' = [artifact EXCEPT ![j] = "consumed"]
  /\ Answer(r)
  /\ UNCHANGED <<job, expired, disk, catalog, pool, proc, crashes, ghosts>>

-----------------------------------------------------------------------------
(* Workers: run_job and _generate.                                         *)

Take(w, stage, j, sel, cat) == worker' = [worker EXCEPT ![w] = At(stage, j, sel, cat)]
Move(w, stage) == worker' = [worker EXCEPT ![w].stage = stage]

(* Mutant: the claim does not ask for the status.                          *)
ClaimAnyStatus(w) ==
  /\ worker[w].stage = "idle" /\ queue # <<>>
  /\ SetStatus(Head(queue), "running")
  /\ Take(w, "load", Head(queue), Nothing, 0)
  /\ queue' = Tail(queue)
  /\ UNCHANGED <<artifact, expired, disk, catalog, inflight, request, proc, crashes, ghosts>>

(* An ending of run_job.  Its status goes to the gateway's database, which *)
(* may be what failed: the exception then leaves run_job, export_runner    *)
(* logs it, and the job stays running.                                     *)
End(j, status) ==
  \/ SetStatus(j, status) /\ UNCHANGED unended
  \/ job' = job /\ unended' = unended \cup {j}

(* UPDATE ... WHERE status = 'pending': whoever changes no row leaves, and *)
(* so does a worker whose UPDATE fails, or was made and its answer lost.   *)
Claim(w) ==
  /\ worker[w].stage = "idle" /\ queue # <<>>
  /\ LET j == Head(queue) IN
     \/ /\ job[j].status = "pending" /\ SetStatus(j, "running")
        /\ \/ Take(w, "load", j, Nothing, 0) /\ UNCHANGED unended
           \/ Take(w, "leave", j, Nothing, 0) /\ unended' = unended \cup {j}
     \/ job' = job /\ Take(w, "leave", j, Nothing, 0) /\ UNCHANGED unended
  /\ queue' = Tail(queue)
  /\ UNCHANGED <<artifact, expired, disk, catalog, inflight, request, proc, crashes, runs,
                 confirmed, built, unswept>>

LoadPlan(w) ==
  LET j == worker[w].job IN
  /\ worker[w].stage = "load"
  /\ Take(w, "guard", j, job[j].sel, job[j].cat)
  /\ UNCHANGED <<rows, disk, catalog, queue, inflight, request, proc, crashes, ghosts>>

(* EXPORT_ENABLED was turned off while the job waited.                     *)
SwitchedOff(w) ==
  /\ worker[w].stage = "load"
  /\ End(worker[w].job, "failed")
  /\ Move(w, "leave")
  /\ UNCHANGED <<artifact, expired, disk, catalog, queue, inflight, request, proc,
                 crashes, runs, confirmed, built, unswept>>

(* The server is gone, or the gateway's database fails, before the try     *)
(* block of run_job: nothing sets the status.                              *)
LoadFails(w) ==
  /\ worker[w].stage = "load"
  /\ Move(w, "leave")
  /\ unended' = unended \cup {worker[w].job}
  /\ UNCHANGED <<rows, disk, catalog, queue, inflight, request, proc, crashes, runs,
                 confirmed, built, unswept>>

TakeGuard(w) ==
  /\ worker[w].stage = "guard"
  /\ \A v \in Workers : worker[v].stage \in Holding => Db[worker[v].job] # Db[worker[w].job]
  /\ Move(w, "check")
  /\ UNCHANGED <<rows, disk, catalog, queue, inflight, request, proc, crashes, ghosts>>

(* The catalogue must still be the frozen one; then the spool is opened.   *)
OpenSpool(w) ==
  LET j == worker[w].job IN
  /\ worker[w].stage = "check" /\ catalog = worker[w].cat
  /\ file' = [file EXCEPT ![j] = "part"]
  /\ runs' = [runs EXCEPT ![j] = @ + 1]
  /\ Move(w, "write")
  /\ UNCHANGED <<rows, purging, catalog, queue, inflight, request, proc, crashes,
                 confirmed, built, unswept, unended>>

(* Mutant: a cancellation does not discard the spool.                      *)
CancelKeepsFile(w) ==
  LET j == worker[w].job IN
  /\ worker[w].stage = "write" /\ job[j].cancel
  /\ SetStatus(j, "canceled")
  /\ Move(w, "leave")
  /\ UNCHANGED <<artifact, expired, disk, catalog, queue, inflight, request, proc,
                 crashes, ghosts>>

(* The cancellation is seen while writing: the spool is discarded.         *)
CancelSeen(w) ==
  LET j == worker[w].job IN
  /\ worker[w].stage = "write" /\ job[j].cancel
  /\ file' = [file EXCEPT ![j] = "none"]
  /\ End(j, "canceled")
  /\ Move(w, "leave")
  /\ UNCHANGED <<artifact, expired, purging, catalog, queue, inflight, request, proc,
                 crashes, runs, confirmed, built, unswept>>

(* A changed catalogue, no disk space, a failing source or packager.       *)
GenerateFails(w) ==
  LET j == worker[w].job IN
  /\ worker[w].stage \in {"check", "write"}
  /\ file' = [file EXCEPT ![j] = "none"]
  /\ End(j, "failed")
  /\ Move(w, "leave")
  /\ UNCHANGED <<artifact, expired, purging, catalog, queue, inflight, request, proc,
                 crashes, runs, confirmed, built, unswept>>

(* The whole artifact was written, with or without failed objects.         *)
WriteAll(w) ==
  /\ worker[w].stage = "write"
  /\ \E ok \in BOOLEAN : worker' = [worker EXCEPT ![w].stage = "rename", ![w].ok = ok]
  /\ UNCHANGED <<rows, disk, catalog, queue, inflight, request, proc, crashes, ghosts>>

(* Mutant: the row is inserted before the file has its name.               *)
RowBeforeRename(w) ==
  LET j == worker[w].job IN
  /\ worker[w].stage = "rename"
  /\ artifact' = [artifact EXCEPT ![j] = "available"]
  /\ Move(w, "row")
  /\ UNCHANGED <<job, expired, disk, catalog, queue, inflight, request, proc, crashes,
                 ghosts>>

Rename(w) ==
  LET j == worker[w].job IN
  /\ worker[w].stage = "rename"
  /\ file' = [file EXCEPT ![j] = "final"]
  /\ Move(w, "row")
  /\ UNCHANGED <<rows, purging, catalog, queue, inflight, request, proc, crashes, ghosts>>

InsertRow(w) ==
  LET j == worker[w].job IN
  /\ worker[w].stage = "row"
  /\ artifact' = [artifact EXCEPT ![j] = "available"]
  /\ built' = [built EXCEPT ![j] = worker[w].sel]
  /\ Move(w, "report")
  /\ UNCHANGED <<job, expired, disk, catalog, queue, inflight, request, proc, crashes,
                 runs, confirmed, unswept, unended>>

(* The row cannot be written: the spool discards its .part, but the file   *)
(* has its final name already.                                             *)
InsertFails(w) ==
  LET j == worker[w].job IN
  /\ worker[w].stage = "row"
  /\ End(j, "failed")
  /\ Move(w, "leave")
  /\ unswept' = unswept \cup {j}
  /\ UNCHANGED <<artifact, expired, disk, catalog, queue, inflight, request, proc,
                 crashes, runs, confirmed, built>>

(* Incidents, progress and the final status; an error there is a failure,  *)
(* which has a status to write in its turn.                                *)
Report(w) ==
  LET j == worker[w].job IN
  /\ worker[w].stage = "report"
  /\ \E status \in {"succeeded", "failed"} :
       /\ status = "succeeded" => worker[w].ok
       /\ End(j, status)
  /\ Move(w, "leave")
  /\ UNCHANGED <<artifact, expired, disk, catalog, queue, inflight, request, proc,
                 crashes, runs, confirmed, built, unswept>>

Leave(w) ==
  /\ worker[w].stage = "leave"
  /\ inflight' = inflight \ {worker[w].job}
  /\ worker' = [worker EXCEPT ![w] = Idle]
  /\ UNCHANGED <<rows, disk, catalog, queue, request, proc, crashes, ghosts>>

-----------------------------------------------------------------------------
(* Retention, restarts and the world outside.                              *)

Overdue == {j \in Jobs : artifact[j] = "available" /\ j \in expired}

(* purge_expired, at start-up and periodically.                            *)
PurgeFiles ==
  /\ proc \in {"up", "purge"} /\ purging = {} /\ Overdue # {}
  /\ file' = [j \in Jobs |-> IF j \in Overdue THEN "none" ELSE file[j]]
  /\ purging' = Overdue
  /\ UNCHANGED <<rows, catalog, pool, request, proc, crashes, ghosts>>

PurgeRows ==
  /\ purging # {}
  /\ artifact' = [j \in Jobs |-> IF j \in purging THEN "purged" ELSE artifact[j]]
  /\ purging' = {}
  /\ UNCHANGED <<job, expired, file, catalog, pool, request, proc, crashes, ghosts>>

(* The process dies: memory is gone, and the next one starts up.           *)
Crash ==
  /\ crashes < MaxCrash /\ crashes' = crashes + 1
  /\ proc' = "sweep"
  /\ queue' = <<>> /\ inflight' = {} /\ purging' = {}
  /\ worker' = [w \in Workers |-> Idle] /\ request' = [r \in Requests |-> Idle]
  /\ unswept' = unswept \cup {j \in Jobs : artifact[j] = "available" /\ file[j] = "none"}
  /\ UNCHANGED <<rows, file, catalog, runs, confirmed, built, unended>>

(* Mutant: the start-up does not look at running jobs.                     *)
SweepNothing ==
  /\ proc = "sweep" /\ proc' = "purge"
  /\ UNCHANGED <<rows, disk, catalog, pool, request, crashes, ghosts>>

SweepInterrupted ==
  /\ proc = "sweep" /\ proc' = "purge"
  /\ job' = [j \in Jobs |-> IF job[j].status = "running"
                            THEN [job[j] EXCEPT !.status = "interrupted"] ELSE job[j]]
  /\ unended' = {}
  /\ UNCHANGED <<artifact, expired, disk, catalog, pool, request, crashes, runs, confirmed,
                 built, unswept>>

(* A sweep never stops the start-up: it catches whatever fails in it.      *)
SweepFails ==
  /\ \/ /\ proc = "sweep" /\ proc' = "purge"
        /\ unended' = unended \cup {j \in Jobs : job[j].status = "running"}
        /\ UNCHANGED unswept
     \/ /\ proc = "orphans" /\ proc' = "up"
        /\ unswept' = unswept \cup {j \in Jobs : file[j] # "none" /\ artifact[j] # "available"}
        /\ UNCHANGED unended
  /\ UNCHANGED <<rows, disk, catalog, pool, request, crashes, runs, confirmed, built>>

(* purge_expired came first, and may have failed.                          *)
StartupPurged ==
  /\ proc = "purge" /\ purging = {}
  /\ proc' = "orphans"
  /\ UNCHANGED <<rows, disk, catalog, pool, request, crashes, ghosts>>

(* Mutant: only .part files are orphans.                                   *)
SweepPartialsOnly ==
  /\ proc = "orphans" /\ proc' = "up"
  /\ file' = [j \in Jobs |-> IF file[j] = "part" THEN "none" ELSE file[j]]
  /\ UNCHANGED <<rows, purging, catalog, pool, request, crashes, ghosts>>

(* sweep_orphans: every file without an available artifact, .part or not.  *)
SweepOrphans ==
  /\ proc = "orphans" /\ proc' = "up"
  /\ file' = [j \in Jobs |-> IF file[j] = "final" /\ artifact[j] = "available"
                             THEN "final" ELSE "none"]
  /\ UNCHANGED <<rows, purging, catalog, pool, request, crashes, ghosts>>

Expire(j) ==
  /\ artifact[j] = "available" /\ j \notin expired
  /\ expired' = expired \cup {j}
  /\ UNCHANGED <<job, artifact, disk, catalog, pool, request, proc, crashes, ghosts>>

AlterSource ==
  /\ catalog < MaxAlter /\ catalog' = catalog + 1
  /\ UNCHANGED <<rows, disk, pool, request, proc, crashes, ghosts>>

Handle(r) ==
  \/ \E j \in Jobs : BeginPreview(r, j) \/ BeginExecute(r, j) \/ PrepareDownload(r, j)
  \/ FreezeSelection(r) \/ CheckCapacity(r) \/ Enqueue(r) \/ Refuse(r)
  \/ SendFile(r) \/ ConsumeFile(r) \/ ConsumeRow(r)
Work(w) ==
  \/ Claim(w) \/ LoadPlan(w) \/ SwitchedOff(w) \/ LoadFails(w) \/ TakeGuard(w) \/ OpenSpool(w)
  \/ CancelSeen(w) \/ GenerateFails(w) \/ WriteAll(w) \/ Rename(w) \/ InsertRow(w)
  \/ InsertFails(w) \/ Report(w) \/ Leave(w)
StartUp == SweepInterrupted \/ SweepFails \/ StartupPurged \/ SweepOrphans
Purge == PurgeFiles \/ PurgeRows
Next ==
  \/ \E r \in Requests : Handle(r)
  \/ \E w \in Workers : Work(w)
  \/ \E j \in Jobs : CreatePlan(j) \/ Cancel(j) \/ Expire(j)
  \/ Purge \/ StartUp \/ Crash \/ AlterSource

Spec == Init /\ [][Next]_vars
FairSpec == Spec /\ WF_vars(StartUp \/ Purge) /\ \A w \in Workers : WF_vars(Work(w))

-----------------------------------------------------------------------------
(* Properties.                                                             *)

Status == {"absent", "pending", "running"} \cup Terminal
Plan == [status : Status, sel : Selections \cup {Nothing}, cat : 0..MaxAlter,
         cancel : BOOLEAN]
Stage == {"idle", "freeze", "capacity", "enqueue", "send", "consume", "consumed",
          "load", "guard", "leave"} \cup Holding
Place == [stage : Stage, job : Jobs \cup {Nothing}, sel : Selections \cup {Nothing},
          cat : 0..MaxAlter, ok : BOOLEAN]

TypeOK ==
  /\ job \in [Jobs -> Plan]
  /\ artifact \in [Jobs -> {"none", "available", "consumed", "purged"}]
  /\ file \in [Jobs -> {"none", "part", "final"}]
  /\ expired \subseteq Jobs /\ catalog \in 0..MaxAlter
  /\ queue \in Seq(Jobs) /\ inflight \subseteq Jobs /\ purging \subseteq Jobs
  /\ worker \in [Workers -> Place] /\ request \in [Requests -> Place]
  /\ proc \in {"up", "sweep", "purge", "orphans"} /\ crashes \in 0..MaxCrash
  /\ runs \in [Jobs -> Nat] /\ confirmed \in [Jobs -> SUBSET Selections]
  /\ built \in [Jobs -> Selections \cup {Nothing}]
  /\ unswept \subseteq Jobs /\ unended \subseteq Jobs

(* A plan is exported at most once, however many requests execute it and   *)
(* whatever was in the queue when the process died (run_job's claim).      *)
OneGeneration == \A j \in Jobs : runs[j] <= 1

(* A cancelled export leaves nothing to deliver (run_job: "el artefacto    *)
(* parcial se descartó").                                                  *)
CanceledLeavesNothing ==
  \A j \in Jobs : job[j].status = "canceled" => artifact[j] = "none" /\ file[j] = "none"

(* A row that offers an artifact has its file (finalize: rename first),    *)
(* except while a consumer or the purge is between the file and the row,   *)
(* or died there.                                                          *)
AvailableHasFile ==
  \A j \in Jobs : artifact[j] = "available" /\ file[j] # "final" =>
    \/ j \in purging \cup unswept
    \/ \E r \in Requests : request[r].stage = "consumed" /\ request[r].job = j

(* While the process serves, a file on disk is being written or is offered *)
(* by a row: no export data stays behind after failures, cancellations,    *)
(* consumption, retention and restarts (sweep_orphans).                    *)
NoResidue ==
  proc = "up" =>
    \A j \in Jobs : file[j] # "none" =>
      \/ artifact[j] = "available" \/ j \in unswept
      \/ \E w \in Workers : worker[w].stage \in Holding /\ worker[w].job = j

(* A running job ends, or a restart ends it (sweep_interrupted), unless the *)
(* gateway's database failed when the ending was due: such a job waits for *)
(* the next restart whose sweep works.                                     *)
Settles ==
  \A j \in Jobs :
    job[j].status = "running" ~> (job[j].status # "running" \/ j \in unended)

(* run_job never raises, every failure ends as a status of the job: while  *)
(* the process serves, a running job has a worker (run_job, "Nunca lanza"). *)
EveryFailureIsAStatus ==
  proc = "up" => \A j \in Jobs : job[j].status = "running" =>
    \E w \in Workers : worker[w].job = j /\ worker[w].stage # "leave"

(* What an artifact contains was confirmed by an execute                   *)
(* (export_execution_token: what is confirmed is exactly what was          *)
(* previewed).                                                             *)
ExportsConfirmed == \A j \in Jobs : built[j] # Nothing => built[j] \in confirmed[j]

(* A single-use artifact is sent whole by one request only                 *)
(* (verify_download_ticket: a replay finds it consumed and deleted).       *)
DeliveredOnce ==
  SingleUse => \A r, s \in Requests :
    request[r].stage = "consume" /\ request[s].stage \in {"consume", "consumed"}
      /\ request[r].job = request[s].job => r = s
=============================================================================
