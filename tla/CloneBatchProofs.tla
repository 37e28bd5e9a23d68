-------------------------- MODULE CloneBatchProofs --------------------------
(***************************************************************************)
(* CloneBatch, proved for every set of batches and databases: the state is *)
(* well typed, rows are copied one at a time, a batch that reports "done"  *)
(* copied every row, nothing of a batch that is over still runs, one job at *)
(* a time writes to a target, and a retry takes up only rows whose job left *)
(* nothing behind, or did not come to record it.                           *)
(***************************************************************************)
EXTENDS CloneBatch, TLAPS

-----------------------------------------------------------------------------
(* The inductive invariant, beyond the types.                              *)

(* Nothing is in memory while the process starts up.                       *)
QuietStart ==
  proc # "up" => /\ \A b \in Batches : thread[b] = Idle
                 /\ \A x \in Jobs : work[x] = NoWork

(* The guard of the server is held by one walk.                            *)
OneGuarded ==
  \A b, c \in Batches : thread[b].at \in Guarded /\ thread[c].at \in Guarded => b = c

(* A walk belongs to a running batch.                                      *)
WalkRuns == \A b \in Batches : thread[b].at # "off" => batch[b].status = "running"

(* The batch's own thread works on the row it waits for.                   *)
BatchWorks ==
  \A b \in Batches, d \in Dbs : work[<<b, d>>].by = "batch" =>
    thread[b].at = "next" /\ thread[b].db = d

(* What a thread works on was claimed.                                     *)
WorkClaimed == \A x \in Jobs : work[x].at # "off" => job[x].status = "running"

(* A running job is being worked on by somebody, or a failure escaped.     *)
Accounted ==
  \A x \in Jobs :
    /\ work[x].at # "off" => work[x].by # "nobody"
    /\ job[x].status = "running" =>
         work[x].at # "off" \/ x \in unswept \/ proc = "jobs"

(* No job before its row's turn.                                           *)
NoJobYet ==
  \A b \in Batches, d \in Dbs :
    \/ batch[b].status \in {"absent", "pending"}
    \/ d \in thread[b].todo
    \/ thread[b].at = "plan" /\ thread[b].db = d
    => job[<<b, d>>].status = "absent"
TurnTaken == \A b \in Batches : thread[b].db \notin thread[b].todo

(* While it prepares a row the walk has one.                               *)
DbKnown ==
  \A b \in Batches : thread[b].at \in {"plan", "link", "preview"} => thread[b].db \in Dbs

(* A copy that got past its rows put them into the target.                 *)
Loaded ==
  drift = 0 =>
    \A b \in Batches, d \in Dbs :
      work[<<b, d>>].at \in {"record", "close"} \/ job[<<b, d>>].status = "succeeded" =>
        b \in loader[d]

Core ==
  /\ QuietStart /\ OneGuarded /\ WalkRuns /\ BatchWorks /\ WorkClaimed /\ Accounted
  /\ NoJobYet /\ TurnTaken /\ DbKnown /\ Loaded /\ DoneMeansCopied

-----------------------------------------------------------------------------
(* The types of the records, and what the elementary updates do to them.   *)

BatchType == [status : {"absent"} \cup Live \cup Over, cancel : BOOLEAN]
RowType == [outcome : {"absent", "pending", "blocked", "canceled", "skipped", "none"},
            linked : BOOLEAN]
JobStatus == {"absent", "succeeded", "failed", "canceled", "interrupted"} \cup Live
JobType == [status : JobStatus, cancel : BOOLEAN, items : BOOLEAN]
ThreadAt == {"off", "guard"} \cup Guarded
ThreadType == [at : ThreadAt, todo : SUBSET Dbs, db : Dbs \cup {None}]
WorkAtSet == {"off", "load"} \cup Locked
WorkType == [at : WorkAtSet, by : {"nobody", "batch", "pool"}]

Types ==
  /\ batch \in [Batches -> BatchType] /\ row \in [Jobs -> RowType]
  /\ job \in [Jobs -> JobType] /\ thread \in [Batches -> ThreadType]
  /\ work \in [Jobs -> WorkType] /\ exists \subseteq Dbs
  /\ cancelling \in [Batches -> SUBSET Dbs]
  /\ proc \in {"up", "jobs", "batches"} /\ drift \in 0..MaxDrift /\ crashes \in 0..MaxCrash
  /\ loader \in [Dbs -> SUBSET Batches] /\ origin \in [Batches -> Batches \cup {None}]
  /\ unrecorded \subseteq Jobs /\ unswept \subseteq Jobs \cup Batches

LEMMA SameTypes == TypeOK <=> Types
  BY DEF TypeOK, Types, BatchType, RowType, JobStatus, JobType, ThreadAt, ThreadType,
     WorkAtSet, WorkType

LEMMA Pair ==
  ASSUME NEW x \in Jobs
  PROVE  x[1] \in Batches /\ x[2] \in Dbs /\ x = <<x[1], x[2]>>
  BY DEF Jobs

LEMMA Constants ==
  /\ NoJob \in JobType /\ NoRow \in RowType /\ NoWork \in WorkType /\ Idle \in ThreadType
  /\ NoJob.status = "absent" /\ NoRow.outcome = "absent" /\ ~NoRow.linked
  /\ NoWork.at = "off" /\ NoWork.by = "nobody"
  /\ Idle.at = "off" /\ Idle.todo = {} /\ Idle.db = None
  BY DEF NoJob, NoRow, NoWork, Idle, JobType, JobStatus, RowType, WorkType, WorkAtSet,
     ThreadType, ThreadAt

LEMMA ThreadFields ==
  ASSUME NEW t \in ThreadType
  PROVE  t.at \in ThreadAt /\ t.todo \subseteq Dbs /\ t.db \in Dbs \cup {None}
  BY DEF ThreadType

LEMMA JobFields ==
  ASSUME NEW j \in JobType
  PROVE  j.status \in JobStatus /\ j.cancel \in BOOLEAN /\ j.items \in BOOLEAN
  BY DEF JobType

LEMMA RowFields ==
  ASSUME NEW r \in RowType
  PROVE  /\ r.outcome \in {"absent", "pending", "blocked", "canceled", "skipped", "none"}
         /\ r.linked \in BOOLEAN
  BY DEF RowType

LEMMA ThreadRecord ==
  ASSUME NEW a \in ThreadAt, NEW D \in SUBSET Dbs, NEW d \in Dbs \cup {None}
  PROVE  LET t == [at |-> a, todo |-> D, db |-> d] IN
         t \in ThreadType /\ t.at = a /\ t.todo = D /\ t.db = d
  BY DEF ThreadType

LEMMA WalkEffect ==
  ASSUME thread \in [Batches -> ThreadType], NEW b \in Batches, NEW a \in ThreadAt, Walk(b, a)
  PROVE  /\ thread' \in [Batches -> ThreadType]
         /\ thread'[b].at = a /\ thread'[b].todo = thread[b].todo
         /\ thread'[b].db = thread[b].db
         /\ \A c \in Batches \ {b} : thread'[c] = thread[c]
<1> DEFINE t == [thread[b] EXCEPT !.at = a]
<1>1. t \in ThreadType /\ t.at = a /\ t.todo = thread[b].todo /\ t.db = thread[b].db
  BY DEF ThreadType
<1>2. thread' = [thread EXCEPT ![b] = t]
  BY DEF Walk
<1> HIDE DEF t
<1> QED
  BY <1>1, <1>2

LEMMA SetJobEffect ==
  ASSUME job \in [Jobs -> JobType], NEW x \in Jobs, NEW s \in JobStatus, SetJob(x, s)
  PROVE  /\ job' \in [Jobs -> JobType] /\ job'[x].status = s
         /\ \A y \in Jobs \ {x} : job'[y] = job[y]
<1> DEFINE j == [job[x] EXCEPT !.status = s]
<1>1. j \in JobType /\ j.status = s
  BY DEF JobType
<1>2. job' = [job EXCEPT ![x] = j]
  BY DEF SetJob
<1> HIDE DEF j
<1> QED
  BY <1>1, <1>2

LEMMA FlagEffect ==
  ASSUME job \in [Jobs -> JobType], NEW x \in Jobs, NEW f \in BOOLEAN,
         job' = [job EXCEPT ![x].cancel = f] \/ job' = [job EXCEPT ![x].items = f]
  PROVE  /\ job' \in [Jobs -> JobType]
         /\ \A y \in Jobs : job'[y].status = job[y].status
<1> DEFINE j == [job[x] EXCEPT !.cancel = f]
           k == [job[x] EXCEPT !.items = f]
<1>1. /\ j \in JobType /\ j.status = job[x].status
      /\ k \in JobType /\ k.status = job[x].status
  BY DEF JobType
<1>2. job' = [job EXCEPT ![x] = j] \/ job' = [job EXCEPT ![x] = k]
  OBVIOUS
<1> HIDE DEF j, k
<1> QED
  BY <1>1, <1>2

LEMMA WorkAtEffect ==
  ASSUME work \in [Jobs -> WorkType], NEW x \in Jobs, NEW a \in WorkAtSet, WorkAt(x, a)
  PROVE  /\ work' \in [Jobs -> WorkType]
         /\ work'[x].at = a /\ work'[x].by = work[x].by
         /\ \A y \in Jobs \ {x} : work'[y] = work[y]
<1> DEFINE w == [work[x] EXCEPT !.at = a]
<1>1. w \in WorkType /\ w.at = a /\ w.by = work[x].by
  BY DEF WorkType
<1>2. work' = [work EXCEPT ![x] = w]
  BY DEF WorkAt
<1> HIDE DEF w
<1> QED
  BY <1>1, <1>2

LEMMA StopEffect ==
  ASSUME work \in [Jobs -> WorkType], NEW x \in Jobs, Stop(x)
  PROVE  /\ work' \in [Jobs -> WorkType]
         /\ work'[x].at = "off" /\ work'[x].by = "nobody"
         /\ \A y \in Jobs \ {x} : work'[y] = work[y]
<1>1. work' = [work EXCEPT ![x] = NoWork]
  BY DEF Stop
<1> QED
  BY <1>1, Constants

LEMMA ClaimEffect ==
  ASSUME job \in [Jobs -> JobType], work \in [Jobs -> WorkType],
         NEW x \in Jobs, NEW by \in {"batch", "pool"}, Claim(x, by)
  PROVE  /\ job' \in [Jobs -> JobType] /\ work' \in [Jobs -> WorkType]
         /\ \A y \in Jobs \ {x} : job'[y] = job[y] /\ work'[y] = work[y]
         /\ \/ /\ job[x].status = "pending" /\ job'[x].status = "running"
               /\ work'[x].at = "load" /\ work'[x].by = by
            \/ job' = job /\ work' = work
<1> DEFINE w == [at |-> "load", by |-> by]
<1>1. w \in WorkType /\ w.at = "load" /\ w.by = by
  BY DEF WorkType, WorkAtSet
<1>2. "running" \in JobStatus
  BY DEF JobStatus, Live
<1>3. CASE job[x].status = "pending"
  <2>1. SetJob(x, "running") /\ work' = [work EXCEPT ![x] = w]
    BY <1>3 DEF Claim
  <2> HIDE DEF w
  <2> QED
    BY <1>1, <1>2, <1>3, <2>1, SetJobEffect
<1>4. CASE job[x].status # "pending"
  BY <1>4 DEF Claim
<1> QED
  BY <1>3, <1>4

LEMMA SetRowEffect ==
  ASSUME row \in [Jobs -> RowType], NEW x \in Jobs,
         NEW o \in {"blocked", row[x].outcome}, SetRow(x, o)
  PROVE  /\ row' \in [Jobs -> RowType]
         /\ row'[x].linked = row[x].linked /\ row'[x].outcome = o
         /\ \A y \in Jobs \ {x} : row'[y] = row[y]
<1> DEFINE r == [row[x] EXCEPT !.outcome = o]
<1>1. r \in RowType /\ r.linked = row[x].linked /\ r.outcome = o
  BY DEF RowType
<1>2. row' = [row EXCEPT ![x] = r]
  BY DEF SetRow
<1> HIDE DEF r
<1> QED
  BY <1>1, <1>2

LEMMA BatchStatusEffect ==
  ASSUME batch \in [Batches -> BatchType], NEW b \in Batches,
         NEW s \in {"absent"} \cup Live \cup Over,
         batch' = [batch EXCEPT ![b].status = s]
  PROVE  /\ batch' \in [Batches -> BatchType] /\ batch'[b].status = s
         /\ \A c \in Batches \ {b} : batch'[c] = batch[c]
<1> DEFINE r == [batch[b] EXCEPT !.status = s]
<1>1. r \in BatchType /\ r.status = s
  BY DEF BatchType
<1>2. batch' = [batch EXCEPT ![b] = r]
  OBVIOUS
<1> HIDE DEF r
<1> QED
  BY <1>1, <1>2

LEMMA BatchCancelEffect ==
  ASSUME batch \in [Batches -> BatchType], NEW b \in Batches,
         batch' = [batch EXCEPT ![b].cancel = TRUE]
  PROVE  /\ batch' \in [Batches -> BatchType]
         /\ \A c \in Batches : batch'[c].status = batch[c].status
<1> DEFINE r == [batch[b] EXCEPT !.cancel = TRUE]
<1>1. r \in BatchType /\ r.status = batch[b].status
  BY DEF BatchType
<1>2. batch' = [batch EXCEPT ![b] = r]
  OBVIOUS
<1> HIDE DEF r
<1> QED
  BY <1>1, <1>2

-----------------------------------------------------------------------------
(* What the actions that build a record or change many of them do.         *)

LEMMA PlanEffect ==
  ASSUME Types, NEW c \in Batches, NEW D \in SUBSET Dbs, Plan(c, D)
  PROVE  /\ batch' \in [Batches -> BatchType] /\ row' \in [Jobs -> RowType]
         /\ batch'[c].status = "pending"
         /\ \A b \in Batches \ {c} : batch'[b] = batch[b]
         /\ \A x \in Jobs : x[1] # c => row'[x] = row[x]
<1> DEFINE put(o) == [NoRow EXCEPT !.outcome = o]
<1>1. put("pending") \in RowType /\ put("blocked") \in RowType
  BY DEF NoRow, RowType
<1>2. /\ batch' = [batch EXCEPT ![c].status = "pending"]
      /\ row' = [x \in Jobs |-> IF x[1] = c /\ x[2] \in D
                                THEN put(IF Fits(x[2]) THEN "pending" ELSE "blocked")
                                ELSE row[x]]
  BY DEF Plan
<1>3. row \in [Jobs -> RowType] /\ batch \in [Batches -> BatchType]
  BY DEF Types
<1> HIDE DEF put
<1>4. row' \in [Jobs -> RowType] /\ \A x \in Jobs : x[1] # c => row'[x] = row[x]
  BY <1>1, <1>2, <1>3
<1> QED
  BY <1>2, <1>3, <1>4, BatchStatusEffect DEF Live

LEMMA ExecuteEffect ==
  ASSUME Types, NEW b \in Batches, ExecuteBatch(b)
  PROVE  /\ batch' \in [Batches -> BatchType] /\ thread' \in [Batches -> ThreadType]
         /\ batch'[b].status = "running" /\ batch[b].status = "pending"
         /\ thread'[b].at = "guard" /\ thread'[b].db = None
         /\ thread'[b].todo \subseteq Dbs
         /\ \A c \in Batches \ {b} : batch'[c] = batch[c] /\ thread'[c] = thread[c]
<1>1. PICK allowed \in SUBSET Pending(b) :
        thread' = [thread EXCEPT ![b] = [at |-> "guard", todo |-> allowed, db |-> None]]
  BY DEF ExecuteBatch
<1> DEFINE t == [at |-> "guard", todo |-> allowed, db |-> None]
<1>2. t \in ThreadType /\ t.at = "guard" /\ t.todo = allowed /\ t.db = None
  BY ThreadRecord DEF Pending, ThreadAt
<1>3. thread' = [thread EXCEPT ![b] = t]
  BY <1>1
<1> HIDE DEF t
<1>4. batch' = [batch EXCEPT ![b].status = "running"] /\ batch[b].status = "pending"
  BY DEF ExecuteBatch
<1> QED
  BY <1>2, <1>3, <1>4, BatchStatusEffect DEF Types, Live, Pending

LEMMA NextEffect ==
  ASSUME Types, NEW b \in Batches, NextRow(b)
  PROVE  \E d \in thread[b].todo :
           /\ thread' \in [Batches -> ThreadType] /\ d \in Dbs
           /\ thread'[b].at = "plan" /\ thread'[b].db = d
           /\ thread'[b].todo = thread[b].todo \ {d}
           /\ \A c \in Batches \ {b} : thread'[c] = thread[c]
<1>1. PICK d \in thread[b].todo : thread' =
        [thread EXCEPT ![b] = [at |-> "plan", todo |-> @.todo \ {d}, db |-> d]]
  BY DEF NextRow
<1>2. thread \in [Batches -> ThreadType] /\ thread[b].todo \subseteq Dbs
  BY ThreadFields DEF Types
<1> DEFINE t == [at |-> "plan", todo |-> thread[b].todo \ {d}, db |-> d]
<1>3. t \in ThreadType /\ t.at = "plan" /\ t.todo = thread[b].todo \ {d} /\ t.db = d
  BY <1>2, ThreadRecord DEF ThreadAt, Guarded
<1>4. thread' = [thread EXCEPT ![b] = t]
  BY <1>1
<1> HIDE DEF t
<1> QED
  BY <1>2, <1>3, <1>4

LEMMA CloseRemainingEffect ==
  ASSUME Types, NEW b \in Batches, CloseRemaining(b)
  PROVE  /\ row' \in [Jobs -> RowType] /\ thread' \in [Batches -> ThreadType]
         /\ thread'[b].at = thread[b].at /\ thread'[b].db = thread[b].db
         /\ thread'[b].todo = {}
         /\ \A c \in Batches \ {b} : thread'[c] = thread[c]
         /\ \A x \in Jobs : x[1] # b => row'[x] = row[x]
<1> DEFINE t == [thread[b] EXCEPT !.todo = {}]
           close(r) == [r EXCEPT !.outcome = "canceled"]
<1>1. thread \in [Batches -> ThreadType] /\ row \in [Jobs -> RowType]
  BY DEF Types
<1>2. t \in ThreadType /\ t.at = thread[b].at /\ t.db = thread[b].db /\ t.todo = {}
  BY <1>1 DEF ThreadType
<1>3. \A r \in RowType : close(r) \in RowType
  BY DEF RowType
<1>4. /\ thread' = [thread EXCEPT ![b] = t]
      /\ row' = [x \in Jobs |-> IF x[1] = b /\ row[x].outcome = "pending"
                                THEN close(row[x]) ELSE row[x]]
  BY DEF CloseRemaining
<1> HIDE DEF t, close
<1> QED
  BY <1>1, <1>2, <1>3, <1>4

LEMMA LinkEffect ==
  ASSUME Types, NEW b \in Batches, LinkJob(b)
  PROVE  /\ row' \in [Jobs -> RowType]
         /\ \A x \in Jobs : x[1] # b => row'[x] = row[x]
<1> DEFINE r == [outcome |-> "none", linked |-> TRUE]
           x0 == <<b, thread[b].db>>
<1>1. r \in RowType
  BY DEF RowType
<1>2. row \in [Jobs -> RowType] /\ x0[1] = b
  BY DEF Types
<1>3. row' = [row EXCEPT ![x0] = r]
  BY DEF LinkJob
<1> HIDE DEF r, x0
<1> QED
  BY <1>1, <1>2, <1>3

LEMMA SweepJobsEffect ==
  ASSUME Types, SweepJobs
  PROVE  /\ job' \in [Jobs -> JobType]
         /\ \A x \in Jobs : job'[x].status = IF job[x].status = "running"
                                             THEN "interrupted" ELSE job[x].status
<1> DEFINE stop(j) == [j EXCEPT !.status = "interrupted"]
<1>1. \A j \in JobType : stop(j) \in JobType /\ stop(j).status = "interrupted"
  BY DEF JobType, JobStatus
<1>2. job' = [x \in Jobs |-> IF job[x].status = "running" THEN stop(job[x]) ELSE job[x]]
  BY DEF SweepJobs
<1>3. job \in [Jobs -> JobType]
  BY DEF Types
<1> HIDE DEF stop
<1> QED
  BY <1>1, <1>2, <1>3

LEMMA SweepBatchesEffect ==
  ASSUME Types, SweepBatches
  PROVE  /\ batch' \in [Batches -> BatchType] /\ row' \in [Jobs -> RowType]
         /\ \A b \in Batches : batch'[b].status = IF batch[b].status = "running"
                                                  THEN "interrupted" ELSE batch[b].status
         /\ \A x \in Jobs : batch[x[1]].status # "running" => row'[x] = row[x]
<1> DEFINE hung == {b \in Batches : batch[b].status = "running"}
           stop(b) == [b EXCEPT !.status = "interrupted"]
           skip(r) == [r EXCEPT !.outcome = "skipped"]
<1>1. /\ \A b \in BatchType : stop(b) \in BatchType /\ stop(b).status = "interrupted"
      /\ \A r \in RowType : skip(r) \in RowType
  BY DEF BatchType, RowType, Over
<1>2. /\ batch' = [b \in Batches |-> IF b \in hung THEN stop(batch[b]) ELSE batch[b]]
      /\ row' = [x \in Jobs |-> IF x[1] \in hung /\ row[x].outcome = "pending"
                                THEN skip(row[x]) ELSE row[x]]
  BY DEF SweepBatches
<1>3. batch \in [Batches -> BatchType] /\ row \in [Jobs -> RowType]
  BY DEF Types
<1>4. \A x \in Jobs : batch[x[1]].status # "running" => x[1] \notin hung
  OBVIOUS
<1>5. \A b \in Batches : b \in hung <=> batch[b].status = "running"
  OBVIOUS
<1> HIDE DEF stop, skip, hung
<1> QED
  BY <1>1, <1>2, <1>3, <1>4, <1>5

LEMMA IdleEffect ==
  ASSUME Types, NEW b \in Batches, thread' = [thread EXCEPT ![b] = Idle]
  PROVE  /\ thread' \in [Batches -> ThreadType] /\ thread'[b].at = "off"
         /\ thread'[b].todo = {} /\ thread'[b].db = None
         /\ \A c \in Batches \ {b} : thread'[c] = thread[c]
  BY Constants DEF Types

LEMMA FinishEffect ==
  ASSUME Types, NEW b \in Batches, FinishBatch(b)
  PROVE  /\ batch' \in [Batches -> BatchType]
         /\ \A c \in Batches \ {b} : batch'[c] = batch[c]
         /\ batch'[b].status \in {"done", "partial", "canceled"}
         /\ batch'[b].status = "done" => \A d \in RowsOf(b) : Effective(<<b, d>>) = "succeeded"
<1> DEFINE s == CASE batch[b].cancel -> "canceled"
                  [] ~batch[b].cancel /\ \A d \in RowsOf(b) : Effective(<<b, d>>) = "succeeded" -> "done"
                  [] OTHER -> "partial"
<1>1. /\ s \in {"done", "partial", "canceled"}
      /\ s = "done" => \A d \in RowsOf(b) : Effective(<<b, d>>) = "succeeded"
  OBVIOUS
<1>2. batch' = [batch EXCEPT ![b].status = s]
  BY DEF FinishBatch
<1>3. s \in {"absent"} \cup Live \cup Over
  BY <1>1 DEF Over
<1> HIDE DEF s
<1> QED
  BY <1>1, <1>2, <1>3, BatchStatusEffect DEF Types

LEMMA AbortEffect ==
  ASSUME Types, NEW b \in Batches, <<b, thread[b].db>> \in Jobs, AbortPendingJob(b)
  PROVE  LET x == <<b, thread[b].db>> IN
         /\ job' \in [Jobs -> JobType]
         /\ job'[x].status = IF job[x].status = "pending" THEN "failed" ELSE job[x].status
         /\ \A y \in Jobs \ {x} : job'[y] = job[y]
<1> DEFINE x == <<b, thread[b].db>>
           s == IF job[x].status = "pending" THEN "failed" ELSE job[x].status
<1>1. job \in [Jobs -> JobType] /\ x \in Jobs
  BY DEF Types
<1>2. s \in JobStatus
  BY <1>1, JobFields DEF JobStatus
<1>3. job' = [job EXCEPT ![x].status = s]
  BY <1>1 DEF AbortPendingJob
<1>4. SetJob(x, s)
  BY <1>3 DEF SetJob
<1> HIDE DEF x, s
<1>5. /\ job' \in [Jobs -> JobType] /\ job'[x].status = s
      /\ \A y \in Jobs \ {x} : job'[y] = job[y]
  BY <1>1, <1>2, <1>4, SetJobEffect
<1> QED
  BY <1>5 DEF x, s

-----------------------------------------------------------------------------
(* The types are kept.                                                     *)

LEMMA CreateBatchTypes ==
  ASSUME Types, NEW b \in Batches, CreateBatch(b)
  PROVE  Types'
<1>1. PICK D \in SUBSET Dbs : Plan(b, D)
  BY DEF CreateBatch
<1> QED
  BY <1>1, PlanEffect DEF Types, CreateBatch, Plan, outside, walk, process

LEMMA ExecuteBatchTypes ==
  ASSUME Types, NEW b \in Batches, ExecuteBatch(b)
  PROVE  Types'
  BY ExecuteEffect DEF Types, ExecuteBatch, outside, process, ghosts

LEMMA CancelBatchTypes ==
  ASSUME Types, NEW b \in Batches, CancelBatch(b)
  PROVE  Types'
  BY BatchCancelEffect DEF Types, CancelBatch, outside, process, ghosts

LEMMA RetryFailedTypes ==
  ASSUME Types, NEW b \in Batches, NEW c \in Batches, RetryFailed(b, c)
  PROVE  Types'
<1>1. PICK D \in SUBSET Dbs : Plan(c, D)
  BY DEF RetryFailed, Retryable, RowsOf
<1> QED
  BY <1>1, PlanEffect DEF Types, RetryFailed, Plan, outside, walk, process

LEMMA RequestCancelTypes ==
  ASSUME Types, NEW b \in Batches, NEW d \in Dbs, RequestCancel(b, d)
  PROVE  Types'
<1>1. LET f == job[<<b, d>>].cancel \/ job[<<b, d>>].status \in Live IN
      f \in BOOLEAN /\ job' = [job EXCEPT ![<<b, d>>].cancel = f]
  BY JobFields DEF RequestCancel, Types, Jobs
<1> QED
  BY <1>1, FlagEffect DEF Types, RequestCancel, outside, process, ghosts

LEMMA ExecuteCloneTypes ==
  ASSUME Types, NEW x \in Jobs, ExecuteClone(x)
  PROVE  Types'
  BY ClaimEffect DEF Types, ExecuteClone, outside, walk, process, ghosts

LEMMA CancelCloneTypes ==
  ASSUME Types, NEW x \in Jobs, CancelClone(x)
  PROVE  Types'
  BY FlagEffect DEF Types, CancelClone, outside, walk, process, ghosts

LEMMA SweepJobsTypes ==
  ASSUME Types, SweepJobs
  PROVE  Types'
  BY SweepJobsEffect DEF Types, SweepJobs, outside, walk, ghosts

LEMMA SweepBatchesTypes ==
  ASSUME Types, SweepBatches
  PROVE  Types'
  BY SweepBatchesEffect DEF Types, SweepBatches, outside, walk, ghosts

LEMMA SweepFailsTypes ==
  ASSUME Types, SweepFails
  PROVE  Types'
  BY DEF Types, SweepFails, outside, walk

LEMMA CrashTypes ==
  ASSUME Types, Crash
  PROVE  Types'
  BY Constants, CloneAssumption DEF Types, Crash, outside

LEMMA TargetDriftsTypes ==
  ASSUME Types, TargetDrifts
  PROVE  Types'
  BY CloneAssumption DEF Types, TargetDrifts, walk, process

LEMMA TakeServerGuardTypes ==
  ASSUME Types, NEW b \in Batches, TakeServerGuard(b)
  PROVE  Types'
<1>1. "next" \in ThreadAt
  BY DEF ThreadAt, Guarded
<1> QED
  BY <1>1, WalkEffect DEF Types, TakeServerGuard, outside, process, ghosts

LEMMA NextRowTypes ==
  ASSUME Types, NEW b \in Batches, NextRow(b)
  PROVE  Types'
  BY NextEffect DEF Types, NextRow, outside, process, ghosts

LEMMA CloseRemainingTypes ==
  ASSUME Types, NEW b \in Batches, CloseRemaining(b)
  PROVE  Types'
  BY CloseRemainingEffect DEF Types, CloseRemaining, outside, process, ghosts

LEMMA CreateJobTypes ==
  ASSUME Types, DbKnown, NEW b \in Batches, CreateJob(b)
  PROVE  Types'
<1>1. <<b, thread[b].db>> \in Jobs
  BY DEF DbKnown, CreateJob, Jobs
<1>2. "pending" \in JobStatus /\ "link" \in ThreadAt
  BY DEF JobStatus, Live, ThreadAt, Guarded
<1> QED
  BY <1>1, <1>2, SetJobEffect, WalkEffect DEF Types, CreateJob, outside, process, ghosts

LEMMA LinkJobTypes ==
  ASSUME Types, NEW b \in Batches, LinkJob(b)
  PROVE  Types'
<1>1. "preview" \in ThreadAt
  BY DEF ThreadAt, Guarded
<1> QED
  BY <1>1, LinkEffect, WalkEffect DEF Types, LinkJob, outside, process, ghosts

LEMMA BlockItemTypes ==
  ASSUME Types, DbKnown, NEW b \in Batches, BlockItem(b)
  PROVE  Types'
<1>1. <<b, thread[b].db>> \in Jobs
  BY DEF DbKnown, BlockItem, Jobs
<1>2. "next" \in ThreadAt
  BY DEF ThreadAt, Guarded
<1> QED
  BY <1>1, <1>2, SetRowEffect, WalkEffect DEF Types, BlockItem, outside, process, ghosts

LEMMA AbortPendingJobTypes ==
  ASSUME Types, DbKnown, NEW b \in Batches, AbortPendingJob(b)
  PROVE  Types'
<1>1. <<b, thread[b].db>> \in Jobs
  BY DEF DbKnown, AbortPendingJob, Jobs
<1>2. "next" \in ThreadAt
  BY DEF ThreadAt, Guarded
<1> QED
  BY <1>1, <1>2, AbortEffect, WalkEffect DEF Types, AbortPendingJob, outside,
     process, ghosts

LEMMA RunRowTypes ==
  ASSUME Types, DbKnown, NEW b \in Batches, RunRow(b)
  PROVE  Types'
<1>1. <<b, thread[b].db>> \in Jobs
  BY DEF DbKnown, RunRow, Jobs
<1>2. "next" \in ThreadAt
  BY DEF ThreadAt, Guarded
<1> QED
  BY <1>1, <1>2, ClaimEffect, WalkEffect DEF Types, RunRow, outside, process, ghosts

LEMMA FinishBatchTypes ==
  ASSUME Types, NEW b \in Batches, FinishBatch(b)
  PROVE  Types'
  BY FinishEffect, IdleEffect DEF Types, FinishBatch, outside, process, ghosts

LEMMA WalkFailsTypes ==
  ASSUME Types, NEW b \in Batches, WalkFails(b)
  PROVE  Types'
  BY IdleEffect DEF Types, WalkFails, outside, process

LEMMA LoadFailsTypes ==
  ASSUME Types, NEW x \in Jobs, LoadFails(x)
  PROVE  Types'
<1>1. PICK o \in {"blocked", row[x].outcome} : SetRow(x, o)
  BY DEF LoadFails, SetRow
<1> QED
  BY <1>1, SetRowEffect, StopEffect DEF Types, LoadFails, outside, walk, process

LEMMA TakeLockTypes ==
  ASSUME Types, NEW x \in Jobs, TakeLock(x)
  PROVE  Types'
<1>1. "prepare" \in WorkAtSet
  BY DEF WorkAtSet, Locked
<1> QED
  BY <1>1, WorkAtEffect DEF Types, TakeLock, outside, walk, process, ghosts

LEMMA PhaseFailsTypes ==
  ASSUME Types, NEW x \in Jobs, PhaseFails(x)
  PROVE  Types'
<1>1. "failed" \in JobStatus
  BY DEF JobStatus
<1> QED
  BY <1>1, SetJobEffect, StopEffect DEF Types, PhaseFails, outside, walk, process,
     ghosts

LEMMA CancelSeenTypes ==
  ASSUME Types, NEW x \in Jobs, CancelSeen(x)
  PROVE  Types'
<1>1. "canceled" \in JobStatus
  BY DEF JobStatus
<1> QED
  BY <1>1, SetJobEffect, StopEffect DEF Types, CancelSeen, outside, walk, process,
     ghosts

LEMMA PrepareTargetTypes ==
  ASSUME Types, NEW x \in Jobs, PrepareTarget(x)
  PROVE  Types'
<1>1. "copy" \in WorkAtSet
  BY DEF WorkAtSet, Locked
<1>2. x[2] \in Dbs
  BY Pair
<1> QED
  BY <1>1, <1>2, WorkAtEffect DEF Types, PrepareTarget, walk, process, ghosts

LEMMA CopyRowsTypes ==
  ASSUME Types, NEW x \in Jobs, CopyRows(x)
  PROVE  Types'
<1>1. "record" \in WorkAtSet
  BY DEF WorkAtSet, Locked
<1>2. x[1] \in Batches /\ x[2] \in Dbs
  BY Pair
<1> QED
  BY <1>1, <1>2, WorkAtEffect DEF Types, CopyRows, outside, walk, process

LEMMA RecordItemsTypes ==
  ASSUME Types, NEW x \in Jobs, RecordItems(x)
  PROVE  Types'
<1>1. "close" \in WorkAtSet
  BY DEF WorkAtSet, Locked
<1> QED
  BY <1>1, FlagEffect, WorkAtEffect DEF Types, RecordItems, outside, walk, process,
     ghosts

LEMMA RecordFailsTypes ==
  ASSUME Types, NEW x \in Jobs, RecordFails(x)
  PROVE  Types'
<1>1. "failed" \in JobStatus
  BY DEF JobStatus
<1> QED
  BY <1>1, SetJobEffect, StopEffect DEF Types, RecordFails, outside, walk, process

LEMMA CloseJobTypes ==
  ASSUME Types, NEW x \in Jobs, CloseJob(x)
  PROVE  Types'
<1>1. PICK s \in {"succeeded", "failed"} : SetJob(x, s)
  BY DEF CloseJob
<1>2. s \in JobStatus
  BY DEF JobStatus
<1> QED
  BY <1>1, <1>2, SetJobEffect, StopEffect DEF Types, CloseJob, outside, walk,
     process, ghosts

LEMMA CreateBatchCore ==
  ASSUME Types, Core, NEW b \in Batches, CreateBatch(b)
  PROVE  Core'
<1>1. proc = "up"
  BY DEF CreateBatch
<1>2. /\ batch[b].status = "absent" /\ batch'[b].status = "pending"
      /\ \A e \in Batches \ {b} : batch'[e] = batch[e]
      /\ \A y \in Jobs : y[1] # b => row'[y] = row[y]
  BY PlanEffect DEF CreateBatch
<1>3. UNCHANGED <<job, thread, work, proc, drift, loader, unswept>>
  BY DEF CreateBatch, Plan, outside, walk, process
<1>4. QuietStart' /\ OneGuarded' /\ BatchWorks' /\ WorkClaimed' /\ Accounted'
      /\ TurnTaken' /\ DbKnown' /\ Loaded'
  BY <1>3 DEF Core, QuietStart, OneGuarded, BatchWorks, WorkClaimed, Accounted,
     TurnTaken, DbKnown, Loaded
<1>5. WalkRuns'
  BY <1>1, <1>2, <1>3 DEF Core, WalkRuns
<1>6. NoJobYet'
  BY <1>1, <1>2, <1>3 DEF Core, NoJobYet, Jobs
<1>7. DoneMeansCopied'
  BY <1>1, <1>2, <1>3 DEF Core, DoneMeansCopied, RowsOf, Jobs
<1> QED
  BY <1>4, <1>5, <1>6, <1>7 DEF Core

LEMMA ExecuteBatchCore ==
  ASSUME Types, Core, NEW b \in Batches, ExecuteBatch(b)
  PROVE  Core'
<1>1. proc = "up"
  BY DEF ExecuteBatch
<1>2. /\ batch[b].status = "pending" /\ batch'[b].status = "running"
      /\ thread'[b].at = "guard" /\ thread'[b].todo \subseteq Dbs /\ thread'[b].db = None
      /\ \A c \in Batches \ {b} : batch'[c] = batch[c] /\ thread'[c] = thread[c]
  BY ExecuteEffect
<1>3. UNCHANGED <<row, job, work, proc, drift, loader, unswept>>
  BY DEF ExecuteBatch, outside, process, ghosts
<1>4. WorkClaimed' /\ Accounted' /\ Loaded'
  BY <1>3 DEF Core, WorkClaimed, Accounted, Loaded
<1>5. QuietStart'
  BY <1>1, <1>2, <1>3 DEF Core, QuietStart
<1>6. OneGuarded'
  BY <1>1, <1>2, <1>3 DEF Core, OneGuarded, Guarded
<1>7. WalkRuns'
  BY <1>1, <1>2, <1>3 DEF Core, WalkRuns
<1>8. BatchWorks'
  BY <1>1, <1>2, <1>3 DEF Core, BatchWorks, WalkRuns, Jobs
<1>9. NoJobYet'
  BY <1>1, <1>2, <1>3 DEF Core, NoJobYet, Jobs
<1>10. TurnTaken'
  BY <1>1, <1>2, <1>3, CloneAssumption DEF Core, TurnTaken
<1>11. DbKnown'
  BY <1>1, <1>2, <1>3 DEF Core, DbKnown
<1>12. DoneMeansCopied'
  BY <1>1, <1>2, <1>3 DEF Core, DoneMeansCopied, RowsOf, Jobs
<1> QED
  BY <1>4, <1>5, <1>6, <1>7, <1>8, <1>9, <1>10, <1>11, <1>12 DEF Core

LEMMA CancelBatchCore ==
  ASSUME Types, Core, NEW b \in Batches, CancelBatch(b)
  PROVE  Core'
<1>1. \A c \in Batches : batch'[c].status = batch[c].status
  BY BatchCancelEffect DEF CancelBatch, Types
<1>2. UNCHANGED <<row, job, thread, work, proc, drift, loader, unswept>>
  BY DEF CancelBatch, outside, process, ghosts
<1>3. QuietStart' /\ OneGuarded' /\ BatchWorks' /\ WorkClaimed' /\ Accounted'
      /\ TurnTaken' /\ DbKnown' /\ Loaded'
  BY <1>2 DEF Core, QuietStart, OneGuarded, BatchWorks, WorkClaimed, Accounted,
     TurnTaken, DbKnown, Loaded
<1>4. WalkRuns'
  BY <1>1, <1>2 DEF Core, WalkRuns
<1>5. NoJobYet'
  BY <1>1, <1>2 DEF Core, NoJobYet, Jobs
<1>6. DoneMeansCopied'
  BY <1>1, <1>2 DEF Core, DoneMeansCopied, RowsOf, Jobs
<1> QED
  BY <1>3, <1>4, <1>5, <1>6 DEF Core

LEMMA RetryFailedCore ==
  ASSUME Types, Core, NEW b \in Batches, NEW c \in Batches, RetryFailed(b, c)
  PROVE  Core'
<1>1. proc = "up"
  BY DEF RetryFailed
<1>2. /\ batch[c].status = "absent" /\ batch'[c].status = "pending"
      /\ \A e \in Batches \ {c} : batch'[e] = batch[e]
      /\ \A y \in Jobs : y[1] # c => row'[y] = row[y]
  BY PlanEffect DEF RetryFailed, Retryable, RowsOf
<1>3. UNCHANGED <<job, thread, work, proc, drift, loader, unswept>>
  BY DEF RetryFailed, Plan, outside, walk, process
<1>4. QuietStart' /\ OneGuarded' /\ BatchWorks' /\ WorkClaimed' /\ Accounted'
      /\ TurnTaken' /\ DbKnown' /\ Loaded'
  BY <1>3 DEF Core, QuietStart, OneGuarded, BatchWorks, WorkClaimed, Accounted,
     TurnTaken, DbKnown, Loaded
<1>5. WalkRuns'
  BY <1>1, <1>2, <1>3 DEF Core, WalkRuns
<1>6. NoJobYet'
  BY <1>1, <1>2, <1>3 DEF Core, NoJobYet, Jobs
<1>7. DoneMeansCopied'
  BY <1>1, <1>2, <1>3 DEF Core, DoneMeansCopied, RowsOf, Jobs
<1> QED
  BY <1>4, <1>5, <1>6, <1>7 DEF Core

LEMMA RequestCancelCore ==
  ASSUME Types, Core, NEW b \in Batches, NEW d \in Dbs, RequestCancel(b, d)
  PROVE  Core'
<1>1. \A y \in Jobs : job'[y].status = job[y].status
  <2> DEFINE f == job[<<b, d>>].cancel \/ job[<<b, d>>].status \in Live
  <2>1. f \in BOOLEAN /\ job' = [job EXCEPT ![<<b, d>>].cancel = f]
    BY JobFields DEF RequestCancel, Types, Jobs
  <2> QED
    BY <2>1, FlagEffect DEF Types, Jobs
<1>2. UNCHANGED <<batch, row, thread, work, proc, drift, loader, unswept>>
  BY DEF RequestCancel, outside, process, ghosts
<1>3. QuietStart' /\ OneGuarded' /\ WalkRuns' /\ BatchWorks' /\ TurnTaken' /\ DbKnown'
  BY <1>2 DEF Core, QuietStart, OneGuarded, WalkRuns, BatchWorks, TurnTaken, DbKnown
<1>4. WorkClaimed'
  BY <1>1, <1>2 DEF Core, WorkClaimed
<1>5. Accounted'
  BY <1>1, <1>2 DEF Core, Accounted, Jobs
<1>6. NoJobYet'
  BY <1>1, <1>2 DEF Core, NoJobYet, Jobs
<1>7. Loaded'
  BY <1>1, <1>2 DEF Core, Loaded, Jobs
<1>8. DoneMeansCopied'
  BY <1>1, <1>2 DEF Core, DoneMeansCopied, RowsOf, Jobs
<1> QED
  BY <1>3, <1>4, <1>5, <1>6, <1>7, <1>8 DEF Core

LEMMA ExecuteCloneCore ==
  ASSUME Types, Core, NEW x \in Jobs, ExecuteClone(x)
  PROVE  Core'
<1>1. proc = "up"
  BY DEF ExecuteClone
<1>2. /\ \A y \in Jobs \ {x} : job'[y] = job[y] /\ work'[y] = work[y]
      /\ \/ /\ job[x].status = "pending" /\ job'[x].status = "running"
            /\ work'[x].at = "load" /\ work'[x].by = "pool"
         \/ job' = job /\ work' = work
  BY ClaimEffect DEF ExecuteClone, Types
<1>3. UNCHANGED <<batch, row, thread, proc, drift, loader, unswept>>
  BY DEF ExecuteClone, outside, walk, process, ghosts
<1>4. OneGuarded' /\ WalkRuns' /\ TurnTaken' /\ DbKnown'
  BY <1>3 DEF Core, OneGuarded, WalkRuns, TurnTaken, DbKnown
<1>5. QuietStart'
  BY <1>1, <1>2, <1>3 DEF Core, QuietStart
<1>6. BatchWorks'
  BY <1>1, <1>2, <1>3 DEF Core, BatchWorks, WorkClaimed, Jobs
<1>7. WorkClaimed'
  BY <1>1, <1>2, <1>3 DEF Core, WorkClaimed
<1>8. Accounted'
  BY <1>1, <1>2, <1>3 DEF Core, Accounted, Jobs
<1>9. NoJobYet'
  BY <1>1, <1>2, <1>3 DEF Core, NoJobYet, Jobs
<1>10. Loaded'
  BY <1>1, <1>2, <1>3 DEF Core, Loaded, Jobs
<1>11. DoneMeansCopied'
  BY <1>1, <1>2, <1>3 DEF Core, DoneMeansCopied, RowsOf, Jobs
<1> QED
  BY <1>4, <1>5, <1>6, <1>7, <1>8, <1>9, <1>10, <1>11 DEF Core

LEMMA CancelCloneCore ==
  ASSUME Types, Core, NEW x \in Jobs, CancelClone(x)
  PROVE  Core'
<1>1. \A y \in Jobs : job'[y].status = job[y].status
  BY FlagEffect DEF CancelClone, Types
<1>2. UNCHANGED <<batch, row, thread, work, proc, drift, loader, unswept>>
  BY DEF CancelClone, outside, walk, process, ghosts
<1>3. QuietStart' /\ OneGuarded' /\ WalkRuns' /\ BatchWorks' /\ TurnTaken' /\ DbKnown'
  BY <1>2 DEF Core, QuietStart, OneGuarded, WalkRuns, BatchWorks, TurnTaken, DbKnown
<1>4. WorkClaimed'
  BY <1>1, <1>2 DEF Core, WorkClaimed
<1>5. Accounted'
  BY <1>1, <1>2 DEF Core, Accounted, Jobs
<1>6. NoJobYet'
  BY <1>1, <1>2 DEF Core, NoJobYet, Jobs
<1>7. Loaded'
  BY <1>1, <1>2 DEF Core, Loaded, Jobs
<1>8. DoneMeansCopied'
  BY <1>1, <1>2 DEF Core, DoneMeansCopied, RowsOf, Jobs
<1> QED
  BY <1>3, <1>4, <1>5, <1>6, <1>7, <1>8 DEF Core

LEMMA SweepJobsCore ==
  ASSUME Types, Core, SweepJobs
  PROVE  Core'
<1>1. proc # "up" /\ proc' # "up"
  BY DEF SweepJobs
<1>2. \A x \in Jobs : job'[x].status =
        IF job[x].status = "running" THEN "interrupted" ELSE job[x].status
  BY SweepJobsEffect
<1>3. UNCHANGED <<batch, row, thread, work, drift, loader, unswept>>
  BY DEF SweepJobs, outside, walk, ghosts
<1>4. OneGuarded' /\ WalkRuns' /\ BatchWorks' /\ TurnTaken' /\ DbKnown'
  BY <1>3 DEF Core, OneGuarded, WalkRuns, BatchWorks, TurnTaken, DbKnown
<1>5. QuietStart'
  BY <1>1, <1>2, <1>3 DEF Core, QuietStart
<1>6. WorkClaimed'
  BY <1>1, <1>2, <1>3, Constants DEF Core, WorkClaimed, QuietStart
<1>7. Accounted'
  BY <1>1, <1>2, <1>3 DEF Core, Accounted, Jobs
<1>8. NoJobYet'
  BY <1>1, <1>2, <1>3 DEF Core, NoJobYet, Jobs
<1>9. Loaded'
  BY <1>1, <1>2, <1>3 DEF Core, Loaded, Jobs
<1>10. DoneMeansCopied'
  BY <1>1, <1>2, <1>3 DEF Core, DoneMeansCopied, RowsOf, Jobs
<1> QED
  BY <1>4, <1>5, <1>6, <1>7, <1>8, <1>9, <1>10 DEF Core

LEMMA SweepBatchesCore ==
  ASSUME Types, Core, SweepBatches
  PROVE  Core'
<1>1. proc = "batches" /\ proc' = "up"
  BY DEF SweepBatches
<1>2. /\ \A b \in Batches : batch'[b].status =
           IF batch[b].status = "running" THEN "interrupted" ELSE batch[b].status
      /\ \A x \in Jobs : batch[x[1]].status # "running" => row'[x] = row[x]
  BY SweepBatchesEffect
<1>3. UNCHANGED <<job, thread, work, drift, loader, unswept>>
  BY DEF SweepBatches, outside, walk, ghosts
<1>4. OneGuarded' /\ BatchWorks' /\ WorkClaimed' /\ TurnTaken' /\ DbKnown' /\ Loaded'
  BY <1>3 DEF Core, OneGuarded, BatchWorks, WorkClaimed, TurnTaken, DbKnown, Loaded
<1>5. QuietStart'
  BY <1>1, <1>2, <1>3 DEF Core, QuietStart
<1>6. WalkRuns'
  BY <1>1, <1>2, <1>3, Constants DEF Core, WalkRuns, QuietStart
<1>7. Accounted'
  BY <1>1, <1>2, <1>3 DEF Core, Accounted, Jobs
<1>8. NoJobYet'
  BY <1>1, <1>2, <1>3 DEF Core, NoJobYet, Jobs
<1>9. DoneMeansCopied'
  BY <1>1, <1>2, <1>3 DEF Core, DoneMeansCopied, Jobs, RowsOf
<1> QED
  BY <1>4, <1>5, <1>6, <1>7, <1>8, <1>9 DEF Core

LEMMA SweepFailsCore ==
  ASSUME Types, Core, SweepFails
  PROVE  Core'
<1>1. /\ proc # "up" /\ proc' # "jobs"
      /\ \A x \in Jobs : x \in unswept \/ (proc = "jobs" /\ job[x].status = "running")
           => x \in unswept'
  BY DEF SweepFails
<1>2. UNCHANGED <<batch, row, job, thread, work, drift, loader>>
  BY DEF SweepFails, outside, walk
<1>3. OneGuarded' /\ WalkRuns' /\ BatchWorks' /\ WorkClaimed' /\ NoJobYet'
      /\ TurnTaken' /\ DbKnown' /\ Loaded' /\ DoneMeansCopied'
  BY <1>2 DEF Core, OneGuarded, WalkRuns, BatchWorks, WorkClaimed, NoJobYet,
     TurnTaken, DbKnown, Loaded, DoneMeansCopied, RowsOf
<1>4. QuietStart'
  BY <1>1, <1>2 DEF Core, QuietStart
<1>5. Accounted'
  BY <1>1, <1>2 DEF Core, Accounted, Jobs
<1> QED
  BY <1>3, <1>4, <1>5 DEF Core

LEMMA CrashCore ==
  ASSUME Types, Core, Crash
  PROVE  Core'
<1>1. /\ \A b \in Batches : thread'[b] = Idle
      /\ \A x \in Jobs : work'[x] = NoWork
      /\ proc' = "jobs"
  BY DEF Crash
<1>2. UNCHANGED <<batch, row, job, drift, loader, unswept>>
  BY DEF Crash, outside
<1>3. DoneMeansCopied'
  BY <1>2 DEF Core, DoneMeansCopied, RowsOf
<1>4. QuietStart'
  BY <1>1, <1>2 DEF Core, QuietStart
<1>5. OneGuarded'
  BY <1>1, <1>2, Constants DEF Core, OneGuarded, Guarded
<1>6. WalkRuns'
  BY <1>1, <1>2, Constants DEF Core, WalkRuns
<1>7. BatchWorks'
  BY <1>1, <1>2, Constants DEF Core, BatchWorks, Jobs
<1>8. WorkClaimed'
  BY <1>1, <1>2, Constants DEF Core, WorkClaimed
<1>9. Accounted'
  BY <1>1, <1>2, Constants DEF Core, Accounted, Jobs
<1>10. NoJobYet'
  BY <1>1, <1>2, Constants DEF Core, NoJobYet, Jobs
<1>11. TurnTaken'
  BY <1>1, <1>2, Constants DEF Core, TurnTaken
<1>12. DbKnown'
  BY <1>1, <1>2, Constants DEF Core, DbKnown
<1>13. Loaded'
  BY <1>1, <1>2, Constants DEF Core, Loaded, Jobs
<1> QED
  BY <1>3, <1>4, <1>5, <1>6, <1>7, <1>8, <1>9, <1>10, <1>11, <1>12, <1>13 DEF Core

LEMMA TargetDriftsCore ==
  ASSUME Types, Core, TargetDrifts
  PROVE  Core'
<1>1. drift' # 0
  BY DEF TargetDrifts, Types
<1>2. UNCHANGED <<batch, row, job, thread, work, proc, unswept>>
  BY DEF TargetDrifts, walk, process
<1>3. QuietStart' /\ OneGuarded' /\ WalkRuns' /\ BatchWorks' /\ WorkClaimed'
      /\ Accounted' /\ NoJobYet' /\ TurnTaken' /\ DbKnown'
  BY <1>2 DEF Core, QuietStart, OneGuarded, WalkRuns, BatchWorks, WorkClaimed,
     Accounted, NoJobYet, TurnTaken, DbKnown
<1>4. Loaded'
  BY <1>1 DEF Core, Loaded, Jobs
<1>5. DoneMeansCopied'
  BY <1>1, <1>2 DEF Core, DoneMeansCopied, RowsOf, Jobs
<1> QED
  BY <1>3, <1>4, <1>5 DEF Core

LEMMA TakeServerGuardCore ==
  ASSUME Types, Core, NEW b \in Batches, TakeServerGuard(b)
  PROVE  Core'
<1>1. /\ thread[b].at = "guard"
      /\ \A c \in Batches : thread[c].at \notin Guarded
  BY DEF TakeServerGuard
<1>2. /\ thread'[b].at = "next" /\ thread'[b].todo = thread[b].todo
      /\ thread'[b].db = thread[b].db /\ \A c \in Batches \ {b} : thread'[c] = thread[c]
  BY WalkEffect DEF TakeServerGuard, Types, ThreadAt, Guarded
<1>3. UNCHANGED <<batch, row, job, work, proc, drift, loader, unswept>>
  BY DEF TakeServerGuard, outside, process, ghosts
<1>4. WorkClaimed' /\ Accounted' /\ Loaded' /\ DoneMeansCopied'
  BY <1>3 DEF Core, WorkClaimed, Accounted, Loaded, DoneMeansCopied, RowsOf
<1>5. QuietStart'
  BY <1>1, <1>2, <1>3, Constants DEF Core, QuietStart
<1>6. OneGuarded'
  BY <1>1, <1>2, <1>3 DEF Core, OneGuarded, Guarded
<1>7. WalkRuns'
  BY <1>1, <1>2, <1>3 DEF Core, WalkRuns
<1>8. BatchWorks'
  BY <1>1, <1>2, <1>3 DEF Core, BatchWorks, Jobs
<1>9. NoJobYet'
  BY <1>1, <1>2, <1>3 DEF Core, NoJobYet, Jobs
<1>10. TurnTaken'
  BY <1>1, <1>2, <1>3 DEF Core, TurnTaken
<1>11. DbKnown'
  BY <1>1, <1>2, <1>3 DEF Core, DbKnown
<1> QED
  BY <1>4, <1>5, <1>6, <1>7, <1>8, <1>9, <1>10, <1>11 DEF Core

LEMMA NextRowCore ==
  ASSUME Types, Core, NEW b \in Batches, NextRow(b)
  PROVE  Core'
<1>1. Ready(b)
  BY DEF NextRow
<1>2. PICK d \in thread[b].todo :
        /\ d \in Dbs /\ thread'[b].at = "plan" /\ thread'[b].db = d
        /\ thread'[b].todo = thread[b].todo \ {d}
        /\ \A c \in Batches \ {b} : thread'[c] = thread[c]
  BY NextEffect
<1>3. UNCHANGED <<batch, row, job, work, proc, drift, loader, unswept>>
  BY DEF NextRow, outside, process, ghosts
<1>4. WorkClaimed' /\ Accounted' /\ Loaded' /\ DoneMeansCopied'
  BY <1>3 DEF Core, WorkClaimed, Accounted, Loaded, DoneMeansCopied, RowsOf
<1>5. QuietStart'
  BY <1>1, <1>2, <1>3, Constants DEF Core, QuietStart, Ready
<1>6. OneGuarded'
  BY <1>1, <1>2, <1>3 DEF Core, OneGuarded, Ready, Guarded
<1>7. WalkRuns'
  BY <1>1, <1>2, <1>3 DEF Core, WalkRuns, Ready
<1>8. BatchWorks'
  BY <1>1, <1>2, <1>3, CloneAssumption DEF Core, BatchWorks, Ready, Jobs
<1>9. NoJobYet'
  BY <1>1, <1>2, <1>3 DEF Core, NoJobYet, Jobs
<1>10. TurnTaken'
  BY <1>1, <1>2, <1>3 DEF Core, TurnTaken
<1>11. DbKnown'
  BY <1>1, <1>2, <1>3 DEF Core, DbKnown
<1> QED
  BY <1>4, <1>5, <1>6, <1>7, <1>8, <1>9, <1>10, <1>11 DEF Core

LEMMA CloseRemainingCore ==
  ASSUME Types, Core, NEW b \in Batches, CloseRemaining(b)
  PROVE  Core'
<1>1. Ready(b)
  BY DEF CloseRemaining
<1>2. /\ thread'[b].at = thread[b].at /\ thread'[b].db = thread[b].db
      /\ thread'[b].todo = {} /\ \A c \in Batches \ {b} : thread'[c] = thread[c]
      /\ \A y \in Jobs : y[1] # b => row'[y] = row[y]
  BY CloseRemainingEffect
<1>3. UNCHANGED <<batch, job, work, proc, drift, loader, unswept>>
  BY DEF CloseRemaining, outside, process, ghosts
<1>4. WorkClaimed' /\ Accounted' /\ Loaded'
  BY <1>3 DEF Core, WorkClaimed, Accounted, Loaded
<1>5. QuietStart'
  BY <1>1, <1>2, <1>3, Constants DEF Core, QuietStart, Ready
<1>6. OneGuarded'
  BY <1>1, <1>2, <1>3 DEF Core, OneGuarded, Guarded
<1>7. WalkRuns'
  BY <1>1, <1>2, <1>3 DEF Core, WalkRuns
<1>8. BatchWorks'
  BY <1>1, <1>2, <1>3 DEF Core, BatchWorks, Jobs
<1>9. NoJobYet'
  BY <1>1, <1>2, <1>3 DEF Core, NoJobYet, Jobs
<1>10. TurnTaken'
  BY <1>1, <1>2, <1>3 DEF Core, TurnTaken
<1>11. DbKnown'
  BY <1>1, <1>2, <1>3 DEF Core, DbKnown
<1>12. DoneMeansCopied'
  BY <1>1, <1>2, <1>3 DEF Core, DoneMeansCopied, WalkRuns, Ready, Jobs, RowsOf
<1> QED
  BY <1>4, <1>5, <1>6, <1>7, <1>8, <1>9, <1>10, <1>11, <1>12 DEF Core

LEMMA CreateJobCore ==
  ASSUME Types, Core, NEW b \in Batches, CreateJob(b)
  PROVE  Core'
<1>1. thread[b].at = "plan" /\ <<b, thread[b].db>> \in Jobs
  BY DEF CreateJob, Core, DbKnown, Jobs
<1>2. /\ job'[<<b, thread[b].db>>].status = "pending"
      /\ \A y \in Jobs \ {<<b, thread[b].db>>} : job'[y] = job[y]
  BY <1>1, SetJobEffect DEF CreateJob, Types, JobStatus, Live
<1>3. /\ thread'[b].at = "link" /\ thread'[b].todo = thread[b].todo
      /\ thread'[b].db = thread[b].db /\ \A c \in Batches \ {b} : thread'[c] = thread[c]
  BY WalkEffect DEF CreateJob, Types, ThreadAt, Guarded
<1>4. UNCHANGED <<batch, row, work, proc, drift, loader, unswept>>
  BY DEF CreateJob, outside, process, ghosts
<1>5. QuietStart'
  BY <1>1, <1>2, <1>3, <1>4, Constants DEF Core, QuietStart
<1>6. OneGuarded'
  BY <1>1, <1>2, <1>3, <1>4 DEF Core, OneGuarded, Guarded
<1>7. WalkRuns'
  BY <1>1, <1>2, <1>3, <1>4 DEF Core, WalkRuns
<1>8. BatchWorks'
  BY <1>1, <1>2, <1>3, <1>4 DEF Core, BatchWorks, Jobs
<1>9. WorkClaimed'
  BY <1>1, <1>2, <1>3, <1>4 DEF Core, WorkClaimed, NoJobYet, Jobs
<1>10. Accounted'
  BY <1>1, <1>2, <1>3, <1>4 DEF Core, Accounted, Jobs
<1>11. NoJobYet'
  BY <1>1, <1>2, <1>3, <1>4 DEF Core, NoJobYet, WalkRuns, TurnTaken, Jobs
<1>12. TurnTaken'
  BY <1>1, <1>2, <1>3, <1>4 DEF Core, TurnTaken
<1>13. DbKnown'
  BY <1>1, <1>2, <1>3, <1>4 DEF Core, DbKnown
<1>14. Loaded'
  BY <1>1, <1>2, <1>3, <1>4 DEF Core, Loaded, Jobs
<1>15. DoneMeansCopied'
  BY <1>1, <1>2, <1>3, <1>4 DEF Core, DoneMeansCopied, WalkRuns, Jobs, RowsOf
<1> QED
  BY <1>5, <1>6, <1>7, <1>8, <1>9, <1>10, <1>11, <1>12, <1>13, <1>14, <1>15 DEF Core

LEMMA LinkJobCore ==
  ASSUME Types, Core, NEW b \in Batches, LinkJob(b)
  PROVE  Core'
<1>1. thread[b].at = "link"
  BY DEF LinkJob
<1>2. \A y \in Jobs : y[1] # b => row'[y] = row[y]
  BY LinkEffect
<1>3. /\ thread'[b].at = "preview" /\ thread'[b].todo = thread[b].todo
      /\ thread'[b].db = thread[b].db /\ \A c \in Batches \ {b} : thread'[c] = thread[c]
  BY WalkEffect DEF LinkJob, Types, ThreadAt, Guarded
<1>4. UNCHANGED <<batch, job, work, proc, drift, loader, unswept>>
  BY DEF LinkJob, outside, process, ghosts
<1>5. WorkClaimed' /\ Accounted' /\ Loaded'
  BY <1>4 DEF Core, WorkClaimed, Accounted, Loaded
<1>6. QuietStart'
  BY <1>1, <1>2, <1>3, <1>4, Constants DEF Core, QuietStart
<1>7. OneGuarded'
  BY <1>1, <1>2, <1>3, <1>4 DEF Core, OneGuarded, Guarded
<1>8. WalkRuns'
  BY <1>1, <1>2, <1>3, <1>4 DEF Core, WalkRuns
<1>9. BatchWorks'
  BY <1>1, <1>2, <1>3, <1>4 DEF Core, BatchWorks, Jobs
<1>10. NoJobYet'
  BY <1>1, <1>2, <1>3, <1>4 DEF Core, NoJobYet, Jobs
<1>11. TurnTaken'
  BY <1>1, <1>2, <1>3, <1>4 DEF Core, TurnTaken
<1>12. DbKnown'
  BY <1>1, <1>2, <1>3, <1>4 DEF Core, DbKnown
<1>13. DoneMeansCopied'
  BY <1>1, <1>2, <1>3, <1>4 DEF Core, DoneMeansCopied, WalkRuns, Jobs, RowsOf
<1> QED
  BY <1>5, <1>6, <1>7, <1>8, <1>9, <1>10, <1>11, <1>12, <1>13 DEF Core

LEMMA BlockItemCore ==
  ASSUME Types, Core, NEW b \in Batches, BlockItem(b)
  PROVE  Core'
<1>1. thread[b].at \in {"plan", "link", "preview"} /\ <<b, thread[b].db>> \in Jobs
  BY DEF BlockItem, Core, DbKnown, Jobs
<1>2. \A y \in Jobs : y[1] # b => row'[y] = row[y]
  BY <1>1, SetRowEffect DEF BlockItem, Types
<1>3. /\ thread'[b].at = "next" /\ thread'[b].todo = thread[b].todo
      /\ thread'[b].db = thread[b].db /\ \A c \in Batches \ {b} : thread'[c] = thread[c]
  BY WalkEffect DEF BlockItem, Types, ThreadAt, Guarded
<1>4. UNCHANGED <<batch, job, work, proc, drift, loader, unswept>>
  BY DEF BlockItem, outside, process, ghosts
<1>5. WorkClaimed' /\ Accounted' /\ Loaded'
  BY <1>4 DEF Core, WorkClaimed, Accounted, Loaded
<1>6. QuietStart'
  BY <1>1, <1>2, <1>3, <1>4, Constants DEF Core, QuietStart
<1>7. OneGuarded'
  BY <1>1, <1>2, <1>3, <1>4 DEF Core, OneGuarded, Guarded
<1>8. WalkRuns'
  BY <1>1, <1>2, <1>3, <1>4 DEF Core, WalkRuns
<1>9. BatchWorks'
  BY <1>1, <1>2, <1>3, <1>4 DEF Core, BatchWorks, Jobs
<1>10. NoJobYet'
  BY <1>1, <1>2, <1>3, <1>4 DEF Core, NoJobYet, Jobs
<1>11. TurnTaken'
  BY <1>1, <1>2, <1>3, <1>4 DEF Core, TurnTaken
<1>12. DbKnown'
  BY <1>1, <1>2, <1>3, <1>4 DEF Core, DbKnown
<1>13. DoneMeansCopied'
  BY <1>1, <1>2, <1>3, <1>4 DEF Core, DoneMeansCopied, WalkRuns, Jobs, RowsOf
<1> QED
  BY <1>5, <1>6, <1>7, <1>8, <1>9, <1>10, <1>11, <1>12, <1>13 DEF Core

LEMMA AbortPendingJobCore ==
  ASSUME Types, Core, NEW b \in Batches, AbortPendingJob(b)
  PROVE  Core'
<1>1. thread[b].at = "preview" /\ <<b, thread[b].db>> \in Jobs
  BY DEF AbortPendingJob, Core, DbKnown, Jobs
<1>2. /\ job'[<<b, thread[b].db>>].status = IF job[<<b, thread[b].db>>].status = "pending"
           THEN "failed" ELSE job[<<b, thread[b].db>>].status
      /\ \A y \in Jobs \ {<<b, thread[b].db>>} : job'[y] = job[y]
  BY <1>1, AbortEffect
<1>3. /\ thread'[b].at = "next" /\ thread'[b].todo = thread[b].todo
      /\ thread'[b].db = thread[b].db /\ \A c \in Batches \ {b} : thread'[c] = thread[c]
  BY WalkEffect DEF AbortPendingJob, Types, ThreadAt, Guarded
<1>4. UNCHANGED <<batch, row, work, proc, drift, loader, unswept>>
  BY DEF AbortPendingJob, outside, process, ghosts
<1>5. QuietStart'
  BY <1>1, <1>2, <1>3, <1>4, Constants DEF Core, QuietStart
<1>6. OneGuarded'
  BY <1>1, <1>2, <1>3, <1>4 DEF Core, OneGuarded, Guarded
<1>7. WalkRuns'
  BY <1>1, <1>2, <1>3, <1>4 DEF Core, WalkRuns
<1>8. BatchWorks'
  BY <1>1, <1>2, <1>3, <1>4 DEF Core, BatchWorks, Jobs
<1>9. WorkClaimed'
  BY <1>1, <1>2, <1>3, <1>4 DEF Core, WorkClaimed
<1>10. Accounted'
  BY <1>1, <1>2, <1>3, <1>4 DEF Core, Accounted, Jobs
<1>11. NoJobYet'
  BY <1>1, <1>2, <1>3, <1>4 DEF Core, NoJobYet, Jobs
<1>12. TurnTaken'
  BY <1>1, <1>2, <1>3, <1>4 DEF Core, TurnTaken
<1>13. DbKnown'
  BY <1>1, <1>2, <1>3, <1>4 DEF Core, DbKnown
<1>14. Loaded'
  BY <1>1, <1>2, <1>3, <1>4 DEF Core, Loaded, Jobs
<1>15. DoneMeansCopied'
  BY <1>1, <1>2, <1>3, <1>4 DEF Core, DoneMeansCopied, Jobs, RowsOf
<1> QED
  BY <1>5, <1>6, <1>7, <1>8, <1>9, <1>10, <1>11, <1>12, <1>13, <1>14, <1>15 DEF Core

LEMMA RunRowCore ==
  ASSUME Types, Core, NEW b \in Batches, RunRow(b)
  PROVE  Core'
<1>1. thread[b].at = "preview" /\ thread[b].db \in Dbs /\ <<b, thread[b].db>> \in Jobs
  BY DEF RunRow, Core, DbKnown, Jobs
<1>2. /\ \A y \in Jobs \ {<<b, thread[b].db>>} : job'[y] = job[y] /\ work'[y] = work[y]
      /\ \/ /\ job[<<b, thread[b].db>>].status = "pending" /\ job'[<<b, thread[b].db>>].status = "running"
            /\ work'[<<b, thread[b].db>>].at = "load" /\ work'[<<b, thread[b].db>>].by = "batch"
         \/ job' = job /\ work' = work
  BY <1>1, ClaimEffect DEF RunRow, Types
<1>3. /\ thread'[b].at = "next" /\ thread'[b].todo = thread[b].todo
      /\ thread'[b].db = thread[b].db /\ \A c \in Batches \ {b} : thread'[c] = thread[c]
  BY WalkEffect DEF RunRow, Types, ThreadAt, Guarded
<1>4. UNCHANGED <<batch, row, proc, drift, loader, unswept>>
  BY DEF RunRow, outside, process, ghosts
<1>5. QuietStart'
  BY <1>1, <1>2, <1>3, <1>4, Constants DEF Core, QuietStart
<1>6. OneGuarded'
  BY <1>1, <1>2, <1>3, <1>4 DEF Core, OneGuarded, Guarded
<1>7. WalkRuns'
  BY <1>1, <1>2, <1>3, <1>4 DEF Core, WalkRuns
<1>8. BatchWorks'
  BY <1>1, <1>2, <1>3, <1>4 DEF Core, BatchWorks, WorkClaimed, Jobs
<1>9. WorkClaimed'
  BY <1>1, <1>2, <1>3, <1>4 DEF Core, WorkClaimed
<1>10. Accounted'
  BY <1>1, <1>2, <1>3, <1>4 DEF Core, Accounted, Jobs
<1>11. NoJobYet'
  BY <1>1, <1>2, <1>3, <1>4 DEF Core, NoJobYet, Jobs
<1>12. TurnTaken'
  BY <1>1, <1>2, <1>3, <1>4 DEF Core, TurnTaken
<1>13. DbKnown'
  BY <1>1, <1>2, <1>3, <1>4 DEF Core, DbKnown
<1>14. Loaded'
  BY <1>1, <1>2, <1>3, <1>4 DEF Core, Loaded, Jobs
<1>15. DoneMeansCopied'
  BY <1>1, <1>2, <1>3, <1>4 DEF Core, DoneMeansCopied, RowsOf, Jobs
<1> QED
  BY <1>5, <1>6, <1>7, <1>8, <1>9, <1>10, <1>11, <1>12, <1>13, <1>14, <1>15 DEF Core

LEMMA FinishBatchCore ==
  ASSUME Types, Core, NEW b \in Batches, FinishBatch(b)
  PROVE  Core'
<1>1. Ready(b)
  BY DEF FinishBatch
<1>2. /\ thread'[b].at = "off" /\ thread'[b].todo = {} /\ thread'[b].db = None
      /\ \A c \in Batches \ {b} : thread'[c] = thread[c]
  BY IdleEffect DEF FinishBatch
<1>3. /\ \A c \in Batches \ {b} : batch'[c] = batch[c]
      /\ batch'[b].status \in {"done", "partial", "canceled"}
      /\ batch'[b].status = "done" =>
           \A d \in RowsOf(b) : Effective(<<b, d>>) = "succeeded"
  BY FinishEffect
<1>4. UNCHANGED <<row, job, work, proc, drift, loader, unswept>>
  BY DEF FinishBatch, outside, process, ghosts
<1>5. WorkClaimed' /\ Accounted' /\ Loaded'
  BY <1>4 DEF Core, WorkClaimed, Accounted, Loaded
<1>6. QuietStart'
  BY <1>1, <1>2, <1>3, <1>4, Constants DEF Core, QuietStart, Ready
<1>7. OneGuarded'
  BY <1>1, <1>2, <1>3, <1>4 DEF Core, OneGuarded, Guarded
<1>8. WalkRuns'
  BY <1>1, <1>2, <1>3, <1>4 DEF Core, WalkRuns
<1>9. BatchWorks'
  BY <1>1, <1>2, <1>3, <1>4, CloneAssumption DEF Core, BatchWorks, Ready, Jobs
<1>10. NoJobYet'
  BY <1>1, <1>2, <1>3, <1>4 DEF Core, NoJobYet, Jobs
<1>11. TurnTaken'
  BY <1>1, <1>2, <1>3, <1>4 DEF Core, TurnTaken
<1>12. DbKnown'
  BY <1>1, <1>2, <1>3, <1>4 DEF Core, DbKnown
<1>13. DoneMeansCopied'
  <2>1. \A d \in RowsOf(b) : Effective(<<b, d>>) = "succeeded" =>
          row[<<b, d>>].linked /\ job[<<b, d>>].status = "succeeded"
    BY RowFields DEF Types, RowsOf, Effective, Jobs
  <2> QED
    BY <1>3, <1>4, <2>1 DEF Core, DoneMeansCopied, Loaded, RowsOf
<1> QED
  BY <1>5, <1>6, <1>7, <1>8, <1>9, <1>10, <1>11, <1>12, <1>13 DEF Core

LEMMA WalkFailsCore ==
  ASSUME Types, Core, NEW b \in Batches, WalkFails(b)
  PROVE  Core'
<1>1. thread[b].at = "guard" \/ Ready(b)
  BY DEF WalkFails
<1>2. /\ thread'[b].at = "off" /\ thread'[b].todo = {} /\ thread'[b].db = None
      /\ \A c \in Batches \ {b} : thread'[c] = thread[c]
  BY IdleEffect DEF WalkFails
<1>3. unswept \subseteq unswept'
  BY DEF WalkFails
<1>4. UNCHANGED <<batch, row, job, work, proc, drift, loader>>
  BY DEF WalkFails, outside, process
<1>5. WorkClaimed' /\ Loaded' /\ DoneMeansCopied'
  BY <1>4 DEF Core, WorkClaimed, Loaded, DoneMeansCopied, RowsOf
<1>6. QuietStart'
  BY <1>1, <1>2, <1>3, <1>4, Constants DEF Core, QuietStart, Ready
<1>7. OneGuarded'
  BY <1>1, <1>2, <1>3, <1>4 DEF Core, OneGuarded, Guarded
<1>8. WalkRuns'
  BY <1>1, <1>2, <1>3, <1>4 DEF Core, WalkRuns
<1>9. BatchWorks'
  BY <1>1, <1>2, <1>3, <1>4, CloneAssumption DEF Core, BatchWorks, Ready, Jobs
<1>10. Accounted'
  BY <1>1, <1>2, <1>3, <1>4 DEF Core, Accounted, Jobs
<1>11. NoJobYet'
  BY <1>1, <1>2, <1>3, <1>4 DEF Core, NoJobYet, Jobs
<1>12. TurnTaken'
  BY <1>1, <1>2, <1>3, <1>4 DEF Core, TurnTaken
<1>13. DbKnown'
  BY <1>1, <1>2, <1>3, <1>4 DEF Core, DbKnown
<1> QED
  BY <1>5, <1>6, <1>7, <1>8, <1>9, <1>10, <1>11, <1>12, <1>13 DEF Core

LEMMA LoadFailsCore ==
  ASSUME Types, Core, NEW x \in Jobs, LoadFails(x)
  PROVE  Core'
<1>1. /\ work[x].at = "load" /\ \A y \in Jobs \ {x} : row'[y] = row[y]
      /\ row'[x].linked = row[x].linked
      /\ work[x].by # "batch" => row'[x].outcome = row[x].outcome
  <2>1. PICK o \in {"blocked", row[x].outcome} :
          SetRow(x, o) /\ (work[x].by # "batch" => o = row[x].outcome)
    BY DEF LoadFails, SetRow
  <2> QED
    BY <2>1, SetRowEffect DEF LoadFails, Types
<1>2. /\ work'[x].at = "off" /\ work'[x].by = "nobody"
      /\ \A y \in Jobs \ {x} : work'[y] = work[y]
  BY StopEffect DEF LoadFails, Types
<1>3. unswept' = unswept \cup {x}
  BY DEF LoadFails
<1>4. UNCHANGED <<batch, job, thread, proc, drift, loader>>
  BY DEF LoadFails, outside, walk, process
<1>5. OneGuarded' /\ WalkRuns' /\ NoJobYet' /\ TurnTaken' /\ DbKnown'
  BY <1>4 DEF Core, OneGuarded, WalkRuns, NoJobYet, TurnTaken, DbKnown
<1>6. QuietStart'
  BY <1>1, <1>2, <1>3, <1>4, Constants DEF Core, QuietStart
<1>7. BatchWorks'
  BY <1>1, <1>2, <1>3, <1>4 DEF Core, BatchWorks, Jobs
<1>8. WorkClaimed'
  BY <1>1, <1>2, <1>3, <1>4 DEF Core, WorkClaimed
<1>9. Accounted'
  BY <1>1, <1>2, <1>3, <1>4 DEF Core, Accounted, Jobs
<1>10. Loaded'
  BY <1>1, <1>2, <1>3, <1>4 DEF Core, Loaded, Jobs
<1>11. DoneMeansCopied'
  BY <1>1, <1>2, <1>3, <1>4, Pair DEF Core, DoneMeansCopied, WalkRuns, BatchWorks,
     RowsOf, Jobs
<1> QED
  BY <1>5, <1>6, <1>7, <1>8, <1>9, <1>10, <1>11 DEF Core

LEMMA TakeLockCore ==
  ASSUME Types, Core, NEW x \in Jobs, TakeLock(x)
  PROVE  Core'
<1>1. work[x].at = "load"
  BY DEF TakeLock
<1>2. /\ work'[x].at = "prepare" /\ work'[x].by = work[x].by
      /\ \A y \in Jobs \ {x} : work'[y] = work[y]
  BY WorkAtEffect DEF TakeLock, Types, WorkAtSet, Locked
<1>3. UNCHANGED <<batch, row, job, thread, proc, drift, loader, unswept>>
  BY DEF TakeLock, outside, walk, process, ghosts
<1>4. OneGuarded' /\ WalkRuns' /\ NoJobYet' /\ TurnTaken' /\ DbKnown'
      /\ DoneMeansCopied'
  BY <1>3 DEF Core, OneGuarded, WalkRuns, NoJobYet, TurnTaken, DbKnown,
     DoneMeansCopied, RowsOf
<1>5. QuietStart'
  BY <1>1, <1>2, <1>3, Constants DEF Core, QuietStart
<1>6. BatchWorks'
  BY <1>1, <1>2, <1>3 DEF Core, BatchWorks, Jobs
<1>7. WorkClaimed'
  BY <1>1, <1>2, <1>3 DEF Core, WorkClaimed
<1>8. Accounted'
  BY <1>1, <1>2, <1>3 DEF Core, Accounted, Jobs
<1>9. Loaded'
  BY <1>1, <1>2, <1>3 DEF Core, Loaded, Jobs
<1> QED
  BY <1>4, <1>5, <1>6, <1>7, <1>8, <1>9 DEF Core

LEMMA PhaseFailsCore ==
  ASSUME Types, Core, NEW x \in Jobs, PhaseFails(x)
  PROVE  Core'
<1>1. work[x].at \in {"load", "prepare", "copy"}
  BY DEF PhaseFails
<1>2. /\ job'[x].status = "failed"
      /\ \A y \in Jobs \ {x} : job'[y] = job[y]
  BY SetJobEffect DEF PhaseFails, Types, JobStatus
<1>3. /\ work'[x].at = "off" /\ work'[x].by = "nobody"
      /\ \A y \in Jobs \ {x} : work'[y] = work[y]
  BY StopEffect DEF PhaseFails, Types
<1>4. UNCHANGED <<batch, row, thread, proc, drift, loader, unswept>>
  BY DEF PhaseFails, outside, walk, process, ghosts
<1>5. OneGuarded' /\ WalkRuns' /\ TurnTaken' /\ DbKnown'
  BY <1>4 DEF Core, OneGuarded, WalkRuns, TurnTaken, DbKnown
<1>6. QuietStart'
  BY <1>1, <1>2, <1>3, <1>4, Constants DEF Core, QuietStart
<1>7. BatchWorks'
  BY <1>1, <1>2, <1>3, <1>4 DEF Core, BatchWorks, Jobs
<1>8. WorkClaimed'
  BY <1>1, <1>2, <1>3, <1>4 DEF Core, WorkClaimed
<1>9. Accounted'
  BY <1>1, <1>2, <1>3, <1>4 DEF Core, Accounted, Jobs
<1>10. NoJobYet'
  BY <1>1, <1>2, <1>3, <1>4 DEF Core, NoJobYet, WorkClaimed, Jobs
<1>11. Loaded'
  BY <1>1, <1>2, <1>3, <1>4 DEF Core, Loaded, Jobs, WorkClaimed
<1>12. DoneMeansCopied'
  BY <1>1, <1>2, <1>3, <1>4 DEF Core, DoneMeansCopied, WorkClaimed, Jobs, RowsOf
<1> QED
  BY <1>5, <1>6, <1>7, <1>8, <1>9, <1>10, <1>11, <1>12 DEF Core

LEMMA CancelSeenCore ==
  ASSUME Types, Core, NEW x \in Jobs, CancelSeen(x)
  PROVE  Core'
<1>1. work[x].at \in {"prepare", "copy", "close"}
  BY DEF CancelSeen
<1>2. /\ job'[x].status = "canceled"
      /\ \A y \in Jobs \ {x} : job'[y] = job[y]
  BY SetJobEffect DEF CancelSeen, Types, JobStatus
<1>3. /\ work'[x].at = "off" /\ work'[x].by = "nobody"
      /\ \A y \in Jobs \ {x} : work'[y] = work[y]
  BY StopEffect DEF CancelSeen, Types
<1>4. UNCHANGED <<batch, row, thread, proc, drift, loader, unswept>>
  BY DEF CancelSeen, outside, walk, process, ghosts
<1>5. OneGuarded' /\ WalkRuns' /\ TurnTaken' /\ DbKnown'
  BY <1>4 DEF Core, OneGuarded, WalkRuns, TurnTaken, DbKnown
<1>6. QuietStart'
  BY <1>1, <1>2, <1>3, <1>4, Constants DEF Core, QuietStart
<1>7. BatchWorks'
  BY <1>1, <1>2, <1>3, <1>4 DEF Core, BatchWorks, Jobs
<1>8. WorkClaimed'
  BY <1>1, <1>2, <1>3, <1>4 DEF Core, WorkClaimed
<1>9. Accounted'
  BY <1>1, <1>2, <1>3, <1>4 DEF Core, Accounted, Jobs
<1>10. NoJobYet'
  BY <1>1, <1>2, <1>3, <1>4 DEF Core, NoJobYet, WorkClaimed, Jobs
<1>11. Loaded'
  BY <1>1, <1>2, <1>3, <1>4 DEF Core, Loaded, Jobs, WorkClaimed
<1>12. DoneMeansCopied'
  BY <1>1, <1>2, <1>3, <1>4 DEF Core, DoneMeansCopied, WorkClaimed, Jobs, RowsOf
<1> QED
  BY <1>5, <1>6, <1>7, <1>8, <1>9, <1>10, <1>11, <1>12 DEF Core

LEMMA PrepareTargetCore ==
  ASSUME Types, Core, NEW x \in Jobs, PrepareTarget(x)
  PROVE  Core'
<1>1. work[x].at = "prepare"
  BY DEF PrepareTarget
<1>2. /\ work'[x].at = "copy" /\ work'[x].by = work[x].by
      /\ \A y \in Jobs \ {x} : work'[y] = work[y]
  BY WorkAtEffect DEF PrepareTarget, Types, WorkAtSet, Locked
<1>3. UNCHANGED <<batch, row, job, thread, proc, drift, loader, unswept>>
  BY DEF PrepareTarget, walk, process, ghosts
<1>4. OneGuarded' /\ WalkRuns' /\ NoJobYet' /\ TurnTaken' /\ DbKnown'
      /\ DoneMeansCopied'
  BY <1>3 DEF Core, OneGuarded, WalkRuns, NoJobYet, TurnTaken, DbKnown,
     DoneMeansCopied, RowsOf
<1>5. QuietStart'
  BY <1>1, <1>2, <1>3, Constants DEF Core, QuietStart
<1>6. BatchWorks'
  BY <1>1, <1>2, <1>3 DEF Core, BatchWorks, Jobs
<1>7. WorkClaimed'
  BY <1>1, <1>2, <1>3 DEF Core, WorkClaimed
<1>8. Accounted'
  BY <1>1, <1>2, <1>3 DEF Core, Accounted, Jobs
<1>9. Loaded'
  BY <1>1, <1>2, <1>3 DEF Core, Loaded, Jobs
<1> QED
  BY <1>4, <1>5, <1>6, <1>7, <1>8, <1>9 DEF Core

LEMMA CopyRowsCore ==
  ASSUME Types, Core, NEW x \in Jobs, CopyRows(x)
  PROVE  Core'
<1>1. /\ work[x].at = "copy" /\ x[1] \in loader'[x[2]]
      /\ \A d \in Dbs : loader[d] \subseteq loader'[d]
  BY Pair DEF CopyRows, Types
<1>2. /\ work'[x].at = "record" /\ work'[x].by = work[x].by
      /\ \A y \in Jobs \ {x} : work'[y] = work[y]
  BY WorkAtEffect DEF CopyRows, Types, WorkAtSet, Locked
<1>3. UNCHANGED <<batch, row, job, thread, proc, drift, unswept>>
  BY DEF CopyRows, outside, walk, process
<1>4. OneGuarded' /\ WalkRuns' /\ NoJobYet' /\ TurnTaken' /\ DbKnown'
  BY <1>3 DEF Core, OneGuarded, WalkRuns, NoJobYet, TurnTaken, DbKnown
<1>5. QuietStart'
  BY <1>1, <1>2, <1>3, Constants DEF Core, QuietStart
<1>6. BatchWorks'
  BY <1>1, <1>2, <1>3 DEF Core, BatchWorks, Jobs
<1>7. WorkClaimed'
  BY <1>1, <1>2, <1>3 DEF Core, WorkClaimed
<1>8. Accounted'
  BY <1>1, <1>2, <1>3 DEF Core, Accounted, Jobs
<1>9. Loaded'
  BY <1>1, <1>2, <1>3, Pair DEF Core, Loaded, Jobs
<1>10. DoneMeansCopied'
  BY <1>1, <1>2, <1>3 DEF Core, DoneMeansCopied, RowsOf, Jobs
<1> QED
  BY <1>4, <1>5, <1>6, <1>7, <1>8, <1>9, <1>10 DEF Core

LEMMA RecordItemsCore ==
  ASSUME Types, Core, NEW x \in Jobs, RecordItems(x)
  PROVE  Core'
<1>1. work[x].at = "record"
  BY DEF RecordItems
<1>2. \A y \in Jobs : job'[y].status = job[y].status
  BY FlagEffect DEF RecordItems, Types
<1>3. /\ work'[x].at = "close" /\ work'[x].by = work[x].by
      /\ \A y \in Jobs \ {x} : work'[y] = work[y]
  BY WorkAtEffect DEF RecordItems, Types, WorkAtSet, Locked
<1>4. UNCHANGED <<batch, row, thread, proc, drift, loader, unswept>>
  BY DEF RecordItems, outside, walk, process, ghosts
<1>5. OneGuarded' /\ WalkRuns' /\ TurnTaken' /\ DbKnown'
  BY <1>4 DEF Core, OneGuarded, WalkRuns, TurnTaken, DbKnown
<1>6. QuietStart'
  BY <1>1, <1>2, <1>3, <1>4, Constants DEF Core, QuietStart
<1>7. BatchWorks'
  BY <1>1, <1>2, <1>3, <1>4 DEF Core, BatchWorks, Jobs
<1>8. WorkClaimed'
  BY <1>1, <1>2, <1>3, <1>4 DEF Core, WorkClaimed
<1>9. Accounted'
  BY <1>1, <1>2, <1>3, <1>4 DEF Core, Accounted, Jobs
<1>10. NoJobYet'
  BY <1>1, <1>2, <1>3, <1>4 DEF Core, NoJobYet, Jobs
<1>11. Loaded'
  BY <1>1, <1>2, <1>3, <1>4 DEF Core, Loaded, Jobs
<1>12. DoneMeansCopied'
  BY <1>1, <1>2, <1>3, <1>4 DEF Core, DoneMeansCopied, RowsOf, Jobs
<1> QED
  BY <1>5, <1>6, <1>7, <1>8, <1>9, <1>10, <1>11, <1>12 DEF Core

LEMMA RecordFailsCore ==
  ASSUME Types, Core, NEW x \in Jobs, RecordFails(x)
  PROVE  Core'
<1>1. work[x].at = "record"
  BY DEF RecordFails
<1>2. /\ job'[x].status = "failed"
      /\ \A y \in Jobs \ {x} : job'[y] = job[y]
  BY SetJobEffect DEF RecordFails, Types, JobStatus
<1>3. /\ work'[x].at = "off" /\ work'[x].by = "nobody"
      /\ \A y \in Jobs \ {x} : work'[y] = work[y]
  BY StopEffect DEF RecordFails, Types
<1>4. UNCHANGED <<batch, row, thread, proc, drift, loader, unswept>>
  BY DEF RecordFails, outside, walk, process
<1>5. OneGuarded' /\ WalkRuns' /\ TurnTaken' /\ DbKnown'
  BY <1>4 DEF Core, OneGuarded, WalkRuns, TurnTaken, DbKnown
<1>6. QuietStart'
  BY <1>1, <1>2, <1>3, <1>4, Constants DEF Core, QuietStart
<1>7. BatchWorks'
  BY <1>1, <1>2, <1>3, <1>4 DEF Core, BatchWorks, Jobs
<1>8. WorkClaimed'
  BY <1>1, <1>2, <1>3, <1>4 DEF Core, WorkClaimed
<1>9. Accounted'
  BY <1>1, <1>2, <1>3, <1>4 DEF Core, Accounted, Jobs
<1>10. NoJobYet'
  BY <1>1, <1>2, <1>3, <1>4 DEF Core, NoJobYet, WorkClaimed, Jobs
<1>11. Loaded'
  BY <1>1, <1>2, <1>3, <1>4 DEF Core, Loaded, Jobs, WorkClaimed
<1>12. DoneMeansCopied'
  BY <1>1, <1>2, <1>3, <1>4 DEF Core, DoneMeansCopied, WorkClaimed, Jobs, RowsOf
<1> QED
  BY <1>5, <1>6, <1>7, <1>8, <1>9, <1>10, <1>11, <1>12 DEF Core

LEMMA CloseJobCore ==
  ASSUME Types, Core, NEW x \in Jobs, CloseJob(x)
  PROVE  Core'
<1>1. work[x].at = "close"
  BY DEF CloseJob
<1>2. PICK s \in {"succeeded", "failed"} :
        /\ job'[x].status = s
        /\ \A y \in Jobs \ {x} : job'[y] = job[y]
  BY SetJobEffect DEF CloseJob, Types, JobStatus
<1>3. /\ work'[x].at = "off" /\ work'[x].by = "nobody"
      /\ \A y \in Jobs \ {x} : work'[y] = work[y]
  BY StopEffect DEF CloseJob, Types
<1>4. UNCHANGED <<batch, row, thread, proc, drift, loader, unswept>>
  BY DEF CloseJob, outside, walk, process, ghosts
<1>5. OneGuarded' /\ WalkRuns' /\ TurnTaken' /\ DbKnown'
  BY <1>4 DEF Core, OneGuarded, WalkRuns, TurnTaken, DbKnown
<1>6. QuietStart'
  BY <1>1, <1>2, <1>3, <1>4, Constants DEF Core, QuietStart
<1>7. BatchWorks'
  BY <1>1, <1>2, <1>3, <1>4 DEF Core, BatchWorks, Jobs
<1>8. WorkClaimed'
  BY <1>1, <1>2, <1>3, <1>4 DEF Core, WorkClaimed
<1>9. Accounted'
  BY <1>1, <1>2, <1>3, <1>4 DEF Core, Accounted, Jobs
<1>10. NoJobYet'
  BY <1>1, <1>2, <1>3, <1>4 DEF Core, NoJobYet, WorkClaimed, Jobs
<1>11. Loaded'
  BY <1>1, <1>2, <1>3, <1>4 DEF Core, Loaded, Jobs, WorkClaimed
<1>12. DoneMeansCopied'
  BY <1>1, <1>2, <1>3, <1>4 DEF Core, DoneMeansCopied, WorkClaimed, Jobs, RowsOf
<1> QED
  BY <1>5, <1>6, <1>7, <1>8, <1>9, <1>10, <1>11, <1>12 DEF Core

-----------------------------------------------------------------------------
(* The theorems.                                                           *)

LEMMA CoreInit == Init => Types /\ Core
<1> SUFFICES ASSUME Init PROVE Types /\ Core
  OBVIOUS
<1>1. /\ \A b \in Batches : thread[b] = Idle /\ batch[b].status = "absent"
      /\ \A x \in Jobs : work[x] = NoWork /\ job[x] = NoJob /\ row[x] = NoRow
      /\ proc = "up" /\ drift = 0
  BY DEF Init
<1>2. [status |-> "absent", cancel |-> FALSE] \in BatchType
  BY DEF BatchType
<1>3. Types
  BY <1>2, Constants, CloneAssumption DEF Init, Types
<1>4. QuietStart /\ OneGuarded /\ WalkRuns /\ BatchWorks /\ WorkClaimed /\ Accounted
  BY <1>1, Constants DEF QuietStart, OneGuarded, WalkRuns, BatchWorks, WorkClaimed,
     Accounted, Guarded, Jobs
<1>5. NoJobYet /\ TurnTaken /\ DbKnown /\ Loaded /\ DoneMeansCopied
  BY <1>1, Constants DEF NoJobYet, TurnTaken, DbKnown, Loaded, DoneMeansCopied, Jobs
<1> QED
  BY <1>3, <1>4, <1>5 DEF Core

LEMMA Step == Types /\ Core /\ [Next]_vars => Types' /\ Core'
<1> SUFFICES ASSUME Types, Core, [Next]_vars PROVE Types' /\ Core'
  OBVIOUS
<1>1. ASSUME NEW b \in Batches, CreateBatch(b) PROVE Types' /\ Core'
  BY <1>1, CreateBatchTypes, CreateBatchCore DEF Core
<1>2. ASSUME NEW b \in Batches, ExecuteBatch(b) PROVE Types' /\ Core'
  BY <1>2, ExecuteBatchTypes, ExecuteBatchCore DEF Core
<1>3. ASSUME NEW b \in Batches, CancelBatch(b) PROVE Types' /\ Core'
  BY <1>3, CancelBatchTypes, CancelBatchCore DEF Core
<1>4. ASSUME NEW b \in Batches, NEW c \in Batches, RetryFailed(b, c) PROVE Types' /\ Core'
  BY <1>4, RetryFailedTypes, RetryFailedCore DEF Core
<1>5. ASSUME NEW b \in Batches, NEW d \in Dbs, RequestCancel(b, d) PROVE Types' /\ Core'
  BY <1>5, RequestCancelTypes, RequestCancelCore DEF Core
<1>6. ASSUME NEW x \in Jobs, ExecuteClone(x) PROVE Types' /\ Core'
  BY <1>6, ExecuteCloneTypes, ExecuteCloneCore DEF Core
<1>7. ASSUME NEW x \in Jobs, CancelClone(x) PROVE Types' /\ Core'
  BY <1>7, CancelCloneTypes, CancelCloneCore DEF Core
<1>8. ASSUME SweepJobs PROVE Types' /\ Core'
  BY <1>8, SweepJobsTypes, SweepJobsCore DEF Core
<1>9. ASSUME SweepBatches PROVE Types' /\ Core'
  BY <1>9, SweepBatchesTypes, SweepBatchesCore DEF Core
<1>10. ASSUME SweepFails PROVE Types' /\ Core'
  BY <1>10, SweepFailsTypes, SweepFailsCore DEF Core
<1>11. ASSUME Crash PROVE Types' /\ Core'
  BY <1>11, CrashTypes, CrashCore DEF Core
<1>12. ASSUME TargetDrifts PROVE Types' /\ Core'
  BY <1>12, TargetDriftsTypes, TargetDriftsCore DEF Core
<1>13. ASSUME NEW b \in Batches, TakeServerGuard(b) PROVE Types' /\ Core'
  BY <1>13, TakeServerGuardTypes, TakeServerGuardCore DEF Core
<1>14. ASSUME NEW b \in Batches, NextRow(b) PROVE Types' /\ Core'
  BY <1>14, NextRowTypes, NextRowCore DEF Core
<1>15. ASSUME NEW b \in Batches, CloseRemaining(b) PROVE Types' /\ Core'
  BY <1>15, CloseRemainingTypes, CloseRemainingCore DEF Core
<1>16. ASSUME NEW b \in Batches, CreateJob(b) PROVE Types' /\ Core'
  BY <1>16, CreateJobTypes, CreateJobCore DEF Core
<1>17. ASSUME NEW b \in Batches, LinkJob(b) PROVE Types' /\ Core'
  BY <1>17, LinkJobTypes, LinkJobCore DEF Core
<1>18. ASSUME NEW b \in Batches, BlockItem(b) PROVE Types' /\ Core'
  BY <1>18, BlockItemTypes, BlockItemCore DEF Core
<1>19. ASSUME NEW b \in Batches, AbortPendingJob(b) PROVE Types' /\ Core'
  BY <1>19, AbortPendingJobTypes, AbortPendingJobCore DEF Core
<1>20. ASSUME NEW b \in Batches, RunRow(b) PROVE Types' /\ Core'
  BY <1>20, RunRowTypes, RunRowCore DEF Core
<1>21. ASSUME NEW b \in Batches, FinishBatch(b) PROVE Types' /\ Core'
  BY <1>21, FinishBatchTypes, FinishBatchCore DEF Core
<1>22. ASSUME NEW b \in Batches, WalkFails(b) PROVE Types' /\ Core'
  BY <1>22, WalkFailsTypes, WalkFailsCore DEF Core
<1>23. ASSUME NEW x \in Jobs, LoadFails(x) PROVE Types' /\ Core'
  BY <1>23, LoadFailsTypes, LoadFailsCore DEF Core
<1>24. ASSUME NEW x \in Jobs, TakeLock(x) PROVE Types' /\ Core'
  BY <1>24, TakeLockTypes, TakeLockCore DEF Core
<1>25. ASSUME NEW x \in Jobs, PhaseFails(x) PROVE Types' /\ Core'
  BY <1>25, PhaseFailsTypes, PhaseFailsCore DEF Core
<1>26. ASSUME NEW x \in Jobs, CancelSeen(x) PROVE Types' /\ Core'
  BY <1>26, CancelSeenTypes, CancelSeenCore DEF Core
<1>27. ASSUME NEW x \in Jobs, PrepareTarget(x) PROVE Types' /\ Core'
  BY <1>27, PrepareTargetTypes, PrepareTargetCore DEF Core
<1>28. ASSUME NEW x \in Jobs, CopyRows(x) PROVE Types' /\ Core'
  BY <1>28, CopyRowsTypes, CopyRowsCore DEF Core
<1>29. ASSUME NEW x \in Jobs, RecordItems(x) PROVE Types' /\ Core'
  BY <1>29, RecordItemsTypes, RecordItemsCore DEF Core
<1>30. ASSUME NEW x \in Jobs, RecordFails(x) PROVE Types' /\ Core'
  BY <1>30, RecordFailsTypes, RecordFailsCore DEF Core
<1>31. ASSUME NEW x \in Jobs, CloseJob(x) PROVE Types' /\ Core'
  BY <1>31, CloseJobTypes, CloseJobCore DEF Core
<1>32. CASE UNCHANGED vars
  BY <1>32 DEF vars, Types, Core, QuietStart, OneGuarded, WalkRuns, BatchWorks,
     WorkClaimed,
     Accounted, NoJobYet, TurnTaken, DbKnown, Loaded, DoneMeansCopied, RowsOf
<1> QED
  BY <1>1, <1>2, <1>3, <1>4, <1>5, <1>6, <1>7, <1>8, <1>9, <1>10, <1>11, <1>12,
     <1>13, <1>14, <1>15, <1>16, <1>17, <1>18, <1>19, <1>20, <1>21, <1>22, <1>23,
     <1>24, <1>25, <1>26, <1>27, <1>28, <1>29, <1>30, <1>31, <1>32
  DEF Next, Request, StartUp, Walking, Cloning


-----------------------------------------------------------------------------
(* Retries.  Rows a job put into a target are recorded, about to be, or    *)
(* never were; only a retry has an origin; and two jobs never work on one  *)
(* target at a time.                                                       *)
Recorded ==
  \A b \in Batches, d \in Dbs : b \in loader[d] =>
    job[<<b, d>>].items \/ work[<<b, d>>].at = "record" \/ <<b, d>> \in unrecorded
Originless == \A b \in Batches : batch[b].status = "absent" => origin[b] = None
OneWriter ==
  \A x, y \in Jobs : x[2] = y[2] /\ work[x].at \in Locked /\ work[y].at \in Locked => x = y

Retries == Recorded /\ Originless /\ OneWriter

(* The updates of a job's status keep what it recorded.                    *)
LEMMA ItemsStay ==
  ASSUME job \in [Jobs -> JobType], NEW x \in Jobs, NEW s, SetJob(x, s)
  PROVE  \A y \in Jobs : job'[y].items = job[y].items
  BY DEF SetJob, JobType

(* A claim records nothing, and takes no lock.                             *)
LEMMA ClaimKeeps ==
  ASSUME Types, Core, NEW x \in Jobs, NEW by \in {"batch", "pool"}, Claim(x, by)
  PROVE  /\ \A y \in Jobs : job'[y].items = job[y].items
         /\ \A y \in Jobs : work[y].at = "record" => work'[y].at = "record"
         /\ \A y \in Jobs : work'[y].at \in Locked => work[y].at \in Locked
<1>1. job \in [Jobs -> JobType] /\ work \in [Jobs -> WorkType]
  BY DEF Types
<1>2. \A y \in Jobs : job'[y].items = job[y].items
  BY <1>1, ItemsStay DEF Claim
<1>3. /\ \A y \in Jobs \ {x} : work'[y] = work[y]
      /\ \/ job[x].status = "pending" /\ work'[x].at = "load"
         \/ work' = work
  BY <1>1, ClaimEffect
<1>4. job[x].status = "pending" => work[x].at = "off"
  BY DEF Core, WorkClaimed
<1> QED
  BY <1>2, <1>3, <1>4 DEF Locked

(* A job that stops leaves nothing to record, if it was not at its record. *)
LEMMA StopKeeps ==
  ASSUME Types, NEW x \in Jobs, Stop(x)
  PROVE  /\ \A y \in Jobs \ {x} : work'[y] = work[y]
         /\ \A y \in Jobs : work'[y].at \in Locked => work[y].at \in Locked
  BY StopEffect DEF Types, Locked

(* Every step keeps what is said about retries.                            *)
LEMMA RetriesStep ==
  ASSUME Types, Core, Retries, [Next]_vars
  PROVE  Retries'
<1> DEFINE Still(x) ==
      work[x].at = "record" =>
        job'[x].items \/ work'[x].at = "record" \/ x \in unrecorded'
<1>1. ASSUME \A d \in Dbs : loader'[d] \subseteq loader[d],
             \A x \in Jobs : job[x].items => job'[x].items,
             unrecorded \subseteq unrecorded', \A x \in Jobs : Still(x)
      PROVE  Recorded'
  <2>1. ASSUME NEW b \in Batches, NEW d \in Dbs, b \in loader'[d]
        PROVE  job'[<<b, d>>].items \/ work'[<<b, d>>].at = "record" \/ <<b, d>> \in unrecorded'
    <3>1. <<b, d>> \in Jobs /\ b \in loader[d]
      BY <1>1, <2>1 DEF Jobs
    <3>2. job[<<b, d>>].items \/ work[<<b, d>>].at = "record" \/ <<b, d>> \in unrecorded
      BY <3>1 DEF Retries, Recorded
    <3> QED
      BY <1>1, <3>1, <3>2
  <2> QED
    BY <2>1 DEF Recorded
<1>2. ASSUME origin' = origin,
             \A b \in Batches : batch'[b].status = "absent" => batch[b].status = "absent"
      PROVE  Originless'
  BY <1>2 DEF Retries, Originless
<1>3. ASSUME \A x \in Jobs : work'[x].at \in Locked => work[x].at \in Locked
      PROVE  OneWriter'
  BY <1>3 DEF Retries, OneWriter
<1>4. ASSUME UNCHANGED <<job, work, loader, unrecorded, origin>>,
             \A b \in Batches : batch'[b].status = "absent" => batch[b].status = "absent"
      PROVE  Retries'
  BY <1>1, <1>2, <1>3, <1>4 DEF Retries
<1>5. ASSUME UNCHANGED <<batch, loader, unrecorded, origin>>,
             \A x \in Jobs : job'[x].items = job[x].items,
             \A x \in Jobs : work[x].at = "record" => work'[x].at = "record",
             \A x \in Jobs : work'[x].at \in Locked => work[x].at \in Locked
      PROVE  Retries'
  BY <1>1, <1>2, <1>3, <1>5 DEF Retries
<1>t. /\ batch \in [Batches -> BatchType] /\ job \in [Jobs -> JobType]
      /\ work \in [Jobs -> WorkType] /\ loader \in [Dbs -> SUBSET Batches]
      /\ origin \in [Batches -> Batches \cup {None}]
  BY DEF Types
<1>6. ASSUME NEW b \in Batches, CreateBatch(b) PROVE Retries'
  <2>1. batch'[b].status = "pending" /\ \A c \in Batches \ {b} : batch'[c] = batch[c]
    BY <1>6, PlanEffect DEF CreateBatch
  <2> QED
    BY <1>4, <1>6, <2>1 DEF CreateBatch, Plan
<1>7. ASSUME NEW b \in Batches, NEW c \in Batches, RetryFailed(b, c) PROVE Retries'
  <2>1. PICK D \in SUBSET Dbs : Plan(c, D)
    BY <1>7 DEF RetryFailed, Retryable, RowsOf
  <2>2. /\ UNCHANGED <<job, work, loader, unrecorded>>
        /\ batch'[c].status = "pending" /\ \A e \in Batches \ {c} : batch'[e] = batch[e]
        /\ \A e \in Batches \ {c} : origin'[e] = origin[e]
    BY <1>7, <1>t, <2>1, PlanEffect DEF RetryFailed, Plan
  <2>3. Recorded' /\ OneWriter'
    BY <1>1, <1>3, <2>2
  <2>4. Originless'
    BY <2>2 DEF Retries, Originless
  <2> QED
    BY <2>3, <2>4 DEF Retries
<1>8. ASSUME NEW b \in Batches, ExecuteBatch(b) PROVE Retries'
  BY <1>4, <1>8, ExecuteEffect DEF ExecuteBatch, ghosts
<1>9. ASSUME NEW b \in Batches, CancelBatch(b) PROVE Retries'
  BY <1>4, <1>9, <1>t, BatchCancelEffect DEF CancelBatch, ghosts
<1>10. ASSUME NEW b \in Batches, NEW d \in Dbs, RequestCancel(b, d) PROVE Retries'
  <2>1. \A x \in Jobs : job'[x].items = job[x].items
    BY <1>10, <1>t DEF RequestCancel, JobType
  <2> QED
    BY <1>5, <1>10, <2>1 DEF RequestCancel, ghosts
<1>11. ASSUME NEW x \in Jobs, CancelClone(x) PROVE Retries'
  <2>1. \A y \in Jobs : job'[y].items = job[y].items
    BY <1>11, <1>t DEF CancelClone, JobType
  <2> QED
    BY <1>5, <1>11, <2>1 DEF CancelClone, ghosts
<1>12. ASSUME NEW x \in Jobs, ExecuteClone(x) PROVE Retries'
  BY <1>5, <1>12, ClaimKeeps DEF ExecuteClone, ghosts
<1>13. CASE SweepJobs
  <2>1. \A x \in Jobs : job'[x].items = job[x].items
    BY <1>13, <1>t DEF SweepJobs, JobType
  <2> QED
    BY <1>5, <1>13, <2>1 DEF SweepJobs, ghosts
<1>14. CASE SweepBatches
  BY <1>4, <1>14, SweepBatchesEffect DEF SweepBatches, ghosts
<1>15. CASE SweepFails
  BY <1>4, <1>15 DEF SweepFails
<1>16. CASE Crash
  <2>1. /\ UNCHANGED <<batch, job, loader, origin>>
        /\ unrecorded' = unrecorded \cup {x \in Jobs : work[x].at = "record"}
        /\ \A x \in Jobs : work'[x] = NoWork
    BY <1>16 DEF Crash
  <2>2. \A x \in Jobs : work'[x].at \notin Locked
    BY <2>1, Constants DEF Locked
  <2>3. Recorded'
    BY <1>1, <2>1
  <2> QED
    BY <1>2, <1>3, <2>1, <2>2, <2>3 DEF Retries
<1>17. CASE TargetDrifts
  <2>1. /\ UNCHANGED <<batch, job, work, origin, unrecorded>>
        /\ \A d \in Dbs : loader'[d] \subseteq loader[d]
    BY <1>17, <1>t DEF TargetDrifts
  <2>2. Recorded' /\ Originless' /\ OneWriter'
    BY <1>1, <1>2, <1>3, <2>1
  <2> QED
    BY <2>2 DEF Retries
<1>18. ASSUME NEW b \in Batches,
              TakeServerGuard(b) \/ NextRow(b) \/ CloseRemaining(b) \/ LinkJob(b) \/ BlockItem(b)
       PROVE  Retries'
  BY <1>4, <1>18 DEF TakeServerGuard, NextRow, CloseRemaining, LinkJob, BlockItem, ghosts
<1>19. ASSUME NEW b \in Batches, CreateJob(b) PROVE Retries'
  <2>1. <<b, thread[b].db>> \in Jobs
    BY <1>19 DEF Core, DbKnown, CreateJob, Jobs
  <2>2. \A x \in Jobs : job'[x].items = job[x].items
    BY <1>19, <1>t, <2>1, ItemsStay DEF CreateJob
  <2> QED
    BY <1>5, <1>19, <2>2 DEF CreateJob, ghosts
<1>20. ASSUME NEW b \in Batches, AbortPendingJob(b) PROVE Retries'
  <2>1. <<b, thread[b].db>> \in Jobs
    BY <1>20 DEF Core, DbKnown, AbortPendingJob, Jobs
  <2>2. \A x \in Jobs : job'[x].items = job[x].items
    BY <1>20, <1>t, <2>1 DEF AbortPendingJob, JobType
  <2> QED
    BY <1>5, <1>20, <2>2 DEF AbortPendingJob, ghosts
<1>21. ASSUME NEW b \in Batches, RunRow(b) PROVE Retries'
  <2>1. <<b, thread[b].db>> \in Jobs
    BY <1>21 DEF Core, DbKnown, RunRow, Jobs
  <2> QED
    BY <1>5, <1>21, <2>1, ClaimKeeps DEF RunRow, ghosts
<1>22. ASSUME NEW b \in Batches, FinishBatch(b) PROVE Retries'
  BY <1>4, <1>22, FinishEffect DEF FinishBatch, ghosts
<1>23. ASSUME NEW b \in Batches, WalkFails(b) PROVE Retries'
  BY <1>4, <1>23 DEF WalkFails
<1>24. ASSUME NEW x \in Jobs, LoadFails(x) PROVE Retries'
  BY <1>5, <1>24, StopKeeps DEF LoadFails
<1>25. ASSUME NEW x \in Jobs, PhaseFails(x) \/ CancelSeen(x) \/ CloseJob(x) PROVE Retries'
  <2>1. /\ work[x].at # "record" /\ Stop(x) /\ \E s \in JobStatus : SetJob(x, s)
        /\ UNCHANGED <<batch, loader, unrecorded, origin>>
    BY <1>25 DEF PhaseFails, CancelSeen, CloseJob, ghosts, JobStatus
  <2> QED
    BY <1>5, <1>t, <2>1, ItemsStay, StopKeeps
<1>26. ASSUME NEW x \in Jobs, TakeLock(x) PROVE Retries'
  <2>1. /\ work[x].at = "load" /\ work'[x].at = "prepare"
        /\ \A y \in Jobs \ {x} : work'[y] = work[y]
        /\ UNCHANGED <<batch, job, loader, unrecorded, origin>>
        /\ \A b \in Batches : work[<<b, x[2]>>].at \notin Locked
    BY <1>26, <1>t, WorkAtEffect DEF TakeLock, ghosts, WorkAtSet, Locked
  <2>2. \A y \in Jobs : y[2] = x[2] => work[y].at \notin Locked
    BY <2>1, Pair
  <2>3. OneWriter'
    BY <2>1, <2>2 DEF Retries, OneWriter
  <2>4. Recorded' /\ Originless'
    BY <1>1, <1>2, <2>1
  <2> QED
    BY <2>3, <2>4 DEF Retries
<1>27. ASSUME NEW x \in Jobs, PrepareTarget(x) PROVE Retries'
  <2>1. /\ work[x].at = "prepare" /\ work'[x].at = "copy"
        /\ \A y \in Jobs \ {x} : work'[y] = work[y]
        /\ UNCHANGED <<batch, job, loader, unrecorded, origin>>
    BY <1>27, <1>t, WorkAtEffect DEF PrepareTarget, ghosts, WorkAtSet, Locked
  <2> QED
    BY <1>5, <2>1 DEF Locked
<1>28. ASSUME NEW x \in Jobs, CopyRows(x) PROVE Retries'
  <2>1. /\ work[x].at = "copy" /\ work'[x].at = "record"
        /\ \A y \in Jobs \ {x} : work'[y] = work[y]
        /\ UNCHANGED <<batch, job, unrecorded, origin>>
        /\ loader' = [loader EXCEPT ![x[2]] = @ \cup {x[1]}]
    BY <1>28, <1>t, WorkAtEffect DEF CopyRows, WorkAtSet, Locked
  <2>2. ASSUME NEW b \in Batches, NEW d \in Dbs, b \in loader'[d]
        PROVE  job'[<<b, d>>].items \/ work'[<<b, d>>].at = "record" \/ <<b, d>> \in unrecorded'
    <3>1. CASE <<b, d>> = x
      BY <2>1, <3>1
    <3>2. CASE <<b, d>> # x
      <4>1. <<b, d>> \in Jobs \ {x} /\ b \in loader[d]
        BY <1>t, <2>1, <2>2, <3>2, Pair DEF Jobs
      <4> QED
        BY <2>1, <4>1 DEF Retries, Recorded
    <3> QED
      BY <3>1, <3>2
  <2>3. Recorded'
    BY <2>2 DEF Recorded
  <2>4. Originless' /\ OneWriter'
    BY <1>2, <1>3, <2>1 DEF Locked
  <2> QED
    BY <2>3, <2>4 DEF Retries
<1>29. ASSUME NEW x \in Jobs, RecordItems(x) PROVE Retries'
  <2>1. /\ work[x].at = "record" /\ work'[x].at = "close"
        /\ \A y \in Jobs \ {x} : work'[y] = work[y]
        /\ UNCHANGED <<batch, loader, unrecorded, origin>>
    BY <1>29, <1>t, WorkAtEffect DEF RecordItems, ghosts, WorkAtSet, Locked
  <2>2. job'[x].items /\ \A y \in Jobs \ {x} : job'[y] = job[y]
    BY <1>29, <1>t DEF RecordItems, JobType
  <2>3. Recorded' /\ Originless' /\ OneWriter'
    BY <1>1, <1>2, <1>3, <2>1, <2>2 DEF Locked
  <2> QED
    BY <2>3 DEF Retries
<1>30. ASSUME NEW x \in Jobs, RecordFails(x) PROVE Retries'
  <2>1. /\ \A y \in Jobs \ {x} : work'[y] = work[y]
        /\ \A y \in Jobs : work'[y].at \in Locked => work[y].at \in Locked
        /\ UNCHANGED <<batch, loader, origin>> /\ unrecorded' = unrecorded \cup {x}
        /\ \A y \in Jobs : job'[y].items = job[y].items
    BY <1>30, <1>t, StopKeeps, ItemsStay DEF RecordFails
  <2>2. Recorded' /\ Originless' /\ OneWriter'
    BY <1>1, <1>2, <1>3, <2>1
  <2> QED
    BY <2>2 DEF Retries
<1>31. CASE UNCHANGED vars
  BY <1>4, <1>31 DEF vars
<1> QED
  BY <1>6, <1>7, <1>8, <1>9, <1>10, <1>11, <1>12, <1>13, <1>14, <1>15, <1>16, <1>17, <1>18,
     <1>19, <1>20, <1>21, <1>22, <1>23, <1>24, <1>25, <1>26, <1>27, <1>28, <1>29, <1>30, <1>31
  DEF Next, Request, StartUp, Walking, Cloning

(* It holds at first: nothing is copied, planned or at work.               *)
LEMMA RetriesInit == Init => Retries
<1> SUFFICES ASSUME Init PROVE Retries
  OBVIOUS
<1>1. /\ \A d \in Dbs : loader[d] = {}
      /\ \A b \in Batches : origin[b] = None
      /\ \A x \in Jobs : work[x] = NoWork
  BY DEF Init
<1> QED
  BY <1>1, Constants DEF Retries, Recorded, Originless, OneWriter, Locked

(* What a step that makes a row pending does: it plans a batch, and only a *)
(* retry leaves it with an origin.                                         *)
LEMMA PlannedByRetry ==
  ASSUME Types, Originless, [Next]_vars, NEW c \in Batches, NEW d \in Dbs,
         row[<<c, d>>].outcome = "absent", row'[<<c, d>>].outcome = "pending", origin'[c] # None
  PROVE  /\ UNCHANGED <<job, work, loader>>
         /\ \E b \in Batches : /\ RetryFailed(b, c) /\ origin'[c] = b /\ b # c
                               /\ d \in Retryable(b)
<1>t. /\ row \in [Jobs -> RowType] /\ <<c, d>> \in Jobs /\ row'[<<c, d>>] # row[<<c, d>>]
      /\ origin \in [Batches -> Batches \cup {None}]
  BY DEF Types, Jobs
<1>1. ASSUME NEW b \in Batches, NEW D, Plan(b, D) PROVE b = c /\ d \in D
  <2>1. row'[<<c, d>>] = IF c = b /\ d \in D
          THEN [NoRow EXCEPT !.outcome = IF Fits(d) THEN "pending" ELSE "blocked"]
          ELSE row[<<c, d>>]
    BY <1>1, <1>t DEF Plan
  <2> QED
    BY <1>t, <2>1
<1>2. ASSUME NEW b \in Batches, CreateBatch(b) PROVE FALSE
  <2>1. PICK D \in SUBSET Dbs : Plan(b, D)
    BY <1>2 DEF CreateBatch
  <2> QED
    BY <1>1, <1>2, <2>1 DEF CreateBatch, Originless
<1>3. ASSUME NEW x \in Jobs, row' = [row EXCEPT ![x].outcome = "blocked"]
      PROVE  FALSE
  BY <1>3, <1>t DEF RowType
<1>4. ASSUME NEW b \in Batches, CloseRemaining(b) PROVE FALSE
  BY <1>4, <1>t DEF CloseRemaining
<1>5. CASE SweepBatches
  BY <1>5, <1>t DEF SweepBatches
<1>6. ASSUME NEW b \in Batches, LinkJob(b) PROVE FALSE
  <2>1. row' = [row EXCEPT ![<<b, thread[b].db>>] = [outcome |-> "none", linked |-> TRUE]]
    BY <1>6 DEF LinkJob
  <2> QED
    BY <1>t, <2>1
<1>7. ASSUME NEW b \in Batches, BlockItem(b) PROVE FALSE
  BY <1>7, <1>t DEF BlockItem, SetRow, RowType
<1>8. ASSUME NEW x \in Jobs, LoadFails(x) PROVE FALSE
  BY <1>8, <1>t DEF LoadFails, RowType
<1>9. ASSUME row' = row PROVE FALSE
  BY <1>9, <1>t
<1>10. PICK b \in Batches : \E e \in Batches : RetryFailed(b, e)
  BY <1>2, <1>4, <1>5, <1>6, <1>7, <1>8, <1>9
  DEF Next, Request, StartUp, Walking, Cloning, vars, ExecuteBatch, CancelBatch, RequestCancel,
      ExecuteClone, CancelClone, SweepJobs, SweepFails, Crash, TargetDrifts, TakeServerGuard,
      NextRow, CreateJob, AbortPendingJob, RunRow, FinishBatch, WalkFails, TakeLock, PhaseFails,
      CancelSeen, PrepareTarget, CopyRows, RecordItems, RecordFails, CloseJob
<1>11. PICK e \in Batches : RetryFailed(b, e)
  BY <1>10
<1>12. e = c /\ d \in Retryable(b)
  BY <1>1, <1>11 DEF RetryFailed
<1>13. b # c /\ origin'[c] = b /\ UNCHANGED <<job, work, loader>>
  BY <1>11, <1>12, <1>t DEF RetryFailed, Plan
<1> QED
  BY <1>11, <1>12, <1>13

-----------------------------------------------------------------------------
(* The inductive invariant holds in every reachable state.                *)
THEOREM CloneInvariant == Spec => [](Types /\ Core)
  BY CoreInit, Step, PTL DEF Spec

(* The state is well typed for every set of batches, rows and interleaving *)
(* of walks, single clones, cancellations and restarts.                    *)
THEOREM TypeCorrect == Spec => []TypeOK
  BY CloneInvariant, SameTypes, PTL

(* Batches towards one server copy one database at a time: the thread of a *)
(* batch works on the row it waits for, and it waits inside the guard.     *)
THEOREM RowsAreSerial == Spec => []SerialRows
<1>1. Types /\ Core => SerialRows
  <2> SUFFICES ASSUME Core, NEW x \in Jobs, NEW y \in Jobs,
                      work[x].by = "batch", work[y].by = "batch"
               PROVE  x = y
    BY DEF SerialRows
  <2>1. /\ thread[x[1]].at = "next" /\ thread[x[1]].db = x[2]
        /\ thread[y[1]].at = "next" /\ thread[y[1]].db = y[2]
    BY Pair DEF Core, BatchWorks
  <2>2. x[1] = y[1]
    BY <2>1, Pair DEF Core, OneGuarded, Guarded
  <2> QED
    BY <2>1, <2>2, Pair
<1> QED
  BY <1>1, CloneInvariant, PTL

(* A batch that reports "done" has a job for every row, each ended well    *)
(* and, unless targets are dropped by others, put its rows there.          *)
THEOREM DoneIsCopied == Spec => []DoneMeansCopied
<1>1. Types /\ Core => DoneMeansCopied
  BY DEF Core
<1> QED
  BY <1>1, CloneInvariant, PTL

(* Nothing of a batch that is over still runs, the restart's sweeps        *)
(* included, but for single executions and escaped failures.               *)
THEOREM OverIsStill == Spec => []NothingRunsWhenOver
<1>1. Types /\ Core => NothingRunsWhenOver
  <2> SUFFICES ASSUME Types, Core, proc = "up", NEW x \in Jobs,
                      batch[x[1]].status \in Over, job[x].status = "running"
               PROVE  work[x].by = "pool" \/ x \in unswept
    BY DEF NothingRunsWhenOver
  <2>1. (work[x].at # "off" /\ work[x].by # "nobody") \/ x \in unswept
    BY DEF Core, Accounted
  <2>2. work[x].by # "batch"
    BY Pair DEF Core, BatchWorks, WalkRuns, Over
  <2>3. work[x].by \in {"nobody", "batch", "pool"}
    BY DEF Types, WorkType
  <2> QED
    BY <2>1, <2>2, <2>3
<1> QED
  BY <1>1, CloneInvariant, PTL

(* Two jobs never write to one target at a time, the executions of single  *)
(* jobs and those of other batches included (the advisory lock).           *)
THEOREM WritersAlone == Spec => []OneWriter
<1>1. Types /\ Core /\ Retries /\ [Next]_vars => Types' /\ Core' /\ Retries'
  BY Step, RetriesStep
<1>2. Init => Types /\ Core /\ Retries
  BY CoreInit, RetriesInit
<1>3. Retries => OneWriter
  BY DEF Retries
<1> QED
  BY <1>1, <1>2, <1>3, PTL DEF Spec

(* retry_candidates: a retry takes up a row of an existing target only if  *)
(* its job left no rows there, or did not come to record them.             *)
THEOREM RetriesAreSound == Spec => RetrySound
<1>1. Init => Types /\ Core /\ Retries
  BY CoreInit, RetriesInit
<1>2. Types /\ Core /\ Retries /\ [Next]_vars => Types' /\ Core' /\ Retries'
  BY Step, RetriesStep
<1> DEFINE Taken(c, d) ==
      row[<<c, d>>].outcome = "absent" /\ row'[<<c, d>>].outcome = "pending"
        /\ origin'[c] # None /\ Mode[d] = "existing" =>
      LET x == <<origin'[c], d>> IN
        row[x].linked /\ x[1] \in loader[d] => x \in unrecorded \/ work[x].at = "record"
<1>3. ASSUME Types, Retries, [Next]_vars, NEW c \in Batches, NEW d \in Dbs
      PROVE  Taken(c, d)
  <2>1. SUFFICES ASSUME row[<<c, d>>].outcome = "absent", row'[<<c, d>>].outcome = "pending",
                        origin'[c] # None, Mode[d] = "existing",
                        row[<<origin'[c], d>>].linked, origin'[c] \in loader[d]
                 PROVE  <<origin'[c], d>> \in unrecorded \/ work[<<origin'[c], d>>].at = "record"
    OBVIOUS
  <2>2. PICK b \in Batches : origin'[c] = b /\ d \in Retryable(b)
    BY <1>3, <2>1, PlannedByRetry DEF Retries
  <2>3. ~job[<<b, d>>].items
    BY <2>1, <2>2 DEF Retryable
  <2> QED
    BY <1>3, <2>1, <2>2, <2>3 DEF Retries, Recorded
<1>4. Types /\ Retries /\ [Next]_vars => [\A c \in Batches, d \in Dbs : Taken(c, d)]_vars
  BY <1>3
<1> QED
  BY <1>1, <1>2, <1>4, PTL DEF Spec, RetrySound
=============================================================================
