-------------------------- MODULE ExportJobsProofs --------------------------
(***************************************************************************)
(* ExportJobs, proved for every number of jobs, requests and workers: the  *)
(* state is well typed, a plan is exported at most once, a cancelled       *)
(* export leaves neither a file nor a row, a row that offers an artifact   *)
(* has its file, and no file stays behind.                                 *)
(***************************************************************************)
EXTENDS ExportJobs, SequenceTheorems, TLAPS

-----------------------------------------------------------------------------
(* What the elementary updates do to the records.                          *)

LEMMA AtPlace ==
  ASSUME NEW s \in Stage, NEW j \in Jobs \cup {Nothing},
         NEW sel \in Selections \cup {Nothing}, NEW cat \in 0..MaxAlter
  PROVE  /\ At(s, j, sel, cat) \in Place /\ At(s, j, sel, cat).stage = s
         /\ At(s, j, sel, cat).job = j /\ At(s, j, sel, cat).sel = sel
  BY DEF At, Place

LEMMA IdlePlace == Idle \in Place /\ Idle.stage = "idle"
<1>1. 0 \in 0..MaxAlter /\ "idle" \in Stage
  BY ExportAssumption DEF Stage
<1> QED
  BY <1>1, AtPlace DEF Idle

LEMMA PlaceFields ==
  ASSUME NEW p \in Place
  PROVE  /\ p.stage \in Stage /\ p.job \in Jobs \cup {Nothing}
         /\ p.sel \in Selections \cup {Nothing} /\ p.cat \in 0..MaxAlter
  BY DEF Place

LEMMA PlanFields ==
  ASSUME NEW p \in Plan
  PROVE  /\ p.status \in Status /\ p.sel \in Selections \cup {Nothing}
         /\ p.cat \in 0..MaxAlter
  BY DEF Plan

LEMMA MoveEffect ==
  ASSUME worker \in [Workers -> Place], NEW w \in Workers, NEW s \in Stage, Move(w, s)
  PROVE  /\ worker' \in [Workers -> Place]
         /\ worker'[w].stage = s /\ worker'[w].job = worker[w].job
         /\ \A v \in Workers \ {w} : worker'[v] = worker[v]
<1> DEFINE q == [worker[w] EXCEPT !.stage = s]
<1>1. worker[w] \in Place
  OBVIOUS
<1>2. q \in Place /\ q.stage = s /\ q.job = worker[w].job
  BY <1>1 DEF Place
<1>3. worker' = [worker EXCEPT ![w] = q]
  BY DEF Move
<1> HIDE DEF q
<1> QED
  BY <1>2, <1>3

LEMMA WriteEffect ==
  ASSUME worker \in [Workers -> Place], NEW w \in Workers, WriteAll(w)
  PROVE  /\ worker' \in [Workers -> Place]
         /\ worker'[w].stage = "rename" /\ worker'[w].job = worker[w].job
         /\ \A v \in Workers \ {w} : worker'[v] = worker[v]
<1>1. PICK ok \in BOOLEAN : worker' = [worker EXCEPT ![w].stage = "rename", ![w].ok = ok]
  BY DEF WriteAll
<1> DEFINE p == [worker[w] EXCEPT !.stage = "rename"]
           q == [p EXCEPT !.ok = ok]
<1>2. worker[w] \in Place /\ "rename" \in Stage
  BY DEF Stage, Holding
<1>3. p \in Place /\ p.stage = "rename" /\ p.job = worker[w].job
  BY <1>2 DEF Place
<1>4. worker' = [worker EXCEPT ![w] = q]
  BY <1>1
<1> HIDE DEF p
<1>5. q \in Place /\ q.stage = p.stage /\ q.job = p.job
  BY <1>3 DEF Place
<1> HIDE DEF q
<1> QED
  BY <1>3, <1>4, <1>5

LEMMA TakeEffect ==
  ASSUME worker \in [Workers -> Place], NEW w \in Workers, NEW s \in Stage,
         NEW j \in Jobs, NEW sel \in Selections \cup {Nothing}, NEW cat \in 0..MaxAlter,
         Take(w, s, j, sel, cat)
  PROVE  /\ worker' \in [Workers -> Place]
         /\ worker'[w].stage = s /\ worker'[w].job = j
         /\ \A v \in Workers \ {w} : worker'[v] = worker[v]
  BY AtPlace DEF Take

LEMMA LeaveEffect ==
  ASSUME worker \in [Workers -> Place], NEW w \in Workers, Leave(w)
  PROVE  /\ worker' \in [Workers -> Place] /\ worker'[w].stage = "idle"
         /\ \A v \in Workers \ {w} : worker'[v] = worker[v]
  BY IdlePlace DEF Leave

LEMMA AskEffect ==
  ASSUME request \in [Requests -> Place], NEW r \in Requests, NEW s \in Stage,
         NEW j \in Jobs, NEW sel \in Selections \cup {Nothing}, NEW cat \in 0..MaxAlter,
         Ask(r, s, j, sel, cat)
  PROVE  /\ request' \in [Requests -> Place]
         /\ request'[r].stage = s /\ request'[r].job = j /\ request'[r].sel = sel
         /\ \A q \in Requests \ {r} : request'[q] = request[q]
  BY AtPlace DEF Ask

LEMMA PassEffect ==
  ASSUME request \in [Requests -> Place], NEW r \in Requests, NEW s \in Stage, Pass(r, s)
  PROVE  /\ request' \in [Requests -> Place]
         /\ request'[r].stage = s /\ request'[r].job = request[r].job
         /\ request'[r].sel = request[r].sel
         /\ \A q \in Requests \ {r} : request'[q] = request[q]
<1> DEFINE q == [request[r] EXCEPT !.stage = s]
<1>1. request[r] \in Place
  OBVIOUS
<1>2. q \in Place /\ q.stage = s /\ q.job = request[r].job /\ q.sel = request[r].sel
  BY <1>1 DEF Place
<1>3. request' = [request EXCEPT ![r] = q]
  BY DEF Pass
<1> HIDE DEF q
<1> QED
  BY <1>2, <1>3

LEMMA AnswerEffect ==
  ASSUME request \in [Requests -> Place], NEW r \in Requests, Answer(r)
  PROVE  /\ request' \in [Requests -> Place] /\ request'[r].stage = "idle"
         /\ \A q \in Requests \ {r} : request'[q] = request[q]
  BY IdlePlace DEF Answer

LEMMA CrashEffect ==
  ASSUME Crash
  PROVE  /\ worker' \in [Workers -> Place] /\ request' \in [Requests -> Place]
         /\ \A w \in Workers : worker'[w].stage = "idle"
         /\ \A r \in Requests : request'[r].stage = "idle"
  BY IdlePlace DEF Crash

LEMMA StatusEffect ==
  ASSUME job \in [Jobs -> Plan], NEW j \in Jobs, NEW s \in Status, SetStatus(j, s)
  PROVE  /\ job' \in [Jobs -> Plan]
         /\ job'[j].status = s /\ \A k \in Jobs \ {j} : job'[k] = job[k]
<1> DEFINE q == [job[j] EXCEPT !.status = s]
<1>1. job[j] \in Plan
  OBVIOUS
<1>2. q \in Plan /\ q.status = s
  BY <1>1 DEF Plan
<1>3. job' = [job EXCEPT ![j] = q]
  BY DEF SetStatus
<1> HIDE DEF q
<1> QED
  BY <1>2, <1>3

LEMMA EndEffect ==
  ASSUME job \in [Jobs -> Plan], unended \subseteq Jobs, NEW j \in Jobs, NEW s \in Status,
         End(j, s)
  PROVE  /\ job' \in [Jobs -> Plan] /\ unended' \subseteq Jobs
         /\ job'[j].status \in {job[j].status, s} /\ \A k \in Jobs \ {j} : job'[k] = job[k]
<1>1. CASE SetStatus(j, s) /\ UNCHANGED unended
  BY <1>1, StatusEffect
<1>2. CASE job' = job /\ unended' = unended \cup {j}
  BY <1>2
<1> QED
  BY <1>1, <1>2 DEF End

LEMMA CancelEffect ==
  ASSUME job \in [Jobs -> Plan], NEW j \in Jobs, Cancel(j)
  PROVE  /\ job' \in [Jobs -> Plan] /\ \A k \in Jobs : job'[k].status = job[k].status
<1> DEFINE q == [job[j] EXCEPT !.cancel = TRUE]
<1>1. job[j] \in Plan
  OBVIOUS
<1>2. q \in Plan /\ q.status = job[j].status
  BY <1>1 DEF Plan
<1>3. job' = [job EXCEPT ![j] = q]
  BY DEF Cancel
<1> HIDE DEF q
<1> QED
  BY <1>2, <1>3

LEMMA FreezeEffect ==
  ASSUME job \in [Jobs -> Plan], request \in [Requests -> Place], NEW r \in Requests,
         request[r].job \in Jobs, FreezeSelection(r)
  PROVE  /\ job' \in [Jobs -> Plan] /\ \A k \in Jobs : job'[k].status = job[k].status
<1> DEFINE j == request[r].job
           p == [job[j] EXCEPT !.sel = request[r].sel]
           q == [p EXCEPT !.cat = request[r].cat]
<1>1. /\ job[j] \in Plan /\ request[r].sel \in Selections \cup {Nothing}
      /\ request[r].cat \in 0..MaxAlter
  BY PlaceFields
<1>2. p \in Plan /\ p.status = job[j].status
  BY <1>1 DEF Plan
<1>3. job' = [job EXCEPT ![j] = q]
  BY DEF FreezeSelection
<1> HIDE DEF p
<1>4. q \in Plan /\ q.status = p.status
  BY <1>1, <1>2 DEF Plan
<1> HIDE DEF q
<1> QED
  BY <1>2, <1>3, <1>4

LEMMA SweepEffect ==
  ASSUME job \in [Jobs -> Plan], SweepInterrupted
  PROVE  /\ job' \in [Jobs -> Plan]
         /\ \A k \in Jobs : job'[k].status =
              IF job[k].status = "running" THEN "interrupted" ELSE job[k].status
<1> DEFINE q(k) == [job[k] EXCEPT !.status = "interrupted"]
<1>1. \A k \in Jobs : job[k] \in Plan
  OBVIOUS
<1>2. "interrupted" \in Status
  BY DEF Status, Terminal
<1>3. ASSUME NEW k \in Jobs
      PROVE  q(k) \in Plan /\ q(k).status = "interrupted"
  BY <1>1, <1>2 DEF Plan
<1>4. job' = [k \in Jobs |-> IF job[k].status = "running" THEN q(k) ELSE job[k]]
  BY DEF SweepInterrupted
<1> HIDE DEF q
<1> QED
  BY <1>1, <1>3, <1>4

-----------------------------------------------------------------------------
(* Type correctness: whoever is at work has a job, and a preview or an     *)
(* execute has a selection.                                                *)
Placed ==
  /\ \A w \in Workers : worker[w].stage # "idle" => worker[w].job \in Jobs
  /\ \A r \in Requests : request[r].stage # "idle" => request[r].job \in Jobs
  /\ \A r \in Requests : request[r].stage \in {"freeze", "capacity", "enqueue"} =>
       request[r].sel \in Selections
TypeInv == TypeOK /\ Placed

LEMMA TypeInit == Init => TypeInv
<1> SUFFICES ASSUME Init PROVE TypeInv
  OBVIOUS
<1>1. 0 \in 0..MaxAlter /\ 0 \in 0..MaxCrash /\ "absent" \in Status
  BY ExportAssumption DEF Status
<1>2. job \in [Jobs -> Plan]
  BY <1>1 DEF Init, Plan
<1>3. worker \in [Workers -> Place] /\ request \in [Requests -> Place]
  BY IdlePlace DEF Init
<1>4. queue \in Seq(Jobs) /\ built \in [Jobs -> Selections \cup {Nothing}]
  BY DEF Init
<1>5. Placed
  BY IdlePlace DEF Init, Placed
<1>6. /\ artifact \in [Jobs -> {"none", "available", "consumed", "purged"}]
      /\ file \in [Jobs -> {"none", "part", "final"}]
      /\ runs \in [Jobs -> Nat] /\ confirmed \in [Jobs -> SUBSET Selections]
  BY DEF Init
<1> QED
  BY <1>1, <1>2, <1>3, <1>4, <1>5, <1>6 DEF Init, TypeInv, TypeOK

(* Every action keeps the types.                                           *)
LEMMA TypeStep == TypeInv /\ [Next]_vars => TypeInv'
<1> SUFFICES ASSUME TypeInv, [Next]_vars PROVE TypeInv'
  OBVIOUS
<1>1. ASSUME NEW j \in Jobs, CreatePlan(j)
      PROVE  TypeInv'
  BY <1>1, StatusEffect, ExportAssumption DEF TypeInv, TypeOK, Placed, Stage, Holding,
    Status, Terminal, rows, disk, pool, ghosts, CreatePlan
<1>2. ASSUME NEW r \in Requests, NEW j \in Jobs, BeginPreview(r, j)
      PROVE  TypeInv'
  <2>1. PICK sel \in Selections : Ask(r, "freeze", j, sel, catalog)
    BY <1>2 DEF BeginPreview
  <2>2. catalog \in 0..MaxAlter
    BY DEF TypeInv, TypeOK
  <2>3. /\ request' \in [Requests -> Place] /\ request'[r].job \in Jobs
        /\ \A q \in Requests \ {r} : request'[q] = request[q]
        /\ request'[r].stage = "freeze" /\ request'[r].sel = sel
    BY <2>1, <2>2, AskEffect DEF TypeInv, TypeOK, Stage
  <2>4. Placed'
    BY <1>2, <2>1, <2>3 DEF TypeInv, Placed, rows, disk, pool, ghosts, BeginPreview
  <2> QED
    BY <1>2, <2>3, <2>4 DEF TypeInv, TypeOK, rows, disk, pool, ghosts, BeginPreview
<1>3. ASSUME NEW r \in Requests, FreezeSelection(r)
      PROVE  TypeInv'
  BY <1>3, AnswerEffect, FreezeEffect DEF TypeInv, TypeOK, Placed, Stage, Holding, rows,
    disk, pool, ghosts, FreezeSelection
<1>4. ASSUME NEW r \in Requests, NEW j \in Jobs, BeginExecute(r, j)
      PROVE  TypeInv'
  <2> DEFINE sel == job[j].sel
             cat == job[j].cat
  <2>1. Ask(r, "capacity", j, sel, cat) /\ sel \in Selections
    BY <1>4, PlanFields DEF TypeInv, TypeOK, BeginExecute
  <2>2. cat \in 0..MaxAlter
    BY PlanFields DEF TypeInv, TypeOK
  <2> HIDE DEF sel, cat
  <2>3. /\ request' \in [Requests -> Place] /\ request'[r].job \in Jobs
        /\ \A q \in Requests \ {r} : request'[q] = request[q]
        /\ request'[r].stage = "capacity" /\ request'[r].sel = sel
    BY <2>1, <2>2, AskEffect DEF TypeInv, TypeOK, Stage
  <2>4. Placed'
    BY <1>4, <2>1, <2>3 DEF TypeInv, Placed, rows, disk, pool, ghosts, BeginExecute
  <2> QED
    BY <1>4, <2>3, <2>4 DEF TypeInv, TypeOK, rows, disk, pool, ghosts, BeginExecute
<1>5. ASSUME NEW r \in Requests, CheckCapacity(r)
      PROVE  TypeInv'
  BY <1>5, PassEffect DEF TypeInv, TypeOK, Placed, Stage, Holding, rows, disk, pool,
    ghosts, CheckCapacity
<1>6. ASSUME NEW r \in Requests, Enqueue(r)
      PROVE  TypeInv'
  <2>1. request[r].job \in Jobs /\ request[r].sel \in Selections
    BY <1>6 DEF TypeInv, Placed, Enqueue
  <2>2. queue' \in Seq(Jobs) /\ inflight' \subseteq Jobs
    BY <1>6, <2>1 DEF TypeInv, TypeOK, Enqueue
  <2>3. confirmed' \in [Jobs -> SUBSET Selections]
    BY <1>6, <2>1 DEF TypeInv, TypeOK, Enqueue
  <2>4. /\ request' \in [Requests -> Place] /\ request'[r].stage = "idle"
        /\ \A q \in Requests \ {r} : request'[q] = request[q]
    BY <1>6, AnswerEffect DEF TypeInv, TypeOK, Enqueue
  <2>5. Placed'
    BY <1>6, <2>4 DEF TypeInv, Placed, rows, disk, pool, ghosts, Enqueue
  <2> QED
    BY <1>6, <2>2, <2>3, <2>4, <2>5 DEF TypeInv, TypeOK, rows, disk, pool, ghosts,
      Enqueue
<1>7. ASSUME NEW r \in Requests, Refuse(r)
      PROVE  TypeInv'
  BY <1>7, AnswerEffect DEF TypeInv, TypeOK, Placed, Stage, Holding, rows, disk, pool,
    ghosts, Refuse
<1>8. ASSUME NEW j \in Jobs, Cancel(j)
      PROVE  TypeInv'
  BY <1>8, CancelEffect DEF TypeInv, TypeOK, Placed, Stage, Holding, rows, disk, pool,
    ghosts, Cancel
<1>9. ASSUME NEW r \in Requests, NEW j \in Jobs, PrepareDownload(r, j)
      PROVE  TypeInv'
  <2>1. Ask(r, "send", j, Nothing, 0)
    BY <1>9 DEF PrepareDownload
  <2>2. /\ 0 \in 0..MaxAlter /\ "send" \in Stage /\ Nothing \in Selections \cup {Nothing}
        /\ request \in [Requests -> Place]
    BY ExportAssumption DEF TypeInv, TypeOK, Stage
  <2>3. /\ request' \in [Requests -> Place] /\ request'[r].job \in Jobs
        /\ \A q \in Requests \ {r} : request'[q] = request[q]
        /\ request'[r].stage = "send" /\ request'[r].sel = Nothing
    BY <2>1, <2>2, AskEffect
  <2>4. Placed'
    BY <1>9, <2>1, <2>3 DEF TypeInv, Placed, rows, disk, pool, ghosts, PrepareDownload
  <2> QED
    BY <1>9, <2>3, <2>4 DEF TypeInv, TypeOK, rows, disk, pool, ghosts, PrepareDownload
<1>10. ASSUME NEW r \in Requests, SendFile(r)
      PROVE  TypeInv'
  <2>1. request[r].job \in Jobs
    BY <1>10 DEF TypeInv, Placed, SendFile
  <2>2. /\ request' \in [Requests -> Place]
        /\ \A q \in Requests \ {r} : request'[q] = request[q]
        /\ \/ request'[r].stage = "idle"
           \/ request'[r].stage = "consume" /\ request'[r].job = request[r].job
    <3>1. CASE Pass(r, "consume")
      BY <3>1, PassEffect DEF TypeInv, TypeOK, Stage
    <3>2. CASE Answer(r)
      BY <3>2, AnswerEffect DEF TypeInv, TypeOK
    <3> QED
      BY <1>10, <3>1, <3>2 DEF SendFile
  <2>3. Placed'
    BY <1>10, <2>1, <2>2 DEF TypeInv, Placed, rows, disk, pool, ghosts, SendFile
  <2> QED
    BY <1>10, <2>2, <2>3 DEF TypeInv, TypeOK, rows, disk, pool, ghosts, SendFile
<1>11. ASSUME NEW r \in Requests, ConsumeFile(r)
      PROVE  TypeInv'
  <2>1. request[r].job \in Jobs
    BY <1>11 DEF TypeInv, Placed, ConsumeFile
  <2>2. /\ request' \in [Requests -> Place] /\ request'[r].job \in Jobs
        /\ \A q \in Requests \ {r} : request'[q] = request[q]
        /\ request'[r].stage = "consumed"
    BY <1>11, <2>1, PassEffect DEF TypeInv, TypeOK, Stage, ConsumeFile
  <2>3. Placed'
    BY <1>11, <2>2 DEF TypeInv, Placed, rows, disk, pool, ghosts, ConsumeFile
  <2> QED
    BY <1>11, <2>2, <2>3 DEF TypeInv, TypeOK, rows, disk, pool, ghosts, ConsumeFile
<1>12. ASSUME NEW r \in Requests, ConsumeRow(r)
      PROVE  TypeInv'
  BY <1>12, AnswerEffect DEF TypeInv, TypeOK, Placed, Stage, Holding, rows, disk, pool,
    ghosts, ConsumeRow
<1>13. ASSUME NEW w \in Workers, Claim(w)
      PROVE  TypeInv'
  <2> DEFINE j == Head(queue)
  <2>1. j \in Jobs /\ queue' \in Seq(Jobs)
    BY <1>13, HeadTailProperties DEF TypeInv, TypeOK, Claim
  <2>2. Nothing \in Selections \cup {Nothing} /\ 0 \in 0..MaxAlter
    BY ExportAssumption
  <2>3. /\ worker' \in [Workers -> Place] /\ worker'[w].job \in Jobs
        /\ \A v \in Workers \ {w} : worker'[v] = worker[v]
    <3>1. Take(w, "load", j, Nothing, 0) \/ Take(w, "leave", j, Nothing, 0)
      BY <1>13 DEF Claim
    <3>2. "load" \in Stage /\ "leave" \in Stage
      BY DEF Stage
    <3>3. worker \in [Workers -> Place]
      BY DEF TypeInv, TypeOK
    <3> HIDE DEF j
    <3>4. CASE Take(w, "load", j, Nothing, 0)
      BY <2>1, <2>2, <3>2, <3>3, <3>4, TakeEffect
    <3>5. CASE Take(w, "leave", j, Nothing, 0)
      BY <2>1, <2>2, <3>2, <3>3, <3>5, TakeEffect
    <3> QED
      BY <3>1, <3>4, <3>5
  <2>4. job' \in [Jobs -> Plan] /\ unended' \subseteq Jobs
    <3>1. SetStatus(j, "running") \/ job' = job
      BY <1>13 DEF Claim
    <3>2. unended' = unended \/ unended' = unended \cup {j}
      BY <1>13 DEF Claim
    <3> QED
      BY <2>1, <3>1, <3>2, StatusEffect DEF TypeInv, TypeOK, Status
  <2>5. Placed'
    BY <1>13, <2>3 DEF TypeInv, Placed, Claim
  <2> QED
    BY <1>13, <2>1, <2>3, <2>4, <2>5 DEF TypeInv, TypeOK, rows, disk, pool, ghosts,
      Claim
<1>14. ASSUME NEW w \in Workers, LoadPlan(w)
      PROVE  TypeInv'
  <2> DEFINE j == worker[w].job
  <2>1. j \in Jobs
    BY <1>14 DEF TypeInv, Placed, LoadPlan
  <2>2. job[j].sel \in Selections \cup {Nothing} /\ job[j].cat \in 0..MaxAlter
    BY <2>1, PlanFields DEF TypeInv, TypeOK
  <2>3. /\ worker' \in [Workers -> Place] /\ worker'[w].job \in Jobs
        /\ \A v \in Workers \ {w} : worker'[v] = worker[v]
    <3> DEFINE sel == job[j].sel
               cat == job[j].cat
    <3>1. Take(w, "guard", j, sel, cat) /\ "guard" \in Stage
      BY <1>14 DEF LoadPlan, Stage
    <3>2. sel \in Selections \cup {Nothing} /\ cat \in 0..MaxAlter
      BY <2>2
    <3>3. worker \in [Workers -> Place]
      BY DEF TypeInv, TypeOK
    <3> HIDE DEF j, sel, cat
    <3>4. /\ worker' \in [Workers -> Place] /\ worker'[w].job = j
          /\ \A v \in Workers \ {w} : worker'[v] = worker[v]
      BY <2>1, <3>1, <3>2, <3>3, TakeEffect
    <3> QED
      BY <2>1, <3>4
  <2>4. Placed'
    BY <1>14, <2>3 DEF TypeInv, Placed, LoadPlan
  <2> QED
    BY <1>14, <2>3, <2>4 DEF TypeInv, TypeOK, rows, disk, pool, ghosts, LoadPlan
<1>15. ASSUME NEW w \in Workers, SwitchedOff(w)
      PROVE  TypeInv'
  <2>1. worker[w].stage # "idle" /\ worker[w].job \in Jobs
    BY <1>15 DEF TypeInv, Placed, SwitchedOff
  <2>2. /\ worker' \in [Workers -> Place] /\ worker'[w].job = worker[w].job
        /\ \A v \in Workers \ {w} : worker'[v] = worker[v]
    BY <1>15, MoveEffect DEF TypeInv, TypeOK, Stage, Holding, SwitchedOff
  <2>3. Placed'
    BY <1>15, <2>1, <2>2 DEF TypeInv, Placed, rows, disk, pool, ghosts, SwitchedOff
  <2>4. job' \in [Jobs -> Plan] /\ unended' \subseteq Jobs
    BY <1>15, <2>1, EndEffect DEF TypeInv, TypeOK, Status, Terminal, SwitchedOff
  <2> QED
    BY <1>15, <2>1, <2>2, <2>3, <2>4 DEF TypeInv, TypeOK, rows, disk, pool, ghosts,
      SwitchedOff
<1>16. ASSUME NEW w \in Workers, LoadFails(w)
      PROVE  TypeInv'
  <2>1. worker[w].stage # "idle" /\ worker[w].job \in Jobs
    BY <1>16 DEF TypeInv, Placed, LoadFails
  <2>2. /\ worker' \in [Workers -> Place] /\ worker'[w].job = worker[w].job
        /\ \A v \in Workers \ {w} : worker'[v] = worker[v]
    BY <1>16, MoveEffect DEF TypeInv, TypeOK, Stage, Holding, LoadFails
  <2>3. Placed'
    BY <1>16, <2>1, <2>2 DEF TypeInv, Placed, rows, disk, pool, ghosts, LoadFails
  <2> QED
    BY <1>16, <2>1, <2>2, <2>3 DEF TypeInv, TypeOK, rows, disk, pool, ghosts, LoadFails
<1>17. ASSUME NEW w \in Workers, TakeGuard(w)
      PROVE  TypeInv'
  <2>1. worker[w].stage # "idle" /\ worker[w].job \in Jobs
    BY <1>17 DEF TypeInv, Placed, TakeGuard
  <2>2. /\ worker' \in [Workers -> Place] /\ worker'[w].job = worker[w].job
        /\ \A v \in Workers \ {w} : worker'[v] = worker[v]
    BY <1>17, MoveEffect DEF TypeInv, TypeOK, Stage, Holding, TakeGuard
  <2>3. Placed'
    BY <1>17, <2>1, <2>2 DEF TypeInv, Placed, rows, disk, pool, ghosts, TakeGuard
  <2> QED
    BY <1>17, <2>1, <2>2, <2>3 DEF TypeInv, TypeOK, rows, disk, pool, ghosts, TakeGuard
<1>18. ASSUME NEW w \in Workers, OpenSpool(w)
      PROVE  TypeInv'
  <2>1. worker[w].stage # "idle" /\ worker[w].job \in Jobs
    BY <1>18 DEF TypeInv, Placed, OpenSpool
  <2>2. /\ worker' \in [Workers -> Place] /\ worker'[w].job = worker[w].job
        /\ \A v \in Workers \ {w} : worker'[v] = worker[v]
    BY <1>18, MoveEffect DEF TypeInv, TypeOK, Stage, Holding, OpenSpool
  <2>3. Placed'
    BY <1>18, <2>1, <2>2 DEF TypeInv, Placed, rows, disk, pool, ghosts, OpenSpool
  <2>4. runs' \in [Jobs -> Nat]
    BY <1>18, <2>1 DEF TypeInv, TypeOK, OpenSpool
  <2> QED
    BY <1>18, <2>1, <2>2, <2>3, <2>4 DEF TypeInv, TypeOK, rows, disk, pool, ghosts,
      OpenSpool
<1>19. ASSUME NEW w \in Workers, CancelSeen(w)
      PROVE  TypeInv'
  <2>1. worker[w].stage # "idle" /\ worker[w].job \in Jobs
    BY <1>19 DEF TypeInv, Placed, CancelSeen
  <2>2. /\ worker' \in [Workers -> Place] /\ worker'[w].job = worker[w].job
        /\ \A v \in Workers \ {w} : worker'[v] = worker[v]
    BY <1>19, MoveEffect DEF TypeInv, TypeOK, Stage, Holding, CancelSeen
  <2>3. Placed'
    BY <1>19, <2>1, <2>2 DEF TypeInv, Placed, rows, disk, pool, ghosts, CancelSeen
  <2>4. job' \in [Jobs -> Plan] /\ unended' \subseteq Jobs
    BY <1>19, <2>1, EndEffect DEF TypeInv, TypeOK, Status, Terminal, CancelSeen
  <2> QED
    BY <1>19, <2>1, <2>2, <2>3, <2>4 DEF TypeInv, TypeOK, rows, disk, pool, ghosts,
      CancelSeen
<1>20. ASSUME NEW w \in Workers, GenerateFails(w)
      PROVE  TypeInv'
  <2>1. worker[w].stage # "idle" /\ worker[w].job \in Jobs
    BY <1>20 DEF TypeInv, Placed, GenerateFails
  <2>2. /\ worker' \in [Workers -> Place] /\ worker'[w].job = worker[w].job
        /\ \A v \in Workers \ {w} : worker'[v] = worker[v]
    BY <1>20, MoveEffect DEF TypeInv, TypeOK, Stage, Holding, GenerateFails
  <2>3. Placed'
    BY <1>20, <2>1, <2>2 DEF TypeInv, Placed, rows, disk, pool, ghosts, GenerateFails
  <2>4. job' \in [Jobs -> Plan] /\ unended' \subseteq Jobs
    BY <1>20, <2>1, EndEffect DEF TypeInv, TypeOK, Status, Terminal, GenerateFails
  <2> QED
    BY <1>20, <2>1, <2>2, <2>3, <2>4 DEF TypeInv, TypeOK, rows, disk, pool, ghosts,
      GenerateFails
<1>21. ASSUME NEW w \in Workers, WriteAll(w)
      PROVE  TypeInv'
  BY <1>21, WriteEffect DEF TypeInv, TypeOK, Placed, Stage, Holding, rows, disk, pool,
    ghosts, WriteAll
<1>22. ASSUME NEW w \in Workers, Rename(w)
      PROVE  TypeInv'
  <2>1. worker[w].stage # "idle" /\ worker[w].job \in Jobs
    BY <1>22 DEF TypeInv, Placed, Rename
  <2>2. /\ worker' \in [Workers -> Place] /\ worker'[w].job = worker[w].job
        /\ \A v \in Workers \ {w} : worker'[v] = worker[v]
    BY <1>22, MoveEffect DEF TypeInv, TypeOK, Stage, Holding, Rename
  <2>3. Placed'
    BY <1>22, <2>1, <2>2 DEF TypeInv, Placed, rows, disk, pool, ghosts, Rename
  <2> QED
    BY <1>22, <2>1, <2>2, <2>3 DEF TypeInv, TypeOK, rows, disk, pool, ghosts, Rename
<1>23. ASSUME NEW w \in Workers, InsertRow(w)
      PROVE  TypeInv'
  <2>1. worker[w].stage # "idle" /\ worker[w].job \in Jobs
    BY <1>23 DEF TypeInv, Placed, InsertRow
  <2>2. /\ worker' \in [Workers -> Place] /\ worker'[w].job = worker[w].job
        /\ \A v \in Workers \ {w} : worker'[v] = worker[v]
    BY <1>23, MoveEffect DEF TypeInv, TypeOK, Stage, Holding, InsertRow
  <2>3. Placed'
    BY <1>23, <2>1, <2>2 DEF TypeInv, Placed, rows, disk, pool, ghosts, InsertRow
  <2>4. worker[w].sel \in Selections \cup {Nothing}
    BY PlaceFields DEF TypeInv, TypeOK
  <2> QED
    BY <1>23, <2>1, <2>2, <2>3, <2>4 DEF TypeInv, TypeOK, rows, disk, pool, ghosts,
      InsertRow
<1>24. ASSUME NEW w \in Workers, InsertFails(w)
      PROVE  TypeInv'
  <2>1. worker[w].stage # "idle" /\ worker[w].job \in Jobs
    BY <1>24 DEF TypeInv, Placed, InsertFails
  <2>2. /\ worker' \in [Workers -> Place] /\ worker'[w].job = worker[w].job
        /\ \A v \in Workers \ {w} : worker'[v] = worker[v]
    BY <1>24, MoveEffect DEF TypeInv, TypeOK, Stage, Holding, InsertFails
  <2>3. Placed'
    BY <1>24, <2>1, <2>2 DEF TypeInv, Placed, rows, disk, pool, ghosts, InsertFails
  <2>4. job' \in [Jobs -> Plan] /\ unended' \subseteq Jobs
    BY <1>24, <2>1, EndEffect DEF TypeInv, TypeOK, Status, Terminal, InsertFails
  <2> QED
    BY <1>24, <2>1, <2>2, <2>3, <2>4 DEF TypeInv, TypeOK, rows, disk, pool, ghosts,
      InsertFails
<1>25. ASSUME NEW w \in Workers, Report(w)
      PROVE  TypeInv'
  <2>1. worker[w].stage # "idle" /\ worker[w].job \in Jobs
    BY <1>25 DEF TypeInv, Placed, Report
  <2>2. /\ worker' \in [Workers -> Place] /\ worker'[w].job = worker[w].job
        /\ \A v \in Workers \ {w} : worker'[v] = worker[v]
    BY <1>25, MoveEffect DEF TypeInv, TypeOK, Stage, Holding, Report
  <2>3. Placed'
    BY <1>25, <2>1, <2>2 DEF TypeInv, Placed, rows, disk, pool, ghosts, Report
  <2>4. PICK status \in {"succeeded", "failed"} : End(worker[w].job, status)
    BY <1>25 DEF Report
  <2>5. job' \in [Jobs -> Plan] /\ unended' \subseteq Jobs
    BY <2>1, <2>4, EndEffect DEF TypeInv, TypeOK, Status, Terminal
  <2> QED
    BY <1>25, <2>1, <2>2, <2>3, <2>5 DEF TypeInv, TypeOK, rows, disk, pool, ghosts,
      Report
<1>26. ASSUME NEW w \in Workers, Leave(w)
      PROVE  TypeInv'
  BY <1>26, LeaveEffect DEF TypeInv, TypeOK, Placed, Stage, Holding, rows, disk, pool,
    ghosts, Leave
<1>27. ASSUME PurgeFiles
      PROVE  TypeInv'
  BY <1>27 DEF TypeInv, TypeOK, Placed, Stage, Holding, rows, disk, pool, ghosts,
    PurgeFiles, Overdue
<1>28. ASSUME PurgeRows
      PROVE  TypeInv'
  BY <1>28 DEF TypeInv, TypeOK, Placed, Stage, Holding, rows, disk, pool, ghosts,
    PurgeRows, Overdue
<1>29. ASSUME Crash
      PROVE  TypeInv'
  BY <1>29, CrashEffect, ExportAssumption DEF TypeInv, TypeOK, Placed, Stage, Holding,
    rows, disk, pool, ghosts, Crash
<1>30. ASSUME SweepInterrupted
      PROVE  TypeInv'
  BY <1>30, SweepEffect DEF TypeInv, TypeOK, Placed, Stage, Holding, rows, disk, pool,
    ghosts, SweepInterrupted
<1>31. ASSUME SweepFails
      PROVE  TypeInv'
  BY <1>31 DEF TypeInv, TypeOK, Placed, Stage, Holding, rows, disk, pool, ghosts,
    SweepFails
<1>32. ASSUME StartupPurged
      PROVE  TypeInv'
  BY <1>32 DEF TypeInv, TypeOK, Placed, Stage, Holding, rows, disk, pool, ghosts,
    StartupPurged
<1>33. ASSUME SweepOrphans
      PROVE  TypeInv'
  BY <1>33 DEF TypeInv, TypeOK, Placed, Stage, Holding, rows, disk, pool, ghosts,
    SweepOrphans
<1>34. ASSUME NEW j \in Jobs, Expire(j)
      PROVE  TypeInv'
  BY <1>34 DEF TypeInv, TypeOK, Placed, Stage, Holding, rows, disk, pool, ghosts, Expire
<1>35. ASSUME AlterSource
      PROVE  TypeInv'
  BY <1>35, ExportAssumption DEF TypeInv, TypeOK, Placed, Stage, Holding, rows, disk,
    pool, ghosts, AlterSource
<1>36. CASE UNCHANGED vars
  BY <1>36 DEF TypeInv, TypeOK, Placed, Stage, Holding, rows, disk, pool, ghosts, vars
<1> QED
  BY <1>1, <1>2, <1>3, <1>4, <1>5, <1>6, <1>7, <1>8, <1>9, <1>10, <1>11, <1>12, <1>13,
    <1>14, <1>15, <1>16, <1>17, <1>18, <1>19, <1>20, <1>21, <1>22, <1>23, <1>24, <1>25,
    <1>26, <1>27, <1>28, <1>29, <1>30, <1>31, <1>32, <1>33, <1>34, <1>35, <1>36 DEF
    Next, Handle, Work, StartUp, Purge

(* Every variable keeps its type: statuses, stages and places are those of *)
(* the code's models, whatever the interleaving.                           *)
THEOREM TypeCorrect == Spec => []TypeOK
<1>1. Init => TypeInv
  BY TypeInit
<1>2. TypeInv /\ [Next]_vars => TypeInv'
  BY TypeStep
<1>3. TypeInv => TypeOK
  BY DEF TypeInv
<1> QED
  BY <1>1, <1>2, <1>3, PTL DEF Spec

-----------------------------------------------------------------------------
(* One export per plan, and nothing left of a cancelled one.               *)

(* A worker that holds a claimed job.                                      *)
Busy(w) == worker[w].stage \in {"load", "guard"} \cup Holding

(* While the process starts up there is nothing in its memory.             *)
QuietStart ==
  proc # "up" =>
    /\ \A w \in Workers : worker[w].stage = "idle"
    /\ \A r \in Requests : request[r].stage = "idle"
    /\ queue = <<>>

(* The claim is exclusive: the job of a busy worker is running, no other   *)
(* worker has it, and it was not written before its spool is opened.       *)
ClaimedRuns ==
  \A w \in Workers : Busy(w) => job[worker[w].job].status = "running"
OneWorker ==
  \A v, w \in Workers : Busy(v) /\ Busy(w) /\ worker[v].job = worker[w].job => v = w
SpoolUnopened ==
  \A w \in Workers : worker[w].stage \in {"load", "guard", "check"} =>
    runs[worker[w].job] = 0

(* A job that was not claimed has not been exported.                       *)
UnclaimedNotRun ==
  \A j \in Jobs : job[j].status \in {"absent", "pending"} => runs[j] = 0

(* Rows and files exist only after a claim and not after a cancellation.   *)
NothingUnclaimed ==
  \A j \in Jobs : job[j].status \in {"absent", "pending", "canceled"} =>
    artifact[j] = "none" /\ file[j] = "none"
NoRowWhileWriting ==
  \A w \in Workers : worker[w].stage \in {"load", "guard", "check", "write"} =>
    artifact[worker[w].job] = "none"

(* Whoever touches an artifact after its worker found its row.             *)
RowFound ==
  /\ \A r \in Requests : request[r].stage \in {"send", "consume", "consumed"} =>
       artifact[request[r].job] # "none"
  /\ \A j \in purging : artifact[j] # "none"

Core ==
  /\ QuietStart /\ ClaimedRuns /\ OneWorker /\ SpoolUnopened /\ UnclaimedNotRun
  /\ OneGeneration /\ NothingUnclaimed /\ NoRowWhileWriting /\ RowFound

LEMMA CoreInit == Init => Core
  BY IdlePlace DEF Init, Core, Busy, QuietStart, ClaimedRuns, OneWorker, SpoolUnopened,
     UnclaimedNotRun, OneGeneration, NothingUnclaimed, NoRowWhileWriting, RowFound, Holding

LEMMA CoreStep == TypeInv /\ TypeInv' /\ Core /\ [Next]_vars => Core'
<1> SUFFICES ASSUME TypeInv, TypeInv', Core, [Next]_vars PROVE Core'
  OBVIOUS
<1>1. ASSUME NEW j \in Jobs, CreatePlan(j)
      PROVE  Core'
  <2>1. job'[j].status = "pending" /\ \A k \in Jobs \ {j} : job'[k] = job[k]
    BY <1>1, StatusEffect DEF TypeInv, TypeOK, Status, CreatePlan
  <2>2. UNCHANGED <<artifact, file, runs, request, purging, proc, queue, worker>>
    BY <1>1 DEF rows, disk, pool, ghosts, CreatePlan
  <2>3. job[j].status = "absent"
    BY <1>1 DEF CreatePlan
  <2>4. ClaimedRuns' /\ UnclaimedNotRun' /\ NothingUnclaimed'
    BY <2>1, <2>2, <2>3 DEF Core, ClaimedRuns, UnclaimedNotRun, NothingUnclaimed, Busy,
      Holding, TypeInv, Placed
  <2>5. QuietStart' /\ OneWorker' /\ SpoolUnopened' /\ OneGeneration' /\
    NoRowWhileWriting' /\ RowFound'
    BY <2>2 DEF Core, QuietStart, OneWorker, SpoolUnopened, OneGeneration,
      NoRowWhileWriting, RowFound, Busy, Holding
  <2> QED
    BY <2>4, <2>5 DEF Core
<1>2. ASSUME NEW r \in Requests, NEW j \in Jobs, BeginPreview(r, j)
      PROVE  Core'
  <2>1. /\ request'[r].stage = "freeze" /\ request'[r].job = j
        /\ \A q \in Requests \ {r} : request'[q] = request[q]
    <3>1. PICK sel \in Selections : Ask(r, "freeze", j, sel, catalog)
      BY <1>2 DEF BeginPreview
    <3> QED
      BY <3>1, AskEffect DEF TypeInv, TypeOK, Stage
  <2>2. proc = "up" /\ proc' = proc
    BY <1>2 DEF Core, QuietStart, rows, disk, pool, ghosts, BeginPreview
  <2>3. \A k \in Jobs : job'[k].status = job[k].status
    BY <1>2 DEF rows, disk, pool, ghosts, BeginPreview
  <2>4. UNCHANGED <<artifact, file, runs, worker, purging>>
    BY <1>2 DEF rows, disk, pool, ghosts, BeginPreview
  <2>5. ClaimedRuns' /\ UnclaimedNotRun'
    BY <2>3, <2>4 DEF Core, ClaimedRuns, UnclaimedNotRun, Busy, Holding, TypeInv, Placed
  <2>6. OneWorker' /\ SpoolUnopened' /\ OneGeneration'
    BY <2>4 DEF Core, OneWorker, SpoolUnopened, OneGeneration, Busy, Holding
  <2>7. NothingUnclaimed' /\ NoRowWhileWriting'
    BY <1>2, <2>3, <2>4 DEF Core, NothingUnclaimed, NoRowWhileWriting, RowFound,
      TypeInv, Placed, BeginPreview
  <2>8. RowFound'
    BY <1>2, <2>1, <2>4 DEF Core, RowFound, TypeInv, Placed, BeginPreview
  <2> QED
    BY <2>2, <2>5, <2>6, <2>7, <2>8 DEF Core, QuietStart
<1>3. ASSUME NEW r \in Requests, FreezeSelection(r)
      PROVE  Core'
  <2>1. /\ request'[r].stage = "idle"
        /\ \A q \in Requests \ {r} : request'[q] = request[q]
    BY <1>3, AnswerEffect DEF TypeInv, TypeOK, FreezeSelection
  <2>2. proc = "up" /\ proc' = proc
    BY <1>3 DEF Core, QuietStart, rows, disk, pool, ghosts, FreezeSelection
  <2>3. \A k \in Jobs : job'[k].status = job[k].status
    BY <1>3, FreezeEffect DEF TypeInv, TypeOK, Placed, FreezeSelection
  <2>4. UNCHANGED <<artifact, file, runs, worker, purging>>
    BY <1>3 DEF rows, disk, pool, ghosts, FreezeSelection
  <2>5. ClaimedRuns' /\ UnclaimedNotRun'
    BY <2>3, <2>4 DEF Core, ClaimedRuns, UnclaimedNotRun, Busy, Holding, TypeInv, Placed
  <2>6. OneWorker' /\ SpoolUnopened' /\ OneGeneration'
    BY <2>4 DEF Core, OneWorker, SpoolUnopened, OneGeneration, Busy, Holding
  <2>7. NothingUnclaimed' /\ NoRowWhileWriting'
    BY <1>3, <2>3, <2>4 DEF Core, NothingUnclaimed, NoRowWhileWriting, RowFound,
      TypeInv, Placed, FreezeSelection
  <2>8. RowFound'
    BY <1>3, <2>1, <2>4 DEF Core, RowFound, TypeInv, Placed, FreezeSelection
  <2> QED
    BY <2>2, <2>5, <2>6, <2>7, <2>8 DEF Core, QuietStart
<1>4. ASSUME NEW r \in Requests, NEW j \in Jobs, BeginExecute(r, j)
      PROVE  Core'
  <2>1. /\ request'[r].stage = "capacity" /\ request'[r].job = j
        /\ \A q \in Requests \ {r} : request'[q] = request[q]
    <3> DEFINE sel == job[j].sel
               cat == job[j].cat
    <3>1. /\ Ask(r, "capacity", j, sel, cat) /\ sel \in Selections \cup {Nothing}
          /\ cat \in 0..MaxAlter
      BY <1>4, PlanFields DEF TypeInv, TypeOK, BeginExecute
    <3> HIDE DEF sel, cat
    <3> QED
      BY <3>1, AskEffect DEF TypeInv, TypeOK, Stage
  <2>2. proc = "up" /\ proc' = proc
    BY <1>4 DEF Core, QuietStart, rows, disk, pool, ghosts, BeginExecute
  <2>3. \A k \in Jobs : job'[k].status = job[k].status
    BY <1>4 DEF rows, disk, pool, ghosts, BeginExecute
  <2>4. UNCHANGED <<artifact, file, runs, worker, purging>>
    BY <1>4 DEF rows, disk, pool, ghosts, BeginExecute
  <2>5. ClaimedRuns' /\ UnclaimedNotRun'
    BY <2>3, <2>4 DEF Core, ClaimedRuns, UnclaimedNotRun, Busy, Holding, TypeInv, Placed
  <2>6. OneWorker' /\ SpoolUnopened' /\ OneGeneration'
    BY <2>4 DEF Core, OneWorker, SpoolUnopened, OneGeneration, Busy, Holding
  <2>7. NothingUnclaimed' /\ NoRowWhileWriting'
    BY <1>4, <2>3, <2>4 DEF Core, NothingUnclaimed, NoRowWhileWriting, RowFound,
      TypeInv, Placed, BeginExecute
  <2>8. RowFound'
    BY <1>4, <2>1, <2>4 DEF Core, RowFound, TypeInv, Placed, BeginExecute
  <2> QED
    BY <2>2, <2>5, <2>6, <2>7, <2>8 DEF Core, QuietStart
<1>5. ASSUME NEW r \in Requests, CheckCapacity(r)
      PROVE  Core'
  <2>1. /\ request'[r].stage = "enqueue" /\ request'[r].job = request[r].job
        /\ \A q \in Requests \ {r} : request'[q] = request[q]
    BY <1>5, PassEffect DEF TypeInv, TypeOK, Stage, CheckCapacity
  <2>2. proc = "up" /\ proc' = proc
    BY <1>5 DEF Core, QuietStart, rows, disk, pool, ghosts, CheckCapacity
  <2>3. \A k \in Jobs : job'[k].status = job[k].status
    BY <1>5 DEF rows, disk, pool, ghosts, CheckCapacity
  <2>4. UNCHANGED <<artifact, file, runs, worker, purging>>
    BY <1>5 DEF rows, disk, pool, ghosts, CheckCapacity
  <2>5. ClaimedRuns' /\ UnclaimedNotRun'
    BY <2>3, <2>4 DEF Core, ClaimedRuns, UnclaimedNotRun, Busy, Holding, TypeInv, Placed
  <2>6. OneWorker' /\ SpoolUnopened' /\ OneGeneration'
    BY <2>4 DEF Core, OneWorker, SpoolUnopened, OneGeneration, Busy, Holding
  <2>7. NothingUnclaimed' /\ NoRowWhileWriting'
    BY <1>5, <2>3, <2>4 DEF Core, NothingUnclaimed, NoRowWhileWriting, RowFound,
      TypeInv, Placed, CheckCapacity
  <2>8. RowFound'
    BY <1>5, <2>1, <2>4 DEF Core, RowFound, TypeInv, Placed, CheckCapacity
  <2> QED
    BY <2>2, <2>5, <2>6, <2>7, <2>8 DEF Core, QuietStart
<1>6. ASSUME NEW r \in Requests, Enqueue(r)
      PROVE  Core'
  <2>1. /\ request'[r].stage = "idle"
        /\ \A q \in Requests \ {r} : request'[q] = request[q]
    BY <1>6, AnswerEffect DEF TypeInv, TypeOK, Enqueue
  <2>2. proc = "up" /\ proc' = proc
    BY <1>6 DEF Core, QuietStart, rows, disk, pool, ghosts, Enqueue
  <2>3. \A k \in Jobs : job'[k].status = job[k].status
    BY <1>6 DEF rows, disk, pool, ghosts, Enqueue
  <2>4. UNCHANGED <<artifact, file, runs, worker, purging>>
    BY <1>6 DEF rows, disk, pool, ghosts, Enqueue
  <2>5. ClaimedRuns' /\ UnclaimedNotRun'
    BY <2>3, <2>4 DEF Core, ClaimedRuns, UnclaimedNotRun, Busy, Holding, TypeInv, Placed
  <2>6. OneWorker' /\ SpoolUnopened' /\ OneGeneration'
    BY <2>4 DEF Core, OneWorker, SpoolUnopened, OneGeneration, Busy, Holding
  <2>7. NothingUnclaimed' /\ NoRowWhileWriting'
    BY <1>6, <2>3, <2>4 DEF Core, NothingUnclaimed, NoRowWhileWriting, RowFound,
      TypeInv, Placed, Enqueue
  <2>8. RowFound'
    BY <1>6, <2>1, <2>4 DEF Core, RowFound, TypeInv, Placed, Enqueue
  <2> QED
    BY <2>2, <2>5, <2>6, <2>7, <2>8 DEF Core, QuietStart
<1>7. ASSUME NEW r \in Requests, Refuse(r)
      PROVE  Core'
  <2>1. /\ request'[r].stage = "idle"
        /\ \A q \in Requests \ {r} : request'[q] = request[q]
    BY <1>7, AnswerEffect DEF TypeInv, TypeOK, Refuse
  <2>2. proc = "up" /\ proc' = proc
    BY <1>7 DEF Core, QuietStart, rows, disk, pool, ghosts, Refuse
  <2>3. \A k \in Jobs : job'[k].status = job[k].status
    BY <1>7 DEF rows, disk, pool, ghosts, Refuse
  <2>4. UNCHANGED <<artifact, file, runs, worker, purging>>
    BY <1>7 DEF rows, disk, pool, ghosts, Refuse
  <2>5. ClaimedRuns' /\ UnclaimedNotRun'
    BY <2>3, <2>4 DEF Core, ClaimedRuns, UnclaimedNotRun, Busy, Holding, TypeInv, Placed
  <2>6. OneWorker' /\ SpoolUnopened' /\ OneGeneration'
    BY <2>4 DEF Core, OneWorker, SpoolUnopened, OneGeneration, Busy, Holding
  <2>7. NothingUnclaimed' /\ NoRowWhileWriting'
    BY <1>7, <2>3, <2>4 DEF Core, NothingUnclaimed, NoRowWhileWriting, RowFound,
      TypeInv, Placed, Refuse
  <2>8. RowFound'
    BY <1>7, <2>1, <2>4 DEF Core, RowFound, TypeInv, Placed, Refuse
  <2> QED
    BY <2>2, <2>5, <2>6, <2>7, <2>8 DEF Core, QuietStart
<1>8. ASSUME NEW j \in Jobs, Cancel(j)
      PROVE  Core'
  BY <1>8, CancelEffect DEF TypeInv, TypeOK, Placed, Stage, Holding, Core, Busy,
    QuietStart, ClaimedRuns, OneWorker, SpoolUnopened, UnclaimedNotRun, OneGeneration,
    NothingUnclaimed, NoRowWhileWriting, RowFound, rows, disk, pool, ghosts, Cancel
<1>9. ASSUME NEW r \in Requests, NEW j \in Jobs, PrepareDownload(r, j)
      PROVE  Core'
  <2>1. /\ request'[r].stage = "send" /\ request'[r].job = j
        /\ \A q \in Requests \ {r} : request'[q] = request[q]
    <3>1. Ask(r, "send", j, Nothing, 0) /\ 0 \in 0..MaxAlter
      BY <1>9, ExportAssumption DEF PrepareDownload
    <3> QED
      BY <3>1, AskEffect DEF TypeInv, TypeOK, Stage
  <2>2. proc = "up" /\ proc' = proc
    BY <1>9 DEF Core, QuietStart, rows, disk, pool, ghosts, PrepareDownload
  <2>3. \A k \in Jobs : job'[k].status = job[k].status
    BY <1>9 DEF rows, disk, pool, ghosts, PrepareDownload
  <2>4. UNCHANGED <<artifact, file, runs, worker, purging>>
    BY <1>9 DEF rows, disk, pool, ghosts, PrepareDownload
  <2>5. ClaimedRuns' /\ UnclaimedNotRun'
    BY <2>3, <2>4 DEF Core, ClaimedRuns, UnclaimedNotRun, Busy, Holding, TypeInv, Placed
  <2>6. OneWorker' /\ SpoolUnopened' /\ OneGeneration'
    BY <2>4 DEF Core, OneWorker, SpoolUnopened, OneGeneration, Busy, Holding
  <2>7. NothingUnclaimed' /\ NoRowWhileWriting'
    BY <1>9, <2>3, <2>4 DEF Core, NothingUnclaimed, NoRowWhileWriting, RowFound,
      TypeInv, Placed, PrepareDownload
  <2>8. RowFound'
    BY <1>9, <2>1, <2>4 DEF Core, RowFound, TypeInv, Placed, PrepareDownload
  <2> QED
    BY <2>2, <2>5, <2>6, <2>7, <2>8 DEF Core, QuietStart
<1>10. ASSUME NEW r \in Requests, SendFile(r)
      PROVE  Core'
  BY <1>10, PassEffect, AnswerEffect DEF TypeInv, TypeOK, Placed, Stage, Holding, Core,
    Busy, QuietStart, ClaimedRuns, OneWorker, SpoolUnopened, UnclaimedNotRun,
    OneGeneration, NothingUnclaimed, NoRowWhileWriting, RowFound, rows, disk, pool,
    ghosts, SendFile
<1>11. ASSUME NEW r \in Requests, ConsumeFile(r)
      PROVE  Core'
  <2>1. /\ request'[r].stage = "consumed" /\ request'[r].job = request[r].job
        /\ \A q \in Requests \ {r} : request'[q] = request[q]
    BY <1>11, PassEffect DEF TypeInv, TypeOK, Stage, ConsumeFile
  <2>2. proc = "up" /\ proc' = proc
    BY <1>11 DEF Core, QuietStart, rows, disk, pool, ghosts, ConsumeFile
  <2>3. \A k \in Jobs : job'[k].status = job[k].status
    BY <1>11 DEF rows, disk, pool, ghosts, ConsumeFile
  <2>4. /\ UNCHANGED <<artifact, runs, worker, purging>> /\ request[r].job \in Jobs
        /\ file'[request[r].job] = "none"
        /\ \A k \in Jobs \ {request[r].job} : file'[k] = file[k]
    BY <1>11 DEF TypeInv, TypeOK, Placed, rows, disk, pool, ghosts, ConsumeFile
  <2>5. ClaimedRuns' /\ UnclaimedNotRun'
    BY <2>3, <2>4 DEF Core, ClaimedRuns, UnclaimedNotRun, Busy, Holding, TypeInv, Placed
  <2>6. OneWorker' /\ SpoolUnopened' /\ OneGeneration'
    BY <2>4 DEF Core, OneWorker, SpoolUnopened, OneGeneration, Busy, Holding
  <2>7. NothingUnclaimed' /\ NoRowWhileWriting'
    BY <1>11, <2>3, <2>4 DEF Core, NothingUnclaimed, NoRowWhileWriting, RowFound,
      TypeInv, Placed, ConsumeFile
  <2>8. RowFound'
    BY <1>11, <2>1, <2>4 DEF Core, RowFound, TypeInv, Placed, ConsumeFile
  <2> QED
    BY <2>2, <2>5, <2>6, <2>7, <2>8 DEF Core, QuietStart
<1>12. ASSUME NEW r \in Requests, ConsumeRow(r)
      PROVE  Core'
  <2>1. /\ request'[r].stage = "idle"
        /\ \A q \in Requests \ {r} : request'[q] = request[q]
    BY <1>12, AnswerEffect DEF TypeInv, TypeOK, ConsumeRow
  <2>2. proc = "up" /\ proc' = proc
    BY <1>12 DEF Core, QuietStart, rows, disk, pool, ghosts, ConsumeRow
  <2>3. \A k \in Jobs : job'[k].status = job[k].status
    BY <1>12 DEF rows, disk, pool, ghosts, ConsumeRow
  <2>4. /\ UNCHANGED <<file, runs, worker, purging>> /\ request[r].job \in Jobs
        /\ artifact'[request[r].job] = "consumed"
        /\ \A k \in Jobs \ {request[r].job} : artifact'[k] = artifact[k]
    BY <1>12 DEF TypeInv, TypeOK, Placed, rows, disk, pool, ghosts, ConsumeRow
  <2>5. ClaimedRuns' /\ UnclaimedNotRun'
    BY <2>3, <2>4 DEF Core, ClaimedRuns, UnclaimedNotRun, Busy, Holding, TypeInv, Placed
  <2>6. OneWorker' /\ SpoolUnopened' /\ OneGeneration'
    BY <2>4 DEF Core, OneWorker, SpoolUnopened, OneGeneration, Busy, Holding
  <2>7. NothingUnclaimed' /\ NoRowWhileWriting'
    BY <1>12, <2>3, <2>4 DEF Core, NothingUnclaimed, NoRowWhileWriting, RowFound,
      TypeInv, Placed, ConsumeRow
  <2>8. RowFound'
    BY <1>12, <2>1, <2>4 DEF Core, RowFound, TypeInv, Placed, ConsumeRow
  <2> QED
    BY <2>2, <2>5, <2>6, <2>7, <2>8 DEF Core, QuietStart
<1>13. ASSUME NEW w \in Workers, Claim(w)
      PROVE  Core'
  <2> DEFINE j == Head(queue)
  <2>1. j \in Jobs /\ queue # <<>>
    BY <1>13, HeadTailProperties DEF TypeInv, TypeOK, Claim
  <2>2. "load" \in Stage /\ "leave" \in Stage /\ 0 \in 0..MaxAlter
    BY ExportAssumption DEF Stage
  <2>3. proc = "up" /\ proc' = proc
    BY <1>13, <2>1 DEF Core, QuietStart, rows, disk, pool, ghosts, Claim
  <2>4. \/ /\ job[j].status = "pending" /\ SetStatus(j, "running")
           /\ Take(w, "load", j, Nothing, 0) \/ Take(w, "leave", j, Nothing, 0)
        \/ job' = job /\ Take(w, "leave", j, Nothing, 0)
    BY <1>13 DEF Claim
  <2>5. /\ worker[w].stage = "idle"
        /\ UNCHANGED <<artifact, file, request, runs, purging>>
    BY <1>13 DEF Claim, rows, disk, pool, ghosts
  <2> HIDE DEF j
  <2>6. CASE /\ job[j].status = "pending" /\ SetStatus(j, "running")
             /\ Take(w, "load", j, Nothing, 0)
    <3>1. job'[j].status = "running" /\ \A k \in Jobs \ {j} : job'[k] = job[k]
      BY <2>1, <2>6, StatusEffect DEF TypeInv, TypeOK, Status
    <3>2. /\ worker'[w].stage = "load" /\ worker'[w].job = j
          /\ \A v \in Workers \ {w} : worker'[v] = worker[v]
      BY <2>1, <2>2, <2>6, TakeEffect DEF TypeInv, TypeOK
    <3>3. job[j].status = "pending"
      BY <2>6
    <3>4. ClaimedRuns'
      BY <2>1, <3>1, <3>2 DEF Core, ClaimedRuns, Busy, Holding, TypeInv, Placed
    <3>5. OneWorker'
      BY <3>2, <3>3 DEF Core, ClaimedRuns, OneWorker, Busy, Holding
    <3>6. SpoolUnopened' /\ UnclaimedNotRun' /\ OneGeneration'
      BY <2>1, <2>5, <3>1, <3>2, <3>3 DEF Core, SpoolUnopened, UnclaimedNotRun,
        OneGeneration
    <3>7. NothingUnclaimed' /\ NoRowWhileWriting'
      BY <2>1, <2>5, <3>1, <3>2, <3>3 DEF Core, NothingUnclaimed, NoRowWhileWriting
    <3>8. RowFound'
      BY <2>5 DEF Core, RowFound
    <3> QED
      BY <2>3, <3>4, <3>5, <3>6, <3>7, <3>8 DEF Core, QuietStart
  <2>7. CASE job' = job /\ Take(w, "leave", j, Nothing, 0)
    <3>1. /\ worker'[w].stage = "leave" /\ worker'[w].job = j
          /\ \A v \in Workers \ {w} : worker'[v] = worker[v]
      BY <2>1, <2>2, <2>7, TakeEffect DEF TypeInv, TypeOK
    <3>2. ClaimedRuns' /\ OneWorker' /\ SpoolUnopened' /\ NoRowWhileWriting'
      BY <2>5, <2>7, <3>1 DEF Core, ClaimedRuns, OneWorker, SpoolUnopened,
        NoRowWhileWriting, Busy, Holding
    <3>3. UnclaimedNotRun' /\ OneGeneration' /\ NothingUnclaimed' /\ RowFound'
      BY <2>5, <2>7 DEF Core, UnclaimedNotRun, OneGeneration, NothingUnclaimed, RowFound
    <3> QED
      BY <2>3, <3>2, <3>3 DEF Core, QuietStart
  <2>8. CASE /\ job[j].status = "pending" /\ SetStatus(j, "running")
             /\ Take(w, "leave", j, Nothing, 0)
    <3>1. job'[j].status = "running" /\ \A k \in Jobs \ {j} : job'[k] = job[k]
      BY <2>1, <2>8, StatusEffect DEF TypeInv, TypeOK, Status
    <3>2. /\ worker'[w].stage = "leave" /\ worker'[w].job = j
          /\ \A v \in Workers \ {w} : worker'[v] = worker[v]
      BY <2>1, <2>2, <2>8, TakeEffect DEF TypeInv, TypeOK
    <3>3. ClaimedRuns'
      BY <2>1, <3>1, <3>2 DEF Core, ClaimedRuns, Busy, Holding, TypeInv, Placed
    <3>4. OneWorker' /\ SpoolUnopened' /\ NoRowWhileWriting'
      BY <2>5, <3>2 DEF Core, OneWorker, SpoolUnopened, NoRowWhileWriting, Busy, Holding
    <3>5. UnclaimedNotRun' /\ OneGeneration' /\ NothingUnclaimed' /\ RowFound'
      BY <2>1, <2>5, <3>1 DEF Core, UnclaimedNotRun, OneGeneration, NothingUnclaimed,
        RowFound
    <3> QED
      BY <2>3, <3>3, <3>4, <3>5 DEF Core, QuietStart
  <2> QED
    BY <2>4, <2>6, <2>7, <2>8
<1>14. ASSUME NEW w \in Workers, LoadPlan(w)
      PROVE  Core'
  <2> DEFINE j == worker[w].job
  <2>1. worker[w].stage \in {"load"} /\ j \in Jobs
    BY <1>14 DEF TypeInv, Placed, LoadPlan
  <2>2. /\ worker'[w].stage = "guard" /\ worker'[w].job = j
        /\ \A v \in Workers \ {w} : worker'[v] = worker[v]
    <3> DEFINE sel == job[j].sel
               cat == job[j].cat
    <3>1. Take(w, "guard", j, sel, cat) /\ "guard" \in Stage
      BY <1>14 DEF LoadPlan, Stage
    <3>2. sel \in Selections \cup {Nothing} /\ cat \in 0..MaxAlter
      BY <2>1, PlanFields DEF TypeInv, TypeOK
    <3>3. worker \in [Workers -> Place]
      BY DEF TypeInv, TypeOK
    <3> HIDE DEF j, sel, cat
    <3> QED
      BY <2>1, <3>1, <3>2, <3>3, TakeEffect
  <2>3. \A k \in Jobs : job'[k].status = job[k].status
    BY <1>14 DEF rows, disk, pool, ghosts, LoadPlan
  <2>4. UNCHANGED <<artifact, file, runs, request, purging>>
    BY <1>14, <2>1 DEF TypeInv, TypeOK, rows, disk, pool, ghosts, LoadPlan
  <2>5. proc = "up" /\ proc' = proc
    BY <1>14, <2>1 DEF Core, QuietStart, rows, disk, pool, ghosts, LoadPlan
  <2>6. ClaimedRuns'
    BY <2>1, <2>2, <2>3 DEF Core, ClaimedRuns, OneWorker, Busy, Holding, TypeInv, Placed
  <2>7. OneWorker'
    BY <2>1, <2>2 DEF Core, OneWorker, Busy, Holding
  <2>8. SpoolUnopened'
    BY <2>1, <2>2, <2>4 DEF Core, SpoolUnopened, OneWorker, Busy, Holding, TypeInv,
      Placed
  <2>9. UnclaimedNotRun' /\ OneGeneration'
    BY <2>1, <2>3, <2>4 DEF Core, UnclaimedNotRun, OneGeneration, ClaimedRuns,
      SpoolUnopened, Busy, Holding
  <2>10. NothingUnclaimed'
    BY <2>1, <2>3, <2>4 DEF Core, NothingUnclaimed, NoRowWhileWriting, ClaimedRuns,
      Busy, Holding
  <2>11. NoRowWhileWriting'
    BY <2>1, <2>2, <2>4 DEF Core, NoRowWhileWriting, OneWorker, Busy, Holding, TypeInv,
      Placed
  <2>12. RowFound'
    BY <2>1, <2>4 DEF Core, RowFound, TypeInv, TypeOK, Placed
  <2> QED
    BY <2>5, <2>6, <2>7, <2>8, <2>9, <2>10, <2>11, <2>12 DEF Core, QuietStart
<1>15. ASSUME NEW w \in Workers, SwitchedOff(w)
      PROVE  Core'
  <2> DEFINE j == worker[w].job
  <2>1. worker[w].stage \in {"load"} /\ j \in Jobs
    BY <1>15 DEF TypeInv, Placed, SwitchedOff
  <2>2. /\ worker'[w].stage = "leave" /\ worker'[w].job = j
        /\ \A v \in Workers \ {w} : worker'[v] = worker[v]
    BY <1>15, MoveEffect DEF TypeInv, TypeOK, Stage, Holding, SwitchedOff
  <2>3. /\ job'[j].status \in {job[j].status, "failed"}
        /\ \A k \in Jobs \ {j} : job'[k] = job[k]
    BY <1>15, <2>1, EndEffect DEF TypeInv, TypeOK, Status, Terminal, SwitchedOff
  <2>4. UNCHANGED <<artifact, file, runs, request, purging>>
    BY <1>15, <2>1 DEF TypeInv, TypeOK, rows, disk, pool, ghosts, SwitchedOff
  <2>5. proc = "up" /\ proc' = proc
    BY <1>15, <2>1 DEF Core, QuietStart, rows, disk, pool, ghosts, SwitchedOff
  <2>6. ClaimedRuns'
    BY <2>1, <2>2, <2>3 DEF Core, ClaimedRuns, OneWorker, Busy, Holding, TypeInv, Placed
  <2>7. OneWorker'
    BY <2>1, <2>2 DEF Core, OneWorker, Busy, Holding
  <2>8. SpoolUnopened'
    BY <2>1, <2>2, <2>4 DEF Core, SpoolUnopened, OneWorker, Busy, Holding, TypeInv,
      Placed
  <2>9. UnclaimedNotRun' /\ OneGeneration'
    BY <2>1, <2>3, <2>4 DEF Core, UnclaimedNotRun, OneGeneration, ClaimedRuns,
      SpoolUnopened, Busy, Holding
  <2>10. NothingUnclaimed'
    BY <2>1, <2>3, <2>4 DEF Core, NothingUnclaimed, NoRowWhileWriting, ClaimedRuns,
      Busy, Holding
  <2>11. NoRowWhileWriting'
    BY <2>1, <2>2, <2>4 DEF Core, NoRowWhileWriting, OneWorker, Busy, Holding, TypeInv,
      Placed
  <2>12. RowFound'
    BY <2>1, <2>4 DEF Core, RowFound, TypeInv, TypeOK, Placed
  <2> QED
    BY <2>5, <2>6, <2>7, <2>8, <2>9, <2>10, <2>11, <2>12 DEF Core, QuietStart
<1>16. ASSUME NEW w \in Workers, LoadFails(w)
      PROVE  Core'
  <2> DEFINE j == worker[w].job
  <2>1. worker[w].stage \in {"load"} /\ j \in Jobs
    BY <1>16 DEF TypeInv, Placed, LoadFails
  <2>2. /\ worker'[w].stage = "leave" /\ worker'[w].job = j
        /\ \A v \in Workers \ {w} : worker'[v] = worker[v]
    BY <1>16, MoveEffect DEF TypeInv, TypeOK, Stage, Holding, LoadFails
  <2>3. \A k \in Jobs : job'[k].status = job[k].status
    BY <1>16 DEF rows, disk, pool, ghosts, LoadFails
  <2>4. UNCHANGED <<artifact, file, runs, request, purging>>
    BY <1>16, <2>1 DEF TypeInv, TypeOK, rows, disk, pool, ghosts, LoadFails
  <2>5. proc = "up" /\ proc' = proc
    BY <1>16, <2>1 DEF Core, QuietStart, rows, disk, pool, ghosts, LoadFails
  <2>6. ClaimedRuns'
    BY <2>1, <2>2, <2>3 DEF Core, ClaimedRuns, OneWorker, Busy, Holding, TypeInv, Placed
  <2>7. OneWorker'
    BY <2>1, <2>2 DEF Core, OneWorker, Busy, Holding
  <2>8. SpoolUnopened'
    BY <2>1, <2>2, <2>4 DEF Core, SpoolUnopened, OneWorker, Busy, Holding, TypeInv,
      Placed
  <2>9. UnclaimedNotRun' /\ OneGeneration'
    BY <2>1, <2>3, <2>4 DEF Core, UnclaimedNotRun, OneGeneration, ClaimedRuns,
      SpoolUnopened, Busy, Holding
  <2>10. NothingUnclaimed'
    BY <2>1, <2>3, <2>4 DEF Core, NothingUnclaimed, NoRowWhileWriting, ClaimedRuns,
      Busy, Holding
  <2>11. NoRowWhileWriting'
    BY <2>1, <2>2, <2>4 DEF Core, NoRowWhileWriting, OneWorker, Busy, Holding, TypeInv,
      Placed
  <2>12. RowFound'
    BY <2>1, <2>4 DEF Core, RowFound, TypeInv, TypeOK, Placed
  <2> QED
    BY <2>5, <2>6, <2>7, <2>8, <2>9, <2>10, <2>11, <2>12 DEF Core, QuietStart
<1>17. ASSUME NEW w \in Workers, TakeGuard(w)
      PROVE  Core'
  <2> DEFINE j == worker[w].job
  <2>1. worker[w].stage \in {"guard"} /\ j \in Jobs
    BY <1>17 DEF TypeInv, Placed, TakeGuard
  <2>2. /\ worker'[w].stage = "check" /\ worker'[w].job = j
        /\ \A v \in Workers \ {w} : worker'[v] = worker[v]
    BY <1>17, MoveEffect DEF TypeInv, TypeOK, Stage, Holding, TakeGuard
  <2>3. \A k \in Jobs : job'[k].status = job[k].status
    BY <1>17 DEF rows, disk, pool, ghosts, TakeGuard
  <2>4. UNCHANGED <<artifact, file, runs, request, purging>>
    BY <1>17, <2>1 DEF TypeInv, TypeOK, rows, disk, pool, ghosts, TakeGuard
  <2>5. proc = "up" /\ proc' = proc
    BY <1>17, <2>1 DEF Core, QuietStart, rows, disk, pool, ghosts, TakeGuard
  <2>6. ClaimedRuns'
    BY <2>1, <2>2, <2>3 DEF Core, ClaimedRuns, OneWorker, Busy, Holding, TypeInv, Placed
  <2>7. OneWorker'
    BY <2>1, <2>2 DEF Core, OneWorker, Busy, Holding
  <2>8. SpoolUnopened'
    BY <2>1, <2>2, <2>4 DEF Core, SpoolUnopened, OneWorker, Busy, Holding, TypeInv,
      Placed
  <2>9. UnclaimedNotRun' /\ OneGeneration'
    BY <2>1, <2>3, <2>4 DEF Core, UnclaimedNotRun, OneGeneration, ClaimedRuns,
      SpoolUnopened, Busy, Holding
  <2>10. NothingUnclaimed'
    BY <2>1, <2>3, <2>4 DEF Core, NothingUnclaimed, NoRowWhileWriting, ClaimedRuns,
      Busy, Holding
  <2>11. NoRowWhileWriting'
    BY <2>1, <2>2, <2>4 DEF Core, NoRowWhileWriting, OneWorker, Busy, Holding, TypeInv,
      Placed
  <2>12. RowFound'
    BY <2>1, <2>4 DEF Core, RowFound, TypeInv, TypeOK, Placed
  <2> QED
    BY <2>5, <2>6, <2>7, <2>8, <2>9, <2>10, <2>11, <2>12 DEF Core, QuietStart
<1>18. ASSUME NEW w \in Workers, OpenSpool(w)
      PROVE  Core'
  <2> DEFINE j == worker[w].job
  <2>1. worker[w].stage \in {"check"} /\ j \in Jobs
    BY <1>18 DEF TypeInv, Placed, OpenSpool
  <2>2. /\ worker'[w].stage = "write" /\ worker'[w].job = j
        /\ \A v \in Workers \ {w} : worker'[v] = worker[v]
    BY <1>18, MoveEffect DEF TypeInv, TypeOK, Stage, Holding, OpenSpool
  <2>3. \A k \in Jobs : job'[k].status = job[k].status
    BY <1>18 DEF rows, disk, pool, ghosts, OpenSpool
  <2>4. /\ UNCHANGED <<artifact, request, purging>>
        /\ \A k \in Jobs \ {j} : file'[k] = file[k] /\ runs'[k] = runs[k]
        /\ runs'[j] = 1
    BY <1>18, <2>1 DEF Core, SpoolUnopened, TypeInv, TypeOK, rows, OpenSpool
  <2>5. proc = "up" /\ proc' = proc
    BY <1>18, <2>1 DEF Core, QuietStart, rows, disk, pool, ghosts, OpenSpool
  <2>6. ClaimedRuns'
    BY <2>1, <2>2, <2>3 DEF Core, ClaimedRuns, OneWorker, Busy, Holding, TypeInv, Placed
  <2>7. OneWorker'
    BY <2>1, <2>2 DEF Core, OneWorker, Busy, Holding
  <2>8. SpoolUnopened'
    BY <2>1, <2>2, <2>4 DEF Core, SpoolUnopened, OneWorker, Busy, Holding, TypeInv,
      Placed
  <2>9. UnclaimedNotRun' /\ OneGeneration'
    BY <2>1, <2>3, <2>4 DEF Core, UnclaimedNotRun, OneGeneration, ClaimedRuns,
      SpoolUnopened, Busy, Holding
  <2>10. NothingUnclaimed'
    BY <2>1, <2>3, <2>4 DEF Core, NothingUnclaimed, NoRowWhileWriting, ClaimedRuns,
      Busy, Holding
  <2>11. NoRowWhileWriting'
    BY <2>1, <2>2, <2>4 DEF Core, NoRowWhileWriting, OneWorker, Busy, Holding, TypeInv,
      Placed
  <2>12. RowFound'
    BY <2>1, <2>4 DEF Core, RowFound, TypeInv, TypeOK, Placed
  <2> QED
    BY <2>5, <2>6, <2>7, <2>8, <2>9, <2>10, <2>11, <2>12 DEF Core, QuietStart
<1>19. ASSUME NEW w \in Workers, CancelSeen(w)
      PROVE  Core'
  <2> DEFINE j == worker[w].job
  <2>1. worker[w].stage \in {"write"} /\ j \in Jobs
    BY <1>19 DEF TypeInv, Placed, CancelSeen
  <2>2. /\ worker'[w].stage = "leave" /\ worker'[w].job = j
        /\ \A v \in Workers \ {w} : worker'[v] = worker[v]
    BY <1>19, MoveEffect DEF TypeInv, TypeOK, Stage, Holding, CancelSeen
  <2>3. /\ job'[j].status \in {job[j].status, "canceled"}
        /\ \A k \in Jobs \ {j} : job'[k] = job[k]
    BY <1>19, <2>1, EndEffect DEF TypeInv, TypeOK, Status, Terminal, CancelSeen
  <2>4. /\ UNCHANGED <<artifact, runs, request, purging>>
        /\ file'[j] = "none" /\ \A k \in Jobs \ {j} : file'[k] = file[k]
    BY <1>19, <2>1 DEF TypeInv, TypeOK, rows, disk, pool, ghosts, CancelSeen
  <2>5. proc = "up" /\ proc' = proc
    BY <1>19, <2>1 DEF Core, QuietStart, rows, disk, pool, ghosts, CancelSeen
  <2>6. ClaimedRuns'
    BY <2>1, <2>2, <2>3 DEF Core, ClaimedRuns, OneWorker, Busy, Holding, TypeInv, Placed
  <2>7. OneWorker'
    BY <2>1, <2>2 DEF Core, OneWorker, Busy, Holding
  <2>8. SpoolUnopened'
    BY <2>1, <2>2, <2>4 DEF Core, SpoolUnopened, OneWorker, Busy, Holding, TypeInv,
      Placed
  <2>9. UnclaimedNotRun' /\ OneGeneration'
    BY <2>1, <2>3, <2>4 DEF Core, UnclaimedNotRun, OneGeneration, ClaimedRuns,
      SpoolUnopened, Busy, Holding
  <2>10. NothingUnclaimed'
    BY <2>1, <2>3, <2>4 DEF Core, NothingUnclaimed, NoRowWhileWriting, ClaimedRuns,
      Busy, Holding
  <2>11. NoRowWhileWriting'
    BY <2>1, <2>2, <2>4 DEF Core, NoRowWhileWriting, OneWorker, Busy, Holding, TypeInv,
      Placed
  <2>12. RowFound'
    BY <2>1, <2>4 DEF Core, RowFound, TypeInv, TypeOK, Placed
  <2> QED
    BY <2>5, <2>6, <2>7, <2>8, <2>9, <2>10, <2>11, <2>12 DEF Core, QuietStart
<1>20. ASSUME NEW w \in Workers, GenerateFails(w)
      PROVE  Core'
  <2> DEFINE j == worker[w].job
  <2>1. worker[w].stage \in {"check", "write"} /\ j \in Jobs
    BY <1>20 DEF TypeInv, Placed, GenerateFails
  <2>2. /\ worker'[w].stage = "leave" /\ worker'[w].job = j
        /\ \A v \in Workers \ {w} : worker'[v] = worker[v]
    BY <1>20, MoveEffect DEF TypeInv, TypeOK, Stage, Holding, GenerateFails
  <2>3. /\ job'[j].status \in {job[j].status, "failed"}
        /\ \A k \in Jobs \ {j} : job'[k] = job[k]
    BY <1>20, <2>1, EndEffect DEF TypeInv, TypeOK, Status, Terminal, GenerateFails
  <2>4. /\ UNCHANGED <<artifact, runs, request, purging>>
        /\ file'[j] = "none" /\ \A k \in Jobs \ {j} : file'[k] = file[k]
    BY <1>20, <2>1 DEF TypeInv, TypeOK, rows, disk, pool, ghosts, GenerateFails
  <2>5. proc = "up" /\ proc' = proc
    BY <1>20, <2>1 DEF Core, QuietStart, rows, disk, pool, ghosts, GenerateFails
  <2>6. ClaimedRuns'
    BY <2>1, <2>2, <2>3 DEF Core, ClaimedRuns, OneWorker, Busy, Holding, TypeInv, Placed
  <2>7. OneWorker'
    BY <2>1, <2>2 DEF Core, OneWorker, Busy, Holding
  <2>8. SpoolUnopened'
    BY <2>1, <2>2, <2>4 DEF Core, SpoolUnopened, OneWorker, Busy, Holding, TypeInv,
      Placed
  <2>9. UnclaimedNotRun' /\ OneGeneration'
    BY <2>1, <2>3, <2>4 DEF Core, UnclaimedNotRun, OneGeneration, ClaimedRuns,
      SpoolUnopened, Busy, Holding
  <2>10. NothingUnclaimed'
    BY <2>1, <2>3, <2>4 DEF Core, NothingUnclaimed, NoRowWhileWriting, ClaimedRuns,
      Busy, Holding
  <2>11. NoRowWhileWriting'
    BY <2>1, <2>2, <2>4 DEF Core, NoRowWhileWriting, OneWorker, Busy, Holding, TypeInv,
      Placed
  <2>12. RowFound'
    BY <2>1, <2>4 DEF Core, RowFound, TypeInv, TypeOK, Placed
  <2> QED
    BY <2>5, <2>6, <2>7, <2>8, <2>9, <2>10, <2>11, <2>12 DEF Core, QuietStart
<1>21. ASSUME NEW w \in Workers, WriteAll(w)
      PROVE  Core'
  <2> DEFINE j == worker[w].job
  <2>1. worker[w].stage \in {"write"} /\ j \in Jobs
    BY <1>21 DEF TypeInv, Placed, WriteAll
  <2>2. /\ worker'[w].stage = "rename" /\ worker'[w].job = j
        /\ \A v \in Workers \ {w} : worker'[v] = worker[v]
    BY <1>21, WriteEffect DEF TypeInv, TypeOK
  <2>3. \A k \in Jobs : job'[k].status = job[k].status
    BY <1>21 DEF rows, disk, pool, ghosts, WriteAll
  <2>4. UNCHANGED <<artifact, file, runs, request, purging>>
    BY <1>21, <2>1 DEF TypeInv, TypeOK, rows, disk, pool, ghosts, WriteAll
  <2>5. proc = "up" /\ proc' = proc
    BY <1>21, <2>1 DEF Core, QuietStart, rows, disk, pool, ghosts, WriteAll
  <2>6. ClaimedRuns'
    BY <2>1, <2>2, <2>3 DEF Core, ClaimedRuns, OneWorker, Busy, Holding, TypeInv, Placed
  <2>7. OneWorker'
    BY <2>1, <2>2 DEF Core, OneWorker, Busy, Holding
  <2>8. SpoolUnopened'
    BY <2>1, <2>2, <2>4 DEF Core, SpoolUnopened, OneWorker, Busy, Holding, TypeInv,
      Placed
  <2>9. UnclaimedNotRun' /\ OneGeneration'
    BY <2>1, <2>3, <2>4 DEF Core, UnclaimedNotRun, OneGeneration, ClaimedRuns,
      SpoolUnopened, Busy, Holding
  <2>10. NothingUnclaimed'
    BY <2>1, <2>3, <2>4 DEF Core, NothingUnclaimed, NoRowWhileWriting, ClaimedRuns,
      Busy, Holding
  <2>11. NoRowWhileWriting'
    BY <2>1, <2>2, <2>4 DEF Core, NoRowWhileWriting, OneWorker, Busy, Holding, TypeInv,
      Placed
  <2>12. RowFound'
    BY <2>1, <2>4 DEF Core, RowFound, TypeInv, TypeOK, Placed
  <2> QED
    BY <2>5, <2>6, <2>7, <2>8, <2>9, <2>10, <2>11, <2>12 DEF Core, QuietStart
<1>22. ASSUME NEW w \in Workers, Rename(w)
      PROVE  Core'
  <2> DEFINE j == worker[w].job
  <2>1. worker[w].stage \in {"rename"} /\ j \in Jobs
    BY <1>22 DEF TypeInv, Placed, Rename
  <2>2. /\ worker'[w].stage = "row" /\ worker'[w].job = j
        /\ \A v \in Workers \ {w} : worker'[v] = worker[v]
    BY <1>22, MoveEffect DEF TypeInv, TypeOK, Stage, Holding, Rename
  <2>3. \A k \in Jobs : job'[k].status = job[k].status
    BY <1>22 DEF rows, disk, pool, ghosts, Rename
  <2>4. /\ UNCHANGED <<artifact, runs, request, purging>>
        /\ file'[j] = "final" /\ \A k \in Jobs \ {j} : file'[k] = file[k]
    BY <1>22, <2>1 DEF TypeInv, TypeOK, rows, disk, pool, ghosts, Rename
  <2>5. proc = "up" /\ proc' = proc
    BY <1>22, <2>1 DEF Core, QuietStart, rows, disk, pool, ghosts, Rename
  <2>6. ClaimedRuns'
    BY <2>1, <2>2, <2>3 DEF Core, ClaimedRuns, OneWorker, Busy, Holding, TypeInv, Placed
  <2>7. OneWorker'
    BY <2>1, <2>2 DEF Core, OneWorker, Busy, Holding
  <2>8. SpoolUnopened'
    BY <2>1, <2>2, <2>4 DEF Core, SpoolUnopened, OneWorker, Busy, Holding, TypeInv,
      Placed
  <2>9. UnclaimedNotRun' /\ OneGeneration'
    BY <2>1, <2>3, <2>4 DEF Core, UnclaimedNotRun, OneGeneration, ClaimedRuns,
      SpoolUnopened, Busy, Holding
  <2>10. NothingUnclaimed'
    BY <2>1, <2>3, <2>4 DEF Core, NothingUnclaimed, NoRowWhileWriting, ClaimedRuns,
      Busy, Holding
  <2>11. NoRowWhileWriting'
    BY <2>1, <2>2, <2>4 DEF Core, NoRowWhileWriting, OneWorker, Busy, Holding, TypeInv,
      Placed
  <2>12. RowFound'
    BY <2>1, <2>4 DEF Core, RowFound, TypeInv, TypeOK, Placed
  <2> QED
    BY <2>5, <2>6, <2>7, <2>8, <2>9, <2>10, <2>11, <2>12 DEF Core, QuietStart
<1>23. ASSUME NEW w \in Workers, InsertRow(w)
      PROVE  Core'
  <2> DEFINE j == worker[w].job
  <2>1. worker[w].stage \in {"row"} /\ j \in Jobs
    BY <1>23 DEF TypeInv, Placed, InsertRow
  <2>2. /\ worker'[w].stage = "report" /\ worker'[w].job = j
        /\ \A v \in Workers \ {w} : worker'[v] = worker[v]
    BY <1>23, MoveEffect DEF TypeInv, TypeOK, Stage, Holding, InsertRow
  <2>3. \A k \in Jobs : job'[k].status = job[k].status
    BY <1>23 DEF rows, disk, pool, ghosts, InsertRow
  <2>4. /\ UNCHANGED <<file, runs, request, purging>>
        /\ artifact'[j] = "available" /\ \A k \in Jobs \ {j} : artifact'[k] =
          artifact[k]
    BY <1>23, <2>1 DEF TypeInv, TypeOK, rows, disk, pool, ghosts, InsertRow
  <2>5. proc = "up" /\ proc' = proc
    BY <1>23, <2>1 DEF Core, QuietStart, rows, disk, pool, ghosts, InsertRow
  <2>6. ClaimedRuns'
    BY <2>1, <2>2, <2>3 DEF Core, ClaimedRuns, OneWorker, Busy, Holding, TypeInv, Placed
  <2>7. OneWorker'
    BY <2>1, <2>2 DEF Core, OneWorker, Busy, Holding
  <2>8. SpoolUnopened'
    BY <2>1, <2>2, <2>4 DEF Core, SpoolUnopened, OneWorker, Busy, Holding, TypeInv,
      Placed
  <2>9. UnclaimedNotRun' /\ OneGeneration'
    BY <2>1, <2>3, <2>4 DEF Core, UnclaimedNotRun, OneGeneration, ClaimedRuns,
      SpoolUnopened, Busy, Holding
  <2>10. NothingUnclaimed'
    BY <2>1, <2>3, <2>4 DEF Core, NothingUnclaimed, NoRowWhileWriting, ClaimedRuns,
      Busy, Holding
  <2>11. NoRowWhileWriting'
    BY <2>1, <2>2, <2>4 DEF Core, NoRowWhileWriting, OneWorker, Busy, Holding, TypeInv,
      Placed
  <2>12. RowFound'
    BY <2>1, <2>4 DEF Core, RowFound, TypeInv, TypeOK, Placed
  <2> QED
    BY <2>5, <2>6, <2>7, <2>8, <2>9, <2>10, <2>11, <2>12 DEF Core, QuietStart
<1>24. ASSUME NEW w \in Workers, InsertFails(w)
      PROVE  Core'
  <2> DEFINE j == worker[w].job
  <2>1. worker[w].stage \in {"row"} /\ j \in Jobs
    BY <1>24 DEF TypeInv, Placed, InsertFails
  <2>2. /\ worker'[w].stage = "leave" /\ worker'[w].job = j
        /\ \A v \in Workers \ {w} : worker'[v] = worker[v]
    BY <1>24, MoveEffect DEF TypeInv, TypeOK, Stage, Holding, InsertFails
  <2>3. /\ job'[j].status \in {job[j].status, "failed"}
        /\ \A k \in Jobs \ {j} : job'[k] = job[k]
    BY <1>24, <2>1, EndEffect DEF TypeInv, TypeOK, Status, Terminal, InsertFails
  <2>4. UNCHANGED <<artifact, file, runs, request, purging>>
    BY <1>24, <2>1 DEF TypeInv, TypeOK, rows, disk, pool, ghosts, InsertFails
  <2>5. proc = "up" /\ proc' = proc
    BY <1>24, <2>1 DEF Core, QuietStart, rows, disk, pool, ghosts, InsertFails
  <2>6. ClaimedRuns'
    BY <2>1, <2>2, <2>3 DEF Core, ClaimedRuns, OneWorker, Busy, Holding, TypeInv, Placed
  <2>7. OneWorker'
    BY <2>1, <2>2 DEF Core, OneWorker, Busy, Holding
  <2>8. SpoolUnopened'
    BY <2>1, <2>2, <2>4 DEF Core, SpoolUnopened, OneWorker, Busy, Holding, TypeInv,
      Placed
  <2>9. UnclaimedNotRun' /\ OneGeneration'
    BY <2>1, <2>3, <2>4 DEF Core, UnclaimedNotRun, OneGeneration, ClaimedRuns,
      SpoolUnopened, Busy, Holding
  <2>10. NothingUnclaimed'
    BY <2>1, <2>3, <2>4 DEF Core, NothingUnclaimed, NoRowWhileWriting, ClaimedRuns,
      Busy, Holding
  <2>11. NoRowWhileWriting'
    BY <2>1, <2>2, <2>4 DEF Core, NoRowWhileWriting, OneWorker, Busy, Holding, TypeInv,
      Placed
  <2>12. RowFound'
    BY <2>1, <2>4 DEF Core, RowFound, TypeInv, TypeOK, Placed
  <2> QED
    BY <2>5, <2>6, <2>7, <2>8, <2>9, <2>10, <2>11, <2>12 DEF Core, QuietStart
<1>25. ASSUME NEW w \in Workers, Report(w)
      PROVE  Core'
  <2> DEFINE j == worker[w].job
  <2>1. worker[w].stage \in {"report"} /\ j \in Jobs
    BY <1>25 DEF TypeInv, Placed, Report
  <2>2. /\ worker'[w].stage = "leave" /\ worker'[w].job = j
        /\ \A v \in Workers \ {w} : worker'[v] = worker[v]
    BY <1>25, MoveEffect DEF TypeInv, TypeOK, Stage, Holding, Report
  <2>3. /\ job'[j].status \in {job[j].status, "succeeded", "failed"}
        /\ \A k \in Jobs \ {j} : job'[k] = job[k]
    <3>1. PICK status \in {"succeeded", "failed"} : End(j, status)
      BY <1>25 DEF Report
    <3> QED
      BY <2>1, <3>1, EndEffect DEF TypeInv, TypeOK, Status, Terminal
  <2>4. UNCHANGED <<artifact, file, runs, request, purging>>
    BY <1>25, <2>1 DEF TypeInv, TypeOK, rows, disk, pool, ghosts, Report
  <2>5. proc = "up" /\ proc' = proc
    BY <1>25, <2>1 DEF Core, QuietStart, rows, disk, pool, ghosts, Report
  <2>6. ClaimedRuns'
    BY <2>1, <2>2, <2>3 DEF Core, ClaimedRuns, OneWorker, Busy, Holding, TypeInv, Placed
  <2>7. OneWorker'
    BY <2>1, <2>2 DEF Core, OneWorker, Busy, Holding
  <2>8. SpoolUnopened'
    BY <2>1, <2>2, <2>4 DEF Core, SpoolUnopened, OneWorker, Busy, Holding, TypeInv,
      Placed
  <2>9. UnclaimedNotRun' /\ OneGeneration'
    BY <2>1, <2>3, <2>4 DEF Core, UnclaimedNotRun, OneGeneration, ClaimedRuns,
      SpoolUnopened, Busy, Holding
  <2>10. NothingUnclaimed'
    BY <2>1, <2>3, <2>4 DEF Core, NothingUnclaimed, NoRowWhileWriting, ClaimedRuns,
      Busy, Holding
  <2>11. NoRowWhileWriting'
    BY <2>1, <2>2, <2>4 DEF Core, NoRowWhileWriting, OneWorker, Busy, Holding, TypeInv,
      Placed
  <2>12. RowFound'
    BY <2>1, <2>4 DEF Core, RowFound, TypeInv, TypeOK, Placed
  <2> QED
    BY <2>5, <2>6, <2>7, <2>8, <2>9, <2>10, <2>11, <2>12 DEF Core, QuietStart
<1>26. ASSUME NEW w \in Workers, Leave(w)
      PROVE  Core'
  <2>1. /\ worker'[w].stage = "idle"
        /\ \A v \in Workers \ {w} : worker'[v] = worker[v]
    BY <1>26, LeaveEffect DEF TypeInv, TypeOK
  <2>2. UNCHANGED <<job, artifact, file, runs, request, purging, proc, queue>>
    BY <1>26 DEF rows, disk, ghosts, Leave
  <2>3. ClaimedRuns' /\ OneWorker' /\ SpoolUnopened' /\ NoRowWhileWriting'
    BY <2>1, <2>2 DEF Core, ClaimedRuns, OneWorker, SpoolUnopened, NoRowWhileWriting,
      Busy, Holding
  <2>4. QuietStart' /\ UnclaimedNotRun' /\ OneGeneration' /\ NothingUnclaimed' /\
    RowFound'
    BY <2>1, <2>2 DEF Core, QuietStart, UnclaimedNotRun, OneGeneration,
      NothingUnclaimed, RowFound
  <2> QED
    BY <2>3, <2>4 DEF Core
<1>27. ASSUME PurgeFiles
      PROVE  Core'
  BY <1>27 DEF TypeInv, TypeOK, Placed, Stage, Holding, Core, Busy, QuietStart,
    ClaimedRuns, OneWorker, SpoolUnopened, UnclaimedNotRun, OneGeneration,
    NothingUnclaimed, NoRowWhileWriting, RowFound, rows, disk, pool, ghosts, PurgeFiles,
    Overdue
<1>28. ASSUME PurgeRows
      PROVE  Core'
  BY <1>28 DEF TypeInv, TypeOK, Placed, Stage, Holding, Core, Busy, QuietStart,
    ClaimedRuns, OneWorker, SpoolUnopened, UnclaimedNotRun, OneGeneration,
    NothingUnclaimed, NoRowWhileWriting, RowFound, rows, disk, pool, ghosts, PurgeRows,
    Overdue
<1>29. ASSUME Crash
      PROVE  Core'
  BY <1>29, CrashEffect, ExportAssumption DEF TypeInv, TypeOK, Placed, Stage, Holding,
    Core, Busy, QuietStart, ClaimedRuns, OneWorker, SpoolUnopened, UnclaimedNotRun,
    OneGeneration, NothingUnclaimed, NoRowWhileWriting, RowFound, rows, disk, pool,
    ghosts, Crash
<1>30. ASSUME SweepInterrupted
      PROVE  Core'
  BY <1>30, SweepEffect DEF TypeInv, TypeOK, Placed, Stage, Holding, Core, Busy,
    QuietStart, ClaimedRuns, OneWorker, SpoolUnopened, UnclaimedNotRun, OneGeneration,
    NothingUnclaimed, NoRowWhileWriting, RowFound, Status, Terminal, rows, disk, pool,
    ghosts, SweepInterrupted
<1>31. ASSUME SweepFails
      PROVE  Core'
  BY <1>31 DEF TypeInv, TypeOK, Placed, Stage, Holding, Core, Busy, QuietStart,
    ClaimedRuns, OneWorker, SpoolUnopened, UnclaimedNotRun, OneGeneration,
    NothingUnclaimed, NoRowWhileWriting, RowFound, rows, disk, pool, ghosts, SweepFails
<1>32. ASSUME StartupPurged
      PROVE  Core'
  BY <1>32 DEF TypeInv, TypeOK, Placed, Stage, Holding, Core, Busy, QuietStart,
    ClaimedRuns, OneWorker, SpoolUnopened, UnclaimedNotRun, OneGeneration,
    NothingUnclaimed, NoRowWhileWriting, RowFound, rows, disk, pool, ghosts,
    StartupPurged
<1>33. ASSUME SweepOrphans
      PROVE  Core'
  BY <1>33 DEF TypeInv, TypeOK, Placed, Stage, Holding, Core, Busy, QuietStart,
    ClaimedRuns, OneWorker, SpoolUnopened, UnclaimedNotRun, OneGeneration,
    NothingUnclaimed, NoRowWhileWriting, RowFound, rows, disk, pool, ghosts,
    SweepOrphans
<1>34. ASSUME NEW j \in Jobs, Expire(j)
      PROVE  Core'
  BY <1>34 DEF TypeInv, TypeOK, Placed, Stage, Holding, Core, Busy, QuietStart,
    ClaimedRuns, OneWorker, SpoolUnopened, UnclaimedNotRun, OneGeneration,
    NothingUnclaimed, NoRowWhileWriting, RowFound, rows, disk, pool, ghosts, Expire
<1>35. ASSUME AlterSource
      PROVE  Core'
  BY <1>35, ExportAssumption DEF TypeInv, TypeOK, Placed, Stage, Holding, Core, Busy,
    QuietStart, ClaimedRuns, OneWorker, SpoolUnopened, UnclaimedNotRun, OneGeneration,
    NothingUnclaimed, NoRowWhileWriting, RowFound, rows, disk, pool, ghosts, AlterSource
<1>36. CASE UNCHANGED vars
  BY <1>36 DEF TypeInv, TypeOK, Placed, Stage, Holding, Core, Busy, QuietStart,
    ClaimedRuns, OneWorker, SpoolUnopened, UnclaimedNotRun, OneGeneration,
    NothingUnclaimed, NoRowWhileWriting, RowFound, rows, disk, pool, ghosts, vars
<1> QED
  BY <1>1, <1>2, <1>3, <1>4, <1>5, <1>6, <1>7, <1>8, <1>9, <1>10, <1>11, <1>12, <1>13,
    <1>14, <1>15, <1>16, <1>17, <1>18, <1>19, <1>20, <1>21, <1>22, <1>23, <1>24, <1>25,
    <1>26, <1>27, <1>28, <1>29, <1>30, <1>31, <1>32, <1>33, <1>34, <1>35, <1>36 DEF
    Next, Handle, Work, StartUp, Purge

THEOREM ExportInvariant == Spec => [](TypeInv /\ Core)
<1>1. Init => TypeInv /\ Core
  BY TypeInit, CoreInit
<1>2. TypeInv /\ Core /\ [Next]_vars => TypeInv' /\ Core'
  BY TypeStep, CoreStep
<1> QED
  BY <1>1, <1>2, PTL DEF Spec

(* A plan is exported at most once, however many requests execute it, how  *)
(* often it is in the queue and whenever the process restarts.             *)
THEOREM ExportedOnce == Spec => []OneGeneration
<1>1. TypeInv /\ Core => OneGeneration
  BY DEF Core
<1> QED
  BY <1>1, ExportInvariant, PTL

(* A cancelled export has neither a file nor an artifact row, in whatever  *)
(* order cancellation, consumption, retention and restarts come.           *)
THEOREM CancelLeavesNothing == Spec => []CanceledLeavesNothing
<1>1. TypeInv /\ Core => CanceledLeavesNothing
  BY DEF Core, NothingUnclaimed, CanceledLeavesNothing
<1> QED
  BY <1>1, ExportInvariant, PTL
-----------------------------------------------------------------------------
(* The row and the file of an artifact, which are written and deleted in   *)
(* two steps.                                                              *)

(* The row comes last: until it is inserted there is none, and by then the *)
(* file has its name.                                                      *)
Unoffered == {"load", "guard", "check", "write", "rename", "row"}
NoRowBefore ==
  \A w \in Workers : worker[w].stage \in Unoffered => artifact[worker[w].job] = "none"
FinalAtRow ==
  \A w \in Workers : worker[w].stage = "row" => file[worker[w].job] = "final"
PartHasNoRow ==
  \A j \in Jobs : file[j] = "part" => artifact[j] = "none"

(* Consumers and the purge delete the file before they touch the row.      *)
DeletedFirst ==
  /\ \A r \in Requests : request[r].stage = "consumed" => file[request[r].job] = "none"
  /\ \A j \in purging : file[j] = "none"

(* NoResidue, without the workers that have offered their file already.    *)
Spooling == {"write", "rename", "row"}
Accounted ==
  proc = "up" =>
    \A j \in Jobs : file[j] # "none" =>
      \/ artifact[j] = "available" \/ j \in unswept
      \/ \E w \in Workers : worker[w].stage \in Spooling /\ worker[w].job = j

Files ==
  /\ NoRowBefore /\ FinalAtRow /\ PartHasNoRow /\ DeletedFirst /\ AvailableHasFile
  /\ Accounted

LEMMA FilesInit == Init => Files
  BY IdlePlace DEF Init, Files, NoRowBefore, FinalAtRow, PartHasNoRow, DeletedFirst,
     AvailableHasFile, Accounted, Unoffered, Spooling

(* Who writes the row of an artifact.                                      *)
LEMMA RowWriters ==
  ASSUME [Next]_vars
  PROVE  \/ UNCHANGED artifact
         \/ \E r \in Requests : ConsumeRow(r)
         \/ \E w \in Workers : InsertRow(w)
         \/ PurgeRows
<1>1. ASSUME NEW r \in Requests, Handle(r) PROVE UNCHANGED artifact \/ ConsumeRow(r)
  BY <1>1 DEF Handle, BeginPreview, BeginExecute, PrepareDownload, FreezeSelection,
    CheckCapacity, Enqueue, Refuse, SendFile, ConsumeFile, rows, disk, pool, ghosts
<1>2. ASSUME NEW w \in Workers, Work(w) PROVE UNCHANGED artifact \/ InsertRow(w)
  BY <1>2 DEF Work, Claim, LoadPlan, SwitchedOff, LoadFails, TakeGuard, OpenSpool,
    CancelSeen, GenerateFails, WriteAll, Rename, InsertFails, Report, Leave, rows, disk,
    pool, ghosts
<1>3. ASSUME NEW j \in Jobs, CreatePlan(j) \/ Cancel(j) \/ Expire(j) PROVE UNCHANGED
  artifact
  BY <1>3 DEF CreatePlan, Cancel, Expire, rows, disk, pool, ghosts
<1>4. ASSUME Purge \/ StartUp \/ Crash \/ AlterSource PROVE UNCHANGED artifact \/
  PurgeRows
  BY <1>4 DEF Purge, StartUp, PurgeFiles, SweepInterrupted, SweepFails, StartupPurged,
    SweepOrphans, Crash, AlterSource, rows, disk, pool, ghosts
<1>5. CASE UNCHANGED vars
  BY <1>5 DEF vars
<1> QED
  BY <1>1, <1>2, <1>3, <1>4, <1>5 DEF Next

(* Who writes the spool directory.                                         *)
LEMMA FileWriters ==
  ASSUME [Next]_vars
  PROVE  \/ UNCHANGED file
         \/ \E r \in Requests : ConsumeFile(r)
         \/ \E w \in Workers : OpenSpool(w)
         \/ \E w \in Workers : CancelSeen(w)
         \/ \E w \in Workers : GenerateFails(w)
         \/ \E w \in Workers : Rename(w)
         \/ PurgeFiles
         \/ SweepOrphans
<1>1. ASSUME NEW r \in Requests, Handle(r) PROVE UNCHANGED file \/ ConsumeFile(r)
  BY <1>1 DEF Handle, BeginPreview, BeginExecute, PrepareDownload, FreezeSelection,
    CheckCapacity, Enqueue, Refuse, SendFile, ConsumeRow, rows, disk, pool, ghosts
<1>2. ASSUME NEW w \in Workers, Work(w) PROVE UNCHANGED file \/ OpenSpool(w) \/
  CancelSeen(w) \/ GenerateFails(w) \/ Rename(w)
  BY <1>2 DEF Work, Claim, LoadPlan, SwitchedOff, LoadFails, TakeGuard, WriteAll,
    InsertRow, InsertFails, Report, Leave, rows, disk, pool, ghosts
<1>3. ASSUME NEW j \in Jobs, CreatePlan(j) \/ Cancel(j) \/ Expire(j) PROVE UNCHANGED
  file
  BY <1>3 DEF CreatePlan, Cancel, Expire, rows, disk, pool, ghosts
<1>4. ASSUME Purge \/ StartUp \/ Crash \/ AlterSource PROVE UNCHANGED file \/ PurgeFiles
  \/ SweepOrphans
  BY <1>4 DEF Purge, StartUp, PurgeRows, SweepInterrupted, SweepFails, StartupPurged,
    Crash, AlterSource, rows, disk, pool, ghosts
<1>5. CASE UNCHANGED vars
  BY <1>5 DEF vars
<1> QED
  BY <1>1, <1>2, <1>3, <1>4, <1>5 DEF Next

(* Who writes what a purge holds.                                          *)
LEMMA PurgingWriters ==
  ASSUME [Next]_vars
  PROVE  \/ UNCHANGED purging
         \/ PurgeFiles
         \/ PurgeRows
         \/ Crash
<1>1. ASSUME NEW r \in Requests, Handle(r) PROVE UNCHANGED purging
  BY <1>1 DEF Handle, BeginPreview, BeginExecute, PrepareDownload, FreezeSelection,
    CheckCapacity, Enqueue, Refuse, SendFile, ConsumeFile, ConsumeRow, rows, disk, pool,
    ghosts
<1>2. ASSUME NEW w \in Workers, Work(w) PROVE UNCHANGED purging
  BY <1>2 DEF Work, Claim, LoadPlan, SwitchedOff, LoadFails, TakeGuard, OpenSpool,
    CancelSeen, GenerateFails, WriteAll, Rename, InsertRow, InsertFails, Report, Leave,
    rows, disk, pool, ghosts
<1>3. ASSUME NEW j \in Jobs, CreatePlan(j) \/ Cancel(j) \/ Expire(j) PROVE UNCHANGED
  purging
  BY <1>3 DEF CreatePlan, Cancel, Expire, rows, disk, pool, ghosts
<1>4. ASSUME Purge \/ StartUp \/ Crash \/ AlterSource PROVE UNCHANGED purging \/
  PurgeFiles \/ PurgeRows \/ Crash
  BY <1>4 DEF Purge, StartUp, SweepInterrupted, SweepFails, StartupPurged, SweepOrphans,
    AlterSource, rows, disk, pool, ghosts
<1>5. CASE UNCHANGED vars
  BY <1>5 DEF vars
<1> QED
  BY <1>1, <1>2, <1>3, <1>4, <1>5 DEF Next

(* Who moves the process.                                                  *)
LEMMA ProcWriters ==
  ASSUME [Next]_vars
  PROVE  \/ UNCHANGED proc
         \/ Crash
         \/ SweepInterrupted
         \/ SweepFails
         \/ StartupPurged
         \/ SweepOrphans
<1>1. ASSUME NEW r \in Requests, Handle(r) PROVE UNCHANGED proc
  BY <1>1 DEF Handle, BeginPreview, BeginExecute, PrepareDownload, FreezeSelection,
    CheckCapacity, Enqueue, Refuse, SendFile, ConsumeFile, ConsumeRow, rows, disk, pool,
    ghosts
<1>2. ASSUME NEW w \in Workers, Work(w) PROVE UNCHANGED proc
  BY <1>2 DEF Work, Claim, LoadPlan, SwitchedOff, LoadFails, TakeGuard, OpenSpool,
    CancelSeen, GenerateFails, WriteAll, Rename, InsertRow, InsertFails, Report, Leave,
    rows, disk, pool, ghosts
<1>3. ASSUME NEW j \in Jobs, CreatePlan(j) \/ Cancel(j) \/ Expire(j) PROVE UNCHANGED
  proc
  BY <1>3 DEF CreatePlan, Cancel, Expire, rows, disk, pool, ghosts
<1>4. ASSUME Purge \/ StartUp \/ Crash \/ AlterSource PROVE UNCHANGED proc \/
  SweepInterrupted \/ SweepFails \/ StartupPurged \/ SweepOrphans \/ Crash
  BY <1>4 DEF Purge, StartUp, PurgeFiles, PurgeRows, AlterSource, rows, disk, pool,
    ghosts
<1>5. CASE UNCHANGED vars
  BY <1>5 DEF vars
<1> QED
  BY <1>1, <1>2, <1>3, <1>4, <1>5 DEF Next

(* Who records what is left behind.                                        *)
LEMMA ResidueWriters ==
  ASSUME [Next]_vars
  PROVE  \/ UNCHANGED unswept
         \/ \E w \in Workers : InsertFails(w)
         \/ Crash
         \/ SweepFails
<1>1. ASSUME NEW r \in Requests, Handle(r) PROVE UNCHANGED unswept
  BY <1>1 DEF Handle, BeginPreview, BeginExecute, PrepareDownload, FreezeSelection,
    CheckCapacity, Enqueue, Refuse, SendFile, ConsumeFile, ConsumeRow, rows, disk, pool,
    ghosts
<1>2. ASSUME NEW w \in Workers, Work(w) PROVE UNCHANGED unswept \/ InsertFails(w)
  BY <1>2 DEF Work, Claim, LoadPlan, SwitchedOff, LoadFails, TakeGuard, OpenSpool,
    CancelSeen, GenerateFails, WriteAll, Rename, InsertRow, Report, Leave, rows, disk,
    pool, ghosts
<1>3. ASSUME NEW j \in Jobs, CreatePlan(j) \/ Cancel(j) \/ Expire(j) PROVE UNCHANGED
  unswept
  BY <1>3 DEF CreatePlan, Cancel, Expire, rows, disk, pool, ghosts
<1>4. ASSUME Purge \/ StartUp \/ Crash \/ AlterSource PROVE UNCHANGED unswept \/
  SweepFails \/ Crash
  BY <1>4 DEF Purge, StartUp, PurgeFiles, PurgeRows, SweepInterrupted, StartupPurged,
    SweepOrphans, AlterSource, rows, disk, pool, ghosts
<1>5. CASE UNCHANGED vars
  BY <1>5 DEF vars
<1> QED
  BY <1>1, <1>2, <1>3, <1>4, <1>5 DEF Next

(* What a step of anybody may do to one worker.                            *)
LEMMA WorkerSteps ==
  ASSUME TypeInv, [Next]_vars, NEW w \in Workers
  PROVE  /\ worker'[w].stage \in Unoffered =>
              \/ worker[w].stage \in Unoffered /\ worker'[w].job = worker[w].job
              \/ job[worker'[w].job].status = "pending"
         /\ worker'[w].stage = "row" =>
              \/ worker[w].stage = "row" /\ worker'[w].job = worker[w].job
              \/ Rename(w)
         /\ worker[w].stage \in Spooling =>
              \/ worker'[w].stage \in Spooling /\ worker'[w].job = worker[w].job
              \/ CancelSeen(w) \/ GenerateFails(w) \/ InsertRow(w) \/ InsertFails(w) \/
                Crash
<1> DEFINE G == /\ worker'[w].stage \in Unoffered =>
                     \/ worker[w].stage \in Unoffered /\ worker'[w].job = worker[w].job
                     \/ job[worker'[w].job].status = "pending"
                /\ worker'[w].stage = "row" =>
                     \/ worker[w].stage = "row" /\ worker'[w].job = worker[w].job
                     \/ Rename(w)
                /\ worker[w].stage \in Spooling =>
                     \/ worker'[w].stage \in Spooling /\ worker'[w].job = worker[w].job
                     \/ CancelSeen(w) \/ GenerateFails(w) \/ InsertRow(w) \/
                       InsertFails(w)
                     \/ Crash
<1>1. CASE UNCHANGED worker
  BY <1>1
<1>2. ASSUME NEW v \in Workers, Work(v), v # w PROVE G
  <2>1. worker'[w] = worker[w]
    <3>1. CASE Claim(v)
      BY <1>2, <3>1 DEF Claim, Move, Take, TypeInv, TypeOK
    <3>2. CASE LoadPlan(v)
      BY <1>2, <3>2 DEF LoadPlan, Move, Take, TypeInv, TypeOK
    <3>3. CASE SwitchedOff(v)
      BY <1>2, <3>3 DEF SwitchedOff, Move, Take, TypeInv, TypeOK
    <3>4. CASE LoadFails(v)
      BY <1>2, <3>4 DEF LoadFails, Move, Take, TypeInv, TypeOK
    <3>5. CASE TakeGuard(v)
      BY <1>2, <3>5 DEF TakeGuard, Move, Take, TypeInv, TypeOK
    <3>6. CASE OpenSpool(v)
      BY <1>2, <3>6 DEF OpenSpool, Move, Take, TypeInv, TypeOK
    <3>7. CASE CancelSeen(v)
      BY <1>2, <3>7 DEF CancelSeen, Move, Take, TypeInv, TypeOK
    <3>8. CASE GenerateFails(v)
      BY <1>2, <3>8 DEF GenerateFails, Move, Take, TypeInv, TypeOK
    <3>9. CASE WriteAll(v)
      BY <1>2, <3>9 DEF WriteAll, Move, Take, TypeInv, TypeOK
    <3>10. CASE Rename(v)
      BY <1>2, <3>10 DEF Rename, Move, Take, TypeInv, TypeOK
    <3>11. CASE InsertRow(v)
      BY <1>2, <3>11 DEF InsertRow, Move, Take, TypeInv, TypeOK
    <3>12. CASE InsertFails(v)
      BY <1>2, <3>12 DEF InsertFails, Move, Take, TypeInv, TypeOK
    <3>13. CASE Report(v)
      BY <1>2, <3>13 DEF Report, Move, Take, TypeInv, TypeOK
    <3>14. CASE Leave(v)
      BY <1>2, <3>14 DEF Leave, Move, Take, TypeInv, TypeOK
    <3> QED
      BY <1>2, <3>1, <3>2, <3>3, <3>4, <3>5, <3>6, <3>7, <3>8, <3>9, <3>10, <3>11,
        <3>12, <3>13, <3>14 DEF Work
  <2> QED
    BY <2>1
<1>3. CASE Work(w)
  <2>1. CASE Claim(w)
    BY <2>1 DEF Claim, Take, At, TypeInv, TypeOK, Unoffered, Spooling
  <2>2. CASE LoadPlan(w)
    BY <2>2 DEF LoadPlan, Take, At, TypeInv, TypeOK, Unoffered, Spooling
  <2>3. CASE SwitchedOff(w)
    BY <2>3, MoveEffect DEF SwitchedOff, TypeInv, TypeOK, Placed, Stage, Holding,
      Unoffered, Spooling
  <2>4. CASE LoadFails(w)
    BY <2>4, MoveEffect DEF LoadFails, TypeInv, TypeOK, Placed, Stage, Holding,
      Unoffered, Spooling
  <2>5. CASE TakeGuard(w)
    BY <2>5, MoveEffect DEF TakeGuard, TypeInv, TypeOK, Placed, Stage, Holding,
      Unoffered, Spooling
  <2>6. CASE OpenSpool(w)
    BY <2>6, MoveEffect DEF OpenSpool, TypeInv, TypeOK, Placed, Stage, Holding,
      Unoffered, Spooling
  <2>7. CASE CancelSeen(w)
    BY <2>7, MoveEffect DEF CancelSeen, TypeInv, TypeOK, Placed, Stage, Holding,
      Unoffered, Spooling
  <2>8. CASE GenerateFails(w)
    BY <2>8, MoveEffect DEF GenerateFails, TypeInv, TypeOK, Placed, Stage, Holding,
      Unoffered, Spooling
  <2>9. CASE WriteAll(w)
    BY <2>9, WriteEffect DEF WriteAll, TypeInv, TypeOK, Placed, Stage, Holding,
      Unoffered, Spooling
  <2>10. CASE Rename(w)
    BY <2>10, MoveEffect DEF Rename, TypeInv, TypeOK, Placed, Stage, Holding, Unoffered,
      Spooling
  <2>11. CASE InsertRow(w)
    BY <2>11, MoveEffect DEF InsertRow, TypeInv, TypeOK, Placed, Stage, Holding,
      Unoffered, Spooling
  <2>12. CASE InsertFails(w)
    BY <2>12, MoveEffect DEF InsertFails, TypeInv, TypeOK, Placed, Stage, Holding,
      Unoffered, Spooling
  <2>13. CASE Report(w)
    BY <2>13, MoveEffect DEF Report, TypeInv, TypeOK, Placed, Stage, Holding, Unoffered,
      Spooling
  <2>14. CASE Leave(w)
    BY <2>14, LeaveEffect DEF Leave, TypeInv, TypeOK, Placed, Stage, Holding, Unoffered,
      Spooling
  <2> QED
    BY <1>3, <2>1, <2>2, <2>3, <2>4, <2>5, <2>6, <2>7, <2>8, <2>9, <2>10, <2>11, <2>12,
      <2>13, <2>14 DEF Work
<1>4. CASE Crash
  BY <1>4, CrashEffect DEF Unoffered
<1>5. UNCHANGED worker \/ (\E v \in Workers : Work(v)) \/ Crash
  <2>1. ASSUME NEW r \in Requests, Handle(r) PROVE UNCHANGED worker
    BY <2>1 DEF Handle, BeginPreview, BeginExecute, PrepareDownload, FreezeSelection,
      CheckCapacity, Enqueue, Refuse, SendFile, ConsumeFile, ConsumeRow, rows, disk,
      pool, ghosts
  <2>2. ASSUME NEW j \in Jobs, CreatePlan(j) \/ Cancel(j) \/ Expire(j) PROVE UNCHANGED
    worker
    BY <2>2 DEF CreatePlan, Cancel, Expire, rows, disk, pool, ghosts
  <2>3. ASSUME Purge \/ StartUp \/ AlterSource PROVE UNCHANGED worker
    BY <2>3 DEF Purge, StartUp, PurgeFiles, PurgeRows, SweepInterrupted, SweepFails,
      StartupPurged, SweepOrphans, AlterSource, rows, disk, pool, ghosts
  <2>4. CASE UNCHANGED vars
    BY <2>4 DEF vars
  <2> QED
    BY <2>1, <2>2, <2>3, <2>4 DEF Next
<1> QED
  BY <1>1, <1>2, <1>3, <1>4, <1>5

(* What a step of anybody may do to a request that deletes an artifact.    *)
LEMMA ConsumerSteps ==
  ASSUME TypeInv, [Next]_vars, NEW r \in Requests
  PROVE  /\ request'[r].stage = "consumed" =>
              \/ request[r].stage = "consumed" /\ request'[r].job = request[r].job
              \/ ConsumeFile(r)
         /\ request[r].stage = "consumed" =>
              \/ request'[r].stage = "consumed" /\ request'[r].job = request[r].job
              \/ ConsumeRow(r) \/ Crash
<1> DEFINE G == /\ request'[r].stage = "consumed" =>
                     \/ request[r].stage = "consumed" /\ request'[r].job =
                       request[r].job
                     \/ ConsumeFile(r)
                /\ request[r].stage = "consumed" =>
                     \/ request'[r].stage = "consumed" /\ request'[r].job =
                       request[r].job
                     \/ ConsumeRow(r) \/ Crash
<1>1. CASE UNCHANGED request
  BY <1>1
<1>2. ASSUME NEW q \in Requests, Handle(q) PROVE G
  <2>1. ASSUME NEW j \in Jobs, BeginPreview(q, j) PROVE G
    BY <1>2, <2>1 DEF BeginPreview, Ask, At, TypeInv, TypeOK
  <2>2. ASSUME NEW j \in Jobs, BeginExecute(q, j) PROVE G
    BY <1>2, <2>2 DEF BeginExecute, Ask, At, TypeInv, TypeOK
  <2>3. ASSUME NEW j \in Jobs, PrepareDownload(q, j) PROVE G
    BY <1>2, <2>3 DEF PrepareDownload, Ask, At, TypeInv, TypeOK
  <2>4. CASE FreezeSelection(q)
    BY <1>2, <2>4, AnswerEffect DEF FreezeSelection, TypeInv, TypeOK, Stage
  <2>5. CASE CheckCapacity(q)
    BY <1>2, <2>5 DEF CheckCapacity, Pass, TypeInv, TypeOK
  <2>6. CASE Enqueue(q)
    BY <1>2, <2>6, AnswerEffect DEF Enqueue, TypeInv, TypeOK, Stage
  <2>7. CASE Refuse(q)
    BY <1>2, <2>7, AnswerEffect DEF Refuse, TypeInv, TypeOK, Stage
  <2>8. CASE SendFile(q)
    <3>1. CASE Pass(q, "consume")
      <4>1. /\ request'[q].stage = "consume"
            /\ \A p \in Requests \ {q} : request'[p] = request[p]
        BY <1>2, <3>1, PassEffect DEF TypeInv, TypeOK, Stage
      <4> QED
        BY <1>2, <2>8, <4>1 DEF SendFile
    <3>2. CASE Answer(q)
      <4>1. /\ request'[q].stage = "idle"
            /\ \A p \in Requests \ {q} : request'[p] = request[p]
        BY <1>2, <3>2, AnswerEffect DEF TypeInv, TypeOK
      <4> QED
        BY <1>2, <2>8, <4>1 DEF SendFile
    <3> QED
      BY <2>8, <3>1, <3>2 DEF SendFile
  <2>9. CASE ConsumeFile(q)
    BY <1>2, <2>9, PassEffect DEF ConsumeFile, TypeInv, TypeOK, Stage
  <2>10. CASE ConsumeRow(q)
    BY <1>2, <2>10, AnswerEffect DEF ConsumeRow, TypeInv, TypeOK, Stage
  <2> QED
    BY <1>2, <2>1, <2>2, <2>3, <2>4, <2>5, <2>6, <2>7, <2>8, <2>9, <2>10 DEF Handle
<1>3. CASE Crash
  BY <1>3, CrashEffect
<1>4. UNCHANGED request \/ (\E q \in Requests : Handle(q)) \/ Crash
  <2>1. ASSUME NEW w \in Workers, Work(w) PROVE UNCHANGED request
    BY <2>1 DEF Work, Claim, LoadPlan, SwitchedOff, LoadFails, TakeGuard, OpenSpool,
      CancelSeen, GenerateFails, WriteAll, Rename, InsertRow, InsertFails, Report,
      Leave, rows, disk, pool, ghosts
  <2>2. ASSUME NEW j \in Jobs, CreatePlan(j) \/ Cancel(j) \/ Expire(j) PROVE UNCHANGED
    request
    BY <2>2 DEF CreatePlan, Cancel, Expire, rows, disk, pool, ghosts
  <2>3. ASSUME Purge \/ StartUp \/ AlterSource PROVE UNCHANGED request
    BY <2>3 DEF Purge, StartUp, PurgeFiles, PurgeRows, SweepInterrupted, SweepFails,
      StartupPurged, SweepOrphans, AlterSource, rows, disk, pool, ghosts
  <2>4. CASE UNCHANGED vars
    BY <2>4 DEF vars
  <2> QED
    BY <2>1, <2>2, <2>3, <2>4 DEF Next
<1> QED
  BY <1>1, <1>2, <1>3, <1>4

(* Only a step that finds the row there changes it, except the insertion.  *)
LEMMA RowChanges ==
  ASSUME TypeInv, Core, [Next]_vars, NEW j \in Jobs, artifact'[j] # artifact[j]
  PROVE  \/ artifact[j] # "none" /\ artifact'[j] # "available"
            /\ (j \in purging \/ \E r \in Requests : request[r].stage = "consumed" /\
              request[r].job = j)
         \/ \E w \in Workers : InsertRow(w) /\ worker[w].job = j
<1>1. ASSUME NEW r \in Requests, ConsumeRow(r) PROVE request[r].stage = "consumed" /\
  request[r].job = j /\ artifact'[j] = "consumed"
  BY <1>1 DEF ConsumeRow, TypeInv, TypeOK
<1>2. ASSUME NEW w \in Workers, InsertRow(w) PROVE worker[w].job = j
  BY <1>2 DEF InsertRow, TypeInv, TypeOK
<1>3. ASSUME PurgeRows PROVE j \in purging /\ artifact'[j] = "purged"
  BY <1>3 DEF PurgeRows
<1> QED
  BY <1>1, <1>2, <1>3, RowWriters DEF Core, RowFound

(* A file appears or gets its name only for a job without a row.           *)
LEMMA FileChanges ==
  ASSUME TypeInv, Core, Files, [Next]_vars, NEW j \in Jobs, file'[j] # file[j]
  PROVE  \/ \E w \in Workers : /\ worker[w].job = j /\ artifact[j] = "none"
                               /\ OpenSpool(w) \/ CancelSeen(w) \/ GenerateFails(w) \/
                                 Rename(w)
         \/ /\ file'[j] = "none"
            /\ \/ \E r \in Requests : ConsumeFile(r) /\ request[r].job = j
               \/ PurgeFiles /\ j \in Overdue
               \/ SweepOrphans /\ ~(file[j] = "final" /\ artifact[j] = "available")
<1>1. ASSUME NEW w \in Workers, OpenSpool(w) \/ CancelSeen(w) \/ GenerateFails(w) \/
  Rename(w)
      PROVE  worker[w].job = j /\ artifact[j] = "none"
  BY <1>1 DEF OpenSpool, CancelSeen, GenerateFails, Rename, TypeInv, TypeOK, Files,
    NoRowBefore, Unoffered
<1>2. ASSUME NEW r \in Requests, ConsumeFile(r) PROVE request[r].job = j /\ file'[j] =
  "none"
  BY <1>2 DEF ConsumeFile, TypeInv, TypeOK
<1>3. ASSUME PurgeFiles PROVE j \in Overdue /\ file'[j] = "none"
  BY <1>3 DEF PurgeFiles
<1>4. ASSUME SweepOrphans PROVE file'[j] = "none" /\ ~(file[j] = "final" /\ artifact[j]
  = "available")
  BY <1>4 DEF SweepOrphans, TypeInv, TypeOK
<1> QED
  BY <1>1, <1>2, <1>3, <1>4, FileWriters

LEMMA WorkerJob ==
  ASSUME TypeInv, NEW w \in Workers, worker[w].stage \in Unoffered
  PROVE  worker[w].job \in Jobs
  BY DEF TypeInv, Placed, Unoffered, Holding

LEMMA NoRowBeforeStep == TypeInv /\ TypeInv' /\ Core /\ Files /\ [Next]_vars =>
  NoRowBefore'
<1> SUFFICES ASSUME TypeInv, TypeInv', Core, Files, [Next]_vars,
                    NEW w \in Workers, worker'[w].stage \in Unoffered
             PROVE  artifact'[worker'[w].job] = "none"
  BY DEF NoRowBefore
<1> DEFINE j == worker'[w].job
<1>1. j \in Jobs
  BY DEF TypeInv, Placed, Unoffered, Holding
<1>2. artifact[j] = "none"
  BY <1>1, WorkerSteps DEF Files, NoRowBefore, Core, NothingUnclaimed
<1>3. ASSUME NEW v \in Workers, InsertRow(v), worker[v].job = j PROVE FALSE
  <2>1. worker[v].stage = "row" /\ job[j].status = "running"
    BY <1>3 DEF InsertRow, Core, ClaimedRuns, Busy, Holding
  <2>2. worker[w].stage \in Unoffered /\ worker[w].job = j
    BY <2>1, WorkerSteps
  <2>3. v = w
    BY <1>3, <2>1, <2>2 DEF Core, OneWorker, Busy, Holding, Unoffered
  <2>4. worker'[v].stage = "report"
    BY <1>3, MoveEffect DEF InsertRow, TypeInv, TypeOK, Stage, Holding
  <2> QED
    BY <2>3, <2>4 DEF Unoffered
<1> QED
  BY <1>1, <1>2, <1>3, RowChanges

LEMMA FinalAtRowStep == TypeInv /\ TypeInv' /\ Core /\ Files /\ [Next]_vars =>
  FinalAtRow'
<1> SUFFICES ASSUME TypeInv, TypeInv', Core, Files, [Next]_vars,
                    NEW w \in Workers, worker'[w].stage = "row"
             PROVE  file'[worker'[w].job] = "final"
  BY DEF FinalAtRow
<1>1. CASE Rename(w)
  BY <1>1, MoveEffect, WorkerJob DEF Rename, TypeInv, TypeOK, Stage, Holding, Unoffered
<1>2. CASE worker[w].stage = "row" /\ worker'[w].job = worker[w].job
  <2> DEFINE j == worker[w].job
  <2>1. j \in Jobs /\ artifact[j] = "none" /\ file[j] = "final"
    BY <1>2, WorkerJob DEF Unoffered, Files, NoRowBefore, FinalAtRow
  <2>2. ASSUME NEW v \in Workers, worker[v].job = j,
               OpenSpool(v) \/ CancelSeen(v) \/ GenerateFails(v) \/ Rename(v)
        PROVE  FALSE
    BY <1>2, <2>2 DEF OpenSpool, CancelSeen, GenerateFails, Rename, Core, OneWorker,
      Busy, Holding
  <2>3. ASSUME NEW r \in Requests, ConsumeFile(r), request[r].job = j PROVE FALSE
    BY <2>1, <2>3 DEF ConsumeFile, Core, RowFound
  <2>4. j \notin Overdue /\ ~SweepOrphans
    BY <1>2, <2>1 DEF Overdue, SweepOrphans, Core, QuietStart
  <2> QED
    BY <1>2, <2>1, <2>2, <2>3, <2>4, FileChanges
<1> QED
  BY <1>1, <1>2, WorkerSteps

LEMMA PartHasNoRowStep == TypeInv /\ TypeInv' /\ Core /\ Files /\ [Next]_vars =>
  PartHasNoRow'
<1> SUFFICES ASSUME TypeInv, TypeInv', Core, Files, [Next]_vars,
                    NEW j \in Jobs, file'[j] = "part"
             PROVE  artifact'[j] = "none"
  BY DEF PartHasNoRow
<1>1. artifact[j] = "none"
  BY FileChanges DEF Files, PartHasNoRow
<1>2. ASSUME NEW w \in Workers, InsertRow(w), worker[w].job = j PROVE FALSE
  BY <1>2 DEF InsertRow, disk, Files, FinalAtRow
<1> QED
  BY <1>1, <1>2, RowChanges

(* What was deleted stays deleted while there is a row.                    *)
LEMMA StaysDeleted ==
  ASSUME TypeInv, Core, Files, [Next]_vars, NEW j \in Jobs, artifact[j] # "none",
    file[j] = "none"
  PROVE  file'[j] = "none"
  BY FileChanges

LEMMA DeletedFirstStep == TypeInv /\ TypeInv' /\ Core /\ Files /\ [Next]_vars =>
  DeletedFirst'
<1> SUFFICES ASSUME TypeInv, TypeInv', Core, Files, [Next]_vars PROVE DeletedFirst'
  OBVIOUS
<1>1. ASSUME NEW r \in Requests, request'[r].stage = "consumed"
      PROVE  file'[request'[r].job] = "none"
  <2>1. CASE ConsumeFile(r)
    <3>1. request'[r].job = request[r].job /\ request[r].job \in Jobs
      BY <2>1, PassEffect DEF ConsumeFile, TypeInv, TypeOK, Placed, Stage
    <3> QED
      BY <2>1, <3>1 DEF ConsumeFile, TypeInv, TypeOK
  <2>2. CASE request[r].stage = "consumed" /\ request'[r].job = request[r].job
    BY <2>2, StaysDeleted DEF TypeInv, Placed, Core, RowFound, Files, DeletedFirst
  <2> QED
    BY <1>1, <2>1, <2>2, ConsumerSteps
<1>2. ASSUME NEW j \in purging' PROVE file'[j] = "none"
  <2>1. CASE PurgeFiles
    BY <1>2, <2>1 DEF PurgeFiles, TypeInv, TypeOK
  <2>2. CASE UNCHANGED purging
    BY <1>2, <2>2, StaysDeleted DEF TypeInv, TypeOK, Core, RowFound, Files, DeletedFirst
  <2> QED
    BY <1>2, <2>1, <2>2, PurgingWriters DEF PurgeRows, Crash
<1> QED
  BY <1>1, <1>2 DEF DeletedFirst

LEMMA UnsweptGrows == [Next]_vars => unswept \subseteq unswept'
  BY ResidueWriters DEF InsertFails, Crash, SweepFails

LEMMA AvailableHasFileStep ==
  TypeInv /\ TypeInv' /\ Core /\ Files /\ [Next]_vars => AvailableHasFile'
<1> SUFFICES ASSUME TypeInv, TypeInv', Core, Files, [Next]_vars,
                    NEW j \in Jobs, artifact'[j] = "available", file'[j] # "final"
             PROVE  \/ j \in purging' \cup unswept'
                    \/ \E r \in Requests : request'[r].stage = "consumed" /\
                      request'[r].job = j
  BY DEF AvailableHasFile
<1>1. artifact[j] = "available"
  <2>1. ASSUME NEW w \in Workers, InsertRow(w), worker[w].job = j PROVE file'[j] =
    "final"
    BY <2>1 DEF InsertRow, disk, Files, FinalAtRow
  <2> QED
    BY <2>1, RowChanges
<1>2. CASE file[j] = "final"
  <2>1. ASSUME NEW r \in Requests, ConsumeFile(r), request[r].job = j
        PROVE  request'[r].stage = "consumed" /\ request'[r].job = j
    BY <2>1, PassEffect DEF ConsumeFile, TypeInv, TypeOK, Stage
  <2>2. ASSUME PurgeFiles, j \in Overdue PROVE j \in purging'
    BY <2>2 DEF PurgeFiles
  <2> QED
    BY <1>1, <1>2, <2>1, <2>2, FileChanges
<1>3. CASE file[j] # "final"
  <2>1. CASE Crash
    <3>1. file[j] = "none"
      BY <1>1, <1>3 DEF Files, PartHasNoRow, TypeInv, TypeOK
    <3> QED
      BY <1>1, <2>1, <3>1 DEF Crash
  <2>2. CASE j \in purging
    <3>1. ~PurgeRows
      BY <1>1, <2>2 DEF PurgeRows
    <3>2. ASSUME PurgeFiles PROVE FALSE
      BY <2>2, <3>2 DEF PurgeFiles
    <3> QED
      BY <2>1, <2>2, <3>1, <3>2, PurgingWriters
  <2>3. CASE j \in unswept
    BY <2>3, UnsweptGrows
  <2>4. ASSUME NEW r \in Requests, request[r].stage = "consumed", request[r].job = j,
    ~Crash
        PROVE  request'[r].stage = "consumed" /\ request'[r].job = j
    <3>1. ~ConsumeRow(r)
      BY <2>4 DEF ConsumeRow, TypeInv, TypeOK
    <3> QED
      BY <2>4, <3>1, ConsumerSteps
  <2> QED
    BY <1>1, <1>3, <2>1, <2>2, <2>3, <2>4 DEF Files, AvailableHasFile
<1> QED
  BY <1>2, <1>3

LEMMA AccountedStep == TypeInv /\ TypeInv' /\ Core /\ Files /\ [Next]_vars => Accounted'
<1> SUFFICES ASSUME TypeInv, TypeInv', Core, Files, [Next]_vars, proc' = "up",
                    NEW j \in Jobs, file'[j] # "none"
             PROVE  \/ artifact'[j] = "available" \/ j \in unswept'
                    \/ \E w \in Workers : worker'[w].stage \in Spooling /\
                      worker'[w].job = j
  BY DEF Accounted
<1>1. CASE proc # "up"
  <2>1. CASE SweepOrphans
    BY <2>1 DEF SweepOrphans, rows
  <2>2. CASE SweepFails /\ proc = "orphans"
    BY <2>2 DEF SweepFails, rows, disk
  <2> QED
    BY <1>1, <2>1, <2>2, ProcWriters DEF Crash, SweepInterrupted, SweepFails,
      StartupPurged
<1>2. CASE proc = "up" /\ file[j] = "none"
  <2>1. ASSUME NEW w \in Workers, worker[w].job = j, OpenSpool(w) \/ Rename(w)
        PROVE  worker'[w].stage \in Spooling /\ worker'[w].job = j
    BY <2>1, MoveEffect DEF OpenSpool, Rename, TypeInv, TypeOK, Stage, Holding, Spooling
  <2>2. ASSUME NEW w \in Workers, worker[w].job = j, CancelSeen(w) \/ GenerateFails(w)
        PROVE  file'[j] = "none"
    BY <2>2 DEF CancelSeen, GenerateFails, TypeInv, TypeOK
  <2> QED
    BY <1>2, <2>1, <2>2, FileChanges
<1>3. CASE proc = "up" /\ file[j] # "none"
  <2>1. CASE artifact[j] = "available"
    <3>1. ASSUME NEW w \in Workers, InsertRow(w), worker[w].job = j PROVE artifact'[j] =
      "available"
      BY <3>1 DEF InsertRow, TypeInv, TypeOK
    <3> QED
      BY <1>3, <2>1, <3>1, RowChanges DEF Files, DeletedFirst
  <2>2. CASE j \in unswept
    BY <2>2, UnsweptGrows
  <2>3. ASSUME NEW w \in Workers, worker[w].stage \in Spooling, worker[w].job = j,
               ~(worker'[w].stage \in Spooling /\ worker'[w].job = j)
        PROVE  artifact'[j] = "available" \/ j \in unswept'
    <3>1. ~CancelSeen(w) /\ ~GenerateFails(w)
      BY <2>3 DEF CancelSeen, GenerateFails, TypeInv, TypeOK
    <3>2. ~Crash
      BY DEF Crash
    <3>3. ASSUME InsertRow(w) PROVE artifact'[j] = "available"
      BY <2>3, <3>3 DEF InsertRow, TypeInv, TypeOK
    <3>4. ASSUME InsertFails(w) PROVE j \in unswept'
      BY <2>3, <3>4 DEF InsertFails
    <3> QED
      BY <2>3, <3>1, <3>2, <3>3, <3>4, WorkerSteps
  <2> QED
    BY <1>3, <2>1, <2>2, <2>3 DEF Files, Accounted
<1> QED
  BY <1>1, <1>2, <1>3

LEMMA FilesInvariant == Spec => [](TypeInv /\ Core /\ Files)
<1>1. Init => TypeInv /\ Core /\ Files
  BY TypeInit, CoreInit, FilesInit
<1>2. TypeInv /\ Core /\ Files /\ [Next]_vars => TypeInv' /\ Core' /\ Files'
  <2>1. TypeInv /\ Core /\ Files /\ [Next]_vars => TypeInv' /\ Core'
    BY TypeStep, CoreStep
  <2> QED
    BY <2>1, NoRowBeforeStep, FinalAtRowStep, PartHasNoRowStep, DeletedFirstStep,
      AvailableHasFileStep, AccountedStep DEF Files
<1> QED
  BY <1>1, <1>2, PTL DEF Spec

(* A row that offers an artifact has its file, for any number of jobs,     *)
(* workers and requests: what lies between file and row is a consumer, the *)
(* purge, or what a crash there left.                                      *)
THEOREM OfferedHasFile == Spec => []AvailableHasFile
<1>1. Files => AvailableHasFile
  BY DEF Files
<1> QED
  BY <1>1, FilesInvariant, PTL

(* While the process serves, every file is being written, is offered, or   *)
(* was left by a failure that the code does not clean up.                  *)
THEOREM NothingLeftBehind == Spec => []NoResidue
<1>1. Files => NoResidue
  BY DEF Files, Accounted, NoResidue, Holding, Spooling
<1> QED
  BY <1>1, FilesInvariant, PTL
=============================================================================
