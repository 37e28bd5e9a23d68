----------------------- MODULE MigrationRunnerProofs -----------------------
(* What TLAPS proves of MigrationRunner, for every blueprint (NV, Size,    *)
(* HasDown), every set of requests and every other constant.               *)
EXTENDS MigrationRunner, FiniteSetTheorems, WellFoundedInduction, TLAPS

(* Positions in a statement list are natural numbers, and a reversible     *)
(* statement has a rank of at least one.                                   *)
LEMMA ReversibleFinite ==
  ASSUME NEW v \in Versions
  PROVE  IsFiniteSet(Reversible(v)) /\ Reversible(v) \subseteq 1..Size[v]
<1>1. Size[v] \in Nat
  BY SizeAssumption
<1>2. IsFiniteSet(1..Size[v])
  BY <1>1, FS_Interval
<1> QED
  BY <1>2, FS_Subset DEF Reversible

LEMMA RankPositive ==
  ASSUME NEW v \in Versions, NEW i \in Reversible(v)
  PROVE  Rank(v, i) \in Nat \ {0}
<1> DEFINE S == {j \in Reversible(v) : j >= i}
<1>1. S \subseteq Reversible(v) /\ IsFiniteSet(S)
  BY ReversibleFinite, FS_Subset
<1>2. i \in S
  BY ReversibleFinite, SizeAssumption
<1>3. Cardinality(S) \in Nat
  BY <1>1, FS_CardinalityType
<1>4. Cardinality(S) # 0
  BY <1>1, <1>2, FS_EmptySet
<1> QED
  BY <1>3, <1>4 DEF Rank

LEMMA FrontierTypes ==
  ASSUME NEW c \in Ctx, c.cur \in Versions, c.phase \in {"up", "down", "undo"},
         NEW i \in Frontier(c)
  PROVE  i \in 1..Size[c.cur] /\ After(c, i) \in Nat
<1>1. Size[c.cur] \in Nat
  BY SizeAssumption
<1>2. i \in Left(c)
  BY DEF Frontier
<1>3. CASE c.phase = "up"
  BY <1>1, <1>2, <1>3 DEF Left, After
<1>4. CASE c.phase = "down"
  <2>1. i \in Reversible(c.cur)
    BY <1>2, <1>4 DEF Left
  <2> QED
    BY <2>1, <1>4, RankPositive, ReversibleFinite DEF After
<1>5. CASE c.phase = "undo"
  <2>1. i \in Reversible(c.cur)
    BY <1>2, <1>5 DEF Left
  <2> QED
    BY <1>1, <2>1, <1>5, ReversibleFinite DEF After
<1> QED
  BY <1>3, <1>4, <1>5

-----------------------------------------------------------------------------
(* Type correctness.  A request that is executing statements has a version *)
(* to execute and a direction.                                             *)
Placed ==
  \A r \in Requests :
    /\ (pc[r] \in {"stmt", "ack", "clear"} \/ ctx[r].phase = "undo") =>
         ctx[r].cur \in Versions
    /\ pc[r] \in {"stmt", "ack", "clear"} => ctx[r].phase \in {"up", "down", "undo"}
TypeInv == TypeOK /\ Placed

LEMMA NoCtxType == NoCtx \in Ctx /\ NoCtx.phase = "none"
BY SizeAssumption DEF NoCtx, Ctx, Versions

LEMMA TypeInit == Init => TypeInv
<1> SUFFICES ASSUME Init PROVE TypeInv
  OBVIOUS
<1>1. /\ phys \subseteq Stmt /\ ledger \in 0..NV /\ lock \in Requests \cup {NoOne}
      /\ cached \in 0..NV /\ lost \in Nat /\ unheard \subseteq {"up", "down", "undo"} \X Stmt
  BY SizeAssumption DEF Init
<1>2. quarantined \in BOOLEAN /\ declared \in BOOLEAN
  BY DEF Init
<1>3. ckUp \in [Versions -> Nat] /\ ckDown \in [Versions -> Nat]
  BY DEF Init
<1>4. pc \in [Requests -> PC]
  BY DEF Init, PC
<1>5. ctx \in [Requests -> Ctx]
  BY NoCtxType DEF Init
<1>6. Placed
  BY NoCtxType DEF Init, Placed
<1> QED
  BY <1>1, <1>2, <1>3, <1>4, <1>5, <1>6 DEF TypeInv, TypeOK

(* The records the actions write are contexts.                             *)
ApplyCtx(n, mode) == [NoCtx EXCEPT !.op = "apply", !.phase = "up", !.goal = n, !.mode = mode]
RollbackCtx == [NoCtx EXCEPT !.op = "rollback", !.phase = "down"]
StampCtx(n, b) ==
  [NoCtx EXCEPT !.op = "stamp", !.phase = "none", !.goal = n, !.seen = n, !.force = b]
ReconcileCtx(n, k) == [NoCtx EXCEPT !.op = "reconcile", !.phase = "undo", !.cur = n, !.pos = k]

LEMMA CtxBegins ==
  /\ \A n \in Versions, mode \in {"auto", "reconcile", "leave"} :
       ApplyCtx(n, mode) \in Ctx /\ ApplyCtx(n, mode).phase = "up"
  /\ RollbackCtx \in Ctx /\ RollbackCtx.phase = "down"
  /\ \A n \in Versions, b \in BOOLEAN :
       StampCtx(n, b) \in Ctx /\ StampCtx(n, b).phase = "none"
  /\ \A n \in Versions, k \in Nat :
       ReconcileCtx(n, k) \in Ctx /\ ReconcileCtx(n, k).cur = n
<1>1. ASSUME NEW n \in Versions, NEW mode \in {"auto", "reconcile", "leave"}
      PROVE  ApplyCtx(n, mode) \in Ctx /\ ApplyCtx(n, mode).phase = "up"
  <2>1. n \in 0..NV
    BY SizeAssumption DEF Versions
  <2>2. ApplyCtx(n, mode) \in Ctx
    BY <2>1, NoCtxType DEF Ctx, ApplyCtx
  <2> QED
    BY <2>2, NoCtxType DEF Ctx, ApplyCtx
<1>2. RollbackCtx \in Ctx /\ RollbackCtx.phase = "down"
  BY NoCtxType DEF Ctx, RollbackCtx
<1>3. ASSUME NEW n \in Versions, NEW b \in BOOLEAN
      PROVE  StampCtx(n, b) \in Ctx /\ StampCtx(n, b).phase = "none"
  <2>1. n \in 0..NV
    BY SizeAssumption DEF Versions
  <2>2. StampCtx(n, b) \in Ctx
    BY <2>1, NoCtxType DEF Ctx, StampCtx
  <2> QED
    BY <2>2, NoCtxType DEF Ctx, StampCtx
<1>4. ASSUME NEW n \in Versions, NEW k \in Nat
      PROVE  ReconcileCtx(n, k) \in Ctx /\ ReconcileCtx(n, k).cur = n
  <2>1. n \in 0..NV
    BY SizeAssumption DEF Versions
  <2>2. ReconcileCtx(n, k) \in Ctx
    BY <2>1, NoCtxType DEF Ctx, ReconcileCtx
  <2> QED
    BY <2>2, NoCtxType DEF Ctx, ReconcileCtx
<1> QED
  BY <1>1, <1>2, <1>3, <1>4

(* A step of r keeps the contexts typed when the one it writes is a        *)
(* context that satisfies Placed at the place it goes to.                  *)
Busy(x, c) ==
  /\ (x \in {"stmt", "ack", "clear"} \/ c.phase = "undo") => c.cur \in Versions
  /\ x \in {"stmt", "ack", "clear"} => c.phase \in {"up", "down", "undo"}
Local == pc \in [Requests -> PC] /\ ctx \in [Requests -> Ctx] /\ Placed
Shared ==
  /\ phys \subseteq Stmt /\ ledger \in 0..NV /\ lock \in Requests \cup {NoOne}
  /\ ckUp \in [Versions -> Nat] /\ ckDown \in [Versions -> Nat]
  /\ quarantined \in BOOLEAN /\ cached \in 0..NV
  /\ lost \in Nat /\ declared \in BOOLEAN
  /\ unheard \subseteq {"up", "down", "undo"} \X Stmt

LEMMA TypeParts == TypeInv <=> Shared /\ Local
BY DEF TypeInv, TypeOK, Shared, Local
LEMMA TypePartsPrime == TypeInv' <=> Shared' /\ Local'
BY DEF TypeInv, TypeOK, Shared, Local

LEMMA MoveLocal ==
  ASSUME Local, NEW r \in Requests, NEW x \in PC, NEW c \in Ctx,
         Goto(r, x), ctx' = [ctx EXCEPT ![r] = c], Busy(x, c)
  PROVE  Local'
<1>1. pc' \in [Requests -> PC] /\ ctx' \in [Requests -> Ctx]
  BY DEF Local, Goto
<1>2. Placed'
  BY DEF Local, Placed, Busy, Goto
<1> QED
  BY <1>1, <1>2 DEF Local

LEMMA StayLocal ==
  ASSUME Local, NEW r \in Requests, NEW x \in PC, Goto(r, x), UNCHANGED ctx,
         Busy(x, ctx[r])
  PROVE  Local'
BY DEF Local, Placed, Busy, Goto

LEMMA FinishLocal ==
  ASSUME Local, NEW r \in Requests, Finish(r)
  PROVE  Local'
<1>1. Busy("idle", NoCtx)
  BY NoCtxType DEF Busy
<1> QED
  BY <1>1, NoCtxType, MoveLocal DEF Finish, PC

(* What is in flight is a statement, and in a direction.                   *)
LEMMA InFlightTyped ==
  ASSUME TypeInv, NEW r \in Requests
  PROVE  InFlight(r) \subseteq Stmt /\ Unrecorded(r) \subseteq {"up", "down", "undo"} \X Stmt
<1>1. CASE pc[r] = "ack"
  <2>1. ctx[r] \in Ctx /\ ctx[r].cur \in Versions /\ ctx[r].phase \in {"up", "down", "undo"}
    BY <1>1 DEF TypeInv, TypeOK, Placed
  <2>2. Frontier(ctx[r]) \subseteq 1..Size[ctx[r].cur]
    BY <2>1, FrontierTypes
  <2>3. InFlight(r) \subseteq Stmt
    BY <1>1, <2>1, <2>2 DEF InFlight, Stmt
  <2> QED
    BY <2>1, <2>3 DEF Unrecorded
<1>2. CASE pc[r] # "ack"
  BY <1>2 DEF InFlight, Unrecorded
<1> QED
  BY <1>1, <1>2

(* The steps before the lock.                                              *)
LEMMA TypeBegin ==
  ASSUME TypeInv, NEW r \in Requests, Begin(r)
  PROVE  TypeInv'
<1> USE TypeParts, TypePartsPrime
<1>1. Shared'
  BY DEF Begin, BeginApply, BeginRollback, BeginStamp, BeginReconcile, Shared,
         target, progress, inventory, ghosts
<1>2. CASE BeginApply(r)
  <2>1. PICK goal \in Versions, mode \in Modes : ctx' = [ctx EXCEPT ![r] = ApplyCtx(goal, mode)]
    BY <1>2 DEF BeginApply, ApplyCtx
  <2>2. ApplyCtx(goal, mode) \in Ctx /\ Busy("guard", ApplyCtx(goal, mode))
    BY CtxBegins, ModeAssumption DEF Busy
  <2> QED
    BY <1>1, <1>2, <2>1, <2>2, MoveLocal DEF BeginApply, PC
<1>3. CASE BeginRollback(r)
  <2>1. RollbackCtx \in Ctx /\ Busy("guard", RollbackCtx)
    BY CtxBegins DEF Busy
  <2>2. ctx' = [ctx EXCEPT ![r] = RollbackCtx]
    BY <1>3 DEF BeginRollback, RollbackCtx
  <2> QED
    BY <1>1, <1>3, <2>1, <2>2, MoveLocal DEF BeginRollback, PC
<1>4. CASE BeginStamp(r)
  <2>1. PICK goal \in Versions, force \in BOOLEAN :
          ctx' = [ctx EXCEPT ![r] = StampCtx(goal, force)]
    BY <1>4 DEF BeginStamp, StampCtx
  <2>2. StampCtx(goal, force) \in Ctx /\ Busy("files", StampCtx(goal, force))
    BY CtxBegins DEF Busy
  <2> QED
    BY <1>1, <1>4, <2>1, <2>2, MoveLocal DEF BeginStamp, PC
<1>5. CASE BeginReconcile(r)
  <2>1. PICK v \in IncompleteUp : ctx' = [ctx EXCEPT ![r] = ReconcileCtx(v, ckUp[v])]
    BY <1>5 DEF BeginReconcile, ReconcileCtx
  <2>2. v \in Versions /\ ckUp[v] \in Nat
    BY DEF IncompleteUp, Shared
  <2>3. ReconcileCtx(v, ckUp[v]) \in Ctx /\ Busy("lock", ReconcileCtx(v, ckUp[v]))
    BY <2>2, CtxBegins DEF Busy
  <2> QED
    BY <1>1, <1>5, <2>1, <2>3, MoveLocal DEF BeginReconcile, PC
<1> QED
  BY <1>2, <1>3, <1>4, <1>5 DEF Begin

LEMMA TypeBeforeLock ==
  ASSUME TypeInv, NEW r \in Requests,
         Guard(r) \/ Refuse(r) \/ WriteRevisionFiles(r) \/ AcquireLock(r)
  PROVE  TypeInv'
<1> USE TypeParts, TypePartsPrime
<1>0. ctx[r] \in Ctx /\ ledger \in 0..NV
  BY DEF Local, Shared
<1>1. Shared'
  BY DEF Guard, Refuse, WriteRevisionFiles, AcquireLock, Shared,
         target, progress, inventory, ghosts
<1>2. CASE Guard(r)
  <2>1. ASSUME ctx' = [ctx EXCEPT ![r].seen = ledger]
        PROVE  Local'
    <3> DEFINE c == [ctx[r] EXCEPT !.seen = ledger]
    <3>1. c \in Ctx /\ c.phase = ctx[r].phase /\ c.cur = ctx[r].cur
      BY <1>0 DEF Ctx
    <3>2. Busy("files", c)
      BY <3>1 DEF Busy, Local, Placed
    <3> QED
      BY <1>2, <2>1, <3>1, <3>2, MoveLocal DEF Guard, PC
  <2>2. ASSUME NEW dest \in 0..(ledger - 1),
               ctx' = [ctx EXCEPT ![r].seen = ledger, ![r].goal = dest]
        PROVE  Local'
    <3> DEFINE c == [[ctx[r] EXCEPT !.seen = ledger] EXCEPT !.goal = dest]
    <3>1. dest \in 0..NV
      BY <1>0, SizeAssumption
    <3>2. c \in Ctx /\ c.phase = ctx[r].phase /\ c.cur = ctx[r].cur
      BY <1>0, <3>1 DEF Ctx
    <3>3. Busy("files", c)
      BY <3>2 DEF Busy, Local, Placed
    <3>4. ctx' = [ctx EXCEPT ![r] = c]
      BY <2>2 DEF Local
    <3> QED
      BY <1>2, <3>2, <3>3, <3>4, MoveLocal DEF Guard, PC
  <2> QED
    BY <1>1, <1>2, <2>1, <2>2 DEF Guard
<1>3. CASE Refuse(r)
  BY <1>1, <1>3, FinishLocal DEF Refuse
<1>4. CASE WriteRevisionFiles(r)
  <2> DEFINE f == [v \in Versions |-> OffsetUp(v)]
             g == [v \in Versions |-> OffsetDown(v)]
             c == [[ctx[r] EXCEPT !.offUp = f] EXCEPT !.offDown = g]
  <2>1. f \in [Versions -> Nat] /\ g \in [Versions -> Nat]
    BY DEF OffsetUp, OffsetDown, Shared
  <2>2. c \in Ctx /\ c.phase = ctx[r].phase /\ c.cur = ctx[r].cur
    BY <1>0, <2>1 DEF Ctx
  <2>3. Busy("lock", c)
    BY <2>2 DEF Busy, Local, Placed
  <2>4. ctx' = [ctx EXCEPT ![r] = c]
    BY <1>4 DEF WriteRevisionFiles, Local
  <2> HIDE DEF c
  <2> QED
    BY <1>1, <1>4, <2>2, <2>3, <2>4, MoveLocal DEF WriteRevisionFiles, PC
<1>5. CASE AcquireLock(r)
  <2> DEFINE x == IF ctx[r].phase = "undo" THEN "stmt" ELSE "run"
  <2>1. x \in PC /\ Busy(x, ctx[r])
    BY DEF PC, Busy, Local, Placed
  <2> QED
    BY <1>1, <1>5, <2>1, StayLocal DEF AcquireLock
<1> QED
  BY <1>2, <1>3, <1>4, <1>5

(* The steps under the lock.                                               *)
LEMMA TypeUnderLock ==
  ASSUME TypeInv, NEW r \in Requests,
         \/ NextVersion(r) \/ StampLedger(r) \/ ExecStatement(r) \/ RecordStatement(r)
         \/ LoseAck(r) \/ Fail(r) \/ Commit(r) \/ ClearProgress(r) \/ UndoFinished(r)
         \/ ReleaseLock(r)
  PROVE  TypeInv'
<1> USE TypeParts, TypePartsPrime
<1>0. ctx[r] \in Ctx /\ ledger \in 0..NV /\ NV \in Nat
  BY SizeAssumption DEF Local, Shared
<1>a. pc[r] \in {"stmt", "ack", "clear"} =>
        ctx[r].cur \in Versions /\ ctx[r].phase \in {"up", "down", "undo"}
  BY DEF Local, Placed
<1>b. ASSUME NEW c \in Ctx, c.phase = ctx[r].phase, c.cur = ctx[r].cur, NEW x \in PC,
             x \in {"stmt", "ack", "clear"} => pc[r] \in {"stmt", "ack", "clear"},
             Goto(r, x), ctx' = [ctx EXCEPT ![r] = c]
      PROVE  Local'
  <2>1. Busy(x, c)
    BY <1>b DEF Busy, Local, Placed
  <2> QED
    BY <1>b, <2>1, MoveLocal
<1>c. ASSUME NEW x \in PC, x \in {"stmt", "ack", "clear"} => pc[r] \in {"stmt", "ack", "clear"},
             Goto(r, x), UNCHANGED ctx
      PROVE  Local'
  <2>1. Busy(x, ctx[r])
    BY <1>c DEF Busy, Local, Placed
  <2> QED
    BY <1>c, <2>1, StayLocal
<1>1. CASE NextVersion(r)
  <2>1. Shared'
    BY <1>1 DEF NextVersion, Shared, target, progress, inventory, ghosts
  <2>2. CASE Goto(r, "unlock") /\ UNCHANGED ctx
    BY <2>1, <2>2, <1>c DEF PC
  <2>3. ASSUME NEW v \in Versions, NEW k \in Nat, Goto(r, "stmt"), 
               ctx' = [ctx EXCEPT ![r].cur = v, ![r].pos = k]
        PROVE  Local'
    <3> DEFINE c == [[ctx[r] EXCEPT !.cur = v] EXCEPT !.pos = k]
    <3>1. v \in 0..NV
      BY <1>0 DEF Versions
    <3>2. c \in Ctx /\ c.phase = ctx[r].phase /\ c.cur = v
      BY <1>0, <3>1 DEF Ctx
    <3>3. Busy("stmt", c)
      BY <1>1, <3>2 DEF Busy, NextVersion
    <3>4. ctx' = [ctx EXCEPT ![r] = c]
      BY <2>3 DEF Local
    <3> HIDE DEF c
    <3> QED
      BY <2>3, <3>2, <3>3, <3>4, MoveLocal DEF PC
  <2>4. CASE ctx[r].phase = "up" /\ ledger < ctx[r].goal
    <3>1. ledger + 1 \in Versions
      BY <1>0, <2>4 DEF Versions, Ctx
    <3>2. ctx[r].offUp \in [Versions -> Nat]
      BY <1>0 DEF Ctx
    <3>3. ctx[r].offUp[ledger + 1] \in Nat
      BY <3>1, <3>2
    <3> QED
      BY <1>1, <2>1, <2>3, <2>4, <3>1, <3>3 DEF NextVersion
  <2>5. CASE ctx[r].phase # "up" /\ ledger > ctx[r].goal
    <3>1. ledger \in Versions
      BY <1>0, <2>5 DEF Versions, Ctx
    <3>2. ctx[r].offDown \in [Versions -> Nat]
      BY <1>0 DEF Ctx
    <3>3. ctx[r].offDown[ledger] \in Nat
      BY <3>1, <3>2
    <3> QED
      BY <1>1, <2>1, <2>3, <2>5, <3>1, <3>3 DEF NextVersion
  <2> QED
    BY <1>1, <2>2, <2>4, <2>5 DEF NextVersion
<1>2. CASE StampLedger(r)
  <2>1. ctx[r].goal \in 0..NV
    BY <1>0 DEF Ctx
  <2>2. declared' \in BOOLEAN
    BY <1>2 DEF StampLedger, Shared
  <2>3. Shared'
    BY <1>2, <2>1, <2>2 DEF StampLedger, Shared, progress, inventory
  <2> QED
    BY <1>2, <2>3, <1>c DEF StampLedger, PC
<1>3. CASE ExecStatement(r)
  <2>1. PICK i \in Frontier(ctx[r]) :
          IF Transactional
          THEN ctx' = [ctx EXCEPT ![r].pos = After(ctx[r], i)] /\ UNCHANGED <<phys, pc>>
          ELSE phys' = Effect(ctx[r], i) /\ Goto(r, "ack") /\ UNCHANGED ctx
    BY <1>3 DEF ExecStatement
  <2>2. i \in 1..Size[ctx[r].cur] /\ After(ctx[r], i) \in Nat /\ ctx[r].cur \in Versions
    BY <1>0, <1>3, <1>a, FrontierTypes DEF ExecStatement
  <2>3. Effect(ctx[r], i) \subseteq Stmt
    BY <2>2 DEF Effect, Stmt, Shared
  <2>4. Shared'
    BY <1>3, <2>1, <2>3 DEF ExecStatement, Shared, progress, inventory, ghosts
  <2>5. CASE Transactional
    <3> DEFINE c == [ctx[r] EXCEPT !.pos = After(ctx[r], i)]
    <3>1. c \in Ctx /\ c.phase = ctx[r].phase /\ c.cur = ctx[r].cur
      BY <1>0, <2>2 DEF Ctx
    <3>2. ctx' = [ctx EXCEPT ![r] = c] /\ Goto(r, "stmt")
      BY <1>3, <2>1, <2>5 DEF Local, Goto, ExecStatement
    <3> HIDE DEF c
    <3> QED
      BY <1>3, <2>4, <3>1, <3>2, <1>b DEF ExecStatement, PC
  <2>6. CASE ~Transactional
    BY <1>3, <2>1, <2>4, <2>6, <1>c DEF ExecStatement, PC
  <2> QED
    BY <2>5, <2>6
<1>4. CASE RecordStatement(r)
  <2>1. PICK i \in Frontier(ctx[r]) :
          /\ ckUp' = IF ctx[r].cur \in Resumable /\ ctx[r].phase # "down"
                     THEN [ckUp EXCEPT ![ctx[r].cur] = After(ctx[r], i)] ELSE ckUp
          /\ ckDown' = IF ctx[r].cur \in Resumable /\ ctx[r].phase = "down"
                       THEN [ckDown EXCEPT ![ctx[r].cur] = After(ctx[r], i)] ELSE ckDown
          /\ ctx' = [ctx EXCEPT ![r].pos = After(ctx[r], i)]
    BY <1>4 DEF RecordStatement
  <2>2. After(ctx[r], i) \in Nat /\ ctx[r].cur \in Versions
    BY <1>0, <1>4, <1>a, FrontierTypes DEF RecordStatement
  <2>3. Shared'
    BY <1>4, <2>1, <2>2 DEF RecordStatement, Shared, target, inventory, ghosts
  <2> DEFINE c == [ctx[r] EXCEPT !.pos = After(ctx[r], i)]
  <2>4. c \in Ctx /\ c.phase = ctx[r].phase /\ c.cur = ctx[r].cur
    BY <1>0, <2>2 DEF Ctx
  <2>5. ctx' = [ctx EXCEPT ![r] = c]
    BY <2>1 DEF Local
  <2> HIDE DEF c
  <2> QED
    BY <1>4, <2>3, <2>4, <2>5, <1>b DEF RecordStatement, PC
<1>5. CASE LoseAck(r) \/ Fail(r)
  <2>1. Shared'
    BY <1>5, InFlightTyped DEF LoseAck, Fail, Shared, target, progress, inventory, ghosts
  <2> DEFINE c == [ctx[r] EXCEPT !.failed = TRUE]
  <2>2. c \in Ctx /\ c.phase = ctx[r].phase /\ c.cur = ctx[r].cur
    BY <1>0 DEF Ctx
  <2>3. ctx' = [ctx EXCEPT ![r] = c] /\ Goto(r, "unlock")
    BY <1>5 DEF LoseAck, Fail, Local
  <2> HIDE DEF c
  <2> QED
    BY <2>1, <2>2, <2>3, <1>b DEF PC
<1>6. CASE Commit(r)
  <2>1. ctx[r].cur \in Versions /\ pc[r] = "stmt"
    BY <1>6, <1>a DEF Commit
  <2>2. ledger' \in 0..NV
    BY <1>0, <1>6, <2>1 DEF Commit, Versions
  <2>3. phys' \subseteq Stmt
    BY <1>6 DEF Commit, Shared
  <2>4. Shared'
    BY <1>6, <2>2, <2>3 DEF Commit, Shared, progress, inventory, ghosts
  <2> QED
    BY <1>6, <2>1, <2>4, <1>c DEF Commit, PC
<1>7. CASE ClearProgress(r)
  <2>1. Shared'
    BY <1>7 DEF ClearProgress, Shared, target, inventory, ghosts
  <2> QED
    BY <1>7, <2>1, <1>c DEF ClearProgress, PC
<1>8. CASE UndoFinished(r)
  <2>1. Shared'
    BY <1>8 DEF UndoFinished, Shared, target, progress, inventory, ghosts
  <2> QED
    BY <1>8, <2>1, <1>c DEF UndoFinished, PC
<1>9. CASE ReleaseLock(r)
  <2>1. Shared'
    BY <1>9 DEF ReleaseLock, Shared, target, progress, inventory, ghosts
  <2> DEFINE c == [ctx[r] EXCEPT !.pos = 0, !.offUp = NoCtx.offUp, !.offDown = NoCtx.offDown]
             x == CASE ctx[r].op = "stamp" -> "sync" [] ctx[r].phase = "down" -> "read"
                    [] OTHER -> "settle"
  <2>2. c \in Ctx /\ c.phase = ctx[r].phase /\ c.cur = ctx[r].cur
    BY <1>0, NoCtxType DEF Ctx
  <2>3. ctx' = [ctx EXCEPT ![r] = c] /\ Goto(r, x)
    BY <1>9 DEF ReleaseLock, Local
  <2>4. x \in PC /\ x \notin {"stmt", "ack", "clear"}
    BY DEF PC
  <2> HIDE DEF c, x
  <2> QED
    BY <2>1, <2>2, <2>3, <2>4, <1>b
<1> QED
  BY <1>1, <1>2, <1>3, <1>4, <1>5, <1>6, <1>7, <1>8, <1>9

(* The steps after the lock, and the crash.                                *)
LEMMA TypeAfterRun ==
  ASSUME TypeInv, NEW r \in Requests,
         \/ SettleApply(r) \/ SettleUndo(r) \/ ReadVersion(r) \/ SetModelVersion(r)
         \/ SetQuarantine(r) \/ ForgetProgress(r) \/ Crash(r)
  PROVE  TypeInv'
<1> USE TypeParts, TypePartsPrime
<1>0. ctx[r] \in Ctx /\ ledger \in 0..NV
  BY DEF Local, Shared
<1>a. ASSUME NEW c \in Ctx, c.phase = ctx[r].phase, c.cur = ctx[r].cur, NEW x \in PC,
             x \notin {"stmt", "ack", "clear"},
             Goto(r, x), ctx' = [ctx EXCEPT ![r] = c]
      PROVE  Local'
  <2>1. Busy(x, c)
    BY <1>a DEF Busy, Local, Placed
  <2> QED
    BY <1>a, <2>1, MoveLocal
<1>b. ASSUME NEW x \in PC, x \notin {"stmt", "ack", "clear"}, Goto(r, x), UNCHANGED ctx
      PROVE  Local'
  <2>1. Busy(x, ctx[r])
    BY <1>b DEF Busy, Local, Placed
  <2> QED
    BY <1>b, <2>1, StayLocal
<1>1. CASE SettleApply(r)
  <2>1. Shared'
    BY <1>1 DEF SettleApply, Shared, target, progress, inventory, ghosts
  <2>2. CASE WantsUndo(ctx[r])
    <3> DEFINE k == ckUp[ctx[r].cur]
               c == [[[ctx[r] EXCEPT !.phase = "undo"] EXCEPT !.failed = FALSE] EXCEPT !.pos = k]
    <3>1. ctx[r].cur \in Versions /\ k \in Nat
      BY <2>2 DEF WantsUndo, IncompleteUp, Shared
    <3>2. c \in Ctx /\ c.cur = ctx[r].cur
      BY <1>0, <3>1 DEF Ctx
    <3>3. Busy("lock", c)
      BY <3>1, <3>2 DEF Busy
    <3>4. ctx' = [ctx EXCEPT ![r] = c] /\ Goto(r, "lock")
      BY <1>1, <2>2 DEF SettleApply, Local
    <3> HIDE DEF c
    <3> QED
      BY <2>1, <3>2, <3>3, <3>4, MoveLocal DEF PC
  <2>3. CASE ~WantsUndo(ctx[r])
    BY <1>1, <2>1, <2>3, <1>b DEF SettleApply, PC
  <2> QED
    BY <2>2, <2>3
<1>2. CASE SettleUndo(r)
  <2> DEFINE fully == ~ctx[r].failed /\ ckUp[ctx[r].cur] = 0
             c == [ctx[r] EXCEPT !.failed = ~fully]
  <2>1. c \in Ctx /\ c.phase = ctx[r].phase /\ c.cur = ctx[r].cur
    BY <1>0 DEF Ctx
  <2>2. quarantined' \in BOOLEAN
    BY <1>2 DEF SettleUndo, Shared
  <2>3. Shared'
    BY <1>2, <2>2 DEF SettleUndo, Shared, target, progress, ghosts
  <2>4. CASE ctx[r].op = "apply"
    <3>1. ctx' = [ctx EXCEPT ![r] = c] /\ Goto(r, "read")
      BY <1>2, <2>4 DEF SettleUndo, Local
    <3> HIDE DEF c
    <3> QED
      BY <2>1, <2>3, <3>1, <1>a DEF PC
  <2>5. CASE ctx[r].op # "apply"
    BY <1>2, <2>3, <2>5, FinishLocal DEF SettleUndo
  <2> QED
    BY <2>4, <2>5
<1>3. CASE ReadVersion(r)
  <2>1. Shared'
    BY <1>3 DEF ReadVersion, Shared, target, progress, inventory, ghosts
  <2> DEFINE c == [ctx[r] EXCEPT !.seen = ledger]
  <2>2. c \in Ctx /\ c.phase = ctx[r].phase /\ c.cur = ctx[r].cur
    BY <1>0 DEF Ctx
  <2>3. ctx' = [ctx EXCEPT ![r] = c] /\ Goto(r, "sync")
    BY <1>3 DEF ReadVersion, Local
  <2> HIDE DEF c
  <2> QED
    BY <2>1, <2>2, <2>3, <1>a DEF PC
<1>4. CASE SetModelVersion(r)
  <2>1. ctx[r].seen \in 0..NV
    BY <1>0 DEF Ctx
  <2>2. Shared'
    BY <1>4, <2>1 DEF SetModelVersion, Shared, target, progress, ghosts
  <2> QED
    BY <1>4, <2>2, <1>b DEF SetModelVersion, PC
<1>5. CASE SetQuarantine(r)
  <2>1. quarantined' \in BOOLEAN
    BY <1>0, <1>5 DEF SetQuarantine, Ctx
  <2>2. Shared'
    BY <1>5, <2>1 DEF SetQuarantine, Shared, target, progress, ghosts
  <2> QED
    BY <1>5, <2>2, <1>b, FinishLocal DEF SetQuarantine, PC
<1>6. CASE ForgetProgress(r)
  <2>1. Shared'
    BY <1>6 DEF ForgetProgress, Shared, target, inventory, ghosts
  <2> QED
    BY <1>6, <2>1, FinishLocal DEF ForgetProgress
<1>7. CASE Crash(r)
  <2>1. Shared'
    BY <1>7, InFlightTyped DEF Crash, Shared, target, progress, inventory
  <2> QED
    BY <1>7, <2>1, FinishLocal DEF Crash
<1> QED
  BY <1>1, <1>2, <1>3, <1>4, <1>5, <1>6, <1>7

LEMMA TypeStutter == TypeInv /\ UNCHANGED vars => TypeInv'
BY DEF TypeInv, TypeOK, Placed, vars

LEMMA TypeStep == TypeInv /\ [Next]_vars => TypeInv'
<1> SUFFICES ASSUME TypeInv, Next PROVE TypeInv'
  BY TypeStutter
<1>1. PICK r \in Requests : Begin(r) \/ Step(r) \/ Crash(r)
  BY DEF Next
<1> QED
  BY <1>1, TypeBegin, TypeBeforeLock, TypeUnderLock, TypeAfterRun DEF Step

(* Every reachable state is typed.                                         *)
THEOREM TypeCorrect == Spec => []TypeOK
<1>1. TypeInv => TypeOK
  BY DEF TypeInv
<1> QED
  BY <1>1, TypeInit, TypeStep, PTL DEF Spec

-----------------------------------------------------------------------------
(* Mutual exclusion under the advisory lock, with requests that crash at   *)
(* any point.  Inductive as it stands, given the types.                    *)
LEMMA HolderStep ==
  ASSUME TypeInv, HolderRuns, [Next]_vars
  PROVE  HolderRuns'
<1>0. pc \in [Requests -> PC] /\ NoOne \notin Requests
  BY RequestsAssumption DEF TypeInv, TypeOK
<1>1. CASE UNCHANGED vars
  BY <1>1 DEF HolderRuns, vars
<1>2. CASE Next
  <2>1. PICK r \in Requests : Begin(r) \/ Step(r) \/ Crash(r)
    BY <1>2 DEF Next
  <2>2. CASE Begin(r)
    BY <1>0, <2>2 DEF Begin, BeginApply, BeginRollback, BeginStamp, BeginReconcile,
         HolderRuns, Critical, Goto
  <2>3. CASE Guard(r) \/ Refuse(r) \/ WriteRevisionFiles(r)
    BY <1>0, <2>3 DEF Guard, Refuse, WriteRevisionFiles, Finish, HolderRuns, Critical, Goto
  <2>4. CASE AcquireLock(r)
    BY <1>0, <2>4 DEF AcquireLock, HolderRuns, Critical, Goto
  <2>5. CASE \/ NextVersion(r) \/ StampLedger(r) \/ ExecStatement(r) \/ RecordStatement(r)
             \/ LoseAck(r) \/ Fail(r) \/ Commit(r) \/ ClearProgress(r) \/ UndoFinished(r)
    <3>1. pc[r] \in Critical /\ lock' = lock
      BY <2>5 DEF NextVersion, StampLedger, ExecStatement, RecordStatement, LoseAck, Fail,
           Commit, ClearProgress, UndoFinished, Critical
    <3>2. \A q \in Requests : q # r => pc'[q] = pc[q]
      BY <1>0, <2>5 DEF NextVersion, StampLedger, ExecStatement, RecordStatement, LoseAck, Fail,
           Commit, ClearProgress, UndoFinished, Goto
    <3> QED
      BY <3>1, <3>2 DEF HolderRuns
  <2>6. CASE ReleaseLock(r)
    <3>1. lock = r /\ pc'[r] \notin Critical
      BY <1>0, <2>6 DEF ReleaseLock, HolderRuns, Critical, Goto
    <3> QED
      BY <1>0, <2>6, <3>1 DEF ReleaseLock, HolderRuns, Goto
  <2>7. CASE SettleApply(r) \/ SettleUndo(r) \/ ReadVersion(r) \/ SetModelVersion(r)
             \/ SetQuarantine(r) \/ ForgetProgress(r)
    BY <1>0, <2>7 DEF SettleApply, SettleUndo, ReadVersion, SetModelVersion, SetQuarantine,
         ForgetProgress, Finish, HolderRuns, Critical, Goto
  <2>8. CASE Crash(r)
    BY <1>0, <2>8 DEF Crash, Finish, HolderRuns, Critical, Goto
  <2> QED
    BY <2>1, <2>2, <2>3, <2>4, <2>5, <2>6, <2>7, <2>8 DEF Step
<1> QED
  BY <1>1, <1>2

THEOREM MutualExclusion == Spec => []HolderRuns
<1>1. Init => HolderRuns
  BY DEF Init, HolderRuns, Critical
<1> QED
  BY <1>1, TypeInit, TypeStep, HolderStep, PTL DEF Spec

-----------------------------------------------------------------------------
(* The transactional runner (PostgreSQL).  With no checkpoint there is     *)
(* nothing to resume or to reconcile, so every version starts at its first *)
(* statement; the one a request is executing is next to the recorded one,  *)
(* and its first executed statement tells whether it is in the schema.     *)
NoProgress ==
  /\ \A v \in Versions : ckUp[v] = 0 /\ ckDown[v] = 0
  /\ \A r \in Requests :
       /\ pc[r] # "ack" /\ ctx[r].phase # "undo"
       /\ \A v \in Versions : ctx[r].offUp[v] = 0 /\ ctx[r].offDown[v] = 0
       /\ ctx[r].op = "stamp" => ctx[r].goal \in Versions
Whole(v) == {v} \X (1..Size[v]) \subseteq phys
Absent(v) == \A i \in Reversible(v) : <<v, i>> \notin phys
WholeVersions == \A v \in Versions : Whole(v) \/ Absent(v)
Executing ==
  \A r \in Requests : pc[r] = "stmt" =>
    /\ ctx[r].phase = "up" =>
         ctx[r].cur = ledger + 1 /\ (ctx[r].pos = 0 \/ <<ctx[r].cur, 1>> \notin phys)
    /\ ctx[r].phase = "down" =>
         ctx[r].cur = ledger /\ (ctx[r].pos = 0 \/ ~Absent(ctx[r].cur))
Truth == ~declared => Built = 1..ledger
ChainInv == NoProgress /\ WholeVersions /\ Executing /\ Truth

LEMMA ChainInit == Init => ChainInv
<1> SUFFICES ASSUME Init PROVE ChainInv
  OBVIOUS
<1>1. NoProgress
  BY NoCtxType DEF Init, NoProgress, NoCtx
<1>2. WholeVersions
  BY DEF Init, WholeVersions, Absent
<1>3. Executing
  BY DEF Init, Executing
<1>4. Built = {}
  <2>1. \A v \in Versions : <<v, 1>> \in {v} \X (1..Size[v])
    BY SizeAssumption
  <2> QED
    BY <2>1 DEF Init, Built
<1>5. 1..ledger = {}
  BY DEF Init
<1> QED
  BY <1>1, <1>2, <1>3, <1>4, <1>5 DEF ChainInv, Truth

(* What a commit does to the versions that are completely there.           *)
LEMMA CommitUp ==
  ASSUME TypeInv, NEW v \in Versions, phys' = phys \cup {s \in Stmt : s[1] = v}
  PROVE  Built' = Built \cup {v} /\ (WholeVersions => WholeVersions')
<1>1. \A w \in Versions : \A i \in 1..Size[w] :
        <<w, i>> \in phys' <=> (<<w, i>> \in phys \/ w = v)
  BY DEF Stmt
<1>2. \A w \in Versions : Whole(w)' <=> (Whole(w) \/ w = v)
  BY <1>1 DEF Whole
<1>3. Built' = Built \cup {v}
  BY <1>2 DEF Built, Whole
<1>4. \A w \in Versions : w # v /\ Absent(w) => Absent(w)'
  BY <1>1 DEF Absent, Reversible
<1> QED
  BY <1>2, <1>3, <1>4 DEF WholeVersions

LEMMA CommitDown ==
  ASSUME TypeInv, NEW v \in Versions, Reversible(v) # {},
         phys' = phys \ {s \in HasDown : s[1] = v}
  PROVE  Built' = Built \ {v} /\ (WholeVersions => WholeVersions')
<1>1. ASSUME NEW w \in Versions, NEW i \in 1..Size[w]
      PROVE  <<w, i>> \in phys' <=> (<<w, i>> \in phys /\ ~(w = v /\ i \in Reversible(v)))
  <2>1. <<w, i>> \in {s \in HasDown : s[1] = v} <=> (<<w, i>> \in HasDown /\ w = v)
    OBVIOUS
  <2>2. w = v => (i \in Reversible(v) <=> <<w, i>> \in HasDown)
    BY DEF Reversible
  <2> QED
    BY <2>1, <2>2
<1>2. \A w \in Versions : Whole(w)' <=> (Whole(w) /\ w # v)
  <2>1. PICK k \in Reversible(v) : TRUE
    OBVIOUS
  <2>2. ~Whole(v)'
    BY <1>1, <2>1 DEF Whole, Reversible
  <2>3. \A w \in Versions : w # v => (Whole(w)' <=> Whole(w))
    BY <1>1 DEF Whole
  <2> QED
    BY <2>2, <2>3
<1>3. Built' = Built \ {v}
  BY <1>2 DEF Built, Whole
<1>4. \A w \in Versions : (w = v \/ Absent(w)) => Absent(w)'
  BY <1>1 DEF Absent, Reversible
<1> QED
  BY <1>2, <1>3, <1>4 DEF WholeVersions

(* A step of r touches nobody else's progress.                             *)
LEMMA StepFrame ==
  ASSUME TypeInv, NEW r \in Requests, Begin(r) \/ Step(r) \/ Crash(r)
  PROVE  \A q \in Requests \ {r} : pc'[q] = pc[q] /\ ctx'[q] = ctx[q]
<1>0. pc \in [Requests -> PC] /\ ctx \in [Requests -> Ctx]
  BY DEF TypeInv, TypeOK
<1>1. CASE Begin(r)
  BY <1>0, <1>1 DEF Begin, BeginApply, BeginRollback, BeginStamp, BeginReconcile, Goto
<1>2. CASE Step(r)
  BY <1>0, <1>2 DEF Step, Guard, Refuse, WriteRevisionFiles, AcquireLock, NextVersion,
       StampLedger, ExecStatement, RecordStatement, LoseAck, Fail, Commit, ClearProgress,
       UndoFinished, ReleaseLock, SettleApply, SettleUndo, ReadVersion, SetModelVersion,
       SetQuarantine, ForgetProgress, Goto, Finish
<1>3. CASE Crash(r)
  BY <1>0, <1>3 DEF Crash, Goto, Finish
<1> QED
  BY <1>1, <1>2, <1>3

(* NoProgress, one action at a time.                                       *)
LEMMA NoProgressStep ==
  ASSUME Transactional, TypeInv, NoProgress, NEW r \in Requests,
         Begin(r) \/ Step(r) \/ Crash(r)
  PROVE  NoProgress'
<1> DEFINE Fine(c) ==
      /\ c.phase # "undo"
      /\ \A v \in Versions : c.offUp[v] = 0 /\ c.offDown[v] = 0
      /\ c.op = "stamp" => c.goal \in Versions
<1>0. pc \in [Requests -> PC] /\ ctx \in [Requests -> Ctx] /\ ctx[r] \in Ctx
  BY DEF TypeInv, TypeOK
<1>1. IncompleteUp = {} /\ IncompleteDown = {}
  BY DEF NoProgress, IncompleteUp, IncompleteDown
<1>2. Fine(ctx[r]) /\ pc[r] # "ack"
  BY DEF NoProgress
<1>3. Fine(NoCtx)
  BY DEF NoCtx
<1>4. ASSUME NEW v \in Versions
      PROVE  ckUp'[v] = 0 /\ ckDown'[v] = 0
  <2>1. CASE ForgetProgress(r)
    BY <2>1 DEF ForgetProgress
  <2>2. CASE ClearProgress(r)
    BY <2>2 DEF ClearProgress, NoProgress, TypeInv, TypeOK
  <2>3. CASE ~ForgetProgress(r) /\ ~ClearProgress(r)
    <3>1. UNCHANGED <<ckUp, ckDown>>
      BY <1>2, <2>3 DEF Begin, BeginApply, BeginRollback, BeginStamp, BeginReconcile, Step, Guard,
           Refuse, WriteRevisionFiles, AcquireLock, NextVersion, StampLedger, ExecStatement,
           RecordStatement, LoseAck, Fail, Commit, UndoFinished, ReleaseLock, SettleApply,
           SettleUndo, ReadVersion, SetModelVersion, SetQuarantine, Crash, progress
    <3> QED
      BY <3>1 DEF NoProgress
  <2> QED
    BY <2>1, <2>2, <2>3
<1>5. pc'[r] # "ack"
  BY <1>0, <1>2 DEF Begin, BeginApply, BeginRollback, BeginStamp, BeginReconcile, Step, Guard,
       Refuse, WriteRevisionFiles, AcquireLock, NextVersion, StampLedger, ExecStatement,
       RecordStatement, LoseAck, Fail, Commit, ClearProgress, UndoFinished, ReleaseLock,
       SettleApply, SettleUndo, ReadVersion, SetModelVersion, SetQuarantine, ForgetProgress,
       Crash, Goto, Finish
<1>6. Fine(ctx'[r])
  <2>1. CASE BeginApply(r)
    BY <1>0, <1>3, <2>1, NoCtxType DEF BeginApply, Ctx
  <2>2. CASE BeginRollback(r)
    BY <1>0, <1>3, <2>2, NoCtxType DEF BeginRollback, Ctx
  <2>3. CASE BeginStamp(r)
    BY <1>0, <1>3, <2>3, NoCtxType DEF BeginStamp, Ctx
  <2>4. CASE BeginReconcile(r)
    BY <1>1, <2>4 DEF BeginReconcile
  <2>5. CASE Guard(r)
    <3>1. /\ ctx'[r].op = ctx[r].op /\ ctx[r].op # "stamp" /\ ctx'[r].phase = ctx[r].phase
          /\ ctx'[r].offUp = ctx[r].offUp /\ ctx'[r].offDown = ctx[r].offDown
      BY <1>0, <2>5 DEF Guard, Ctx
    <3> QED
      BY <1>2, <3>1
  <2>6. CASE WriteRevisionFiles(r)
    <3>1. \A v \in Versions : OffsetUp(v) = 0 /\ OffsetDown(v) = 0
      BY DEF OffsetUp, OffsetDown
    <3> QED
      BY <1>0, <1>2, <2>6, <3>1 DEF WriteRevisionFiles, Ctx
  <2>7. CASE \/ AcquireLock(r) \/ StampLedger(r) \/ Commit(r) \/ ClearProgress(r)
             \/ UndoFinished(r) \/ SetModelVersion(r)
    BY <1>2, <2>7 DEF AcquireLock, StampLedger, Commit, ClearProgress, UndoFinished,
         SetModelVersion
  <2>8. CASE Refuse(r) \/ ForgetProgress(r) \/ Crash(r)
    BY <1>0, <1>3, <2>8 DEF Refuse, ForgetProgress, Crash, Finish
  <2>9. CASE NextVersion(r)
    BY <1>0, <1>2, <2>9 DEF NextVersion, Ctx
  <2>10. CASE ExecStatement(r) \/ RecordStatement(r)
    BY <1>0, <1>2, <2>10 DEF ExecStatement, RecordStatement, Ctx
  <2>11. CASE LoseAck(r) \/ Fail(r) \/ ReadVersion(r)
    <3>1. CASE LoseAck(r) \/ Fail(r)
      BY <1>0, <1>2, <3>1 DEF LoseAck, Fail, Ctx
    <3>2. CASE ReadVersion(r)
      BY <1>0, <1>2, <3>2 DEF ReadVersion, Ctx
    <3> QED
      BY <2>11, <3>1, <3>2
  <2>12. CASE ReleaseLock(r)
    BY <1>0, <1>2, <1>3, <2>12, NoCtxType DEF ReleaseLock, Ctx
  <2>13. CASE SettleApply(r)
    BY <1>1, <1>2, <2>13 DEF SettleApply, WantsUndo
  <2>14. CASE SettleUndo(r)
    BY <1>2, <2>14 DEF SettleUndo
  <2>15. CASE SetQuarantine(r)
    BY <1>0, <1>2, <1>3, <2>15 DEF SetQuarantine, Finish
  <2> QED
    BY <2>1, <2>2, <2>3, <2>4, <2>5, <2>6, <2>7, <2>8, <2>9, <2>10, <2>11, <2>12, <2>13,
       <2>14, <2>15 DEF Begin, Step
<1> QED
  BY <1>4, <1>5, <1>6, StepFrame DEF NoProgress

(* The steps that leave the database alone and do not enter a version.     *)
LEMMA QuietStep ==
  ASSUME Executing, WholeVersions, Truth, NEW r \in Requests,
         UNCHANGED <<phys, ledger, declared>>, pc'[r] # "stmt",
         \A q \in Requests \ {r} : pc'[q] = pc[q] /\ ctx'[q] = ctx[q]
  PROVE  Executing' /\ WholeVersions' /\ Truth'
<1>1. Executing'
  BY DEF Executing, Absent
<1>2. WholeVersions' /\ Truth'
  BY DEF WholeVersions, Whole, Absent, Truth, Built
<1> QED
  BY <1>1, <1>2

LEMMA ExecutingStep ==
  ASSUME Transactional, TypeInv, HolderRuns, ChainInv, NEW r \in Requests,
         ExecStatement(r) \/ NextVersion(r)
  PROVE  Executing' /\ WholeVersions' /\ Truth'
<1>0. ctx \in [Requests -> Ctx] /\ ctx[r] \in Ctx /\ pc \in [Requests -> PC] /\ ledger \in 0..NV
      /\ NV \in Nat
  BY SizeAssumption DEF TypeInv, TypeOK
<1>1. UNCHANGED <<phys, ledger, declared>>
  BY DEF ExecStatement, NextVersion, target, ghosts
<1>2. WholeVersions' /\ Truth'
  BY <1>1 DEF ChainInv, WholeVersions, Whole, Absent, Truth, Built
<1>3. \A q \in Requests \ {r} : pc'[q] = pc[q] /\ ctx'[q] = ctx[q]
  BY StepFrame DEF Step
<1>4. CASE NextVersion(r)
  <2>1. pc'[r] = "stmt" =>
          /\ ctx'[r].phase = ctx[r].phase /\ ctx'[r].pos = 0
          /\ ctx[r].phase = "up" => ctx'[r].cur = ledger + 1
          /\ ctx[r].phase = "down" => ctx'[r].cur = ledger
    <3>1. CASE ctx[r].phase = "up" /\ ledger < ctx[r].goal
      <4>1. ledger + 1 \in Versions
        BY <1>0, <3>1 DEF Ctx, Versions
      <4>2. ctx[r].offUp[ledger + 1] = 0
        BY <4>1 DEF ChainInv, NoProgress
      <4>3. ctx' = [ctx EXCEPT ![r].cur = ledger + 1, ![r].pos = 0]
        BY <1>4, <3>1, <4>2 DEF NextVersion
      <4>4. /\ ctx'[r].phase = ctx[r].phase /\ ctx'[r].pos = 0
            /\ ctx'[r].cur = ledger + 1
        BY <1>0, <4>3 DEF Ctx
      <4> QED
        BY <3>1, <4>4
    <3>2. CASE ctx[r].phase # "up" /\ ledger > ctx[r].goal
      <4>1. ledger \in Versions
        BY <1>0, <3>2 DEF Ctx, Versions
      <4>2. ctx[r].offDown[ledger] = 0
        BY <4>1 DEF ChainInv, NoProgress
      <4>3. ctx' = [ctx EXCEPT ![r].cur = ledger, ![r].pos = 0]
        BY <1>4, <3>2, <4>2 DEF NextVersion
      <4>4. /\ ctx'[r].phase = ctx[r].phase /\ ctx'[r].pos = 0
            /\ ctx'[r].cur = ledger
        BY <1>0, <4>3 DEF Ctx
      <4> QED
        BY <3>2, <4>4
    <3> QED
      BY <1>0, <1>4, <3>1, <3>2 DEF NextVersion, Goto
  <2> QED
    BY <1>1, <1>2, <1>3, <2>1 DEF Executing, ChainInv, Absent
<1>5. CASE ExecStatement(r)
  <2>1. PICK i \in Frontier(ctx[r]) :
          Applicable(ctx[r], i) /\ ctx' = [ctx EXCEPT ![r].pos = After(ctx[r], i)]
          /\ UNCHANGED <<phys, pc>>
    BY <1>5 DEF ExecStatement
  <2>2. /\ pc[r] = "stmt" /\ ctx'[r].phase = ctx[r].phase /\ ctx'[r].cur = ctx[r].cur
        /\ ctx'[r].pos = After(ctx[r], i)
        /\ ctx[r].cur \in Versions /\ Size[ctx[r].cur] \in Nat \ {0}
    BY <1>0, <1>5, <2>1, SizeAssumption DEF ExecStatement, Ctx, TypeInv, Placed
  <2>3. ctx[r].phase = "up" /\ ctx[r].pos = 0 => <<ctx[r].cur, 1>> \notin phys
    <3>1. SUFFICES ASSUME ctx[r].phase = "up", ctx[r].pos = 0 PROVE <<ctx[r].cur, 1>> \notin phys
      OBVIOUS
    <3>2. Left(ctx[r]) = 1..Size[ctx[r].cur]
      BY <2>2, <3>1 DEF Left
    <3>3. 1 \in Left(ctx[r]) /\ i \in 1..Size[ctx[r].cur] /\ i <= 1
      BY <2>2, <3>1, <3>2 DEF Frontier
    <3>4. i = 1
      BY <2>2, <3>3
    <3> QED
      BY <2>1, <3>1, <3>4 DEF Applicable
  <2>4. ctx[r].phase = "down" => ~Absent(ctx[r].cur)
    <3>1. SUFFICES ASSUME ctx[r].phase = "down" PROVE ~Absent(ctx[r].cur)
      OBVIOUS
    <3>2. i \in Reversible(ctx[r].cur)
      BY <3>1 DEF Frontier, Left
    <3> QED
      BY <2>1, <3>1, <3>2 DEF Applicable, Absent
  <2>5. Absent(ctx[r].cur)' <=> Absent(ctx[r].cur)
    BY <1>1, <2>2 DEF Absent
  <2> QED
    BY <1>1, <1>2, <1>3, <2>1, <2>2, <2>3, <2>4 DEF Executing, ChainInv, Absent
<1> QED
  BY <1>4, <1>5

(* What Commit and StampLedger do, seen from outside: steps of the chain. *)
LEMMA CommitStep ==
  ASSUME Transactional, TypeInv, HolderRuns, ChainInv, NEW r \in Requests, Commit(r)
  PROVE  /\ (Chain!Advance \/ Chain!Retreat)
         /\ Executing' /\ WholeVersions' /\ Truth'
<1>0. ctx[r] \in Ctx /\ pc \in [Requests -> PC] /\ ledger \in 0..NV /\ NV \in Nat
      /\ pc[r] = "stmt" /\ ctx[r].cur \in Versions /\ ctx[r].phase \in {"up", "down"}
      /\ Size[ctx[r].cur] \in Nat \ {0} /\ ctx[r].pos \in Nat
  BY SizeAssumption DEF TypeInv, TypeOK, Placed, Commit, Ctx
<1>1. Executing'
  <2>1. pc' = [pc EXCEPT ![r] = "clear"] /\ lock = r
    BY <1>0 DEF Commit, Goto, HolderRuns, Critical
  <2>2. \A q \in Requests : q # r => pc[q] # "stmt"
    BY <2>1 DEF HolderRuns, Critical
  <2> QED
    BY <1>0, <2>1, <2>2 DEF Executing
<1>2. CASE ctx[r].phase = "up"
  <2>1. ledger' = ctx[r].cur /\ phys' = phys \cup {s \in Stmt : s[1] = ctx[r].cur}
        /\ declared' = declared
    BY <1>2 DEF Commit, ghosts
  <2>2. Built' = Built \cup {ctx[r].cur} /\ WholeVersions'
    BY <1>0, <2>1, CommitUp DEF ChainInv
  <2>3. ctx[r].cur = ledger + 1
    BY <1>0, <1>2 DEF ChainInv, Executing
  <2>4. ctx[r].cur \notin Built
    <3>1. Left(ctx[r]) = {}
      BY DEF Commit
    <3>2. ctx[r].pos # 0
      <4>1. SUFFICES ASSUME ctx[r].pos = 0 PROVE FALSE
        OBVIOUS
      <4>2. 1 \in Left(ctx[r])
        BY <1>0, <1>2, <4>1 DEF Left
      <4> QED
        BY <3>1, <4>2
    <3>3. <<ctx[r].cur, 1>> \notin phys
      BY <1>0, <1>2, <3>2 DEF ChainInv, Executing
    <3>4. <<ctx[r].cur, 1>> \in {ctx[r].cur} \X (1..Size[ctx[r].cur])
      BY <1>0
    <3> QED
      BY <3>3, <3>4 DEF Built
  <2>5. Chain!Advance
    BY <1>0, <2>1, <2>2, <2>3, <2>4 DEF Chain!Advance, Versions
  <2>6. Truth'
    <3>1. ~declared => Built = 1..ledger
      BY DEF ChainInv, Truth
    <3>2. (1..ledger) \cup {ledger + 1} = 1..(ledger + 1)
      BY <1>0
    <3> QED
      BY <2>1, <2>2, <2>3, <3>1, <3>2 DEF Truth
  <2> QED
    BY <1>1, <2>2, <2>5, <2>6
<1>3. CASE ctx[r].phase = "down"
  <2>1. ledger' = ctx[r].cur - 1 /\ phys' = phys \ {s \in HasDown : s[1] = ctx[r].cur}
        /\ declared' = declared
    BY <1>3 DEF Commit, ghosts
  <2>2. Reversible(ctx[r].cur) # {}
    BY <1>3 DEF Commit
  <2>3. Built' = Built \ {ctx[r].cur} /\ WholeVersions'
    BY <1>0, <2>1, <2>2, CommitDown DEF ChainInv
  <2>4. ctx[r].cur = ledger
    BY <1>0, <1>3 DEF ChainInv, Executing
  <2>5. ctx[r].cur \in Built
    <3>1. Left(ctx[r]) = {}
      BY DEF Commit
    <3>2. ctx[r].pos # 0
      <4>1. SUFFICES ASSUME ctx[r].pos = 0 PROVE FALSE
        OBVIOUS
      <4>2. PICK k \in Reversible(ctx[r].cur) : TRUE
        BY <2>2
      <4>3. Rank(ctx[r].cur, k) > 0
        BY <1>0, <4>2, RankPositive
      <4>4. k \in Left(ctx[r])
        BY <1>3, <4>1, <4>2, <4>3 DEF Left
      <4> QED
        BY <3>1, <4>4
    <3>3. ~Absent(ctx[r].cur)
      BY <1>0, <1>3, <3>2 DEF ChainInv, Executing
    <3>4. Whole(ctx[r].cur)
      BY <1>0, <3>3 DEF ChainInv, WholeVersions
    <3> QED
      BY <1>0, <3>4 DEF Built, Whole
  <2>6. Chain!Retreat
    BY <1>0, <2>1, <2>3, <2>4, <2>5 DEF Chain!Retreat, Versions
  <2>7. Truth'
    <3>1. ~declared => Built = 1..ledger
      BY DEF ChainInv, Truth
    <3>2. (1..ledger) \ {ledger} = 1..(ledger - 1)
      BY <1>0
    <3> QED
      BY <2>1, <2>3, <2>4, <3>1, <3>2 DEF Truth
  <2> QED
    BY <1>1, <2>3, <2>6, <2>7
<1> QED
  BY <1>0, <1>2, <1>3

LEMMA StampStep ==
  ASSUME TypeInv, HolderRuns, ChainInv, NEW r \in Requests, StampLedger(r)
  PROVE  /\ Chain!Declare
         /\ Executing' /\ WholeVersions' /\ Truth'
<1>0. pc \in [Requests -> PC] /\ pc[r] = "run" /\ phys' = phys /\ ctx' = ctx
  BY DEF TypeInv, TypeOK, StampLedger
<1>1. Built' = Built
  BY <1>0 DEF Built
<1>2. Chain!Declare
  BY <1>1 DEF Chain!Declare, StampLedger, ChainInv, NoProgress, Versions
<1>3. Executing'
  <2>1. pc' = [pc EXCEPT ![r] = "unlock"] /\ lock = r
    BY <1>0 DEF StampLedger, Goto, HolderRuns, Critical
  <2>2. \A q \in Requests : q # r => pc[q] # "stmt"
    BY <2>1 DEF HolderRuns, Critical
  <2> QED
    BY <1>0, <2>1, <2>2 DEF Executing
<1>4. WholeVersions'
  BY <1>0 DEF ChainInv, WholeVersions, Whole, Absent
<1>5. Truth'
  <2>1. ~declared' => ~declared /\ ledger' = ledger
    BY DEF StampLedger
  <2> QED
    BY <1>1, <2>1 DEF ChainInv, Truth
<1> QED
  BY <1>2, <1>3, <1>4, <1>5

(* Every other step leaves the database as it is.                          *)
LEMMA OtherStep ==
  ASSUME Transactional, TypeInv, HolderRuns, ChainInv, NEW r \in Requests,
         Begin(r) \/ Step(r) \/ Crash(r), ~Commit(r), ~StampLedger(r)
  PROVE  UNCHANGED <<phys, ledger>> /\ Executing' /\ WholeVersions' /\ Truth'
<1>0. pc \in [Requests -> PC] /\ ctx[r].phase # "undo" /\ pc[r] # "ack"
      /\ Executing /\ WholeVersions /\ Truth
  BY DEF TypeInv, TypeOK, ChainInv, NoProgress
<1>1. UNCHANGED <<phys, ledger, declared>>
  BY <1>0 DEF Begin, BeginApply, BeginRollback, BeginStamp, BeginReconcile, Step, Guard,
       Refuse, WriteRevisionFiles, AcquireLock, NextVersion, ExecStatement,
       RecordStatement, LoseAck, Fail, ClearProgress, UndoFinished, ReleaseLock, SettleApply,
       SettleUndo, ReadVersion, SetModelVersion, SetQuarantine, ForgetProgress, Crash,
       target, ghosts
<1>2. CASE ExecStatement(r) \/ NextVersion(r)
  BY <1>1, <1>2, ExecutingStep
<1>3. CASE ~ExecStatement(r) /\ ~NextVersion(r)
  <2>0. IncompleteUp = {}
    BY DEF ChainInv, NoProgress, IncompleteUp
  <2>1. pc'[r] # "stmt"
    BY <1>0, <1>3, <2>0 DEF Begin, BeginApply, BeginRollback, BeginStamp, BeginReconcile, Step,
         Guard, Refuse, WriteRevisionFiles, AcquireLock, RecordStatement, LoseAck, Fail,
         ClearProgress, UndoFinished, ReleaseLock, SettleApply, SettleUndo, ReadVersion,
         SetModelVersion, SetQuarantine, ForgetProgress, Crash, Goto, Finish
  <2> QED
    BY <1>0, <1>1, <2>1, StepFrame, QuietStep
<1> QED
  BY <1>1, <1>2, <1>3

LEMMA ChainStep ==
  ASSUME Transactional, TypeInv, HolderRuns, ChainInv, [Next]_vars
  PROVE  ChainInv' /\ [Chain!Next]_<<ledger, Built>>
<1>1. CASE UNCHANGED vars
  BY <1>1 DEF vars, ChainInv, NoProgress, Executing, WholeVersions, Whole, Absent, Truth, Built
<1>2. CASE Next
  <2>1. PICK r \in Requests : Begin(r) \/ Step(r) \/ Crash(r)
    BY <1>2 DEF Next
  <2>2. NoProgress'
    BY <2>1, NoProgressStep DEF ChainInv
  <2>3. CASE Commit(r)
    BY <2>2, <2>3, CommitStep DEF ChainInv, Chain!Next
  <2>4. CASE StampLedger(r)
    BY <2>2, <2>4, StampStep DEF ChainInv, Chain!Next
  <2>5. CASE ~Commit(r) /\ ~StampLedger(r)
    <3>1. UNCHANGED <<phys, ledger>> /\ Executing' /\ WholeVersions' /\ Truth'
      BY <2>1, <2>5, OtherStep
    <3>2. Built' = Built
      BY <3>1 DEF Built
    <3> QED
      BY <2>2, <3>1, <3>2 DEF ChainInv
  <2> QED
    BY <2>3, <2>4, <2>5
<1> QED
  BY <1>1, <1>2

ChainInvIfTransactional == Transactional => ChainInv

LEMMA ChainInvariant == Spec => []ChainInvIfTransactional
<1>1. Init => TypeInv /\ HolderRuns /\ ChainInvIfTransactional
  BY TypeInit, ChainInit DEF Init, HolderRuns, Critical, ChainInvIfTransactional
<1>2. /\ TypeInv /\ HolderRuns /\ ChainInvIfTransactional
      /\ [Next]_vars
      => (TypeInv /\ HolderRuns /\ ChainInvIfTransactional)'
  <2> SUFFICES ASSUME TypeInv, HolderRuns, ChainInvIfTransactional, [Next]_vars
      PROVE  (TypeInv /\ HolderRuns /\ ChainInvIfTransactional)'
    OBVIOUS
  <2>1. TypeInv' /\ HolderRuns'
    BY TypeStep, HolderStep
  <2>2. ChainInvIfTransactional'
    BY ChainStep DEF ChainInvIfTransactional
  <2> QED
    BY <2>1, <2>2
<1> QED
  BY <1>1, <1>2, PTL DEF Spec

(* With one transaction per version, until a stamp declares otherwise, the *)
(* version table says which versions the schema holds.                     *)
THEOREM LedgerTruthful == Spec => []LedgerIsTruth
<1>1. ChainInvIfTransactional => LedgerIsTruth
  BY DEF ChainInvIfTransactional, ChainInv, Truth, LedgerIsTruth
<1> QED
  BY <1>1, ChainInvariant, PTL

(* The transactional runner, with any number of concurrent requests, is a  *)
(* chain of whole versions.                                                *)
THEOREM RunnerIsChain == ASSUME Transactional PROVE Spec => ImplementsChain
<1>1. Init => Chain!Init
  <2> SUFFICES ASSUME Init PROVE Chain!Init
    OBVIOUS
  <2>1. ledger = 0 /\ Built = 1..ledger
    BY ChainInit DEF ChainInv, Truth, Init
  <2> QED
    BY <2>1 DEF Chain!Init
<1>2. TypeInv /\ HolderRuns /\ ChainInvIfTransactional /\ [Next]_vars
      => [Chain!Next]_<<ledger, Built>>
  BY ChainStep DEF ChainInvIfTransactional
<1>3. Spec => []TypeInv
  BY TypeInit, TypeStep, PTL DEF Spec
<1> QED
  BY <1>1, <1>2, <1>3, MutualExclusion, ChainInvariant, PTL DEF Spec, ImplementsChain, Chain!Spec

-----------------------------------------------------------------------------
(* From here on, the requests one action at a time: what a step of r does  *)
(* to its own context and where it goes.                                   *)
At(r, phase, places) == ctx[r].phase = phase /\ pc[r] \in places

Same(r) ==
  /\ ctx'[r].op = ctx[r].op /\ ctx'[r].phase = ctx[r].phase
  /\ ctx'[r].goal = ctx[r].goal /\ ctx'[r].seen = ctx[r].seen
  /\ ctx'[r].cur = ctx[r].cur /\ ctx'[r].force = ctx[r].force

LEMMA BeginFields ==
  ASSUME TypeInv, NEW r \in Requests, Begin(r)
  PROVE  \/ /\ pc'[r] = "guard" /\ ctx'[r].op = "apply" /\ ctx'[r].phase = "up"
            /\ IncompleteDown = {}
         \/ /\ pc'[r] = "guard" /\ ctx'[r].op = "rollback" /\ ctx'[r].phase = "down"
            /\ IncompleteUp = {}
         \/ /\ pc'[r] = "files" /\ ctx'[r].op = "stamp" /\ ctx'[r].phase = "none"
            /\ (IncompleteUp \cup IncompleteDown # {}) => ctx'[r].force
         \/ /\ pc'[r] = "lock" /\ ctx'[r].op = "reconcile" /\ ctx'[r].phase = "undo"
            /\ ctx'[r].cur \in IncompleteUp /\ ctx'[r].pos = ckUp[ctx'[r].cur]
<1>0. pc \in [Requests -> PC] /\ ctx \in [Requests -> Ctx] /\ NoCtx \in Ctx
  BY NoCtxType DEF TypeInv, TypeOK
<1>1. CASE BeginApply(r)
  BY <1>0, <1>1 DEF BeginApply, Goto, Ctx
<1>2. CASE BeginRollback(r)
  BY <1>0, <1>2 DEF BeginRollback, Goto, Ctx
<1>3. CASE BeginStamp(r)
  BY <1>0, <1>3 DEF BeginStamp, Goto, Ctx
<1>4. CASE BeginReconcile(r)
  BY <1>0, <1>4 DEF BeginReconcile, Goto, Ctx
<1> QED
  BY <1>1, <1>2, <1>3, <1>4 DEF Begin

LEMMA GuardFields ==
  ASSUME TypeInv, NEW r \in Requests, Guard(r)
  PROVE  /\ pc[r] = "guard" /\ pc'[r] = "files"
         /\ ctx'[r].op = ctx[r].op /\ ctx'[r].phase = ctx[r].phase
         /\ ctx'[r].force = ctx[r].force /\ ctx'[r].seen = ledger
         /\ \/ /\ ctx[r].op = "apply" /\ ctx'[r].goal = ctx[r].goal
               /\ EnvBlocks => \A v \in Destructive : v <= ledger \/ v > ctx[r].goal
            \/ ctx[r].op = "rollback" /\ ctx'[r].goal < ledger
<1>0. pc \in [Requests -> PC] /\ ctx \in [Requests -> Ctx] /\ ctx[r] \in Ctx
      /\ ledger \in 0..NV /\ Destructive \subseteq Versions /\ Versions = 1..NV /\ NV \in Nat
  BY ManifestAssumption, SizeAssumption DEF TypeInv, TypeOK, Versions
<1>1. pc[r] = "guard" /\ pc'[r] = "files"
  BY <1>0 DEF Guard, Goto
<1>2. ASSUME ctx[r].op = "apply", EnvBlocks => ~ \E v \in Destructive : ledger < v /\ v <= ctx[r].goal,
             ctx' = [ctx EXCEPT ![r].seen = ledger]
      PROVE  /\ ctx'[r].op = ctx[r].op /\ ctx'[r].phase = ctx[r].phase
             /\ ctx'[r].force = ctx[r].force /\ ctx'[r].seen = ledger
             /\ ctx'[r].goal = ctx[r].goal
             /\ EnvBlocks => \A v \in Destructive : v <= ledger \/ v > ctx[r].goal
  BY <1>0, <1>2 DEF Ctx
<1>3. ASSUME NEW dest \in 0..(ledger - 1),
             ctx' = [ctx EXCEPT ![r].seen = ledger, ![r].goal = dest]
      PROVE  /\ ctx'[r].op = ctx[r].op /\ ctx'[r].phase = ctx[r].phase
             /\ ctx'[r].force = ctx[r].force /\ ctx'[r].seen = ledger
             /\ ctx'[r].goal < ledger
  BY <1>0, <1>3 DEF Ctx
<1> QED
  BY <1>1, <1>2, <1>3 DEF Guard

(* The steps that only move on, and where they move.                       *)
LEMMA SameFields ==
  ASSUME TypeInv, NEW r \in Requests,
         \/ WriteRevisionFiles(r) \/ AcquireLock(r) \/ StampLedger(r) \/ ExecStatement(r)
         \/ RecordStatement(r) \/ LoseAck(r) \/ Fail(r) \/ Commit(r) \/ ClearProgress(r)
         \/ UndoFinished(r) \/ ReleaseLock(r) \/ SetModelVersion(r)
  PROVE  Same(r)
<1>0. ctx \in [Requests -> Ctx] /\ ctx[r] \in Ctx
  BY DEF TypeInv, TypeOK
<1>1. CASE \/ AcquireLock(r) \/ StampLedger(r) \/ Commit(r) \/ ClearProgress(r)
           \/ UndoFinished(r) \/ SetModelVersion(r)
  BY <1>1 DEF AcquireLock, StampLedger, Commit, ClearProgress, UndoFinished,
       SetModelVersion, Same
<1>2. CASE WriteRevisionFiles(r)
  BY <1>0, <1>2 DEF WriteRevisionFiles, Same, Ctx
<1>3. CASE ExecStatement(r)
  BY <1>0, <1>3 DEF ExecStatement, Same, Ctx
<1>4. CASE RecordStatement(r)
  BY <1>0, <1>4 DEF RecordStatement, Same, Ctx
<1>5. CASE LoseAck(r) \/ Fail(r)
  BY <1>0, <1>5 DEF LoseAck, Fail, Same, Ctx
<1>6. CASE ReleaseLock(r)
  BY <1>0, <1>6 DEF ReleaseLock, Same, Ctx
<1> QED
  BY <1>1, <1>2, <1>3, <1>4, <1>5, <1>6

LEMMA Moves ==
  ASSUME TypeInv, NEW r \in Requests
  PROVE  /\ WriteRevisionFiles(r) => pc[r] = "files" /\ pc'[r] = "lock"
         /\ AcquireLock(r) => pc[r] = "lock" /\ pc'[r] = IF ctx[r].phase = "undo" THEN "stmt" ELSE "run"
         /\ StampLedger(r) => pc[r] = "run" /\ pc'[r] = "unlock"
         /\ ExecStatement(r) => pc[r] = "stmt" /\ pc'[r] \in {"stmt", "ack"}
         /\ RecordStatement(r) => pc[r] = "ack" /\ pc'[r] = "stmt"
         /\ LoseAck(r) => pc[r] = "ack" /\ pc'[r] = "unlock"
         /\ Fail(r) => pc[r] \in {"stmt", "clear"} /\ pc'[r] = "unlock"
         /\ Commit(r) => pc[r] = "stmt" /\ ctx[r].phase \in {"up", "down"} /\ pc'[r] = "clear"
         /\ ClearProgress(r) => pc[r] = "clear" /\ pc'[r] = "run"
         /\ UndoFinished(r) => pc[r] = "stmt" /\ ctx[r].phase = "undo" /\ pc'[r] = "unlock"
         /\ ReleaseLock(r) => pc[r] = "unlock" /\ pc'[r] \in {"sync", "read", "settle"}
         /\ SetModelVersion(r) => pc[r] = "sync" /\ pc'[r] = "mark"
         /\ SetQuarantine(r) => pc[r] = "mark" /\ pc'[r] \in {"forget", "idle"}
         /\ ReadVersion(r) => pc[r] = "read" /\ pc'[r] = "sync"
         /\ SettleApply(r) => pc[r] = "settle" /\ ctx[r].phase = "up" /\ pc'[r] \in {"lock", "read"}
         /\ SettleUndo(r) => pc[r] = "settle" /\ ctx[r].phase = "undo" /\ pc'[r] \in {"read", "idle"}
<1>0. pc \in [Requests -> PC]
  BY DEF TypeInv, TypeOK
<1>1. WriteRevisionFiles(r) => pc[r] = "files" /\ pc'[r] = "lock"
  BY <1>0 DEF WriteRevisionFiles, Goto
<1>2. AcquireLock(r) => pc[r] = "lock" /\ pc'[r] = IF ctx[r].phase = "undo" THEN "stmt" ELSE "run"
  BY <1>0 DEF AcquireLock, Goto
<1>3. ExecStatement(r) => pc[r] = "stmt" /\ pc'[r] \in {"stmt", "ack"}
  BY <1>0 DEF ExecStatement, Goto
<1>4. /\ StampLedger(r) => pc[r] = "run" /\ pc'[r] = "unlock"
      /\ RecordStatement(r) => pc[r] = "ack" /\ pc'[r] = "stmt"
      /\ LoseAck(r) => pc[r] = "ack" /\ pc'[r] = "unlock"
      /\ Fail(r) => pc[r] \in {"stmt", "clear"} /\ pc'[r] = "unlock"
      /\ Commit(r) => pc[r] = "stmt" /\ ctx[r].phase \in {"up", "down"} /\ pc'[r] = "clear"
  BY <1>0 DEF StampLedger, RecordStatement, LoseAck, Fail, Commit, Goto
<1>5. /\ ClearProgress(r) => pc[r] = "clear" /\ pc'[r] = "run"
      /\ UndoFinished(r) => pc[r] = "stmt" /\ ctx[r].phase = "undo" /\ pc'[r] = "unlock"
      /\ SetModelVersion(r) => pc[r] = "sync" /\ pc'[r] = "mark"
      /\ ReadVersion(r) => pc[r] = "read" /\ pc'[r] = "sync"
  BY <1>0 DEF ClearProgress, UndoFinished, SetModelVersion, ReadVersion, Goto
<1>6. ReleaseLock(r) => pc[r] = "unlock" /\ pc'[r] \in {"sync", "read", "settle"}
  BY <1>0 DEF ReleaseLock, Goto
<1>7. /\ SetQuarantine(r) => pc[r] = "mark" /\ pc'[r] \in {"forget", "idle"}
      /\ SettleApply(r) => pc[r] = "settle" /\ ctx[r].phase = "up" /\ pc'[r] \in {"lock", "read"}
      /\ SettleUndo(r) => pc[r] = "settle" /\ ctx[r].phase = "undo" /\ pc'[r] \in {"read", "idle"}
  BY <1>0 DEF SetQuarantine, SettleApply, SettleUndo, Goto, Finish
<1> QED
  BY <1>1, <1>2, <1>3, <1>4, <1>5, <1>6, <1>7

(* The step that takes the next version from the ledger.                   *)
LEMMA NextFields ==
  ASSUME TypeInv, NEW r \in Requests, NextVersion(r)
  PROVE  /\ pc[r] = "run" /\ ctx[r].phase \in {"up", "down"}
         /\ ctx'[r].op = ctx[r].op /\ ctx'[r].phase = ctx[r].phase
         /\ ctx'[r].goal = ctx[r].goal /\ ctx'[r].seen = ctx[r].seen
         /\ ctx'[r].force = ctx[r].force
         /\ ctx'[r].offUp = ctx[r].offUp /\ ctx'[r].offDown = ctx[r].offDown
         /\ \/ pc'[r] = "unlock" /\ ctx'[r] = ctx[r]
            \/ /\ pc'[r] = "stmt" /\ ctx[r].phase = "up" /\ ledger < ctx[r].goal
               /\ ctx'[r].cur = ledger + 1 /\ ledger + 1 \in Versions
               /\ ctx'[r].pos = ctx[r].offUp[ledger + 1]
            \/ /\ pc'[r] = "stmt" /\ ctx[r].phase = "down" /\ ledger > ctx[r].goal
               /\ ctx'[r].cur = ledger /\ ledger \in Versions
               /\ ctx'[r].pos = ctx[r].offDown[ledger]
<1>0. pc \in [Requests -> PC] /\ ctx \in [Requests -> Ctx] /\ ctx[r] \in Ctx
      /\ ledger \in 0..NV /\ NV \in Nat /\ ctx[r].goal \in 0..NV
  BY SizeAssumption DEF TypeInv, TypeOK, Ctx
<1>1. pc[r] = "run" /\ ctx[r].phase \in {"up", "down"}
  BY DEF NextVersion
<1>2. CASE ctx[r].phase = "up" /\ ledger < ctx[r].goal
  <2>1. ctx' = [ctx EXCEPT ![r].cur = ledger + 1, ![r].pos = ctx[r].offUp[ledger + 1]]
        /\ pc' = [pc EXCEPT ![r] = "stmt"]
    BY <1>2 DEF NextVersion, Goto
  <2> QED
    BY <1>0, <1>1, <1>2, <2>1 DEF Ctx, Versions
<1>3. CASE ctx[r].phase # "up" /\ ledger > ctx[r].goal
  <2>1. ctx' = [ctx EXCEPT ![r].cur = ledger, ![r].pos = ctx[r].offDown[ledger]]
        /\ pc' = [pc EXCEPT ![r] = "stmt"]
    BY <1>3 DEF NextVersion, Goto
  <2> QED
    BY <1>0, <1>1, <1>3, <2>1 DEF Ctx, Versions
<1>4. CASE IF ctx[r].phase = "up" THEN ~(ledger < ctx[r].goal) ELSE ~(ledger > ctx[r].goal)
  BY <1>0, <1>1, <1>4 DEF NextVersion, Goto
<1> QED
  BY <1>2, <1>3, <1>4

-----------------------------------------------------------------------------
(* What a request may do follows from the operation it was asked for.      *)
Roles ==
  \A r \in Requests :
    /\ pc[r] = "run" => ctx[r].phase # "undo"
    /\ At(r, "none", PC \ {"idle"}) => ctx[r].op = "stamp"
    /\ At(r, "up", PC) => ctx[r].op = "apply"
    /\ At(r, "down", PC) => ctx[r].op = "rollback"
    /\ At(r, "undo", PC) =>
         /\ ctx[r].op \in {"apply", "reconcile"}
         /\ pc[r] \in {"lock", "stmt", "ack", "unlock", "settle", "read", "sync", "mark"}

(* Where the environment blocks destructive versions, the versions between *)
(* the one apply saw and its goal are vetted, and only those up to the     *)
(* goal are run.                                                           *)
Vetted ==
  \A r \in Requests :
    /\ At(r, "up", {"stmt", "ack"}) => ctx[r].cur <= ctx[r].goal
    /\ EnvBlocks /\ At(r, "up", {"files", "lock", "run", "stmt", "ack", "clear"}) =>
         \A v \in Destructive : v <= ctx[r].seen \/ v > ctx[r].goal

(* The steps of one request see only its own context.                      *)
RolesOf(x, c) ==
  /\ x = "run" => c.phase # "undo"
  /\ c.phase = "none" /\ x # "idle" => c.op = "stamp"
  /\ c.phase = "up" => c.op = "apply"
  /\ c.phase = "down" => c.op = "rollback"
  /\ c.phase = "undo" =>
       /\ c.op \in {"apply", "reconcile"}
       /\ x \in {"lock", "stmt", "ack", "unlock", "settle", "read", "sync", "mark"}
VettedOf(x, c) ==
  /\ c.phase = "up" /\ x \in {"stmt", "ack"} => c.cur <= c.goal
  /\ EnvBlocks /\ c.phase = "up" /\ x \in {"files", "lock", "run", "stmt", "ack", "clear"} =>
       \A v \in Destructive : v <= c.seen \/ v > c.goal

LEMMA OwnParts ==
  ASSUME pc \in [Requests -> PC]
  PROVE  /\ Roles <=> \A r \in Requests : RolesOf(pc[r], ctx[r])
         /\ Vetted <=> \A r \in Requests : VettedOf(pc[r], ctx[r])
<1>1. \A r \in Requests : pc[r] \in PC
  OBVIOUS
<1> QED
  BY <1>1 DEF Roles, RolesOf, Vetted, VettedOf, At

LEMMA RolesStep ==
  ASSUME TypeInv, NEW r \in Requests, RolesOf(pc[r], ctx[r]), Begin(r) \/ Step(r) \/ Crash(r)
  PROVE  RolesOf(pc'[r], ctx'[r])
<1>0. pc \in [Requests -> PC] /\ ctx \in [Requests -> Ctx] /\ ctx[r] \in Ctx
  BY DEF TypeInv, TypeOK
<1>1. RolesOf("idle", NoCtx)
  BY DEF RolesOf, NoCtx
<1>2. CASE Begin(r)
  BY <1>2, BeginFields DEF RolesOf
<1>3. CASE Guard(r)
  BY <1>3, GuardFields DEF RolesOf
<1>4. CASE NextVersion(r)
  BY <1>4, NextFields DEF RolesOf
<1>5. CASE \/ WriteRevisionFiles(r) \/ AcquireLock(r) \/ StampLedger(r) \/ ExecStatement(r)
           \/ RecordStatement(r) \/ LoseAck(r) \/ Fail(r) \/ Commit(r) \/ ClearProgress(r)
           \/ UndoFinished(r) \/ ReleaseLock(r) \/ SetModelVersion(r)
  <2>1. Same(r)
    BY <1>5, SameFields
  <2>2. CASE ClearProgress(r)
    BY <1>0, <2>1, <2>2, Moves DEF RolesOf, Same
  <2>3. CASE ReleaseLock(r)
    <3>1. pc'[r] = CASE ctx[r].op = "stamp" -> "sync"
                     [] ctx[r].phase = "down" -> "read" [] OTHER -> "settle"
      BY <1>0, <2>3 DEF ReleaseLock, Goto
    <3>2. ctx[r].phase = "undo" => pc'[r] = "settle"
      BY <3>1 DEF RolesOf
    <3> QED
      BY <2>1, <2>3, <3>2, Moves DEF RolesOf, Same
  <2> QED
    BY <1>5, <2>1, <2>2, <2>3, Moves DEF RolesOf, Same
<1>6. CASE SettleApply(r)
  <2>1. \/ pc'[r] = "read" /\ ctx'[r] = ctx[r]
        \/ pc'[r] = "lock" /\ ctx'[r].phase = "undo" /\ ctx'[r].op = ctx[r].op
    BY <1>0, <1>6 DEF SettleApply, Goto, Ctx
  <2> QED
    BY <1>6, <2>1, Moves DEF RolesOf
<1>7. CASE SettleUndo(r)
  <2>1. \/ pc'[r] = "idle" /\ ctx'[r] = NoCtx
        \/ pc'[r] = "read" /\ ctx'[r].phase = ctx[r].phase /\ ctx'[r].op = ctx[r].op
    BY <1>0, <1>7 DEF SettleUndo, Goto, Finish, Ctx
  <2> QED
    BY <1>1, <1>7, <2>1, Moves DEF RolesOf
<1>8. CASE ReadVersion(r)
  <2>1. ctx'[r].phase = ctx[r].phase /\ ctx'[r].op = ctx[r].op
    BY <1>0, <1>8 DEF ReadVersion, Ctx
  <2> QED
    BY <1>8, <2>1, Moves DEF RolesOf
<1>9. CASE SetQuarantine(r)
  <2>1. \/ pc'[r] = "idle" /\ ctx'[r] = NoCtx
        \/ pc'[r] = "forget" /\ ctx'[r] = ctx[r] /\ ctx[r].op = "stamp"
    BY <1>0, <1>9 DEF SetQuarantine, Goto, Finish
  <2> QED
    BY <1>1, <1>9, <2>1, Moves DEF RolesOf
<1>10. CASE Refuse(r) \/ ForgetProgress(r) \/ Crash(r)
  BY <1>0, <1>1, <1>10 DEF Refuse, ForgetProgress, Crash, Goto, Finish
<1> QED
  BY <1>2, <1>3, <1>4, <1>5, <1>6, <1>7, <1>8, <1>9, <1>10 DEF Step

LEMMA VettedStep ==
  ASSUME TypeInv, NEW r \in Requests, RolesOf(pc[r], ctx[r]), VettedOf(pc[r], ctx[r]),
         Begin(r) \/ Step(r) \/ Crash(r)
  PROVE  VettedOf(pc'[r], ctx'[r])
<1>0. pc \in [Requests -> PC] /\ ctx \in [Requests -> Ctx] /\ ctx[r] \in Ctx
      /\ ledger \in 0..NV /\ NV \in Nat /\ ctx[r].goal \in 0..NV
  BY SizeAssumption DEF TypeInv, TypeOK, Ctx
<1>1. CASE Begin(r)
  BY <1>1, BeginFields DEF VettedOf
<1>2. CASE Guard(r)
  BY <1>2, GuardFields DEF VettedOf, RolesOf
<1>3. CASE NextVersion(r)
  <2>1. pc'[r] = "stmt" /\ ctx'[r].phase = "up" => ctx'[r].cur <= ctx'[r].goal
    BY <1>0, <1>3, NextFields
  <2> QED
    BY <1>3, <2>1, NextFields DEF VettedOf
<1>4. CASE \/ WriteRevisionFiles(r) \/ AcquireLock(r) \/ StampLedger(r) \/ ExecStatement(r)
           \/ RecordStatement(r) \/ LoseAck(r) \/ Fail(r) \/ Commit(r) \/ ClearProgress(r)
           \/ UndoFinished(r) \/ ReleaseLock(r) \/ SetModelVersion(r)
  <2>1. Same(r)
    BY <1>4, SameFields
  <2>2. pc'[r] = "stmt" /\ ctx[r].phase = "up" => pc[r] \in {"stmt", "ack"}
    BY <1>4, Moves
  <2>3. pc'[r] = "ack" => pc[r] = "stmt"
    BY <1>4, Moves
  <2>4. pc'[r] \in {"files", "lock", "run", "stmt", "ack", "clear"} =>
          pc[r] \in {"files", "lock", "run", "stmt", "ack", "clear"}
    BY <1>4, Moves
  <2> QED
    BY <2>1, <2>2, <2>3, <2>4 DEF VettedOf, Same
<1>5. CASE SettleApply(r)
  <2>1. pc'[r] = "read" \/ ctx'[r].phase = "undo"
    BY <1>0, <1>5 DEF SettleApply, Goto, Ctx
  <2> QED
    BY <1>5, <2>1, Moves DEF VettedOf
<1>6. CASE \/ SettleUndo(r) \/ ReadVersion(r) \/ SetQuarantine(r) \/ Refuse(r)
           \/ ForgetProgress(r) \/ Crash(r)
  <2>1. pc'[r] \in {"read", "sync", "forget", "idle"}
    BY <1>0, <1>6, Moves DEF Refuse, ForgetProgress, Crash, Finish, Goto
  <2> QED
    BY <2>1 DEF VettedOf
<1> QED
  BY <1>1, <1>2, <1>3, <1>4, <1>5, <1>6 DEF Step

LEMMA OwnStep ==
  ASSUME TypeInv, Roles, Vetted, [Next]_vars
  PROVE  Roles' /\ Vetted'
<1>0. pc \in [Requests -> PC] /\ pc' \in [Requests -> PC]
  <2>1. TypeInv'
    BY TypeStep
  <2> QED
    BY <2>1 DEF TypeInv, TypeOK
<1>1. CASE UNCHANGED vars
  BY <1>1 DEF vars, Roles, Vetted, At
<1>2. CASE Next
  <2>1. PICK r \in Requests : Begin(r) \/ Step(r) \/ Crash(r)
    BY <1>2 DEF Next
  <2>2. \A q \in Requests : RolesOf(pc[q], ctx[q]) /\ VettedOf(pc[q], ctx[q])
    BY <1>0, OwnParts
  <2>3. \A q \in Requests : RolesOf(pc'[q], ctx'[q]) /\ VettedOf(pc'[q], ctx'[q])
    <3>1. RolesOf(pc'[r], ctx'[r]) /\ VettedOf(pc'[r], ctx'[r])
      BY <2>1, <2>2, RolesStep, VettedStep
    <3> QED
      BY <2>1, <2>2, <3>1, StepFrame
  <2>4. \A q \in Requests : pc'[q] \in PC
    BY <1>0
  <2> QED
    BY <2>3, <2>4 DEF Roles, RolesOf, Vetted, VettedOf, At
<1> QED
  BY <1>1, <1>2

LEMMA OwnInit == Init => Roles /\ Vetted
<1> SUFFICES ASSUME Init PROVE Roles /\ Vetted
  OBVIOUS
<1>1. \A r \in Requests : pc[r] = "idle" /\ ctx[r].phase = "none"
  BY NoCtxType DEF Init
<1> QED
  BY <1>1 DEF Roles, Vetted, At

(* However many requests move the database between a guard and the lock,   *)
(* and whatever fails, a version the environment forbids is not run        *)
(* forwards unless it was already recorded as applied when its apply       *)
(* looked: the guard covers everything up to the goal of the request, and  *)
(* the loop under the lock never passes that goal.                         *)
THEOREM DestructiveBlocked == Spec => []NoDestructiveUnderBlock
<1>1. TypeInv /\ Vetted => NoDestructiveUnderBlock
  <2> SUFFICES ASSUME TypeInv, Vetted, EnvBlocks, NEW r \in Requests,
                      pc[r] \in {"stmt", "ack"}, ctx[r].phase = "up", ctx[r].cur \in Destructive
      PROVE  ctx[r].cur <= ctx[r].seen
    BY DEF NoDestructiveUnderBlock
  <2>1. ctx[r].cur <= ctx[r].goal /\ (ctx[r].cur <= ctx[r].seen \/ ctx[r].cur > ctx[r].goal)
    BY DEF Vetted, At
  <2>2. ctx[r] \in Ctx /\ NV \in Nat
    BY SizeAssumption DEF TypeInv, TypeOK
  <2> QED
    BY <2>1, <2>2 DEF Ctx
<1> QED
  BY <1>1, TypeInit, TypeStep, OwnInit, OwnStep, PTL DEF Spec

-----------------------------------------------------------------------------
(* One request at a time: what the confirmations and the checkpoints mean  *)
(* when nobody else moves the database.  (With several, the two properties *)
(* about them do not hold, so the assumption is needed.)                   *)
Alone == \A q, r \in Requests : q = r

-----------------------------------------------------------------------------
(* A set of numbers has a least one.                                       *)
LEMMA LeastNatural ==
  ASSUME NEW S \in SUBSET Nat, S # {}
  PROVE  \E m \in S : \A j \in S : m <= j
<1>1. PICK m \in S : \A j \in S : <<j, m>> \notin OpToRel(<, Nat)
  BY NatLessThanWellFounded, WFMin
<1>2. \A j \in S : ~(j < m)
  BY <1>1 DEF OpToRel
<1> QED
  BY <1>2

(* The positions of a down list: its last entry, the smallest reversible   *)
(* index, has the length of the list as its rank.                          *)
LEMMA LastRank ==
  ASSUME NEW v \in Versions, Reversible(v) # {}
  PROVE  \E m \in Reversible(v) : Rank(v, m) = DownSize(v) /\ \A j \in Reversible(v) : m <= j
<1>1. Reversible(v) \subseteq Nat
  BY ReversibleFinite, SizeAssumption
<1>2. PICK m \in Reversible(v) : \A j \in Reversible(v) : m <= j
  BY <1>1, LeastNatural
<1>3. {j \in Reversible(v) : j >= m} = Reversible(v)
  BY <1>1, <1>2
<1> QED
  BY <1>2, <1>3 DEF Rank, DownSize

LEMMA DownSizeType ==
  ASSUME NEW v \in Versions
  PROVE  DownSize(v) \in Nat
BY ReversibleFinite, FS_CardinalityType DEF DownSize

(* A direction with nothing left is past the end of its list.              *)
LEMMA NothingLeft ==
  ASSUME NEW c \in Ctx, c.cur \in Versions, c.phase \in {"up", "down"}, Left(c) = {},
         c.phase = "down" => Reversible(c.cur) # {}
  PROVE  IF c.phase = "up" THEN c.pos >= Size[c.cur] ELSE c.pos >= DownSize(c.cur)
<1>0. c.pos \in Nat /\ Size[c.cur] \in Nat \ {0} /\ DownSize(c.cur) \in Nat
  BY SizeAssumption, DownSizeType DEF Ctx
<1>1. CASE c.phase = "up"
  <2>1. Left(c) = {i \in 1..Size[c.cur] : i > c.pos}
    BY <1>1 DEF Left
  <2>2. Size[c.cur] \in 1..Size[c.cur]
    BY <1>0
  <2> QED
    BY <1>0, <1>1, <2>1, <2>2
<1>2. CASE c.phase = "down"
  <2>1. Left(c) = {i \in Reversible(c.cur) : Rank(c.cur, i) > c.pos}
    BY <1>2 DEF Left
  <2>2. PICK m \in Reversible(c.cur) : Rank(c.cur, m) = DownSize(c.cur)
    BY <1>2, LastRank
  <2> QED
    BY <1>0, <1>2, <2>1, <2>2
<1> QED
  BY <1>1, <1>2

-----------------------------------------------------------------------------
(* One request at a time, statement by statement.  Only resumable versions *)
(* have checkpoints; the version a request executes is next to the         *)
(* recorded one; the offsets in its revision files are still those the     *)
(* checkpoints call for; the checkpoint of the version it executes is its  *)
(* own position, or a full one left by a version write that failed.        *)
Kept == \A v \in Versions \ Resumable : ckUp[v] = 0 /\ ckDown[v] = 0
Way == {"guard", "files", "lock", "run", "stmt", "ack", "clear"}
Beside(r) ==
  /\ At(r, "up", {"stmt", "ack"}) => ctx[r].cur = ledger + 1
  /\ At(r, "up", {"clear"}) => ctx[r].cur = ledger
  /\ At(r, "down", {"stmt", "ack"}) => ctx[r].cur = ledger
  /\ At(r, "down", {"clear"}) => ctx[r].cur = ledger + 1
  /\ At(r, "undo", {"lock", "stmt", "ack"}) /\ ~declared => ctx[r].cur = ledger + 1
OneSided(r) ==
  /\ At(r, "up", Way) => IncompleteDown = {}
  /\ At(r, "down", Way) => IncompleteUp = {}
  /\ At(r, "undo", Way) /\ ~declared => IncompleteDown = {}
OffsetsFit(r) ==
  \A v \in Versions :
    /\ At(r, "up", {"lock", "run"}) /\ v > ledger => ctx[r].offUp[v] = OffsetUp(v)
    /\ At(r, "up", {"stmt", "ack", "clear"}) /\ v > ctx[r].cur =>
         ctx[r].offUp[v] = OffsetUp(v)
    /\ At(r, "down", {"lock", "run"}) /\ v <= ledger => ctx[r].offDown[v] = OffsetDown(v)
    /\ At(r, "down", {"stmt", "ack", "clear"}) /\ v < ctx[r].cur =>
         ctx[r].offDown[v] = OffsetDown(v)
UpAtCheckpoint(c) ==
  c.cur \in Resumable =>
    ckUp[c.cur] = c.pos \/ (c.pos = 0 /\ ckUp[c.cur] >= Size[c.cur])
DownAtCheckpoint(c) ==
  c.cur \in Resumable =>
    ckDown[c.cur] = c.pos \/ (c.pos = 0 /\ ckDown[c.cur] >= DownSize(c.cur))
UndoAtCheckpoint(c) ==
  c.cur \in Resumable /\ ckUp[c.cur] = c.pos /\ c.pos < Size[c.cur]
AtCheckpoint(r) ==
  /\ At(r, "up", {"stmt", "ack"}) => UpAtCheckpoint(ctx[r])
  /\ At(r, "down", {"stmt", "ack"}) => DownAtCheckpoint(ctx[r])
  /\ At(r, "undo", {"lock", "stmt", "ack"}) => UndoAtCheckpoint(ctx[r])
OnTrack(r) == Beside(r) /\ OneSided(r) /\ OffsetsFit(r) /\ AtCheckpoint(r)
Track == \A r \in Requests : OnTrack(r)
TrackInv == Kept /\ PartialAtTheEdge /\ Track

LEMMA TrackInit == Init => TrackInv
<1> SUFFICES ASSUME Init PROVE TrackInv
  OBVIOUS
<1>1. \A r \in Requests : ctx[r].phase = "none"
  BY NoCtxType DEF Init
<1>2. Track
  BY <1>1 DEF Track, OnTrack, Beside, OneSided, OffsetsFit, AtCheckpoint, At
<1>3. \A v \in Versions : ckUp[v] = 0 /\ ckDown[v] = 0
  BY DEF Init
<1>4. Kept /\ IncompleteUp = {} /\ IncompleteDown = {}
  BY <1>3 DEF Kept, IncompleteUp, IncompleteDown
<1> QED
  BY <1>2, <1>4 DEF TrackInv, PartialAtTheEdge

(* The versions between checkpoints.                                       *)
LEMMA IncompleteTyped ==
  ASSUME TypeInv, Kept
  PROVE  /\ IncompleteUp \subseteq Versions \cap Resumable
         /\ IncompleteDown \subseteq Versions \cap Resumable
<1>1. \A v \in IncompleteUp : v \in Versions /\ ckUp[v] # 0
  BY DEF IncompleteUp
<1>2. \A v \in IncompleteDown : v \in Versions /\ ckDown[v] # 0
  BY DEF IncompleteDown
<1> QED
  BY <1>1, <1>2 DEF Kept

(* A step that leaves the way, or is nowhere on it, with the books alone.  *)
LEMMA TrackQuit ==
  ASSUME TrackInv, Alone, NEW r \in Requests, pc'[r] \notin Way,
         UNCHANGED <<ledger, ckUp, ckDown, declared>>
  PROVE  TrackInv'
<1>1. OnTrack(r)'
  BY DEF OnTrack, Beside, OneSided, OffsetsFit, AtCheckpoint, At, Way
<1>2. Track'
  BY <1>1 DEF Alone, Track
<1> QED
  BY <1>2 DEF TrackInv, Kept, PartialAtTheEdge, IncompleteUp, IncompleteDown

(* What the remaining steps do with the part of a context that locates it. *)
LEMMA PathFields ==
  ASSUME TypeInv, NEW r \in Requests
  PROVE  /\ WriteRevisionFiles(r) =>
              \A v \in Versions : ctx'[r].offUp[v] = OffsetUp(v) /\ ctx'[r].offDown[v] = OffsetDown(v)
         /\ AcquireLock(r) \/ Commit(r) \/ ClearProgress(r) => ctx'[r] = ctx[r]
         /\ ExecStatement(r) /\ ~Transactional => ctx'[r] = ctx[r] /\ pc'[r] = "ack"
         /\ SettleApply(r) =>
              \/ pc'[r] = "read" /\ ctx'[r] = ctx[r]
              \/ /\ pc'[r] = "lock" /\ ctx'[r].phase = "undo"
                 /\ ctx'[r].cur \in IncompleteUp /\ ctx'[r].pos = ckUp[ctx'[r].cur]
         /\ RecordStatement(r) =>
              /\ ctx'[r].offUp = ctx[r].offUp /\ ctx'[r].offDown = ctx[r].offDown
              /\ \E i \in Frontier(ctx[r]) :
                   /\ ctx'[r].pos = After(ctx[r], i)
                   /\ ckUp' = IF ctx[r].cur \in Resumable /\ ctx[r].phase # "down"
                              THEN [ckUp EXCEPT ![ctx[r].cur] = After(ctx[r], i)] ELSE ckUp
                   /\ ckDown' = IF ctx[r].cur \in Resumable /\ ctx[r].phase = "down"
                                THEN [ckDown EXCEPT ![ctx[r].cur] = After(ctx[r], i)] ELSE ckDown
<1>0. pc \in [Requests -> PC] /\ ctx \in [Requests -> Ctx] /\ ctx[r] \in Ctx
  BY DEF TypeInv, TypeOK
<1>1. ASSUME WriteRevisionFiles(r), NEW v \in Versions
      PROVE  ctx'[r].offUp[v] = OffsetUp(v) /\ ctx'[r].offDown[v] = OffsetDown(v)
  <2> DEFINE f == [u \in Versions |-> OffsetUp(u)]
             g == [u \in Versions |-> OffsetDown(u)]
  <2>1. ctx' = [ctx EXCEPT ![r].offUp = f, ![r].offDown = g]
    BY <1>1 DEF WriteRevisionFiles
  <2>2. f[v] = OffsetUp(v) /\ g[v] = OffsetDown(v)
    OBVIOUS
  <2> HIDE DEF f, g
  <2>3. ctx'[r].offUp = f /\ ctx'[r].offDown = g
    BY <1>0, <2>1 DEF Ctx
  <2> QED
    BY <2>2, <2>3
<1>2. AcquireLock(r) \/ Commit(r) \/ ClearProgress(r) => ctx'[r] = ctx[r]
  BY DEF AcquireLock, Commit, ClearProgress
<1>3. ExecStatement(r) /\ ~Transactional => ctx'[r] = ctx[r] /\ pc'[r] = "ack"
  BY <1>0 DEF ExecStatement, Goto
<1>4. ASSUME SettleApply(r)
      PROVE  \/ pc'[r] = "read" /\ ctx'[r] = ctx[r]
             \/ /\ pc'[r] = "lock" /\ ctx'[r].phase = "undo"
                /\ ctx'[r].cur \in IncompleteUp /\ ctx'[r].pos = ckUp[ctx'[r].cur]
  BY <1>0, <1>4 DEF SettleApply, WantsUndo, Goto, Ctx
<1>5. ASSUME RecordStatement(r)
      PROVE  /\ ctx'[r].offUp = ctx[r].offUp /\ ctx'[r].offDown = ctx[r].offDown
             /\ \E i \in Frontier(ctx[r]) :
                  /\ ctx'[r].pos = After(ctx[r], i)
                  /\ ckUp' = IF ctx[r].cur \in Resumable /\ ctx[r].phase # "down"
                             THEN [ckUp EXCEPT ![ctx[r].cur] = After(ctx[r], i)] ELSE ckUp
                  /\ ckDown' = IF ctx[r].cur \in Resumable /\ ctx[r].phase = "down"
                               THEN [ckDown EXCEPT ![ctx[r].cur] = After(ctx[r], i)] ELSE ckDown
  <2>1. PICK i \in Frontier(ctx[r]) :
          /\ ckUp' = IF ctx[r].cur \in Resumable /\ ctx[r].phase # "down"
                     THEN [ckUp EXCEPT ![ctx[r].cur] = After(ctx[r], i)] ELSE ckUp
          /\ ckDown' = IF ctx[r].cur \in Resumable /\ ctx[r].phase = "down"
                       THEN [ckDown EXCEPT ![ctx[r].cur] = After(ctx[r], i)] ELSE ckDown
          /\ ctx' = [ctx EXCEPT ![r].pos = After(ctx[r], i)]
    BY <1>5 DEF RecordStatement
  <2>2. /\ ctx'[r].offUp = ctx[r].offUp /\ ctx'[r].offDown = ctx[r].offDown
        /\ ctx'[r].pos = After(ctx[r], i)
    BY <1>0, <2>1 DEF Ctx
  <2> QED
    BY <2>1, <2>2
<1> QED
  BY <1>1, <1>2, <1>3, <1>4, <1>5

(* The steps on the way, one lemma each.  Alone, it is enough to look at   *)
(* the request that takes the step.                                        *)
LEMMA TrackBegin ==
  ASSUME TypeInv, TrackInv, Alone, NEW r \in Requests, Begin(r)
  PROVE  TrackInv'
<1>1. UNCHANGED <<ledger, ckUp, ckDown, declared>>
  BY DEF Begin, BeginApply, BeginRollback, BeginStamp, BeginReconcile, target, progress, ghosts
<1>2. Kept' /\ PartialAtTheEdge'
  BY <1>1 DEF TrackInv, Kept, PartialAtTheEdge, IncompleteUp, IncompleteDown
<1>3. IncompleteUp' = IncompleteUp /\ IncompleteDown' = IncompleteDown
  BY <1>1 DEF IncompleteUp, IncompleteDown
<1>4. OneSided(r)'
  <2>1. ~declared /\ IncompleteUp # {} => IncompleteDown = {}
    BY DEF TrackInv, PartialAtTheEdge
  <2> QED
    BY <1>1, <1>3, <2>1, BeginFields DEF OneSided, At, Way
<1>5. Beside(r)'
  <2>1. ~declared => \A v \in IncompleteUp : v = ledger + 1
    BY DEF TrackInv, PartialAtTheEdge
  <2> QED
    BY <1>1, <2>1, BeginFields DEF Beside, At
<1>6. OffsetsFit(r)'
  BY BeginFields DEF OffsetsFit, At
<1>7. AtCheckpoint(r)'
  <2>1. ASSUME ctx'[r].phase = "undo" PROVE UndoAtCheckpoint(ctx[r])'
    <3>1. ctx'[r].cur \in IncompleteUp /\ ctx'[r].pos = ckUp[ctx'[r].cur]
      BY <2>1, BeginFields
    <3> QED
      BY <1>1, <3>1, IncompleteTyped DEF UndoAtCheckpoint, TrackInv, IncompleteUp
  <2> QED
    BY <2>1, BeginFields DEF AtCheckpoint, At
<1> QED
  BY <1>2, <1>4, <1>5, <1>6, <1>7 DEF TrackInv, Track, OnTrack, Alone

LEMMA TrackBeforeLock ==
  ASSUME TypeInv, TrackInv, Roles, Alone, NEW r \in Requests,
         Guard(r) \/ WriteRevisionFiles(r) \/ AcquireLock(r)
  PROVE  TrackInv'
<1>1. UNCHANGED <<ledger, ckUp, ckDown, declared>>
  BY DEF Guard, WriteRevisionFiles, AcquireLock, target, progress, ghosts
<1>2. Kept' /\ PartialAtTheEdge'
  BY <1>1 DEF TrackInv, Kept, PartialAtTheEdge, IncompleteUp, IncompleteDown
<1>3. /\ IncompleteUp' = IncompleteUp /\ IncompleteDown' = IncompleteDown
      /\ \A v : OffsetUp(v)' = OffsetUp(v) /\ OffsetDown(v)' = OffsetDown(v)
  BY <1>1 DEF IncompleteUp, IncompleteDown, OffsetUp, OffsetDown
<1>4. OnTrack(r)
  BY DEF TrackInv, Track
<1>5. CASE Guard(r)
  <2>1. pc[r] = "guard" /\ pc'[r] = "files" /\ ctx'[r].phase = ctx[r].phase
    BY <1>5, GuardFields
  <2> QED
    BY <1>1, <1>2, <1>3, <1>4, <2>1
       DEF TrackInv, Track, OnTrack, Alone, Beside, OneSided, OffsetsFit, AtCheckpoint, At, Way
<1>6. CASE WriteRevisionFiles(r)
  <2>1. pc[r] = "files" /\ pc'[r] = "lock" /\ Same(r)
    BY <1>6, Moves, SameFields
  <2>2. OffsetsFit(r)'
    BY <1>3, <1>6, <2>1, PathFields DEF OffsetsFit, At
  <2>3. ctx[r].phase # "undo"
    BY <2>1 DEF Roles, At, PC
  <2> QED
    BY <1>1, <1>2, <1>3, <1>4, <2>1, <2>2, <2>3
       DEF TrackInv, Track, OnTrack, Alone, Beside, OneSided, AtCheckpoint, At, Way, Same
<1>7. CASE AcquireLock(r)
  <2>1. /\ pc[r] = "lock" /\ ctx'[r] = ctx[r]
        /\ pc'[r] = IF ctx[r].phase = "undo" THEN "stmt" ELSE "run"
    BY <1>7, Moves, PathFields
  <2>2. Beside(r)' /\ OneSided(r)'
    BY <1>1, <1>3, <1>4, <2>1 DEF OnTrack, Beside, OneSided, At, Way
  <2>3. OffsetsFit(r)'
    BY <1>1, <1>3, <1>4, <2>1 DEF OnTrack, OffsetsFit, At
  <2>4. AtCheckpoint(r)'
    BY <1>1, <1>4, <2>1 DEF OnTrack, AtCheckpoint, UndoAtCheckpoint, At
  <2> QED
    BY <1>2, <2>2, <2>3, <2>4 DEF TrackInv, Track, OnTrack, Alone
<1> QED
  BY <1>5, <1>6, <1>7

(* Entering a version: its offset is its checkpoint, unless that is full.  *)
LEMMA TrackNext ==
  ASSUME TypeInv, TrackInv, Alone, NEW r \in Requests, NextVersion(r), ~Transactional
  PROVE  TrackInv'
<1>0. /\ ctx[r] \in Ctx /\ ledger \in 0..NV /\ NV \in Nat
      /\ ckUp \in [Versions -> Nat] /\ ckDown \in [Versions -> Nat]
  BY SizeAssumption DEF TypeInv, TypeOK
<1>1. UNCHANGED <<ledger, ckUp, ckDown, declared>>
  BY DEF NextVersion, target, progress, ghosts
<1>2. Kept' /\ PartialAtTheEdge'
  BY <1>1 DEF TrackInv, Kept, PartialAtTheEdge, IncompleteUp, IncompleteDown
<1>3. /\ IncompleteUp' = IncompleteUp /\ IncompleteDown' = IncompleteDown
      /\ \A v : OffsetUp(v)' = OffsetUp(v) /\ OffsetDown(v)' = OffsetDown(v)
  BY <1>1 DEF IncompleteUp, IncompleteDown, OffsetUp, OffsetDown
<1>4. OnTrack(r)
  BY DEF TrackInv, Track
<1>5. CASE pc'[r] = "unlock"
  BY <1>1, <1>5, TrackQuit DEF Way
<1>6. CASE pc'[r] = "stmt" /\ ctx[r].phase = "up"
  <2>1. /\ pc[r] = "run" /\ ctx'[r].phase = "up" /\ ctx'[r].cur = ledger + 1
        /\ ledger + 1 \in Versions /\ ctx'[r].pos = ctx[r].offUp[ledger + 1]
        /\ ctx'[r].offUp = ctx[r].offUp
    BY <1>6, NextFields
  <2>2. ctx'[r].pos = OffsetUp(ledger + 1)
    BY <1>0, <1>4, <1>6, <2>1 DEF OnTrack, OffsetsFit, At
  <2>3. ledger + 1 \in Resumable =>
          ckUp[ledger + 1] = ctx'[r].pos
          \/ (ctx'[r].pos = 0 /\ ckUp[ledger + 1] >= Size[ledger + 1])
    <3>1. ckUp[ledger + 1] \in Nat /\ Size[ledger + 1] \in Nat
      BY <1>0, <2>1, SizeAssumption
    <3> QED
      BY <2>1, <2>2, <3>1 DEF OffsetUp, IncompleteUp
  <2>4. AtCheckpoint(r)'
    BY <1>1, <1>6, <2>1, <2>3 DEF AtCheckpoint, UpAtCheckpoint, At
  <2>5. OffsetsFit(r)'
    <3>1. \A v \in Versions : v > ledger + 1 => v > ledger
      BY <1>0 DEF Versions
    <3> QED
      BY <1>1, <1>3, <1>4, <1>6, <2>1, <3>1 DEF OnTrack, OffsetsFit, At
  <2>6. Beside(r)' /\ OneSided(r)'
    BY <1>1, <1>3, <1>4, <1>6, <2>1 DEF OnTrack, Beside, OneSided, At, Way
  <2> QED
    BY <1>2, <2>4, <2>5, <2>6 DEF TrackInv, Track, OnTrack, Alone
<1>7. CASE pc'[r] = "stmt" /\ ctx[r].phase = "down"
  <2>1. /\ pc[r] = "run" /\ ctx'[r].phase = "down" /\ ctx'[r].cur = ledger
        /\ ledger \in Versions /\ ctx'[r].pos = ctx[r].offDown[ledger]
        /\ ctx'[r].offDown = ctx[r].offDown
    BY <1>7, NextFields
  <2>2. ctx'[r].pos = OffsetDown(ledger)
    BY <1>0, <1>4, <1>7, <2>1 DEF OnTrack, OffsetsFit, At
  <2>3. ledger \in Resumable =>
          ckDown[ledger] = ctx'[r].pos
          \/ (ctx'[r].pos = 0 /\ ckDown[ledger] >= DownSize(ledger))
    <3>1. ckDown[ledger] \in Nat /\ DownSize(ledger) \in Nat
      BY <1>0, <2>1, DownSizeType
    <3> QED
      BY <2>1, <2>2, <3>1 DEF OffsetDown, IncompleteDown
  <2>4. AtCheckpoint(r)'
    BY <1>1, <1>7, <2>1, <2>3 DEF AtCheckpoint, DownAtCheckpoint, At
  <2>5. OffsetsFit(r)'
    <3>1. \A v \in Versions : v < ledger => v <= ledger
      BY <1>0 DEF Versions
    <3> QED
      BY <1>1, <1>3, <1>4, <1>7, <2>1, <3>1 DEF OnTrack, OffsetsFit, At
  <2>6. Beside(r)' /\ OneSided(r)'
    BY <1>1, <1>3, <1>4, <1>7, <2>1 DEF OnTrack, Beside, OneSided, At, Way
  <2> QED
    BY <1>2, <2>4, <2>5, <2>6 DEF TrackInv, Track, OnTrack, Alone
<1> QED
  BY <1>5, <1>6, <1>7, NextFields

(* A checkpoint concerns the version being executed and nothing else.      *)
LEMMA TrackRecord ==
  ASSUME TypeInv, TrackInv, Alone, NEW r \in Requests, RecordStatement(r)
  PROVE  TrackInv'
<1> DEFINE v == ctx[r].cur
<1>0. /\ ctx[r] \in Ctx /\ ledger \in 0..NV /\ NV \in Nat
      /\ ckUp \in [Versions -> Nat] /\ ckDown \in [Versions -> Nat]
      /\ pc[r] = "ack" /\ pc'[r] = "stmt" /\ Same(r)
      /\ v \in Versions /\ ctx[r].phase \in {"up", "down", "undo"}
  BY SizeAssumption, Moves, SameFields DEF TypeInv, TypeOK, Placed
<1>1. UNCHANGED <<ledger, declared>>
  BY DEF RecordStatement, target, ghosts
<1>2. PICK i \in Frontier(ctx[r]) :
        /\ ctx'[r].pos = After(ctx[r], i)
        /\ ckUp' = IF v \in Resumable /\ ctx[r].phase # "down"
                   THEN [ckUp EXCEPT ![v] = After(ctx[r], i)] ELSE ckUp
        /\ ckDown' = IF v \in Resumable /\ ctx[r].phase = "down"
                     THEN [ckDown EXCEPT ![v] = After(ctx[r], i)] ELSE ckDown
  BY PathFields
<1>3. ctx'[r].offUp = ctx[r].offUp /\ ctx'[r].offDown = ctx[r].offDown
  BY PathFields
<1>4. /\ \A w \in Versions : w # v => ckUp'[w] = ckUp[w] /\ ckDown'[w] = ckDown[w]
      /\ v \notin Resumable => ckUp' = ckUp /\ ckDown' = ckDown
      /\ v \in Resumable /\ ctx[r].phase # "down" => ckUp'[v] = ctx'[r].pos
      /\ v \in Resumable /\ ctx[r].phase = "down" => ckDown'[v] = ctx'[r].pos
      /\ ctx[r].phase # "down" => ckDown' = ckDown
      /\ ctx[r].phase = "down" => ckUp' = ckUp
  BY <1>0, <1>2
<1>5. OnTrack(r)
  BY DEF TrackInv, Track
<1>6. Kept'
  BY <1>4 DEF TrackInv, Kept
<1>7. /\ IncompleteUp' \subseteq IncompleteUp \cup {v}
      /\ IncompleteDown' \subseteq IncompleteDown \cup {v}
      /\ ctx[r].phase # "down" => IncompleteDown' = IncompleteDown
      /\ ctx[r].phase = "down" => IncompleteUp' = IncompleteUp
  <2>1. IncompleteUp' \subseteq IncompleteUp \cup {v} /\ IncompleteDown' \subseteq IncompleteDown \cup {v}
    BY <1>4 DEF IncompleteUp, IncompleteDown
  <2> QED
    BY <1>4, <2>1 DEF IncompleteUp, IncompleteDown
<1>8. PartialAtTheEdge'
  <2>1. ~declared => IncompleteUp \subseteq {ledger + 1} /\ IncompleteDown \subseteq {ledger}
    BY DEF TrackInv, PartialAtTheEdge
  <2>2. CASE ctx[r].phase = "down"
    <3>1. v = ledger /\ IncompleteUp = {}
      BY <1>0, <1>5, <2>2 DEF OnTrack, Beside, OneSided, At, Way
    <3> QED
      BY <1>1, <1>7, <2>1, <2>2, <3>1 DEF PartialAtTheEdge
  <2>3. CASE ctx[r].phase \in {"up", "undo"}
    <3>1. ~declared => v = ledger + 1 /\ IncompleteDown = {}
      BY <1>0, <1>5, <2>3 DEF OnTrack, Beside, OneSided, At, Way
    <3> QED
      BY <1>1, <1>7, <2>1, <2>3, <3>1 DEF PartialAtTheEdge
  <2> QED
    BY <1>0, <2>2, <2>3
<1>9. Beside(r)'
  BY <1>0, <1>1, <1>5 DEF OnTrack, Beside, At, Same
<1>10. OneSided(r)'
  BY <1>0, <1>1, <1>5, <1>7 DEF OnTrack, OneSided, At, Same, Way
<1>11. OffsetsFit(r)'
  <2>1. \A w \in Versions : w # v => OffsetUp(w)' = OffsetUp(w) /\ OffsetDown(w)' = OffsetDown(w)
    BY <1>4 DEF OffsetUp, OffsetDown, IncompleteUp, IncompleteDown
  <2>2. \A w \in Versions : w > v \/ w < v => w # v
    BY <1>0 DEF Versions
  <2>3. \A w \in Versions :
          /\ ctx[r].phase = "up" /\ w > v => ctx[r].offUp[w] = OffsetUp(w)
          /\ ctx[r].phase = "down" /\ w < v => ctx[r].offDown[w] = OffsetDown(w)
    BY <1>0, <1>5 DEF OnTrack, OffsetsFit, At
  <2>4. ctx'[r].cur = v /\ ctx'[r].phase = ctx[r].phase
    BY <1>0 DEF Same
  <2> HIDE DEF v
  <2> QED
    BY <1>0, <1>3, <2>1, <2>2, <2>3, <2>4 DEF OffsetsFit, At
<1>12. AtCheckpoint(r)'
  <2>1. ctx'[r].cur = v /\ ctx'[r].phase = ctx[r].phase
    BY <1>0 DEF Same
  <2>2. CASE ctx[r].phase = "undo"
    <3>1. v \in Resumable /\ ctx[r].pos < Size[v] /\ ctx[r].pos \in Nat /\ Size[v] \in Nat
      BY <1>0, <1>5, <2>2, SizeAssumption DEF OnTrack, AtCheckpoint, UndoAtCheckpoint, At, Ctx
    <3>2. i \in Reversible(v) /\ i <= ctx[r].pos /\ i \in Nat /\ After(ctx[r], i) = i - 1
      BY <1>0, <2>2, ReversibleFinite, SizeAssumption DEF Frontier, Left, After
    <3>3. ctx'[r].pos < Size[v]
      BY <1>2, <3>1, <3>2
    <3> QED
      BY <1>4, <2>1, <2>2, <3>1, <3>3 DEF AtCheckpoint, UndoAtCheckpoint, At
  <2>3. CASE ctx[r].phase = "up"
    BY <1>4, <2>1, <2>3 DEF AtCheckpoint, UpAtCheckpoint, At
  <2>4. CASE ctx[r].phase = "down"
    BY <1>4, <2>1, <2>4 DEF AtCheckpoint, DownAtCheckpoint, At
  <2> QED
    BY <1>0, <2>2, <2>3, <2>4
<1> QED
  BY <1>6, <1>8, <1>9, <1>10, <1>11, <1>12 DEF TrackInv, Track, OnTrack, Alone

(* A version is left with a full checkpoint or none.                       *)
LEMMA TrackCommit ==
  ASSUME TypeInv, TrackInv, Alone, NEW r \in Requests, Commit(r)
  PROVE  TrackInv'
<1> DEFINE v == ctx[r].cur
<1>0. /\ ctx[r] \in Ctx /\ ledger \in 0..NV /\ NV \in Nat
      /\ ckUp \in [Versions -> Nat] /\ ckDown \in [Versions -> Nat]
      /\ pc[r] = "stmt" /\ pc'[r] = "clear" /\ ctx'[r] = ctx[r]
      /\ v \in Versions /\ ctx[r].phase \in {"up", "down"}
      /\ Size[v] \in Nat /\ DownSize(v) \in Nat /\ ctx[r].pos \in Nat
  BY SizeAssumption, DownSizeType, Moves, PathFields DEF TypeInv, TypeOK, Placed, Ctx
<1>1. UNCHANGED <<ckUp, ckDown, declared>>
      /\ ledger' = IF ctx[r].phase = "up" THEN v ELSE v - 1
  BY DEF Commit, progress, ghosts
<1>2. /\ IncompleteUp' = IncompleteUp /\ IncompleteDown' = IncompleteDown
      /\ \A w : OffsetUp(w)' = OffsetUp(w) /\ OffsetDown(w)' = OffsetDown(w)
  BY <1>1 DEF IncompleteUp, IncompleteDown, OffsetUp, OffsetDown
<1>3. OnTrack(r) /\ Kept
  BY DEF TrackInv, Track
<1>4. IF ctx[r].phase = "up" THEN ctx[r].pos >= Size[v] ELSE ctx[r].pos >= DownSize(v)
  BY <1>0, NothingLeft DEF Commit
<1>5. CASE ctx[r].phase = "up"
  <2>1. v = ledger + 1 /\ IncompleteDown = {} /\ UpAtCheckpoint(ctx[r])
    BY <1>0, <1>3, <1>5 DEF OnTrack, Beside, OneSided, AtCheckpoint, At, Way
  <2>2. v \notin IncompleteUp
    <3>1. SUFFICES ASSUME v \in IncompleteUp PROVE FALSE
      OBVIOUS
    <3>2. v \in Resumable /\ ckUp[v] < Size[v] /\ ckUp[v] \in Nat
      BY <1>0, <1>3, <3>1, IncompleteTyped DEF IncompleteUp
    <3> QED
      BY <1>0, <1>4, <1>5, <2>1, <3>2 DEF UpAtCheckpoint
  <2>3. PartialAtTheEdge'
    BY <1>1, <1>2, <2>1, <2>2 DEF TrackInv, PartialAtTheEdge
  <2>4. Beside(r)' /\ OneSided(r)' /\ AtCheckpoint(r)'
    BY <1>0, <1>1, <1>2, <1>5, <2>1 DEF Beside, OneSided, AtCheckpoint, At
  <2>5. OffsetsFit(r)'
    BY <1>0, <1>2, <1>3, <1>5 DEF OnTrack, OffsetsFit, At
  <2> QED
    BY <1>1, <2>3, <2>4, <2>5 DEF TrackInv, Kept, Track, OnTrack, Alone
<1>6. CASE ctx[r].phase = "down"
  <2>1. v = ledger /\ IncompleteUp = {} /\ DownAtCheckpoint(ctx[r])
    BY <1>0, <1>3, <1>6 DEF OnTrack, Beside, OneSided, AtCheckpoint, At, Way
  <2>2. v \notin IncompleteDown
    <3>1. SUFFICES ASSUME v \in IncompleteDown PROVE FALSE
      OBVIOUS
    <3>2. v \in Resumable /\ ckDown[v] < DownSize(v) /\ ckDown[v] \in Nat
      BY <1>0, <1>3, <3>1, IncompleteTyped DEF IncompleteDown
    <3> QED
      BY <1>0, <1>4, <1>6, <2>1, <3>2 DEF DownAtCheckpoint
  <2>3. PartialAtTheEdge'
    BY <1>1, <1>2, <2>1, <2>2 DEF TrackInv, PartialAtTheEdge
  <2>4. Beside(r)' /\ OneSided(r)' /\ AtCheckpoint(r)'
    BY <1>0, <1>1, <1>2, <1>6, <2>1 DEF Beside, OneSided, AtCheckpoint, At
  <2>5. OffsetsFit(r)'
    BY <1>0, <1>2, <1>3, <1>6 DEF OnTrack, OffsetsFit, At
  <2> QED
    BY <1>1, <2>3, <2>4, <2>5 DEF TrackInv, Kept, Track, OnTrack, Alone
<1> QED
  BY <1>0, <1>5, <1>6

LEMMA TrackClear ==
  ASSUME TypeInv, TrackInv, Alone, NEW r \in Requests, ClearProgress(r)
  PROVE  TrackInv'
<1> DEFINE v == ctx[r].cur
<1>0. /\ ctx[r] \in Ctx /\ ledger \in 0..NV /\ NV \in Nat
      /\ ckUp \in [Versions -> Nat] /\ ckDown \in [Versions -> Nat]
      /\ pc[r] = "clear" /\ pc'[r] = "run" /\ ctx'[r] = ctx[r]
      /\ v \in Versions
  BY SizeAssumption, Moves, PathFields DEF TypeInv, TypeOK, Placed
<1>1. /\ UNCHANGED <<ledger, declared>>
      /\ IF ctx[r].phase = "up" THEN ckUp' = [ckUp EXCEPT ![v] = 0] /\ ckDown' = ckDown
                                ELSE ckDown' = [ckDown EXCEPT ![v] = 0] /\ ckUp' = ckUp
  BY DEF ClearProgress, target, ghosts
<1>2. \A w \in Versions :
        /\ w # v => ckUp'[w] = ckUp[w] /\ ckDown'[w] = ckDown[w]
        /\ ckUp'[w] = 0 \/ ckUp'[w] = ckUp[w]
        /\ ckDown'[w] = 0 \/ ckDown'[w] = ckDown[w]
  BY <1>0, <1>1
<1>3. IncompleteUp' \subseteq IncompleteUp /\ IncompleteDown' \subseteq IncompleteDown
  BY <1>2 DEF IncompleteUp, IncompleteDown
<1>4. Kept' /\ PartialAtTheEdge'
  <2>1. Kept'
    BY <1>2 DEF TrackInv, Kept
  <2>2. PartialAtTheEdge'
    BY <1>1, <1>3 DEF TrackInv, PartialAtTheEdge
  <2> QED
    BY <2>1, <2>2
<1>5. OnTrack(r)
  BY DEF TrackInv, Track
<1>6. Beside(r)' /\ OneSided(r)' /\ AtCheckpoint(r)'
  BY <1>0, <1>1, <1>3, <1>5 DEF OnTrack, Beside, OneSided, AtCheckpoint, At, Way
<1>7. OffsetsFit(r)'
  <2>1. \A w \in Versions : w # v => OffsetUp(w)' = OffsetUp(w) /\ OffsetDown(w)' = OffsetDown(w)
    BY <1>2 DEF OffsetUp, OffsetDown, IncompleteUp, IncompleteDown
  <2>2. ctx[r].phase = "up" => v = ledger
    BY <1>0, <1>5 DEF OnTrack, Beside, At
  <2>3. ctx[r].phase = "down" => v = ledger + 1
    BY <1>0, <1>5 DEF OnTrack, Beside, At
  <2>4. \A w \in Versions : w \in Int
    BY <1>0 DEF Versions
  <2>5. \A w \in Versions :
          /\ ctx[r].phase = "up" /\ w > v => ctx[r].offUp[w] = OffsetUp(w)
          /\ ctx[r].phase = "down" /\ w < v => ctx[r].offDown[w] = OffsetDown(w)
    BY <1>0, <1>5 DEF OnTrack, OffsetsFit, At
  <2>6. \A w \in Versions :
          /\ ctx[r].phase = "up" /\ w > ledger => ctx[r].offUp[w] = OffsetUp(w)'
          /\ ctx[r].phase = "down" /\ w <= ledger => ctx[r].offDown[w] = OffsetDown(w)'
    <3> HIDE DEF v
    <3> QED
      BY <1>0, <2>1, <2>2, <2>3, <2>4, <2>5
  <2> QED
    BY <1>0, <1>1, <2>6 DEF OffsetsFit, At
<1> QED
  BY <1>4, <1>6, <1>7 DEF TrackInv, Track, OnTrack, Alone

LEMMA TrackSettle ==
  ASSUME TypeInv, TrackInv, Alone, NEW r \in Requests, SettleApply(r)
  PROVE  TrackInv'
<1>1. UNCHANGED <<ledger, ckUp, ckDown, declared>>
  BY DEF SettleApply, target, progress, ghosts
<1>2. CASE pc'[r] = "read"
  BY <1>1, <1>2, TrackQuit DEF Way
<1>3. CASE pc'[r] = "lock" /\ ctx'[r].phase = "undo"
           /\ ctx'[r].cur \in IncompleteUp /\ ctx'[r].pos = ckUp[ctx'[r].cur]
  <2>1. Kept' /\ PartialAtTheEdge' /\ IncompleteUp' = IncompleteUp /\ IncompleteDown' = IncompleteDown
    BY <1>1 DEF TrackInv, Kept, PartialAtTheEdge, IncompleteUp, IncompleteDown
  <2>2. ~declared => IncompleteUp \subseteq {ledger + 1} /\ IncompleteDown = {}
    BY <1>3 DEF TrackInv, PartialAtTheEdge
  <2>3. UndoAtCheckpoint(ctx[r])'
    BY <1>1, <1>3, IncompleteTyped DEF UndoAtCheckpoint, TrackInv, IncompleteUp
  <2>4. Beside(r)' /\ OneSided(r)' /\ AtCheckpoint(r)'
    BY <1>1, <1>3, <2>1, <2>2, <2>3 DEF Beside, OneSided, AtCheckpoint, At
  <2>5. OffsetsFit(r)'
    BY <1>3 DEF OffsetsFit, At
  <2> QED
    BY <2>1, <2>4, <2>5 DEF TrackInv, Track, OnTrack, Alone
<1> QED
  BY <1>2, <1>3, PathFields

LEMMA TrackStep ==
  ASSUME Alone, ~Transactional, TypeInv, Roles, TrackInv, [Next]_vars
  PROVE  TrackInv'
<1>1. CASE UNCHANGED vars
  BY <1>1 DEF vars, TrackInv, Kept, PartialAtTheEdge, IncompleteUp, IncompleteDown, Track, OnTrack,
       Beside, OneSided, OffsetsFit, OffsetUp, OffsetDown, AtCheckpoint, UpAtCheckpoint,
       DownAtCheckpoint, UndoAtCheckpoint, At
<1>2. CASE Next
  <2>1. PICK r \in Requests : Begin(r) \/ Step(r) \/ Crash(r)
    BY <1>2 DEF Next
  <2>0. pc \in [Requests -> PC]
    BY DEF TypeInv, TypeOK
  <2>2. CASE Begin(r)
    BY <2>2, TrackBegin
  <2>3. CASE Guard(r) \/ WriteRevisionFiles(r) \/ AcquireLock(r)
    BY <2>3, TrackBeforeLock
  <2>4. CASE NextVersion(r)
    BY <2>4, TrackNext
  <2>5. CASE RecordStatement(r)
    BY <2>5, TrackRecord
  <2>6. CASE Commit(r)
    BY <2>6, TrackCommit
  <2>7. CASE ClearProgress(r)
    BY <2>7, TrackClear
  <2>8. CASE SettleApply(r)
    BY <2>8, TrackSettle
  <2>9. CASE ExecStatement(r)
    <3>1. UNCHANGED <<ledger, ckUp, ckDown, declared>>
      BY <2>9 DEF ExecStatement, progress, ghosts
    <3>2. ctx'[r] = ctx[r] /\ pc'[r] = "ack" /\ pc[r] = "stmt"
      BY <2>9, PathFields, Moves
    <3>3. /\ IncompleteUp' = IncompleteUp /\ IncompleteDown' = IncompleteDown
          /\ \A w : OffsetUp(w)' = OffsetUp(w) /\ OffsetDown(w)' = OffsetDown(w)
      BY <3>1 DEF IncompleteUp, IncompleteDown, OffsetUp, OffsetDown
    <3>4. OnTrack(r)
      BY DEF TrackInv, Track
    <3>5. Beside(r)' /\ OneSided(r)'
      BY <3>1, <3>2, <3>3, <3>4 DEF OnTrack, Beside, OneSided, At, Way
    <3>6. OffsetsFit(r)'
      BY <3>2, <3>3, <3>4 DEF OnTrack, OffsetsFit, At
    <3>7. AtCheckpoint(r)'
      BY <3>1, <3>2, <3>4
         DEF OnTrack, AtCheckpoint, UpAtCheckpoint, DownAtCheckpoint, UndoAtCheckpoint, At
    <3>8. Kept' /\ PartialAtTheEdge'
      BY <3>1, <3>3 DEF TrackInv, Kept, PartialAtTheEdge
    <3> QED
      BY <3>5, <3>6, <3>7, <3>8 DEF TrackInv, Track, OnTrack, Alone
  <2>10. CASE StampLedger(r)
    <3>1. UNCHANGED <<ckUp, ckDown>> /\ pc'[r] = "unlock" /\ (~declared' => ~declared /\ ledger' = ledger)
      BY <2>0, <2>10 DEF StampLedger, progress, Goto
    <3>2. Kept' /\ PartialAtTheEdge'
      BY <3>1 DEF TrackInv, Kept, PartialAtTheEdge, IncompleteUp, IncompleteDown
    <3>3. OnTrack(r)'
      BY <3>1 DEF OnTrack, Beside, OneSided, OffsetsFit, AtCheckpoint, At, Way
    <3> QED
      BY <3>2, <3>3 DEF TrackInv, Track, Alone
  <2>11. CASE ForgetProgress(r)
    <3>1. pc'[r] = "idle" /\ \A v \in Versions : ckUp'[v] = 0 /\ ckDown'[v] = 0
      BY <2>0, <2>11 DEF ForgetProgress, Finish, Goto
    <3>2. Kept' /\ IncompleteUp' = {} /\ IncompleteDown' = {}
      BY <3>1 DEF Kept, IncompleteUp, IncompleteDown
    <3>3. OnTrack(r)'
      BY <3>1 DEF OnTrack, Beside, OneSided, OffsetsFit, AtCheckpoint, At, Way
    <3> QED
      BY <3>2, <3>3 DEF TrackInv, PartialAtTheEdge, Track, Alone
  <2>12. CASE \/ Refuse(r) \/ LoseAck(r) \/ Fail(r) \/ UndoFinished(r) \/ ReleaseLock(r)
              \/ SettleUndo(r) \/ ReadVersion(r) \/ SetModelVersion(r) \/ SetQuarantine(r)
              \/ Crash(r)
    <3>1. UNCHANGED <<ledger, ckUp, ckDown, declared>>
      BY <2>12 DEF Refuse, LoseAck, Fail, UndoFinished, ReleaseLock, SettleUndo, ReadVersion,
           SetModelVersion, SetQuarantine, Crash, target, progress, ghosts
    <3>2. pc'[r] \notin Way
      BY <2>0, <2>12, Moves DEF Refuse, Crash, Finish, Goto, Way
    <3> QED
      BY <3>1, <3>2, TrackQuit
  <2> QED
    BY <2>1, <2>2, <2>3, <2>4, <2>5, <2>6, <2>7, <2>8, <2>9, <2>10, <2>11, <2>12 DEF Step
<1> QED
  BY <1>1, <1>2

TrackInvIfSplit == ~Transactional => TrackInv

LEMMA TrackInvariant == ASSUME Alone PROVE Spec => []TrackInvIfSplit
<1>1. Init => TypeInv /\ Roles /\ Vetted /\ TrackInvIfSplit
  BY TypeInit, OwnInit, TrackInit DEF TrackInvIfSplit
<1>2. TypeInv /\ Roles /\ Vetted /\ TrackInvIfSplit /\ [Next]_vars
      => (TypeInv /\ Roles /\ Vetted /\ TrackInvIfSplit)'
  <2> SUFFICES ASSUME TypeInv, Roles, Vetted, TrackInvIfSplit, [Next]_vars
      PROVE  (TypeInv /\ Roles /\ Vetted /\ TrackInvIfSplit)'
    OBVIOUS
  <2>1. TypeInv' /\ Roles' /\ Vetted'
    BY TypeStep, OwnStep
  <2>2. TrackInvIfSplit'
    BY TrackStep DEF TrackInvIfSplit
  <2> QED
    BY <2>1, <2>2
<1> QED
  BY <1>1, <1>2, PTL DEF Spec

(* A version half applied or half reverted is at the edge of the recorded  *)
(* ones, and there is never one of each: with one request at a time because*)
(* the guards of apply and rollback refuse the other direction before it   *)
(* starts, with transactions because no checkpoint is ever written.        *)
THEOREM PartialIsAtTheEdge ==
  ASSUME Alone \/ Transactional PROVE Spec => []PartialAtTheEdge
<1>1. CASE Transactional
  <2>1. ChainInvIfTransactional => PartialAtTheEdge
    BY <1>1 DEF ChainInvIfTransactional, ChainInv, NoProgress, PartialAtTheEdge, IncompleteUp,
         IncompleteDown
  <2> QED
    BY <2>1, ChainInvariant, PTL
<1>2. CASE Alone /\ ~Transactional
  <2>1. TrackInvIfSplit => PartialAtTheEdge
    BY <1>2 DEF TrackInvIfSplit, TrackInv
  <2>2. Spec => []TrackInvIfSplit
    BY <1>2, TrackInvariant
  <2> QED
    BY <2>1, <2>2, PTL
<1> QED
  BY <1>1, <1>2

-----------------------------------------------------------------------------
(* What r knows of the schema: a statement between its execution and its   *)
(* record has happened and is not known to have happened.                  *)
Known(r) ==
  IF pc[r] # "ack" THEN phys
  ELSE IF ctx[r].phase = "up" THEN phys \ InFlight(r) ELSE phys \cup InFlight(r)
Flight(r) ==
  pc[r] = "ack" =>
    IF ctx[r].phase = "up" THEN InFlight(r) \subseteq phys ELSE InFlight(r) \cap phys = {}

(* The next statement is a single one.                                     *)
LEMMA FrontierSingle ==
  ASSUME NEW c \in Ctx, c.cur \in Versions, c.phase \in {"up", "down", "undo"},
         NEW i \in Frontier(c)
  PROVE  Frontier(c) = {i}
<1>1. \A j \in Frontier(c) : j \in 1..Size[c.cur]
  BY FrontierTypes
<1>2. \A j \in Frontier(c) : IF c.phase = "up" THEN i <= j /\ j <= i ELSE i >= j /\ j >= i
  BY DEF Frontier
<1>3. \A j \in Frontier(c) : j = i
  BY <1>1, <1>2, SizeAssumption
<1> QED
  BY <1>3

LEMMA InFlightSingle ==
  ASSUME TypeInv, NEW r \in Requests, pc[r] = "ack", NEW i \in Frontier(ctx[r])
  PROVE  InFlight(r) = {<<ctx[r].cur, i>>}
<1>1. ctx[r] \in Ctx /\ ctx[r].cur \in Versions /\ ctx[r].phase \in {"up", "down", "undo"}
  BY DEF TypeInv, TypeOK, Placed
<1>2. Frontier(ctx[r]) = {i}
  BY <1>1, FrontierSingle
<1> QED
  BY <1>2 DEF InFlight

(* Executing a statement tells r nothing; recording it does, and losing    *)
(* the answer leaves the schema changed behind its back.                   *)
LEMMA KnownExec ==
  ASSUME TypeInv, NEW r \in Requests, ~Transactional, ExecStatement(r)
  PROVE  Known(r)' = Known(r) /\ Flight(r)' /\ unheard' = unheard
<1>0. /\ pc[r] = "stmt" /\ pc'[r] = "ack" /\ ctx'[r] = ctx[r] /\ ctx[r] \in Ctx
      /\ ctx[r].cur \in Versions /\ ctx[r].phase \in {"up", "down", "undo"}
  BY PathFields, Moves DEF TypeInv, TypeOK, Placed
<1>1. PICK i \in Frontier(ctx[r]) : Applicable(ctx[r], i) /\ phys' = Effect(ctx[r], i)
  BY DEF ExecStatement
<1>2. Frontier(ctx[r]) = {i}
  BY <1>0, FrontierSingle
<1>3. Frontier(ctx[r])' = Frontier(ctx[r])
  BY <1>0 DEF Frontier, Left
<1>4. InFlight(r)' = {<<ctx[r].cur, i>>}
  BY <1>0, <1>2, <1>3 DEF InFlight
<1>5. IF ctx[r].phase = "up"
      THEN phys' = phys \cup {<<ctx[r].cur, i>>} /\ <<ctx[r].cur, i>> \notin phys
      ELSE phys' = phys \ {<<ctx[r].cur, i>>} /\ <<ctx[r].cur, i>> \in phys
  BY <1>1 DEF Effect, Applicable
<1>6. unheard' = unheard
  BY DEF ExecStatement, ghosts
<1> QED
  BY <1>0, <1>4, <1>5, <1>6 DEF Known, Flight

LEMMA KnownRecord ==
  ASSUME TypeInv, NEW r \in Requests, Flight(r), RecordStatement(r), NEW i \in Frontier(ctx[r])
  PROVE  /\ Known(r)' = IF ctx[r].phase = "up" THEN Known(r) \cup {<<ctx[r].cur, i>>}
                                               ELSE Known(r) \ {<<ctx[r].cur, i>>}
         /\ Flight(r)' /\ unheard' = unheard
<1>1. pc[r] = "ack" /\ pc'[r] = "stmt"
  BY Moves
<1>2. phys' = phys /\ unheard' = unheard
  BY DEF RecordStatement, target, ghosts
<1>3. InFlight(r) = {<<ctx[r].cur, i>>}
  BY <1>1, InFlightSingle
<1> QED
  BY <1>1, <1>2, <1>3 DEF Known, Flight

LEMMA KnownLost ==
  ASSUME TypeInv, NEW r \in Requests, Flight(r), pc[r] = "ack", LoseAck(r) \/ Crash(r)
  PROVE  /\ Known(r)' = IF ctx[r].phase = "up" THEN Known(r) \cup InFlight(r)
                                               ELSE Known(r) \ InFlight(r)
         /\ Flight(r)' /\ unheard' = unheard \cup Unrecorded(r) /\ pc'[r] \in {"unlock", "idle"}
<1>1. pc \in [Requests -> PC]
  BY DEF TypeInv, TypeOK
<1>2. phys' = phys /\ unheard' = unheard \cup Unrecorded(r) /\ pc'[r] \in {"unlock", "idle"}
  BY <1>1 DEF LoseAck, Crash, target, Goto, Finish
<1> QED
  BY <1>2 DEF Known, Flight

LEMMA KnownSame ==
  ASSUME TypeInv, NEW r \in Requests, ~Transactional,
         Begin(r) \/ Step(r) \/ Crash(r), ~ExecStatement(r), pc[r] # "ack"
  PROVE  /\ pc'[r] # "ack" /\ phys' = phys /\ unheard' = unheard
         /\ Known(r)' = Known(r) /\ Flight(r)'
<1>0. pc \in [Requests -> PC]
  BY DEF TypeInv, TypeOK
<1>1. Unrecorded(r) = {}
  BY DEF Unrecorded, InFlight
<1>2. ~RecordStatement(r) /\ ~LoseAck(r)
  BY DEF RecordStatement, LoseAck
<1>3. phys' = phys /\ unheard' = unheard
  BY <1>1, <1>2 DEF Begin, BeginApply, BeginRollback, BeginStamp, BeginReconcile, Step, Guard,
       Refuse, WriteRevisionFiles, AcquireLock, NextVersion, StampLedger, Fail, Commit,
       ClearProgress, UndoFinished, ReleaseLock, SettleApply, SettleUndo, ReadVersion,
       SetModelVersion, SetQuarantine, ForgetProgress, Crash, target, ghosts
<1>4. pc'[r] # "ack"
  <2>1. CASE Begin(r) \/ Guard(r) \/ NextVersion(r)
    BY <2>1, BeginFields, GuardFields, NextFields
  <2>2. CASE Refuse(r) \/ ForgetProgress(r) \/ Crash(r)
    BY <1>0, <2>2 DEF Refuse, ForgetProgress, Crash, Finish, Goto
  <2> QED
    BY <1>2, <2>1, <2>2, Moves DEF Step
<1> QED
  BY <1>3, <1>4 DEF Known, Flight

-----------------------------------------------------------------------------
(* Below a checkpoint, and below the position of a request going up, no    *)
(* statement is missing -- until the reverse of a reconciliation goes      *)
(* unrecorded.                                                             *)
NoGap(r) ==
  ~ReverseUnheard =>
    /\ \A v \in IncompleteUp : \A j \in 1..ckUp[v] : <<v, j>> \in Known(r)
    /\ At(r, "up", {"stmt", "ack"}) => \A j \in 1..ctx[r].pos : <<ctx[r].cur, j>> \in Known(r)
GapInv == \A r \in Requests : Flight(r) /\ NoGap(r)

LEMMA UnheardGrows ==
  ASSUME NEW more, unheard' = unheard \cup more, ~ReverseUnheard'
  PROVE  ~ReverseUnheard /\ \A u \in more : u[1] # "undo"
BY DEF ReverseUnheard

LEMMA GapRecord ==
  ASSUME TypeInv, TrackInv, GapInv, NEW r \in Requests, RecordStatement(r)
  PROVE  Flight(r)' /\ NoGap(r)'
<1> DEFINE v == ctx[r].cur
<1>0. /\ ctx[r] \in Ctx /\ ckUp \in [Versions -> Nat] /\ pc[r] = "ack" /\ pc'[r] = "stmt"
      /\ Same(r) /\ v \in Versions /\ ctx[r].phase \in {"up", "down", "undo"}
      /\ ctx[r].pos \in Nat /\ Size[v] \in Nat
  BY SizeAssumption, Moves, SameFields DEF TypeInv, TypeOK, Placed, Ctx
<1>1. PICK i \in Frontier(ctx[r]) :
        /\ ctx'[r].pos = After(ctx[r], i)
        /\ ckUp' = IF v \in Resumable /\ ctx[r].phase # "down"
                   THEN [ckUp EXCEPT ![v] = After(ctx[r], i)] ELSE ckUp
  BY PathFields
<1>2. /\ Known(r)' = IF ctx[r].phase = "up" THEN Known(r) \cup {<<v, i>>}
                                            ELSE Known(r) \ {<<v, i>>}
      /\ Flight(r)' /\ unheard' = unheard
  BY KnownRecord DEF GapInv
<1>3. SUFFICES ASSUME ~ReverseUnheard' PROVE NoGap(r)'
  BY <1>2 DEF NoGap
<1>4. /\ \A w \in IncompleteUp : \A j \in 1..ckUp[w] : <<w, j>> \in Known(r)
      /\ At(r, "up", {"stmt", "ack"}) => \A j \in 1..ctx[r].pos : <<v, j>> \in Known(r)
  BY <1>2, <1>3 DEF GapInv, NoGap, ReverseUnheard
<1>5. OnTrack(r)
  BY DEF TrackInv, Track
<1>6. \A w \in IncompleteUp' : w # v => w \in IncompleteUp /\ ckUp'[w] = ckUp[w]
  BY <1>0, <1>1 DEF IncompleteUp
<1>7. CASE ctx[r].phase = "up"
  <2>1. i = ctx[r].pos + 1
    <3>1. i \in 1..Size[v] /\ i > ctx[r].pos
      BY <1>7 DEF Frontier, Left
    <3>2. ctx[r].pos + 1 \in Left(ctx[r])
      BY <1>0, <1>7, <3>1 DEF Left
    <3>3. i <= ctx[r].pos + 1
      BY <1>7, <3>2 DEF Frontier
    <3> QED
      BY <1>0, <3>1, <3>3
  <2>2. After(ctx[r], i) = i
    BY <1>7 DEF After
  <2>3. \A j \in 1..i : <<v, j>> \in Known(r)'
    <3>1. \A j \in 1..i : j = i \/ j \in 1..ctx[r].pos
      BY <1>0, <2>1
    <3> QED
      BY <1>0, <1>2, <1>4, <1>7, <3>1 DEF At
  <2>4. ASSUME NEW w \in IncompleteUp' PROVE \A j \in 1..ckUp'[w] : <<w, j>> \in Known(r)'
    <3>1. CASE w # v
      BY <1>2, <1>4, <1>6, <1>7, <3>1
    <3>2. CASE w = v /\ v \in Resumable
      <4>1. ckUp'[v] = i
        BY <1>0, <1>1, <1>7, <2>2, <3>2
      <4> QED
        BY <2>3, <3>2, <4>1
    <3>3. CASE w = v /\ v \notin Resumable
      <4>1. ckUp' = ckUp
        BY <1>1, <3>3
      <4>2. v \in IncompleteUp
        BY <3>3, <4>1 DEF IncompleteUp
      <4> QED
        BY <1>2, <1>4, <1>7, <3>3, <4>1, <4>2
    <3> QED
      BY <3>1, <3>2, <3>3
  <2>5. ctx'[r].pos = i /\ ctx'[r].cur = v
    BY <1>0, <1>1, <2>2 DEF Same
  <2> QED
    BY <2>3, <2>4, <2>5 DEF NoGap
<1>8. CASE ctx[r].phase = "down"
  <2>1. IncompleteUp = {} /\ ckUp' = ckUp
    BY <1>0, <1>1, <1>5, <1>8 DEF OnTrack, OneSided, At, Way
  <2>2. IncompleteUp' = {}
    BY <2>1 DEF IncompleteUp
  <2> QED
    BY <1>0, <1>8, <2>2 DEF NoGap, At, Same
<1>9. CASE ctx[r].phase = "undo"
  <2>1. v \in Resumable /\ ckUp[v] = ctx[r].pos /\ ctx[r].pos < Size[v]
    BY <1>0, <1>5, <1>9 DEF OnTrack, AtCheckpoint, UndoAtCheckpoint, At
  <2>2. i \in 1..Size[v] /\ i <= ctx[r].pos
    BY <1>0, <1>9, ReversibleFinite DEF Frontier, Left
  <2>3. ckUp'[v] = i - 1 /\ v \in IncompleteUp
    BY <1>0, <1>1, <1>9, <2>1, <2>2 DEF After, IncompleteUp
  <2>4. ASSUME NEW w \in IncompleteUp', NEW j \in 1..ckUp'[w] PROVE <<w, j>> \in Known(r)'
    <3>1. CASE w # v
      BY <1>2, <1>4, <1>6, <1>9, <3>1
    <3>2. CASE w = v
      <4>1. j \in 1..ckUp[v] /\ j # i
        BY <1>0, <2>1, <2>2, <2>3, <3>2
      <4> QED
        BY <1>2, <1>4, <1>9, <2>3, <3>2, <4>1
    <3> QED
      BY <3>1, <3>2
  <2> QED
    BY <1>0, <1>9, <2>4 DEF NoGap, At, Same
<1> QED
  BY <1>0, <1>7, <1>8, <1>9

LEMMA GapLost ==
  ASSUME TypeInv, TrackInv, GapInv, NEW r \in Requests, pc[r] = "ack", LoseAck(r) \/ Crash(r)
  PROVE  Flight(r)' /\ NoGap(r)'
<1>1. /\ Known(r)' = IF ctx[r].phase = "up" THEN Known(r) \cup InFlight(r)
                                            ELSE Known(r) \ InFlight(r)
      /\ Flight(r)' /\ unheard' = unheard \cup Unrecorded(r) /\ pc'[r] \in {"unlock", "idle"}
  BY KnownLost DEF GapInv
<1>2. ckUp' = ckUp
  BY DEF LoseAck, Crash, progress
<1>3. IncompleteUp' = IncompleteUp
  BY <1>2 DEF IncompleteUp
<1>4. SUFFICES ASSUME ~ReverseUnheard', NEW v \in IncompleteUp, NEW j \in 1..ckUp[v]
      PROVE  <<v, j>> \in Known(r)'
  BY <1>1, <1>2, <1>3 DEF NoGap, At
<1>5. ~ReverseUnheard /\ \A u \in Unrecorded(r) : u[1] # "undo"
  BY <1>1, <1>4, UnheardGrows
<1>6. <<v, j>> \in Known(r)
  BY <1>4, <1>5 DEF GapInv, NoGap
<1>7. ctx[r].phase # "down"
  <2>1. OnTrack(r)
    BY DEF TrackInv, Track
  <2> QED
    BY <1>4, <2>1 DEF OnTrack, OneSided, At, Way
<1>8. ctx[r].phase = "undo" => InFlight(r) = {}
  <2>1. \A s \in InFlight(r) : <<ctx[r].phase, s>> \in Unrecorded(r)
    BY DEF Unrecorded
  <2> QED
    BY <1>5, <2>1
<1>9. ctx[r].phase \in {"up", "down", "undo"}
  BY DEF TypeInv, Placed
<1> QED
  BY <1>1, <1>6, <1>7, <1>8, <1>9

(* The steps that neither execute nor record anything.                     *)
LEMMA GapSame ==
  ASSUME TypeInv, TrackInv, GapInv, ~Transactional, NEW r \in Requests,
         Begin(r) \/ Step(r) \/ Crash(r), ~ExecStatement(r), pc[r] # "ack"
  PROVE  Flight(r)' /\ NoGap(r)'
<1>0. pc \in [Requests -> PC] /\ ctx[r] \in Ctx /\ ckUp \in [Versions -> Nat]
      /\ ledger \in 0..NV /\ NV \in Nat
  BY SizeAssumption DEF TypeInv, TypeOK
<1>1. pc'[r] # "ack" /\ Known(r)' = Known(r) /\ Flight(r)' /\ unheard' = unheard
  BY KnownSame
<1>2. ~RecordStatement(r) /\ ~LoseAck(r)
  BY DEF RecordStatement, LoseAck
<1>3. SUFFICES ASSUME ~ReverseUnheard' PROVE NoGap(r)'
  BY <1>1 DEF NoGap
<1>4. \A v \in IncompleteUp : \A j \in 1..ckUp[v] : <<v, j>> \in Known(r)
  BY <1>1, <1>3 DEF GapInv, NoGap, ReverseUnheard
<1>5. \A v \in IncompleteUp' : v \in IncompleteUp /\ ckUp'[v] = ckUp[v]
  <2>1. CASE ClearProgress(r)
    <3>1. ckUp' = ckUp \/ ckUp' = [ckUp EXCEPT ![ctx[r].cur] = 0]
      BY <2>1 DEF ClearProgress
    <3> QED
      BY <1>0, <3>1 DEF IncompleteUp
  <2>2. CASE ForgetProgress(r)
    BY <2>2 DEF ForgetProgress, IncompleteUp
  <2>3. CASE ~ClearProgress(r) /\ ~ForgetProgress(r)
    <3>1. ckUp' = ckUp
      BY <1>2, <2>3 DEF Begin, BeginApply, BeginRollback, BeginStamp, BeginReconcile, Step, Guard,
           Refuse, WriteRevisionFiles, AcquireLock, NextVersion, StampLedger, ExecStatement, Fail,
           Commit, UndoFinished, ReleaseLock, SettleApply, SettleUndo, ReadVersion,
           SetModelVersion, SetQuarantine, Crash, progress
    <3> QED
      BY <3>1 DEF IncompleteUp
  <2> QED
    BY <2>1, <2>2, <2>3
<1>6. ASSUME pc'[r] = "stmt", ctx'[r].phase = "up"
      PROVE  \A j \in 1..ctx'[r].pos : <<ctx'[r].cur, j>> \in Known(r)
  <2>1. NextVersion(r)
    <3>1. ~Begin(r) /\ ~Guard(r)
      BY <1>6, BeginFields, GuardFields
    <3>2. ~AcquireLock(r)
      BY <1>6, Moves, SameFields DEF Same
    <3>3. ~Refuse(r) /\ ~ForgetProgress(r) /\ ~Crash(r)
      BY <1>0, <1>6 DEF Refuse, ForgetProgress, Crash, Finish, Goto
    <3> QED
      BY <1>2, <1>6, <3>1, <3>2, <3>3, Moves DEF Step
  <2>2. /\ pc[r] = "run" /\ ctx[r].phase = "up" /\ ctx'[r].cur = ledger + 1
        /\ ledger + 1 \in Versions /\ ctx'[r].pos = ctx[r].offUp[ledger + 1]
    BY <1>6, <2>1, NextFields
  <2>3. OffsetsFit(r)
    BY DEF TrackInv, Track, OnTrack
  <2>4. ctx'[r].pos = OffsetUp(ledger + 1)
    BY <1>0, <2>2, <2>3 DEF OffsetsFit, At
  <2>5. CASE ledger + 1 \in IncompleteUp /\ ctx'[r].pos = ckUp[ledger + 1]
    BY <1>4, <2>2, <2>5
  <2>6. CASE ctx'[r].pos = 0
    BY <2>6
  <2> QED
    BY <2>4, <2>5, <2>6 DEF OffsetUp
<1> QED
  BY <1>1, <1>4, <1>5, <1>6 DEF NoGap, At

(* A request that waits for an answer records it, loses it or is gone.     *)
LEMMA AckSteps ==
  ASSUME TypeInv, NEW r \in Requests, pc[r] = "ack", Begin(r) \/ Step(r) \/ Crash(r)
  PROVE  RecordStatement(r) \/ LoseAck(r) \/ Crash(r)
<1>1. SUFFICES ASSUME ~Crash(r) PROVE RecordStatement(r) \/ LoseAck(r)
  OBVIOUS
<1>2. ~Begin(r)
  BY DEF Begin, BeginApply, BeginRollback, BeginStamp, BeginReconcile
<1>3. ~Guard(r) /\ ~NextVersion(r) /\ ~Refuse(r) /\ ~ForgetProgress(r)
  BY DEF Guard, NextVersion, Refuse, ForgetProgress
<1> QED
  BY <1>1, <1>2, <1>3, Moves DEF Step

LEMMA GapStep ==
  ASSUME Alone, ~Transactional, TypeInv, TrackInv, GapInv, [Next]_vars
  PROVE  GapInv'
<1>1. CASE UNCHANGED vars
  <2>1. UNCHANGED <<phys, ckUp, pc, ctx, unheard>>
    BY <1>1 DEF vars
  <2>2. \A q : InFlight(q)' = InFlight(q)
    BY <2>1 DEF InFlight, Frontier, Left
  <2>3. \A q : Known(q)' = Known(q)
    BY <2>1, <2>2 DEF Known
  <2> QED
    BY <2>1, <2>2, <2>3 DEF GapInv, Flight, NoGap, ReverseUnheard, IncompleteUp, At
<1>2. CASE Next
  <2>1. PICK r \in Requests : Begin(r) \/ Step(r) \/ Crash(r)
    BY <1>2 DEF Next
  <2>2. CASE ExecStatement(r)
    <3>1. Known(r)' = Known(r) /\ Flight(r)' /\ unheard' = unheard
      BY <2>2, KnownExec
    <3>2. ckUp' = ckUp /\ ctx'[r] = ctx[r] /\ pc'[r] = "ack" /\ pc[r] = "stmt"
      BY <2>2, PathFields, Moves DEF ExecStatement, progress
    <3>3. NoGap(r)'
      BY <3>1, <3>2 DEF GapInv, NoGap, ReverseUnheard, IncompleteUp, At
    <3> QED
      BY <3>1, <3>3 DEF GapInv, Alone
  <2>3. CASE RecordStatement(r)
    BY <2>3, GapRecord DEF GapInv, Alone
  <2>4. CASE pc[r] = "ack" /\ (LoseAck(r) \/ Crash(r))
    BY <2>4, GapLost DEF GapInv, Alone
  <2>5. CASE ~ExecStatement(r) /\ pc[r] # "ack"
    BY <2>1, <2>5, GapSame DEF GapInv, Alone
  <2>6. pc[r] = "ack" => RecordStatement(r) \/ LoseAck(r) \/ Crash(r)
    BY <2>1, AckSteps
  <2> QED
    BY <2>2, <2>3, <2>4, <2>5, <2>6
<1> QED
  BY <1>1, <1>2

LEMMA GapInit == Init => GapInv
<1> SUFFICES ASSUME Init PROVE GapInv
  OBVIOUS
<1>1. \A r \in Requests : pc[r] = "idle"
  BY DEF Init
<1>2. IncompleteUp = {}
  BY DEF Init, IncompleteUp
<1> QED
  BY <1>1, <1>2 DEF GapInv, Flight, NoGap, At

(* A resumed version misses nothing below the point where it resumes,      *)
(* whatever crashed or went unanswered before: a lost acknowledgement of   *)
(* an up statement costs a repetition, never a gap.                        *)
THEOREM ResumesSoundly == ASSUME Alone PROVE Spec => []ResumeSound
<1>1. CASE Transactional
  <2>1. ResumeSound
    BY <1>1 DEF ResumeSound, ResumeNeverSkips
  <2> QED
    BY <2>1, PTL
<1>2. CASE ~Transactional
  <2>1. Init => TypeInv /\ GapInv
    BY TypeInit, GapInit
  <2>2. TypeInv /\ TrackInvIfSplit /\ GapInv /\ [Next]_vars => TypeInv' /\ GapInv'
    BY <1>2, TypeStep, GapStep DEF TrackInvIfSplit
  <2>3. GapInv => ResumeSound
    <3> SUFFICES ASSUME GapInv, ~ReverseUnheard, NEW r \in Requests,
                        pc[r] = "stmt", ctx[r].phase = "up"
        PROVE  {ctx[r].cur} \X (1..ctx[r].pos) \subseteq phys
      BY DEF ResumeSound, ResumeNeverSkips
    <3>1. \A j \in 1..ctx[r].pos : <<ctx[r].cur, j>> \in Known(r)
      BY DEF GapInv, NoGap, At
    <3> QED
      BY <3>1 DEF Known
  <2> QED
    BY <2>1, <2>2, <2>3, TrackInvariant, PTL DEF Spec
<1> QED
  BY <1>1, <1>2

-----------------------------------------------------------------------------
(* The ranks of a down list are those of its positions.                    *)
LEMMA RankBound ==
  ASSUME NEW v \in Versions, NEW i \in Reversible(v)
  PROVE  Rank(v, i) \in Nat /\ 1 <= Rank(v, i) /\ Rank(v, i) <= DownSize(v) /\ DownSize(v) \in Nat
<1>1. {j \in Reversible(v) : j >= i} \in SUBSET Reversible(v)
  OBVIOUS
<1>2. Rank(v, i) <= DownSize(v)
  BY <1>1, ReversibleFinite, FS_Subset DEF Rank, DownSize
<1> QED
  BY <1>2, RankPositive, DownSizeType

LEMMA RankFalls ==
  ASSUME NEW v \in Versions, NEW i \in Reversible(v), NEW j \in Reversible(v), j < i
  PROVE  Rank(v, i) < Rank(v, j)
<1> DEFINE I == {k \in Reversible(v) : k >= i}
           J == {k \in Reversible(v) : k >= j}
<1>0. Reversible(v) \subseteq Int
  BY ReversibleFinite, SizeAssumption
<1>1. I \subseteq J /\ j \in J /\ j \notin I
  BY <1>0
<1>2. IsFiniteSet(J)
  BY ReversibleFinite, FS_Subset
<1>3. Cardinality(I) <= Cardinality(J) /\ Cardinality(I) # Cardinality(J)
  BY <1>1, <1>2, FS_Subset
<1> QED
  BY <1>3, RankPositive DEF Rank

LEMMA NoDownList ==
  ASSUME NEW v \in Versions, DownSize(v) = 0
  PROVE  Reversible(v) = {}
BY ReversibleFinite, FS_EmptySet DEF DownSize

(* What the books must mean, for what is known (K) and what went unheard   *)
(* (U).  Above the recorded version: beyond the checkpoint k nothing       *)
(* reversible is there, except what went unheard; a full checkpoint is of  *)
(* a version that is all there, or not at all.  Up to it: of the down list *)
(* the first k are gone and all the rest is there, with the same exception.*)
NotYet(K, U, v, k) == \A i \in Reversible(v) : i > k /\ <<v, i>> \in K => <<v, i>> \in U
Done(K, v) == \A i \in 1..Size[v] : <<v, i>> \in K
Above(K, U, v, k) ==
  IF k < Size[v] THEN NotYet(K, U, v, k) ELSE Done(K, v) \/ NotYet(K, U, v, 0)
Reverted(K, v, k) == \A i \in Reversible(v) : Rank(v, i) <= k => <<v, i>> \notin K
There(K, U, v, k) ==
  \A i \in 1..Size[v] : (i \in Reversible(v) => Rank(v, i) > k) => <<v, i>> \in K \cup U
Below(K, U, v, k) ==
  IF k < DownSize(v) \/ DownSize(v) = 0
  THEN Reverted(K, v, k) /\ There(K, U, v, k)
  ELSE There(K, U, v, 0) \/ Reverted(K, v, DownSize(v))

LEMMA BooksAgree ==
  ASSUME NEW v \in Versions, NEW K, NEW L, NEW U, NEW k,
         \A i \in 1..Size[v] : <<v, i>> \in L <=> <<v, i>> \in K
  PROVE  /\ Above(K, U, v, k) => Above(L, U, v, k)
         /\ Below(K, U, v, k) => Below(L, U, v, k)
<1>1. Reversible(v) \subseteq 1..Size[v]
  BY ReversibleFinite
<1>2. \A n : NotYet(K, U, v, n) => NotYet(L, U, v, n)
  BY <1>1 DEF NotYet
<1>3. Done(K, v) => Done(L, v)
  BY DEF Done
<1>4. \A n : Reverted(K, v, n) => Reverted(L, v, n)
  BY <1>1 DEF Reverted
<1>5. \A n : There(K, U, v, n) => There(L, U, v, n)
  BY DEF There
<1> QED
  BY <1>2, <1>3, <1>4, <1>5 DEF Above, Below

(* Statements S that happened and went unheard, forwards and backwards.    *)
LEMMA BooksLostUp ==
  ASSUME NEW v \in Versions, NEW K, NEW U, NEW S, NEW k
  PROVE  /\ Above(K, U, v, k) => Above(K \cup S, U \cup S, v, k)
         /\ (\A i \in 1..Size[v] : <<v, i>> \notin S) /\ Below(K, U, v, k)
              => Below(K \cup S, U \cup S, v, k)
<1>1. Reversible(v) \subseteq 1..Size[v]
  BY ReversibleFinite
<1>2. \A n : NotYet(K, U, v, n) => NotYet(K \cup S, U \cup S, v, n)
  BY <1>1 DEF NotYet
<1>3. Done(K, v) => Done(K \cup S, v)
  BY DEF Done
<1>4. \A n : (\A i \in 1..Size[v] : <<v, i>> \notin S) /\ Reverted(K, v, n) => Reverted(K \cup S, v, n)
  BY <1>1 DEF Reverted
<1>5. \A n : There(K, U, v, n) => There(K \cup S, U \cup S, v, n)
  BY DEF There
<1> QED
  BY <1>2, <1>3, <1>4, <1>5 DEF Above, Below

LEMMA BooksLostDown ==
  ASSUME NEW v \in Versions, NEW K, NEW U, NEW S, NEW k
  PROVE  /\ Below(K, U, v, k) => Below(K \ S, U \cup S, v, k)
         /\ (\A i \in 1..Size[v] : <<v, i>> \notin S) /\ Above(K, U, v, k)
              => Above(K \ S, U \cup S, v, k)
<1>1. Reversible(v) \subseteq 1..Size[v]
  BY ReversibleFinite
<1>2. \A n : NotYet(K, U, v, n) => NotYet(K \ S, U \cup S, v, n)
  BY <1>1 DEF NotYet
<1>3. (\A i \in 1..Size[v] : <<v, i>> \notin S) /\ Done(K, v) => Done(K \ S, v)
  BY DEF Done
<1>4. \A n : Reverted(K, v, n) => Reverted(K \ S, v, n)
  BY <1>1 DEF Reverted
<1>5. \A n : There(K, U, v, n) => There(K \ S, U \cup S, v, n)
  BY DEF There
<1> QED
  BY <1>2, <1>3, <1>4, <1>5 DEF Above, Below

(* One more statement recorded: i goes forwards from position k; i is      *)
(* reversed, the highest of those of rank above k; i is reversed by a      *)
(* reconciliation, the highest up to k.                                    *)
LEMMA BooksUp ==
  ASSUME NEW v \in Versions, NEW K, NEW U, NEW k \in Nat, NEW i \in 1..Size[v], i = k + 1,
         NotYet(K, U, v, k)
  PROVE  NotYet(K \cup {<<v, i>>}, U, v, i)
<1>1. Reversible(v) \subseteq Int
  BY ReversibleFinite, SizeAssumption
<1> QED
  BY <1>1 DEF NotYet

LEMMA BooksDown ==
  ASSUME NEW v \in Versions, NEW K, NEW U, NEW k \in Nat, NEW i \in Reversible(v),
         Rank(v, i) > k, \A j \in Reversible(v) : Rank(v, j) > k => i >= j,
         Reverted(K, v, k), There(K, U, v, k)
  PROVE  /\ Reverted(K \ {<<v, i>>}, v, Rank(v, i))
         /\ There(K \ {<<v, i>>}, U, v, Rank(v, i))
<1>0. Reversible(v) \subseteq Int /\ \A j \in Reversible(v) : Rank(v, j) \in Nat
  BY ReversibleFinite, SizeAssumption, RankBound
<1>1. ASSUME NEW j \in Reversible(v), Rank(v, j) <= Rank(v, i)
      PROVE  <<v, j>> \notin K \ {<<v, i>>}
  <2>1. CASE Rank(v, j) <= k
    BY <2>1 DEF Reverted
  <2>2. CASE Rank(v, j) > k
    <3>1. ~(j < i)
      BY <1>0, <1>1, RankFalls
    <3>2. j = i
      BY <1>0, <2>2, <3>1
    <3> QED
      BY <3>2
  <2> QED
    BY <1>0, <2>1, <2>2
<1>2. ASSUME NEW j \in 1..Size[v], j \in Reversible(v) => Rank(v, j) > Rank(v, i)
      PROVE  <<v, j>> \in (K \ {<<v, i>>}) \cup U
  <2>1. j # i
    BY <1>0, <1>2
  <2>2. j \in Reversible(v) => Rank(v, j) > k
    BY <1>0, <1>2
  <2> QED
    BY <2>1, <2>2 DEF There
<1> QED
  BY <1>1, <1>2 DEF Reverted, There

LEMMA BooksUndo ==
  ASSUME NEW v \in Versions, NEW K, NEW U, NEW k \in Nat, NEW i \in Reversible(v),
         \A j \in Reversible(v) : j <= k => i >= j, NotYet(K, U, v, k)
  PROVE  NotYet(K \ {<<v, i>>}, U, v, i - 1)
<1>1. Reversible(v) \subseteq Int
  BY ReversibleFinite, SizeAssumption
<1> QED
  BY <1>1 DEF NotYet

(* The end of a version: what was all done counts as recorded, what was    *)
(* all reverted as not applied, whatever the other direction left behind.  *)
LEMMA BooksDone ==
  ASSUME NEW v \in Versions, NEW K, NEW U, NEW k \in Nat, Done(K, v),
         ~(0 < k /\ k < DownSize(v))
  PROVE  Below(K, U, v, k)
<1>1. \A n : There(K, U, v, n)
  BY DEF Done, There
<1>2. \A i \in Reversible(v) : Rank(v, i) \in Nat /\ 1 <= Rank(v, i)
  BY RankBound
<1>3. k < DownSize(v) => k = 0
  BY DownSizeType
<1>4. Reverted(K, v, 0)
  BY <1>2 DEF Reverted
<1>5. DownSize(v) = 0 => Reverted(K, v, k)
  BY NoDownList DEF Reverted
<1> QED
  BY <1>1, <1>3, <1>4, <1>5 DEF Below

LEMMA BooksGone ==
  ASSUME NEW v \in Versions, NEW K, NEW U, NEW k, NEW n \in Nat, n >= DownSize(v), Reverted(K, v, n)
  PROVE  Above(K, U, v, k)
<1>1. \A i \in Reversible(v) : Rank(v, i) <= n
  BY RankBound
<1>2. \A m : NotYet(K, U, v, m)
  BY <1>1 DEF Reverted, NotYet
<1> QED
  BY <1>2 DEF Above

-----------------------------------------------------------------------------
(* A stamp that forgets the checkpoints has declared a version first.      *)
Forced(r) ==
  /\ ctx[r].op = "stamp" /\ ctx[r].force /\ pc[r] \in {"unlock", "sync", "mark", "forget"} => declared
  /\ pc[r] = "forget" => ctx[r].op = "stamp" /\ ctx[r].force
  /\ pc[r] = "read" => ctx[r].op # "stamp"

LEMMA ForcedStep ==
  ASSUME TypeInv, Roles, NEW r \in Requests, Forced(r), Begin(r) \/ Step(r) \/ Crash(r)
  PROVE  Forced(r)'
<1>0. pc \in [Requests -> PC] /\ ctx \in [Requests -> Ctx] /\ ctx[r] \in Ctx
  BY DEF TypeInv, TypeOK
<1>1. ctx[r].phase # "none" => ctx[r].op # "stamp"
  <2>1. pc[r] \in PC /\ ctx[r].phase \in {"none", "up", "down", "undo"}
    BY <1>0 DEF Ctx
  <2> QED
    BY <2>1 DEF Roles, At
<1>2. pc[r] \in {"stmt", "ack", "clear"} => ctx[r].phase # "none"
  BY DEF TypeInv, Placed
<1>3. declared => declared'
  BY DEF Begin, BeginApply, BeginRollback, BeginStamp, BeginReconcile, Step, Guard,
       Refuse, WriteRevisionFiles, AcquireLock, NextVersion, StampLedger, ExecStatement,
       RecordStatement, LoseAck, Fail, Commit, ClearProgress, UndoFinished, ReleaseLock,
       SettleApply, SettleUndo, ReadVersion, SetModelVersion, SetQuarantine, ForgetProgress,
       Crash, ghosts
<1>4. CASE Begin(r) \/ Guard(r)
  BY <1>4, BeginFields, GuardFields DEF Forced
<1>5. CASE NextVersion(r)
  BY <1>1, <1>5, NextFields DEF Forced
<1>6. CASE StampLedger(r)
  <2>1. Same(r) /\ pc'[r] = "unlock"
    BY <1>6, SameFields, Moves
  <2>2. ctx[r].force => declared'
    BY <1>6 DEF StampLedger
  <2> QED
    BY <2>1, <2>2 DEF Forced, Same
<1>7. CASE \/ WriteRevisionFiles(r) \/ AcquireLock(r) \/ ExecStatement(r)
           \/ RecordStatement(r) \/ LoseAck(r) \/ Fail(r) \/ Commit(r) \/ ClearProgress(r)
           \/ UndoFinished(r) \/ SetModelVersion(r)
  <2>1. Same(r)
    BY <1>7, SameFields
  <2>2. pc'[r] \in {"unlock", "sync", "mark", "forget"} => pc[r] = "sync" \/ ctx[r].op # "stamp"
    BY <1>1, <1>2, <1>7, Moves
  <2>3. pc'[r] # "forget" /\ pc'[r] # "read"
    BY <1>7, Moves
  <2> QED
    BY <1>3, <2>1, <2>2, <2>3 DEF Forced, Same
<1>8. CASE ReleaseLock(r)
  <2>1. Same(r) /\ pc[r] = "unlock"
    BY <1>8, SameFields, Moves
  <2>2. pc'[r] = CASE ctx[r].op = "stamp" -> "sync"
                   [] ctx[r].phase = "down" -> "read" [] OTHER -> "settle"
    BY <1>0, <1>8 DEF ReleaseLock, Goto
  <2>3. (pc'[r] = "read" => ctx[r].op # "stamp") /\ pc'[r] \in {"sync", "read", "settle"}
    BY <1>1, <2>2
  <2> QED
    BY <1>3, <2>1, <2>3 DEF Forced, Same
<1>9. CASE SettleApply(r)
  <2>1. \/ pc'[r] = "read" /\ ctx'[r] = ctx[r] /\ ctx[r].phase = "up"
        \/ pc'[r] = "lock"
    BY <1>9, PathFields, Moves
  <2> QED
    BY <1>1, <2>1 DEF Forced
<1>10. CASE SettleUndo(r)
  <2>1. \/ pc'[r] = "idle"
        \/ pc'[r] = "read" /\ ctx'[r].op = ctx[r].op /\ ctx[r].op = "apply"
    BY <1>0, <1>10 DEF SettleUndo, Goto, Finish, Ctx
  <2> QED
    BY <2>1 DEF Forced
<1>11. CASE ReadVersion(r)
  <2>1. pc[r] = "read" /\ pc'[r] = "sync" /\ ctx'[r].op = ctx[r].op
    BY <1>0, <1>11 DEF ReadVersion, Goto, Ctx
  <2> QED
    BY <2>1 DEF Forced
<1>12. CASE SetQuarantine(r)
  <2>1. \/ pc'[r] = "idle"
        \/ /\ pc[r] = "mark" /\ pc'[r] = "forget" /\ ctx'[r] = ctx[r]
           /\ ctx[r].op = "stamp" /\ ctx[r].force
    BY <1>0, <1>12 DEF SetQuarantine, Goto, Finish
  <2> QED
    BY <1>3, <2>1 DEF Forced
<1>13. CASE Refuse(r) \/ ForgetProgress(r) \/ Crash(r)
  <2>1. pc'[r] = "idle"
    BY <1>0, <1>13 DEF Refuse, ForgetProgress, Crash, Finish, Goto
  <2> QED
    BY <2>1 DEF Forced
<1> QED
  BY <1>4, <1>5, <1>6, <1>7, <1>8, <1>9, <1>10, <1>11, <1>12, <1>13 DEF Step

(* The books of every resumable version mean what they must, and so does   *)
(* the position of the version being executed -- unless a checkpoint that  *)
(* was full starts it over, where its first statement will fail.           *)
Silent == {u[2] : u \in unheard}
Told(r, v) == IF v <= ledger THEN Below(Known(r), Silent, v, ckDown[v])
                             ELSE Above(Known(r), Silent, v, ckUp[v])
GoesUp(r) ==
  LET c == ctx[r] IN
  \/ NotYet(Known(r), Silent, c.cur, c.pos)
  \/ c.pos = 0 /\ pc[r] = "stmt" /\ <<c.cur, 1>> \in Known(r)
GoesDown(r) ==
  LET c == ctx[r] IN
  \/ Reverted(Known(r), c.cur, c.pos) /\ There(Known(r), Silent, c.cur, c.pos)
  \/ c.pos = 0 /\ pc[r] = "stmt" /\ Reverted(Known(r), c.cur, DownSize(c.cur))
Honest(r) ==
  ~declared /\ ~ReverseUnheard =>
    /\ \A v \in Resumable : Told(r, v)
    /\ ctx[r].cur \in Resumable =>
         /\ At(r, "up", {"stmt", "ack"}) => GoesUp(r)
         /\ At(r, "down", {"stmt", "ack"}) => GoesDown(r)
HonestInv == \A r \in Requests : Forced(r) /\ Honest(r)

LEMMA SilentSame == unheard' = unheard => Silent' = Silent /\ (ReverseUnheard' <=> ReverseUnheard)
BY DEF Silent, ReverseUnheard

LEMMA HonestExec ==
  ASSUME TypeInv, NEW r \in Requests, ~Transactional, Honest(r), ExecStatement(r)
  PROVE  Honest(r)'
<1>0. /\ pc[r] = "stmt" /\ pc'[r] = "ack" /\ ctx'[r] = ctx[r] /\ ctx[r] \in Ctx
      /\ ctx[r].cur \in Versions /\ ctx[r].phase \in {"up", "down", "undo"}
      /\ ctx[r].pos \in Nat /\ Size[ctx[r].cur] \in Nat \ {0}
  BY PathFields, Moves, SizeAssumption DEF TypeInv, TypeOK, Placed, Ctx
<1>1. Known(r)' = Known(r) /\ unheard' = unheard /\ Known(r) = phys
  BY <1>0, KnownExec DEF Known
<1>2. UNCHANGED <<ledger, ckUp, ckDown, declared>>
  BY DEF ExecStatement, progress, ghosts
<1>3. PICK i \in Frontier(ctx[r]) : Applicable(ctx[r], i)
  BY DEF ExecStatement
<1>4. ctx[r].phase = "up" /\ ctx[r].pos = 0 => <<ctx[r].cur, 1>> \notin phys
  <2>1. SUFFICES ASSUME ctx[r].phase = "up", ctx[r].pos = 0 PROVE <<ctx[r].cur, 1>> \notin phys
    OBVIOUS
  <2>2. 1 \in Left(ctx[r]) /\ i \in 1..Size[ctx[r].cur]
    BY <1>0, <2>1 DEF Left, Frontier
  <2>3. i <= 1
    BY <2>1, <2>2 DEF Frontier
  <2>4. i = 1
    BY <1>0, <2>2, <2>3
  <2> QED
    BY <1>3, <2>1, <2>4 DEF Applicable
<1>5. ctx[r].phase = "down" => ~Reverted(phys, ctx[r].cur, DownSize(ctx[r].cur))
  <2>1. SUFFICES ASSUME ctx[r].phase = "down"
        PROVE  ~Reverted(phys, ctx[r].cur, DownSize(ctx[r].cur))
    OBVIOUS
  <2>2. i \in Reversible(ctx[r].cur) /\ <<ctx[r].cur, i>> \in phys
    BY <1>3, <2>1 DEF Frontier, Left, Applicable
  <2> QED
    BY <1>0, <2>2, RankBound DEF Reverted
<1>6. \A v : Told(r, v)' <=> Told(r, v)
  BY <1>1, <1>2, SilentSame DEF Told
<1>7. At(r, "up", {"stmt", "ack"})' /\ GoesUp(r) => GoesUp(r)'
  BY <1>0, <1>1, <1>4, SilentSame DEF GoesUp, At
<1>8. At(r, "down", {"stmt", "ack"})' /\ GoesDown(r) => GoesDown(r)'
  BY <1>0, <1>1, <1>5, SilentSame DEF GoesDown, At
<1> QED
  BY <1>0, <1>1, <1>2, <1>6, <1>7, <1>8, SilentSame DEF Honest, At

LEMMA HonestRecord ==
  ASSUME TypeInv, TrackInv, GapInv, NEW r \in Requests, Honest(r), RecordStatement(r), NoGap(r)'
  PROVE  Honest(r)'
<1> DEFINE v == ctx[r].cur
           K == Known(r)
<1>0. /\ ctx[r] \in Ctx /\ ckUp \in [Versions -> Nat] /\ ckDown \in [Versions -> Nat]
      /\ pc[r] = "ack" /\ pc'[r] = "stmt"
      /\ Same(r) /\ v \in Versions /\ ctx[r].phase \in {"up", "down", "undo"}
      /\ ctx[r].pos \in Nat /\ Size[v] \in Nat /\ ledger \in 0..NV /\ NV \in Nat
  BY SizeAssumption, Moves, SameFields DEF TypeInv, TypeOK, Placed, Ctx
<1>1. PICK i \in Frontier(ctx[r]) :
        /\ ctx'[r].pos = After(ctx[r], i)
        /\ ckUp' = IF v \in Resumable /\ ctx[r].phase # "down"
                   THEN [ckUp EXCEPT ![v] = After(ctx[r], i)] ELSE ckUp
        /\ ckDown' = IF v \in Resumable /\ ctx[r].phase = "down"
                     THEN [ckDown EXCEPT ![v] = After(ctx[r], i)] ELSE ckDown
  BY PathFields
<1>2. /\ Known(r)' = IF ctx[r].phase = "up" THEN K \cup {<<v, i>>} ELSE K \ {<<v, i>>}
      /\ unheard' = unheard
  BY KnownRecord DEF GapInv
<1>3. UNCHANGED <<ledger, declared>>
  BY DEF RecordStatement, target, ghosts
<1>4. SUFFICES ASSUME ~declared, ~ReverseUnheard PROVE Honest(r)'
  BY <1>2, <1>3, SilentSame DEF Honest
<1>5. OnTrack(r) /\ Silent' = Silent /\ ~ReverseUnheard' /\ (\A w \in Resumable : Told(r, w))
      /\ Resumable \subseteq Versions
  BY <1>2, <1>4, SilentSame, ManifestAssumption DEF TrackInv, Track, Honest
<1>6. ASSUME NEW w \in Resumable, w # v PROVE Told(r, w)'
  <2>1. ckUp'[w] = ckUp[w] /\ ckDown'[w] = ckDown[w]
    BY <1>0, <1>1, <1>6, ManifestAssumption
  <2>2. \A j \in 1..Size[w] : <<w, j>> \in Known(r)' <=> <<w, j>> \in K
    BY <1>2, <1>6
  <2>3. Told(r, w) /\ w \in Versions
    BY <1>5
  <2> QED
    BY <1>3, <1>5, <2>1, <2>2, <2>3, BooksAgree DEF Told
<1>7. ctx'[r].cur = v /\ ctx'[r].phase = ctx[r].phase
  BY <1>0 DEF Same
<1>8. i \in 1..Size[v]
  BY <1>0, FrontierTypes
<1>9. CASE v \notin Resumable
  BY <1>6, <1>7, <1>9 DEF Honest
<1>10. CASE v \in Resumable /\ ctx[r].phase = "up"
  <2>1. v = ledger + 1 /\ NotYet(K, Silent, v, ctx[r].pos)
    BY <1>0, <1>4, <1>5, <1>10 DEF OnTrack, Beside, Honest, GoesUp, At
  <2>2. i = ctx[r].pos + 1 /\ After(ctx[r], i) = i
    <3>1. i > ctx[r].pos
      BY <1>10 DEF Frontier, Left
    <3>2. ctx[r].pos + 1 \in Left(ctx[r])
      BY <1>0, <1>8, <1>10, <3>1 DEF Left
    <3>3. i <= ctx[r].pos + 1
      BY <1>10, <3>2 DEF Frontier
    <3> QED
      BY <1>0, <1>8, <1>10, <3>1, <3>3 DEF After
  <2>3. NotYet(Known(r)', Silent, v, i)
    BY <1>0, <1>2, <1>8, <1>10, <2>1, <2>2, BooksUp
  <2>4. ckUp'[v] = i /\ ctx'[r].pos = i
    BY <1>0, <1>1, <1>10, <2>2
  <2>5. i < Size[v] \/ Done(Known(r)', v)
    <3>1. \A j \in 1..i : <<v, j>> \in Known(r)'
      BY <1>0, <1>5, <1>7, <1>10, <2>4 DEF NoGap, At
    <3>2. i < Size[v] \/ i = Size[v]
      BY <1>0, <1>8
    <3> QED
      BY <3>1, <3>2 DEF Done
  <2>6. Told(r, v)'
    BY <1>0, <1>3, <1>5, <1>7, <2>1, <2>3, <2>4, <2>5 DEF Told, Above
  <2>7. GoesUp(r)'
    BY <1>5, <1>7, <2>3, <2>4 DEF GoesUp
  <2> QED
    BY <1>6, <1>7, <1>10, <2>6, <2>7 DEF Honest, At
<1>11. CASE v \in Resumable /\ ctx[r].phase = "down"
  <2>1. v = ledger /\ Reverted(K, v, ctx[r].pos) /\ There(K, Silent, v, ctx[r].pos)
    BY <1>0, <1>4, <1>5, <1>11 DEF OnTrack, Beside, Honest, GoesDown, At
  <2>2. i \in Reversible(v) /\ Rank(v, i) > ctx[r].pos
        /\ \A j \in Reversible(v) : Rank(v, j) > ctx[r].pos => i >= j
    BY <1>11 DEF Frontier, Left
  <2>3. After(ctx[r], i) = Rank(v, i) /\ Rank(v, i) \in Nat /\ DownSize(v) \in Nat
    BY <1>0, <1>11, <2>2, RankBound DEF After
  <2>4. Reverted(Known(r)', v, Rank(v, i)) /\ There(Known(r)', Silent, v, Rank(v, i))
    BY <1>0, <1>2, <1>11, <2>1, <2>2, BooksDown
  <2>5. ckDown'[v] = Rank(v, i) /\ ctx'[r].pos = Rank(v, i)
    BY <1>0, <1>1, <1>11, <2>3
  <2>6. Rank(v, i) >= DownSize(v) => Reverted(Known(r)', v, DownSize(v))
    <3>1. \A j \in Reversible(v) : Rank(v, j) \in Nat
      BY <1>0, RankBound
    <3> QED
      BY <2>3, <2>4, <3>1 DEF Reverted
  <2>7. Told(r, v)'
    BY <1>0, <1>3, <1>5, <1>7, <2>1, <2>3, <2>4, <2>5, <2>6 DEF Told, Below
  <2>8. GoesDown(r)'
    BY <1>5, <1>7, <2>4, <2>5 DEF GoesDown
  <2> QED
    BY <1>6, <1>7, <1>11, <2>7, <2>8 DEF Honest, At
<1>12. CASE v \in Resumable /\ ctx[r].phase = "undo"
  <2>1. v = ledger + 1 /\ ckUp[v] = ctx[r].pos /\ ctx[r].pos < Size[v]
    BY <1>0, <1>4, <1>5, <1>12
       DEF OnTrack, Beside, AtCheckpoint, UndoAtCheckpoint, At
  <2>2. i \in Reversible(v) /\ i <= ctx[r].pos /\ \A j \in Reversible(v) : j <= ctx[r].pos => i >= j
    BY <1>12 DEF Frontier, Left
  <2>3. NotYet(K, Silent, v, ctx[r].pos)
    <3>1. Told(r, v) /\ ~(v <= ledger)
      BY <1>0, <1>5, <1>12, <2>1
    <3> QED
      BY <2>1, <3>1 DEF Told, Above
  <2>4. NotYet(Known(r)', Silent, v, i - 1)
    BY <1>0, <1>2, <1>12, <2>2, <2>3, BooksUndo
  <2>5. ckUp'[v] = i - 1 /\ i - 1 < Size[v]
    BY <1>0, <1>1, <1>8, <1>12 DEF After
  <2>6. Told(r, v)'
    <3>1. ~(v <= ledger)
      BY <1>0, <2>1
    <3> QED
      BY <1>3, <1>5, <1>7, <2>4, <2>5, <3>1 DEF Told, Above
  <2> QED
    BY <1>6, <1>7, <1>12, <2>6 DEF Honest, At
<1> QED
  BY <1>0, <1>9, <1>10, <1>11, <1>12

LEMMA HonestLost ==
  ASSUME TypeInv, TrackInv, GapInv, NEW r \in Requests, Honest(r), pc[r] = "ack",
         LoseAck(r) \/ Crash(r)
  PROVE  Honest(r)'
<1> DEFINE K == Known(r)
           S == InFlight(r)
<1>0. /\ ctx[r] \in Ctx /\ ctx[r].cur \in Versions /\ ctx[r].phase \in {"up", "down", "undo"}
      /\ ledger \in 0..NV /\ NV \in Nat /\ Resumable \subseteq Versions
  BY SizeAssumption, ManifestAssumption DEF TypeInv, TypeOK, Placed
<1>1. /\ Known(r)' = IF ctx[r].phase = "up" THEN K \cup S ELSE K \ S
      /\ unheard' = unheard \cup Unrecorded(r) /\ pc'[r] \in {"unlock", "idle"}
  BY KnownLost DEF GapInv
<1>2. UNCHANGED <<ledger, ckUp, ckDown, declared>>
  BY DEF LoseAck, Crash, target, progress
<1>3. SUFFICES ASSUME ~declared, ~ReverseUnheard', NEW v \in Resumable PROVE Told(r, v)'
  BY <1>1, <1>2 DEF Honest, At
<1>4. ~ReverseUnheard /\ \A u \in Unrecorded(r) : u[1] # "undo"
  BY <1>1, <1>3, UnheardGrows
<1>5. Told(r, v) /\ OnTrack(r)
  BY <1>3, <1>4 DEF Honest, TrackInv, Track
<1>6. Silent' = Silent \cup S
  <2>1. \A s : s \in S <=> <<ctx[r].phase, s>> \in Unrecorded(r)
    BY DEF Unrecorded
  <2>2. \A u \in Unrecorded(r) : u[2] \in S
    BY DEF Unrecorded
  <2>3. Silent' = Silent \cup {u[2] : u \in Unrecorded(r)}
    BY <1>1 DEF Silent
  <2>4. {u[2] : u \in Unrecorded(r)} = S
    <3> HIDE DEF S
    <3>1. \A s : <<ctx[r].phase, s>>[2] = s
      OBVIOUS
    <3> QED
      BY <2>1, <2>2, <3>1
  <2> QED
    BY <2>3, <2>4
<1>7. \A s \in S : s[1] = ctx[r].cur
  BY DEF InFlight
<1>8. v # ctx[r].cur => \A i \in 1..Size[v] : <<v, i>> \notin S
  BY <1>7
<1>9. CASE ctx[r].phase = "up"
  <2>1. ctx[r].cur = ledger + 1
    BY <1>5, <1>9 DEF OnTrack, Beside, At
  <2>2. v <= ledger => v # ctx[r].cur
    BY <1>0, <2>1
  <2>3. /\ Above(K, Silent, v, ckUp[v]) => Above(K \cup S, Silent \cup S, v, ckUp[v])
        /\ v # ctx[r].cur /\ Below(K, Silent, v, ckDown[v])
             => Below(K \cup S, Silent \cup S, v, ckDown[v])
    BY <1>0, <1>3, <1>8, BooksLostUp
  <2>4. Known(r)' = K \cup S
    BY <1>1, <1>9
  <2> QED
    BY <1>2, <1>5, <1>6, <2>2, <2>3, <2>4 DEF Told
<1>10. CASE ctx[r].phase = "down"
  <2>1. ctx[r].cur = ledger
    BY <1>5, <1>10 DEF OnTrack, Beside, At
  <2>2. ~(v <= ledger) => v # ctx[r].cur
    BY <1>0, <2>1
  <2>3. /\ Below(K, Silent, v, ckDown[v]) => Below(K \ S, Silent \cup S, v, ckDown[v])
        /\ v # ctx[r].cur /\ Above(K, Silent, v, ckUp[v])
             => Above(K \ S, Silent \cup S, v, ckUp[v])
    BY <1>0, <1>3, <1>8, BooksLostDown
  <2>4. Known(r)' = K \ S
    BY <1>1, <1>10
  <2> QED
    BY <1>2, <1>5, <1>6, <2>2, <2>3, <2>4 DEF Told
<1>11. CASE ctx[r].phase = "undo"
  <2>1. S = {}
    <3>1. \A s \in S : <<"undo", s>> \in Unrecorded(r)
      BY <1>11 DEF Unrecorded
    <3> QED
      BY <1>4, <3>1
  <2>2. Known(r)' = K /\ Silent' = Silent
    BY <1>1, <1>6, <1>11, <2>1
  <2> QED
    BY <1>2, <1>5, <2>2 DEF Told
<1> QED
  BY <1>0, <1>9, <1>10, <1>11

(* The offset a version is entered with.                                   *)
LEMMA NextOffset ==
  ASSUME TypeInv, TrackInv, NEW r \in Requests, NextVersion(r), pc'[r] = "stmt"
  PROVE  \/ /\ ctx'[r].phase = "up" /\ ctx'[r].cur = ledger + 1 /\ ledger + 1 \in Versions
            /\ ctx'[r].pos = OffsetUp(ledger + 1)
         \/ /\ ctx'[r].phase = "down" /\ ctx'[r].cur = ledger /\ ledger \in Versions
            /\ ctx'[r].pos = OffsetDown(ledger)
<1>0. ledger \in 0..NV /\ NV \in Nat /\ OffsetsFit(r)
  BY SizeAssumption DEF TypeInv, TypeOK, TrackInv, Track, OnTrack
<1>1. CASE ctx[r].phase = "up"
  <2>1. /\ pc[r] = "run" /\ ctx'[r].phase = "up" /\ ctx'[r].cur = ledger + 1
        /\ ledger + 1 \in Versions /\ ctx'[r].pos = ctx[r].offUp[ledger + 1]
    BY <1>1, NextFields
  <2>2. ctx[r].offUp[ledger + 1] = OffsetUp(ledger + 1)
    BY <1>0, <1>1, <2>1 DEF OffsetsFit, At
  <2> QED
    BY <2>1, <2>2
<1>2. CASE ctx[r].phase = "down"
  <2>1. /\ pc[r] = "run" /\ ctx'[r].phase = "down" /\ ctx'[r].cur = ledger
        /\ ledger \in Versions /\ ctx'[r].pos = ctx[r].offDown[ledger]
    BY <1>2, NextFields
  <2>2. ctx[r].offDown[ledger] = OffsetDown(ledger)
    BY <1>0, <1>2, <2>1 DEF OffsetsFit, At
  <2> QED
    BY <2>1, <2>2
<1> QED
  BY <1>1, <1>2, NextFields

LEMMA HonestNext ==
  ASSUME TypeInv, TrackInv, NEW r \in Requests, Honest(r), ~Transactional, NextVersion(r)
  PROVE  Honest(r)'
<1> DEFINE K == Known(r)
<1>0. /\ ledger \in 0..NV /\ NV \in Nat /\ Resumable \subseteq Versions
      /\ ckUp \in [Versions -> Nat] /\ ckDown \in [Versions -> Nat]
  BY SizeAssumption, ManifestAssumption DEF TypeInv, TypeOK
<1>1. UNCHANGED <<ledger, ckUp, ckDown, declared>>
  BY DEF NextVersion, target, progress, ghosts
<1>2. Known(r)' = K /\ unheard' = unheard
  <2>1. pc[r] # "ack" /\ ~ExecStatement(r)
    BY DEF NextVersion, ExecStatement
  <2> QED
    BY <2>1, KnownSame DEF Step
<1>3. SUFFICES ASSUME ~declared, ~ReverseUnheard PROVE Honest(r)'
  BY <1>1, <1>2, SilentSame DEF Honest
<1>4. Silent' = Silent /\ \A v \in Resumable : Told(r, v) /\ Told(r, v)'
  BY <1>1, <1>2, <1>3, SilentSame DEF Honest, Told
<1>5. CASE pc'[r] = "unlock"
  BY <1>4, <1>5 DEF Honest, At
<1>6. CASE /\ pc'[r] = "stmt" /\ ctx'[r].phase = "up"
           /\ ctx'[r].cur = ledger + 1 /\ ledger + 1 \in Versions
           /\ ctx'[r].pos = OffsetUp(ledger + 1)
  <2> DEFINE v == ledger + 1
  <2>1. SUFFICES ASSUME v \in Resumable
        PROVE  \/ NotYet(K, Silent, v, ctx'[r].pos)
               \/ ctx'[r].pos = 0 /\ <<v, 1>> \in K
    BY <1>2, <1>4, <1>6 DEF Honest, GoesUp, At
  <2>2. Above(K, Silent, v, ckUp[v])
    BY <1>0, <1>4, <2>1 DEF Told
  <2>3. ckUp[v] \in Nat /\ Size[v] \in Nat \ {0}
    BY <1>0, <1>6, SizeAssumption
  <2>4. CASE ctx'[r].pos = ckUp[v] /\ ckUp[v] < Size[v]
    BY <2>2, <2>4 DEF Above
  <2>5. CASE ctx'[r].pos = 0 /\ ~(ckUp[v] < Size[v])
    <3>1. Done(K, v) => <<v, 1>> \in K
      BY <2>3 DEF Done
    <3> QED
      BY <2>2, <2>5, <3>1 DEF Above
  <2>6. ctx'[r].pos = IF 0 < ckUp[v] /\ ckUp[v] < Size[v] THEN ckUp[v] ELSE 0
    BY <1>6, <2>1 DEF OffsetUp, IncompleteUp
  <2> QED
    BY <2>3, <2>4, <2>5, <2>6
<1>7. CASE /\ pc'[r] = "stmt" /\ ctx'[r].phase = "down"
           /\ ctx'[r].cur = ledger /\ ledger \in Versions
           /\ ctx'[r].pos = OffsetDown(ledger)
  <2> DEFINE v == ledger
  <2>1. SUFFICES ASSUME v \in Resumable
        PROVE  \/ Reverted(K, v, ctx'[r].pos) /\ There(K, Silent, v, ctx'[r].pos)
               \/ ctx'[r].pos = 0 /\ Reverted(K, v, DownSize(v))
    BY <1>1, <1>2, <1>4, <1>7 DEF Honest, GoesDown, At
  <2>2. Below(K, Silent, v, ckDown[v])
    BY <1>0, <1>4, <2>1 DEF Told
  <2>3. ckDown[v] \in Nat /\ DownSize(v) \in Nat
    BY <1>0, <1>7, DownSizeType
  <2>4. CASE ctx'[r].pos = ckDown[v] /\ (ckDown[v] < DownSize(v) \/ DownSize(v) = 0)
    BY <2>2, <2>4 DEF Below
  <2>5. CASE ctx'[r].pos = 0 /\ ~(ckDown[v] < DownSize(v))
    <3>1. CASE DownSize(v) = 0
      <4>1. Reverted(K, v, DownSize(v))
        BY <1>7, <3>1, NoDownList DEF Reverted
      <4> QED
        BY <2>5, <4>1
    <3>2. CASE DownSize(v) # 0
      <4>1. There(K, Silent, v, 0) \/ Reverted(K, v, DownSize(v))
        BY <2>2, <2>5, <3>2 DEF Below
      <4>2. Reverted(K, v, 0)
        <5>1. \A i \in Reversible(v) : Rank(v, i) \in Nat /\ 1 <= Rank(v, i)
          BY <1>7, RankBound
        <5> QED
          BY <5>1 DEF Reverted
      <4> QED
        BY <2>5, <4>1, <4>2
    <3> QED
      BY <3>1, <3>2
  <2>6. ctx'[r].pos = IF 0 < ckDown[v] /\ ckDown[v] < DownSize(v) THEN ckDown[v] ELSE 0
    BY <1>7, <2>1 DEF OffsetDown, IncompleteDown
  <2> QED
    BY <2>3, <2>4, <2>5, <2>6
<1> QED
  BY <1>5, <1>6, <1>7, NextFields, NextOffset

(* A version whose last statement is recorded is all there, or all gone.   *)
LEMMA HonestCommit ==
  ASSUME TypeInv, TrackInv, GapInv, NEW r \in Requests, Honest(r), ~Transactional, Commit(r)
  PROVE  Honest(r)'
<1> DEFINE v == ctx[r].cur
           K == Known(r)
<1>0. /\ ctx[r] \in Ctx /\ ledger \in 0..NV /\ NV \in Nat /\ Resumable \subseteq Versions
      /\ ckUp \in [Versions -> Nat] /\ ckDown \in [Versions -> Nat]
      /\ pc[r] = "stmt" /\ pc'[r] = "clear" /\ ctx'[r] = ctx[r]
      /\ v \in Versions /\ ctx[r].phase \in {"up", "down"}
      /\ Size[v] \in Nat \ {0} /\ DownSize(v) \in Nat /\ ctx[r].pos \in Nat
  BY SizeAssumption, ManifestAssumption, DownSizeType, Moves, PathFields
     DEF TypeInv, TypeOK, Placed, Ctx
<1>1. UNCHANGED <<ckUp, ckDown, declared>>
      /\ ledger' = IF ctx[r].phase = "up" THEN v ELSE v - 1
  BY DEF Commit, progress, ghosts
<1>2. Known(r)' = K /\ unheard' = unheard
  <2>1. ~ExecStatement(r)
    BY <1>0 DEF Commit, ExecStatement, Frontier
  <2> QED
    BY <1>0, <2>1, KnownSame DEF Step
<1>3. SUFFICES ASSUME ~declared, ~ReverseUnheard, NEW w \in Resumable PROVE Told(r, w)'
  BY <1>0, <1>1, <1>2, SilentSame DEF Honest, At
<1>4. Silent' = Silent /\ Told(r, w) /\ OnTrack(r) /\ w \in Versions
  BY <1>0, <1>2, <1>3, SilentSame DEF Honest, TrackInv, Track
<1>5. IF ctx[r].phase = "up" THEN ctx[r].pos >= Size[v] ELSE ctx[r].pos >= DownSize(v)
  BY <1>0, NothingLeft DEF Commit
<1>6. IF ctx[r].phase = "up" THEN v = ledger + 1 /\ IncompleteDown = {} ELSE v = ledger
  BY <1>0, <1>4 DEF OnTrack, Beside, OneSided, At, Way
<1>7. CASE w # v
  <2>1. w \in Int /\ ledger \in Int
    BY <1>0, <1>4 DEF Versions
  <2>2. CASE ctx[r].phase = "up"
    <3>1. ledger' = ledger + 1 /\ w # ledger + 1
      BY <1>1, <1>6, <1>7, <2>2
    <3>2. w <= ledger' <=> w <= ledger
      BY <2>1, <3>1
    <3> QED
      BY <1>1, <1>2, <1>4, <3>2 DEF Told
  <2>3. CASE ctx[r].phase = "down"
    <3>1. ledger' = ledger - 1 /\ w # ledger
      BY <1>0, <1>1, <1>6, <1>7, <2>3
    <3>2. w <= ledger' <=> w <= ledger
      BY <2>1, <3>1
    <3> QED
      BY <1>1, <1>2, <1>4, <3>2 DEF Told
  <2> QED
    BY <1>0, <2>2, <2>3
<1>8. CASE w = v /\ ctx[r].phase = "up"
  <2>1. Done(K, w)
    <3>1. \A j \in 1..ctx[r].pos : <<v, j>> \in K
      BY <1>0, <1>3, <1>8 DEF GapInv, NoGap, At
    <3>2. \A j \in 1..Size[v] : j \in 1..ctx[r].pos
      BY <1>0, <1>5, <1>8
    <3> QED
      BY <1>8, <3>1, <3>2 DEF Done
  <2>2. ckDown[w] \in Nat /\ ~(0 < ckDown[w] /\ ckDown[w] < DownSize(w))
    BY <1>0, <1>4, <1>6, <1>8 DEF IncompleteDown
  <2>3. Below(K, Silent, w, ckDown[w])
    BY <1>4, <2>1, <2>2, BooksDone
  <2>4. w <= ledger'
    BY <1>0, <1>1, <1>8 DEF Versions
  <2> QED
    BY <1>1, <1>2, <1>4, <2>3, <2>4 DEF Told
<1>9. CASE w = v /\ ctx[r].phase = "down"
  <2>1. DownSize(v) # 0
    BY <1>0, <1>9, LastRank, RankBound DEF Commit
  <2>2. Reverted(K, v, ctx[r].pos)
    BY <1>0, <1>3, <1>5, <1>9, <2>1 DEF Honest, GoesDown, At
  <2>3. Above(K, Silent, w, ckUp[w])
    BY <1>0, <1>5, <1>9, <2>2, BooksGone
  <2>4. ~(w <= ledger')
    BY <1>0, <1>1, <1>9 DEF Versions
  <2> QED
    BY <1>1, <1>2, <1>4, <2>3, <2>4 DEF Told
<1> QED
  BY <1>0, <1>7, <1>8, <1>9

(* A checkpoint is removed where the books no longer look at it.           *)
LEMMA HonestClear ==
  ASSUME TypeInv, TrackInv, Roles, NEW r \in Requests, Honest(r), ~Transactional, ClearProgress(r)
  PROVE  Honest(r)'
<1> DEFINE v == ctx[r].cur
<1>0. /\ ctx[r] \in Ctx /\ ledger \in 0..NV /\ NV \in Nat /\ Resumable \subseteq Versions
      /\ ckUp \in [Versions -> Nat] /\ ckDown \in [Versions -> Nat]
      /\ pc[r] = "clear" /\ pc'[r] = "run" /\ ctx'[r] = ctx[r]
      /\ v \in Versions /\ ctx[r].phase \in {"up", "down", "undo"}
  BY SizeAssumption, ManifestAssumption, Moves, PathFields DEF TypeInv, TypeOK, Placed
<1>1. /\ UNCHANGED <<ledger, declared>>
      /\ IF ctx[r].phase = "up" THEN ckUp' = [ckUp EXCEPT ![v] = 0] /\ ckDown' = ckDown
                                ELSE ckDown' = [ckDown EXCEPT ![v] = 0] /\ ckUp' = ckUp
  BY DEF ClearProgress, target, ghosts
<1>2. Known(r)' = Known(r) /\ unheard' = unheard
  <2>1. ~ExecStatement(r)
    BY <1>0 DEF ExecStatement
  <2> QED
    BY <1>0, <2>1, KnownSame DEF Step
<1>3. SUFFICES ASSUME ~declared, ~ReverseUnheard, NEW w \in Resumable PROVE Told(r, w)'
  BY <1>0, <1>1, <1>2, SilentSame DEF Honest, At
<1>4. Silent' = Silent /\ Told(r, w) /\ OnTrack(r) /\ w \in Versions
  BY <1>0, <1>2, <1>3, SilentSame DEF Honest, TrackInv, Track
<1>5. ctx[r].phase # "undo"
  BY <1>0 DEF Roles, At, PC
<1>6. IF ctx[r].phase = "up" THEN v = ledger ELSE v = ledger + 1
  BY <1>0, <1>4, <1>5 DEF OnTrack, Beside, At
<1>7. /\ w <= ledger => ckDown'[w] = ckDown[w]
      /\ ~(w <= ledger) => ckUp'[w] = ckUp[w]
  <2>1. w # v => ckDown'[w] = ckDown[w] /\ ckUp'[w] = ckUp[w]
    BY <1>0, <1>1, <1>4
  <2>2. w = v /\ ctx[r].phase = "up" => w <= ledger /\ ckDown' = ckDown
    BY <1>0, <1>1, <1>6
  <2>3. w = v /\ ctx[r].phase # "up" => ~(w <= ledger) /\ ckUp' = ckUp
    BY <1>0, <1>1, <1>6
  <2> QED
    BY <2>1, <2>2, <2>3
<1> QED
  BY <1>1, <1>2, <1>4, <1>7 DEF Told

LEMMA HonestSame ==
  ASSUME TypeInv, Roles, NEW r \in Requests, Forced(r), Honest(r), ~Transactional,
         Begin(r) \/ Step(r) \/ Crash(r), pc[r] # "ack",
         ~ExecStatement(r), ~NextVersion(r), ~Commit(r), ~ClearProgress(r)
  PROVE  Honest(r)'
<1>0. pc \in [Requests -> PC]
  BY DEF TypeInv, TypeOK
<1>1. Known(r)' = Known(r) /\ unheard' = unheard /\ pc'[r] # "ack"
  BY KnownSame
<1>2. ~RecordStatement(r) /\ ~LoseAck(r)
  BY DEF RecordStatement, LoseAck
<1>3. CASE ForgetProgress(r)
  <2>1. declared /\ declared' = declared
    BY <1>3 DEF Forced, ForgetProgress, ghosts
  <2> QED
    BY <2>1 DEF Honest
<1>4. CASE ~ForgetProgress(r)
  <2>1. UNCHANGED <<ckUp, ckDown>>
    BY <1>2, <1>4 DEF Begin, BeginApply, BeginRollback, BeginStamp, BeginReconcile, Step, Guard,
         Refuse, WriteRevisionFiles, AcquireLock, StampLedger, Fail, UndoFinished, ReleaseLock,
         SettleApply, SettleUndo, ReadVersion, SetModelVersion, SetQuarantine, Crash, progress
  <2>2. ~declared' => ~declared /\ ledger' = ledger
    <3>1. CASE StampLedger(r)
      BY <3>1 DEF StampLedger
    <3>2. CASE ~StampLedger(r)
      BY <1>2, <1>4, <3>2 DEF Begin, BeginApply, BeginRollback, BeginStamp, BeginReconcile, Step,
           Guard, Refuse, WriteRevisionFiles, AcquireLock, Fail, UndoFinished, ReleaseLock,
           SettleApply, SettleUndo, ReadVersion, SetModelVersion, SetQuarantine, Crash, target,
           ghosts
    <3> QED
      BY <3>1, <3>2
  <2>3. pc'[r] = "stmt" => ctx'[r].phase = "undo"
    <3>1. Begin(r) \/ Guard(r) => pc'[r] # "stmt"
      BY BeginFields, GuardFields
    <3>2. AcquireLock(r) => ctx'[r] = ctx[r]
      BY PathFields
    <3>3. Refuse(r) \/ Crash(r) => pc'[r] # "stmt"
      BY <1>0 DEF Refuse, Crash, Finish, Goto
    <3> QED
      BY <1>2, <1>4, <3>1, <3>2, <3>3, Moves DEF Step
  <2>4. ~declared' => \A v \in Resumable : Told(r, v) => Told(r, v)'
    BY <1>1, <2>1, <2>2, SilentSame DEF Told
  <2> QED
    BY <1>1, <2>2, <2>3, <2>4, SilentSame DEF Honest, At
<1> QED
  BY <1>3, <1>4

LEMMA HonestStutter == HonestInv /\ UNCHANGED vars => HonestInv'
<1> SUFFICES ASSUME HonestInv, UNCHANGED vars PROVE HonestInv'
  OBVIOUS
<1>1. UNCHANGED <<phys, ledger, ckUp, ckDown, pc, ctx, unheard, declared>>
  BY DEF vars
<1>2. \A r : InFlight(r)' = InFlight(r)
  BY <1>1 DEF InFlight, Frontier, Left
<1>3. \A r : Known(r)' = Known(r)
  BY <1>1, <1>2 DEF Known
<1>4. \A r, v : Told(r, v)' <=> Told(r, v)
  BY <1>1, <1>3, SilentSame DEF Told
<1>5. \A r : (GoesUp(r)' <=> GoesUp(r)) /\ (GoesDown(r)' <=> GoesDown(r))
  BY <1>1, <1>3, SilentSame DEF GoesUp, GoesDown
<1>6. \A r : Forced(r)' <=> Forced(r)
  BY <1>1 DEF Forced
<1> QED
  BY <1>1, <1>4, <1>5, <1>6, SilentSame DEF HonestInv, Honest, At

LEMMA HonestStep ==
  ASSUME Alone, ~Transactional, TypeInv, Roles, TrackInv, GapInv, HonestInv, Next
  PROVE  HonestInv'
<1>1. PICK r \in Requests : Begin(r) \/ Step(r) \/ Crash(r)
  BY DEF Next
<1>2. SUFFICES Honest(r)'
  BY <1>1, ForcedStep DEF HonestInv, Alone
<1>3. Forced(r) /\ Honest(r)
  BY DEF HonestInv
<1>4. CASE ExecStatement(r)
  BY <1>3, <1>4, HonestExec
<1>5. CASE RecordStatement(r)
  BY <1>3, <1>5, GapRecord, HonestRecord
<1>6. CASE pc[r] = "ack" /\ (LoseAck(r) \/ Crash(r))
  BY <1>3, <1>6, HonestLost
<1>7. CASE NextVersion(r)
  BY <1>3, <1>7, HonestNext
<1>8. CASE Commit(r)
  BY <1>3, <1>8, HonestCommit
<1>9. CASE ClearProgress(r)
  BY <1>3, <1>9, HonestClear
<1>10. CASE /\ pc[r] # "ack" /\ ~ExecStatement(r) /\ ~NextVersion(r)
            /\ ~Commit(r) /\ ~ClearProgress(r)
  BY <1>1, <1>3, <1>10, HonestSame
<1> QED
  BY <1>1, <1>4, <1>5, <1>6, <1>7, <1>8, <1>9, <1>10, AckSteps

LEMMA HonestInit == Init => HonestInv
<1> SUFFICES ASSUME Init, NEW r \in Requests PROVE Forced(r) /\ Honest(r)
  BY DEF HonestInv
<1>1. pc[r] = "idle" /\ Known(r) = {} /\ ledger = 0
  BY DEF Init, Known
<1>2. ASSUME NEW v \in Resumable PROVE Told(r, v)
  <2>1. v \in Versions /\ ckUp[v] = 0 /\ ~(v <= 0) /\ 0 < Size[v]
    BY ManifestAssumption, SizeAssumption DEF Init, Versions
  <2>2. NotYet({}, Silent, v, 0)
    BY DEF NotYet
  <2> QED
    BY <1>1, <2>1, <2>2 DEF Told, Above
<1> QED
  BY <1>1, <1>2 DEF Forced, Honest, At

(* What honest books say of a version they can be read for.                *)
LEMMA HonestDrift ==
  ASSUME TypeInv, ~Transactional, NEW r \in Requests, NoGap(r), Honest(r),
         ~declared, ~ReverseUnheard, NEW v \in Versions, Legible(v)
  PROVE  /\ Books(v) \ phys \subseteq InDoubt
         /\ \A s \in HasDown \cap phys : s[1] = v /\ s \notin Books(v) => s \in InDoubt
<1> DEFINE K == Known(r)
<1>0. /\ v \in Resumable /\ ledger \in 0..NV /\ NV \in Nat /\ Size[v] \in Nat \ {0}
      /\ ckUp[v] \in Nat /\ ckDown[v] \in Nat /\ HasDown \subseteq Stmt
  BY SizeAssumption, ManifestAssumption DEF TypeInv, TypeOK, Legible
<1>1. Silent \subseteq InDoubt /\ InFlight(r) \subseteq InDoubt
  BY DEF Silent, InDoubt
<1>2. K \subseteq phys \cup InFlight(r) /\ phys \subseteq K \cup InFlight(r)
  BY DEF Known
<1>3. Told(r, v)
  BY <1>0 DEF Honest
<1>4. \A s \in HasDown : s[1] = v => s = <<v, s[2]>> /\ s[2] \in Reversible(v)
  BY <1>0 DEF Stmt, Reversible
<1>5. CASE v <= ledger
  <2>1. Reverted(K, v, ckDown[v]) /\ There(K, Silent, v, ckDown[v])
    BY <1>3, <1>5 DEF Told, Below, Legible
  <2>2. ASSUME NEW s \in Books(v), s \notin phys PROVE s \in InDoubt
    <3>1. PICK j \in 1..Size[v] : s = <<v, j>> /\ (j \in Reversible(v) => Rank(v, j) > ckDown[v])
      BY <1>5, <2>2 DEF Books
    <3>2. s \in K \cup Silent
      BY <2>1, <3>1 DEF There
    <3> QED
      BY <1>1, <1>2, <2>2, <3>2
  <2>3. ASSUME NEW s \in HasDown \cap phys, s[1] = v, s \notin Books(v) PROVE s \in InDoubt
    <3>1. s = <<v, s[2]>> /\ s[2] \in Reversible(v)
      BY <1>4, <2>3
    <3>2. s[2] \in 1..Size[v] /\ Rank(v, s[2]) \in Nat
      BY <3>1, RankBound, ReversibleFinite
    <3>3. ~(Rank(v, s[2]) > ckDown[v])
      BY <1>5, <2>3, <3>1, <3>2 DEF Books
    <3>4. <<v, s[2]>> \notin K
      BY <1>0, <2>1, <3>1, <3>2, <3>3 DEF Reverted
    <3> QED
      BY <1>1, <1>2, <2>3, <3>1, <3>4
  <2> QED
    BY <2>2, <2>3
<1>6. CASE ~(v <= ledger)
  <2>1. ckUp[v] < Size[v] /\ NotYet(K, Silent, v, ckUp[v])
    BY <1>3, <1>6 DEF Told, Above, Legible
  <2>2. ASSUME NEW s \in Books(v), s \notin phys PROVE s \in InDoubt
    <3>1. PICK i \in 1..ckUp[v] : s = <<v, i>>
      BY <1>6, <2>2 DEF Books
    <3>2. v \in IncompleteUp
      BY <1>0, <2>1, <3>1 DEF IncompleteUp
    <3>3. s \in K
      BY <3>1, <3>2 DEF NoGap
    <3> QED
      BY <1>1, <1>2, <2>2, <3>3
  <2>3. ASSUME NEW s \in HasDown \cap phys, s[1] = v, s \notin Books(v) PROVE s \in InDoubt
    <3>1. s = <<v, s[2]>> /\ s[2] \in Reversible(v)
      BY <1>4, <2>3
    <3>2. s[2] \in 1..Size[v]
      BY <3>1, ReversibleFinite
    <3>3. s[2] > ckUp[v]
      BY <1>0, <1>6, <2>3, <3>1, <3>2 DEF Books
    <3>4. s \in K => s \in Silent
      BY <2>1, <3>1, <3>3 DEF NotYet
    <3> QED
      BY <1>1, <1>2, <2>3, <3>4
  <2> QED
    BY <2>2, <2>3
<1> QED
  BY <1>5, <1>6

(* One transaction per version: the books are never wrong.                 *)
LEMMA ChainDrift == ASSUME TypeInv, ChainInv PROVE ~declared => Drift = {}
<1> SUFFICES ASSUME ~declared, NEW v \in Versions
    PROVE  Books(v) \subseteq phys /\ \A s \in HasDown \cap phys : s[1] = v => s \in Books(v)
  BY DEF Drift
<1>0. /\ ledger \in 0..NV /\ NV \in Nat /\ Size[v] \in Nat \ {0} /\ HasDown \subseteq Stmt
      /\ ckUp[v] = 0 /\ ckDown[v] = 0 /\ Built = 1..ledger
  BY SizeAssumption, ManifestAssumption DEF TypeInv, TypeOK, ChainInv, NoProgress, Truth
<1>1. \A s \in HasDown : s[1] = v => s = <<v, s[2]>> /\ s[2] \in Reversible(v) /\ s[2] \in 1..Size[v]
  BY <1>0 DEF Stmt, Reversible
<1>2. CASE v <= ledger
  <2>1. Books(v) = {v} \X (1..Size[v])
    <3>1. \A j \in Reversible(v) : Rank(v, j) > 0
      BY RankBound
    <3> QED
      BY <1>0, <1>2, <3>1 DEF Books
  <2>2. v \in Built
    BY <1>0, <1>2 DEF Versions
  <2> QED
    BY <1>1, <2>1, <2>2 DEF Built
<1>3. CASE ~(v <= ledger)
  <2>1. Books(v) = {}
    BY <1>0, <1>3 DEF Books
  <2>2. v \notin Built
    BY <1>0, <1>3
  <2>3. Absent(v)
    BY <2>2 DEF ChainInv, WholeVersions, Whole, Built
  <2> QED
    BY <1>1, <2>1, <2>3 DEF Absent
<1> QED
  BY <1>2, <1>3

LEMMA NobodyDrifts == ASSUME Requests = {} PROVE Spec => [](Drift = {})
<1>1. Init => Drift = {}
  BY SizeAssumption DEF Init, Drift, Books, Versions
<1>2. Drift = {} /\ [Next]_vars => (Drift = {})'
  <2> SUFFICES ASSUME Drift = {}, UNCHANGED vars PROVE (Drift = {})'
    BY DEF Next
  <2>1. UNCHANGED <<phys, ledger, ckUp, ckDown>>
    BY DEF vars
  <2> QED
    BY <2>1 DEF Drift, Books, Legible
<1> QED
  BY <1>1, <1>2, PTL DEF Spec

(* The version table and the checkpoints, read together, describe the      *)
(* schema up to the statements nobody heard the end of: no sequence of     *)
(* failures, crashes, resumed runs, rollbacks and reconciliations makes    *)
(* them wrong by more, for any blueprint and any number of lost answers.   *)
THEOREM BooksHonest ==
  ASSUME Alone \/ Transactional PROVE Spec => []BooksWithinLost
<1>1. CASE Transactional
  <2>1. TypeInv /\ ChainInvIfTransactional => BooksWithinLost
    BY <1>1, ChainDrift DEF ChainInvIfTransactional, BooksWithinLost
  <2>2. Spec => []TypeInv
    BY TypeInit, TypeStep, PTL DEF Spec
  <2> QED
    BY <2>1, <2>2, ChainInvariant, PTL
<1>2. CASE Requests = {}
  <2>1. Drift = {} => BooksWithinLost
    BY DEF BooksWithinLost
  <2> QED
    BY <1>2, <2>1, NobodyDrifts, PTL
<1>3. CASE ~Transactional /\ Alone /\ Requests # {}
  <2>1. Init => TypeInv /\ Roles /\ GapInv /\ HonestInv
    BY TypeInit, OwnInit, GapInit, HonestInit
  <2>2. TypeInv /\ Roles /\ TrackInvIfSplit /\ GapInv /\ HonestInv /\ [Next]_vars
        => TypeInv' /\ GapInv' /\ HonestInv'
    BY <1>3, TypeStep, GapStep, HonestStep, HonestStutter DEF TrackInvIfSplit
  <2>3. Spec => []Roles
    <3>1. Init => TypeInv /\ Roles /\ Vetted
      BY TypeInit, OwnInit
    <3>2. TypeInv /\ Roles /\ Vetted /\ [Next]_vars => (TypeInv /\ Roles /\ Vetted)'
      BY TypeStep, OwnStep
    <3> QED
      BY <3>1, <3>2, PTL DEF Spec
  <2>4. TypeInv /\ GapInv /\ HonestInv => BooksWithinLost
    <3> SUFFICES ASSUME TypeInv, GapInv, HonestInv, ~declared, ~ReverseUnheard,
                        NEW v \in Versions, Legible(v)
        PROVE  /\ Books(v) \ phys \subseteq InDoubt
               /\ \A s \in HasDown \cap phys : s[1] = v /\ s \notin Books(v) => s \in InDoubt
      BY DEF BooksWithinLost, Drift
    <3>1. PICK r \in Requests : NoGap(r) /\ Honest(r)
      BY <1>3 DEF GapInv, HonestInv
    <3> QED
      BY <1>3, <3>1, HonestDrift
  <2> QED
    BY <2>1, <2>2, <2>3, <2>4, TrackInvariant, <1>3, PTL DEF Spec
<1> QED
  BY <1>1, <1>2, <1>3
=============================================================================
