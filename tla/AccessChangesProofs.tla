------------------------- MODULE AccessChangesProofs -------------------------
(***************************************************************************)
(* Proofs about AccessChanges, for every set of accounts, requests and     *)
(* histories begun.                                                        *)
(*                                                                         *)
(* A request decides on what it read and writes later.  What keeps its     *)
(* decision good is that nobody un-agrees: a duty that was backed when it  *)
(* was read still is when it is written, so two requests that overlap can  *)
(* only put back duties somebody had agreed to.  That two duties do not    *)
(* conflict is no such fact: it holds for the accounts nothing overtook,   *)
(* and only the requests that will record an override may cover a conflict *)
(* meanwhile, not those that wait for their approval.                      *)
(***************************************************************************)
EXTENDS AccessChanges, FiniteSetTheorems, TLAPS

-----------------------------------------------------------------------------
(* The inductive invariant.                                                *)

Idle == {"new", "done"}

\* what a request writes at once
Goal(k) == IF k.mode = "wait" THEN k.read \cap k.want ELSE k.want

\* What a request decided: nothing is raised without a decision, nobody asks
\* for himself, and a conflict of what it wants is covered or planned for.
Decided(k) ==
  /\ k.mode = "none" /\ k.op # "approve" => k.want \subseteq k.read
  /\ k.mode = "wait" \/ k.at \in {"supersede", "insert"} => k.actor # k.target
  /\ k.op = "set" => k.want \ Globals = k.read \ Globals
  /\ k.op = "update" /\ k.set = "owner" => k.want = k.read \cup {"owner"} /\ k.mode # "wait"
  /\ k.op = "create" => k.read = {} /\ k.covered = {}
  /\ k.op # "update" \/ k.want # k.read => Conflicts(k.want) \subseteq k.covered \cup k.plan
  /\ k.op = "approve" => k.mode = "none"
  /\ k.at \in {"create", "globals"} => k.op = "create"
Deciding == \A h \in Handlers : handler[h].at \notin Idle => Decided(handler[h])

\* two other people agreed, or it was there from the start
Backed(F, A, u, d) == <<u, d>> \in F \/ Cardinality({p \in Users \ {u} : <<u, d, p>> \in A}) >= 2

\* What a request read is still true of the stored state where it must be.
Grounded ==
  \A h \in Handlers : handler[h].at \notin Idle =>
    /\ handler[h].at # "create" => account[handler[h].target].exists
    /\ \A d \in handler[h].read : Backed(founding, agreed, handler[h].target, d)
    /\ handler[h].at = "globals" =>
         \A d \in Goal(handler[h]) : Backed(founding, agreed, handler[h].target, d)
    /\ handler[h].op = "approve" /\ handler[h].at = "write" =>
         /\ handler[h].row \in DOMAIN rows
         /\ rows[handler[h].row].target = handler[h].target
         /\ rows[handler[h].row].requester # handler[h].target
         /\ rows[handler[h].row].requester # handler[h].actor
         /\ handler[h].actor # handler[h].target

\* An account that does not exist has nothing.
Existing ==
  \A u \in Users :
    /\ account[u].active => account[u].exists
    /\ ~account[u].exists => account[u].duties = {} /\ exceptions[u] = {}

\* Nobody asks for himself.
AskedByOthers == \A i \in DOMAIN rows : rows[i].requester # rows[i].target

\* Of the requests between their write and the exception they record, only
\* those that will record one may cover a conflict.
Recording(k) == k.at \in {"globals", "settle"} /\ k.mode # "wait"
Covered ==
  \A u \in Users \ excused : \A rule \in Conflicts(account[u].duties) :
    \/ rule \in exceptions[u]
    \/ \E h \in Handlers : /\ handler[h].target = u /\ Recording(handler[h])
                           /\ rule \in handler[h].plan

Inv == /\ TypeOK /\ Deciding /\ Grounded /\ Existing /\ AskedByOthers
       /\ ElevatedByTwo /\ AdminRemains /\ Covered

-----------------------------------------------------------------------------
(* Lemmas about the parts of a step.                                       *)

LEMMA AdminsUsers == Admins \subseteq Users
  BY DEF Admins

LEMMA PlacesNamed ==
  /\ {"new", "write", "create", "globals", "settle"} \subseteq Places
  /\ {"withdraw", "supersede", "insert", "done"} \subseteq Places
  BY DEF Places

LEMMA ConflictsTyped == \A duties \in SUBSET Duties : Conflicts(duties) \in SUBSET Rules
  BY DEF Conflicts

LEMMA NewFields ==
  /\ New \in Handler /\ New.at = "new" /\ New.mode = "none" /\ New.op = "none" /\ New.plan = {}
  /\ New.set = "keep" /\ New.turn = "keep"
  BY UsersAssumption, PlacesNamed DEF New, Handler, Nobody, Rules, Duties

\* To changes the place of the request and nothing else, or ends it.
LEMMA ToEffect ==
  ASSUME TypeOK, NEW h \in Handlers, NEW at \in Places, To(h, at)
  PROVE  /\ handler' \in [Handlers -> Handler]
         /\ \A g \in Handlers : g # h => handler'[g] = handler[g]
         /\ handler'[h].at = at
         /\ at # "done" => handler'[h] = [handler[h] EXCEPT !.at = at]
<1>1. [New EXCEPT !.at = "done"] \in Handler /\ [New EXCEPT !.at = "done"].at = "done"
  BY NewFields, PlacesNamed DEF Handler
<1>2. handler[h] \in Handler
  BY DEF TypeOK
<1>3. [handler[h] EXCEPT !.at = at] \in Handler /\ [handler[h] EXCEPT !.at = at].at = at
  BY <1>2 DEF Handler
<1> QED
  BY <1>1, <1>2, <1>3 DEF TypeOK, To, Step

\* what Start writes down of a request: what it read, and what it decided
Notes(k, op, a, t, want, place) ==
  /\ k.at = place.at /\ k.set = place.set /\ k.turn = place.turn
  /\ k.op = op /\ k.actor = a /\ k.target = t /\ k.want = want
  /\ k.read = account[t].duties /\ k.covered = exceptions[t]
  /\ k.plan = Conflicts(want) \ exceptions[t]
  /\ k.mode = Decide(a, want \ account[t].duties, Conflicts(want) \ exceptions[t])

LEMMA StartEffect ==
  ASSUME TypeOK, NEW h \in Handlers, NEW op \in {"set", "update", "create"},
         NEW a \in Users, NEW t \in Users,
         NEW want \in SUBSET Duties, NEW override, NEW place \in Handler,
         Start(h, op, a, t, want, override, place)
  PROVE  /\ UNCHANGED <<stored, ghosts>>
         /\ \E k \in Handler : handler' = [handler EXCEPT ![h] = k] /\ Notes(k, op, a, t, want, place)
<1> DEFINE read == account[t].duties
           plan == Conflicts(want) \ exceptions[t]
           mode == Decide(a, want \ read, plan)
           k == [place EXCEPT !.op = op, !.actor = a, !.target = t, !.read = read, !.want = want,
                      !.covered = exceptions[t], !.was = account[t].active, !.mode = mode, !.plan = plan]
<1>1. /\ account[t] \in Account /\ exceptions[t] \in SUBSET Rules
  BY DEF TypeOK
<1>2. mode \in {"none", "wait", "bootstrap"}
  BY DEF Decide
<1>3. plan \in SUBSET Rules /\ read \in SUBSET Duties /\ account[t].active \in BOOLEAN
  BY <1>1, ConflictsTyped DEF Account
<1>4. handler' = [handler EXCEPT ![h] = k] /\ UNCHANGED <<stored, ghosts>>
  BY DEF Start, Step
<1> HIDE DEF read, plan, mode
<1>5. /\ k \in Handler
      /\ k.at = place.at /\ k.set = place.set /\ k.turn = place.turn
      /\ k.op = op /\ k.actor = a /\ k.target = t /\ k.want = want
      /\ k.read = read /\ k.covered = exceptions[t] /\ k.plan = plan /\ k.mode = mode
  BY <1>1, <1>2, <1>3 DEF Handler
<1> QED
  BY <1>4, <1>5 DEF read, plan, mode, Notes

\* Close changes no row but its status.
LEMMA CloseEffect ==
  ASSUME TypeOK, NEW which, Close(which)
  PROVE  /\ rows' \in Seq(Row) /\ DOMAIN rows' = DOMAIN rows
         /\ \A i \in DOMAIN rows : rows'[i].target = rows[i].target /\ rows'[i].requester = rows[i].requester
<1>1. Len(rows) \in Nat /\ DOMAIN rows = 1..Len(rows) /\ \A i \in DOMAIN rows : rows[i] \in Row
  BY DEF TypeOK
<1>2. \A i \in DOMAIN rows : [rows[i] EXCEPT !.status = "closed"] \in Row
  BY <1>1 DEF Row
<1>3. rows' = [i \in 1..Len(rows) |-> IF i \in which /\ rows[i].status = "pending"
                                   THEN [rows[i] EXCEPT !.status = "closed"] ELSE rows[i]]
  BY <1>1 DEF Close
<1> QED
  BY <1>1, <1>2, <1>3 DEF Row

\* The four requests that read and decide; they change nothing but themselves.
Begin(h) ==
  \/ \E a \in Admins, t \in Users, override \in BOOLEAN :
       \/ \E globals \in SUBSET Globals : BeginSetAccess(h, a, t, globals, override)
       \/ \E set \in {"owner", "viewer", "keep"}, turn \in {"on", "off", "keep"} :
            BeginUpdate(h, a, t, set, turn, override)
       \/ \E want \in SUBSET Duties : BeginCreate(h, a, t, want, override)
  \/ \E a \in Admins, r \in DOMAIN rows : BeginApprove(h, a, r)

\* what a request knows when it has just read
JustRead(k) ==
  /\ k.at \notin Idle \cup {"globals", "settle"}
  /\ k.read = account[k.target].duties
  /\ k.at # "create" => account[k.target].exists
  /\ k.op = "approve" =>
       /\ k.row \in DOMAIN rows /\ rows[k.row].target = k.target
       /\ rows[k.row].requester # k.target /\ rows[k.row].requester # k.actor /\ k.actor # k.target

LEMMA BeginEffect ==
  ASSUME TypeOK, Existing, AskedByOthers, NEW h \in Handlers, Begin(h)
  PROVE  /\ \E k \in Handler : /\ handler' = [handler EXCEPT ![h] = k]
                               /\ Decided(k) /\ JustRead(k)
         /\ handler[h].at = "new" /\ UNCHANGED <<stored, ghosts>>
<1> DEFINE Goal1 == \E k \in Handler : /\ handler' = [handler EXCEPT ![h] = k]
                                       /\ Decided(k) /\ JustRead(k)
           Goal2 == handler[h].at = "new" /\ UNCHANGED <<stored, ghosts>>
<1> USE AdminsUsers DEF Idle
<1>1. ASSUME NEW a \in Admins, NEW t \in Users, NEW override \in BOOLEAN,
             NEW globals \in SUBSET Globals, BeginSetAccess(h, a, t, globals, override)
      PROVE  Goal1 /\ Goal2
  <2> DEFINE want == (account[t].duties \ Globals) \cup globals
             mode == Decide(a, want \ account[t].duties, Conflicts(want) \ exceptions[t])
             place == [New EXCEPT !.at = IF mode # "wait" \/ ~(account[t].duties \subseteq want)
                                         THEN "write" ELSE "supersede"]
  <2>1. Start(h, "set", a, t, want, override, place) /\ a # t /\ account[t].exists /\ handler[h].at = "new"
    BY <1>1 DEF BeginSetAccess, Ready
  <2>2. place \in Handler /\ place.at \in {"write", "supersede"} /\ (place.at = "supersede" => mode = "wait")
    BY NewFields, PlacesNamed DEF Handler
  <2>3. want \in SUBSET Duties /\ want \ Globals = account[t].duties \ Globals
    BY DEF TypeOK, Account, Duties, Globals
  <2>4. mode = "none" => want \subseteq account[t].duties
    BY DEF Decide
  <2> HIDE DEF want, place, mode
  <2>5. Goal2
    BY <2>1, <2>2, <2>3, StartEffect
  <2>6. PICK k \in Handler : handler' = [handler EXCEPT ![h] = k] /\ Notes(k, "set", a, t, want, place)
    BY <2>1, <2>2, <2>3, StartEffect
  <2>7. Decided(k) /\ JustRead(k)
    BY <2>1, <2>2, <2>3, <2>4, <2>6 DEF Decided, JustRead, Notes, mode
  <2> QED
    BY <2>5, <2>6, <2>7
<1>2. ASSUME NEW a \in Admins, NEW t \in Users, NEW override \in BOOLEAN,
             NEW set \in {"owner", "viewer", "keep"}, NEW turn \in {"on", "off", "keep"},
             BeginUpdate(h, a, t, set, turn, override)
      PROVE  Goal1 /\ Goal2
  <2> DEFINE read == account[t].duties
             want == CASE set = "owner" -> read \cup {"owner"}
                       [] set = "viewer" -> read \ {"owner"}
                       [] OTHER -> read
             mode == Decide(a, want \ read, Conflicts(want) \ exceptions[t])
             waits == want # read /\ mode = "wait"
  <2>1. /\ account[t].exists /\ handler[h].at = "new" /\ (want # read => t # a)
        /\ read \in SUBSET Duties /\ want \in SUBSET Duties
        /\ account[t].active \in BOOLEAN /\ exceptions[t] \in SUBSET Rules
        /\ set = "owner" => want = read \cup {"owner"}
        /\ set = "viewer" => want = read \ {"owner"}
        /\ mode = "none" => want \subseteq read
    BY <1>2 DEF BeginUpdate, Ready, TypeOK, Account, Duties, Decide
  <2>2. CASE want = read
    <3> DEFINE k == [New EXCEPT !.at = "write", !.op = "update", !.actor = a, !.target = t,
                            !.read = read, !.want = want, !.covered = exceptions[t],
                            !.set = set, !.turn = turn, !.was = account[t].active]
    <3>1. handler' = [handler EXCEPT ![h] = k] /\ UNCHANGED <<stored, ghosts>>
      BY <1>2, <2>2 DEF BeginUpdate, Step
    <3> HIDE DEF read, want
    <3>2. /\ k \in Handler /\ k.at = "write" /\ k.op = "update" /\ k.target = t /\ k.read = read
          /\ k.want = want /\ k.mode = "none" /\ k.set = set
      BY <2>1, NewFields, PlacesNamed DEF Handler
    <3>3. Decided(k) /\ JustRead(k)
      <4> HIDE DEF k
      <4> QED
        BY <2>1, <2>2, <3>2 DEF Decided, JustRead, read
    <3> QED
      BY <2>1, <3>1, <3>2, <3>3
  <2>3. CASE want # read
    <3> DEFINE place == [New EXCEPT !.at = IF waits /\ turn = "keep" THEN "supersede" ELSE "write",
                           !.set = IF waits THEN "keep" ELSE set, !.turn = turn]
    <3>1. Start(h, "update", a, t, want, override, place)
      BY <1>2, <2>3 DEF BeginUpdate
    <3>2. /\ place \in Handler /\ place.at \in {"write", "supersede"}
          /\ place.at = "supersede" => mode = "wait"
          /\ place.set = IF mode = "wait" THEN "keep" ELSE set
      BY <2>3, NewFields, PlacesNamed DEF Handler
    <3> HIDE DEF want, place, mode
    <3>3. Goal2
      BY <2>1, <3>1, <3>2, StartEffect
    <3>4. PICK k \in Handler : handler' = [handler EXCEPT ![h] = k] /\ Notes(k, "update", a, t, want, place)
      BY <2>1, <3>1, <3>2, StartEffect
    <3>5. Decided(k) /\ JustRead(k)
      BY <2>1, <2>3, <3>2, <3>4 DEF Decided, JustRead, Notes, mode
    <3> QED
      BY <3>3, <3>4, <3>5
  <2> QED
    BY <2>2, <2>3
<1>3. ASSUME NEW a \in Admins, NEW t \in Users, NEW override \in BOOLEAN,
             NEW want \in SUBSET Duties, BeginCreate(h, a, t, want, override)
      PROVE  Goal1 /\ Goal2
  <2> DEFINE mode == Decide(a, want \ account[t].duties, Conflicts(want) \ exceptions[t])
             place == [New EXCEPT !.at = "create"]
  <2>1. /\ Start(h, "create", a, t, want, override, place)
        /\ ~account[t].exists /\ account[a].active /\ handler[h].at = "new"
    BY <1>3 DEF BeginCreate, Ready, Admins
  <2>2. account[t].duties = {} /\ exceptions[t] = {} /\ a # t
    BY <2>1 DEF Existing
  <2>3. place \in Handler /\ place.at = "create"
    BY NewFields, PlacesNamed DEF Handler
  <2>4. mode = "none" => want \subseteq account[t].duties
    BY DEF Decide
  <2> HIDE DEF place, mode
  <2>5. Goal2
    BY <2>1, <2>3, StartEffect
  <2>6. PICK k \in Handler : handler' = [handler EXCEPT ![h] = k] /\ Notes(k, "create", a, t, want, place)
    BY <2>1, <2>3, StartEffect
  <2>7. Decided(k) /\ JustRead(k)
    BY <2>1, <2>2, <2>3, <2>4, <2>6 DEF Decided, JustRead, Notes, mode
  <2> QED
    BY <2>5, <2>6, <2>7
<1>4. ASSUME NEW a \in Admins, NEW r \in DOMAIN rows, BeginApprove(h, a, r)
      PROVE  Goal1 /\ Goal2
  <2> DEFINE t == rows[r].target
             plan == Conflicts(rows[r].want) \ exceptions[t]
             k == [New EXCEPT !.at = "write", !.op = "approve", !.actor = a, !.target = t, !.row = r,
                     !.read = account[t].duties, !.covered = exceptions[t], !.want = rows[r].want,
                     !.plan = plan]
  <2>1. rows[r] \in Row /\ r \in Nat /\ rows[r].requester # t
    BY DEF TypeOK, AskedByOthers
  <2>2. /\ t \in Users /\ rows[r].want \in SUBSET Duties
        /\ account[t].duties \in SUBSET Duties /\ exceptions[t] \in SUBSET Rules /\ plan \in SUBSET Rules
    BY <2>1, ConflictsTyped DEF TypeOK, Row, Account
  <2>3. /\ handler' = [handler EXCEPT ![h] = k] /\ UNCHANGED <<stored, ghosts>>
        /\ handler[h].at = "new" /\ rows[r].requester # a /\ t # a /\ account[t].exists
    BY <1>4, <2>2 DEF BeginApprove, Ready, Step, SelfCheck, Existing
  <2>4. /\ k \in Handler /\ k.at = "write" /\ k.op = "approve" /\ k.target = t /\ k.row = r
        /\ k.actor = a /\ k.read = account[t].duties /\ k.covered = exceptions[t]
        /\ k.want = rows[r].want /\ k.plan = plan /\ k.mode = "none"
    <3> HIDE DEF plan, t
    <3> QED
      BY <2>1, <2>2, NewFields, PlacesNamed DEF Handler
  <2>5. Decided(k) /\ JustRead(k)
    <3> HIDE DEF k
    <3> QED
      BY <2>1, <2>3, <2>4 DEF Decided, JustRead
  <2> QED
    BY <2>3, <2>4, <2>5
<1> QED
  BY <1>1, <1>2, <1>3, <1>4 DEF Begin

\* The requests that go on: to a later place, or to their end.
Work(h) ==
  \/ WriteAccess(h) \/ WriteUpdate(h) \/ CreateRow(h) \/ GrantGlobals(h) \/ WriteApproved(h)
  \/ Settle(h) \/ Withdraw(h) \/ Supersede(h) \/ Insert(h) \/ Crash(h)

LEMMA WorkMoves ==
  ASSUME TypeOK, Deciding, NEW h \in Handlers, Work(h)
  PROVE  \E at \in Places :
           /\ To(h, at) /\ at \notin {"new", "write", "create"} /\ handler[h].at \notin Idle
           /\ at = "globals" => handler[h].at = "create"
           /\ at \in {"supersede", "insert"} => handler[h].actor # handler[h].target
<1> DEFINE Moved(at) == /\ To(h, at) /\ at \notin {"new", "write", "create"} /\ handler[h].at \notin Idle
                        /\ at = "globals" => handler[h].at = "create"
                        /\ at \in {"supersede", "insert"} => handler[h].actor # handler[h].target
<1>0. handler[h].at \notin Idle /\ handler[h].mode = "wait" => handler[h].actor # handler[h].target
  BY DEF Deciding, Decided
<1> USE <1>0, PlacesNamed DEF Idle
<1>1. CASE WriteAccess(h)
  <2>1. Moved("done") \/ Moved("settle")
    BY <1>1 DEF WriteAccess
  <2> QED
    BY <2>1
<1>2. CASE WriteUpdate(h)
  <2>1. Moved("done") \/ Moved("settle") \/ Moved("withdraw") \/ Moved("supersede")
    BY <1>2 DEF WriteUpdate
  <2> QED
    BY <2>1
<1>3. CASE CreateRow(h)
  <2>1. Moved("done") \/ Moved("globals")
    BY <1>3 DEF CreateRow
  <2> QED
    BY <2>1
<1>4. CASE GrantGlobals(h)
  <2>1. Moved("supersede") \/ Moved("settle")
    BY <1>4 DEF GrantGlobals
  <2> QED
    BY <2>1
<1>5. CASE WriteApproved(h)
  <2>1. Moved("done") \/ Moved("settle")
    BY <1>5 DEF WriteApproved
  <2> QED
    BY <2>1
<1>6. CASE Settle(h)
  <2>1. Moved("done") \/ Moved("withdraw") \/ Moved("supersede")
    BY <1>6 DEF Settle
  <2> QED
    BY <2>1
<1>7. CASE Withdraw(h)
  <2>1. Moved("done") \/ Moved("supersede")
    BY <1>7 DEF Withdraw
  <2> QED
    BY <2>1
<1>8. CASE Supersede(h)
  <2>1. Moved("insert")
    BY <1>8 DEF Supersede, Deciding, Decided
  <2> QED
    BY <2>1
<1>9. CASE Insert(h)
  <2>1. Moved("done")
    BY <1>9 DEF Insert
  <2> QED
    BY <2>1
<1>10. CASE Crash(h)
  <2>1. Moved("done")
    BY <1>10 DEF Crash
  <2> QED
    BY <2>1
<1> QED
  BY <1>1, <1>2, <1>3, <1>4, <1>5, <1>6, <1>7, <1>8, <1>9, <1>10 DEF Work

\* The rest of the steps are nobody's request.
LEMMA WhoSteps ==
  ASSUME TypeOK, [Next]_vars
  PROVE  (\E h \in Handlers : Begin(h)) \/ (\E h \in Handlers : Work(h)) \/ UNCHANGED handler
<1>1. CASE UNCHANGED vars
  BY <1>1 DEF vars
<1>2. CASE \/ \E r \in DOMAIN rows : Expire(r) \/ \E a \in Admins : Dismiss(a, r)
           \/ \E u \in Users : AcceptInvite(u) \/ \E rule \in Rules : ExceptionEnds(u, rule)
           \/ CloseWindow \/ Recover
  BY <1>2 DEF Expire, Dismiss, AcceptInvite, ExceptionEnds, CloseWindow, Recover
<1> QED
  BY <1>1, <1>2 DEF Next, Begin, Work

-----------------------------------------------------------------------------
(* What the requests decided.                                              *)

\* A request decides before it writes, and its later places keep the decision.
LEMMA DecidingStep ==
  ASSUME TypeOK, Existing, AskedByOthers, Deciding, [Next]_vars
  PROVE  Deciding' /\ handler' \in [Handlers -> Handler]
<1>1. ASSUME NEW h \in Handlers, Begin(h) PROVE Deciding' /\ handler' \in [Handlers -> Handler]
  <2>1. PICK k \in Handler : handler' = [handler EXCEPT ![h] = k] /\ Decided(k)
    BY <1>1, BeginEffect
  <2> QED
    BY <2>1 DEF Deciding, TypeOK
<1>2. ASSUME NEW h \in Handlers, Work(h) PROVE Deciding' /\ handler' \in [Handlers -> Handler]
  <2>1. PICK at \in Places :
           /\ To(h, at) /\ at \notin {"new", "write", "create"} /\ handler[h].at \notin Idle
           /\ at = "globals" => handler[h].at = "create"
           /\ at \in {"supersede", "insert"} => handler[h].actor # handler[h].target
    BY <1>2, WorkMoves
  <2>2. /\ handler' \in [Handlers -> Handler]
        /\ \A g \in Handlers : g # h => handler'[g] = handler[g]
        /\ handler'[h].at = at
        /\ at # "done" => handler'[h] = [handler[h] EXCEPT !.at = at]
    BY <2>1, ToEffect
  <2>3. Decided(handler[h])
    BY <2>1 DEF Deciding
  <2>4. ASSUME at # "done" PROVE Decided(handler'[h])
    <3>1. handler[h] \in Handler
      BY DEF TypeOK
    <3>2. PICK k \in Handler : k = handler[h]
      BY <3>1
    <3>3. Decided([k EXCEPT !.at = at])
      BY <2>1, <2>3, <3>2 DEF Decided, Handler
    <3> QED
      BY <2>2, <2>4, <3>2, <3>3
  <2> QED
    BY <2>2, <2>4 DEF Deciding, Idle
<1>3. ASSUME UNCHANGED handler PROVE Deciding' /\ handler' \in [Handlers -> Handler]
  BY <1>3 DEF Deciding, TypeOK
<1> QED
  BY <1>1, <1>2, <1>3, WhoSteps

LEMMA HandlerFields ==
  ASSUME TypeOK, NEW h \in Handlers
  PROVE  /\ handler[h].target \in Users /\ handler[h].actor \in Users /\ handler[h].plan \in SUBSET Rules
         /\ handler[h].read \in SUBSET Duties /\ handler[h].want \in SUBSET Duties
         /\ Immediate(h) \in SUBSET Duties /\ handler[h].row \in Nat
         /\ Immediate(h) = Goal(handler[h])
  BY DEF TypeOK, Handler, Immediate, Goal

-----------------------------------------------------------------------------
(* What each write does to the accounts.                                   *)

\* t holds these duties from now on, and nothing else changes
Holds(t, duties) ==
  /\ account' \in [Users -> Account]
  /\ \A u \in Users :
       /\ account'[u].exists = account[u].exists /\ account'[u].active = account[u].active
       /\ account'[u].credential = account[u].credential
       /\ account'[u].duties = IF u = t THEN duties ELSE account[u].duties

LEMMA HoldsEffect ==
  ASSUME TypeOK, NEW t \in Users, NEW duties \in SUBSET Duties,
         account' = [account EXCEPT ![t].duties = duties]
  PROVE  Holds(t, duties)
  BY DEF TypeOK, Account, Holds

LEMMA WriteAccessEffect ==
  ASSUME TypeOK, NEW h \in Handlers, WriteAccess(h)
  PROVE  /\ UNCHANGED <<exceptions, rows, open, agreed, unguarded>>
         /\ \/ UNCHANGED <<account, ghosts>> /\ To(h, "done")
            \/ /\ Holds(handler[h].target, (account[handler[h].target].duties \ Globals)
                                             \cup (Goal(handler[h]) \cap Globals))
               /\ Admin \in Goal(handler[h]) \/ Guard(handler[h].target)
               /\ To(h, "settle") /\ Excuse(h) /\ Found(h)
<1> DEFINE t == handler[h].target
           duties == (account[t].duties \ Globals) \cup (Immediate(h) \cap Globals)
<1>1. t \in Users /\ duties \in SUBSET Duties /\ Immediate(h) = Goal(handler[h])
  BY HandlerFields DEF TypeOK, Account
<1>2. CASE Admin \notin Immediate(h) /\ ~Guard(t)
  BY <1>2 DEF WriteAccess, ghosts
<1>3. CASE ~(Admin \notin Immediate(h) /\ ~Guard(t))
  <2>1. account' = [account EXCEPT ![t].duties = duties]
    BY <1>3 DEF WriteAccess
  <2>2. Holds(t, duties)
    <3> HIDE DEF t, duties
    <3> QED
      BY <1>1, <2>1, HoldsEffect
  <2> QED
    BY <1>1, <1>3, <2>2 DEF WriteAccess
<1> QED
  BY <1>2, <1>3

LEMMA WriteUpdateEffect ==
  ASSUME TypeOK, NEW h \in Handlers, WriteUpdate(h)
  PROVE  LET k == handler[h]
             t == k.target
             locked == k.turn = "off" /\ k.was
         IN  /\ UNCHANGED <<exceptions, rows, open, agreed>>
             /\ \/ UNCHANGED <<account, ghosts>> /\ To(h, "done")
                \/ /\ account' \in [Users -> Account]
                   /\ locked => Guard(t)
                   /\ \A u \in Users :
                        /\ account'[u].exists = account[u].exists
                        /\ account'[u].credential = account[u].credential
                        /\ u # t => account'[u] = account[u]
                   /\ account'[t].duties = CASE k.set = "owner" -> account[t].duties \cup {"owner"}
                                             [] k.set = "viewer" -> account[t].duties \ {"owner"}
                                             [] OTHER -> account[t].duties
                   /\ account'[t].active = IF k.turn = "keep" THEN account[t].active ELSE k.turn # "off"
                   /\ k.set # "keep" /\ k.want # k.read => To(h, "settle")
                   /\ unguarded' = (unguarded \/ (~locked /\ k.turn = "off" /\ t \in Admins))
                   /\ Excuse(h) /\ Found(h)
<1> DEFINE k == handler[h]
           t == k.target
           locked == k.turn = "off" /\ k.was
           duties == CASE k.set = "owner" -> account[t].duties \cup {"owner"}
                       [] k.set = "viewer" -> account[t].duties \ {"owner"}
                       [] OTHER -> account[t].duties
           active == IF k.turn = "keep" THEN account[t].active ELSE ~(k.turn = "off")
<1>1. t \in Users /\ duties \in SUBSET Duties /\ active \in BOOLEAN
  BY HandlerFields DEF TypeOK, Account, Duties
<1>2. CASE locked /\ ~Guard(t)
  BY <1>2 DEF WriteUpdate, ghosts
<1>3. CASE ~(locked /\ ~Guard(t))
  <2>1. account' = [account EXCEPT ![t].duties = duties, ![t].active = active]
    BY <1>3 DEF WriteUpdate
  <2>2. /\ account' \in [Users -> Account]
        /\ \A u \in Users :
             /\ account'[u].exists = account[u].exists
             /\ account'[u].credential = account[u].credential
             /\ u # t => account'[u] = account[u]
        /\ account'[t].duties = duties /\ account'[t].active = active
    <3> HIDE DEF t, duties, active
    <3> QED
      BY <1>1, <2>1 DEF TypeOK, Account
  <2>3. /\ k.set # "keep" /\ k.want # k.read => To(h, "settle")
        /\ unguarded' = (unguarded \/ (~locked /\ k.turn = "off" /\ t \in Admins))
        /\ Excuse(h) /\ Found(h) /\ UNCHANGED <<exceptions, rows, open, agreed>>
    <3>1. k.set # "keep" /\ k.want # k.read => To(h, "settle")
      BY <1>3 DEF WriteUpdate
    <3>2. Excuse(h) /\ Found(h) /\ UNCHANGED <<exceptions, rows, open, agreed>>
      BY <1>3 DEF WriteUpdate
    <3>3. unguarded' = (unguarded \/ (~locked /\ k.turn = "off" /\ t \in Admins))
      BY <1>3 DEF WriteUpdate
    <3> QED
      BY <3>1, <3>2, <3>3
  <2> HIDE DEF duties, active
  <2>4. active = IF k.turn = "keep" THEN account[t].active ELSE k.turn # "off"
    BY DEF active
  <2> QED
    BY <1>3, <2>2, <2>3, <2>4 DEF duties
<1> QED
  BY <1>2, <1>3

LEMMA CreateRowEffect ==
  ASSUME TypeOK, NEW h \in Handlers, CreateRow(h)
  PROVE  LET t == handler[h].target
         IN  /\ UNCHANGED <<exceptions, rows, open, agreed, unguarded, excused>>
             /\ \/ UNCHANGED <<account, founding>> /\ To(h, "done")
                \/ /\ ~account[t].exists /\ account' \in [Users -> Account]
                   /\ \A u \in Users : u # t => account'[u] = account[u]
                   /\ account'[t].exists /\ account'[t].duties = Goal(handler[h]) \cap {"owner"}
                   /\ To(h, "globals") /\ Found(h)
<1> DEFINE t == handler[h].target
           new == [exists |-> TRUE, active |-> TRUE, credential |-> FALSE,
                   duties |-> Immediate(h) \cap {"owner"}]
<1>1. t \in Users /\ Immediate(h) = Goal(handler[h]) /\ Immediate(h) \in SUBSET Duties
  BY HandlerFields
<1>2. new \in Account
  BY <1>1 DEF Account
<1>3. CASE account[t].exists
  BY <1>3 DEF CreateRow
<1>4. CASE ~account[t].exists
  <2>1. account' = [account EXCEPT ![t] = new] /\ To(h, "globals") /\ Found(h)
    BY <1>4 DEF CreateRow
  <2>2. account' \in [Users -> Account] /\ account'[t] = new /\ \A u \in Users : u # t => account'[u] = account[u]
    <3> HIDE DEF new, t
    <3> QED
      BY <1>1, <1>2, <2>1 DEF TypeOK
  <2> QED
    BY <1>1, <1>4, <2>1, <2>2 DEF CreateRow
<1> QED
  BY <1>3, <1>4

LEMMA GrantGlobalsEffect ==
  ASSUME TypeOK, NEW h \in Handlers, GrantGlobals(h)
  PROVE  LET t == handler[h].target
         IN  /\ UNCHANGED <<exceptions, rows, open, agreed, founding, unguarded>>
             /\ Holds(t, account[t].duties \cup (Goal(handler[h]) \cap Globals))
             /\ To(h, IF handler[h].mode = "wait" THEN "supersede" ELSE "settle")
             /\ excused' = IF account[t].duties \subseteq Goal(handler[h])
                           THEN excused ELSE excused \cup {t}
<1> DEFINE t == handler[h].target
           duties == account[t].duties \cup (Immediate(h) \cap Globals)
<1>1. t \in Users /\ duties \in SUBSET Duties /\ Immediate(h) = Goal(handler[h])
  BY HandlerFields DEF TypeOK, Account
<1>2. account' = [account EXCEPT ![t].duties = duties]
  BY DEF GrantGlobals
<1>3. Holds(t, duties)
  <2> HIDE DEF t, duties
  <2> QED
    BY <1>1, <1>2, HoldsEffect
<1> QED
  BY <1>1, <1>3 DEF GrantGlobals

LEMMA WriteApprovedEffect ==
  ASSUME TypeOK, Grounded, NEW h \in Handlers, WriteApproved(h)
  PROVE  LET k == handler[h]
             t == k.target
             locked == Admin \in k.read /\ Admin \notin k.want
             by == {rows[k.row].requester, k.actor}
         IN  /\ UNCHANGED <<exceptions, open>> /\ rows' \in Seq(Row) /\ DOMAIN rows' = DOMAIN rows
             /\ \A i \in DOMAIN rows : rows'[i].target = rows[i].target /\ rows'[i].requester = rows[i].requester
             /\ \/ UNCHANGED <<account, ghosts>> /\ To(h, "done")
                \/ /\ Holds(t, k.want) /\ (locked => Guard(t))
                   /\ agreed' = agreed \cup ({t} \X k.want \X by)
                   /\ unguarded' = (unguarded \/ (~locked /\ Admin \notin k.want /\ t \in Admins))
                   /\ To(h, "settle") /\ Excuse(h) /\ UNCHANGED founding
<1> DEFINE k == handler[h]
           t == k.target
           locked == Admin \in k.read /\ Admin \notin k.want
<1>1. t \in Users /\ k.want \in SUBSET Duties /\ k.row \in DOMAIN rows
  BY HandlerFields DEF Grounded, WriteApproved, Idle
<1>2. CASE rows[k.row].status # "pending" \/ (locked /\ ~Guard(t))
  BY <1>2 DEF WriteApproved, TypeOK, ghosts
<1>3. CASE ~(rows[k.row].status # "pending" \/ (locked /\ ~Guard(t)))
  <2>1. account' = [account EXCEPT ![t].duties = k.want] /\ rows' = [rows EXCEPT ![k.row].status = "applied"]
    BY <1>3 DEF WriteApproved
  <2>2. Holds(t, k.want)
    <3> HIDE DEF t
    <3> QED
      BY <1>1, <2>1, HoldsEffect
  <2>3. /\ rows' \in Seq(Row) /\ DOMAIN rows' = DOMAIN rows
        /\ \A i \in DOMAIN rows : rows'[i].target = rows[i].target /\ rows'[i].requester = rows[i].requester
    <3>1. \A i \in DOMAIN rows : rows[i] \in Row
      BY DEF TypeOK
    <3>2. PICK row \in Row : row = rows[k.row]
      BY <1>1, <3>1
    <3>3. PICK new : new = [row EXCEPT !.status = "applied"]
      OBVIOUS
    <3>4. new \in Row /\ new.target = row.target /\ new.requester = row.requester
      BY <3>3 DEF Row
    <3>5. rows' = [rows EXCEPT ![k.row] = new]
      BY <2>1, <3>2, <3>3
    <3> QED
      BY <1>1, <3>1, <3>2, <3>4, <3>5 DEF TypeOK
  <2> QED
    BY <1>3, <2>2, <2>3 DEF WriteApproved
<1> QED
  BY <1>2, <1>3

LEMMA InsertEffect ==
  ASSUME TypeOK, Deciding, NEW h \in Handlers, Insert(h)
  PROVE  /\ rows' \in Seq(Row) /\ DOMAIN rows' = 1..(Len(rows) + 1) /\ DOMAIN rows = 1..Len(rows)
         /\ \A i \in DOMAIN rows : rows'[i] = rows[i]
         /\ rows'[Len(rows) + 1].requester # rows'[Len(rows) + 1].target
<1> DEFINE t == handler[h].target
<1>1. /\ t \in Users /\ handler[h].actor \in Users /\ handler[h].want \in SUBSET Duties
      /\ account[t].duties \in SUBSET Duties
  BY HandlerFields DEF TypeOK, Account
<1>2. handler[h].actor # t
  BY DEF Insert, Deciding, Decided, Idle
<1>3. PICK new : new = [target |-> t, requester |-> handler[h].actor, want |-> handler[h].want,
                        before |-> account[t].duties, override |-> handler[h].plan # {},
                        status |-> "pending"]
  OBVIOUS
<1>4. new \in Row /\ new.requester # new.target
  BY <1>1, <1>2, <1>3 DEF Row
<1>5. rows' = Append(rows, new)
  BY <1>3 DEF Insert
<1> QED
  BY <1>4, <1>5 DEF TypeOK

LEMMA RecoverEffect ==
  ASSUME TypeOK, Recover
  PROVE  /\ account' \in [Users -> Account]
         /\ \A u \in Users : u # Root => account'[u] = account[u]
         /\ account[Root].exists /\ account'[Root].exists
         /\ account'[Root].active /\ account'[Root].credential = account[Root].credential
         /\ account'[Root].duties = account[Root].duties \cup {Admin}
<1> DEFINE duties == account[Root].duties \cup {Admin}
<1>1. Root \in Users /\ duties \in SUBSET Duties
  BY UsersAssumption DEF TypeOK, Account, Duties, Globals
<1>2. account' = [account EXCEPT ![Root].active = TRUE, ![Root].duties = duties]
  BY DEF Recover
<1> HIDE DEF duties
<1>3. /\ account' \in [Users -> Account]
      /\ \A u \in Users : u # Root => account'[u] = account[u]
      /\ account'[Root].exists = account[Root].exists /\ account'[Root].active
      /\ account'[Root].credential = account[Root].credential /\ account'[Root].duties = duties
  BY <1>1, <1>2 DEF TypeOK, Account
<1> QED
  BY <1>3 DEF Recover, duties

-----------------------------------------------------------------------------
(* What no step takes back.                                                *)

Grows ==
  /\ \A u \in Users : account[u].exists => account'[u].exists
  /\ founding \subseteq founding' /\ agreed \subseteq agreed'
  /\ excused \subseteq excused' /\ (unguarded => unguarded')
  /\ DOMAIN rows \subseteq DOMAIN rows'
  /\ \A i \in DOMAIN rows : rows'[i].target = rows[i].target /\ rows'[i].requester = rows[i].requester

\* Agreement only grows, so a duty that was backed stays backed.
LEMMA BackedGrows ==
  ASSUME NEW F, NEW A, NEW F2, NEW A2, F \subseteq F2, A \subseteq A2,
         NEW u, NEW d, Backed(F, A, u, d)
  PROVE  Backed(F2, A2, u, d)
<1> DEFINE P == {p \in Users \ {u} : <<u, d, p>> \in A}
           P2 == {p \in Users \ {u} : <<u, d, p>> \in A2}
<1>1. IsFiniteSet(P2) /\ P \subseteq P2
  BY UsersAssumption, FS_Subset
<1>2. Cardinality(P) <= Cardinality(P2) /\ Cardinality(P) \in Nat /\ Cardinality(P2) \in Nat
  BY <1>1, FS_Subset, FS_CardinalityType
<1> QED
  BY <1>2 DEF Backed

\* Two people who are neither each other nor the holder are enough.
LEMMA TwoAgree ==
  ASSUME NEW F, NEW A, NEW u, NEW d, NEW p \in Users, NEW q \in Users,
         p # q, p # u, q # u, <<u, d, p>> \in A, <<u, d, q>> \in A
  PROVE  Backed(F, A, u, d)
<1> DEFINE P == {r \in Users \ {u} : <<u, d, r>> \in A}
<1>1. IsFiniteSet(P) /\ {p, q} \subseteq P
  BY UsersAssumption, FS_Subset
<1>2. Cardinality({p, q}) = 2
  <2>1. Cardinality({p}) = 1 /\ IsFiniteSet({p})
    BY FS_Singleton
  <2>2. {p, q} = {p} \cup {q}
    OBVIOUS
  <2> QED
    BY <2>1, <2>2, FS_AddElement
<1>3. Cardinality({p, q}) <= Cardinality(P) /\ Cardinality(P) \in Nat
  BY <1>1, FS_Subset, FS_CardinalityType
<1> QED
  BY <1>2, <1>3 DEF Backed

\* Account by account, row by row, the stored state keeps its type.
LEMMA StoredStep ==
  ASSUME TypeOK, Existing, AskedByOthers, Deciding, Grounded, [Next]_vars
  PROVE  account' \in [Users -> Account] /\ exceptions' \in [Users -> SUBSET Rules] /\ rows' \in
         Seq(Row) /\ open' \in BOOLEAN /\ unguarded' \in BOOLEAN
<1> USE UsersAssumption, HandlerFields DEF TypeOK, Account, stored, ghosts
<1>1. ASSUME NEW h \in Handlers, Begin(h) PROVE account' \in [Users -> Account] /\ exceptions'
         \in [Users -> SUBSET Rules] /\ rows' \in Seq(Row) /\ open' \in BOOLEAN /\ unguarded'
         \in BOOLEAN
  BY <1>1, BeginEffect DEF stored, ghosts
<1>2. ASSUME NEW h \in Handlers, WriteAccess(h) PROVE account' \in [Users -> Account] /\
         exceptions' \in [Users -> SUBSET Rules] /\ rows' \in Seq(Row) /\ open' \in BOOLEAN /\
         unguarded' \in BOOLEAN
  BY <1>2, WriteAccessEffect DEF Holds
<1>3. ASSUME NEW h \in Handlers, WriteUpdate(h) PROVE account' \in [Users -> Account] /\
         exceptions' \in [Users -> SUBSET Rules] /\ rows' \in Seq(Row) /\ open' \in BOOLEAN /\
         unguarded' \in BOOLEAN
  BY <1>3, WriteUpdateEffect
<1>4. ASSUME NEW h \in Handlers, CreateRow(h) PROVE account' \in [Users -> Account] /\
         exceptions' \in [Users -> SUBSET Rules] /\ rows' \in Seq(Row) /\ open' \in BOOLEAN /\
         unguarded' \in BOOLEAN
  BY <1>4, CreateRowEffect
<1>5. ASSUME NEW h \in Handlers, GrantGlobals(h) PROVE account' \in [Users -> Account] /\
         exceptions' \in [Users -> SUBSET Rules] /\ rows' \in Seq(Row) /\ open' \in BOOLEAN /\
         unguarded' \in BOOLEAN
  BY <1>5, GrantGlobalsEffect DEF Holds
<1>6. ASSUME NEW h \in Handlers, WriteApproved(h) PROVE account' \in [Users -> Account] /\
         exceptions' \in [Users -> SUBSET Rules] /\ rows' \in Seq(Row) /\ open' \in BOOLEAN /\
         unguarded' \in BOOLEAN
  BY <1>6, WriteApprovedEffect DEF Holds
<1>7. ASSUME NEW h \in Handlers, Settle(h) PROVE account' \in [Users -> Account] /\ exceptions'
         \in [Users -> SUBSET Rules] /\ rows' \in Seq(Row) /\ open' \in BOOLEAN /\ unguarded'
         \in BOOLEAN
  <2>1. Kept(h) \in SUBSET Rules
    BY <1>7 DEF Settle, Kept, Overrides, Conflicts
  <2> QED
    BY <1>7, <2>1 DEF Settle
<1>8. ASSUME NEW h \in Handlers, Withdraw(h) PROVE account' \in [Users -> Account] /\
         exceptions' \in [Users -> SUBSET Rules] /\ rows' \in Seq(Row) /\ open' \in BOOLEAN /\
         unguarded' \in BOOLEAN
  BY <1>8, CloseEffect DEF Withdraw
<1>9. ASSUME NEW h \in Handlers, Supersede(h) PROVE account' \in [Users -> Account] /\
         exceptions' \in [Users -> SUBSET Rules] /\ rows' \in Seq(Row) /\ open' \in BOOLEAN /\
         unguarded' \in BOOLEAN
  BY <1>9, CloseEffect DEF Supersede
<1>10. ASSUME NEW h \in Handlers, Insert(h) PROVE account' \in [Users -> Account] /\ exceptions'
         \in [Users -> SUBSET Rules] /\ rows' \in Seq(Row) /\ open' \in BOOLEAN /\ unguarded'
         \in BOOLEAN
  BY <1>10, InsertEffect DEF Insert
<1>11. ASSUME NEW h \in Handlers, Crash(h) PROVE account' \in [Users -> Account] /\ exceptions'
         \in [Users -> SUBSET Rules] /\ rows' \in Seq(Row) /\ open' \in BOOLEAN /\ unguarded'
         \in BOOLEAN
  BY <1>11 DEF Crash
<1>12. ASSUME NEW r \in DOMAIN rows, Expire(r) PROVE account' \in [Users -> Account] /\
         exceptions' \in [Users -> SUBSET Rules] /\ rows' \in Seq(Row) /\ open' \in BOOLEAN /\
         unguarded' \in BOOLEAN
  BY <1>12, CloseEffect DEF Expire
<1>13. ASSUME NEW a \in Admins, NEW r \in DOMAIN rows, Dismiss(a, r) PROVE account' \in [Users
         -> Account] /\ exceptions' \in [Users -> SUBSET Rules] /\ rows' \in Seq(Row) /\ open'
         \in BOOLEAN /\ unguarded' \in BOOLEAN
  BY <1>13, CloseEffect DEF Dismiss
<1>14. ASSUME NEW u \in Users, AcceptInvite(u) PROVE account' \in [Users -> Account] /\
         exceptions' \in [Users -> SUBSET Rules] /\ rows' \in Seq(Row) /\ open' \in BOOLEAN /\
         unguarded' \in BOOLEAN
  BY <1>14 DEF AcceptInvite
<1>15. ASSUME NEW u \in Users, NEW rule \in Rules, ExceptionEnds(u, rule) PROVE account' \in
         [Users -> Account] /\ exceptions' \in [Users -> SUBSET Rules] /\ rows' \in Seq(Row) /\
         open' \in BOOLEAN /\ unguarded' \in BOOLEAN
  BY <1>15 DEF ExceptionEnds
<1>16. ASSUME CloseWindow PROVE account' \in [Users -> Account] /\ exceptions' \in [Users ->
         SUBSET Rules] /\ rows' \in Seq(Row) /\ open' \in BOOLEAN /\ unguarded' \in BOOLEAN
  BY <1>16 DEF CloseWindow
<1>17. ASSUME Recover PROVE account' \in [Users -> Account] /\ exceptions' \in [Users -> SUBSET
         Rules] /\ rows' \in Seq(Row) /\ open' \in BOOLEAN /\ unguarded' \in BOOLEAN
  BY <1>17, RecoverEffect DEF Recover
<1>18. CASE UNCHANGED vars
  BY <1>18 DEF vars
<1> HIDE DEF TypeOK, stored, ghosts
<1> QED
  BY <1>1, <1>2, <1>3, <1>4, <1>5, <1>6, <1>7, <1>8, <1>9, <1>10, <1>11, <1>12, <1>13, <1>14,
    <1>15, <1>16, <1>17, <1>18 DEF Next, Begin

LEMMA TypeStep ==
  ASSUME TypeOK, Existing, AskedByOthers, Deciding, Grounded, [Next]_vars PROVE TypeOK'
  BY StoredStep, DecidingStep DEF TypeOK, Account, Row, Handler, Places, Rules, Duties, Globals

\* An account that exists goes on existing, what was agreed stays agreed, and no row
\* changes its people.
LEMMA GrowsStep ==
  ASSUME TypeOK, Existing, AskedByOthers, Deciding, Grounded, [Next]_vars
  PROVE  Grows
<1> USE HandlerFields DEF Grows, Holds, Found, Excuse, stored, ghosts
<1>1. ASSUME NEW h \in Handlers, Begin(h) PROVE Grows
  BY <1>1, BeginEffect DEF stored, ghosts
<1>2. ASSUME NEW h \in Handlers, WriteAccess(h) PROVE Grows
  BY <1>2, WriteAccessEffect DEF WriteAccess
<1>3. ASSUME NEW h \in Handlers, WriteUpdate(h) PROVE Grows
  BY <1>3, WriteUpdateEffect DEF WriteUpdate
<1>4. ASSUME NEW h \in Handlers, CreateRow(h) PROVE Grows
  BY <1>4, CreateRowEffect DEF CreateRow
<1>5. ASSUME NEW h \in Handlers, GrantGlobals(h) PROVE Grows
  BY <1>5, GrantGlobalsEffect DEF GrantGlobals
<1>6. ASSUME NEW h \in Handlers, WriteApproved(h) PROVE Grows
  BY <1>6, WriteApprovedEffect DEF WriteApproved
<1>7. ASSUME NEW h \in Handlers, Settle(h) PROVE Grows
  BY <1>7 DEF Settle
<1>8. ASSUME NEW h \in Handlers, Withdraw(h) PROVE Grows
  BY <1>8, CloseEffect DEF Withdraw
<1>9. ASSUME NEW h \in Handlers, Supersede(h) PROVE Grows
  BY <1>9, CloseEffect DEF Supersede
<1>10. ASSUME NEW h \in Handlers, Insert(h) PROVE Grows
  BY <1>10, InsertEffect DEF Insert
<1>11. ASSUME NEW h \in Handlers, Crash(h) PROVE Grows
  BY <1>11 DEF Crash
<1>12. ASSUME NEW r \in DOMAIN rows, Expire(r) PROVE Grows
  BY <1>12, CloseEffect DEF Expire
<1>13. ASSUME NEW a \in Admins, NEW r \in DOMAIN rows, Dismiss(a, r) PROVE Grows
  BY <1>13, CloseEffect DEF Dismiss
<1>14. ASSUME NEW u \in Users, AcceptInvite(u) PROVE Grows
  BY <1>14 DEF AcceptInvite, TypeOK, Account
<1>15. ASSUME NEW u \in Users, NEW rule \in Rules, ExceptionEnds(u, rule) PROVE Grows
  BY <1>15 DEF ExceptionEnds
<1>16. ASSUME CloseWindow PROVE Grows
  BY <1>16 DEF CloseWindow
<1>17. ASSUME Recover PROVE Grows
  BY <1>17, RecoverEffect DEF Recover
<1>18. CASE UNCHANGED vars
  BY <1>18 DEF Grows, vars
<1> HIDE DEF Grows
<1> QED
  BY <1>1, <1>2, <1>3, <1>4, <1>5, <1>6, <1>7, <1>8, <1>9, <1>10, <1>11, <1>12, <1>13, <1>14,
    <1>15, <1>16, <1>17, <1>18 DEF Next, Begin

\* Agreement is not taken back.
LEMMA StaysBacked ==
  ASSUME TypeOK, Existing, AskedByOthers, Deciding, Grounded, [Next]_vars,
         NEW u, NEW d, Backed(founding, agreed, u, d)
  PROVE  Backed(founding', agreed', u, d)
  BY GrowsStep, BackedGrows DEF Grows

\* What a request read stays good until it writes.
LEMMA GroundedStep ==
  ASSUME TypeOK, Existing, AskedByOthers, Deciding, Grounded, ElevatedByTwo, [Next]_vars
  PROVE  Grounded'
<1> DEFINE Good(k) ==
             /\ k.at # "create" => account'[k.target].exists
             /\ \A d \in k.read : Backed(founding', agreed', k.target, d)
             /\ k.at = "globals" => \A d \in Goal(k) : Backed(founding', agreed', k.target, d)
             /\ k.op = "approve" /\ k.at = "write" =>
                  /\ k.row \in DOMAIN rows' /\ rows'[k.row].target = k.target
                  /\ rows'[k.row].requester # k.target /\ rows'[k.row].requester # k.actor
                  /\ k.actor # k.target
<1>1. Grows
  BY GrowsStep
<1>2. ASSUME NEW u, NEW d, Backed(founding, agreed, u, d) PROVE Backed(founding', agreed', u, d)
  BY <1>1, <1>2, BackedGrows DEF Grows
<1>3. ASSUME NEW g \in Handlers, handler[g].at \notin Idle PROVE Good(handler[g])
  BY <1>1, <1>2, <1>3, HandlerFields DEF Grounded, Grows
<1>4. SUFFICES ASSUME NEW g \in Handlers, handler'[g].at \notin Idle PROVE Good(handler'[g])
  BY DEF Grounded, Idle, Goal
<1>5. CASE handler'[g] = handler[g]
  BY <1>3, <1>4, <1>5
<1>6. ASSUME NEW h \in Handlers, Begin(h) PROVE Good(handler'[g])
  <2>1. PICK k \in Handler : handler' = [handler EXCEPT ![h] = k] /\ JustRead(k)
    BY <1>6, BeginEffect
  <2>2. UNCHANGED <<stored, ghosts>>
    BY <1>6, BeginEffect
  <2>3. CASE g # h
    BY <1>5, <2>1, <2>3 DEF TypeOK
  <2>4. CASE g = h
    <3>1. handler'[g] = k /\ k.target \in Users
      BY <2>1, <2>4 DEF TypeOK, Handler
    <3>2. \A d \in account[k.target].duties : Backed(founding, agreed, k.target, d)
      BY <3>1 DEF ElevatedByTwo, Backed
    <3>3. Good(k)
      BY <1>2, <2>1, <2>2, <3>2 DEF JustRead, stored, Idle
    <3> QED
      BY <3>1, <3>3
  <2> QED
    BY <2>3, <2>4
<1>7. ASSUME NEW h \in Handlers, Work(h) PROVE Good(handler'[g])
  <2>1. PICK at \in Places :
           /\ To(h, at) /\ at \notin {"new", "write", "create"} /\ handler[h].at \notin Idle
           /\ at = "globals" => handler[h].at = "create"
    BY <1>7, WorkMoves
  <2>2. /\ \A f \in Handlers : f # h => handler'[f] = handler[f]
        /\ handler'[h].at = at
        /\ at # "done" => handler'[h] = [handler[h] EXCEPT !.at = at]
    BY <2>1, ToEffect
  <2>3. CASE g # h
    BY <1>5, <2>2, <2>3
  <2>4. CASE g = h
    <3>1. at # "done"
      BY <1>4, <2>2, <2>4 DEF Idle
    <3>2. PICK k \in Handler : k = handler[h]
      BY DEF TypeOK
    <3>3. PICK j : j = [k EXCEPT !.at = at]
      OBVIOUS
    <3>4. handler'[g] = j
      BY <2>2, <2>4, <3>1, <3>2, <3>3
    <3>5. /\ j.at = at /\ j.target = k.target /\ j.read = k.read /\ j.want = k.want
          /\ j.mode = k.mode /\ k.target \in Users
      BY <3>3 DEF Handler
    <3>6. CASE k.at = "create"
      <4>0. ~To(h, "done")
        BY <2>2, <3>1, ToEffect, PlacesNamed
      <4>1. CreateRow(h)
        BY <1>7, <3>2, <3>6, <4>0 DEF Work, WriteAccess, WriteUpdate, GrantGlobals, WriteApproved,
             Settle, Withdraw, Supersede, Insert, Crash
      <4>2. account'[k.target].exists /\ Found(h)
        BY <3>2, <4>0, <4>1, CreateRowEffect
      <4>3. Decided(k) /\ k.op = "create" /\ k.read = {}
        BY <2>1, <3>2, <3>6 DEF Deciding, Decided
      <4>4. ASSUME NEW d \in Goal(k) PROVE Backed(founding', agreed', k.target, d)
        <5>1. k.mode = "bootstrap"
          BY <4>3, <4>4 DEF Goal, Decided, Handler
        <5>2. <<k.target, d>> \in founding'
          BY <3>2, <4>2, <4>3, <4>4, <5>1 DEF Found, Goal
        <5> QED
          BY <5>2 DEF Backed
      <4> QED
        BY <2>1, <3>4, <3>5, <4>2, <4>3, <4>4 DEF Goal
    <3>7. CASE k.at # "create"
      BY <1>3, <2>1, <3>2, <3>4, <3>5, <3>7
    <3> QED
      BY <3>6, <3>7
  <2> QED
    BY <2>3, <2>4
<1> QED
  BY <1>4, <1>5, <1>6, <1>7, WhoSteps

LEMMA InitInv == Init => Inv
<1> SUFFICES ASSUME Init PROVE Inv
  OBVIOUS
<1>1. PICK s \in Starts :
        /\ account = s.account /\ open = s.open /\ rows = s.rows
        /\ founding = {held \in Users \X Duties : held[2] \in s.account[held[1]].duties}
  BY DEF Init
<1>2. /\ s.account \in [Users -> Account] /\ s.open \in BOOLEAN /\ s.rows \in Seq(Row)
      /\ \E u \in Users : s.account[u].active /\ s.account[u].credential /\ Admin \in s.account[u].duties
      /\ \A u \in Users :
           /\ s.account[u].active => s.account[u].exists
           /\ ~s.account[u].exists => s.account[u].duties = {}
           /\ Conflicts(s.account[u].duties) = {}
      /\ \A i \in DOMAIN s.rows : s.rows[i].requester # s.rows[i].target
  BY StartsAssumption
<1>3. /\ exceptions = [u \in Users |-> {}] /\ handler = [h \in Handlers |-> New]
      /\ agreed = {} /\ unguarded = FALSE /\ excused = {}
  BY DEF Init
<1>4. TypeOK
  BY <1>1, <1>2, <1>3, NewFields DEF TypeOK
<1>5. Deciding /\ Grounded
  BY <1>3, NewFields DEF Deciding, Grounded, Idle
<1>6. Existing /\ AskedByOthers /\ Covered
  BY <1>1, <1>2, <1>3 DEF Existing, AskedByOthers, Covered
<1>7. ElevatedByTwo
  <2> SUFFICES ASSUME NEW u \in Users, NEW d \in account[u].duties PROVE <<u, d>> \in founding
    BY DEF ElevatedByTwo
  <2>1. d \in Duties
    BY <1>1, <1>2 DEF Account
  <2> QED
    BY <1>1, <2>1
<1>8. AdminRemains
  BY <1>1, <1>2 DEF AdminRemains, Admins
<1> QED
  BY <1>4, <1>5, <1>6, <1>7, <1>8 DEF Inv

\* Nobody comes to ask for himself.
LEMMA AskedStep ==
  ASSUME TypeOK, Existing, AskedByOthers, Deciding, Grounded, [Next]_vars
  PROVE  AskedByOthers'
<1> USE DEF AskedByOthers, stored, ghosts
<1>1. ASSUME NEW h \in Handlers, Begin(h) PROVE AskedByOthers'
  BY <1>1, BeginEffect DEF stored, ghosts
<1>2. ASSUME NEW h \in Handlers, WriteAccess(h) PROVE AskedByOthers'
  BY <1>2, WriteAccessEffect DEF WriteAccess
<1>3. ASSUME NEW h \in Handlers, WriteUpdate(h) PROVE AskedByOthers'
  BY <1>3, WriteUpdateEffect DEF WriteUpdate
<1>4. ASSUME NEW h \in Handlers, CreateRow(h) PROVE AskedByOthers'
  BY <1>4, CreateRowEffect DEF CreateRow
<1>5. ASSUME NEW h \in Handlers, GrantGlobals(h) PROVE AskedByOthers'
  BY <1>5, GrantGlobalsEffect DEF GrantGlobals
<1>6. ASSUME NEW h \in Handlers, WriteApproved(h) PROVE AskedByOthers'
  BY <1>6, WriteApprovedEffect DEF WriteApproved
<1>7. ASSUME NEW h \in Handlers, Settle(h) PROVE AskedByOthers'
  BY <1>7 DEF Settle
<1>8. ASSUME NEW h \in Handlers, Withdraw(h) PROVE AskedByOthers'
  BY <1>8, CloseEffect DEF Withdraw
<1>9. ASSUME NEW h \in Handlers, Supersede(h) PROVE AskedByOthers'
  BY <1>9, CloseEffect DEF Supersede
<1>10. ASSUME NEW h \in Handlers, Insert(h) PROVE AskedByOthers'
  BY <1>10, InsertEffect DEF Insert
<1>11. ASSUME NEW h \in Handlers, Crash(h) PROVE AskedByOthers'
  BY <1>11 DEF Crash
<1>12. ASSUME NEW r \in DOMAIN rows, Expire(r) PROVE AskedByOthers'
  BY <1>12, CloseEffect DEF Expire
<1>13. ASSUME NEW a \in Admins, NEW r \in DOMAIN rows, Dismiss(a, r) PROVE AskedByOthers'
  BY <1>13, CloseEffect DEF Dismiss
<1>14. ASSUME NEW u \in Users, AcceptInvite(u) PROVE AskedByOthers'
  BY <1>14 DEF AcceptInvite
<1>15. ASSUME NEW u \in Users, NEW rule \in Rules, ExceptionEnds(u, rule) PROVE AskedByOthers'
  BY <1>15 DEF ExceptionEnds
<1>16. ASSUME CloseWindow PROVE AskedByOthers'
  BY <1>16 DEF CloseWindow
<1>17. ASSUME Recover PROVE AskedByOthers'
  BY <1>17, RecoverEffect DEF Recover
<1>18. CASE UNCHANGED vars
  BY <1>18 DEF vars
<1> HIDE DEF AskedByOthers
<1> QED
  BY <1>1, <1>2, <1>3, <1>4, <1>5, <1>6, <1>7, <1>8, <1>9, <1>10, <1>11, <1>12, <1>13, <1>14,
    <1>15, <1>16, <1>17, <1>18 DEF Next, Begin

\* An account has duties and exceptions only once it exists.
LEMMA ExistingStep ==
  ASSUME TypeOK, Existing, AskedByOthers, Deciding, Grounded, [Next]_vars
  PROVE  Existing'
<1> USE DEF Existing, Holds, stored, ghosts
<1>1. ASSUME NEW h \in Handlers, Begin(h) PROVE Existing'
  BY <1>1, BeginEffect DEF stored, ghosts
<1>2. ASSUME NEW h \in Handlers, WriteAccess(h) PROVE Existing'
  <2>1. account[handler[h].target].exists
    BY <1>2 DEF WriteAccess, Grounded, Idle
  <2>2. exceptions' = exceptions /\ handler[h].target \in Users
    BY <1>2, WriteAccessEffect, HandlerFields
  <2>3. \A u \in Users : account'[u].exists = account[u].exists
    BY <1>2, WriteAccessEffect
  <2>4. \A u \in Users : u # handler[h].target =>
           account'[u].active = account[u].active /\ account'[u].duties = account[u].duties
    BY <1>2, WriteAccessEffect
  <2> QED
    BY <2>1, <2>2, <2>3, <2>4
<1>3. ASSUME NEW h \in Handlers, WriteUpdate(h) PROVE Existing'
  <2>1. account[handler[h].target].exists
    BY <1>3 DEF WriteUpdate, Grounded, Idle
  <2>2. exceptions' = exceptions /\ handler[h].target \in Users
    BY <1>3, WriteUpdateEffect, HandlerFields
  <2>3. \A u \in Users : account'[u].exists = account[u].exists
    BY <1>3, WriteUpdateEffect
  <2>4. \A u \in Users : u # handler[h].target =>
           account'[u].active = account[u].active /\ account'[u].duties = account[u].duties
    BY <1>3, WriteUpdateEffect
  <2> QED
    BY <2>1, <2>2, <2>3, <2>4
<1>4. ASSUME NEW h \in Handlers, CreateRow(h) PROVE Existing'
  BY <1>4, CreateRowEffect DEF CreateRow
<1>5. ASSUME NEW h \in Handlers, GrantGlobals(h) PROVE Existing'
  <2>1. account[handler[h].target].exists
    BY <1>5 DEF GrantGlobals, Grounded, Idle
  <2>2. exceptions' = exceptions /\ handler[h].target \in Users
    BY <1>5, GrantGlobalsEffect, HandlerFields
  <2>3. \A u \in Users : account'[u].exists = account[u].exists
    BY <1>5, GrantGlobalsEffect
  <2>4. \A u \in Users : u # handler[h].target =>
           account'[u].active = account[u].active /\ account'[u].duties = account[u].duties
    <3>1. Holds(handler[h].target, account[handler[h].target].duties \cup (Goal(handler[h]) \cap Globals))
      BY <1>5, GrantGlobalsEffect
    <3> QED
      BY <3>1
  <2> QED
    BY <2>1, <2>2, <2>3, <2>4
<1>6. ASSUME NEW h \in Handlers, WriteApproved(h) PROVE Existing'
  <2>1. account[handler[h].target].exists
    BY <1>6 DEF WriteApproved, Grounded, Idle
  <2>2. exceptions' = exceptions /\ handler[h].target \in Users
    BY <1>6, WriteApprovedEffect, HandlerFields
  <2>3. \A u \in Users : account'[u].exists = account[u].exists
    BY <1>6, WriteApprovedEffect
  <2>4. \A u \in Users : u # handler[h].target =>
           account'[u].active = account[u].active /\ account'[u].duties = account[u].duties
    BY <1>6, WriteApprovedEffect
  <2> QED
    BY <2>1, <2>2, <2>3, <2>4
<1>7. ASSUME NEW h \in Handlers, Settle(h) PROVE Existing'
  BY <1>7 DEF Settle, Grounded, Idle, TypeOK
<1>8. ASSUME NEW h \in Handlers, Withdraw(h) PROVE Existing'
  BY <1>8, CloseEffect DEF Withdraw
<1>9. ASSUME NEW h \in Handlers, Supersede(h) PROVE Existing'
  BY <1>9, CloseEffect DEF Supersede
<1>10. ASSUME NEW h \in Handlers, Insert(h) PROVE Existing'
  BY <1>10, InsertEffect DEF Insert
<1>11. ASSUME NEW h \in Handlers, Crash(h) PROVE Existing'
  BY <1>11 DEF Crash
<1>12. ASSUME NEW r \in DOMAIN rows, Expire(r) PROVE Existing'
  BY <1>12, CloseEffect DEF Expire
<1>13. ASSUME NEW a \in Admins, NEW r \in DOMAIN rows, Dismiss(a, r) PROVE Existing'
  BY <1>13, CloseEffect DEF Dismiss
<1>14. ASSUME NEW u \in Users, AcceptInvite(u) PROVE Existing'
  BY <1>14 DEF AcceptInvite, TypeOK, Account
<1>15. ASSUME NEW u \in Users, NEW rule \in Rules, ExceptionEnds(u, rule) PROVE Existing'
  BY <1>15 DEF ExceptionEnds, TypeOK
<1>16. ASSUME CloseWindow PROVE Existing'
  BY <1>16 DEF CloseWindow
<1>17. ASSUME Recover PROVE Existing'
  BY <1>17, RecoverEffect DEF Recover
<1>18. CASE UNCHANGED vars
  BY <1>18 DEF vars
<1> HIDE DEF Existing
<1> QED
  BY <1>1, <1>2, <1>3, <1>4, <1>5, <1>6, <1>7, <1>8, <1>9, <1>10, <1>11, <1>12, <1>13, <1>14,
    <1>15, <1>16, <1>17, <1>18 DEF Next, Begin

\* What a request writes at once was held when it read, or the window founds it.
LEMMA GoalBacked ==
  ASSUME TypeOK, Existing, AskedByOthers, Deciding, Grounded, ElevatedByTwo, [Next]_vars,
         NEW h \in Handlers, handler[h].at \notin Idle, handler[h].op # "approve", Found(h),
         NEW d \in Goal(handler[h])
  PROVE  Backed(founding', agreed', handler[h].target, d)
<1>1. Decided(handler[h]) /\ handler[h] \in Handler
  BY DEF Deciding, TypeOK
<1>2. CASE d \in handler[h].read
  BY <1>2, StaysBacked DEF Grounded
<1>3. CASE d \notin handler[h].read
  <2>1. handler[h].mode = "bootstrap" /\ d \in handler[h].want
    BY <1>1, <1>3 DEF Decided, Goal, Handler
  <2>2. <<handler[h].target, d>> \in founding'
    BY <1>3, <2>1 DEF Found
  <2> QED
    BY <2>2 DEF Backed
<1> QED
  BY <1>2, <1>3

AllBacked == \A u \in Users : \A d \in account[u].duties : Backed(founding, agreed, u, d)

\* No write gives a duty that nobody backs.
LEMMA BackedStep ==
  ASSUME TypeOK, Existing, AskedByOthers, Deciding, Grounded, ElevatedByTwo, AllBacked,
         [Next]_vars
  PROVE  AllBacked'
<1> USE StaysBacked, HandlerFields DEF AllBacked, Holds, stored, ghosts
<1>1. ASSUME NEW h \in Handlers, Begin(h) PROVE AllBacked'
  BY <1>1, BeginEffect DEF stored, ghosts
<1>2. ASSUME NEW h \in Handlers, WriteAccess(h) PROVE AllBacked'
  BY <1>2, WriteAccessEffect, GoalBacked DEF WriteAccess, Idle
<1>3. ASSUME NEW h \in Handlers, WriteUpdate(h) PROVE AllBacked'
  <2> DEFINE k == handler[h]
  <2>1. k.at \notin Idle /\ k.op = "update" /\ (k.set = "owner" => "owner" \in Goal(k))
    BY <1>3 DEF WriteUpdate, Deciding, Decided, Goal, Idle
  <2>2. ASSUME Found(h), k.set = "owner" PROVE Backed(founding', agreed', k.target, "owner")
    BY <2>1, <2>2, GoalBacked
  <2> HIDE DEF k
  <2> QED
    BY <1>3, <2>1, <2>2, WriteUpdateEffect, HandlerFields DEF k
<1>4. ASSUME NEW h \in Handlers, CreateRow(h) PROVE AllBacked'
  BY <1>4, CreateRowEffect, GoalBacked DEF CreateRow, Idle, Deciding, Decided
<1>5. ASSUME NEW h \in Handlers, GrantGlobals(h) PROVE AllBacked'
  BY <1>5, GrantGlobalsEffect DEF GrantGlobals, Idle, Grounded
<1>6. ASSUME NEW h \in Handlers, WriteApproved(h) PROVE AllBacked'
  <2> DEFINE k == handler[h]
  <2>1. CASE UNCHANGED <<account, ghosts>>
    BY <2>1
  <2>2. CASE /\ Holds(k.target, k.want)
             /\ agreed' = agreed \cup ({k.target} \X k.want \X {rows[k.row].requester, k.actor})
    <3>1. /\ k.row \in DOMAIN rows /\ rows[k.row].requester # k.target
          /\ rows[k.row].requester # k.actor /\ k.actor # k.target
      BY <1>6 DEF WriteApproved, Grounded, Idle
    <3>2. rows[k.row].requester \in Users /\ k.actor \in Users
      <4>1. rows[k.row] \in Row
        BY <3>1 DEF TypeOK
      <4> QED
        BY <4>1, HandlerFields DEF Row
    <3>3. ASSUME NEW d \in k.want PROVE Backed(founding', agreed', k.target, d)
      <4>1. /\ <<k.target, d, rows[k.row].requester>> \in agreed'
            /\ <<k.target, d, k.actor>> \in agreed'
        BY <2>2, <3>3
      <4> QED
        BY <3>1, <3>2, <4>1, TwoAgree
    <3> QED
      BY <2>2, <3>3
  <2> QED
    BY <1>6, <2>1, <2>2, WriteApprovedEffect
<1>7. ASSUME NEW h \in Handlers, Settle(h) PROVE AllBacked'
  BY <1>7 DEF Settle
<1>8. ASSUME NEW h \in Handlers, Withdraw(h) PROVE AllBacked'
  BY <1>8, CloseEffect DEF Withdraw
<1>9. ASSUME NEW h \in Handlers, Supersede(h) PROVE AllBacked'
  BY <1>9, CloseEffect DEF Supersede
<1>10. ASSUME NEW h \in Handlers, Insert(h) PROVE AllBacked'
  BY <1>10, InsertEffect DEF Insert
<1>11. ASSUME NEW h \in Handlers, Crash(h) PROVE AllBacked'
  BY <1>11 DEF Crash
<1>12. ASSUME NEW r \in DOMAIN rows, Expire(r) PROVE AllBacked'
  BY <1>12, CloseEffect DEF Expire
<1>13. ASSUME NEW a \in Admins, NEW r \in DOMAIN rows, Dismiss(a, r) PROVE AllBacked'
  BY <1>13, CloseEffect DEF Dismiss
<1>14. ASSUME NEW u \in Users, AcceptInvite(u) PROVE AllBacked'
  BY <1>14 DEF AcceptInvite, TypeOK, Account
<1>15. ASSUME NEW u \in Users, NEW rule \in Rules, ExceptionEnds(u, rule) PROVE AllBacked'
  BY <1>15 DEF ExceptionEnds
<1>16. ASSUME CloseWindow PROVE AllBacked'
  BY <1>16 DEF CloseWindow
<1>17. ASSUME Recover PROVE AllBacked'
  <2>1. Backed(founding', agreed', Root, Admin)
    BY <1>17 DEF Recover, Backed
  <2> QED
    BY <1>17, <2>1, RecoverEffect
<1>18. CASE UNCHANGED vars
  BY <1>18 DEF vars
<1> HIDE DEF AllBacked
<1> QED
  BY <1>1, <1>2, <1>3, <1>4, <1>5, <1>6, <1>7, <1>8, <1>9, <1>10, <1>11, <1>12, <1>13, <1>14,
    <1>15, <1>16, <1>17, <1>18 DEF Next, Begin

\* A writer that takes the last administrator away is stopped or counted.
LEMMA AdminStep ==
  ASSUME TypeOK, Existing, AskedByOthers, Deciding, Grounded, AdminRemains, [Next]_vars
  PROVE  AdminRemains'
<1> USE HandlerFields DEF AdminRemains, Admins, Guard, Holds, stored, ghosts
<1>1. ASSUME NEW h \in Handlers, Begin(h) PROVE AdminRemains'
  BY <1>1, BeginEffect DEF stored, ghosts
<1>2. ASSUME NEW h \in Handlers, WriteAccess(h) PROVE AdminRemains'
  <2>1. CASE UNCHANGED <<account, ghosts>>
    BY <2>1
  <2>2. CASE ~UNCHANGED <<account, ghosts>>
    <3>1. \A u \in Admins : u # handler[h].target => u \in Admins'
      BY <1>2, <2>2, WriteAccessEffect
    <3>2. Admin \in Goal(handler[h]) /\ handler[h].target \in Admins => handler[h].target \in Admins'
      BY <1>2, <2>2, WriteAccessEffect DEF Globals, Admin
    <3> QED
      BY <1>2, <2>2, <3>1, <3>2, WriteAccessEffect
  <2> QED
    BY <2>1, <2>2
<1>3. ASSUME NEW h \in Handlers, WriteUpdate(h) PROVE AdminRemains'
  <2>1. CASE UNCHANGED <<account, ghosts>>
    BY <2>1
  <2>2. CASE ~UNCHANGED <<account, ghosts>>
    <3>1. \A u \in Admins : u # handler[h].target => u \in Admins'
      BY <1>3, <2>2, WriteUpdateEffect
    <3>2. handler[h].turn # "off" /\ handler[h].target \in Admins => handler[h].target \in Admins'
      BY <1>3, <2>2, WriteUpdateEffect DEF Globals, Admin
    <3>3. /\ handler[h].turn = "off" /\ handler[h].target \in Admins => unguarded' \/ Guard(handler[h].target)
          /\ unguarded => unguarded'
      BY <1>3, <2>2, WriteUpdateEffect
    <3> HIDE DEF Admins
    <3> QED
      BY <3>1, <3>2, <3>3
  <2> QED
    BY <2>1, <2>2
<1>4. ASSUME NEW h \in Handlers, CreateRow(h) PROVE AdminRemains'
  BY <1>4, CreateRowEffect DEF CreateRow, Existing
<1>5. ASSUME NEW h \in Handlers, GrantGlobals(h) PROVE AdminRemains'
  BY <1>5, GrantGlobalsEffect DEF GrantGlobals
<1>6. ASSUME NEW h \in Handlers, WriteApproved(h) PROVE AdminRemains'
  <2>1. CASE UNCHANGED <<account, ghosts>>
    BY <2>1
  <2>2. CASE ~UNCHANGED <<account, ghosts>>
    <3>1. \A u \in Admins : u # handler[h].target => u \in Admins'
      BY <1>6, <2>2, WriteApprovedEffect
    <3>2. Admin \in handler[h].want /\ handler[h].target \in Admins => handler[h].target \in Admins'
      BY <1>6, <2>2, WriteApprovedEffect DEF Globals, Admin
    <3>3. /\ Admin \notin handler[h].want /\ handler[h].target \in Admins => unguarded' \/ Guard(handler[h].target)
          /\ unguarded => unguarded'
      BY <1>6, <2>2, WriteApprovedEffect
    <3> HIDE DEF Admins
    <3> QED
      BY <3>1, <3>2, <3>3
  <2> QED
    BY <2>1, <2>2
<1>7. ASSUME NEW h \in Handlers, Settle(h) PROVE AdminRemains'
  BY <1>7 DEF Settle
<1>8. ASSUME NEW h \in Handlers, Withdraw(h) PROVE AdminRemains'
  BY <1>8, CloseEffect DEF Withdraw
<1>9. ASSUME NEW h \in Handlers, Supersede(h) PROVE AdminRemains'
  BY <1>9, CloseEffect DEF Supersede
<1>10. ASSUME NEW h \in Handlers, Insert(h) PROVE AdminRemains'
  BY <1>10, InsertEffect DEF Insert
<1>11. ASSUME NEW h \in Handlers, Crash(h) PROVE AdminRemains'
  BY <1>11 DEF Crash
<1>12. ASSUME NEW r \in DOMAIN rows, Expire(r) PROVE AdminRemains'
  BY <1>12, CloseEffect DEF Expire
<1>13. ASSUME NEW a \in Admins, NEW r \in DOMAIN rows, Dismiss(a, r) PROVE AdminRemains'
  BY <1>13, CloseEffect DEF Dismiss
<1>14. ASSUME NEW u \in Users, AcceptInvite(u) PROVE AdminRemains'
  BY <1>14 DEF AcceptInvite, TypeOK, Account
<1>15. ASSUME NEW u \in Users, NEW rule \in Rules, ExceptionEnds(u, rule) PROVE AdminRemains'
  BY <1>15 DEF ExceptionEnds
<1>16. ASSUME CloseWindow PROVE AdminRemains'
  BY <1>16 DEF CloseWindow
<1>17. ASSUME Recover PROVE AdminRemains'
  BY <1>17, RecoverEffect DEF Recover
<1>18. CASE UNCHANGED vars
  BY <1>18 DEF vars
<1> HIDE DEF AdminRemains
<1> QED
  BY <1>1, <1>2, <1>3, <1>4, <1>5, <1>6, <1>7, <1>8, <1>9, <1>10, <1>11, <1>12, <1>13, <1>14,
    <1>15, <1>16, <1>17, <1>18 DEF Next, Begin

-----------------------------------------------------------------------------
(* Separation of duties.                                                   *)

LEMMA InConflict ==
  ASSUME NEW duties, NEW rule
  PROVE  rule \in Conflicts(duties) <=> Officer \in duties /\ rule \in duties /\ rule \in Rules
  BY DEF Conflicts

LEMMA ConflictsGrow ==
  ASSUME NEW less, NEW more, less \subseteq more
  PROVE  Conflicts(less) \subseteq Conflicts(more)
  BY DEF Conflicts

\* who covers a rule that u's duties break
CoveredBy(u, rule, g) == handler[g].target = u /\ Recording(handler[g]) /\ rule \in handler[g].plan
Cover(u, rule) == rule \in exceptions[u] \/ \E g \in Handlers : CoveredBy(u, rule, g)

\* The covers of the other requests outlive a step.
LEMMA CoverStays ==
  ASSUME TypeOK, Deciding, NEW h \in Handlers, Work(h), NEW u, NEW rule, Cover(u, rule),
         ~CoveredBy(u, rule, h), exceptions'[u] = exceptions[u]
  PROVE  Cover(u, rule)'
<1>1. \A g \in Handlers : g # h => handler'[g] = handler[g]
  BY WorkMoves, ToEffect
<1> QED
  BY <1>1 DEF Cover, CoveredBy, Recording

\* Whoever has just written what it will record an exception for covers it.
LEMMA CoverWritten ==
  ASSUME TypeOK, Deciding, NEW h \in Handlers, To(h, "settle"), UNCHANGED exceptions,
         handler[h].at \notin Idle, ~Overtaken(h), handler[h].mode # "wait",
         handler[h].op # "update" \/ handler[h].want # handler[h].read,
         NEW rule \in Conflicts(handler[h].want), NEW u \in Users, u = handler[h].target
  PROVE  Cover(u, rule)'
<1>1. /\ handler'[h].at = "settle" /\ handler'[h] = [handler[h] EXCEPT !.at = "settle"]
  BY ToEffect, PlacesNamed
<1>2. PICK k \in Handler : k = handler[h]
  BY DEF TypeOK
<1>3. PICK j : j = [k EXCEPT !.at = "settle"]
  OBVIOUS
<1>4. j.at = "settle" /\ j.plan = k.plan /\ j.mode = k.mode /\ j.target = k.target /\ handler'[h] = j
  BY <1>1, <1>2, <1>3 DEF Handler
<1>5. rule \in k.covered \cup k.plan /\ exceptions[k.target] = k.covered
  BY <1>2 DEF Deciding, Decided, Overtaken
<1>6. CASE rule \in k.covered
  BY <1>2, <1>5, <1>6 DEF Cover
<1>7. CASE rule \in k.plan
  <2>1. CoveredBy(u, rule, h)'
    BY <1>2, <1>4, <1>7 DEF CoveredBy, Recording
  <2> QED
    BY <1>2, <2>1 DEF Cover
<1> QED
  BY <1>2, <1>5, <1>6, <1>7

LEMMA CoveredStep ==
  ASSUME TypeOK, Existing, AskedByOthers, Deciding, Grounded, Covered, [Next]_vars
  PROVE  Covered'
<1>1. SUFFICES ASSUME NEW u \in Users, u \notin excused', NEW rule \in Conflicts(account'[u].duties)
               PROVE  Cover(u, rule)'
  BY DEF Covered, Cover, CoveredBy
<1>2. u \notin excused
  BY <1>1, GrowsStep DEF Grows
<1>3. ASSUME rule \in Conflicts(account[u].duties) PROVE Cover(u, rule)
  BY <1>2, <1>3 DEF Covered, Cover, CoveredBy
<1>5. ASSUME NEW h \in Handlers, Begin(h) PROVE Cover(u, rule)'
  <2>1. PICK k \in Handler : handler' = [handler EXCEPT ![h] = k]
    BY <1>5, BeginEffect
  <2>2. handler[h].at = "new" /\ UNCHANGED <<stored, ghosts>>
    BY <1>5, BeginEffect
  <2>3. Cover(u, rule)
    BY <1>1, <1>3, <2>2 DEF stored
  <2> QED
    BY <2>1, <2>2, <2>3 DEF Cover, CoveredBy, Recording, TypeOK, stored
\* a write of h: the others are as they were, its target is covered by its plan
<1>6. ASSUME NEW h \in Handlers, Work(h), ~Recording(handler[h]), UNCHANGED exceptions,
             account'[u].duties \subseteq account[u].duties
      PROVE  Cover(u, rule)'
  <2>1. Cover(u, rule) /\ ~CoveredBy(u, rule, h)
    BY <1>1, <1>3, <1>6, ConflictsGrow DEF CoveredBy
  <2> QED
    BY <1>6, <2>1, CoverStays
<1>7. ASSUME NEW h \in Handlers, WriteAccess(h) PROVE Cover(u, rule)'
  <2> DEFINE t == handler[h].target
  <2>1. Work(h) /\ UNCHANGED exceptions /\ handler[h].at = "write" /\ handler[h].op = "set"
    BY <1>7 DEF Work, WriteAccess
  <2>2. CASE account'[u].duties \subseteq account[u].duties
    BY <1>6, <2>1, <2>2 DEF Recording
  <2>3. CASE ~(account'[u].duties \subseteq account[u].duties)
    <3>1. /\ Holds(t, (account[t].duties \ Globals) \cup (Goal(handler[h]) \cap Globals))
          /\ To(h, "settle") /\ Excuse(h)
      BY <1>7, <2>3, WriteAccessEffect
    <3>2. u = t /\ account'[u].duties = (account[t].duties \ Globals) \cup (Goal(handler[h]) \cap Globals)
      BY <2>3, <3>1 DEF Holds
    <3>3. ~Overtaken(h)
      BY <1>1, <3>1, <3>2 DEF Excuse
    <3>4. account[t].duties = handler[h].read
      BY <3>3 DEF Overtaken
    <3>5. handler[h].want \ Globals = handler[h].read \ Globals
      BY <2>1 DEF Deciding, Decided, Idle
    <3>6. handler[h].mode # "wait"
      BY <2>3, <3>2, <3>4 DEF Goal
    <3>7. account'[u].duties \subseteq handler[h].want
      BY <3>2, <3>4, <3>5, <3>6 DEF Goal
    <3>8. rule \in Conflicts(handler[h].want)
      BY <1>1, <3>7, ConflictsGrow
    <3> QED
      BY <2>1, <3>1, <3>2, <3>3, <3>6, <3>8, CoverWritten DEF Idle
  <2> QED
    BY <2>2, <2>3
<1>8. ASSUME NEW h \in Handlers, WriteUpdate(h) PROVE Cover(u, rule)'
  <2> DEFINE t == handler[h].target
  <2>1. Work(h) /\ UNCHANGED exceptions /\ handler[h].at = "write" /\ handler[h].op = "update"
    BY <1>8 DEF Work, WriteUpdate
  <2>2. CASE account'[u].duties \subseteq account[u].duties
    BY <1>6, <2>1, <2>2 DEF Recording
  <2>3. CASE ~(account'[u].duties \subseteq account[u].duties)
    <3>1. /\ u = t /\ handler[h].set = "owner" /\ account'[u].duties = account[u].duties \cup {"owner"}
          /\ Excuse(h) /\ (handler[h].want # handler[h].read => To(h, "settle"))
      BY <1>8, <2>3, WriteUpdateEffect
    <3>2. ~Overtaken(h)
      BY <1>1, <3>1 DEF Excuse
    <3>3. account[t].duties = handler[h].read
      BY <3>2 DEF Overtaken
    <3>4. handler[h].want = handler[h].read \cup {"owner"} /\ handler[h].mode # "wait"
      BY <2>1, <3>1 DEF Deciding, Decided, Idle
    <3>5. account'[u].duties = handler[h].want /\ handler[h].want # handler[h].read
      BY <2>3, <3>1, <3>3, <3>4
    <3>6. rule \in Conflicts(handler[h].want) /\ To(h, "settle")
      BY <1>1, <3>1, <3>5
    <3> QED
      BY <2>1, <3>1, <3>2, <3>4, <3>5, <3>6, CoverWritten DEF Idle
  <2> QED
    BY <2>2, <2>3
<1>9. ASSUME NEW h \in Handlers, CreateRow(h) PROVE Cover(u, rule)'
  <2>1. Work(h) /\ UNCHANGED exceptions /\ handler[h].at = "create"
    BY <1>9 DEF Work, CreateRow
  <2>2. CASE account'[u].duties \subseteq account[u].duties
    BY <1>6, <2>1, <2>2 DEF Recording
  <2>3. CASE ~(account'[u].duties \subseteq account[u].duties)
    <3>1. account'[u].duties \subseteq {"owner"}
      BY <1>9, <2>3, CreateRowEffect
    <3> QED
      BY <1>1, <3>1, InConflict DEF Officer
  <2> QED
    BY <2>2, <2>3
<1>10. ASSUME NEW h \in Handlers, GrantGlobals(h) PROVE Cover(u, rule)'
  <2> DEFINE t == handler[h].target
             k == handler[h]
  <2>1. Work(h) /\ UNCHANGED exceptions /\ k.at = "globals"
    BY <1>10 DEF Work, GrantGlobals
  <2>2. /\ Holds(t, account[t].duties \cup (Goal(k) \cap Globals))
        /\ To(h, IF k.mode = "wait" THEN "supersede" ELSE "settle")
        /\ excused' = IF account[t].duties \subseteq Goal(k) THEN excused ELSE excused \cup {t}
    BY <1>10, GrantGlobalsEffect
  <2>3. k.op = "create" /\ k.read = {} /\ k.covered = {} /\ (k.op # "update" => Conflicts(k.want) \subseteq k.plan)
    BY <2>1 DEF Deciding, Decided, Idle
  <2>4. CASE u # t
    <3>1. account'[u].duties = account[u].duties
      BY <2>2, <2>4 DEF Holds
    <3>2. Cover(u, rule) /\ ~CoveredBy(u, rule, h)
      BY <1>1, <1>3, <2>4, <3>1 DEF CoveredBy
    <3> QED
      BY <2>1, <3>2, CoverStays
  <2>5. CASE u = t
    <3>1. account'[u].duties \subseteq Goal(k)
      BY <1>1, <2>2, <2>5 DEF Holds
    <3>2. k.mode # "wait"
      BY <1>1, <2>3, <3>1, InConflict DEF Goal
    <3>3. rule \in k.plan
      BY <1>1, <2>3, <3>1, <3>2, ConflictsGrow DEF Goal
    <3>4. PICK c \in Handler : c = k
      BY DEF TypeOK
    <3>5. PICK j : j = [c EXCEPT !.at = "settle"]
      OBVIOUS
    <3>6. j.at = "settle" /\ j.plan = c.plan /\ j.mode = c.mode /\ j.target = c.target
      BY <3>5 DEF Handler
    <3>7. handler'[h] = j
      BY <2>2, <3>2, <3>4, <3>5, ToEffect, PlacesNamed
    <3>8. CoveredBy(u, rule, h)'
      BY <2>5, <3>2, <3>3, <3>4, <3>6, <3>7 DEF CoveredBy, Recording
    <3> QED
      BY <3>8 DEF Cover
  <2> QED
    BY <2>4, <2>5
<1>11. ASSUME NEW h \in Handlers, WriteApproved(h) PROVE Cover(u, rule)'
  <2> DEFINE t == handler[h].target
  <2>1. Work(h) /\ UNCHANGED exceptions /\ handler[h].at = "write" /\ handler[h].op = "approve"
    BY <1>11 DEF Work, WriteApproved
  <2>2. CASE account'[u].duties \subseteq account[u].duties
    BY <1>6, <2>1, <2>2 DEF Recording
  <2>3. CASE ~(account'[u].duties \subseteq account[u].duties)
    <3>1. Holds(t, handler[h].want) /\ To(h, "settle") /\ Excuse(h)
      BY <1>11, <2>3, WriteApprovedEffect
    <3>2. u = t /\ account'[u].duties = handler[h].want
      BY <2>3, <3>1 DEF Holds
    <3>3. ~Overtaken(h)
      BY <1>1, <3>1, <3>2 DEF Excuse
    <3>4. handler[h].mode # "wait"
      BY <2>1 DEF Deciding, Decided, Idle
    <3> QED
      BY <1>1, <2>1, <3>1, <3>2, <3>3, <3>4, CoverWritten DEF Idle
  <2> QED
    BY <2>2, <2>3
<1>12. ASSUME NEW h \in Handlers, Settle(h) PROVE Cover(u, rule)'
  <2> DEFINE t == handler[h].target
  <2>1. Work(h) /\ UNCHANGED account /\ exceptions' = [exceptions EXCEPT ![t] = Kept(h)]
    BY <1>12 DEF Work, Settle
  <2>2. rule \in Conflicts(account[u].duties) /\ Cover(u, rule)
    BY <1>1, <1>3, <2>1
  <2>3. CASE rule \in exceptions[u]
    <3>1. rule \in exceptions'[u]
      BY <2>1, <2>2, <2>3 DEF Kept, TypeOK
    <3> QED
      BY <3>1 DEF Cover
  <2>4. CASE CoveredBy(u, rule, h)
    <3>1. rule \in exceptions'[u]
      BY <2>1, <2>4 DEF Kept, Overrides, CoveredBy, Recording, TypeOK
    <3> QED
      BY <3>1 DEF Cover
  <2>5. ASSUME NEW g \in Handlers, g # h, CoveredBy(u, rule, g) PROVE Cover(u, rule)'
    <3>1. handler'[g] = handler[g]
      BY <2>1, <2>5, WorkMoves, ToEffect
    <3> QED
      BY <2>5, <3>1 DEF Cover, CoveredBy, Recording
  <2> QED
    BY <2>2, <2>3, <2>4, <2>5 DEF Cover
<1>13. ASSUME NEW h \in Handlers, Withdraw(h) \/ Supersede(h) \/ Insert(h) PROVE Cover(u, rule)'
  <2>1. Work(h) /\ UNCHANGED <<account, exceptions>> /\ ~Recording(handler[h])
    BY <1>13 DEF Work, Withdraw, Supersede, Insert, Recording
  <2> QED
    BY <1>6, <2>1
<1>14. ASSUME NEW h \in Handlers, Crash(h) PROVE Cover(u, rule)'
  <2>1. Work(h) /\ UNCHANGED <<account, exceptions>>
    BY <1>14 DEF Work, Crash, stored
  <2>2. ~CoveredBy(u, rule, h)
    BY <1>1, <1>14 DEF Crash, CoveredBy, Recording
  <2> QED
    BY <1>1, <1>3, <2>1, <2>2, CoverStays
<1>15. ASSUME UNCHANGED <<account, exceptions, handler>> PROVE Cover(u, rule)'
  BY <1>1, <1>3, <1>15 DEF Cover, CoveredBy, Recording
<1>16. ASSUME NEW v \in Users, AcceptInvite(v) PROVE Cover(u, rule)'
  <2>1. account'[u].duties = account[u].duties /\ UNCHANGED <<exceptions, handler>>
    BY <1>16 DEF AcceptInvite, TypeOK, Account
  <2> QED
    BY <1>1, <1>3, <2>1 DEF Cover, CoveredBy, Recording
<1>17. ASSUME NEW v \in Users, NEW r \in Rules, ExceptionEnds(v, r) PROVE Cover(u, rule)'
  <2>1. v # u /\ UNCHANGED <<account, handler>> /\ exceptions'[u] = exceptions[u]
    BY <1>1, <1>17 DEF ExceptionEnds, TypeOK
  <2> QED
    BY <1>1, <1>3, <2>1 DEF Cover, CoveredBy, Recording
<1>18. ASSUME Recover PROVE Cover(u, rule)'
  <2>1. u # Root /\ UNCHANGED <<exceptions, handler>>
    BY <1>1, <1>18 DEF Recover
  <2>2. account'[u] = account[u]
    BY <1>18, <2>1, RecoverEffect
  <2> QED
    BY <1>1, <1>3, <2>1, <2>2 DEF Cover, CoveredBy, Recording
<1>19. (\E r \in DOMAIN rows : Expire(r) \/ \E a \in Admins : Dismiss(a, r)) \/ CloseWindow \/ UNCHANGED vars
         => UNCHANGED <<account, exceptions, handler>>
  BY DEF Expire, Dismiss, CloseWindow, vars, stored
<1> QED
  BY <1>5, <1>7, <1>8, <1>9, <1>10, <1>11, <1>12, <1>13, <1>14, <1>15, <1>16, <1>17, <1>18, <1>19
  DEF Next, Begin

-----------------------------------------------------------------------------
LEMMA NextInv == Inv /\ [Next]_vars => Inv'
<1> SUFFICES ASSUME Inv, [Next]_vars PROVE Inv'
  OBVIOUS
<1>1. /\ TypeOK /\ Deciding /\ Grounded /\ Existing /\ AskedByOthers
      /\ ElevatedByTwo /\ AdminRemains /\ Covered
  BY DEF Inv
<1>2. TypeOK' /\ Deciding' /\ Grounded' /\ Existing' /\ AskedByOthers' /\ AdminRemains' /\ Covered'
  BY <1>1, TypeStep, DecidingStep, GroundedStep, ExistingStep, AskedStep, AdminStep, CoveredStep
<1>3. AllBacked
  BY <1>1 DEF ElevatedByTwo, AllBacked, Backed
<1>4. AllBacked'
  BY <1>1, <1>3, BackedStep
<1>5. ElevatedByTwo'
  BY <1>4 DEF ElevatedByTwo, AllBacked, Backed
<1> QED
  BY <1>2, <1>5 DEF Inv

LEMMA InvHolds == Spec => []Inv
  BY InitInv, NextInv, PTL DEF Spec

\* Every variable keeps its type.
THEOREM TypeCorrect == Spec => []TypeOK
  BY InvHolds, PTL DEF Inv

\* Whatever requests, approvals and their sessions overlap, every duty in force
\* was there from the start, came by the window, or was agreed to by two people
\* other than the one who holds it.
THEOREM TwoPeopleAgreed == Spec => []ElevatedByTwo
  BY InvHolds, PTL DEF Inv

\* An administrator who can log in remains, unless a write that skipped the
\* guard took the last one away.
THEOREM LastAdminGuarded == Spec => []AdminRemains
  BY InvHolds, PTL DEF Inv

\* A security officer is nothing else without a live exception or the request
\* that is about to record it, except on the accounts that were excused.
THEOREM DutiesApart == Spec => []OfficerStandsAlone
<1>1. Covered => OfficerStandsAlone
  BY DEF Covered, OfficerStandsAlone, Recording
<1> QED
  BY InvHolds, <1>1, PTL DEF Inv
=============================================================================
