--------------------------- MODULE AccessChanges ---------------------------
(***************************************************************************)
(* Who may do what in the gateway, and how that changes: the writers of    *)
(* controllers/gateway_user_controller.py, the second approver of          *)
(* controllers/access_request_controller.py, the separation of duties of   *)
(* services/sod_service.py, the bootstrap window and the guard of the last *)
(* access_admin in models/user_model.py.                                   *)
(*                                                                         *)
(* An account's access is the set of duties it holds that need a second    *)
(* approver: owner (the base role, or a role in a scope) and the globals.  *)
(* What raises nobody (viewer, operator) is left out.  A request reads and *)
(* decides in one step and then takes a step per session of the gateway's  *)
(* database; a refused request changes nothing and is no step.  The model  *)
(* is of ACCESS_FOUR_EYES, its default.                                    *)
(***************************************************************************)
EXTENDS Naturals, Sequences, FiniteSets

CONSTANTS
  Users, Handlers,   \* accounts, and requests of one writer each
  Root,              \* ADMIN_USERNAME
  Starts,            \* the accounts, the window and the pending rows a history begins with
  MaxRows            \* bound: elevations asked for

Admin == "access_admin"
Officer == "security_officer"
Globals == {Admin, Officer}
Duties == {"owner"} \cup Globals
Rules == {"owner", Admin}   \* what security_officer may not be held with

VARIABLES
  account,      \* users: exists, active, credential, duties
  exceptions,   \* sod_exceptions: the rules with a live row
  rows,         \* access_change_requests; closed is cancelled, rejected or expired
  open,         \* access_bootstrap: is the window open?
  handler,      \* memory: the requests under way
  agreed,       \* ghost: who asked for or approved a duty that was applied
  founding,     \* ghost: duties held from the start, or by the window
  unguarded,    \* ghost: an administrator was lost by a write that took no lock
  excused       \* ghost: accounts written over a state that had changed,
                \* or whose exception ended, or whose writer died half way

stored == <<account, exceptions, rows, open>>
ghosts == <<agreed, founding, unguarded, excused>>
vars == <<stored, handler, ghosts>>

Nobody == CHOOSE u \in Users : TRUE
New == [at |-> "new", op |-> "none", actor |-> Nobody, target |-> Nobody, read |-> {},
        covered |-> {}, want |-> {}, set |-> "keep", turn |-> "keep", was |-> TRUE,
        mode |-> "none", plan |-> {}, row |-> 0]

Account == [exists : BOOLEAN, active : BOOLEAN, credential : BOOLEAN, duties : SUBSET Duties]
Row == [target : Users, requester : Users, want : SUBSET Duties, before : SUBSET Duties,
        override : BOOLEAN, status : {"pending", "applied", "closed"}]
Places == {"new", "write", "create", "globals", "settle", "withdraw", "supersede", "insert", "done"}
Handler == [at : Places, op : {"none", "set", "update", "create", "approve"},
            actor : Users, target : Users, read : SUBSET Duties, covered : SUBSET Rules, want : SUBSET Duties,
            set : {"owner", "viewer", "keep"}, turn : {"on", "off", "keep"}, was : BOOLEAN,
            mode : {"none", "wait", "bootstrap"}, plan : SUBSET Rules, row : Nat]

Conflicts(duties) == IF Officer \in duties THEN duties \cap Rules ELSE {}

ASSUME UsersAssumption == Root \in Users /\ IsFiniteSet(Users)
\* a history begins with an administrator who can log in, with nobody whose
\* duties conflict, and with nobody's request for himself
ASSUME StartsAssumption ==
  \A s \in Starts :
    /\ s.account \in [Users -> Account] /\ s.open \in BOOLEAN /\ s.rows \in Seq(Row)
    /\ \E u \in Users : s.account[u].active /\ s.account[u].credential /\ Admin \in s.account[u].duties
    /\ \A u \in Users :
         /\ s.account[u].active => s.account[u].exists
         /\ ~s.account[u].exists => s.account[u].duties = {}
         /\ Conflicts(s.account[u].duties) = {}
    /\ \A i \in DOMAIN s.rows : s.rows[i].requester # s.rows[i].target

Init ==
  \E s \in Starts :
    /\ account = s.account /\ open = s.open /\ rows = s.rows
    /\ exceptions = [u \in Users |-> {}]
    /\ handler = [h \in Handlers |-> New]
    /\ agreed = {} /\ founding = {held \in Users \X Duties : held[2] \in s.account[held[1]].duties}
    /\ unguarded = FALSE /\ excused = {}

\* count_active_access_admins: active, with a credential
Admins == {u \in Users : account[u].active /\ account[u].credential /\ Admin \in account[u].duties}

\* decide: an elevation or an override waits, unless the window is open for
\* the only administrator
Decide(a, elevations, plan) ==
  IF elevations = {} /\ plan = {} THEN "none"
  ELSE IF open /\ Admins = {a} THEN "bootstrap" ELSE "wait"
Step(h, place) == handler' = [handler EXCEPT ![h] = place]
To(h, at) == Step(h, IF at = "done" THEN [New EXCEPT !.at = "done"] ELSE [handler[h] EXCEPT !.at = at])
Overtaken(h) ==
  LET t == handler[h].target
  IN  account[t].duties # handler[h].read \/ exceptions[t] # handler[h].covered
Excuse(h) == excused' = IF Overtaken(h) THEN excused \cup {handler[h].target} ELSE excused
Found(h) == founding' = IF handler[h].mode = "bootstrap"
                        THEN founding \cup ({handler[h].target} \X (handler[h].want \ handler[h].read))
                        ELSE founding

Ready(h, a) == handler[h].at = "new" /\ a \in Admins   \* the actor is read with the session

\* set_access: the globals of somebody else.  What is taken away is written at
\* once, what is added waits.
Start(h, op, a, t, want, override, place) ==
  LET read == account[t].duties
      plan == Conflicts(want) \ exceptions[t]
      mode == Decide(a, want \ read, plan)
  IN  /\ plan # {} => override
      /\ Step(h, [place EXCEPT !.op = op, !.actor = a, !.target = t, !.read = read, !.want = want,
                    !.covered = exceptions[t], !.was = account[t].active, !.mode = mode, !.plan = plan])
      /\ UNCHANGED <<stored, ghosts>>
Immediate(h) == IF handler[h].mode = "wait" THEN handler[h].read \cap handler[h].want ELSE handler[h].want

BeginSetAccess(h, a, t, globals, override) ==
  /\ Ready(h, a) /\ t # a /\ account[t].exists
  /\ LET want == (account[t].duties \ Globals) \cup globals
         mode == Decide(a, want \ account[t].duties, Conflicts(want) \ exceptions[t])
         writes == mode # "wait" \/ ~(account[t].duties \subseteq want)
     IN  Start(h, "set", a, t, want, override, [New EXCEPT !.at = IF writes THEN "write" ELSE "supersede"])

\* _guard_last_access_admin_locked: somebody else remains, counted under the locks of the write
(* Mutant: the count before the write is enough. *)
GuardNothing(t) == TRUE
Guard(t) == Admins \ {t} # {}

WriteAccess(h) ==
  LET t == handler[h].target
      goal == Immediate(h)
  IN  /\ handler[h].at = "write" /\ handler[h].op = "set"
      /\ IF Admin \notin goal /\ ~Guard(t)
         THEN To(h, "done") /\ UNCHANGED <<account, ghosts>>
         ELSE /\ account' = [account EXCEPT ![t].duties = (@ \ Globals) \cup (goal \cap Globals)]
              /\ To(h, "settle") /\ Excuse(h) /\ Found(h)
              /\ UNCHANGED <<agreed, unguarded>>
      /\ UNCHANGED <<exceptions, rows, open>>

\* update_user: the base role and whether the account is active.  A role that
\* has to wait is left out of the write; a role that is already held is not.
BeginUpdate(h, a, t, set, turn, override) ==
  LET read == account[t].duties
      want == CASE set = "owner" -> read \cup {"owner"}
                [] set = "viewer" -> read \ {"owner"}
                [] OTHER -> read
      mode == Decide(a, want \ read, Conflicts(want) \ exceptions[t])
      waits == want # read /\ mode = "wait"
  IN  /\ Ready(h, a) /\ account[t].exists /\ (set # "keep" \/ turn # "keep")
      /\ want # read \/ (turn = "off" /\ account[t].active) => t # a
      /\ turn = "off" /\ account[t].active => Guard(t)
      /\ IF want = read
         THEN /\ Step(h, [New EXCEPT !.at = "write", !.op = "update", !.actor = a, !.target = t,
                            !.read = read, !.want = want, !.covered = exceptions[t],
                            !.set = set, !.turn = turn, !.was = account[t].active])
              /\ UNCHANGED <<stored, ghosts>>
         ELSE Start(h, "update", a, t, want, override,
                    [New EXCEPT !.at = IF waits /\ turn = "keep" THEN "supersede" ELSE "write",
                       !.set = IF waits THEN "keep" ELSE set, !.turn = turn])

WriteUpdate(h) ==
  LET t == handler[h].target
      off == handler[h].turn = "off"
      locked == off /\ handler[h].was
      after == [account EXCEPT
                  ![t].duties = CASE handler[h].set = "owner" -> @ \cup {"owner"}
                                  [] handler[h].set = "viewer" -> @ \ {"owner"}
                                  [] OTHER -> @,
                  ![t].active = IF handler[h].turn = "keep" THEN @ ELSE ~off]
  IN  /\ handler[h].at = "write" /\ handler[h].op = "update"
      /\ IF locked /\ ~Guard(t)
         THEN To(h, "done") /\ UNCHANGED <<account, ghosts>>
         ELSE /\ account' = after
              /\ To(h, IF handler[h].set # "keep" /\ handler[h].want # handler[h].read THEN "settle"
                       ELSE IF off THEN "withdraw"
                       ELSE IF handler[h].mode = "wait" THEN "supersede" ELSE "done")
              /\ unguarded' = (unguarded \/ (~locked /\ off /\ t \in Admins))
              /\ Excuse(h) /\ Found(h) /\ UNCHANGED agreed
      /\ UNCHANGED <<exceptions, rows, open>>

\* create_user: the account without a credential, then its globals
BeginCreate(h, a, t, want, override) ==
  /\ Ready(h, a) /\ ~account[t].exists
  /\ Start(h, "create", a, t, want, override, [New EXCEPT !.at = "create"])
CreateRow(h) ==
  LET t == handler[h].target
  IN  /\ handler[h].at = "create"
      /\ IF account[t].exists
         THEN To(h, "done") /\ UNCHANGED <<account, founding>>
         ELSE /\ account' = [account EXCEPT ![t] = [exists |-> TRUE, active |-> TRUE, credential |-> FALSE,
                                                    duties |-> Immediate(h) \cap {"owner"}]]
              /\ To(h, "globals") /\ Found(h)
      /\ UNCHANGED <<exceptions, rows, open, agreed, unguarded, excused>>
GrantGlobals(h) ==
  LET t == handler[h].target
  IN  /\ handler[h].at = "globals"
      /\ account' = [account EXCEPT ![t].duties = @ \cup (Immediate(h) \cap Globals)]
      /\ excused' = IF account[t].duties \subseteq Immediate(h) THEN excused ELSE excused \cup {t}
      /\ To(h, IF handler[h].mode = "wait" THEN "supersede" ELSE "settle")
      /\ UNCHANGED <<exceptions, rows, open, agreed, founding, unguarded>>

\* apply_override, or reconcile, which closes the exceptions nothing needs any more
Overrides(h) == handler[h].plan # {} /\ handler[h].mode # "wait"
(* Mutant: reconcile closes every live exception. *)
KeepNone(h) == IF Overrides(h) THEN exceptions[handler[h].target] \cup handler[h].plan ELSE {}
Kept(h) ==
  LET t == handler[h].target
  IN  IF Overrides(h) THEN exceptions[t] \cup handler[h].plan
      ELSE IF handler[h].op = "create" THEN exceptions[t]
      ELSE exceptions[t] \cap Conflicts(account[t].duties)
Settle(h) ==
  LET t == handler[h].target
  IN  /\ handler[h].at = "settle"
      /\ exceptions' = [exceptions EXCEPT ![t] = Kept(h)]
      /\ To(h, IF \/ handler[h].op = "set" /\ Admin \notin Immediate(h)
                  \/ handler[h].op = "update" /\ handler[h].turn = "off"
               THEN "withdraw"
               ELSE IF handler[h].op = "set" /\ handler[h].mode = "wait" THEN "supersede" ELSE "done")
      /\ UNCHANGED <<account, rows, open, ghosts>>

\* _cancel_pending_requests: what the one who lost access_admin had asked for
Close(which) == rows' = [i \in DOMAIN rows |->
  IF i \in which /\ rows[i].status = "pending" THEN [rows[i] EXCEPT !.status = "closed"] ELSE rows[i]]
Withdraw(h) ==
  /\ handler[h].at = "withdraw"
  /\ Close({i \in DOMAIN rows : rows[i].requester = handler[h].target})
  /\ To(h, IF handler[h].mode = "wait" THEN "supersede" ELSE "done")
  /\ UNCHANGED <<account, exceptions, open, ghosts>>

\* AccessRequestController.create: the pending ones of the same person go first
Supersede(h) ==
  /\ handler[h].at = "supersede"
  /\ Close({i \in DOMAIN rows : rows[i].target = handler[h].target})
  /\ To(h, "insert")
  /\ UNCHANGED <<account, exceptions, open, ghosts>>
Insert(h) ==
  /\ handler[h].at = "insert" /\ Len(rows) < MaxRows
  /\ rows' = Append(rows, [target |-> handler[h].target, requester |-> handler[h].actor,
                           want |-> handler[h].want, before |-> account[handler[h].target].duties,
                           override |-> handler[h].plan # {}, status |-> "pending"])
  /\ To(h, "done")
  /\ UNCHANGED <<account, exceptions, open, ghosts>>

\* _self_check, _requester_ok and the rest of _block_reason
(* Mutant: whoever asked may approve. *)
SelfCheckTarget(a, r) == rows[r].target # a
SelfCheck(a, r) == rows[r].requester # a /\ rows[r].target # a
RequesterOk(r) ==
  LET who == account[rows[r].requester] IN who.exists /\ who.active /\ Admin \in who.duties
BeginApprove(h, a, r) ==
  LET t == rows[r].target
      plan == Conflicts(rows[r].want) \ exceptions[t]
  IN  /\ Ready(h, a) /\ rows[r].status = "pending"
      /\ SelfCheck(a, r) /\ RequesterOk(r) /\ account[t].active
      /\ account[t].duties = rows[r].before
      /\ plan # {} => rows[r].override
      /\ Step(h, [New EXCEPT !.at = "write", !.op = "approve", !.actor = a, !.target = t, !.row = r,
                    !.read = account[t].duties, !.covered = exceptions[t], !.want = rows[r].want,
                    !.plan = plan])
      /\ UNCHANGED <<stored, ghosts>>

\* one transaction: the row is claimed while pending, the guard, the whole access
WriteApproved(h) ==
  LET t == handler[h].target
      want == handler[h].want
      locked == Admin \in handler[h].read /\ Admin \notin want
      by == {rows[handler[h].row].requester, handler[h].actor}
  IN  /\ handler[h].at = "write" /\ handler[h].op = "approve"
      /\ IF rows[handler[h].row].status # "pending" \/ (locked /\ ~Guard(t))
         THEN To(h, "done") /\ UNCHANGED <<account, rows, ghosts>>
         ELSE /\ account' = [account EXCEPT ![t].duties = want]
              /\ rows' = [rows EXCEPT ![handler[h].row].status = "applied"]
              /\ agreed' = agreed \cup ({t} \X want \X by)
              /\ unguarded' = (unguarded \/ (~locked /\ Admin \notin want /\ t \in Admins))
              /\ To(h, "settle") /\ Excuse(h) /\ UNCHANGED founding
      /\ UNCHANGED <<exceptions, open>>

\* approve cancels a stale row, or one whose requester is no administrator;
\* the requester cancels, anybody else rejects, and time ends the rest
Dismiss(a, r) ==
  /\ a \in Admins /\ rows[r].status = "pending"
  /\ Close({r})
  /\ UNCHANGED <<account, exceptions, open, handler, ghosts>>
Expire(r) ==
  /\ rows[r].status = "pending" /\ Close({r})
  /\ UNCHANGED <<account, exceptions, open, handler, ghosts>>
ExceptionEnds(u, rule) ==
  /\ rule \in exceptions[u]
  /\ exceptions' = [exceptions EXCEPT ![u] = @ \ {rule}] /\ excused' = excused \cup {u}
  /\ UNCHANGED <<account, rows, open, handler, agreed, founding, unguarded>>

AcceptInvite(u) ==
  /\ account[u].exists /\ ~account[u].credential
  /\ account' = [account EXCEPT ![u].credential = TRUE]
  /\ UNCHANGED <<exceptions, rows, open, handler, ghosts>>
\* refresh: every reader closes the window at its deadline or on a second administrator
CloseWindow ==
  /\ open /\ open' = FALSE
  /\ UNCHANGED <<account, exceptions, rows, handler, ghosts>>

\* ADMIN_RECOVERY at start-up; it reopens the window, so it counts while it is closed
Recover ==
  /\ account[Root].exists /\ ~open
  /\ account' = [account EXCEPT ![Root].active = TRUE, ![Root].duties = @ \cup {Admin}]
  /\ open' = TRUE /\ founding' = founding \cup {<<Root, Admin>>} /\ excused' = excused \cup {Root}
  /\ UNCHANGED <<exceptions, rows, handler, agreed, unguarded>>
Crash(h) ==
  /\ handler[h].at \notin {"new", "write", "done"} /\ To(h, "done")
  /\ excused' = IF handler[h].at \in {"globals", "settle"} THEN excused \cup {handler[h].target} ELSE excused
  /\ UNCHANGED <<stored, agreed, founding, unguarded>>

Next ==
  \/ \E h \in Handlers :
       \/ \E a \in Admins, t \in Users, override \in BOOLEAN :
            \/ \E globals \in SUBSET Globals : BeginSetAccess(h, a, t, globals, override)
            \/ \E set \in {"owner", "viewer", "keep"}, turn \in {"on", "off", "keep"} :
                 BeginUpdate(h, a, t, set, turn, override)
            \/ \E want \in SUBSET Duties : BeginCreate(h, a, t, want, override)
       \/ \E a \in Admins, r \in DOMAIN rows : BeginApprove(h, a, r)
       \/ WriteAccess(h) \/ WriteUpdate(h) \/ CreateRow(h) \/ GrantGlobals(h) \/ WriteApproved(h)
       \/ Settle(h) \/ Withdraw(h) \/ Supersede(h) \/ Insert(h) \/ Crash(h)
  \/ \E r \in DOMAIN rows : Expire(r) \/ \E a \in Admins : Dismiss(a, r)
  \/ \E u \in Users : AcceptInvite(u) \/ \E rule \in Rules : ExceptionEnds(u, rule)
  \/ CloseWindow \/ Recover
Spec == Init /\ [][Next]_vars

-----------------------------------------------------------------------------
TypeOK ==
  /\ account \in [Users -> Account] /\ exceptions \in [Users -> SUBSET Rules]
  /\ rows \in Seq(Row) /\ open \in BOOLEAN /\ handler \in [Handlers -> Handler]
  /\ unguarded \in BOOLEAN

\* access_request_controller.py: an elevation waits until another administrator
\* approves it.  Two people other than its holder agreed to every duty in force,
\* at some time, whatever writes and decisions overlapped; the duties of the
\* first account and of the window are the exception.
ElevatedByTwo ==
  \A u \in Users : \A d \in account[u].duties :
    \/ <<u, d>> \in founding
    \/ Cardinality({p \in Users \ {u} : <<u, d, p>> \in agreed}) >= 2

\* user_model.py: there must always be at least one access_admin that can log
\* in.  Concurrent writers cannot take the last one away, except by the writes
\* that skip the lock because what they read made it needless.
AdminRemains == unguarded \/ Admins # {}

\* user_model.py: "siempre debe existir al menos uno"; see the README for the
\* history that leaves none.
AlwaysAnAdmin == Admins # {}

\* separation of duties: security_officer stands beside owner or access_admin
\* only with a live exception, while its writer is about to record one, or when
\* the account was excused.
OfficerStandsAlone ==
  \A u \in Users \ excused :
    Conflicts(account[u].duties) \subseteq
      exceptions[u] \cup UNION {handler[h].plan : h \in {g \in Handlers :
                                  handler[g].target = u /\ handler[g].at \in {"globals", "settle"}}}
=============================================================================
