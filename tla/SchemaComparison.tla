-------------------------- MODULE SchemaComparison --------------------------
(***************************************************************************)
(* Comparisons of a source with one target database, and their execution   *)
(* on it without a blueprint (schema_comparison_controller.py), while the  *)
(* target enters and leaves the inventory.                                 *)
(*                                                                         *)
(* The source stands still and its difference with the target as it was at *)
(* first is `difference'; a later comparison finds what is left of it. The *)
(* sessions of a handler on the gateway's database and its calls to the    *)
(* engine are one step each.  Expiry and quarantine only refuse, as a       *)
(* request may not be made at all, and are left out.                       *)
(***************************************************************************)
EXTENDS PlanIntegrity, Sequences

CONSTANTS
  Requests,      \* requests in progress at once
  Comparisons,   \* comparisons ever made
  Differences,   \* differences to start from
  NoOne,
  MaxEpoch,      \* bound: times the target enters or leaves the inventory
  MaxOutside     \* bound: changes of the target by others

\* a difference has finitely many statements, numbered in their order, and no change
\* depends on itself (build_dependency_graph leaves such an edge out)
ASSUME DifferencesAssumption ==
  \A d \in Differences :
    /\ IsFiniteSet(DOMAIN d.of) /\ DOMAIN d.of \subseteq Nat
    /\ \A i \in DOMAIN d.of : d.of[i] \notin d.needs[d.of[i]]
ASSUME NamesAssumption == Comparisons # {} /\ NoOne \notin Requests
ASSUME BoundsAssumption == MaxEpoch \in Nat /\ MaxOutside \in Nat

VARIABLES
  difference,    \* [of, needs, creates, destructive, procedural]
  row,           \* managed_databases: id (0: not in the inventory), blueprint
  epoch,         \* ids given, and rows deleted
  done,          \* engine: statements of the difference in effect
  outside,       \* engine: changes by others
  comparison,    \* schema_comparisons and their items
  lock,          \* engine: advisory locks, by key
  request        \* memory: what a request has read

vars == <<difference, row, epoch, done, outside, comparison, lock, request>>

Statements == DOMAIN difference.of
Structure == [done |-> done, outside |-> outside]
NoRow == [id |-> 0, blueprint |-> FALSE]
NoComparison == [status |-> "none", target |-> 0, base |-> [done |-> {}, outside |-> 0],
                 items |-> {}, result |-> [s \in Statements |-> "none"]]
Idle == [at |-> "idle", on |-> CHOOSE c \in Comparisons : TRUE, key |-> 0, seen |-> 0,
         base |-> [done |-> {}, outside |-> 0], todo |-> <<>>, ran |-> <<>>, overtaken |-> FALSE]
PlanOf(c) == [items |-> comparison[c].items, of |-> difference.of, needs |-> difference.needs,
              creates |-> difference.creates]

Init ==
  /\ difference \in Differences
  /\ row = NoRow /\ epoch = 0 /\ done = {} /\ outside = 0
  /\ comparison = [c \in Comparisons |-> NoComparison]
  /\ lock = [key \in 0..MaxEpoch |-> NoOne]
  /\ request = [r \in Requests |-> Idle]

Stand(r, place) == request' = [request EXCEPT ![r] = place]
Leave(r) == Stand(r, Idle)

-----------------------------------------------------------------------------
(* create_comparison.                                                      *)

\* _resolve_side; the snapshots, and the difference they show
BeginCompare(r, c) ==
  /\ request[r] = Idle /\ comparison[c].status = "none"
  /\ \A s \in Requests : request[s].at = "compare" => request[s].on # c
  /\ Stand(r, [Idle EXCEPT !.at = "compare", !.on = c, !.key = row.id, !.base = Structure])
  /\ UNCHANGED <<difference, row, epoch, done, outside, comparison, lock>>
\* a row that was deleted meanwhile is referred to no more
Compare(r) ==
  /\ request[r].at = "compare"
  /\ comparison' = IF request[r].key \in {0, row.id}
       THEN [comparison EXCEPT ![request[r].on] =
              [status |-> "live", target |-> request[r].key, base |-> request[r].base,
               items |-> Statements \ request[r].base.done,
               result |-> [s \in Statements |-> "none"]]]
       ELSE comparison
  /\ Leave(r)
  /\ UNCHANGED <<difference, row, epoch, done, outside, lock>>

-----------------------------------------------------------------------------
(* execute_comparison.                                                     *)

\* _resolve_mode, before the checks of a selection
Allowed(c, mode) ==
  {s \in comparison[c].items :
     /\ difference.of[s] \notin difference.procedural
     /\ mode = "all_except_destructive" => difference.of[s] \notin difference.destructive}
Resolved(c, mode, selected) ==
  IF mode = "custom" THEN selected ELSE Prune(PlanOf(c), Allowed(c, mode))
InOrder(items) ==
  [n \in 1..Cardinality(items) |->
     CHOOSE i \in items : Cardinality({j \in items : j < i}) = n - 1]

\* the lock's key is the inventory's id, or made of server and name; the token of the
\* preview is of the same items, which do not change
BeginExecute(r, c, mode, selected) ==
  /\ request[r] = Idle /\ comparison[c].status = "live" /\ ~row.blueprint
  /\ mode = "custom" => selected # {} /\ Closed(PlanOf(c), selected)
  /\ LET items == Resolved(c, mode, selected) IN
     /\ Sane(PlanOf(c), items) /\ items # {}
     /\ Stand(r, [Idle EXCEPT !.at = "drift", !.on = c, !.key = row.id, !.seen = epoch,
                              !.base = comparison[c].base, !.todo = InOrder(items)])
  /\ UNCHANGED <<difference, row, epoch, done, outside, comparison, lock>>

(* Mutant: the results of earlier executions say whether the plan is fresh. *)
CheckResults(r) ==
  /\ request[r].at = "drift"
  /\ IF \A s \in comparison[request[r].on].items : comparison[request[r].on].result[s] # "applied"
     THEN Stand(r, [request[r] EXCEPT !.at = "lock"]) ELSE Leave(r)
  /\ UNCHANGED <<difference, row, epoch, done, outside, comparison, lock>>

\* _assert_fingerprint
CheckDrift(r) ==
  /\ request[r].at = "drift"
  /\ IF Structure = request[r].base
     THEN Stand(r, [request[r] EXCEPT !.at = "lock"]) ELSE Leave(r)
  /\ UNCHANGED <<difference, row, epoch, done, outside, comparison, lock>>
\* execute_adhoc
AcquireLock(r) ==
  /\ request[r].at = "lock" /\ lock[request[r].key] = NoOne
  /\ lock' = [lock EXCEPT ![request[r].key] = r]
  /\ Stand(r, [request[r] EXCEPT !.at = "run"])
  /\ UNCHANGED <<difference, row, epoch, done, outside, comparison>>
\* the lock is not to be had in time, or the server cannot be reached
Refuse(r) ==
  /\ request[r].at \in {"compare", "drift", "lock"} /\ Leave(r)
  /\ UNCHANGED <<difference, row, epoch, done, outside, comparison, lock>>

Sent(r) == Len(request[r].ran)
Failed(r) == \E k \in 1..Sent(r) : request[r].ran[k] = "failed"
Sending(r) == request[r].at = "run" /\ Sent(r) < Len(request[r].todo) /\ ~Failed(r)
NextStatement(r) == request[r].todo[Sent(r) + 1]
\* the others whose structure this statement changes between their check and their end
Overtaken(r, s) ==
  s # r /\ \/ request[s].at = "lock"
           \/ request[s].at = "run" /\ request[s].seen # request[r].seen
Ran(r, result, effect) ==
  request' = [s \in Requests |->
    IF s = r THEN [request[s] EXCEPT !.ran = Append(@, result)]
    ELSE [request[s] EXCEPT !.overtaken = @ \/ (effect /\ Overtaken(r, s))]]
\* a statement whose effect is there already is an error
Run(r) ==
  /\ Sending(r) /\ NextStatement(r) \notin done
  /\ done' = done \cup {NextStatement(r)} /\ Ran(r, "applied", TRUE)
  /\ UNCHANGED <<difference, row, epoch, outside, comparison, lock>>
RunFails(r) ==
  /\ Sending(r) /\ Ran(r, "failed", FALSE)
  /\ UNCHANGED <<difference, row, epoch, done, outside, comparison, lock>>
\* it took effect and its answer was lost
RunLost(r) ==
  /\ Sending(r) /\ NextStatement(r) \notin done
  /\ done' = done \cup {NextStatement(r)} /\ Ran(r, "failed", TRUE)
  /\ UNCHANGED <<difference, row, epoch, outside, comparison, lock>>
ReleaseLock(r) ==
  /\ request[r].at = "run" /\ ~Sending(r)
  /\ lock' = [lock EXCEPT ![request[r].key] = NoOne]
  /\ Stand(r, [request[r] EXCEPT !.at = "record"])
  /\ UNCHANGED <<difference, row, epoch, done, outside, comparison>>

(* Mutant: a statement that was sent counts as applied.                    *)
ResultSent(r, s) ==
  LET k == CHOOSE k \in DOMAIN request[r].todo : request[r].todo[k] = s IN
  IF k <= Sent(r) THEN "applied" ELSE "skipped"

\* the result of statement s, one of those to do
ResultOf(r, s) ==
  LET k == CHOOSE k \in DOMAIN request[r].todo : request[r].todo[k] = s IN
  IF k <= Sent(r) THEN request[r].ran[k] ELSE "skipped"
\* _record_item_results; the items may be gone
Record(r) ==
  LET c == request[r].on
      tried == {request[r].todo[k] : k \in DOMAIN request[r].todo}
  IN
  /\ request[r].at = "record"
  /\ comparison' = IF comparison[c].status = "gone" THEN comparison
       ELSE [comparison EXCEPT ![c].result =
              [s \in Statements |-> IF s \in tried THEN ResultOf(r, s) ELSE @[s]]]
  /\ Leave(r)
  /\ UNCHANGED <<difference, row, epoch, done, outside, lock>>
\* the process dies, and the engine frees the session's lock
Crash ==
  /\ request' = [r \in Requests |-> Idle]
  /\ lock' = [key \in DOMAIN lock |-> NoOne]
  /\ UNCHANGED <<difference, row, epoch, done, outside, comparison>>

-----------------------------------------------------------------------------
(* The inventory (adopt, update and delete of managed databases), and      *)
(* changes of the target by others.                                        *)

Register ==
  /\ row.id = 0 /\ epoch < MaxEpoch
  /\ epoch' = epoch + 1 /\ \E blueprint \in BOOLEAN :
       row' = [id |-> epoch', blueprint |-> blueprint]
  /\ UNCHANGED <<difference, done, outside, comparison, lock, request>>
Reassign ==
  /\ row.id # 0 /\ row' = [row EXCEPT !.blueprint = ~@]
  /\ UNCHANGED <<difference, epoch, done, outside, comparison, lock, request>>
\* its comparisons go in cascade
Unregister ==
  /\ row.id # 0 /\ epoch < MaxEpoch
  /\ epoch' = epoch + 1 /\ row' = NoRow
  /\ comparison' = [c \in Comparisons |->
       IF comparison[c].status # "none" /\ comparison[c].target = row.id
       THEN [comparison[c] EXCEPT !.status = "gone"] ELSE comparison[c]]
  /\ UNCHANGED <<difference, done, outside, lock, request>>
Alter ==
  /\ outside < MaxOutside /\ outside' = outside + 1
  /\ UNCHANGED <<difference, row, epoch, done, comparison, lock, request>>

Next ==
  \/ \E r \in Requests :
       \/ Compare(r) \/ Refuse(r)
       \/ \E c \in Comparisons :
            \/ BeginCompare(r, c)
            \/ \E mode \in {"all", "all_except_destructive"} : BeginExecute(r, c, mode, {})
            \/ \E selected \in SUBSET comparison[c].items : BeginExecute(r, c, "custom", selected)
       \/ CheckDrift(r) \/ AcquireLock(r)
       \/ Run(r) \/ RunFails(r) \/ RunLost(r) \/ ReleaseLock(r) \/ Record(r)
  \/ Crash \/ Register \/ Reassign \/ Unregister \/ Alter
Spec == Init /\ [][Next]_vars

-----------------------------------------------------------------------------
Results == {"none", "applied", "failed", "skipped"}
Structures == [done : SUBSET Statements, outside : 0..MaxOutside]
Comparison ==
  [status : {"none", "live", "gone"}, target : 0..MaxEpoch, base : Structures,
   items : SUBSET Statements, result : [Statements -> Results]]
Request ==
  [at : {"idle", "compare", "drift", "lock", "run", "record"}, on : Comparisons,
   key : 0..MaxEpoch, seen : 0..MaxEpoch, base : Structures,
   todo : Seq(Statements), ran : Seq({"applied", "failed"}), overtaken : BOOLEAN]
TypeOK ==
  /\ difference \in Differences
  /\ row \in [id : 0..MaxEpoch, blueprint : BOOLEAN] /\ epoch \in 0..MaxEpoch
  /\ done \in SUBSET Statements /\ outside \in 0..MaxOutside
  /\ comparison \in [Comparisons -> Comparison]
  /\ lock \in [0..MaxEpoch -> Requests \cup {NoOne}]
  /\ request \in [Requests -> Request]

\* plan_integrity, on whatever is left of the difference and whatever its groups need:
\* what an automatic mode keeps is the most of what it may run that lacks nothing, what
\* a selection is completed to is the least that holds it and lacks nothing.  The
\* difference never changes, so this is looked at where nothing has happened yet.
SelectionExact ==
  Init =>
    LET all == GroupsOf(difference, Statements) IN
    \A left \in SUBSET Statements, needs \in [all -> SUBSET all] :
      LET plan == [items |-> left, of |-> difference.of, needs |-> needs,
                   creates |-> difference.creates]
          complete == {items \in SUBSET left : Closed(plan, items)}
      IN
      \A items \in SUBSET left :
        /\ Expand(plan, items) \in complete
        /\ \A other \in complete : items \subseteq other => Expand(plan, items) \subseteq other
        /\ items = ItemsOf(plan, GroupsOf(plan, items)) =>
             /\ Prune(plan, items) \in complete
             /\ \A other \in complete : other \subseteq items => other \subseteq Prune(plan, items)

\* "verifica el INVARIANTE de que toda dependencia se ejecuta antes que su
\* dependiente": a statement is sent to the engine when all that its group needs is
\* in effect, whatever the mode, the selection and the failures before.
BaseBeforeDependent ==
  \A r \in Requests : Sending(r) =>
    {s \in Statements : difference.of[s] \in difference.needs[difference.of[NextStatement(r)]]}
      \subseteq done

\* "Anti-TOCTOU JUSTO antes de ejecutar", and the lock by the state of the inventory
\* at the execution: a statement that is in effect is sent again only by a request that
\* somebody overtook, between its check and its lock, or with the lock of another
\* state of the inventory.  A dead process that recorded nothing, or a lost answer,
\* makes no difference.
NoRepeat ==
  \A r \in Requests : Sending(r) /\ NextStatement(r) \in done => request[r].overtaken

\* _record_item_results pairs results with the statements of the execution: what a
\* comparison shows as applied is in effect.
ResultsTrue ==
  \A c \in Comparisons : comparison[c].status # "none" =>
    \A s \in Statements : comparison[c].result[s] = "applied" => s \in done
=============================================================================
