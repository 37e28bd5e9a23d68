----------------------------- MODULE DataAccess -----------------------------
(***************************************************************************)
(* The credential with which agents read the rows of one managed database, *)
(* and the opt-in that opens it: provision, verify, clear, request,        *)
(* approve and revoke of managed_database_controller.py, the change of the *)
(* database's environment and its deletion; and the reads of the agents    *)
(* (target_resolution.py).                                                 *)
(*                                                                         *)
(* One session of the gateway's database is one step, and a handler that   *)
(* opens several is several steps; a session that reads the columns of the *)
(* opt-in and then writes them is two, a read and a flush.  Provision,     *)
(* verify and clear take a lock that only excludes the requests of the     *)
(* same process.                                                           *)
(***************************************************************************)
EXTENDS Naturals, FiniteSets

CONSTANTS
  Requests,      \* requests in progress at once
  Processes,     \* workers of the API server
  People,        \* users of the gateway who may ask and approve
  Nobody,
  SnapshotIsolation, \* the gateway's database runs with innodb_snapshot_isolation
  MaxPasswords   \* bound: passwords drawn by provisionings

ASSUME ProcessesAssumption == Processes # {}
ASSUME PeopleAssumption == Nobody \notin People
ASSUME PasswordsAssumption == MaxPasswords \in Nat
ASSUME IsolationAssumption == SnapshotIsolation \in BOOLEAN

VARIABLES
  managed,       \* managed_databases: the row is there
  strict,        \* its environment asks for a second owner (production, or none)
  row,           \* managed_database_data_credentials, at most one row
  account,       \* engine: password of the data account, 0 when there is none
  lock,          \* memory: _PROVISIONING holds the database's key in a process
  request,       \* memory: what a request has read
  drawn,         \* passwords drawn so far
  probed,        \* ghost: the password the last recorded green probe connected with
  lenient,       \* ghost: the opening needed no second owner when it was asked
  asked,         \* ghost: somebody asked since the last revocation
  overlapped,    \* ghost: two processes held the lock at once
  raced          \* ghost: the database was deleted under a provisioning

ghosts == <<probed, lenient, asked, overlapped, raced>>
vars == <<managed, strict, row, account, lock, request, drawn, probed, lenient, asked, overlapped, raced>>

\* a row's id is the password it was created with
NoRow == [there |-> FALSE, id |-> 0, secret |-> 0, green |-> FALSE, open |-> FALSE,
          asker |-> Nobody, approver |-> Nobody]
Unread == [id |-> 0, open |-> FALSE, asker |-> Nobody, approver |-> Nobody]
Idle == [at |-> "idle", process |-> CHOOSE p \in Processes : TRUE, who |-> Nobody,
         asker |-> Nobody, secret |-> 0, flag |-> FALSE, seen |-> Unread]

Init ==
  /\ managed = TRUE /\ strict \in BOOLEAN /\ row = NoRow /\ account = 0
  /\ lock = [p \in Processes |-> FALSE] /\ request = [r \in Requests |-> Idle]
  /\ drawn = 0 /\ probed = 0
  /\ lenient = FALSE /\ asked = FALSE /\ overlapped = FALSE /\ raced = FALSE

Stand(r, place) == request' = [request EXCEPT ![r] = place]
Move(r, at) == Stand(r, [request[r] EXCEPT !.at = at])

\* _try_acquire_provision and _release_provision
Acquire(p) ==
  /\ ~lock[p] /\ lock' = [lock EXCEPT ![p] = TRUE]
  /\ overlapped' = (overlapped \/ \E q \in Processes : lock[q])
Release(r) == lock' = [lock EXCEPT ![request[r].process] = FALSE]
Leave(r) == Release(r) /\ Stand(r, Idle)
\* a refusal, an exception or a lost answer ends a handler that holds the lock; a
\* probe that could not run is recorded as not green
Abort(r) ==
  /\ request[r].at \in {"preflight", "store", "engine", "target", "record", "cut", "cutting",
                        "drop", "erase"}
  /\ Leave(r)
  /\ UNCHANGED <<managed, strict, row, account, drawn, ghosts>>

-----------------------------------------------------------------------------
(* A session of the ORM reads the row and flushes, by its id, the columns  *)
(* that differ from what it read.  The flush fails when the row is gone    *)
(* (no row matched) and, with innodb_snapshot_isolation, when another      *)
(* transaction changed it since (1020); without it the columns of the two  *)
(* mix.  A change of its other columns would be refused too: here it is    *)
(* not.                                                                    *)

OptIn == [id |-> row.id, open |-> row.open, asker |-> row.asker, approver |-> row.approver]
Read(r, at) == Stand(r, [request[r] EXCEPT !.at = at, !.seen = OptIn])
Flushable(r) ==
  /\ row.there /\ row.id = request[r].seen.id
  /\ SnapshotIsolation => request[r].seen = OptIn
Net(read, new, now) == IF new = read THEN now ELSE new
Flushed(r, open, asker, approver) ==
  LET seen == request[r].seen IN
  [row EXCEPT !.open = Net(seen.open, open, @), !.asker = Net(seen.asker, asker, @),
              !.approver = Net(seen.approver, approver, @)]

-----------------------------------------------------------------------------
(* provision_data_credential.                                              *)

\* is the account ours? read before the lock is taken
BeginProvision(r, p) ==
  /\ request[r] = Idle /\ managed
  /\ Stand(r, [Idle EXCEPT !.at = "provision", !.process = p, !.flag = row.there])
  /\ UNCHANGED <<managed, strict, row, account, lock, drawn, ghosts>>
Busy(r) ==
  /\ request[r].at \in {"provision", "verify", "clear"} /\ lock[request[r].process]
  /\ Stand(r, Idle)
  /\ UNCHANGED <<managed, strict, row, account, lock, drawn, ghosts>>
LockProvision(r) ==
  /\ request[r].at = "provision" /\ Acquire(request[r].process)
  /\ Move(r, "preflight")
  /\ UNCHANGED <<managed, strict, row, account, drawn, probed, lenient, asked, raced>>
\* an account the gateway did not create is not touched
Preflight(r) ==
  /\ request[r].at = "preflight"
  /\ account # 0 => request[r].flag
  /\ Move(r, "store")
  /\ UNCHANGED <<managed, strict, row, account, lock, drawn, ghosts>>

\* _store_data_credential: unverified, the opt-in is kept
Stored(secret) ==
  [row EXCEPT !.there = TRUE, !.id = IF row.there THEN @ ELSE secret, !.secret = secret,
              !.green = FALSE]
Store(r) ==
  /\ request[r].at = "store" /\ managed /\ drawn < MaxPasswords
  /\ drawn' = drawn + 1
  /\ row' = Stored(drawn')
  /\ Stand(r, [request[r] EXCEPT !.at = "engine", !.secret = drawn'])
  /\ UNCHANGED <<managed, strict, account, lock, ghosts>>
\* the account's statements; an error may come after they took effect
Engine(r) ==
  /\ request[r].at = "engine" /\ account' = request[r].secret
  /\ Leave(r)
  /\ UNCHANGED <<managed, strict, row, drawn, ghosts>>

-----------------------------------------------------------------------------
(* verify_data_credential.                                                 *)

BeginVerify(r, p) ==
  /\ request[r] = Idle /\ managed
  /\ Stand(r, [Idle EXCEPT !.at = "verify", !.process = p])
  /\ UNCHANGED <<managed, strict, row, account, lock, drawn, ghosts>>

LockVerify(r) ==
  /\ request[r].at = "verify" /\ Acquire(request[r].process)
  /\ Move(r, "target")
  /\ UNCHANGED <<managed, strict, row, account, drawn, probed, lenient, asked, raced>>
Target(r) ==
  /\ request[r].at = "target" /\ row.there
  /\ Stand(r, [request[r] EXCEPT !.at = "probe", !.secret = row.secret])
  /\ UNCHANGED <<managed, strict, row, account, lock, drawn, ghosts>>
\* green: it connects and the grants are SELECT on this database and no more
Probe(r, green) ==
  /\ request[r].at = "probe" /\ (green => account = request[r].secret)
  /\ Stand(r, [request[r] EXCEPT !.at = "record", !.flag = green])
  /\ UNCHANGED <<managed, strict, row, account, lock, drawn, ghosts>>
Record(r) ==
  /\ request[r].at = "record"
  /\ row' = [row EXCEPT !.green = row.there /\ request[r].flag]
  /\ probed' = IF row'.green THEN request[r].secret ELSE probed
  /\ Leave(r)
  /\ UNCHANGED <<managed, strict, account, drawn, lenient, asked, overlapped, raced>>
\* a green probe grows older than MCP_DATA_CREDENTIAL_MAX_AGE_DAYS
Age ==
  /\ row.green /\ row' = [row EXCEPT !.green = FALSE]
  /\ UNCHANGED <<managed, strict, account, lock, request, drawn, ghosts>>

-----------------------------------------------------------------------------
(* clear_data_credential, and delete_database, which clears first when it  *)
(* saw a credential.                                                       *)

BeginClear(r, p, delete) ==
  /\ request[r] = Idle /\ managed /\ (delete => row.there)
  /\ Stand(r, [Idle EXCEPT !.at = "clear", !.process = p, !.flag = delete])
  /\ UNCHANGED <<managed, strict, row, account, lock, drawn, ghosts>>
LockClear(r) ==
  /\ request[r].at = "clear" /\ Acquire(request[r].process)
  /\ Move(r, "cut")
  /\ UNCHANGED <<managed, strict, row, account, drawn, probed, lenient, asked, raced>>
ReadCut(r) ==
  /\ request[r].at = "cut" /\ row.there /\ Read(r, "cutting")
  /\ UNCHANGED <<managed, strict, row, account, lock, drawn, ghosts>>
\* who had asked stays in the row
Cut(r) ==
  LET seen == request[r].seen IN
  /\ request[r].at = "cutting" /\ Flushable(r)
  /\ row' = [Flushed(r, FALSE, seen.asker, seen.approver) EXCEPT !.green = FALSE]
  /\ Stand(r, [request[r] EXCEPT !.at = "drop", !.seen = Unread])
  /\ UNCHANGED <<managed, strict, account, lock, drawn, ghosts>>
\* clear without a row, and the end of a clear
After(r) == IF request[r].flag THEN [Idle EXCEPT !.at = "delete"] ELSE Idle
CutNothing(r) ==
  /\ request[r].at = "cut" /\ ~row.there
  /\ Release(r) /\ Stand(r, After(r))
  /\ UNCHANGED <<managed, strict, row, account, drawn, ghosts>>
Drop(r) ==
  /\ request[r].at = "drop" /\ account' = 0 /\ Move(r, "erase")
  /\ UNCHANGED <<managed, strict, row, lock, drawn, ghosts>>
\* the answer of the engine is lost: the row stays for a retry
DropLost(r) ==
  /\ request[r].at = "drop" /\ account' = 0 /\ Leave(r)
  /\ UNCHANGED <<managed, strict, row, drawn, ghosts>>

(* Mutant: the row goes whatever the engine answered.                     *)
EraseAnyway(r) ==
  /\ request[r].at \in {"drop", "erase"} /\ row' = NoRow
  /\ Release(r) /\ Stand(r, After(r))
  /\ UNCHANGED <<managed, strict, account, drawn, ghosts>>

Erase(r) ==
  /\ request[r].at = "erase" /\ row' = NoRow
  /\ Release(r) /\ Stand(r, After(r))
  /\ UNCHANGED <<managed, strict, account, drawn, ghosts>>
\* a deletion that saw no credential
BeginDelete(r) ==
  /\ request[r] = Idle /\ managed /\ ~row.there
  /\ Stand(r, [Idle EXCEPT !.at = "delete"])
  /\ UNCHANGED <<managed, strict, row, account, lock, drawn, ghosts>>
\* the row of the credential goes in cascade
Delete(r) ==
  /\ request[r].at = "delete"
  /\ managed' = FALSE /\ row' = NoRow /\ Stand(r, Idle)
  /\ raced' = (raced \/ row.there)
  /\ UNCHANGED <<strict, account, lock, drawn, probed, lenient, asked, overlapped>>

-----------------------------------------------------------------------------
(* The opt-in: request_data_access, approve_data_access,                   *)
(* revoke_data_access, and the environment it depends on.                  *)

BeginAsk(r, who) ==
  /\ request[r] = Idle /\ managed /\ row.there
  /\ Stand(r, [Idle EXCEPT !.at = "context", !.who = who, !.flag = strict])
  /\ UNCHANGED <<managed, strict, row, account, lock, drawn, ghosts>>
AskChecked(r) ==
  /\ request[r].at = "context"
  /\ IF row.open THEN Stand(r, Idle) ELSE Move(r, "ask")
  /\ UNCHANGED <<managed, strict, row, account, lock, drawn, ghosts>>
ReadAsk(r) ==
  /\ request[r].at = "ask" /\ row.there /\ Read(r, "asking")
  /\ UNCHANGED <<managed, strict, row, account, lock, drawn, ghosts>>
Ask(r) ==
  LET who == request[r].who
      second == request[r].flag
  IN
  /\ request[r].at = "asking" /\ Flushable(r)
  /\ row' = Flushed(r, ~second, who, IF second THEN Nobody ELSE who)
  /\ lenient' = ~second
  /\ asked' = TRUE /\ Stand(r, Idle)
  /\ UNCHANGED <<managed, strict, account, lock, drawn, probed, overlapped, raced>>

BeginApprove(r, who) ==
  /\ request[r] = Idle /\ row.there /\ ~row.open
  /\ row.asker # Nobody /\ row.asker # who
  /\ Stand(r, [Idle EXCEPT !.at = "approve", !.who = who, !.asker = row.asker])
  /\ UNCHANGED <<managed, strict, row, account, lock, drawn, ghosts>>

(* Mutant: the request is not compared with the one that was read first.  *)
ReadApproveUncompared(r) ==
  /\ request[r].at = "approve" /\ row.there /\ ~row.open /\ Read(r, "approving")
  /\ UNCHANGED <<managed, strict, row, account, lock, drawn, ghosts>>

ReadApprove(r) ==
  /\ request[r].at = "approve" /\ row.there /\ ~row.open /\ row.asker = request[r].asker
  /\ Read(r, "approving")
  /\ UNCHANGED <<managed, strict, row, account, lock, drawn, ghosts>>
Approve(r) ==
  /\ request[r].at = "approving" /\ Flushable(r)
  /\ row' = Flushed(r, TRUE, request[r].seen.asker, request[r].who)
  /\ lenient' = FALSE /\ Stand(r, Idle)
  /\ UNCHANGED <<managed, strict, account, lock, drawn, probed, asked, overlapped, raced>>
\* the row is gone or no longer the one that was read: 409
Declined(r) ==
  /\ \/ request[r].at = "ask" /\ ~row.there
     \/ request[r].at = "approve" /\ ~(row.there /\ ~row.open /\ row.asker = request[r].asker)
  /\ Stand(r, Idle)
  /\ UNCHANGED <<managed, strict, row, account, lock, drawn, ghosts>>

BeginRevoke(r) ==
  /\ request[r] = Idle /\ managed /\ row.there
  /\ Stand(r, [Idle EXCEPT !.at = "revoking", !.seen = OptIn])
  /\ UNCHANGED <<managed, strict, row, account, lock, drawn, ghosts>>
Revoke(r) ==
  /\ request[r].at = "revoking" /\ Flushable(r)
  /\ row' = Flushed(r, FALSE, Nobody, Nobody)
  /\ asked' = (asked /\ row'.asker # Nobody) /\ Stand(r, Idle)
  /\ UNCHANGED <<managed, strict, account, lock, drawn, probed, lenient, overlapped, raced>>
\* the flush of an opt-in is refused, and nothing is written
Conflict(r) ==
  /\ request[r].at \in {"asking", "approving", "revoking"} /\ ~Flushable(r)
  /\ Stand(r, Idle)
  /\ UNCHANGED <<managed, strict, row, account, lock, drawn, ghosts>>
\* update_database moves it to another environment
Reclassify ==
  /\ managed /\ strict' = ~strict
  /\ UNCHANGED <<managed, row, account, lock, request, drawn, ghosts>>

-----------------------------------------------------------------------------
(* An agent's read of rows (_run_data_tool).                               *)

\* _assert_data_credential_open
Open == row.there /\ row.green /\ row.open /\ row.approver # Nobody
\* _data_gate; the names of the table and its columns are looked up after it
AgentGate(r, p) ==
  /\ request[r] = Idle /\ managed /\ Open
  /\ Stand(r, [Idle EXCEPT !.at = "lookup", !.process = p])
  /\ UNCHANGED <<managed, strict, row, account, lock, drawn, ghosts>>

(* Mutant: the password is decrypted on the word of the gate.             *)
DataTargetUnread(r) ==
  /\ request[r].at = "lookup" /\ row.there
  /\ Stand(r, [request[r] EXCEPT !.at = "connect", !.secret = row.secret])
  /\ UNCHANGED <<managed, strict, row, account, lock, drawn, ghosts>>

DataTarget(r) ==
  /\ request[r].at = "lookup" /\ Open
  /\ Stand(r, [request[r] EXCEPT !.at = "connect", !.secret = row.secret])
  /\ UNCHANGED <<managed, strict, row, account, lock, drawn, ghosts>>
\* an unknown name, or a credential that is not open any more
Denied(r) ==
  /\ request[r].at = "lookup" /\ Stand(r, Idle)
  /\ UNCHANGED <<managed, strict, row, account, lock, drawn, ghosts>>
\* run_agent_select: rows, or an engine that refuses the password
Select(r) ==
  /\ request[r].at = "connect" /\ Stand(r, Idle)
  /\ UNCHANGED <<managed, strict, row, account, lock, drawn, ghosts>>

Crash(p) ==
  /\ lock' = [lock EXCEPT ![p] = FALSE]
  /\ request' = [r \in Requests |-> IF request[r].process = p THEN Idle ELSE request[r]]
  /\ UNCHANGED <<managed, strict, row, account, drawn, ghosts>>

Next ==
  \/ \E r \in Requests :
       \/ \E p \in Processes : BeginProvision(r, p) \/ BeginVerify(r, p)
       \/ \E p \in Processes, delete \in BOOLEAN : BeginClear(r, p, delete)
       \/ Busy(r) \/ Abort(r)
       \/ LockProvision(r) \/ Preflight(r) \/ Store(r) \/ Engine(r)
       \/ LockVerify(r) \/ Target(r) \/ Record(r) \/ \E green \in BOOLEAN : Probe(r, green)
       \/ LockClear(r) \/ ReadCut(r) \/ Cut(r) \/ CutNothing(r) \/ Drop(r) \/ DropLost(r) \/ Erase(r)
       \/ BeginDelete(r) \/ Delete(r)
       \/ \E who \in People : BeginAsk(r, who) \/ BeginApprove(r, who)
       \/ \E p \in Processes : AgentGate(r, p)
       \/ DataTarget(r) \/ Denied(r) \/ Select(r)
       \/ AskChecked(r) \/ ReadAsk(r) \/ Ask(r) \/ ReadApprove(r) \/ Approve(r) \/ Declined(r)
       \/ BeginRevoke(r) \/ Revoke(r) \/ Conflict(r)
  \/ Age \/ Reclassify \/ \E p \in Processes : Crash(p)
Spec == Init /\ [][Next]_vars

-----------------------------------------------------------------------------
Places == {"idle", "provision", "verify", "clear", "preflight", "store", "engine", "target", "probe",
           "record", "cut", "cutting", "drop", "erase", "delete", "context", "ask", "asking",
           "approve", "approving", "revoking", "lookup", "connect"}
Secrets == 0..MaxPasswords
Persons == People \cup {Nobody}
Row == [there : BOOLEAN, id : Secrets, secret : Secrets, green : BOOLEAN, open : BOOLEAN,
        asker : Persons, approver : Persons]
Seen == [id : Secrets, open : BOOLEAN, asker : Persons, approver : Persons]
Request == [at : Places, process : Processes, who : Persons, asker : Persons, secret : Secrets,
            flag : BOOLEAN, seen : Seen]
TypeOK ==
  /\ managed \in BOOLEAN /\ strict \in BOOLEAN /\ account \in Secrets /\ drawn \in Secrets
  /\ row \in Row /\ lock \in [Processes -> BOOLEAN] /\ request \in [Requests -> Request]
  /\ probed \in Secrets
  /\ \A g \in {lenient, asked, overlapped, raced} : g \in BOOLEAN

\* approve_data_access compares ids before and after its audit: data that is
\* open was asked for by somebody since the last revocation, and where a second
\* owner was required when it was asked, approved by another person, although
\* requests, approvals, revocations and clears overlap.
OpenedByTwo ==
  row.open => /\ asked /\ row.approver # Nobody
              /\ lenient \/ row.approver # row.asker

\* "Es lo que mantiene a las tools de datos atadas a una OBSERVACION reciente":
\* the password an agent's read connects with, when the account still takes it, is
\* the one the last green probe connected with, and a credential recorded as green
\* was probed with the password that is stored; unless two processes held the lock.
GreenIsProbed ==
  ~overlapped =>
    /\ row.green => probed = row.secret
    /\ \A r \in Requests : LET held == request[r].secret IN
         request[r].at = "connect" /\ account = held => probed = held

\* "El gateway registra la propiedad ANTES de que el motor cambie", and clear
\* drops the account before the row: no account is left in the engine without
\* the row that can revoke it, unless two processes overlapped or the database
\* was deleted while somebody provisioned it.
NoOrphanAccount == account # 0 /\ ~overlapped /\ ~raced => row.there
=============================================================================
