-------------------------- MODULE DataAccessProofs --------------------------
(***************************************************************************)
(* Proofs about DataAccess, for every number of requests, processes and    *)
(* people and every bound on the passwords.                                *)
(*                                                                         *)
(* The lock of a process and the ghost of two processes that held it at    *)
(* once leave at most one request in the locked part of provision, verify  *)
(* and clear (AloneInTheLock): what such a request read stays true until   *)
(* it writes.  The rest is the order of the writes: the row before the     *)
(* account, the account's drop before the row's, and a password that no    *)
(* earlier request can hold.                                               *)
(***************************************************************************)
EXTENDS DataAccess, TLAPS

-----------------------------------------------------------------------------
(* The inductive invariant.                                                *)

\* where a request holds the lock of its process
Locked == {"preflight", "store", "engine", "target", "probe", "record", "cut", "cutting", "drop", "erase"}

\* The lock is held by one request of its process and, until two processes
\* overlap, by one process.
Exclusive ==
  /\ \A r \in Requests : request[r].at \in Locked => lock[request[r].process]
  /\ \A r, s \in Requests :
       /\ request[r].at \in Locked /\ request[s].at \in Locked
       /\ request[r].process = request[s].process
       => r = s
  /\ ~overlapped => \A p, q \in Processes : lock[p] /\ lock[q] => p = q

\* Whoever is written in the row asked since the last revocation; an approval
\* in progress is another person's than the request it read.
Asking ==
  /\ row.asker # Nobody => asked
  /\ \A r \in Requests :
       /\ request[r].at \in {"context", "ask", "asking"} => request[r].who \in People
       /\ request[r].at = "approve" =>
            request[r].who \in People /\ request[r].asker \notin {Nobody, request[r].who}
       /\ request[r].at = "approving" =>
            request[r].who \in People /\ request[r].seen.asker \notin {Nobody, request[r].who}

\* No password in use is one that is still to be drawn; 0 is no password.
Fresh ==
  /\ account <= drawn /\ probed <= drawn /\ row.secret <= drawn
  /\ row.there => row.secret # 0
  /\ \A r \in Requests :
       /\ request[r].secret <= drawn
       /\ request[r].at \in {"engine", "connect"} => request[r].secret # 0

\* What the holder of the lock knows, unless two processes held it at once: a
\* verification the stored password and what its probe saw, a clear that the
\* account is gone, a provisioning that its row waits unverified and that no
\* agent holds the password it is about to set.
Held ==
  ~overlapped => \A r \in Requests :
    /\ request[r].at \in {"probe", "record"} /\ row.there => row.secret = request[r].secret
    /\ request[r].at = "record" /\ request[r].flag => account = request[r].secret
    /\ request[r].at = "erase" => account = 0
    /\ request[r].at = "engine" =>
         /\ ~row.green
         /\ ~raced => row.there
         /\ \A s \in Requests : request[s].at = "connect" => request[s].secret # request[r].secret

Opt == SnapshotIsolation => Asking /\ OpenedByTwo
Secure == Fresh /\ Held /\ GreenIsProbed /\ NoOrphanAccount
Inv == TypeOK /\ Exclusive /\ Opt /\ Secure

-----------------------------------------------------------------------------
(* Lemmas about requests.                                                  *)

LEMMA IdleTyped == Idle \in Request /\ Idle.at = "idle" /\ Idle.secret = 0
  BY ProcessesAssumption, PasswordsAssumption
     DEF Idle, Unread, Places, Persons, Secrets, Request, Seen

LEMMA PlacesNamed ==
  /\ {"provision", "verify", "clear", "preflight", "store", "engine", "target"} \subseteq Places
  /\ {"probe", "record", "cut", "cutting", "drop", "erase", "delete"} \subseteq Places
  /\ {"context", "ask", "asking", "approve", "approving", "revoking", "lookup"} \subseteq Places
  /\ "connect" \in Places
  BY DEF Places

\* A flush touches the opt-in only, and with snapshot isolation it writes the
\* columns as the handler means them: nothing changed since they were read.
LEMMA FlushDoes ==
  ASSUME TypeOK, NEW r \in Requests, NEW open \in BOOLEAN, NEW asker \in Persons,
         NEW approver \in Persons
  PROVE  LET new == Flushed(r, open, asker, approver) IN
         /\ new \in Row
         /\ new.there = row.there /\ new.id = row.id
         /\ new.secret = row.secret /\ new.green = row.green
         /\ SnapshotIsolation /\ Flushable(r) =>
              new.open = open /\ new.asker = asker /\ new.approver = approver
<1>1. row \in Row /\ request[r].seen \in Seen
  BY DEF TypeOK, Request
<1>2. SnapshotIsolation /\ Flushable(r) =>
        /\ request[r].seen.open = row.open /\ request[r].seen.asker = row.asker
        /\ request[r].seen.approver = row.approver
  BY DEF Flushable, OptIn
<1> QED
  BY <1>1, <1>2 DEF Flushed, Net, Row, Seen

LEMMA FlushStep ==
  ASSUME TypeOK, NEW r \in Requests, Cut(r) \/ Ask(r) \/ Approve(r) \/ Revoke(r)
  PROVE  /\ row' \in Row
         /\ row'.there = row.there /\ row'.secret = row.secret
         /\ row'.green => row.green
         /\ SnapshotIsolation /\ Cut(r) => ~row'.open /\ row'.asker = row.asker
         /\ SnapshotIsolation /\ Ask(r) =>
              /\ row'.open = ~request[r].flag /\ row'.asker = request[r].who
              /\ row'.approver = IF request[r].flag THEN Nobody ELSE request[r].who
         /\ SnapshotIsolation /\ Approve(r) =>
              /\ row'.open /\ row'.approver = request[r].who
              /\ row'.asker = request[r].seen.asker /\ row'.asker = row.asker
         /\ SnapshotIsolation /\ Revoke(r) => ~row'.open /\ row'.asker = Nobody
<1>1. /\ request[r].who \in Persons /\ request[r].flag \in BOOLEAN /\ request[r].seen \in Seen
      /\ Nobody \in Persons /\ row.green \in BOOLEAN
  BY DEF TypeOK, Request, Persons, Row
<1>2. request[r].seen.asker \in Persons /\ request[r].seen.approver \in Persons
  BY <1>1 DEF Seen
<1>3. ASSUME NEW open \in BOOLEAN, NEW asker \in Persons, NEW approver \in Persons,
             row' = Flushed(r, open, asker, approver), Flushable(r)
      PROVE  /\ row' \in Row
             /\ row'.there = row.there /\ row'.secret = row.secret /\ row'.green = row.green
             /\ SnapshotIsolation =>
                  row'.open = open /\ row'.asker = asker /\ row'.approver = approver
  BY <1>3, FlushDoes
<1>4. CASE Ask(r)
  <2>1. Flushable(r)
    BY <1>4 DEF Ask
  <2>2. row' = Flushed(r, ~request[r].flag, request[r].who,
                       IF request[r].flag THEN Nobody ELSE request[r].who)
    BY <1>4 DEF Ask
  <2>3. (IF request[r].flag THEN Nobody ELSE request[r].who) \in Persons
    BY <1>1
  <2>4. (~request[r].flag) \in BOOLEAN
    BY <1>1
  <2>5. request[r].at = "asking"
    BY <1>4 DEF Ask
  <2> QED
    BY <1>1, <1>3, <2>1, <2>2, <2>3, <2>4, <2>5 DEF Cut, Approve, Revoke
<1>5. CASE Approve(r)
  <2>1. /\ Flushable(r) /\ request[r].at = "approving"
        /\ row' = Flushed(r, TRUE, request[r].seen.asker, request[r].who)
    BY <1>5 DEF Approve
  <2>2. SnapshotIsolation => request[r].seen.asker = row.asker
    BY <2>1 DEF Flushable, OptIn
  <2> QED
    BY <1>1, <1>2, <1>3, <2>1, <2>2 DEF Cut, Ask, Revoke
<1>6. CASE Revoke(r)
  <2>1. /\ Flushable(r) /\ request[r].at = "revoking"
        /\ row' = Flushed(r, FALSE, Nobody, Nobody)
    BY <1>6 DEF Revoke
  <2> QED
    BY <1>1, <1>3, <2>1 DEF Cut, Ask, Approve
<1>7. CASE Cut(r)
  <2> DEFINE new == Flushed(r, FALSE, request[r].seen.asker, request[r].seen.approver)
  <2>1. /\ Flushable(r) /\ request[r].at = "cutting"
        /\ row' = [new EXCEPT !.green = FALSE]
    BY <1>7 DEF Cut
  <2>2. /\ new \in Row
        /\ new.there = row.there /\ new.secret = row.secret /\ new.green = row.green
        /\ SnapshotIsolation => ~new.open /\ new.asker = request[r].seen.asker
    <3>1. row \in Row
      BY DEF TypeOK
    <3>2. SnapshotIsolation =>
            request[r].seen.open = row.open /\ request[r].seen.asker = row.asker
      BY <2>1 DEF Flushable, OptIn
    <3> QED
      BY <1>1, <1>2, <3>1, <3>2 DEF Flushed, Net, Row
  <2>3. SnapshotIsolation => request[r].seen.asker = row.asker
    BY <2>1 DEF Flushable, OptIn
  <2> HIDE DEF new
  <2> QED
    BY <2>1, <2>2, <2>3 DEF Row, Ask, Approve, Revoke
<1> QED
  BY <1>4, <1>5, <1>6, <1>7

\* A session that reads keeps what it read; every other place of a request is
\* typed as well.
LEMMA ReadTyped ==
  ASSUME TypeOK, NEW r \in Requests, NEW at \in Places, Read(r, at)
  PROVE  request' \in [Requests -> Request]
<1>1. OptIn \in Seen
  BY DEF OptIn, TypeOK, Row, Seen
<1>2. [request[r] EXCEPT !.at = at, !.seen = OptIn] \in Request
  BY <1>1 DEF TypeOK, Request
<1> QED
  BY <1>2 DEF TypeOK, Read, Stand

LEMMA NothingTyped == 0 \in Secrets /\ Unread \in Seen /\ NoRow \in Row
  BY PasswordsAssumption DEF Secrets, Unread, Seen, NoRow, Row, Persons

LEMMA MoveTyped ==
  ASSUME TypeOK, NEW r \in Requests, NEW at \in Places
  PROVE  [request[r] EXCEPT !.at = at] \in Request
  BY DEF TypeOK, Request

LEMMA AfterTyped ==
  ASSUME TypeOK, NEW r \in Requests
  PROVE  After(r) \in Request
  BY IdleTyped, PlacesNamed DEF After, TypeOK, Request

LEMMA StandTyped ==
  ASSUME TypeOK, NEW r \in Requests, NEW q \in Request, Stand(r, q)
  PROVE  request' \in [Requests -> Request]
  BY DEF TypeOK, Stand

\* Until two processes overlap, one request is in the locked part.
LEMMA AloneInTheLock ==
  ASSUME TypeOK, Exclusive, ~overlapped, NEW r \in Requests, NEW s \in Requests,
         request[r].at \in Locked, request[s].at \in Locked
  PROVE  r = s
  BY DEF TypeOK, Exclusive, Request

-----------------------------------------------------------------------------
(* Init and every step preserve it.                                        *)

LEMMA InitInv == Init => Inv
<1> SUFFICES ASSUME Init PROVE Inv
  OBVIOUS
<1> USE IdleTyped DEF Init
<1>1. TypeOK
  BY PasswordsAssumption DEF TypeOK, NoRow, Request, Row, Seen, Persons, Secrets
<1>2. Exclusive
  BY DEF Exclusive, Locked
<1>3. Opt
  BY PeopleAssumption DEF Opt, Asking, OpenedByTwo, NoRow
<1>4. Secure
  BY DEF Secure, Fresh, Held, GreenIsProbed, NoOrphanAccount, NoRow
<1> QED
  BY <1>1, <1>2, <1>3, <1>4 DEF Inv

(* Type correctness. *)
LEMMA TypeStep ==
  ASSUME TypeOK, [Next]_vars PROVE TypeOK'
<1> USE IdleTyped, PlacesNamed, PasswordsAssumption, NothingTyped, StandTyped, MoveTyped DEF
      TypeOK, Persons, Move, Release, Leave, ghosts
<1>1. ASSUME NEW r \in Requests, NEW p \in Processes, BeginProvision(r, p) PROVE TypeOK'
  <2>1. [Idle EXCEPT !.at = "provision", !.process = p, !.flag = row.there] \in Request
    BY IdleTyped DEF TypeOK, Request, Row
  <2>2. request' \in [Requests -> Request]
    BY <1>1, <2>1, StandTyped DEF BeginProvision
  <2> QED
    BY <1>1, <2>2 DEF BeginProvision
<1>2. ASSUME NEW r \in Requests, NEW p \in Processes, BeginVerify(r, p) PROVE TypeOK'
  <2>1. [Idle EXCEPT !.at = "verify", !.process = p] \in Request
    BY IdleTyped DEF TypeOK, Request, Row
  <2>2. request' \in [Requests -> Request]
    BY <1>2, <2>1, StandTyped DEF BeginVerify
  <2> QED
    BY <1>2, <2>2 DEF BeginVerify
<1>3. ASSUME NEW r \in Requests, NEW p \in Processes, NEW delete \in BOOLEAN, BeginClear(r, p, delete) PROVE TypeOK'
  <2>1. [Idle EXCEPT !.at = "clear", !.process = p, !.flag = delete] \in Request
    BY IdleTyped DEF TypeOK, Request, Row
  <2>2. request' \in [Requests -> Request]
    BY <1>3, <2>1, StandTyped DEF BeginClear
  <2> QED
    BY <1>3, <2>2 DEF BeginClear
<1>4. ASSUME NEW r \in Requests, Busy(r) PROVE TypeOK'
  BY <1>4 DEF Busy
<1>5. ASSUME NEW r \in Requests, Abort(r) PROVE TypeOK'
  BY <1>5 DEF Abort
<1>6. ASSUME NEW r \in Requests, LockProvision(r) PROVE TypeOK'
  BY <1>6 DEF LockProvision, Acquire
<1>7. ASSUME NEW r \in Requests, Preflight(r) PROVE TypeOK'
  BY <1>7 DEF Preflight
<1>8. ASSUME NEW r \in Requests, Store(r) PROVE TypeOK'
  <2>1. drawn + 1 \in Secrets /\ drawn + 1 \in Nat /\ drawn' = drawn + 1
    BY <1>8 DEF Store, Secrets
  <2>2. [request[r] EXCEPT !.at = "engine", !.secret = drawn'] \in Request
    BY <2>1 DEF Request
  <2>3. request' \in [Requests -> Request]
    BY <1>8, <2>2, StandTyped DEF Store
  <2>4. row' \in Row
    BY <1>8, <2>1 DEF Store, Stored, Row
  <2> QED
    BY <1>8, <2>1, <2>3, <2>4 DEF Store
<1>9. ASSUME NEW r \in Requests, Engine(r) PROVE TypeOK'
  BY <1>9 DEF Engine, Request
<1>10. ASSUME NEW r \in Requests, LockVerify(r) PROVE TypeOK'
  BY <1>10 DEF LockVerify, Acquire
<1>11. ASSUME NEW r \in Requests, Target(r) PROVE TypeOK'
  <2>1. [request[r] EXCEPT !.at = "probe", !.secret = row.secret] \in Request
    BY IdleTyped DEF TypeOK, Request, Row
  <2>2. request' \in [Requests -> Request]
    BY <1>11, <2>1, StandTyped DEF Target
  <2> QED
    BY <1>11, <2>2 DEF Target
<1>12. ASSUME NEW r \in Requests, Record(r) PROVE TypeOK'
  BY <1>12 DEF Record, Row, Request
<1>13. ASSUME NEW r \in Requests, NEW green \in BOOLEAN, Probe(r, green) PROVE TypeOK'
  <2>1. [request[r] EXCEPT !.at = "record", !.flag = green] \in Request
    BY IdleTyped DEF TypeOK, Request, Row
  <2>2. request' \in [Requests -> Request]
    BY <1>13, <2>1, StandTyped DEF Probe
  <2> QED
    BY <1>13, <2>2 DEF Probe
<1>14. ASSUME NEW r \in Requests, LockClear(r) PROVE TypeOK'
  BY <1>14 DEF LockClear, Acquire
<1>15. ASSUME NEW r \in Requests, ReadCut(r) PROVE TypeOK'
  <2>1. request' \in [Requests -> Request]
    BY <1>15, ReadTyped DEF ReadCut
  <2> QED
    BY <1>15, <2>1 DEF ReadCut
<1>16. ASSUME NEW r \in Requests, Cut(r) PROVE TypeOK'
  <2>1. row' \in Row
    BY <1>16, FlushStep
  <2>2. [request[r] EXCEPT !.at = "drop", !.seen = Unread] \in Request
    BY NothingTyped DEF Request
  <2>3. request' \in [Requests -> Request]
    BY <1>16, <2>2, StandTyped DEF Cut
  <2> QED
    BY <1>16, <2>1, <2>3 DEF Cut
<1>17. ASSUME NEW r \in Requests, CutNothing(r) PROVE TypeOK'
  BY <1>17, AfterTyped DEF CutNothing
<1>18. ASSUME NEW r \in Requests, Drop(r) PROVE TypeOK'
  BY <1>18 DEF Drop
<1>19. ASSUME NEW r \in Requests, DropLost(r) PROVE TypeOK'
  BY <1>19 DEF DropLost
<1>20. ASSUME NEW r \in Requests, Erase(r) PROVE TypeOK'
  <2>1. After(r) \in Request
    BY AfterTyped
  <2> QED
    BY <1>20, <2>1 DEF Erase
<1>21. ASSUME NEW r \in Requests, BeginDelete(r) PROVE TypeOK'
  BY <1>21 DEF BeginDelete
<1>22. ASSUME NEW r \in Requests, Delete(r) PROVE TypeOK'
  BY <1>22 DEF Delete
<1>23. ASSUME NEW r \in Requests, NEW who \in People, BeginAsk(r, who) PROVE TypeOK'
  <2>1. [Idle EXCEPT !.at = "context", !.who = who, !.flag = strict] \in Request
    BY IdleTyped DEF TypeOK, Request, Row
  <2>2. request' \in [Requests -> Request]
    BY <1>23, <2>1, StandTyped DEF BeginAsk
  <2> QED
    BY <1>23, <2>2 DEF BeginAsk
<1>24. ASSUME NEW r \in Requests, NEW who \in People, BeginApprove(r, who) PROVE TypeOK'
  <2>1. [Idle EXCEPT !.at = "approve", !.who = who, !.asker = row.asker] \in Request
    BY IdleTyped DEF TypeOK, Request, Row
  <2>2. request' \in [Requests -> Request]
    BY <1>24, <2>1, StandTyped DEF BeginApprove
  <2> QED
    BY <1>24, <2>2 DEF BeginApprove
<1>25. ASSUME NEW r \in Requests, NEW p \in Processes, AgentGate(r, p) PROVE TypeOK'
  <2>1. [Idle EXCEPT !.at = "lookup", !.process = p] \in Request
    BY IdleTyped DEF TypeOK, Request, Row
  <2>2. request' \in [Requests -> Request]
    BY <1>25, <2>1, StandTyped DEF AgentGate
  <2> QED
    BY <1>25, <2>2 DEF AgentGate
<1>26. ASSUME NEW r \in Requests, DataTarget(r) PROVE TypeOK'
  <2>1. [request[r] EXCEPT !.at = "connect", !.secret = row.secret] \in Request
    BY IdleTyped DEF TypeOK, Request, Row
  <2>2. request' \in [Requests -> Request]
    BY <1>26, <2>1, StandTyped DEF DataTarget
  <2> QED
    BY <1>26, <2>2 DEF DataTarget
<1>27. ASSUME NEW r \in Requests, Denied(r) PROVE TypeOK'
  BY <1>27 DEF Denied
<1>28. ASSUME NEW r \in Requests, Select(r) PROVE TypeOK'
  BY <1>28 DEF Select
<1>29. ASSUME NEW r \in Requests, AskChecked(r) PROVE TypeOK'
  <2>1. request' \in [Requests -> Request]
    <3>1. CASE row.open
      BY <1>29, <3>1, StandTyped, IdleTyped DEF AskChecked
    <3>2. CASE ~row.open
      <4>1. [request[r] EXCEPT !.at = "ask"] \in Request
        BY DEF Request
      <4> QED
        BY <1>29, <3>2, <4>1, StandTyped DEF AskChecked, Move
    <3> QED
      BY <3>1, <3>2
  <2> QED
    BY <1>29, <2>1 DEF AskChecked
<1>30. ASSUME NEW r \in Requests, ReadAsk(r) PROVE TypeOK'
  <2>1. request' \in [Requests -> Request]
    BY <1>30, ReadTyped DEF ReadAsk
  <2> QED
    BY <1>30, <2>1 DEF ReadAsk
<1>31. ASSUME NEW r \in Requests, Ask(r) PROVE TypeOK'
  <2>1. row' \in Row
    BY <1>31, FlushStep
  <2> QED
    BY <1>31, <2>1 DEF Ask
<1>32. ASSUME NEW r \in Requests, ReadApprove(r) PROVE TypeOK'
  <2>1. request' \in [Requests -> Request]
    BY <1>32, ReadTyped DEF ReadApprove
  <2> QED
    BY <1>32, <2>1 DEF ReadApprove
<1>33. ASSUME NEW r \in Requests, Approve(r) PROVE TypeOK'
  <2>1. row' \in Row
    BY <1>33, FlushStep
  <2> QED
    BY <1>33, <2>1 DEF Approve
<1>34. ASSUME NEW r \in Requests, Declined(r) PROVE TypeOK'
  BY <1>34 DEF Declined
<1>35. ASSUME NEW r \in Requests, BeginRevoke(r) PROVE TypeOK'
  <2>1. OptIn \in Seen
    BY DEF OptIn, Row, Seen
  <2>2. [Idle EXCEPT !.at = "revoking", !.seen = OptIn] \in Request
    BY IdleTyped, <2>1 DEF Request
  <2>3. request' \in [Requests -> Request]
    BY <1>35, <2>2, StandTyped DEF BeginRevoke
  <2> QED
    BY <1>35, <2>3 DEF BeginRevoke
<1>36. ASSUME NEW r \in Requests, Revoke(r) PROVE TypeOK'
  <2>1. row' \in Row
    BY <1>36, FlushStep
  <2> QED
    BY <1>36, <2>1 DEF Revoke
<1>37. ASSUME NEW r \in Requests, Conflict(r) PROVE TypeOK'
  BY <1>37 DEF Conflict
<1>38. ASSUME Age PROVE TypeOK'
  BY <1>38 DEF Age, Row
<1>39. ASSUME Reclassify PROVE TypeOK'
  BY <1>39 DEF Reclassify
<1>40. ASSUME NEW p \in Processes, Crash(p) PROVE TypeOK'
  BY <1>40 DEF Crash
<1>41. CASE UNCHANGED vars
  BY <1>41 DEF vars
<1> HIDE DEF TypeOK
<1> QED
  BY <1>1, <1>2, <1>3, <1>4, <1>5, <1>6, <1>7, <1>8, <1>9, <1>10, <1>11, <1>12, <1>13, <1>14,
    <1>15, <1>16, <1>17, <1>18, <1>19, <1>20, <1>21, <1>22, <1>23, <1>24, <1>25, <1>26, <1>27,
    <1>28, <1>29, <1>30, <1>31, <1>32, <1>33, <1>34, <1>35, <1>36, <1>37, <1>38, <1>39, <1>40,
    <1>41 DEF Next

(* Who enters the locked part takes the lock, who leaves it gives it back. *)
LEMMA ExclusiveStep ==
  ASSUME TypeOK, Exclusive, [Next]_vars PROVE Exclusive'
<1> USE IdleTyped DEF TypeOK, Exclusive, Locked, Request, Stand, Move, Release, Leave, ghosts
<1>1. ASSUME NEW r \in Requests, NEW p \in Processes, BeginProvision(r, p) PROVE Exclusive'
  BY <1>1 DEF BeginProvision
<1>2. ASSUME NEW r \in Requests, NEW p \in Processes, BeginVerify(r, p) PROVE Exclusive'
  BY <1>2 DEF BeginVerify
<1>3. ASSUME NEW r \in Requests, NEW p \in Processes, NEW delete \in BOOLEAN, BeginClear(r, p, delete) PROVE Exclusive'
  BY <1>3 DEF BeginClear
<1>4. ASSUME NEW r \in Requests, Busy(r) PROVE Exclusive'
  BY <1>4 DEF Busy
<1>5. ASSUME NEW r \in Requests, Abort(r) PROVE Exclusive'
  BY <1>5 DEF Abort
<1>6. ASSUME NEW r \in Requests, LockProvision(r) PROVE Exclusive'
  BY <1>6 DEF LockProvision, Acquire
<1>7. ASSUME NEW r \in Requests, Preflight(r) PROVE Exclusive'
  BY <1>7 DEF Preflight
<1>8. ASSUME NEW r \in Requests, Store(r) PROVE Exclusive'
  BY <1>8 DEF Store, Stored
<1>9. ASSUME NEW r \in Requests, Engine(r) PROVE Exclusive'
  BY <1>9 DEF Engine
<1>10. ASSUME NEW r \in Requests, LockVerify(r) PROVE Exclusive'
  BY <1>10 DEF LockVerify, Acquire
<1>11. ASSUME NEW r \in Requests, Target(r) PROVE Exclusive'
  BY <1>11 DEF Target
<1>12. ASSUME NEW r \in Requests, Record(r) PROVE Exclusive'
  BY <1>12 DEF Record
<1>13. ASSUME NEW r \in Requests, NEW green \in BOOLEAN, Probe(r, green) PROVE Exclusive'
  BY <1>13 DEF Probe
<1>14. ASSUME NEW r \in Requests, LockClear(r) PROVE Exclusive'
  BY <1>14 DEF LockClear, Acquire
<1>15. ASSUME NEW r \in Requests, ReadCut(r) PROVE Exclusive'
  BY <1>15 DEF ReadCut, Read, OptIn
<1>16. ASSUME NEW r \in Requests, Cut(r) PROVE Exclusive'
  BY <1>16 DEF Cut, Flushable
<1>17. ASSUME NEW r \in Requests, CutNothing(r) PROVE Exclusive'
  BY <1>17 DEF CutNothing, After
<1>18. ASSUME NEW r \in Requests, Drop(r) PROVE Exclusive'
  BY <1>18 DEF Drop
<1>19. ASSUME NEW r \in Requests, DropLost(r) PROVE Exclusive'
  BY <1>19 DEF DropLost
<1>20. ASSUME NEW r \in Requests, Erase(r) PROVE Exclusive'
  BY <1>20 DEF Erase, After
<1>21. ASSUME NEW r \in Requests, BeginDelete(r) PROVE Exclusive'
  BY <1>21 DEF BeginDelete
<1>22. ASSUME NEW r \in Requests, Delete(r) PROVE Exclusive'
  BY <1>22 DEF Delete
<1>23. ASSUME NEW r \in Requests, NEW who \in People, BeginAsk(r, who) PROVE Exclusive'
  BY <1>23 DEF BeginAsk
<1>24. ASSUME NEW r \in Requests, NEW who \in People, BeginApprove(r, who) PROVE Exclusive'
  BY <1>24 DEF BeginApprove
<1>25. ASSUME NEW r \in Requests, NEW p \in Processes, AgentGate(r, p) PROVE Exclusive'
  BY <1>25 DEF AgentGate
<1>26. ASSUME NEW r \in Requests, DataTarget(r) PROVE Exclusive'
  BY <1>26 DEF DataTarget, Open
<1>27. ASSUME NEW r \in Requests, Denied(r) PROVE Exclusive'
  BY <1>27 DEF Denied
<1>28. ASSUME NEW r \in Requests, Select(r) PROVE Exclusive'
  BY <1>28 DEF Select
<1>29. ASSUME NEW r \in Requests, AskChecked(r) PROVE Exclusive'
  BY <1>29 DEF AskChecked
<1>30. ASSUME NEW r \in Requests, ReadAsk(r) PROVE Exclusive'
  BY <1>30 DEF ReadAsk, Read, OptIn
<1>31. ASSUME NEW r \in Requests, Ask(r) PROVE Exclusive'
  BY <1>31 DEF Ask, Flushable
<1>32. ASSUME NEW r \in Requests, ReadApprove(r) PROVE Exclusive'
  BY <1>32 DEF ReadApprove, Read, OptIn
<1>33. ASSUME NEW r \in Requests, Approve(r) PROVE Exclusive'
  BY <1>33 DEF Approve, Flushable
<1>34. ASSUME NEW r \in Requests, Declined(r) PROVE Exclusive'
  BY <1>34 DEF Declined
<1>35. ASSUME NEW r \in Requests, BeginRevoke(r) PROVE Exclusive'
  BY <1>35 DEF BeginRevoke, OptIn
<1>36. ASSUME NEW r \in Requests, Revoke(r) PROVE Exclusive'
  BY <1>36 DEF Revoke, Flushable
<1>37. ASSUME NEW r \in Requests, Conflict(r) PROVE Exclusive'
  BY <1>37 DEF Conflict
<1>38. ASSUME Age PROVE Exclusive'
  BY <1>38 DEF Age
<1>39. ASSUME Reclassify PROVE Exclusive'
  BY <1>39 DEF Reclassify
<1>40. ASSUME NEW p \in Processes, Crash(p) PROVE Exclusive'
  BY <1>40 DEF Crash
<1>41. CASE UNCHANGED vars
  BY <1>41 DEF vars
<1> QED
  BY <1>1, <1>2, <1>3, <1>4, <1>5, <1>6, <1>7, <1>8, <1>9, <1>10, <1>11, <1>12, <1>13, <1>14,
    <1>15, <1>16, <1>17, <1>18, <1>19, <1>20, <1>21, <1>22, <1>23, <1>24, <1>25, <1>26, <1>27,
    <1>28, <1>29, <1>30, <1>31, <1>32, <1>33, <1>34, <1>35, <1>36, <1>37, <1>38, <1>39, <1>40,
    <1>41 DEF Next

(* The opt-in: who asked, who approved. *)
LEMMA OptStep ==
  ASSUME TypeOK, Opt, [Next]_vars PROVE Opt'
<1> USE IdleTyped, PeopleAssumption DEF TypeOK, Opt, Asking, OpenedByTwo, Request, Row, Seen,
      Persons, NoRow, Stand, Move, Release, Leave, ghosts
<1>1. ASSUME NEW r \in Requests, NEW p \in Processes, BeginProvision(r, p) PROVE Opt'
  BY <1>1 DEF BeginProvision
<1>2. ASSUME NEW r \in Requests, NEW p \in Processes, BeginVerify(r, p) PROVE Opt'
  BY <1>2 DEF BeginVerify
<1>3. ASSUME NEW r \in Requests, NEW p \in Processes, NEW delete \in BOOLEAN, BeginClear(r, p, delete) PROVE Opt'
  BY <1>3 DEF BeginClear
<1>4. ASSUME NEW r \in Requests, Busy(r) PROVE Opt'
  BY <1>4 DEF Busy
<1>5. ASSUME NEW r \in Requests, Abort(r) PROVE Opt'
  BY <1>5 DEF Abort
<1>6. ASSUME NEW r \in Requests, LockProvision(r) PROVE Opt'
  BY <1>6 DEF LockProvision, Acquire
<1>7. ASSUME NEW r \in Requests, Preflight(r) PROVE Opt'
  BY <1>7 DEF Preflight
<1>8. ASSUME NEW r \in Requests, Store(r) PROVE Opt'
  BY <1>8 DEF Store, Stored
<1>9. ASSUME NEW r \in Requests, Engine(r) PROVE Opt'
  BY <1>9 DEF Engine
<1>10. ASSUME NEW r \in Requests, LockVerify(r) PROVE Opt'
  BY <1>10 DEF LockVerify, Acquire
<1>11. ASSUME NEW r \in Requests, Target(r) PROVE Opt'
  BY <1>11 DEF Target
<1>12. ASSUME NEW r \in Requests, Record(r) PROVE Opt'
  BY <1>12 DEF Record
<1>13. ASSUME NEW r \in Requests, NEW green \in BOOLEAN, Probe(r, green) PROVE Opt'
  BY <1>13 DEF Probe
<1>14. ASSUME NEW r \in Requests, LockClear(r) PROVE Opt'
  BY <1>14 DEF LockClear, Acquire
<1>15. ASSUME NEW r \in Requests, ReadCut(r) PROVE Opt'
  BY <1>15 DEF ReadCut, Read, OptIn
<1>16. ASSUME NEW r \in Requests, Cut(r) PROVE Opt'
  <2>1. SnapshotIsolation =>
          ~row'.open /\ row'.asker = row.asker
    BY <1>16, FlushStep
  <2>2. /\ Stand(r, [request[r] EXCEPT !.at = "drop", !.seen = Unread])
        /\ UNCHANGED <<asked, lenient>>
    BY <1>16 DEF Cut
  <2> QED
    BY <2>1, <2>2
<1>17. ASSUME NEW r \in Requests, CutNothing(r) PROVE Opt'
  BY <1>17 DEF CutNothing, After
<1>18. ASSUME NEW r \in Requests, Drop(r) PROVE Opt'
  BY <1>18 DEF Drop
<1>19. ASSUME NEW r \in Requests, DropLost(r) PROVE Opt'
  BY <1>19 DEF DropLost
<1>20. ASSUME NEW r \in Requests, Erase(r) PROVE Opt'
  BY <1>20 DEF Erase, After
<1>21. ASSUME NEW r \in Requests, BeginDelete(r) PROVE Opt'
  BY <1>21 DEF BeginDelete
<1>22. ASSUME NEW r \in Requests, Delete(r) PROVE Opt'
  BY <1>22 DEF Delete
<1>23. ASSUME NEW r \in Requests, NEW who \in People, BeginAsk(r, who) PROVE Opt'
  BY <1>23 DEF BeginAsk
<1>24. ASSUME NEW r \in Requests, NEW who \in People, BeginApprove(r, who) PROVE Opt'
  BY <1>24 DEF BeginApprove
<1>25. ASSUME NEW r \in Requests, NEW p \in Processes, AgentGate(r, p) PROVE Opt'
  BY <1>25 DEF AgentGate
<1>26. ASSUME NEW r \in Requests, DataTarget(r) PROVE Opt'
  BY <1>26 DEF DataTarget, Open
<1>27. ASSUME NEW r \in Requests, Denied(r) PROVE Opt'
  BY <1>27 DEF Denied
<1>28. ASSUME NEW r \in Requests, Select(r) PROVE Opt'
  BY <1>28 DEF Select
<1>29. ASSUME NEW r \in Requests, AskChecked(r) PROVE Opt'
  BY <1>29 DEF AskChecked
<1>30. ASSUME NEW r \in Requests, ReadAsk(r) PROVE Opt'
  BY <1>30 DEF ReadAsk, Read, OptIn
<1>31. ASSUME NEW r \in Requests, Ask(r) PROVE Opt'
  <2>1. SnapshotIsolation =>
          /\ row'.open = ~request[r].flag /\ row'.asker = request[r].who
          /\ row'.approver = IF request[r].flag THEN Nobody ELSE request[r].who
    BY <1>31, FlushStep
  <2>2. /\ Stand(r, Idle)
        /\ asked' /\ lenient' = ~request[r].flag /\ request[r].at = "asking"
    BY <1>31 DEF Ask
  <2> QED
    BY <2>1, <2>2
<1>32. ASSUME NEW r \in Requests, ReadApprove(r) PROVE Opt'
  BY <1>32 DEF ReadApprove, Read, OptIn
<1>33. ASSUME NEW r \in Requests, Approve(r) PROVE Opt'
  <2>1. SnapshotIsolation =>
          /\ row'.open /\ row'.approver = request[r].who
          /\ row'.asker = request[r].seen.asker /\ row'.asker = row.asker
    BY <1>33, FlushStep
  <2>2. /\ Stand(r, Idle)
        /\ UNCHANGED asked /\ request[r].at = "approving"
    BY <1>33 DEF Approve
  <2> QED
    BY <2>1, <2>2
<1>34. ASSUME NEW r \in Requests, Declined(r) PROVE Opt'
  BY <1>34 DEF Declined
<1>35. ASSUME NEW r \in Requests, BeginRevoke(r) PROVE Opt'
  BY <1>35 DEF BeginRevoke, OptIn
<1>36. ASSUME NEW r \in Requests, Revoke(r) PROVE Opt'
  <2>1. SnapshotIsolation =>
          ~row'.open /\ row'.asker = Nobody
    BY <1>36, FlushStep
  <2>2. /\ Stand(r, Idle)
        /\ asked' = (asked /\ row'.asker # Nobody)
    BY <1>36 DEF Revoke
  <2> QED
    BY <2>1, <2>2
<1>37. ASSUME NEW r \in Requests, Conflict(r) PROVE Opt'
  BY <1>37 DEF Conflict
<1>38. ASSUME Age PROVE Opt'
  BY <1>38 DEF Age
<1>39. ASSUME Reclassify PROVE Opt'
  BY <1>39 DEF Reclassify
<1>40. ASSUME NEW p \in Processes, Crash(p) PROVE Opt'
  BY <1>40 DEF Crash
<1>41. CASE UNCHANGED vars
  BY <1>41 DEF vars
<1> HIDE DEF TypeOK, Opt
<1> QED
  BY <1>1, <1>2, <1>3, <1>4, <1>5, <1>6, <1>7, <1>8, <1>9, <1>10, <1>11, <1>12, <1>13, <1>14,
    <1>15, <1>16, <1>17, <1>18, <1>19, <1>20, <1>21, <1>22, <1>23, <1>24, <1>25, <1>26, <1>27,
    <1>28, <1>29, <1>30, <1>31, <1>32, <1>33, <1>34, <1>35, <1>36, <1>37, <1>38, <1>39, <1>40,
    <1>41 DEF Next

(* Passwords are new when they are drawn. *)
LEMMA FreshStep ==
  ASSUME TypeOK, TypeOK', Fresh, [Next]_vars PROVE Fresh'
<1> USE IdleTyped, PasswordsAssumption DEF TypeOK, Fresh, Request, Row, Seen, Persons, Secrets,
      NoRow, Stand, Move, Release, Leave, ghosts
<1>1. ASSUME NEW r \in Requests, NEW p \in Processes, BeginProvision(r, p) PROVE Fresh'
  BY <1>1 DEF BeginProvision
<1>2. ASSUME NEW r \in Requests, NEW p \in Processes, BeginVerify(r, p) PROVE Fresh'
  BY <1>2 DEF BeginVerify
<1>3. ASSUME NEW r \in Requests, NEW p \in Processes, NEW delete \in BOOLEAN, BeginClear(r, p, delete) PROVE Fresh'
  BY <1>3 DEF BeginClear
<1>4. ASSUME NEW r \in Requests, Busy(r) PROVE Fresh'
  BY <1>4 DEF Busy
<1>5. ASSUME NEW r \in Requests, Abort(r) PROVE Fresh'
  BY <1>5 DEF Abort
<1>6. ASSUME NEW r \in Requests, LockProvision(r) PROVE Fresh'
  BY <1>6 DEF LockProvision, Acquire
<1>7. ASSUME NEW r \in Requests, Preflight(r) PROVE Fresh'
  BY <1>7 DEF Preflight
<1>8. ASSUME NEW r \in Requests, Store(r) PROVE Fresh'
  BY <1>8 DEF Store, Stored
<1>9. ASSUME NEW r \in Requests, Engine(r) PROVE Fresh'
  BY <1>9 DEF Engine
<1>10. ASSUME NEW r \in Requests, LockVerify(r) PROVE Fresh'
  BY <1>10 DEF LockVerify, Acquire
<1>11. ASSUME NEW r \in Requests, Target(r) PROVE Fresh'
  BY <1>11 DEF Target
<1>12. ASSUME NEW r \in Requests, Record(r) PROVE Fresh'
  BY <1>12 DEF Record
<1>13. ASSUME NEW r \in Requests, NEW green \in BOOLEAN, Probe(r, green) PROVE Fresh'
  BY <1>13 DEF Probe
<1>14. ASSUME NEW r \in Requests, LockClear(r) PROVE Fresh'
  BY <1>14 DEF LockClear, Acquire
<1>15. ASSUME NEW r \in Requests, ReadCut(r) PROVE Fresh'
  BY <1>15 DEF ReadCut, Read, OptIn
<1>16. ASSUME NEW r \in Requests, Cut(r) PROVE Fresh'
  <2>1. /\ row'.there = row.there /\ row'.secret = row.secret
        /\ row'.green => row.green /\ row'.green \in BOOLEAN
    BY <1>16, FlushStep DEF Row
  <2>2. /\ Stand(r, [request[r] EXCEPT !.at = "drop", !.seen = Unread])
        /\ UNCHANGED <<managed, account, drawn, probed, overlapped, raced>>
    BY <1>16 DEF Cut
  <2> QED
    BY <2>1, <2>2
<1>17. ASSUME NEW r \in Requests, CutNothing(r) PROVE Fresh'
  BY <1>17 DEF CutNothing, After
<1>18. ASSUME NEW r \in Requests, Drop(r) PROVE Fresh'
  BY <1>18 DEF Drop
<1>19. ASSUME NEW r \in Requests, DropLost(r) PROVE Fresh'
  BY <1>19 DEF DropLost
<1>20. ASSUME NEW r \in Requests, Erase(r) PROVE Fresh'
  BY <1>20 DEF Erase, After
<1>21. ASSUME NEW r \in Requests, BeginDelete(r) PROVE Fresh'
  BY <1>21 DEF BeginDelete
<1>22. ASSUME NEW r \in Requests, Delete(r) PROVE Fresh'
  BY <1>22 DEF Delete
<1>23. ASSUME NEW r \in Requests, NEW who \in People, BeginAsk(r, who) PROVE Fresh'
  BY <1>23 DEF BeginAsk
<1>24. ASSUME NEW r \in Requests, NEW who \in People, BeginApprove(r, who) PROVE Fresh'
  BY <1>24 DEF BeginApprove
<1>25. ASSUME NEW r \in Requests, NEW p \in Processes, AgentGate(r, p) PROVE Fresh'
  BY <1>25 DEF AgentGate
<1>26. ASSUME NEW r \in Requests, DataTarget(r) PROVE Fresh'
  BY <1>26 DEF DataTarget, Open
<1>27. ASSUME NEW r \in Requests, Denied(r) PROVE Fresh'
  BY <1>27 DEF Denied
<1>28. ASSUME NEW r \in Requests, Select(r) PROVE Fresh'
  BY <1>28 DEF Select
<1>29. ASSUME NEW r \in Requests, AskChecked(r) PROVE Fresh'
  <2>1. /\ request' = [request EXCEPT ![r] = request'[r]]
        /\ request'[r].secret <= drawn /\ request'[r].at \in {"idle", "ask"}
        /\ UNCHANGED <<row, account, probed, drawn>>
    BY <1>29 DEF AskChecked
  <2> QED
    BY <2>1
<1>30. ASSUME NEW r \in Requests, ReadAsk(r) PROVE Fresh'
  BY <1>30 DEF ReadAsk, Read, OptIn
<1>31. ASSUME NEW r \in Requests, Ask(r) PROVE Fresh'
  <2>1. /\ row'.there = row.there /\ row'.secret = row.secret
        /\ row'.green => row.green /\ row'.green \in BOOLEAN
    BY <1>31, FlushStep DEF Row
  <2>2. /\ Stand(r, Idle)
        /\ UNCHANGED <<managed, account, drawn, probed, overlapped, raced>>
    BY <1>31 DEF Ask
  <2> QED
    BY <2>1, <2>2
<1>32. ASSUME NEW r \in Requests, ReadApprove(r) PROVE Fresh'
  BY <1>32 DEF ReadApprove, Read, OptIn
<1>33. ASSUME NEW r \in Requests, Approve(r) PROVE Fresh'
  <2>1. /\ row'.there = row.there /\ row'.secret = row.secret
        /\ row'.green => row.green /\ row'.green \in BOOLEAN
    BY <1>33, FlushStep DEF Row
  <2>2. /\ Stand(r, Idle)
        /\ UNCHANGED <<managed, account, drawn, probed, overlapped, raced>>
    BY <1>33 DEF Approve
  <2> QED
    BY <2>1, <2>2
<1>34. ASSUME NEW r \in Requests, Declined(r) PROVE Fresh'
  BY <1>34 DEF Declined
<1>35. ASSUME NEW r \in Requests, BeginRevoke(r) PROVE Fresh'
  BY <1>35 DEF BeginRevoke, OptIn
<1>36. ASSUME NEW r \in Requests, Revoke(r) PROVE Fresh'
  <2>1. /\ row'.there = row.there /\ row'.secret = row.secret
        /\ row'.green => row.green /\ row'.green \in BOOLEAN
    BY <1>36, FlushStep DEF Row
  <2>2. /\ Stand(r, Idle)
        /\ UNCHANGED <<managed, account, drawn, probed, overlapped, raced>>
    BY <1>36 DEF Revoke
  <2> QED
    BY <2>1, <2>2
<1>37. ASSUME NEW r \in Requests, Conflict(r) PROVE Fresh'
  BY <1>37 DEF Conflict
<1>38. ASSUME Age PROVE Fresh'
  BY <1>38 DEF Age
<1>39. ASSUME Reclassify PROVE Fresh'
  BY <1>39 DEF Reclassify
<1>40. ASSUME NEW p \in Processes, Crash(p) PROVE Fresh'
  BY <1>40 DEF Crash
<1>41. CASE UNCHANGED vars
  BY <1>41 DEF vars
<1> HIDE DEF TypeOK, Fresh
<1> QED
  BY <1>1, <1>2, <1>3, <1>4, <1>5, <1>6, <1>7, <1>8, <1>9, <1>10, <1>11, <1>12, <1>13, <1>14,
    <1>15, <1>16, <1>17, <1>18, <1>19, <1>20, <1>21, <1>22, <1>23, <1>24, <1>25, <1>26, <1>27,
    <1>28, <1>29, <1>30, <1>31, <1>32, <1>33, <1>34, <1>35, <1>36, <1>37, <1>38, <1>39, <1>40,
    <1>41 DEF Next

(* What the holder of the lock knows stays true. *)
LEMMA HeldStep ==
  ASSUME TypeOK, TypeOK', Exclusive, Fresh, Held, GreenIsProbed, [Next]_vars PROVE Held'
<1> USE IdleTyped, AloneInTheLock DEF TypeOK, Fresh, Held, Locked, Request, Row, Seen, Persons,
      Secrets, NoRow, Stand, Move, Release, Leave, ghosts
<1>1. ASSUME NEW r \in Requests, NEW p \in Processes, BeginProvision(r, p) PROVE Held'
  BY <1>1 DEF BeginProvision
<1>2. ASSUME NEW r \in Requests, NEW p \in Processes, BeginVerify(r, p) PROVE Held'
  BY <1>2 DEF BeginVerify
<1>3. ASSUME NEW r \in Requests, NEW p \in Processes, NEW delete \in BOOLEAN, BeginClear(r, p, delete) PROVE Held'
  BY <1>3 DEF BeginClear
<1>4. ASSUME NEW r \in Requests, Busy(r) PROVE Held'
  BY <1>4 DEF Busy
<1>5. ASSUME NEW r \in Requests, Abort(r) PROVE Held'
  BY <1>5 DEF Abort
<1>6. ASSUME NEW r \in Requests, LockProvision(r) PROVE Held'
  BY <1>6 DEF LockProvision, Acquire
<1>7. ASSUME NEW r \in Requests, Preflight(r) PROVE Held'
  BY <1>7 DEF Preflight
<1>8. ASSUME NEW r \in Requests, Store(r) PROVE Held'
  BY <1>8 DEF Store, Stored
<1>9. ASSUME NEW r \in Requests, Engine(r) PROVE Held'
  BY <1>9 DEF Engine
<1>10. ASSUME NEW r \in Requests, LockVerify(r) PROVE Held'
  BY <1>10 DEF LockVerify, Acquire
<1>11. ASSUME NEW r \in Requests, Target(r) PROVE Held'
  BY <1>11 DEF Target
<1>12. ASSUME NEW r \in Requests, Record(r) PROVE Held'
  BY <1>12 DEF Record
<1>13. ASSUME NEW r \in Requests, NEW green \in BOOLEAN, Probe(r, green) PROVE Held'
  BY <1>13 DEF Probe
<1>14. ASSUME NEW r \in Requests, LockClear(r) PROVE Held'
  BY <1>14 DEF LockClear, Acquire
<1>15. ASSUME NEW r \in Requests, ReadCut(r) PROVE Held'
  BY <1>15 DEF ReadCut, Read, OptIn
<1>16. ASSUME NEW r \in Requests, Cut(r) PROVE Held'
  <2>1. /\ row'.there = row.there /\ row'.secret = row.secret
        /\ row'.green => row.green /\ row'.green \in BOOLEAN
    BY <1>16, FlushStep DEF Row
  <2>2. /\ Stand(r, [request[r] EXCEPT !.at = "drop", !.seen = Unread])
        /\ UNCHANGED <<managed, account, drawn, probed, overlapped, raced>>
    BY <1>16 DEF Cut
  <2> QED
    BY <2>1, <2>2
<1>17. ASSUME NEW r \in Requests, CutNothing(r) PROVE Held'
  BY <1>17 DEF CutNothing, After
<1>18. ASSUME NEW r \in Requests, Drop(r) PROVE Held'
  BY <1>18 DEF Drop
<1>19. ASSUME NEW r \in Requests, DropLost(r) PROVE Held'
  BY <1>19 DEF DropLost
<1>20. ASSUME NEW r \in Requests, Erase(r) PROVE Held'
  BY <1>20 DEF Erase, After
<1>21. ASSUME NEW r \in Requests, BeginDelete(r) PROVE Held'
  BY <1>21 DEF BeginDelete
<1>22. ASSUME NEW r \in Requests, Delete(r) PROVE Held'
  BY <1>22 DEF Delete
<1>23. ASSUME NEW r \in Requests, NEW who \in People, BeginAsk(r, who) PROVE Held'
  BY <1>23 DEF BeginAsk
<1>24. ASSUME NEW r \in Requests, NEW who \in People, BeginApprove(r, who) PROVE Held'
  BY <1>24 DEF BeginApprove
<1>25. ASSUME NEW r \in Requests, NEW p \in Processes, AgentGate(r, p) PROVE Held'
  BY <1>25 DEF AgentGate
<1>26. ASSUME NEW r \in Requests, DataTarget(r) PROVE Held'
  BY <1>26 DEF DataTarget, Open
<1>27. ASSUME NEW r \in Requests, Denied(r) PROVE Held'
  BY <1>27 DEF Denied
<1>28. ASSUME NEW r \in Requests, Select(r) PROVE Held'
  BY <1>28 DEF Select
<1>29. ASSUME NEW r \in Requests, AskChecked(r) PROVE Held'
  BY <1>29 DEF AskChecked
<1>30. ASSUME NEW r \in Requests, ReadAsk(r) PROVE Held'
  BY <1>30 DEF ReadAsk, Read, OptIn
<1>31. ASSUME NEW r \in Requests, Ask(r) PROVE Held'
  <2>1. /\ row'.there = row.there /\ row'.secret = row.secret
        /\ row'.green => row.green /\ row'.green \in BOOLEAN
    BY <1>31, FlushStep DEF Row
  <2>2. /\ Stand(r, Idle)
        /\ UNCHANGED <<managed, account, drawn, probed, overlapped, raced>>
    BY <1>31 DEF Ask
  <2> QED
    BY <2>1, <2>2
<1>32. ASSUME NEW r \in Requests, ReadApprove(r) PROVE Held'
  BY <1>32 DEF ReadApprove, Read, OptIn
<1>33. ASSUME NEW r \in Requests, Approve(r) PROVE Held'
  <2>1. /\ row'.there = row.there /\ row'.secret = row.secret
        /\ row'.green => row.green /\ row'.green \in BOOLEAN
    BY <1>33, FlushStep DEF Row
  <2>2. /\ Stand(r, Idle)
        /\ UNCHANGED <<managed, account, drawn, probed, overlapped, raced>>
    BY <1>33 DEF Approve
  <2> QED
    BY <2>1, <2>2
<1>34. ASSUME NEW r \in Requests, Declined(r) PROVE Held'
  BY <1>34 DEF Declined
<1>35. ASSUME NEW r \in Requests, BeginRevoke(r) PROVE Held'
  BY <1>35 DEF BeginRevoke, OptIn
<1>36. ASSUME NEW r \in Requests, Revoke(r) PROVE Held'
  <2>1. /\ row'.there = row.there /\ row'.secret = row.secret
        /\ row'.green => row.green /\ row'.green \in BOOLEAN
    BY <1>36, FlushStep DEF Row
  <2>2. /\ Stand(r, Idle)
        /\ UNCHANGED <<managed, account, drawn, probed, overlapped, raced>>
    BY <1>36 DEF Revoke
  <2> QED
    BY <2>1, <2>2
<1>37. ASSUME NEW r \in Requests, Conflict(r) PROVE Held'
  BY <1>37 DEF Conflict
<1>38. ASSUME Age PROVE Held'
  BY <1>38 DEF Age
<1>39. ASSUME Reclassify PROVE Held'
  BY <1>39 DEF Reclassify
<1>40. ASSUME NEW p \in Processes, Crash(p) PROVE Held'
  BY <1>40 DEF Crash
<1>41. CASE UNCHANGED vars
  BY <1>41 DEF vars
<1> HIDE DEF TypeOK, Held
<1> QED
  BY <1>1, <1>2, <1>3, <1>4, <1>5, <1>6, <1>7, <1>8, <1>9, <1>10, <1>11, <1>12, <1>13, <1>14,
    <1>15, <1>16, <1>17, <1>18, <1>19, <1>20, <1>21, <1>22, <1>23, <1>24, <1>25, <1>26, <1>27,
    <1>28, <1>29, <1>30, <1>31, <1>32, <1>33, <1>34, <1>35, <1>36, <1>37, <1>38, <1>39, <1>40,
    <1>41 DEF Next

(* A password that an agent connects with was probed. *)
LEMMA GreenStep ==
  ASSUME TypeOK, TypeOK', Exclusive, Fresh, Held, GreenIsProbed, [Next]_vars PROVE GreenIsProbed'
<1> USE IdleTyped DEF TypeOK, Fresh, Held, GreenIsProbed, Request, Row, Seen, Persons, Secrets,
      NoRow, Stand, Move, Release, Leave, ghosts
<1>1. ASSUME NEW r \in Requests, NEW p \in Processes, BeginProvision(r, p) PROVE GreenIsProbed'
  BY <1>1 DEF BeginProvision
<1>2. ASSUME NEW r \in Requests, NEW p \in Processes, BeginVerify(r, p) PROVE GreenIsProbed'
  BY <1>2 DEF BeginVerify
<1>3. ASSUME NEW r \in Requests, NEW p \in Processes, NEW delete \in BOOLEAN, BeginClear(r, p, delete) PROVE GreenIsProbed'
  BY <1>3 DEF BeginClear
<1>4. ASSUME NEW r \in Requests, Busy(r) PROVE GreenIsProbed'
  BY <1>4 DEF Busy
<1>5. ASSUME NEW r \in Requests, Abort(r) PROVE GreenIsProbed'
  BY <1>5 DEF Abort
<1>6. ASSUME NEW r \in Requests, LockProvision(r) PROVE GreenIsProbed'
  BY <1>6 DEF LockProvision, Acquire
<1>7. ASSUME NEW r \in Requests, Preflight(r) PROVE GreenIsProbed'
  BY <1>7 DEF Preflight
<1>8. ASSUME NEW r \in Requests, Store(r) PROVE GreenIsProbed'
  BY <1>8 DEF Store, Stored
<1>9. ASSUME NEW r \in Requests, Engine(r) PROVE GreenIsProbed'
  BY <1>9 DEF Engine
<1>10. ASSUME NEW r \in Requests, LockVerify(r) PROVE GreenIsProbed'
  BY <1>10 DEF LockVerify, Acquire
<1>11. ASSUME NEW r \in Requests, Target(r) PROVE GreenIsProbed'
  BY <1>11 DEF Target
<1>12. ASSUME NEW r \in Requests, Record(r) PROVE GreenIsProbed'
  BY <1>12 DEF Record
<1>13. ASSUME NEW r \in Requests, NEW green \in BOOLEAN, Probe(r, green) PROVE GreenIsProbed'
  BY <1>13 DEF Probe
<1>14. ASSUME NEW r \in Requests, LockClear(r) PROVE GreenIsProbed'
  BY <1>14 DEF LockClear, Acquire
<1>15. ASSUME NEW r \in Requests, ReadCut(r) PROVE GreenIsProbed'
  BY <1>15 DEF ReadCut, Read, OptIn
<1>16. ASSUME NEW r \in Requests, Cut(r) PROVE GreenIsProbed'
  <2>1. /\ row'.there = row.there /\ row'.secret = row.secret
        /\ row'.green => row.green /\ row'.green \in BOOLEAN
    BY <1>16, FlushStep DEF Row
  <2>2. /\ Stand(r, [request[r] EXCEPT !.at = "drop", !.seen = Unread])
        /\ UNCHANGED <<managed, account, drawn, probed, overlapped, raced>>
    BY <1>16 DEF Cut
  <2> QED
    BY <2>1, <2>2
<1>17. ASSUME NEW r \in Requests, CutNothing(r) PROVE GreenIsProbed'
  BY <1>17 DEF CutNothing, After
<1>18. ASSUME NEW r \in Requests, Drop(r) PROVE GreenIsProbed'
  BY <1>18 DEF Drop
<1>19. ASSUME NEW r \in Requests, DropLost(r) PROVE GreenIsProbed'
  BY <1>19 DEF DropLost
<1>20. ASSUME NEW r \in Requests, Erase(r) PROVE GreenIsProbed'
  BY <1>20 DEF Erase, After
<1>21. ASSUME NEW r \in Requests, BeginDelete(r) PROVE GreenIsProbed'
  BY <1>21 DEF BeginDelete
<1>22. ASSUME NEW r \in Requests, Delete(r) PROVE GreenIsProbed'
  BY <1>22 DEF Delete
<1>23. ASSUME NEW r \in Requests, NEW who \in People, BeginAsk(r, who) PROVE GreenIsProbed'
  BY <1>23 DEF BeginAsk
<1>24. ASSUME NEW r \in Requests, NEW who \in People, BeginApprove(r, who) PROVE GreenIsProbed'
  BY <1>24 DEF BeginApprove
<1>25. ASSUME NEW r \in Requests, NEW p \in Processes, AgentGate(r, p) PROVE GreenIsProbed'
  BY <1>25 DEF AgentGate
<1>26. ASSUME NEW r \in Requests, DataTarget(r) PROVE GreenIsProbed'
  BY <1>26 DEF DataTarget, Open
<1>27. ASSUME NEW r \in Requests, Denied(r) PROVE GreenIsProbed'
  BY <1>27 DEF Denied
<1>28. ASSUME NEW r \in Requests, Select(r) PROVE GreenIsProbed'
  BY <1>28 DEF Select
<1>29. ASSUME NEW r \in Requests, AskChecked(r) PROVE GreenIsProbed'
  BY <1>29 DEF AskChecked
<1>30. ASSUME NEW r \in Requests, ReadAsk(r) PROVE GreenIsProbed'
  BY <1>30 DEF ReadAsk, Read, OptIn
<1>31. ASSUME NEW r \in Requests, Ask(r) PROVE GreenIsProbed'
  <2>1. /\ row'.there = row.there /\ row'.secret = row.secret
        /\ row'.green => row.green /\ row'.green \in BOOLEAN
    BY <1>31, FlushStep DEF Row
  <2>2. /\ Stand(r, Idle)
        /\ UNCHANGED <<managed, account, drawn, probed, overlapped, raced>>
    BY <1>31 DEF Ask
  <2> QED
    BY <2>1, <2>2
<1>32. ASSUME NEW r \in Requests, ReadApprove(r) PROVE GreenIsProbed'
  BY <1>32 DEF ReadApprove, Read, OptIn
<1>33. ASSUME NEW r \in Requests, Approve(r) PROVE GreenIsProbed'
  <2>1. /\ row'.there = row.there /\ row'.secret = row.secret
        /\ row'.green => row.green /\ row'.green \in BOOLEAN
    BY <1>33, FlushStep DEF Row
  <2>2. /\ Stand(r, Idle)
        /\ UNCHANGED <<managed, account, drawn, probed, overlapped, raced>>
    BY <1>33 DEF Approve
  <2> QED
    BY <2>1, <2>2
<1>34. ASSUME NEW r \in Requests, Declined(r) PROVE GreenIsProbed'
  BY <1>34 DEF Declined
<1>35. ASSUME NEW r \in Requests, BeginRevoke(r) PROVE GreenIsProbed'
  BY <1>35 DEF BeginRevoke, OptIn
<1>36. ASSUME NEW r \in Requests, Revoke(r) PROVE GreenIsProbed'
  <2>1. /\ row'.there = row.there /\ row'.secret = row.secret
        /\ row'.green => row.green /\ row'.green \in BOOLEAN
    BY <1>36, FlushStep DEF Row
  <2>2. /\ Stand(r, Idle)
        /\ UNCHANGED <<managed, account, drawn, probed, overlapped, raced>>
    BY <1>36 DEF Revoke
  <2> QED
    BY <2>1, <2>2
<1>37. ASSUME NEW r \in Requests, Conflict(r) PROVE GreenIsProbed'
  BY <1>37 DEF Conflict
<1>38. ASSUME Age PROVE GreenIsProbed'
  BY <1>38 DEF Age
<1>39. ASSUME Reclassify PROVE GreenIsProbed'
  BY <1>39 DEF Reclassify
<1>40. ASSUME NEW p \in Processes, Crash(p) PROVE GreenIsProbed'
  BY <1>40 DEF Crash
<1>41. CASE UNCHANGED vars
  BY <1>41 DEF vars
<1> HIDE DEF TypeOK, GreenIsProbed
<1> QED
  BY <1>1, <1>2, <1>3, <1>4, <1>5, <1>6, <1>7, <1>8, <1>9, <1>10, <1>11, <1>12, <1>13, <1>14,
    <1>15, <1>16, <1>17, <1>18, <1>19, <1>20, <1>21, <1>22, <1>23, <1>24, <1>25, <1>26, <1>27,
    <1>28, <1>29, <1>30, <1>31, <1>32, <1>33, <1>34, <1>35, <1>36, <1>37, <1>38, <1>39, <1>40,
    <1>41 DEF Next

(* The row is written before the account and removed after it. *)
LEMMA OrphanStep ==
  ASSUME TypeOK, TypeOK', Exclusive, Fresh, Held, NoOrphanAccount, [Next]_vars PROVE NoOrphanAccount'
<1> USE IdleTyped DEF TypeOK, Held, NoOrphanAccount, Request, Row, Seen, Persons, NoRow, Stand,
      Move, Release, Leave, ghosts
<1>1. ASSUME NEW r \in Requests, NEW p \in Processes, BeginProvision(r, p) PROVE NoOrphanAccount'
  BY <1>1 DEF BeginProvision
<1>2. ASSUME NEW r \in Requests, NEW p \in Processes, BeginVerify(r, p) PROVE NoOrphanAccount'
  BY <1>2 DEF BeginVerify
<1>3. ASSUME NEW r \in Requests, NEW p \in Processes, NEW delete \in BOOLEAN, BeginClear(r, p, delete) PROVE NoOrphanAccount'
  BY <1>3 DEF BeginClear
<1>4. ASSUME NEW r \in Requests, Busy(r) PROVE NoOrphanAccount'
  BY <1>4 DEF Busy
<1>5. ASSUME NEW r \in Requests, Abort(r) PROVE NoOrphanAccount'
  BY <1>5 DEF Abort
<1>6. ASSUME NEW r \in Requests, LockProvision(r) PROVE NoOrphanAccount'
  BY <1>6 DEF LockProvision, Acquire
<1>7. ASSUME NEW r \in Requests, Preflight(r) PROVE NoOrphanAccount'
  BY <1>7 DEF Preflight
<1>8. ASSUME NEW r \in Requests, Store(r) PROVE NoOrphanAccount'
  BY <1>8 DEF Store, Stored
<1>9. ASSUME NEW r \in Requests, Engine(r) PROVE NoOrphanAccount'
  BY <1>9 DEF Engine
<1>10. ASSUME NEW r \in Requests, LockVerify(r) PROVE NoOrphanAccount'
  BY <1>10 DEF LockVerify, Acquire
<1>11. ASSUME NEW r \in Requests, Target(r) PROVE NoOrphanAccount'
  BY <1>11 DEF Target
<1>12. ASSUME NEW r \in Requests, Record(r) PROVE NoOrphanAccount'
  BY <1>12 DEF Record
<1>13. ASSUME NEW r \in Requests, NEW green \in BOOLEAN, Probe(r, green) PROVE NoOrphanAccount'
  BY <1>13 DEF Probe
<1>14. ASSUME NEW r \in Requests, LockClear(r) PROVE NoOrphanAccount'
  BY <1>14 DEF LockClear, Acquire
<1>15. ASSUME NEW r \in Requests, ReadCut(r) PROVE NoOrphanAccount'
  BY <1>15 DEF ReadCut, Read, OptIn
<1>16. ASSUME NEW r \in Requests, Cut(r) PROVE NoOrphanAccount'
  <2>1. /\ row'.there = row.there /\ row'.secret = row.secret
        /\ row'.green => row.green /\ row'.green \in BOOLEAN
    BY <1>16, FlushStep DEF Row
  <2>2. /\ Stand(r, [request[r] EXCEPT !.at = "drop", !.seen = Unread])
        /\ UNCHANGED <<managed, account, drawn, probed, overlapped, raced>>
    BY <1>16 DEF Cut
  <2> QED
    BY <2>1, <2>2
<1>17. ASSUME NEW r \in Requests, CutNothing(r) PROVE NoOrphanAccount'
  BY <1>17 DEF CutNothing, After
<1>18. ASSUME NEW r \in Requests, Drop(r) PROVE NoOrphanAccount'
  BY <1>18 DEF Drop
<1>19. ASSUME NEW r \in Requests, DropLost(r) PROVE NoOrphanAccount'
  BY <1>19 DEF DropLost
<1>20. ASSUME NEW r \in Requests, Erase(r) PROVE NoOrphanAccount'
  BY <1>20 DEF Erase, After
<1>21. ASSUME NEW r \in Requests, BeginDelete(r) PROVE NoOrphanAccount'
  BY <1>21 DEF BeginDelete
<1>22. ASSUME NEW r \in Requests, Delete(r) PROVE NoOrphanAccount'
  BY <1>22 DEF Delete
<1>23. ASSUME NEW r \in Requests, NEW who \in People, BeginAsk(r, who) PROVE NoOrphanAccount'
  BY <1>23 DEF BeginAsk
<1>24. ASSUME NEW r \in Requests, NEW who \in People, BeginApprove(r, who) PROVE NoOrphanAccount'
  BY <1>24 DEF BeginApprove
<1>25. ASSUME NEW r \in Requests, NEW p \in Processes, AgentGate(r, p) PROVE NoOrphanAccount'
  BY <1>25 DEF AgentGate
<1>26. ASSUME NEW r \in Requests, DataTarget(r) PROVE NoOrphanAccount'
  BY <1>26 DEF DataTarget, Open
<1>27. ASSUME NEW r \in Requests, Denied(r) PROVE NoOrphanAccount'
  BY <1>27 DEF Denied
<1>28. ASSUME NEW r \in Requests, Select(r) PROVE NoOrphanAccount'
  BY <1>28 DEF Select
<1>29. ASSUME NEW r \in Requests, AskChecked(r) PROVE NoOrphanAccount'
  BY <1>29 DEF AskChecked
<1>30. ASSUME NEW r \in Requests, ReadAsk(r) PROVE NoOrphanAccount'
  BY <1>30 DEF ReadAsk, Read, OptIn
<1>31. ASSUME NEW r \in Requests, Ask(r) PROVE NoOrphanAccount'
  <2>1. /\ row'.there = row.there /\ row'.secret = row.secret
        /\ row'.green => row.green /\ row'.green \in BOOLEAN
    BY <1>31, FlushStep DEF Row
  <2>2. /\ Stand(r, Idle)
        /\ UNCHANGED <<managed, account, drawn, probed, overlapped, raced>>
    BY <1>31 DEF Ask
  <2> QED
    BY <2>1, <2>2
<1>32. ASSUME NEW r \in Requests, ReadApprove(r) PROVE NoOrphanAccount'
  BY <1>32 DEF ReadApprove, Read, OptIn
<1>33. ASSUME NEW r \in Requests, Approve(r) PROVE NoOrphanAccount'
  <2>1. /\ row'.there = row.there /\ row'.secret = row.secret
        /\ row'.green => row.green /\ row'.green \in BOOLEAN
    BY <1>33, FlushStep DEF Row
  <2>2. /\ Stand(r, Idle)
        /\ UNCHANGED <<managed, account, drawn, probed, overlapped, raced>>
    BY <1>33 DEF Approve
  <2> QED
    BY <2>1, <2>2
<1>34. ASSUME NEW r \in Requests, Declined(r) PROVE NoOrphanAccount'
  BY <1>34 DEF Declined
<1>35. ASSUME NEW r \in Requests, BeginRevoke(r) PROVE NoOrphanAccount'
  BY <1>35 DEF BeginRevoke, OptIn
<1>36. ASSUME NEW r \in Requests, Revoke(r) PROVE NoOrphanAccount'
  <2>1. /\ row'.there = row.there /\ row'.secret = row.secret
        /\ row'.green => row.green /\ row'.green \in BOOLEAN
    BY <1>36, FlushStep DEF Row
  <2>2. /\ Stand(r, Idle)
        /\ UNCHANGED <<managed, account, drawn, probed, overlapped, raced>>
    BY <1>36 DEF Revoke
  <2> QED
    BY <2>1, <2>2
<1>37. ASSUME NEW r \in Requests, Conflict(r) PROVE NoOrphanAccount'
  BY <1>37 DEF Conflict
<1>38. ASSUME Age PROVE NoOrphanAccount'
  BY <1>38 DEF Age
<1>39. ASSUME Reclassify PROVE NoOrphanAccount'
  BY <1>39 DEF Reclassify
<1>40. ASSUME NEW p \in Processes, Crash(p) PROVE NoOrphanAccount'
  BY <1>40 DEF Crash
<1>41. CASE UNCHANGED vars
  BY <1>41 DEF vars
<1> HIDE DEF TypeOK, NoOrphanAccount
<1> QED
  BY <1>1, <1>2, <1>3, <1>4, <1>5, <1>6, <1>7, <1>8, <1>9, <1>10, <1>11, <1>12, <1>13, <1>14,
    <1>15, <1>16, <1>17, <1>18, <1>19, <1>20, <1>21, <1>22, <1>23, <1>24, <1>25, <1>26, <1>27,
    <1>28, <1>29, <1>30, <1>31, <1>32, <1>33, <1>34, <1>35, <1>36, <1>37, <1>38, <1>39, <1>40,
    <1>41 DEF Next

LEMMA NextInv == Inv /\ [Next]_vars => Inv'
  BY TypeStep, ExclusiveStep, OptStep, FreshStep, HeldStep, GreenStep, OrphanStep DEF Inv, Secure

-----------------------------------------------------------------------------
LEMMA InvHolds == Spec => []Inv
  BY InitInv, NextInv, PTL DEF Spec

\* Every variable keeps its type.
THEOREM TypeCorrect == Spec => []TypeOK
  BY InvHolds, PTL DEF Inv

\* Open data was asked for since the last revocation and, where the environment
\* asked for a second owner, approved by another person: whatever the order of
\* the reads and the flushes of requests, approvals, revocations and clears, on
\* a database that refuses to flush over what another transaction changed.
THEOREM SecondOwner == ASSUME SnapshotIsolation PROVE Spec => []OpenedByTwo
<1>1. Inv => OpenedByTwo
  BY DEF Inv, Opt
<1> QED
  BY InvHolds, <1>1, PTL

\* The password an agent's read connects with was observed by the last green
\* probe, unless two processes held the lock at once.
THEOREM ProbedSecret == Spec => []GreenIsProbed
<1>1. Inv => GreenIsProbed
  BY DEF Inv, Secure
<1> QED
  BY InvHolds, <1>1, PTL

\* No account is left in the engine without the row that can revoke it, unless
\* two processes overlapped or a deletion raced a provisioning.
THEOREM AccountHasRow == Spec => []NoOrphanAccount
<1>1. Inv => NoOrphanAccount
  BY DEF Inv, Secure
<1> QED
  BY InvHolds, <1>1, PTL
=============================================================================
