------------------------ MODULE MCCollationConversion ------------------------
(* A small schema: three tables in the plan's order, up to three keys, one  *)
(* of them from a table to itself, and an object.                           *)
EXTENDS CollationConversion

CONSTANTS users, orders, tags, view

MCOrder == <<users, orders, tags>>
MCKeys == {<<orders, users>>, <<tags, users>>, <<orders, orders>>}

Of(engine, alters, skip, K, m) ==
  [engine |-> engine, default |-> alters, skip |-> skip, keys |-> K, managed |-> m,
   objects |-> {}, granted |-> {}]
With(p, granted) ==
  [p EXCEPT !.objects = {view}, !.granted = IF granted THEN {view} ELSE {}]
\* every schema of keys, and each way to leave a table of a component out
MCPlans ==
  {Of("mariadb", d, skip, K, TRUE) : d \in {FALSE}, skip \in {{}, {users}}, K \in SUBSET MCKeys}
  \cup {With(Of("mariadb", TRUE, {orders}, {<<orders, users>>, <<tags, users>>}, TRUE), g) : g \in BOOLEAN}
  \cup {With(Of("mysql", TRUE, {tags}, MCKeys, m), TRUE) : m \in BOOLEAN}
  \cup {Of("postgresql", FALSE, {users}, MCKeys, TRUE)}
=============================================================================
