--------------------------- MODULE CredentialKeys ---------------------------
(***************************************************************************)
(* The data key that encrypts the stored credentials: core/crypto.py, its  *)
(* rotation in services/crypto_rotation.py and the handlers that encrypt   *)
(* and decrypt.                                                            *)
(*                                                                         *)
(* Keys are numbered in the order of their rows.  A process caches the     *)
(* active key and the HistorySize keys before it, and keeps them until     *)
(* it rotates by itself.                                                   *)
(***************************************************************************)
EXTENDS Naturals, FiniteSets

CONSTANTS
  Credentials,   \* rows that hold a ciphertext
  Rotated,       \* those of servers and server_users, which the rotation reads
  Processes, Requests,
  HistorySize,   \* _DEK_HISTORY_SIZE
  MaxKeys,       \* bound: rotations
  MaxPasswords   \* bound: passwords

VARIABLES
  active,   \* crypto_keys: the active row, the number of the last key
  stored,   \* ciphertexts: the key and the password they hold, password 0 when there is none
  cache,    \* memory: _dek_cache, the active key when it was loaded, 0 before
  request,
  drawn     \* passwords drawn so far

vars == <<active, stored, cache, request, drawn>>

Idle == [at |-> "idle", process |-> CHOOSE p \in Processes : TRUE,
         on |-> CHOOSE c \in Credentials : TRUE, key |-> 0, password |-> 0, rows |-> <<>>]

\* bootstrap_dek has made the first key
Init ==
  /\ active = 1 /\ drawn = 0
  /\ stored = [c \in Credentials |-> [key |-> 1, password |-> 0]]
  /\ cache = [p \in Processes |-> 0] /\ request = [r \in Requests |-> Idle]

\* _active_dek: the cached keys, or the active one and the last inactive ones
Loaded(p) == IF cache[p] = 0 THEN active ELSE cache[p]
Opens(loaded, key) == key <= loaded /\ key + HistorySize >= loaded
Readable(p, c) == stored[c].password # 0 => Opens(Loaded(p), stored[c].key)

Stand(r, place) == request' = [request EXCEPT ![r] = place]
Load(p) == cache' = [cache EXCEPT ![p] = Loaded(p)]

\* a handler encrypts with the process's key and writes the row later
Encrypt(r, p, c) ==
  /\ request[r] = Idle /\ drawn < MaxPasswords /\ drawn' = drawn + 1
  /\ Load(p)
  /\ Stand(r, [Idle EXCEPT !.at = "write", !.process = p, !.on = c, !.key = Loaded(p), !.password = drawn'])
  /\ UNCHANGED <<active, stored>>
Write(r) ==
  /\ request[r].at = "write"
  /\ stored' = [stored EXCEPT ![request[r].on] = [key |-> request[r].key, password |-> request[r].password]]
  /\ Stand(r, Idle)
  /\ UNCHANGED <<active, cache, drawn>>
Decrypt(p) == Load(p) /\ UNCHANGED <<active, stored, request, drawn>>

\* rotate_data_key: the rows are read and decrypted with the process's keys, the
\* new ciphertexts and the new key are committed together; a row that cannot be
\* decrypted undoes everything
BeginRotate(r, p) ==
  /\ request[r] = Idle /\ active < MaxKeys
  /\ \A c \in Rotated : Readable(p, c)
  /\ Load(p)
  /\ Stand(r, [Idle EXCEPT !.at = "rotate", !.process = p,
                 !.rows = [c \in {d \in Rotated : stored[d].password # 0} |-> stored[c].password]])
  /\ UNCHANGED <<active, stored, drawn>>
CommitRotate(r) ==
  /\ request[r].at = "rotate" /\ active < MaxKeys
  /\ active' = active + 1
  /\ stored' = [c \in Credentials |->
       IF c \in DOMAIN request[r].rows THEN [key |-> active', password |-> request[r].rows[c]] ELSE stored[c]]
  /\ cache' = [cache EXCEPT ![request[r].process] = 0]
  /\ Stand(r, Idle)
  /\ UNCHANGED drawn
RotateFails(r) ==
  /\ request[r].at = "rotate" /\ Stand(r, Idle)
  /\ UNCHANGED <<active, stored, cache, drawn>>
Restart(p) ==
  /\ cache' = [cache EXCEPT ![p] = 0]
  /\ request' = [r \in Requests |-> IF request[r].process = p THEN Idle ELSE request[r]]
  /\ UNCHANGED <<active, stored, drawn>>

Next ==
  \/ \E r \in Requests :
       \/ \E p \in Processes : BeginRotate(r, p) \/ \E c \in Credentials : Encrypt(r, p, c)
       \/ Write(r) \/ CommitRotate(r) \/ RotateFails(r)
  \/ \E p \in Processes : Decrypt(p) \/ Restart(p)
Spec == Init /\ [][Next]_vars

-----------------------------------------------------------------------------
TypeOK ==
  /\ active \in 1..MaxKeys /\ drawn \in 0..MaxPasswords
  /\ stored \in [Credentials -> [key : 1..MaxKeys, password : 0..MaxPasswords]]
  /\ cache \in [Processes -> 0..MaxKeys]

\* routes/v1/crypto.py: the rotation "re-cifra TODAS las credenciales": whatever
\* was stored stays readable.  The data credentials of the managed databases
\* are not among the rows it reads: the key they hold leaves the history.
EveryCredentialReadable == \A p \in Processes, c \in Credentials : Readable(p, c)
=============================================================================
