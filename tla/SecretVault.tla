------------------------------- MODULE SecretVault -------------------------------
(***************************************************************************)
(* Secrets in a database, and the rotation of the master key:              *)
(* PostgresEnvelopeSecretStore with a connection pool, and its             *)
(* EnvelopeEncryptionEngine                                                *)
(* (packages/aegismind-infra/src/aegismind_infra/secrets).                 *)
(*                                                                         *)
(* A coroutine suspends at each statement.  A value is encrypted with a    *)
(* data key of its own, and the data key with the active master key.       *)
(* Ciphers are modelled by what opens them: a row can be read if its data  *)
(* key is the one its value was encrypted with, and the master key it      *)
(* names is the one that its data key was encrypted with and is known.     *)
(* Master keys are numbered in the order in which they become active.      *)
(***************************************************************************)
EXTENDS Values, FiniteSets

CONSTANTS
  SecretNames, SecretTenants,
  Setters, Rotators,    \* calls of set_secret and rotate_all_secrets in progress
  MaxSets, MaxKeys, MaxRotations

VARIABLES
  secretRows,           \* the table
  masterKeys, activeKey,
  setting,              \* per call of set_secret, the row that it is going to write or None
  rotating,             \* per rotation in progress, what it has still to do or None
  mixed,                \* history: the values whose row a rotation has updated from an older one
  lastSet,              \* history: per name and tenant, the number of the value last stored
  sets, rotations

secretVars == <<secretRows, masterKeys, activeKey, setting, rotating, mixed, lastSet, sets,
                rotations>>

Owners == SecretNames \X (SecretTenants \cup {None})

\* A row: whose it is, the number of its value, the data keys that the value was encrypted
\* with and that is stored, the master key it names and the one its data key is wrapped by.
SecretRow ==
  [owner : Owners, value : Nat, valueKey : Nat, dataKey : Nat, keyId : Nat, wrappedBy : Nat]

\* A rotation in progress: the rows still to do and the one about to be updated.
Rotation == [rows : SUBSET SecretRow, next : SecretRow \cup {None}, known : SUBSET Nat, since : Nat]

ASSUME SecretAssumption ==
  /\ MaxSets \in Nat /\ MaxKeys \in Nat \ {0} /\ MaxRotations \in Nat
  /\ None \notin SecretTenants /\ None \notin SecretRow /\ None \notin Rotation

SecretInit ==
  /\ secretRows = {}
  /\ masterKeys = {1} /\ activeKey = 1
  /\ setting = [s \in Setters |-> None]
  /\ rotating = [r \in Rotators |-> None]
  /\ mixed = {} /\ lastSet = [o \in Owners |-> 0]
  /\ sets = 0 /\ rotations = 0

------------------------------------------------------------------------------

\* Mutant of rotate_key: the old key is replaced.
rotate_key_Replaces ==
  /\ activeKey < MaxKeys
  /\ activeKey' = activeKey + 1
  /\ masterKeys' = {activeKey + 1}
  /\ UNCHANGED <<secretRows, setting, rotating, mixed, lastSet, sets, rotations>>

rotate_key ==
  /\ activeKey < MaxKeys
  /\ activeKey' = activeKey + 1
  /\ masterKeys' = masterKeys \cup {activeKey + 1}
  /\ UNCHANGED <<secretRows, setting, rotating, mixed, lastSet, sets, rotations>>

\* encrypt: the value and its data key have the number of the call.
Envelope(owner, no) ==
  [owner |-> owner, value |-> no, valueKey |-> no, dataKey |-> no,
   keyId |-> activeKey, wrappedBy |-> activeKey]

set_secret(s, owner) ==
  /\ setting[s] = None /\ sets < MaxSets
  /\ sets' = sets + 1
  /\ setting' = [setting EXCEPT ![s] = Envelope(owner, sets')]
  /\ UNCHANGED <<secretRows, masterKeys, activeKey, rotating, mixed, lastSet, rotations>>

\* ON CONFLICT (key, tenant_id): rows without a tenant never conflict.
Replaced(owner) == IF owner[2] = None THEN {} ELSE {row \in secretRows : row.owner = owner}

Insert(s) ==
  /\ setting[s] # None
  /\ LET new == setting[s] IN
     /\ secretRows' = (secretRows \ Replaced(new.owner)) \cup {new}
     /\ lastSet' = [lastSet EXCEPT ![new.owner] = new.value]
  /\ setting' = [setting EXCEPT ![s] = None]
  /\ UNCHANGED <<masterKeys, activeKey, rotating, mixed, sets, rotations>>

delete_secret(owner) ==
  /\ lastSet[owner] # 0
  /\ secretRows' = {row \in secretRows : row.owner # owner}
  /\ lastSet' = [lastSet EXCEPT ![owner] = 0]
  /\ UNCHANGED <<masterKeys, activeKey, setting, rotating, mixed, sets, rotations>>

Outdated == {row \in secretRows : row.keyId # activeKey}

\* known and since are history: what there was, and the oldest of the keys that were
\* active when this rotation and those still under way began.
rotate_all_secrets(r) ==
  LET begun == {activeKey} \cup {rotating[q].since : q \in {p \in Rotators : rotating[p] # None}} IN
  /\ rotating[r] = None /\ rotations < MaxRotations
  /\ rotations' = rotations + 1
  /\ rotating' = [rotating EXCEPT ![r] =
       [rows |-> Outdated, next |-> None, known |-> {row.value : row \in secretRows},
        since |-> CHOOSE k \in begun : \A j \in begun : k <= j]]
  /\ UNCHANGED <<secretRows, masterKeys, activeKey, setting, mixed, lastSet, sets>>

\* rewrap_dek of the next row, whose key must be known; the UPDATE follows.
Rewrap(r) ==
  /\ rotating[r] # None /\ rotating[r].next = None
  /\ \E row \in rotating[r].rows :
       /\ row.wrappedBy = row.keyId /\ row.keyId \in masterKeys
       /\ rotating' = [rotating EXCEPT ![r].rows = @ \ {row},
                                       ![r].next = [row EXCEPT !.keyId = activeKey,
                                                               !.wrappedBy = activeKey]]
  /\ UNCHANGED <<secretRows, masterKeys, activeKey, setting, mixed, lastSet, sets, rotations>>

\* What the UPDATE makes of a row: the ciphertext and its nonce are not among its columns.
Updated(row, new) ==
  [row EXCEPT !.dataKey = new.dataKey, !.keyId = new.keyId, !.wrappedBy = new.wrappedBy]

\* key = $4 AND tenant_id = $5, which no row without a tenant meets.
Update(r) ==
  /\ rotating[r] # None /\ rotating[r].next # None
  /\ LET new == rotating[r].next
         hit == {row \in secretRows : row.owner = new.owner /\ row.owner[2] # None} IN
     /\ secretRows' = (secretRows \ hit) \cup {Updated(row, new) : row \in hit}
     /\ mixed' = mixed \cup {row.value : row \in {h \in hit : h.value # new.value}}
  /\ rotating' = [rotating EXCEPT ![r].next = None]
  /\ UNCHANGED <<masterKeys, activeKey, setting, lastSet, sets, rotations>>

\* All rows are done, or the next one cannot be opened and the call raises.
RotationEnds(r) ==
  /\ rotating[r] # None /\ rotating[r].next = None
  /\ \/ rotating[r].rows = {}
     \/ \E row \in rotating[r].rows : row.wrappedBy # row.keyId \/ row.keyId \notin masterKeys
  /\ rotating' = [rotating EXCEPT ![r] = None]
  /\ UNCHANGED <<secretRows, masterKeys, activeKey, setting, mixed, lastSet, sets, rotations>>

SecretNext ==
  \/ rotate_key
  \/ \E o \in Owners : delete_secret(o) \/ \E s \in Setters : set_secret(s, o)
  \/ \E s \in Setters : Insert(s)
  \/ \E r \in Rotators : rotate_all_secrets(r) \/ Rewrap(r) \/ Update(r) \/ RotationEnds(r)

SecretSpec == SecretInit /\ [][SecretNext]_secretVars

------------------------------------------------------------------------------
(* Properties. *)

SecretTypeOK ==
  /\ masterKeys \subseteq 1..MaxKeys /\ activeKey \in masterKeys
  /\ \A row \in secretRows : row.owner \in Owners /\ row.value \in 1..sets
  /\ \A o \in Owners : o[2] # None =>
       Cardinality({row \in secretRows : row.owner = o}) = (IF lastSet[o] = 0 THEN 0 ELSE 1)

\* decrypt succeeds.
Opens(row) ==
  row.keyId \in masterKeys /\ row.wrappedBy = row.keyId /\ row.dataKey = row.valueKey

\* However often the master key and the secrets are changed, a stored secret can be
\* opened; only a secret that was written while a rotation was between reading and
\* updating its row may be lost (see the README).
SecretsOpen == \A row \in secretRows : row.value \notin mixed => Opens(row)

\* A rotation never brings back an older value: a secret of a tenant has the value last
\* stored.
SecretIsLast ==
  \A row \in secretRows : row.owner[2] # None => row.value = lastSet[row.owner]

\* When a rotation has gone through its rows, no secret of a tenant that it found and
\* nobody has changed since is left under a key older than the one active when it began,
\* or when the first of the rotations that overlap with it began (a slow rotation may
\* write an older key over a newer one).
RotationReachesAll ==
  \A r \in Rotators : rotating[r] # None /\ rotating'[r] = None /\ rotating[r].rows = {} =>
    \A row \in secretRows :
      row.owner[2] # None /\ row.value \in rotating[r].known
        => row.keyId >= rotating[r].since

\* Overlapping rotations and changes lose no secret and bring no older value back.
SecretsSound == SecretsOpen /\ SecretIsLast
==================================================================================
