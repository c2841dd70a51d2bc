------------------------------- MODULE AuditLog -------------------------------
(***************************************************************************)
(* The SHA-256 hash-chained audit log of the long-term memory store        *)
(* (packages/aegismind-core/src/aegismind_core/memory/audit.py).           *)
(*                                                                         *)
(* AuditLog.append reads the newest row with one statement and inserts the *)
(* next one with another.  Python's sqlite3 opens a transaction only at    *)
(* the INSERT, so the two are separate transactions of one worker thread,  *)
(* and the appends of several threads interleave between them.  The table  *)
(* memory_events is a function from its INTEGER PRIMARY KEY to its rows.   *)
(* Its two triggers forbid UPDATE and DELETE; only the restore of a backup *)
(* replaces the file as a whole.                                           *)
(***************************************************************************)
EXTENDS Integers, FiniteSets

CONSTANTS
  Threads,      \* threads of the asyncio.to_thread pool, and the event loop
  Entries,      \* the (event, memory_id, actor, payload) an append records
  MaxSeq        \* bound: no append starts once the newest row has this seq

ASSUME MaxSeqAssumption == MaxSeq \in Nat

VARIABLES
  log,          \* the table memory_events: seq |-> row
  tail,         \* per thread, the newest row its append has read, or NoTail
  image         \* {} until a backup is taken, then the table in the file

auditVars == <<log, tail, image>>

\* Mutant of Digest: the payload is left out of the hash.
Digest_NoEntry(seq, entry, prev) == <<seq, prev>>

(***************************************************************************)
(* SHA-256 over the canonical JSON of a row is taken to be injective: a    *)
(* digest is the tuple of the fields it is computed from.                  *)
(***************************************************************************)
Digest(seq, entry, prev) == <<seq, entry, prev>>

Genesis   == <<>>
NoTail    == [seq |-> -1, hash |-> Genesis]
EmptyTail == [seq |-> 0,  hash |-> Genesis]

Newest(table) ==
  CHOOSE s \in DOMAIN table : \A r \in DOMAIN table : r <= s

\* Mutant of LastRow: the seq is incremented twice.
LastRow_Twice(table) ==
  IF DOMAIN table = {} THEN EmptyTail
  ELSE [seq |-> Newest(table) + 1, hash |-> table[Newest(table)].hash]

\* SELECT seq, hash FROM memory_events ORDER BY seq DESC LIMIT 1
LastRow(table) ==
  IF DOMAIN table = {} THEN EmptyTail
  ELSE [seq |-> Newest(table), hash |-> table[Newest(table)].hash]

Row(t, entry) ==
  [entry |-> entry, prev |-> tail[t].hash,
   hash  |-> Digest(tail[t].seq + 1, entry, tail[t].hash)]

Appending(t) == tail[t] # NoTail

Inserted(table, s, row) ==
  [r \in DOMAIN table \cup {s} |-> IF r = s THEN row ELSE table[r]]

(***************************************************************************)
(* The two transactions of append.  When another thread has inserted the   *)
(* same seq in between, the primary key makes the INSERT raise and nothing *)
(* is written.                                                             *)
(***************************************************************************)
ReadTail(t) ==
  /\ ~Appending(t)
  /\ LastRow(log).seq < MaxSeq
  /\ tail' = [tail EXCEPT ![t] = LastRow(log)]
  /\ UNCHANGED <<log, image>>

\* Mutant of InsertRow: the seq of the newest row is used again.
InsertRow_SameSeq(t, entry) ==
  /\ Appending(t)
  /\ log' = Inserted(log, tail[t].seq, Row(t, entry))
  /\ tail' = [tail EXCEPT ![t] = NoTail]
  /\ UNCHANGED image

\* Mutant of InsertRow: INSERT OR REPLACE.
InsertRow_Replaces(t, entry) ==
  /\ Appending(t)
  /\ log' = Inserted(log, tail[t].seq + 1, Row(t, entry))
  /\ tail' = [tail EXCEPT ![t] = NoTail]
  /\ UNCHANGED image

InsertRow(t, entry) ==
  /\ Appending(t)
  /\ tail[t].seq + 1 \notin DOMAIN log
  /\ log' = Inserted(log, tail[t].seq + 1, Row(t, entry))
  /\ tail' = [tail EXCEPT ![t] = NoTail]
  /\ UNCHANGED image

RejectDuplicateSeq(t) ==
  /\ Appending(t)
  /\ tail[t].seq + 1 \in DOMAIN log
  /\ tail' = [tail EXCEPT ![t] = NoTail]
  /\ UNCHANGED <<log, image>>

\* The process dies: the table survives, what the threads have read does not.
Crash ==
  /\ \E t \in Threads : Appending(t)
  /\ tail' = [t \in Threads |-> NoTail]
  /\ UNCHANGED <<log, image>>

(***************************************************************************)
(* SQLiteMemoryStore._backup and _restore, run by a thread of their own,   *)
(* copy the whole database, this table included, with sqlite3's online     *)
(* backup.  A restore, which is no step of this module's Next, puts back   *)
(* the rows of the file: MemoryStore says what that does to the log.       *)
(***************************************************************************)
CopyToImage(t) ==
  /\ ~Appending(t)
  /\ image' = {log}
  /\ UNCHANGED <<log, tail>>

CopyFromImage(t) ==
  /\ ~Appending(t)
  /\ \E table \in image : log' = table
  /\ UNCHANGED <<tail, image>>

Init ==
  /\ log = [s \in {} |-> <<>>]
  /\ tail = [t \in Threads |-> NoTail]
  /\ image = {}

ThreadStep(t) ==
  \/ ReadTail(t)
  \/ \E entry \in Entries : InsertRow(t, entry)
  \/ RejectDuplicateSeq(t)
  \/ CopyToImage(t)

Next ==
  \/ \E t \in Threads : ThreadStep(t)
  \/ Crash

Spec == Init /\ [][Next]_auditVars

------------------------------------------------------------------------------
(***************************************************************************)
(* AuditLog.verify: walk the rows in seq order, compare each prev_hash     *)
(* with the hash of the row before and each hash with its recomputation.   *)
(* It does not compare the seq of neighbours.                              *)
(***************************************************************************)
Below(table, s) == {r \in DOMAIN table : r < s}

ExpectedPrev(table, s) ==
  IF Below(table, s) = {} THEN Genesis
  ELSE table[CHOOSE r \in Below(table, s) : \A q \in Below(table, s) : q <= r].hash

Verify(table) ==
  \A s \in DOMAIN table :
    /\ table[s].prev = ExpectedPrev(table, s)
    /\ table[s].hash = Digest(s, table[s].entry, table[s].prev)

Removed(table, s) == [r \in DOMAIN table \ {s} |-> table[r]]

Altered(table, s, entry, hash) ==
  [table EXCEPT ![s] = [entry |-> entry, prev |-> table[s].prev, hash |-> hash]]

------------------------------------------------------------------------------
TypeOK ==
  /\ DOMAIN log \subseteq Nat \ {0}
  /\ IsFiniteSet(DOMAIN log)
  /\ \A s \in DOMAIN log : log[s].entry \in Entries
  /\ DOMAIN tail = Threads
  /\ \A t \in Threads : tail[t].seq \in Nat \cup {-1}

\* Whatever the interleaving of the appends and wherever the process dies,
\* the log that AuditLog.verify walks is one it accepts.
ChainVerifies == Verify(log)

\* Appends of several threads leave no hole in the sequence numbers: verify
\* does not look for one, so nothing else would report it.
NoGaps == DOMAIN log = 1 .. Cardinality(DOMAIN log)

\* verify reports the loss of any row but the newest, and the alteration of
\* any row's content whether or not the row's own hash is recomputed; for the
\* newest row only a kept hash gives the change away.
TamperEvident ==
  \A s \in DOMAIN log :
    /\ s # Newest(log) => ~Verify(Removed(log, s))
    /\ \A e \in Entries \ {log[s].entry} :
         /\ ~Verify(Altered(log, s, e, log[s].hash))
         /\ s # Newest(log) =>
              ~Verify(Altered(log, s, e, Digest(s, e, log[s].prev)))

\* A row that has been written stays as it was written, as the triggers of
\* the table and the primary key promise: no append overwrites another one.
RowsImmutable ==
  [][\A s \in DOMAIN log : s \in DOMAIN log' /\ log'[s] = log[s]]_log

\* The table implements the append-only trail of AppendOnlyLog.
Trail == [i \in 1 .. Cardinality(DOMAIN log) |-> log[i].entry]

Abstract == INSTANCE AppendOnlyLog WITH trail <- Trail

ImplementsTrail == Abstract!Spec
==============================================================================
