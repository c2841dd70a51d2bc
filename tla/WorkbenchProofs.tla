---------------------------- MODULE WorkbenchProofs ----------------------------
(***************************************************************************)
(* Proofs about parts of Workbench: the queue of failed items, for any     *)
(* items, callers and bound; the secrets, for any secrets, tenants, master *)
(* keys and any number of calls and rotations in progress; the start of    *)
(* the server with its MCP bridge, for any plugins, documents and tools;   *)
(* the connectors with their syncs, for any tokens, settings and sources;  *)
(* the model servers; who a caller is; the object stores; and the vector   *)
(* stores with their rankings, for any documents, tenants, queries and     *)
(* bounds.                                                                 *)
(*                                                                         *)
(* The queue (DeadLetters): an item that a call has in hand was put into   *)
(* the table and can only have left it by a deletion; an insertion alone   *)
(* brings an id in, and its id is new.  So an update either finds the row, *)
(* which is one step of the queue in memory, or an item that is purged,    *)
(* and then it changes nothing.  An order of the table by time is found by *)
(* arranging its finitely many rows, so that the listing of the newest     *)
(* ones exists, and any such listing is one.                               *)
(*                                                                         *)
(* The secrets (SecretVault): every envelope, in the table, on its way     *)
(* into it or copied out of it by a rotation, is sealed: the master key it *)
(* names is the one that wraps its data key and is known, and its data key *)
(* is the one of its value unless a rotation has mixed it with an older    *)
(* one.  For a rotation to reach every row, a row under an older key must  *)
(* have its owner among the copies still to do, and whatever any rotation  *)
(* writes back must be at least as new as the oldest key of those under    *)
(* way.                                                                    *)
(*                                                                         *)
(* The server (CoreStartup, McpBridge): while there is no pipeline nothing *)
(* is listed and nothing was taken in, and once there is one the store     *)
(* that is written to is its store.  The router has the pipeline of the    *)
(* state or none.  A call under way is in no log, so that the entry of its *)
(* tool is the next one.                                                   *)
(*                                                                         *)
(* The connectors (ConnectorHub, RemoteRead): the guards follow the mode,  *)
(* a state token that can be taken bought nothing yet, a token put into    *)
(* the vault behind a connector's back is one, and the settings last asked *)
(* for are those in the vault.  The two audit records of the i-th sync are *)
(* the i-th two of the log.  A repository that failed is not among those   *)
(* the read has still to visit.                                            *)
(*                                                                         *)
(* The object stores (ObjectStores): what stands under a path was put      *)
(* there by a tenant whose keys have that path, and which tenant this is   *)
(* can be read off the path. Both adapters have the same object under      *)
(* every path but those in doubt, because the last request for them ended  *)
(* in an error.                                                            *)
(*                                                                         *)
(* The vector stores (VectorStores): SQLite's table has the documents of   *)
(* the store in memory in the order in which that one lists them, with the *)
(* same versions and the same marks, whatever was put, removed, restored   *)
(* and purged, and in whatever order.  What was put last is a point of the *)
(* vector database or active in the fallback, which is empty while no call *)
(* failed.  A ranking is determined by its elements and its order, and     *)
(* neither depends on which of the two stores is asked; so the answers of  *)
(* both are equal, the lexical one and the fused one too.                  *)
(*                                                                         *)
(* What is proved of a part holds of the whole: the other parts leave its  *)
(* variables alone.                                                        *)
(***************************************************************************)
EXTENDS Workbench, PageProofs

------------------------------------------------------------------------------
(* The queue of failed items. *)

DlqRow == [source : FailedSources, status : {"pending", "retried"}, retries : Nat, at : 1..dlqNow]

\* What a caller can be doing.
CallOK(held) ==
  \/ held = IdleCall
  \/ /\ held \in [pc : {"insert"}, id : FailedIds, source : FailedSources, now : 1..dlqNow]
     /\ held.id \in dlqSeen /\ held.id \notin DOMAIN dlqRows /\ held.id \notin dlqPurged
     /\ dlqMarks[held.id] = 0
  \/ /\ held \in [pc : {"update"}, id : FailedIds, now : 1..dlqNow, existing : DlqRow]
     /\ held.id \in DOMAIN dlqRows \cup dlqPurged
  \/ /\ held \in [pc : {"reread"}, id : FailedIds]
     /\ held.id \in DOMAIN dlqRows \cup dlqPurged
     /\ held.id \in DOMAIN dlqRows => dlqMarks[held.id] >= 1
  \/ /\ held \in [pc : {"answered"}, id : FailedIds, found : SUBSET DlqRow]
     /\ held.found = {} => held.id \in dlqPurged
     /\ \A row \in held.found : row.status = "retried" /\ row.retries >= 1

TableOK ==
  /\ dlqRows \in [DOMAIN dlqRows -> DlqRow]
  /\ DOMAIN dlqRows \subseteq dlqSeen /\ dlqSeen \subseteq FailedIds
  /\ dlqPurged \subseteq dlqSeen /\ DeletedIsGone
  /\ dlqMarks \in [FailedIds -> Nat] /\ RetriesCounted
  /\ \A id \in FailedIds \ dlqSeen : dlqMarks[id] = 0
  /\ \A id \in DOMAIN dlqRows : dlqMarks[id] >= 1 => dlqRows[id].status = "retried"

ClockOK ==
  /\ dlqNow \in Nat /\ dlqCalls \in Nat
  /\ dlqNow <= dlqCalls /\ dlqCalls <= MaxDlqCalls

CallsOK ==
  /\ DOMAIN dlqCall = DlqCallers /\ dlqCall = [c \in DlqCallers |-> dlqCall[c]]
  /\ \A c \in DlqCallers : CallOK(dlqCall[c])
  /\ \A c, d \in DlqCallers : /\ c # d /\ dlqCall[c].pc = "insert" /\ dlqCall[d].pc = "insert"
                              => dlqCall[c].id # dlqCall[d].id

DlqInv == TableOK /\ ClockOK /\ CallsOK

------------------------------------------------------------------------------
(* The invariant. *)

LEMMA DlqInit == DeadLettersInit => DlqInv
BY DeadLettersAssumption
DEF DeadLettersInit, DlqInv, TableOK, ClockOK, CallsOK, CallOK, IdleCall, DeletedIsGone, RetriesCounted

\* Naming the conjuncts.
LEMMA DlqFacts ==
  ASSUME DlqInv
  PROVE  /\ \A id \in DOMAIN dlqRows : dlqRows[id] \in DlqRow
         /\ DOMAIN dlqRows \subseteq FailedIds
         /\ \A c \in DlqCallers : CallOK(dlqCall[c])
         /\ dlqNow \in Nat
BY DEF DlqInv, TableOK, CallsOK, ClockOK

\* A call that is not the one that moves keeps what it has in hand.
LEMMA OthersKeep ==
  ASSUME NEW held, CallOK(held), dlqNow \in Nat, dlqNow' \in Nat, dlqNow <= dlqNow',
         dlqSeen \subseteq dlqSeen', dlqPurged \subseteq dlqPurged',
         DOMAIN dlqRows \subseteq DOMAIN dlqRows' \cup dlqPurged',
         \A id \in FailedIds : dlqMarks[id] \in Nat /\ dlqMarks'[id] \in Nat /\ dlqMarks'[id] >= dlqMarks[id],
         held.pc = "insert" => /\ held.id \notin DOMAIN dlqRows' /\ held.id \notin dlqPurged'
                               /\ dlqMarks'[held.id] = dlqMarks[held.id],
         held.pc = "reread" => (held.id \in DOMAIN dlqRows' => held.id \in DOMAIN dlqRows)
  PROVE  CallOK(held)'
<1>1. 1..dlqNow \subseteq 1..dlqNow'
  OBVIOUS
<1>2. DlqRow \subseteq DlqRow'
  BY <1>1 DEF DlqRow
<1>3. CASE held = IdleCall
  BY <1>3 DEF CallOK
<1>4. CASE held.pc = "insert"
  BY <1>1, <1>4 DEF CallOK, IdleCall
<1>5. CASE held.pc = "update"
  BY <1>1, <1>2, <1>5 DEF CallOK, IdleCall
<1>6. CASE held.pc = "reread"
  <2>1. held \in [pc : {"reread"}, id : FailedIds]
    BY <1>6 DEF CallOK, IdleCall
  <2>2. QED
    BY <1>6, <2>1 DEF CallOK, IdleCall
<1>7. CASE held.pc = "answered"
  BY <1>2, <1>7 DEF CallOK, IdleCall
<1>8. QED
  BY <1>3, <1>4, <1>5, <1>6, <1>7 DEF CallOK

\* A step that lets one call go on, or none, leaves the calls in order.
LEMMA CallsKeep ==
  ASSUME DlqInv, NEW c \in DlqCallers, DOMAIN dlqCall' = DlqCallers,
         dlqCall' = [d \in DlqCallers |-> dlqCall'[d]],
         \A d \in DlqCallers : d # c => dlqCall'[d] = dlqCall[d],
         (CallOK(dlqCall[c]))',
         dlqCall'[c].pc = "insert" => \A d \in DlqCallers :
           d # c /\ dlqCall[d].pc = "insert" => dlqCall[d].id # dlqCall'[c].id,
         dlqNow' \in Nat, dlqNow <= dlqNow',
         dlqSeen \subseteq dlqSeen', dlqPurged \subseteq dlqPurged',
         DOMAIN dlqRows \subseteq DOMAIN dlqRows' \cup dlqPurged',
         \A id \in FailedIds : dlqMarks'[id] \in Nat /\ dlqMarks'[id] >= dlqMarks[id],
         \A d \in DlqCallers : d # c /\ dlqCall[d].pc = "insert" =>
           /\ dlqCall[d].id \notin DOMAIN dlqRows' /\ dlqCall[d].id \notin dlqPurged'
           /\ dlqMarks'[dlqCall[d].id] = dlqMarks[dlqCall[d].id],
         \A d \in DlqCallers : d # c /\ dlqCall[d].pc = "reread" =>
           (dlqCall[d].id \in DOMAIN dlqRows' => dlqCall[d].id \in DOMAIN dlqRows)
  PROVE  CallsOK'
<1>1. dlqNow \in Nat /\ \A i \in FailedIds : dlqMarks[i] \in Nat
  BY DEF DlqInv, TableOK, ClockOK
<1>2. ASSUME NEW d \in DlqCallers, d # c PROVE (CallOK(dlqCall[d]))'
  <2>1. CallOK(dlqCall[d])
    BY DlqFacts
  <2>2. dlqCall'[d] = dlqCall[d]
    BY <1>2
  <2>3. QED
    BY <1>1, <1>2, <2>1, <2>2, OthersKeep
<1>3. \A d \in DlqCallers : (CallOK(dlqCall[d]))'
  BY <1>2
<1>4. QED
  BY <1>3 DEF DlqInv, CallsOK

\* An id that is to be inserted is nowhere else.
LEMMA InsertsNew ==
  ASSUME DlqInv, NEW d \in DlqCallers, dlqCall[d].pc = "insert"
  PROVE  /\ dlqCall[d] \in [pc : {"insert"}, id : FailedIds, source : FailedSources, now : 1..dlqNow]
         /\ dlqCall[d].id \in dlqSeen /\ dlqCall[d].id \notin DOMAIN dlqRows
         /\ dlqCall[d].id \notin dlqPurged /\ dlqMarks[dlqCall[d].id] = 0
BY DlqFacts DEF CallOK, IdleCall

LEMMA EnqueueKeeps ==
  ASSUME DlqInv, NEW c \in DlqCallers, NEW id \in FailedIds, NEW src \in FailedSources,
         Enqueue(c, id, src)
  PROVE  DlqInv'
<1> USE DEF Enqueue, BeginCall, CallGoes
<1>1. TableOK'
  BY DEF DlqInv, TableOK, ClockOK, DlqRow, DeletedIsGone, RetriesCounted
<1>2. ClockOK'
  BY DeadLettersAssumption DEF DlqInv, ClockOK
<1>3. dlqCall'[c] = [pc |-> "insert", id |-> id, source |-> src, now |-> dlqNow']
  BY DEF DlqInv, CallsOK
<1>4. /\ dlqNow' \in 1..dlqNow' /\ id \in dlqSeen'
      /\ id \notin DOMAIN dlqRows' /\ id \notin dlqPurged'
      /\ dlqMarks'[id] = 0
  BY DEF DlqInv, TableOK, ClockOK
<1>5. (CallOK(dlqCall[c]))'
  BY <1>3, <1>4 DEF CallOK
<1>6. CallsOK'
  BY <1>3, <1>5, CallsKeep, InsertsNew DEF DlqInv, CallsOK, ClockOK, TableOK
<1>7. QED
  BY <1>1, <1>2, <1>6 DEF DlqInv

LEMMA InsertKeeps ==
  ASSUME DlqInv, NEW c \in DlqCallers, InsertRow(c)
  PROVE  DlqInv'
<1> DEFINE id == dlqCall[c].id
<1> USE DEF InsertRow, CallGoes
<1>1. /\ dlqRows' = [i \in DOMAIN dlqRows \cup {id} |->
                       IF i = id THEN Row(dlqCall[c].source, "pending", 0, dlqCall[c].now)
                       ELSE dlqRows[i]]
      /\ dlqCall' = [dlqCall EXCEPT ![c] = IdleCall]
      /\ UNCHANGED <<dlqNow, dlqCalls, dlqSeen, dlqMarks, dlqPurged>>
  BY DEF WithRow
<1>2. Row(dlqCall[c].source, "pending", 0, dlqCall[c].now) \in DlqRow
  BY InsertsNew DEF Row, DlqRow
<1>3. id \in dlqSeen /\ id \notin DOMAIN dlqRows /\ id \notin dlqPurged /\ dlqMarks[id] = 0
  BY InsertsNew
<1>4. TableOK'
  <2>1. DOMAIN dlqRows' = DOMAIN dlqRows \cup {id} /\ DlqRow' = DlqRow
    BY <1>1 DEF DlqRow
  <2>2. \A i \in DOMAIN dlqRows' : dlqRows'[i] \in DlqRow
    BY <1>1, <1>2, <2>1 DEF DlqInv, TableOK
  <2>3. dlqRows' \in [DOMAIN dlqRows' -> DlqRow']
    BY <1>1, <2>1, <2>2
  <2>4. RetriesCounted'
    BY <1>1, <1>3, <2>1 DEF DlqInv, TableOK, RetriesCounted, Row
  <2>5. DeletedIsGone'
    BY <1>1, <1>3, <2>1 DEF DlqInv, TableOK, DeletedIsGone
  <2>6. \A i \in DOMAIN dlqRows' : dlqMarks'[i] >= 1 => dlqRows'[i].status = "retried"
    BY <1>1, <1>3, <2>1 DEF DlqInv, TableOK
  <2>7. QED
    BY <1>1, <1>3, <2>1, <2>3, <2>4, <2>5, <2>6 DEF DlqInv, TableOK
<1>5. CallsOK'
  <2>1. dlqCall'[c] = IdleCall /\ (CallOK(dlqCall[c]))' /\ IdleCall.pc # "insert"
    BY <1>1 DEF DlqInv, CallsOK, CallOK, IdleCall
  <2>2. \A d \in DlqCallers : d # c /\ dlqCall[d].pc = "insert" =>
          dlqCall[d].id \notin DOMAIN dlqRows'
    BY <1>1, InsertsNew DEF DlqInv, CallsOK
  <2>3. \A d \in DlqCallers : dlqCall[d].pc = "reread" => dlqCall[d].id # id
    BY <1>3, DlqFacts DEF CallOK, IdleCall
  <2>4. \A i \in FailedIds : dlqMarks[i] \in Nat
    BY DEF DlqInv, TableOK
  <2>5. QED
    BY <1>1, <2>1, <2>2, <2>3, <2>4, CallsKeep, InsertsNew DEF DlqInv, CallsOK, ClockOK
<1>6. QED
  BY <1>1, <1>4, <1>5 DEF DlqInv, ClockOK

LEMMA RetryKeeps ==
  ASSUME DlqInv, NEW c \in DlqCallers, NEW id \in FailedIds, retry_dlq_item(c, id)
  PROVE  DlqInv'
<1> USE DEF retry_dlq_item, BeginCall, CallGoes
<1>1. TableOK'
  BY DEF DlqInv, TableOK, ClockOK, DlqRow, DeletedIsGone, RetriesCounted
<1>2. ClockOK'
  BY DeadLettersAssumption DEF DlqInv, ClockOK
<1>3. dlqCall'[c] = [pc |-> "update", id |-> id, now |-> dlqNow', existing |-> dlqRows[id]]
  BY DEF DlqInv, CallsOK
<1>4. /\ dlqNow' \in 1..dlqNow' /\ id \in DOMAIN dlqRows' \cup dlqPurged'
      /\ dlqRows[id] \in DlqRow'
  BY DEF DlqInv, TableOK, ClockOK, DlqRow
<1>5. (CallOK(dlqCall[c]))'
  BY <1>3, <1>4 DEF CallOK
<1>6. CallsOK'
  BY <1>3, <1>5, CallsKeep, InsertsNew DEF DlqInv, CallsOK, ClockOK, TableOK
<1>7. QED
  BY <1>1, <1>2, <1>6 DEF DlqInv

\* An update that finds its row writes it as the queue in memory does, and one that does
\* not leaves the table as it is.
LEMMA UpdateWrites ==
  ASSUME DlqInv, NEW c \in DlqCallers, update_status(c)
  PROVE  LET held == dlqCall[c] IN
         /\ held \in [pc : {"update"}, id : FailedIds, now : 1..dlqNow, existing : DlqRow]
         /\ IF held.id \in DOMAIN dlqRows
            THEN /\ dlqRows' = [dlqRows EXCEPT ![held.id] = Marked(held)]
                 /\ dlqMarks' = [dlqMarks EXCEPT ![held.id] = @ + 1]
            ELSE /\ held.id \in dlqPurged
                 /\ dlqRows' = dlqRows /\ dlqMarks' = dlqMarks
<1> DEFINE held == dlqCall[c]
<1>1. CallOK(held) /\ held.pc = "update"
  BY DlqFacts DEF update_status
<1>2. /\ held \in [pc : {"update"}, id : FailedIds, now : 1..dlqNow, existing : DlqRow]
      /\ held.id \in DOMAIN dlqRows \cup dlqPurged
  BY <1>1 DEF CallOK, IdleCall
<1>3. DOMAIN dlqRows \cup Matching(held) = DOMAIN dlqRows
  BY DEF Matching
<1>4. dlqRows' = [i \in DOMAIN dlqRows |-> IF i # held.id THEN dlqRows[i] ELSE Marked(held)]
  BY <1>3 DEF update_status
<1>5. dlqRows = [i \in DOMAIN dlqRows |-> dlqRows[i]]
  BY DEF DlqInv, TableOK
<1>6. QED
  BY <1>2, <1>4, <1>5 DEF update_status

\* One field of a row is changed.
LEMMA FieldChanged ==
  ASSUME NEW row, row = Row(row.source, row.status, row.retries, row.at), NEW v
  PROVE  /\ [row EXCEPT !.status = v] = Row(row.source, v, row.retries, row.at)
         /\ [row EXCEPT !.retries = v] = Row(row.source, row.status, v, row.at)
         /\ [row EXCEPT !.at = v] = Row(row.source, row.status, row.retries, v)
<1>1. row = [source |-> row.source, status |-> row.status, retries |-> row.retries, at |-> row.at]
  BY DEF Row
<1>2. [row EXCEPT !.status = v] = [source |-> row.source, status |-> v, retries |-> row.retries, at |-> row.at]
  BY <1>1, SMT
<1>3. [row EXCEPT !.retries = v] = [source |-> row.source, status |-> row.status, retries |-> v, at |-> row.at]
  BY <1>1, SMT
<1>4. [row EXCEPT !.at = v] = [source |-> row.source, status |-> row.status, retries |-> row.retries, at |-> v]
  BY <1>1, SMT
<1>5. QED
  BY <1>2, <1>3, <1>4 DEF Row

\* The changes of an update, in the order of the database and in that of the queue in memory.
LEMMA RowChanged ==
  ASSUME NEW row \in DlqRow, NEW at
  PROVE  /\ [row EXCEPT !.status = "retried", !.retries = @ + 1, !.at = at]
              = Row(row.source, "retried", row.retries + 1, at)
         /\ [row EXCEPT !.status = "retried", !.at = at, !.retries = @ + 1]
              = Row(row.source, "retried", row.retries + 1, at)
<1> DEFINE more == row.retries + 1
           r1 == [row EXCEPT !.status = "retried"]
           r2 == [r1 EXCEPT !.retries = more]
           q2 == [r1 EXCEPT !.at = at]
<1>1. row = Row(row.source, row.status, row.retries, row.at)
  BY DEF DlqRow, Row
<1>2. r1 = Row(row.source, "retried", row.retries, row.at)
  BY <1>1, FieldChanged
<1> HIDE DEF more, r1
<1>3. r1 = Row(r1.source, r1.status, r1.retries, r1.at)
  BY <1>2 DEF Row
<1>4. /\ r2 = Row(r1.source, r1.status, more, r1.at)
      /\ q2 = Row(r1.source, r1.status, r1.retries, at)
  BY <1>3, FieldChanged
<1>5. /\ r2 = Row(row.source, "retried", more, row.at)
      /\ q2 = Row(row.source, "retried", row.retries, at)
  BY <1>2, <1>4 DEF Row
<1> HIDE DEF r2, q2
<1>6. /\ r2 = Row(r2.source, r2.status, r2.retries, r2.at)
      /\ q2 = Row(q2.source, q2.status, q2.retries, q2.at)
  BY <1>5 DEF Row
<1>7. /\ [r2 EXCEPT !.at = at] = Row(r2.source, r2.status, r2.retries, at)
      /\ [q2 EXCEPT !.retries = more] = Row(q2.source, q2.status, more, q2.at)
  BY <1>6, FieldChanged
<1>8. /\ [r2 EXCEPT !.at = at] = Row(row.source, "retried", more, at)
      /\ [q2 EXCEPT !.retries = more] = Row(row.source, "retried", more, at)
  BY <1>5, <1>7 DEF Row
<1>9. /\ [row EXCEPT !.status = "retried", !.retries = @ + 1, !.at = at] = [r2 EXCEPT !.at = at]
      /\ [row EXCEPT !.status = "retried", !.at = at, !.retries = @ + 1] = [q2 EXCEPT !.retries = more]
  BY DEF more, r1, r2, q2
<1>10. QED
  BY <1>8, <1>9 DEF more

LEMMA MarkedRow ==
  ASSUME NEW held, dlqRows[held.id] \in DlqRow, held.now \in 1..dlqNow
  PROVE  /\ Marked(held) = Row(dlqRows[held.id].source, "retried", dlqRows[held.id].retries + 1, held.now)
         /\ Marked(held) \in DlqRow
         /\ Marked(held).retries = dlqRows[held.id].retries + 1
         /\ Marked(held).status = "retried"
<1>1. Marked(held) = Row(dlqRows[held.id].source, "retried", dlqRows[held.id].retries + 1, held.now)
  BY RowChanged DEF Marked
<1>2. Row(dlqRows[held.id].source, "retried", dlqRows[held.id].retries + 1, held.now) \in DlqRow
  BY DEF DlqRow, Row
<1>3. QED
  BY <1>1, <1>2 DEF Row

LEMMA UpdateKeeps ==
  ASSUME DlqInv, NEW c \in DlqCallers, update_status(c)
  PROVE  DlqInv'
<1> DEFINE id == dlqCall[c].id
<1>1. /\ id \in FailedIds /\ id \in DOMAIN dlqRows \cup dlqPurged
      /\ dlqCall[c].now \in 1..dlqNow
  BY UpdateWrites
<1>2. /\ dlqCall' = [dlqCall EXCEPT ![c] = [pc |-> "reread", id |-> id]]
      /\ UNCHANGED <<dlqNow, dlqCalls, dlqSeen, dlqPurged>>
  BY DEF update_status, CallGoes
<1>3. \A i \in FailedIds : dlqMarks[i] \in Nat
  BY DEF DlqInv, TableOK
<1>4. /\ TableOK' /\ DOMAIN dlqRows' = DOMAIN dlqRows
      /\ \A i \in FailedIds : dlqMarks'[i] \in Nat /\ dlqMarks'[i] >= dlqMarks[i]
      /\ id \in DOMAIN dlqRows' => dlqMarks'[id] >= 1
      /\ \A i \in FailedIds : i # id => dlqMarks'[i] = dlqMarks[i]
  <2>1. CASE id \in DOMAIN dlqRows
    <3>1. /\ dlqRows' = [dlqRows EXCEPT ![id] = Marked(dlqCall[c])]
          /\ dlqMarks' = [dlqMarks EXCEPT ![id] = @ + 1]
      BY <2>1, UpdateWrites
    <3>2. dlqRows[id] \in DlqRow
      BY <2>1, DlqFacts
    <3>3. /\ Marked(dlqCall[c]) \in DlqRow
          /\ Marked(dlqCall[c]).retries = dlqRows[id].retries + 1
          /\ Marked(dlqCall[c]).status = "retried"
      BY <1>1, <3>2, MarkedRow
    <3>4. DlqRow' = DlqRow
      BY <1>2 DEF DlqRow
    <3>5. \A i \in DOMAIN dlqRows' : dlqRows'[i] = IF i = id THEN Marked(dlqCall[c]) ELSE dlqRows[i]
      BY <3>1 DEF DlqInv, TableOK
    <3>6. RetriesCounted'
      BY <1>1, <3>1, <3>3, <3>5 DEF DlqInv, TableOK, RetriesCounted
    <3>7. DeletedIsGone'
      BY <1>2, <3>1 DEF DlqInv, TableOK, DeletedIsGone
    <3>8. dlqRows' \in [DOMAIN dlqRows' -> DlqRow']
      BY <3>1, <3>3, <3>4 DEF DlqInv, TableOK
    <3>9. TableOK'
      BY <1>1, <1>2, <2>1, <3>1, <3>3, <3>5, <3>6, <3>7, <3>8 DEF DlqInv, TableOK
    <3>10. QED
      BY <1>1, <1>3, <3>1, <3>9 DEF DlqInv, TableOK
  <2>2. CASE id \notin DOMAIN dlqRows
    <3>1. dlqRows' = dlqRows /\ dlqMarks' = dlqMarks
      BY <2>2, UpdateWrites
    <3>2. QED
      BY <1>2, <1>3, <2>2, <3>1 DEF DlqInv, TableOK, DlqRow, DeletedIsGone, RetriesCounted
  <2>3. QED
    BY <2>1, <2>2
<1>5. CallsOK'
  <2>1. dlqCall'[c] = [pc |-> "reread", id |-> id] /\ (CallOK(dlqCall[c]))'
    BY <1>1, <1>2, <1>4 DEF DlqInv, CallsOK, CallOK
  <2>2. \A d \in DlqCallers : d # c /\ dlqCall[d].pc = "insert" =>
          /\ dlqCall[d].id \notin DOMAIN dlqRows' /\ dlqCall[d].id \notin dlqPurged'
          /\ dlqMarks'[dlqCall[d].id] = dlqMarks[dlqCall[d].id]
    BY <1>1, <1>2, <1>4, InsertsNew
  <2>3. QED
    BY <1>2, <1>4, <2>1, <2>2, CallsKeep DEF DlqInv, CallsOK, ClockOK
<1>6. QED
  BY <1>2, <1>4, <1>5 DEF DlqInv, ClockOK

LEMMA RereadKeeps ==
  ASSUME DlqInv, NEW c \in DlqCallers, Reread(c)
  PROVE  DlqInv'
<1> USE DEF Reread, CallGoes
<1> DEFINE id == dlqCall[c].id
<1>1. /\ id \in FailedIds /\ id \in DOMAIN dlqRows \cup dlqPurged
      /\ id \in DOMAIN dlqRows => dlqMarks[id] >= 1
  BY DlqFacts DEF CallOK, IdleCall
<1>2. /\ get_item(id) \in SUBSET DlqRow
      /\ get_item(id) = {} => id \in dlqPurged
      /\ \A row \in get_item(id) : row.status = "retried" /\ row.retries >= 1
  BY <1>1, DlqFacts DEF get_item, DlqInv, TableOK, RetriesCounted
<1>3. dlqCall'[c] = [pc |-> "answered", id |-> id, found |-> get_item(id)]
  BY DEF DlqInv, CallsOK
<1>4. TableOK' /\ ClockOK' /\ DlqRow' = DlqRow
  BY DEF DlqInv, TableOK, ClockOK, DlqRow, DeletedIsGone, RetriesCounted
<1>5. (CallOK(dlqCall[c]))'
  BY <1>1, <1>2, <1>3, <1>4 DEF CallOK
<1>6. CallsOK'
  BY <1>3, <1>5, CallsKeep, InsertsNew DEF DlqInv, CallsOK, ClockOK, TableOK
<1>7. QED
  BY <1>4, <1>6 DEF DlqInv

LEMMA RetriedKeeps ==
  ASSUME DlqInv, NEW c \in DlqCallers, Retried(c)
  PROVE  DlqInv'
<1> USE DEF Retried, CallGoes
<1>1. TableOK' /\ ClockOK'
  BY DEF DlqInv, TableOK, ClockOK, DlqRow, DeletedIsGone, RetriesCounted
<1>2. dlqCall'[c] = IdleCall /\ (CallOK(dlqCall[c]))' /\ IdleCall.pc # "insert"
  BY DEF DlqInv, CallsOK, CallOK, IdleCall
<1>3. CallsOK'
  BY <1>2, CallsKeep, InsertsNew DEF DlqInv, CallsOK, ClockOK, TableOK
<1>4. QED
  BY <1>1, <1>3 DEF DlqInv

LEMMA DeleteKeeps ==
  ASSUME DlqInv, NEW c \in DlqCallers, NEW id \in FailedIds, delete_dlq_item(c, id)
  PROVE  DlqInv'
<1> USE DEF delete_dlq_item, BeginCall
<1>1. TableOK'
  BY DEF DlqInv, TableOK, DlqRow, DeletedIsGone, RetriesCounted
<1>2. ClockOK'
  BY DeadLettersAssumption DEF DlqInv, ClockOK
<1>3. /\ CallOK(dlqCall[c]) /\ dlqCall[c] = IdleCall /\ IdleCall.pc # "insert"
  BY DlqFacts DEF CallOK, IdleCall
<1>4. (CallOK(dlqCall[c]))'
  BY <1>3 DEF CallOK
<1>5. DOMAIN dlqRows \subseteq DOMAIN dlqRows' \cup dlqPurged' /\ DOMAIN dlqRows' \subseteq DOMAIN dlqRows
  OBVIOUS
<1>6. \A d \in DlqCallers : dlqCall[d].pc = "insert" =>
        dlqCall[d].id \notin DOMAIN dlqRows' /\ dlqCall[d].id \notin dlqPurged'
  BY <1>5, InsertsNew
<1>7. CallsOK'
  BY <1>3, <1>4, <1>5, <1>6, CallsKeep DEF DlqInv, CallsOK, ClockOK, TableOK
<1>8. QED
  BY <1>1, <1>2, <1>7 DEF DlqInv

LEMMA DlqNextKeeps == DlqInv /\ [DeadLettersNext]_dlqVars => DlqInv'
<1>1. ASSUME DlqInv, DeadLettersNext PROVE DlqInv'
  BY <1>1, EnqueueKeeps, InsertKeeps, RetryKeeps, UpdateKeeps, RereadKeeps, RetriedKeeps, DeleteKeeps
  DEF DeadLettersNext
<1>2. ASSUME DlqInv, UNCHANGED dlqVars PROVE DlqInv'
  BY <1>2
  DEF dlqVars, DlqInv, TableOK, ClockOK, CallsOK, CallOK, DlqRow, DeletedIsGone, RetriesCounted
<1>3. QED
  BY <1>1, <1>2

LEMMA DlqInvariance == DeadLettersSpec => []DlqInv
BY DlqInit, DlqNextKeeps, PTL DEF DeadLettersSpec

------------------------------------------------------------------------------
(* What the invariant shows. *)

\* The count of an item is the number of the retries that took effect, however many
\* overlap (dlq.py, update_status of PgDLQAdapter).
THEOREM CountsRetries == DeadLettersSpec => []RetriesCounted
<1>1. DlqInv => RetriesCounted
  BY DEF DlqInv, TableOK
<1>2. QED
  BY DlqInvariance, <1>1, PTL

\* A retry is answered with an item in which it is counted, or it lost the item to a
\* deletion (retry_dlq_item in routes.py).
THEOREM AnswersRetries == DeadLettersSpec => []RetryAnswer
<1>1. ASSUME DlqInv PROVE RetryAnswer
  <2>1. ASSUME NEW c \in DlqCallers, dlqCall[c].pc = "answered"
        PROVE  /\ dlqCall[c].found = {} => dlqCall[c].id \in dlqPurged
               /\ \A row \in dlqCall[c].found : row.status = "retried" /\ row.retries >= 1
    BY <1>1, <2>1, DlqFacts DEF CallOK, IdleCall
  <2>2. QED
    BY <2>1 DEF RetryAnswer
<1>2. QED
  BY DlqInvariance, <1>1, PTL

\* A deleted item is not in the table, whatever update of it was under way (delete_item
\* and update_status of PgDLQAdapter).
THEOREM DeletesForGood == DeadLettersSpec => []DeletedIsGone
<1>1. DlqInv => DeletedIsGone
  BY DEF DlqInv, TableOK
<1>2. QED
  BY DlqInvariance, <1>1, PTL

\* The type invariant of the queue: a row has been inserted, is not purged, and its count
\* and times are numbers.
THEOREM DeadLettersTypeCorrect == DeadLettersSpec => []DeadLettersTypeOK
<1>1. DlqInv => DeadLettersTypeOK
  BY DEF DlqInv, TableOK, ClockOK, DlqRow, DeadLettersTypeOK
<1>2. QED
  BY DlqInvariance, <1>1, PTL

------------------------------------------------------------------------------
(* Listing the queue. *)

\* The order by falling values, and by places where they are equal.
LEMMA OrderByValue ==
  ASSUME NEW D, NEW v, NEW order, \A i \in D : v[i] \in Int /\ i \in Int,
         \A i, j \in D : <<i, j>> \in order <=> (v[i] > v[j] \/ (v[i] = v[j] /\ i < j))
  PROVE  IsOrder(D, order)
<1>1. \A i \in D : ~ (<<i, i>> \in order)
  OBVIOUS
<1>2. ASSUME NEW i \in D, NEW j \in D, NEW k \in D, <<i, j>> \in order, <<j, k>> \in order
      PROVE  <<i, k>> \in order
  <2>1. /\ v[i] \in Int /\ v[j] \in Int /\ v[k] \in Int /\ i \in Int /\ j \in Int /\ k \in Int
        /\ v[i] > v[j] \/ (v[i] = v[j] /\ i < j)
        /\ v[j] > v[k] \/ (v[j] = v[k] /\ j < k)
    BY <1>2
  <2>2. v[i] > v[k] \/ (v[i] = v[k] /\ i < k)
    BY <2>1
  <2>3. QED
    BY <2>2
<1>3. ASSUME NEW i \in D, NEW j \in D, i # j PROVE <<i, j>> \in order \/ <<j, i>> \in order
  BY <1>3
<1>4. QED
  BY <1>1, <1>2, <1>3 DEF IsOrder

\* The table is finite: each insertion adds one row.
FiniteTable == IsFiniteSet(DOMAIN dlqRows)

LEMMA TableFinite == DeadLettersSpec => []FiniteTable
<1>1. DeadLettersInit => FiniteTable
  BY FS_EmptySet DEF DeadLettersInit, FiniteTable
<1>2. FiniteTable /\ [DeadLettersNext]_dlqVars => FiniteTable'
  <2> SUFFICES ASSUME IsFiniteSet(DOMAIN dlqRows), [DeadLettersNext]_dlqVars
               PROVE  IsFiniteSet(DOMAIN dlqRows')
    BY DEF FiniteTable
  <2>1. ASSUME UNCHANGED dlqRows PROVE IsFiniteSet(DOMAIN dlqRows')
    BY <2>1
  <2>2. ASSUME NEW id, DOMAIN dlqRows' = DOMAIN dlqRows \cup {id} PROVE IsFiniteSet(DOMAIN dlqRows')
    BY <2>2, FS_AddElement
  <2>3. ASSUME NEW id, DOMAIN dlqRows' = DOMAIN dlqRows \ {id} PROVE IsFiniteSet(DOMAIN dlqRows')
    BY <2>3, FS_RemoveElement
  <2>4. ASSUME NEW c \in DlqCallers, InsertRow(c) PROVE IsFiniteSet(DOMAIN dlqRows')
    BY <2>2, <2>4 DEF InsertRow, WithRow
  <2>5. ASSUME NEW c \in DlqCallers, update_status(c) PROVE IsFiniteSet(DOMAIN dlqRows')
    <3>1. DOMAIN dlqRows' = DOMAIN dlqRows
      BY <2>5 DEF update_status, Matching
    <3>2. QED
      BY <3>1
  <2>6. ASSUME NEW c \in DlqCallers, NEW id \in FailedIds, delete_dlq_item(c, id)
        PROVE  IsFiniteSet(DOMAIN dlqRows')
    BY <2>3, <2>6 DEF delete_dlq_item
  <2>7. QED
    BY <2>1, <2>4, <2>5, <2>6
    DEF DeadLettersNext, dlqVars, Enqueue, retry_dlq_item, Reread, Retried
<1>3. QED
  BY <1>1, <1>2, PTL DEF DeadLettersSpec

\* The ids in the order of their times, those of equal times in any.
LEMMA NewestOfIs ==
  ASSUME NEW ids \in SUBSET (DOMAIN dlqRows), IsFiniteSet(ids), \A id \in ids : dlqRows[id].at \in Int
  PROVE  LET s == NewestOf(ids)
             n == Cardinality(ids) IN
         /\ n \in Nat /\ s \in [1..n -> ids] /\ Elements(s) = ids
         /\ \A i, j \in DOMAIN s : i < j => dlqRows[s[i]].at >= dlqRows[s[j]].at
<1> DEFINE n == Cardinality(ids)
           IsList(s) == /\ Elements(s) = ids
                        /\ \A i, j \in DOMAIN s : i < j => dlqRows[s[i]].at >= dlqRows[s[j]].at
<1>1. n \in Nat
  BY FS_CardinalityType
<1>2. PICK b \in Bijection(1..n, ids) : TRUE
  BY FS_CardinalityType DEF ExistsBijection
<1> HIDE DEF n
<1>3. b \in [1..n -> ids] /\ {b[i] : i \in 1..n} = ids
  BY <1>2 DEF Bijection, Injection, Surjection
<1>4. b \in Seq(ids) /\ DOMAIN b = 1..n
  BY <1>1, <1>3, SeqDef
<1> DEFINE v == [i \in 1..n |-> dlqRows[b[i]].at]
           order == {p \in (1..n) \X (1..n) : v[p[1]] > v[p[2]] \/ (v[p[1]] = v[p[2]] /\ p[1] < p[2])}
           s == Arranged(b, 1..n, order)
<1>5. \A i \in 1..n : v[i] \in Int /\ i \in Int /\ v[i] = dlqRows[b[i]].at
  BY <1>1, <1>3
<1>6. \A i, j \in 1..n : <<i, j>> \in order <=> (v[i] > v[j] \/ (v[i] = v[j] /\ i < j))
  OBVIOUS
<1> HIDE DEF v, order
<1>7. IsOrder(1..n, order)
  BY <1>5, <1>6, OrderByValue
<1>8. IsArranged(s, ids, b, 1..n, order)
  <2> DEFINE D == 1..n
  <2>1. s = Arranged(b, D, order) /\ D = 1..n /\ D \in SUBSET (DOMAIN b) /\ IsOrder(D, order)
    BY <1>4, <1>7
  <2> HIDE DEF s, D
  <2>2. IsArranged(Arranged(b, D, order), ids, b, D, order)
    BY <1>4, <2>1, ArrangedFacts
  <2>3. QED
    BY <2>1, <2>2
<1> HIDE DEF s
<1>9. s \in [1..n -> ids] /\ Elements(s) = ids
  <2>1. Len(s) = n /\ s \in Seq(ids) /\ DOMAIN s = 1..n
    <3>1. Cardinality(1..n) = n
      BY <1>1, FS_Interval
    <3>2. QED
      BY <1>8, <3>1 DEF IsArranged
  <2>2. s = [i \in 1..n |-> s[i]] /\ \A i \in 1..n : s[i] \in ids
    BY <2>1, SeqDef, ElementOfSeq
  <2>3. QED
    BY <1>3, <1>8, <2>2 DEF IsArranged
<1>10. \A i, j \in DOMAIN s : i < j => dlqRows[s[i]].at >= dlqRows[s[j]].at
  <2>1. PICK p : IsPicked(s, b, p, 1..n, order)
    BY <1>8 DEF IsArranged
  <2>2. ASSUME NEW i \in DOMAIN s, NEW j \in DOMAIN s, i < j
        PROVE  dlqRows[s[i]].at >= dlqRows[s[j]].at
    <3>1. /\ p[i] \in 1..n /\ p[j] \in 1..n /\ <<p[i], p[j]>> \in order
          /\ s[i] = b[p[i]] /\ s[j] = b[p[j]]
      BY <2>1, <2>2 DEF IsPicked, Elements
    <3>2. v[p[i]] >= v[p[j]]
      BY <1>5, <1>6, <3>1
    <3>3. QED
      BY <1>5, <3>1, <3>2
  <2>3. QED
    BY <2>2
<1>11. \E t \in [1..n -> ids] : IsList(t)
  BY <1>9, <1>10
<1>12. NewestOf(ids) = CHOOSE t \in [1..n -> ids] : IsList(t)
  BY DEF NewestOf, n
<1> HIDE DEF IsList
<1>13. NewestOf(ids) \in [1..n -> ids] /\ IsList(NewestOf(ids))
  BY <1>11, <1>12
<1>14. QED
  BY <1>1, <1>13 DEF IsList, n

\* A listing has as many items as asked for and there, and the newest (list of PgDLQAdapter).
LEMMA ItemsListed ==
  ASSUME DlqInv, FiniteTable
  PROVE  NewestAreListed
<1>1. ASSUME NEW from \in FailedSources \cup {None}, NEW status \in {"any", "pending", "retried"},
             NEW limit \in 1..2
      PROVE  LET listed == list_items(from, status, limit)
                 wanted == {id \in DOMAIN dlqRows : /\ from \in {None, dlqRows[id].source}
                                                   /\ status \in {"any", dlqRows[id].status}} IN
             /\ Elements(listed) \subseteq wanted
             /\ Cardinality(Elements(listed)) = Least(limit, Cardinality(wanted))
             /\ \A i \in wanted \ Elements(listed), j \in Elements(listed) : dlqRows[i].at <= dlqRows[j].at
  <2> DEFINE wanted == {id \in DOMAIN dlqRows : /\ from \in {None, dlqRows[id].source}
                                               /\ status \in {"any", dlqRows[id].status}}
             s == NewestOf(wanted)
             n == Cardinality(wanted)
             listed == First(limit, s)
             k == Least(limit, n)
  <2>1. list_items(from, status, limit) = listed
    BY DEF list_items, ChosenRows, Filtered
  <2>2. IsFiniteSet(wanted) /\ wanted \in SUBSET (DOMAIN dlqRows)
    BY FS_Subset DEF FiniteTable
  <2>3. \A id \in wanted : dlqRows[id].at \in Int
    BY <2>2, DlqFacts DEF DlqRow
  <2> HIDE DEF wanted
  <2>4. /\ n \in Nat /\ s \in [1..n -> wanted] /\ Elements(s) = wanted
        /\ \A i, j \in DOMAIN s : i < j => dlqRows[s[i]].at >= dlqRows[s[j]].at
    BY <2>2, <2>3, NewestOfIs
  <2> HIDE DEF s, n
  <2>5. s \in Seq(wanted) /\ DOMAIN s = 1..n /\ Len(s) = n
    <3>1. s \in Seq(wanted) /\ DOMAIN s = 1..n
      BY <2>4, SeqDef
    <3>2. Len(s) \in Nat /\ 1..Len(s) = 1..n
      BY <3>1, LenProperties
    <3>3. n \in 1..n \/ n = 0
      BY <2>4
    <3>4. Len(s) \in 1..Len(s) \/ Len(s) = 0
      BY <3>2
    <3>5. QED
      BY <2>4, <3>1, <3>2, <3>3, <3>4
  <2>6. /\ listed \in Seq(wanted) /\ Len(listed) = k /\ k \in Nat /\ DOMAIN listed = 1..k /\ k <= n
        /\ \A i \in 1..k : listed[i] = s[i]
    <3>1. limit \in Nat
      OBVIOUS
    <3>2. QED
      BY <2>5, <3>1, BeginFacts
  <2> HIDE DEF listed, k
  <2>7. ASSUME NEW i \in DOMAIN s, NEW j \in DOMAIN s, s[i] = s[j] PROVE i = j
    <3>1. s \in Surjection(1..n, wanted)
      BY <2>4, <2>5 DEF Surjection, Elements
    <3>2. IsFiniteSet(1..n) /\ Cardinality(1..n) = n
      BY <2>4, FS_Interval
    <3>3. s \in Injection(1..n, wanted)
      BY <3>1, <3>2, FS_Surjection DEF n
    <3>4. QED
      BY <2>5, <2>7, <3>3 DEF Injection, IsInjective
  <2>8. Elements(listed) \subseteq wanted
    BY <2>6, ElementOfSeq DEF Elements
  <2>9. Cardinality(Elements(listed)) = k
    <3>1. \A i, j \in DOMAIN listed : listed[i] = listed[j] => i = j
      BY <2>4, <2>5, <2>6, <2>7
    <3>2. QED
      BY <2>6, <3>1, CountDistinct
  <2>10. ASSUME NEW i \in wanted \ Elements(listed), NEW j \in Elements(listed)
         PROVE  dlqRows[i].at <= dlqRows[j].at
    <3>1. PICK a \in DOMAIN s : s[a] = i
      BY <2>4 DEF Elements
    <3>2. PICK b \in DOMAIN listed : listed[b] = j
      BY DEF Elements
    <3>3. ~ (a \in 1..k)
      BY <2>6, <3>1 DEF Elements
    <3>4. b < a /\ b \in DOMAIN s /\ s[b] = j
      BY <2>4, <2>5, <2>6, <3>1, <3>2, <3>3
    <3>5. dlqRows[j].at >= dlqRows[i].at /\ dlqRows[i].at \in Int /\ dlqRows[j].at \in Int
      BY <2>3, <2>4, <2>8, <3>1, <3>4
    <3>6. QED
      BY <3>5
  <2>11. QED
    BY <2>1, <2>8, <2>9, <2>10 DEF wanted, n, k
<1>2. QED
  BY <1>1 DEF NewestAreListed

------------------------------------------------------------------------------
(* The queue in the database implements the one in memory. *)

LEMMA MapsInsert ==
  ASSUME DlqInv, NEW c \in DlqCallers, InsertRow(c)
  PROVE  Memory!MemoryDlqNext
<1> DEFINE held == dlqCall[c]
<1>1. /\ held.id \in FailedIds /\ held.source \in FailedSources
      /\ held.now \in 1..MaxDlqCalls /\ held.id \notin DOMAIN dlqRows
  BY InsertsNew, DeadLettersAssumption DEF InsertRow, DlqInv, ClockOK
<1>2. Memory!enqueue(held.id, held.source, held.now)
  BY <1>1 DEF InsertRow, WithRow, Row, Memory!enqueue
<1>3. QED
  BY <1>1, <1>2 DEF Memory!MemoryDlqNext

\* The step of the update is a step of the queue in memory, or none when the row is gone.
LEMMA MapsUpdate ==
  ASSUME DlqInv, NEW c \in DlqCallers, update_status(c)
  PROVE  Memory!MemoryDlqNext \/ UNCHANGED dlqRows
<1> DEFINE held == dlqCall[c]
           id == held.id
<1>1. id \in FailedIds /\ held.now \in 1..dlqNow /\ held.now \in 1..MaxDlqCalls
  BY UpdateWrites, DeadLettersAssumption DEF DlqInv, ClockOK
<1>2. CASE id \in DOMAIN dlqRows
  <2>1. dlqRows' = [dlqRows EXCEPT ![id] = Marked(held)] /\ dlqRows[id] \in DlqRow
    BY <1>2, UpdateWrites, DlqFacts
  <2>2. Marked(held) = [dlqRows[id] EXCEPT !.status = "retried", !.at = held.now, !.retries = @ + 1]
    <3> DEFINE row == dlqRows[id]
    <3>1. Marked(held) = Row(row.source, "retried", row.retries + 1, held.now)
      BY <1>1, <2>1, MarkedRow
    <3>2. [row EXCEPT !.status = "retried", !.at = held.now, !.retries = @ + 1]
            = Row(row.source, "retried", row.retries + 1, held.now)
      BY <2>1, RowChanged
    <3>3. QED
      BY <3>1, <3>2
  <2>3. dlqRows' = [dlqRows EXCEPT ![id].status = "retried", ![id].at = held.now, ![id].retries = @ + 1]
    <3> DEFINE D1 == [dlqRows EXCEPT ![id].status = "retried"]
               D2 == [D1 EXCEPT ![id].at = held.now]
               D3 == [D2 EXCEPT ![id].retries = @ + 1]
    <3>1. D1 = [dlqRows EXCEPT ![id] = [dlqRows[id] EXCEPT !.status = "retried"]]
      OBVIOUS
    <3>2. D2 = [dlqRows EXCEPT ![id] = [dlqRows[id] EXCEPT !.status = "retried", !.at = held.now]]
      BY <1>2, <3>1
    <3> HIDE DEF D2
    <3>3. D3 = [dlqRows EXCEPT ![id] =
                  [dlqRows[id] EXCEPT !.status = "retried", !.at = held.now, !.retries = @ + 1]]
      BY <1>2, <3>2
    <3>4. QED
      BY <2>1, <2>2, <3>3 DEF D2
  <2>4. Memory!update_status(id, "retried", held.now)
    BY <1>2, <2>3 DEF Memory!update_status
  <2>5. QED
    BY <1>1, <2>4 DEF Memory!MemoryDlqNext
<1>3. CASE id \notin DOMAIN dlqRows
  BY <1>3, UpdateWrites
<1>4. QED
  BY <1>2, <1>3

LEMMA MapsDelete ==
  ASSUME DlqInv, NEW c \in DlqCallers, NEW id \in FailedIds, delete_dlq_item(c, id)
  PROVE  Memory!MemoryDlqNext
<1>1. Memory!delete_item(id)
  BY DEF delete_dlq_item, Memory!delete_item
<1>2. 1 \in 1..MaxDlqCalls
  BY DeadLettersAssumption DEF delete_dlq_item, BeginCall, DlqInv, ClockOK
<1>3. QED
  BY <1>1, <1>2 DEF Memory!MemoryDlqNext

LEMMA DlqStepMaps ==
  ASSUME DlqInv, [DeadLettersNext]_dlqVars
  PROVE  [Memory!MemoryDlqNext]_dlqRows
<1>1. ASSUME NEW c \in DlqCallers, NEW id \in FailedIds, NEW src \in FailedSources,
             Enqueue(c, id, src)
      PROVE  UNCHANGED dlqRows
  BY <1>1 DEF Enqueue
<1>2. ASSUME NEW c \in DlqCallers, NEW id \in FailedIds, retry_dlq_item(c, id)
      PROVE  UNCHANGED dlqRows
  BY <1>2 DEF retry_dlq_item
<1>3. ASSUME NEW c \in DlqCallers, Reread(c) \/ Retried(c)
      PROVE  UNCHANGED dlqRows
  BY <1>3 DEF Reread, Retried
<1>4. QED
  BY <1>1, <1>2, <1>3, MapsInsert, MapsUpdate, MapsDelete DEF DeadLettersNext, dlqVars

\* Whatever calls overlap, each takes effect as one step of the queue in memory or not at
\* all (PgDLQAdapter against MemoryDLQAdapter in dlq.py).
THEOREM ImplementsMemoryDlq == DeadLettersSpec => ActsLikeMemory
<1>1. DeadLettersInit => Memory!MemoryDlqInit
  BY DEF DeadLettersInit, Memory!MemoryDlqInit
<1>2. DlqInv /\ [DeadLettersNext]_dlqVars => [Memory!MemoryDlqNext]_dlqRows
  BY DlqStepMaps
<1>3. QED
  BY DlqInvariance, <1>1, <1>2, PTL DEF DeadLettersSpec, ActsLikeMemory, Memory!MemoryDlqSpec

------------------------------------------------------------------------------
(* The secrets. *)

\* An envelope that is still under the keys it names, when active is the active
\* master key, n the number of values so far and spoilt the values that are mixed.
Sealed(row, active, n, spoilt) ==
  /\ row \in SecretRow
  /\ row.wrappedBy = row.keyId /\ row.keyId \in 1 .. active
  /\ row.valueKey = row.value /\ row.value \in 1 .. n
  /\ row.value \notin spoilt => row.dataKey = row.value

\* What a rotation holds.
Copies(run) == run.rows \cup ({run.next} \ {None})

RowsOf(o) == {row \in secretRows : row.owner = o}

KeysOK ==
  /\ activeKey \in 1 .. MaxKeys /\ masterKeys = 1 .. activeKey
  /\ sets \in Nat /\ lastSet \in [Owners -> Nat]
  /\ setting = [s \in Setters |-> setting[s]] /\ rotating = [r \in Rotators |-> rotating[r]]

TableSealed == \A row \in secretRows : Sealed(row, activeKey, sets, mixed)

SettingSealed ==
  \A s \in Setters : setting[s] # None => Sealed(setting[s], activeKey, sets, mixed)

CopiesSealed ==
  \A r \in Rotators : rotating[r] # None =>
    /\ rotating[r] \in Rotation
    /\ \A row \in Copies(rotating[r]) : Sealed(row, activeKey, sets, mixed)

\* A secret of a tenant has one row as long as it exists.
OneRow ==
  \A o \in Owners : o[2] # None =>
    IF lastSet[o] = 0 THEN RowsOf(o) = {} ELSE \E row : RowsOf(o) = {row}

VaultInv ==
  KeysOK /\ TableSealed /\ SettingSealed /\ CopiesSealed /\ SecretIsLast /\ OneRow

\* The value of a call that has not stored it yet is in no row, was in none when a
\* rotation began, and is that of no other call.
FreshValues ==
  \A s \in Setters : setting[s] # None =>
    /\ \A row \in secretRows : row.value # setting[s].value
    /\ \A r \in Rotators : rotating[r] # None => setting[s].value \notin rotating[r].known
    /\ \A t \in Setters \ {s} : setting[t] # None => setting[t].value # setting[s].value

\* Nothing that a rotation is about to write back is older than what another began with.
Floor ==
  \A r \in Rotators : rotating[r] # None =>
    /\ rotating[r].since <= activeKey
    /\ \A q \in Rotators : rotating[q] # None /\ rotating[q].next # None =>
         rotating[q].next.keyId >= rotating[r].since

\* A row a rotation has found is as new as its beginning, or its owner is still to do.
LeftToDo ==
  \A r \in Rotators : rotating[r] # None =>
    \A row \in secretRows :
      row.owner[2] # None /\ row.value \in rotating[r].known =>
        \/ row.keyId >= rotating[r].since
        \/ \E copy \in Copies(rotating[r]) : copy.owner = row.owner

KnownSet ==
  \A r \in Rotators : rotating[r] # None => rotating[r].known \subseteq 1 .. sets

RotationInv == VaultInv /\ FreshValues /\ Floor /\ LeftToDo /\ KnownSet
------------------------------------------------------------------------------
(* Envelopes. *)

LEMMA SealedStays ==
  ASSUME NEW row, NEW a \in Nat, NEW b \in Nat, NEW m \in Nat, NEW n \in Nat,
         NEW spoilt, NEW more, Sealed(row, a, m, spoilt), a <= b, m <= n, spoilt \subseteq more
  PROVE  Sealed(row, b, n, more)
BY DEF Sealed

LEMMA Bounds == VaultInv => activeKey \in Nat \ {0} /\ sets \in Nat /\ MaxKeys \in Nat
BY SecretAssumption DEF VaultInv, KeysOK

LEMMA EnvelopeSealed ==
  ASSUME VaultInv, NEW owner \in Owners
  PROVE  /\ Sealed(Envelope(owner, sets + 1), activeKey, sets + 1, mixed)
         /\ Envelope(owner, sets + 1).value = sets + 1
         /\ Envelope(owner, sets + 1).owner = owner
<1>1. sets + 1 \in Nat /\ sets + 1 \in 1 .. sets + 1 /\ activeKey \in 1 .. activeKey /\ activeKey \in Nat
  BY Bounds
<1>2. QED
  BY <1>1 DEF Envelope, Sealed, SecretRow

\* What is sealed stays so as keys, values and the mixed values only grow.
LEMMA AllStaySealed ==
  ASSUME VaultInv, NEW b \in Nat, NEW n \in Nat, NEW more,
         activeKey <= b, sets <= n, mixed \subseteq more
  PROVE  /\ \A row \in secretRows : Sealed(row, b, n, more)
         /\ \A s \in Setters : setting[s] # None => Sealed(setting[s], b, n, more)
         /\ \A r \in Rotators : rotating[r] # None =>
              \A row \in Copies(rotating[r]) : Sealed(row, b, n, more)
BY SealedStays, Bounds DEF VaultInv, TableSealed, SettingSealed, CopiesSealed

LEMMA NextChanged ==
  ASSUME NEW row \in SecretRow, NEW key \in Nat
  PROVE  /\ [row EXCEPT !.keyId = key, !.wrappedBy = key] \in SecretRow
         /\ [row EXCEPT !.keyId = key, !.wrappedBy = key].owner = row.owner
         /\ [row EXCEPT !.keyId = key, !.wrappedBy = key].value = row.value
         /\ [row EXCEPT !.keyId = key, !.wrappedBy = key].valueKey = row.valueKey
         /\ [row EXCEPT !.keyId = key, !.wrappedBy = key].dataKey = row.dataKey
         /\ [row EXCEPT !.keyId = key, !.wrappedBy = key].keyId = key
         /\ [row EXCEPT !.keyId = key, !.wrappedBy = key].wrappedBy = key
BY DEF SecretRow

LEMMA UpdatedRow ==
  ASSUME NEW row \in SecretRow, NEW new \in SecretRow
  PROVE  /\ Updated(row, new) \in SecretRow
         /\ Updated(row, new).owner = row.owner /\ Updated(row, new).value = row.value
         /\ Updated(row, new).valueKey = row.valueKey /\ Updated(row, new).dataKey = new.dataKey
         /\ Updated(row, new).keyId = new.keyId /\ Updated(row, new).wrappedBy = new.wrappedBy
BY DEF SecretRow, Updated

LEMMA RowsChanged ==
  ASSUME NEW run \in Rotation, NEW rows \in SUBSET SecretRow
  PROVE  /\ [run EXCEPT !.rows = rows] \in Rotation
         /\ [run EXCEPT !.rows = rows].rows = rows /\ [run EXCEPT !.rows = rows].next = run.next
         /\ [run EXCEPT !.rows = rows].known = run.known
         /\ [run EXCEPT !.rows = rows].since = run.since
BY DEF Rotation

LEMMA NextRowChanged ==
  ASSUME NEW run \in Rotation, NEW next \in SecretRow \cup {None}
  PROVE  /\ [run EXCEPT !.next = next] \in Rotation
         /\ [run EXCEPT !.next = next].rows = run.rows /\ [run EXCEPT !.next = next].next = next
         /\ [run EXCEPT !.next = next].known = run.known
         /\ [run EXCEPT !.next = next].since = run.since
BY DEF Rotation

LEMMA VaultStarts == SecretInit => RotationInv
<1> SUFFICES ASSUME SecretInit PROVE RotationInv
  OBVIOUS
<1>1. KeysOK
  BY SecretAssumption DEF SecretInit, KeysOK
<1>2. /\ secretRows = {} /\ \A s \in Setters : setting[s] = None
      /\ \A r \in Rotators : rotating[r] = None
  BY DEF SecretInit
<1>3. OneRow
  BY DEF SecretInit, OneRow, RowsOf
<1>4. QED
  BY <1>1, <1>2, <1>3 DEF RotationInv, VaultInv, TableSealed, SettingSealed, CopiesSealed,
     SecretIsLast, FreshValues, Floor, LeftToDo, KnownSet

------------------------------------------------------------------------------
(* The calls keep the envelopes sealed. *)

LEMMA RotateKeySeals == ASSUME VaultInv, rotate_key PROVE VaultInv'
<1>1. /\ activeKey < MaxKeys /\ activeKey' = activeKey + 1
      /\ masterKeys' = masterKeys \cup {activeKey + 1}
      /\ UNCHANGED <<secretRows, setting, rotating, mixed, lastSet, sets, rotations>>
  BY DEF rotate_key
<1>2. activeKey \in Nat \ {0} /\ sets \in Nat /\ MaxKeys \in Nat
  BY Bounds
<1>3. masterKeys' = 1 .. activeKey'
  <2>1. (1 .. activeKey) \cup {activeKey + 1} = 1 .. (activeKey + 1)
    BY <1>2
  <2>2. QED
    BY <1>1, <2>1 DEF VaultInv, KeysOK
<1>4. KeysOK'
  BY <1>1, <1>2, <1>3 DEF VaultInv, KeysOK
<1>5. TableSealed' /\ SettingSealed' /\ CopiesSealed'
  <2>1. activeKey + 1 \in Nat /\ activeKey <= activeKey + 1
    BY <1>2
  <2>2. QED
    BY <1>1, <1>2, <2>1, AllStaySealed DEF TableSealed, SettingSealed, CopiesSealed, VaultInv
<1>6. SecretIsLast' /\ OneRow'
  BY <1>1 DEF VaultInv, SecretIsLast, OneRow, RowsOf
<1>7. QED
  BY <1>4, <1>5, <1>6 DEF VaultInv

LEMMA SetSecretSeals ==
  ASSUME VaultInv, NEW s \in Setters, NEW owner \in Owners, set_secret(s, owner)
  PROVE  VaultInv'
<1> DEFINE new == Envelope(owner, sets + 1)
<1>1. /\ sets' = sets + 1 /\ setting' = [setting EXCEPT ![s] = new]
      /\ UNCHANGED <<secretRows, masterKeys, activeKey, rotating, mixed, lastSet, rotations>>
  BY DEF set_secret
<1>2. Sealed(new, activeKey, sets + 1, mixed)
  BY EnvelopeSealed
<1> HIDE DEF new
<1>3. activeKey \in Nat /\ sets \in Nat /\ sets + 1 \in Nat /\ sets <= sets + 1
  BY Bounds
<1>4. KeysOK'
  BY <1>1, <1>3 DEF VaultInv, KeysOK
<1>5. TableSealed' /\ CopiesSealed'
  BY <1>1, <1>3, AllStaySealed DEF TableSealed, CopiesSealed, VaultInv
<1>6. SettingSealed'
  <2>1. \A t \in Setters : setting'[t] = IF t = s THEN new ELSE setting[t]
    BY <1>1 DEF VaultInv, KeysOK
  <2>2. QED
    BY <1>1, <1>2, <1>3, <2>1, AllStaySealed DEF SettingSealed
<1>7. SecretIsLast' /\ OneRow'
  BY <1>1 DEF VaultInv, SecretIsLast, OneRow, RowsOf
<1>8. QED
  BY <1>4, <1>5, <1>6, <1>7 DEF VaultInv

LEMMA InsertSeals == ASSUME VaultInv, NEW s \in Setters, Insert(s) PROVE VaultInv'
<1> DEFINE new == setting[s]
<1>1. /\ new # None
      /\ secretRows' = (secretRows \ Replaced(new.owner)) \cup {new}
      /\ lastSet' = [lastSet EXCEPT ![new.owner] = new.value]
      /\ setting' = [setting EXCEPT ![s] = None]
      /\ UNCHANGED <<masterKeys, activeKey, rotating, mixed, sets, rotations>>
  BY DEF Insert
<1>2. Sealed(new, activeKey, sets, mixed)
  BY <1>1 DEF VaultInv, SettingSealed
<1>3. new.owner \in Owners /\ new.value \in Nat /\ new.value # 0
  BY <1>2 DEF Sealed, SecretRow
<1> HIDE DEF new
<1>4. \A t \in Setters : setting'[t] = IF t = s THEN None ELSE setting[t]
  BY <1>1 DEF VaultInv, KeysOK
<1>5. \A o \in Owners : lastSet'[o] = IF o = new.owner THEN new.value ELSE lastSet[o]
  BY <1>1 DEF VaultInv, KeysOK
<1>6. KeysOK'
  BY <1>1, <1>3 DEF VaultInv, KeysOK
<1>7. TableSealed' /\ SettingSealed' /\ CopiesSealed'
  BY <1>1, <1>2, <1>4 DEF VaultInv, TableSealed, SettingSealed, CopiesSealed
<1>8. \A row \in secretRows : row.owner \in Owners
  BY DEF VaultInv, TableSealed, Sealed, SecretRow
<1>9. SecretIsLast'
  <2> SUFFICES ASSUME NEW row \in secretRows', row.owner[2] # None
               PROVE  row.value = lastSet'[row.owner]
    BY DEF SecretIsLast
  <2>1. CASE row = new
    BY <1>3, <1>5, <2>1
  <2>2. CASE row \in secretRows \ Replaced(new.owner)
    <3>1. row.value = lastSet[row.owner] /\ row.owner # new.owner
      BY <2>2 DEF VaultInv, SecretIsLast, Replaced
    <3>2. QED
      BY <1>5, <1>8, <2>2, <3>1
  <2>3. QED
    BY <1>1, <2>1, <2>2
<1>10. OneRow'
  <2> SUFFICES ASSUME NEW o \in Owners, o[2] # None
               PROVE  IF lastSet'[o] = 0 THEN RowsOf(o)' = {} ELSE \E row : RowsOf(o)' = {row}
    BY DEF OneRow
  <2>1. CASE o = new.owner
    <3>1. RowsOf(o)' = {new}
      BY <1>1, <2>1 DEF RowsOf, Replaced
    <3>2. QED
      BY <1>3, <1>5, <2>1, <3>1
  <2>2. CASE o # new.owner
    <3>1. RowsOf(o)' = RowsOf(o)
      BY <1>1, <2>2 DEF RowsOf, Replaced
    <3>2. QED
      BY <1>5, <2>2, <3>1 DEF VaultInv, OneRow
  <2>3. QED
    BY <2>1, <2>2
<1>11. QED
  BY <1>6, <1>7, <1>9, <1>10 DEF VaultInv

LEMMA DeleteSeals == ASSUME VaultInv, NEW owner \in Owners, delete_secret(owner) PROVE VaultInv'
<1>1. /\ secretRows' = {row \in secretRows : row.owner # owner}
      /\ lastSet' = [lastSet EXCEPT ![owner] = 0]
      /\ UNCHANGED <<masterKeys, activeKey, setting, rotating, mixed, sets, rotations>>
  BY DEF delete_secret
<1>2. \A o \in Owners : lastSet'[o] = IF o = owner THEN 0 ELSE lastSet[o]
  BY <1>1 DEF VaultInv, KeysOK
<1>3. KeysOK'
  BY <1>1 DEF VaultInv, KeysOK
<1>4. TableSealed' /\ SettingSealed' /\ CopiesSealed'
  BY <1>1 DEF VaultInv, TableSealed, SettingSealed, CopiesSealed
<1>5. \A row \in secretRows : row.owner \in Owners
  BY DEF VaultInv, TableSealed, Sealed, SecretRow
<1>6. SecretIsLast'
  BY <1>1, <1>2, <1>5 DEF VaultInv, SecretIsLast
<1>7. OneRow'
  <2> SUFFICES ASSUME NEW o \in Owners, o[2] # None
               PROVE  IF lastSet'[o] = 0 THEN RowsOf(o)' = {} ELSE \E row : RowsOf(o)' = {row}
    BY DEF OneRow
  <2>1. CASE o = owner
    BY <1>1, <1>2, <2>1 DEF RowsOf
  <2>2. CASE o # owner
    <3>1. RowsOf(o)' = RowsOf(o)
      BY <1>1, <2>2 DEF RowsOf
    <3>2. QED
      BY <1>2, <2>2, <3>1 DEF VaultInv, OneRow
  <2>3. QED
    BY <2>1, <2>2
<1>8. QED
  BY <1>3, <1>4, <1>6, <1>7 DEF VaultInv
------------------------------------------------------------------------------
(* Rotations. *)

\* The oldest of some keys.
Oldest(keys) == CHOOSE k \in keys : \A j \in keys : k <= j

LEMMA OldestIsLeast ==
  ASSUME NEW keys \in SUBSET Nat, keys # {}
  PROVE  Oldest(keys) \in keys /\ \A j \in keys : Oldest(keys) <= j
<1>1. PICK R : (\A a, b \in Nat : <<a, b>> \in R <=> a < b) /\ IsWellFoundedOn(R, Nat)
  BY OrderWellFounded
<1>2. PICK k \in keys : \A j \in keys : ~ (<<j, k>> \in R)
  BY <1>1, HasMinimum
<1>3. ASSUME NEW j \in keys PROVE k <= j
  <2>1. k \in Nat /\ j \in Nat /\ ~ (j < k)
    BY <1>1, <1>2
  <2>2. QED
    BY <2>1
<1>4. QED
  BY <1>3 DEF Oldest

Begun == {activeKey} \cup {rotating[q].since : q \in {p \in Rotators : rotating[p] # None}}

\* What a rotation starts with.
LEMMA StartRun ==
  ASSUME VaultInv, NEW r \in Rotators, rotate_all_secrets(r)
  PROVE  LET run == rotating'[r] IN
         /\ rotating[r] = None /\ run \in Rotation
         /\ run.rows = Outdated /\ run.next = None
         /\ run.known = {row.value : row \in secretRows}
         /\ run.since \in Nat /\ run.since \in Begun /\ \A k \in Begun : run.since <= k
         /\ \A q \in Rotators \ {r} : rotating'[q] = rotating[q]
         /\ rotating' = [q \in Rotators |-> rotating'[q]]
         /\ UNCHANGED <<secretRows, masterKeys, activeKey, setting, mixed, lastSet, sets>>
<1> DEFINE run == [rows |-> Outdated, next |-> None, known |-> {row.value : row \in secretRows},
                   since |-> Oldest(Begun)]
<1>1. /\ rotating[r] = None /\ rotating' = [rotating EXCEPT ![r] = run]
      /\ UNCHANGED <<secretRows, masterKeys, activeKey, setting, mixed, lastSet, sets>>
  BY DEF rotate_all_secrets, Oldest, Begun
<1>2. /\ run.rows = Outdated /\ run.next = None /\ run.since = Oldest(Begun)
      /\ run.known = {row.value : row \in secretRows}
  OBVIOUS
<1>3. /\ rotating'[r] = run /\ \A q \in Rotators \ {r} : rotating'[q] = rotating[q]
      /\ rotating' = [q \in Rotators |-> rotating'[q]]
  BY <1>1 DEF VaultInv, KeysOK
<1>4. \A row \in secretRows : row \in SecretRow /\ row.value \in Nat
  BY DEF VaultInv, TableSealed, Sealed, SecretRow
<1>5. Begun \in SUBSET Nat /\ Begun # {}
  BY Bounds DEF Begun, VaultInv, CopiesSealed, Rotation
<1>6. Oldest(Begun) \in Begun /\ \A k \in Begun : Oldest(Begun) <= k
  BY <1>5, OldestIsLeast
<1>7. run \in Rotation
  <2>1. Outdated \in SUBSET SecretRow /\ {row.value : row \in secretRows} \in SUBSET Nat
    BY <1>4 DEF Outdated
  <2>2. Oldest(Begun) \in Nat
    BY <1>5, <1>6
  <2>3. QED
    BY <2>1, <2>2 DEF Rotation
<1> HIDE DEF run
<1>8. QED
  BY <1>1, <1>2, <1>3, <1>5, <1>6, <1>7

LEMMA StartSeals == ASSUME VaultInv, NEW r \in Rotators, rotate_all_secrets(r) PROVE VaultInv'
<1> DEFINE run == rotating'[r]
<1>1. /\ run \in Rotation /\ run.rows = Outdated /\ run.next = None
      /\ \A q \in Rotators \ {r} : rotating'[q] = rotating[q]
      /\ rotating' = [q \in Rotators |-> rotating'[q]]
      /\ UNCHANGED <<secretRows, masterKeys, activeKey, setting, mixed, lastSet, sets>>
  BY StartRun
<1>2. \A row \in Copies(run) : Sealed(row, activeKey, sets, mixed)
  BY <1>1 DEF Copies, Outdated, VaultInv, TableSealed
<1>3. CopiesSealed'
  BY <1>1, <1>2 DEF VaultInv, CopiesSealed
<1>4. KeysOK' /\ TableSealed' /\ SettingSealed' /\ SecretIsLast' /\ OneRow'
  BY <1>1 DEF VaultInv, KeysOK, TableSealed, SettingSealed, SecretIsLast, OneRow, RowsOf
<1>5. QED
  BY <1>3, <1>4 DEF VaultInv

\* What the next row of a rotation becomes, and what the rotation holds then.
LEMMA RewrapRun ==
  ASSUME VaultInv, NEW r \in Rotators, Rewrap(r)
  PROVE  \E row \in rotating[r].rows :
           /\ rotating[r] # None /\ rotating[r] \in Rotation /\ rotating[r].next = None
           /\ row \in SecretRow /\ Sealed(row, activeKey, sets, mixed)
           /\ LET new == [row EXCEPT !.keyId = activeKey, !.wrappedBy = activeKey]
                  run == rotating'[r] IN
              /\ run \in Rotation /\ run.rows = rotating[r].rows \ {row} /\ run.next = new
              /\ run.known = rotating[r].known /\ run.since = rotating[r].since
           /\ \A q \in Rotators \ {r} : rotating'[q] = rotating[q]
           /\ rotating' = [q \in Rotators |-> rotating'[q]]
           /\ UNCHANGED <<secretRows, masterKeys, activeKey, setting, mixed, lastSet, sets>>
<1>1. PICK row \in rotating[r].rows :
        /\ rotating[r] # None /\ rotating[r].next = None
        /\ rotating' = [rotating EXCEPT ![r].rows = @ \ {row},
                                        ![r].next = [row EXCEPT !.keyId = activeKey,
                                                                !.wrappedBy = activeKey]]
        /\ UNCHANGED <<secretRows, masterKeys, activeKey, setting, mixed, lastSet, sets>>
  BY DEF Rewrap
<1>2. rotating[r] \in Rotation /\ row \in SecretRow /\ Sealed(row, activeKey, sets, mixed)
  BY <1>1 DEF VaultInv, CopiesSealed, Copies, Sealed
<1> DEFINE new == [row EXCEPT !.keyId = activeKey, !.wrappedBy = activeKey]
           rest == rotating[r].rows \ {row}
<1>3. new \in SecretRow \cup {None} /\ rest \in SUBSET SecretRow
  BY <1>2, NextChanged, Bounds DEF Rotation
<1> HIDE DEF new, rest
<1> DEFINE fewer == [rotating[r] EXCEPT !.rows = rest]
           held == [fewer EXCEPT !.next = new]
<1>4. rotating'[r] = held
  BY <1>1 DEF VaultInv, KeysOK, new, rest
<1>5. /\ fewer \in Rotation /\ fewer.rows = rest
      /\ fewer.known = rotating[r].known /\ fewer.since = rotating[r].since
  BY <1>2, <1>3, RowsChanged
<1> HIDE DEF fewer
<1>6. /\ held \in Rotation /\ held.rows = fewer.rows /\ held.next = new
      /\ held.known = fewer.known /\ held.since = fewer.since
  BY <1>3, <1>5, NextRowChanged
<1> HIDE DEF held
<1>7. /\ \A q \in Rotators \ {r} : rotating'[q] = rotating[q]
      /\ rotating' = [q \in Rotators |-> rotating'[q]]
  BY <1>1 DEF VaultInv, KeysOK
<1>8. /\ rotating'[r] \in Rotation /\ rotating'[r].rows = rest /\ rotating'[r].next = new
      /\ rotating'[r].known = rotating[r].known /\ rotating'[r].since = rotating[r].since
  BY <1>4, <1>5, <1>6
<1>9. QED
  BY <1>1, <1>2, <1>7, <1>8 DEF new, rest

LEMMA RewrapSeals == ASSUME VaultInv, NEW r \in Rotators, Rewrap(r) PROVE VaultInv'
<1>1. PICK row \in rotating[r].rows :
        /\ row \in SecretRow /\ Sealed(row, activeKey, sets, mixed)
        /\ rotating[r] # None
        /\ LET new == [row EXCEPT !.keyId = activeKey, !.wrappedBy = activeKey]
               run == rotating'[r] IN
           run \in Rotation /\ run.rows = rotating[r].rows \ {row} /\ run.next = new
        /\ \A q \in Rotators \ {r} : rotating'[q] = rotating[q]
        /\ rotating' = [q \in Rotators |-> rotating'[q]]
        /\ UNCHANGED <<secretRows, masterKeys, activeKey, setting, mixed, lastSet, sets>>
  BY RewrapRun
<1>2. Sealed([row EXCEPT !.keyId = activeKey, !.wrappedBy = activeKey], activeKey, sets, mixed)
  <2> DEFINE new == [row EXCEPT !.keyId = activeKey, !.wrappedBy = activeKey]
  <2>1. activeKey \in Nat /\ activeKey \in 1 .. activeKey
    BY Bounds
  <2>2. /\ new \in SecretRow /\ new.keyId = activeKey /\ new.wrappedBy = activeKey
        /\ new.value = row.value /\ new.valueKey = row.valueKey /\ new.dataKey = row.dataKey
    BY <1>1, <2>1, NextChanged
  <2> HIDE DEF new
  <2>3. Sealed(new, activeKey, sets, mixed)
    BY <1>1, <2>1, <2>2 DEF Sealed
  <2>4. QED
    BY <2>3 DEF new
<1>3. \A copy \in Copies(rotating'[r]) : Sealed(copy, activeKey, sets, mixed)
  BY <1>1, <1>2 DEF Copies, VaultInv, CopiesSealed
<1>4. CopiesSealed'
  BY <1>1, <1>3 DEF VaultInv, CopiesSealed
<1>5. KeysOK' /\ TableSealed' /\ SettingSealed' /\ SecretIsLast' /\ OneRow'
  BY <1>1 DEF VaultInv, KeysOK, TableSealed, SettingSealed, SecretIsLast, OneRow, RowsOf
<1>6. QED
  BY <1>4, <1>5 DEF VaultInv
\* What an update makes of the table and of the rotation.
LEMMA UpdateRun ==
  ASSUME VaultInv, NEW r \in Rotators, Update(r)
  PROVE  LET new == rotating[r].next
             hit == {row \in secretRows : row.owner = new.owner /\ row.owner[2] # None}
             run == rotating'[r] IN
         /\ rotating[r] # None /\ rotating[r] \in Rotation
         /\ new # None /\ new \in SecretRow /\ Sealed(new, activeKey, sets, mixed)
         /\ secretRows' = (secretRows \ hit) \cup {Updated(row, new) : row \in hit}
         /\ mixed' = mixed \cup {row.value : row \in {h \in hit : h.value # new.value}}
         /\ run \in Rotation /\ run.rows = rotating[r].rows /\ run.next = None
         /\ run.known = rotating[r].known /\ run.since = rotating[r].since
         /\ \A q \in Rotators \ {r} : rotating'[q] = rotating[q]
         /\ rotating' = [q \in Rotators |-> rotating'[q]]
         /\ UNCHANGED <<masterKeys, activeKey, setting, lastSet, sets>>
<1> DEFINE new == rotating[r].next
           hit == {row \in secretRows : row.owner = new.owner /\ row.owner[2] # None}
<1>1. /\ rotating[r] # None /\ new # None
      /\ secretRows' = (secretRows \ hit) \cup {Updated(row, new) : row \in hit}
      /\ mixed' = mixed \cup {row.value : row \in {h \in hit : h.value # new.value}}
      /\ rotating' = [rotating EXCEPT ![r].next = None]
      /\ UNCHANGED <<masterKeys, activeKey, setting, lastSet, sets>>
  BY DEF Update
<1>2. rotating[r] \in Rotation
  BY <1>1 DEF VaultInv, CopiesSealed
<1>3. Sealed(new, activeKey, sets, mixed) /\ new \in SecretRow
  BY <1>1 DEF VaultInv, CopiesSealed, Copies, Sealed
<1>4. rotating'[r] = [rotating[r] EXCEPT !.next = None]
  BY <1>1 DEF VaultInv, KeysOK
<1>5. /\ \A q \in Rotators \ {r} : rotating'[q] = rotating[q]
      /\ rotating' = [q \in Rotators |-> rotating'[q]]
  BY <1>1 DEF VaultInv, KeysOK
<1>6. /\ rotating'[r] \in Rotation /\ rotating'[r].rows = rotating[r].rows
      /\ rotating'[r].next = None
      /\ rotating'[r].known = rotating[r].known /\ rotating'[r].since = rotating[r].since
  BY <1>2, <1>4, NextRowChanged
<1>7. QED
  BY <1>1, <1>2, <1>3, <1>5, <1>6

\* A row that is updated has the key of the copy, and opens unless the copy is older.
LEMMA UpdateSeals == ASSUME VaultInv, NEW r \in Rotators, Update(r) PROVE VaultInv'
<1> DEFINE new == rotating[r].next
           hit == {row \in secretRows : row.owner = new.owner /\ row.owner[2] # None}
           older == {row.value : row \in {h \in hit : h.value # new.value}}
<1>1. /\ rotating[r] # None /\ new \in SecretRow /\ Sealed(new, activeKey, sets, mixed)
      /\ secretRows' = (secretRows \ hit) \cup {Updated(row, new) : row \in hit}
      /\ mixed' = mixed \cup older
      /\ rotating'[r] \in Rotation /\ rotating'[r].rows = rotating[r].rows
      /\ rotating'[r].next = None
      /\ \A q \in Rotators \ {r} : rotating'[q] = rotating[q]
      /\ rotating' = [q \in Rotators |-> rotating'[q]]
      /\ UNCHANGED <<masterKeys, activeKey, setting, lastSet, sets>>
  BY UpdateRun
<1>2. activeKey \in Nat /\ sets \in Nat /\ mixed \subseteq mixed'
  BY <1>1, Bounds
<1>3. /\ \A row \in secretRows : Sealed(row, activeKey, sets, mixed')
      /\ \A s \in Setters : setting[s] # None => Sealed(setting[s], activeKey, sets, mixed')
      /\ \A q \in Rotators : rotating[q] # None =>
           \A row \in Copies(rotating[q]) : Sealed(row, activeKey, sets, mixed')
  BY <1>2, AllStaySealed
<1>4. ASSUME NEW row \in hit
      PROVE  /\ Sealed(Updated(row, new), activeKey, sets, mixed')
             /\ Updated(row, new).owner = row.owner /\ Updated(row, new).value = row.value
  <2>1. row \in SecretRow /\ Sealed(row, activeKey, sets, mixed')
    BY <1>3 DEF Sealed
  <2>2. /\ Updated(row, new) \in SecretRow
        /\ Updated(row, new).owner = row.owner /\ Updated(row, new).value = row.value
        /\ Updated(row, new).valueKey = row.valueKey /\ Updated(row, new).dataKey = new.dataKey
        /\ Updated(row, new).keyId = new.keyId /\ Updated(row, new).wrappedBy = new.wrappedBy
    BY <1>1, <2>1, UpdatedRow
  <2>3. row.value \notin mixed' => new.value = row.value /\ new.value \notin mixed
    BY <1>1
  <2>4. QED
    BY <1>1, <2>1, <2>2, <2>3 DEF Sealed
<1> HIDE DEF hit, older
<1>5. TableSealed'
  BY <1>1, <1>3, <1>4 DEF TableSealed
<1>6. SettingSealed'
  BY <1>1, <1>3 DEF SettingSealed
<1>7. CopiesSealed'
  <2>1. \A row \in Copies(rotating'[r]) : Sealed(row, activeKey, sets, mixed')
    BY <1>1, <1>3 DEF Copies
  <2>2. QED
    BY <1>1, <1>3, <2>1 DEF VaultInv, CopiesSealed
<1>8. KeysOK'
  BY <1>1 DEF VaultInv, KeysOK
<1>9. SecretIsLast'
  BY <1>1, <1>4 DEF VaultInv, SecretIsLast, hit
<1>10. OneRow'
  <2> SUFFICES ASSUME NEW o \in Owners, o[2] # None
               PROVE  IF lastSet[o] = 0 THEN RowsOf(o)' = {} ELSE \E row : RowsOf(o)' = {row}
    BY <1>1 DEF OneRow
  <2>1. hit = IF new.owner[2] = None THEN {} ELSE RowsOf(new.owner)
    BY DEF hit, RowsOf
  <2>2. CASE o = new.owner
    <3>1. hit = RowsOf(o)
      BY <2>1, <2>2
    <3>2. RowsOf(o)' = {Updated(row, new) : row \in RowsOf(o)}
      BY <1>1, <1>4, <3>1 DEF RowsOf
    <3>3. CASE lastSet[o] = 0
      <4>1. RowsOf(o) = {}
        BY <3>3 DEF VaultInv, OneRow
      <4>2. QED
        BY <3>2, <3>3, <4>1
    <3>4. CASE lastSet[o] # 0
      <4>1. PICK row : RowsOf(o) = {row}
        BY <3>4 DEF VaultInv, OneRow
      <4>2. RowsOf(o)' = {Updated(row, new)}
        BY <3>2, <4>1
      <4>3. QED
        BY <3>4, <4>2
    <3>5. QED
      BY <3>3, <3>4
  <2>3. CASE o # new.owner
    <3>1. RowsOf(o)' = RowsOf(o)
      BY <1>1, <1>4, <2>3 DEF RowsOf, hit
    <3>2. QED
      BY <3>1 DEF VaultInv, OneRow
  <2>4. QED
    BY <2>2, <2>3
<1>11. QED
  BY <1>5, <1>6, <1>7, <1>8, <1>9, <1>10 DEF VaultInv

LEMMA EndSeals == ASSUME VaultInv, NEW r \in Rotators, RotationEnds(r) PROVE VaultInv'
<1>1. /\ rotating' = [rotating EXCEPT ![r] = None]
      /\ UNCHANGED <<secretRows, masterKeys, activeKey, setting, mixed, lastSet, sets>>
  BY DEF RotationEnds
<1>2. \A q \in Rotators : rotating'[q] = IF q = r THEN None ELSE rotating[q]
  BY <1>1 DEF VaultInv, KeysOK
<1>3. QED
  BY <1>1, <1>2 DEF VaultInv, KeysOK, TableSealed, SettingSealed, CopiesSealed, SecretIsLast,
     OneRow, RowsOf

LEMMA VaultNextSeals == VaultInv /\ [SecretNext]_secretVars => VaultInv'
<1>1. ASSUME VaultInv, UNCHANGED secretVars PROVE VaultInv'
  BY <1>1 DEF secretVars, VaultInv, KeysOK, TableSealed, SettingSealed, CopiesSealed,
     SecretIsLast, OneRow, RowsOf
<1>2. QED
  BY <1>1, RotateKeySeals, SetSecretSeals, InsertSeals, DeleteSeals, StartSeals, RewrapSeals,
     UpdateSeals, EndSeals DEF SecretNext

LEMMA VaultInvariance == SecretSpec => []VaultInv
<1>1. SecretInit => VaultInv
  BY VaultStarts DEF RotationInv
<1>2. QED
  BY <1>1, VaultNextSeals, PTL DEF SecretSpec
------------------------------------------------------------------------------
(* What a rotation must still reach. *)

\* A rotation that is under way has its fields.
LEMMA RunFields ==
  ASSUME VaultInv, NEW r \in Rotators, rotating[r] # None
  PROVE  /\ rotating[r].since \in Nat /\ rotating[r].rows \in SUBSET SecretRow
         /\ rotating[r].next # None => rotating[r].next \in SecretRow /\ rotating[r].next.keyId \in Nat
BY DEF VaultInv, CopiesSealed, Rotation, SecretRow

LEMMA RotateKeyLeft == ASSUME RotationInv, rotate_key PROVE RotationInv'
<1>1. /\ activeKey' = activeKey + 1
      /\ UNCHANGED <<secretRows, setting, rotating, mixed, lastSet, sets, rotations>>
  BY DEF rotate_key
<1>2. FreshValues' /\ LeftToDo'
  BY <1>1 DEF RotationInv, FreshValues, LeftToDo
<1>3. Floor'
  <2>1. VaultInv /\ activeKey \in Nat
    BY Bounds DEF RotationInv
  <2>2. \A r \in Rotators : rotating[r] # None => rotating[r].since <= activeKey + 1
    BY <2>1, RunFields DEF RotationInv, Floor
  <2>3. QED
    BY <1>1, <2>2 DEF RotationInv, Floor
<1>4. VaultInv' /\ KnownSet'
  BY <1>1, RotateKeySeals DEF RotationInv, KnownSet
<1>5. QED
  BY <1>2, <1>3, <1>4 DEF RotationInv

\* A new value is larger than those of all rows, calls and rotations.
LEMMA ValuesBounded ==
  ASSUME RotationInv
  PROVE  /\ \A row \in secretRows : row.value # sets + 1
         /\ \A s \in Setters : setting[s] # None => setting[s].value # sets + 1
         /\ \A r \in Rotators : rotating[r] # None =>
              sets + 1 \notin rotating[r].known /\ rotating[r].known \subseteq 1 .. sets + 1
<1>1. sets \in Nat /\ \A v \in 1 .. sets : v # sets + 1 /\ v \in 1 .. sets + 1
  BY Bounds DEF RotationInv
<1>2. QED
  BY <1>1 DEF RotationInv, VaultInv, TableSealed, SettingSealed, Sealed, KnownSet

LEMMA SetSecretLeft ==
  ASSUME RotationInv, NEW s \in Setters, NEW owner \in Owners, set_secret(s, owner)
  PROVE  RotationInv'
<1> DEFINE new == Envelope(owner, sets + 1)
<1>1. /\ sets' = sets + 1 /\ setting' = [setting EXCEPT ![s] = new] /\ setting[s] = None
      /\ UNCHANGED <<secretRows, masterKeys, activeKey, rotating, mixed, lastSet, rotations>>
  BY DEF set_secret
<1>2. VaultInv' /\ new.value = sets + 1
  BY SetSecretSeals, EnvelopeSealed DEF RotationInv
<1> HIDE DEF new
<1>3. \A t \in Setters : setting'[t] = IF t = s THEN new ELSE setting[t]
  BY <1>1 DEF RotationInv, VaultInv, KeysOK
<1>4. FreshValues'
  <2> SUFFICES ASSUME NEW t \in Setters, setting'[t] # None
               PROVE  /\ \A row \in secretRows : row.value # setting'[t].value
                      /\ \A r \in Rotators : rotating[r] # None =>
                           setting'[t].value \notin rotating[r].known
                      /\ \A u \in Setters \ {t} : setting'[u] # None =>
                           setting'[u].value # setting'[t].value
    BY <1>1 DEF FreshValues
  <2>1. CASE t = s
    BY <1>2, <1>3, <2>1, ValuesBounded
  <2>2. CASE t # s
    BY <1>2, <1>3, <2>2, ValuesBounded DEF RotationInv, FreshValues
  <2>3. QED
    BY <2>1, <2>2
<1>5. Floor' /\ LeftToDo'
  BY <1>1 DEF RotationInv, Floor, LeftToDo
<1>6. KnownSet'
  BY <1>1, ValuesBounded DEF KnownSet
<1>7. QED
  BY <1>2, <1>4, <1>5, <1>6 DEF RotationInv

LEMMA InsertLeft == ASSUME RotationInv, NEW s \in Setters, Insert(s) PROVE RotationInv'
<1> DEFINE new == setting[s]
<1>1. /\ new # None
      /\ secretRows' \subseteq secretRows \cup {new}
      /\ setting' = [setting EXCEPT ![s] = None]
      /\ UNCHANGED <<masterKeys, activeKey, rotating, mixed, sets, rotations>>
  BY DEF Insert
<1>2. VaultInv'
  BY InsertSeals DEF RotationInv
<1>3. \A t \in Setters : setting'[t] = IF t = s THEN None ELSE setting[t]
  BY <1>1 DEF RotationInv, VaultInv, KeysOK
<1>4. FreshValues'
  <2> SUFFICES ASSUME NEW t \in Setters, setting'[t] # None
               PROVE  /\ \A row \in secretRows' : row.value # setting'[t].value
                      /\ \A r \in Rotators : rotating[r] # None =>
                           setting'[t].value \notin rotating[r].known
                      /\ \A u \in Setters \ {t} : setting'[u] # None =>
                           setting'[u].value # setting'[t].value
    BY <1>1 DEF FreshValues
  <2>1. t # s /\ setting'[t] = setting[t] /\ setting[t] # None
    BY <1>3
  <2>2. new.value # setting[t].value
    BY <1>1, <2>1 DEF RotationInv, FreshValues
  <2>3. QED
    BY <1>1, <1>3, <2>1, <2>2 DEF RotationInv, FreshValues
<1>5. LeftToDo'
  <2>1. \A r \in Rotators : rotating[r] # None => new.value \notin rotating[r].known
    BY <1>1 DEF RotationInv, FreshValues
  <2>2. QED
    BY <1>1, <2>1 DEF RotationInv, LeftToDo
<1>6. Floor' /\ KnownSet'
  BY <1>1 DEF RotationInv, Floor, KnownSet
<1>7. QED
  BY <1>2, <1>4, <1>5, <1>6 DEF RotationInv

LEMMA DeleteLeft ==
  ASSUME RotationInv, NEW owner \in Owners, delete_secret(owner)
  PROVE  RotationInv'
<1>1. /\ secretRows' \subseteq secretRows
      /\ UNCHANGED <<masterKeys, activeKey, setting, rotating, mixed, sets, rotations>>
  BY DEF delete_secret
<1>2. VaultInv'
  BY DeleteSeals DEF RotationInv
<1>3. FreshValues' /\ Floor' /\ LeftToDo' /\ KnownSet'
  BY <1>1 DEF RotationInv, FreshValues, Floor, LeftToDo, KnownSet
<1>4. QED
  BY <1>2, <1>3 DEF RotationInv

LEMMA StartLeft ==
  ASSUME RotationInv, NEW r \in Rotators, rotate_all_secrets(r)
  PROVE  RotationInv'
<1> DEFINE run == rotating'[r]
<1>1. VaultInv /\ VaultInv' /\ activeKey \in Nat
  BY StartSeals, Bounds DEF RotationInv
<1>2. /\ rotating[r] = None /\ run \in Rotation /\ run.rows = Outdated /\ run.next = None
      /\ run.known = {row.value : row \in secretRows}
      /\ run.since \in Nat /\ \A k \in Begun : run.since <= k
      /\ \A q \in Rotators \ {r} : rotating'[q] = rotating[q]
      /\ UNCHANGED <<secretRows, masterKeys, activeKey, setting, mixed, lastSet, sets>>
  BY <1>1, StartRun
<1>3. run.since <= activeKey /\ \A q \in Rotators : rotating[q] # None => run.since <= rotating[q].since
  BY <1>2 DEF Begun
<1> HIDE DEF run
<1>4. FreshValues'
  BY <1>2 DEF run, RotationInv, FreshValues
<1>5. Floor'
  <2> SUFFICES ASSUME NEW p \in Rotators, rotating'[p] # None
               PROVE  /\ rotating'[p].since <= activeKey
                      /\ \A q \in Rotators : rotating'[q] # None /\ rotating'[q].next # None =>
                           rotating'[q].next.keyId >= rotating'[p].since
    BY <1>2 DEF Floor
  <2>1. \A q \in Rotators : rotating'[q] # None /\ rotating'[q].next # None =>
          q # r /\ rotating'[q] = rotating[q]
    BY <1>2 DEF run
  <2>2. CASE p = r
    <3>1. ASSUME NEW q \in Rotators, rotating[q] # None, rotating[q].next # None
          PROVE  rotating[q].next.keyId >= run.since
      <4>1. /\ rotating[q].next.keyId >= rotating[q].since /\ run.since <= rotating[q].since
            /\ rotating[q].next.keyId \in Nat /\ rotating[q].since \in Nat
        BY <1>1, <1>3, <3>1, RunFields DEF RotationInv, Floor
      <4>2. QED
        BY <1>2, <4>1
    <3>2. QED
      BY <1>3, <2>1, <2>2, <3>1 DEF run
  <2>3. CASE p # r
    BY <1>2, <2>1, <2>3 DEF RotationInv, Floor
  <2>4. QED
    BY <2>2, <2>3
<1>6. LeftToDo'
  <2> SUFFICES ASSUME NEW p \in Rotators, rotating'[p] # None,
                      NEW row \in secretRows, row.owner[2] # None, row.value \in rotating'[p].known
               PROVE  \/ row.keyId >= rotating'[p].since
                      \/ \E copy \in Copies(rotating'[p]) : copy.owner = row.owner
    BY <1>2 DEF LeftToDo
  <2>1. CASE p = r
    <3>1. CASE row.keyId = activeKey
      BY <1>1, <1>2, <1>3, <2>1, <3>1 DEF run
    <3>2. CASE row.keyId # activeKey
      <4>1. row \in Copies(run)
        <5>1. row \in SecretRow
          BY <1>1 DEF VaultInv, TableSealed, Sealed
        <5>2. QED
          BY <1>2, <3>2 DEF Copies, Outdated
      <4>2. QED
        BY <2>1, <4>1 DEF run
    <3>3. QED
      BY <3>1, <3>2
  <2>2. CASE p # r
    BY <1>2, <2>2 DEF RotationInv, LeftToDo
  <2>3. QED
    BY <2>1, <2>2
<1>7. KnownSet'
  <2>1. run.known \subseteq 1 .. sets
    BY <1>1, <1>2 DEF VaultInv, TableSealed, Sealed
  <2>2. QED
    BY <1>2, <2>1 DEF run, RotationInv, KnownSet
<1>8. QED
  BY <1>1, <1>4, <1>5, <1>6, <1>7 DEF RotationInv

LEMMA RewrapLeft == ASSUME RotationInv, NEW r \in Rotators, Rewrap(r) PROVE RotationInv'
<1>1. VaultInv /\ VaultInv' /\ activeKey \in Nat
  BY RewrapSeals, Bounds DEF RotationInv
<1>2. PICK row \in rotating[r].rows :
        /\ rotating[r] # None /\ row \in SecretRow
        /\ LET new == [row EXCEPT !.keyId = activeKey, !.wrappedBy = activeKey]
               run == rotating'[r] IN
           /\ run.rows = rotating[r].rows \ {row} /\ run.next = new
           /\ run.known = rotating[r].known /\ run.since = rotating[r].since
        /\ \A q \in Rotators \ {r} : rotating'[q] = rotating[q]
        /\ UNCHANGED <<secretRows, masterKeys, activeKey, setting, mixed, lastSet, sets>>
  BY <1>1, RewrapRun
<1> DEFINE new == [row EXCEPT !.keyId = activeKey, !.wrappedBy = activeKey]
           run == rotating'[r]
<1>3. new \in SecretRow /\ new.owner = row.owner /\ new.keyId = activeKey /\ new # None
  <2>1. new \in SecretRow /\ new.owner = row.owner /\ new.keyId = activeKey
    BY <1>1, <1>2, NextChanged
  <2> HIDE DEF new
  <2>2. QED
    BY <2>1, SecretAssumption
<1>4. /\ run.rows = rotating[r].rows \ {row} /\ run.next = new
      /\ run.known = rotating[r].known /\ run.since = rotating[r].since
  BY <1>2
<1> HIDE DEF new, run
<1>5. \A q \in Rotators : rotating'[q] # None =>
        /\ rotating[q] # None /\ rotating'[q].known = rotating[q].known
        /\ rotating'[q].since = rotating[q].since
  BY <1>2, <1>4 DEF run
<1>6. FreshValues' /\ KnownSet'
  BY <1>2, <1>5 DEF RotationInv, FreshValues, KnownSet
<1>7. Floor'
  <2> SUFFICES ASSUME NEW p \in Rotators, rotating'[p] # None
               PROVE  /\ rotating'[p].since <= activeKey
                      /\ \A q \in Rotators : rotating'[q] # None /\ rotating'[q].next # None =>
                           rotating'[q].next.keyId >= rotating'[p].since
    BY <1>2 DEF Floor
  <2>1. rotating'[p].since = rotating[p].since /\ rotating[p].since <= activeKey
        /\ rotating[p].since \in Nat
    BY <1>1, <1>5, RunFields DEF RotationInv, Floor
  <2>2. ASSUME NEW q \in Rotators, rotating'[q] # None, rotating'[q].next # None
        PROVE  rotating'[q].next.keyId >= rotating[p].since
    <3>1. CASE q = r
      BY <1>1, <1>3, <1>4, <2>1, <3>1 DEF run
    <3>2. CASE q # r
      BY <1>2, <1>5, <2>2, <3>2 DEF RotationInv, Floor
    <3>3. QED
      BY <3>1, <3>2
  <2>3. QED
    BY <2>1, <2>2
<1>8. LeftToDo'
  <2> SUFFICES ASSUME NEW p \in Rotators, rotating'[p] # None,
                      NEW left \in secretRows, left.owner[2] # None,
                      left.value \in rotating'[p].known, ~ (left.keyId >= rotating'[p].since)
               PROVE  \E copy \in Copies(rotating'[p]) : copy.owner = left.owner
    BY <1>2 DEF LeftToDo
  <2>1. PICK copy \in Copies(rotating[p]) : copy.owner = left.owner
    BY <1>5 DEF RotationInv, LeftToDo
  <2>2. CASE p = r /\ copy = row
    BY <1>3, <1>4, <2>1, <2>2 DEF Copies, run
  <2>3. CASE p = r /\ copy # row
    <3>1. copy \in rotating[r].rows
      <4>1. rotating[r].next = None
        BY DEF Rewrap
      <4>2. QED
        BY <2>1, <2>3, <4>1 DEF Copies
    <3>2. QED
      BY <1>4, <2>1, <2>3, <3>1 DEF Copies, run
  <2>4. CASE p # r
    BY <1>2, <2>1, <2>4
  <2>5. QED
    BY <2>2, <2>3, <2>4
<1>9. QED
  BY <1>1, <1>6, <1>7, <1>8 DEF RotationInv

LEMMA UpdateLeft == ASSUME RotationInv, NEW r \in Rotators, Update(r) PROVE RotationInv'
<1> DEFINE new == rotating[r].next
           hit == {row \in secretRows : row.owner = new.owner /\ row.owner[2] # None}
           run == rotating'[r]
<1>1. VaultInv /\ VaultInv'
  BY UpdateSeals DEF RotationInv
<1>2. /\ rotating[r] # None /\ new # None /\ new \in SecretRow
      /\ secretRows' = (secretRows \ hit) \cup {Updated(row, new) : row \in hit}
      /\ run.rows = rotating[r].rows /\ run.next = None
      /\ run.known = rotating[r].known /\ run.since = rotating[r].since
      /\ \A q \in Rotators \ {r} : rotating'[q] = rotating[q]
      /\ UNCHANGED <<masterKeys, activeKey, setting, lastSet, sets>>
  BY <1>1, UpdateRun
<1>3. \A row \in hit :
        /\ Updated(row, new).owner = row.owner /\ Updated(row, new).value = row.value
        /\ Updated(row, new).keyId = new.keyId
  BY <1>1, <1>2, UpdatedRow DEF VaultInv, TableSealed, Sealed
<1> HIDE DEF new, run
\* Every row was there, with the same owner and value and a key that is its own or the copy's.
<1>4. ASSUME NEW row \in secretRows'
      PROVE  \E old \in secretRows :
               /\ old.owner = row.owner /\ old.value = row.value
               /\ old \in hit => row.keyId = new.keyId
               /\ old \notin hit => row = old
  BY <1>2, <1>3
<1>5. \A q \in Rotators : rotating'[q] # None =>
        /\ rotating[q] # None /\ rotating'[q].known = rotating[q].known
        /\ rotating'[q].since = rotating[q].since
        /\ rotating'[q].next # None => q # r
        /\ q # r => rotating'[q] = rotating[q]
  BY <1>2 DEF run
<1>6. FreshValues'
  BY <1>2, <1>4, <1>5 DEF RotationInv, FreshValues
<1>7. Floor' /\ KnownSet'
  BY <1>2, <1>5 DEF RotationInv, Floor, KnownSet
<1>8. LeftToDo'
  <2> SUFFICES ASSUME NEW p \in Rotators, rotating'[p] # None,
                      NEW row \in secretRows', row.owner[2] # None,
                      row.value \in rotating'[p].known
               PROVE  \/ row.keyId >= rotating'[p].since
                      \/ \E copy \in Copies(rotating'[p]) : copy.owner = row.owner
    BY DEF LeftToDo
  <2>1. PICK old \in secretRows :
          /\ old.owner = row.owner /\ old.value = row.value
          /\ old \in hit => row.keyId = new.keyId
          /\ old \notin hit => row = old
    BY <1>4
  <2>2. rotating[p] # None /\ rotating'[p].since = rotating[p].since
        /\ rotating'[p].known = rotating[p].known
    BY <1>5
  <2>3. CASE old \in hit
    <3>1. new.keyId >= rotating[p].since
      BY <1>2, <2>2 DEF RotationInv, Floor, new
    <3>2. QED
      BY <2>1, <2>2, <2>3, <3>1
  <2>4. CASE old \notin hit
    <3>1. row = old /\ row.owner # new.owner
      BY <2>1, <2>4 DEF hit
    <3>2. CASE row.keyId >= rotating[p].since
      BY <2>2, <3>2
    <3>3. CASE \E copy \in Copies(rotating[p]) : copy.owner = row.owner
      <4>1. PICK copy \in Copies(rotating[p]) : copy.owner = row.owner
        BY <3>3
      <4>2. CASE p = r
        BY <1>2, <3>1, <4>1, <4>2 DEF Copies, new, run
      <4>3. CASE p # r
        BY <1>2, <4>1, <4>3
      <4>4. QED
        BY <4>2, <4>3
    <3>4. QED
      BY <2>2, <3>1, <3>2, <3>3 DEF RotationInv, LeftToDo
  <2>5. QED
    BY <2>3, <2>4
<1>9. QED
  BY <1>1, <1>6, <1>7, <1>8 DEF RotationInv

LEMMA EndLeft == ASSUME RotationInv, NEW r \in Rotators, RotationEnds(r) PROVE RotationInv'
<1>1. /\ rotating' = [rotating EXCEPT ![r] = None]
      /\ UNCHANGED <<secretRows, masterKeys, activeKey, setting, mixed, lastSet, sets>>
  BY DEF RotationEnds
<1>2. VaultInv'
  BY EndSeals DEF RotationInv
<1>3. \A q \in Rotators : rotating'[q] # None => rotating[q] # None /\ rotating'[q] = rotating[q]
  BY <1>1 DEF RotationInv, VaultInv, KeysOK
<1>4. FreshValues' /\ Floor' /\ LeftToDo' /\ KnownSet'
  BY <1>1, <1>3 DEF RotationInv, FreshValues, Floor, LeftToDo, KnownSet
<1>5. QED
  BY <1>2, <1>4 DEF RotationInv

LEMMA VaultNextKeeps == RotationInv /\ [SecretNext]_secretVars => RotationInv'
<1>1. ASSUME RotationInv, UNCHANGED secretVars PROVE RotationInv'
  <2>1. VaultInv'
    BY <1>1, VaultNextSeals DEF RotationInv
  <2>2. QED
    BY <1>1, <2>1 DEF secretVars, RotationInv, FreshValues, Floor, LeftToDo, KnownSet
<1>2. QED
  BY <1>1, RotateKeyLeft, SetSecretLeft, InsertLeft, DeleteLeft, StartLeft, RewrapLeft,
     UpdateLeft, EndLeft DEF SecretNext

LEMMA RotationInvariance == SecretSpec => []RotationInv
BY VaultStarts, VaultNextKeeps, PTL DEF SecretSpec

------------------------------------------------------------------------------
\* However calls that set and delete secrets, rotations of the master key and
\* rotations of the secrets overlap, every stored secret can be opened, except one
\* that was stored while a rotation was between reading and updating its row, and a
\* secret of a tenant has the value last stored.
THEOREM SecretsStaySound == SecretSpec => []SecretsSound
<1>1. VaultInv => SecretsSound
  BY DEF VaultInv, KeysOK, TableSealed, Sealed, SecretsSound, SecretsOpen, Opens
<1>2. QED
  BY <1>1, VaultInvariance, PTL

\* The type invariant of the store: master keys are known, rows belong to owners and a
\* secret of a tenant has one row exactly as long as it exists.
THEOREM VaultTypeCorrect == SecretSpec => []SecretTypeOK
<1>1. VaultInv => SecretTypeOK
  <2> SUFFICES ASSUME VaultInv PROVE SecretTypeOK
    OBVIOUS
  <2>1. masterKeys \subseteq 1 .. MaxKeys /\ activeKey \in masterKeys
    BY Bounds DEF VaultInv, KeysOK
  <2>2. \A row \in secretRows : row.owner \in Owners /\ row.value \in 1 .. sets
    BY DEF VaultInv, TableSealed, Sealed, SecretRow
  <2>3. ASSUME NEW o \in Owners, o[2] # None
        PROVE  Cardinality({row \in secretRows : row.owner = o}) = (IF lastSet[o] = 0 THEN 0 ELSE 1)
    <3>1. CASE lastSet[o] = 0
      <4>1. {row \in secretRows : row.owner = o} = {}
        BY <2>3, <3>1 DEF VaultInv, OneRow, RowsOf
      <4>2. QED
        BY <3>1, <4>1, FS_EmptySet
    <3>2. CASE lastSet[o] # 0
      <4>1. PICK row : {k \in secretRows : k.owner = o} = {row}
        BY <2>3, <3>2 DEF VaultInv, OneRow, RowsOf
      <4>2. QED
        BY <3>2, <4>1, FS_Singleton
    <3>3. QED
      BY <3>1, <3>2
  <2>4. QED
    BY <2>1, <2>2, <2>3 DEF SecretTypeOK
<1>2. QED
  BY <1>1, VaultInvariance, PTL

\* A rotation that has gone through its rows leaves no secret of a tenant that it found
\* under a key older than the one active when it, or the first rotation it overlaps
\* with, began: whatever is set, deleted or rotated in the meantime.
THEOREM RotationsReachAll == SecretSpec => [][RotationReachesAll]_secretVars
<1>1. RotationInv /\ [SecretNext]_secretVars => [RotationReachesAll]_secretVars
  <2> SUFFICES ASSUME RotationInv, SecretNext,
                      NEW r \in Rotators, rotating[r] # None, rotating'[r] = None,
                      rotating[r].rows = {}
               PROVE  \A row \in secretRows :
                        row.owner[2] # None /\ row.value \in rotating[r].known
                          => row.keyId >= rotating[r].since
    BY DEF RotationReachesAll
  <2>1. VaultInv
    BY DEF RotationInv
  <2>2. CASE rotating[r].next = None
    <3>1. Copies(rotating[r]) = {}
      BY <2>2 DEF Copies
    <3>2. QED
      BY <3>1 DEF RotationInv, LeftToDo
\* A rotation about to update a row does not end: no call makes it None.
  <2>3. CASE rotating[r].next # None
    <3>1. ASSUME rotating' = rotating PROVE FALSE
      BY <3>1
    <3>2. ASSUME NEW q \in Rotators, rotate_all_secrets(q) PROVE FALSE
      <4>1. rotating'[q] \in Rotation /\ \A p \in Rotators \ {q} : rotating'[p] = rotating[p]
        BY <2>1, <3>2, StartRun
      <4>2. QED
        BY <4>1, SecretAssumption
    <3>3. ASSUME NEW q \in Rotators, Rewrap(q) PROVE FALSE
      <4>1. rotating'[q] \in Rotation /\ \A p \in Rotators \ {q} : rotating'[p] = rotating[p]
        BY <2>1, <3>3, RewrapRun
      <4>2. QED
        BY <4>1, SecretAssumption
    <3>4. ASSUME NEW q \in Rotators, Update(q) PROVE FALSE
      <4>1. rotating'[q] \in Rotation /\ \A p \in Rotators \ {q} : rotating'[p] = rotating[p]
        BY <2>1, <3>4, UpdateRun
      <4>2. QED
        BY <4>1, SecretAssumption
    <3>5. ASSUME NEW q \in Rotators, RotationEnds(q) PROVE FALSE
      BY <2>1, <2>3, <3>5 DEF RotationEnds, VaultInv, KeysOK
    <3>6. ASSUME NEW s \in Setters, Insert(s) \/ \E o \in Owners : set_secret(s, o) PROVE FALSE
      BY <3>1, <3>6 DEF Insert, set_secret
    <3>7. ASSUME rotate_key \/ \E o \in Owners : delete_secret(o) PROVE FALSE
      BY <3>1, <3>7 DEF rotate_key, delete_secret
    <3>8. QED
      BY <3>2, <3>3, <3>4, <3>5, <3>6, <3>7 DEF SecretNext
  <2>4. QED
    BY <2>2, <2>3
<1>2. QED
  BY <1>1, RotationInvariance, PTL DEF SecretSpec

------------------------------------------------------------------------------
(* The start of the server and its MCP bridge. *)

Documents == SUBSET (Initial \cup Uploads)

App ==
  [pipeline : Nat \cup {None}, store : Nat, connectors : {{}, discover_connectors},
   resources : Documents, llm : BOOLEAN]

\* The store that is written to is the one that is searched, and has what is listed; before
\* there is a pipeline nothing is listed, and nothing has been taken in.
ServedOK ==
  /\ serverPc # "down" => app.store \in DOMAIN contents
  /\ IF app.pipeline = None
     THEN brought = {} /\ app.resources = {} /\ app.connectors = {}
     ELSE /\ app.pipeline = app.store /\ app.pipeline \in DOMAIN contents
          /\ app.resources \subseteq contents[app.pipeline] /\ brought \subseteq app.resources

\* No answer is older than the state it speaks of.
StartInv ==
  /\ serverPc \in {"down", "created", "up"} /\ down \subseteq Services
  /\ app \in App /\ contents \in Seq(Documents)
  /\ ServedOK
  /\ serverPc # "up" => response = NoResponse
  /\ ReadyCanAnswer

McpMethods == {"", "initialize", "tools/list", "tools/call", "other"}
McpShapes == {"object", "arguments-list", "arguments-null", "params-list", "no-id", "no-object"}
McpTools == {"", "aegismind_search", "write_note"}
McpPrincipals == {"", "ann", "bob", "mcp-user", "mcp-rpc-client"}

CallRecord ==
  [pc : {"idle", "running"}, via : {"rpc", "tool"}, method : McpMethods, shape : McpShapes,
   name : McpTools, said : McpPrincipals, sender : McpPrincipals, confirmed : BOOLEAN]
RanRecord ==
  [principal : McpPrincipals, tool : McpTools, failed : BOOLEAN, error : BOOLEAN, confirmed : BOOLEAN,
   named : BOOLEAN, seeded : BOOLEAN]
EntryRecord == [principal : McpPrincipals, tool : McpTools, failed : BOOLEAN]

\* A router built with a pipeline has the one of the state, and a call under way has been
\* counted, but is in no log yet.
McpInv ==
  /\ StartInv
  /\ call \in CallRecord /\ ran \in Seq(RanRecord) /\ mcpAudit \in Seq(EntryRecord) /\ mcpCalls \in Nat
  /\ serverPc # "up" => call = NoCall /\ mcpAudit = <<>>
  /\ captured \in {None, app.pipeline}
  /\ call.pc = "running" => Len(ran) < mcpCalls /\ Len(mcpAudit) < mcpCalls
  /\ McpTypeOK
  /\ ConfirmedOrAllowed /\ RunsAreAudited /\ ToolsWorkOnceSeeded /\ ClientNotMisled

LEMMA CoreTypes ==
  ASSUME StartInv
  PROVE  /\ app = [pipeline |-> app.pipeline, store |-> app.store, connectors |-> app.connectors,
                   resources |-> app.resources, llm |-> app.llm]
         /\ app.pipeline \in Nat \cup {None} /\ app.store \in Nat /\ app.llm \in BOOLEAN
         /\ app.connectors \in {{}, discover_connectors} /\ app.resources \in Documents
         /\ Len(contents) \in Nat /\ DOMAIN contents = 1 .. Len(contents)
         /\ Fresh \in Nat \ {0} /\ Fresh # None
BY LenProperties, StartAssumption DEF StartInv, App, Fresh

\* What a request without a pipeline begins with.
LEMMA EnsuredServes ==
  ASSUME StartInv, serverPc = "up"
  PROVE  /\ Ensured \in App /\ StoresThen \in Seq(Documents)
         /\ Ensured.pipeline # None /\ Ensured.store = Ensured.pipeline
         /\ Ensured.store \in DOMAIN StoresThen
         /\ Ensured.resources \subseteq StoresThen[Ensured.store]
         /\ brought \subseteq Ensured.resources
         /\ app.pipeline # None => Ensured = app
<1>1. CASE app.pipeline # None
  BY <1>1 DEF StartInv, ServedOK, Ensured, StoresThen, NeedsSeed
<1>2. CASE app.pipeline = None
  <2>1. Ensured = Seeded /\ StoresThen = Append(contents, Initial)
    BY <1>2 DEF Ensured, StoresThen, NeedsSeed
  <2>2. Initial \in Documents /\ contents \in Seq(Documents)
    BY DEF Documents, StartInv
  <2>3. /\ StoresThen \in Seq(Documents) /\ Len(StoresThen) = Fresh
        /\ StoresThen[Fresh] = Initial /\ DOMAIN StoresThen = 1 .. Fresh
    BY <2>1, <2>2, AppendProperties, LenProperties DEF Fresh
  <2>4. Seeded = [pipeline |-> Fresh, store |-> Fresh, connectors |-> discover_connectors,
                  resources |-> Initial, llm |-> app.llm]
    <3>1. PICK seeded : seeded = Seeded
      OBVIOUS
    <3>2. seeded = [pipeline |-> Fresh, store |-> Fresh, connectors |-> discover_connectors,
                    resources |-> Initial, llm |-> app.llm]
      BY <3>1, CoreTypes DEF Seeded
    <3>3. QED
      BY <3>1, <3>2
  <2>5. Seeded \in App
    BY <2>2, <2>4, CoreTypes DEF App
  <2>6. brought = {}
    BY <1>2 DEF StartInv, ServedOK
  <2>7. QED
    BY <1>2, <2>1, <2>3, <2>4, <2>5, <2>6, CoreTypes
<1>3. QED
  BY <1>1, <1>2

LEMMA StartStarts == StartInit => StartInv
<1> SUFFICES ASSUME StartInit PROVE StartInv
  OBVIOUS
<1>1. contents \in Seq(Documents)
  BY EmptySeq DEF StartInit
<1>2. QED
  BY <1>1 DEF StartInit, StartInv, ServedOK, App, NoApp, NoResponse, ReadyCanAnswer, Documents

LEMMA CreateStarts == ASSUME StartInv, create_app PROVE StartInv'
<1>1. PICK prior \in {"none", "pipeline"} :
        app' = [NoApp EXCEPT !.store = 1, !.pipeline = IF prior = "pipeline" THEN 1 ELSE None,
                             !.llm = (prior = "pipeline")]
  BY DEF create_app
<1>2. app' = [pipeline |-> IF prior = "pipeline" THEN 1 ELSE None, store |-> 1, connectors |-> {},
              resources |-> {}, llm |-> (prior = "pipeline")]
  BY <1>1 DEF NoApp
<1>3. /\ serverPc' = "created" /\ down' = down /\ plugins' = plugins /\ brought' = {}
      /\ contents' = <<{}>> /\ response' = NoResponse
  BY DEF create_app
<1>4. {} \in Documents /\ Documents' = Documents /\ discover_connectors' = discover_connectors
  BY <1>3 DEF Documents, discover_connectors, Discovered, list_adapters, resolve_adapter
<1>5. contents' \in Seq(Documents)
  BY <1>3, <1>4
<1>6. app' \in App'
  BY <1>2, <1>4 DEF App
<1>7. ServedOK'
  BY <1>2, <1>3, <1>5 DEF ServedOK
<1>8. QED
  BY <1>3, <1>4, <1>5, <1>6, <1>7 DEF StartInv, ReadyCanAnswer, NoResponse

\* A step that answers a request and leaves the state, the services and the stores alone.
LEMMA AnswerStarts ==
  ASSUME StartInv, UNCHANGED <<plugins, down, serverPc, app, contents, brought>>,
         serverPc # "up" => response' = NoResponse, ReadyCanAnswer'
  PROVE  StartInv'
<1>1. Documents' = Documents /\ discover_connectors' = discover_connectors
  BY DEF Documents, discover_connectors, Discovered, list_adapters, resolve_adapter
<1>2. App' = App
  BY <1>1 DEF App
<1>3. ServedOK'
  BY DEF StartInv, ServedOK
<1>4. QED
  BY <1>1, <1>2, <1>3 DEF StartInv

\* A step after which the state has a pipeline over the store that is written.
LEMMA ServedStarts ==
  ASSUME StartInv, UNCHANGED <<plugins, down>>, serverPc' \in {"created", "up"},
         app' \in App, contents' \in Seq(Documents),
         app'.pipeline # None, app'.store = app'.pipeline, app'.pipeline \in DOMAIN contents',
         app'.resources \subseteq contents'[app'.pipeline], brought' \subseteq app'.resources,
         serverPc' # "up" => response' = NoResponse, ReadyCanAnswer'
  PROVE  StartInv'
<1>1. Documents' = Documents /\ discover_connectors' = discover_connectors
  BY DEF Documents, discover_connectors, Discovered, list_adapters, resolve_adapter
<1>2. App' = App
  BY <1>1 DEF App
<1>3. ServedOK'
  BY DEF ServedOK
<1>4. QED
  BY <1>1, <1>2, <1>3 DEF StartInv

LEMMA LifespanStarts == ASSUME StartInv, lifespan PROVE StartInv'
<1>1. /\ serverPc = "created" /\ serverPc' = "up"
      /\ UNCHANGED <<plugins, down, response, brought>> /\ response = NoResponse
  BY DEF lifespan, StartInv
<1>2. ReadyCanAnswer'
  BY <1>1 DEF ReadyCanAnswer, NoResponse
<1>3. Documents' = Documents /\ discover_connectors' = discover_connectors
  BY <1>1 DEF Documents, discover_connectors, Discovered, list_adapters, resolve_adapter
<1>4. CASE UNCHANGED <<app, contents>>
  <2>1. App' = App
    BY <1>3 DEF App
  <2>2. ServedOK'
    BY <1>1, <1>4 DEF StartInv, ServedOK
  <2>3. QED
    BY <1>1, <1>2, <1>3, <1>4, <2>1, <2>2 DEF StartInv
<1>5. CASE app.pipeline = None /\ app' = Seeded /\ contents' = Append(contents, Initial)
  <2>1. Initial \in Documents /\ contents \in Seq(Documents)
    BY DEF Documents, StartInv
  <2>2. /\ contents' \in Seq(Documents) /\ Len(contents') = Fresh
        /\ contents'[Fresh] = Initial /\ DOMAIN contents' = 1 .. Fresh
    BY <1>5, <2>1, AppendProperties, LenProperties DEF Fresh
  <2>3. app' = [pipeline |-> Fresh, store |-> Fresh, connectors |-> discover_connectors,
                resources |-> Initial, llm |-> app.llm]
    BY <1>5, CoreTypes DEF Seeded
  <2>4. app' \in App /\ app'.pipeline = Fresh /\ app'.store = Fresh /\ app'.resources = Initial
    BY <2>1, <2>3, CoreTypes DEF App
  <2>5. brought' = {}
    BY <1>1, <1>5 DEF StartInv, ServedOK
  <2>6. Fresh \in 1 .. Fresh /\ Fresh # None
    BY CoreTypes
  <2>7. QED
    BY <1>1, <1>2, <2>2, <2>4, <2>5, <2>6, ServedStarts
<1>6. QED
  BY <1>4, <1>5 DEF lifespan

LEMMA CrashStarts == ASSUME StartInv, Crash PROVE StartInv'
<1>1. /\ serverPc' = "down" /\ app' = NoApp /\ contents' = <<>> /\ response' = NoResponse
      /\ brought' = {} /\ UNCHANGED <<plugins, down>>
  BY DEF Crash
<1>2. Documents' = Documents /\ {} \in Documents /\ contents' \in Seq(Documents')
  BY <1>1, EmptySeq DEF Documents
<1>3. app' \in App'
  BY <1>1, <1>2 DEF App, NoApp
<1>4. ServedOK' /\ ReadyCanAnswer'
  BY <1>1 DEF ServedOK, NoApp, ReadyCanAnswer, NoResponse
<1>5. QED
  BY <1>1, <1>2, <1>3, <1>4 DEF StartInv

LEMMA FlipStarts == ASSUME StartInv, ServiceFlips PROVE StartInv'
<1>1. /\ UNCHANGED <<plugins, serverPc, app, contents, brought>> /\ response' = NoResponse
      /\ \E s \in Services : down' = IF s \in down THEN down \ {s} ELSE down \cup {s}
  BY DEF ServiceFlips
<1>2. down' \subseteq Services
  BY <1>1 DEF StartInv
<1>3. Documents' = Documents /\ discover_connectors' = discover_connectors
  BY <1>1 DEF Documents, discover_connectors, Discovered, list_adapters, resolve_adapter
<1>4. App' = App
  BY <1>3 DEF App
<1>5. ServedOK' /\ ReadyCanAnswer'
  BY <1>1 DEF StartInv, ServedOK, ReadyCanAnswer, NoResponse
<1>6. QED
  BY <1>1, <1>2, <1>3, <1>4, <1>5 DEF StartInv

LEMMA SearchStarts ==
  ASSUME StartInv, NEW kind \in {"search", "chat"}, search(kind)
  PROVE  StartInv' /\ app'.pipeline # None /\ (app.pipeline # None => app'.pipeline = app.pipeline)
<1>1. /\ serverPc = "up" /\ UNCHANGED <<plugins, down, serverPc, brought>>
      /\ app' = [Ensured EXCEPT !.llm = @ \/ (kind = "chat" /\ NeedsSeed)]
      /\ contents' = StoresThen /\ response'.kind = kind
  BY DEF search
<1>2. /\ Ensured \in App /\ StoresThen \in Seq(Documents)
      /\ Ensured.pipeline # None /\ Ensured.store = Ensured.pipeline
      /\ Ensured.store \in DOMAIN StoresThen
      /\ Ensured.resources \subseteq StoresThen[Ensured.store]
      /\ brought \subseteq Ensured.resources
      /\ app.pipeline # None => Ensured = app
  BY <1>1, EnsuredServes
<1>3. /\ app' \in App /\ app'.pipeline = Ensured.pipeline /\ app'.store = Ensured.store
      /\ app'.resources = Ensured.resources
  BY <1>1, <1>2 DEF App
<1>4. ReadyCanAnswer'
  BY <1>1 DEF ReadyCanAnswer
<1>5. QED
  BY <1>1, <1>2, <1>3, <1>4, ServedStarts

LEMMA IngestStarts ==
  ASSUME StartInv, NEW doc \in Uploads, ingest_document(doc)
  PROVE  StartInv' /\ app'.pipeline # None /\ (app.pipeline # None => app'.pipeline = app.pipeline)
<1>1. /\ serverPc = "up" /\ UNCHANGED <<plugins, down, serverPc>>
      /\ app' = [Ensured EXCEPT !.resources = @ \cup {doc}]
      /\ contents' = [StoresThen EXCEPT ![Ensured.store] = @ \cup {doc}]
      /\ response'.kind = "ingest" /\ brought' = brought \cup {doc}
  BY DEF ingest_document
<1>2. /\ Ensured \in App /\ StoresThen \in Seq(Documents)
      /\ Ensured.pipeline # None /\ Ensured.store = Ensured.pipeline
      /\ Ensured.store \in DOMAIN StoresThen
      /\ Ensured.resources \subseteq StoresThen[Ensured.store]
      /\ brought \subseteq Ensured.resources
      /\ app.pipeline # None => Ensured = app
  BY <1>1, EnsuredServes
<1>3. doc \in Initial \cup Uploads
  OBVIOUS
<1>4. /\ app' \in App /\ app'.pipeline = Ensured.pipeline /\ app'.store = Ensured.store
      /\ app'.resources = Ensured.resources \cup {doc}
  BY <1>1, <1>2, <1>3 DEF App, Documents
<1>5. StoresThen[Ensured.store] \cup {doc} \in Documents
  BY <1>2, <1>3, ElementOfSeq, LenProperties DEF Documents
<1>6. /\ contents' \in Seq(Documents) /\ DOMAIN contents' = DOMAIN StoresThen
      /\ contents'[Ensured.store] = StoresThen[Ensured.store] \cup {doc}
  BY <1>1, <1>2, <1>5, ExceptSeq
<1>7. ReadyCanAnswer'
  BY <1>1 DEF ReadyCanAnswer
<1>8. QED
  BY <1>1, <1>2, <1>4, <1>6, <1>7, ServedStarts

LEMMA ErrsStarts ==
  ASSUME StartInv, NEW kind \in {"search", "chat", "ingest"}, RequestErrs(kind) PROVE StartInv'
<1>1. /\ serverPc = "up" /\ UNCHANGED <<plugins, down, serverPc, app, contents, brought>>
      /\ response'.kind = kind
  BY DEF RequestErrs
<1>2. ReadyCanAnswer'
  BY <1>1 DEF ReadyCanAnswer
<1>3. QED
  BY <1>1, <1>2, AnswerStarts

LEMMA ReadinessStarts ==
  ASSUME StartInv, perform_readiness_check \/ legacy_readiness_check PROVE StartInv'
<1>1. serverPc = "up" /\ UNCHANGED <<plugins, down, serverPc, app, contents, brought>>
  BY DEF perform_readiness_check, legacy_readiness_check
<1>2. ReadyCanAnswer'
  <2>1. CASE perform_readiness_check
    BY <1>1, <2>1 DEF perform_readiness_check, ReadyCanAnswer, Needed, StartInv, Services
  <2>2. CASE legacy_readiness_check
    BY <2>2 DEF legacy_readiness_check, ReadyCanAnswer
  <2>3. QED
    BY <2>1, <2>2
<1>3. QED
  BY <1>1, <1>2, AnswerStarts

\* What was requested besides neither drops the pipeline of the router nor touches a call.
LEMMA BesidesServe ==
  ASSUME McpInv, StartInv', serverPc' \in {serverPc, "up"},
         app.pipeline # None => app'.pipeline = app.pipeline, reply' = NoReply,
         UNCHANGED <<tools, captured, call, mcpAudit, mcpCalls, ran>>
  PROVE  McpInv'
<1>1. /\ call' \in CallRecord' /\ ran' \in Seq(RanRecord') /\ mcpAudit' \in Seq(EntryRecord')
      /\ mcpCalls' \in Nat /\ captured' \in {None, app'.pipeline}
      /\ call'.pc = "running" => Len(ran') < mcpCalls' /\ Len(mcpAudit') < mcpCalls'
  BY DEF McpInv, CallRecord, RanRecord, EntryRecord
<1>2. McpTypeOK' /\ (serverPc' # "up" => call' = NoCall /\ mcpAudit' = <<>>)
  BY DEF McpInv, McpTypeOK, NoCall
<1>3. ConfirmedOrAllowed' /\ RunsAreAudited' /\ ToolsWorkOnceSeeded'
  BY DEF McpInv, ConfirmedOrAllowed, RunsAreAudited, ToolsWorkOnceSeeded
<1>4. ClientNotMisled'
  BY DEF ClientNotMisled, NoReply
<1>5. QED
  BY <1>1, <1>2, <1>3, <1>4 DEF McpInv

LEMMA RouterServes == ASSUME McpInv, create_mcp_router PROVE McpInv'
<1>1. StartInv' /\ serverPc' # "up"
  BY CreateStarts, CrashStarts DEF McpInv, create_mcp_router, create_app, Crash
<1>2. /\ captured' = app'.pipeline /\ mcpAudit' = <<>> /\ call' = NoCall /\ reply' = NoReply
      /\ ran' = <<>> /\ mcpCalls' = mcpCalls /\ mcpCalls \in Nat
  BY DEF create_mcp_router, McpInv
<1>3. call' \in CallRecord' /\ call'.pc = "idle"
  BY <1>2 DEF CallRecord, NoCall, McpMethods, McpShapes, McpTools, McpPrincipals
<1>4. ran' \in Seq(RanRecord') /\ mcpAudit' \in Seq(EntryRecord') /\ Len(ran') = 0
      /\ Len(mcpAudit') = 0 /\ DOMAIN ran' = {} /\ DOMAIN mcpAudit' = {}
  BY <1>2, EmptySeq
<1>5. McpTypeOK'
  BY <1>2, <1>3, <1>4 DEF McpTypeOK
<1>6. ConfirmedOrAllowed' /\ ToolsWorkOnceSeeded'
  BY <1>4 DEF ConfirmedOrAllowed, ToolsWorkOnceSeeded
<1>7. RunsAreAudited'
  <2>1. [i \in {} |-> 0] \in [DOMAIN ran' -> DOMAIN mcpAudit']
    BY <1>4
  <2>2. QED
    BY <2>1, <1>4 DEF RunsAreAudited
<1>8. ClientNotMisled'
  BY <1>2 DEF ClientNotMisled, NoReply
<1>9. QED
  BY <1>1, <1>2, <1>3, <1>4, <1>5, <1>6, <1>7, <1>8 DEF McpInv

\* A call that arrives is counted.
LEMMA ArrivalServes ==
  ASSUME McpInv, RpcArrives \/ ToolArrives PROVE McpInv'
<1>1. /\ serverPc = "up" /\ call.pc = "idle" /\ mcpCalls' = mcpCalls + 1 /\ reply' = NoReply
      /\ response' = NoResponse
      /\ UNCHANGED <<plugins, down, serverPc, app, contents, brought, tools, captured, mcpAudit, ran>>
  BY DEF RpcArrives, ToolArrives, CanCall
<1>2. call' \in CallRecord
  <2>1. CASE RpcArrives
    <3>1. PICK method \in {"initialize", "tools/list", "tools/call", "other"},
               shape \in {"object", "arguments-list", "arguments-null", "params-list", "no-id", "no-object"},
               name \in {"aegismind_search", "write_note"}, said \in {"", "ann"}, confirmed \in BOOLEAN :
            /\ method # "tools/call" => shape \in {"object", "no-id"}
            /\ method # "tools/call" \/ shape # "object" => name = "write_note" /\ said = "" /\ ~confirmed
            /\ call' = [NoCall EXCEPT !.pc = "running", !.method = method, !.shape = shape, !.name = name,
                                      !.said = said, !.confirmed = confirmed]
      BY <2>1, Zenon DEF RpcArrives
    <3>2. call' = [pc |-> "running", via |-> "rpc", method |-> method, shape |-> shape, name |-> name,
                   said |-> said, sender |-> "", confirmed |-> confirmed]
      <4>1. call' = [NoCall EXCEPT !.pc = "running", !.method = method, !.shape = shape, !.name = name,
                                   !.said = said, !.confirmed = confirmed]
        BY <3>1, Zenon
      <4>2. QED
        BY <4>1 DEF NoCall
    <3>3. QED
      BY <3>2 DEF CallRecord, McpMethods, McpShapes, McpTools, McpPrincipals
  <2>2. CASE ToolArrives
    BY <2>2 DEF ToolArrives, CallRecord, NoCall, McpMethods, McpShapes, McpTools, McpPrincipals
  <2>3. QED
    BY <2>1, <2>2
<1>3. StartInv'
  <2>1. ReadyCanAnswer'
    BY <1>1 DEF ReadyCanAnswer, NoResponse
  <2>2. QED
    BY <1>1, <2>1, AnswerStarts DEF McpInv
<1>4. /\ mcpCalls \in Nat /\ Len(ran) <= mcpCalls /\ Len(mcpAudit) <= mcpCalls
      /\ Len(ran) \in Nat /\ Len(mcpAudit) \in Nat
  BY LenProperties DEF McpInv, McpTypeOK
<1>5. McpTypeOK' /\ mcpCalls' \in Nat /\ Len(ran') < mcpCalls' /\ Len(mcpAudit') < mcpCalls'
  BY <1>1, <1>2, <1>4 DEF McpInv, McpTypeOK, CallRecord
<1>6. ConfirmedOrAllowed' /\ RunsAreAudited' /\ ToolsWorkOnceSeeded'
  BY <1>1 DEF McpInv, ConfirmedOrAllowed, RunsAreAudited, ToolsWorkOnceSeeded
<1>7. ClientNotMisled'
  BY <1>1 DEF ClientNotMisled, NoReply
<1>8. /\ ran' \in Seq(RanRecord') /\ mcpAudit' \in Seq(EntryRecord') /\ call' \in CallRecord'
      /\ captured' \in {None, app'.pipeline}
  BY <1>1, <1>2 DEF McpInv, CallRecord, RanRecord, EntryRecord
<1>9. QED
  BY <1>1, <1>3, <1>5, <1>6, <1>7, <1>8 DEF McpInv

\* What a call that runs says of the state, and what its audit entry is.
LEMMA CallUnderWay ==
  ASSUME McpInv, call.pc = "running"
  PROVE  /\ serverPc = "up" /\ mcpCalls \in Nat
         /\ Len(ran) \in Nat /\ Len(ran) < mcpCalls /\ DOMAIN ran = 1 .. Len(ran)
         /\ Len(mcpAudit) \in Nat /\ Len(mcpAudit) < mcpCalls /\ DOMAIN mcpAudit = 1 .. Len(mcpAudit)
         /\ ActivePipeline = app.pipeline
         /\ \A wrong \in BOOLEAN :
              [principal |-> Audited, tool |-> call.name, failed |-> wrong] \in EntryRecord
<1>1. serverPc = "up"
  <2>1. serverPc # "up" => call = NoCall
    BY DEF McpInv
  <2>2. NoCall.pc = "idle"
    BY DEF NoCall
  <2>3. QED
    BY <2>1, <2>2
<1>2. ActivePipeline = app.pipeline
  BY DEF McpInv, ActivePipeline
<1>3. Audited \in McpPrincipals
  BY DEF McpInv, CallRecord, Audited, McpPrincipals
<1>4. call.name \in McpTools
  BY DEF McpInv, CallRecord
<1>5. QED
  BY <1>1, <1>2, <1>3, <1>4, LenProperties DEF McpInv, EntryRecord

\* A call that runs no tool ends with an entry in the audit log or without.
LEMMA NoRunServes ==
  ASSUME McpInv, call.pc = "running", call' = NoCall, UNCHANGED <<startVars, tools, captured, mcpCalls, ran>>,
         NEW entry \in EntryRecord, mcpAudit' \in {mcpAudit, Append(mcpAudit, entry)}, ClientNotMisled'
  PROVE  McpInv'
<1>1. /\ serverPc = "up" /\ mcpCalls \in Nat
      /\ Len(ran) \in Nat /\ Len(ran) < mcpCalls
      /\ Len(mcpAudit) \in Nat /\ Len(mcpAudit) < mcpCalls /\ DOMAIN mcpAudit = 1 .. Len(mcpAudit)
  BY CallUnderWay
<1>2. /\ mcpAudit \in Seq(EntryRecord) /\ mcpAudit' \in Seq(EntryRecord)
      /\ Len(mcpAudit') <= Len(mcpAudit) + 1 /\ DOMAIN mcpAudit \subseteq DOMAIN mcpAudit'
      /\ \A k \in DOMAIN mcpAudit : mcpAudit'[k] = mcpAudit[k]
      /\ Len(mcpAudit') \in Nat
  <2>1. mcpAudit \in Seq(EntryRecord)
    BY DEF McpInv
  <2>2. CASE mcpAudit' = mcpAudit
    BY <2>1, <2>2, <1>1
  <2>3. CASE mcpAudit' = Append(mcpAudit, entry)
    BY <2>1, <2>3, <1>1, AppendProperties, LenProperties
  <2>4. QED
    BY <2>2, <2>3
<1>3. StartInv'
  <2>1. ReadyCanAnswer'
    BY DEF startVars, McpInv, StartInv, ReadyCanAnswer
  <2>2. QED
    BY <1>1, <2>1, AnswerStarts DEF startVars, McpInv
<1>4. call' \in CallRecord' /\ call'.pc = "idle"
  BY DEF CallRecord, NoCall, McpMethods, McpShapes, McpTools, McpPrincipals
<1>5. McpTypeOK' /\ mcpCalls' \in Nat
  BY <1>1, <1>2, <1>4 DEF startVars, McpInv, McpTypeOK
<1>6. RunsAreAudited'
  <2>1. PICK place \in [DOMAIN ran -> DOMAIN mcpAudit] :
          /\ \A i, j \in DOMAIN ran : i < j => place[i] < place[j]
          /\ \A i \in DOMAIN ran :
               /\ mcpAudit[place[i]].tool = ran[i].tool
               /\ ran[i].named => mcpAudit[place[i]].principal = ran[i].principal
               /\ mcpAudit[place[i]].failed => ran[i].failed
    BY DEF McpInv, RunsAreAudited
  <2>2. place \in [DOMAIN ran' -> DOMAIN mcpAudit']
    BY <1>2, <2>1
  <2>3. \A i \in DOMAIN ran : mcpAudit'[place[i]] = mcpAudit[place[i]]
    BY <1>2, <2>1
  <2>4. QED
    BY <2>1, <2>2, <2>3 DEF RunsAreAudited
<1>7. ConfirmedOrAllowed' /\ ToolsWorkOnceSeeded'
  BY DEF McpInv, ConfirmedOrAllowed, ToolsWorkOnceSeeded
<1>8. /\ ran' \in Seq(RanRecord') /\ mcpAudit' \in Seq(EntryRecord')
      /\ captured' \in {None, app'.pipeline} /\ serverPc' = "up"
  BY <1>1, <1>2 DEF startVars, McpInv, RanRecord, EntryRecord
<1>9. QED
  BY <1>3, <1>4, <1>5, <1>6, <1>7, <1>8 DEF McpInv

LEMMA RefusalServes == ASSUME McpInv, handle_jsonrpc \/ RouterBreaks PROVE McpInv'
<1>1. /\ call.pc = "running" /\ call' = NoCall
      /\ UNCHANGED <<startVars, tools, captured, mcpCalls, ran>>
  BY DEF handle_jsonrpc, RouterBreaks
<1>2. \A wrong \in BOOLEAN : [principal |-> Audited, tool |-> call.name, failed |-> wrong] \in EntryRecord
  BY <1>1, CallUnderWay
<1>3. CASE RouterBreaks
  <2>1. mcpAudit' = mcpAudit /\ reply'.kind = "500"
    BY <1>3 DEF RouterBreaks, SendReply
  <2>2. ClientNotMisled'
    BY <2>1 DEF ClientNotMisled, Told
  <2>3. QED
    BY <1>1, <1>2, <2>1, <2>2, NoRunServes
<1>4. CASE handle_jsonrpc
  <2>1. PICK wrong \in BOOLEAN : wrong = (call.via = "tool" \/ ~Valid)
    OBVIOUS
  <2>2. mcpAudit' \in {mcpAudit, Append(mcpAudit, [principal |-> Audited, tool |-> call.name, failed |-> wrong])}
    BY <1>4, <2>1 DEF handle_jsonrpc, Log
  <2>3. ClientNotMisled'
    <3>1. CASE ~Valid
      BY <1>4, <3>1 DEF handle_jsonrpc, SendReply, IsError, ClientNotMisled, Told
    <3>2. CASE Valid /\ call.method = "other"
      BY <1>4, <3>2 DEF handle_jsonrpc, SendReply, IsError, ClientNotMisled, Told
    <3>3. CASE Valid /\ call.method = "tools/call"
      BY <1>4, <3>3 DEF handle_jsonrpc, SendReply, IsError, ClientNotMisled, Told
    <3>4. CASE Valid /\ call.method # "other" /\ call.method # "tools/call"
      <4>1. SendReply("result", FALSE, {})
        BY <1>4, <3>4, Zenon DEF handle_jsonrpc
      <4>2. reply'.call = FALSE
        BY <3>4, <4>1 DEF SendReply
      <4>3. QED
        BY <4>2 DEF ClientNotMisled
    <3>5. QED
      BY <3>1, <3>2, <3>3, <3>4
  <2>4. QED
    BY <1>1, <1>2, <2>2, <2>3, NoRunServes
<1>5. QED
  BY <1>3, <1>4

\* A tool that ran is confirmed or allowed, and its entry, the next of the log, fits it.
LEMMA RunServes == ASSUME McpInv, call_tool PROVE McpInv'
<1>1. /\ call.pc = "running" /\ Runs /\ call' = NoCall
      /\ UNCHANGED <<startVars, tools, captured, mcpCalls>>
  BY DEF call_tool
<1>2. PICK error \in BOOLEAN :
        /\ SendReply("result", Fails(error),
                     IF call.name = "aegismind_search" /\ ~Fails(error) THEN contents[ActivePipeline] ELSE {})
        /\ Log(call.via = "tool" /\ Fails(error))
        /\ ran' = Append(ran, [principal |-> Acting, tool |-> call.name, failed |-> Fails(error),
                               error |-> error, confirmed |-> call.confirmed,
                               named |-> (call.via = "tool") = (call.said = ""),
                               seeded |-> app.pipeline # None])
  BY DEF call_tool
<1> DEFINE failed == Fails(error)
           record == [principal |-> Acting, tool |-> call.name, failed |-> failed,
                      error |-> error, confirmed |-> call.confirmed,
                      named |-> (call.via = "tool") = (call.said = ""),
                      seeded |-> app.pipeline # None]
           wrong  == call.via = "tool" /\ failed
           entry  == [principal |-> Audited, tool |-> call.name, failed |-> wrong]
<1>3. /\ serverPc = "up" /\ mcpCalls \in Nat
      /\ Len(ran) \in Nat /\ Len(ran) < mcpCalls /\ DOMAIN ran = 1 .. Len(ran)
      /\ Len(mcpAudit) \in Nat /\ Len(mcpAudit) < mcpCalls /\ DOMAIN mcpAudit = 1 .. Len(mcpAudit)
      /\ ActivePipeline = app.pipeline
  BY <1>1, CallUnderWay
<1>4. failed \in BOOLEAN /\ wrong \in BOOLEAN
  BY DEF Fails
<1>5. entry \in EntryRecord
  BY <1>1, <1>4, CallUnderWay
<1>6. record \in RanRecord
  <2>1. Acting \in McpPrincipals /\ call.name \in McpTools /\ call.confirmed \in BOOLEAN
    BY DEF McpInv, CallRecord, Acting, McpPrincipals
  <2>2. QED
    BY <1>4, <2>1 DEF RanRecord
<1>7. mcpAudit' = Append(mcpAudit, entry)
  BY <1>1, <1>2 DEF Runs, Log, IsAudited
<1>8. ran' = Append(ran, record)
  BY <1>2
<1>9. /\ entry.tool = record.tool /\ record.tool = call.name
      /\ record.named => entry.principal = record.principal
      /\ entry.failed => record.failed
  BY DEF Acting, Audited
<1>10. record.tool \in tools /\ (record.tool \in AllowedActions \/ record.confirmed)
  BY <1>1 DEF Runs, Blocked
<1>11. record.failed => record.error \/ ~record.seeded
  BY <1>3 DEF Fails
<1>12. record.failed = failed /\ record.tool = call.name
  OBVIOUS
<1> HIDE DEF record, entry, failed, wrong
<1>13. /\ ran \in Seq(RanRecord) /\ mcpAudit \in Seq(EntryRecord)
       /\ captured \in {None, app.pipeline}
  BY DEF McpInv
<1>14. /\ ran' \in Seq(RanRecord) /\ Len(ran') = Len(ran) + 1 /\ DOMAIN ran' = 1 .. Len(ran) + 1
       /\ ran'[Len(ran) + 1] = record /\ \A k \in DOMAIN ran : ran'[k] = ran[k]
  BY <1>3, <1>6, <1>8, <1>13, AppendProperties, LenProperties
<1>15. /\ mcpAudit' \in Seq(EntryRecord) /\ Len(mcpAudit') = Len(mcpAudit) + 1
       /\ DOMAIN mcpAudit' = 1 .. Len(mcpAudit) + 1
       /\ mcpAudit'[Len(mcpAudit) + 1] = entry /\ \A k \in DOMAIN mcpAudit : mcpAudit'[k] = mcpAudit[k]
  BY <1>3, <1>5, <1>7, <1>13, AppendProperties, LenProperties
<1>16. DOMAIN ran' = DOMAIN ran \cup {Len(ran) + 1} /\ Len(ran) + 1 \notin DOMAIN ran
  BY <1>3, <1>14
<1>17. StartInv'
  <2>1. ReadyCanAnswer'
    BY <1>1 DEF startVars, McpInv, StartInv, ReadyCanAnswer
  <2>2. QED
    BY <1>1, <1>3, <2>1, AnswerStarts DEF startVars, McpInv
<1>18. call' \in CallRecord' /\ call'.pc = "idle"
  BY <1>1 DEF CallRecord, NoCall, McpMethods, McpShapes, McpTools, McpPrincipals
<1>19. McpTypeOK'
  <2>1. \A i \in DOMAIN ran' : ran'[i].tool \in tools
    BY <1>10, <1>14, <1>16 DEF McpInv, McpTypeOK
  <2>2. Len(ran') <= mcpCalls /\ Len(mcpAudit') <= mcpCalls
    BY <1>3, <1>14, <1>15
  <2>3. QED
    BY <1>1, <1>3, <1>18, <2>1, <2>2 DEF startVars, McpTypeOK
<1>20. ConfirmedOrAllowed' /\ ToolsWorkOnceSeeded'
  BY <1>10, <1>11, <1>14, <1>16 DEF McpInv, ConfirmedOrAllowed, ToolsWorkOnceSeeded
<1>21. RunsAreAudited'
  <2>1. PICK place \in [DOMAIN ran -> DOMAIN mcpAudit] :
          /\ \A i, j \in DOMAIN ran : i < j => place[i] < place[j]
          /\ \A i \in DOMAIN ran :
               /\ mcpAudit[place[i]].tool = ran[i].tool
               /\ ran[i].named => mcpAudit[place[i]].principal = ran[i].principal
               /\ mcpAudit[place[i]].failed => ran[i].failed
    BY DEF McpInv, RunsAreAudited
  <2>2. PICK there : there = [i \in DOMAIN ran' |-> IF i = Len(ran) + 1 THEN Len(mcpAudit) + 1 ELSE place[i]]
    OBVIOUS
  <2>3. /\ there[Len(ran) + 1] = Len(mcpAudit) + 1
        /\ \A i \in DOMAIN ran : there[i] = place[i] /\ place[i] \in 1 .. Len(mcpAudit)
    BY <1>3, <1>16, <2>1, <2>2
  <2>4. there \in [DOMAIN ran' -> DOMAIN mcpAudit']
    BY <1>3, <1>15, <1>16, <2>2, <2>3
  <2>5. ASSUME NEW i \in DOMAIN ran', NEW j \in DOMAIN ran', i < j PROVE there[i] < there[j]
    <3>1. i \in DOMAIN ran
      BY <1>3, <1>14, <2>5
    <3>2. CASE j \in DOMAIN ran
      BY <2>1, <2>3, <2>5, <3>1, <3>2
    <3>3. CASE j = Len(ran) + 1
      BY <1>3, <2>3, <3>1, <3>3
    <3>4. QED
      BY <1>16, <3>2, <3>3
  <2>6. ASSUME NEW i \in DOMAIN ran'
        PROVE  /\ mcpAudit'[there[i]].tool = ran'[i].tool
               /\ ran'[i].named => mcpAudit'[there[i]].principal = ran'[i].principal
               /\ mcpAudit'[there[i]].failed => ran'[i].failed
    <3>1. CASE i \in DOMAIN ran
      <4>1. mcpAudit'[there[i]] = mcpAudit[place[i]] /\ ran'[i] = ran[i]
        BY <1>3, <1>14, <1>15, <2>3, <3>1
      <4>2. QED
        BY <2>1, <3>1, <4>1
    <3>2. CASE i = Len(ran) + 1
      BY <1>9, <1>14, <1>15, <2>3, <3>2
    <3>3. QED
      BY <1>16, <3>1, <3>2
  <2>7. QED
    BY <2>4, <2>5, <2>6 DEF RunsAreAudited
<1>22. ClientNotMisled'
  <2>1. reply' = [kind |-> "result", call |-> TRUE, failed |-> failed,
                  found |-> IF call.name = "aegismind_search" /\ ~failed THEN contents[app.pipeline] ELSE {}]
    BY <1>1, <1>2, <1>3 DEF SendReply, IsError, Runs, failed
  <2>2. reply'.kind = "result" /\ reply'.failed = failed
        /\ (call.name = "aegismind_search" /\ ~failed => reply'.found = contents[app.pipeline])
    BY <2>1
  <2>3. ran' # <<>> /\ ran'[Len(ran')] = record
    BY <1>3, <1>14
  <2>4. ASSUME Told' = "fine"
        PROVE  ~record.failed /\ (record.tool = "aegismind_search" => reply'.found = contents'[app'.pipeline])
    <3>1. ~failed
      BY <2>2, <2>4 DEF Told
    <3>2. QED
      BY <1>1, <1>12, <2>2, <3>1 DEF startVars
  <2>5. QED
    BY <2>3, <2>4 DEF ClientNotMisled
<1>23. /\ RanRecord' = RanRecord /\ EntryRecord' = EntryRecord /\ captured' \in {None, app'.pipeline}
       /\ serverPc' = "up" /\ mcpCalls' \in Nat
  BY <1>1, <1>3, <1>13 DEF startVars, RanRecord, EntryRecord
<1>24. QED
  BY <1>14, <1>15, <1>17, <1>18, <1>19, <1>20, <1>21, <1>22, <1>23 DEF McpInv

LEMMA BeginsServed == McpInit => McpInv
<1> SUFFICES ASSUME McpInit PROVE McpInv
  OBVIOUS
<1>1. /\ StartInv /\ captured = None /\ mcpAudit = <<>> /\ call = NoCall /\ reply = NoReply
      /\ ran = <<>> /\ mcpCalls = 0
  BY StartStarts DEF McpInit
<1>2. call \in CallRecord /\ call.pc = "idle"
  BY <1>1 DEF CallRecord, NoCall, McpMethods, McpShapes, McpTools, McpPrincipals
<1>3. ran \in Seq(RanRecord) /\ mcpAudit \in Seq(EntryRecord) /\ Len(ran) = 0
      /\ Len(mcpAudit) = 0 /\ DOMAIN ran = {} /\ DOMAIN mcpAudit = {}
  BY <1>1, EmptySeq
<1>4. McpTypeOK /\ ConfirmedOrAllowed /\ ToolsWorkOnceSeeded
  BY <1>1, <1>2, <1>3 DEF McpTypeOK, ConfirmedOrAllowed, ToolsWorkOnceSeeded
<1>5. RunsAreAudited
  <2>1. [i \in {} |-> 0] \in [DOMAIN ran -> DOMAIN mcpAudit]
    BY <1>3
  <2>2. QED
    BY <2>1, <1>3 DEF RunsAreAudited
<1>6. ClientNotMisled
  BY <1>1 DEF ClientNotMisled, NoReply
<1>7. QED
  BY <1>1, <1>2, <1>3, <1>4, <1>5, <1>6 DEF McpInv

LEMMA ServingGoesOn == McpInv /\ [McpNext]_coreVars => McpInv'
<1> SUFFICES ASSUME McpInv, [McpNext]_coreVars PROVE McpInv'
  OBVIOUS
<1>1. CASE create_mcp_router
  BY <1>1, RouterServes
<1>2. CASE RpcArrives \/ ToolArrives
  BY <1>2, ArrivalServes
<1>3. CASE handle_jsonrpc \/ RouterBreaks
  BY <1>3, RefusalServes
<1>4. CASE call_tool
  BY <1>4, RunServes
<1>5. ASSUME reply' = NoReply, UNCHANGED <<tools, captured, call, mcpAudit, mcpCalls, ran>>,
             \/ lifespan \/ (\E kind \in {"search", "chat", "ingest"} : RequestErrs(kind))
             \/ (\E kind \in {"search", "chat"} : search(kind)) \/ (\E doc \in Uploads : ingest_document(doc))
             \/ ServiceFlips \/ perform_readiness_check \/ legacy_readiness_check
      PROVE  McpInv'
  <2>1. StartInv
    BY DEF McpInv
  <2>2. CASE lifespan
    <3>1. StartInv' /\ serverPc' = "up"
      BY <2>1, <2>2, LifespanStarts DEF lifespan
    <3>2. app.pipeline # None => app' = app
      BY <2>2 DEF lifespan
    <3>3. QED
      BY <1>5, <3>1, <3>2, BesidesServe
  <2>3. ASSUME NEW kind \in {"search", "chat", "ingest"}, RequestErrs(kind) PROVE McpInv'
    <3>1. StartInv' /\ serverPc' = serverPc /\ app' = app
      BY <2>1, <2>3, ErrsStarts DEF RequestErrs
    <3>2. QED
      BY <1>5, <3>1, BesidesServe
  <2>4. ASSUME NEW kind \in {"search", "chat"}, search(kind) PROVE McpInv'
    <3>1. StartInv' /\ (app.pipeline # None => app'.pipeline = app.pipeline)
      BY <2>1, <2>4, SearchStarts
    <3>2. serverPc' = serverPc
      BY <2>4 DEF search
    <3>3. QED
      BY <1>5, <3>1, <3>2, BesidesServe
  <2>5. ASSUME NEW doc \in Uploads, ingest_document(doc) PROVE McpInv'
    <3>1. StartInv' /\ (app.pipeline # None => app'.pipeline = app.pipeline)
      BY <2>1, <2>5, IngestStarts
    <3>2. serverPc' = serverPc
      BY <2>5 DEF ingest_document
    <3>3. QED
      BY <1>5, <3>1, <3>2, BesidesServe
  <2>6. CASE ServiceFlips
    <3>1. StartInv' /\ serverPc' = serverPc /\ app' = app
      BY <2>1, <2>6, FlipStarts DEF ServiceFlips
    <3>2. QED
      BY <1>5, <3>1, BesidesServe
  <2>7. CASE perform_readiness_check \/ legacy_readiness_check
    <3>1. StartInv' /\ serverPc' = serverPc /\ app' = app
      BY <2>1, <2>7, ReadinessStarts DEF perform_readiness_check, legacy_readiness_check
    <3>2. QED
      BY <1>5, <3>1, BesidesServe
  <2>8. QED
    BY <1>5, <2>2, <2>3, <2>4, <2>5, <2>6, <2>7
<1>6. CASE UNCHANGED coreVars
  <2>1. /\ StartInv' /\ McpTypeOK' /\ ConfirmedOrAllowed' /\ ToolsWorkOnceSeeded'
    <3>1. ReadyCanAnswer' /\ (serverPc # "up" => response' = NoResponse)
      BY <1>6 DEF coreVars, startVars, McpInv, StartInv, ReadyCanAnswer
    <3>2. StartInv'
      BY <1>6, <3>1, AnswerStarts DEF coreVars, startVars, McpInv
    <3>3. QED
      BY <1>6, <3>2 DEF coreVars, startVars, mcpVars, McpInv, McpTypeOK, NoCall, ConfirmedOrAllowed,
         ToolsWorkOnceSeeded
  <2>2. RunsAreAudited' /\ ClientNotMisled'
    BY <1>6 DEF coreVars, startVars, mcpVars, McpInv, RunsAreAudited, ClientNotMisled, Told
  <2>3. QED
    BY <1>6, <2>1, <2>2 DEF coreVars, startVars, mcpVars, McpInv, CallRecord, RanRecord, EntryRecord, NoCall
<1>7. QED
  BY <1>1, <1>2, <1>3, <1>4, <1>5, <1>6 DEF McpNext

LEMMA ServedIsSound == McpInv => CoreSound
<1> SUFFICES ASSUME McpInv PROVE CoreSound
  OBVIOUS
<1>1. ListedIsSearchable
  BY DEF McpInv, StartInv, ServedOK, ListedIsSearchable
<1>2. BroughtIsKept
  BY DEF McpInv, StartInv, ServedOK, BroughtIsKept
<1>3. BuiltInsOffered
  <2>1. app.connectors \in {{}, discover_connectors}
    BY CoreTypes DEF McpInv
  <2>2. plugins.modules \subseteq discover_connectors
    BY DEF discover_connectors
  <2>3. ASSUME NEW name \in DOMAIN plugins.overrides \ plugins.modules
        PROVE  name \in discover_connectors <=> plugins.overrides[name]
    BY DEF discover_connectors, Discovered, list_adapters, resolve_adapter
  <2>4. QED
    BY <2>1, <2>2, <2>3 DEF BuiltInsOffered
<1>4. ReadyCanAnswer
  BY DEF McpInv, StartInv
<1>5. ConfirmedOrAllowed /\ RunsAreAudited /\ ToolsWorkOnceSeeded /\ ClientNotMisled
  BY DEF McpInv
<1>6. QED
  BY <1>1, <1>2, <1>3, <1>4, <1>5 DEF CoreSound

\* However late the start succeeds and whatever is asked meanwhile, documents, index and
\* connectors fit each other and what was taken in stays; and a tool runs confirmed or
\* allowed, with its entry in the audit log, and no client takes a failed call for done.
THEOREM CoreStaysSound == McpSpec => []CoreSound
BY BeginsServed, ServingGoesOn, ServedIsSound, PTL DEF McpSpec

------------------------------------------------------------------------------
(* The connectors and their syncs. *)

PlaceLists == Settings \cup {<<>>, <<Junk>>} \cup {Defaults[c] : c \in Connectors}
Held == [token : Tokens \cup {None}, places : PlaceLists]

ModesOK == airGapped \in BOOLEAN /\ sovereign \in BOOLEAN /\ guard = [c \in Connectors |-> airGapped \/ sovereign]

\* A token that was stored behind the connector's back is one, and the settings last asked
\* for are those in the vault.
VaultOK ==
  /\ registry \in [Connectors -> Registration \cup {None}]
  /\ vault \in [Connectors -> Held] /\ live \in [Connectors -> Held]
  /\ asked \in [Connectors -> PlaceLists] /\ overwritten \subseteq Connectors
  /\ \A c \in overwritten : vault[c].token # None
  /\ \A c \in Connectors : asked[c] # <<>> => vault[c].places = asked[c]
  /\ LiveTokenStored /\ CredentialKeyHasSecret

\* A state token that can be taken has been issued, and bought nothing yet.
SignInsOK ==
  /\ oauthStates \in [StateIds -> Providers \cup {None}] /\ issued \in [StateIds -> Providers \cup {None}]
  /\ exchanging \in [Callbacks -> Providers \cup {None}] /\ exchanged \in [StateIds -> Seq(Providers)]
  /\ \A s \in StateIds :
       /\ oauthStates[s] # None => exchanged[s] = <<>> /\ issued[s] = oauthStates[s]
       /\ issued[s] = None => oauthStates[s] = None /\ exchanged[s] = <<>>
  /\ StateUsedOnce

HubInv == ModesOK /\ VaultOK /\ SignInsOK

LEMMA HubStarts == HubInit => HubInv
<1> SUFFICES ASSUME HubInit PROVE HubInv
  OBVIOUS
<1>1. ModesOK
  BY DEF HubInit, ModesOK
<1>2. VaultOK
  <2>1. \A c \in Connectors : Defaults[c] \in PlaceLists
    BY DEF PlaceLists
  <2>2. <<>> \in PlaceLists
    BY DEF PlaceLists
  <2>3. vault \in [Connectors -> Held] /\ live \in [Connectors -> Held] /\ asked \in [Connectors -> PlaceLists]
    BY <2>1, <2>2 DEF HubInit, Held
  <2>4. /\ registry \in [Connectors -> Registration \cup {None}]
        /\ \A c \in Connectors : registry[c] = None \/ registry[c].hasKey = FALSE
    <3>1. PICK told : told = [status |-> "registered", hasKey |-> FALSE]
      OBVIOUS
    <3>2. told \in Registration /\ told.hasKey = FALSE
      BY <3>1 DEF Registration
    <3>3. registry = [c \in Connectors |-> None] \/ registry = [c \in Connectors |-> told]
      BY <3>1 DEF HubInit
    <3>4. QED
      BY <3>2, <3>3
  <2>5. /\ \A c \in Connectors : vault[c].token = None /\ live[c].token = None /\ asked[c] = <<>>
        /\ overwritten = {}
    BY DEF HubInit
  <2>6. LiveTokenStored /\ CredentialKeyHasSecret
    BY <2>4, <2>5 DEF LiveTokenStored, CredentialKeyHasSecret
  <2>7. QED
    BY <2>3, <2>4, <2>5, <2>6 DEF VaultOK
<1>3. SignInsOK
  <2>1. exchanged \in [StateIds -> Seq(Providers)]
    BY EmptySeq DEF HubInit
  <2>2. /\ oauthStates = [s \in StateIds |-> None] /\ issued = [s \in StateIds |-> None]
        /\ exchanging = [h \in Callbacks |-> None] /\ \A s \in StateIds : exchanged[s] = <<>>
    BY DEF HubInit
  <2>3. StateUsedOnce
    BY <2>2 DEF StateUsedOnce
  <2>4. QED
    BY <2>1, <2>2, <2>3 DEF SignInsOK
<1>4. QED
  BY <1>1, <1>2, <1>3 DEF HubInv

LEMMA AppliedHeld ==
  ASSUME NEW used \in Held, NEW places \in PlaceLists
  PROVE  /\ Applied(used, places) \in Held /\ Applied(used, places).token = used.token
         /\ places # <<>> => Applied(used, places).places = places
BY DEF Applied, Held

LEMMA HydratedHeld ==
  ASSUME VaultOK, NEW c \in Connectors, NEW store \in Held
  PROVE  /\ Hydrated(c, store) \in Held
         /\ Hydrated(c, store).token = IF store.token # None THEN store.token ELSE live[c].token
         /\ store.places # <<>> => Hydrated(c, store).places = store.places
<1>1. PICK used : used = [live[c] EXCEPT !.token = IF store.token # None THEN store.token ELSE @]
  OBVIOUS
<1>2. live[c] \in Held
  BY DEF VaultOK
<1>3. used \in Held /\ used.token = IF store.token # None THEN store.token ELSE live[c].token
  BY <1>1, <1>2 DEF Held
<1>4. Hydrated(c, store) = Applied(used, store.places) /\ store.places \in PlaceLists
  BY <1>1 DEF Hydrated, Held
<1>5. QED
  BY <1>3, <1>4, AppliedHeld

\* A connector gets what is stored for it, and its registration is told.
LEMMA StoredVault ==
  ASSUME VaultOK, NEW c \in Connectors, NEW store \in Held, NEW used \in Held,
         vault' = [vault EXCEPT ![c] = store], live' = [live EXCEPT ![c] = used],
         used.token = store.token, overwritten' = overwritten \ {c},
         asked' \in [Connectors -> PlaceLists], \A d \in Connectors \ {c} : asked'[d] = asked[d],
         asked'[c] # <<>> => store.places = asked'[c],
         registry' \in [Connectors -> Registration \cup {None}],
         \A d \in Connectors \ {c} : registry'[d] = registry[d],
         registry'[c] # None => (registry'[c].hasKey => store.token # None)
  PROVE  VaultOK'
<1>1. /\ vault' \in [Connectors -> Held] /\ live' \in [Connectors -> Held]
      /\ vault'[c] = store /\ live'[c] = used
      /\ \A d \in Connectors \ {c} : vault'[d] = vault[d] /\ live'[d] = live[d]
  BY DEF VaultOK
<1>2. LiveTokenStored'
  BY <1>1 DEF VaultOK, LiveTokenStored
<1>3. CredentialKeyHasSecret'
  BY <1>1 DEF VaultOK, CredentialKeyHasSecret
<1>4. overwritten' \subseteq Connectors /\ \A d \in overwritten' : vault'[d].token # None
  BY <1>1 DEF VaultOK
<1>5. \A d \in Connectors : asked'[d] # <<>> => vault'[d].places = asked'[d]
  BY <1>1 DEF VaultOK
<1>6. QED
  BY <1>1, <1>2, <1>3, <1>4, <1>5 DEF VaultOK, Held, PlaceLists, Registration

LEMMA ModeKeeps == ASSUME HubInv, NEW on \in BOOLEAN, set_system_mode(on) PROVE HubInv'
<1>1. ModesOK'
  BY DEF set_system_mode, ModesOK
<1>2. VaultOK'
  BY DEF set_system_mode, vaultVars, HubInv, VaultOK, LiveTokenStored, CredentialKeyHasSecret
<1>3. SignInsOK'
  BY DEF set_system_mode, oauthVars, HubInv, SignInsOK, StateUsedOnce
<1>4. QED
  BY <1>1, <1>2, <1>3 DEF HubInv

LEMMA RegisteredKey ==
  ASSUME VaultOK, NEW c \in Connectors, NEW withKey \in BOOLEAN
  PROVE  /\ Registered(c, withKey) \in Registration \cup {None}
         /\ Registered(c, withKey) # None =>
              (Registered(c, withKey).hasKey => withKey \/ vault[c].token # None)
<1>1. registry[c] \in Registration \cup {None}
  BY DEF VaultOK
<1>2. registry[c] # None => (registry[c].hasKey => vault[c].token # None)
  BY DEF VaultOK, CredentialKeyHasSecret
<1>3. QED
  BY <1>1, <1>2 DEF Registered, Registration

LEMMA ConnectKeeps ==
  ASSUME HubInv, NEW c \in Connectors, NEW token \in Tokens \cup {None},
         NEW places \in Settings \cup {<<>>}, NEW form \in {"text", "list"},
         connect_connector(c, token, places, form)
  PROVE  HubInv'
<1>1. PICK store : store = StoredWith(c, token, places, form)
  OBVIOUS
<1>2. PICK used : used = Applied(Hydrated(c, store), places)
  OBVIOUS
<1>3. /\ vault' = [vault EXCEPT ![c] = store] /\ live' = [live EXCEPT ![c] = used]
      /\ overwritten' = overwritten \ {c}
      /\ asked' = IF places = <<>> THEN asked
                  ELSE [asked EXCEPT ![c] = IF form = "text" THEN places ELSE <<>>]
      /\ registry' = [registry EXCEPT ![c] = Registered(c, token # None)]
      /\ UNCHANGED <<modeVars, oauthVars>>
  BY <1>1, <1>2 DEF connect_connector
<1>4. VaultOK /\ vault[c] \in Held /\ live[c] \in Held
  BY DEF HubInv, VaultOK
<1>5. places \in PlaceLists /\ <<Junk>> \in PlaceLists /\ <<>> \in PlaceLists
  BY DEF PlaceLists
<1>6. /\ store \in Held /\ store.token = IF token = None THEN vault[c].token ELSE token
      /\ store.places = IF places = <<>> THEN vault[c].places ELSE AsStored(places, form)
  BY <1>1, <1>4, <1>5 DEF StoredWith, AsStored, Held
<1>7. /\ Hydrated(c, store) \in Held
      /\ Hydrated(c, store).token = IF store.token # None THEN store.token ELSE live[c].token
  BY <1>4, <1>6, HydratedHeld
<1>8. used \in Held /\ used.token = Hydrated(c, store).token
  BY <1>2, <1>5, <1>7, AppliedHeld
<1>9. used.token = store.token
  <2>1. CASE store.token # None
    BY <1>7, <1>8, <2>1
  <2>2. CASE store.token = None
    <3>1. vault[c].token = None
      BY <1>6, <2>2
    <3>2. live[c].token = None
      BY <1>4, <3>1 DEF VaultOK, LiveTokenStored
    <3>3. QED
      BY <1>7, <1>8, <2>2, <3>2
  <2>3. QED
    BY <2>1, <2>2
<1>10. /\ asked' \in [Connectors -> PlaceLists] /\ \A d \in Connectors \ {c} : asked'[d] = asked[d]
       /\ asked'[c] # <<>> => store.places = asked'[c]
  BY <1>3, <1>4, <1>5, <1>6 DEF VaultOK, AsStored
<1>11. /\ registry' \in [Connectors -> Registration \cup {None}]
       /\ \A d \in Connectors \ {c} : registry'[d] = registry[d]
       /\ registry'[c] # None => (registry'[c].hasKey => store.token # None)
  <2>1. registry \in [Connectors -> Registration \cup {None}]
    BY <1>4 DEF VaultOK
  <2>2. PICK told : told = Registered(c, token # None)
    OBVIOUS
  <2>3. /\ told \in Registration \cup {None}
        /\ told # None => (told.hasKey => token # None \/ vault[c].token # None)
    BY <1>4, <2>2, RegisteredKey
  <2>4. registry' = [registry EXCEPT ![c] = told]
    BY <1>3, <2>2
  <2>5. QED
    BY <1>6, <2>1, <2>3, <2>4
<1>12. VaultOK'
  BY <1>3, <1>4, <1>6, <1>8, <1>9, <1>10, <1>11, StoredVault
<1>13. ModesOK' /\ SignInsOK'
  BY <1>3 DEF HubInv, modeVars, oauthVars, ModesOK, SignInsOK, StateUsedOnce
<1>14. QED
  BY <1>12, <1>13 DEF HubInv

LEMMA StoreSecretKeeps ==
  ASSUME HubInv, NEW c \in Connectors, NEW token \in Tokens, store_secret(c, token) PROVE HubInv'
<1>1. PICK store : store = [vault[c] EXCEPT !.token = token]
  OBVIOUS
<1>2. /\ vault' = [vault EXCEPT ![c] = store] /\ overwritten' = overwritten \cup {c}
      /\ UNCHANGED <<modeVars, oauthVars, registry, live, asked>>
  BY <1>1 DEF store_secret
<1>3. vault \in [Connectors -> Held]
  BY DEF HubInv, VaultOK
<1>4. store \in Held /\ store.token = token /\ store.places = vault[c].places
  BY <1>1, <1>3 DEF Held
<1>5. token # None
  BY HubAssumption
<1>6. /\ vault' \in [Connectors -> Held] /\ vault'[c] = store
      /\ \A d \in Connectors \ {c} : vault'[d] = vault[d]
  BY <1>2, <1>3, <1>4
<1>7. LiveTokenStored'
  BY <1>2, <1>6 DEF HubInv, VaultOK, LiveTokenStored
<1>8. CredentialKeyHasSecret'
  BY <1>2, <1>4, <1>5, <1>6 DEF HubInv, VaultOK, CredentialKeyHasSecret
<1>9. VaultOK'
  <2>1. overwritten' \subseteq Connectors /\ \A d \in overwritten' : vault'[d].token # None
    BY <1>2, <1>4, <1>5, <1>6 DEF HubInv, VaultOK
  <2>2. \A d \in Connectors : asked'[d] # <<>> => vault'[d].places = asked'[d]
    BY <1>2, <1>4, <1>6 DEF HubInv, VaultOK
  <2>3. QED
    BY <1>2, <1>6, <1>7, <1>8, <2>1, <2>2 DEF HubInv, VaultOK, Held, PlaceLists, Registration
<1>10. ModesOK' /\ SignInsOK'
  BY <1>2 DEF HubInv, modeVars, oauthVars, ModesOK, SignInsOK, StateUsedOnce
<1>11. QED
  BY <1>9, <1>10 DEF HubInv

LEMMA OauthStartKeeps ==
  ASSUME HubInv, NEW p \in Providers, NEW s \in StateIds, oauth_start(p, s) PROVE HubInv'
<1>1. /\ issued[s] = None /\ oauthStates' = [oauthStates EXCEPT ![s] = p] /\ issued' = [issued EXCEPT ![s] = p]
      /\ UNCHANGED <<modeVars, vaultVars, exchanging, exchanged>>
  BY DEF oauth_start
<1>2. p # None
  BY HubAssumption
<1>3. /\ oauthStates' \in [StateIds -> Providers \cup {None}] /\ issued' \in [StateIds -> Providers \cup {None}]
      /\ oauthStates'[s] = p /\ issued'[s] = p /\ exchanged[s] = <<>>
      /\ \A t \in StateIds \ {s} : oauthStates'[t] = oauthStates[t] /\ issued'[t] = issued[t]
  BY <1>1 DEF HubInv, SignInsOK
<1>4. StateUsedOnce'
  BY <1>1, <1>3 DEF HubInv, SignInsOK, StateUsedOnce
<1>5. SignInsOK'
  BY <1>1, <1>2, <1>3, <1>4 DEF HubInv, SignInsOK
<1>6. ModesOK' /\ VaultOK'
  BY <1>1 DEF HubInv, modeVars, vaultVars, ModesOK, VaultOK, LiveTokenStored, CredentialKeyHasSecret
<1>7. QED
  BY <1>5, <1>6 DEF HubInv

LEMMA CallbackKeeps ==
  ASSUME HubInv, NEW p \in Providers, NEW s \in StateIds,
         oauth_callback_Refused(p, s) \/ \E h \in Callbacks : oauth_callback(h, p, s)
  PROVE  HubInv'
<1>1. TakeState(s) /\ UNCHANGED <<modeVars, vaultVars, issued>>
  BY DEF oauth_callback_Refused, oauth_callback
<1>2. /\ oauthStates' \in [StateIds -> Providers \cup {None}] /\ oauthStates'[s] = None
      /\ \A t \in StateIds \ {s} : oauthStates'[t] = oauthStates[t]
  BY <1>1 DEF TakeState, HubInv, SignInsOK
<1>3. p # None
  BY HubAssumption
<1>4. CASE oauth_callback_Refused(p, s)
  <2>1. oauthStates[s] # None /\ UNCHANGED <<exchanging, exchanged>>
    BY <1>4 DEF oauth_callback_Refused
  <2>2. StateUsedOnce'
    BY <1>1, <2>1 DEF HubInv, SignInsOK, StateUsedOnce
  <2>3. SignInsOK'
    BY <1>1, <1>2, <2>1, <2>2 DEF HubInv, SignInsOK
  <2>4. QED
    BY <1>1, <2>3 DEF HubInv, modeVars, vaultVars, ModesOK, VaultOK, LiveTokenStored, CredentialKeyHasSecret
<1>5. ASSUME NEW h \in Callbacks, oauth_callback(h, p, s) PROVE HubInv'
  <2>1. /\ oauthStates[s] = p /\ exchanging' = [exchanging EXCEPT ![h] = p]
        /\ exchanged' = [exchanged EXCEPT ![s] = Append(@, p)]
    BY <1>5 DEF oauth_callback
  <2>2. exchanged[s] = <<>> /\ issued[s] = p /\ exchanged \in [StateIds -> Seq(Providers)]
    BY <1>3, <2>1 DEF HubInv, SignInsOK
  <2>3. Append(exchanged[s], p) = <<p>> /\ <<p>> \in Seq(Providers) /\ <<p>>[1] = p /\ Len(<<p>>) = 1
    BY <2>2
  <2>4. /\ exchanged' \in [StateIds -> Seq(Providers)] /\ exchanged'[s] = <<p>>
        /\ \A t \in StateIds \ {s} : exchanged'[t] = exchanged[t]
    BY <2>1, <2>2, <2>3
  <2>5. exchanging' \in [Callbacks -> Providers \cup {None}]
    BY <2>1 DEF HubInv, SignInsOK
  <2>6. StateUsedOnce'
    <3>1. \A t \in StateIds \ {s} :
             Len(exchanged[t]) <= 1 /\ (exchanged[t] # <<>> => exchanged[t][1] = issued[t])
      BY DEF HubInv, SignInsOK, StateUsedOnce
    <3>2. Len(exchanged'[s]) <= 1 /\ exchanged'[s][1] = issued'[s]
      BY <1>1, <2>2, <2>3, <2>4
    <3>3. \A t \in StateIds \ {s} : exchanged'[t] = exchanged[t] /\ issued'[t] = issued[t]
      BY <1>1, <2>4
    <3>4. QED
      BY <3>1, <3>2, <3>3 DEF StateUsedOnce
  <2>7. SignInsOK'
    BY <1>1, <1>2, <1>3, <2>2, <2>4, <2>5, <2>6 DEF HubInv, SignInsOK
  <2>8. QED
    BY <1>1, <2>7 DEF HubInv, modeVars, vaultVars, ModesOK, VaultOK, LiveTokenStored, CredentialKeyHasSecret
<1>6. QED
  BY <1>4, <1>5

LEMMA FailedExchangeKeeps ==
  ASSUME HubInv, NEW h \in Callbacks, ExchangeFails(h) PROVE HubInv'
<1>1. /\ exchanging' = [exchanging EXCEPT ![h] = None]
      /\ UNCHANGED <<modeVars, vaultVars, oauthStates, issued, exchanged>>
  BY DEF ExchangeFails
<1>2. exchanging' \in [Callbacks -> Providers \cup {None}]
  BY <1>1 DEF HubInv, SignInsOK
<1>3. QED
  BY <1>1, <1>2 DEF HubInv, modeVars, vaultVars, ModesOK, VaultOK, LiveTokenStored, CredentialKeyHasSecret,
     SignInsOK, StateUsedOnce

LEMMA ExchangeKeeps ==
  ASSUME HubInv, NEW h \in Callbacks, NEW token \in Tokens, ExchangeDone(h, token) PROVE HubInv'
<1>1. PICK c : c = ConnectorOf[exchanging[h]]
  OBVIOUS
<1>2. PICK store : store = [vault[c] EXCEPT !.token = token]
  OBVIOUS
<1>3. /\ exchanging[h] # None /\ vault' = [vault EXCEPT ![c] = store]
      /\ live' = [live EXCEPT ![c] = Hydrated(c, store)] /\ overwritten' = overwritten \ {c}
      /\ registry' = [registry EXCEPT ![c] = Registered(c, TRUE)]
      /\ exchanging' = [exchanging EXCEPT ![h] = None]
      /\ UNCHANGED <<modeVars, oauthStates, issued, exchanged, asked>>
  BY <1>1, <1>2 DEF ExchangeDone
<1>4. c \in Connectors
  BY <1>1, <1>3 DEF HubInv, SignInsOK, ConnectorOf, Connectors, Providers
<1>5. VaultOK /\ vault[c] \in Held
  BY <1>4 DEF HubInv, VaultOK
<1>6. store \in Held /\ store.token = token /\ store.places = vault[c].places
  BY <1>2, <1>5 DEF Held
<1>7. token # None
  BY HubAssumption
<1>8. Hydrated(c, store) \in Held /\ Hydrated(c, store).token = store.token
  BY <1>4, <1>5, <1>6, <1>7, HydratedHeld
<1>9. /\ asked' \in [Connectors -> PlaceLists] /\ \A d \in Connectors \ {c} : asked'[d] = asked[d]
      /\ asked'[c] # <<>> => store.places = asked'[c]
  BY <1>3, <1>4, <1>5, <1>6 DEF VaultOK
<1>10. /\ registry' \in [Connectors -> Registration \cup {None}]
       /\ \A d \in Connectors \ {c} : registry'[d] = registry[d]
       /\ registry'[c] # None => (registry'[c].hasKey => store.token # None)
  <2>1. registry \in [Connectors -> Registration \cup {None}]
    BY <1>5 DEF VaultOK
  <2>2. Registered(c, TRUE) \in Registration \cup {None}
    BY <1>4, <1>5, RegisteredKey
  <2>3. QED
    BY <1>3, <1>4, <1>6, <1>7, <2>1, <2>2
<1>11. VaultOK'
  BY <1>3, <1>4, <1>5, <1>6, <1>8, <1>9, <1>10, StoredVault
<1>12. exchanging' \in [Callbacks -> Providers \cup {None}]
  BY <1>3 DEF HubInv, SignInsOK
<1>13. ModesOK' /\ SignInsOK'
  BY <1>3, <1>12 DEF HubInv, modeVars, ModesOK, SignInsOK, StateUsedOnce
<1>14. QED
  BY <1>11, <1>13 DEF HubInv

LEMMA HubNextKeeps ==
  ASSUME HubInv, NEW cs \in SUBSET Connectors, NEW ts \in SUBSET Tokens, NEW ss \in SUBSET StateIds,
         HubNext(cs, ts, ss)
  PROVE  HubInv'
<1>1. ASSUME NEW on \in BOOLEAN, set_system_mode(on) PROVE HubInv'
  BY <1>1, ModeKeeps
<1>2. ASSUME NEW c \in cs, NEW t \in ts \cup {None}, NEW places \in Settings \cup {<<>>},
             NEW form \in {"text", "list"}, connect_connector(c, t, places, form)
      PROVE  HubInv'
  BY <1>2, ConnectKeeps
<1>3. ASSUME NEW c \in cs, NEW t \in ts, store_secret(c, t) PROVE HubInv'
  BY <1>3, StoreSecretKeeps
<1>4. ASSUME NEW s \in ss, NEW p \in Providers, oauth_start(p, s) PROVE HubInv'
  BY <1>4, OauthStartKeeps
<1>5. ASSUME NEW s \in ss, NEW p \in Providers,
             oauth_callback_Refused(p, s) \/ \E h \in Callbacks : oauth_callback(h, p, s)
      PROVE  HubInv'
  BY <1>5, CallbackKeeps
<1>6. ASSUME NEW h \in Callbacks, ExchangeFails(h) PROVE HubInv'
  BY <1>6, FailedExchangeKeeps
<1>7. ASSUME NEW h \in Callbacks, NEW t \in ts, ExchangeDone(h, t) PROVE HubInv'
  BY <1>7, ExchangeKeeps
<1>8. QED
  BY <1>1, <1>2, <1>3, <1>4, <1>5, <1>6, <1>7, Zenon DEF HubNext

Statuses == {"COMPLETED", "FAILED"}
AuditRecord == {"SYNC_START", "SYNC_COMPLETE", "SYNC_FAILED"} \X Nat

\* The two records of the i-th sync are the i-th two of the log; a read in progress has one.
RecordsPaired ==
  /\ reports \in Seq(Statuses) /\ audit \in Seq(AuditRecord)
  /\ Len(audit) = 2 * Len(reports) + (IF rd = NoRead THEN 0 ELSE 1)
  /\ \A j \in DOMAIN audit : audit[j][2] = (j + 1) \div 2
  /\ \A i \in DOMAIN reports :
       audit[2 * i - 1] = <<"SYNC_START", i>> /\ audit[2 * i] = <<ClosingAction(reports[i]), i>>
  /\ rd # NoRead => audit[2 * Len(reports) + 1] = <<"SYNC_START", Run>>

Underway == rd # NoRead => "pc" \in DOMAIN rd /\ rd.pc # "idle"

SyncsInv == HubInv /\ conn \in Connectors \cup {None} /\ RecordsPaired /\ Underway

LEMMA HubUnchanged == ASSUME HubInv, UNCHANGED hubVars PROVE HubInv'
<1>1. UNCHANGED <<modeVars, vaultVars, oauthVars>>
  BY DEF hubVars
<1>2. ModesOK' /\ VaultOK'
  BY <1>1 DEF HubInv, modeVars, vaultVars, ModesOK, VaultOK, LiveTokenStored, CredentialKeyHasSecret
<1>3. SignInsOK'
  BY <1>1 DEF HubInv, oauthVars, SignInsOK, StateUsedOnce
<1>4. QED
  BY <1>2, <1>3 DEF HubInv

LEMMA PairFacts ==
  ASSUME RecordsPaired
  PROVE  /\ Len(reports) \in Nat /\ DOMAIN reports = 1 .. Len(reports)
         /\ Len(audit) \in Nat /\ DOMAIN audit = 1 .. Len(audit)
         /\ Len(audit) = 2 * Len(reports) + (IF rd = NoRead THEN 0 ELSE 1)
         /\ Run = Len(reports) + 1
BY LenProperties DEF RecordsPaired, Run

LEMMA Halves ==
  ASSUME NEW i \in Nat, NEW j \in Nat PROVE (j + 1) \div 2 = i <=> j + 1 = 2 * i \/ j = 2 * i
OBVIOUS

\* A step of a read that goes on, or of the world around it.
LEMMA GoesOn ==
  ASSUME RecordsPaired, UNCHANGED <<audit, reports>>, rd = NoRead <=> rd' = NoRead
  PROVE  RecordsPaired'
BY DEF RecordsPaired, Run, ClosingAction

LEMMA ReportEnds ==
  ASSUME RecordsPaired, NEW status \in Statuses, Report(status)
  PROVE  RecordsPaired' /\ Underway'
<1> DEFINE n == Len(reports)
           start == <<"SYNC_START", n + 1>>
           closing == <<ClosingAction(status), n + 1>>
<1>1. /\ rd' = NoRead /\ reports' = Append(reports, status)
      /\ audit' = IF rd = NoRead THEN audit \o <<start, closing>> ELSE Append(audit, closing)
  BY DEF Report, Run
<1>2. /\ n \in Nat /\ DOMAIN reports = 1 .. n /\ Len(audit) \in Nat /\ DOMAIN audit = 1 .. Len(audit)
      /\ Len(audit) = 2 * n + (IF rd = NoRead THEN 0 ELSE 1)
  BY PairFacts
<1>3. /\ start \in AuditRecord /\ closing \in AuditRecord /\ start[2] = n + 1 /\ closing[2] = n + 1
  BY <1>2 DEF AuditRecord, ClosingAction
<1>4. reports \in Seq(Statuses) /\ audit \in Seq(AuditRecord)
  BY DEF RecordsPaired
<1>5. /\ reports' \in Seq(Statuses) /\ Len(reports') = n + 1 /\ DOMAIN reports' = 1 .. n + 1
      /\ reports'[n + 1] = status /\ \A i \in DOMAIN reports : reports'[i] = reports[i]
  BY <1>1, <1>2, <1>4, AppendProperties, LenProperties
<1>6. rd # NoRead => audit[2 * n + 1] = start
  BY DEF RecordsPaired, Run
<1> HIDE DEF start, closing
<1>7. /\ audit' \in Seq(AuditRecord) /\ Len(audit') = 2 * n + 2
      /\ audit'[2 * n + 1] = start /\ audit'[2 * n + 2] = closing
      /\ \A j \in 1 .. 2 * n : audit'[j] = audit[j]
  <2>1. CASE rd = NoRead
    <3>1. PICK last : last = <<start, closing>>
      OBVIOUS
    <3>2. last \in Seq(AuditRecord) /\ Len(last) = 2 /\ last[1] = start /\ last[2] = closing
      BY <1>3, <3>1
    <3>3. audit' = audit \o last
      BY <1>1, <2>1, <3>1
    <3>4. QED
      <4>1. Len(audit) = 2 * n
        BY <1>2, <2>1
      <4>2. /\ audit' \in Seq(AuditRecord) /\ Len(audit') = Len(audit) + Len(last)
            /\ \A j \in 1 .. Len(audit) + Len(last) :
                 audit'[j] = IF j <= Len(audit) THEN audit[j] ELSE last[j - Len(audit)]
        BY <1>4, <3>2, <3>3, ConcatProperties
      <4>3. audit'[Len(audit) + 1] = last[1] /\ audit'[Len(audit) + 2] = last[2]
        <5>1. PICK m \in Nat : m = Len(audit)
          BY <1>2
        <5>2. m + 1 \in 1 .. m + 2 /\ m + 2 \in 1 .. m + 2 /\ ~(m + 1 <= m) /\ ~(m + 2 <= m)
              /\ (m + 1) - m = 1 /\ (m + 2) - m = 2
          OBVIOUS
        <5>3. QED
          BY <3>2, <4>2, <5>1, <5>2
      <4>4. \A j \in 1 .. Len(audit) : audit'[j] = audit[j]
        BY <1>2, <3>2, <4>2
      <4>5. QED
        BY <3>2, <4>1, <4>2, <4>3, <4>4
  <2>2. CASE rd # NoRead
    <3>1. audit' = Append(audit, closing)
      BY <1>1, <2>2
    <3>2. /\ audit' \in Seq(AuditRecord) /\ Len(audit') = Len(audit) + 1
          /\ audit'[Len(audit) + 1] = closing /\ \A j \in 1 .. Len(audit) : audit'[j] = audit[j]
      BY <1>2, <1>3, <1>4, <3>1, AppendProperties
    <3>3. QED
      BY <1>2, <1>6, <2>2, <3>2
  <2>3. QED
    BY <2>1, <2>2
<1>8. DOMAIN audit' = 1 .. 2 * n + 2
  BY <1>2, <1>7, LenProperties
<1>9. \A j \in DOMAIN audit' : audit'[j][2] = (j + 1) \div 2
  <2>1. \A j \in 1 .. 2 * n : audit[j][2] = (j + 1) \div 2
    <3>1. \A j \in DOMAIN audit : audit[j][2] = (j + 1) \div 2
      BY DEF RecordsPaired
    <3>2. 1 .. 2 * n \subseteq DOMAIN audit
      BY <1>2
    <3>3. QED
      BY <3>1, <3>2
  <2>2. (2 * n + 1 + 1) \div 2 = n + 1 /\ (2 * n + 2 + 1) \div 2 = n + 1
    BY <1>2
  <2>3. \A j \in DOMAIN audit' : j \in 1 .. 2 * n \/ j = 2 * n + 1 \/ j = 2 * n + 2
    BY <1>2, <1>8
  <2>4. QED
    BY <1>3, <1>7, <2>1, <2>2, <2>3
<1>10. ASSUME NEW i \in DOMAIN reports'
       PROVE  audit'[2 * i - 1] = <<"SYNC_START", i>> /\ audit'[2 * i] = <<ClosingAction(reports'[i]), i>>
  <2>1. CASE i \in 1 .. n
    <3>1. audit[2 * i - 1] = <<"SYNC_START", i>> /\ audit[2 * i] = <<ClosingAction(reports[i]), i>>
      BY <1>2, <2>1 DEF RecordsPaired
    <3>2. 2 * i - 1 \in 1 .. 2 * n /\ 2 * i \in 1 .. 2 * n /\ reports'[i] = reports[i]
      BY <1>2, <1>5, <2>1
    <3>3. QED
      BY <1>7, <3>1, <3>2
  <2>2. CASE i = n + 1
    <3>1. 2 * i - 1 = 2 * n + 1 /\ 2 * i = 2 * n + 2 /\ reports'[i] = status
      BY <1>2, <1>5, <2>2
    <3>2. QED
      BY <1>7, <2>2, <3>1 DEF start, closing
  <2>3. QED
    BY <1>2, <1>5, <2>1, <2>2
<1>11. RecordsPaired'
  <2>1. Len(audit') = 2 * Len(reports') + (IF rd' = NoRead THEN 0 ELSE 1)
    BY <1>1, <1>2, <1>5, <1>7
  <2>2. AuditRecord' = AuditRecord /\ Statuses' = Statuses /\ NoRead' = NoRead
    OBVIOUS
  <2>3. QED
    BY <1>1, <1>5, <1>7, <1>9, <1>10, <2>1, <2>2 DEF RecordsPaired, ClosingAction
<1>12. QED
  BY <1>1, <1>11 DEF Underway

LEMMA StartRecorded ==
  ASSUME RecordsPaired, rd = NoRead, rd' # NoRead, audit' = Append(audit, <<"SYNC_START", Run>>),
         UNCHANGED reports
  PROVE  RecordsPaired'
<1> DEFINE n == Len(reports)
           start == <<"SYNC_START", n + 1>>
<1>1. /\ n \in Nat /\ DOMAIN reports = 1 .. n /\ Len(audit) = 2 * n /\ DOMAIN audit = 1 .. 2 * n
      /\ Run = n + 1
  <2>1. /\ Len(reports) \in Nat /\ DOMAIN reports = 1 .. Len(reports) /\ DOMAIN audit = 1 .. Len(audit)
        /\ Len(audit) = 2 * Len(reports) + 0 /\ Run = Len(reports) + 1
    BY PairFacts
  <2>2. Len(audit) = 2 * Len(reports)
    BY <2>1
  <2>3. QED
    BY <2>1, <2>2
<1>2. start \in AuditRecord /\ start[2] = n + 1 /\ audit' = Append(audit, start)
  BY <1>1 DEF AuditRecord
<1>3. audit \in Seq(AuditRecord)
  BY DEF RecordsPaired
<1>4. start = <<"SYNC_START", n + 1>>
  OBVIOUS
<1> HIDE DEF start
<1>5. /\ audit' \in Seq(AuditRecord) /\ Len(audit') = 2 * n + 1 /\ audit'[2 * n + 1] = start
      /\ \A j \in 1 .. 2 * n : audit'[j] = audit[j]
  <2>1. /\ audit' \in Seq(AuditRecord) /\ Len(audit') = Len(audit) + 1 /\ audit'[Len(audit) + 1] = start
        /\ \A j \in 1 .. Len(audit) : audit'[j] = audit[j]
    BY <1>2, <1>3, AppendProperties
  <2>2. QED
    BY <1>1, <2>1
<1>6. DOMAIN audit' = 1 .. 2 * n + 1
  BY <1>5, LenProperties
<1>7. \A j \in DOMAIN audit' : audit'[j][2] = (j + 1) \div 2
  <2>1. \A j \in 1 .. 2 * n : audit[j][2] = (j + 1) \div 2
    BY <1>1 DEF RecordsPaired
  <2>2. (2 * n + 1 + 1) \div 2 = n + 1
    BY <1>1
  <2>3. \A j \in DOMAIN audit' : j \in 1 .. 2 * n \/ j = 2 * n + 1
    BY <1>1, <1>6
  <2>4. QED
    BY <1>2, <1>5, <2>1, <2>2, <2>3
<1>8. ASSUME NEW i \in 1 .. n
      PROVE  audit'[2 * i - 1] = <<"SYNC_START", i>> /\ audit'[2 * i] = <<ClosingAction(reports[i]), i>>
  <2>1. audit[2 * i - 1] = <<"SYNC_START", i>> /\ audit[2 * i] = <<ClosingAction(reports[i]), i>>
    BY <1>1 DEF RecordsPaired
  <2>2. 2 * i - 1 \in 1 .. 2 * n /\ 2 * i \in 1 .. 2 * n
    BY <1>1
  <2>3. QED
    BY <1>5, <2>1, <2>2
<1>9. QED
  BY <1>1, <1>4, <1>5, <1>7, <1>8 DEF RecordsPaired, ClosingAction, Run

LEMMA PairedIsClosed == RecordsPaired => SyncClosed
<1> SUFFICES ASSUME RecordsPaired, NEW i \in DOMAIN reports
             PROVE  \E s, e \in DOMAIN audit :
                      /\ s < e /\ {j \in DOMAIN audit : audit[j][2] = i} = {s, e}
                      /\ audit[s] = <<"SYNC_START", i>>
                      /\ audit[e] = <<IF reports[i] = "COMPLETED" THEN "SYNC_COMPLETE" ELSE "SYNC_FAILED", i>>
  BY DEF SyncClosed
<1>1. /\ i \in 1 .. Len(reports) /\ Len(reports) \in Nat /\ Len(audit) \in Nat
      /\ DOMAIN audit = 1 .. Len(audit) /\ 2 * Len(reports) <= Len(audit)
  BY PairFacts
<1>2. 2 * i - 1 \in DOMAIN audit /\ 2 * i \in DOMAIN audit /\ 2 * i - 1 < 2 * i
  BY <1>1
<1>3. ASSUME NEW j \in DOMAIN audit PROVE (j + 1) \div 2 = i <=> j \in {2 * i - 1, 2 * i}
  <2>1. j \in Nat /\ i \in Nat
    BY <1>1
  <2>2. (j + 1) \div 2 = i <=> j + 1 = 2 * i \/ j = 2 * i
    BY <2>1, Halves
  <2>3. QED
    BY <2>1, <2>2
<1>4. {j \in DOMAIN audit : audit[j][2] = i} = {2 * i - 1, 2 * i}
  BY <1>2, <1>3 DEF RecordsPaired
<1>5. audit[2 * i - 1] = <<"SYNC_START", i>> /\ audit[2 * i] = <<ClosingAction(reports[i]), i>>
  BY DEF RecordsPaired
<1>6. QED
  BY <1>2, <1>4, <1>5 DEF ClosingAction

LEMMA SyncsStart == Init => SyncsInv
<1> SUFFICES ASSUME Init PROVE SyncsInv
  OBVIOUS
<1>1. HubInv /\ conn \in Connectors \cup {None} /\ rd = NoRead /\ audit = <<>> /\ reports = <<>>
  BY HubStarts DEF Init
<1>2. /\ reports \in Seq(Statuses) /\ audit \in Seq(AuditRecord) /\ Len(reports) = 0 /\ Len(audit) = 0
      /\ DOMAIN reports = {} /\ DOMAIN audit = {}
  BY <1>1, EmptySeq
<1>3. QED
  BY <1>1, <1>2 DEF SyncsInv, RecordsPaired, Underway

\* A read goes on with a record that is not the one of no read.
LEMMA RecordGoes ==
  ASSUME NEW r, Goes(r), "pc" \in DOMAIN r, r.pc # "idle"
  PROVE  rd' # NoRead /\ "pc" \in DOMAIN rd' /\ rd'.pc # "idle" /\ UNCHANGED <<sourceSide, audit, reports>>
<1>1. NoRead.pc = "idle"
  BY DEF NoRead
<1>2. QED
  BY <1>1 DEF Goes

LEMMA FetchGoes ==
  ASSUME SyncsInv, rd # NoRead, NEW id, NEW v, Fetch(id, v)
  PROVE  rd' # NoRead /\ "pc" \in DOMAIN rd' /\ rd'.pc # "idle" /\ UNCHANGED <<sourceSide, audit, reports>>
<1>1. PICK next : next = Requested(id, rd)
  OBVIOUS
<1>2. "pc" \in DOMAIN next /\ next.pc # "idle"
  BY <1>1 DEF SyncsInv, Underway, Requested
<1>3. \/ Goes([next EXCEPT !.clean = FALSE]) \/ Goes(next) \/ Goes([next EXCEPT !.count = @ + 1])
  BY <1>1 DEF Fetch
<1>4. /\ "pc" \in DOMAIN [next EXCEPT !.clean = FALSE] /\ [next EXCEPT !.clean = FALSE].pc = next.pc
      /\ "pc" \in DOMAIN [next EXCEPT !.count = @ + 1] /\ [next EXCEPT !.count = @ + 1].pc = next.pc
  BY <1>2
<1>5. QED
  BY <1>2, <1>3, <1>4, RecordGoes

LEMMA StepGoesOrReports ==
  ASSUME SyncsInv, ReadStep
  PROVE  /\ rd # NoRead /\ UNCHANGED sourceSide
         /\ \/ \E status \in Statuses : Report(status)
            \/ /\ rd' # NoRead /\ "pc" \in DOMAIN rd' /\ rd'.pc # "idle"
               /\ UNCHANGED <<audit, reports>>
<1>1. ASSUME rd # NoRead PROVE "pc" \in DOMAIN rd /\ rd.pc # "idle"
  BY <1>1 DEF SyncsInv, Underway
<1>2. "COMPLETED" \in Statuses /\ "FAILED" \in Statuses
  BY DEF Statuses
<1>3. CASE ListedRepos
  <2>1. rd # NoRead
    BY <1>3 DEF ListedRepos, Reading
  <2>2. CASE Goes([rd EXCEPT !.todo = Places, !.places = Places, !.pc = "branch"])
    BY <1>1, <2>1, <2>2, RecordGoes
  <2>3. QED
    BY <1>2, <1>3, <2>1, <2>2 DEF ListedRepos
<1>4. CASE DefaultBranch
  <2>1. rd # NoRead
    BY <1>4 DEF DefaultBranch, Reading
  <2>2. CASE Goes([rd EXCEPT !.branch = head[Head(rd.todo)], !.pc = "tree"])
    BY <1>1, <2>1, <2>2, RecordGoes
  <2>3. CASE Goes(SkipRepo)
    BY <1>1, <2>1, <2>3, RecordGoes DEF SkipRepo
  <2>4. QED
    BY <1>4, <2>1, <2>2, <2>3 DEF DefaultBranch
<1>5. CASE Tree
  <2>1. rd # NoRead
    BY <1>5 DEF Tree, Reading
  <2>2. CASE Goes(SkipRepo)
    BY <1>1, <2>1, <2>2, RecordGoes DEF SkipRepo
  <2>3. ASSUME NEW tree, NEW items, Goes([rd EXCEPT !.tree = tree, !.items = items, !.pc = "files"])
        PROVE  rd' # NoRead /\ "pc" \in DOMAIN rd' /\ rd'.pc # "idle" /\ UNCHANGED <<sourceSide, audit, reports>>
    BY <1>1, <2>1, <2>3, RecordGoes
  <2>4. QED
    BY <1>5, <2>1, <2>2, <2>3 DEF Tree
<1>6. CASE File
  <2>1. rd # NoRead
    BY <1>6 DEF File, Reading
  <2>2. CASE Goes(Requested(FileId, rd))
    BY <1>1, <2>1, <2>2, RecordGoes DEF Requested
  <2>3. CASE Fetch(FileId, FileContent(FileId))
    BY <2>1, <2>3, FetchGoes
  <2>4. QED
    BY <1>6, <2>1, <2>2, <2>3 DEF File
<1>7. CASE RepoDone
  <2>1. rd # NoRead
    BY <1>7 DEF RepoDone, Reading
  <2>2. Goes([rd EXCEPT !.todo = Tail(@), !.count = 0, !.pc = "branch", !.clean = @ /\ rd.items = <<>>])
    BY <1>7 DEF RepoDone
  <2>3. QED
    BY <1>1, <2>1, <2>2, RecordGoes
<1>8. CASE ReadDone
  BY <1>2, <1>8 DEF ReadDone, Reading
<1>9. CASE ListMessages
  <2>1. rd # NoRead
    BY <1>9 DEF ListMessages, Reading
  <2>2. CASE Goes([rd EXCEPT !.pc = "scanned", !.clean = FALSE])
    BY <1>1, <2>1, <2>2, RecordGoes
  <2>3. ASSUME NEW page, NEW label,
               Goes([rd EXCEPT !.items = page.items, !.more = page.more, !.pos = page.pos, !.todo = <<label>>,
                               !.pc = IF page.items = <<>> THEN "scanned" ELSE "mails"])
        PROVE  rd' # NoRead /\ "pc" \in DOMAIN rd' /\ rd'.pc # "idle" /\ UNCHANGED <<sourceSide, audit, reports>>
    BY <1>1, <2>1, <2>3, RecordGoes
  <2>4. QED
    BY <1>9, <2>1, <2>2, <2>3 DEF ListMessages
<1>10. CASE Mail
  <2>1. rd # NoRead
    BY <1>10 DEF Mail, Reading
  <2>2. QED
    BY <1>10, <2>1, FetchGoes DEF Mail
<1>11. CASE PageDone
  <2>1. rd # NoRead
    BY <1>11 DEF PageDone, Reading
  <2>2. ASSUME NEW ends, NEW clean,
               Goes([rd EXCEPT !.pc = IF ends THEN "scanned" ELSE "page", !.items = <<>>, !.clean = clean])
        PROVE  rd' # NoRead /\ "pc" \in DOMAIN rd' /\ rd'.pc # "idle" /\ UNCHANGED <<sourceSide, audit, reports>>
    BY <1>1, <2>1, <2>2, RecordGoes
  <2>3. QED
    BY <1>11, <2>1, <2>2 DEF PageDone
<1>12. CASE Scanned
  BY <1>2, <1>12 DEF Scanned, Reading
<1>13. UNCHANGED sourceSide
  BY DEF ReadStep, ListedRepos, DefaultBranch, Tree, File, Fetch, RepoDone, ReadDone, ListMessages, Mail, PageDone,
     Scanned, Goes
<1>14. QED
  BY <1>3, <1>4, <1>5, <1>6, <1>7, <1>8, <1>9, <1>10, <1>11, <1>12, <1>13 DEF ReadStep

\* A sync that starts loads what is stored: the token is then the stored one, and so are
\* the places that were last asked for.
LEMMA SyncStarts ==
  ASSUME SyncsInv, sync_connector
  PROVE  SyncsInv' /\ NoReadWhileSovereign /\ SyncUsesSettings
<1>1. /\ conn # None /\ rd = NoRead /\ live' = [live EXCEPT ![conn] = Hydrated(conn, vault[conn])]
      /\ overwritten' = overwritten \ {conn}
      /\ UNCHANGED <<modeVars, oauthVars, registry, vault, asked, conn>>
  BY DEF sync_connector
<1>2. conn \in Connectors /\ HubInv /\ VaultOK
  BY <1>1 DEF SyncsInv, HubInv
<1>3. PICK store : store = vault[conn]
  OBVIOUS
<1>4. store \in Held
  BY <1>2, <1>3 DEF VaultOK
<1>5. /\ Hydrated(conn, store) \in Held
      /\ Hydrated(conn, store).token = IF store.token # None THEN store.token ELSE live[conn].token
      /\ store.places # <<>> => Hydrated(conn, store).places = store.places
  BY <1>2, <1>4, HydratedHeld
<1>6. Hydrated(conn, store).token = store.token
  BY <1>2, <1>3, <1>5 DEF VaultOK, LiveTokenStored
<1>7. VaultOK'
  <2>1. vault' = [vault EXCEPT ![conn] = store]
    BY <1>1, <1>2, <1>3 DEF VaultOK
  <2>2. asked' \in [Connectors -> PlaceLists] /\ (asked'[conn] # <<>> => store.places = asked'[conn])
    BY <1>1, <1>2, <1>3 DEF VaultOK
  <2>3. /\ registry' \in [Connectors -> Registration \cup {None}]
        /\ (registry'[conn] # None => (registry'[conn].hasKey => store.token # None))
    BY <1>1, <1>2, <1>3 DEF VaultOK, CredentialKeyHasSecret
  <2>4. live' = [live EXCEPT ![conn] = Hydrated(conn, store)]
    BY <1>1, <1>3
  <2>5. /\ \A d \in Connectors \ {conn} : asked'[d] = asked[d]
        /\ \A d \in Connectors \ {conn} : registry'[d] = registry[d]
    BY <1>1
  <2>6. QED
    BY <1>1, <1>2, <1>4, <1>5, <1>6, <2>1, <2>2, <2>3, <2>4, <2>5, StoredVault
<1>8. HubInv'
  BY <1>1, <1>2, <1>7 DEF HubInv, modeVars, oauthVars, ModesOK, SignInsOK, StateUsedOnce
<1>9. RecordsPaired
  BY DEF SyncsInv
<1>10. CASE \E status \in Statuses : Report(status)
  <2>1. RecordsPaired' /\ Underway'
    BY <1>9, <1>10, ReportEnds
  <2>2. rd' = NoRead
    BY <1>10 DEF Report
  <2>3. QED
    BY <1>1, <1>2, <1>8, <2>1, <2>2 DEF SyncsInv, NoReadWhileSovereign, SyncUsesSettings
<1>11. CASE /\ ~guard[conn] /\ rd' = Started(live'[conn].places)
            /\ audit' = Append(audit, <<"SYNC_START", Run>>) /\ UNCHANGED reports
  <2>1. PICK places : places = live'[conn].places
    OBVIOUS
  <2>2. /\ "pc" \in DOMAIN rd' /\ rd'.pc \in {"page", "repos", "branch"} /\ rd'.places = places
    BY <1>11, <2>1 DEF Started
  <2>3. rd' # NoRead
    <3>1. NoRead.pc = "idle"
      BY DEF NoRead
    <3>2. QED
      BY <2>2, <3>1
  <2>4. RecordsPaired'
    BY <1>1, <1>9, <1>11, <2>3, StartRecorded
  <2>5. ~airGapped /\ ~sovereign
    BY <1>2, <1>11 DEF HubInv, ModesOK
  <2>6. places = Hydrated(conn, store).places
    BY <1>1, <1>2, <1>3, <2>1 DEF VaultOK
  <2>7. asked[conn] \in {<<>>, places}
    BY <1>2, <1>3, <1>5, <2>6 DEF VaultOK
  <2>8. QED
    BY <1>1, <1>2, <1>8, <2>2, <2>4, <2>5, <2>7 DEF SyncsInv, Underway, NoReadWhileSovereign, SyncUsesSettings
<1>12. QED
  BY <1>10, <1>11 DEF sync_connector, Statuses

LEMMA SyncsStep ==
  ASSUME SyncsInv, [Next]_vars
  PROVE  SyncsInv' /\ NoReadWhileSovereign /\ SyncUsesSettings
<1>1. ASSUME HubInv', UNCHANGED <<conn, audit, reports>>,
             rd = NoRead <=> rd' = NoRead, Underway'
      PROVE  SyncsInv' /\ NoReadWhileSovereign /\ SyncUsesSettings
  BY <1>1, GoesOn DEF SyncsInv, NoReadWhileSovereign, SyncUsesSettings
<1>2. NoRead.pc = "idle"
  BY DEF NoRead
<1>3. ASSUME NEW stable, rd' = IF rd = NoRead THEN NoRead ELSE [rd EXCEPT !.stable = stable]
      PROVE  (rd = NoRead <=> rd' = NoRead) /\ Underway'
  <2>1. CASE rd = NoRead
    BY <1>3, <2>1 DEF Underway
  <2>2. CASE rd # NoRead
    <3>1. "pc" \in DOMAIN rd' /\ rd'.pc = rd.pc /\ rd.pc # "idle"
      BY <1>3, <2>2 DEF SyncsInv, Underway
    <3>2. QED
      BY <1>2, <2>2, <3>1 DEF Underway
  <2>3. QED
    BY <2>1, <2>2
<1>4. CASE SourceChanges
  <2>1. HubInv' /\ UNCHANGED <<conn, audit, reports>>
    BY <1>4, HubUnchanged DEF SourceChanges, SyncsInv
  <2>2. rd' = IF rd = NoRead THEN NoRead ELSE [rd EXCEPT !.stable = FALSE]
    BY <1>4 DEF SourceChanges
  <2>3. QED
    BY <1>1, <1>3, <2>1, <2>2
<1>5. CASE HubStep
  <2>1. UNCHANGED <<conn, audit, reports>>
    BY <1>5 DEF HubStep
  <2>2. HubInv'
    <3>1. HubInv
      BY DEF SyncsInv
    <3>2. CASE conn = None
      <4>1. HubNext(Connectors, Tokens, StateIds)
        BY <1>5, <3>2 DEF HubStep
      <4>2. QED
        BY <3>1, <4>1, HubNextKeeps
    <3>3. CASE conn # None
      <4>1. HubNext({conn}, {CHOOSE t \in Tokens : TRUE}, IF conn = "gmail" THEN StateIds ELSE {})
        BY <1>5, <3>3 DEF HubStep
      <4>2. {conn} \in SUBSET Connectors /\ {CHOOSE t \in Tokens : TRUE} \in SUBSET Tokens
        BY <3>3, HubAssumption DEF SyncsInv
      <4>3. (IF conn = "gmail" THEN StateIds ELSE {}) \in SUBSET StateIds
        OBVIOUS
      <4>4. QED
        BY <3>1, <4>1, <4>2, <4>3, HubNextKeeps
    <3>4. QED
      BY <3>2, <3>3
  <2>3. PICK stable : rd' = IF rd = NoRead THEN NoRead ELSE [rd EXCEPT !.stable = stable]
    BY <1>5 DEF HubStep
  <2>4. QED
    BY <1>1, <1>3, <2>1, <2>2, <2>3
<1>6. CASE sync_connector
  BY <1>6, SyncStarts
<1>7. CASE BatchFails
  <2>1. /\ rd # NoRead /\ Report("FAILED") /\ UNCHANGED sourceSide
    BY <1>7 DEF BatchFails
  <2>2. RecordsPaired' /\ Underway'
    BY <2>1, ReportEnds DEF SyncsInv, Statuses
  <2>3. HubInv' /\ conn' = conn
    BY <2>1, HubUnchanged DEF SyncsInv, sourceSide
  <2>4. QED
    BY <2>1, <2>2, <2>3 DEF SyncsInv, NoReadWhileSovereign, SyncUsesSettings
<1>8. CASE ReadStep
  <2>1. /\ rd # NoRead /\ UNCHANGED sourceSide
        /\ \/ \E status \in Statuses : Report(status)
           \/ /\ rd' # NoRead /\ "pc" \in DOMAIN rd' /\ rd'.pc # "idle"
              /\ UNCHANGED <<audit, reports>>
    BY <1>8, StepGoesOrReports
  <2>2. HubInv' /\ conn' = conn
    BY <2>1, HubUnchanged DEF SyncsInv, sourceSide
  <2>3. RecordsPaired' /\ Underway'
    <3>1. RecordsPaired
      BY DEF SyncsInv
    <3>2. CASE \E status \in Statuses : Report(status)
      BY <3>1, <3>2, ReportEnds
    <3>3. CASE rd' # NoRead /\ "pc" \in DOMAIN rd' /\ rd'.pc # "idle" /\ UNCHANGED <<audit, reports>>
      BY <2>1, <3>1, <3>3, GoesOn DEF Underway
    <3>4. QED
      BY <2>1, <3>2, <3>3
  <2>4. QED
    BY <2>1, <2>2, <2>3 DEF SyncsInv, NoReadWhileSovereign, SyncUsesSettings
<1>9. CASE UNCHANGED vars
  <2>1. HubInv' /\ UNCHANGED <<conn, audit, reports, rd>>
    BY <1>9, HubUnchanged DEF vars, readVars, SyncsInv
  <2>2. Underway'
    BY <2>1 DEF SyncsInv, Underway
  <2>3. QED
    BY <1>1, <2>1, <2>2
<1>10. QED
  BY <1>4, <1>5, <1>6, <1>7, <1>8, <1>9 DEF Next

\* Whatever sign-ins, settings, modes and syncs overlap: a state token buys one connection,
\* what a connector works with is what is stored, and every sync is closed by what became
\* of it.
THEOREM ConnectorsStaySound == Spec => []ConnectorsSound
<1>1. SyncsInv => ConnectorsSound
  BY PairedIsClosed DEF SyncsInv, HubInv, VaultOK, SignInsOK, ConnectorsSound
<1>2. SyncsInv /\ [Next]_vars => SyncsInv'
  BY SyncsStep
<1>3. QED
  BY <1>1, <1>2, SyncsStart, PTL DEF Spec

\* No read begins while the server is sovereign, and each begins on the places that were
\* last asked for.
THEOREM SyncsStartRight == Spec => [][NoReadWhileSovereign /\ SyncUsesSettings]_vars
<1>1. SyncsInv /\ [Next]_vars => SyncsInv'
  BY SyncsStep
<1>2. SyncsInv /\ [Next]_vars => [NoReadWhileSovereign /\ SyncUsesSettings]_vars
  BY SyncsStep
<1>3. QED
  BY <1>1, <1>2, SyncsStart, PTL DEF Spec

------------------------------------------------------------------------------
(* A repository that could not be listed. *)

\* The lists of places are such that a repository comes up once.
NoRepeats ==
  \A list \in PlaceLists \cup {Places} :
    /\ list \in Seq(Elements(list))
    /\ \A i, j \in DOMAIN list : list[i] = list[j] => i = j

RepoPcs == {"repos", "branch", "tree", "files"}
MailPcs == {"page", "mails", "scanned"}

\* A list in which nothing comes twice and nothing of the set gone.
Ahead(list, gone) ==
  /\ list \in Seq(Elements(list))
  /\ \A i, j \in DOMAIN list : list[i] = list[j] => i = j
  /\ gone \cap Elements(list) = {}

\* A repository that failed is not among those still to be read.
TodoOK ==
  rd # NoRead =>
    /\ {"pc", "todo", "failed"} \subseteq DOMAIN rd
    /\ \/ rd.pc \in RepoPcs /\ Ahead(rd.todo, rd.failed)
       \/ rd.pc \in MailPcs /\ rd.failed = {}
    /\ rd.pc \in {"tree", "files"} => rd.todo # <<>>
    /\ rd.pc = "repos" => rd.failed = {}

TodoInv == SyncsInv /\ DOMAIN known = Ids /\ TodoOK

LEMMA HeadIsAhead ==
  ASSUME NEW list, NEW gone, Ahead(list, gone), list # <<>>
  PROVE  /\ Head(list) \notin gone
         /\ Ahead(Tail(list), gone \cup {Head(list)}) /\ Ahead(Tail(list), gone)
<1>1. list \in Seq(Elements(list)) /\ Len(list) \in Nat \ {0} /\ DOMAIN list = 1 .. Len(list)
  BY LenProperties, EmptySeq DEF Ahead
<1>2. Head(list) = list[1]
  BY <1>1, HeadTailProperties
<1>3. /\ Tail(list) \in Seq(Elements(list)) /\ Len(Tail(list)) = Len(list) - 1
      /\ \A k \in 1 .. Len(list) - 1 : Tail(list)[k] = list[k + 1]
  BY <1>1, HeadTailProperties
<1> DEFINE rest == Tail(list)
<1>4. DOMAIN rest = 1 .. Len(list) - 1
  BY <1>3, LenProperties
<1>5. \A k \in DOMAIN rest : k + 1 \in DOMAIN list /\ k + 1 # 1 /\ rest[k] = list[k + 1]
  BY <1>1, <1>3, <1>4
<1>6. \A i, j \in DOMAIN rest : rest[i] = rest[j] => i = j
  <2>1. SUFFICES ASSUME NEW i \in DOMAIN rest, NEW j \in DOMAIN rest, rest[i] = rest[j] PROVE i = j
    OBVIOUS
  <2>2. list[i + 1] = list[j + 1] /\ i + 1 \in DOMAIN list /\ j + 1 \in DOMAIN list
    BY <1>5, <2>1
  <2>3. i + 1 = j + 1
    BY <2>2 DEF Ahead
  <2>4. QED
    BY <1>1, <1>4, <2>3
<1>7. Elements(rest) \subseteq Elements(list)
  BY <1>5 DEF Elements
<1>8. Head(list) \in Elements(list)
  BY <1>1, <1>2 DEF Elements
<1>9. Head(list) \notin Elements(rest)
  <2>1. SUFFICES ASSUME NEW k \in DOMAIN rest, rest[k] = list[1] PROVE FALSE
    BY <1>2 DEF Elements
  <2>2. list[k + 1] = list[1] /\ k + 1 \in DOMAIN list /\ 1 \in DOMAIN list /\ k + 1 # 1
    BY <1>1, <1>5, <2>1
  <2>3. QED
    BY <2>2 DEF Ahead
<1>10. rest \in Seq(Elements(rest))
  <2>1. \A k \in 1 .. Len(rest) : rest[k] \in Elements(rest)
    BY <1>3, <1>4 DEF Elements
  <2>2. rest \in [1 .. Len(rest) -> Elements(list)] /\ Len(rest) \in Nat
    BY <1>3, LenProperties
  <2>3. rest \in [1 .. Len(rest) -> Elements(rest)]
    BY <2>1, <2>2
  <2>4. QED
    BY <2>2, <2>3, SeqDef
<1>11. QED
  BY <1>6, <1>7, <1>8, <1>9, <1>10 DEF Ahead

\* A step that leaves the cursor alone, and the read unless it goes from or to its end.
LEMMA CursorKept ==
  ASSUME TodoInv, UNCHANGED known, TodoOK' PROVE DOMAIN known' = Ids' /\ TodoOK' /\ FailedRepoKept
BY DEF TodoInv, FailedRepoKept, Ids, PlaceSet, NameSet

\* A record of the repository at hand, or tombstones of its ids.
LEMMA OthersCursorKept ==
  ASSUME TodoInv, rd # NoRead, rd.pc \in RepoPcs, rd.todo # <<>>,
         \/ \E branch, name, v : known' = [known EXCEPT ![<<Head(rd.todo), branch, name>>] = v]
         \/ \E ids : (\A id \in ids : id[1] = Head(rd.todo)) /\ Bury(ids)
  PROVE  DOMAIN known' = Ids' /\ FailedRepoKept
<1>1. Ahead(rd.todo, rd.failed) /\ DOMAIN known = Ids
  BY DEF TodoInv, TodoOK, RepoPcs, MailPcs
<1>2. Head(rd.todo) \notin rd.failed
  BY <1>1, HeadIsAhead
<1>3. Ids' = Ids
  BY DEF Ids, PlaceSet, NameSet
<1>4. CASE \E branch, name, v : known' = [known EXCEPT ![<<Head(rd.todo), branch, name>>] = v]
  <2>1. PICK branch, name, v : known' = [known EXCEPT ![<<Head(rd.todo), branch, name>>] = v]
    BY <1>4
  <2>2. ASSUME NEW id \in Ids, id[1] \in rd.failed PROVE known'[id] = known[id]
    <3>1. id # <<Head(rd.todo), branch, name>>
      BY <1>2, <2>2
    <3>2. QED
      BY <1>1, <2>1, <3>1
  <2>3. QED
    BY <1>1, <1>3, <2>1, <2>2 DEF FailedRepoKept
<1>5. CASE \E ids : (\A id \in ids : id[1] = Head(rd.todo)) /\ Bury(ids)
  <2>1. PICK ids : (\A id \in ids : id[1] = Head(rd.todo)) /\ Bury(ids)
    BY <1>5
  <2>2. known' = [id \in Ids |-> IF id \in ids THEN 0 ELSE known[id]]
    BY <2>1 DEF Bury
  <2>3. QED
    BY <1>2, <1>3, <2>1, <2>2 DEF FailedRepoKept
<1>6. QED
  BY <1>4, <1>5

LEMMA MailCursorKept ==
  ASSUME TodoInv, rd # NoRead, rd.pc \in MailPcs, DOMAIN known' = Ids
  PROVE  DOMAIN known' = Ids' /\ FailedRepoKept
<1>1. rd.failed = {}
  BY DEF TodoInv, TodoOK, RepoPcs, MailPcs
<1>2. Ids' = Ids
  BY DEF Ids, PlaceSet, NameSet
<1>3. QED
  BY <1>1, <1>2 DEF FailedRepoKept

LEMMA FetchFollows ==
  ASSUME TodoInv, rd # NoRead, NEW id, NEW v, Fetch(id, v)
  PROVE  /\ rd'.pc = rd.pc /\ rd'.todo = rd.todo /\ rd'.failed = rd.failed /\ rd' # NoRead
         /\ {"pc", "todo", "failed"} \subseteq DOMAIN rd'
         /\ UNCHANGED known \/ known' = [known EXCEPT ![id] = v]
<1>1. {"pc", "todo", "failed"} \subseteq DOMAIN rd
  BY DEF TodoInv, TodoOK
<1>2. PICK next : next = Requested(id, rd)
  OBVIOUS
<1>3. /\ {"pc", "todo", "failed"} \subseteq DOMAIN next
      /\ next.pc = rd.pc /\ next.todo = rd.todo /\ next.failed = rd.failed
  BY <1>1, <1>2 DEF Requested
<1>4. rd' \in {[next EXCEPT !.clean = FALSE], next, [next EXCEPT !.count = @ + 1]}
  BY <1>2 DEF Fetch, Goes
<1>5. rd' # NoRead
  BY FetchGoes DEF TodoInv
<1>6. UNCHANGED known \/ known' = [known EXCEPT ![id] = v]
  BY DEF Fetch, cursorVars, Deliver
<1>7. CASE rd' = next
  BY <1>3, <1>5, <1>6, <1>7
<1>8. CASE rd' = [next EXCEPT !.clean = FALSE]
  BY <1>3, <1>5, <1>6, <1>8
<1>9. CASE rd' = [next EXCEPT !.count = @ + 1]
  BY <1>3, <1>5, <1>6, <1>9
<1>10. QED
  BY <1>4, <1>7, <1>8, <1>9

LEMMA ReadStepKeeps ==
  ASSUME TodoInv, NoRepeats, ReadStep
  PROVE  DOMAIN known' = Ids' /\ TodoOK' /\ FailedRepoKept
<1>1. rd # NoRead
  BY StepGoesOrReports DEF TodoInv
<1>2. /\ {"pc", "todo", "failed"} \subseteq DOMAIN rd
      /\ \/ rd.pc \in RepoPcs /\ Ahead(rd.todo, rd.failed)
         \/ rd.pc \in MailPcs /\ rd.failed = {}
      /\ rd.pc \in {"tree", "files"} => rd.todo # <<>>
      /\ rd.pc = "repos" => rd.failed = {}
      /\ DOMAIN known = Ids
  BY <1>1 DEF TodoInv, TodoOK
<1>3. NoRead.pc = "idle"
  BY DEF NoRead
<1>4. CASE \E status \in Statuses : Report(status) /\ UNCHANGED known
  <2>1. TodoOK'
    BY <1>4 DEF Report, TodoOK
  <2>2. QED
    BY <1>4, <2>1, CursorKept
<1>5. ASSUME SkipRepo # NoRead, rd.pc \in RepoPcs, rd.todo # <<>>, Goes(SkipRepo), UNCHANGED known
      PROVE  DOMAIN known' = Ids' /\ TodoOK' /\ FailedRepoKept
  <2>1. Ahead(Tail(rd.todo), rd.failed \cup {Head(rd.todo)})
    BY <1>2, <1>5, HeadIsAhead DEF RepoPcs, MailPcs
  <2>2. /\ rd'.pc = "branch" /\ rd'.todo = Tail(rd.todo) /\ rd'.failed = rd.failed \cup {Head(rd.todo)}
        /\ {"pc", "todo", "failed"} \subseteq DOMAIN rd'
    BY <1>2, <1>5 DEF Goes, SkipRepo
  <2>3. TodoOK'
    BY <1>3, <2>1, <2>2 DEF TodoOK, RepoPcs
  <2>4. QED
    BY <1>5, <2>3, CursorKept
<1>6. SkipRepo # NoRead
  <2>1. SkipRepo.pc = "branch"
    BY <1>2 DEF SkipRepo
  <2>2. QED
    BY <1>3, <2>1
<1>7. CASE ListedRepos
  <2>1. CASE Goes([rd EXCEPT !.todo = Places, !.places = Places, !.pc = "branch"])
    <3>1. /\ rd'.pc = "branch" /\ rd'.todo = Places /\ rd'.failed = rd.failed
          /\ {"pc", "todo", "failed"} \subseteq DOMAIN rd'
      BY <1>2, <2>1 DEF Goes
    <3>2. rd.failed = {} /\ UNCHANGED known
      BY <1>2, <1>7 DEF ListedRepos, Reading, cursorVars
    <3>3. Ahead(Places, {})
      BY DEF NoRepeats, Ahead
    <3>4. TodoOK'
      BY <3>1, <3>2, <3>3 DEF TodoOK, RepoPcs
    <3>5. QED
      BY <3>2, <3>4, CursorKept
  <2>2. QED
    BY <1>4, <1>7, <2>1 DEF ListedRepos, Statuses, cursorVars
<1>8. CASE DefaultBranch
  <2>1. rd.pc = "branch" /\ rd.todo # <<>> /\ UNCHANGED known
    BY <1>8 DEF DefaultBranch, Reading, cursorVars
  <2>2. CASE Goes([rd EXCEPT !.branch = head[Head(rd.todo)], !.pc = "tree"])
    <3>1. /\ rd'.pc = "tree" /\ rd'.todo = rd.todo /\ rd'.failed = rd.failed
          /\ {"pc", "todo", "failed"} \subseteq DOMAIN rd'
      BY <1>2, <2>2 DEF Goes
    <3>2. TodoOK'
      BY <1>2, <2>1, <3>1 DEF TodoOK, RepoPcs, MailPcs
    <3>3. QED
      BY <2>1, <3>2, CursorKept
  <2>3. CASE Goes(SkipRepo)
    BY <1>5, <1>6, <2>1, <2>3 DEF RepoPcs
  <2>4. QED
    BY <1>8, <2>2, <2>3 DEF DefaultBranch
<1>9. CASE Tree
  <2>1. rd.pc = "tree" /\ rd.todo # <<>> /\ UNCHANGED known
    BY <1>2, <1>9 DEF Tree, Reading, cursorVars
  <2>2. CASE Goes(SkipRepo)
    BY <1>5, <1>6, <2>1, <2>2 DEF RepoPcs
  <2>3. ASSUME NEW tree, NEW items, Goes([rd EXCEPT !.tree = tree, !.items = items, !.pc = "files"])
        PROVE  DOMAIN known' = Ids' /\ TodoOK' /\ FailedRepoKept
    <3>1. /\ rd'.pc = "files" /\ rd'.todo = rd.todo /\ rd'.failed = rd.failed
          /\ {"pc", "todo", "failed"} \subseteq DOMAIN rd'
      BY <1>2, <2>3 DEF Goes
    <3>2. TodoOK'
      BY <1>2, <2>1, <3>1 DEF TodoOK, RepoPcs, MailPcs
    <3>3. QED
      BY <2>1, <3>2, CursorKept
  <2>4. QED
    BY <1>9, <2>2, <2>3 DEF Tree
<1>10. CASE File
  <2>1. rd.pc = "files" /\ rd.todo # <<>>
    BY <1>2, <1>10 DEF File, Reading
  <2>2. ASSUME rd'.pc = rd.pc, rd'.todo = rd.todo, rd'.failed = rd.failed,
               {"pc", "todo", "failed"} \subseteq DOMAIN rd'
        PROVE  TodoOK'
    BY <1>2, <2>1, <2>2 DEF TodoOK, RepoPcs, MailPcs
  <2>3. CASE Goes(Requested(FileId, rd)) /\ UNCHANGED cursorVars
    <3>1. /\ rd'.pc = rd.pc /\ rd'.todo = rd.todo /\ rd'.failed = rd.failed
          /\ {"pc", "todo", "failed"} \subseteq DOMAIN rd'
      BY <1>2, <2>3 DEF Goes, Requested
    <3>2. QED
      BY <2>2, <2>3, <3>1, CursorKept DEF cursorVars
  <2>4. CASE Fetch(FileId, FileContent(FileId))
    <3>1. /\ rd'.pc = rd.pc /\ rd'.todo = rd.todo /\ rd'.failed = rd.failed /\ rd' # NoRead
          /\ {"pc", "todo", "failed"} \subseteq DOMAIN rd'
          /\ UNCHANGED known \/ known' = [known EXCEPT ![FileId] = FileContent(FileId)]
      BY <1>1, <2>4, FetchFollows
    <3>2. TodoOK'
      BY <2>2, <3>1
    <3>3. CASE UNCHANGED known
      BY <3>2, <3>3, CursorKept
    <3>4. CASE known' = [known EXCEPT ![FileId] = FileContent(FileId)]
      <4>1. rd.pc \in RepoPcs
        BY <2>1 DEF RepoPcs
      <4>2. \E branch, name, v : known' = [known EXCEPT ![<<Head(rd.todo), branch, name>>] = v]
        BY <3>4 DEF FileId
      <4>3. QED
        BY <1>1, <2>1, <3>2, <4>1, <4>2, OthersCursorKept
    <3>5. QED
      BY <3>1, <3>3, <3>4
  <2>5. QED
    BY <1>10, <2>3, <2>4 DEF File
<1>11. CASE RepoDone
  <2>1. rd.pc = "files" /\ rd.todo # <<>> /\ rd.pc \in RepoPcs
    BY <1>2, <1>11 DEF RepoDone, Reading, RepoPcs
  <2>2. \E ids : (\A id \in ids : id[1] = Head(rd.todo)) /\ Bury(ids)
    <3>1. Bury({id \in Unseen : id[1] = Head(rd.todo)})
      BY <1>11 DEF RepoDone
    <3>2. \A id \in {x \in Unseen : x[1] = Head(rd.todo)} : id[1] = Head(rd.todo)
      OBVIOUS
    <3>3. QED
      BY <3>1, <3>2
  <2>3. DOMAIN known' = Ids' /\ FailedRepoKept
    BY <1>1, <2>1, <2>2, OthersCursorKept
  <2>4. /\ rd'.pc = "branch" /\ rd'.todo = Tail(rd.todo) /\ rd'.failed = rd.failed
        /\ {"pc", "todo", "failed"} \subseteq DOMAIN rd'
    BY <1>2, <1>11 DEF RepoDone, Goes
  <2>5. Ahead(Tail(rd.todo), rd.failed)
    BY <1>2, <2>1, HeadIsAhead DEF RepoPcs, MailPcs
  <2>6. QED
    BY <2>3, <2>4, <2>5 DEF TodoOK, RepoPcs
<1>12. CASE ReadDone
  BY <1>4, <1>12 DEF ReadDone, Statuses, cursorVars
<1>13. CASE ListMessages
  <2>1. rd.pc = "page" /\ UNCHANGED known /\ rd.failed = {}
    BY <1>2, <1>13 DEF ListMessages, Reading, cursorVars, RepoPcs, MailPcs
  <2>2. CASE Goes([rd EXCEPT !.pc = "scanned", !.clean = FALSE])
    <3>1. rd'.pc = "scanned" /\ rd'.failed = {} /\ {"pc", "todo", "failed"} \subseteq DOMAIN rd'
      BY <1>2, <2>1, <2>2 DEF Goes
    <3>2. TodoOK'
      BY <3>1 DEF TodoOK, MailPcs
    <3>3. QED
      BY <2>1, <3>2, CursorKept
  <2>3. ASSUME NEW page, NEW label,
               Goes([rd EXCEPT !.items = page.items, !.more = page.more, !.pos = page.pos, !.todo = <<label>>,
                               !.pc = IF page.items = <<>> THEN "scanned" ELSE "mails"])
        PROVE  DOMAIN known' = Ids' /\ TodoOK' /\ FailedRepoKept
    <3>1. rd'.pc \in {"scanned", "mails"} /\ rd'.failed = {} /\ {"pc", "todo", "failed"} \subseteq DOMAIN rd'
      BY <1>2, <2>1, <2>3 DEF Goes
    <3>2. TodoOK'
      BY <3>1 DEF TodoOK, MailPcs
    <3>3. QED
      BY <2>1, <3>2, CursorKept
  <2>4. QED
    BY <1>13, <2>2, <2>3 DEF ListMessages
<1>14. CASE Mail
  <2>1. rd.pc = "mails" /\ rd.failed = {} /\ rd.pc \in MailPcs
    BY <1>2, <1>14 DEF Mail, Reading, RepoPcs, MailPcs
  <2>2. PICK id, v : Fetch(id, v)
    BY <1>14 DEF Mail
  <2>3. /\ rd'.pc = rd.pc /\ rd'.todo = rd.todo /\ rd'.failed = rd.failed
        /\ {"pc", "todo", "failed"} \subseteq DOMAIN rd'
        /\ UNCHANGED known \/ known' = [known EXCEPT ![id] = v]
    BY <1>1, <2>2, FetchFollows
  <2>4. DOMAIN known' = Ids
    BY <1>2, <2>3
  <2>5. TodoOK'
    BY <2>1, <2>3 DEF TodoOK, MailPcs
  <2>6. QED
    BY <1>1, <2>1, <2>4, <2>5, MailCursorKept
<1>15. CASE PageDone
  <2>1. rd.pc = "mails" /\ rd.failed = {} /\ UNCHANGED known
    BY <1>2, <1>15 DEF PageDone, Reading, cursorVars, RepoPcs, MailPcs
  <2>2. ASSUME NEW ends, NEW clean,
               Goes([rd EXCEPT !.pc = IF ends THEN "scanned" ELSE "page", !.items = <<>>, !.clean = clean])
        PROVE  DOMAIN known' = Ids' /\ TodoOK' /\ FailedRepoKept
    <3>1. rd'.pc \in {"scanned", "page"} /\ rd'.failed = {} /\ {"pc", "todo", "failed"} \subseteq DOMAIN rd'
      BY <1>2, <2>1, <2>2 DEF Goes
    <3>2. TodoOK'
      BY <3>1 DEF TodoOK, MailPcs
    <3>3. QED
      BY <2>1, <3>2, CursorKept
  <2>3. QED
    BY <1>15, <2>2 DEF PageDone
<1>16. CASE Scanned
  <2>1. rd.pc \in MailPcs /\ rd' = NoRead /\ known' = [id \in Ids |-> IF id \in Unseen THEN 0 ELSE known[id]]
    BY <1>16 DEF Scanned, Reading, Report, Bury, MailPcs
  <2>2. DOMAIN known' = Ids /\ TodoOK'
    BY <2>1 DEF TodoOK
  <2>3. QED
    BY <1>1, <2>1, <2>2, MailCursorKept
<1>17. QED
  BY <1>7, <1>8, <1>9, <1>10, <1>11, <1>12, <1>13, <1>14, <1>15, <1>16 DEF ReadStep

LEMMA TodoStarts == Init => TodoInv
BY SyncsStart DEF Init, TodoInv, TodoOK

LEMMA TodoStep ==
  ASSUME TodoInv, NoRepeats, [Next]_vars
  PROVE  TodoInv' /\ FailedRepoKept
<1>1. SyncsInv'
  BY SyncsStep DEF TodoInv
<1>2. ASSUME TodoOK', UNCHANGED known PROVE TodoInv' /\ FailedRepoKept
  BY <1>1, <1>2, CursorKept DEF TodoInv
<1>3. ASSUME rd' = NoRead, UNCHANGED known PROVE TodoInv' /\ FailedRepoKept
  BY <1>2, <1>3 DEF TodoOK
<1>4. ASSUME NEW stable, rd # NoRead, rd' = [rd EXCEPT !.stable = stable] PROVE TodoOK'
  <2>1. /\ rd'.pc = rd.pc /\ rd'.todo = rd.todo /\ rd'.failed = rd.failed
        /\ {"pc", "todo", "failed"} \subseteq DOMAIN rd'
    BY <1>4 DEF TodoInv, TodoOK
  <2>2. QED
    BY <1>4, <2>1 DEF TodoInv, TodoOK
<1>5. CASE SourceChanges
  <2>1. UNCHANGED known /\ rd' = IF rd = NoRead THEN NoRead ELSE [rd EXCEPT !.stable = FALSE]
    BY <1>5 DEF SourceChanges
  <2>2. QED
    BY <1>2, <1>3, <1>4, <2>1
<1>6. CASE HubStep
  <2>1. UNCHANGED known
    BY <1>6 DEF HubStep
  <2>2. PICK stable : rd' = IF rd = NoRead THEN NoRead ELSE [rd EXCEPT !.stable = stable]
    BY <1>6 DEF HubStep
  <2>3. QED
    BY <1>2, <1>3, <1>4, <2>1, <2>2
<1>7. CASE sync_connector
  <2>1. /\ UNCHANGED <<known, conn, vault>> /\ conn # None
        /\ live' = [live EXCEPT ![conn] = Hydrated(conn, vault[conn])]
    BY <1>7 DEF sync_connector
  <2>2. CASE rd' = NoRead
    BY <1>3, <2>1, <2>2
  <2>3. CASE rd' = Started(live'[conn].places)
    <3>1. PICK places : places = live'[conn].places
      OBVIOUS
    <3>2. places \in PlaceLists
      <4>1. conn \in Connectors /\ live' \in [Connectors -> Held']
        BY <1>1, <2>1 DEF SyncsInv, HubInv, VaultOK
      <4>2. live'[conn] \in Held'
        BY <4>1
      <4>3. PlaceLists' = PlaceLists
        BY DEF PlaceLists
      <4>4. QED
        BY <3>1, <4>2, <4>3 DEF Held
    <3>3. Ahead(places, {})
      BY <3>2 DEF NoRepeats, Ahead
    <3>4. /\ {"pc", "todo", "failed"} \subseteq DOMAIN rd' /\ rd'.failed = {}
          /\ \/ rd'.pc = "page"
             \/ rd'.pc = "repos" /\ rd'.todo = places
             \/ rd'.pc = "branch" /\ rd'.todo = places
      BY <2>3, <3>1 DEF Started
    <3>5. TodoOK'
      BY <3>3, <3>4 DEF TodoOK, RepoPcs, MailPcs
    <3>6. QED
      BY <1>2, <2>1, <3>5
  <2>4. QED
    BY <1>7, <2>2, <2>3 DEF sync_connector, Report
<1>8. CASE BatchFails
  BY <1>3, <1>8 DEF BatchFails, Report, cursorVars
<1>9. CASE ReadStep
  BY <1>1, <1>9, ReadStepKeeps DEF TodoInv
<1>10. CASE UNCHANGED vars
  <2>1. TodoOK' /\ UNCHANGED known
    BY <1>10 DEF vars, readVars, TodoInv, TodoOK
  <2>2. QED
    BY <1>2, <2>1
<1>11. QED
  BY <1>5, <1>6, <1>7, <1>8, <1>9, <1>10 DEF Next

\* Where no list of places names one twice, a repository whose branch or tree could not be
\* had loses nothing in the rest of the read.
THEOREM FailedReposKeep ==
  ASSUME NoRepeats
  PROVE  Spec => [][FailedRepoKept]_vars
<1>1. TodoInv /\ [Next]_vars => TodoInv'
  BY TodoStep
<1>2. TodoInv /\ [Next]_vars => [FailedRepoKept]_vars
  BY TodoStep
<1>3. QED
  BY <1>1, <1>2, TodoStarts, PTL DEF Spec

------------------------------------------------------------------------------
(* The model servers. *)

ModelNames == LlmModels \cup {None} \cup {s.model : s \in LlmSettings}

StreamLines == {"blank", "noise", "quiet", "word", "last", "lastword"}

LlmRequest ==
  [pc : {"idle", "probing", "requesting", "streaming", "ended", "failed"},
   op : {"list", "generate", "stream"}, through : {"adapter", "functions"},
   asked : LlmModels \cup {None}, model : ModelNames, tried : Nat, url : Endpoints \cup {None},
   lines : Seq(StreamLines),
   read : Nat, got : Seq(Nat), cut : BOOLEAN, listed : Seq(LlmModels)]

\* A server that was probed in vain did not answer all the time.
ProbesOK ==
  /\ request.pc = "probing" =>
       /\ request.tried < Len(get_candidate_ollama_urls) /\ request.model # None
       /\ \A i \in 1..request.tried : get_candidate_ollama_urls[i] \notin steady
  /\ request.pc = "requesting" => request.url \in Endpoints /\ request.model # None
  /\ FirstAnsweringUsed

\* A line that ends a stream is the last that is read.
LinesOK ==
  /\ request.pc \in {"idle", "probing", "requesting"} => request.lines = <<>>
  /\ request.read <= Len(request.lines)
  /\ \A j \in 1..request.read : Ends(request.lines[j]) => j = request.read /\ request.pc = "ended"
  /\ request.pc = "ended" =>
       request.read = Len(request.lines) \/ (request.read > 0 /\ Ends(request.lines[request.read]))
  /\ Elements(request.got) = {i \in 1..request.read : Carries(request.lines[i])}
  /\ \A i, j \in DOMAIN request.got : i < j => request.got[i] < request.got[j]

CanWrite == \A url \in DOMAIN installed : Elements(installed[url]) \subseteq Embedders => installed[url] = <<>>

Writes(models) == llmSetting.kind = "ollama" => Elements(models) \cap Embedders = {}

\* What is offered, and what is going to be.
OffersOK ==
  /\ offered.models \in Seq(LlmModels)
  /\ NeverEmbedding
  /\ CanWrite =>
       /\ Writes(offered.models)
       /\ request.through = "adapter" => Writes(request.listed)
       /\ request.pc # "idle" /\ request.asked \in Elements(offered.models) => request.model = request.asked
       /\ offered.models # <<>> => offered.active \in Elements(offered.models)

LlmInv ==
  /\ llmSetting \in LlmSettings /\ installed \in Installations
  /\ steady \subseteq answering /\ flips \in Nat
  /\ request \in LlmRequest
  /\ ProbesOK /\ LinesOK /\ OffersOK

LEMMA UrlsFacts ==
  ASSUME llmSetting \in LlmSettings
  PROVE  /\ get_candidate_ollama_urls \in Seq(Endpoints) /\ Len(get_candidate_ollama_urls) > 0
         /\ \A i \in 1..Len(get_candidate_ollama_urls) :
              get_candidate_ollama_urls[i] \in Elements(get_candidate_ollama_urls)
<1> DEFINE others == Only(DefaultUrls, Endpoints \ {llmSetting.base})
<1>1. /\ DefaultUrls \in Seq(Endpoints) /\ "loopback" \in Endpoints
      /\ {"docker", "localhost"} \subseteq Elements(DefaultUrls) /\ Elements(DefaultUrls) \subseteq Endpoints
  <2>1. DefaultUrls \in Seq({"docker", "localhost", "loopback"}) /\ Len(DefaultUrls) = 3
        /\ DefaultUrls[1] = "docker" /\ DefaultUrls[2] = "localhost" /\ DefaultUrls[3] = "loopback"
        /\ DOMAIN DefaultUrls = 1..3
    BY DEF DefaultUrls
  <2>2. Elements(DefaultUrls) = {"docker", "localhost", "loopback"}
    BY <2>1 DEF Elements
  <2>3. {"docker", "localhost", "loopback"} \subseteq Endpoints
    BY <2>2 DEF Endpoints
  <2>4. DefaultUrls \in Seq(Endpoints)
    BY <2>3 DEF DefaultUrls
  <2>5. QED
    BY <2>2, <2>3, <2>4
<1>2. others \in Seq(Endpoints) /\ Elements(others) = Elements(DefaultUrls) \cap (Endpoints \ {llmSetting.base})
  BY <1>1, OnlyFacts
<1>3. "docker" \in Elements(others) \/ "localhost" \in Elements(others)
  BY <1>1, <1>2
<1> HIDE DEF others
<1>4. Len(others) \in Nat /\ DOMAIN others = 1..Len(others)
  BY <1>2, LenProperties
<1>5. Len(others) > 0
  BY <1>3, <1>4 DEF Elements
<1>6. llmSetting.base = None \/ llmSetting.base \in Endpoints
  BY LlmAssumption
<1>7. CASE llmSetting.base = None
  <2>1. get_candidate_ollama_urls = <<>> \o others
    BY <1>7 DEF get_candidate_ollama_urls, others
  <2>2. get_candidate_ollama_urls = others
    BY <2>1, <1>2
  <2>3. QED
    BY <1>2, <1>4, <1>5, <2>2 DEF Elements
<1>8. CASE llmSetting.base # None
  <2>1. get_candidate_ollama_urls = <<llmSetting.base>> \o others
    BY <1>8 DEF get_candidate_ollama_urls, others
  <2>2. <<llmSetting.base>> \in Seq(Endpoints) /\ Len(<<llmSetting.base>>) = 1
    BY <1>6, <1>8
  <2>3. /\ get_candidate_ollama_urls \in Seq(Endpoints)
        /\ Len(get_candidate_ollama_urls) = 1 + Len(others)
    BY <1>2, <2>1, <2>2, ConcatProperties
  <2>4. DOMAIN get_candidate_ollama_urls = 1..Len(get_candidate_ollama_urls)
    BY <2>3, LenProperties
  <2>5. QED
    BY <1>4, <2>3, <2>4 DEF Elements
<1>9. QED
  BY <1>7, <1>8

LEMMA UrlsStay == llmSetting' = llmSetting => get_candidate_ollama_urls' = get_candidate_ollama_urls
BY DEF get_candidate_ollama_urls

\* Before there is a stream.
LEMMA NothingRead ==
  ASSUME request \in LlmRequest, LinesOK, request.pc \in {"idle", "probing", "requesting"}
  PROVE  request.lines = <<>> /\ request.read = 0 /\ request.got = <<>>
<1>1. request.lines = <<>> /\ request.read \in Nat /\ request.got \in Seq(Nat)
  BY DEF LinesOK, LlmRequest
<1>2. request.read = 0
  BY <1>1 DEF LinesOK
<1>3. Elements(request.got) = {}
  BY <1>2 DEF LinesOK
<1>4. DOMAIN request.got = 1..Len(request.got) /\ Len(request.got) \in Nat
  BY <1>1, LenProperties
<1>5. Len(request.got) = 0
  <2> SUFFICES ASSUME Len(request.got) # 0 PROVE FALSE
    OBVIOUS
  <2>1. 1 \in DOMAIN request.got
    BY <1>4
  <2>2. request.got[1] \in Elements(request.got)
    BY <2>1 DEF Elements
  <2>3. QED
    BY <1>3, <2>2
<1>6. QED
  BY <1>1, <1>2, <1>5, EmptySeq

LEMMA NoLinesOK ==
  ASSUME request'.lines = <<>>, request'.read = 0, request'.got = <<>>
  PROVE  LinesOK'
<1>1. Elements(request'.got) = {} /\ 1..0 = {} /\ DOMAIN request'.got = {}
  BY DEF Elements
<1>2. Len(request'.lines) = 0
  OBVIOUS
<1>3. {i \in 1..request'.read : Carries(request'.lines[i])} = {}
  BY <1>1
<1>4. \A j \in 1..request'.read : FALSE
  BY <1>1
<1>5. request'.read <= Len(request'.lines) /\ request'.read = Len(request'.lines)
  BY <1>2
<1>6. QED
  BY <1>1, <1>3, <1>4, <1>5 DEF LinesOK

LEMMA IdleRequest == Idle \in LlmRequest
<1> DEFINE e == <<>>
<1>1. \A T : e \in Seq(T)
  BY EmptySeq
<1>2. None \in ModelNames
  BY DEF ModelNames
<1>3. Idle =
        [pc |-> "idle", op |-> "list", through |-> "adapter", asked |-> None, model |-> None, tried |-> 0,
         url |-> None, lines |-> e, read |-> 0, got |-> e, cut |-> FALSE, listed |-> e]
  BY DEF Idle
<1> HIDE DEF e
<1>4. QED
  BY <1>1, <1>2, <1>3 DEF LlmRequest

LEMMA LlmStarts == LlmInit => LlmInv
<1> SUFFICES ASSUME LlmInit PROVE LlmInv
  OBVIOUS
<1>1. request = Idle /\ offered = [models |-> <<>>, active |-> None] /\ steady = {} /\ flips = 0
  BY DEF LlmInit
<1>2. request \in LlmRequest
  BY <1>1, IdleRequest
<1>3. ProbesOK
  BY <1>1 DEF Idle, ProbesOK, FirstAnsweringUsed
<1>4. LinesOK
  <2>1. Elements(request.got) = {} /\ 1..0 = {} /\ DOMAIN request.got = {} /\ Len(request.lines) = 0
    BY <1>1 DEF Idle, Elements
  <2>2. QED
    BY <1>1, <2>1 DEF Idle, LinesOK
<1>5. OffersOK
  <2>1. Elements(offered.models) = {} /\ Elements(request.listed) = {} /\ offered.models = <<>>
    BY <1>1 DEF Idle, Elements
  <2>2. QED
    BY <1>1, <2>1 DEF Idle, OffersOK, NeverEmbedding, Writes
<1>6. QED
  BY <1>1, <1>2, <1>3, <1>4, <1>5 DEF LlmInit, LlmInv

LEMMA FlipKeeps == LlmInv /\ Flip => LlmInv'
<1> SUFFICES ASSUME LlmInv, Flip PROVE LlmInv'
  OBVIOUS
<1>1. /\ UNCHANGED <<llmSetting, installed, offered, request>> /\ flips' = flips + 1 /\ flips \in Nat
      /\ request.pc \in {"probing", "requesting"}
  BY DEF Flip, LlmInv
<1>2. steady' \subseteq steady /\ steady' \subseteq answering'
  BY DEF Flip, LlmInv
<1>3. get_candidate_ollama_urls' = get_candidate_ollama_urls
  BY <1>1, UrlsStay
<1>4. ProbesOK'
  <2>1. ProbesOK /\ flips' # 0
    BY <1>1 DEF LlmInv
  <2>2. Elements(get_candidate_ollama_urls) \cap steady' # {} => Elements(get_candidate_ollama_urls) \cap steady # {}
    BY <1>2
  <2>3. QED
    BY <1>1, <1>2, <1>3, <2>1, <2>2 DEF ProbesOK, FirstAnsweringUsed
<1>5. LinesOK' /\ OffersOK'
  BY <1>1 DEF LlmInv, LinesOK, OffersOK, CanWrite, NeverEmbedding, Writes
<1>6. QED
  BY <1>1, <1>2, <1>4, <1>5 DEF LlmInv

LEMMA StartCallKeeps == LlmInv /\ StartCall => LlmInv'
<1> SUFFICES ASSUME LlmInv, StartCall PROVE LlmInv'
  OBVIOUS
<1>1. PICK op \in {"list", "generate", "stream"}, through \in {"adapter", "functions"},
           wanted \in {None} \cup LlmModels :
        /\ op = "list" => wanted = None
        /\ through = "functions" => llmSetting.kind = "ollama"
        /\ request' = [Idle EXCEPT
             !.op = op, !.through = through, !.asked = wanted,
             !.model = resolve_model(through, wanted), !.url = BaseUrl(through),
             !.pc = IF BaseUrl(through) = None THEN "probing" ELSE "requesting"]
  BY DEF StartCall
<1>2. /\ UNCHANGED <<llmSetting, installed, answering, flips, offered>> /\ steady' = answering
      /\ llmSetting \in LlmSettings /\ installed \in Installations
  BY DEF StartCall, LlmInv
<1>3. /\ request'.pc = (IF BaseUrl(through) = None THEN "probing" ELSE "requesting")
      /\ request'.op = op /\ request'.through = through /\ request'.asked = wanted
      /\ request'.model = resolve_model(through, wanted) /\ request'.url = BaseUrl(through)
      /\ request'.tried = 0 /\ request'.lines = <<>> /\ request'.read = 0 /\ request'.got = <<>>
      /\ request'.cut = FALSE /\ request'.listed = <<>>
  BY <1>1 DEF Idle
<1>4. BaseUrl(through) \in Endpoints \cup {None}
  BY <1>2, LlmAssumption DEF BaseUrl, get_llm_adapter, Given, Endpoints
<1>5. resolve_model(through, wanted) \in ModelNames \ {None}
  BY <1>2, LlmAssumption DEF resolve_model, Given, ModelNames
<1>6. request' \in LlmRequest
  <2>1. /\ (IF BaseUrl(through) = None THEN "probing" ELSE "requesting") \in {"probing", "requesting"}
        /\ wanted \in LlmModels \cup {None}
    BY <1>1
  <2> HIDE DEF BaseUrl, resolve_model
  <2>2. QED
    BY <1>1, <1>4, <1>5, <2>1, IdleRequest DEF LlmRequest
<1>7. ProbesOK'
  <2>1. get_candidate_ollama_urls' = get_candidate_ollama_urls
    BY <1>2, UrlsStay
  <2>2. 1..0 = {} /\ 0 < Len(get_candidate_ollama_urls)
    <3>1. get_candidate_ollama_urls \in Seq(Endpoints) /\ Len(get_candidate_ollama_urls) > 0
      BY <1>2, UrlsFacts
    <3>2. QED
      BY <3>1
  <2>3. QED
    BY <1>3, <1>4, <1>5, <2>1, <2>2 DEF ProbesOK, FirstAnsweringUsed
<1>8. LinesOK'
  BY <1>3, NoLinesOK
<1>9. OffersOK'
  <2>1. offered' = offered /\ (CanWrite' <=> CanWrite) /\ Elements(request'.listed) = {}
    BY <1>2, <1>3 DEF CanWrite, Elements
  <2>2. NeverEmbedding'
    BY <1>2, <1>3 DEF NeverEmbedding, resolve_model
  <2>3. ASSUME CanWrite, wanted \in Elements(offered.models) PROVE resolve_model(through, wanted) = wanted
    <3>1. offered.models \in Seq(LlmModels) /\ Writes(offered.models)
      BY <2>3 DEF LlmInv, OffersOK
    <3>2. wanted # None
      <4>1. Elements(offered.models) \subseteq LlmModels
        BY <3>1, LenProperties, ElementOfSeq DEF Elements
      <4>2. QED
        BY <4>1, <2>3, LlmAssumption
    <3>3. QED
      BY <2>3, <3>1, <3>2 DEF resolve_model, Given, Writes
  <2>4. /\ offered.models \in Seq(LlmModels)
        /\ CanWrite => Writes(offered.models)
        /\ CanWrite /\ offered.models # <<>> => offered.active \in Elements(offered.models)
    BY DEF LlmInv, OffersOK
  <2>6. Writes(offered.models)' <=> Writes(offered.models)
    BY <1>2 DEF Writes
  <2>7. Writes(request.listed)'
    BY <2>1 DEF Writes
  <2>8. CanWrite' /\ request'.asked \in Elements(offered'.models) => request'.model = request'.asked
    BY <1>3, <2>1, <2>3
  <2>9. ASSUME CanWrite' PROVE Writes(offered.models)'
    <3>1. Writes(offered.models)
      BY <2>1, <2>4, <2>9
    <3>2. QED
      BY <2>6, <3>1, Zenon
  <2>11. /\ offered'.models \in Seq(LlmModels)
         /\ CanWrite' /\ offered'.models # <<>> => offered'.active \in Elements(offered'.models)
    <3>1. offered' = offered /\ (CanWrite' => CanWrite)
      BY <2>1
    <3>2. QED
      BY <2>4, <3>1
  <2>10. QED
    BY <2>2, <2>7, <2>8, <2>9, <2>11 DEF OffersOK
<1>10. flips' \in Nat /\ steady' \subseteq answering'
  BY <1>2 DEF LlmInv
<1>11. QED
  BY <1>2, <1>6, <1>7, <1>8, <1>9, <1>10 DEF LlmInv

LEMMA LeavesAlone ==
  /\ Keeps => UNCHANGED <<llmSetting, installed, flips, offered, answering, steady>>
              /\ get_candidate_ollama_urls' = get_candidate_ollama_urls /\ (CanWrite' <=> CanWrite)
BY UrlsStay DEF Keeps, CanWrite

LEMMA OffersStay ==
  ASSUME OffersOK, request.pc # "idle", UNCHANGED <<llmSetting, installed, offered>>,
         request'.through = request.through, request'.asked = request.asked, request'.model = request.model,
         CanWrite /\ request.through = "adapter" /\ llmSetting.kind = "ollama"
           => Elements(request'.listed) \cap Embedders = {}
  PROVE  OffersOK'
<1>1. CanWrite' <=> CanWrite
  BY DEF CanWrite
<1>2. NeverEmbedding'
  BY DEF OffersOK, NeverEmbedding
<1>3. CanWrite' /\ request'.asked \in Elements(offered'.models) => request'.model = request'.asked
  BY <1>1 DEF OffersOK
<1>4. /\ offered'.models \in Seq(LlmModels)
      /\ CanWrite' /\ offered'.models # <<>> => offered'.active \in Elements(offered'.models)
  BY <1>1, Zenon DEF OffersOK
<1>5. CanWrite' => Writes(offered.models)'
  BY <1>1 DEF OffersOK, Writes
<1>6. CanWrite' /\ request'.through = "adapter" => Writes(request.listed)'
  BY <1>1 DEF Writes
<1>7. QED
  BY <1>2, <1>3, <1>4, <1>5, <1>6 DEF OffersOK

\* A call that ends, or goes on, without anything else changing.
LEMMA RequestEnds ==
  ASSUME LlmInv, Keeps, request.pc \in {"probing", "requesting"},
         NEW pc \in {"ended", "failed"}, NEW models \in Seq(LlmModels),
         request' = [request EXCEPT !.pc = pc, !.listed = models],
         CanWrite /\ request.through = "adapter" => Writes(models)
  PROVE  LlmInv'
<1>1. request \in LlmRequest /\ LinesOK /\ OffersOK
  BY DEF LlmInv
<1>2. /\ request'.pc = pc /\ request'.op = request.op /\ request'.through = request.through
      /\ request'.asked = request.asked /\ request'.model = request.model /\ request'.listed = models
      /\ request'.lines = request.lines /\ request'.read = request.read /\ request'.got = request.got
      /\ request' \in LlmRequest
  BY <1>1 DEF LlmRequest
<1>3. /\ UNCHANGED <<llmSetting, installed, flips, offered, answering, steady>>
      /\ (CanWrite' <=> CanWrite)
  BY LeavesAlone
<1>4. ProbesOK'
  BY <1>2 DEF ProbesOK, FirstAnsweringUsed
<1>5. LinesOK'
  BY <1>1, <1>2, NothingRead, NoLinesOK
<1>6. OffersOK'
  BY <1>1, <1>2, <1>3, OffersStay DEF Writes
<1>7. QED
  BY <1>2, <1>3, <1>4, <1>5, <1>6 DEF LlmInv

LEMMA ProbeKeeps == LlmInv /\ Probe => LlmInv'
<1> SUFFICES ASSUME LlmInv, Probe PROVE LlmInv'
  OBVIOUS
<1> DEFINE urls == get_candidate_ollama_urls
           n == request.tried + 1
<1>1. /\ request.pc = "probing" /\ Keeps /\ request \in LlmRequest /\ LinesOK /\ OffersOK
      /\ request.tried < Len(urls) /\ request.model # None
      /\ \A i \in 1..request.tried : urls[i] \notin steady
      /\ steady \subseteq answering /\ llmSetting \in LlmSettings
  BY DEF Probe, LlmInv, ProbesOK
<1>2. /\ UNCHANGED <<llmSetting, installed, flips, offered, answering, steady>>
      /\ urls' = urls /\ (CanWrite' <=> CanWrite)
  BY <1>1, LeavesAlone
<1>3. /\ urls \in Seq(Endpoints) /\ Len(urls) \in Nat /\ n \in 1..Len(urls) /\ n - 1 = request.tried
      /\ "loopback" \in Endpoints
  BY <1>1, UrlsFacts, LenProperties DEF LlmRequest, Endpoints, DefaultUrls, Elements
<1>4. urls[n] \in Endpoints
  BY <1>3, ElementOfSeq
<1>5. request' = [request EXCEPT
       !.tried = n,
       !.url = IF urls[n] \in answering THEN urls[n] ELSE IF n = Len(urls) THEN "loopback" ELSE None,
       !.pc = CASE urls[n] \in answering -> "requesting"
                [] ~(urls[n] \in answering) /\ n < Len(urls) -> "probing"
                [] OTHER -> IF request.through = "adapter" THEN "requesting" ELSE "ended"]
  BY <1>1 DEF Probe, LlmRequest, Found
<1> HIDE DEF urls, n
<1>6. /\ request'.op = request.op /\ request'.through = request.through
      /\ request'.asked = request.asked /\ request'.model = request.model
      /\ request'.listed = request.listed /\ request'.tried = n
      /\ request'.lines = request.lines /\ request'.read = request.read /\ request'.got = request.got
  BY <1>1, <1>5 DEF LlmRequest
<1>7. \/ urls[n] \in answering /\ request'.pc = "requesting" /\ request'.url = urls[n]
      \/ urls[n] \notin answering /\ n < Len(urls) /\ request'.pc = "probing" /\ request'.url = None
      \/ urls[n] \notin answering /\ n = Len(urls) /\ request'.pc = "requesting" /\ request'.url = "loopback"
      \/ urls[n] \notin answering /\ n = Len(urls) /\ request'.pc = "ended" /\ request'.url = "loopback"
  BY <1>1, <1>3, <1>5 DEF LlmRequest
<1>8. request' \in LlmRequest
  <2>1. PICK u \in Endpoints \cup {None}, p \in {"requesting", "probing", "ended"} :
          request' = [request EXCEPT !.tried = n, !.url = u, !.pc = p]
    <3> DEFINE u == IF urls[n] \in answering THEN urls[n] ELSE IF n = Len(urls) THEN "loopback" ELSE None
               p == CASE urls[n] \in answering -> "requesting"
                      [] ~(urls[n] \in answering) /\ n < Len(urls) -> "probing"
                      [] OTHER -> IF request.through = "adapter" THEN "requesting" ELSE "ended"
    <3>1. u \in Endpoints \cup {None}
      BY <1>3, <1>4
    <3>2. p \in {"requesting", "probing", "ended"}
      OBVIOUS
    <3>3. request' = [request EXCEPT !.tried = n, !.url = u, !.pc = p]
      BY <1>5
    <3> HIDE DEF u, p
    <3>4. QED
      BY <3>1, <3>2, <3>3
  <2>2. n \in Nat
    BY <1>3
  <2>3. QED
    BY <1>1, <2>1, <2>2 DEF LlmRequest
<1>9. ProbesOK'
  <2>1. urls[n] \notin answering => \A i \in 1..n : urls[i] \notin steady
    BY <1>1, <1>3
  <2>2. n = Len(urls) /\ urls[n] \notin answering => Elements(urls) \cap steady = {}
    BY <1>3, <2>1, LenProperties DEF Elements
  <2>3. \A i \in 1..(n - 1) : urls[i] \notin steady
    BY <1>1, <1>3
  <2>4. FirstAnsweringUsed'
    BY <1>2, <1>6, <1>7, <2>2, <2>3 DEF FirstAnsweringUsed, urls
  <2>5. request'.pc = "probing" => \A i \in 1..request'.tried : urls'[i] \notin steady'
    BY <1>2, <1>6, <1>7, <2>1
  <2>6. request'.pc = "requesting" => request'.url \in Endpoints /\ request'.model # None
    BY <1>1, <1>3, <1>4, <1>6, <1>7
  <2>7. request'.pc = "probing" => request'.tried < Len(urls') /\ request'.model # None
    BY <1>1, <1>2, <1>6, <1>7
  <2>8. QED
    BY <2>4, <2>5, <2>6, <2>7 DEF ProbesOK, urls
<1>10. LinesOK'
  BY <1>1, <1>6, NothingRead, NoLinesOK
<1>11. OffersOK'
  BY <1>1, <1>2, <1>6, OffersStay DEF OffersOK, Writes
<1>12. steady' \subseteq answering' /\ flips' \in Nat /\ llmSetting' \in LlmSettings /\ installed' \in Installations
  BY <1>2 DEF LlmInv
<1>13. QED
  BY <1>8, <1>9, <1>10, <1>11, <1>12 DEF LlmInv

LEMMA RequestFailsKeeps == LlmInv /\ (RequestFails \/ Refused) => LlmInv'
<1> SUFFICES ASSUME LlmInv, RequestFails \/ Refused PROVE LlmInv'
  OBVIOUS
<1>1. /\ request \in LlmRequest /\ Keeps /\ request.pc \in {"probing", "requesting"}
      /\ CanWrite /\ request.through = "adapter" => Writes(request.listed)
  BY DEF LlmInv, OffersOK, RequestFails, Refused
<1>2. PICK pc \in {"ended", "failed"} : request' = [request EXCEPT !.pc = pc]
  BY DEF RequestFails, Refused
<1>3. request' = [request EXCEPT !.pc = pc, !.listed = request.listed] /\ request.listed \in Seq(LlmModels)
  BY <1>1, <1>2 DEF LlmRequest
<1>4. QED
  BY <1>1, <1>3, RequestEnds

LEMMA TagsListedKeeps == LlmInv /\ TagsListed => LlmInv'
<1> SUFFICES ASSUME LlmInv, TagsListed PROVE LlmInv'
  OBVIOUS
<1> DEFINE all == installed[request.url]
           generative == Only(all, LlmModels \ Embedders)
           models == list_models(request.through, all)
<1>1. /\ request.pc = "requesting" /\ Keeps /\ request.url \in Endpoints
      /\ request' = [request EXCEPT !.pc = "ended", !.listed = models]
      /\ installed \in [Endpoints -> Seq(LlmModels)]
  BY LlmAssumption DEF TagsListed, LlmInv, ProbesOK
<1>2. all \in Seq(LlmModels) /\ request.url \in DOMAIN installed
  BY <1>1
<1>3. generative \in Seq(LlmModels) /\ Elements(generative) = Elements(all) \cap (LlmModels \ Embedders)
  BY <1>2, OnlyFacts
<1>4. /\ models = IF request.through = "adapter" /\ llmSetting.kind = "ollama" /\ generative # <<>>
                  THEN generative ELSE all
  BY DEF list_models
<1>5. models \in Seq(LlmModels)
  BY <1>2, <1>3, <1>4
<1>6. ASSUME CanWrite, request.through = "adapter", llmSetting.kind = "ollama"
      PROVE  Elements(models) \cap Embedders = {}
  <2>1. CASE generative = <<>>
    <3>1. Elements(generative) = {}
      BY <2>1 DEF Elements
    <3>2. \A m \in Elements(all) : m \in LlmModels
      BY <1>2, LenProperties, ElementOfSeq DEF Elements
    <3>3. Elements(all) \subseteq Embedders
      BY <1>3, <3>1, <3>2
    <3>4. all = <<>>
      BY <1>2, <1>6, <3>3 DEF CanWrite
    <3>5. QED
      BY <1>4, <2>1, <3>4 DEF Elements
  <2>2. CASE generative # <<>>
    BY <1>3, <1>4, <1>6, <2>2
  <2>3. QED
    BY <2>1, <2>2
<1>7. CanWrite /\ request.through = "adapter" => Writes(models)
  BY <1>6 DEF Writes
<1> HIDE DEF models
<1>8. QED
  BY <1>1, <1>5, <1>7, RequestEnds

LEMMA GenerateKeeps == LlmInv /\ generate => LlmInv'
<1> SUFFICES ASSUME LlmInv, generate PROVE LlmInv'
  OBVIOUS
<1>1. PICK line \in {"quiet", "word"} :
        request' = [request EXCEPT
          !.pc = "ended", !.lines = <<line>>, !.read = 1, !.got = IF line = "word" THEN <<1>> ELSE <<>>]
  BY DEF generate
<1>2. request \in LlmRequest /\ OffersOK /\ request.pc = "requesting" /\ Keeps
  BY DEF LlmInv, generate
<1>3. /\ request'.pc = "ended" /\ request'.through = request.through /\ request'.listed = request.listed
      /\ request'.asked = request.asked /\ request'.model = request.model
      /\ request'.lines = <<line>> /\ request'.read = 1
      /\ request'.got = IF line = "word" THEN <<1>> ELSE <<>>
  BY <1>1, <1>2 DEF LlmRequest
<1>4. UNCHANGED <<llmSetting, installed, flips, offered, answering, steady>>
  BY <1>2, LeavesAlone
<1>5. request' \in LlmRequest
  <2>1. <<line>> \in Seq(StreamLines)
    BY DEF StreamLines
  <2>2. <<1>> \in Seq(Nat) /\ <<>> \in Seq(Nat)
    OBVIOUS
  <2>3. QED
    BY <1>1, <1>2, <2>1, <2>2 DEF LlmRequest
<1>6. ProbesOK'
  BY <1>3 DEF ProbesOK, FirstAnsweringUsed
<1>7. LinesOK'
  <2>1. request'.lines[1] = line /\ Len(request'.lines) = 1 /\ ~Ends(line) /\ 1..1 = {1}
        /\ (Carries(line) <=> line = "word")
    BY <1>3 DEF Ends, Carries
  <2>2. /\ Elements(<<1>>) = {1} /\ DOMAIN <<1>> = {1}
        /\ Elements(<<>>) = {} /\ DOMAIN <<>> = {}
    <3>1. DOMAIN <<1>> = 1..1 /\ 1..1 = {1} /\ <<1>>[1] = 1
      OBVIOUS
    <3>2. DOMAIN <<>> = {}
      OBVIOUS
    <3>3. QED
      BY <3>1, <3>2 DEF Elements
  <2>3. {i \in 1..request'.read : Carries(request'.lines[i])} = IF line = "word" THEN {1} ELSE {}
    BY <1>3, <2>1
  <2>4. /\ Elements(request'.got) = IF line = "word" THEN {1} ELSE {}
        /\ DOMAIN request'.got \in {{}, {1}}
    BY <1>3, <2>2
  <2>6. \A i, j \in DOMAIN request'.got : ~(i < j)
    BY <2>4
  <2>5. QED
    BY <1>3, <2>1, <2>3, <2>4, <2>6 DEF LinesOK
<1>8. OffersOK'
  BY <1>2, <1>3, <1>4, OffersStay DEF OffersOK, Writes
<1>9. QED
  BY <1>4, <1>5, <1>6, <1>7, <1>8 DEF LlmInv

LEMMA StreamStarts == LlmInv /\ stream_generate => LlmInv'
<1> SUFFICES ASSUME LlmInv, stream_generate PROVE LlmInv'
  OBVIOUS
<1>1. PICK lines \in Streams, cut \in BOOLEAN :
        request' = [Idle EXCEPT !.pc = "streaming", !.op = "stream", !.lines = lines, !.cut = cut]
  BY DEF stream_generate
<1>2. /\ UNCHANGED <<llmSetting, installed, flips, offered, answering>> /\ steady' = {}
      /\ OffersOK
  BY DEF stream_generate, LlmInv
<1>3. lines \in Seq(StreamLines) /\ Len(lines) \in Nat
  <2>1. LineKinds \subseteq StreamLines
    BY DEF LineKinds, StreamLines
  <2>2. PICK n \in 0..MaxStreamLines : lines \in [1..n -> LineKinds]
    BY <1>1 DEF Streams
  <2>3. lines \in [1..n -> StreamLines] /\ n \in Nat
    BY <2>1, <2>2, LlmAssumption
  <2>4. lines \in Seq(StreamLines)
    BY <2>3, SeqDef
  <2>5. QED
    BY <2>4, LenProperties
<1>4. /\ request'.pc = "streaming" /\ request'.lines = lines /\ request'.read = 0 /\ request'.got = <<>>
      /\ request'.asked = None /\ request'.model = None /\ request'.listed = <<>>
  BY <1>1 DEF Idle
<1>5. request' \in LlmRequest
  BY <1>1, <1>3, IdleRequest DEF LlmRequest
<1>6. ProbesOK'
  BY <1>4 DEF ProbesOK, FirstAnsweringUsed
<1>7. LinesOK'
  <2>1. Elements(request'.got) = {} /\ 1..0 = {} /\ DOMAIN request'.got = {}
    BY <1>4 DEF Elements
  <2>2. {i \in 1..request'.read : Carries(request'.lines[i])} = {} /\ \A j \in 1..request'.read : FALSE
    BY <1>4, <2>1
  <2>3. QED
    BY <1>3, <1>4, <2>1, <2>2 DEF LinesOK
<1>8. OffersOK'
  <2>1. Elements(request'.listed) = {} /\ None \notin Embedders /\ (CanWrite' <=> CanWrite)
    BY <1>2, <1>4, LlmAssumption DEF Elements, CanWrite
  <2>2. None \notin Elements(offered.models)
    <3>1. offered.models \in Seq(LlmModels) /\ None \notin LlmModels
      BY <1>2, LlmAssumption DEF OffersOK
    <3>2. \A m \in Elements(offered.models) : m \in LlmModels
      BY <3>1, LenProperties, ElementOfSeq DEF Elements
    <3>3. QED
      BY <3>1, <3>2
  <2>3. NeverEmbedding'
    BY <1>4, <2>1 DEF NeverEmbedding
  <2>4. request'.asked \notin Elements(offered'.models)
    BY <1>2, <1>4, <2>2
  <2>5. /\ offered'.models \in Seq(LlmModels)
        /\ CanWrite' /\ offered'.models # <<>> => offered'.active \in Elements(offered'.models)
    BY <1>2, <2>1 DEF OffersOK
  <2>6. CanWrite' => Writes(offered.models)'
    BY <1>2, <2>1 DEF OffersOK, Writes
  <2>7. Writes(request.listed)'
    BY <2>1 DEF Writes
  <2>8. QED
    BY <2>3, <2>4, <2>5, <2>6, <2>7 DEF OffersOK
<1>9. steady' \subseteq answering'
  BY <1>2
<1>10. QED
  BY <1>2, <1>5, <1>6, <1>7, <1>8, <1>9 DEF LlmInv

LEMMA ReadStreamLineKeeps == LlmInv /\ ReadStreamLine => LlmInv'
<1> SUFFICES ASSUME LlmInv, ReadStreamLine PROVE LlmInv'
  OBVIOUS
<1> DEFINE at == request.read + 1
           line == request.lines[at]
           got == IF Carries(line) THEN Append(request.got, at) ELSE request.got
           pc == IF Ends(line) THEN "ended" ELSE request.pc
<1>1. /\ request.pc = "streaming" /\ request.read < Len(request.lines) /\ Keeps
      /\ request' = [request EXCEPT !.read = at, !.got = got, !.pc = pc]
      /\ request \in LlmRequest /\ LinesOK /\ OffersOK
  BY DEF ReadStreamLine, LlmInv
<1>2. /\ request.read \in Nat /\ at \in Nat /\ Len(request.lines) \in Nat /\ at - 1 = request.read
      /\ request.got \in Seq(Nat) /\ DOMAIN request.got = 1..Len(request.got) /\ Len(request.got) \in Nat
      /\ 1..at = (1..request.read) \cup {at}
  BY <1>1, LenProperties DEF LlmRequest
<1>3. pc \in {"streaming", "ended"} /\ got \in Seq(Nat)
  BY <1>1, <1>2, AppendProperties
<1>4. /\ Elements(got) = {i \in 1..at : Carries(request.lines[i])}
      /\ \A i, j \in DOMAIN got : i < j => got[i] < got[j]
  <2>1. /\ Elements(request.got) = {i \in 1..request.read : Carries(request.lines[i])}
        /\ \A i, j \in DOMAIN request.got : i < j => request.got[i] < request.got[j]
    BY <1>1 DEF LinesOK
  <2>2. CASE ~Carries(line)
    BY <1>2, <2>1, <2>2
  <2>3. CASE Carries(line)
    <3>1. got = Append(request.got, at)
      BY <2>3
    <3>2. Elements(got) = Elements(request.got) \cup {at}
      BY <1>2, <3>1, ElementsAppend
    <3>3. /\ DOMAIN got = 1..(Len(request.got) + 1) /\ got[Len(request.got) + 1] = at
          /\ \A i \in 1..Len(request.got) : got[i] = request.got[i]
      BY <1>2, <3>1, AppendProperties, LenProperties
    <3>4. \A i \in 1..Len(request.got) : request.got[i] \in 1..request.read
      BY <1>2, <2>1 DEF Elements
    <3> HIDE DEF got, at
    <3>5. Elements(got) = {i \in 1..at : Carries(request.lines[i])}
      BY <1>2, <2>1, <2>3, <3>2
    <3>6. ASSUME NEW i \in DOMAIN got, NEW j \in DOMAIN got, i < j PROVE got[i] < got[j]
      <4>1. i \in 1..Len(request.got)
        BY <1>2, <3>3, <3>6
      <4>2. CASE j \in 1..Len(request.got)
        BY <1>2, <2>1, <3>3, <3>6, <4>1, <4>2
      <4>3. CASE j = Len(request.got) + 1
        <5>1. got[i] = request.got[i] /\ request.got[i] \in 1..request.read /\ got[j] = at
          BY <3>3, <3>4, <4>1, <4>3
        <5>2. QED
          BY <1>2, <5>1
      <4>4. QED
        BY <1>2, <3>3, <4>2, <4>3
    <3>7. QED
      BY <3>5, <3>6
  <2>4. QED
    BY <2>2, <2>3
<1> HIDE DEF got, pc
<1>5. /\ request'.pc = pc /\ request'.through = request.through /\ request'.listed = request.listed
      /\ request'.asked = request.asked /\ request'.model = request.model
      /\ request'.lines = request.lines /\ request'.read = at /\ request'.got = got
      /\ request' \in LlmRequest
  BY <1>1, <1>2, <1>3 DEF LlmRequest
<1>6. UNCHANGED <<llmSetting, installed, flips, offered, answering, steady>>
  BY <1>1, LeavesAlone
<1>7. ProbesOK'
  BY <1>3, <1>5 DEF ProbesOK, FirstAnsweringUsed
<1>8. LinesOK'
  <2>1. \A j \in 1..at : Ends(request.lines[j]) => j = at /\ pc = "ended"
    BY <1>1, <1>2 DEF LinesOK, pc
  <2>2. pc = "ended" => at > 0 /\ Ends(request.lines[at])
    BY <1>1, <1>2 DEF pc
  <2>3. QED
    BY <1>1, <1>2, <1>3, <1>4, <1>5, <2>1, <2>2 DEF LinesOK
<1>9. OffersOK'
  BY <1>1, <1>5, <1>6, OffersStay DEF OffersOK, Writes
<1>10. QED
  BY <1>5, <1>6, <1>7, <1>8, <1>9 DEF LlmInv

LEMMA StreamClosesKeeps == LlmInv /\ StreamCloses => LlmInv'
<1> SUFFICES ASSUME LlmInv, StreamCloses PROVE LlmInv'
  OBVIOUS
<1>1. /\ request.pc = "streaming" /\ request.read = Len(request.lines) /\ Keeps
      /\ request \in LlmRequest /\ LinesOK /\ OffersOK
  BY DEF StreamCloses, LlmInv
<1>2. PICK pc \in {"ended", "failed"} : request' = [request EXCEPT !.pc = pc]
  BY DEF StreamCloses
<1>3. /\ request'.pc = pc /\ request'.through = request.through /\ request'.listed = request.listed
      /\ request'.asked = request.asked /\ request'.model = request.model
      /\ request'.lines = request.lines /\ request'.read = request.read /\ request'.got = request.got
      /\ request' \in LlmRequest
  BY <1>1, <1>2 DEF LlmRequest
<1>4. UNCHANGED <<llmSetting, installed, flips, offered, answering, steady>>
  BY <1>1, LeavesAlone
<1>5. ProbesOK'
  BY <1>3 DEF ProbesOK, FirstAnsweringUsed
<1>6. LinesOK'
  <2>1. \A j \in 1..request.read : ~Ends(request.lines[j])
    BY <1>1 DEF LinesOK
  <2>2. QED
    BY <1>1, <1>3, <2>1 DEF LinesOK
<1>7. OffersOK'
  BY <1>1, <1>3, <1>4, OffersStay DEF OffersOK, Writes
<1>8. QED
  BY <1>3, <1>4, <1>5, <1>6, <1>7 DEF LlmInv

LEMMA AnswerKeeps == LlmInv /\ get_models => LlmInv'
<1> SUFFICES ASSUME LlmInv, get_models PROVE LlmInv'
  OBVIOUS
<1>1. /\ request' = Idle /\ steady' = {} /\ UNCHANGED <<llmSetting, installed, answering, flips>>
      /\ offered' = IF request.op = "list" /\ request.through = "adapter"
                    THEN [models |-> request.listed, active |-> active_model(request.listed)] ELSE offered
      /\ request \in LlmRequest /\ OffersOK
  BY DEF get_models, LlmInv
<1>2. /\ request'.pc = "idle" /\ request'.lines = <<>> /\ request'.read = 0 /\ request'.got = <<>>
      /\ request'.listed = <<>> /\ (CanWrite' <=> CanWrite)
  BY <1>1 DEF Idle, CanWrite
<1>3. ProbesOK'
  BY <1>2 DEF ProbesOK, FirstAnsweringUsed
<1>4. LinesOK'
  BY <1>2, NoLinesOK
<1>5. OffersOK'
  <2>1. request.listed \in Seq(LlmModels)
    BY <1>1 DEF LlmRequest
  <2>2. request.listed # <<>> => active_model(request.listed) \in Elements(request.listed)
    <3>1. request.listed # <<>> => Head(request.listed) \in Elements(request.listed)
      BY <2>1, HeadTailProperties, LenProperties, EmptySeq DEF Elements
    <3>2. QED
      BY <3>1 DEF active_model
  <2>3. offered'.models \in {offered.models, request.listed} /\ offered'.models \in Seq(LlmModels)
    BY <1>1, <2>1 DEF OffersOK
  <2>4. CanWrite' /\ offered'.models # <<>> => offered'.active \in Elements(offered'.models)
    BY <1>1, <1>2, <2>2 DEF OffersOK
  <2>5. CanWrite' /\ llmSetting'.kind = "ollama" => Elements(offered'.models) \cap Embedders = {}
    BY <1>1, <1>2 DEF OffersOK, Writes
  <2>6. Elements(request'.listed) = {}
    BY <1>2 DEF Elements
  <2>7. NeverEmbedding'
    BY <1>2 DEF NeverEmbedding
  <2>8. (CanWrite' => Writes(offered.models)') /\ Writes(request.listed)'
    BY <2>5, <2>6 DEF Writes
  <2>9. QED
    BY <1>2, <2>3, <2>4, <2>7, <2>8 DEF OffersOK
<1>6. steady' \subseteq answering' /\ request' \in LlmRequest
  BY <1>1, IdleRequest
<1>7. QED
  BY <1>1, <1>3, <1>4, <1>5, <1>6 DEF LlmInv

LEMMA LlmStepKeeps == LlmInv /\ [LlmNext]_llmVars => LlmInv'
<1>1. LlmInv /\ LlmNext => LlmInv'
  BY FlipKeeps, StartCallKeeps, ProbeKeeps, RequestFailsKeeps, TagsListedKeeps, GenerateKeeps,
     StreamStarts, ReadStreamLineKeeps, StreamClosesKeeps, AnswerKeeps DEF LlmNext
<1>2. LlmInv /\ UNCHANGED llmVars => LlmInv'
  <2> SUFFICES ASSUME LlmInv, UNCHANGED llmVars PROVE LlmInv'
    OBVIOUS
  <2>1. UNCHANGED <<llmSetting, installed, answering, flips, offered, request, steady>>
    BY DEF llmVars
  <2>2. get_candidate_ollama_urls' = get_candidate_ollama_urls
    BY <2>1, UrlsStay
  <2>3. ProbesOK' /\ LinesOK' /\ OffersOK'
    BY <2>1, <2>2 DEF LlmInv, ProbesOK, FirstAnsweringUsed, LinesOK, OffersOK, CanWrite, NeverEmbedding, Writes
  <2>4. QED
    BY <2>1, <2>3 DEF LlmInv
<1>3. QED
  BY <1>1, <1>2

\* The inductive invariant gives the properties of the model servers.
LEMMA LlmInvGives ==
  LlmInv => LlmTypeOK /\ StreamedWhole /\ FirstAnsweringUsed /\ NeverEmbedding /\ OfferedIsUsed
<1> SUFFICES ASSUME LlmInv
             PROVE  LlmTypeOK /\ StreamedWhole /\ FirstAnsweringUsed /\ NeverEmbedding /\ OfferedIsUsed
  OBVIOUS
<1>1. /\ request \in LlmRequest /\ ProbesOK /\ LinesOK /\ OffersOK /\ steady \subseteq answering
  BY DEF LlmInv
<1>2. /\ request.read \in Nat /\ request.lines \in Seq(StreamLines) /\ request.got \in Seq(Nat)
      /\ DOMAIN request.lines = 1..Len(request.lines) /\ Len(request.lines) \in Nat
      /\ DOMAIN request.got = 1..Len(request.got) /\ Len(request.got) \in Nat
      /\ request.read <= Len(request.lines)
  BY <1>1, LenProperties DEF LlmRequest, LinesOK
<1>3. LlmTypeOK
  <2>1. request.pc \in {"idle", "probing", "requesting", "streaming", "ended", "failed"}
    BY <1>1 DEF LlmRequest
  <2>2. ASSUME NEW i \in DOMAIN request.got, i > 1 PROVE request.got[i - 1] < request.got[i]
    <3>1. i - 1 \in DOMAIN request.got /\ i - 1 < i
      BY <1>2, <2>2
    <3>2. QED
      BY <1>1, <3>1 DEF LinesOK
  <2>3. Elements(offered.models) \subseteq LlmModels
    BY <1>1, LenProperties, ElementOfSeq DEF Elements, OffersOK
  <2>4. QED
    BY <1>1, <1>2, <2>1, <2>2, <2>3 DEF LlmTypeOK, ProbesOK
<1>4. StreamedWhole
  <2> DEFINE open(i) == \A j \in 1..(i - 1) : request.lines[j] \notin {"last", "lastword"}
             words == {i \in DOMAIN request.lines : open(i) /\ request.lines[i] \in {"word", "lastword"}}
  <2>1. \A i \in 1..request.read : open(i)
    BY <1>1, <1>2 DEF LinesOK, Ends
  <2>2. Elements(request.got) = {i \in 1..request.read : Carries(request.lines[i])}
    BY <1>1 DEF LinesOK
  <2>3. Elements(request.got) = {i \in words : i <= request.read}
    BY <1>2, <2>1, <2>2 DEF Carries
  <2>4. request.pc = "ended" => \A i \in words : i <= request.read
    BY <1>1, <1>2 DEF LinesOK, Ends
  <2>5. request.pc = "ended" => Elements(request.got) = words
    BY <2>3, <2>4
  <2>6. QED
    BY <2>3, <2>5 DEF StreamedWhole
<1>5. OfferedIsUsed
  BY <1>1 DEF OffersOK, CanWrite, Writes, OfferedIsUsed
<1>6. QED
  BY <1>1, <1>3, <1>4, <1>5 DEF ProbesOK, OffersOK

LEMMA LlmInvariance == LlmSpec => []LlmInv
BY LlmStarts, LlmStepKeeps, PTL DEF LlmSpec

\* A server that answered all the time is found, it is asked for a model that can write
\* and that was offered, and every word of its stream is heard.
THEOREM ModelServersServe ==
  LlmSpec => [](LlmTypeOK /\ StreamedWhole /\ FirstAnsweringUsed /\ NeverEmbedding /\ OfferedIsUsed)
BY LlmInvariance, LlmInvGives, PTL

------------------------------------------------------------------------------
(* Who a caller is. *)

\* What a subject was last resolved to is what the last claims say, and was named.
ClaimsOK ==
  /\ DOMAIN latest = DOMAIN cached
  /\ \A id \in DOMAIN cached :
       /\ latest[id].claims \in TokenClaims \cup {BarePrincipal(id)}
       /\ latest[id].claims.sub = id /\ id # None /\ latest[id].asked \in AskedTenants
       /\ cached[id] = normalize(latest[id].claims, latest[id].asked)
       /\ \A x \in cached[id].groups \cup Home(cached[id]) : <<id, x>> \in named

\* What the two adapters keep of a principal that was registered.
KeptOK(id) ==
  /\ IsPrincipal(users[id]) /\ registered[id].n \in Nat \ {0} /\ registered[id].p = users[id]
  /\ registered[id].groups # {} => At(dbGroups, id) = UNION registered[id].groups
  /\ At(dbGroups, id) \subseteq At(memGroups, id) /\ At(dbScopes, id) \subseteq At(memScopes, id)
  /\ registered[id].n = 1
       => /\ At(dbGroups, id) = At(memGroups, id)
          /\ At(dbScopes, id) \cup Home(users[id]) = At(memScopes, id) \cup Home(users[id])
  /\ \A x \in At(memGroups, id) \cup users[id].groups \cup At(memScopes, id) \cup Home(users[id]) :
       <<id, x>> \in named

RegisteredOK ==
  /\ memPrincipals = users /\ DOMAIN registered = DOMAIN users
  /\ \A f \in {memGroups, memScopes, dbGroups, dbScopes} : DOMAIN f \subseteq DOMAIN users
  /\ \A id \in DOMAIN users : KeptOK(id)

IdInv ==
  /\ pool \in Pools /\ identityCalls \in 0..MaxIdentityCalls
  /\ ClaimsOK /\ RegisteredOK

LEMMA WithFacts ==
  ASSUME NEW f, NEW k, NEW v
  PROVE  /\ DOMAIN With(f, k, v) = DOMAIN f \cup {k} /\ With(f, k, v)[k] = v
         /\ \A j \in DOMAIN f : j # k => With(f, k, v)[j] = f[j]
BY DEF With

LEMMA AtWith ==
  ASSUME NEW f, NEW k, NEW v, NEW id
  PROVE  At(With(f, k, v), id) = IF id = k THEN v ELSE At(f, id)
<1>1. PICK g : g = With(f, k, v)
  OBVIOUS
<1>2. DOMAIN g = DOMAIN f \cup {k} /\ g[k] = v /\ \A j \in DOMAIN f : j # k => g[j] = f[j]
  BY <1>1 DEF With
<1>3. At(g, id) = IF id = k THEN v ELSE At(f, id)
  BY <1>2 DEF At
<1>4. QED
  BY <1>1, <1>3

\* What a registration adds to, and what it puts in the place of, what was there.
LEMMA AtUnioned ==
  ASSUME NEW f, NEW k, NEW more, NEW id
  PROVE  /\ At(Unioned(f, k, more), id) = IF id = k THEN At(f, k) \cup more ELSE At(f, id)
         /\ DOMAIN Unioned(f, k, more) \subseteq DOMAIN f \cup {k}
<1>1. CASE more = {}
  BY <1>1 DEF Unioned
<1>2. CASE more # {}
  <2>1. PICK all : all = At(f, k) \cup more
    OBVIOUS
  <2>2. Unioned(f, k, more) = With(f, k, all)
    BY <1>2, <2>1 DEF Unioned
  <2>3. At(With(f, k, all), id) = IF id = k THEN all ELSE At(f, id)
    BY AtWith
  <2>4. DOMAIN With(f, k, all) = DOMAIN f \cup {k}
    BY DEF With
  <2>5. QED
    BY <2>1, <2>2, <2>3, <2>4
<1>3. QED
  BY <1>1, <1>2

LEMMA AtReplaced ==
  ASSUME NEW f, NEW k, NEW put, NEW id
  PROVE  /\ At(ReplacedBy(f, k, put), id) = IF id = k /\ put # {} THEN UNION put ELSE At(f, id)
         /\ DOMAIN ReplacedBy(f, k, put) \subseteq DOMAIN f \cup {k}
<1>1. CASE put = {}
  BY <1>1 DEF ReplacedBy
<1>2. CASE put # {}
  <2>1. PICK all : all = UNION put
    OBVIOUS
  <2>2. ReplacedBy(f, k, put) = With(f, k, all)
    BY <1>2, <2>1 DEF ReplacedBy
  <2>3. At(With(f, k, all), id) = IF id = k THEN all ELSE At(f, id)
    BY AtWith
  <2>4. DOMAIN With(f, k, all) = DOMAIN f \cup {k}
    BY DEF With
  <2>5. QED
    BY <1>2, <2>1, <2>2, <2>3, <2>4
<1>3. QED
  BY <1>1, <1>2

\* The tenant is the one asked for or one that the claims name, and none otherwise.
LEMMA TenantFound ==
  ASSUME NEW c, NEW wanted, NEW T, NEW claims \in Seq(T)
  PROVE  /\ TenantOf(c, wanted, claims) \in {wanted, None} \cup {c.tenants[n] : n \in DOMAIN c.tenants}
         /\ wanted # None => TenantOf(c, wanted, claims) = wanted
         /\ wanted = None /\ DOMAIN c.tenants = {} => TenantOf(c, wanted, claims) = None
<1> DEFINE present == Only(claims, DOMAIN c.tenants)
<1>1. present \in Seq(T) /\ Elements(present) = Elements(claims) \cap DOMAIN c.tenants
  BY OnlyFacts
<1>2. present # <<>> => Head(present) \in DOMAIN c.tenants
  <2>1. present # <<>> => Head(present) = present[1] /\ 1 \in DOMAIN present
    BY <1>1, HeadTailProperties, LenProperties, EmptySeq
  <2>2. QED
    BY <1>1, <2>1 DEF Elements
<1>3. TenantOf(c, wanted, claims) = Or(wanted, IF present = <<>> THEN None ELSE c.tenants[Head(present)])
  BY DEF TenantOf
<1> HIDE DEF present
<1>4. QED
  BY <1>2, <1>3 DEF Or

LEMMA PersonFacts ==
  ASSUME NEW c, NEW wanted, NEW T, NEW tenants \in Seq(T), NEW roles, NEW service
  PROVE  LET p == Person(c, wanted, tenants, roles, service) IN
         /\ IsPrincipal(p) /\ p.id = c.sub /\ p.groups = Cleaned(c.groups)
         /\ p.tenant = TenantOf(c, wanted, tenants)
         /\ p.roles \subseteq UNION {c.roles[n] : n \in DOMAIN c.roles}
<1>1. PICK p : p = Person(c, wanted, tenants, roles, service)
  OBVIOUS
<1>2. /\ p.id = c.sub /\ p.groups = Cleaned(c.groups) /\ p.tenant = TenantOf(c, wanted, tenants)
      /\ p.roles = RolesIn(c, roles) /\ IsPrincipal(p)
  BY <1>1 DEF Person, IsPrincipal
<1>3. RolesIn(c, roles) \subseteq UNION {c.roles[n] : n \in DOMAIN c.roles}
  BY DEF RolesIn
<1>4. QED
  BY <1>1, <1>2, <1>3

LEMMA NormalizedFacts ==
  ASSUME NEW c, NEW wanted, NEW p, p = normalize(c, wanted)
  PROVE  /\ IsPrincipal(p) /\ p.id = c.sub /\ p.groups = Cleaned(c.groups)
         /\ p.roles \subseteq UNION {c.roles[n] : n \in DOMAIN c.roles}
         /\ p.tenant \in {wanted, None} \cup {c.tenants[n] : n \in DOMAIN c.tenants}
         /\ wanted # None => p.tenant = wanted
         /\ wanted = None /\ DOMAIN c.tenants = {} => p.tenant = None
<1> DEFINE T == {"tenant_id", "org", "organization", "urn:org", "org_id", "tenant"}
<1>1. /\ <<"tenant_id", "org", "organization">> \in Seq(T) /\ <<"urn:org">> \in Seq(T)
      /\ <<"tenant_id", "org_id", "organization", "tenant">> \in Seq(T)
  OBVIOUS
<1>2. \E tenants \in Seq(T) : \E roles, service : p = Person(c, wanted, tenants, roles, service)
  <2>1. p = normalize_keycloak(c, wanted) \/ p = normalize_zitadel(c, wanted) \/ p = normalize_generic(c, wanted)
    BY DEF normalize
  <2>2. QED
    BY <1>1, <2>1 DEF normalize_keycloak, normalize_zitadel, normalize_generic
<1> HIDE DEF T
<1>3. PICK tenants \in Seq(T) : \E roles, service : p = Person(c, wanted, tenants, roles, service)
  BY <1>2
<1>4. PICK roles, service : p = Person(c, wanted, tenants, roles, service)
  BY <1>3
<1>5. p.tenant = TenantOf(c, wanted, tenants)
  BY <1>4, PersonFacts
<1>6. QED
  BY <1>4, <1>5, PersonFacts, TenantFound

LEMMA IdStarts == IdentityInit => IdInv
<1> SUFFICES ASSUME IdentityInit PROVE IdInv
  OBVIOUS
<1>1. /\ cached = Nowhere /\ latest = Nowhere /\ registered = Nowhere /\ users = Nowhere
      /\ memPrincipals = Nowhere /\ memGroups = Nowhere /\ memScopes = Nowhere
      /\ dbGroups = Nowhere /\ dbScopes = Nowhere /\ pool \in Pools /\ identityCalls = 0
  BY DEF IdentityInit
<1>2. DOMAIN Nowhere = {}
  BY DEF Nowhere
<1>3. ClaimsOK
  BY <1>1, <1>2 DEF ClaimsOK
<1>4. RegisteredOK
  BY <1>1, <1>2 DEF RegisteredOK
<1>5. QED
  BY <1>1, <1>3, <1>4, IdentityAssumption DEF IdInv

LEMMA KeptStays ==
  ASSUME RegisteredOK, UNCHANGED <<memoryAdapter, dbAdapter, registered>>, named \subseteq named'
  PROVE  RegisteredOK'
<1>1. UNCHANGED <<memPrincipals, memGroups, memScopes, users, dbGroups, dbScopes, registered>>
  BY DEF memoryAdapter, dbAdapter
<1>2. ASSUME NEW id \in DOMAIN users PROVE KeptOK(id)'
  <2>1. KeptOK(id)
    BY <1>2 DEF RegisteredOK
  <2>2. QED
    BY <1>1, <2>1 DEF KeptOK
<1>3. QED
  BY <1>1, <1>2 DEF RegisteredOK

LEMMA ResolveKeeps ==
  ASSUME IdInv, NEW c, NEW name, NEW wanted \in AskedTenants,
         c \in TokenClaims \cup {BarePrincipal(c.sub)}, ResolveClaims(c, name, wanted)
  PROVE  IdInv'
<1>1. PICK p : p = normalize(c, wanted)
  OBVIOUS
<1>2. PICK seen : seen = [claims |-> c, asked |-> wanted]
  OBVIOUS
<1>3. PICK sub : sub = c.sub
  OBVIOUS
<1>4. p.id = sub /\ p.groups = Cleaned(c.groups)
      /\ p.tenant \in {wanted, None} \cup {c.tenants[n] : n \in DOMAIN c.tenants}
  BY <1>1, <1>3, NormalizedFacts
<1>5. /\ cached' = With(cached, sub, p) /\ latest' = With(latest, sub, seen)
      /\ sub # None /\ strategy' = strategy /\ pool' = pool
      /\ named' = named \cup {<<sub, g.name>> : g \in c.groups}
                        \cup {<<sub, c.tenants[n]>> : n \in DOMAIN c.tenants} \cup {<<sub, wanted>>}
      /\ UNCHANGED <<memoryAdapter, dbAdapter, registered>>
      /\ identityCalls' \in 0..MaxIdentityCalls
  BY <1>1, <1>2, <1>3, <1>4, IdentityAssumption DEF ResolveClaims, Cache, setUp, IdInv, IdentityCall
<1>6. /\ DOMAIN cached' = DOMAIN cached \cup {sub} /\ DOMAIN latest' = DOMAIN latest \cup {sub}
      /\ cached'[sub] = p /\ latest'[sub] = seen
      /\ \A id \in DOMAIN cached : id # sub => cached'[id] = cached[id]
      /\ \A id \in DOMAIN latest : id # sub => latest'[id] = latest[id]
  BY <1>5 DEF With
<1>7. \A x \in p.groups \cup Home(p) : <<sub, x>> \in named'
  BY <1>4, <1>5 DEF Cleaned, Home
<1>8. seen.claims = c /\ seen.asked = wanted
  BY <1>2
<1>9. ClaimsOK'
  <2>1. DOMAIN latest' = DOMAIN cached'
    BY <1>6 DEF IdInv, ClaimsOK
  <2>2. ASSUME NEW id \in DOMAIN cached'
        PROVE  /\ latest'[id].claims \in TokenClaims \cup {BarePrincipal(id)}
               /\ latest'[id].claims.sub = id /\ id # None /\ latest'[id].asked \in AskedTenants
               /\ cached'[id] = normalize(latest'[id].claims, latest'[id].asked)
               /\ \A x \in cached'[id].groups \cup Home(cached'[id]) : <<id, x>> \in named'
    <3>1. CASE id = sub
      BY <1>1, <1>3, <1>5, <1>6, <1>7, <1>8, <3>1
    <3>2. CASE id # sub
      <4>1. id \in DOMAIN cached /\ id \in DOMAIN latest
        BY <1>6, <3>2 DEF IdInv, ClaimsOK
      <4>2. cached'[id] = cached[id] /\ latest'[id] = latest[id]
        BY <1>6, <3>2, <4>1
      <4>3. /\ latest[id].claims \in TokenClaims \cup {BarePrincipal(id)}
            /\ latest[id].claims.sub = id /\ id # None /\ latest[id].asked \in AskedTenants
            /\ cached[id] = normalize(latest[id].claims, latest[id].asked)
            /\ \A x \in cached[id].groups \cup Home(cached[id]) : <<id, x>> \in named
        BY <4>1 DEF IdInv, ClaimsOK
      <4>4. QED
        BY <1>5, <4>2, <4>3
    <3>3. QED
      BY <3>1, <3>2
  <2>3. \A id \in DOMAIN cached' : normalize(latest'[id].claims, latest'[id].asked)
                                    = normalize(latest[id].claims, latest[id].asked)'
    BY <1>5 DEF normalize
  <2>4. QED
    BY <2>1, <2>2, <2>3 DEF ClaimsOK
<1>10. RegisteredOK'
  <2>1. named \subseteq named'
    BY <1>5
  <2>2. QED
    BY <1>5, <2>1, KeptStays DEF IdInv
<1>11. QED
  BY <1>5, <1>9, <1>10 DEF IdInv

LEMMA RegisterKeeps ==
  ASSUME IdInv, NEW who \in DOMAIN cached, NEW groups, NEW scopes, Register(cached[who], groups, scopes)
  PROVE  IdInv'
<1>1. PICK p : p = cached[who]
  OBVIOUS
<1>2. p.id = who /\ IsPrincipal(p)
  <2>1. latest[who].claims.sub = who /\ p = normalize(latest[who].claims, latest[who].asked)
    BY <1>1 DEF IdInv, ClaimsOK
  <2>2. QED
    BY <2>1, NormalizedFacts
<1>3. PICK moreScopes : moreScopes = IF UNION scopes # {} THEN UNION scopes ELSE Home(p)
  OBVIOUS
<1>4. PICK home : home = Home(p)
  OBVIOUS
<1>5. PICK n : n = IF who \in DOMAIN registered THEN registered[who].n + 1 ELSE 1
  OBVIOUS
<1>6. PICK row : row = [n |-> n, groups |-> groups, p |-> p]
  OBVIOUS
<1>7. /\ memPrincipals' = With(memPrincipals, who, p) /\ users' = With(users, who, p)
      /\ memGroups' = Unioned(memGroups, who, UNION groups)
      /\ memScopes' = Unioned(memScopes, who, moreScopes)
      /\ dbGroups' = ReplacedBy(dbGroups, who, groups)
      /\ dbScopes' = IF scopes # {} THEN ReplacedBy(dbScopes, who, scopes) ELSE Unioned(dbScopes, who, home)
      /\ registered' = With(registered, who, row)
      /\ named' = named \cup {<<who, x>> : x \in p.groups \cup home \cup (UNION groups) \cup (UNION scopes)}
      /\ UNCHANGED <<setUp, cached, latest>>
  BY <1>1, <1>2, <1>3, <1>4, <1>5, <1>6 DEF Register, add_principal, upsert_user
<1>8. identityCalls' \in 0..MaxIdentityCalls /\ pool' = pool /\ strategy' = strategy
  BY <1>7, IdentityAssumption DEF Register, IdentityCall, setUp, IdInv
<1>9. ClaimsOK'
  <2>1. \A id \in DOMAIN cached : normalize(latest[id].claims, latest[id].asked)
                                    = normalize(latest[id].claims, latest[id].asked)'
    BY <1>7, <1>8 DEF normalize
  <2>2. named \subseteq named'
    BY <1>7
  <2>3. QED
    BY <1>7, <2>1, <2>2 DEF IdInv, ClaimsOK
<1>10. RegisteredOK
  BY DEF IdInv
<1>11. /\ users' = memPrincipals' /\ DOMAIN users' = DOMAIN users \cup {who} /\ users'[who] = p
       /\ \A id \in DOMAIN users : id # who => users'[id] = users[id]
       /\ DOMAIN registered' = DOMAIN users' /\ registered'[who] = row
       /\ \A id \in DOMAIN users : id # who => registered'[id] = registered[id]
  BY <1>7, <1>10 DEF RegisteredOK, With
<1>12. ASSUME NEW id
       PROVE  /\ At(memGroups', id) = IF id = who THEN At(memGroups, id) \cup UNION groups ELSE At(memGroups, id)
              /\ At(memScopes', id) = IF id = who THEN At(memScopes, id) \cup moreScopes ELSE At(memScopes, id)
              /\ At(dbGroups', id) = IF id = who /\ groups # {} THEN UNION groups ELSE At(dbGroups, id)
              /\ At(dbScopes', id) = IF id = who THEN IF scopes # {} THEN UNION scopes ELSE At(dbScopes, id) \cup home
                                     ELSE At(dbScopes, id)
  <2>1. /\ At(Unioned(memGroups, who, UNION groups), id)
             = IF id = who THEN At(memGroups, who) \cup UNION groups ELSE At(memGroups, id)
        /\ At(Unioned(memScopes, who, moreScopes), id)
             = IF id = who THEN At(memScopes, who) \cup moreScopes ELSE At(memScopes, id)
        /\ At(Unioned(dbScopes, who, home), id)
             = IF id = who THEN At(dbScopes, who) \cup home ELSE At(dbScopes, id)
    BY AtUnioned
  <2>2. /\ At(ReplacedBy(dbGroups, who, groups), id)
             = IF id = who /\ groups # {} THEN UNION groups ELSE At(dbGroups, id)
        /\ At(ReplacedBy(dbScopes, who, scopes), id)
             = IF id = who /\ scopes # {} THEN UNION scopes ELSE At(dbScopes, id)
    BY AtReplaced
  <2>3. QED
    BY <1>7, <2>1, <2>2
<1>13. \A f \in {memGroups', memScopes', dbGroups', dbScopes'} : DOMAIN f \subseteq DOMAIN users'
  <2>1. /\ DOMAIN Unioned(memGroups, who, UNION groups) \subseteq DOMAIN memGroups \cup {who}
        /\ DOMAIN Unioned(memScopes, who, moreScopes) \subseteq DOMAIN memScopes \cup {who}
        /\ DOMAIN Unioned(dbScopes, who, home) \subseteq DOMAIN dbScopes \cup {who}
    BY AtUnioned
  <2>2. /\ DOMAIN ReplacedBy(dbGroups, who, groups) \subseteq DOMAIN dbGroups \cup {who}
        /\ DOMAIN ReplacedBy(dbScopes, who, scopes) \subseteq DOMAIN dbScopes \cup {who}
    BY AtReplaced
  <2>3. \A f \in {memGroups, memScopes, dbGroups, dbScopes} : DOMAIN f \subseteq DOMAIN users
    BY <1>10 DEF RegisteredOK
  <2>4. QED
    BY <1>7, <1>11, <2>1, <2>2, <2>3
<1>14. ASSUME NEW id \in DOMAIN users' PROVE KeptOK(id)'
  <2>1. CASE id # who
    <3>1. KeptOK(id) /\ users'[id] = users[id] /\ registered'[id] = registered[id] /\ named \subseteq named'
      BY <1>7, <1>10, <1>11, <2>1 DEF RegisteredOK
    <3>2. /\ At(memGroups', id) = At(memGroups, id) /\ At(memScopes', id) = At(memScopes, id)
          /\ At(dbGroups', id) = At(dbGroups, id) /\ At(dbScopes', id) = At(dbScopes, id)
      BY <1>12, <2>1
    <3>3. QED
      BY <3>1, <3>2 DEF KeptOK
  <2>2. CASE id = who
    <3>1. row.n = n /\ row.groups = groups /\ row.p = p /\ registered'[id] = row /\ users'[id] = p
      BY <1>6, <1>11, <2>2
    <3>2. /\ At(memGroups', id) = At(memGroups, who) \cup UNION groups
          /\ At(memScopes', id) = At(memScopes, who) \cup moreScopes
          /\ At(dbGroups', id) = (IF groups # {} THEN UNION groups ELSE At(dbGroups, who))
          /\ At(dbScopes', id) = (IF scopes # {} THEN UNION scopes ELSE At(dbScopes, who) \cup home)
      BY <1>12, <2>2
    <3>3. \/ who \in DOMAIN users /\ n = registered[who].n + 1 /\ KeptOK(who)
          \/ /\ n = 1 /\ At(memGroups, who) = {} /\ At(memScopes, who) = {}
             /\ At(dbGroups, who) = {} /\ At(dbScopes, who) = {}
      BY <1>5, <1>10 DEF RegisteredOK, At
    <3>4. n \in Nat \ {0} /\ (n = 1 => who \notin DOMAIN users \/ FALSE)
      BY <1>5, <1>10, <3>3 DEF RegisteredOK, KeptOK
    <3>5. n = 1 => /\ At(memGroups, who) = {} /\ At(memScopes, who) = {}
                   /\ At(dbGroups, who) = {} /\ At(dbScopes, who) = {}
      BY <3>3, <3>4
    <3>6. /\ At(dbGroups, who) \subseteq At(memGroups, who) /\ At(dbScopes, who) \subseteq At(memScopes, who)
          /\ \A x \in At(memGroups, who) \cup At(memScopes, who) : <<who, x>> \in named
      BY <3>3 DEF KeptOK
    <3>7. /\ At(dbGroups', id) \subseteq At(memGroups', id) /\ At(dbScopes', id) \subseteq At(memScopes', id)
      BY <1>3, <1>4, <3>2, <3>6
    <3>8. n = 1 => /\ At(dbGroups', id) = At(memGroups', id)
                   /\ At(dbScopes', id) \cup home = At(memScopes', id) \cup home
      BY <1>3, <1>4, <3>2, <3>5
    <3>9. \A x \in At(memGroups', id) \cup p.groups \cup At(memScopes', id) \cup home : <<who, x>> \in named'
      BY <1>3, <1>4, <1>7, <3>2, <3>6
    <3>10. groups # {} => At(dbGroups', id) = UNION groups
      BY <3>2
    <3>11. QED
      BY <1>2, <1>4, <2>2, <3>1, <3>4, <3>7, <3>8, <3>9, <3>10 DEF KeptOK
  <2>3. QED
    BY <2>1, <2>2
<1>15. QED
  BY <1>7, <1>8, <1>9, <1>11, <1>13, <1>14 DEF IdInv, RegisteredOK

LEMMA IdStepKeeps == IdInv /\ [IdentityNext]_identityVars => IdInv'
<1> SUFFICES ASSUME IdInv, [IdentityNext]_identityVars PROVE IdInv'
  OBVIOUS
<1>1. ASSUME NEW wanted \in AskedTenants, NEW c \in TokenClaims, ResolveJwt(c, wanted) PROVE IdInv'
  BY <1>1, ResolveKeeps DEF ResolveJwt
<1>2. ASSUME NEW wanted \in AskedTenants, NEW token \in OpaqueTokens, ResolveOpaque(token, wanted) PROVE IdInv'
  <2>1. BarePrincipal(token).sub = token
    BY DEF BarePrincipal
  <2>2. CASE ResolveClaims(BarePrincipal(token), token, wanted)
    <3>1. PICK c : c = BarePrincipal(token)
      OBVIOUS
    <3>2. c \in TokenClaims \cup {BarePrincipal(c.sub)} /\ ResolveClaims(c, token, wanted)
      BY <2>1, <2>2, <3>1
    <3>3. QED
      BY <3>2, ResolveKeeps
  <2>3. CASE \E c \in TokenClaims : ResolveClaims(c, c.name, wanted)
    BY <2>3, ResolveKeeps
  <2>4. QED
    BY <1>2, <2>2, <2>3 DEF ResolveOpaque
<1>3. ASSUME NEW id \in DOMAIN cached, NEW groups \in GivenGroups, NEW scopes \in GivenScopes,
             Register(cached[id], groups, scopes)
      PROVE  IdInv'
  BY <1>3, RegisterKeeps
<1>4. ASSUME UNCHANGED identityVars PROVE IdInv'
  <2>1. /\ UNCHANGED <<strategy, pool, cached, latest, named, registered, identityCalls>>
        /\ UNCHANGED <<memoryAdapter, dbAdapter, registered>>
    BY <1>4 DEF identityVars, setUp
  <2>2. RegisteredOK'
    BY <2>1, KeptStays DEF IdInv
  <2>3. ClaimsOK'
    BY <2>1 DEF IdInv, ClaimsOK, normalize
  <2>4. QED
    BY <2>1, <2>2, <2>3 DEF IdInv
<1>5. QED
  BY <1>1, <1>2, <1>3, <1>4 DEF IdentityNext

LEMMA PlacedHome ==
  ASSUME NEW p, IsPrincipal(p)
  PROVE  Home(Placed(p, None)) = Home(p)
<1>1. PICK q : q = Placed(p, None)
  OBVIOUS
<1>2. "tenant" \in DOMAIN p
  BY DEF IsPrincipal
<1>3. q.tenant = Or(p.tenant, None)
  BY <1>1, <1>2 DEF Placed
<1>4. q.tenant = p.tenant
  BY <1>3 DEF Or
<1>5. QED
  BY <1>1, <1>4 DEF Home

\* The inductive invariant gives the properties of the adapters.
LEMMA IdInvGives ==
  IdInv => /\ IdentityTypeOK /\ AdaptersAgree /\ GroupsWithdrawn /\ GrantsTraced /\ ClaimsAreCurrent
           /\ HomeInScopes
<1> SUFFICES ASSUME IdInv
             PROVE  /\ IdentityTypeOK /\ AdaptersAgree /\ GroupsWithdrawn /\ GrantsTraced /\ ClaimsAreCurrent
                    /\ HomeInScopes
  OBVIOUS
<1>1. ClaimsOK /\ RegisteredOK /\ pool \in Pools /\ memPrincipals = users
  BY DEF IdInv, RegisteredOK
<1>2. ASSUME NEW id \in DOMAIN cached
      PROVE  LET c == latest[id].claims  p == cached[id] IN
             /\ p.id = id /\ p.groups = Cleaned(c.groups)
             /\ p.roles \subseteq UNION {c.roles[n] : n \in DOMAIN c.roles}
             /\ p.tenant \in {latest[id].asked, None} \cup {c.tenants[n] : n \in DOMAIN c.tenants}
             /\ latest[id].asked # None => p.tenant = latest[id].asked
             /\ latest[id].asked = None /\ DOMAIN c.tenants = {} => p.tenant = None
             /\ latest[id].asked \in AskedTenants /\ c \in TokenClaims \cup {BarePrincipal(id)}
             /\ \A x \in p.groups \cup Home(p) : <<id, x>> \in named
  <2>1. PICK c, w, p : c = latest[id].claims /\ w = latest[id].asked /\ p = cached[id]
    OBVIOUS
  <2>2. /\ c \in TokenClaims \cup {BarePrincipal(id)} /\ c.sub = id /\ w \in AskedTenants
        /\ p = normalize(c, w) /\ \A x \in p.groups \cup Home(p) : <<id, x>> \in named
    BY <1>1, <2>1 DEF ClaimsOK
  <2>3. /\ p.id = c.sub /\ p.groups = Cleaned(c.groups)
        /\ p.roles \subseteq UNION {c.roles[n] : n \in DOMAIN c.roles}
        /\ p.tenant \in {w, None} \cup {c.tenants[n] : n \in DOMAIN c.tenants}
        /\ w # None => p.tenant = w
        /\ w = None /\ DOMAIN c.tenants = {} => p.tenant = None
    BY <2>2, NormalizedFacts
  <2>4. QED
    BY <2>1, <2>2, <2>3
<1>3. IdentityTypeOK
  <2>1. ASSUME NEW id \in DOMAIN cached PROVE cached[id].tenant \in AskedTenants /\ None \notin cached[id].groups
    <3>1. \A n \in DOMAIN latest[id].claims.tenants : latest[id].claims.tenants[n] \in Tenants
      <4>1. CASE latest[id].claims \in TokenClaims
        BY <4>1, IdentityAssumption
      <4>2. CASE latest[id].claims = BarePrincipal(id)
        <5>1. DOMAIN latest[id].claims.tenants = {}
          BY <4>2 DEF BarePrincipal
        <5>2. QED
          BY <5>1
      <4>3. QED
        BY <1>2, <4>1, <4>2
    <3>2. QED
      BY <1>2, <3>1 DEF AskedTenants, Cleaned
  <2>2. QED
    BY <1>1, <1>2, <2>1 DEF IdentityTypeOK, IdInv
<1>4. ClaimsAreCurrent
  <2>1. ASSUME NEW id \in DOMAIN latest
        PROVE  LET c == latest[id].claims IN
               /\ OidcGroups(id) = {g.name : g \in {h \in c.groups : h.name # None}}
               /\ latest[id].asked # None => OidcScopes(id) = {latest[id].asked}
               /\ (latest[id].asked = None /\ c.tenants = <<>>) => OidcScopes(id) = {}
               /\ id \in DOMAIN cached => cached[id].roles \subseteq UNION {c.roles[n] : n \in DOMAIN c.roles}
    <3>1. id \in DOMAIN cached
      BY <1>1 DEF ClaimsOK
    <3>2. OidcGroups(id) = cached[id].groups /\ OidcScopes(id) = Home(cached[id])
      BY <3>1 DEF OidcGroups, OidcScopes, GroupsAt, HomeAt
    <3>3. PICK c : c = latest[id].claims
      OBVIOUS
    <3>4. OidcGroups(id) = {g.name : g \in {h \in c.groups : h.name # None}}
      BY <1>2, <3>1, <3>2, <3>3 DEF Cleaned
    <3>5. c.tenants = <<>> => DOMAIN c.tenants = {}
      OBVIOUS
    <3>6. /\ latest[id].asked # None => OidcScopes(id) = {latest[id].asked}
          /\ (latest[id].asked = None /\ c.tenants = <<>>) => OidcScopes(id) = {}
      BY <1>2, <3>1, <3>2, <3>3, <3>5 DEF Home
    <3>7. QED
      BY <1>2, <3>1, <3>3, <3>4, <3>6
  <2>2. QED
    BY <2>1 DEF ClaimsAreCurrent
<1>5. ASSUME NEW id \in DOMAIN users PROVE KeptOK(id)
  BY <1>1 DEF RegisteredOK
<1>6. ASSUME NEW id, id \notin DOMAIN users
      PROVE  At(memGroups, id) = {} /\ At(memScopes, id) = {} /\ At(dbGroups, id) = {} /\ At(dbScopes, id) = {}
  BY <1>1, <1>6 DEF RegisteredOK, At
<1>7. AdaptersAgree
  <2>1. ASSUME ~pooled, NEW id
        PROVE  /\ \A w \in AskedTenants : DbResolve(id, w) = MemResolve(id, w)
               /\ DbGroups(id) \subseteq MemGroups(id) /\ DbScopes(id) \subseteq MemScopes(id)
               /\ id \in DOMAIN registered /\ registered[id].n = 1
                    => DbGroups(id) = MemGroups(id) /\ DbScopes(id) = MemScopes(id)
    <3>1. /\ DbGroups(id) = At(dbGroups, id) \cup GroupsAt(users, id)
          /\ DbScopes(id) = At(dbScopes, id) \cup HomeAt(users, id)
          /\ MemGroups(id) = At(memGroups, id) \cup GroupsAt(users, id)
          /\ MemScopes(id) = At(memScopes, id) \cup HomeAt(users, id)
      BY <1>1, <2>1 DEF DbGroups, DbScopes, MemGroups, MemScopes
    <3>2. ASSUME NEW w PROVE DbResolve(id, w) = MemResolve(id, w)
      BY <1>1, <1>6, <2>1 DEF DbResolve, MemResolve
    <3>3. At(dbGroups, id) \subseteq At(memGroups, id) /\ At(dbScopes, id) \subseteq At(memScopes, id)
      BY <1>5, <1>6 DEF KeptOK
    <3>4. ASSUME id \in DOMAIN registered, registered[id].n = 1
          PROVE  DbGroups(id) = MemGroups(id) /\ DbScopes(id) = MemScopes(id)
      <4>1. id \in DOMAIN users
        BY <1>1, <3>4 DEF RegisteredOK
      <4>2. /\ At(dbGroups, id) = At(memGroups, id)
            /\ At(dbScopes, id) \cup Home(users[id]) = At(memScopes, id) \cup Home(users[id])
        BY <1>5, <3>4, <4>1 DEF KeptOK
      <4>3. HomeAt(users, id) = Home(users[id])
        BY <4>1 DEF HomeAt
      <4>4. QED
        BY <3>1, <4>2, <4>3
    <3>5. QED
      BY <3>1, <3>2, <3>3, <3>4
  <2>2. QED
    BY <2>1 DEF AdaptersAgree
<1>8. GroupsWithdrawn
  <2>1. ASSUME ~pooled, NEW id \in DOMAIN registered, registered[id].groups # {}
        PROVE  DbGroups(id) = registered[id].p.groups \cup UNION registered[id].groups
    <3>1. id \in DOMAIN users
      BY <1>1 DEF RegisteredOK
    <3>2. At(dbGroups, id) = UNION registered[id].groups /\ registered[id].p = users[id]
      BY <1>5, <2>1, <3>1 DEF KeptOK
    <3>3. DbGroups(id) = At(dbGroups, id) \cup users[id].groups
      BY <2>1, <3>1 DEF DbGroups, GroupsAt
    <3>4. QED
      BY <3>2, <3>3
  <2>2. QED
    BY <2>1 DEF GroupsWithdrawn
<1>9. GrantsTraced
  <2>1. ASSUME NEW id, NEW x \in OidcGroups(id) \cup OidcScopes(id) PROVE <<id, x>> \in named
    BY <1>2, <2>1 DEF OidcGroups, OidcScopes, GroupsAt, HomeAt
  <2>2. ASSUME NEW id, NEW x \in MemGroups(id) \cup MemScopes(id) PROVE <<id, x>> \in named
    <3>1. x \in At(memGroups, id) \cup GroupsAt(users, id) \cup At(memScopes, id) \cup HomeAt(users, id)
      BY <1>1, <2>2 DEF MemGroups, MemScopes
    <3>2. id \in DOMAIN users
      BY <1>6, <3>1 DEF GroupsAt, HomeAt
    <3>3. x \in At(memGroups, id) \cup users[id].groups \cup At(memScopes, id) \cup Home(users[id])
      BY <3>1, <3>2 DEF GroupsAt, HomeAt
    <3>4. QED
      BY <1>5, <3>2, <3>3 DEF KeptOK
  <2>3. ASSUME NEW id \in UserIds, ~pooled PROVE DbGroups(id) \subseteq MemGroups(id) /\ DbScopes(id) \subseteq MemScopes(id)
    BY <1>7, <2>3 DEF AdaptersAgree
  <2>4. QED
    BY <2>1, <2>2, <2>3 DEF GrantsTraced
<1>10. HomeInScopes
  <2>1. ASSUME NEW id PROVE Home(Stranger(id, None, At(memGroups, id))) = {} /\ Home(Stranger(id, None, {})) = {}
    BY DEF Stranger, Home
  <2>2. ASSUME NEW id PROVE Home(MemResolve(id, None)) \subseteq MemScopes(id)
    <3>1. CASE id \in DOMAIN users
      <4>1. IsPrincipal(users[id])
        BY <1>5, <3>1 DEF KeptOK
      <4>2. Home(Placed(users[id], None)) = Home(users[id])
        BY <4>1, PlacedHome
      <4>3. QED
        BY <1>1, <3>1, <4>2 DEF MemResolve, MemScopes, HomeAt
    <3>2. CASE id \notin DOMAIN users
      BY <1>1, <2>1, <3>2 DEF MemResolve
    <3>3. QED
      BY <3>1, <3>2
  <2>3. ASSUME NEW id, ~pooled \/ HasTenantRow(id) PROVE Home(DbResolve(id, None)) \subseteq DbScopes(id)
    <3>1. CASE pooled
      <4>1. id \in DOMAIN pool.users /\ IsPrincipal(pool.users[id])
        BY <1>1, <2>3, <3>1, IdentityAssumption DEF HasTenantRow
      <4>2. Home(Placed(pool.users[id], None)) = Home(pool.users[id])
        BY <4>1, PlacedHome
      <4>3. DbResolve(id, None) = Placed(pool.users[id], None) /\ DbScopes(id) = At(pool.scopes, id)
        BY <3>1, <4>1 DEF DbResolve, DbScopes
      <4>4. QED
        BY <2>3, <3>1, <4>2, <4>3 DEF HasTenantRow
    <3>2. CASE ~pooled /\ id \in DOMAIN users
      <4>1. IsPrincipal(users[id])
        BY <1>5, <3>2 DEF KeptOK
      <4>2. Home(Placed(users[id], None)) = Home(users[id])
        BY <4>1, PlacedHome
      <4>3. QED
        BY <3>2, <4>2 DEF DbResolve, DbScopes, HomeAt
    <3>3. CASE ~pooled /\ id \notin DOMAIN users
      BY <2>1, <3>3 DEF DbResolve
    <3>4. QED
      BY <3>1, <3>2, <3>3
  <2>4. ASSUME NEW id PROVE HomeAt(cached, id) \subseteq OidcScopes(id)
    BY DEF OidcScopes
  <2>5. QED
    BY <2>2, <2>3, <2>4 DEF HomeInScopes
<1>11. QED
  BY <1>3, <1>4, <1>7, <1>8, <1>9, <1>10

LEMMA IdInvariance == IdentitySpec => []IdInv
BY IdStarts, IdStepKeeps, PTL DEF IdentitySpec

\* The adapters agree on a principal, forget what was withdrawn, and answer nothing that
\* was not named for it.
THEOREM GrantsAreTraced ==
  IdentitySpec => [](IdentityTypeOK /\ AdaptersAgree /\ GroupsWithdrawn /\ GrantsTraced /\ ClaimsAreCurrent)
BY IdInvariance, IdInvGives, PTL

\* The tenant of a principal is one that it may reach; in a database, of one whose tenant
\* has a row.
THEOREM HomesAreInScopes == IdentitySpec => []HomeInScopes
BY IdInvariance, IdInvGives, PTL

------------------------------------------------------------------------------
(* The object stores. *)

PathCharacters == KeyCharacters \cup Callers \cup {"/"}

LEMMA CleanIsKey ==
  ASSUME NEW key \in Seq(KeyCharacters)
  PROVE  Clean(key) \in Seq(KeyCharacters)
<1> DEFINE ends(n) == n = Len(key) + 1 \/ key[n] # "/"
           first(n) == ends(n) /\ \A m \in 1..(n - 1) : key[m] = "/"
           stops == {n \in 1..(Len(key) + 1) : ends(n)}
<1>1. Len(key) \in Nat /\ DOMAIN key = 1..Len(key) /\ \A i \in 1..Len(key) : key[i] \in KeyCharacters
  BY LenProperties
<1>2. \E n \in 1..(Len(key) + 1) : first(n)
  <2>1. stops \in SUBSET Nat /\ Len(key) + 1 \in stops
    BY <1>1
  <2>2. PICK n \in stops : \A j \in Nat : j < n => j \notin stops
    <3> HIDE DEF stops
    <3>1. QED
      BY <2>1, LeastNumber
  <2>3. ASSUME NEW m \in 1..(n - 1) PROVE key[m] = "/"
    <3>1. m \in Nat /\ m < n /\ m \in 1..(Len(key) + 1)
      BY <1>1, <2>2
    <3>2. QED
      BY <2>2, <3>1
  <2>4. QED
    BY <2>2, <2>3
<1>3. PICK start \in 1..(Len(key) + 1) : Clean(key) = SubSeq(key, start, Len(key))
  BY <1>2 DEF Clean
<1>4. start \in Int /\ Len(key) \in Int /\ \A i \in start..Len(key) : key[i] \in KeyCharacters
  BY <1>1, <1>3
<1>5. QED
  BY <1>3, <1>4, SubSeqProperties

\* The path of a tenant's key is its name, a slash and the key, and both can be read off.
LEMMA TenantPath ==
  ASSUME NEW key \in Seq(KeyCharacters), NEW tenant \in ObjectTenants
  PROVE  LET path == ResolveKey(key, tenant) IN
         /\ path \in Seq(PathCharacters) /\ Len(path) = Len(Clean(key)) + 2
         /\ path[1] = tenant /\ path[2] = "/" /\ SubSeq(path, 3, Len(path)) = Clean(key)
<1> DEFINE front == <<tenant, "/">>
           path == ResolveKey(key, tenant)
<1>1. Clean(key) \in Seq(KeyCharacters) /\ Clean(key) \in Seq(PathCharacters)
  <2>1. KeyCharacters \subseteq PathCharacters
    BY DEF PathCharacters
  <2>2. QED
    BY <2>1, CleanIsKey, SeqMonotonic
<1>2. front \in Seq(PathCharacters) /\ Len(front) = 2 /\ front[1] = tenant /\ front[2] = "/"
  BY DEF PathCharacters, Callers
<1>3. path = front \o Clean(key)
  BY ObjectAssumption DEF ResolveKey
<1>4. Len(Clean(key)) \in Nat
  BY <1>1, LenProperties
<1> HIDE DEF front, path
<1>5. /\ path \in Seq(PathCharacters) /\ Len(path) = Len(Clean(key)) + 2
      /\ \A i \in 1..(2 + Len(Clean(key))) : path[i] = IF i <= 2 THEN front[i] ELSE Clean(key)[i - 2]
  <2>1. /\ front \o Clean(key) \in Seq(PathCharacters)
        /\ Len(front \o Clean(key)) = Len(front) + Len(Clean(key))
        /\ \A i \in 1..(Len(front) + Len(Clean(key))) :
             (front \o Clean(key))[i] = IF i <= Len(front) THEN front[i] ELSE Clean(key)[i - Len(front)]
    BY <1>1, <1>2, ConcatProperties
  <2>2. QED
    BY <1>2, <1>3, <1>4, <2>1
<1>6. path[1] = tenant /\ path[2] = "/"
  BY <1>2, <1>4, <1>5
<1>7. SubSeq(path, 3, Len(path)) = Clean(key)
  <2> DEFINE rest == SubSeq(path, 3, Len(path))
  <2>1. /\ Len(path) \in Int /\ 3 \in Int
        /\ \A i \in 3..Len(path) : path[i] \in PathCharacters
    BY <1>4, <1>5, LenProperties
  <2>2. /\ rest \in Seq(PathCharacters)
        /\ Len(rest) = IF 3 <= Len(path) THEN Len(path) - 3 + 1 ELSE 0
        /\ \A i \in 1..(Len(path) - 3 + 1) : rest[i] = path[3 + i - 1]
    BY <2>1, SubSeqProperties
  <2> HIDE DEF rest
  <2>3. Len(rest) = Len(Clean(key))
    BY <1>4, <1>5, <2>2
  <2>4. ASSUME NEW i \in 1..Len(rest) PROVE rest[i] = Clean(key)[i]
    <3>1. i \in 1..(Len(path) - 3 + 1) /\ 3 + i - 1 \in 1..(2 + Len(Clean(key))) /\ ~ (3 + i - 1 <= 2)
          /\ (3 + i - 1) - 2 = i
      BY <1>4, <1>5, <2>3
    <3>2. QED
      BY <1>5, <2>2, <3>1
  <2>5. QED
    BY <1>1, <2>2, <2>3, <2>4, SeqEqual DEF rest
<1>8. QED
  BY <1>5, <1>6, <1>7 DEF path

LEMMA KeysAreSequences ==
  \A key \in ObjectKeys \cup ListPrefixes : key \in Seq(KeyCharacters)
BY ObjectAssumption

\* What is under a path was put there by somebody.
Came(path, data, had) == \E key \in ObjectKeys, tenant \in Callers : path = ResolveKey(key, tenant) /\ data \in had[tenant]

LEMMA CameStill ==
  ASSUME NEW path, NEW data, NEW had, NEW has, Came(path, data, had), \A t \in Callers : had[t] \subseteq has[t]
  PROVE  Came(path, data, has)
BY DEF Came

IsDescribed(path) ==
  /\ memMeta[path].key \in ObjectKeys /\ memMeta[path].tenant \in Callers
  /\ ResolveKey(memMeta[path].key, memMeta[path].tenant) = path
  /\ memData[path] \in given[memMeta[path].tenant]

\* In doubt or the same: there in both stores, with the same content, or in neither.
SameObject(path) ==
  /\ path \in DOMAIN memData <=> path \in DOMAIN bucket
  /\ path \in DOMAIN bucket => memData[path] = bucket[path]

ObjectsRight ==
  /\ given \in [Callers -> SUBSET ObjectContents] /\ unsure \subseteq Paths
  /\ DOMAIN memMeta = DOMAIN memData /\ IsFiniteSet(DOMAIN bucket)
  /\ \A path \in DOMAIN memData : IsDescribed(path)
  /\ \A path \in DOMAIN bucket : Came(path, bucket[path], given)
  /\ \A path \in Paths \ unsure : SameObject(path)

ObjectInv == ObjectsRight /\ TenantsApart /\ ObjectAnswersAlike

LEMMA ObjectsStart == ObjectInit => ObjectInv
<1> SUFFICES ASSUME ObjectInit PROVE ObjectInv
  OBVIOUS
<1>1. given \in [Callers -> SUBSET ObjectContents]
  BY DEF ObjectInit
<1>2. DOMAIN memData = {} /\ DOMAIN memMeta = {} /\ DOMAIN bucket = {} /\ unsure = {}
  BY DEF ObjectInit, Nothing
<1>3. ObjectsRight
  BY <1>1, <1>2, FS_EmptySet DEF ObjectsRight, SameObject
<1>4. QED
  BY <1>3 DEF ObjectInv, ObjectInit, TenantsApart, ObjectAnswersAlike

\* A change of one object in both stores, or in one of them and then in doubt.
LEMMA PutObjectKeeps == ObjectInv /\ put_object => ObjectInv'
<1> SUFFICES ASSUME ObjectInv, NEW key \in ObjectKeys, NEW tenant \in Callers, NEW data \in ObjectContents,
                    NEW outcome \in Outcomes, NEW path, path = ResolveKey(key, tenant),
                    objectAnswer' = [op |-> "put", tenant |-> Nobody, key |-> <<>>, mem |-> {},
                                     s3 |-> IF outcome = "done" THEN {} ELSE {"error"}],
                    memData' = Storing(memData, path, data),
                    memMeta' = Storing(memMeta, path, [key |-> key, tenant |-> tenant]),
                    bucket' = IF ReachesBucket(outcome) THEN Storing(bucket, path, data) ELSE bucket,
                    Settles(path, outcome), given' = [given EXCEPT ![tenant] = @ \cup {data}]
             PROVE  ObjectInv'
  BY DEF put_object, ObjectCall, ResolvePath
<1>1. path \in Paths
  BY DEF Paths
<1>2. ObjectsRight
  BY DEF ObjectInv
<1>3. /\ given' \in [Callers -> SUBSET ObjectContents] /\ data \in given'[tenant]
      /\ \A t \in Callers : given[t] \subseteq given'[t]
  BY <1>2 DEF ObjectsRight
<1>4. unsure' \subseteq Paths
  BY <1>1, <1>2 DEF ObjectsRight, Settles
<1>5. DOMAIN memData' = DOMAIN memData \cup {path} /\ DOMAIN memMeta' = DOMAIN memMeta \cup {path}
  BY DEF Storing
<1>6. /\ memData'[path] = data /\ memMeta'[path] = [key |-> key, tenant |-> tenant]
      /\ \A other \in DOMAIN memData : other # path => memData'[other] = memData[other]
      /\ \A other \in DOMAIN memMeta : other # path => memMeta'[other] = memMeta[other]
  BY DEF Storing
<1>7. ASSUME NEW other \in DOMAIN memData' PROVE IsDescribed(other)'
  BY <1>2, <1>3, <1>5, <1>6 DEF ObjectsRight, IsDescribed
<1>8. \/ ReachesBucket(outcome) /\ DOMAIN bucket' = DOMAIN bucket \cup {path} /\ bucket'[path] = data
         /\ \A other \in DOMAIN bucket : other # path => bucket'[other] = bucket[other]
      \/ outcome # "done" /\ bucket' = bucket
  BY DEF Storing, ReachesBucket
<1>9. IsFiniteSet(DOMAIN bucket')
  BY <1>2, <1>8, FS_AddElement DEF ObjectsRight
<1>10. ASSUME NEW other \in DOMAIN bucket' PROVE Came(other, bucket'[other], given')
  <2>1. CASE other = path /\ bucket'[other] = data
    BY <2>1, <1>3 DEF Came
  <2>2. CASE other \in DOMAIN bucket /\ bucket'[other] = bucket[other]
    BY <2>2, <1>2, <1>3, CameStill DEF ObjectsRight
  <2>3. QED
    BY <1>8, <2>1, <2>2
<1>11. ASSUME NEW other \in Paths \ unsure' PROVE SameObject(other)'
  <2>1. CASE other = path
    BY <1>5, <1>6, <1>8, <1>11, <2>1 DEF SameObject, Settles
  <2>2. CASE other # path
    <3>1. SameObject(other)
      BY <1>2, <1>11, <2>2 DEF ObjectsRight, Settles
    <3>2. QED
      BY <1>5, <1>6, <1>8, <2>2, <3>1 DEF SameObject
  <2>3. QED
    BY <2>1, <2>2
<1>12. ObjectsRight'
  BY <1>2, <1>3, <1>4, <1>5, <1>7, <1>9, <1>10, <1>11 DEF ObjectsRight
<1>13. TenantsApart' /\ ObjectAnswersAlike'
  BY DEF TenantsApart, ObjectAnswersAlike
<1>14. QED
  BY <1>12, <1>13 DEF ObjectInv

LEMMA DeleteObjectKeeps == ObjectInv /\ delete_object => ObjectInv'
<1> SUFFICES ASSUME ObjectInv, NEW key \in ObjectKeys, NEW tenant \in Callers, NEW outcome \in Outcomes,
                    NEW path, path = ResolveKey(key, tenant), objectAnswer'.op = "delete",
                    memData' = Removing(memData, path), memMeta' = Removing(memMeta, path),
                    bucket' = IF ReachesBucket(outcome) THEN Removing(bucket, path) ELSE bucket,
                    Settles(path, outcome), given' = given
             PROVE  ObjectInv'
  <2>1. ASSUME delete_object PROVE objectAnswer'.op = "delete"
    BY <2>1 DEF delete_object, ObjectCall
  <2>2. QED
    BY <2>1 DEF delete_object, ResolvePath, Described
<1>1. path \in Paths
  BY DEF Paths
<1>2. ObjectsRight
  BY DEF ObjectInv
<1>3. unsure' \subseteq Paths
  BY <1>1, <1>2 DEF ObjectsRight, Settles
<1>4. /\ DOMAIN memData' = DOMAIN memData \ {path} /\ DOMAIN memMeta' = DOMAIN memMeta \ {path}
      /\ \A other \in DOMAIN memData' : memData'[other] = memData[other]
      /\ \A other \in DOMAIN memMeta' : memMeta'[other] = memMeta[other]
  BY DEF Removing
<1>5. \/ DOMAIN bucket' = DOMAIN bucket \ {path} /\ \A other \in DOMAIN bucket' : bucket'[other] = bucket[other]
      \/ outcome # "done" /\ bucket' = bucket
  BY DEF Removing, ReachesBucket
<1>6. IsFiniteSet(DOMAIN bucket')
  BY <1>2, <1>5, FS_RemoveElement DEF ObjectsRight
<1>7. \A other \in DOMAIN bucket' : Came(other, bucket'[other], given')
  BY <1>2, <1>5 DEF ObjectsRight
<1>8. ASSUME NEW other \in Paths \ unsure' PROVE SameObject(other)'
  <2>1. CASE other = path
    BY <1>4, <1>5, <1>8, <2>1 DEF SameObject, Settles
  <2>2. CASE other # path
    <3>1. SameObject(other)
      BY <1>2, <1>8, <2>2 DEF ObjectsRight, Settles
    <3>2. QED
      BY <1>4, <1>5, <2>2, <3>1 DEF SameObject
  <2>3. QED
    BY <2>1, <2>2
<1>9. \A other \in DOMAIN memData' : IsDescribed(other)'
  BY <1>2, <1>4 DEF ObjectsRight, IsDescribed
<1>10. ObjectsRight'
  BY <1>2, <1>3, <1>4, <1>6, <1>7, <1>8, <1>9 DEF ObjectsRight
<1>11. TenantsApart' /\ ObjectAnswersAlike'
  BY DEF TenantsApart, ObjectAnswersAlike
<1>12. QED
  BY <1>10, <1>11 DEF ObjectInv

\* Nobody else's key leads to a tenant's path, unless it was used without a tenant.
LEMMA OwnPath ==
  ASSUME NEW key \in ObjectKeys, NEW tenant \in ObjectTenants, NEW other \in ObjectKeys, NEW caller \in Callers,
         ResolveKey(other, caller) = ResolveKey(key, tenant)
  PROVE  caller \in {tenant, Nobody}
BY KeysAreSequences, TenantPath DEF Callers

LEMMA ReadIsOwn ==
  ASSUME ObjectsRight, NEW key \in ObjectKeys, NEW tenant \in ObjectTenants
  PROVE  LET path == ResolveKey(key, tenant) IN
         {Stored(memData, path), Stored(bucket, path)} \subseteq {Absent} \cup given[tenant] \cup given[Nobody]
<1> DEFINE path == ResolveKey(key, tenant)
<1>1. path \in DOMAIN memData => memData[path] \in given[tenant] \cup given[Nobody]
  BY OwnPath DEF ObjectsRight, IsDescribed
<1>2. path \in DOMAIN bucket => bucket[path] \in given[tenant] \cup given[Nobody]
  BY OwnPath DEF ObjectsRight, Came
<1>3. QED
  BY <1>1, <1>2 DEF Stored

LEMMA LookAtObjectsKeeps ==
  ObjectsRight /\ UNCHANGED <<memData, memMeta, bucket, unsure, given>> => ObjectsRight'
BY DEF ObjectsRight, IsDescribed, SameObject

LEMMA GetObjectKeeps == ObjectInv /\ get_object => ObjectInv'
<1> SUFFICES ASSUME ObjectInv, NEW key \in ObjectKeys, NEW tenant \in Callers, NEW failed \in BOOLEAN,
                    NEW path, path = ResolveKey(key, tenant),
                    objectAnswer' = [op |-> "get", tenant |-> tenant, key |-> key, mem |-> {Stored(memData, path)},
                                     s3 |-> IF failed THEN {"error"} ELSE {Stored(bucket, path)}],
                    UNCHANGED <<memData, memMeta, bucket, unsure, given>>
             PROVE  ObjectInv'
  BY DEF get_object, ObjectCall, ResolvePath
<1>1. ObjectsRight /\ ObjectsRight' /\ path \in Paths
  BY LookAtObjectsKeeps DEF ObjectInv, Paths
<1>2. TenantsApart'
  <2>1. CASE tenant = Nobody
    BY <2>1 DEF TenantsApart
  <2>2. CASE tenant \in ObjectTenants
    <3>1. {Stored(memData, path), Stored(bucket, path)} \subseteq {Absent} \cup given[tenant] \cup given[Nobody]
      BY <1>1, <2>2, ReadIsOwn
    <3>2. QED
      BY <3>1 DEF TenantsApart
  <2>3. QED
    BY <2>1, <2>2 DEF Callers
<1>3. ObjectAnswersAlike'
  <2>1. path \notin unsure => Stored(memData, path) = Stored(bucket, path)
    BY <1>1 DEF ObjectsRight, SameObject, Stored
  <2>2. QED
    BY <2>1 DEF ObjectAnswersAlike
<1>4. QED
  BY <1>1, <1>2, <1>3 DEF ObjectInv

LEMMA ObjectExistsKeeps == ObjectInv /\ object_exists => ObjectInv'
<1> SUFFICES ASSUME ObjectInv, NEW key \in ObjectKeys, NEW tenant \in Callers, NEW refused \in BOOLEAN,
                    NEW path, path = ResolveKey(key, tenant),
                    objectAnswer' = [op |-> "exists", tenant |-> tenant, key |-> key,
                                     mem |-> Said(path \in DOMAIN memData),
                                     s3 |-> Said(path \in DOMAIN bucket /\ ~refused)],
                    UNCHANGED <<memData, memMeta, bucket, unsure, given>>
             PROVE  ObjectInv'
  BY DEF object_exists, ObjectCall, ResolvePath
<1>1. ObjectsRight /\ ObjectsRight' /\ path \in Paths
  BY LookAtObjectsKeeps DEF ObjectInv, Paths
<1>2. TenantsApart'
  BY DEF TenantsApart
<1>3. path \notin unsure => (path \in DOMAIN memData <=> path \in DOMAIN bucket)
  BY <1>1 DEF ObjectsRight, SameObject
<1>4. ObjectAnswersAlike'
  BY <1>3 DEF ObjectAnswersAlike, Said
<1>5. QED
  BY <1>1, <1>2, <1>4 DEF ObjectInv

\* While nothing was put without a tenant, a tenant's listing in the service has its own
\* objects, and names them as the memory store does.
LEMMA ListedAlike ==
  ASSUME ObjectsRight, unsure = {}, given[Nobody] = {}, NEW prefix \in ListPrefixes, NEW tenant \in ObjectTenants,
         \A path \in DOMAIN bucket : "&" \notin Elements(path)
  PROVE  {Escaped(Bare(path, tenant)) : path \in S3Matching(prefix, tenant)}
           = {Clean(key) : key \in MemListed(prefix, tenant)}
<1> DEFINE front == ResolveKey(prefix, tenant)
           matching == S3Matching(prefix, tenant)
<1>1. DOMAIN bucket = DOMAIN memData
  <2>1. DOMAIN bucket \subseteq Paths /\ DOMAIN memData \subseteq Paths
    BY DEF ObjectsRight, Came, IsDescribed, Paths
  <2>2. QED
    BY <2>1 DEF ObjectsRight, SameObject
<1>2. ASSUME NEW path \in DOMAIN memData
      PROVE  /\ memMeta[path].tenant \in ObjectTenants /\ memMeta[path].key \in ObjectKeys
             /\ path = ResolveKey(memMeta[path].key, memMeta[path].tenant)
  BY DEF ObjectsRight, IsDescribed, Callers
<1>3. ASSUME NEW path \in DOMAIN memData, IsPrefix(front, path)
      PROVE  memMeta[path].tenant = tenant
  <2>1. path \in Seq(PathCharacters) /\ path[1] = memMeta[path].tenant /\ Len(path) \in Nat /\ Len(path) >= 2
    <3> DEFINE key == memMeta[path].key
    <3>0. key \in Seq(KeyCharacters)
      BY <1>2, KeysAreSequences
    <3>1. /\ path \in Seq(PathCharacters) /\ Len(path) = Len(Clean(key)) + 2 /\ path[1] = memMeta[path].tenant
          /\ Clean(key) \in Seq(KeyCharacters)
      BY <1>2, <3>0, TenantPath, CleanIsKey
    <3>2. QED
      BY <3>1, LenProperties
  <2>2. front \in Seq(PathCharacters) /\ front[1] = tenant /\ Len(front) \in Nat /\ Len(front) >= 2
    <3>1. /\ front \in Seq(PathCharacters) /\ Len(front) = Len(Clean(prefix)) + 2 /\ front[1] = tenant
          /\ Clean(prefix) \in Seq(KeyCharacters)
      BY KeysAreSequences, TenantPath, CleanIsKey
    <3>2. QED
      BY <3>1, LenProperties
  <2> HIDE DEF front
  <2>3. Len(front) <= Len(path) /\ SubSeq(front, 1, Len(front)) = SubSeq(path, 1, Len(front))
    BY <1>3 DEF IsPrefix
  <2>4. SubSeq(front, 1, Len(front))[1] = front[1] /\ SubSeq(path, 1, Len(front))[1] = path[1]
    BY <2>1, <2>2, <2>3
  <2>5. QED
    BY <2>1, <2>2, <2>3, <2>4
<1>4. ASSUME NEW path \in matching
      PROVE  Escaped(Bare(path, tenant)) = Clean(memMeta[path].key)
  <2>1. path \in DOMAIN memData /\ memMeta[path].tenant = tenant /\ memMeta[path].key \in ObjectKeys
        /\ path = ResolveKey(memMeta[path].key, tenant) /\ "&" \notin Elements(path)
    BY <1>1, <1>2, <1>3 DEF S3Matching, ResolvePath
  <2> DEFINE bare == Clean(memMeta[path].key)
  <2>2. /\ path \in Seq(PathCharacters) /\ Len(path) = Len(bare) + 2 /\ SubSeq(path, 3, Len(path)) = bare
        /\ bare \in Seq(KeyCharacters)
    <3>1. memMeta[path].key \in Seq(KeyCharacters)
      BY <2>1, KeysAreSequences
    <3>2. QED
      BY <2>1, <3>1, TenantPath, CleanIsKey
  <2>3. Len(bare) \in Nat /\ DOMAIN bare = 1..Len(bare) /\ bare = [i \in 1..Len(bare) |-> bare[i]]
    BY <2>2, LenProperties
  <2>4. Bare(path, tenant) = bare
    BY <2>2, ObjectAssumption DEF Bare
  <2> HIDE DEF bare
  <2>5. ASSUME NEW i \in 1..Len(bare) PROVE bare[i] # "&"
    <3>1. /\ 3 \in Int /\ Len(path) \in Int /\ \A j \in 3..Len(path) : path[j] \in PathCharacters
          /\ DOMAIN path = 1..Len(path)
      BY <2>2, <2>3, LenProperties
    <3>2. \A j \in 1..(Len(path) - 3 + 1) : SubSeq(path, 3, Len(path))[j] = path[3 + j - 1]
      BY <3>1, SubSeqProperties
    <3>3. i \in 1..(Len(path) - 3 + 1) /\ 3 + i - 1 \in DOMAIN path
      BY <2>2, <2>3, <3>1
    <3>4. bare[i] = path[3 + i - 1]
      BY <2>2, <3>2, <3>3
    <3>5. QED
      BY <2>1, <3>3, <3>4 DEF Elements
  <2>6. Escaped(bare) = [i \in 1..Len(bare) |-> bare[i]]
    BY <2>3, <2>5 DEF Escaped
  <2>7. QED
    BY <2>3, <2>4, <2>6 DEF bare
<1>5. MemListed(prefix, tenant) = {memMeta[path].key : path \in matching}
  <2>1. matching = {p \in DOMAIN memMeta : (tenant = Nobody \/ memMeta[p].tenant = tenant) /\ IsPrefix(front, p)}
    BY <1>1, <1>3 DEF S3Matching, ResolvePath, ObjectsRight
  <2> HIDE DEF matching
  <2>2. QED
    BY <2>1 DEF MemListed
<1>6. QED
  <2> HIDE DEF matching
  <2>1. {Escaped(Bare(path, tenant)) : path \in matching} = {Clean(memMeta[path].key) : path \in matching}
    BY <1>4
  <2>2. QED
    BY <1>5, <2>1 DEF matching

LEMMA AnsweredListingKeeps ==
  ASSUME ObjectInv, NEW prefix \in ListPrefixes, NEW tenant \in Callers,
         NEW listed \in S3Listings(prefix, tenant),
         objectAnswer' = [op |-> "list", tenant |-> tenant, key |-> prefix,
                          mem |-> MemListed(prefix, tenant), s3 |-> listed],
         UNCHANGED <<memData, memMeta, bucket, unsure, given>>
  PROVE  ObjectInv'
<1>1. ObjectsRight /\ ObjectsRight'
  BY LookAtObjectsKeeps DEF ObjectInv
<1>2. TenantsApart'
  BY DEF TenantsApart
<1>3. ASSUME tenant # Nobody, given[Nobody] = {}, \A path \in DOMAIN bucket : "&" \notin Elements(path),
             unsure = {}, Cardinality(S3Matching(prefix, tenant)) <= ListLimit
      PROVE  listed = {Clean(key) : key \in MemListed(prefix, tenant)}
  <2> DEFINE matching == S3Matching(prefix, tenant)
  <2>1. IsFiniteSet(matching) /\ Cardinality(matching) \in Nat
    <3>1. matching \in SUBSET DOMAIN bucket
      BY DEF S3Matching
    <3>2. QED
      BY <1>1, <3>1, FS_Subset, FS_CardinalityType DEF ObjectsRight
  <2>2. Least(ListLimit, Cardinality(matching)) = Cardinality(matching)
    BY <1>3, <2>1, ObjectAssumption DEF Least
  <2>3. PICK page \in SUBSET matching :
          Cardinality(page) = Cardinality(matching) /\ listed = {Escaped(Bare(path, tenant)) : path \in page}
    BY <2>2 DEF S3Listings
  <2>4. page = matching
    <3> HIDE DEF matching
    <3>1. QED
      BY <2>1, <2>3, FS_Subset
  <2>5. tenant \in ObjectTenants
    BY <1>3 DEF Callers
  <2>6. QED
    BY <1>1, <1>3, <2>3, <2>4, <2>5, ListedAlike
<1>4. S3Matching(prefix, tenant)' = S3Matching(prefix, tenant)
  BY DEF S3Matching
<1>5. ObjectAnswersAlike'
  BY <1>3, <1>4 DEF ObjectAnswersAlike
<1>6. QED
  BY <1>1, <1>2, <1>5 DEF ObjectInv

LEMMA ListObjectsKeeps == ObjectInv /\ list_objects => ObjectInv'
<1> SUFFICES ASSUME ObjectInv, NEW prefix \in ListPrefixes, NEW tenant \in Callers,
                    \/ \E listed \in S3Listings(prefix, tenant) :
                         ObjectCall("list", tenant, prefix, MemListed(prefix, tenant), listed)
                    \/ ObjectCall("list failed", Nobody, <<>>, {}, {}),
                    UNCHANGED <<memData, memMeta, bucket, unsure, given>>
             PROVE  ObjectInv'
  BY DEF list_objects
<1>1. CASE ObjectCall("list failed", Nobody, <<>>, {}, {})
  <2>1. objectAnswer'.op = "list failed"
    BY <1>1 DEF ObjectCall
  <2>2. TenantsApart' /\ ObjectAnswersAlike'
    BY <2>1 DEF TenantsApart, ObjectAnswersAlike
  <2>3. QED
    BY <2>2, LookAtObjectsKeeps DEF ObjectInv
<1>2. CASE \E listed \in S3Listings(prefix, tenant) :
             ObjectCall("list", tenant, prefix, MemListed(prefix, tenant), listed)
  <2>1. PICK listed \in S3Listings(prefix, tenant) :
          objectAnswer' = [op |-> "list", tenant |-> tenant, key |-> prefix,
                           mem |-> MemListed(prefix, tenant), s3 |-> listed]
    BY <1>2 DEF ObjectCall
  <2>2. QED
    BY <2>1, AnsweredListingKeeps
<1>3. QED
  BY <1>1, <1>2

LEMMA ObjectStepKeeps == ObjectInv /\ [ObjectNext]_objectVars => ObjectInv'
<1>1. ASSUME ObjectInv, UNCHANGED objectVars PROVE ObjectInv'
  BY <1>1, LookAtObjectsKeeps DEF ObjectInv, objectVars, TenantsApart, ObjectAnswersAlike, S3Matching
<1>2. QED
  BY <1>1, PutObjectKeeps, DeleteObjectKeeps, GetObjectKeeps, ObjectExistsKeeps, ListObjectsKeeps DEF ObjectNext

LEMMA ObjectInvGives == ObjectInv => ObjectTypeOK /\ ObjectsAlike /\ TenantsApart /\ ObjectAnswersAlike
<1> SUFFICES ASSUME ObjectInv PROVE ObjectTypeOK /\ ObjectsAlike
  BY DEF ObjectInv
<1>1. ObjectsAlike
  BY DEF ObjectInv, ObjectsRight, SameObject, ObjectsAlike, Stored
<1>2. ObjectTypeOK
  BY DEF ObjectInv, ObjectsRight, ObjectTypeOK, Came, IsDescribed, Paths
<1>3. QED
  BY <1>1, <1>2

\* Whatever is put, deleted, read and listed, by whomever, and however the service fails,
\* both adapters keep the same objects but for those in doubt, a tenant reads what it or
\* nobody in particular has put, and both answer alike (storage/memory.py, storage/s3.py).
THEOREM ObjectsStaySound == ObjectSpec => [](ObjectTypeOK /\ ObjectsAlike /\ TenantsApart /\ ObjectAnswersAlike)
<1>1. ObjectSpec => []ObjectInv
  BY ObjectsStart, ObjectStepKeeps, PTL DEF ObjectSpec
<1>2. QED
  BY <1>1, ObjectInvGives, PTL

------------------------------------------------------------------------------
(* The vector stores. *)

VecDocs  == Elements(StoreDocs)
VecTexts == DOMAIN Similar
Chunk    == [doc : VecDocs, ver : Nat, idx : Nat, text : VecTexts, gone : Nat]
Keys     == VecDocs \X Nat \X Nat
VecRow   == [row : Nat, text : VecTexts, gone : Nat]

\* No two chunks of s have the same id.
Single(s) == \A i, j \in DOMAIN s : Id(s[i]) = Id(s[j]) => i = j

ChunkIds(s) == {Id(s[i]) : i \in DOMAIN s}

\* The table t holds the chunks of s, and its rows are in their order.
Mirror(s, t) ==
  /\ s \in Seq(Chunk) /\ Single(s) /\ DOMAIN t = ChunkIds(s)
  /\ \A i \in DOMAIN s : LET r == t[Id(s[i])] IN
       r \in VecRow /\ r.text = s[i].text /\ r.gone = s[i].gone
  /\ \A i, j \in DOMAIN s : i < j => t[Id(s[i])].row < t[Id(s[j])].row

LEMMA ChunkIs ==
  ASSUME NEW s \in Seq(Chunk), NEW i \in DOMAIN s
  PROVE  /\ s[i] \in Chunk /\ Id(s[i]) \in Keys /\ i \in Nat /\ i \in 1..Len(s)
         /\ Id(s[i]) = <<s[i].doc, s[i].ver, s[i].idx>>
<1>1. s[i] \in Chunk /\ i \in 1..Len(s) /\ Len(s) \in Nat
  BY LenProperties, ElementOfSeq
<1>2. QED
  BY <1>1 DEF Id, Keys, Chunk

\* Reading the rows in their order gives the chunks.
LEMMA RowsAre ==
  ASSUME NEW s, NEW t, Mirror(s, t)
  PROVE  Rows(t) = s
<1> DEFINE n == Len(s)
           upTo(id) == {j \in DOMAIN t : t[j].row <= t[id].row}
           nth(k) == CHOOSE id \in DOMAIN t : Cardinality(upTo(id)) = k
<1>1. s \in Seq(Chunk) /\ n \in Nat /\ DOMAIN s = 1..n
  BY LenProperties DEF Mirror
<1>2. \A i \in 1..n : s[i] \in Chunk /\ Id(s[i]) = <<s[i].doc, s[i].ver, s[i].idx>>
  BY <1>1, ChunkIs
<1>3. s = [k \in 1..n |-> s[k]]
  BY <1>1, SeqDef
<1> HIDE DEF n
<1>4. /\ DOMAIN t = {Id(s[i]) : i \in 1..n}
      /\ \A i, j \in 1..n : Id(s[i]) = Id(s[j]) => i = j
      /\ \A i \in 1..n : /\ t[Id(s[i])].row \in Nat
                         /\ t[Id(s[i])].text = s[i].text /\ t[Id(s[i])].gone = s[i].gone
      /\ \A i, j \in 1..n : i < j => t[Id(s[i])].row < t[Id(s[j])].row
  BY <1>1 DEF Mirror, ChunkIds, Single, VecRow
<1>5. ASSUME NEW k \in 1..n
      PROVE  IsFiniteSet(upTo(Id(s[k]))) /\ Cardinality(upTo(Id(s[k]))) = k
  <2> DEFINE f == [i \in 1..k |-> Id(s[i])]
             S == upTo(Id(s[k]))
  <2>1. \A i \in 1..n : t[Id(s[i])].row <= t[Id(s[k])].row <=> i <= k
    <3>1. ASSUME NEW i \in 1..n PROVE t[Id(s[i])].row <= t[Id(s[k])].row <=> i <= k
      <4>1. /\ t[Id(s[i])].row \in Nat /\ t[Id(s[k])].row \in Nat
            /\ i < k => t[Id(s[i])].row < t[Id(s[k])].row
            /\ k < i => t[Id(s[k])].row < t[Id(s[i])].row
        BY <1>4
      <4>2. QED
        BY <1>1, <4>1
    <3>2. QED
      BY <3>1
  <2>2. S = {Id(s[i]) : i \in 1..k}
    BY <1>1, <1>4, <2>1
  <2> HIDE DEF S
  <2>3. f \in [1..k -> S]
    BY <2>2
  <2>4. f \in Bijection(1..k, S)
    BY <1>1, <1>4, <2>2, <2>3 DEF Bijection, Injection, Surjection, IsInjective
  <2>5. IsFiniteSet(1..k) /\ Cardinality(1..k) = k
    BY <1>1, FS_Interval
  <2>6. QED
    BY <2>4, <2>5, FS_Bijection DEF ExistsBijection, S
<1>6. IsFiniteSet(DOMAIN t) /\ Cardinality(DOMAIN t) = n
  <2> DEFINE f == [i \in 1..n |-> Id(s[i])]
  <2>1. f \in Bijection(1..n, DOMAIN t)
    BY <1>1, <1>4 DEF Bijection, Injection, Surjection, IsInjective
  <2>2. IsFiniteSet(1..n) /\ Cardinality(1..n) = n
    BY <1>1, FS_Interval
  <2>3. QED
    BY <2>1, <2>2, FS_Bijection DEF ExistsBijection
<1>7. ASSUME NEW k \in 1..n PROVE nth(k) = Id(s[k])
  <2>1. Id(s[k]) \in DOMAIN t /\ Cardinality(upTo(Id(s[k]))) = k
    BY <1>4, <1>5
  <2>2. \A id \in DOMAIN t : Cardinality(upTo(id)) = k => id = Id(s[k])
    <3>1. ASSUME NEW id \in DOMAIN t, Cardinality(upTo(id)) = k PROVE id = Id(s[k])
      <4>1. PICK i \in 1..n : id = Id(s[i])
        BY <1>4
      <4>2. Cardinality(upTo(Id(s[i]))) = i
        BY <1>5
      <4>3. i = k
        BY <3>1, <4>1, <4>2
      <4>4. QED
        BY <4>1, <4>3
    <3>2. QED
      BY <3>1
  <2> HIDE DEF upTo
  <2>3. QED
    BY <2>1, <2>2
<1>8. Rows(t) = [k \in 1..n |->
        [doc |-> nth(k)[1], ver |-> nth(k)[2], idx |-> nth(k)[3],
         text |-> t[nth(k)].text, gone |-> t[nth(k)].gone]]
  BY <1>6 DEF Rows
<1> HIDE DEF nth
<1>9. ASSUME NEW k \in 1..n
      PROVE  [doc |-> nth(k)[1], ver |-> nth(k)[2], idx |-> nth(k)[3],
              text |-> t[nth(k)].text, gone |-> t[nth(k)].gone] = s[k]
  BY <1>2, <1>4, <1>7 DEF Chunk
<1>10. QED
  BY <1>3, <1>8, <1>9

\* A tombstone is set on the same chunks.
LEMMA SoftDeleteMirrors ==
  ASSUME NEW s, NEW t, Mirror(s, t), NEW d \in VecDocs, storeClock \in Nat
  PROVE  Mirror(MemSoftDelete(s, d), SqlSoftDelete(t, d))
<1>1. s \in Seq(Chunk) /\ DOMAIN s = 1..Len(s) /\ Len(s) \in Nat
  BY LenProperties DEF Mirror
<1>2. \A i \in DOMAIN s : s[i] \in Chunk /\ Id(s[i]) = <<s[i].doc, s[i].ver, s[i].idx>>
  BY <1>1, ChunkIs
<1> DEFINE s1 == MemSoftDelete(s, d)
           t1 == SqlSoftDelete(t, d)
<1>3. DOMAIN s1 = DOMAIN s /\ DOMAIN t1 = DOMAIN t
  BY DEF MemSoftDelete, SqlSoftDelete
<1>4. ASSUME NEW i \in DOMAIN s
      PROVE  /\ s1[i] \in Chunk /\ Id(s1[i]) = Id(s[i])
             /\ t1[Id(s[i])] \in VecRow /\ t1[Id(s[i])].row = t[Id(s[i])].row
             /\ t1[Id(s[i])].text = s1[i].text /\ t1[Id(s[i])].gone = s1[i].gone
  <2>1. /\ Id(s[i]) \in DOMAIN t /\ t[Id(s[i])] \in VecRow /\ Id(s[i])[1] = s[i].doc
        /\ t[Id(s[i])].text = s[i].text /\ t[Id(s[i])].gone = s[i].gone /\ s[i] \in Chunk
    BY <1>2 DEF Mirror, ChunkIds
  <2>2. s1[i] = IF s[i].doc = d /\ s[i].gone = 0 THEN [s[i] EXCEPT !.gone = storeClock] ELSE s[i]
    BY DEF MemSoftDelete
  <2>3. t1[Id(s[i])] = IF s[i].doc = d /\ s[i].gone = 0
                       THEN [t[Id(s[i])] EXCEPT !.gone = storeClock] ELSE t[Id(s[i])]
    BY <2>1 DEF SqlSoftDelete
  <2>4. s1[i] \in Chunk /\ Id(s1[i]) = Id(s[i])
    BY <2>1, <2>2 DEF Chunk, Id
  <2> HIDE DEF s1, t1
  <2>5. QED
    BY <2>1, <2>2, <2>3, <2>4 DEF VecRow, Chunk
<1>5. s1 \in Seq(Chunk)
  <2>1. s1 = [i \in 1..Len(s) |-> s1[i]]
    BY <1>1 DEF MemSoftDelete
  <2> HIDE DEF s1
  <2>2. s1 \in [1..Len(s) -> Chunk]
    BY <1>1, <1>4, <2>1
  <2>3. QED
    BY <1>1, <2>2, SeqDef
<1> HIDE DEF s1, t1
<1>6. ChunkIds(s1) = ChunkIds(s) /\ Single(s1)
  BY <1>3, <1>4 DEF ChunkIds, Single, Mirror
<1>7. QED
  BY <1>3, <1>4, <1>5, <1>6 DEF Mirror, s1, t1

\* What is left of s is what is left of t.
LEMMA OnlyMirrors ==
  ASSUME NEW s, NEW t, Mirror(s, t), NEW S,
         NEW u, DOMAIN u = {Id(c) : c \in Elements(s) \cap S}, \A id \in DOMAIN u : u[id] = t[id]
  PROVE  Mirror(Only(s, S), u)
<1> DEFINE o == Only(s, S)
<1>1. s \in Seq(Chunk) /\ DOMAIN s = 1..Len(s) /\ Len(s) \in Nat
  BY LenProperties DEF Mirror
<1>2. /\ o \in Seq(Chunk) /\ Elements(o) = Elements(s) \cap S
      /\ \E p : /\ p \in [1..Len(o) -> DOMAIN s]
                /\ \A i, j \in 1..Len(o) : i < j => p[i] < p[j]
                /\ \A k \in 1..Len(o) : o[k] = s[p[k]]
  <2>1. /\ o \in Seq(Chunk) /\ Len(o) <= Len(s) /\ Elements(o) = Elements(s) \cap S
        /\ \E p : /\ p \in [1..Len(o) -> DOMAIN s]
                  /\ \A i, j \in 1..Len(o) : i < j => p[i] < p[j]
                  /\ \A k \in 1..Len(o) : o[k] = s[p[k]]
                  /\ \A n \in DOMAIN s : s[n] \in S => \E k \in 1..Len(o) : p[k] = n
    <3>1. s \in Seq(Chunk)
      BY <1>1
    <3>2. QED
      BY ONLY <3>1, OnlyFacts, SMTT(30)
  <2> HIDE DEF o
  <2>2. QED
    BY <2>1
<1> HIDE DEF o
<1>3. PICK p : /\ p \in [1..Len(o) -> DOMAIN s]
               /\ \A i, j \in 1..Len(o) : i < j => p[i] < p[j]
               /\ \A k \in 1..Len(o) : o[k] = s[p[k]]
  BY <1>2
<1>4. DOMAIN o = 1..Len(o) /\ Len(o) \in Nat
  BY <1>2, LenProperties
<1>5. DOMAIN u = ChunkIds(o)
  BY <1>2 DEF ChunkIds, Elements
<1>6. Single(o)
  <2>1. ASSUME NEW i \in DOMAIN o, NEW j \in DOMAIN o, Id(o[i]) = Id(o[j]) PROVE i = j
    <3>1. p[i] \in DOMAIN s /\ p[j] \in DOMAIN s /\ o[i] = s[p[i]] /\ o[j] = s[p[j]]
      BY <1>3, <1>4
    <3>2. p[i] = p[j]
      BY <2>1, <3>1 DEF Mirror, Single
    <3>3. ~ (i < j) /\ ~ (j < i)
      BY <1>1, <1>3, <1>4, <3>1, <3>2
    <3>4. QED
      BY <1>4, <3>3
  <2>2. QED
    BY <2>1 DEF Single
<1>7. ASSUME NEW i \in DOMAIN o
      PROVE  /\ p[i] \in DOMAIN s /\ o[i] = s[p[i]] /\ u[Id(o[i])] = t[Id(s[p[i]])]
             /\ u[Id(o[i])] \in VecRow /\ u[Id(o[i])].text = o[i].text /\ u[Id(o[i])].gone = o[i].gone
  <2>1. /\ p[i] \in DOMAIN s /\ o[i] = s[p[i]] /\ u[Id(o[i])] = t[Id(s[p[i]])]
    BY <1>3, <1>4, <1>5 DEF ChunkIds
  <2>2. QED
    BY <2>1 DEF Mirror
<1>8. ASSUME NEW i \in DOMAIN o, NEW j \in DOMAIN o, i < j PROVE u[Id(o[i])].row < u[Id(o[j])].row
  <2>1. p[i] < p[j]
    BY <1>3, <1>4, <1>8
  <2>2. t[Id(s[p[i]])].row < t[Id(s[p[j]])].row
    BY <1>7, <2>1 DEF Mirror
  <2>3. QED
    BY <1>7, <2>2
<1>9. \A i \in DOMAIN o : LET r == u[Id(o[i])] IN
        r \in VecRow /\ r.text = o[i].text /\ r.gone = o[i].gone
  BY <1>7
<1>10. \A i, j \in DOMAIN o : i < j => u[Id(o[i])].row < u[Id(o[j])].row
  BY <1>8
<1>11. o \in Seq(Chunk) /\ Single(o) /\ DOMAIN u = ChunkIds(o)
  BY <1>2, <1>5, <1>6
<1>12. Mirror(o, u)
  BY <1>9, <1>10, <1>11 DEF Mirror
<1>13. QED
  BY <1>12 DEF o

LEMMA DeleteMirrors ==
  ASSUME NEW s, NEW t, Mirror(s, t), NEW id
  PROVE  Mirror(MemDelete(s, id), SqlDelete(t, id))
<1>1. DOMAIN t = {Id(c) : c \in Elements(s)}
  BY DEF Mirror, ChunkIds, Elements
<1> DEFINE S == {c \in Elements(s) : Id(c) # id}
           u == SqlDelete(t, id)
<1>2. DOMAIN u = DOMAIN t \ {id} /\ \A j \in DOMAIN u : u[j] = t[j]
  BY DEF SqlDelete
<1> HIDE DEF u
<1>3. DOMAIN u = {Id(c) : c \in Elements(s) \cap S}
  BY <1>1, <1>2
<1>4. MemDelete(s, id) = Only(s, S)
  BY DEF MemDelete
<1> HIDE DEF S
<1>5. Mirror(Only(s, S), u)
  BY <1>2, <1>3, OnlyMirrors
<1>6. QED
  BY <1>4, <1>5 DEF u

LEMMA VacuumMirrors ==
  ASSUME NEW s, NEW t, Mirror(s, t), storeClock \in Nat, NEW age \in Nat
  PROVE  Mirror(MemVacuum(s, age), SqlVacuum(t, age))
<1> DEFINE S == {c \in Elements(s) : c.gone = 0 \/ storeClock - c.gone < age}
           u == SqlVacuum(t, age)
<1>1. DOMAIN t = {Id(c) : c \in Elements(s)}
  BY DEF Mirror, ChunkIds, Elements
<1>2. /\ DOMAIN u = {id \in DOMAIN t : ~ (t[id].gone # 0 /\ storeClock - t[id].gone >= age)}
      /\ \A id \in DOMAIN u : u[id] = t[id]
  BY DEF SqlVacuum
<1>3. ASSUME NEW c \in Elements(s) PROVE t[Id(c)].gone = c.gone /\ c.gone \in Nat
  <2>1. PICK i \in DOMAIN s : c = s[i]
    BY DEF Elements
  <2>2. c \in Chunk
    BY <2>1, ChunkIs DEF Mirror
  <2>3. QED
    BY <2>1, <2>2 DEF Mirror, Chunk
<1> HIDE DEF u
<1>4. \A c \in Elements(s) : c \in S <=> ~ (t[Id(c)].gone # 0 /\ storeClock - t[Id(c)].gone >= age)
  BY <1>3
<1>5. DOMAIN u = {Id(c) : c \in Elements(s) \cap S}
  BY <1>1, <1>2, <1>4
<1>6. MemVacuum(s, age) = Only(s, S)
  BY DEF MemVacuum
<1> HIDE DEF S
<1>7. Mirror(Only(s, S), u)
  BY <1>2, <1>5, OnlyMirrors
<1>8. QED
  BY <1>6, <1>7 DEF u

\* A batch that is put: chunks of one document and version, in order.
IsBatch(new, d) ==
  /\ new \in Seq(Chunk) /\ Single(new)
  /\ \A i \in DOMAIN new : new[i].doc = d /\ new[i].gone = 0

\* What is put of new replaces what has its id in s, and the rest, at the places p of new,
\* comes to the end.
IsPut(put, p, n, s, new) ==
  /\ put \in Seq(Chunk) /\ n \in Nat /\ Len(put) = Len(s) + n /\ p \in [1..n -> DOMAIN new]
  /\ \A i \in DOMAIN s : Id(put[i]) = Id(s[i])
  /\ \A i \in DOMAIN s : (\A c \in Elements(new) : Id(c) # Id(s[i])) => put[i] = s[i]
  /\ \A i \in DOMAIN s : \A c \in Elements(new) : Id(c) = Id(s[i]) => put[i] = c
  /\ \A k \in 1..n : put[Len(s) + k] = new[p[k]] /\ Id(new[p[k]]) \notin ChunkIds(s)
  /\ \A j, k \in 1..n : j < k => p[j] < p[k]
  /\ \A i \in DOMAIN new : Id(new[i]) \notin ChunkIds(s) => \E k \in 1..n : p[k] = i

LEMMA PutIs ==
  ASSUME NEW s \in Seq(Chunk), NEW new, NEW d \in VecDocs, IsBatch(new, d)
  PROVE  \E p, n : IsPut(MemPut(s, new), p, n, s, new)
<1> DEFINE there == {Id(c) : c \in Elements(s)}
           at(i) == {c \in Elements(new) : Id(c) = Id(s[i])}
           S == {c \in Elements(new) : Id(c) \notin there}
           a == [i \in DOMAIN s |-> IF at(i) = {} THEN s[i] ELSE CHOOSE c \in at(i) : TRUE]
           b == Only(new, S)
<1>1. DOMAIN s = 1..Len(s) /\ Len(s) \in Nat /\ there = ChunkIds(s)
  BY LenProperties DEF ChunkIds, Elements
<1>2. MemPut(s, new) = a \o b
  BY DEF MemPut
<1>3. new \in Seq(Chunk) /\ Single(new)
  BY DEF IsBatch
<1>4. \A c \in Elements(new) : c \in Chunk
  BY <1>3, ElementOfSeq DEF Elements
<1>5. \A c, e \in Elements(new) : Id(c) = Id(e) => c = e
  BY <1>3 DEF Single, Elements
<1>6. ASSUME NEW i \in DOMAIN s
      PROVE  /\ a[i] \in Chunk /\ Id(a[i]) = Id(s[i]) /\ (at(i) = {} => a[i] = s[i])
             /\ \A c \in at(i) : a[i] = c
  <2>1. s[i] \in Chunk
    BY ElementOfSeq, <1>1
  <2>2. CASE at(i) = {}
    BY <2>1, <2>2
  <2>3. CASE at(i) # {}
    <3>1. a[i] \in at(i)
      BY <2>3
    <3>2. QED
      BY <1>4, <1>5, <3>1
  <2>4. QED
    BY <2>2, <2>3
<1>7. a \in Seq(Chunk) /\ Len(a) = Len(s)
  <2>1. a = [i \in 1..Len(s) |-> a[i]]
    BY <1>1
  <2>2. \A i \in 1..Len(s) : a[i] \in Chunk
    BY <1>1, <1>6
  <2> HIDE DEF a
  <2>3. a \in [1..Len(s) -> Chunk]
    BY <2>1, <2>2
  <2>4. a \in Seq(Chunk)
    BY <1>1, <2>3, SeqDef
  <2>5. QED
    BY <1>1, <2>3, <2>4, LenProperties
<1>8. /\ b \in Seq(Chunk) /\ Elements(b) = Elements(new) \cap S
      /\ \E p : /\ p \in [1..Len(b) -> DOMAIN new]
                /\ \A i, j \in 1..Len(b) : i < j => p[i] < p[j]
                /\ \A k \in 1..Len(b) : b[k] = new[p[k]]
                /\ \A n \in DOMAIN new : new[n] \in S => \E k \in 1..Len(b) : p[k] = n
  <2> HIDE DEF S
  <2>1. QED
    BY <1>3, OnlyFacts
<1>9. \A i \in DOMAIN new : new[i] \in S <=> Id(new[i]) \notin ChunkIds(s)
  BY <1>1 DEF Elements
<1>10. \A i \in DOMAIN s : /\ Id(a[i]) = Id(s[i]) /\ (at(i) = {} => a[i] = s[i])
                           /\ \A c \in at(i) : a[i] = c
  BY <1>6
<1> HIDE DEF a, b, S
<1>11. PICK p : /\ p \in [1..Len(b) -> DOMAIN new]
                /\ \A i, j \in 1..Len(b) : i < j => p[i] < p[j]
                /\ \A k \in 1..Len(b) : b[k] = new[p[k]]
                /\ \A n \in DOMAIN new : new[n] \in S => \E k \in 1..Len(b) : p[k] = n
  BY <1>8
<1>12. Len(b) \in Nat /\ DOMAIN b = 1..Len(b)
  BY <1>8, LenProperties
<1>13. /\ a \o b \in Seq(Chunk) /\ Len(a \o b) = Len(s) + Len(b)
       /\ \A i \in 1..(Len(s) + Len(b)) : (a \o b)[i] = IF i <= Len(s) THEN a[i] ELSE b[i - Len(s)]
  <2>1. a \in Seq(Chunk) /\ Len(a) = Len(s) /\ b \in Seq(Chunk)
    BY <1>7, <1>8
  <2>2. /\ a \o b \in Seq(Chunk) /\ Len(a \o b) = Len(a) + Len(b)
        /\ \A i \in 1..(Len(a) + Len(b)) : (a \o b)[i] = IF i <= Len(a) THEN a[i] ELSE b[i - Len(a)]
    BY <2>1, ConcatProperties
  <2>3. QED
    BY <2>1, <2>2
<1> DEFINE put == MemPut(s, new)
           m == Len(s)
           n == Len(b)
<1>14. \A i \in DOMAIN s : put[i] = a[i]
  <2>1. \A i \in DOMAIN s : i \in 1..(m + n) /\ i <= m
    <3> HIDE DEF m, n
    <3>1. m \in Nat /\ n \in Nat /\ DOMAIN s = 1..m
      BY <1>1, <1>12 DEF m, n
    <3>2. QED
      BY <3>1
  <2>2. QED
    BY <1>2, <1>13, <2>1
<1>15. \A k \in 1..n : put[m + k] = b[k]
  <2>1. \A k \in 1..n : m + k \in 1..(m + n) /\ ~ (m + k <= m) /\ (m + k) - m = k
    <3> HIDE DEF m, n
    <3>1. m \in Nat /\ n \in Nat
      BY <1>1, <1>12 DEF m, n
    <3>2. QED
      BY <3>1
  <2>2. QED
    BY <1>2, <1>13, <2>1
<1>16. /\ put \in Seq(Chunk) /\ Len(put) = Len(s) + n /\ n \in Nat
  BY <1>2, <1>12, <1>13
<1>17. \A k \in 1..n : put[m + k] = new[p[k]] /\ Id(new[p[k]]) \notin ChunkIds(s)
  <2>1. \A k \in 1..n : b[k] = new[p[k]] /\ b[k] \in S /\ p[k] \in DOMAIN new
    BY <1>8, <1>11, <1>12 DEF Elements
  <2>2. QED
    BY <1>9, <1>15, <2>1
<1>18. \A i \in DOMAIN new : Id(new[i]) \notin ChunkIds(s) => \E k \in 1..n : p[k] = i
  BY <1>9, <1>11
<1>19. /\ \A i \in DOMAIN s : Id(put[i]) = Id(s[i])
       /\ \A i \in DOMAIN s : (\A c \in Elements(new) : Id(c) # Id(s[i])) => put[i] = s[i]
       /\ \A i \in DOMAIN s : \A c \in Elements(new) : Id(c) = Id(s[i]) => put[i] = c
  BY <1>10, <1>14
<1> HIDE DEF put, n
<1>20. /\ put \in Seq(Chunk) /\ n \in Nat /\ Len(put) = Len(s) + n
       /\ p \in [1..n -> DOMAIN new] /\ \A j, k \in 1..n : j < k => p[j] < p[k]
  BY <1>11, <1>16 DEF n
<1>21. IsPut(put, p, n, s, new)
  BY <1>17, <1>18, <1>19, <1>20 DEF IsPut
<1>22. QED
  BY <1>21 DEF put

\* A batch is put into both in the same way.
LEMMA PutMirrors ==
  ASSUME NEW s, NEW t, Mirror(s, t), NEW d \in VecDocs, NEW new, IsBatch(new, d)
  PROVE  Mirror(MemPut(s, new), SqlPut(t, new))
<1> DEFINE put == MemPut(s, new)
           u == SqlPut(t, new)
           m == Len(s)
           top == LastRow(t)
<1>1. s \in Seq(Chunk) /\ DOMAIN s = 1..m /\ m \in Nat /\ Single(s) /\ DOMAIN t = ChunkIds(s)
  BY LenProperties DEF Mirror
<1>2. /\ new \in Seq(Chunk) /\ Single(new) /\ DOMAIN new = 1..Len(new) /\ Len(new) \in Nat
      /\ \A i \in DOMAIN new : new[i].gone = 0 /\ new[i] \in Chunk
  BY LenProperties, ElementOfSeq DEF IsBatch
<1>3. PICK p, n : IsPut(put, p, n, s, new)
  BY <1>1, PutIs
<1>4. IsFiniteSet(DOMAIN t)
  <2> DEFINE f == [i \in 1..m |-> Id(s[i])]
  <2>1. f \in Surjection(1..m, DOMAIN t)
    BY <1>1 DEF ChunkIds, Surjection
  <2>2. IsFiniteSet(1..m)
    BY <1>1, FS_Interval
  <2>3. QED
    BY <2>1, <2>2, FS_Surjection
<1>5. \A id \in DOMAIN t : t[id] \in VecRow
  BY <1>1 DEF Mirror, ChunkIds
<1>6. top \in Nat /\ \A id \in DOMAIN t : t[id].row \in Nat /\ t[id].row <= top
  <2> DEFINE rows == {t[id].row : id \in DOMAIN t}
  <2>1. IsFiniteSet(rows)
    <3> DEFINE f == [id \in DOMAIN t |-> t[id].row]
    <3>1. f \in Surjection(DOMAIN t, rows)
      BY DEF Surjection
    <3>2. QED
      BY <1>4, <3>1, FS_Surjection
  <2>2. rows \in SUBSET Nat
    BY <1>5 DEF VecRow
  <2>3. top = Largest(rows)
    BY DEF LastRow
  <2> HIDE DEF rows, top
  <2>4. top \in Nat /\ \A r \in rows : r <= top
    BY <2>1, <2>2, <2>3, LargestIs
  <2>5. QED
    BY <1>5, <2>4 DEF rows, VecRow
<1>7. DOMAIN u = DOMAIN t \cup ChunkIds(new)
  BY DEF SqlPut, Elements, ChunkIds
<1>8. \A id \in DOMAIN t : id \notin ChunkIds(new) => u[id] = t[id]
  BY DEF SqlPut, Elements, ChunkIds
<1>9. ASSUME NEW j \in DOMAIN new
      PROVE  u[Id(new[j])] = [row |-> IF Id(new[j]) \in DOMAIN t THEN t[Id(new[j])].row ELSE top + j,
                              text |-> new[j].text, gone |-> 0]
  <2>1. (CHOOSE i \in DOMAIN new : Id(new[i]) = Id(new[j])) = j
    BY <1>2 DEF Single
  <2>2. Id(new[j]) \in ChunkIds(new) /\ ChunkIds(new) = {Id(c) : c \in Elements(new)}
    BY DEF ChunkIds, Elements
  <2>3. QED
    BY <2>1, <2>2 DEF SqlPut
<1> HIDE DEF put, u, m, top
<1>10. /\ put \in Seq(Chunk) /\ n \in Nat /\ Len(put) = m + n /\ p \in [1..n -> DOMAIN new]
       /\ \A i \in DOMAIN s : Id(put[i]) = Id(s[i])
       /\ \A i \in DOMAIN s : (\A c \in Elements(new) : Id(c) # Id(s[i])) => put[i] = s[i]
       /\ \A i \in DOMAIN s : \A c \in Elements(new) : Id(c) = Id(s[i]) => put[i] = c
       /\ \A k \in 1..n : put[m + k] = new[p[k]] /\ Id(new[p[k]]) \notin ChunkIds(s)
       /\ \A j, k \in 1..n : j < k => p[j] < p[k]
       /\ \A i \in DOMAIN new : Id(new[i]) \notin ChunkIds(s) => \E k \in 1..n : p[k] = i
  BY <1>3 DEF IsPut, m
<1>11. DOMAIN put = 1..(m + n)
  BY <1>10, LenProperties
<1>12. ASSUME NEW i \in 1..m
       PROVE  LET r == u[Id(put[i])] IN
              r \in VecRow /\ r.row = t[Id(s[i])].row /\ r.text = put[i].text /\ r.gone = put[i].gone
  <2>1. i \in DOMAIN s /\ Id(put[i]) = Id(s[i]) /\ Id(s[i]) \in DOMAIN t
    BY <1>1, <1>10 DEF ChunkIds
  <2>2. /\ t[Id(s[i])] \in VecRow /\ t[Id(s[i])].text = s[i].text /\ t[Id(s[i])].gone = s[i].gone
    BY <2>1 DEF Mirror
  <2>3. CASE Id(s[i]) \in ChunkIds(new)
    <3>1. PICK j \in DOMAIN new : Id(s[i]) = Id(new[j])
      BY <2>3 DEF ChunkIds
    <3>2. put[i] = new[j]
      BY <1>10, <2>1, <3>1 DEF Elements
    <3>3. u[Id(s[i])] = [row |-> t[Id(s[i])].row, text |-> new[j].text, gone |-> 0]
      BY <1>9, <2>1, <3>1
    <3>4. QED
      BY <1>2, <2>1, <2>2, <3>2, <3>3 DEF VecRow, Chunk
  <2>4. CASE Id(s[i]) \notin ChunkIds(new)
    <3>1. put[i] = s[i]
      BY <1>10, <2>1, <2>4 DEF Elements, ChunkIds
    <3>2. u[Id(s[i])] = t[Id(s[i])]
      BY <1>8, <2>1, <2>4
    <3>3. QED
      BY <2>1, <2>2, <3>1, <3>2
  <2>5. QED
    BY <2>3, <2>4
<1>13. ASSUME NEW k \in 1..n
       PROVE  LET r == u[Id(put[m + k])] IN
              r \in VecRow /\ r.row = top + p[k] /\ r.text = put[m + k].text /\ r.gone = put[m + k].gone
  <2>1. p[k] \in DOMAIN new /\ put[m + k] = new[p[k]] /\ Id(new[p[k]]) \notin DOMAIN t
    BY <1>1, <1>10
  <2>2. u[Id(new[p[k]])] = [row |-> top + p[k], text |-> new[p[k]].text, gone |-> 0]
    BY <1>9, <2>1
  <2>3. new[p[k]] \in Chunk /\ new[p[k]].gone = 0 /\ p[k] \in Nat
    BY <1>2, <2>1
  <2>4. QED
    BY <1>6, <2>1, <2>2, <2>3 DEF VecRow, Chunk
<1>14. ASSUME NEW i \in DOMAIN put
       PROVE  i \in 1..m \/ \E k \in 1..n : i = m + k
  <2>1. i \in 1..(m + n) /\ m \in Nat /\ n \in Nat
    BY <1>1, <1>10, <1>11
  <2>2. i > m => i - m \in 1..n /\ i = m + (i - m)
    BY <2>1
  <2>3. QED
    BY <2>1, <2>2
<1>15. \A i \in DOMAIN put : LET r == u[Id(put[i])] IN
         r \in VecRow /\ r.text = put[i].text /\ r.gone = put[i].gone
  BY <1>12, <1>13, <1>14
<1>16. ASSUME NEW i \in DOMAIN put, NEW j \in DOMAIN put, i < j
       PROVE  u[Id(put[i])].row < u[Id(put[j])].row
  <2>1. CASE i \in 1..m /\ j \in 1..m
    BY <1>1, <1>12, <1>16, <2>1 DEF Mirror
  <2>2. CASE i \in 1..m /\ ~ (j \in 1..m)
    <3>1. PICK k \in 1..n : j = m + k
      BY <1>14, <2>2
    <3>2. u[Id(put[i])].row \in Nat /\ u[Id(put[i])].row <= top
      BY <1>1, <1>6, <1>12, <2>2 DEF ChunkIds
    <3>3. u[Id(put[j])].row = top + p[k] /\ p[k] \in Nat /\ p[k] > 0
      BY <1>2, <1>10, <1>13, <3>1
    <3>4. QED
      BY <1>6, <3>2, <3>3
  <2>3. CASE ~ (i \in 1..m) /\ j \in 1..m
    <3>1. PICK k \in 1..n : i = m + k
      BY <1>14, <2>3
    <3>2. QED
      BY <1>1, <1>16, <2>3, <3>1
  <2>4. CASE ~ (i \in 1..m) /\ ~ (j \in 1..m)
    <3>1. PICK k \in 1..n : i = m + k
      BY <1>14, <2>4
    <3>2. PICK l \in 1..n : j = m + l
      BY <1>14, <2>4
    <3>3. k < l
      BY <1>1, <1>16, <3>1, <3>2
    <3>4. p[k] < p[l] /\ p[k] \in Nat /\ p[l] \in Nat
      BY <1>2, <1>10, <3>3
    <3>5. u[Id(put[i])].row = top + p[k] /\ u[Id(put[j])].row = top + p[l]
      BY <1>13, <3>1, <3>2
    <3>6. QED
      BY <1>6, <3>4, <3>5
  <2>5. QED
    BY <2>1, <2>2, <2>3, <2>4
<1>17. Single(put)
  <2>1. ASSUME NEW i \in DOMAIN put, NEW j \in DOMAIN put, Id(put[i]) = Id(put[j]) PROVE i = j
    <3>1. i < j => u[Id(put[i])].row < u[Id(put[j])].row
      BY <1>16
    <3>2. j < i => u[Id(put[j])].row < u[Id(put[i])].row
      BY <1>16
    <3>3. u[Id(put[i])].row \in Nat
      BY <1>15 DEF VecRow
    <3>4. i \in Nat /\ j \in Nat
      BY <1>1, <1>10, <1>11
    <3>5. QED
      BY <2>1, <3>1, <3>2, <3>3, <3>4
  <2>2. QED
    BY <2>1 DEF Single
<1>18. DOMAIN u = ChunkIds(put)
  <2>1. ASSUME NEW id \in DOMAIN u PROVE \E i \in DOMAIN put : id = Id(put[i])
    <3>1. CASE id \in DOMAIN t
      <4>1. PICK i \in DOMAIN s : id = Id(s[i])
        BY <1>1, <3>1 DEF ChunkIds
      <4>2. i \in 1..(m + n)
        BY <1>1, <1>10
      <4>3. QED
        BY <1>10, <1>11, <4>1, <4>2
    <3>2. CASE id \notin DOMAIN t
      <4>1. PICK j \in DOMAIN new : id = Id(new[j])
        BY <1>7, <2>1, <3>2 DEF ChunkIds
      <4>2. PICK k \in 1..n : p[k] = j
        BY <1>1, <1>10, <3>2, <4>1
      <4>3. m + k \in 1..(m + n)
        BY <1>1, <1>10
      <4>4. QED
        BY <1>10, <1>11, <4>1, <4>2, <4>3
    <3>3. QED
      BY <3>1, <3>2
  <2>2. ASSUME NEW i \in DOMAIN put PROVE Id(put[i]) \in DOMAIN u
    <3>1. CASE i \in 1..m
      BY <1>1, <1>7, <1>10, <3>1 DEF ChunkIds
    <3>2. CASE \E k \in 1..n : i = m + k
      <4>1. PICK k \in 1..n : i = m + k
        BY <3>2
      <4>2. p[k] \in DOMAIN new /\ put[i] = new[p[k]]
        BY <1>10, <4>1
      <4>3. QED
        BY <1>7, <4>2 DEF ChunkIds
    <3>3. QED
      BY <1>14, <3>1, <3>2
  <2>3. QED
    BY <2>1, <2>2 DEF ChunkIds
<1>19. Mirror(put, u)
  BY <1>10, <1>15, <1>16, <1>17, <1>18 DEF Mirror
<1>20. QED
  BY <1>19 DEF put, u

------------------------------------------------------------------------------
(* The calls. *)

\* What is put last can be found: as a point, or active in the fallback.
Findable(d, e, pts, aside) ==
  \/ \E id \in DOMAIN pts : id[1] = d /\ id[3] = e.idx /\ pts[id] = e.text
  \/ \E c \in Elements(aside) : c.doc = d /\ c.idx = e.idx /\ c.text = e.text /\ c.gone = 0

\* A point of a first version has the text that was put last.
IsTail(id, pts, last) == id[2] = 1 /\ \A e \in last[id[1]] : e.idx = id[3] => pts[id] = e.text

NotLater(s, now) == \A i \in DOMAIN s : s[i].gone <= now

VecTypes ==
  /\ storeClock \in Nat \ {0} /\ storeCalls \in Nat /\ outages \in 0..MaxOutages
  /\ fallback \in Seq(Chunk)
  /\ DOMAIN points \subseteq Keys /\ \A id \in DOMAIN points : points[id] \in VecTexts
  /\ newest \in [VecDocs -> SUBSET [idx : Nat, text : VecTexts]]

\* What is asked of Qdrant: as long as no call failed there is nothing to fall back on.
QdrantRight ==
  /\ \A d \in VecDocs : \A e \in newest[d] : Findable(d, e, points, fallback)
  /\ outages = 0 => fallback = <<>> /\ \A id \in DOMAIN points : IsTail(id, points, newest)

VecInv == VecTypes /\ Mirror(memory, sqlite) /\ NotLater(memory, storeClock) /\ QdrantRight

LEMMA EmptyOf ==
  ASSUME NEW T
  PROVE  /\ <<>> \in Seq(T) /\ Len(<<>>) = 0 /\ DOMAIN <<>> = {} /\ Elements(<<>>) = {}
         /\ \A s \in Seq(T) : Len(s) <= 0 => s = <<>>
<1>1. <<>> \in Seq(T) /\ Len(<<>>) = 0 /\ DOMAIN <<>> = {}
  BY EmptySeq
<1>2. ASSUME NEW s \in Seq(T), Len(s) <= 0 PROVE s = <<>>
  <2>1. Len(s) \in Nat
    BY LenProperties
  <2>2. Len(s) = 0
    BY <1>2, <2>1
  <2>3. QED
    BY <2>2, EmptySeq
<1>3. QED
  BY <1>1, <1>2 DEF Elements

LEMMA VectorsStart == VectorStoresInit => VecInv
<1> SUFFICES ASSUME VectorStoresInit PROVE VecInv
  OBVIOUS
<1>1. /\ <<>> \in Seq(Chunk) /\ DOMAIN <<>> = {}
  BY EmptyOf
<1>2. VecTypes
  BY <1>1, VectorStoresAssumption DEF VecTypes, VectorStoresInit, VecDocs
<1>3. Mirror(<<>>, <<>>)
  BY <1>1 DEF Mirror, Single, ChunkIds
<1>4. QED
  BY <1>1, <1>2, <1>3 DEF VecInv, VectorStoresInit, NotLater, QdrantRight, VecDocs

\* The version of a batch is a number, and the first one if there is nothing.
LEMMA VersionIs ==
  ASSUME NEW s \in Seq(Chunk), NEW d
  PROVE  /\ Version(ActiveOf(s, d)) \in Nat
         /\ s = <<>> => Version(ActiveOf(s, d)) = 1
<1> DEFINE S == {c \in Elements(s) : c.doc = d /\ c.gone = 0}
           a == ActiveOf(s, d)
           vers == {c.ver : c \in Elements(a)}
<1>1. a = Only(s, S)
  BY DEF ActiveOf
<1> HIDE DEF S, a
<1>2. a \in Seq(Chunk) /\ Elements(a) = Elements(s) \cap S
  BY <1>1, OnlyFacts
<1>3. DOMAIN a = 1..Len(a) /\ Len(a) \in Nat /\ \A i \in DOMAIN a : a[i] \in Chunk
  BY <1>2, LenProperties, ElementOfSeq
<1>4. IsFiniteSet(vers)
  <2> DEFINE f == [i \in 1..Len(a) |-> a[i].ver]
  <2>1. f \in Surjection(1..Len(a), vers)
    BY <1>3 DEF Elements, Surjection
  <2>2. IsFiniteSet(1..Len(a))
    BY <1>3, FS_Interval
  <2>3. QED
    BY <2>1, <2>2, FS_Surjection
<1>5. vers \in SUBSET Nat
  BY <1>3 DEF Elements, Chunk
<1>6. Version(a) = 1 + Largest(vers)
  BY DEF Version
<1>7. s = <<>> => vers = {}
  <2>1. s = <<>> => Elements(s) = {}
    BY EmptyOf
  <2>2. QED
    BY <1>2, <2>1
<1> HIDE DEF vers
<1>8. Largest(vers) \in vers \cup {0} /\ Largest(vers) \in Nat
  BY <1>4, <1>5, LargestIs
<1>9. QED
  BY <1>6, <1>7, <1>8 DEF a

LEMMA BatchIs ==
  ASSUME NEW d \in VecDocs, NEW batch \in Batches, NEW active, Version(active) \in Nat
  PROVE  LET new == ChunkedBatch(d, batch, active) IN
         /\ IsBatch(new, d) /\ DOMAIN new = DOMAIN batch
         /\ \A i \in DOMAIN batch : new[i] = [doc |-> d, ver |-> Version(active), idx |-> i,
                                              text |-> batch[i], gone |-> 0]
         /\ \A i \in DOMAIN batch : i \in Nat /\ batch[i] \in VecTexts
<1> DEFINE new == ChunkedBatch(d, batch, active)
           v == Version(active)
<1>1. batch \in Seq(VecTexts)
  BY VectorStoresAssumption DEF VecTexts
<1>2. /\ DOMAIN batch = 1..Len(batch) /\ Len(batch) \in Nat
      /\ \A i \in DOMAIN batch : batch[i] \in VecTexts
  BY <1>1, LenProperties, ElementOfSeq
<1>3. /\ new = [i \in DOMAIN batch |-> [doc |-> d, ver |-> v, idx |-> i, text |-> batch[i], gone |-> 0]]
      /\ v \in Nat
  BY DEF ChunkedBatch
<1> HIDE DEF new, v
<1>4. \A i \in DOMAIN batch : [doc |-> d, ver |-> v, idx |-> i, text |-> batch[i], gone |-> 0] \in Chunk
  BY <1>2, <1>3 DEF Chunk
<1>5. new \in Seq(Chunk)
  <2>1. new \in [1..Len(batch) -> Chunk]
    BY <1>2, <1>3, <1>4
  <2>2. QED
    BY <1>2, <2>1, SeqDef
<1>6. Single(new) /\ \A i \in DOMAIN new : new[i].doc = d /\ new[i].gone = 0
  BY <1>3 DEF Single, Id
<1>7. /\ IsBatch(new, d) /\ DOMAIN new = DOMAIN batch
      /\ \A i \in DOMAIN batch : new[i] = [doc |-> d, ver |-> v, idx |-> i, text |-> batch[i], gone |-> 0]
      /\ \A i \in DOMAIN batch : i \in Nat /\ batch[i] \in VecTexts
  BY <1>2, <1>3, <1>5, <1>6 DEF IsBatch
<1>8. QED
  BY <1>7 DEF new, v

\* A put leaves the chunks of other documents alone.
LEMMA PutElements ==
  ASSUME NEW s \in Seq(Chunk), NEW new, NEW d \in VecDocs, IsBatch(new, d)
  PROVE  /\ MemPut(s, new) \in Seq(Chunk)
         /\ Elements(new) \subseteq Elements(MemPut(s, new))
         /\ \A c \in Elements(s) : c.doc # d => c \in Elements(MemPut(s, new))
         /\ Elements(MemPut(s, new)) \subseteq Elements(s) \cup Elements(new)
<1> DEFINE put == MemPut(s, new)
           m == Len(s)
<1>1. PICK p, n : IsPut(put, p, n, s, new)
  BY PutIs
<1> HIDE DEF put
<1>2. /\ put \in Seq(Chunk) /\ n \in Nat /\ Len(put) = m + n /\ p \in [1..n -> DOMAIN new]
      /\ \A i \in DOMAIN s : Id(put[i]) = Id(s[i])
      /\ \A i \in DOMAIN s : (\A c \in Elements(new) : Id(c) # Id(s[i])) => put[i] = s[i]
      /\ \A i \in DOMAIN s : \A c \in Elements(new) : Id(c) = Id(s[i]) => put[i] = c
      /\ \A k \in 1..n : put[m + k] = new[p[k]]
      /\ \A i \in DOMAIN new : Id(new[i]) \notin ChunkIds(s) => \E k \in 1..n : p[k] = i
  BY <1>1 DEF IsPut
<1>3. DOMAIN s = 1..m /\ m \in Nat /\ DOMAIN put = 1..(m + n)
  BY <1>2, LenProperties
<1> HIDE DEF m
<1>4. /\ DOMAIN s \subseteq DOMAIN put /\ \A k \in 1..n : m + k \in DOMAIN put
      /\ \A i \in DOMAIN put : i \in DOMAIN s \/ \E k \in 1..n : i = m + k
  <2>1. ASSUME NEW i \in DOMAIN put PROVE i \in DOMAIN s \/ \E k \in 1..n : i = m + k
    <3>1. i > m => i - m \in 1..n /\ i = m + (i - m)
      BY <1>2, <1>3
    <3>2. QED
      BY <1>2, <1>3, <3>1
  <2>2. QED
    BY <1>2, <1>3, <2>1
<1>5. ASSUME NEW c \in Elements(new) PROVE c \in Elements(put)
  <2>1. PICK i \in DOMAIN new : c = new[i]
    BY DEF Elements
  <2>2. CASE Id(c) \in ChunkIds(s)
    <3>1. PICK j \in DOMAIN s : Id(s[j]) = Id(c)
      BY <2>2 DEF ChunkIds
    <3>2. put[j] = c
      BY <1>2, <3>1
    <3>3. QED
      BY <1>4, <3>2 DEF Elements
  <2>3. CASE Id(c) \notin ChunkIds(s)
    <3>1. PICK k \in 1..n : p[k] = i
      BY <1>2, <2>1, <2>3
    <3>2. put[m + k] = c
      BY <1>2, <2>1, <3>1
    <3>3. QED
      BY <1>4, <3>2 DEF Elements
  <2>4. QED
    BY <2>2, <2>3
<1>6. ASSUME NEW c \in Elements(s), c.doc # d PROVE c \in Elements(put)
  <2>1. PICK j \in DOMAIN s : c = s[j]
    BY DEF Elements
  <2>2. \A e \in Elements(new) : Id(e) # Id(c)
    BY <1>6 DEF IsBatch, Elements, Id
  <2>3. put[j] = c
    BY <1>2, <2>1, <2>2
  <2>4. QED
    BY <1>4, <2>3 DEF Elements
<1>7. ASSUME NEW c \in Elements(put) PROVE c \in Elements(s) \cup Elements(new)
  <2>1. PICK i \in DOMAIN put : c = put[i]
    BY DEF Elements
  <2>2. CASE i \in DOMAIN s
    BY <1>2, <2>1, <2>2 DEF Elements
  <2>3. CASE \E k \in 1..n : i = m + k
    <3>1. PICK k \in 1..n : i = m + k
      BY <2>3
    <3>2. c = new[p[k]] /\ p[k] \in DOMAIN new
      BY <1>2, <2>1, <3>1
    <3>3. QED
      BY <3>2 DEF Elements
  <2>4. QED
    BY <1>4, <2>1, <2>2, <2>3
<1>8. QED
  BY <1>2, <1>5, <1>6, <1>7 DEF put

\* So does a tombstone.
LEMMA SoftDeleteElements ==
  ASSUME NEW s \in Seq(Chunk), NEW d, storeClock \in Nat
  PROVE  /\ MemSoftDelete(s, d) \in Seq(Chunk)
         /\ \A c \in Elements(s) : c.doc # d => c \in Elements(MemSoftDelete(s, d))
         /\ NotLater(s, storeClock) => NotLater(MemSoftDelete(s, d), storeClock)
         /\ s = <<>> => MemSoftDelete(s, d) = <<>>
<1> DEFINE s1 == MemSoftDelete(s, d)
<1>1. DOMAIN s = 1..Len(s) /\ Len(s) \in Nat /\ \A i \in DOMAIN s : s[i] \in Chunk
  BY LenProperties, ElementOfSeq
<1>2. s1 = [i \in DOMAIN s |-> IF s[i].doc = d /\ s[i].gone = 0
                               THEN [s[i] EXCEPT !.gone = storeClock] ELSE s[i]]
  BY DEF MemSoftDelete
<1> HIDE DEF s1
<1>3. \A i \in DOMAIN s : s1[i] \in Chunk
  BY <1>1, <1>2 DEF Chunk
<1>4. s1 \in Seq(Chunk)
  <2>1. s1 \in [1..Len(s) -> Chunk]
    BY <1>1, <1>2, <1>3
  <2>2. QED
    BY <1>1, <2>1, SeqDef
<1>5. ASSUME NEW c \in Elements(s), c.doc # d PROVE c \in Elements(s1)
  BY <1>2, <1>5 DEF Elements
<1>6. ASSUME NotLater(s, storeClock) PROVE NotLater(s1, storeClock)
  <2>1. ASSUME NEW i \in DOMAIN s1 PROVE s1[i].gone <= storeClock
    <3>1. i \in DOMAIN s /\ s[i] \in Chunk /\ s[i].gone <= storeClock
      BY <1>1, <1>2, <1>6, <2>1 DEF NotLater
    <3>2. s1[i].gone = storeClock \/ s1[i].gone = s[i].gone
      BY <1>2, <3>1 DEF Chunk
    <3>3. QED
      BY <3>1, <3>2
  <2>2. QED
    BY <2>1 DEF NotLater
<1>7. ASSUME s = <<>> PROVE s1 = <<>>
  <2>1. Len(s) = 0 /\ DOMAIN s1 = 1..0
    BY <1>1, <1>2, <1>7, EmptyOf
  <2>2. Len(s1) \in Nat /\ DOMAIN s1 = 1..Len(s1)
    BY <1>4, LenProperties
  <2>3. Len(s1) <= 0
    BY <2>1, <2>2
  <2>4. QED
    BY <1>4, <2>3, EmptyOf
<1>8. QED
  BY <1>4, <1>5, <1>6, <1>7 DEF s1

LEMMA PutNotLater ==
  ASSUME NEW s \in Seq(Chunk), NEW new, NEW d \in VecDocs, IsBatch(new, d),
         NotLater(s, storeClock), storeClock \in Nat
  PROVE  NotLater(MemPut(s, new), storeClock)
<1> DEFINE put == MemPut(s, new)
<1>1. Elements(put) \subseteq Elements(s) \cup Elements(new)
  BY PutElements
<1>2. \A c \in Elements(s) : c.gone <= storeClock
  BY DEF NotLater, Elements
<1>3. \A c \in Elements(new) : c.gone <= storeClock
  BY DEF IsBatch, Elements
<1> HIDE DEF put
<1>4. NotLater(put, storeClock)
  BY <1>1, <1>2, <1>3 DEF NotLater, Elements
<1>5. QED
  BY <1>4 DEF put

LEMMA OnlyNotLater ==
  ASSUME NEW s \in Seq(Chunk), NEW S, NotLater(s, storeClock)
  PROVE  NotLater(Only(s, S), storeClock)
<1>1. Elements(Only(s, S)) \subseteq Elements(s)
  BY OnlyFacts
<1>2. QED
  BY <1>1 DEF NotLater, Elements

\* The new version of the document is a tombstone before, and a put.
LEMMA IngestKeeps ==
  ASSUME VecInv, NEW d \in VecDocs, NEW batch \in Batches, NEW outcome \in {"done", "lost", "failed"},
         Ingest(d, batch, outcome)
  PROVE  VecInv'
<1> DEFINE toMemory == ChunkedBatch(d, batch, ActiveOf(memory, d))
           toQdrant == ChunkedBatch(d, batch, ActiveOf(fallback, d))
           last == {[idx |-> i, text |-> batch[i]] : i \in DOMAIN batch}
           left == MemSoftDelete(fallback, d)
           v == Version(ActiveOf(fallback, d))
<1>1. /\ VecTypes /\ Mirror(memory, sqlite) /\ NotLater(memory, storeClock) /\ QdrantRight
      /\ memory \in Seq(Chunk) /\ fallback \in Seq(Chunk) /\ storeClock \in Nat
  BY DEF VecInv, VecTypes, Mirror
<1>2. /\ memory' = MemPut(MemSoftDelete(memory, d), toMemory)
      /\ sqlite' = SqlPut(SqlSoftDelete(sqlite, d), ChunkedBatch(d, batch, SqlActive(sqlite, d)))
      /\ points' = (IF outcome \in {"done", "lost"} THEN PointsPut(toQdrant) ELSE points)
      /\ fallback' = FallbackPut(outcome, left, toQdrant)
      /\ newest' = [newest EXCEPT ![d] = last] /\ StoreCall(outcome)
  BY DEF Ingest
<1>3. /\ storeClock' = storeClock /\ storeCalls' \in Nat /\ outages' \in 0..MaxOutages
      /\ outages' = 0 => outages = 0 /\ outcome = "done"
  BY <1>1, <1>2, VectorStoresAssumption DEF StoreCall, VecTypes
<1>4. SqlActive(sqlite, d) = ActiveOf(memory, d)
  BY <1>1, RowsAre DEF SqlActive
<1>5. IsBatch(toMemory, d)
  BY <1>1, VersionIs, BatchIs
<1>6. /\ IsBatch(toQdrant, d) /\ DOMAIN toQdrant = DOMAIN batch /\ v \in Nat /\ (fallback = <<>> => v = 1)
      /\ \A i \in DOMAIN batch : toQdrant[i] = [doc |-> d, ver |-> v, idx |-> i, text |-> batch[i], gone |-> 0]
      /\ \A i \in DOMAIN batch : i \in Nat /\ batch[i] \in VecTexts
  BY <1>1, VersionIs, BatchIs
<1> HIDE DEF toMemory, toQdrant, last, left, v
<1>7. Mirror(memory', sqlite')
  <2>1. Mirror(MemSoftDelete(memory, d), SqlSoftDelete(sqlite, d))
    BY <1>1, SoftDeleteMirrors
  <2>2. Mirror(MemPut(MemSoftDelete(memory, d), toMemory), SqlPut(SqlSoftDelete(sqlite, d), toMemory))
    BY <1>5, <2>1, PutMirrors
  <2>3. QED
    BY <1>2, <1>4, <2>2 DEF toMemory
<1>8. NotLater(memory', storeClock')
  BY <1>1, <1>2, <1>3, <1>5, SoftDeleteElements, PutNotLater
<1>9. /\ left \in Seq(Chunk) /\ (fallback = <<>> => left = <<>>)
      /\ \A c \in Elements(fallback) : c.doc # d => c \in Elements(left)
  BY <1>1, SoftDeleteElements DEF left
<1>10. /\ fallback' \in Seq(Chunk)
       /\ \A c \in Elements(left) : c.doc # d => c \in Elements(fallback')
       /\ outcome = "failed" => Elements(toQdrant) \subseteq Elements(fallback')
       /\ outcome = "done" => fallback' = left
  BY <1>2, <1>6, <1>9, PutElements DEF FallbackPut
<1>11. DOMAIN PointsPut(toQdrant) = DOMAIN points \cup ChunkIds(toQdrant)
  BY DEF PointsPut, ChunkIds, Elements
<1>12. \A id \in DOMAIN points : id \notin ChunkIds(toQdrant) => PointsPut(toQdrant)[id] = points[id]
  BY DEF PointsPut, ChunkIds, Elements
<1>13. ASSUME NEW i \in DOMAIN batch
       PROVE  /\ Id(toQdrant[i]) = <<d, v, i>> /\ <<d, v, i>> \in ChunkIds(toQdrant)
              /\ PointsPut(toQdrant)[<<d, v, i>>] = batch[i]
  <2>1. Id(toQdrant[i]) = <<d, v, i>>
    BY <1>6 DEF Id
  <2>2. <<d, v, i>> \in ChunkIds(toQdrant)
    BY <1>6, <2>1 DEF ChunkIds
  <2>3. (CHOOSE c \in Elements(toQdrant) : Id(c) = <<d, v, i>>) = toQdrant[i]
    <3>1. toQdrant[i] \in Elements(toQdrant)
      BY <1>6 DEF Elements
    <3>2. \A c \in Elements(toQdrant) : Id(c) = <<d, v, i>> => c = toQdrant[i]
      BY <1>6, <2>1 DEF IsBatch, Single, Elements
    <3>3. QED
      BY <2>1, <3>1, <3>2
  <2>4. toQdrant[i].text = batch[i]
    BY <1>6
  <2>5. QED
    BY <2>1, <2>2, <2>3, <2>4 DEF PointsPut, ChunkIds, Elements
<1>14. ASSUME NEW id \in ChunkIds(toQdrant) PROVE \E i \in DOMAIN batch : id = <<d, v, i>>
  BY <1>6, <1>13 DEF ChunkIds
<1> DEFINE put == PointsPut(toQdrant)
<1> HIDE DEF put
<1>15. /\ DOMAIN put = DOMAIN points \cup ChunkIds(toQdrant)
       /\ \A id \in DOMAIN points : id \notin ChunkIds(toQdrant) => put[id] = points[id]
       /\ \A i \in DOMAIN batch : <<d, v, i>> \in ChunkIds(toQdrant) /\ put[<<d, v, i>>] = batch[i]
  BY <1>11, <1>12, <1>13 DEF put
<1>16. /\ DOMAIN points' \subseteq Keys /\ \A id \in DOMAIN points' : points'[id] \in VecTexts
  <2>1. \A i \in DOMAIN batch : <<d, v, i>> \in Keys
    BY <1>6 DEF Keys
  <2>2. ASSUME NEW id \in DOMAIN put PROVE id \in Keys /\ put[id] \in VecTexts
    <3>1. CASE id \in ChunkIds(toQdrant)
      BY <1>6, <1>14, <1>15, <2>1, <3>1
    <3>2. CASE id \notin ChunkIds(toQdrant)
      BY <1>1, <1>15, <2>2, <3>2 DEF VecTypes
    <3>3. QED
      BY <3>1, <3>2
  <2>3. QED
    BY <1>1, <1>2, <2>2 DEF VecTypes, put
<1>17. newest' \in [VecDocs -> SUBSET [idx : Nat, text : VecTexts]]
  BY <1>1, <1>2, <1>6 DEF VecTypes, last
<1>18. ASSUME NEW f \in VecDocs, NEW e \in newest'[f]
       PROVE  Findable(f, e, points', fallback')
  <2>1. CASE f = d
    <3>1. PICK i \in DOMAIN batch : e = [idx |-> i, text |-> batch[i]]
      BY <1>1, <1>2, <1>18, <2>1 DEF VecTypes, last
    <3>2. CASE outcome \in {"done", "lost"}
      <4>1. points' = put
        BY <1>2, <3>2 DEF put
      <4>2. <<d, v, i>> \in DOMAIN put /\ put[<<d, v, i>>] = batch[i]
        BY <1>15
      <4>3. QED
        BY <2>1, <3>1, <4>1, <4>2 DEF Findable
    <3>3. CASE outcome = "failed"
      <4>1. toQdrant[i] \in Elements(fallback')
        BY <1>6, <1>10, <3>3 DEF Elements
      <4>2. QED
        BY <1>6, <2>1, <3>1, <4>1 DEF Findable
    <3>4. QED
      BY <3>2, <3>3
  <2>2. CASE f # d
    <3>1. e \in newest[f]
      BY <1>1, <1>2, <1>18, <2>2 DEF VecTypes
    <3>2. Findable(f, e, points, fallback)
      BY <1>1, <3>1 DEF QdrantRight
    <3>3. CASE \E id \in DOMAIN points : id[1] = f /\ id[3] = e.idx /\ points[id] = e.text
      <4>1. PICK id \in DOMAIN points : id[1] = f /\ id[3] = e.idx /\ points[id] = e.text
        BY <3>3
      <4>2. id \notin ChunkIds(toQdrant)
        BY <1>14, <2>2, <4>1
      <4>3. id \in DOMAIN points' /\ points'[id] = points[id]
        BY <1>2, <1>15, <4>2 DEF put
      <4>4. QED
        BY <4>1, <4>3 DEF Findable
    <3>4. CASE \E c \in Elements(fallback) : c.doc = f /\ c.idx = e.idx /\ c.text = e.text /\ c.gone = 0
      BY <1>9, <1>10, <2>2, <3>4 DEF Findable
    <3>5. QED
      BY <3>2, <3>3, <3>4 DEF Findable
  <2>3. QED
    BY <2>1, <2>2
<1>19. ASSUME outages' = 0
       PROVE  fallback' = <<>> /\ \A id \in DOMAIN points' : IsTail(id, points', newest')
  <2>1. /\ outages = 0 /\ outcome = "done" /\ fallback = <<>> /\ v = 1
        /\ \A id \in DOMAIN points : IsTail(id, points, newest)
    BY <1>1, <1>3, <1>6, <1>19 DEF QdrantRight
  <2>2. fallback' = <<>> /\ points' = put
    BY <1>2, <1>9, <1>10, <2>1 DEF put
  <2>3. ASSUME NEW id \in DOMAIN put
        PROVE  id[2] = 1 /\ \A e \in newest'[id[1]] : e.idx = id[3] => put[id] = e.text
    <3>1. CASE id \in ChunkIds(toQdrant)
      <4>1. PICK i \in DOMAIN batch : id = <<d, v, i>>
        BY <1>14, <3>1
      <4>2. put[id] = batch[i] /\ id[1] = d /\ id[2] = 1 /\ id[3] = i
        BY <1>15, <2>1, <4>1
      <4>3. newest'[d] = last
        BY <1>1, <1>2 DEF VecTypes
      <4>4. ASSUME NEW e \in last, e.idx = i PROVE e.text = batch[i]
        BY <4>4 DEF last
      <4>5. QED
        BY <4>2, <4>3, <4>4
    <3>2. CASE id \notin ChunkIds(toQdrant)
      <4>1. id \in DOMAIN points /\ put[id] = points[id] /\ IsTail(id, points, newest) /\ id[1] \in VecDocs
        BY <1>1, <1>15, <2>1, <2>3, <3>2 DEF VecTypes, Keys
      <4>2. CASE id[1] = d
        <5>1. id = <<d, 1, id[3]>>
          BY <1>1, <4>1, <4>2 DEF VecTypes, Keys, IsTail
        <5>2. id[3] \notin DOMAIN batch
          BY <1>15, <2>1, <3>2, <5>1
        <5>3. newest'[d] = last
          BY <1>1, <1>2 DEF VecTypes
        <5>4. \A e \in last : e.idx \in DOMAIN batch
          BY DEF last
        <5>5. QED
          BY <4>1, <4>2, <5>2, <5>3, <5>4 DEF IsTail
      <4>3. CASE id[1] # d
        <5>1. newest'[id[1]] = newest[id[1]]
          BY <1>1, <1>2, <4>1, <4>3 DEF VecTypes
        <5>2. QED
          BY <4>1, <5>1 DEF IsTail
      <4>4. QED
        BY <4>2, <4>3
    <3>3. QED
      BY <3>1, <3>2
  <2>4. QED
    BY <2>2, <2>3 DEF IsTail
<1>20. VecTypes'
  BY <1>1, <1>3, <1>10, <1>16, <1>17 DEF VecTypes
<1>21. QdrantRight'
  BY <1>18, <1>19 DEF QdrantRight
<1>22. QED
  BY <1>7, <1>8, <1>20, <1>21 DEF VecInv

LEMMA SoftDeleteKeeps ==
  ASSUME VecInv, NEW d \in VecDocs, soft_delete_document_(d)
  PROVE  VecInv'
<1>1. /\ VecTypes /\ Mirror(memory, sqlite) /\ NotLater(memory, storeClock) /\ QdrantRight
      /\ memory \in Seq(Chunk) /\ fallback \in Seq(Chunk) /\ storeClock \in Nat
  BY DEF VecInv, VecTypes, Mirror
<1>2. /\ memory' = MemSoftDelete(memory, d) /\ sqlite' = SqlSoftDelete(sqlite, d)
      /\ fallback' = MemSoftDelete(fallback, d) /\ points' = points
      /\ newest' = [newest EXCEPT ![d] = {}] /\ StoreCall("done")
  BY DEF soft_delete_document_
<1>3. storeClock' = storeClock /\ storeCalls' \in Nat /\ outages' = outages
  BY <1>1, <1>2 DEF StoreCall, VecTypes
<1>4. Mirror(memory', sqlite')
  BY <1>1, <1>2, SoftDeleteMirrors
<1>5. NotLater(memory', storeClock')
  BY <1>1, <1>2, <1>3, SoftDeleteElements
<1>6. /\ fallback' \in Seq(Chunk) /\ (fallback = <<>> => fallback' = <<>>)
      /\ \A c \in Elements(fallback) : c.doc # d => c \in Elements(fallback')
  BY <1>1, <1>2, SoftDeleteElements
<1>7. /\ newest' \in [VecDocs -> SUBSET [idx : Nat, text : VecTexts]]
      /\ newest'[d] = {} /\ \A f \in VecDocs : f # d => newest'[f] = newest[f]
  BY <1>1, <1>2 DEF VecTypes
<1>8. VecTypes'
  BY <1>1, <1>2, <1>3, <1>6, <1>7 DEF VecTypes
<1>9. ASSUME NEW f \in VecDocs, NEW e \in newest'[f]
      PROVE  Findable(f, e, points', fallback')
  <2>1. f # d /\ Findable(f, e, points, fallback)
    BY <1>1, <1>7, <1>9 DEF QdrantRight
  <2>2. QED
    BY <1>2, <1>6, <2>1 DEF Findable
<1>10. ASSUME outages' = 0
       PROVE  fallback' = <<>> /\ \A id \in DOMAIN points' : IsTail(id, points', newest')
  <2>1. fallback = <<>> /\ \A id \in DOMAIN points : IsTail(id, points, newest) /\ id[1] \in VecDocs
    BY <1>1, <1>3, <1>10 DEF QdrantRight, VecTypes, Keys
  <2>2. QED
    BY <1>2, <1>6, <1>7, <2>1 DEF IsTail
<1>11. QdrantRight'
  BY <1>9, <1>10 DEF QdrantRight
<1>12. QED
  BY <1>4, <1>5, <1>8, <1>11 DEF VecInv

LEMMA DeleteChunkKeeps ==
  ASSUME VecInv, NEW id \in {Id(c) : c \in Elements(memory)},
         NEW outcome \in {"done", "lost", "failed", "refused"}, DeleteChunk(id, outcome)
  PROVE  VecInv'
<1> DEFINE d == id[1]
           i == id[3]
<1>1. /\ VecTypes /\ Mirror(memory, sqlite) /\ NotLater(memory, storeClock) /\ QdrantRight
      /\ memory \in Seq(Chunk) /\ fallback \in Seq(Chunk) /\ storeClock \in Nat
  BY DEF VecInv, VecTypes, Mirror
<1>2. /\ memory' = MemDelete(memory, id) /\ sqlite' = SqlDelete(sqlite, id)
      /\ points' = (IF outcome \in {"done", "lost"} THEN [j \in DOMAIN points \ {id} |-> points[j]]
                    ELSE points)
      /\ fallback' = (IF outcome \in {"lost", "failed"} THEN MemDelete(fallback, id) ELSE fallback)
      /\ newest' = [newest EXCEPT ![d] = {e \in @ : e.idx # i}] /\ StoreCall(outcome)
  BY DEF DeleteChunk
<1>3. /\ storeClock' = storeClock /\ storeCalls' \in Nat /\ outages' \in 0..MaxOutages
      /\ outages' = 0 => outages = 0 /\ outcome = "done"
  BY <1>1, <1>2, VectorStoresAssumption DEF StoreCall, VecTypes
<1>4. id \in Keys /\ d \in VecDocs /\ i \in Nat
  BY <1>1, ChunkIs DEF Elements, Keys
<1> HIDE DEF d, i
<1>5. Mirror(memory', sqlite')
  BY <1>1, <1>2, DeleteMirrors
<1>6. NotLater(memory', storeClock')
  BY <1>1, <1>2, <1>3, OnlyNotLater DEF MemDelete
<1>7. /\ fallback' \in Seq(Chunk)
      /\ \A c \in Elements(fallback) : Id(c) # id => c \in Elements(fallback')
  <2> DEFINE S == {c \in Elements(fallback) : Id(c) # id}
  <2>1. MemDelete(fallback, id) = Only(fallback, S)
    BY DEF MemDelete
  <2>2. Only(fallback, S) \in Seq(Chunk) /\ Elements(Only(fallback, S)) = Elements(fallback) \cap S
    <3> HIDE DEF S
    <3>1. QED
      BY <1>1, OnlyFacts
  <2>3. QED
    BY <1>1, <1>2, <2>1, <2>2
<1>8. /\ DOMAIN points' \subseteq DOMAIN points /\ \A j \in DOMAIN points' : points'[j] = points[j]
      /\ \A j \in DOMAIN points : j # id => j \in DOMAIN points'
  BY <1>2
<1>9. /\ newest' \in [VecDocs -> SUBSET [idx : Nat, text : VecTexts]]
      /\ newest'[d] = {e \in newest[d] : e.idx # i}
      /\ \A f \in VecDocs : f # d => newest'[f] = newest[f]
  BY <1>1, <1>2, <1>4 DEF VecTypes
<1>10. VecTypes'
  BY <1>1, <1>3, <1>7, <1>8, <1>9 DEF VecTypes
<1>11. ASSUME NEW f \in VecDocs, NEW e \in newest'[f]
       PROVE  Findable(f, e, points', fallback')
  <2>1. e \in newest[f] /\ ~ (f = d /\ e.idx = i)
    BY <1>9, <1>11
  <2>2. Findable(f, e, points, fallback)
    BY <1>1, <2>1 DEF QdrantRight
  <2>3. CASE \E j \in DOMAIN points : j[1] = f /\ j[3] = e.idx /\ points[j] = e.text
    <3>1. PICK j \in DOMAIN points : j[1] = f /\ j[3] = e.idx /\ points[j] = e.text
      BY <2>3
    <3>2. j # id
      BY <2>1, <3>1 DEF d, i
    <3>3. QED
      BY <1>8, <3>1, <3>2 DEF Findable
  <2>4. CASE \E c \in Elements(fallback) : c.doc = f /\ c.idx = e.idx /\ c.text = e.text /\ c.gone = 0
    <3>1. PICK c \in Elements(fallback) : c.doc = f /\ c.idx = e.idx /\ c.text = e.text /\ c.gone = 0
      BY <2>4
    <3>2. Id(c) # id
      BY <2>1, <3>1 DEF d, i, Id
    <3>3. QED
      BY <1>7, <3>1, <3>2 DEF Findable
  <2>5. QED
    BY <2>2, <2>3, <2>4 DEF Findable
<1>12. ASSUME outages' = 0
       PROVE  fallback' = <<>> /\ \A j \in DOMAIN points' : IsTail(j, points', newest')
  <2>1. /\ outcome = "done" /\ fallback = <<>>
        /\ \A j \in DOMAIN points : IsTail(j, points, newest) /\ j[1] \in VecDocs
    BY <1>1, <1>3, <1>12 DEF QdrantRight, VecTypes, Keys
  <2>2. fallback' = <<>>
    BY <1>2, <2>1
  <2>3. \A f \in VecDocs : newest'[f] \subseteq newest[f]
    BY <1>9
  <2>4. QED
    BY <1>8, <2>1, <2>2, <2>3 DEF IsTail
<1>13. QdrantRight'
  BY <1>11, <1>12 DEF QdrantRight
<1>14. QED
  BY <1>5, <1>6, <1>10, <1>13 DEF VecInv

LEMMA VacuumKeeps ==
  ASSUME VecInv, NEW age \in {0, 1}, vacuum_tombstones(age)
  PROVE  VecInv'
<1>1. /\ VecTypes /\ Mirror(memory, sqlite) /\ NotLater(memory, storeClock) /\ QdrantRight
      /\ memory \in Seq(Chunk) /\ fallback \in Seq(Chunk) /\ storeClock \in Nat /\ age \in Nat
  BY DEF VecInv, VecTypes, Mirror
<1>2. /\ memory' = MemVacuum(memory, age) /\ sqlite' = SqlVacuum(sqlite, age)
      /\ fallback' = MemVacuum(fallback, age)
      /\ points' = points /\ newest' = newest /\ StoreCall("done")
  BY DEF vacuum_tombstones
<1>3. storeClock' = storeClock /\ storeCalls' \in Nat /\ outages' = outages
  BY <1>1, <1>2 DEF StoreCall, VecTypes
<1>4. Mirror(memory', sqlite')
  BY <1>1, <1>2, VacuumMirrors
<1>5. NotLater(memory', storeClock')
  BY <1>1, <1>2, <1>3, OnlyNotLater DEF MemVacuum
<1>6. /\ fallback' \in Seq(Chunk) /\ (fallback = <<>> => fallback' = <<>>)
      /\ \A c \in Elements(fallback) : c.gone = 0 => c \in Elements(fallback')
  <2> DEFINE S == {c \in Elements(fallback) : c.gone = 0 \/ storeClock - c.gone < age}
  <2>1. fallback' = Only(fallback, S)
    BY <1>2 DEF MemVacuum
  <2>2. \A c \in Elements(fallback) : c.gone = 0 => c \in S
    OBVIOUS
  <2> HIDE DEF S
  <2>3. /\ fallback' \in Seq(Chunk) /\ Elements(fallback') = Elements(fallback) \cap S
        /\ Len(fallback') <= Len(fallback)
    BY <1>1, <2>1, OnlyFacts
  <2>4. ASSUME fallback = <<>> PROVE fallback' = <<>>
    <3>1. Len(fallback) = 0
      BY <2>4, EmptyOf
    <3>2. QED
      BY <2>3, <3>1, EmptyOf
  <2>5. QED
    BY <2>2, <2>3, <2>4
<1>7. VecTypes'
  BY <1>1, <1>2, <1>3, <1>6 DEF VecTypes
<1>8. ASSUME NEW f \in VecDocs, NEW e \in newest'[f]
      PROVE  Findable(f, e, points', fallback')
  <2>1. Findable(f, e, points, fallback)
    BY <1>1, <1>2, <1>8 DEF QdrantRight
  <2>2. QED
    BY <1>2, <1>6, <2>1 DEF Findable
<1>9. outages' = 0 => fallback' = <<>> /\ \A id \in DOMAIN points' : IsTail(id, points', newest')
  BY <1>1, <1>2, <1>3, <1>6 DEF QdrantRight
<1>10. QdrantRight'
  BY <1>8, <1>9 DEF QdrantRight
<1>11. QED
  BY <1>4, <1>5, <1>7, <1>10 DEF VecInv

LEMMA StoreTickKeeps ==
  ASSUME VecInv, StoreTick
  PROVE  VecInv'
<1>1. /\ VecTypes /\ Mirror(memory, sqlite) /\ NotLater(memory, storeClock) /\ QdrantRight
  BY DEF VecInv
<1>2. /\ storeClock' = storeClock + 1 /\ memory' = memory /\ sqlite' = sqlite /\ points' = points
      /\ fallback' = fallback /\ storeCalls' = storeCalls /\ outages' = outages /\ newest' = newest
  BY DEF StoreTick
<1>3. VecTypes'
  BY <1>1, <1>2 DEF VecTypes
<1>4. NotLater(memory', storeClock')
  <2>1. ASSUME NEW i \in DOMAIN memory PROVE memory[i].gone <= storeClock + 1
    <3>1. memory[i].gone \in Nat /\ memory[i].gone <= storeClock /\ storeClock \in Nat
      BY <1>1, ChunkIs DEF Mirror, NotLater, VecTypes, Chunk
    <3>2. QED
      BY <3>1
  <2>2. QED
    BY <1>2, <2>1 DEF NotLater
<1>5. QED
  BY <1>1, <1>2, <1>3, <1>4 DEF VecInv, QdrantRight

LEMMA VectorStepKeeps == VecInv /\ [VectorStoresNext]_storeVars => VecInv'
<1>1. ASSUME VecInv, UNCHANGED storeVars PROVE VecInv'
  BY <1>1 DEF VecInv, storeVars, VecTypes, QdrantRight
<1>2. ASSUME VecInv, VectorStoresNext PROVE VecInv'
  <2>1. CASE StoreTick
    BY <1>2, <2>1, StoreTickKeeps
  <2>2. CASE \E d \in Elements(StoreDocs) : soft_delete_document_(d)
    BY <1>2, <2>2, SoftDeleteKeeps DEF VecDocs
  <2>3. CASE \E d \in Elements(StoreDocs), batch \in Batches, outcome \in {"done", "lost", "failed"} :
               Ingest(d, batch, outcome)
    BY <1>2, <2>3, IngestKeeps DEF VecDocs
  <2>4. CASE \E id \in {Id(c) : c \in Elements(memory)}, outcome \in {"done", "lost", "failed", "refused"} :
               DeleteChunk(id, outcome)
    BY <1>2, <2>4, DeleteChunkKeeps
  <2>5. CASE \E age \in {0, 1} : vacuum_tombstones(age)
    BY <1>2, <2>5, VacuumKeeps
  <2>6. QED
    BY <1>2, <2>1, <2>2, <2>3, <2>4, <2>5 DEF VectorStoresNext
<1>3. QED
  BY <1>1, <1>2

LEMMA VecInvGives ==
  VecInv => VectorStoresTypeOK /\ StoresAgree /\ NewestFindable /\ LeftoverIsTail
<1> SUFFICES ASSUME VecInv PROVE VectorStoresTypeOK /\ StoresAgree /\ NewestFindable /\ LeftoverIsTail
  OBVIOUS
<1>1. /\ VecTypes /\ Mirror(memory, sqlite) /\ NotLater(memory, storeClock) /\ QdrantRight
  BY DEF VecInv
<1>2. StoresAgree
  BY <1>1, RowsAre DEF StoresAgree
<1>3. NewestFindable
  BY <1>1 DEF QdrantRight, NewestFindable, Findable, VecDocs
<1>4. LeftoverIsTail
  BY <1>1 DEF QdrantRight, LeftoverIsTail, IsTail
<1>5. ASSUME NEW i \in DOMAIN sqlite, NEW j \in DOMAIN sqlite, sqlite[i].row = sqlite[j].row PROVE i = j
  <2>1. PICK k \in DOMAIN memory : i = Id(memory[k])
    BY <1>1 DEF Mirror, ChunkIds
  <2>2. PICK l \in DOMAIN memory : j = Id(memory[l])
    BY <1>1 DEF Mirror, ChunkIds
  <2>3. k \in Nat /\ l \in Nat
    BY <1>1, ChunkIs DEF Mirror
  <2>4. sqlite[i].row \in Nat /\ sqlite[j].row \in Nat
    BY <1>1, <2>1, <2>2 DEF Mirror, VecRow
  <2>5. ~ (k < l) /\ ~ (l < k)
    BY <1>1, <1>5, <2>1, <2>2, <2>4 DEF Mirror
  <2>6. QED
    BY <2>1, <2>2, <2>3, <2>5
<1>6. ASSUME NEW c \in Elements(memory) PROVE c.gone \in 0..storeClock
  <2>1. PICK i \in DOMAIN memory : c = memory[i]
    BY DEF Elements
  <2>2. c \in Chunk /\ c.gone <= storeClock
    BY <1>1, <2>1, ChunkIs DEF Mirror, NotLater
  <2>3. QED
    BY <1>1, <2>2 DEF Chunk, VecTypes
<1>7. VectorStoresTypeOK
  BY <1>1, <1>5, <1>6 DEF VectorStoresTypeOK, Mirror, Single, VecTypes
<1>8. QED
  BY <1>2, <1>3, <1>4, <1>7

------------------------------------------------------------------------------
(* Rankings. *)

Unrepeated(s) == \A i, j \in DOMAIN s : s[i] = s[j] => i = j

\* In s, what is at a comes before what is at b by the score.
Above(score, s, a, b) ==
  \/ score[s[a].text] > score[s[b].text]
  \/ score[s[a].text] = score[s[b].text] /\ a < b

\* The chunks of s, two by two, by the score and then by their places.
Ranked(score, s) ==
  {r \in Chunk \X Chunk : \E a, b \in DOMAIN s : r = <<s[a], s[b]>> /\ Above(score, s, a, b)}

InRank(t, score, s) == \A i, j \in DOMAIN t : i < j => <<t[i], t[j]>> \in Ranked(score, s)

LEMMA RankedIs ==
  ASSUME NEW s \in Seq(Chunk), NEW score \in [VecTexts -> Int], Unrepeated(s)
  PROVE  \A x, y \in Elements(s) :
           /\ <<x, y>> \in Ranked(score, s) =>
                /\ score[x.text] \in Int /\ score[y.text] \in Int /\ score[y.text] <= score[x.text]
                /\ ~ (<<y, x>> \in Ranked(score, s))
           /\ ~ (<<x, x>> \in Ranked(score, s))
<1>1. DOMAIN s = 1..Len(s) /\ Len(s) \in Nat /\ \A i \in DOMAIN s : s[i] \in Chunk /\ i \in Nat
  BY LenProperties, ElementOfSeq
<1>2. \A i \in DOMAIN s : score[s[i].text] \in Int
  BY <1>1 DEF Chunk
<1>3. ASSUME NEW x \in Elements(s), NEW y \in Elements(s), <<x, y>> \in Ranked(score, s)
      PROVE  /\ score[x.text] \in Int /\ score[y.text] \in Int /\ score[y.text] <= score[x.text]
             /\ ~ (<<y, x>> \in Ranked(score, s))
  <2>1. PICK a \in DOMAIN s, b \in DOMAIN s : x = s[a] /\ y = s[b] /\ Above(score, s, a, b)
    BY <1>3 DEF Ranked
  <2>2. ASSUME <<y, x>> \in Ranked(score, s) PROVE FALSE
    <3>1. PICK c \in DOMAIN s, e \in DOMAIN s : y = s[c] /\ x = s[e] /\ Above(score, s, c, e)
      BY <2>2 DEF Ranked
    <3>2. c = b /\ e = a
      BY <2>1, <3>1 DEF Unrepeated
    <3>3. QED
      BY <1>1, <1>2, <2>1, <3>1, <3>2 DEF Above
  <2>3. QED
    BY <1>1, <1>2, <2>1, <2>2 DEF Above
<1>4. QED
  BY <1>3

LEMMA ByScoreIs ==
  ASSUME NEW s \in Seq(Chunk), NEW score \in [VecTexts -> Int], Unrepeated(s)
  PROVE  LET t == ByScore(score, s) IN
         /\ t \in Seq(Chunk) /\ Len(t) = Len(s) /\ Elements(t) = Elements(s)
         /\ InRank(t, score, s)
<1> DEFINE t == ByScore(score, s)
           n == Len(s)
           places == DOMAIN s
           order == {p \in places \X places : Above(score, s, p[1], p[2])}
<1>1. places = 1..n /\ n \in Nat /\ \A i \in places : s[i] \in Chunk /\ score[s[i].text] \in Int
  <2>1. places = 1..n /\ n \in Nat /\ \A i \in places : s[i] \in Chunk
    BY LenProperties, ElementOfSeq
  <2>2. \A c \in Chunk : score[c.text] \in Int
    BY DEF Chunk
  <2>3. QED
    BY <2>1, <2>2
<1>2. \A i, j \in places : <<i, j>> \in order <=> Above(score, s, i, j)
  OBVIOUS
<1>3. t = Arranged(s, places, order)
  BY DEF ByScore, Above
<1> HIDE DEF n, t, order
<1>4. IsOrder(places, order)
  <2> DEFINE v == [i \in places |-> score[s[i].text]]
  <2>1. \A i \in places : v[i] \in Int /\ i \in Int
    BY <1>1
  <2>2. \A i, j \in places : <<i, j>> \in order <=> (v[i] > v[j] \/ (v[i] = v[j] /\ i < j))
    BY <1>2 DEF Above
  <2> HIDE DEF v
  <2>3. QED
    BY <2>1, <2>2, OrderByValue
<1>5. IsArranged(t, Chunk, s, places, order)
  <2>1. places \in SUBSET (DOMAIN s)
    OBVIOUS
  <2>2. QED
    BY <1>3, <1>4, <2>1, ArrangedFacts
<1>6. Len(t) = Len(s)
  <2>1. Cardinality(places) = n
    BY <1>1, FS_Interval
  <2>2. QED
    BY <1>5, <2>1 DEF IsArranged, n
<1>7. PICK p : IsPicked(t, s, p, places, order)
  BY <1>5 DEF IsArranged
<1>8. ASSUME NEW i \in DOMAIN t, NEW j \in DOMAIN t, i < j PROVE <<t[i], t[j]>> \in Ranked(score, s)
  <2>1. <<p[i], p[j]>> \in order /\ t[i] = s[p[i]] /\ t[j] = s[p[j]]
    BY <1>7, <1>8 DEF IsPicked
  <2>2. p[i] \in places /\ p[j] \in places /\ Above(score, s, p[i], p[j])
    BY <2>1 DEF order
  <2>3. QED
    BY <1>1, <2>1, <2>2 DEF Ranked
<1>9. t \in Seq(Chunk) /\ Elements(t) = Elements(s)
  BY <1>5 DEF IsArranged, Elements
<1>10. QED
  BY <1>6, <1>8, <1>9 DEF InRank, t

\* What is ranked has nothing twice.
LEMMA InRankUnrepeated ==
  ASSUME NEW s \in Seq(Chunk), NEW score \in [VecTexts -> Int], Unrepeated(s),
         NEW t \in Seq(Chunk), Elements(t) \subseteq Elements(s), InRank(t, score, s)
  PROVE  Unrepeated(t)
<1>1. DOMAIN t = 1..Len(t) /\ Len(t) \in Nat
  BY LenProperties
<1>2. ASSUME NEW i \in DOMAIN t, NEW j \in DOMAIN t, t[i] = t[j] PROVE i = j
  <2>1. t[i] \in Elements(s) /\ ~ (<<t[i], t[i]>> \in Ranked(score, s))
    BY RankedIs DEF Elements
  <2>2. ~ (i < j) /\ ~ (j < i)
    BY <1>2, <2>1 DEF InRank
  <2>3. QED
    BY <1>1, <2>2
<1>3. QED
  BY <1>2 DEF Unrepeated

\* What is left of a ranking, or its beginning, is ranked; and so is a ranking of what is left.
LEMMA OnlyInRank ==
  ASSUME NEW s, NEW score, NEW t \in Seq(Chunk), InRank(t, score, s), NEW S
  PROVE  InRank(Only(t, S), score, s)
<1> DEFINE o == Only(t, S)
<1>1. /\ o \in Seq(Chunk)
      /\ \E p : /\ p \in [1..Len(o) -> DOMAIN t]
                /\ \A i, j \in 1..Len(o) : i < j => p[i] < p[j]
                /\ \A k \in 1..Len(o) : o[k] = t[p[k]]
  BY OnlyFacts
<1> HIDE DEF o
<1>2. PICK p : /\ p \in [1..Len(o) -> DOMAIN t]
               /\ \A i, j \in 1..Len(o) : i < j => p[i] < p[j]
               /\ \A k \in 1..Len(o) : o[k] = t[p[k]]
  BY <1>1
<1>3. DOMAIN o = 1..Len(o)
  BY <1>1, LenProperties
<1>4. InRank(o, score, s)
  BY <1>2, <1>3 DEF InRank
<1>5. QED
  BY <1>4 DEF o

LEMMA FirstInRank ==
  ASSUME NEW s, NEW score, NEW t \in Seq(Chunk), InRank(t, score, s), NEW n \in Nat
  PROVE  InRank(First(n, t), score, s)
<1>1. DOMAIN t = 1..Len(t) /\ Len(t) \in Nat
  BY LenProperties
<1>2. /\ DOMAIN First(n, t) = 1..Least(n, Len(t)) /\ Least(n, Len(t)) \in Nat /\ Least(n, Len(t)) <= Len(t)
      /\ \A i \in 1..Least(n, Len(t)) : First(n, t)[i] = t[i]
  BY BeginFacts
<1>3. QED
  BY <1>1, <1>2 DEF InRank

LEMMA RankedOfOnly ==
  ASSUME NEW s \in Seq(Chunk), NEW score, NEW S
  PROVE  Ranked(score, Only(s, S)) \subseteq Ranked(score, s)
<1> DEFINE o == Only(s, S)
<1>1. /\ o \in Seq(Chunk)
      /\ \E p : /\ p \in [1..Len(o) -> DOMAIN s]
                /\ \A i, j \in 1..Len(o) : i < j => p[i] < p[j]
                /\ \A k \in 1..Len(o) : o[k] = s[p[k]]
  BY OnlyFacts
<1> HIDE DEF o
<1>2. PICK p : /\ p \in [1..Len(o) -> DOMAIN s]
               /\ \A i, j \in 1..Len(o) : i < j => p[i] < p[j]
               /\ \A k \in 1..Len(o) : o[k] = s[p[k]]
  BY <1>1
<1>3. DOMAIN o = 1..Len(o)
  BY <1>1, LenProperties
<1>4. ASSUME NEW r \in Ranked(score, o) PROVE r \in Ranked(score, s)
  <2>1. PICK a \in DOMAIN o, b \in DOMAIN o : r = <<o[a], o[b]>> /\ Above(score, o, a, b)
    BY <1>4 DEF Ranked
  <2>2. p[a] \in DOMAIN s /\ p[b] \in DOMAIN s /\ r = <<s[p[a]], s[p[b]]>> /\ r \in Chunk \X Chunk
    BY <1>2, <1>3, <1>4, <2>1 DEF Ranked
  <2>3. Above(score, s, p[a], p[b])
    BY <1>2, <1>3, <2>1 DEF Above
  <2>4. QED
    BY <2>2, <2>3 DEF Ranked
<1>5. QED
  BY <1>4 DEF o

\* The beginning of what has nothing twice, too.
LEMMA FirstUnrepeated ==
  ASSUME NEW t \in Seq(Chunk), Unrepeated(t), NEW n \in Nat
  PROVE  /\ First(n, t) \in Seq(Chunk) /\ Unrepeated(First(n, t)) /\ Elements(First(n, t)) \subseteq Elements(t)
         /\ IsFiniteSet(Elements(First(n, t)))
         /\ Cardinality(Elements(First(n, t))) = Least(n, Len(t)) /\ Len(First(n, t)) = Least(n, Len(t))
<1> DEFINE u == First(n, t)
<1>1. DOMAIN t = 1..Len(t) /\ Len(t) \in Nat
  BY LenProperties
<1>2. /\ u \in Seq(Chunk) /\ Len(u) = Least(n, Len(t)) /\ DOMAIN u = 1..Least(n, Len(t))
      /\ Least(n, Len(t)) \in Nat /\ Least(n, Len(t)) <= Len(t)
      /\ \A i \in 1..Least(n, Len(t)) : u[i] = t[i]
  BY BeginFacts
<1> HIDE DEF u
<1>3. \A i \in DOMAIN u : i \in DOMAIN t /\ u[i] = t[i]
  BY <1>1, <1>2
<1>4. Unrepeated(u) /\ Elements(u) \subseteq Elements(t)
  BY <1>3 DEF Unrepeated, Elements
<1>5. IsFiniteSet(Elements(u)) /\ Cardinality(Elements(u)) = Len(u)
  BY <1>2, <1>4, CountDistinct DEF Unrepeated
<1>6. QED
  BY <1>2, <1>4, <1>5 DEF u

------------------------------------------------------------------------------
(* Searches. *)

Scope(f) == {c \in Elements(memory) : c.gone = 0 /\ InScope(c.doc, f)}

\* The chunks that are searched: those in scope, each once.
LEMMA MatchingIs ==
  ASSUME VecInv, NEW f
  PROVE  LET m == Matching_(memory, f) IN
         /\ m \in Seq(Chunk) /\ Elements(m) = Scope(f) /\ Unrepeated(m) /\ SqlMatching(f) = m
         /\ \A c, e \in Scope(f) : Id(c) = Id(e) => c = e
         /\ IsFiniteSet(Scope(f)) /\ Cardinality(Scope(f)) = Len(m) /\ Len(m) \in Nat
<1> DEFINE m == Matching_(memory, f)
           S == Scope(f)
           u == [id \in {Id(c) : c \in Elements(memory) \cap S} |-> sqlite[id]]
<1>1. Mirror(memory, sqlite) /\ memory \in Seq(Chunk) /\ Single(memory)
  BY DEF VecInv, Mirror
<1>2. m = Only(memory, S)
  BY DEF Matching_, Scope
<1>3. S \subseteq Elements(memory)
  BY DEF Scope
<1>4. SqlMatching(f) = m
  BY <1>1, RowsAre DEF SqlMatching
<1>5. \A c, e \in Elements(memory) : Id(c) = Id(e) => c = e
  BY <1>1 DEF Single, Elements
<1> HIDE DEF S, m
<1>6. m \in Seq(Chunk) /\ Elements(m) = S
  <2>1. Only(memory, S) \in Seq(Chunk) /\ Elements(Only(memory, S)) = Elements(memory) \cap S
    BY <1>1, OnlyFacts
  <2>2. QED
    BY <1>2, <1>3, <2>1
<1>7. Single(m)
  <2>1. DOMAIN u = {Id(c) : c \in Elements(memory) \cap S} /\ \A id \in DOMAIN u : u[id] = sqlite[id]
    OBVIOUS
  <2> HIDE DEF u
  <2>2. Mirror(Only(memory, S), u)
    BY <1>1, <2>1, OnlyMirrors
  <2>3. QED
    BY <1>2, <2>2 DEF Mirror
<1>8. Unrepeated(m)
  BY <1>7 DEF Single, Unrepeated
<1>9. IsFiniteSet(S) /\ Cardinality(S) = Len(m) /\ Len(m) \in Nat
  BY <1>6, <1>8, CountDistinct DEF Unrepeated
<1>10. QED
  BY <1>3, <1>4, <1>5, <1>6, <1>8, <1>9 DEF S, m

\* The best of a ranking, and what it leaves out.
LEMMA BestAreFirst ==
  ASSUME NEW s \in Seq(Chunk), NEW score \in [VecTexts -> Int], Unrepeated(s), NEW k \in Nat
  PROVE  LET best == First(k, ByScore(score, s)) IN
         /\ Len(best) = Least(k, Len(s)) /\ Elements(best) \subseteq Elements(s)
         /\ \A c \in Elements(s) \ Elements(best), e \in Elements(best) : score[c.text] <= score[e.text]
<1> DEFINE t == ByScore(score, s)
           best == First(k, t)
<1>1. t \in Seq(Chunk) /\ Len(t) = Len(s) /\ Elements(t) = Elements(s) /\ InRank(t, score, s)
  BY ByScoreIs
<1> HIDE DEF t
<1>2. DOMAIN t = 1..Len(t) /\ Len(t) \in Nat
  BY <1>1, LenProperties
<1>3. /\ Len(best) = Least(k, Len(t)) /\ DOMAIN best = 1..Least(k, Len(t))
      /\ Least(k, Len(t)) \in Nat /\ Least(k, Len(t)) <= Len(t)
      /\ \A i \in 1..Least(k, Len(t)) : best[i] = t[i]
  BY <1>1, BeginFacts
<1> DEFINE n == Least(k, Len(t))
<1> HIDE DEF best, n
<1>4. /\ Len(best) = n /\ DOMAIN best = 1..n /\ n \in Nat /\ n <= Len(t) /\ \A i \in 1..n : best[i] = t[i]
  BY <1>3 DEF n
<1>5. Elements(best) \subseteq Elements(s)
  <2>1. \A i \in DOMAIN best : i \in DOMAIN t /\ best[i] = t[i]
    BY <1>2, <1>4
  <2>2. QED
    BY <1>1, <2>1 DEF Elements
<1>6. ASSUME NEW c \in Elements(s) \ Elements(best), NEW e \in Elements(best)
      PROVE  score[c.text] <= score[e.text]
  <2>1. PICK i \in DOMAIN best : e = best[i]
    BY DEF Elements
  <2>2. PICK j \in DOMAIN t : c = t[j]
    BY <1>1 DEF Elements
  <2>3. ~ (j \in 1..n)
    BY <1>4, <2>2 DEF Elements
  <2>4. i < j /\ i \in DOMAIN t /\ e = t[i]
    BY <1>2, <1>4, <2>1, <2>2, <2>3
  <2>5. <<e, c>> \in Ranked(score, s)
    BY <1>1, <2>2, <2>4 DEF InRank
  <2>6. e \in Elements(s) /\ c \in Elements(s)
    BY <1>5
  <2>7. QED
    BY <2>5, <2>6, RankedIs
<1>7. QED
  BY <1>1, <1>4, <1>5, <1>6 DEF best, n, t

\* The chunks with a word of the query stand before those with none, so that those of the
\* first k are the first of them.
LEMMA LexicalSame ==
  ASSUME NEW s \in Seq(Chunk), Unrepeated(s), NEW k \in Nat
  PROVE  InQuery(First(k, ByScore(Overlapping, s))) = First(k, ByScore(Overlapping, InQuery(s)))
<1> DEFINE score == Overlapping
           pos(u) == {c \in Elements(u) : score[c.text] > 0}
           hit == {c \in Elements(s) : score[c.text] > 0}
           a == ByScore(score, s)
           o == Only(s, hit)
           b == ByScore(score, o)
           R == Ranked(score, s)
<1>1. score \in [VecTexts -> Int]
  BY VectorStoresAssumption DEF VecTexts
<1>2. \A u : InQuery(u) = Only(u, pos(u))
  BY DEF InQuery
<1>3. InQuery(s) = o
  BY <1>2
<1> HIDE DEF score
<1>4. a \in Seq(Chunk) /\ Elements(a) = Elements(s) /\ InRank(a, score, s)
  BY <1>1, ByScoreIs
<1>5. /\ o \in Seq(Chunk) /\ Elements(o) = hit
      /\ \E p : /\ p \in [1..Len(o) -> DOMAIN s]
                /\ \A i, j \in 1..Len(o) : i < j => p[i] < p[j]
                /\ \A n \in 1..Len(o) : o[n] = s[p[n]]
  <2>1. hit \subseteq Elements(s)
    OBVIOUS
  <2> HIDE DEF hit, o
  <2>2. /\ o \in Seq(Chunk) /\ Elements(o) = Elements(s) \cap hit
        /\ \E p : /\ p \in [1..Len(o) -> DOMAIN s]
                  /\ \A i, j \in 1..Len(o) : i < j => p[i] < p[j]
                  /\ \A n \in 1..Len(o) : o[n] = s[p[n]]
    BY OnlyFacts DEF o
  <2>3. QED
    BY <2>1, <2>2
<1> HIDE DEF a, o, hit
<1>6. Unrepeated(o)
  <2>1. PICK p : /\ p \in [1..Len(o) -> DOMAIN s]
                 /\ \A i, j \in 1..Len(o) : i < j => p[i] < p[j]
                 /\ \A n \in 1..Len(o) : o[n] = s[p[n]]
    BY <1>5
  <2>2. DOMAIN o = 1..Len(o) /\ Len(o) \in Nat /\ DOMAIN s = 1..Len(s) /\ Len(s) \in Nat
    BY <1>5, LenProperties
  <2>3. ASSUME NEW i \in DOMAIN o, NEW j \in DOMAIN o, o[i] = o[j] PROVE i = j
    <3>1. p[i] = p[j] /\ p[i] \in Int
      BY <2>1, <2>2, <2>3 DEF Unrepeated
    <3>2. ~ (i < j) /\ ~ (j < i)
      BY <2>1, <2>2, <3>1
    <3>3. QED
      BY <2>2, <3>2
  <2>4. QED
    BY <2>3 DEF Unrepeated
<1>7. b \in Seq(Chunk) /\ Elements(b) = hit /\ InRank(b, score, s)
  <2>1. b \in Seq(Chunk) /\ Elements(b) = hit /\ InRank(b, score, o)
    BY <1>1, <1>5, <1>6, ByScoreIs
  <2>2. Ranked(score, o) \subseteq Ranked(score, s)
    BY RankedOfOnly DEF o
  <2>3. QED
    BY <2>1, <2>2 DEF InRank
<1> HIDE DEF b
<1>8. \A x, y \in Elements(s) : <<x, y>> \in R => /\ score[x.text] \in Int /\ score[y.text] \in Int
                                                /\ score[y.text] <= score[x.text]
                                                /\ ~ (<<y, x>> \in R)
  BY <1>1, RankedIs
<1>9. DOMAIN a = 1..Len(a) /\ Len(a) \in Nat
  BY <1>4, LenProperties
<1> HIDE DEF R
\* The first m of a are those with a word of the query.
<1>10. \E m \in Nat : m <= Len(a) /\ \A i \in DOMAIN a : a[i] \in hit <=> i <= m
  <2> DEFINE l == Len(a)
             miss == {i \in Nat : i > 0 /\ (i > l \/ a[i] \notin hit)}
  <2>1. l \in Nat /\ DOMAIN a = 1..l
    BY <1>9
  <2> HIDE DEF l
  <2>2. miss \in SUBSET Nat /\ l + 1 \in miss
    BY <2>1
  <2>3. PICK n \in miss : (\A j \in miss : n <= j) /\ \A j \in Nat : j < n => j \notin miss
    BY <2>2, LeastNumber
  <2>4. n \in Nat /\ n > 0 /\ n <= l + 1 /\ (n > l \/ a[n] \notin hit)
    BY <2>2, <2>3
  <2>5. ASSUME NEW i \in DOMAIN a PROVE a[i] \in hit <=> i <= n - 1
    <3>1. i \in Nat /\ i > 0 /\ i <= l
      BY <2>1
    <3>2. CASE i < n
      <4>1. i \notin miss
        BY <2>3, <3>1, <3>2
      <4>2. QED
        BY <2>4, <3>1, <3>2, <4>1
    <3>3. CASE i = n
      <4>1. a[i] \notin hit
        BY <2>1, <2>4, <3>1, <3>3
      <4>2. ~ (i <= n - 1)
        BY <2>4, <3>1, <3>3
      <4>3. QED
        BY <4>1, <4>2
    <3>4. CASE n < i
      <4>1. n \in DOMAIN a /\ a[n] \notin hit
        BY <2>1, <2>4, <3>1, <3>4
      <4>2. <<a[n], a[i]>> \in R /\ a[n] \in Elements(s) /\ a[i] \in Elements(s)
        BY <1>4, <3>4, <4>1 DEF InRank, R, Elements
      <4>3. ~ (score[a[n].text] > 0)
        BY <4>1, <4>2 DEF hit
      <4>4. ~ (score[a[i].text] > 0)
        <5>1. /\ score[a[n].text] \in Int /\ score[a[i].text] \in Int
              /\ score[a[i].text] <= score[a[n].text]
          BY <1>8, <4>2
        <5>2. QED
          BY <4>3, <5>1
      <4>5. QED
        BY <2>4, <3>1, <3>4, <4>4 DEF hit
    <3>5. QED
      BY <2>4, <3>1, <3>2, <3>3, <3>4
  <2>6. n - 1 \in Nat /\ n - 1 <= l
    BY <2>1, <2>4
  <2>7. QED
    BY <2>5, <2>6 DEF l
<1>11. PICK m \in Nat : m <= Len(a) /\ \A i \in DOMAIN a : a[i] \in hit <=> i <= m
  BY <1>10
\* They are b.
<1>12. ASSUME NEW n \in Nat
       PROVE  /\ First(n, a) \in Seq(Chunk) /\ InRank(First(n, a), score, s)
              /\ Elements(First(n, a)) = {a[i] : i \in {j \in DOMAIN a : j <= n}}
  <2> DEFINE t == First(n, a)
             l == Least(n, Len(a))
  <2>1. /\ t \in Seq(Chunk) /\ DOMAIN t = 1..l /\ l \in Nat
        /\ \A i \in 1..l : t[i] = a[i]
    BY <1>4, BeginFacts
  <2>2. InRank(t, score, s)
    BY <1>4, FirstInRank
  <2>3. 1..l = {j \in DOMAIN a : j <= n}
    BY <1>9 DEF Least
  <2> HIDE DEF t, l
  <2>4. Elements(t) = {a[i] : i \in {j \in DOMAIN a : j <= n}}
    BY <2>1, <2>3 DEF Elements
  <2>5. QED
    BY <2>1, <2>2, <2>4 DEF t
<1>13. Elements(First(m, a)) = hit
  <2>1. ASSUME NEW c \in hit PROVE \E i \in DOMAIN a : c = a[i] /\ i <= m
    <3>1. c \in Elements(a)
      BY <1>4 DEF hit
    <3>2. PICK i \in DOMAIN a : c = a[i]
      BY <3>1 DEF Elements
    <3>3. QED
      BY <1>11, <3>2
  <2>2. Elements(First(m, a)) = {a[i] : i \in {j \in DOMAIN a : j <= m}}
    BY <1>11, <1>12
  <2>3. QED
    BY <1>11, <2>1, <2>2
<1>14. ASSUME NEW t \in Seq(Chunk), NEW u \in Seq(Chunk), InRank(t, score, s), InRank(u, score, s),
              Elements(t) = Elements(u), Elements(t) \subseteq Elements(s)
       PROVE  t = u
  <2>1. /\ \A i, j \in DOMAIN t : i < j => <<t[i], t[j]>> \in R
        /\ \A i, j \in DOMAIN u : i < j => <<u[i], u[j]>> \in R
    BY <1>14 DEF InRank, R
  <2>2. \A x, y \in Elements(t) : ~ (<<x, y>> \in R /\ <<y, x>> \in R)
    BY <1>8, <1>14
  <2>3. Elements(t) = Elements(u)
    BY <1>14
  <2> HIDE DEF R
  <2>4. QED
    BY <2>1, <2>2, <2>3, SameOrder, Zenon
<1>15. b = First(m, a)
  <2>1. hit \subseteq Elements(s)
    BY DEF hit
  <2>2. QED
    BY <1>7, <1>11, <1>12, <1>13, <1>14, <2>1
<1>16. ASSUME NEW t, t = First(k, a)
       PROVE  InQuery(t) \in Seq(Chunk) /\ InRank(InQuery(t), score, s) /\ Elements(InQuery(t)) = Elements(t) \cap hit
  <2>1. t \in Seq(Chunk) /\ InRank(t, score, s) /\ Elements(t) \subseteq Elements(s)
    <3>1. t \in Seq(Chunk) /\ InRank(t, score, s) /\ Elements(t) = {a[i] : i \in {j \in DOMAIN a : j <= k}}
      BY <1>12, <1>16
    <3>2. Elements(t) \subseteq Elements(a)
      BY <3>1 DEF Elements
    <3>3. QED
      BY <1>4, <3>1, <3>2
  <2>2. Elements(t) \cap pos(t) = Elements(t) \cap hit
    BY <2>1 DEF hit
  <2>3. InQuery(t) = Only(t, pos(t))
    BY <1>2
  <2> HIDE DEF pos
  <2>4. Only(t, pos(t)) \in Seq(Chunk) /\ Elements(Only(t, pos(t))) = Elements(t) \cap pos(t)
    BY <2>1, OnlyFacts
  <2>5. InRank(Only(t, pos(t)), score, s)
    BY <2>1, OnlyInRank
  <2>6. QED
    BY <2>2, <2>3, <2>4, <2>5
<1>17. First(k, b) \in Seq(Chunk) /\ InRank(First(k, b), score, s)
  BY <1>7, BeginFacts, FirstInRank
<1>18. Elements(First(k, b)) = {a[i] : i \in {j \in DOMAIN a : j <= k /\ j <= m}}
  <2> DEFINE t == First(k, b)
             l == Len(a)
  <2>0. l \in Nat /\ m \in Nat /\ m <= l /\ DOMAIN a = 1..l
    BY <1>9, <1>11
  <2>1. Len(b) = m /\ \A i \in 1..m : b[i] = a[i]
    <3>1. /\ Len(First(m, a)) = Least(m, l) /\ \A i \in 1..Least(m, l) : First(m, a)[i] = a[i]
      BY <1>4, <1>11, BeginFacts
    <3>2. Least(m, l) = m
      <4> HIDE DEF l
      <4>1. QED
        BY <2>0 DEF Least
    <3>3. QED
      BY <1>15, <3>1, <3>2
  <2>2. /\ DOMAIN t = 1..Least(k, m) /\ \A i \in 1..Least(k, m) : t[i] = b[i]
    BY <1>7, <2>1, BeginFacts
  <2> HIDE DEF t, l
  <2>3. 1..Least(k, m) = {j \in DOMAIN a : j <= k /\ j <= m}
    BY <2>0 DEF Least
  <2>4. \A i \in 1..Least(k, m) : t[i] = a[i]
    BY <2>0, <2>1, <2>2 DEF Least
  <2>5. Elements(t) = {a[i] : i \in {j \in DOMAIN a : j <= k /\ j <= m}}
    BY <2>2, <2>3, <2>4 DEF Elements
  <2>6. QED
    BY <2>5 DEF t
<1>19. Elements(First(k, a)) \cap hit = Elements(First(k, b))
  BY <1>11, <1>12, <1>18
<1>20. Elements(First(k, a)) \cap hit \subseteq Elements(s)
  BY DEF hit
<1>21. InQuery(First(k, a)) = First(k, b)
  BY <1>14, <1>16, <1>17, <1>19, <1>20
<1>22. QED
  BY <1>3, <1>21 DEF a, b, score

LEMMA ShareIs ==
  ASSUME NEW l \in Seq(Chunk), NEW c
  PROVE  Share(l, c) \in Int
<1> DEFINE ranks == {i \in DOMAIN l : l[i] = c}
           r == CHOOSE i \in ranks : TRUE
<1>1. \A i \in ranks : i \in Nat /\ i > 0
  BY LenProperties
<1>2. CASE ranks = {}
  BY <1>2 DEF Share
<1>3. CASE ranks # {}
  <2>1. r \in Nat /\ r > 0
    BY <1>1, <1>3
  <2>2. Share(l, c) = (61 * 62 * 63 * 64 * 65) \div (60 + r)
    BY <1>3 DEF Share
  <2> HIDE DEF r
  <2>3. QED
    BY <2>1, <2>2
<1>4. QED
  BY <1>2, <1>3

\* The order in which fused chunks are put: by their share, then by their ids.
LEMMA FusedOrder ==
  ASSUME NEW D, NEW total, NEW nth, NEW all, NEW order,
         \A i \in D : /\ total[i] \in Int /\ nth[i] \in Int /\ all[i].ver \in Int /\ all[i].idx \in Int,
         \A i, j \in D : nth[i] = nth[j] /\ all[i].ver = all[j].ver /\ all[i].idx = all[j].idx => i = j,
         \A i, j \in D : <<i, j>> \in order <=>
           \/ total[i] > total[j]
           \/ /\ total[i] = total[j]
              /\ \/ nth[i] < nth[j]
                 \/ nth[i] = nth[j] /\ all[i].ver < all[j].ver
                 \/ nth[i] = nth[j] /\ all[i].ver = all[j].ver /\ all[i].idx < all[j].idx
  PROVE  IsOrder(D, order)
<1>1. ASSUME NEW i \in D PROVE ~ (<<i, i>> \in order)
  OBVIOUS
<1>2. ASSUME NEW i \in D, NEW j \in D, NEW k \in D, <<i, j>> \in order, <<j, k>> \in order
      PROVE  <<i, k>> \in order
  <2> DEFINE ti == total[i] tj == total[j] tk == total[k]
             ni == nth[i] nj == nth[j] nk == nth[k]
             vi == all[i].ver vj == all[j].ver vk == all[k].ver
             xi == all[i].idx xj == all[j].idx xk == all[k].idx
  <2>1. /\ ti \in Int /\ tj \in Int /\ tk \in Int /\ ni \in Int /\ nj \in Int /\ nk \in Int
        /\ vi \in Int /\ vj \in Int /\ vk \in Int /\ xi \in Int /\ xj \in Int /\ xk \in Int
    OBVIOUS
  <2>2. ti > tj \/ (ti = tj /\ (ni < nj \/ (ni = nj /\ vi < vj) \/ (ni = nj /\ vi = vj /\ xi < xj)))
    BY <1>2
  <2>3. tj > tk \/ (tj = tk /\ (nj < nk \/ (nj = nk /\ vj < vk) \/ (nj = nk /\ vj = vk /\ xj < xk)))
    BY <1>2
  <2>4. (ti > tk \/ (ti = tk /\ (ni < nk \/ (ni = nk /\ vi < vk) \/ (ni = nk /\ vi = vk /\ xi < xk))))
          => <<i, k>> \in order
    OBVIOUS
  <2> HIDE DEF ti, tj, tk, ni, nj, nk, vi, vj, vk, xi, xj, xk
  <2>5. ti > tk \/ (ti = tk /\ (ni < nk \/ (ni = nk /\ vi < vk) \/ (ni = nk /\ vi = vk /\ xi < xk)))
    BY <2>1, <2>2, <2>3
  <2>6. QED
    BY <2>4, <2>5
<1>3. ASSUME NEW i \in D, NEW j \in D, i # j PROVE <<i, j>> \in order \/ <<j, i>> \in order
  <2>1. ~ (nth[i] = nth[j] /\ all[i].ver = all[j].ver /\ all[i].idx = all[j].idx)
    BY <1>3
  <2>2. QED
    BY <2>1
<1>4. QED
  BY <1>1, <1>2, <1>3 DEF IsOrder

\* Two rankings are fused to one of all their chunks.
LEMMA FusedIs ==
  ASSUME NEW l \in Seq(Chunk), NEW m \in Seq(Chunk), Unrepeated(l), Unrepeated(m), NEW S,
         Elements(l) \cup Elements(m) \subseteq S, \A c, e \in S : Id(c) = Id(e) => c = e
  PROVE  LET t == FusedLists(l, m) IN
         /\ t \in Seq(Chunk) /\ Unrepeated(t) /\ Elements(t) = Elements(l) \cup Elements(m)
<1> DEFINE rest == Elements(m) \ Elements(l)
           o == Only(m, rest)
           all == l \o o
           places == DOMAIN all
           total == [i \in places |-> Share(l, all[i]) + Share(m, all[i])]
           nth == [i \in places |-> CHOOSE n \in DOMAIN StoreDocs : StoreDocs[n] = all[i].doc]
           order == {p \in places \X places :
                       \/ total[p[1]] > total[p[2]]
                       \/ /\ total[p[1]] = total[p[2]]
                          /\ \/ nth[p[1]] < nth[p[2]]
                             \/ nth[p[1]] = nth[p[2]] /\ all[p[1]].ver < all[p[2]].ver
                             \/ /\ nth[p[1]] = nth[p[2]] /\ all[p[1]].ver = all[p[2]].ver
                                /\ all[p[1]].idx < all[p[2]].idx}
           t == FusedLists(l, m)
<1>1. t = Arranged(all, places, order)
  BY DEF FusedLists
<1>2. \A i, j \in places : <<i, j>> \in order <=>
        \/ total[i] > total[j]
        \/ /\ total[i] = total[j]
           /\ \/ nth[i] < nth[j]
              \/ nth[i] = nth[j] /\ all[i].ver < all[j].ver
              \/ nth[i] = nth[j] /\ all[i].ver = all[j].ver /\ all[i].idx < all[j].idx
  OBVIOUS
<1>3. /\ o \in Seq(Chunk) /\ Elements(o) = Elements(m) \cap rest
      /\ \E p : /\ p \in [1..Len(o) -> DOMAIN m]
                /\ \A i, j \in 1..Len(o) : i < j => p[i] < p[j]
                /\ \A n \in 1..Len(o) : o[n] = m[p[n]]
  <2> HIDE DEF rest
  <2>1. QED
    BY OnlyFacts
<1> HIDE DEF t, order
<1>4. \A i \in places : total[i] = Share(l, all[i]) + Share(m, all[i])
  OBVIOUS
<1>5. \A i \in places : nth[i] = CHOOSE n \in DOMAIN StoreDocs : StoreDocs[n] = all[i].doc
  OBVIOUS
<1> HIDE DEF o, total, nth
<1>6. DOMAIN o = 1..Len(o) /\ Len(o) \in Nat /\ DOMAIN l = 1..Len(l) /\ Len(l) \in Nat
      /\ DOMAIN m = 1..Len(m) /\ Len(m) \in Nat
  BY <1>3, LenProperties
<1>7. Unrepeated(o)
  <2>1. PICK p : /\ p \in [1..Len(o) -> DOMAIN m]
                 /\ \A i, j \in 1..Len(o) : i < j => p[i] < p[j]
                 /\ \A n \in 1..Len(o) : o[n] = m[p[n]]
    BY <1>3
  <2>2. ASSUME NEW i \in DOMAIN o, NEW j \in DOMAIN o, o[i] = o[j] PROVE i = j
    <3>1. p[i] = p[j] /\ p[i] \in Int
      BY <1>6, <2>1, <2>2 DEF Unrepeated
    <3>2. ~ (i < j) /\ ~ (j < i)
      BY <1>6, <2>1, <3>1
    <3>3. QED
      BY <1>6, <3>2
  <2>3. QED
    BY <2>2 DEF Unrepeated
<1>8. /\ all \in Seq(Chunk) /\ Len(all) = Len(l) + Len(o)
      /\ \A i \in 1..(Len(l) + Len(o)) : all[i] = IF i <= Len(l) THEN l[i] ELSE o[i - Len(l)]
  BY <1>3, ConcatProperties
<1>9. places = 1..(Len(l) + Len(o))
  BY <1>8, LenProperties
<1> HIDE DEF all
<1> DEFINE a == Len(l)
           b == Len(o)
<1>10. a \in Nat /\ b \in Nat /\ DOMAIN l = 1..a /\ DOMAIN o = 1..b /\ places = 1..(a + b)
  BY <1>6, <1>9
<1>11. \A i \in places : all[i] = IF i <= a THEN l[i] ELSE o[i - a]
  BY <1>8, <1>9
<1> HIDE DEF a, b
<1>12. \A i \in places : (i <= a => i \in DOMAIN l) /\ (~ (i <= a) => i - a \in DOMAIN o /\ i = a + (i - a))
  BY <1>10
<1>13. /\ \A i \in DOMAIN l : i \in places /\ all[i] = l[i]
       /\ \A i \in DOMAIN o : a + i \in places /\ all[a + i] = o[i]
  <2>1. \A i \in DOMAIN l : i \in places /\ i <= a
    BY <1>10
  <2>2. \A i \in DOMAIN o : a + i \in places /\ ~ (a + i <= a) /\ (a + i) - a = i
    BY <1>10
  <2>3. QED
    BY <1>11, <2>1, <2>2
<1>14. Elements(all) = Elements(l) \cup Elements(m)
  <2>1. \A i \in places : all[i] \in Elements(l) \cup Elements(o)
    BY <1>11, <1>12 DEF Elements
  <2>2. Elements(l) \cup Elements(o) \subseteq Elements(all)
    BY <1>13 DEF Elements
  <2>3. Elements(all) = Elements(l) \cup Elements(o)
    BY <2>1, <2>2 DEF Elements
  <2>4. QED
    BY <1>3, <2>3
<1>15. Unrepeated(all)
  <2>1. ASSUME NEW i \in places, NEW j \in places, all[i] = all[j] PROVE i = j
    <3>1. CASE i <= a /\ j <= a
      BY <1>11, <1>12, <2>1, <3>1 DEF Unrepeated
    <3>2. CASE ~ (i <= a) /\ ~ (j <= a)
      <4>1. i - a = j - a
        BY <1>7, <1>11, <1>12, <2>1, <3>2 DEF Unrepeated
      <4>2. QED
        BY <1>10, <4>1
    <3>3. CASE i <= a /\ ~ (j <= a)
      <4>1. all[i] \in Elements(l) /\ all[j] \in Elements(o)
        BY <1>11, <1>12, <3>3 DEF Elements
      <4>2. QED
        BY <1>3, <2>1, <4>1
    <3>4. CASE ~ (i <= a) /\ j <= a
      <4>1. all[j] \in Elements(l) /\ all[i] \in Elements(o)
        BY <1>11, <1>12, <3>4 DEF Elements
      <4>2. QED
        BY <1>3, <2>1, <4>1
    <3>5. QED
      BY <3>1, <3>2, <3>3, <3>4
  <2>2. QED
    BY <2>1 DEF Unrepeated
<1>16. ASSUME NEW i \in places
       PROVE  /\ all[i] \in Chunk /\ all[i] \in S
              /\ nth[i] \in DOMAIN StoreDocs /\ StoreDocs[nth[i]] = all[i].doc
  <2>1. all[i] \in Chunk /\ all[i] \in S
    <3>1. all[i] \in Elements(all)
      BY DEF Elements
    <3>2. Elements(all) \subseteq S
      BY <1>14
    <3>3. all[i] \in Chunk
      BY <1>8, <1>9, ElementOfSeq
    <3>4. QED
      BY <3>1, <3>2, <3>3
  <2>2. \E n \in DOMAIN StoreDocs : StoreDocs[n] = all[i].doc
    BY <2>1 DEF Chunk, VecDocs, Elements
  <2>3. nth[i] \in DOMAIN StoreDocs /\ StoreDocs[nth[i]] = all[i].doc
    BY <1>5, <2>2
  <2>4. QED
    BY <2>1, <2>3
<1>17. \A n \in DOMAIN StoreDocs : n \in Int
  BY VectorStoresAssumption, LenProperties
<1>18. \A i \in places : total[i] \in Int /\ nth[i] \in Int /\ all[i].ver \in Int /\ all[i].idx \in Int
  <2>1. ASSUME NEW i \in places
        PROVE  total[i] \in Int /\ nth[i] \in Int /\ all[i].ver \in Int /\ all[i].idx \in Int
    <3>1. Share(l, all[i]) \in Int /\ Share(m, all[i]) \in Int
      BY ShareIs
    <3>2. nth[i] \in Int /\ all[i].ver \in Int /\ all[i].idx \in Int
      BY <1>16, <1>17 DEF Chunk
    <3>3. QED
      BY <1>4, <3>1, <3>2
  <2>2. QED
    BY <2>1
<1>19. \A i, j \in places : nth[i] = nth[j] /\ all[i].ver = all[j].ver /\ all[i].idx = all[j].idx => i = j
  <2>1. ASSUME NEW i \in places, NEW j \in places,
               nth[i] = nth[j], all[i].ver = all[j].ver, all[i].idx = all[j].idx
        PROVE  i = j
    <3>1. all[i].doc = all[j].doc
      BY <1>16, <2>1
    <3>2. Id(all[i]) = Id(all[j])
      BY <2>1, <3>1 DEF Id
    <3>3. all[i] = all[j]
      BY <1>16, <3>2
    <3>4. QED
      BY <1>15, <3>3 DEF Unrepeated
  <2>2. QED
    BY <2>1
<1>20. IsOrder(places, order)
  BY <1>2, <1>18, <1>19, FusedOrder
<1>21. IsArranged(t, Chunk, all, places, order)
  <2>1. places \in SUBSET (DOMAIN all)
    OBVIOUS
  <2>2. QED
    BY <1>1, <1>8, <1>20, <2>1, ArrangedFacts
<1>22. t \in Seq(Chunk) /\ Elements(t) = Elements(all)
  BY <1>21 DEF IsArranged, Elements
<1>23. Unrepeated(t)
  <2>1. PICK p : IsPicked(t, all, p, places, order)
    BY <1>21 DEF IsArranged
  <2>2. ASSUME NEW i \in DOMAIN t, NEW j \in DOMAIN t, t[i] = t[j] PROVE i = j
    <3>1. /\ p[i] \in places /\ p[j] \in places /\ t[i] = all[p[i]] /\ t[j] = all[p[j]]
          /\ i \in Nat /\ j \in Nat
      BY <2>1 DEF IsPicked, Elements
    <3>2. p[i] = p[j]
      BY <1>15, <2>2, <3>1 DEF Unrepeated
    <3>3. ~ (<<p[i], p[i]>> \in order)
      BY <1>20, <3>1 DEF IsOrder
    <3>4. ~ (i < j) /\ ~ (j < i)
      BY <2>1, <3>2, <3>3 DEF IsPicked
    <3>5. QED
      BY <3>1, <3>4
  <2>3. QED
    BY <2>2 DEF Unrepeated
<1>24. QED
  BY <1>14, <1>22, <1>23 DEF t

\* Of the fused rankings as many are found as are in scope, up to k.
LEMMA HybridIs ==
  ASSUME VecInv, NEW f, NEW k \in Nat, NEW found \in {MemHybrid(f, k), SqlHybrid(f, k)}
  PROVE  /\ Cardinality(Elements(found)) = Least(k, Cardinality(Scope(f)))
         /\ Elements(found) \subseteq Scope(f)
<1> DEFINE m == Matching_(memory, f)
           S == Scope(f)
           dense == ByScore(Similar, m)
           lexical == ByScore(Overlapping, m)
           few == First(2 * k, dense)
           some == First(2 * k, m)
<1>1. /\ m \in Seq(Chunk) /\ Elements(m) = S /\ Unrepeated(m) /\ SqlMatching(f) = m
      /\ \A c, e \in S : Id(c) = Id(e) => c = e
      /\ IsFiniteSet(S) /\ Cardinality(S) = Len(m) /\ Len(m) \in Nat
  BY MatchingIs
<1>2. Similar \in [VecTexts -> Int] /\ Overlapping \in [VecTexts -> Int] /\ 2 * k \in Nat
  BY VectorStoresAssumption DEF VecTexts
<1>3. /\ MemHybrid(f, k) = First(k, FusedLists(dense, lexical))
      /\ SqlHybrid(f, k) = First(k, FusedLists(few, some))
  BY <1>1 DEF MemHybrid, SqlHybrid, SqlDense
<1> HIDE DEF m, S
<1>4. /\ dense \in Seq(Chunk) /\ Elements(dense) = S /\ Len(dense) = Len(m) /\ Unrepeated(dense)
      /\ lexical \in Seq(Chunk) /\ Elements(lexical) = S /\ Unrepeated(lexical)
  BY <1>1, <1>2, ByScoreIs, InRankUnrepeated
<1> HIDE DEF dense, lexical
<1>5. /\ few \in Seq(Chunk) /\ Unrepeated(few) /\ Elements(few) \subseteq S
      /\ IsFiniteSet(Elements(few)) /\ Cardinality(Elements(few)) = Least(2 * k, Len(m))
  BY <1>2, <1>4, FirstUnrepeated
<1>6. some \in Seq(Chunk) /\ Unrepeated(some) /\ Elements(some) \subseteq S
  BY <1>1, <1>2, FirstUnrepeated
<1> HIDE DEF few, some
<1>7. ASSUME NEW t \in Seq(Chunk), Unrepeated(t), Elements(t) \subseteq S,
             Least(2 * k, Len(m)) <= Cardinality(Elements(t))
      PROVE  /\ Cardinality(Elements(First(k, t))) = Least(k, Cardinality(S))
             /\ Elements(First(k, t)) \subseteq S
  <2>1. Cardinality(Elements(t)) = Len(t) /\ Len(t) \in Nat
    BY <1>7, CountDistinct DEF Unrepeated
  <2>2. Cardinality(Elements(t)) <= Cardinality(S)
    BY <1>1, <1>7, FS_Subset
  <2>3. /\ Elements(First(k, t)) \subseteq Elements(t)
        /\ Cardinality(Elements(First(k, t))) = Least(k, Len(t))
    BY <1>7, FirstUnrepeated
  <2> DEFINE a == Len(t)
             b == Len(m)
  <2>4. a \in Nat /\ b \in Nat /\ a <= b /\ Least(2 * k, b) <= a /\ Cardinality(S) = b
    BY <1>1, <1>7, <2>1, <2>2
  <2> HIDE DEF a, b
  <2>5. Least(k, a) = Least(k, b)
    BY <2>4 DEF Least
  <2>6. QED
    BY <1>7, <2>3, <2>4, <2>5 DEF a
<1>8. /\ FusedLists(dense, lexical) \in Seq(Chunk) /\ Unrepeated(FusedLists(dense, lexical))
      /\ Elements(FusedLists(dense, lexical)) = S
  <2>1. Elements(dense) \cup Elements(lexical) \subseteq S /\ Elements(dense) \cup Elements(lexical) = S
    BY <1>4
  <2>2. /\ FusedLists(dense, lexical) \in Seq(Chunk) /\ Unrepeated(FusedLists(dense, lexical))
        /\ Elements(FusedLists(dense, lexical)) = Elements(dense) \cup Elements(lexical)
    BY <1>1, <1>4, <2>1, FusedIs
  <2>3. QED
    BY <2>1, <2>2
<1>9. /\ FusedLists(few, some) \in Seq(Chunk) /\ Unrepeated(FusedLists(few, some))
      /\ Elements(FusedLists(few, some)) = Elements(few) \cup Elements(some)
  BY <1>1, <1>5, <1>6, FusedIs
<1>10. Least(2 * k, Len(m)) <= Cardinality(S)
  <2> DEFINE b == Len(m)
  <2>1. b \in Nat /\ Cardinality(S) = b
    BY <1>1
  <2> HIDE DEF b
  <2>2. Least(2 * k, b) <= b
    BY <2>1 DEF Least
  <2>3. QED
    BY <2>1, <2>2 DEF b
<1>11. Least(2 * k, Len(m)) <= Cardinality(Elements(few) \cup Elements(some))
  <2>1. IsFiniteSet(Elements(few) \cup Elements(some))
    BY <1>1, <1>5, <1>6, FS_Subset
  <2>2. Cardinality(Elements(few)) <= Cardinality(Elements(few) \cup Elements(some))
    BY <2>1, FS_Subset
  <2>3. QED
    BY <1>5, <2>2
<1>12. CASE found = MemHybrid(f, k)
  BY <1>3, <1>7, <1>8, <1>10, <1>12 DEF S
<1>13. CASE found = SqlHybrid(f, k)
  BY <1>3, <1>5, <1>6, <1>7, <1>9, <1>11, <1>13 DEF S
<1>14. QED
  BY <1>12, <1>13

LEMMA SearchesRight == VecInv => AnswersAgree /\ HybridFull /\ TenantScoped
<1> SUFFICES ASSUME VecInv PROVE AnswersAgree /\ HybridFull /\ TenantScoped
  OBVIOUS
<1>1. Similar \in [VecTexts -> Int] /\ Overlapping \in [VecTexts -> Int] /\ MaxTopK \in Nat
  BY VectorStoresAssumption DEF VecTexts
<1>2. ASSUME NEW f \in StoreFilters, NEW k \in 1..MaxTopK
      PROVE  LET dense == MemDense(f, k)
                 scope == {c \in Elements(memory) : c.gone = 0 /\ InScope(c.doc, f)} IN
             /\ SqlDense(f, k) = dense
             /\ InQuery(SqlLexical(f, k)) = MemLexical(f, k)
             /\ Len(dense) = Least(k, Cardinality(scope)) /\ Elements(dense) \subseteq scope
             /\ \A c \in scope \ Elements(dense), e \in Elements(dense) : Similar[c.text] <= Similar[e.text]
  <2> DEFINE m == Matching_(memory, f)
  <2>1. /\ m \in Seq(Chunk) /\ Elements(m) = Scope(f) /\ Unrepeated(m) /\ SqlMatching(f) = m
        /\ Cardinality(Scope(f)) = Len(m) /\ k \in Nat
    BY <1>1, MatchingIs
  <2>2. MemDense(f, k) = First(k, ByScore(Similar, m)) /\ SqlDense(f, k) = First(k, ByScore(Similar, m))
    BY <2>1 DEF MemDense, SqlDense
  <2>3. /\ MemLexical(f, k) = First(k, ByScore(Overlapping, InQuery(m)))
        /\ SqlLexical(f, k) = First(k, ByScore(Overlapping, m))
    BY <2>1 DEF MemLexical, SqlLexical
  <2> HIDE DEF m
  <2>4. InQuery(SqlLexical(f, k)) = MemLexical(f, k)
    BY <2>1, <2>3, LexicalSame
  <2> DEFINE best == First(k, ByScore(Similar, m))
  <2>5. /\ Len(best) = Least(k, Len(m)) /\ Elements(best) \subseteq Elements(m)
        /\ \A c \in Elements(m) \ Elements(best), e \in Elements(best) : Similar[c.text] <= Similar[e.text]
    BY <1>1, <2>1, BestAreFirst
  <2> HIDE DEF best
  <2>6. QED
    BY <2>1, <2>2, <2>4, <2>5 DEF best, Scope
<1>3. AnswersAgree
  BY <1>2 DEF AnswersAgree
<1>4. HybridFull
  <2>1. ASSUME NEW f \in StoreFilters, NEW k \in 1..MaxTopK, NEW found \in {MemHybrid(f, k), SqlHybrid(f, k)}
        PROVE  /\ Cardinality(Elements(found)) = Least(k, Cardinality(Scope(f)))
               /\ Elements(found) \subseteq Scope(f)
    <3>1. k \in Nat
      BY <1>1
    <3>2. QED
      BY <3>1, HybridIs
  <2>2. QED
    BY <2>1 DEF HybridFull, Scope
<1>5. ASSUME NEW f \in StoreFilters, f.tenant # None
      PROVE  LET others == {d \in Elements(StoreDocs) : DocTenant[d] \notin {None, f.tenant}} IN
             /\ \A c \in Elements(MemHybrid(f, MaxTopK)) \cup Elements(SqlHybrid(f, MaxTopK))
                         \cup FallbackFinds(f) : c.doc \notin others
             /\ \A id \in QdrantFinds(f) : id[1] \notin others
  <2>1. Elements(MemHybrid(f, MaxTopK)) \subseteq Scope(f) /\ Elements(SqlHybrid(f, MaxTopK)) \subseteq Scope(f)
    BY <1>1, HybridIs
  <2>2. FallbackFinds(f) \subseteq {c \in Elements(fallback) : c.gone = 0 /\ InScope(c.doc, f)}
    <3> DEFINE T == {c \in Elements(fallback) : c.gone = 0 /\ InScope(c.doc, f)}
    <3>1. FallbackFinds(f) = Elements(Only(fallback, T))
      BY DEF FallbackFinds, Matching_
    <3>2. fallback \in Seq(Chunk)
      BY DEF VecInv, VecTypes
    <3> HIDE DEF T
    <3>3. Elements(Only(fallback, T)) \subseteq T
      BY <3>2, OnlyFacts
    <3>4. QED
      BY <3>1, <3>3 DEF T
  <2>3. \A c \in Scope(f) : DocTenant[c.doc] \in {None, f.tenant}
    BY <1>5 DEF Scope, InScope
  <2>4. \A c \in FallbackFinds(f) : DocTenant[c.doc] \in {None, f.tenant}
    BY <1>5, <2>2 DEF InScope
  <2>5. \A id \in QdrantFinds(f) : DocTenant[id[1]] = f.tenant
    BY <1>5 DEF QdrantFinds
  <2>6. QED
    BY <2>1, <2>3, <2>4, <2>5
<1>6. TenantScoped
  BY <1>5 DEF TenantScoped
<1>7. QED
  BY <1>3, <1>4, <1>6

\* Whatever is put, deleted, put again and vacuumed, and however calls of Qdrant fail: SQLite
\* holds and answers what the memory store does, no search finds a chunk of another tenant
\* or leaves out a better one, and what was put last is found in Qdrant or beside it
\* (adapters_vector.py, adapters_sqlite_vector.py).
THEOREM VectorsStaySound ==
  VectorStoresSpec => [](/\ VectorStoresTypeOK /\ StoresAgree /\ AnswersAgree /\ HybridFull
                         /\ TenantScoped /\ NewestFindable /\ LeftoverIsTail)
<1>1. VectorStoresSpec => []VecInv
  BY VectorsStart, VectorStepKeeps, PTL DEF VectorStoresSpec
<1>2. QED
  BY <1>1, VecInvGives, SearchesRight, PTL

------------------------------------------------------------------------------
(* The parts in the whole. *)

workbenchVars == <<part, ingestion, stores, services, pages>>

LEMMA LettersInWhole == Workbench => DeadLettersSpec
<1>1. WorkbenchInit => DeadLettersInit
  BY DEF WorkbenchInit
<1>2. [WorkbenchNext]_workbenchVars => [DeadLettersNext]_dlqVars
  BY DEF WorkbenchNext, Reads, Chunks, Compiled, Secrets, Letters, Vectors, Objects, Models,
     Identities, CoreRuns, DatasetsPage, NotesPage, FeedPage, StudyPage, workbenchVars, stores
<1>3. QED
  BY <1>1, <1>2, PTL DEF Workbench, workbenchVars, DeadLettersSpec

LEMMA SecretsInWhole == Workbench => SecretSpec
<1>1. WorkbenchInit => SecretInit
  BY DEF WorkbenchInit
<1>2. [WorkbenchNext]_workbenchVars => [SecretNext]_secretVars
  BY DEF WorkbenchNext, Reads, Chunks, Compiled, Secrets, Letters, Vectors, Objects, Models,
     Identities, CoreRuns, DatasetsPage, NotesPage, FeedPage, StudyPage, workbenchVars, stores
<1>3. QED
  BY <1>1, <1>2, PTL DEF Workbench, workbenchVars, SecretSpec

LEMMA CoreInWhole == Workbench => McpSpec
<1>1. WorkbenchInit => McpInit
  BY DEF WorkbenchInit
<1>2. [WorkbenchNext]_workbenchVars => [McpNext]_coreVars
  BY DEF WorkbenchNext, Reads, Chunks, Compiled, Secrets, Letters, Vectors, Objects, Models,
     Identities, CoreRuns, DatasetsPage, NotesPage, FeedPage, StudyPage, workbenchVars, services
<1>3. QED
  BY <1>1, <1>2, PTL DEF Workbench, workbenchVars, McpSpec

LEMMA ObjectsInWhole == Workbench => ObjectSpec
<1>1. WorkbenchInit => ObjectInit
  BY DEF WorkbenchInit
<1>2. [WorkbenchNext]_workbenchVars => [ObjectNext]_objectVars
  BY DEF WorkbenchNext, Reads, Chunks, Compiled, Secrets, Letters, Vectors, Objects, Models,
     Identities, CoreRuns, DatasetsPage, NotesPage, FeedPage, StudyPage, workbenchVars, stores
<1>3. QED
  BY <1>1, <1>2, PTL DEF Workbench, workbenchVars, ObjectSpec

LEMMA VectorsInWhole == Workbench => VectorStoresSpec
<1>1. WorkbenchInit => VectorStoresInit
  BY DEF WorkbenchInit
<1>2. [WorkbenchNext]_workbenchVars => [VectorStoresNext]_storeVars
  BY DEF WorkbenchNext, Reads, Chunks, Compiled, Secrets, Letters, Vectors, Objects, Models,
     Identities, CoreRuns, DatasetsPage, NotesPage, FeedPage, StudyPage, workbenchVars, stores
<1>3. QED
  BY <1>1, <1>2, PTL DEF Workbench, workbenchVars, VectorStoresSpec

\* Beside everything else that runs, behind each port the adapters keep and answer alike
\* (the queue, the vector stores, the object stores), the queue in the database does what
\* the one in memory does, and the secrets are kept as above.
THEOREM WholeKeepsStores ==
  Workbench => []StoresSound /\ ActsLikeMemory /\ []SecretsSound
<1>1. DeadLettersSpec => [](RetriesCounted /\ RetryAnswer /\ NewestAreListed /\ DeletedIsGone)
  BY DlqInvariance, TableFinite, ItemsListed, CountsRetries, AnswersRetries, DeletesForGood, PTL
<1>2. QED
  BY <1>1, LettersInWhole, SecretsInWhole, VectorsInWhole, ObjectsInWhole, ImplementsMemoryDlq,
     SecretsStaySound, VectorsStaySound, ObjectsStaySound, PTL DEF StoresSound

LEMMA ReadsInWhole == Workbench => Spec
<1>1. WorkbenchInit => Init
  BY DEF WorkbenchInit
<1>2. [WorkbenchNext]_workbenchVars => [Next]_vars
  BY DEF WorkbenchNext, Reads, Chunks, Compiled, Secrets, Letters, Vectors, Objects, Models,
     Identities, CoreRuns, DatasetsPage, NotesPage, FeedPage, StudyPage, workbenchVars, ingestion
<1>3. QED
  BY <1>1, <1>2, PTL DEF Workbench, workbenchVars, Spec

\* And the server starts and answers its MCP callers as above, and connectors and their
\* syncs keep in step.
THEOREM WholeServes ==
  Workbench => /\ []CoreSound /\ []ConnectorsSound
               /\ [][NoReadWhileSovereign /\ SyncUsesSettings]_vars
BY CoreInWhole, CoreStaysSound, ReadsInWhole, ConnectorsStaySound, SyncsStartRight, PTL

LEMMA ServicesInWhole == Workbench => LlmSpec /\ IdentitySpec
<1>1. WorkbenchInit => LlmInit /\ IdentityInit
  BY DEF WorkbenchInit
<1>2. [WorkbenchNext]_workbenchVars => [LlmNext]_llmVars /\ [IdentityNext]_identityVars
  BY DEF WorkbenchNext, Reads, Chunks, Compiled, Secrets, Letters, Vectors, Objects, Models,
     Identities, CoreRuns, DatasetsPage, NotesPage, FeedPage, StudyPage, workbenchVars, services
<1>3. QED
  BY <1>1, <1>2, PTL DEF Workbench, workbenchVars, LlmSpec, IdentitySpec

\* And the model servers and the identity adapters do as above.
THEOREM WholeServices == Workbench => []ServicesSound
BY ServicesInWhole, ModelServersServe, GrantsAreTraced, HomesAreInScopes, PTL DEF ServicesSound

LEMMA PagesInWhole == Workbench => LensDatasetsSpec /\ LensNotesSpec /\ LensFeedSpec /\ LensStudySpec
<1>1. WorkbenchInit => LensDatasetsInit /\ LensNotesInit /\ LensFeedInit /\ LensStudyInit
  BY DEF WorkbenchInit
<1>2. [WorkbenchNext]_workbenchVars => /\ [LensDatasetsNext]_dsVars /\ [LensNotesNext]_noteVars
                                      /\ [LensFeedNext]_lensFeedVars /\ [LensStudyNext]_studyVars
  BY DEF WorkbenchNext, Reads, Chunks, Compiled, Secrets, Letters, Vectors, Objects, Models,
     Identities, CoreRuns, DatasetsPage, NotesPage, FeedPage, StudyPage, workbenchVars, pages
<1>3. QED
  BY <1>1, <1>2, PTL DEF Workbench, workbenchVars, LensDatasetsSpec, LensNotesSpec, LensFeedSpec, LensStudySpec

\* And every page shows what the server has once it has heard of everything, and every
\* answer where its question was asked.
THEOREM WholePages ==
  Workbench => []PagesSound /\ [](LensDatasetsTypeOK /\ LensNotesTypeOK /\ LensFeedTypeOK /\ LensStudyTypeOK)
BY PagesInWhole, DatasetsStaySound, NotesStaySound, FeedStaysSound, StudyStaysSound, PTL DEF PagesSound
================================================================================
