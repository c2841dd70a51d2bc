------------------------------ MODULE MemoryStore ------------------------------
(***************************************************************************)
(* The long-term memory store of AegisMind                                 *)
(* (packages/aegismind-core/src/aegismind_core/memory/sqlite_store.py) and *)
(* the REST handlers that call it (routes.py).                             *)
(*                                                                         *)
(* Every method of the store runs in a worker thread and is a sequence of  *)
(* database statements, each its own transaction: _update reads the row    *)
(* with one statement, writes it back with another and appends the audit   *)
(* event with two more.  A call is therefore a list of steps, todo[t],     *)
(* that thread t takes one at a time, interleaved with the other threads.  *)
(* A step that raises ends the call; a crash of the process ends all of    *)
(* them, and leaves the tables as they are.                                *)
(***************************************************************************)
EXTENDS Integers, FiniteSets, Sequences, SequencesExt

CONSTANTS
  Threads,      \* calls that can be under way at the same time
  Namespaces,   \* memory namespaces
  Contents,     \* memory texts; equal texts have equal content hashes
  Secrets,      \* the texts that the secret guard rejects
  Edits,        \* the edits that PATCH requests make
  Calls,        \* the operations that clients use
  MaxCalls,     \* bound on the number of calls
  MaxCrashes,   \* bound on the number of crashes
  MaxSeq        \* bound on the audit log, never reached when it is ample

Status == {"pending", "active", "superseded", "archived", "forgotten"}

ASSUME StoreAssumption ==
  /\ Secrets \subseteq Contents
  /\ MaxCalls \in Nat /\ MaxCrashes \in Nat /\ MaxSeq \in Nat

VARIABLES
  rows,         \* the table memories: id |-> row
  nextId,       \* ids are uuids: the numbers from nextId on are unused
  todo,         \* per thread, the steps left of its call
  outcome,      \* per thread, whether its last call has raised
  snap,         \* per thread, {} or {the row its _get has returned}
  picked,       \* per thread, the ids its last SELECT has returned
  answer,       \* per thread, the records its last search has returned
  backup,       \* {} or {the memories table in the backup file}
  log, tail, image,     \* the audit log, see AuditLog
  unlogged,     \* history: committed mutations whose event is not yet logged
  leaked,       \* history: the memories into which an edit wrote a secret
  restored,     \* history: whether a backup has been restored
  calls, crashes

dbVars     == <<rows, backup>>
threadVars == <<todo, outcome, snap, picked, answer>>
auditVars  == <<log, tail, image>>
boundVars  == <<nextId, calls, crashes>>
pastVars   == <<leaked, restored>>
vars       == <<dbVars, threadVars, auditVars, unlogged, pastVars, boundVars>>

Events ==
  {"created", "updated", "approved", "rejected", "superseded", "forgotten",
   "purged", "secret_rejected", "backup", "restore"}

Entries == [event : Events, id : Nat]

Audit == INSTANCE AuditLog

(***************************************************************************)
(* A row, without the columns no property looks at.  Sets of at most one   *)
(* element stand for values that may be absent.                            *)
(***************************************************************************)
Row ==
  [ns : Namespaces, content : Contents, status : Status,
   link : SUBSET Nat,       \* superseded_by
   pinned : BOOLEAN,
   used : BOOLEAN,          \* access_count > 0
   expired : BOOLEAN]       \* updated_at lies before the purge cutoff

NewRow(ns, c, status) ==
  [ns |-> ns, content |-> c, status |-> status, link |-> {},
   pinned |-> FALSE, used |-> FALSE, expired |-> FALSE]

(***************************************************************************)
(* The fields given to _update.  "other" stands for any patchable column   *)
(* that the model leaves out (importance, confidence, ...), "entities" for *)
(* the field of that name in MemoryUpdateRequest, which is not a column.   *)
(***************************************************************************)
Edit ==
  [status : SUBSET Status, content : SUBSET Contents, link : SUBSET Nat,
   other : BOOLEAN, entities : BOOLEAN]

\* superseded_by is no field of MemoryUpdateRequest.
ASSUME EditsAssumption == Edits \subseteq Edit /\ \A e \in Edits : e.link = {}

NoEdit ==
  [status |-> {}, content |-> {}, link |-> {}, other |-> FALSE, entities |-> FALSE]
ToStatus(s) == [NoEdit EXCEPT !.status = {s}]

Given(field, old) == IF field = {} THEN old ELSE CHOOSE v \in field : TRUE

\* for k, v in fields.items(): setattr(record, k, v)
Patched(row, e) ==
  [row EXCEPT !.status = Given(e.status, @), !.content = Given(e.content, @),
              !.link = IF e.link = {} THEN @ ELSE e.link]

------------------------------------------------------------------------------
(* The steps of a call.  One operator per statement the store executes. *)

StepKinds ==
  {"patch", "get", "put", "insert", "log", "pin", "unpin", "touch",
   "pick_forgotten", "delete_picked", "match", "fetch", "backup", "restore"}

Step ==
  [do : StepKinds, id : Nat, event : Events, edit : Edit, row : SUBSET Row]

Do(kind, i)   == [do |-> kind, id |-> i, event |-> "updated", edit |-> NoEdit, row |-> {}]
Get(i)        == Do("get", i)
Put(i, e)     == [Do("put", i) EXCEPT !.edit = e]
Insert(i, r)  == [Do("insert", i) EXCEPT !.row = {r}]
Log(event, i) == [Do("log", i) EXCEPT !.event = event]

\* Mutant of UpdateSteps: the event is forgotten.
UpdateSteps_Unlogged(i, e) == <<Get(i), Put(i, e)>>

UpdateSteps(i, e) == <<Get(i), Put(i, e), Log("updated", i)>>

\* Mutant of RejectSteps: the status of docs/memory.md, not of the enum.
RejectSteps_Rejected(i) ==
  UpdateSteps(i, ToStatus("rejected")) \o <<Log("rejected", i)>>

ApproveSteps(i) == UpdateSteps(i, ToStatus("active")) \o <<Log("approved", i)>>
RejectSteps(i)  == UpdateSteps(i, ToStatus("archived")) \o <<Log("rejected", i)>>
ForgetSteps(i)  == UpdateSteps(i, ToStatus("forgotten")) \o <<Log("forgotten", i)>>
AddSteps(i, r)  == <<Insert(i, r), Log("created", i)>>

SupersedeSteps(old, new, r) ==
  UpdateSteps(old, [ToStatus("superseded") EXCEPT !.link = {new}])
    \o AddSteps(new, [r EXCEPT !.status = "pending"])
    \o <<Log("superseded", old)>>

PurgeSteps   == <<Do("pick_forgotten", 0), Do("delete_picked", 0)>>
SearchSteps  == <<Do("match", 0), Do("fetch", 0)>>
BackupSteps  == <<Do("backup", 0), Log("backup", 0)>>
RestoreSteps == <<Do("restore", 0), Log("restore", 0)>>

------------------------------------------------------------------------------
(* How a thread takes a step. *)

Idle(t)        == todo[t] = <<>>
Doing(t, kind) == ~Idle(t) /\ Head(todo[t]).do = kind
This(t)        == Head(todo[t])

Goes(t, steps) == todo' = [todo EXCEPT ![t] = steps \o Tail(@)]
Proceeds(t)    == Goes(t, <<>>)

\* An exception ends the call: the steps left are not taken.
Raises(t) ==
  /\ todo' = [todo EXCEPT ![t] = <<>>]
  /\ outcome' = [outcome EXCEPT ![t] = "raised"]

SetRow(i, row) == [j \in DOMAIN rows \cup {i} |-> IF j = i THEN row ELSE rows[j]]

\* The unique index ux_memory_hash_active on (namespace, content_hash).
IndexRefuses(i, row) ==
  /\ row.status = "active"
  /\ \E j \in DOMAIN rows \ {i} :
       /\ rows[j].status = "active"
       /\ rows[j].ns = row.ns
       /\ rows[j].content = row.content

Committed(t, event, i) == unlogged' = unlogged \cup {<<t, event, i>>}

\* Mutant of PatchSteps: any record can be approved.
PatchSteps_AnyStatus(i, e, status) ==
  LET approves == e.status = {"active"}
      rest     == IF approves THEN [e EXCEPT !.status = {}] ELSE e
  IN (IF approves THEN ApproveSteps(i) ELSE <<>>)
       \o (IF rest = NoEdit THEN <<>> ELSE UpdateSteps(i, rest))

(***************************************************************************)
(* PATCH /memory/records/{id}: read the record, approve it when the        *)
(* request activates a pending one, then update it with what is left.      *)
(***************************************************************************)
PatchSteps(i, e, status) ==
  LET approves == e.status = {"active"} /\ status = "pending"
      rest     == IF e.status = {"active"} /\ status \in {"pending", "active"}
                  THEN [e EXCEPT !.status = {}] ELSE e
  IN (IF approves THEN ApproveSteps(i) ELSE <<>>)
       \o (IF rest = NoEdit THEN <<>> ELSE UpdateSteps(i, rest))

StepPatch(t) ==
  LET i == This(t).id IN
  /\ Doing(t, "patch")
  /\ \/ /\ i \in DOMAIN rows
        /\ Goes(t, PatchSteps(i, This(t).edit, rows[i].status))
        /\ UNCHANGED outcome
     \/ /\ i \notin DOMAIN rows
        /\ Raises(t)
  /\ UNCHANGED <<dbVars, snap, picked, answer, auditVars, unlogged, pastVars, boundVars>>

\* _get, with the KeyError its caller raises when there is no such row.
StepGet(t) ==
  LET i == This(t).id IN
  /\ Doing(t, "get")
  /\ \/ /\ i \in DOMAIN rows
        /\ snap' = [snap EXCEPT ![t] = {rows[i]}]
        /\ Proceeds(t)
        /\ UNCHANGED outcome
     \/ /\ i \notin DOMAIN rows
        /\ Raises(t)
        /\ UNCHANGED snap
  /\ UNCHANGED <<dbVars, picked, answer, auditVars, unlogged, pastVars, boundVars>>

\* Mutant of Rewritten: every column is written from the record.
Rewritten_AllColumns(i, record, e) == [Patched(record, e) EXCEPT !.expired = FALSE]

(***************************************************************************)
(* The UPDATE of _update writes the columns of the record read before,     *)
(* changed or not, except pinned and access_count.  Of a row   *)
(* that has gone it changes nothing and does not fail.  A field that is    *)
(* not patchable raises before the UPDATE.                                 *)
(***************************************************************************)
Rewritten(i, record, e) ==
  [Patched(record, e) EXCEPT !.pinned = rows[i].pinned, !.used = rows[i].used,
                             !.expired = FALSE]

\* The text that an edit brings is not scanned.
Leaks(i, e) == leaked' = IF e.content \cap Secrets = {} THEN leaked ELSE leaked \cup {i}

\* Mutant of StepPut: a row that has gone is inserted again.
StepPut_Upserts(t) ==
  LET i == This(t).id IN
  /\ Doing(t, "put")
  /\ \E record \in snap[t] : rows' = SetRow(i, Patched(record, This(t).edit))
  /\ Leaks(i, This(t).edit)
  /\ Committed(t, "updated", i)
  /\ Proceeds(t)
  /\ snap' = [snap EXCEPT ![t] = {}]
  /\ UNCHANGED <<backup, outcome, picked, answer, auditVars, restored, boundVars>>

StepPut(t) ==
  LET i == This(t).id IN
  /\ Doing(t, "put")
  /\ \E record \in snap[t] :
       \/ /\ i \in DOMAIN rows
          /\ ~This(t).edit.entities
          /\ ~IndexRefuses(i, Patched(record, This(t).edit))
          /\ rows' = SetRow(i, Rewritten(i, record, This(t).edit))
          /\ Leaks(i, This(t).edit)
          /\ Committed(t, "updated", i)
          /\ Proceeds(t)
          /\ UNCHANGED outcome
       \/ /\ \/ This(t).edit.entities
             \/ i \in DOMAIN rows /\ IndexRefuses(i, Patched(record, This(t).edit))
          /\ Raises(t)
          /\ UNCHANGED <<rows, leaked, unlogged>>
       \/ /\ i \notin DOMAIN rows /\ ~This(t).edit.entities
          /\ Proceeds(t)
          /\ UNCHANGED <<rows, leaked, unlogged, outcome>>
  /\ snap' = [snap EXCEPT ![t] = {}]
  /\ UNCHANGED <<backup, picked, answer, auditVars, restored, boundVars>>

\* scan_content finds a secret.
Unsafe(row) == row.content \in Secrets

(***************************************************************************)
(* _add: the secret guard, then the INSERT.  Rejected content is reported  *)
(* to the audit log before the ValueError is raised: the steps left of the *)
(* call are replaced by that report, and the call has failed.              *)
(***************************************************************************)
StepInsert(t) ==
  LET i == This(t).id IN
  /\ Doing(t, "insert")
  /\ \E row \in This(t).row :
       \/ /\ Unsafe(row)
          /\ todo' = [todo EXCEPT ![t] = <<Log("secret_rejected", 0)>>]
          /\ outcome' = [outcome EXCEPT ![t] = "raised"]
          /\ UNCHANGED <<rows, unlogged>>
       \/ /\ ~Unsafe(row)
          /\ IndexRefuses(i, row) \/ i \in DOMAIN rows
          /\ Raises(t)
          /\ UNCHANGED <<rows, unlogged>>
       \/ /\ ~Unsafe(row)
          /\ ~IndexRefuses(i, row) /\ i \notin DOMAIN rows
          /\ rows' = SetRow(i, row)
          /\ Committed(t, "created", i)
          /\ Proceeds(t)
          /\ UNCHANGED outcome
  /\ UNCHANGED <<backup, snap, picked, answer, auditVars, pastVars, boundVars>>

(***************************************************************************)
(* AuditLog.append in its two transactions.  When the primary key refuses  *)
(* the row, the exception reaches the caller although what it reports has  *)
(* been committed.                                                         *)
(***************************************************************************)
Entry(t) == [event |-> This(t).event, id |-> This(t).id]

StepLogRead(t) ==
  /\ Doing(t, "log")
  /\ Audit!ReadTail(t)
  /\ UNCHANGED <<dbVars, threadVars, unlogged, pastVars, boundVars>>

StepLogInsert(t) ==
  /\ Doing(t, "log")
  /\ \/ /\ Audit!InsertRow(t, Entry(t))
        /\ unlogged' = unlogged \ {<<t, This(t).event, This(t).id>>}
        /\ Proceeds(t)
        /\ UNCHANGED outcome
     \/ /\ Audit!RejectDuplicateSeq(t)
        /\ Raises(t)
        /\ UNCHANGED unlogged
  /\ UNCHANGED <<dbVars, snap, picked, answer, pastVars, boundVars>>

\* _pin: one UPDATE of one column, without an event.
StepPin(t) ==
  LET i == This(t).id IN
  /\ Doing(t, "pin") \/ Doing(t, "unpin")
  /\ rows' = IF i \in DOMAIN rows
             THEN SetRow(i, [rows[i] EXCEPT !.pinned = Doing(t, "pin")])
             ELSE rows
  /\ Proceeds(t)
  /\ UNCHANGED <<backup, outcome, snap, picked, answer, auditVars, unlogged, pastVars, boundVars>>

\* _touch: access_count = access_count + 1.
StepTouch(t) ==
  LET i == This(t).id IN
  /\ Doing(t, "touch")
  /\ rows' = IF i \in DOMAIN rows
             THEN SetRow(i, [rows[i] EXCEPT !.used = TRUE])
             ELSE rows
  /\ Proceeds(t)
  /\ UNCHANGED <<backup, outcome, snap, picked, answer, auditVars, unlogged, pastVars, boundVars>>

Tombstones ==
  {i \in DOMAIN rows : rows[i].status = "forgotten" /\ rows[i].expired}

(***************************************************************************)
(* _purge_forgotten: sqlite3 begins a transaction at the DELETE, not at    *)
(* the SELECT before it.  The DELETE names the ids it was given, whatever  *)
(* their status by then; one event per id follows.                         *)
(***************************************************************************)
StepPickForgotten(t) ==
  /\ Doing(t, "pick_forgotten")
  /\ picked' = [picked EXCEPT ![t] = Tombstones]
  /\ Proceeds(t)
  /\ UNCHANGED <<dbVars, outcome, snap, answer, auditVars, unlogged, pastVars, boundVars>>

StepDeletePicked(t) ==
  /\ Doing(t, "delete_picked")
  /\ rows' = [i \in DOMAIN rows \ picked[t] |-> rows[i]]
  /\ unlogged' = unlogged \cup {<<t, "purged", i>> : i \in picked[t]}
  /\ \E order \in SetToSeqs(picked[t]) :
       Goes(t, [k \in DOMAIN order |-> Log("purged", order[k])])
  /\ picked' = [picked EXCEPT ![t] = {}]
  /\ UNCHANGED <<backup, outcome, snap, answer, auditVars, pastVars, boundVars>>

Searchable == {i \in DOMAIN rows : rows[i].status = "active"}

(***************************************************************************)
(* _search: the two branches collect the ids of active memories that match *)
(* the query, and a later SELECT fetches the records by id alone.          *)
(***************************************************************************)
StepMatch(t) ==
  /\ Doing(t, "match")
  /\ \E ids \in SUBSET Searchable : picked' = [picked EXCEPT ![t] = ids]
  /\ Proceeds(t)
  /\ UNCHANGED <<dbVars, outcome, snap, answer, auditVars, unlogged, pastVars, boundVars>>

StepFetch(t) ==
  /\ Doing(t, "fetch")
  /\ answer' = [answer EXCEPT ![t] = {rows[i] : i \in picked[t] \cap DOMAIN rows}]
  /\ picked' = [picked EXCEPT ![t] = {}]
  /\ Proceeds(t)
  /\ UNCHANGED <<dbVars, outcome, snap, auditVars, unlogged, pastVars, boundVars>>

\* _backup and _restore copy the whole database file.
StepBackup(t) ==
  /\ Doing(t, "backup")
  /\ Audit!CopyToImage(t)
  /\ backup' = {rows}
  /\ Proceeds(t)
  /\ UNCHANGED <<rows, outcome, snap, picked, answer, unlogged, pastVars, boundVars>>

StepRestore(t) ==
  /\ Doing(t, "restore")
  /\ \/ /\ Audit!CopyFromImage(t)
        /\ \E table \in backup : rows' = table
        /\ restored' = TRUE
        /\ Proceeds(t)
        /\ UNCHANGED outcome
     \/ /\ backup = {}
        /\ Raises(t)
        /\ UNCHANGED <<rows, restored, auditVars>>
  /\ UNCHANGED <<backup, snap, picked, answer, unlogged, leaked, boundVars>>

------------------------------------------------------------------------------
(* Calls: what the users and the other components ask of the store. *)

Starts(t, steps) ==
  /\ Idle(t)
  /\ calls < MaxCalls
  /\ calls' = calls + 1
  /\ todo' = [todo EXCEPT ![t] = steps]
  /\ outcome' = [outcome EXCEPT ![t] = "ok"]
  /\ answer' = [answer EXCEPT ![t] = {}]
  /\ UNCHANGED <<dbVars, snap, picked, auditVars, unlogged, pastVars, crashes>>

CallAdd(t) ==
  /\ "add" \in Calls
  /\ \E ns \in Namespaces, c \in Contents, s \in {"pending", "active"} :
       Starts(t, AddSteps(nextId, NewRow(ns, c, s)))
  /\ nextId' = nextId + 1

CallSupersede(t) ==
  /\ "supersede" \in Calls
  /\ \E old \in DOMAIN rows, c \in Contents :
       Starts(t, SupersedeSteps(old, nextId, NewRow(rows[old].ns, c, "pending")))
  /\ nextId' = nextId + 1

\* approve is called for memories that were read as pending.
CallOnRecord(t) ==
  /\ \E i \in DOMAIN rows :
       \/ /\ "patch" \in Calls
          /\ \E e \in Edits : Starts(t, <<[Do("patch", i) EXCEPT !.edit = e]>>)
       \/ "approve" \in Calls /\ rows[i].status = "pending" /\ Starts(t, ApproveSteps(i))
       \/ "reject" \in Calls /\ Starts(t, RejectSteps(i))
       \/ "forget" \in Calls /\ Starts(t, ForgetSteps(i))
       \/ "pin" \in Calls /\ Starts(t, <<Do("pin", i)>>)
       \/ "pin" \in Calls /\ Starts(t, <<Do("unpin", i)>>)
       \/ "touch" \in Calls /\ Starts(t, <<Do("touch", i)>>)
  /\ UNCHANGED nextId

CallOnStore(t) ==
  /\ \/ "purge" \in Calls /\ Starts(t, PurgeSteps)
     \/ "search" \in Calls /\ Starts(t, SearchSteps)
     \/ "backup" \in Calls /\ Starts(t, BackupSteps)
     \/ "restore" \in Calls /\ Starts(t, RestoreSteps)
  /\ UNCHANGED nextId

\* Time passes: the retention period of a tombstone ends.
RetentionEnds(i) ==
  /\ "purge" \in Calls
  /\ ~rows[i].expired
  /\ rows' = SetRow(i, [rows[i] EXCEPT !.expired = TRUE])
  /\ UNCHANGED <<backup, threadVars, auditVars, unlogged, pastVars, boundVars>>

\* The process dies between two statements and is started again.
Crash ==
  /\ crashes < MaxCrashes
  /\ \E t \in Threads : ~Idle(t)
  /\ crashes' = crashes + 1
  /\ todo' = [t \in Threads |-> <<>>]
  /\ outcome' = [t \in Threads |-> "ok"]
  /\ snap' = [t \in Threads |-> {}]
  /\ picked' = [t \in Threads |-> {}]
  /\ answer' = [t \in Threads |-> {}]
  /\ tail' = [t \in Threads |-> Audit!NoTail]
  /\ UNCHANGED <<dbVars, log, image, unlogged, pastVars, nextId, calls>>

Init ==
  /\ rows = [i \in {} |-> {}]
  /\ backup = {}
  /\ nextId = 1
  /\ todo = [t \in Threads |-> <<>>]
  /\ outcome = [t \in Threads |-> "ok"]
  /\ snap = [t \in Threads |-> {}]
  /\ picked = [t \in Threads |-> {}]
  /\ answer = [t \in Threads |-> {}]
  /\ unlogged = {} /\ leaked = {} /\ restored = FALSE
  /\ calls = 0
  /\ crashes = 0
  /\ Audit!Init

StoreStep(t) ==
  \/ StepPatch(t) \/ StepGet(t) \/ StepPut(t) \/ StepInsert(t)
  \/ StepLogRead(t) \/ StepLogInsert(t)
  \/ StepPin(t) \/ StepTouch(t)
  \/ StepPickForgotten(t) \/ StepDeletePicked(t)
  \/ StepMatch(t) \/ StepFetch(t)
  \/ StepBackup(t) \/ StepRestore(t)

Call(t) ==
  CallAdd(t) \/ CallSupersede(t) \/ CallOnRecord(t) \/ CallOnStore(t)

Next ==
  \/ \E t \in Threads : StoreStep(t) \/ Call(t)
  \/ \E i \in DOMAIN rows : RetentionEnds(i)
  \/ Crash

Spec == Init /\ [][Next]_vars

------------------------------------------------------------------------------
TypeOK ==
  /\ DOMAIN rows \subseteq Nat /\ \A i \in DOMAIN rows : rows[i] \in Row
  /\ todo \in [Threads -> Seq(Step)]
  /\ outcome \in [Threads -> {"ok", "raised"}]
  /\ snap \in [Threads -> SUBSET Row]
  /\ picked \in [Threads -> SUBSET Nat]
  /\ answer \in [Threads -> SUBSET Row]
  /\ unlogged \subseteq Threads \X Events \X Nat
  /\ leaked \subseteq Nat /\ restored \in BOOLEAN
  /\ nextId \in Nat /\ calls \in Nat /\ crashes \in Nat

\* Two memories of a namespace that say the same are never both active, by
\* whichever of insert, approval, edit or concurrent update they got there.
OneActivePerContent ==
  \A i, j \in DOMAIN rows :
    /\ i # j
    /\ rows[i].status = "active" /\ rows[j].status = "active"
    => rows[i].ns # rows[j].ns \/ rows[i].content # rows[j].content

\* superseded_by leads to a memory made later, so that the chain _get_history
\* follows never returns to where it began.
HistoryMovesOn ==
  \A i \in DOMAIN rows : \A j \in rows[i].link : i < j /\ j < nextId

\* The log of the store passes verify, whatever the calls, their interleaving
\* and the crashes.
AuditVerifies == Audit!ChainVerifies

\* Every committed mutation has its event in the log or a call under way that
\* is about to append it (docs/memory.md, section 5: "Every mutation ...
\* appends an immutable block").
AuditComplete ==
  \A u \in unlogged : \E k \in DOMAIN todo[u[1]] : todo[u[1]][k] = Log(u[2], u[3])

\* A restore brings the tables of the backup file back, whatever they say.
Restores == \E t \in Threads : Doing(t, "restore") /\ todo'[t] # todo[t]

\* A pin set by one call is not lost to an update of the same memory by
\* another: only a pin step, or a restore, changes the column.
PinsKept ==
  [][\A i \in DOMAIN rows \cap DOMAIN rows' :
       rows'[i].pinned # rows[i].pinned =>
         \/ Restores
         \/ \E t \in Threads : (Doing(t, "pin") \/ Doing(t, "unpin")) /\ This(t).id = i]_vars

\* A forgotten memory does not come back by an edit of its other fields: it
\* leaves that status only by a step that asks for another one.
KeepsForgotten ==
  \A i \in DOMAIN rows \cap DOMAIN rows' :
    rows[i].status = "forgotten" /\ rows'[i].status # "forgotten" =>
      \/ Restores
      \/ \E t \in Threads :
           Doing(t, "put") /\ This(t).id = i /\ This(t).edit.status # {}

\* No step brings a forgotten memory back.
ForgottenStays == [][KeepsForgotten]_vars

\* approve moves a pending memory to active (port.py:69), as PATCH checks.
ApprovesPending ==
  \A t \in Threads, i \in DOMAIN rows \cap DOMAIN rows' :
    /\ Doing(t, "put") /\ This(t).id = i /\ Proceeds(t)
    /\ \E k \in DOMAIN todo[t] : todo[t][k] = Log("approved", i)
    /\ rows'[i].status = "active"
    => rows[i].status \in {"pending", "active"}

\* What a purge deletes is forgotten at that moment (port.py:109).
PurgesForgotten ==
  \A i \in DOMAIN rows \ DOMAIN rows' :
    Restores \/ rows[i].status = "forgotten"

\* A memory whose purge is on record does not come back, although a call that
\* has read it before the purge may go on to update, pin or touch it.
PurgedIsGone ==
  \A s \in DOMAIN log :
    log[s].entry.event = "purged" => log[s].entry.id \notin DOMAIN rows

\* A search returns active memories only: what is forgotten is excluded from
\* retrieval (docs/memory.md, section 3.2).
AnswersActive ==
  \A t \in Threads : \A r \in answer[t] : r.status = "active"

\* A superseded memory has a successor: it has been written, or the call that
\* will write it is under way.
SuccessorWritten ==
  \A i \in DOMAIN rows : \A j \in rows[i].link :
    \/ j \in DOMAIN rows
    \/ \E s \in DOMAIN log : log[s].entry = [event |-> "purged", id |-> j]
    \/ \E t \in Threads : \E k \in DOMAIN todo[t] :
         \/ todo[t][k].do = "insert" /\ todo[t][k].id = j
         \/ todo[t][k] = Log("purged", j)

\* A text that the secret guard rejects comes into the table by an edit only, which is not
\* scanned, and then stands in the memory that was edited: not in a new one, whichever way
\* it is added, nor in one that a call under way writes back (docs/memory.md, section 5,
\* promises it of edits, too: "Content is scanned ... before saving").
NoSecretStored == \A i \in DOMAIN rows : rows[i].content \in Secrets => i \in leaked

\* What two overlapping calls may not break: the uniqueness of active texts, the order of
\* the history, the guard against secrets; and, until a backup is restored under the
\* statements of other calls, the end of what was purged and the audit chain.
RecordsSound ==
  /\ OneActivePerContent /\ HistoryMovesOn /\ NoSecretStored
  /\ ~restored => PurgedIsGone /\ AuditVerifies

\* What holds in addition as long as calls come one after the other: nothing of a call is
\* missing from the log or from the history, and a search answers with active memories.
SerialSound == AuditVerifies /\ AuditComplete /\ AnswersActive /\ SuccessorWritten

\* ... and the status of a memory changes only as the port says.
StatusesSound == [][KeepsForgotten /\ ApprovesPending /\ PurgesForgotten]_vars
==============================================================================
