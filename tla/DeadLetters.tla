------------------------------- MODULE DeadLetters -------------------------------
(***************************************************************************)
(* The dead-letter queue in the database, PgDLQAdapter                     *)
(* (packages/aegismind-ingestion/src/aegismind_ingestion/dlq.py), with the *)
(* worker that puts items there and the routes that list, retry and delete *)
(* them (routes.py of aegismind-core).                                     *)
(*                                                                         *)
(* Each statement is atomic, and a call suspends before it: between the    *)
(* statements of a retry others retry the item too, or delete it.  The     *)
(* time of a change is taken before its statement is sent.                 *)
(***************************************************************************)
EXTENDS Values

CONSTANTS
  FailedIds, FailedSources,
  DlqCallers,           \* calls in progress at a time
  MaxDlqCalls           \* bound on the calls

VARIABLES
  dlqRows,              \* the table
  dlqNow, dlqCalls,     \* the clock, the calls so far
  dlqCall,              \* per caller, what it is doing
  dlqSeen, dlqMarks, dlqPurged  \* history: the ids ever put, per id the retries that took
                                \* effect, the ids deleted

dlqVars == <<dlqRows, dlqNow, dlqCalls, dlqCall, dlqSeen, dlqMarks, dlqPurged>>

ASSUME DeadLettersAssumption == MaxDlqCalls \in Nat

IdleCall == [pc |-> "idle"]

DeadLettersInit ==
  /\ dlqRows = <<>> /\ dlqNow = 0 /\ dlqCalls = 0
  /\ dlqCall = [c \in DlqCallers |-> IdleCall]
  /\ dlqSeen = {} /\ dlqMarks = [id \in FailedIds |-> 0] /\ dlqPurged = {}

Row(source, status, retries, at) ==
  [source |-> source, status |-> status, retries |-> retries, at |-> at]
WithRow(id, row) == [i \in DOMAIN dlqRows \cup {id} |-> IF i = id THEN row ELSE dlqRows[i]]

\* A call begins, or a change does: the clock is read.
BeginCall(c) ==
  /\ dlqCall[c].pc = "idle" /\ dlqCalls < MaxDlqCalls
  /\ dlqCalls' = dlqCalls + 1

CallGoes(c, call) == dlqCall' = [dlqCall EXCEPT ![c] = call]

------------------------------------------------------------------------------
(* The worker. *)

\* enqueue: a new id, and the time.
Enqueue(c, id, source) ==
  /\ BeginCall(c) /\ id \notin dlqSeen
  /\ dlqNow' = dlqNow + 1 /\ dlqSeen' = dlqSeen \cup {id}
  /\ CallGoes(c, [pc |-> "insert", id |-> id, source |-> source, now |-> dlqNow'])
  /\ UNCHANGED <<dlqRows, dlqMarks, dlqPurged>>

InsertRow(c) ==
  LET call == dlqCall[c] IN
  /\ call.pc = "insert"
  /\ dlqRows' = WithRow(call.id, Row(call.source, "pending", 0, call.now))
  /\ CallGoes(c, IdleCall)
  /\ UNCHANGED <<dlqNow, dlqCalls, dlqSeen, dlqMarks, dlqPurged>>

------------------------------------------------------------------------------
(* The routes. *)

\* retry_dlq_item: an item that exists is going to be marked.
retry_dlq_item(c, id) ==
  /\ BeginCall(c) /\ id \in DOMAIN dlqRows
  /\ dlqNow' = dlqNow + 1
  /\ CallGoes(c, [pc |-> "update", id |-> id, now |-> dlqNow', existing |-> dlqRows[id]])
  /\ UNCHANGED <<dlqRows, dlqSeen, dlqMarks, dlqPurged>>

\* Mutant of Marked: the row is written as it was read, with the count one higher.
Marked_AsRead(call) ==
  [call.existing EXCEPT !.status = "retried", !.retries = @ + 1, !.at = call.now]

\* Mutant of Marked: a status that no item may have.
Marked_Retrying(call) ==
  [dlqRows[call.id] EXCEPT !.status = "retrying", !.retries = @ + 1, !.at = call.now]

\* What UPDATE makes of a row.
Marked(call) ==
  [dlqRows[call.id] EXCEPT !.status = "retried", !.retries = @ + 1, !.at = call.now]

\* The rows that UPDATE changes: none if the item was deleted.
Matching(call) == {call.id} \cap DOMAIN dlqRows

update_status(c) ==
  LET call == dlqCall[c] IN
  /\ call.pc = "update"
  /\ dlqRows' = [i \in DOMAIN dlqRows \cup Matching(call) |->
                   IF i # call.id THEN dlqRows[i]
                   ELSE IF i \in DOMAIN dlqRows THEN Marked(call) ELSE call.existing]
  /\ dlqMarks' = IF call.id \in DOMAIN dlqRows THEN [dlqMarks EXCEPT ![call.id] = @ + 1]
                 ELSE dlqMarks
  /\ CallGoes(c, [pc |-> "reread", id |-> call.id])
  /\ UNCHANGED <<dlqNow, dlqCalls, dlqSeen, dlqPurged>>

get_item(id) == IF id \in DOMAIN dlqRows THEN {dlqRows[id]} ELSE {}

\* The item is read again for the answer.
Reread(c) ==
  LET call == dlqCall[c] IN
  /\ call.pc = "reread"
  /\ CallGoes(c, [pc |-> "answered", id |-> call.id, found |-> get_item(call.id)])
  /\ UNCHANGED <<dlqRows, dlqNow, dlqCalls, dlqSeen, dlqMarks, dlqPurged>>

\* The answer says "retried", with the item unless it is gone.
Retried(c) ==
  /\ dlqCall[c].pc = "answered" /\ CallGoes(c, IdleCall)
  /\ UNCHANGED <<dlqRows, dlqNow, dlqCalls, dlqSeen, dlqMarks, dlqPurged>>

delete_dlq_item(c, id) ==
  /\ BeginCall(c) /\ id \in DOMAIN dlqRows
  /\ dlqRows' = [i \in DOMAIN dlqRows \ {id} |-> dlqRows[i]]
  /\ dlqPurged' = dlqPurged \cup {id}
  /\ UNCHANGED <<dlqNow, dlqCall, dlqSeen, dlqMarks>>

\* list_dlq: None for a filter that is not used.
Filtered(ids, source, status) ==
  {id \in ids : /\ source # None => dlqRows[id].source = source
                /\ status # "any" => dlqRows[id].status = status}

\* ORDER BY last_failed_at DESC, which leaves the order of equal times open.
NewestOf(ids) ==
  CHOOSE s \in [1..Cardinality(ids) -> ids] :
    Elements(s) = ids /\ \A i, j \in DOMAIN s : i < j => dlqRows[s[i]].at >= dlqRows[s[j]].at

ChosenRows(source, status, limit) == NewestOf(Filtered(DOMAIN dlqRows, source, status))

list_items(source, status, limit) == First(limit, ChosenRows(source, status, limit))

DeadLettersNext ==
  \E c \in DlqCallers :
    \/ \E id \in FailedIds, source \in FailedSources : Enqueue(c, id, source)
    \/ \E id \in FailedIds : retry_dlq_item(c, id) \/ delete_dlq_item(c, id)
    \/ InsertRow(c) \/ update_status(c) \/ Reread(c) \/ Retried(c)

DeadLettersSpec == DeadLettersInit /\ [][DeadLettersNext]_dlqVars

------------------------------------------------------------------------------
(* Properties. *)

DeadLettersTypeOK ==
  /\ DOMAIN dlqRows \subseteq dlqSeen
  /\ \A id \in DOMAIN dlqRows : /\ dlqRows[id].status \in {"pending", "retried"}
                                /\ dlqRows[id].at \in 1..dlqNow
  /\ dlqCalls \in 0..MaxDlqCalls

\* The count of an item is the number of the retries that took effect, however many of
\* them overlap.
RetriesCounted == \A id \in DOMAIN dlqRows : dlqRows[id].retries = dlqMarks[id]

\* A retry that is answered without the item lost it to a deletion, and one that is
\* answered with it shows a count in which the retry itself is included.
RetryAnswer ==
  \A c \in DlqCallers : dlqCall[c].pc = "answered" =>
    /\ dlqCall[c].found = {} => dlqCall[c].id \in dlqPurged
    /\ \A row \in dlqCall[c].found : row.status = "retried" /\ row.retries >= 1

\* A listing holds as many of the items asked for as the limit allows, and none that is
\* left out failed later than one that is shown.
NewestAreListed == dlqRows # <<>> =>
  \A source \in FailedSources \cup {None}, status \in {"any", "pending", "retried"}, limit \in 1..2 :
    LET listed == list_items(source, status, limit)
        asked == {id \in DOMAIN dlqRows : /\ source \in {None, dlqRows[id].source}
                                          /\ status \in {"any", dlqRows[id].status}} IN
    /\ Elements(listed) \subseteq asked
    /\ Cardinality(Elements(listed)) = Least(limit, Cardinality(asked))
    /\ \A i \in asked \ Elements(listed), j \in Elements(listed) : dlqRows[i].at <= dlqRows[j].at

\* The database does what the queue in memory does: whatever overlaps, each call takes
\* effect as one step of it or not at all, and a deleted item does not come back.
Memory == INSTANCE MemoryDlq WITH items <- dlqRows, Moments <- 1..MaxDlqCalls
ActsLikeMemory == Memory!MemoryDlqSpec

\* An item that was purged is not in the table, whatever update of it was under way.
DeletedIsGone == \A id \in dlqPurged : id \notin DOMAIN dlqRows
==================================================================================
