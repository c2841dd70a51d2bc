-------------------------------- MODULE MemoryDlq --------------------------------
(***************************************************************************)
(* The dead-letter queue in memory: MemoryDLQAdapter                       *)
(* (packages/aegismind-ingestion/src/aegismind_ingestion/dlq.py).  It      *)
(* never suspends: each of its calls is one step.  DeadLetters shows that  *)
(* the queue in the database behaves like this one.                        *)
(***************************************************************************)
EXTENDS Integers

CONSTANTS
  FailedIds, FailedSources,     \* ids of items, and the connectors they come from
  Moments                       \* the values of the clock

VARIABLE items          \* a function on the ids of the items that are there

MemoryDlqInit == items = <<>>

enqueue(id, source, now) ==
  /\ id \notin DOMAIN items
  /\ items' = [i \in DOMAIN items \cup {id} |->
                 IF i # id THEN items[i]
                 ELSE [source |-> source, status |-> "pending", retries |-> 0, at |-> now]]

\* The item counts as failed at the moment of the change.
update_status(id, status, now) ==
  /\ id \in DOMAIN items
  /\ items' = [items EXCEPT ![id].status = status, ![id].at = now,
                            ![id].retries = @ + (IF status = "retried" THEN 1 ELSE 0)]

delete_item(id) ==
  /\ id \in DOMAIN items
  /\ items' = [i \in DOMAIN items \ {id} |-> items[i]]

MemoryDlqNext ==
  \E id \in FailedIds, now \in Moments :
    \/ \E source \in FailedSources : enqueue(id, source, now)
    \/ \E status \in {"pending", "retried", "resolved", "abandoned"} : update_status(id, status, now)
    \/ delete_item(id)

MemoryDlqSpec == MemoryDlqInit /\ [][MemoryDlqNext]_items
==================================================================================
