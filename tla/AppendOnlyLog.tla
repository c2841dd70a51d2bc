---------------------------- MODULE AppendOnlyLog ----------------------------
(***************************************************************************)
(* What docs/memory.md (section 5, item 4) promises of the audit trail of  *)
(* the long-term memory: a list of entries that only ever grows, one entry *)
(* at a time.  AuditLog implements it with a table of hash-linked rows     *)
(* that several threads write without a common transaction.                *)
(***************************************************************************)
EXTENDS Naturals, Sequences

CONSTANT Entries    \* what can be recorded

VARIABLE trail      \* the entries recorded so far, oldest first

Init == trail = <<>>

Record(e) == trail' = Append(trail, e)

Next == \E e \in Entries : Record(e)

Spec == Init /\ [][Next]_trail
==============================================================================
