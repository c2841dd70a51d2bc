---------------------------- MODULE MCMemoryStore ----------------------------
(***************************************************************************)
(* Instances of MemoryStore for TLC.  They start from a table in which     *)
(* every status of interest occurs, so that two or three calls are enough  *)
(* for every pair of operations to meet.                                   *)
(***************************************************************************)
EXTENDS MemoryStore

CONSTANTS t1, t2, global, c1, c2, key

OneThread    == {t1}
TwoThreads   == {t1, t2}
OneNamespace == {global}
TwoContents  == {c1, c2}
TwoAndKey    == {c1, c2, key}
OnlyKey      == {key}
Nothing      == {}

Reweigh  == [NoEdit EXCEPT !.other = TRUE]
Reword   == [NoEdit EXCEPT !.content = {c2}]
Leak     == [NoEdit EXCEPT !.content = {key}]
Retag    == [NoEdit EXCEPT !.entities = TRUE]
Activate == ToStatus("active")
Withdraw == ToStatus("forgotten")

WordsOrActivate == {Reword, Activate}
WeighOrWithdraw == {Reweigh, Withdraw}
EveryEdit       == {Reweigh, Reword, Leak, Retag, Activate, Withdraw}

\* Three memories were added, the third was forgotten long ago, and then all
\* of it was copied to a backup file.
EntriesBefore ==
  <<[event |-> "created", id |-> 1], [event |-> "created", id |-> 2],
    [event |-> "created", id |-> 3], [event |-> "updated", id |-> 3],
    [event |-> "forgotten", id |-> 3], [event |-> "backup", id |-> 0]>>

LogBefore ==
  LET hash[n \in 0 .. Len(EntriesBefore)] ==
        IF n = 0 THEN Audit!Genesis ELSE Audit!Digest(n, EntriesBefore[n], hash[n - 1])
  IN [n \in 1 .. Len(EntriesBefore) |->
        [entry |-> EntriesBefore[n], prev |-> hash[n - 1], hash |-> hash[n]]]

RowsBefore ==
  1 :> NewRow(global, c1, "active") @@ 2 :> NewRow(global, c1, "pending")
    @@ 3 :> [NewRow(global, c1, "forgotten") EXCEPT !.expired = TRUE]

InitUsed ==
  /\ rows = RowsBefore /\ backup = {RowsBefore}
  /\ nextId = 4
  /\ log = LogBefore /\ image = {Front(LogBefore)}
  /\ todo = [t \in Threads |-> <<>>]
  /\ outcome = [t \in Threads |-> "ok"]
  /\ snap = [t \in Threads |-> {}]
  /\ picked = [t \in Threads |-> {}]
  /\ answer = [t \in Threads |-> {}]
  /\ tail = [t \in Threads |-> Audit!NoTail]
  /\ unlogged = {} /\ leaked = {} /\ restored = FALSE /\ calls = 0 /\ crashes = 0

SpecUsed == InitUsed /\ [][Next]_vars

Symmetry == Permutations(TwoThreads)
==============================================================================
