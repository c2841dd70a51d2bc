--------------------------- MODULE MemoryStoreProofs ---------------------------
(***************************************************************************)
(* Proofs about MemoryStore for any threads, texts, calls and bounds.      *)
(*                                                                         *)
(* The argument for the table: a call writes a row it has read before, and *)
(* only columns that the calls in between cannot have made wrong; what an  *)
(* UPDATE or an INSERT makes active has just been checked against the      *)
(* index; a successor has an id that was unused when its call began.  So   *)
(* the invariant has to follow the rows that threads hold and the edits    *)
(* that are still to be written.                                           *)
(*                                                                         *)
(* The argument for the audit log: until a backup is restored the steps of *)
(* a call touch the log only as AuditLog says, so that its invariant is    *)
(* one of the store.                                                       *)
(***************************************************************************)
EXTENDS MemoryStore, SequenceTheorems, FiniteSetTheorems, TLAPS

\* A row with id i, when the ids below n are used.
RowOK(i, row, n) ==
  /\ row \in Row
  /\ \A j \in row.link : i < j /\ j < n

Unique(table) ==
  \A i, j \in DOMAIN table :
    i # j /\ table[i].status = "active" /\ table[j].status = "active"
      => table[i].ns # table[j].ns \/ table[i].content # table[j].content

TableOK(table, n) ==
  /\ DOMAIN table \subseteq 1 .. n - 1
  /\ \A i \in DOMAIN table : RowOK(i, table[i], n)
  /\ Unique(table)

EditOK(i, e, n) ==
  /\ e \in Edit
  /\ \A j \in e.link : i < j /\ j < n

StepOK(step, n) ==
  /\ step \in Step /\ step.id < n
  /\ EditOK(step.id, step.edit, n)
  /\ step.do = "patch" => step.edit.link = {}
  /\ step.do = "insert" => step.id >= 1
  /\ \A row \in step.row : row.link = {}
  /\ step.do = "restore" => "restore" \in Calls

\* The steps left of a call: a row is read right before it is written.
StepsOK(s, n) ==
  /\ s \in Seq(Step)
  /\ \A k \in 1 .. Len(s) :
       /\ StepOK(s[k], n)
       /\ s[k].do = "get" => k < Len(s) /\ s[k + 1].do = "put" /\ s[k + 1].id = s[k].id

\* What a thread holds: a row only while the next step writes it.
HeldOK(t, n) ==
  /\ picked[t] \subseteq 1 .. n - 1
  /\ snap[t] # {} => todo[t] # <<>> /\ Head(todo[t]).do = "put"
  /\ \A row \in snap[t] : RowOK(Head(todo[t]).id, row, n)

Typed ==
  /\ todo \in [Threads -> Seq(Step)]
  /\ outcome \in [Threads -> {"ok", "raised"}]
  /\ snap \in [Threads -> SUBSET Row]
  /\ picked \in [Threads -> SUBSET Nat]
  /\ answer \in [Threads -> SUBSET Row]
  /\ unlogged \subseteq Threads \X Events \X Nat
  /\ nextId \in Nat \ {0} /\ calls \in Nat /\ crashes \in Nat

ThreadsOK == \A t \in Threads : StepsOK(todo[t], nextId) /\ HeldOK(t, nextId)

StoreInv ==
  /\ Typed
  /\ TableOK(rows, nextId)
  /\ \A table \in backup : TableOK(table, nextId)
  /\ ThreadsOK

------------------------------------------------------------------------------
(* What is in order stays so when more ids are used. *)

LEMMA LaterRow ==
  ASSUME NEW i, NEW row, NEW n \in Nat, NEW m \in Nat, n <= m, RowOK(i, row, n)
  PROVE  RowOK(i, row, m)
BY DEF RowOK, Row

LEMMA LaterTable ==
  ASSUME NEW table, NEW n \in Nat, NEW m \in Nat, n <= m, TableOK(table, n)
  PROVE  TableOK(table, m)
<1>1. \A i \in DOMAIN table : RowOK(i, table[i], m)
  BY LaterRow DEF TableOK
<1>2. QED
  BY <1>1 DEF TableOK

LEMMA LaterStep ==
  ASSUME NEW step, NEW n \in Nat, NEW m \in Nat, n <= m, StepOK(step, n)
  PROVE  StepOK(step, m)
<1>1. step.id \in Nat /\ step.edit.link \subseteq Nat
  BY DEF StepOK, Step, Edit
<1>2. QED
  BY <1>1 DEF StepOK, EditOK

LEMMA LaterSteps ==
  ASSUME NEW s, NEW n \in Nat, NEW m \in Nat, n <= m, StepsOK(s, n)
  PROVE  StepsOK(s, m)
BY LaterStep DEF StepsOK

------------------------------------------------------------------------------
(* Lists of steps. *)

LEMMA EmptySteps == ASSUME NEW n PROVE StepsOK(<<>>, n)
BY DEF StepsOK

LEMMA OneStep ==
  ASSUME NEW step, NEW n, StepOK(step, n), step.do # "get"
  PROVE  StepsOK(<<step>>, n)
BY DEF StepsOK, StepOK

LEMMA JoinSteps ==
  ASSUME NEW s, NEW u, NEW n, StepsOK(s, n), StepsOK(u, n)
  PROVE  StepsOK(s \o u, n)
<1>1. s \in Seq(Step) /\ u \in Seq(Step) /\ Len(s) \in Nat /\ Len(u) \in Nat
  BY LenProperties DEF StepsOK
<1>2. /\ s \o u \in Seq(Step) /\ Len(s \o u) = Len(s) + Len(u)
      /\ \A k \in 1 .. Len(s) + Len(u) :
           (s \o u)[k] = IF k <= Len(s) THEN s[k] ELSE u[k - Len(s)]
  BY <1>1, ConcatProperties
<1>3. ASSUME NEW k \in 1 .. Len(s \o u)
      PROVE  /\ StepOK((s \o u)[k], n)
             /\ (s \o u)[k].do = "get" => /\ k < Len(s \o u) /\ (s \o u)[k + 1].do = "put"
                                          /\ (s \o u)[k + 1].id = (s \o u)[k].id
  <2>1. CASE k <= Len(s)
    BY <1>1, <1>2, <2>1 DEF StepsOK
  <2>2. CASE k > Len(s)
    <3>1. k - Len(s) \in 1 .. Len(u) /\ (s \o u)[k] = u[k - Len(s)]
      BY <1>1, <1>2, <2>2
    <3>2. k < Len(s \o u) => (s \o u)[k + 1] = u[(k - Len(s)) + 1]
      BY <1>1, <1>2, <2>2
    <3>3. QED
      BY <1>1, <1>2, <3>1, <3>2 DEF StepsOK
  <2>3. QED
    BY <1>1, <2>1, <2>2
<1>4. QED
  BY <1>2, <1>3 DEF StepsOK

LEMMA TailSteps ==
  ASSUME NEW s, NEW n, StepsOK(s, n), s # <<>>
  PROVE  /\ StepsOK(Tail(s), n) /\ StepOK(Head(s), n)
         /\ Head(s).do = "get" => /\ Tail(s) # <<>> /\ Head(Tail(s)).do = "put"
                                  /\ Head(Tail(s)).id = Head(s).id
<1>1. s \in Seq(Step) /\ Len(s) \in Nat \ {0} /\ Head(s) = s[1]
  BY LenProperties, EmptySeq DEF StepsOK
<1>2. /\ Tail(s) \in Seq(Step) /\ Len(Tail(s)) = Len(s) - 1
      /\ \A k \in 1 .. Len(Tail(s)) : Tail(s)[k] = s[k + 1]
  BY <1>1, HeadTailProperties
<1>3. \A k \in 1 .. Len(Tail(s)) :
        /\ StepOK(Tail(s)[k], n)
        /\ Tail(s)[k].do = "get" => /\ k < Len(Tail(s)) /\ Tail(s)[k + 1].do = "put"
                                    /\ Tail(s)[k + 1].id = Tail(s)[k].id
  BY <1>1, <1>2 DEF StepsOK
<1>4. Head(s).do = "get" => /\ Tail(s) # <<>> /\ Head(Tail(s)).do = "put"
                            /\ Head(Tail(s)).id = Head(s).id
  <2>1. ASSUME Head(s).do = "get"
        PROVE  1 < Len(s) /\ s[2].do = "put" /\ s[2].id = s[1].id
    BY <1>1, <2>1 DEF StepsOK
  <2>2. ASSUME 1 < Len(s) PROVE Tail(s) # <<>> /\ Head(Tail(s)) = s[2]
    <3>1. 1 \in 1 .. Len(Tail(s)) /\ Tail(s)[1] = s[2]
      BY <1>1, <1>2, <2>2
    <3>2. Len(Tail(s)) # 0
      BY <1>1, <1>2, <2>2
    <3>3. Tail(s) # <<>>
      BY <3>2, EmptySeq
    <3>4. Head(Tail(s)) = Tail(s)[1]
      BY <1>2, <3>3
    <3>5. QED
      BY <3>1, <3>3, <3>4
  <2>3. QED
    BY <1>1, <2>1, <2>2
<1>5. QED
  BY <1>1, <1>2, <1>3, <1>4 DEF StepsOK

------------------------------------------------------------------------------
(* The lists of steps of the calls. *)

LEMMA NoEditOK ==
  /\ NoEdit \in Edit /\ NoEdit.link = {} /\ NoEdit.content = {} /\ NoEdit.status = {}
BY DEF NoEdit, Edit

LEMMA DoStep ==
  ASSUME NEW kind \in StepKinds, NEW i \in Nat
  PROVE  /\ Do(kind, i) \in Step /\ Do(kind, i).do = kind /\ Do(kind, i).id = i
         /\ Do(kind, i).edit = NoEdit /\ Do(kind, i).row = {} /\ Do(kind, i).event = "updated"
BY NoEditOK DEF Do, Step, Events

LEMMA DoOK ==
  ASSUME NEW kind \in StepKinds, NEW n \in Nat, NEW i \in Nat, i < n,
         kind \notin {"insert", "restore", "get"}
  PROVE  StepOK(Do(kind, i), n) /\ StepsOK(<<Do(kind, i)>>, n)
<1>1. StepOK(Do(kind, i), n)
  BY DoStep, NoEditOK DEF StepOK, EditOK
<1>2. QED
  BY <1>1, DoStep, OneStep

LEMMA LogStep ==
  ASSUME NEW event \in Events, NEW i \in Nat
  PROVE  /\ Log(event, i) \in Step /\ Log(event, i).do = "log" /\ Log(event, i).id = i
         /\ Log(event, i).edit = NoEdit /\ Log(event, i).row = {} /\ Log(event, i).event = event
<1>1. "log" \in StepKinds
  BY DEF StepKinds
<1>2. QED
  BY <1>1, DoStep DEF Log, Step

LEMMA LogOK ==
  ASSUME NEW event \in Events, NEW n \in Nat, NEW i \in Nat, i < n
  PROVE  StepOK(Log(event, i), n) /\ StepsOK(<<Log(event, i)>>, n)
<1>1. StepOK(Log(event, i), n)
  BY LogStep, NoEditOK DEF StepOK, EditOK
<1>2. QED
  BY <1>1, LogStep, OneStep

LEMMA PutOK ==
  ASSUME NEW n \in Nat, NEW i \in Nat, i < n, NEW e, EditOK(i, e, n)
  PROVE  /\ StepOK(Put(i, e), n)
         /\ Put(i, e).do = "put" /\ Put(i, e).id = i /\ Put(i, e).edit = e
         /\ Put(i, e).event = "updated" /\ Put(i, e).row = {}
<1>1. "put" \in StepKinds
  BY DEF StepKinds
<1>2. /\ Put(i, e) \in Step /\ Put(i, e).do = "put" /\ Put(i, e).id = i
      /\ Put(i, e).edit = e /\ Put(i, e).row = {} /\ Put(i, e).event = "updated"
  BY <1>1, DoStep DEF Put, Step, EditOK
<1>3. QED
  BY <1>2 DEF StepOK

LEMMA UpdateOK ==
  ASSUME NEW n \in Nat, NEW i \in Nat, i < n, NEW e, EditOK(i, e, n)
  PROVE  StepsOK(UpdateSteps(i, e), n)
<1> DEFINE s == UpdateSteps(i, e)
<1>1. "get" \in StepKinds /\ "updated" \in Events
  BY DEF StepKinds, Events
<1>2. /\ StepOK(Get(i), n) /\ Get(i).do = "get" /\ Get(i).id = i
  BY <1>1, DoStep, NoEditOK DEF Get, StepOK, EditOK
<1>3. /\ StepOK(Put(i, e), n) /\ Put(i, e).do = "put" /\ Put(i, e).id = i
      /\ StepOK(Log("updated", i), n) /\ Log("updated", i).do = "log"
  <2>1. StepOK(Put(i, e), n) /\ Put(i, e).do = "put" /\ Put(i, e).id = i
    BY PutOK
  <2>2. StepOK(Log("updated", i), n)
    BY <1>1, LogOK
  <2>3. Log("updated", i).do = "log"
    BY <1>1, LogStep
  <2>4. QED
    BY <2>1, <2>2, <2>3
<1>4. Len(s) = 3 /\ s[1] = Get(i) /\ s[2] = Put(i, e) /\ s[3] = Log("updated", i)
  BY DEF UpdateSteps
<1>5. s \in Seq(Step)
  BY <1>2, <1>3 DEF UpdateSteps, StepOK
<1> HIDE DEF s
<1>6. StepsOK(s, n)
  BY <1>2, <1>3, <1>4, <1>5 DEF StepsOK
<1>7. QED
  BY <1>6 DEF s

LEMMA ToStatusOK ==
  ASSUME NEW status \in Status, NEW i, NEW n
  PROVE  EditOK(i, ToStatus(status), n) /\ ToStatus(status).status = {status}
<1>1. /\ ToStatus(status) \in Edit /\ ToStatus(status).link = {}
      /\ ToStatus(status).content = {} /\ ToStatus(status).status = {status}
  BY NoEditOK DEF ToStatus, Edit
<1>2. QED
  BY <1>1 DEF EditOK

\* A change of status and what is said of it in the log.
LEMMA StatusStepsOK ==
  ASSUME NEW n \in Nat, NEW i \in Nat, i < n
  PROVE  /\ StepsOK(ApproveSteps(i), n) /\ StepsOK(RejectSteps(i), n)
         /\ StepsOK(ForgetSteps(i), n)
<1>1. ASSUME NEW status \in Status, NEW event \in Events
      PROVE  StepsOK(UpdateSteps(i, ToStatus(status)) \o <<Log(event, i)>>, n)
  BY ToStatusOK, UpdateOK, LogOK, JoinSteps
<1>2. {"active", "archived", "forgotten"} \subseteq Status
      /\ {"approved", "rejected", "forgotten"} \subseteq Events
  BY DEF Status, Events
<1>3. QED
  BY <1>1, <1>2 DEF ApproveSteps, RejectSteps, ForgetSteps

\* A new memory, of any text.
FreshRow(r) == r \in Row /\ r.link = {}

LEMMA AddOK ==
  ASSUME NEW n \in Nat, NEW i \in Nat, 1 <= i, i < n, NEW r, FreshRow(r)
  PROVE  StepsOK(AddSteps(i, r), n) /\ Insert(i, r).do = "insert" /\ Insert(i, r).id = i
<1>1. "insert" \in StepKinds /\ "created" \in Events
  BY DEF StepKinds, Events
<1>2. /\ Insert(i, r) \in Step /\ Insert(i, r).do = "insert" /\ Insert(i, r).id = i
      /\ Insert(i, r).edit = NoEdit /\ Insert(i, r).row = {r}
  BY <1>1, DoStep DEF Insert, Step, FreshRow
<1>3. StepOK(Insert(i, r), n)
  BY <1>2, NoEditOK DEF StepOK, EditOK, FreshRow
<1>4. StepsOK(<<Insert(i, r)>>, n) /\ StepsOK(<<Log("created", i)>>, n)
  BY <1>1, <1>2, <1>3, OneStep, LogOK
<1>5. StepsOK(<<Insert(i, r)>> \o <<Log("created", i)>>, n)
  BY <1>4, JoinSteps
<1>6. AddSteps(i, r) = <<Insert(i, r)>> \o <<Log("created", i)>>
  BY DEF AddSteps
<1>7. QED
  BY <1>2, <1>5, <1>6

LEMMA SupersedeOK ==
  ASSUME NEW old \in Nat, NEW new \in Nat, 1 <= old, old < new, NEW r, FreshRow(r)
  PROVE  StepsOK(SupersedeSteps(old, new, r), new + 1)
<1> DEFINE e == [ToStatus("superseded") EXCEPT !.link = {new}]
           q == [r EXCEPT !.status = "pending"]
<1>1. {"superseded", "pending"} \subseteq Status /\ "superseded" \in Events
  BY DEF Status, Events
<1>2. ToStatus("superseded") \in Edit /\ ToStatus("superseded").content = {}
  BY <1>1, NoEditOK DEF ToStatus, Edit
<1>3. e \in Edit /\ e.content = {} /\ e.link = {new}
  BY <1>2 DEF Edit
<1>4. EditOK(old, e, new + 1)
  BY <1>3 DEF EditOK
<1>5. FreshRow(q)
  BY <1>1 DEF FreshRow, Row
<1> HIDE DEF e, q
<1>6. /\ StepsOK(UpdateSteps(old, e), new + 1)
      /\ StepsOK(AddSteps(new, q), new + 1)
      /\ StepsOK(<<Log("superseded", old)>>, new + 1)
  BY <1>1, <1>4, <1>5, UpdateOK, AddOK, LogOK
<1>7. QED
  BY <1>6, JoinSteps DEF SupersedeSteps, e, q

LEMMA PatchOK ==
  ASSUME NEW n \in Nat, NEW i \in Nat, i < n, NEW e, EditOK(i, e, n), NEW status
  PROVE  StepsOK(PatchSteps(i, e, status), n)
<1> DEFINE rest == IF e.status = {"active"} /\ status \in {"pending", "active"}
                   THEN [e EXCEPT !.status = {}] ELSE e
           first == IF e.status = {"active"} /\ status = "pending" THEN ApproveSteps(i) ELSE <<>>
           then == IF rest = NoEdit THEN <<>> ELSE UpdateSteps(i, rest)
<1>1. EditOK(i, [e EXCEPT !.status = {}], n)
  BY DEF EditOK, Edit
<1>2. EditOK(i, rest, n)
  BY <1>1
<1>3. StepsOK(first, n)
  BY StatusStepsOK, EmptySteps
<1> HIDE DEF rest
<1>4. StepsOK(then, n)
  BY <1>2, UpdateOK, EmptySteps
<1>5. PatchSteps(i, e, status) = first \o then
  BY DEF PatchSteps, rest
<1> HIDE DEF first, then
<1>6. QED
  BY <1>3, <1>4, <1>5, JoinSteps

------------------------------------------------------------------------------
(* Rows and tables. *)

LEMMA GivenIn ==
  ASSUME NEW S, NEW field \in SUBSET S, NEW old \in S
  PROVE  Given(field, old) \in S
BY DEF Given

LEMMA PatchedRow ==
  ASSUME NEW row \in Row, NEW e \in Edit
  PROVE  /\ Patched(row, e) \in Row
         /\ Patched(row, e).status = Given(e.status, row.status)
         /\ Patched(row, e).content = Given(e.content, row.content)
         /\ Patched(row, e).link = (IF e.link = {} THEN row.link ELSE e.link)
         /\ Patched(row, e).ns = row.ns
<1> DEFINE status == Given(e.status, row.status)
           content == Given(e.content, row.content)
           link == IF e.link = {} THEN row.link ELSE e.link
<1>1. status \in Status /\ content \in Contents /\ link \in SUBSET Nat
  BY GivenIn DEF Row, Edit
<1>2. Patched(row, e) = [row EXCEPT !.status = status, !.content = content, !.link = link]
  BY DEF Patched, Row
<1> HIDE DEF status, content, link
<1>3. /\ [row EXCEPT !.status = status, !.content = content, !.link = link] \in Row
      /\ [row EXCEPT !.status = status, !.content = content, !.link = link].status = status
      /\ [row EXCEPT !.status = status, !.content = content, !.link = link].content = content
      /\ [row EXCEPT !.status = status, !.content = content, !.link = link].link = link
      /\ [row EXCEPT !.status = status, !.content = content, !.link = link].ns = row.ns
  BY <1>1 DEF Row
<1>4. QED
  BY <1>2, <1>3 DEF status, content, link

LEMMA RewrittenRow ==
  ASSUME NEW i, rows[i] \in Row, NEW row \in Row, NEW e \in Edit
  PROVE  LET p == Patched(row, e)
             r == Rewritten(i, row, e) IN
         /\ r \in Row /\ r.status = p.status /\ r.content = p.content /\ r.link = p.link
         /\ r.ns = p.ns /\ r.pinned = rows[i].pinned
<1> DEFINE p == Patched(row, e)
<1>1. p \in Row /\ rows[i].pinned \in BOOLEAN /\ rows[i].used \in BOOLEAN
  BY PatchedRow DEF Row
<1>2. Rewritten(i, row, e) = [p EXCEPT !.pinned = rows[i].pinned, !.used = rows[i].used, !.expired = FALSE]
  BY DEF Rewritten
<1> HIDE DEF p
<1>3. QED
  BY <1>1, <1>2 DEF Row, p

\* The text, link and status that an UPDATE leaves behind are in order.
LEMMA PatchedOK ==
  ASSUME NEW i, NEW n, NEW row, RowOK(i, row, n), NEW e, EditOK(i, e, n), rows[i] \in Row
  PROVE  RowOK(i, Rewritten(i, row, e), n)
<1>1. row \in Row /\ e \in Edit
  BY DEF RowOK, EditOK
<1>2. /\ Rewritten(i, row, e) \in Row
      /\ Rewritten(i, row, e).content = Given(e.content, row.content)
      /\ Rewritten(i, row, e).link = (IF e.link = {} THEN row.link ELSE e.link)
  BY <1>1, PatchedRow, RewrittenRow
<1>3. QED
  BY <1>2 DEF RowOK, EditOK

LEMMA SetRowOK ==
  ASSUME NEW n, TableOK(rows, n), NEW i \in 1 .. n - 1, NEW row, RowOK(i, row, n),
         ~IndexRefuses(i, row)
  PROVE  TableOK(SetRow(i, row), n)
<1> DEFINE table == SetRow(i, row)
<1>1. /\ DOMAIN table = DOMAIN rows \cup {i} /\ table[i] = row
      /\ \A j \in DOMAIN rows : j # i => table[j] = rows[j]
  BY DEF SetRow
<1> HIDE DEF table
<1>2. \A j \in DOMAIN table : RowOK(j, table[j], n)
  BY <1>1 DEF TableOK
<1>3. Unique(table)
  BY <1>1 DEF TableOK, Unique, IndexRefuses
<1>4. QED
  BY <1>1, <1>2, <1>3 DEF TableOK, table

\* A change of another column.
LEMMA SameTextOK ==
  ASSUME NEW n, TableOK(rows, n), NEW i \in DOMAIN rows, NEW row \in Row,
         row.ns = rows[i].ns, row.content = rows[i].content,
         row.status = rows[i].status, row.link = rows[i].link
  PROVE  TableOK(SetRow(i, row), n)
<1>1. RowOK(i, row, n) /\ i \in 1 .. n - 1
  BY DEF TableOK, RowOK
<1>2. ~IndexRefuses(i, row)
  BY DEF TableOK, Unique, IndexRefuses
<1>3. QED
  BY <1>1, <1>2, SetRowOK

LEMMA FewerRowsOK ==
  ASSUME NEW n, TableOK(rows, n), NEW ids
  PROVE  TableOK([i \in DOMAIN rows \ ids |-> rows[i]], n)
BY DEF TableOK, Unique

------------------------------------------------------------------------------
(* How a thread goes on. *)

LEMMA NextStep ==
  ASSUME StoreInv, NEW t \in Threads, ~Idle(t)
  PROVE  /\ todo[t] # <<>> /\ This(t) \in Step
         /\ StepOK(This(t), nextId) /\ StepsOK(Tail(todo[t]), nextId)
         /\ This(t).do = "get" => /\ Tail(todo[t]) # <<>> /\ Head(Tail(todo[t])).do = "put"
                                  /\ Head(Tail(todo[t])).id = This(t).id
<1>1. todo[t] # <<>> /\ StepsOK(todo[t], nextId)
  BY DEF Idle, StoreInv, ThreadsOK
<1>2. QED
  BY <1>1, TailSteps DEF This, StepOK

\* Nothing is held while the next step is not a write.
LEMMA HoldsNothing ==
  ASSUME StoreInv, NEW t \in Threads, Idle(t) \/ This(t).do # "put"
  PROVE  snap[t] = {}
BY DEF StoreInv, ThreadsOK, HeldOK, Idle, This

LEMMA GoesTo ==
  ASSUME StoreInv, NEW t \in Threads, ~Idle(t),
         NEW steps, StepsOK(steps, nextId), Goes(t, steps)
  PROVE  /\ todo' \in [Threads -> Seq(Step)]
         /\ todo'[t] = steps \o Tail(todo[t]) /\ StepsOK(todo'[t], nextId)
         /\ \A u \in Threads : u # t => todo'[u] = todo[u]
<1>1. StepsOK(steps \o Tail(todo[t]), nextId)
  BY NextStep, JoinSteps
<1>2. steps \o Tail(todo[t]) \in Seq(Step)
  BY <1>1 DEF StepsOK
<1>3. todo \in [Threads -> Seq(Step)]
  BY DEF StoreInv, Typed
<1>4. todo' = [todo EXCEPT ![t] = steps \o Tail(todo[t])]
  BY DEF Goes
<1>5. QED
  BY <1>1, <1>2, <1>3, <1>4

LEMMA ProceedsTo ==
  ASSUME StoreInv, NEW t \in Threads, ~Idle(t), Proceeds(t)
  PROVE  /\ todo' \in [Threads -> Seq(Step)]
         /\ todo'[t] = Tail(todo[t]) /\ StepsOK(todo'[t], nextId)
         /\ \A u \in Threads : u # t => todo'[u] = todo[u]
<1>1. Goes(t, <<>>) /\ StepsOK(<<>>, nextId)
  BY EmptySteps DEF Proceeds
<1>2. /\ todo' \in [Threads -> Seq(Step)]
      /\ todo'[t] = <<>> \o Tail(todo[t]) /\ StepsOK(todo'[t], nextId)
      /\ \A u \in Threads : u # t => todo'[u] = todo[u]
  BY <1>1, GoesTo
<1>3. Tail(todo[t]) \in Seq(Step)
  BY NextStep DEF StepsOK
<1>4. <<>> \o Tail(todo[t]) = Tail(todo[t])
  BY <1>3, ConcatEmptySeq
<1>5. QED
  BY <1>2, <1>4

LEMMA RaisesTo ==
  ASSUME StoreInv, NEW t \in Threads, Raises(t)
  PROVE  /\ todo' \in [Threads -> Seq(Step)] /\ outcome' \in [Threads -> {"ok", "raised"}]
         /\ todo'[t] = <<>> /\ StepsOK(todo'[t], nextId)
         /\ \A u \in Threads : u # t => todo'[u] = todo[u]
<1>1. <<>> \in Seq(Step) /\ StepsOK(<<>>, nextId)
  BY EmptySteps DEF StepsOK
<1>2. QED
  BY <1>1 DEF Raises, StoreInv, Typed

\* A step of one thread leaves what the others are about to do in order.
LEMMA OthersWait ==
  ASSUME StoreInv, NEW t \in Threads, nextId' \in Nat, nextId <= nextId',
         \A u \in Threads : u # t =>
           todo'[u] = todo[u] /\ snap'[u] = snap[u] /\ picked'[u] = picked[u],
         StepsOK(todo'[t], nextId'), HeldOK(t, nextId)'
  PROVE  ThreadsOK'
<1>1. nextId \in Nat
  BY DEF StoreInv, Typed
<1>2. ASSUME NEW u \in Threads, u # t
      PROVE  StepsOK(todo'[u], nextId') /\ HeldOK(u, nextId)'
  <2>1. StepsOK(todo'[u], nextId')
    BY <1>1, <1>2, LaterSteps DEF StoreInv, ThreadsOK
  <2>2. HeldOK(u, nextId)
    BY DEF StoreInv, ThreadsOK
  <2>3. \A row \in snap[u] : RowOK(Head(todo[u]).id, row, nextId')
    BY <1>1, <2>2, LaterRow DEF HeldOK
  <2>4. picked[u] \subseteq 1 .. nextId' - 1
    BY <1>1, <2>2 DEF HeldOK
  <2>5. HeldOK(u, nextId)'
    BY <1>2, <2>2, <2>3, <2>4 DEF HeldOK
  <2>6. QED
    BY <2>1, <2>5
<1>3. QED
  BY <1>2 DEF ThreadsOK

\* What a thread that holds no row and has picked used ids may go on to do.
LEMMA HeldFree ==
  ASSUME NEW t \in Threads, snap'[t] = {}, picked'[t] \subseteq 1 .. nextId' - 1
  PROVE  HeldOK(t, nextId)'
BY DEF HeldOK

LEMMA TablesLater ==
  ASSUME StoreInv, nextId' \in Nat, nextId <= nextId', UNCHANGED dbVars
  PROVE  TableOK(rows', nextId') /\ \A table \in backup' : TableOK(table, nextId')
BY LaterTable DEF StoreInv, Typed, dbVars

------------------------------------------------------------------------------
(* The steps. *)

\* An id is used by the database.
LEMMA TypedFacts ==
  ASSUME StoreInv
  PROVE  /\ nextId \in Nat \ {0} /\ nextId <= nextId
         /\ \A t \in Threads : picked[t] \subseteq 1 .. nextId - 1
         /\ DOMAIN rows \subseteq 1 .. nextId - 1
         /\ \A i \in DOMAIN rows : rows[i] \in Row /\ RowOK(i, rows[i], nextId)
BY DEF StoreInv, Typed, ThreadsOK, HeldOK, TableOK, RowOK

LEMMA PatchKeeps == ASSUME StoreInv, NEW t \in Threads, StepPatch(t) PROVE StoreInv'
<1> DEFINE i == This(t).id
<1>1. ~Idle(t) /\ This(t).do = "patch" /\ snap[t] = {}
  BY HoldsNothing DEF StepPatch, Doing, This
<1>2. /\ todo' \in [Threads -> Seq(Step)] /\ outcome' \in [Threads -> {"ok", "raised"}]
      /\ StepsOK(todo'[t], nextId) /\ \A u \in Threads : u # t => todo'[u] = todo[u]
  <2>1. CASE i \in DOMAIN rows /\ Goes(t, PatchSteps(i, This(t).edit, rows[i].status)) /\ UNCHANGED outcome
    <3>1. i \in Nat /\ i < nextId /\ EditOK(i, This(t).edit, nextId)
      BY <1>1, NextStep DEF StepOK, Step
    <3>2. StepsOK(PatchSteps(i, This(t).edit, rows[i].status), nextId)
      BY <3>1, PatchOK, TypedFacts
    <3>3. QED
      BY <1>1, <2>1, <3>2, GoesTo DEF StoreInv, Typed
  <2>2. CASE Raises(t)
    BY <2>2, RaisesTo
  <2>3. QED
    BY <2>1, <2>2 DEF StepPatch
<1>3. UNCHANGED <<dbVars, snap, picked, answer, auditVars, unlogged, boundVars>>
  BY DEF StepPatch
<1>4. HeldOK(t, nextId)'
  BY <1>1, <1>3, HeldFree, TypedFacts DEF boundVars
<1>5. ThreadsOK'
  BY <1>2, <1>3, <1>4, OthersWait, TypedFacts DEF boundVars
<1>6. TableOK(rows, nextId)' /\ (\A table \in backup : TableOK(table, nextId))'
  BY <1>3, TablesLater, TypedFacts DEF boundVars
<1>7. Typed'
  BY <1>2, <1>3 DEF StoreInv, Typed, boundVars
<1>8. QED
  BY <1>5, <1>6, <1>7 DEF StoreInv

LEMMA GetKeeps == ASSUME StoreInv, NEW t \in Threads, StepGet(t) PROVE StoreInv'
<1> DEFINE i == This(t).id
<1>1. ~Idle(t) /\ This(t).do = "get" /\ snap[t] = {}
  BY HoldsNothing DEF StepGet, Doing, This
<1>2. UNCHANGED <<dbVars, picked, answer, auditVars, unlogged, boundVars>>
  BY DEF StepGet
<1>3. /\ todo' \in [Threads -> Seq(Step)] /\ outcome' \in [Threads -> {"ok", "raised"}]
      /\ StepsOK(todo'[t], nextId) /\ \A u \in Threads : u # t => todo'[u] = todo[u]
      /\ snap' \in [Threads -> SUBSET Row] /\ \A u \in Threads : u # t => snap'[u] = snap[u]
      /\ HeldOK(t, nextId)'
  <2>1. CASE i \in DOMAIN rows /\ snap' = [snap EXCEPT ![t] = {rows[i]}] /\ Proceeds(t) /\ UNCHANGED outcome
    <3>1. /\ snap' \in [Threads -> SUBSET Row] /\ snap'[t] = {rows[i]}
          /\ \A u \in Threads : u # t => snap'[u] = snap[u]
      BY <2>1, TypedFacts DEF StoreInv, Typed
    <3>2. /\ todo'[t] # <<>> /\ Head(todo'[t]).do = "put" /\ Head(todo'[t]).id = i
      BY <1>1, <2>1, ProceedsTo, NextStep
    <3>3. RowOK(i, rows[i], nextId)
      BY <2>1, TypedFacts
    <3>4. HeldOK(t, nextId)'
      BY <1>2, <3>1, <3>2, <3>3, TypedFacts DEF HeldOK, boundVars
    <3>5. QED
      BY <1>1, <2>1, <3>1, <3>4, ProceedsTo DEF StoreInv, Typed
  <2>2. CASE Raises(t) /\ UNCHANGED snap
    BY <1>1, <1>2, <2>2, RaisesTo, HeldFree, TypedFacts DEF StoreInv, Typed, boundVars
  <2>3. QED
    BY <2>1, <2>2 DEF StepGet
<1>4. ThreadsOK'
  BY <1>2, <1>3, OthersWait, TypedFacts DEF boundVars
<1>5. TableOK(rows, nextId)' /\ (\A table \in backup : TableOK(table, nextId))'
  BY <1>2, TablesLater, TypedFacts DEF boundVars
<1>6. Typed'
  BY <1>2, <1>3 DEF StoreInv, Typed, boundVars
<1>7. QED
  BY <1>4, <1>5, <1>6 DEF StoreInv

LEMMA PutKeeps == ASSUME StoreInv, NEW t \in Threads, StepPut(t) PROVE StoreInv'
<1> DEFINE i == This(t).id
           e == This(t).edit
<1>1. ~Idle(t) /\ This(t).do = "put"
  BY DEF StepPut, Doing, This
<1>2. /\ i \in Nat /\ i < nextId /\ EditOK(i, e, nextId) /\ e \in Edit
  BY <1>1, NextStep DEF StepOK, Step, EditOK
<1>3. /\ snap' = [snap EXCEPT ![t] = {}]
      /\ UNCHANGED <<backup, picked, answer, auditVars, boundVars>>
  BY DEF StepPut
<1>4. PICK record \in snap[t] :
        \/ /\ i \in DOMAIN rows
           /\ ~IndexRefuses(i, Patched(record, e))
           /\ rows' = SetRow(i, Rewritten(i, record, e))
           /\ Committed(t, "updated", i)
           /\ Proceeds(t)
           /\ UNCHANGED outcome
        \/ Raises(t) /\ UNCHANGED <<rows, unlogged>>
        \/ Proceeds(t) /\ UNCHANGED <<rows, unlogged, outcome>>
  BY DEF StepPut
<1>5. RowOK(i, record, nextId) /\ record \in Row
  BY <1>1 DEF StoreInv, ThreadsOK, HeldOK, RowOK, This
<1>6. /\ todo' \in [Threads -> Seq(Step)] /\ outcome' \in [Threads -> {"ok", "raised"}]
      /\ StepsOK(todo'[t], nextId) /\ \A u \in Threads : u # t => todo'[u] = todo[u]
  BY <1>1, <1>4, ProceedsTo, RaisesTo DEF StoreInv, Typed
<1>7. TableOK(rows', nextId) /\ unlogged' \subseteq Threads \X Events \X Nat
  <2>1. CASE /\ i \in DOMAIN rows /\ ~IndexRefuses(i, Patched(record, e))
             /\ rows' = SetRow(i, Rewritten(i, record, e)) /\ Committed(t, "updated", i)
    <3>1. rows[i] \in Row /\ i \in 1 .. nextId - 1
      BY <2>1, TypedFacts
    <3>2. RowOK(i, Rewritten(i, record, e), nextId)
      BY <1>2, <1>5, <3>1, PatchedOK
    <3>3. ~IndexRefuses(i, Rewritten(i, record, e))
      BY <1>2, <1>5, <2>1, <3>1, RewrittenRow DEF IndexRefuses
    <3>4. TableOK(rows', nextId)
      BY <2>1, <3>1, <3>2, <3>3, SetRowOK DEF StoreInv
    <3>5. "updated" \in Events
      BY DEF Events
    <3>6. QED
      BY <1>2, <2>1, <3>4, <3>5 DEF Committed, StoreInv, Typed
  <2>2. CASE UNCHANGED <<rows, unlogged>>
    BY <2>2 DEF StoreInv, Typed
  <2>3. QED
    BY <1>4, <2>1, <2>2
<1>8. snap' \in [Threads -> SUBSET Row] /\ snap'[t] = {} /\ \A u \in Threads : u # t => snap'[u] = snap[u]
  BY <1>3 DEF StoreInv, Typed
<1>9. ThreadsOK'
  BY <1>3, <1>6, <1>8, HeldFree, OthersWait, TypedFacts DEF boundVars
<1>10. TableOK(rows, nextId)' /\ (\A table \in backup : TableOK(table, nextId))'
  BY <1>3, <1>7 DEF StoreInv, boundVars
<1>11. Typed'
  BY <1>3, <1>6, <1>7, <1>8 DEF StoreInv, Typed, boundVars
<1>12. QED
  BY <1>9, <1>10, <1>11 DEF StoreInv

LEMMA InsertKeeps == ASSUME StoreInv, NEW t \in Threads, StepInsert(t) PROVE StoreInv'
<1> DEFINE i == This(t).id
<1>1. ~Idle(t) /\ This(t).do = "insert" /\ snap[t] = {}
  BY HoldsNothing DEF StepInsert, Doing, This
<1>2. /\ i \in Nat /\ i >= 1 /\ i < nextId /\ This(t).row \subseteq Row
      /\ \A row \in This(t).row : row.link = {}
  BY <1>1, NextStep DEF StepOK, Step
<1>3. UNCHANGED <<backup, snap, picked, answer, auditVars, boundVars>>
  BY DEF StepInsert
<1>4. PICK row \in This(t).row :
        \/ /\ todo' = [todo EXCEPT ![t] = <<Log("secret_rejected", 0)>>]
           /\ outcome' = [outcome EXCEPT ![t] = "raised"]
           /\ UNCHANGED <<rows, unlogged>>
        \/ Raises(t) /\ UNCHANGED <<rows, unlogged>>
        \/ /\ ~Unsafe(row) /\ ~IndexRefuses(i, row)
           /\ rows' = SetRow(i, row) /\ Committed(t, "created", i)
           /\ Proceeds(t) /\ UNCHANGED outcome
  BY DEF StepInsert
<1>5. /\ todo' \in [Threads -> Seq(Step)] /\ outcome' \in [Threads -> {"ok", "raised"}]
      /\ StepsOK(todo'[t], nextId) /\ \A u \in Threads : u # t => todo'[u] = todo[u]
  <2>1. CASE /\ todo' = [todo EXCEPT ![t] = <<Log("secret_rejected", 0)>>]
             /\ outcome' = [outcome EXCEPT ![t] = "raised"]
    <3>1. "secret_rejected" \in Events
      BY DEF Events
    <3>2. StepsOK(<<Log("secret_rejected", 0)>>, nextId)
      BY <3>1, LogOK, TypedFacts
    <3>3. <<Log("secret_rejected", 0)>> \in Seq(Step)
      BY <3>2 DEF StepsOK
    <3>4. QED
      BY <2>1, <3>2, <3>3 DEF StoreInv, Typed
  <2>2. CASE Raises(t)
    BY <2>2, RaisesTo
  <2>3. CASE Proceeds(t) /\ UNCHANGED outcome
    BY <1>1, <2>3, ProceedsTo DEF StoreInv, Typed
  <2>4. QED
    BY <1>4, <2>1, <2>2, <2>3
<1>6. TableOK(rows', nextId) /\ unlogged' \subseteq Threads \X Events \X Nat
  <2>1. CASE ~Unsafe(row) /\ ~IndexRefuses(i, row) /\ rows' = SetRow(i, row) /\ Committed(t, "created", i)
    <3>1. RowOK(i, row, nextId)
      BY <1>2, <2>1 DEF RowOK, Unsafe
    <3>2. TableOK(rows', nextId)
      BY <1>2, <2>1, <3>1, SetRowOK, TypedFacts DEF StoreInv
    <3>3. "created" \in Events
      BY DEF Events
    <3>4. QED
      BY <1>2, <2>1, <3>2, <3>3 DEF Committed, StoreInv, Typed
  <2>2. CASE UNCHANGED <<rows, unlogged>>
    BY <2>2 DEF StoreInv, Typed
  <2>3. QED
    BY <1>4, <2>1, <2>2
<1>7. ThreadsOK'
  BY <1>1, <1>3, <1>5, HeldFree, OthersWait, TypedFacts DEF boundVars
<1>8. TableOK(rows, nextId)' /\ (\A table \in backup : TableOK(table, nextId))'
  BY <1>3, <1>6 DEF StoreInv, boundVars
<1>9. Typed'
  BY <1>3, <1>5, <1>6 DEF StoreInv, Typed, boundVars
<1>10. QED
  BY <1>7, <1>8, <1>9 DEF StoreInv

LEMMA LogKeeps ==
  ASSUME StoreInv, NEW t \in Threads, StepLogRead(t) \/ StepLogInsert(t)
  PROVE  StoreInv'
<1>1. CASE StepLogRead(t)
  <2>1. UNCHANGED <<dbVars, threadVars, unlogged, boundVars>>
    BY <1>1 DEF StepLogRead
  <2>2. QED
    BY <2>1
    DEF dbVars, threadVars, boundVars, StoreInv, Typed, ThreadsOK, HeldOK
<1>2. CASE StepLogInsert(t)
  <2>1. ~Idle(t) /\ This(t).do = "log" /\ snap[t] = {}
    BY <1>2, HoldsNothing DEF StepLogInsert, Doing, This
  <2>2. UNCHANGED <<dbVars, snap, picked, answer, boundVars>>
    BY <1>2 DEF StepLogInsert
  <2>3. /\ unlogged' \subseteq unlogged
        /\ (Proceeds(t) /\ UNCHANGED outcome) \/ Raises(t)
    BY <1>2 DEF StepLogInsert
  <2>4. /\ todo' \in [Threads -> Seq(Step)] /\ outcome' \in [Threads -> {"ok", "raised"}]
        /\ StepsOK(todo'[t], nextId) /\ \A u \in Threads : u # t => todo'[u] = todo[u]
    BY <2>1, <2>3, ProceedsTo, RaisesTo DEF StoreInv, Typed
  <2>5. ThreadsOK'
    BY <2>1, <2>2, <2>4, HeldFree, OthersWait, TypedFacts DEF boundVars
  <2>6. TableOK(rows, nextId)' /\ (\A table \in backup : TableOK(table, nextId))'
    BY <2>2, TablesLater, TypedFacts DEF boundVars
  <2>7. Typed'
    BY <2>2, <2>3, <2>4 DEF StoreInv, Typed, boundVars
  <2>8. QED
    BY <2>5, <2>6, <2>7 DEF StoreInv
<1>3. QED
  BY <1>1, <1>2

\* A step that neither reads a row to write it back nor raises.
LEMMA PlainKeeps ==
  ASSUME StoreInv, NEW t \in Threads, ~Idle(t), This(t).do # "put",
         NEW steps, StepsOK(steps, nextId), Goes(t, steps),
         UNCHANGED <<outcome, snap, boundVars>>,
         TableOK(rows', nextId), \A table \in backup' : TableOK(table, nextId),
         picked' \in [Threads -> SUBSET Nat], picked'[t] \subseteq 1 .. nextId - 1,
         \A u \in Threads : u # t => picked'[u] = picked[u],
         answer' \in [Threads -> SUBSET Row],
         unlogged' \subseteq Threads \X Events \X Nat
  PROVE  StoreInv'
<1>1. /\ todo' \in [Threads -> Seq(Step)] /\ StepsOK(todo'[t], nextId)
      /\ \A u \in Threads : u # t => todo'[u] = todo[u]
  BY GoesTo
<1>2. nextId' = nextId /\ snap'[t] = {}
  BY HoldsNothing DEF boundVars
<1>3. ThreadsOK'
  BY <1>1, <1>2, HeldFree, OthersWait, TypedFacts
<1>4. TableOK(rows, nextId)' /\ (\A table \in backup : TableOK(table, nextId))'
  BY <1>2
<1>5. Typed'
  BY <1>1 DEF StoreInv, Typed, boundVars
<1>6. QED
  BY <1>3, <1>4, <1>5 DEF StoreInv

LEMMA MarkKeeps ==
  ASSUME StoreInv, NEW t \in Threads, StepPin(t) \/ StepTouch(t)
  PROVE  StoreInv'
<1> DEFINE i == This(t).id
<1>1. /\ ~Idle(t) /\ This(t).do # "put" /\ Goes(t, <<>>)
      /\ UNCHANGED <<backup, outcome, snap, picked, answer, auditVars, unlogged, boundVars>>
  BY DEF StepPin, StepTouch, Doing, This, Proceeds
<1>2. TableOK(rows', nextId)
  <2>1. ASSUME NEW row, i \in DOMAIN rows, rows' = SetRow(i, row),
               \/ \E pin \in BOOLEAN : row = [rows[i] EXCEPT !.pinned = pin]
               \/ row = [rows[i] EXCEPT !.used = TRUE]
        PROVE  TableOK(rows', nextId)
    <3>1. rows[i] \in Row
      BY <2>1, TypedFacts
    <3>2. /\ row \in Row /\ row.ns = rows[i].ns /\ row.content = rows[i].content
          /\ row.status = rows[i].status /\ row.link = rows[i].link
      BY <2>1, <3>1 DEF Row
    <3>3. QED
      BY <2>1, <3>2, SameTextOK DEF StoreInv
  <2>2. CASE i \notin DOMAIN rows
    BY <2>2 DEF StepPin, StepTouch, StoreInv
  <2>3. CASE StepPin(t) /\ i \in DOMAIN rows
    <3>1. rows' = SetRow(i, [rows[i] EXCEPT !.pinned = Doing(t, "pin")]) /\ Doing(t, "pin") \in BOOLEAN
      BY <2>3 DEF StepPin, Doing
    <3>2. QED
      BY <2>1, <2>3, <3>1
  <2>4. CASE StepTouch(t) /\ i \in DOMAIN rows
    BY <2>1, <2>4 DEF StepTouch
  <2>5. QED
    BY <2>2, <2>3, <2>4
<1>3. QED
  BY <1>1, <1>2, PlainKeeps, EmptySteps, TypedFacts DEF StoreInv, Typed

LEMMA PickKeeps ==
  ASSUME StoreInv, NEW t \in Threads, StepPickForgotten(t) \/ StepMatch(t)
  PROVE  StoreInv'
<1>1. /\ ~Idle(t) /\ This(t).do # "put" /\ Goes(t, <<>>)
      /\ UNCHANGED <<dbVars, outcome, snap, answer, auditVars, unlogged, boundVars>>
  BY DEF StepPickForgotten, StepMatch, Doing, This, Proceeds
<1>2. PICK ids \in SUBSET DOMAIN rows : picked' = [picked EXCEPT ![t] = ids]
  BY DEF StepPickForgotten, StepMatch, Tombstones, Searchable
<1>3. ids \subseteq 1 .. nextId - 1 /\ ids \subseteq Nat
  BY <1>2, TypedFacts
<1>4. /\ picked' \in [Threads -> SUBSET Nat] /\ picked'[t] \subseteq 1 .. nextId - 1
      /\ \A u \in Threads : u # t => picked'[u] = picked[u]
  BY <1>2, <1>3 DEF StoreInv, Typed
<1>5. QED
  BY <1>1, <1>4, PlainKeeps, EmptySteps DEF StoreInv, Typed, dbVars

LEMMA FetchKeeps == ASSUME StoreInv, NEW t \in Threads, StepFetch(t) PROVE StoreInv'
<1>1. /\ ~Idle(t) /\ This(t).do # "put" /\ Goes(t, <<>>)
      /\ UNCHANGED <<dbVars, outcome, snap, auditVars, unlogged, boundVars>>
  BY DEF StepFetch, Doing, This, Proceeds
<1>2. {rows[i] : i \in picked[t] \cap DOMAIN rows} \subseteq Row
  BY TypedFacts
<1>3. answer' \in [Threads -> SUBSET Row]
  BY <1>2 DEF StepFetch, StoreInv, Typed
<1>4. /\ picked' \in [Threads -> SUBSET Nat] /\ picked'[t] = {}
      /\ \A u \in Threads : u # t => picked'[u] = picked[u]
  BY DEF StepFetch, StoreInv, Typed
<1>5. QED
  BY <1>1, <1>3, <1>4, PlainKeeps, EmptySteps DEF StoreInv, Typed, dbVars

\* The events of a purge, in any order.
LEMMA PurgeLogs ==
  ASSUME NEW n \in Nat, NEW ids \in SUBSET (1 .. n - 1), NEW order \in SetToSeqs(ids)
  PROVE  LET steps == [k \in DOMAIN order |-> Log("purged", order[k])] IN
         /\ StepsOK(steps, n)
         /\ \A k \in 1 .. Len(steps) : \E i \in ids : steps[k] = Log("purged", i)
<1> DEFINE steps == [k \in DOMAIN order |-> Log("purged", order[k])]
<1>0. 1 \in Int /\ n - 1 \in Int /\ ids \subseteq 1 .. n - 1
  OBVIOUS
<1>1. IsFiniteSet(ids)
  <2>1. IsFiniteSet(1 .. n - 1)
    BY <1>0, FS_Interval
  <2>2. QED
    BY <1>0, <2>1, FS_Subset
<1>2. Cardinality(ids) \in Nat
  BY <1>1, FS_CardinalityType
<1>3. DOMAIN order = 1 .. Cardinality(ids) /\ \A k \in DOMAIN order : order[k] \in ids
  BY DEF SetToSeqs
<1>4. \A k \in DOMAIN order : order[k] \in Nat /\ order[k] < n
  <2>1. \A i \in ids : i \in Nat /\ i < n
    OBVIOUS
  <2>2. QED
    BY <1>3, <2>1
<1>5. "purged" \in Events
  BY DEF Events
<1>6. \A k \in DOMAIN order : /\ StepOK(Log("purged", order[k]), n) /\ Log("purged", order[k]).do # "get"
                              /\ Log("purged", order[k]) \in Step
  BY <1>4, <1>5, LogOK, LogStep
<1>7. steps \in Seq(Step) /\ Len(steps) = Cardinality(ids)
  BY <1>2, <1>3, <1>6
<1>8. \A k \in 1 .. Len(steps) : steps[k] = Log("purged", order[k]) /\ k \in DOMAIN order
  BY <1>3, <1>7
<1> HIDE DEF steps
<1>9. StepsOK(steps, n)
  BY <1>6, <1>7, <1>8 DEF StepsOK
<1>10. \A k \in 1 .. Len(steps) : \E i \in ids : steps[k] = Log("purged", i)
  BY <1>3, <1>8
<1>11. QED
  BY <1>9, <1>10 DEF steps

LEMMA DeleteKeeps == ASSUME StoreInv, NEW t \in Threads, StepDeletePicked(t) PROVE StoreInv'
<1>1. /\ ~Idle(t) /\ This(t).do # "put"
      /\ UNCHANGED <<backup, outcome, snap, answer, auditVars, boundVars>>
  BY DEF StepDeletePicked, Doing, This
<1>2. picked[t] \in SUBSET (1 .. nextId - 1) /\ nextId \in Nat
  BY TypedFacts
<1>3. PICK order \in SetToSeqs(picked[t]) : Goes(t, [k \in DOMAIN order |-> Log("purged", order[k])])
  BY DEF StepDeletePicked
<1>4. StepsOK([k \in DOMAIN order |-> Log("purged", order[k])], nextId)
  BY <1>2, PurgeLogs
<1>5. TableOK(rows', nextId)
  BY FewerRowsOK DEF StepDeletePicked, StoreInv
<1>6. unlogged' \subseteq Threads \X Events \X Nat
  <2>1. "purged" \in Events
    BY DEF Events
  <2>2. QED
    BY <1>2, <2>1 DEF StepDeletePicked, StoreInv, Typed
<1>7. /\ picked' \in [Threads -> SUBSET Nat] /\ picked'[t] = {}
      /\ \A u \in Threads : u # t => picked'[u] = picked[u]
  BY DEF StepDeletePicked, StoreInv, Typed
<1>8. QED
  BY <1>1, <1>3, <1>4, <1>5, <1>6, <1>7, PlainKeeps DEF StoreInv, Typed

LEMMA BackupKeeps == ASSUME StoreInv, NEW t \in Threads, StepBackup(t) PROVE StoreInv'
<1>1. /\ ~Idle(t) /\ This(t).do # "put" /\ Goes(t, <<>>) /\ backup' = {rows}
      /\ UNCHANGED <<rows, outcome, snap, picked, answer, unlogged, boundVars>>
  BY DEF StepBackup, Doing, This, Proceeds
<1>2. QED
  BY <1>1, PlainKeeps, EmptySteps, TypedFacts DEF StoreInv, Typed

LEMMA RestoreKeeps == ASSUME StoreInv, NEW t \in Threads, StepRestore(t) PROVE StoreInv'
<1>1. /\ ~Idle(t) /\ This(t).do = "restore"
      /\ UNCHANGED <<backup, snap, picked, answer, unlogged, boundVars>>
  BY DEF StepRestore, Doing, This
<1>2. CASE Goes(t, <<>>) /\ UNCHANGED outcome /\ \E table \in backup : rows' = table
  BY <1>1, <1>2, PlainKeeps, EmptySteps, TypedFacts DEF StoreInv, Typed
<1>3. CASE Raises(t) /\ UNCHANGED rows
  <2>1. snap[t] = {} /\ UNCHANGED dbVars
    BY <1>1, <1>3, HoldsNothing DEF dbVars
  <2>2. ThreadsOK'
    BY <1>1, <1>3, <2>1, RaisesTo, HeldFree, OthersWait, TypedFacts DEF boundVars
  <2>3. TableOK(rows, nextId)' /\ (\A table \in backup : TableOK(table, nextId))'
    BY <1>1, <2>1, TablesLater, TypedFacts DEF boundVars
  <2>4. Typed'
    BY <1>1, <1>3, RaisesTo DEF StoreInv, Typed, boundVars
  <2>5. QED
    BY <2>2, <2>3, <2>4 DEF StoreInv
<1>4. QED
  BY <1>2, <1>3 DEF StepRestore, Proceeds

------------------------------------------------------------------------------
(* The calls, the time, the crashes. *)

LEMMA StartKeeps ==
  ASSUME StoreInv, NEW t \in Threads, NEW steps, Starts(t, steps),
         nextId' \in Nat, nextId <= nextId', StepsOK(steps, nextId')
  PROVE  StoreInv'
<1>1. /\ Idle(t) /\ calls' = calls + 1
      /\ todo' = [todo EXCEPT ![t] = steps]
      /\ outcome' = [outcome EXCEPT ![t] = "ok"]
      /\ answer' = [answer EXCEPT ![t] = {}]
      /\ UNCHANGED <<dbVars, snap, picked, auditVars, unlogged, crashes>>
  BY DEF Starts
<1>2. /\ todo' \in [Threads -> Seq(Step)] /\ todo'[t] = steps
      /\ \A u \in Threads : u # t => todo'[u] = todo[u]
  BY <1>1 DEF StepsOK, StoreInv, Typed
<1>3. snap'[t] = {} /\ picked'[t] \subseteq 1 .. nextId' - 1
  BY <1>1, HoldsNothing, TypedFacts
<1>4. ThreadsOK'
  BY <1>1, <1>2, <1>3, HeldFree, OthersWait
<1>5. TableOK(rows, nextId)' /\ (\A table \in backup : TableOK(table, nextId))'
  BY <1>1, TablesLater
<1>6. Typed'
  BY <1>1, <1>2, TypedFacts DEF StoreInv, Typed
<1>7. QED
  BY <1>4, <1>5, <1>6 DEF StoreInv

LEMMA FreshIsFresh ==
  ASSUME NEW ns \in Namespaces, NEW c \in Contents, NEW status \in Status
  PROVE  FreshRow(NewRow(ns, c, status))
BY DEF FreshRow, NewRow, Row

LEMMA CallKeeps == ASSUME StoreInv, NEW t \in Threads, Call(t) PROVE StoreInv'
<1>0. {"pending", "active"} \subseteq Status
  BY DEF Status
<1>1. CASE CallAdd(t)
  <2>1. nextId' = nextId + 1 /\ nextId' \in Nat /\ nextId <= nextId' /\ nextId \in Nat /\ 1 <= nextId
    BY <1>1, TypedFacts DEF CallAdd
  <2>2. PICK ns \in Namespaces, c \in Contents, status \in {"pending", "active"} :
          Starts(t, AddSteps(nextId, NewRow(ns, c, status)))
    BY <1>1 DEF CallAdd
  <2>3. StepsOK(AddSteps(nextId, NewRow(ns, c, status)), nextId')
    BY <1>0, <2>1, <2>2, FreshIsFresh, AddOK
  <2>4. QED
    BY <2>1, <2>2, <2>3, StartKeeps
<1>2. CASE CallSupersede(t)
  <2>1. nextId' = nextId + 1 /\ nextId' \in Nat /\ nextId <= nextId' /\ nextId \in Nat
    BY <1>2, TypedFacts DEF CallSupersede
  <2>2. PICK old \in DOMAIN rows, c \in Contents :
          Starts(t, SupersedeSteps(old, nextId, NewRow(rows[old].ns, c, "pending")))
    BY <1>2 DEF CallSupersede
  <2>3. old \in Nat /\ 1 <= old /\ old < nextId /\ rows[old].ns \in Namespaces
    BY <2>1, TypedFacts DEF Row
  <2>4. FreshRow(NewRow(rows[old].ns, c, "pending"))
    BY <1>0, <2>3, FreshIsFresh
  <2>5. StepsOK(SupersedeSteps(old, nextId, NewRow(rows[old].ns, c, "pending")), nextId')
    BY <2>1, <2>3, <2>4, SupersedeOK
  <2>6. QED
    BY <2>1, <2>2, <2>5, StartKeeps
<1>3. CASE CallOnRecord(t)
  <2>1. nextId' = nextId /\ nextId \in Nat
    BY <1>3, TypedFacts DEF CallOnRecord
  <2>2. PICK i \in DOMAIN rows :
          \/ \E e \in Edits : Starts(t, <<[Do("patch", i) EXCEPT !.edit = e]>>)
          \/ Starts(t, ApproveSteps(i)) \/ Starts(t, RejectSteps(i)) \/ Starts(t, ForgetSteps(i))
          \/ \E kind \in {"pin", "unpin", "touch"} : Starts(t, <<Do(kind, i)>>)
    BY <1>3 DEF CallOnRecord
  <2>3. i \in Nat /\ i < nextId
    BY <2>1, TypedFacts
  <2>4. {"patch", "pin", "unpin", "touch"} \subseteq StepKinds
    BY DEF StepKinds
  <2>5. ASSUME NEW e \in Edits PROVE StepsOK(<<[Do("patch", i) EXCEPT !.edit = e]>>, nextId)
    <3> DEFINE step == [Do("patch", i) EXCEPT !.edit = e]
    <3>1. e \in Edit /\ e.link = {} /\ EditOK(i, e, nextId)
      BY EditsAssumption DEF EditOK
    <3>2. /\ step \in Step /\ step.do = "patch" /\ step.id = i
          /\ step.edit = e /\ step.row = {}
      BY <2>3, <2>4, <3>1, DoStep DEF Step
    <3> HIDE DEF step
    <3>3. StepOK(step, nextId)
      BY <2>3, <3>1, <3>2 DEF StepOK
    <3>4. StepsOK(<<step>>, nextId)
      BY <3>2, <3>3, OneStep
    <3>5. QED
      BY <3>4 DEF step
  <2>6. \A kind \in {"pin", "unpin", "touch"} : StepsOK(<<Do(kind, i)>>, nextId)
    BY <2>1, <2>3, <2>4, DoOK
  <2>7. StepsOK(ApproveSteps(i), nextId) /\ StepsOK(RejectSteps(i), nextId) /\ StepsOK(ForgetSteps(i), nextId)
    BY <2>1, <2>3, StatusStepsOK
  <2>8. QED
    <3>1. PICK steps : Starts(t, steps) /\ StepsOK(steps, nextId)
      BY <2>2, <2>5, <2>6, <2>7
    <3>2. QED
      BY <2>1, <3>1, StartKeeps
<1>4. CASE CallOnStore(t)
  <2>1. nextId' = nextId /\ nextId \in Nat /\ 0 < nextId
    BY <1>4, TypedFacts DEF CallOnStore
  <2>2. {"pick_forgotten", "delete_picked", "match", "fetch", "backup", "restore"} \subseteq StepKinds
        /\ {"backup", "restore"} \subseteq Events
    BY DEF StepKinds, Events
  <2>3. StepsOK(PurgeSteps, nextId)
    <3>1. /\ StepsOK(<<Do("pick_forgotten", 0)>>, nextId) /\ StepsOK(<<Do("delete_picked", 0)>>, nextId)
      BY <2>1, <2>2, DoOK
    <3>2. PurgeSteps = <<Do("pick_forgotten", 0)>> \o <<Do("delete_picked", 0)>>
      BY DEF PurgeSteps
    <3>3. QED
      BY <3>1, <3>2, JoinSteps
  <2>4. StepsOK(SearchSteps, nextId)
    <3>1. StepsOK(<<Do("match", 0)>>, nextId) /\ StepsOK(<<Do("fetch", 0)>>, nextId)
      BY <2>1, <2>2, DoOK
    <3>2. SearchSteps = <<Do("match", 0)>> \o <<Do("fetch", 0)>>
      BY DEF SearchSteps
    <3>3. QED
      BY <3>1, <3>2, JoinSteps
  <2>5. StepsOK(BackupSteps, nextId)
    <3>1. StepsOK(<<Do("backup", 0)>>, nextId) /\ StepsOK(<<Log("backup", 0)>>, nextId)
      BY <2>1, <2>2, DoOK, LogOK
    <3>2. BackupSteps = <<Do("backup", 0)>> \o <<Log("backup", 0)>>
      BY DEF BackupSteps
    <3>3. QED
      BY <3>1, <3>2, JoinSteps
  <2>6. ASSUME "restore" \in Calls PROVE StepsOK(RestoreSteps, nextId)
    <3>1. StepOK(Do("restore", 0), nextId) /\ Do("restore", 0).do = "restore"
      BY <2>1, <2>2, <2>6, DoStep, NoEditOK DEF StepOK, EditOK
    <3>2. StepsOK(<<Do("restore", 0)>>, nextId) /\ StepsOK(<<Log("restore", 0)>>, nextId)
      BY <2>1, <2>2, <3>1, OneStep, LogOK
    <3>3. RestoreSteps = <<Do("restore", 0)>> \o <<Log("restore", 0)>>
      BY DEF RestoreSteps
    <3>4. QED
      BY <3>2, <3>3, JoinSteps
  <2>7. QED
    BY <1>4, <2>1, <2>3, <2>4, <2>5, <2>6, StartKeeps DEF CallOnStore
<1>5. QED
  BY <1>1, <1>2, <1>3, <1>4 DEF Call

LEMMA RetentionKeeps == ASSUME StoreInv, NEW i \in DOMAIN rows, RetentionEnds(i) PROVE StoreInv'
<1>1. /\ rows' = SetRow(i, [rows[i] EXCEPT !.expired = TRUE])
      /\ UNCHANGED <<backup, threadVars, auditVars, unlogged, boundVars>>
  BY DEF RetentionEnds
<1>2. rows[i] \in Row
  BY TypedFacts
<1>3. TableOK(rows', nextId)
  <2>1. /\ [rows[i] EXCEPT !.expired = TRUE] \in Row
        /\ [rows[i] EXCEPT !.expired = TRUE].ns = rows[i].ns
        /\ [rows[i] EXCEPT !.expired = TRUE].content = rows[i].content
        /\ [rows[i] EXCEPT !.expired = TRUE].status = rows[i].status
        /\ [rows[i] EXCEPT !.expired = TRUE].link = rows[i].link
    BY <1>2 DEF Row
  <2>2. QED
    BY <1>1, <2>1, SameTextOK DEF StoreInv
<1>4. QED
  BY <1>1, <1>3 DEF threadVars, boundVars, StoreInv, Typed, ThreadsOK, HeldOK

LEMMA CrashKeeps == ASSUME StoreInv, Crash PROVE StoreInv'
<1>1. /\ todo' = [t \in Threads |-> <<>>] /\ outcome' = [t \in Threads |-> "ok"]
      /\ snap' = [t \in Threads |-> {}] /\ picked' = [t \in Threads |-> {}]
      /\ answer' = [t \in Threads |-> {}] /\ crashes' = crashes + 1
      /\ UNCHANGED <<dbVars, unlogged, nextId, calls>>
  BY DEF Crash
<1>2. <<>> \in Seq(Step)
  OBVIOUS
<1>3. Typed'
  BY <1>1, <1>2 DEF StoreInv, Typed
<1>4. ThreadsOK'
  BY <1>1, EmptySteps DEF ThreadsOK, HeldOK
<1>5. QED
  BY <1>1, <1>3, <1>4 DEF StoreInv, dbVars

LEMMA StoreStart == Init => StoreInv
<1> SUFFICES ASSUME Init PROVE StoreInv
  OBVIOUS
<1>1. DOMAIN rows = {} /\ backup = {} /\ nextId = 1
  BY DEF Init
<1>2. <<>> \in Seq(Step)
  OBVIOUS
<1>3. Typed
  BY <1>2 DEF Init, Typed
<1>4. ThreadsOK
  BY EmptySteps DEF Init, ThreadsOK, HeldOK
<1>5. QED
  BY <1>1, <1>3, <1>4 DEF StoreInv, TableOK, Unique

LEMMA StoreNext == StoreInv /\ [Next]_vars => StoreInv'
<1>1. ASSUME StoreInv, NEW t \in Threads, StoreStep(t) PROVE StoreInv'
  BY <1>1, PatchKeeps, GetKeeps, PutKeeps, InsertKeeps, LogKeeps, MarkKeeps, PickKeeps,
     FetchKeeps, DeleteKeeps, BackupKeeps, RestoreKeeps DEF StoreStep
<1>2. ASSUME StoreInv, UNCHANGED vars PROVE StoreInv'
  BY <1>2 DEF vars, dbVars, threadVars, boundVars, StoreInv, Typed, ThreadsOK, HeldOK
<1>3. QED
  BY <1>1, <1>2, CallKeeps, RetentionKeeps, CrashKeeps DEF Next

LEMMA StoreInvariance == Spec => []StoreInv
BY StoreStart, StoreNext, PTL DEF Spec

------------------------------------------------------------------------------
(* What follows for the table, whatever the calls. *)

(***************************************************************************)
(* A secret in the table, in a backup or in the row that a thread is going *)
(* to write back belongs to a memory into which an edit wrote one.         *)
(***************************************************************************)
SecretsIn(table) == {i \in DOMAIN table : table[i].content \in Secrets}

HeldSecrets(t) == \A row \in snap[t] : row.content \in Secrets => This(t).id \in leaked

SecretInv ==
  /\ leaked \subseteq Nat /\ restored \in BOOLEAN
  /\ SecretsIn(rows) \subseteq leaked
  /\ \A table \in backup : SecretsIn(table) \subseteq leaked
  /\ \A t \in Threads : HeldSecrets(t)

\* A step that reads no row and changes no text.
LEMMA SecretsCalm ==
  ASSUME StoreInv, SecretInv,
         leaked \subseteq leaked', leaked' \subseteq Nat, restored' \in BOOLEAN,
         SecretsIn(rows') \subseteq leaked',
         \A table \in backup' : SecretsIn(table) \subseteq leaked',
         \A t \in Threads : snap'[t] = {} \/ (snap'[t] = snap[t] /\ todo'[t] = todo[t])
  PROVE  SecretInv'
BY DEF SecretInv, HeldSecrets, SecretsIn, This

LEMMA GetSecrets == ASSUME StoreInv, SecretInv, NEW t \in Threads, StepGet(t) PROVE SecretInv'
<1> DEFINE i == This(t).id
<1>1. ~Idle(t) /\ This(t).do = "get" /\ UNCHANGED <<dbVars, pastVars>>
  BY DEF StepGet, Doing, This
<1>2. \A u \in Threads : u # t => snap'[u] = snap[u] /\ todo'[u] = todo[u]
  <2>1. CASE Proceeds(t)
    BY <1>1, <2>1, ProceedsTo DEF StepGet, StoreInv, Typed
  <2>2. CASE Raises(t)
    BY <2>2, RaisesTo DEF StepGet, StoreInv, Typed
  <2>3. QED
    BY <2>1, <2>2 DEF StepGet
<1>3. HeldSecrets(t)'
  <2>1. CASE i \in DOMAIN rows /\ snap' = [snap EXCEPT ![t] = {rows[i]}] /\ Proceeds(t)
    <3>1. snap'[t] = {rows[i]} /\ This(t)'.id = i
      BY <1>1, <2>1, ProceedsTo, NextStep DEF StoreInv, Typed, This
    <3>2. rows[i].content \in Secrets => i \in leaked'
      BY <1>1, <2>1 DEF SecretInv, SecretsIn, pastVars
    <3>3. QED
      BY <3>1, <3>2 DEF HeldSecrets
  <2>2. CASE UNCHANGED snap
    BY <1>1, <2>2, HoldsNothing DEF HeldSecrets
  <2>3. QED
    BY <2>1, <2>2 DEF StepGet
<1>4. \A u \in Threads : HeldSecrets(u)'
  BY <1>1, <1>2, <1>3 DEF SecretInv, HeldSecrets, This, pastVars
<1>5. QED
  BY <1>1, <1>4 DEF SecretInv, SecretsIn, pastVars, dbVars

LEMMA PutSecrets == ASSUME StoreInv, SecretInv, NEW t \in Threads, StepPut(t) PROVE SecretInv'
<1> DEFINE i == This(t).id
           e == This(t).edit
<1>1. ~Idle(t) /\ This(t).do = "put"
  BY DEF StepPut, Doing, This
<1>2. i \in Nat /\ e \in Edit
  BY <1>1, NextStep DEF StepOK, Step
<1>3. snap' = [snap EXCEPT ![t] = {}] /\ UNCHANGED <<backup, restored>>
  BY DEF StepPut
<1>4. PICK record \in snap[t] :
        /\ Proceeds(t) \/ Raises(t)
        /\ \/ /\ i \in DOMAIN rows
              /\ rows' = SetRow(i, Rewritten(i, record, e))
              /\ Leaks(i, e)
           \/ UNCHANGED <<rows, leaked>>
  BY DEF StepPut
<1>5. \A u \in Threads : snap'[u] = {} \/ (snap'[u] = snap[u] /\ todo'[u] = todo[u])
  BY <1>1, <1>3, <1>4, ProceedsTo, RaisesTo DEF StoreInv, Typed
<1>6. CASE UNCHANGED <<rows, leaked>>
  BY <1>3, <1>5, <1>6, SecretsCalm DEF SecretInv
<1>7. CASE /\ i \in DOMAIN rows /\ rows' = SetRow(i, Rewritten(i, record, e)) /\ Leaks(i, e)
  <2>1. leaked \subseteq leaked' /\ leaked' \subseteq Nat
    BY <1>2, <1>7 DEF Leaks, SecretInv
  <2>2. record \in Row /\ rows[i] \in Row
    BY <1>4, <1>7, TypedFacts DEF StoreInv, Typed
  <2>3. Rewritten(i, record, e).content = Given(e.content, record.content)
    BY <1>2, <2>2, PatchedRow, RewrittenRow
  <2>4. ASSUME Given(e.content, record.content) \in Secrets PROVE i \in leaked'
    <3>1. CASE e.content = {}
      <4>1. record.content \in Secrets
        BY <2>4, <3>1 DEF Given
      <4>2. i \in leaked
        BY <1>4, <4>1 DEF SecretInv, HeldSecrets
      <4>3. QED
        BY <2>1, <4>2
    <3>2. CASE e.content # {}
      <4>1. e.content \cap Secrets # {}
        BY <2>4, <3>2 DEF Given
      <4>2. QED
        BY <1>7, <4>1 DEF Leaks
    <3>3. QED
      BY <3>1, <3>2
  <2>5. SecretsIn(rows') \subseteq leaked'
    <3>1. /\ DOMAIN rows' = DOMAIN rows
          /\ \A j \in DOMAIN rows' : rows'[j] = IF j = i THEN Rewritten(i, record, e) ELSE rows[j]
      BY <1>7 DEF SetRow
    <3>2. QED
      BY <2>1, <2>3, <2>4, <3>1 DEF SecretInv, SecretsIn
  <2>6. QED
    BY <1>3, <1>5, <2>1, <2>5, SecretsCalm DEF SecretInv
<1>8. QED
  BY <1>4, <1>6, <1>7

\* The other steps: what they add to the table has been scanned, and what they
\* rewrite keeps its text.
LEMMA StepSecrets ==
  ASSUME StoreInv, SecretInv, NEW t \in Threads, StoreStep(t), ~StepGet(t), ~StepPut(t)
  PROVE  SecretInv'
<1>1. leaked' = leaked /\ restored' \in BOOLEAN
  BY DEF StoreStep, StepPatch, StepInsert, StepLogRead, StepLogInsert, StepPin, StepTouch,
     StepPickForgotten, StepDeletePicked, StepMatch, StepFetch, StepBackup, StepRestore,
     pastVars, SecretInv
<1>2. snap' = snap
  BY DEF StoreStep, StepPatch, StepInsert, StepLogRead, StepLogInsert, StepPin, StepTouch,
     StepPickForgotten, StepDeletePicked, StepMatch, StepFetch, StepBackup, StepRestore,
     threadVars
<1>3. ~Idle(t) /\ snap[t] = {}
  <2>1. ~Idle(t) /\ This(t).do # "put"
    BY DEF StoreStep, StepPatch, StepInsert, StepLogRead, StepLogInsert, StepPin, StepTouch,
       StepPickForgotten, StepDeletePicked, StepMatch, StepFetch, StepBackup, StepRestore,
       Doing, This
  <2>2. QED
    BY <2>1, HoldsNothing
<1>4. \A u \in Threads : u # t => todo'[u] = todo[u]
  <2>1. \/ UNCHANGED todo \/ Raises(t) \/ (\E steps : Goes(t, steps))
        \/ todo' = [todo EXCEPT ![t] = <<Log("secret_rejected", 0)>>]
    BY DEF StoreStep, StepPatch, StepInsert, StepLogRead, StepLogInsert, StepPin, StepTouch,
       StepPickForgotten, StepDeletePicked, StepMatch, StepFetch, StepBackup, StepRestore,
       Proceeds, threadVars
  <2>2. QED
    BY <2>1 DEF Raises, Goes, StoreInv, Typed
<1>5. CASE UNCHANGED dbVars
  BY <1>1, <1>2, <1>3, <1>4, <1>5, SecretsCalm DEF dbVars, SecretInv
<1>6. CASE StepInsert(t)
  <2>1. \/ UNCHANGED rows
        \/ \E row \in This(t).row : ~Unsafe(row) /\ rows' = SetRow(This(t).id, row)
    BY <1>6 DEF StepInsert
  <2>2. SecretsIn(rows') \subseteq leaked
    BY <2>1 DEF SecretInv, SecretsIn, SetRow, Unsafe
  <2>3. backup' = backup
    BY <1>6 DEF StepInsert
  <2>4. QED
    BY <1>1, <1>2, <1>3, <1>4, <2>2, <2>3, SecretsCalm DEF SecretInv
<1>7. CASE StepPin(t) \/ StepTouch(t)
  <2>1. CASE This(t).id \notin DOMAIN rows
    BY <1>5, <1>7, <2>1 DEF StepPin, StepTouch, dbVars
  <2>2. CASE This(t).id \in DOMAIN rows
    <3>1. PICK row : rows' = SetRow(This(t).id, row) /\ row.content = rows[This(t).id].content
      BY <1>7, <2>2, TypedFacts DEF StepPin, StepTouch, Row
    <3>2. SecretsIn(rows') \subseteq leaked
      BY <2>2, <3>1 DEF SecretInv, SecretsIn, SetRow
    <3>3. backup' = backup
      BY <1>7 DEF StepPin, StepTouch
    <3>4. QED
      BY <1>1, <1>2, <1>3, <1>4, <3>2, <3>3, SecretsCalm DEF SecretInv
  <2>3. QED
    BY <2>1, <2>2
<1>8. CASE StepDeletePicked(t) \/ StepBackup(t) \/ StepRestore(t)
  <2>1. SecretsIn(rows') \subseteq leaked /\ \A table \in backup' : SecretsIn(table) \subseteq leaked
    BY <1>8 DEF StepDeletePicked, StepBackup, StepRestore, SecretInv, SecretsIn
  <2>2. QED
    BY <1>1, <1>2, <1>3, <1>4, <2>1, SecretsCalm DEF SecretInv
<1>9. QED
  <2>1. \/ UNCHANGED dbVars \/ StepInsert(t) \/ StepPin(t) \/ StepTouch(t)
        \/ StepDeletePicked(t) \/ StepBackup(t) \/ StepRestore(t)
    BY DEF StoreStep, StepPatch, StepLogRead, StepLogInsert, StepPickForgotten, StepMatch, StepFetch
  <2>2. QED
    BY <1>5, <1>6, <1>7, <1>8, <2>1

LEMMA SecretsNext == StoreInv /\ SecretInv /\ [Next]_vars => SecretInv'
<1> SUFFICES ASSUME StoreInv, SecretInv, [Next]_vars PROVE SecretInv'
  OBVIOUS
<1>1. ASSUME NEW t \in Threads, StoreStep(t) PROVE SecretInv'
  BY <1>1, GetSecrets, PutSecrets, StepSecrets
<1>2. ASSUME NEW t \in Threads, Call(t) PROVE SecretInv'
  <2>1. PICK steps : Starts(t, steps)
    BY <1>2 DEF Call, CallAdd, CallSupersede, CallOnRecord, CallOnStore
  <2>2. /\ UNCHANGED <<dbVars, pastVars, snap>> /\ snap[t] = {}
        /\ \A u \in Threads : u # t => todo'[u] = todo[u]
    BY <2>1, HoldsNothing DEF Starts, StoreInv, Typed
  <2>3. QED
    BY <2>2, SecretsCalm DEF SecretInv, dbVars, pastVars
<1>3. ASSUME NEW i \in DOMAIN rows, RetentionEnds(i) PROVE SecretInv'
  <2>1. PICK row : rows' = SetRow(i, row) /\ row.content = rows[i].content
    BY <1>3, TypedFacts DEF RetentionEnds, Row
  <2>2. SecretsIn(rows') \subseteq leaked
    BY <2>1 DEF SecretInv, SecretsIn, SetRow
  <2>3. UNCHANGED <<backup, snap, todo, pastVars>>
    BY <1>3 DEF RetentionEnds, threadVars
  <2>4. QED
    BY <2>2, <2>3, SecretsCalm DEF SecretInv, pastVars
<1>4. CASE Crash
  BY <1>4, SecretsCalm DEF Crash, SecretInv, dbVars, pastVars
<1>5. CASE UNCHANGED vars
  BY <1>5, SecretsCalm DEF vars, dbVars, threadVars, pastVars, SecretInv
<1>6. QED
  BY <1>1, <1>2, <1>3, <1>4, <1>5 DEF Next

LEMMA SecretInvariance == Spec => []SecretInv
<1>1. Init => SecretInv
  BY DEF Init, SecretInv, SecretsIn, HeldSecrets
<1>2. QED
  BY <1>1, SecretsNext, StoreInvariance, PTL DEF Spec

\* The type invariant holds for any threads, texts, calls and bounds.
THEOREM StoreTypeCorrect == Spec => []TypeOK
<1>1. StoreInv /\ SecretInv => TypeOK
  BY TypedFacts DEF StoreInv, Typed, SecretInv, TypeOK
<1>2. QED
  BY <1>1, StoreInvariance, SecretInvariance, PTL

\* No two active memories of a namespace say the same, however the calls that
\* made them active overlapped, and after a restore too.
THEOREM UniqueActive == Spec => []OneActivePerContent
<1>1. StoreInv => OneActivePerContent
  BY DEF StoreInv, TableOK, Unique, OneActivePerContent
<1>2. QED
  BY <1>1, StoreInvariance, PTL

\* A memory is superseded by later ones only: the history has no cycle.
THEOREM HistoryAcyclic == Spec => []HistoryMovesOn
<1>1. StoreInv => HistoryMovesOn
  BY DEF StoreInv, TableOK, RowOK, HistoryMovesOn
<1>2. QED
  BY <1>1, StoreInvariance, PTL

\* The guard of _add keeps secrets out of the table but for the memories that
\* an edit has given one: _update does not scan the content it is given.
THEOREM SecretsKeptOut == Spec => []NoSecretStored
<1>1. SecretInv => NoSecretStored
  BY DEF SecretInv, SecretsIn, NoSecretStored
<1>2. QED
  BY <1>1, SecretInvariance, PTL

\* The column pinned is changed by pins and restores alone.
PinsAlone ==
  \A i \in DOMAIN rows \cap DOMAIN rows' :
    rows'[i].pinned # rows[i].pinned =>
      \/ Restores
      \/ \E t \in Threads : (Doing(t, "pin") \/ Doing(t, "unpin")) /\ This(t).id = i

LEMMA StepPins == StoreInv /\ [Next]_vars => [PinsAlone]_vars
<1> SUFFICES ASSUME StoreInv, Next, NEW i \in DOMAIN rows \cap DOMAIN rows',
                    rows'[i].pinned # rows[i].pinned
             PROVE  \/ Restores
                    \/ \E t \in Threads : (Doing(t, "pin") \/ Doing(t, "unpin")) /\ This(t).id = i
  BY DEF PinsAlone
<1>0. rows[i] \in Row
  BY TypedFacts
<1>1. ASSUME NEW t \in Threads, StepPut(t) PROVE FALSE
  <2>1. ~Idle(t) /\ This(t).do = "put"
    BY <1>1 DEF StepPut, Doing, This
  <2>2. PICK record \in snap[t], j \in DOMAIN rows, e \in {This(t).edit} :
          rows' = SetRow(j, Rewritten(j, record, e)) /\ j = This(t).id
    BY <1>1 DEF StepPut
  <2>3. record \in Row /\ e \in Edit /\ rows[j] \in Row
    BY <2>1, <2>2, NextStep, TypedFacts DEF StoreInv, Typed, StepOK, Step
  <2>4. Rewritten(j, record, e).pinned = rows[j].pinned
    BY <2>3, RewrittenRow
  <2>5. QED
    BY <2>2, <2>4 DEF SetRow
<1>2. ASSUME NEW t \in Threads, StepPin(t)
      PROVE  (Doing(t, "pin") \/ Doing(t, "unpin")) /\ This(t).id = i
  BY <1>2 DEF StepPin, SetRow
<1>3. ASSUME NEW t \in Threads, StepTouch(t) PROVE FALSE
  <2>1. This(t).id \in DOMAIN rows /\ rows' = SetRow(This(t).id, [rows[This(t).id] EXCEPT !.used = TRUE])
    BY <1>3 DEF StepTouch
  <2>2. rows[This(t).id] \in Row
    BY <2>1, TypedFacts
  <2>3. [rows[This(t).id] EXCEPT !.used = TRUE].pinned = rows[This(t).id].pinned
    BY <2>2 DEF Row
  <2>4. QED
    BY <2>1, <2>3 DEF SetRow
<1>4. ASSUME NEW t \in Threads, StepRestore(t) PROVE Restores
  <2>1. Doing(t, "restore") /\ todo[t] # <<>> /\ Proceeds(t)
    BY <1>4 DEF StepRestore, Doing, Idle
  <2>2. todo'[t] = Tail(todo[t]) /\ todo[t] \in Seq(Step)
    BY <2>1, ProceedsTo DEF Doing, StoreInv, Typed
  <2>3. todo'[t] # todo[t]
    <3>1. Len(Tail(todo[t])) = Len(todo[t]) - 1 /\ Len(todo[t]) \in Nat
      BY <2>1, <2>2, HeadTailProperties, LenProperties
    <3>2. Len(Tail(todo[t])) # Len(todo[t])
      BY <3>1
    <3>3. Tail(todo[t]) # todo[t]
      BY <3>2, Zenon
    <3>4. QED
      BY <2>2, <3>3, Zenon
  <2>4. QED
    BY <2>1, <2>3 DEF Restores
<1>5. ASSUME NEW t \in Threads, StepInsert(t) PROVE FALSE
  BY <1>5 DEF StepInsert, SetRow
<1>6. ASSUME NEW t \in Threads, StepDeletePicked(t) PROVE FALSE
  BY <1>6 DEF StepDeletePicked
<1>7. ASSUME NEW j \in DOMAIN rows, RetentionEnds(j) PROVE FALSE
  <2>1. rows[j] \in Row
    BY TypedFacts
  <2>2. [rows[j] EXCEPT !.expired = TRUE].pinned = rows[j].pinned
    BY <2>1 DEF Row
  <2>3. QED
    BY <1>7, <2>2 DEF RetentionEnds, SetRow
<1>8. ASSUME NEW t \in Threads,
             \/ StepPatch(t) \/ StepGet(t) \/ StepLogRead(t) \/ StepLogInsert(t)
             \/ StepPickForgotten(t) \/ StepMatch(t) \/ StepFetch(t) \/ StepBackup(t)
      PROVE  UNCHANGED rows
  BY <1>8 DEF StepPatch, StepGet, StepLogRead, StepLogInsert, StepPickForgotten, StepMatch,
     StepFetch, StepBackup, dbVars
<1>9. ASSUME NEW t \in Threads, Call(t) PROVE UNCHANGED rows
  BY <1>9 DEF Call, CallAdd, CallSupersede, CallOnRecord, CallOnStore, Starts, dbVars
<1>10. CASE Crash
  BY <1>10 DEF Crash, dbVars
<1>11. QED
  BY <1>1, <1>2, <1>3, <1>4, <1>5, <1>6, <1>7, <1>8, <1>9, <1>10 DEF Next, StoreStep

\* A pin set by one call is not lost to an update that read the row before it.
THEOREM PinsStay == Spec => PinsKept
BY StoreInvariance, StepPins, PTL DEF Spec, PinsKept, PinsAlone

------------------------------------------------------------------------------
(* The audit log.  A call that restores puts another log back under the    *)
(* appends of the other threads; without one the store is an AuditLog.     *)

AP == INSTANCE AuditLogProofs

TailsAreFunction == tail = [t \in Threads |-> tail[t]]

LEMMA TailsInit == Init => TailsAreFunction
BY DEF Init, Audit!Init, TailsAreFunction

LEMMA TailsNext == TailsAreFunction /\ [Next]_vars => TailsAreFunction'
<1> SUFFICES ASSUME TailsAreFunction, [Next]_vars PROVE TailsAreFunction'
  OBVIOUS
<1>1. ASSUME NEW t \in Threads, NEW value, tail' = [tail EXCEPT ![t] = value]
      PROVE  TailsAreFunction'
  BY <1>1 DEF TailsAreFunction
<1>2. ASSUME UNCHANGED tail PROVE TailsAreFunction'
  BY <1>2 DEF TailsAreFunction
<1>3. ASSUME NEW t \in Threads, StepLogRead(t) \/ StepLogInsert(t)
      PROVE  TailsAreFunction'
  <2>1. \/ tail' = [tail EXCEPT ![t] = Audit!LastRow(log)]
        \/ tail' = [tail EXCEPT ![t] = Audit!NoTail]
    BY <1>3 DEF StepLogRead, StepLogInsert, Audit!ReadTail, Audit!InsertRow,
       Audit!RejectDuplicateSeq
  <2>2. QED
    BY <1>1, <2>1
<1>4. ASSUME NEW t \in Threads, StoreStep(t), ~StepLogRead(t), ~StepLogInsert(t)
      PROVE  UNCHANGED tail
  BY <1>4 DEF StoreStep, StepPatch, StepGet, StepPut, StepInsert, StepPin, StepTouch,
     StepPickForgotten, StepDeletePicked, StepMatch, StepFetch, StepBackup, StepRestore,
     Audit!CopyToImage, Audit!CopyFromImage, auditVars
<1>5. ASSUME NEW t \in Threads, Call(t) PROVE UNCHANGED tail
  BY <1>5 DEF Call, CallAdd, CallSupersede, CallOnRecord, CallOnStore, Starts, auditVars
<1>6. ASSUME NEW i \in DOMAIN rows, RetentionEnds(i) PROVE UNCHANGED tail
  BY <1>6 DEF RetentionEnds, auditVars
<1>7. CASE Crash
  BY <1>7 DEF Crash, TailsAreFunction
<1>8. CASE UNCHANGED vars
  BY <1>2, <1>8 DEF vars, auditVars
<1>9. QED
  BY <1>2, <1>3, <1>4, <1>5, <1>6, <1>7, <1>8 DEF Next

\* What puts no backup back does to the log what AuditLog says.
LEMMA AuditStep ==
  ASSUME StoreInv, TailsAreFunction, [Next]_vars,
         \A t \in Threads : StepRestore(t) => UNCHANGED auditVars
  PROVE  [AP!Next]_auditVars
<1>1. ASSUME NEW t \in Threads, StepLogRead(t) PROVE AP!Next
  BY <1>1 DEF StepLogRead, Audit!ReadTail, AP!Next, AP!ThreadStep, AP!ReadTail, Audit!Appending,
     AP!Appending, Audit!NoTail, AP!NoTail, Audit!LastRow, AP!LastRow, Audit!EmptyTail,
     AP!EmptyTail, Audit!Newest, AP!Newest, Audit!Genesis, AP!Genesis
<1>2. ASSUME NEW t \in Threads, StepLogInsert(t) PROVE AP!Next
  <2>1. Entry(t) \in Entries
    <3>1. This(t) \in Step
      BY <1>2, NextStep DEF StepLogInsert, Doing
    <3>2. QED
      BY <3>1 DEF Entry, Entries, Step
  <2>2. AP!InsertRow(t, Entry(t)) \/ AP!RejectDuplicateSeq(t)
    BY <1>2 DEF StepLogInsert, Audit!InsertRow, AP!InsertRow, Audit!RejectDuplicateSeq,
       AP!RejectDuplicateSeq, Audit!Appending, AP!Appending, Audit!NoTail, AP!NoTail,
       Audit!Inserted, AP!Inserted, Audit!Row, AP!Row, Audit!Digest, AP!Digest,
       Audit!Genesis, AP!Genesis
  <2>3. QED
    BY <2>1, <2>2 DEF AP!Next, AP!ThreadStep
<1>3. ASSUME NEW t \in Threads, StepBackup(t) PROVE AP!Next
  BY <1>3 DEF StepBackup, Audit!CopyToImage, AP!CopyToImage, Audit!Appending, AP!Appending,
     Audit!NoTail, AP!NoTail, Audit!Genesis, AP!Genesis, AP!Next, AP!ThreadStep
<1>4. ASSUME NEW t \in Threads, StepRestore(t) PROVE UNCHANGED auditVars
  BY <1>4
<1>5. CASE Crash
  <2>1. tail' = [t \in Threads |-> AP!NoTail] /\ UNCHANGED <<log, image>>
    BY <1>5 DEF Crash, Audit!NoTail, AP!NoTail, Audit!Genesis, AP!Genesis
  <2>2. CASE \E t \in Threads : AP!Appending(t)
    BY <2>1, <2>2 DEF AP!Next, AP!Crash
  <2>3. CASE \A t \in Threads : tail[t] = AP!NoTail
    BY <2>1, <2>3 DEF TailsAreFunction, auditVars
  <2>4. QED
    BY <2>2, <2>3 DEF AP!Appending
<1>6. ASSUME NEW t \in Threads, StoreStep(t), ~StepLogRead(t), ~StepLogInsert(t),
             ~StepBackup(t), ~StepRestore(t)
      PROVE  UNCHANGED auditVars
  BY <1>6 DEF StoreStep, StepPatch, StepGet, StepPut, StepInsert, StepPin, StepTouch,
     StepPickForgotten, StepDeletePicked, StepMatch, StepFetch
<1>7. ASSUME NEW t \in Threads, Call(t) PROVE UNCHANGED auditVars
  BY <1>7 DEF Call, CallAdd, CallSupersede, CallOnRecord, CallOnStore, Starts
<1>8. ASSUME NEW i \in DOMAIN rows, RetentionEnds(i) PROVE UNCHANGED auditVars
  BY <1>8 DEF RetentionEnds
<1>9. QED
  BY <1>1, <1>2, <1>3, <1>4, <1>5, <1>6, <1>7, <1>8 DEF Next, vars

LEMMA NeverRestores ==
  ASSUME "restore" \notin Calls, StoreInv, NEW t \in Threads
  PROVE  ~StepRestore(t)
BY NextStep DEF StepRestore, Doing, This, StepOK

\* A store that is not restored writes its log as AuditLog says: interleaved
\* with everything else a call does, every append is one of AuditLog's.
THEOREM KeepsAuditLog == "restore" \notin Calls => (Spec => AP!Spec)
<1> SUFFICES ASSUME "restore" \notin Calls PROVE Spec => AP!Spec
  OBVIOUS
<1>1. Init => AP!Init
  BY DEF Init, Audit!Init, AP!Init, Audit!NoTail, AP!NoTail, Audit!Genesis, AP!Genesis
<1>2. StoreInv /\ TailsAreFunction /\ [Next]_vars => [AP!Next]_(AP!auditVars)
  BY AuditStep, NeverRestores DEF auditVars, AP!auditVars
<1>3. QED
  BY <1>1, <1>2, TailsInit, TailsNext, StoreInvariance, PTL DEF Spec, AP!Spec

\* As long as no backup is restored: a restore that has failed, because there
\* is none, changes neither the table nor the log.
LEMMA NotRestored ==
  ASSUME StoreInv, [Next]_vars, ~restored'
  PROVE  ~restored /\ \A t \in Threads : StepRestore(t) => UNCHANGED <<rows, auditVars>> /\ Raises(t)
<1>1. \A t \in Threads : StepRestore(t) =>
        UNCHANGED <<rows, auditVars, restored>> /\ Raises(t)
  BY DEF StepRestore
<1>2. ASSUME NEW t \in Threads, StoreStep(t), ~StepRestore(t) PROVE UNCHANGED restored
  BY <1>2 DEF StoreStep, StepPatch, StepGet, StepPut, StepInsert, StepLogRead, StepLogInsert,
     StepPin, StepTouch, StepPickForgotten, StepDeletePicked, StepMatch, StepFetch, StepBackup,
     pastVars
<1>3. ASSUME NEW t \in Threads, Call(t) PROVE UNCHANGED restored
  BY <1>3 DEF Call, CallAdd, CallSupersede, CallOnRecord, CallOnStore, Starts, pastVars
<1>4. ASSUME Crash \/ UNCHANGED vars \/ \E i \in DOMAIN rows : RetentionEnds(i)
      PROVE  UNCHANGED restored
  BY <1>4 DEF Crash, vars, RetentionEnds, pastVars
<1>5. UNCHANGED restored
  BY <1>1, <1>2, <1>3, <1>4 DEF Next
<1>6. QED
  BY <1>1, <1>5

LogUntilRestored == ~restored => AP!Inv
VerifiesUntilRestored == ~restored => AuditVerifies

\* The log passes verify at every moment, whatever the calls, their overlap
\* and the crashes between their statements, until a backup is restored: the
\* log it brings back may have gone on under an append that has read the other.
THEOREM LogVerifies == Spec => [](~restored => AuditVerifies)
<1>1. Init => LogUntilRestored
  <2>1. Init => AP!Init
    BY DEF Init, Audit!Init, AP!Init, Audit!NoTail, AP!NoTail, Audit!Genesis, AP!Genesis
  <2>2. AP!Init => AP!Inv
    BY StoreAssumption, AP!InitInv DEF StoreAssumption, AP!MaxSeqAssumption
  <2>3. QED
    BY <2>1, <2>2 DEF LogUntilRestored
<1>2. StoreInv /\ TailsAreFunction /\ LogUntilRestored /\ [Next]_vars => LogUntilRestored'
  <2> SUFFICES ASSUME StoreInv, TailsAreFunction, LogUntilRestored, [Next]_vars, ~restored'
               PROVE  AP!Inv'
    BY DEF LogUntilRestored
  <2>1. AP!Inv /\ \A t \in Threads : StepRestore(t) => UNCHANGED auditVars
    BY NotRestored DEF LogUntilRestored
  <2>2. [AP!Next]_(AP!auditVars)
    BY <2>1, AuditStep DEF auditVars, AP!auditVars
  <2>3. QED
    BY <2>1, <2>2, StoreAssumption, AP!NextInv DEF StoreAssumption, AP!MaxSeqAssumption
<1>3. LogUntilRestored => VerifiesUntilRestored
  <2>1. AP!Inv => AP!ChainVerifies
    BY StoreAssumption, AP!InvVerifies DEF StoreAssumption, AP!MaxSeqAssumption
  <2>2. AP!ChainVerifies => AuditVerifies
    BY DEF AuditVerifies, Audit!ChainVerifies, AP!ChainVerifies, Audit!Verify, AP!Verify,
       Audit!ExpectedPrev, AP!ExpectedPrev, Audit!Below, AP!Below, Audit!Digest, AP!Digest,
       Audit!Genesis, AP!Genesis
  <2>3. QED
    BY <2>1, <2>2 DEF LogUntilRestored, VerifiesUntilRestored
<1>4. QED
  BY <1>1, <1>2, <1>3, TailsInit, TailsNext, StoreInvariance, PTL DEF Spec, VerifiesUntilRestored

------------------------------------------------------------------------------
(* What has been purged.  Two calls may purge the same memory, and a third *)
(* may update it all along; the memory would come back by an INSERT only,  *)
(* so the invariant follows the ids that are still to be inserted: no      *)
(* table, no pick, no report of a purge and no other INSERT knows them.    *)

Quiet(step) == step.do # "insert" /\ step.event # "purged"

LoggedPurges ==
  \A s \in DOMAIN log :
    log[s].entry.event = "purged" =>
      log[s].entry.id \in 0 .. nextId - 1 /\ log[s].entry.id \notin DOMAIN rows

StepsFresh(t) ==
  \A k \in DOMAIN todo[t] :
    /\ todo[t][k].event = "purged" =>
         todo[t][k].do # "insert" /\ todo[t][k].id \notin DOMAIN rows
    /\ todo[t][k].do = "insert" =>
         /\ todo[t][k].id \notin DOMAIN rows
         /\ \A u \in Threads : todo[t][k].id \notin picked[u]
         /\ \A s \in DOMAIN log :
              log[s].entry.event = "purged" => log[s].entry.id # todo[t][k].id

\* An id that is to be inserted is the id of no other INSERT, nor of a report.
InsertsOnce(t, u) ==
  \A k \in DOMAIN todo[t], l \in DOMAIN todo[u] :
    todo[t][k].do = "insert" /\ todo[u][l].id = todo[t][k].id =>
      /\ todo[u][l].event # "purged"
      /\ todo[u][l].do = "insert" => u = t /\ l = k

FreshInv ==
  /\ LoggedPurges
  /\ \A t \in Threads : StepsFresh(t)
  /\ \A t, u \in Threads : InsertsOnce(t, u)

LEMMA ShiftsApart == \A n, k, l \in Int : k + n = l + n => k = l
OBVIOUS

\* A step of one thread that adds no INSERT to a list keeps the order.
LEMMA MovesFresh ==
  ASSUME StoreInv, FreshInv, NEW t \in Threads, ~Idle(t), nextId' = nextId,
         NEW n \in Int,
         \A u \in Threads : u # t => todo'[u] = todo[u],
         \A k \in DOMAIN todo'[t] :
           \/ Quiet(todo'[t][k])
           \/ /\ todo'[t][k].event = "purged" /\ todo'[t][k].do # "insert"
              /\ todo'[t][k].id \in picked[t] /\ todo'[t][k].id \notin DOMAIN rows'
           \/ /\ k + n \in DOMAIN todo[t] /\ k + n # 1
              /\ todo'[t][k] = todo[t][k + n],
         DOMAIN todo'[t] \subseteq Int,
         \A u \in Threads : picked'[u] \subseteq picked[u] \cup DOMAIN rows,
         \A i \in DOMAIN rows' :
           i \in DOMAIN rows \/ (This(t).do = "insert" /\ i = This(t).id),
         \A s \in DOMAIN log' :
           log'[s].entry.event = "purged" =>
             \/ s \in DOMAIN log /\ log'[s] = log[s]
             \/ This(t).event = "purged" /\ log'[s].entry.id = This(t).id
  PROVE  FreshInv'
<1> DEFINE Kept(k) == /\ k + n \in DOMAIN todo[t] /\ k + n # 1
                      /\ todo'[t][k] = todo[t][k + n]
           Reports(k) == /\ todo'[t][k].event = "purged" /\ todo'[t][k].do # "insert"
                         /\ todo'[t][k].id \in picked[t] /\ todo'[t][k].id \notin DOMAIN rows'
<1>1. 1 \in DOMAIN todo[t] /\ This(t) = todo[t][1] /\ This(t).id \in 0 .. nextId - 1
  <2>1. todo[t] # <<>> /\ todo[t] \in Seq(Step) /\ This(t).id < nextId /\ This(t) \in Step
    BY NextStep DEF StoreInv, Typed, StepOK
  <2>2. This(t).id \in 0 .. nextId - 1
    BY <2>1, TypedFacts DEF Step
  <2>3. QED
    BY <2>1, <2>2 DEF This
<1>2. \A k \in DOMAIN todo'[t] : Quiet(todo'[t][k]) \/ Reports(k) \/ Kept(k)
  OBVIOUS
<1>3. \A k, l \in DOMAIN todo'[t] : k + n = l + n => k = l
  <2>1. \A k, l \in Int : k + n = l + n => k = l
    BY ShiftsApart
  <2>2. QED
    BY <2>1, Zenon
<1> HIDE DEF Kept, Reports
<1>4. LoggedPurges'
  <2> SUFFICES ASSUME NEW s \in DOMAIN log', log'[s].entry.event = "purged"
               PROVE  log'[s].entry.id \in 0 .. nextId - 1 /\ log'[s].entry.id \notin DOMAIN rows'
    BY DEF LoggedPurges
  <2>1. CASE s \in DOMAIN log /\ log'[s] = log[s]
    <3>1. log[s].entry.id \in 0 .. nextId - 1 /\ log[s].entry.id \notin DOMAIN rows
      BY <2>1 DEF FreshInv, LoggedPurges
    <3>2. This(t).do = "insert" => log[s].entry.id # This(t).id
      BY <1>1, <2>1 DEF FreshInv, StepsFresh
    <3>3. QED
      BY <2>1, <3>1, <3>2
  <2>2. CASE This(t).event = "purged" /\ log'[s].entry.id = This(t).id
    BY <1>1, <2>2 DEF FreshInv, StepsFresh
  <2>3. QED
    BY <2>1, <2>2
\* What a list kept of its steps, in the new state.
<1>5. ASSUME NEW u \in Threads, NEW k \in DOMAIN todo[u], u = t => k # 1
      PROVE  /\ todo[u][k].event = "purged" =>
                  todo[u][k].do # "insert" /\ todo[u][k].id \notin DOMAIN rows'
             /\ todo[u][k].do = "insert" =>
                  /\ todo[u][k].id \notin DOMAIN rows'
                  /\ \A v \in Threads : todo[u][k].id \notin picked'[v]
                  /\ \A s \in DOMAIN log' :
                       log'[s].entry.event = "purged" => log'[s].entry.id # todo[u][k].id
  <2>1. /\ todo[u][k].event = "purged" =>
             todo[u][k].do # "insert" /\ todo[u][k].id \notin DOMAIN rows
        /\ todo[u][k].do = "insert" =>
             /\ todo[u][k].id \notin DOMAIN rows
             /\ \A v \in Threads : todo[u][k].id \notin picked[v]
             /\ \A s \in DOMAIN log :
                  log[s].entry.event = "purged" => log[s].entry.id # todo[u][k].id
    BY DEF FreshInv, StepsFresh
  <2>2. This(t).do = "insert" =>
          /\ todo[u][k].event = "purged" => todo[u][k].id # This(t).id
          /\ todo[u][k].do = "insert" => todo[u][k].id # This(t).id
    BY <1>1, <1>5 DEF FreshInv, InsertsOnce
  <2>3. todo[u][k].do = "insert" => (This(t).event = "purged" => todo[u][k].id # This(t).id)
    BY <1>1 DEF FreshInv, InsertsOnce
  <2>4. QED
    BY <2>1, <2>2, <2>3
<1>6. ASSUME NEW u \in Threads PROVE StepsFresh(u)'
  <2>1. CASE u # t
    BY <1>5, <2>1 DEF StepsFresh
  <2>2. CASE u = t
    <3> SUFFICES ASSUME NEW k \in DOMAIN todo'[t]
                 PROVE  /\ todo'[t][k].event = "purged" =>
                             todo'[t][k].do # "insert" /\ todo'[t][k].id \notin DOMAIN rows'
                        /\ todo'[t][k].do = "insert" =>
                             /\ todo'[t][k].id \notin DOMAIN rows'
                             /\ \A v \in Threads : todo'[t][k].id \notin picked'[v]
                             /\ \A s \in DOMAIN log' :
                                  log'[s].entry.event = "purged" =>
                                    log'[s].entry.id # todo'[t][k].id
      BY <2>2 DEF StepsFresh
    <3>1. CASE Quiet(todo'[t][k])
      BY <3>1 DEF Quiet
    <3>2. CASE Reports(k)
      BY <3>2 DEF Reports
    <3>3. CASE Kept(k)
      <4>1. k + n \in DOMAIN todo[t] /\ k + n # 1 /\ todo'[t][k] = todo[t][k + n]
        BY <3>3 DEF Kept
      <4>2. QED
        BY <1>5, <4>1
    <3>4. QED
      BY <1>2, <3>1, <3>2, <3>3
  <2>3. QED
    BY <2>1, <2>2
<1>7. ASSUME NEW u \in Threads, NEW v \in Threads PROVE InsertsOnce(u, v)'
  <2> SUFFICES ASSUME NEW k \in DOMAIN todo'[u], NEW l \in DOMAIN todo'[v],
                      todo'[u][k].do = "insert", todo'[v][l].id = todo'[u][k].id
               PROVE  /\ todo'[v][l].event # "purged"
                      /\ todo'[v][l].do = "insert" => v = u /\ l = k
    BY DEF InsertsOnce
  <2> DEFINE Was(w, j, m) == /\ m \in DOMAIN todo[w] /\ todo'[w][j] = todo[w][m]
                             /\ m = IF w = t THEN j + n ELSE j
  <2>1. PICK m : Was(u, k, m)
    <3>1. CASE u = t
      BY <1>2, <3>1 DEF Kept, Reports, Quiet
    <3>2. CASE u # t
      BY <3>2
    <3>3. QED
      BY <3>1, <3>2
  <2>2. CASE v = t /\ Quiet(todo'[v][l])
    BY <2>2 DEF Quiet
  <2>3. CASE v = t /\ Reports(l)
    BY <2>1, <2>3 DEF Reports, FreshInv, StepsFresh
  <2>4. CASE \E o : Was(v, l, o)
    <3>1. PICK o : Was(v, l, o)
      BY <2>4
    <3>2. /\ todo[v][o].event # "purged"
          /\ todo[v][o].do = "insert" => v = u /\ o = m
      BY <2>1, <3>1 DEF FreshInv, InsertsOnce
    <3>3. QED
      BY <1>3, <2>1, <3>1, <3>2
  <2>5. QED
    <3>1. CASE v = t
      BY <1>2, <2>2, <2>3, <2>4, <3>1 DEF Kept
    <3>2. CASE v # t
      BY <2>4, <3>2
    <3>3. QED
      BY <3>1, <3>2
<1>8. QED
  BY <1>4, <1>6, <1>7 DEF FreshInv

\* A list from which the first step is taken and others are put before the rest.
LEMMA GoesShift ==
  ASSUME StoreInv, NEW t \in Threads, ~Idle(t), NEW steps, StepsOK(steps, nextId),
         Goes(t, steps)
  PROVE  /\ 1 - Len(steps) \in Int /\ DOMAIN todo'[t] \subseteq Int
         /\ \A k \in DOMAIN todo'[t] :
              \/ k \in DOMAIN steps /\ todo'[t][k] = steps[k]
              \/ /\ k + (1 - Len(steps)) \in DOMAIN todo[t] /\ k + (1 - Len(steps)) # 1
                 /\ todo'[t][k] = todo[t][k + (1 - Len(steps))]
<1>1. /\ todo[t] \in Seq(Step) /\ todo[t] # <<>> /\ steps \in Seq(Step)
      /\ Len(steps) \in Nat /\ Len(todo[t]) \in Nat /\ DOMAIN steps = 1 .. Len(steps)
      /\ DOMAIN todo[t] = 1 .. Len(todo[t])
  BY LenProperties DEF StoreInv, Typed, StepsOK, Idle
<1>2. /\ Tail(todo[t]) \in Seq(Step) /\ Len(Tail(todo[t])) = Len(todo[t]) - 1
      /\ \A k \in 1 .. Len(Tail(todo[t])) : Tail(todo[t])[k] = todo[t][k + 1]
  BY <1>1, HeadTailProperties
<1>3. todo'[t] = steps \o Tail(todo[t])
  BY GoesTo
<1>4. /\ Len(steps \o Tail(todo[t])) = Len(steps) + Len(Tail(todo[t]))
      /\ steps \o Tail(todo[t]) \in Seq(Step)
      /\ \A k \in 1 .. Len(steps) + Len(Tail(todo[t])) :
           (steps \o Tail(todo[t]))[k] =
              IF k <= Len(steps) THEN steps[k] ELSE Tail(todo[t])[k - Len(steps)]
  BY <1>1, <1>2, ConcatProperties
<1>5. DOMAIN todo'[t] = 1 .. Len(steps) + Len(Tail(todo[t]))
  BY <1>1, <1>2, <1>3, <1>4, LenProperties
<1>6. ASSUME NEW k \in DOMAIN todo'[t], k > Len(steps)
      PROVE  /\ k + (1 - Len(steps)) \in DOMAIN todo[t] /\ k + (1 - Len(steps)) # 1
             /\ todo'[t][k] = todo[t][k + (1 - Len(steps))]
  <2>1. k - Len(steps) \in 1 .. Len(Tail(todo[t])) /\ k \in Int
    BY <1>1, <1>2, <1>5, <1>6
  <2>2. /\ k + (1 - Len(steps)) = (k - Len(steps)) + 1
        /\ k + (1 - Len(steps)) \in DOMAIN todo[t] /\ k + (1 - Len(steps)) # 1
    BY <1>1, <1>2, <2>1
  <2>3. todo'[t][k] = Tail(todo[t])[k - Len(steps)]
    BY <1>1, <1>3, <1>4, <1>5, <1>6
  <2>4. QED
    BY <1>2, <2>1, <2>2, <2>3
<1>7. ASSUME NEW k \in DOMAIN todo'[t], ~(k > Len(steps))
      PROVE  k \in DOMAIN steps /\ todo'[t][k] = steps[k]
  BY <1>1, <1>2, <1>3, <1>4, <1>5, <1>7
<1>8. 1 - Len(steps) \in Int /\ DOMAIN todo'[t] \subseteq Int
  BY <1>1, <1>2, <1>5
<1>9. QED
  BY <1>6, <1>7, <1>8, Zenon

\* What a step does to the table, the picks and the log, at the most.
OnlyThis(t) ==
  /\ nextId' = nextId
  /\ \A u \in Threads : picked'[u] \subseteq picked[u] \cup DOMAIN rows
  /\ \A i \in DOMAIN rows' :
       i \in DOMAIN rows \/ (This(t).do = "insert" /\ i = This(t).id)
  /\ \A s \in DOMAIN log' :
       log'[s].entry.event = "purged" =>
         \/ s \in DOMAIN log /\ log'[s] = log[s]
         \/ This(t).event = "purged" /\ log'[s].entry.id = This(t).id

LEMMA GoesFresh ==
  ASSUME StoreInv, FreshInv, NEW t \in Threads, ~Idle(t), OnlyThis(t),
         NEW steps, StepsOK(steps, nextId), Goes(t, steps),
         \A k \in DOMAIN steps :
           \/ Quiet(steps[k])
           \/ /\ steps[k].event = "purged" /\ steps[k].do # "insert"
              /\ steps[k].id \in picked[t] /\ steps[k].id \notin DOMAIN rows'
  PROVE  FreshInv'
<1>1. \A u \in Threads : u # t => todo'[u] = todo[u]
  BY GoesTo
<1> DEFINE n == 1 - Len(steps)
<1>2. /\ n \in Int /\ DOMAIN todo'[t] \subseteq Int
      /\ \A k \in DOMAIN todo'[t] :
           \/ Quiet(todo'[t][k])
           \/ /\ todo'[t][k].event = "purged" /\ todo'[t][k].do # "insert"
              /\ todo'[t][k].id \in picked[t] /\ todo'[t][k].id \notin DOMAIN rows'
           \/ /\ k + n \in DOMAIN todo[t] /\ k + n # 1
              /\ todo'[t][k] = todo[t][k + n]
  BY GoesShift
<1> HIDE DEF n
<1>3. QED
  BY <1>1, <1>2, MovesFresh DEF OnlyThis

LEMMA ProceedsFresh ==
  ASSUME StoreInv, FreshInv, NEW t \in Threads, ~Idle(t), OnlyThis(t), Proceeds(t)
  PROVE  FreshInv'
<1>1. Goes(t, <<>>) /\ StepsOK(<<>>, nextId)
  BY EmptySteps DEF Proceeds
<1>2. QED
  BY <1>1, GoesFresh

\* A call that ends, or has but a report without effect left to write.
LEMMA StopsFresh ==
  ASSUME StoreInv, FreshInv, NEW t \in Threads, ~Idle(t), OnlyThis(t),
         NEW steps \in Seq(Step), todo' = [todo EXCEPT ![t] = steps],
         \A k \in DOMAIN steps : Quiet(steps[k])
  PROVE  FreshInv'
<1>1. todo'[t] = steps /\ \A u \in Threads : u # t => todo'[u] = todo[u]
  BY DEF StoreInv, Typed
<1>2. DOMAIN todo'[t] \subseteq Int
  BY <1>1
<1>3. QED
  BY <1>1, <1>2, MovesFresh DEF OnlyThis

LEMMA RaisesFresh ==
  ASSUME StoreInv, FreshInv, NEW t \in Threads, ~Idle(t), OnlyThis(t), Raises(t)
  PROVE  FreshInv'
<1>1. <<>> \in Seq(Step) /\ todo' = [todo EXCEPT ![t] = <<>>]
  BY DEF Raises
<1>2. \A k \in DOMAIN <<>> : Quiet(<<>>[k])
  OBVIOUS
<1>3. QED
  BY <1>1, <1>2, StopsFresh

\* Steps that change neither the ids of the table, nor the picks, nor the log.
LEMMA SameIds ==
  ASSUME NEW t \in Threads, UNCHANGED <<picked, log, nextId>>, DOMAIN rows' \subseteq DOMAIN rows
  PROVE  OnlyThis(t)
BY DEF OnlyThis

------------------------------------------------------------------------------
(* The lists of an update add neither an INSERT nor a report of a purge. *)

QuietSteps(steps) == \A k \in DOMAIN steps : Quiet(steps[k])

LEMMA UpdateQuiet ==
  ASSUME NEW n \in Nat, NEW i \in Nat, i < n, NEW e, EditOK(i, e, n)
  PROVE  QuietSteps(UpdateSteps(i, e))
<1> DEFINE s == UpdateSteps(i, e)
<1>1. "get" \in StepKinds /\ "updated" \in Events
  BY DEF StepKinds, Events
<1>2. Quiet(Get(i))
  BY <1>1, DoStep DEF Get, Quiet
<1>3. Quiet(Put(i, e))
  BY PutOK DEF Quiet
<1>4. Quiet(Log("updated", i))
  BY <1>1, LogStep DEF Quiet
<1>5. DOMAIN s = 1 .. 3 /\ s[1] = Get(i) /\ s[2] = Put(i, e) /\ s[3] = Log("updated", i)
  BY DEF UpdateSteps
<1> HIDE DEF s
<1>6. QuietSteps(s)
  BY <1>2, <1>3, <1>4, <1>5 DEF QuietSteps
<1>7. QED
  BY <1>6 DEF s

LEMMA JoinQuiet ==
  ASSUME NEW s \in Seq(Step), NEW u \in Seq(Step), QuietSteps(s), QuietSteps(u)
  PROVE  QuietSteps(s \o u)
<1>1. /\ Len(s) \in Nat /\ Len(u) \in Nat /\ s \o u \in Seq(Step)
      /\ DOMAIN s = 1 .. Len(s) /\ DOMAIN u = 1 .. Len(u)
  BY LenProperties
<1>2. /\ Len(s \o u) = Len(s) + Len(u)
      /\ \A k \in 1 .. Len(s) + Len(u) :
           (s \o u)[k] = IF k <= Len(s) THEN s[k] ELSE u[k - Len(s)]
  BY ConcatProperties
<1>3. DOMAIN (s \o u) = 1 .. Len(s) + Len(u)
  BY <1>1, <1>2, LenProperties
<1>4. ASSUME NEW k \in DOMAIN (s \o u) PROVE Quiet((s \o u)[k])
  <2>1. CASE k <= Len(s)
    BY <1>1, <1>2, <1>3, <2>1 DEF QuietSteps
  <2>2. CASE k > Len(s)
    <3>1. k - Len(s) \in DOMAIN u /\ (s \o u)[k] = u[k - Len(s)]
      BY <1>1, <1>2, <1>3, <2>2
    <3>2. QED
      BY <3>1 DEF QuietSteps
  <2>3. QED
    BY <1>1, <1>3, <2>1, <2>2
<1>5. QED
  BY <1>4 DEF QuietSteps

LEMMA LogQuiet ==
  ASSUME NEW event \in Events \ {"purged"}, NEW i \in Nat
  PROVE  QuietSteps(<<Log(event, i)>>) /\ <<Log(event, i)>> \in Seq(Step)
BY LogStep DEF QuietSteps, Quiet

LEMMA StatusQuiet ==
  ASSUME NEW n \in Nat, NEW i \in Nat, i < n
  PROVE  /\ QuietSteps(ApproveSteps(i)) /\ QuietSteps(RejectSteps(i)) /\ QuietSteps(ForgetSteps(i))
<1>1. ASSUME NEW status \in Status, NEW event \in Events \ {"purged"}
      PROVE  QuietSteps(UpdateSteps(i, ToStatus(status)) \o <<Log(event, i)>>)
  <2>1. EditOK(i, ToStatus(status), n)
    BY ToStatusOK
  <2>2. QuietSteps(UpdateSteps(i, ToStatus(status))) /\ UpdateSteps(i, ToStatus(status)) \in Seq(Step)
    BY <2>1, UpdateQuiet, UpdateOK DEF StepsOK
  <2>3. QED
    BY <2>2, LogQuiet, JoinQuiet
<1>2. {"active", "archived", "forgotten"} \subseteq Status
      /\ {"approved", "rejected", "forgotten"} \subseteq Events \ {"purged"}
  BY DEF Status, Events
<1>3. QED
  BY <1>1, <1>2 DEF ApproveSteps, RejectSteps, ForgetSteps

LEMMA PatchQuiet ==
  ASSUME NEW n \in Nat, NEW i \in Nat, i < n, NEW e, EditOK(i, e, n), NEW status
  PROVE  QuietSteps(PatchSteps(i, e, status))
<1> DEFINE rest == IF e.status = {"active"} /\ status \in {"pending", "active"}
                   THEN [e EXCEPT !.status = {}] ELSE e
           first == IF e.status = {"active"} /\ status = "pending" THEN ApproveSteps(i) ELSE <<>>
           then == IF rest = NoEdit THEN <<>> ELSE UpdateSteps(i, rest)
<1>0. QuietSteps(<<>>) /\ <<>> \in Seq(Step)
  BY DEF QuietSteps
<1>1. EditOK(i, [e EXCEPT !.status = {}], n)
  BY DEF EditOK, Edit
<1>2. EditOK(i, rest, n)
  BY <1>1
<1>3. QuietSteps(first) /\ first \in Seq(Step)
  BY <1>0, StatusQuiet, StatusStepsOK DEF StepsOK
<1> HIDE DEF rest
<1>4. QuietSteps(then) /\ then \in Seq(Step)
  BY <1>0, <1>2, UpdateQuiet, UpdateOK DEF StepsOK
<1>5. PatchSteps(i, e, status) = first \o then
  BY DEF PatchSteps, rest
<1> HIDE DEF first, then
<1>6. QED
  BY <1>3, <1>4, <1>5, JoinQuiet

------------------------------------------------------------------------------
(* The steps and the calls keep the order of the ids. *)

LEMMA PatchFresh == ASSUME StoreInv, FreshInv, NEW t \in Threads, StepPatch(t) PROVE FreshInv'
<1> DEFINE i == This(t).id
<1>1. ~Idle(t) /\ This(t).do = "patch"
  BY DEF StepPatch, Doing, This
<1>2. OnlyThis(t)
  BY SameIds DEF StepPatch, dbVars, auditVars, boundVars
<1>3. CASE i \in DOMAIN rows /\ Goes(t, PatchSteps(i, This(t).edit, rows[i].status))
  <2> DEFINE steps == PatchSteps(i, This(t).edit, rows[i].status)
  <2>1. i \in Nat /\ i < nextId /\ EditOK(i, This(t).edit, nextId) /\ nextId \in Nat
    BY <1>1, NextStep, TypedFacts DEF StepOK, Step
  <2>2. StepsOK(steps, nextId) /\ QuietSteps(steps)
    BY <2>1, PatchOK, PatchQuiet
  <2>3. QED
    BY <1>1, <1>2, <1>3, <2>2, GoesFresh DEF QuietSteps
<1>4. CASE Raises(t)
  BY <1>1, <1>2, <1>4, RaisesFresh
<1>5. QED
  BY <1>3, <1>4 DEF StepPatch

\* Steps that add nothing to the list and change no id.
LEMMA PlainFresh ==
  ASSUME StoreInv, FreshInv, NEW t \in Threads,
         \/ StepGet(t) \/ StepPut(t) \/ StepPin(t) \/ StepTouch(t) \/ StepBackup(t)
  PROVE  FreshInv'
<1>1. ~Idle(t) /\ (Proceeds(t) \/ Raises(t))
  BY DEF StepGet, StepPut, StepPin, StepTouch, StepBackup, Doing
<1>2. UNCHANGED <<picked, log, nextId>>
  BY DEF StepGet, StepPut, StepPin, StepTouch, StepBackup, Audit!CopyToImage, auditVars, boundVars
<1>3. DOMAIN rows' \subseteq DOMAIN rows
  <2>1. ASSUME NEW i \in DOMAIN rows, NEW row, rows' = SetRow(i, row) PROVE DOMAIN rows' \subseteq DOMAIN rows
    BY <2>1 DEF SetRow
  <2>2. UNCHANGED rows \/ \E i \in DOMAIN rows : \E row : rows' = SetRow(i, row)
    BY DEF StepGet, StepPut, StepPin, StepTouch, StepBackup, dbVars
  <2>3. QED
    BY <2>1, <2>2
<1>4. QED
  BY <1>1, <1>2, <1>3, SameIds, ProceedsFresh, RaisesFresh

LEMMA InsertFresh == ASSUME StoreInv, FreshInv, NEW t \in Threads, StepInsert(t) PROVE FreshInv'
<1> DEFINE i == This(t).id
<1>1. ~Idle(t) /\ This(t).do = "insert"
  BY DEF StepInsert, Doing, This
<1>2. UNCHANGED <<picked, log, nextId>>
  BY DEF StepInsert, auditVars, boundVars
<1>3. CASE todo' = [todo EXCEPT ![t] = <<Log("secret_rejected", 0)>>] /\ UNCHANGED rows
  <2>1. "secret_rejected" \in Events \ {"purged"} /\ 0 \in Nat
    BY DEF Events
  <2>2. QuietSteps(<<Log("secret_rejected", 0)>>) /\ <<Log("secret_rejected", 0)>> \in Seq(Step)
    BY <2>1, LogQuiet
  <2>3. OnlyThis(t)
    BY <1>2, <1>3, SameIds
  <2>4. QED
    BY <1>1, <1>3, <2>2, <2>3, StopsFresh DEF QuietSteps
<1>4. CASE Raises(t) /\ UNCHANGED rows
  BY <1>1, <1>2, <1>4, SameIds, RaisesFresh
<1>5. CASE Proceeds(t) /\ \E row : rows' = SetRow(i, row)
  <2>1. DOMAIN rows' = DOMAIN rows \cup {i}
    BY <1>5 DEF SetRow
  <2>2. OnlyThis(t)
    BY <1>1, <1>2, <2>1 DEF OnlyThis
  <2>3. QED
    BY <1>1, <1>5, <2>2, ProceedsFresh
<1>6. QED
  BY <1>3, <1>4, <1>5 DEF StepInsert

LEMMA LogFresh ==
  ASSUME StoreInv, FreshInv, NEW t \in Threads, StepLogRead(t) \/ StepLogInsert(t)
  PROVE  FreshInv'
<1>1. CASE StepLogRead(t)
  BY <1>1 DEF StepLogRead, Audit!ReadTail, dbVars, threadVars, boundVars, FreshInv,
     LoggedPurges, StepsFresh, InsertsOnce
<1>2. CASE StepLogInsert(t)
  <2>1. ~Idle(t) /\ (Proceeds(t) \/ Raises(t))
    BY <1>2 DEF StepLogInsert, Doing
  <2>2. UNCHANGED <<rows, picked, nextId>>
    BY <1>2 DEF StepLogInsert, dbVars, boundVars
  <2>3. ASSUME NEW s \in DOMAIN log'
        PROVE  (s \in DOMAIN log /\ log'[s] = log[s]) \/ log'[s].entry = Entry(t)
    <3>1. UNCHANGED log \/ \E r : log' = Audit!Inserted(log, r, Audit!Row(t, Entry(t)))
      BY <1>2 DEF StepLogInsert, Audit!InsertRow, Audit!RejectDuplicateSeq
    <3>2. Audit!Row(t, Entry(t)).entry = Entry(t)
      BY DEF Audit!Row
    <3>3. QED
      BY <2>3, <3>1, <3>2 DEF Audit!Inserted
  <2>4. OnlyThis(t)
    BY <2>2, <2>3 DEF OnlyThis, Entry
  <2>5. QED
    BY <2>1, <2>4, ProceedsFresh, RaisesFresh
<1>3. QED
  BY <1>1, <1>2

LEMMA PickFresh ==
  ASSUME StoreInv, FreshInv, NEW t \in Threads,
         StepPickForgotten(t) \/ StepMatch(t) \/ StepFetch(t)
  PROVE  FreshInv'
<1>1. ~Idle(t) /\ Proceeds(t)
  BY DEF StepPickForgotten, StepMatch, StepFetch, Doing
<1>2. PICK ids \in SUBSET DOMAIN rows : picked' = [picked EXCEPT ![t] = ids]
  BY DEF StepPickForgotten, StepMatch, StepFetch, Tombstones, Searchable
<1>3. \A u \in Threads : picked'[u] \subseteq picked[u] \cup DOMAIN rows
  BY <1>2 DEF StoreInv, Typed
<1>4. UNCHANGED <<rows, log, nextId>>
  BY DEF StepPickForgotten, StepMatch, StepFetch, dbVars, auditVars, boundVars
<1>5. OnlyThis(t)
  BY <1>3, <1>4 DEF OnlyThis
<1>6. QED
  BY <1>1, <1>5, ProceedsFresh

LEMMA DeleteFresh == ASSUME StoreInv, FreshInv, NEW t \in Threads, StepDeletePicked(t) PROVE FreshInv'
<1>1. ~Idle(t) /\ UNCHANGED <<log, nextId>>
  BY DEF StepDeletePicked, Doing, auditVars, boundVars
<1>2. picked[t] \in SUBSET (1 .. nextId - 1) /\ nextId \in Nat /\ picked[t] \subseteq Nat
  BY TypedFacts DEF StoreInv, Typed
<1>3. PICK order \in SetToSeqs(picked[t]) : Goes(t, [k \in DOMAIN order |-> Log("purged", order[k])])
  BY DEF StepDeletePicked
<1> DEFINE steps == [k \in DOMAIN order |-> Log("purged", order[k])]
<1>4. /\ StepsOK(steps, nextId)
      /\ \A k \in 1 .. Len(steps) : \E i \in picked[t] : steps[k] = Log("purged", i)
  BY <1>2, PurgeLogs
<1>5. DOMAIN rows' = DOMAIN rows \ picked[t]
  BY DEF StepDeletePicked
<1>6. OnlyThis(t)
  <2>1. \A u \in Threads : picked'[u] \subseteq picked[u] \cup DOMAIN rows
    BY DEF StepDeletePicked, StoreInv, Typed
  <2>2. QED
    BY <1>1, <1>5, <2>1 DEF OnlyThis
<1>7. "purged" \in Events
  BY DEF Events
<1> HIDE DEF steps
<1>8. ASSUME NEW k \in DOMAIN steps
      PROVE  /\ steps[k].event = "purged" /\ steps[k].do # "insert"
             /\ steps[k].id \in picked[t] /\ steps[k].id \notin DOMAIN rows'
  <2>1. k \in 1 .. Len(steps)
    BY <1>4, LenProperties DEF StepsOK
  <2>2. PICK i \in picked[t] : steps[k] = Log("purged", i)
    BY <1>4, <2>1
  <2>3. i \in Nat
    BY <1>2
  <2>4. steps[k].event = "purged" /\ steps[k].do = "log" /\ steps[k].id = i
    BY <1>7, <2>2, <2>3, LogStep
  <2>5. QED
    BY <1>5, <2>4
<1>9. Goes(t, steps)
  BY <1>3 DEF steps
<1>10. QED
  BY <1>1, <1>4, <1>6, <1>8, <1>9, GoesFresh

LEMMA RangeGrows ==
  \A m, n \in Nat : m <= n => \A i \in 0 .. m - 1 : i \in 0 .. n - 1
OBVIOUS

\* The list of a new call: at most one INSERT, with an id that was unused.
LEMMA StartFresh ==
  ASSUME StoreInv, FreshInv, NEW t \in Threads, NEW steps \in Seq(Step), Starts(t, steps),
         nextId' \in Nat, nextId <= nextId', NEW m \in Int,
         \A k \in DOMAIN steps :
           \/ Quiet(steps[k])
           \/ /\ k = m /\ steps[k].id = nextId
              /\ steps[k].do = "insert" /\ steps[k].event # "purged"
  PROVE  FreshInv'
<1>1. /\ Idle(t) /\ todo' = [todo EXCEPT ![t] = steps] /\ UNCHANGED <<rows, picked, log>>
  BY DEF Starts, dbVars, auditVars
<1>2. todo'[t] = steps /\ \A u \in Threads : u # t => todo'[u] = todo[u]
  BY <1>1 DEF StoreInv, Typed
<1>3. LoggedPurges'
  <2>1. ASSUME NEW i \in 0 .. nextId - 1 PROVE i \in 0 .. nextId' - 1
    <3>1. nextId \in Nat
      BY TypedFacts
    <3>2. QED
      BY <3>1, RangeGrows, Zenon
  <2>2. ASSUME NEW s \in DOMAIN log, log[s].entry.event = "purged"
        PROVE  log[s].entry.id \in 0 .. nextId' - 1 /\ log[s].entry.id \notin DOMAIN rows
    <3>1. log[s].entry.id \in 0 .. nextId - 1 /\ log[s].entry.id \notin DOMAIN rows
      BY <2>2 DEF FreshInv, LoggedPurges
    <3>2. QED
      BY <2>1, <3>1
  <2>3. QED
    BY <1>1, <2>2 DEF LoggedPurges
<1>4. \A u \in Threads : \A l \in DOMAIN todo[u] : todo[u][l].id # nextId
  <2>1. ASSUME NEW u \in Threads, NEW l \in DOMAIN todo[u] PROVE todo[u][l].id # nextId
    <3>1. StepsOK(todo[u], nextId) /\ l \in 1 .. Len(todo[u])
      BY LenProperties DEF StoreInv, ThreadsOK, StepsOK
    <3>2. todo[u][l].id \in Nat /\ todo[u][l].id < nextId
      BY <3>1 DEF StepsOK, StepOK, Step
    <3>3. QED
      BY <3>2, TypedFacts
  <2>2. QED
    BY <2>1
<1>5. nextId \notin DOMAIN rows /\ \A u \in Threads : nextId \notin picked[u]
  <2>1. nextId \in Nat /\ nextId \notin 1 .. nextId - 1
    BY TypedFacts
  <2>2. QED
    BY <2>1, TypedFacts
<1>6. \A s \in DOMAIN log : log[s].entry.event = "purged" => log[s].entry.id # nextId
  BY TypedFacts DEF FreshInv, LoggedPurges
<1>7. ASSUME NEW u \in Threads PROVE StepsFresh(u)'
  <2>1. CASE u # t
    BY <1>1, <1>2, <2>1 DEF FreshInv, StepsFresh
  <2>2. CASE u = t
    BY <1>1, <1>2, <1>5, <1>6, <2>2 DEF StepsFresh, Quiet
  <2>3. QED
    BY <2>1, <2>2
<1>8. ASSUME NEW u \in Threads, NEW v \in Threads PROVE InsertsOnce(u, v)'
  <2> SUFFICES ASSUME NEW k \in DOMAIN todo'[u], NEW l \in DOMAIN todo'[v],
                      todo'[u][k].do = "insert", todo'[v][l].id = todo'[u][k].id
               PROVE  /\ todo'[v][l].event # "purged"
                      /\ todo'[v][l].do = "insert" => v = u /\ l = k
    BY DEF InsertsOnce
  <2>1. CASE u = t
    <3>1. k = m /\ todo'[u][k].id = nextId
      BY <1>2, <2>1 DEF Quiet
    <3>2. v = t
      BY <1>2, <1>4, <3>1
    <3>3. QED
      BY <1>2, <2>1, <3>1, <3>2 DEF Quiet
  <2>2. CASE u # t
    <3>1. todo[u][k].id # nextId /\ todo'[u] = todo[u]
      BY <1>2, <1>4, <2>2
    <3>2. CASE v = t
      BY <1>2, <3>1, <3>2 DEF Quiet
    <3>3. CASE v # t
      BY <1>2, <2>2, <3>3 DEF FreshInv, InsertsOnce
    <3>4. QED
      BY <3>2, <3>3
  <2>3. QED
    BY <2>1, <2>2
<1>9. QED
  BY <1>3, <1>7, <1>8 DEF FreshInv

\* At most one INSERT, of id n.
OneInsert(steps, n) ==
  \E m \in Int : \A k \in DOMAIN steps :
    \/ Quiet(steps[k])
    \/ k = m /\ steps[k].id = n /\ steps[k].do = "insert" /\ steps[k].event # "purged"

LEMMA QuietIsOne ==
  ASSUME NEW s, QuietSteps(s), NEW n PROVE OneInsert(s, n)
BY DEF QuietSteps, OneInsert

LEMMA JoinInsert ==
  ASSUME NEW s \in Seq(Step), NEW u \in Seq(Step), NEW n,
         \/ QuietSteps(s) /\ OneInsert(u, n)
         \/ OneInsert(s, n) /\ QuietSteps(u)
  PROVE  OneInsert(s \o u, n)
<1>1. /\ Len(s) \in Nat /\ Len(u) \in Nat
      /\ DOMAIN s = 1 .. Len(s) /\ DOMAIN u = 1 .. Len(u)
  BY LenProperties
<1>2. /\ s \o u \in Seq(Step) /\ Len(s \o u) = Len(s) + Len(u)
      /\ \A k \in 1 .. Len(s) + Len(u) :
           (s \o u)[k] = IF k <= Len(s) THEN s[k] ELSE u[k - Len(s)]
  BY ConcatProperties
<1>3. DOMAIN (s \o u) = 1 .. Len(s) + Len(u)
  BY <1>1, <1>2, LenProperties
<1> DEFINE Is(step) == step.id = n /\ step.do = "insert" /\ step.event # "purged"
<1>4. ASSUME NEW k \in DOMAIN (s \o u)
      PROVE  \/ k \in DOMAIN s /\ (s \o u)[k] = s[k]
             \/ k - Len(s) \in DOMAIN u /\ (s \o u)[k] = u[k - Len(s)]
  BY <1>1, <1>2, <1>3
<1>5. CASE QuietSteps(s) /\ OneInsert(u, n)
  <2>1. PICK m \in Int : \A k \in DOMAIN u : Quiet(u[k]) \/ (k = m /\ Is(u[k]))
    BY <1>5 DEF OneInsert
  <2>2. ASSUME NEW k \in DOMAIN (s \o u)
        PROVE  Quiet((s \o u)[k]) \/ (k = m + Len(s) /\ Is((s \o u)[k]))
    <3>1. CASE k \in DOMAIN s /\ (s \o u)[k] = s[k]
      BY <1>5, <3>1 DEF QuietSteps
    <3>2. CASE k - Len(s) \in DOMAIN u /\ (s \o u)[k] = u[k - Len(s)]
      <4>1. Quiet(u[k - Len(s)]) \/ (k - Len(s) = m /\ Is(u[k - Len(s)]))
        BY <2>1, <3>2
      <4>2. k - Len(s) = m => k = m + Len(s)
        BY <1>1, <1>3, <2>1
      <4>3. QED
        BY <3>2, <4>1, <4>2
    <3>3. QED
      BY <1>4, <3>1, <3>2
  <2>3. m + Len(s) \in Int
    BY <1>1, <2>1
  <2>4. QED
    BY <2>2, <2>3 DEF OneInsert
<1>6. CASE OneInsert(s, n) /\ QuietSteps(u)
  <2>1. PICK m \in Int : \A k \in DOMAIN s : Quiet(s[k]) \/ (k = m /\ Is(s[k]))
    BY <1>6 DEF OneInsert
  <2>2. ASSUME NEW k \in DOMAIN (s \o u)
        PROVE  Quiet((s \o u)[k]) \/ (k = m /\ Is((s \o u)[k]))
    BY <1>4, <1>6, <2>1 DEF QuietSteps
  <2>3. QED
    BY <2>1, <2>2 DEF OneInsert
<1>7. QED
  BY <1>5, <1>6

LEMMA AddInserts ==
  ASSUME NEW n \in Nat, NEW i \in Nat, 1 <= i, i < n, NEW r, FreshRow(r)
  PROVE  OneInsert(AddSteps(i, r), i) /\ AddSteps(i, r) \in Seq(Step)
<1>1. "insert" \in StepKinds /\ "created" \in Events \ {"purged"}
  BY DEF StepKinds, Events
<1>2. /\ Insert(i, r) \in Step /\ Insert(i, r).do = "insert" /\ Insert(i, r).id = i
      /\ Insert(i, r).event = "updated"
  BY <1>1, DoStep DEF Insert, Step, FreshRow
<1>3. OneInsert(<<Insert(i, r)>>, i) /\ <<Insert(i, r)>> \in Seq(Step)
  BY <1>2 DEF OneInsert
<1>4. QuietSteps(<<Log("created", i)>>) /\ <<Log("created", i)>> \in Seq(Step)
  BY <1>1, LogQuiet
<1>5. AddSteps(i, r) = <<Insert(i, r)>> \o <<Log("created", i)>>
  BY DEF AddSteps
<1>6. AddSteps(i, r) \in Seq(Step)
  BY AddOK DEF StepsOK
<1>7. QED
  BY <1>3, <1>4, <1>5, <1>6, JoinInsert

LEMMA SupersedeInserts ==
  ASSUME NEW old \in Nat, NEW new \in Nat, 1 <= old, old < new, NEW r, FreshRow(r)
  PROVE  OneInsert(SupersedeSteps(old, new, r), new)
<1> DEFINE e == [ToStatus("superseded") EXCEPT !.link = {new}]
           q == [r EXCEPT !.status = "pending"]
<1>1. {"superseded", "pending"} \subseteq Status /\ "superseded" \in Events \ {"purged"}
  BY DEF Status, Events
<1>2. ToStatus("superseded") \in Edit /\ ToStatus("superseded").content = {}
  BY <1>1, NoEditOK DEF ToStatus, Edit
<1>3. e \in Edit /\ e.content = {} /\ e.link = {new}
  BY <1>2 DEF Edit
<1>4. EditOK(old, e, new + 1)
  BY <1>3 DEF EditOK
<1>5. FreshRow(q)
  BY <1>1 DEF FreshRow, Row
<1> HIDE DEF e, q
<1>6. QuietSteps(UpdateSteps(old, e)) /\ UpdateSteps(old, e) \in Seq(Step)
  BY <1>4, UpdateQuiet, UpdateOK DEF StepsOK
<1>7. OneInsert(AddSteps(new, q), new) /\ AddSteps(new, q) \in Seq(Step)
  <2>1. new + 1 \in Nat /\ 1 <= new /\ new < new + 1
    OBVIOUS
  <2>2. QED
    BY <1>5, <2>1, AddInserts
<1>8. QuietSteps(<<Log("superseded", old)>>) /\ <<Log("superseded", old)>> \in Seq(Step)
  BY <1>1, LogQuiet
<1>9. OneInsert(UpdateSteps(old, e) \o AddSteps(new, q), new)
      /\ UpdateSteps(old, e) \o AddSteps(new, q) \in Seq(Step)
  BY <1>6, <1>7, JoinInsert, ConcatProperties
<1>10. QED
  BY <1>8, <1>9, JoinInsert DEF SupersedeSteps, e, q

\* A call that begins with such a list.
LEMMA BeginsFresh ==
  ASSUME StoreInv, FreshInv, NEW t \in Threads, NEW steps \in Seq(Step), Starts(t, steps),
         nextId' \in Nat, nextId <= nextId', OneInsert(steps, nextId)
  PROVE  FreshInv'
<1>1. PICK m \in Int : \A k \in DOMAIN steps :
        \/ Quiet(steps[k])
        \/ k = m /\ steps[k].id = nextId /\ steps[k].do = "insert" /\ steps[k].event # "purged"
  BY DEF OneInsert
<1>2. QED
  BY <1>1, StartFresh

LEMMA CallFresh == ASSUME StoreInv, FreshInv, NEW t \in Threads, Call(t) PROVE FreshInv'
<1>0. {"pending", "active"} \subseteq Status
  BY DEF Status
<1>1. CASE CallAdd(t)
  <2>1. /\ nextId' = nextId + 1 /\ nextId' \in Nat /\ nextId <= nextId' /\ nextId \in Nat
        /\ 1 <= nextId /\ nextId < nextId'
    BY <1>1, TypedFacts DEF CallAdd
  <2>2. PICK ns \in Namespaces, c \in Contents, status \in {"pending", "active"} :
          Starts(t, AddSteps(nextId, NewRow(ns, c, status)))
    BY <1>1 DEF CallAdd
  <2>3. FreshRow(NewRow(ns, c, status))
    BY <1>0, FreshIsFresh
  <2>4. QED
    BY <2>1, <2>2, <2>3, AddInserts, BeginsFresh
<1>2. CASE CallSupersede(t)
  <2>1. nextId' = nextId + 1 /\ nextId' \in Nat /\ nextId <= nextId' /\ nextId \in Nat
    BY <1>2, TypedFacts DEF CallSupersede
  <2>2. PICK old \in DOMAIN rows, c \in Contents :
          Starts(t, SupersedeSteps(old, nextId, NewRow(rows[old].ns, c, "pending")))
    BY <1>2 DEF CallSupersede
  <2>3. old \in Nat /\ 1 <= old /\ old < nextId /\ rows[old].ns \in Namespaces
    BY <2>1, TypedFacts DEF Row
  <2>4. FreshRow(NewRow(rows[old].ns, c, "pending"))
    BY <1>0, <2>3, FreshIsFresh
  <2>5. /\ OneInsert(SupersedeSteps(old, nextId, NewRow(rows[old].ns, c, "pending")), nextId)
        /\ SupersedeSteps(old, nextId, NewRow(rows[old].ns, c, "pending")) \in Seq(Step)
    BY <2>1, <2>3, <2>4, SupersedeInserts, SupersedeOK DEF StepsOK
  <2>6. QED
    BY <2>1, <2>2, <2>5, BeginsFresh
\* The lists of the other calls are quiet.
<1>3. ASSUME NEW kind \in StepKinds \ {"insert"}, NEW i \in Nat
      PROVE  QuietSteps(<<Do(kind, i)>>) /\ <<Do(kind, i)>> \in Seq(Step)
  BY DoStep DEF QuietSteps, Quiet
<1>4. ASSUME NEW steps \in Seq(Step), QuietSteps(steps), Starts(t, steps), nextId' = nextId
      PROVE  FreshInv'
  BY <1>4, QuietIsOne, BeginsFresh, TypedFacts
<1>5. CASE CallOnRecord(t)
  <2>1. nextId' = nextId /\ nextId \in Nat
    BY <1>5, TypedFacts DEF CallOnRecord
  <2>2. PICK i \in DOMAIN rows :
          \/ \E e \in Edits : Starts(t, <<[Do("patch", i) EXCEPT !.edit = e]>>)
          \/ Starts(t, ApproveSteps(i)) \/ Starts(t, RejectSteps(i)) \/ Starts(t, ForgetSteps(i))
          \/ \E kind \in {"pin", "unpin", "touch"} : Starts(t, <<Do(kind, i)>>)
    BY <1>5 DEF CallOnRecord
  <2>3. i \in Nat /\ i < nextId
    BY <2>1, TypedFacts
  <2>4. {"patch", "pin", "unpin", "touch"} \subseteq StepKinds \ {"insert"}
    BY DEF StepKinds
  <2>5. ASSUME NEW e \in Edits
        PROVE  /\ QuietSteps(<<[Do("patch", i) EXCEPT !.edit = e]>>)
               /\ <<[Do("patch", i) EXCEPT !.edit = e]>> \in Seq(Step)
    <3> DEFINE step == [Do("patch", i) EXCEPT !.edit = e]
    <3>1. step \in Step /\ step.do = "patch" /\ step.event = "updated"
      BY <2>3, <2>4, EditsAssumption, DoStep DEF Step
    <3> HIDE DEF step
    <3>2. QuietSteps(<<step>>) /\ <<step>> \in Seq(Step)
      BY <3>1 DEF QuietSteps, Quiet
    <3>3. QED
      BY <3>2 DEF step
  <2>6. \A kind \in {"pin", "unpin", "touch"} : QuietSteps(<<Do(kind, i)>>) /\ <<Do(kind, i)>> \in Seq(Step)
    BY <1>3, <2>3, <2>4
  <2>7. /\ QuietSteps(ApproveSteps(i)) /\ ApproveSteps(i) \in Seq(Step)
        /\ QuietSteps(RejectSteps(i)) /\ RejectSteps(i) \in Seq(Step)
        /\ QuietSteps(ForgetSteps(i)) /\ ForgetSteps(i) \in Seq(Step)
    BY <2>1, <2>3, StatusQuiet, StatusStepsOK DEF StepsOK
  <2>8. PICK steps \in Seq(Step) : Starts(t, steps) /\ QuietSteps(steps)
    BY <2>2, <2>5, <2>6, <2>7
  <2>9. QED
    BY <1>4, <2>1, <2>8
<1>6. CASE CallOnStore(t)
  <2>1. nextId' = nextId
    BY <1>6 DEF CallOnStore
  <2>2. {"pick_forgotten", "delete_picked", "match", "fetch", "backup", "restore"}
          \subseteq StepKinds \ {"insert"}
        /\ {"backup", "restore"} \subseteq Events \ {"purged"}
    BY DEF StepKinds, Events
  <2>3. ASSUME NEW a \in StepKinds \ {"insert"}, NEW b \in StepKinds \ {"insert"}
        PROVE  QuietSteps(<<Do(a, 0), Do(b, 0)>>) /\ <<Do(a, 0), Do(b, 0)>> \in Seq(Step)
    BY DoStep DEF QuietSteps, Quiet
  <2>4. ASSUME NEW a \in StepKinds \ {"insert"}, NEW event \in Events \ {"purged"}
        PROVE  QuietSteps(<<Do(a, 0), Log(event, 0)>>) /\ <<Do(a, 0), Log(event, 0)>> \in Seq(Step)
    BY DoStep, LogStep DEF QuietSteps, Quiet
  <2>5. PICK steps \in Seq(Step) : Starts(t, steps) /\ QuietSteps(steps)
    BY <1>6, <2>2, <2>3, <2>4 DEF CallOnStore, PurgeSteps, SearchSteps, BackupSteps, RestoreSteps
  <2>6. QED
    BY <1>4, <2>1, <2>5
<1>7. QED
  BY <1>1, <1>2, <1>5, <1>6 DEF Call

LEMMA FreshStart == Init => FreshInv
BY DEF Init, Audit!Init, FreshInv, LoggedPurges, StepsFresh, InsertsOnce

LEMMA FreshNext ==
  ASSUME StoreInv, FreshInv, [Next]_vars, ~restored'
  PROVE  FreshInv'
<1>1. ASSUME NEW t \in Threads, StepRestore(t) PROVE FreshInv'
  <2>1. ~Idle(t) /\ Raises(t) /\ UNCHANGED <<rows, picked, log, nextId>>
    BY <1>1, NotRestored DEF StepRestore, Doing, auditVars, boundVars
  <2>2. QED
    BY <2>1, SameIds, RaisesFresh
<1>2. ASSUME NEW t \in Threads, StoreStep(t) PROVE FreshInv'
  BY <1>1, <1>2, PatchFresh, PlainFresh, InsertFresh, LogFresh, PickFresh, DeleteFresh
  DEF StoreStep
<1>3. ASSUME NEW i \in DOMAIN rows, RetentionEnds(i) PROVE FreshInv'
  <2>1. DOMAIN rows' = DOMAIN rows
    BY <1>3 DEF RetentionEnds, SetRow
  <2>2. UNCHANGED <<todo, picked, log, nextId>>
    BY <1>3 DEF RetentionEnds, threadVars, auditVars, boundVars
  <2>3. QED
    BY <2>1, <2>2 DEF FreshInv, LoggedPurges, StepsFresh, InsertsOnce
<1>4. CASE Crash
  <2>1. /\ todo' = [t \in Threads |-> <<>>] /\ picked' = [t \in Threads |-> {}]
        /\ UNCHANGED <<rows, log, nextId>>
    BY <1>4 DEF Crash, dbVars
  <2>2. QED
    BY <2>1 DEF FreshInv, LoggedPurges, StepsFresh, InsertsOnce
<1>5. CASE UNCHANGED vars
  BY <1>5 DEF vars, dbVars, threadVars, auditVars, boundVars, FreshInv, LoggedPurges,
     StepsFresh, InsertsOnce
<1>6. QED
  BY <1>2, <1>3, <1>4, <1>5, CallFresh DEF Next

FreshUntilRestored == ~restored => FreshInv
GoneUntilRestored == ~restored => PurgedIsGone

\* A memory whose purge is on record does not come back, whatever the calls
\* do that read it before, until a backup is restored.
THEOREM PurgesStay == Spec => [](~restored => PurgedIsGone)
<1>1. Init => FreshUntilRestored
  BY FreshStart DEF FreshUntilRestored
<1>2. StoreInv /\ FreshUntilRestored /\ [Next]_vars => FreshUntilRestored'
  BY FreshNext, NotRestored DEF FreshUntilRestored
<1>3. FreshUntilRestored => GoneUntilRestored
  BY DEF FreshUntilRestored, GoneUntilRestored, FreshInv, LoggedPurges, PurgedIsGone
<1>4. QED
  BY <1>1, <1>2, <1>3, StoreInvariance, PTL DEF Spec, GoneUntilRestored

\* What overlapping calls may not break holds for any threads and any calls,
\* edits of every kind and restores among them, however they overlap.
THEOREM RecordsStaySound == Spec => []RecordsSound
<1>1. Spec => [](~restored => AuditVerifies)
  BY LogVerifies
<1>2. Spec => [](~restored => PurgedIsGone)
  BY PurgesStay
<1>3. Spec => []NoSecretStored /\ []OneActivePerContent /\ []HistoryMovesOn
  BY SecretsKeptOut, UniqueActive, HistoryAcyclic
<1>4. QED
  BY <1>1, <1>2, <1>3, PTL DEF RecordsSound

------------------------------------------------------------------------------
(* Calls that come one after the other.  While a single thread works, no   *)
(* process dies and no text is a secret, what is missing from the log or   *)
(* from the history is what the call under way will do next: before it     *)
(* reads or writes anything else, it reports to the log what it has        *)
(* committed and inserts the successor it has named.  What it has read is  *)
(* still what the table says.                                              *)

\* The next steps of a call that are reports to the log, up to a step that is not.
Soon(s, k) == k \in 1 .. Len(s) /\ \A l \in 1 .. k - 1 : s[l].do = "log"

\* What comes right before a step.
Follows(a, b) ==
  /\ b.do = "put" => a.do = "get" /\ a.id = b.id
  /\ b.do = "delete_picked" => a.do = "pick_forgotten"
  /\ b.do = "fetch" => a.do = "match"
  /\ b.do = "insert" => \A r \in b.row : r.status = "pending"

\* What comes right after a step: the report of it, and the successor it has named.
Reported(s, k) ==
  /\ s[k].do = "put" =>
       /\ k < Len(s) /\ s[k + 1] = Log("updated", s[k].id)
       /\ \A j \in s[k].edit.link :
            k + 1 < Len(s) /\ s[k + 2].do = "insert" /\ s[k + 2].id = j
  /\ s[k].do = "insert" =>
       /\ k < Len(s) /\ s[k + 1] = Log("created", s[k].id)
       /\ \A r \in s[k].row : r.status \in {"pending", "active"}
  /\ s[k].do \in {"patch", "delete_picked"} => k = Len(s)

\* Until an approval is reported its call does nothing else.
Approving(s, k) ==
  s[k].event = "approved" =>
    \A l \in 1 .. k - 1 :
      s[l].do \in {"get", "put", "log"} /\ (s[l].do = "put" => s[l].edit.status = {"active"})

Shaped(s) ==
  /\ s \in Seq(Step)
  /\ \A k \in 1 .. Len(s) :
       /\ Reported(s, k) /\ Approving(s, k)
       /\ k > 1 => Follows(s[k - 1], s[k])

\* The purge of j is in the log l.
PurgedIn(l, j) == \E s \in DOMAIN l : l[s].entry = [event |-> "purged", id |-> j]

\* Every link of the table leads to a row or to one that has been purged.
Whole(table, l) ==
  \A i \in DOMAIN table : \A j \in table[i].link : j \in DOMAIN table \/ PurgedIn(l, j)

Due(s, j) ==
  \E k \in 1 .. Len(s) :
    /\ Soon(s, k)
    /\ s[k] = Log("purged", j) \/ (s[k].do = "insert" /\ s[k].id = j)

LoggedSoon(t) ==
  \A u \in unlogged :
    u[1] = t /\ \E k \in 1 .. Len(todo[t]) : Soon(todo[t], k) /\ todo[t][k] = Log(u[2], u[3])

LinkedSoon(t) ==
  \A i \in DOMAIN rows : \A j \in rows[i].link :
    j \in DOMAIN rows \/ PurgedIn(log, j) \/ Due(todo[t], j)

BackedUp == \A table \in backup, l \in image : Whole(table, l)

\* What the thread holds is what the table says.
HoldsCurrent(t) ==
  Doing(t, "put") /\ This(t).id \in DOMAIN rows =>
    \A r \in snap[t] : r.status = rows[This(t).id].status /\ r.link = rows[This(t).id].link

PicksCurrent(t) ==
  \A i \in picked[t] \cap DOMAIN rows :
    /\ Doing(t, "delete_picked") => rows[i].status = "forgotten"
    /\ Doing(t, "fetch") => rows[i].status = "active"

ApprovedPending(t) ==
  \A k \in 1 .. Len(todo[t]) :
    todo[t][k].event = "approved" /\ todo[t][k].id \in DOMAIN rows =>
      rows[todo[t][k].id].status \in {"pending", "active"}

\* A memory that is added for itself is the successor of none.
AddedUnlinked(t) ==
  Doing(t, "insert") =>
    \A r \in This(t).row : r.status # "pending" =>
      \A i \in DOMAIN rows : This(t).id \notin rows[i].link

AnsweredActive(t) == \A r \in answer[t] : r.status = "active"

LogSerial(t) ==
  Audit!Appending(t) => Doing(t, "log") /\ tail[t].seq + 1 \notin DOMAIN log

\* What the steps left need of the table.
Prepared(t) ==
  /\ Shaped(todo[t])
  /\ HoldsCurrent(t) /\ PicksCurrent(t) /\ ApprovedPending(t) /\ AddedUnlinked(t)

SerialInv(t) ==
  /\ Prepared(t)
  /\ LoggedSoon(t) /\ LinkedSoon(t) /\ BackedUp /\ AnsweredActive(t) /\ LogSerial(t)

------------------------------------------------------------------------------
(* Lists of steps. *)

LEMMA LogFields ==
  \A event, i : Log(event, i).do = "log" /\ Log(event, i).event = event /\ Log(event, i).id = i
BY DEF Log, Do

LEMMA ShapedTail ==
  ASSUME NEW s, Shaped(s), s # <<>>
  PROVE  /\ Shaped(Tail(s)) /\ Head(s) = s[1] /\ Len(s) \in Nat \ {0} /\ s \in Seq(Step)
         /\ Len(Tail(s)) = Len(s) - 1
         /\ \A k \in 1 .. Len(Tail(s)) : Tail(s)[k] = s[k + 1]
         /\ Tail(s) # <<>> => 1 < Len(s) /\ Head(Tail(s)) = s[2] /\ Follows(s[1], s[2])
<1>1. s \in Seq(Step) /\ Len(s) \in Nat \ {0} /\ Head(s) = s[1]
  BY LenProperties, EmptySeq DEF Shaped
<1>2. /\ Tail(s) \in Seq(Step) /\ Len(Tail(s)) = Len(s) - 1
      /\ \A k \in 1 .. Len(Tail(s)) : Tail(s)[k] = s[k + 1]
  BY <1>1, HeadTailProperties
<1> DEFINE u == Tail(s)
<1>3. ASSUME NEW k \in 1 .. Len(u)
      PROVE  /\ Reported(u, k) /\ Approving(u, k)
             /\ k > 1 => Follows(u[k - 1], u[k])
  <2>1. k \in Int /\ k + 1 \in 1 .. Len(s) /\ u[k] = s[k + 1]
    BY <1>1, <1>2
  <2>2. Reported(s, k + 1) /\ Approving(s, k + 1) /\ Follows(s[(k + 1) - 1], s[k + 1])
    BY <1>1, <2>1 DEF Shaped
  <2>3. /\ k < Len(u) => u[k + 1] = s[(k + 1) + 1]
        /\ k + 1 < Len(u) => u[k + 2] = s[(k + 1) + 2]
        /\ k < Len(u) <=> k + 1 < Len(s)
        /\ k + 1 < Len(u) <=> (k + 1) + 1 < Len(s)
        /\ k = Len(u) <=> k + 1 = Len(s)
    BY <1>1, <1>2, <2>1
  <2>4. Reported(u, k)
    BY <2>1, <2>2, <2>3 DEF Reported
  <2>5. Approving(u, k)
    <3>1. \A l \in 1 .. k - 1 : l + 1 \in 1 .. (k + 1) - 1 /\ u[l] = s[l + 1]
      BY <1>1, <1>2, <2>1
    <3>2. QED
      BY <2>1, <2>2, <3>1 DEF Approving
  <2>6. k > 1 => Follows(u[k - 1], u[k])
    <3>1. k > 1 => u[k - 1] = s[(k + 1) - 1]
      BY <1>1, <1>2, <2>1
    <3>2. QED
      BY <2>1, <2>2, <3>1
  <2>7. QED
    BY <2>4, <2>5, <2>6
<1>4. Tail(s) # <<>> => 1 < Len(s) /\ Head(Tail(s)) = s[2] /\ Follows(s[1], s[2])
  <2>1. ASSUME Tail(s) # <<>> PROVE 1 < Len(s) /\ Head(Tail(s)) = s[2]
    <3>1. Len(Tail(s)) # 0 /\ Head(Tail(s)) = Tail(s)[1]
      BY <1>2, <2>1, EmptySeq
    <3>2. 1 \in 1 .. Len(Tail(s))
      BY <1>1, <1>2, <3>1
    <3>3. QED
      BY <1>1, <1>2, <3>1, <3>2
  <2>2. ASSUME 1 < Len(s) PROVE Follows(s[1], s[2])
    <3>1. 2 \in 1 .. Len(s) /\ 2 > 1 /\ 2 - 1 = 1
      BY <1>1, <2>2
    <3>2. QED
      BY <3>1 DEF Shaped
  <2>3. QED
    BY <2>1, <2>2
<1> HIDE DEF u
<1>5. Shaped(u)
  BY <1>2, <1>3 DEF Shaped, u
<1>6. QED
  BY <1>1, <1>2, <1>4, <1>5 DEF u

LEMMA SoonTail ==
  ASSUME NEW s, Shaped(s), s # <<>>, NEW k, Soon(s, k)
  PROVE  /\ k # 1 => /\ Head(s).do = "log" /\ Soon(Tail(s), k - 1) /\ k - 1 \in 1 .. Len(Tail(s))
                     /\ Tail(s)[k - 1] = s[k]
         /\ k = 1 => s[k] = Head(s)
<1>1. k \in 1 .. Len(s) /\ \A l \in 1 .. k - 1 : s[l].do = "log"
  BY DEF Soon
<1>2. /\ Head(s) = s[1] /\ Len(s) \in Nat \ {0} /\ Len(Tail(s)) = Len(s) - 1
      /\ \A l \in 1 .. Len(Tail(s)) : Tail(s)[l] = s[l + 1]
  BY ShapedTail
<1>3. ASSUME k # 1
      PROVE  /\ Head(s).do = "log" /\ Soon(Tail(s), k - 1) /\ k - 1 \in 1 .. Len(Tail(s))
             /\ Tail(s)[k - 1] = s[k]
  <2>1. k \in Int /\ 1 \in 1 .. k - 1 /\ k - 1 \in 1 .. Len(Tail(s)) /\ (k - 1) + 1 = k
    BY <1>1, <1>2, <1>3
  <2>2. \A l \in 1 .. (k - 1) - 1 : l \in 1 .. Len(Tail(s)) /\ l + 1 \in 1 .. k - 1
    BY <1>1, <1>2, <2>1
  <2>3. Soon(Tail(s), k - 1)
    BY <1>1, <1>2, <2>1, <2>2 DEF Soon
  <2>4. QED
    BY <1>1, <1>2, <2>1, <2>3
<1>4. QED
  BY <1>2, <1>3

------------------------------------------------------------------------------
(* What a step may rely on and what it has to leave behind. *)

\* A call that is neither about to report nor to insert owes nothing.
LEMMA AtRest ==
  ASSUME NEW t \in Threads, SerialInv(t), Idle(t) \/ This(t).do \notin {"log", "insert"}
  PROVE  unlogged = {} /\ Whole(rows, log)
<1> DEFINE s == todo[t]
<1>1. Shaped(s)
  BY DEF SerialInv, Prepared
<1>2. ASSUME NEW k \in 1 .. Len(s), Soon(s, k) PROVE s[k].do \notin {"log", "insert"}
  <2>1. s # <<>>
    BY <1>2
  <2>2. k = 1 /\ s[k] = Head(s)
    BY <1>1, <1>2, <2>1, SoonTail DEF Idle, This
  <2>3. QED
    BY <2>1, <2>2 DEF Idle, This
<1>3. unlogged = {}
  <2> SUFFICES ASSUME NEW u \in unlogged PROVE FALSE
    OBVIOUS
  <2>1. PICK k \in 1 .. Len(s) : Soon(s, k) /\ s[k] = Log(u[2], u[3])
    BY DEF SerialInv, LoggedSoon
  <2>2. QED
    BY <1>2, <2>1, LogFields
<1>4. ASSUME NEW j PROVE ~Due(s, j)
  <2>1. SUFFICES ASSUME NEW k \in 1 .. Len(s), Soon(s, k),
                        s[k] = Log("purged", j) \/ s[k].do = "insert"
                 PROVE  FALSE
    BY DEF Due
  <2>2. QED
    BY <1>2, <2>1, LogFields
<1>5. QED
  BY <1>3, <1>4 DEF SerialInv, LinkedSoon, Whole

LEMMA StaysRestful ==
  ASSUME NEW t \in Threads, unlogged' = {}, Whole(rows', log')
  PROVE  LoggedSoon(t)' /\ LinkedSoon(t)'
BY DEF LoggedSoon, LinkedSoon, Whole

LEMMA ShapedNone == Shaped(<<>>)
BY DEF Shaped

\* A call that has ended needs nothing.
LEMMA StopsPrepared ==
  ASSUME NEW t \in Threads, todo'[t] = <<>>
  PROVE  Prepared(t)'
<1>1. ~Doing(t, "put")' /\ ~Doing(t, "delete_picked")' /\ ~Doing(t, "fetch")' /\ ~Doing(t, "insert")'
  BY DEF Doing, Idle
<1>2. Len(todo'[t]) = 0
  OBVIOUS
<1>3. QED
  BY <1>1, <1>2, ShapedNone
     DEF Prepared, HoldsCurrent, PicksCurrent, ApprovedPending, AddedUnlinked

\* The rows have the status they had.
SameStatus ==
  \A i \in DOMAIN rows' : i \in DOMAIN rows /\ rows'[i].status = rows[i].status

\* A call that goes on with the next of its steps.
LEMMA MovesPrepared ==
  ASSUME NEW t \in Threads, Prepared(t), ~Idle(t), todo'[t] = Tail(todo[t]),
         \A k \in 1 .. Len(todo'[t]) :
           todo'[t][k].event = "approved" /\ todo'[t][k].id \in DOMAIN rows' =>
             rows'[todo'[t][k].id].status \in {"pending", "active"},
         This(t).do = "get" => HoldsCurrent(t)',
         This(t).do \in {"match", "pick_forgotten"} => PicksCurrent(t)'
  PROVE  Prepared(t)'
<1> DEFINE s == todo[t]
           u == todo'[t]
<1>1. Shaped(s) /\ s # <<>>
  BY DEF Prepared, Idle
<1>2. /\ Shaped(u) /\ Head(s) = s[1]
      /\ u # <<>> => 1 < Len(s) /\ Head(u) = s[2] /\ Follows(Head(s), Head(u))
  BY <1>1, ShapedTail
<1>3. /\ Doing(t, "put")' => This(t).do = "get"
      /\ Doing(t, "delete_picked")' => This(t).do = "pick_forgotten"
      /\ Doing(t, "fetch")' => This(t).do = "match"
      /\ Doing(t, "insert")' => \A r \in This(t)'.row : r.status = "pending"
  BY <1>1, <1>2 DEF Follows, Doing, Idle, This
<1>4. HoldsCurrent(t)'
  BY <1>3 DEF HoldsCurrent
<1>5. PicksCurrent(t)'
  BY <1>3 DEF PicksCurrent
<1>6. AddedUnlinked(t)'
  BY <1>3 DEF AddedUnlinked
<1>7. QED
  BY <1>2, <1>4, <1>5, <1>6 DEF Prepared, ApprovedPending

\* The approvals still to be reported, when the rows keep their status.
LEMMA SameApprovals ==
  ASSUME NEW t \in Threads, Prepared(t), ~Idle(t), todo'[t] = Tail(todo[t]), SameStatus
  PROVE  \A k \in 1 .. Len(todo'[t]) :
           todo'[t][k].event = "approved" /\ todo'[t][k].id \in DOMAIN rows' =>
             rows'[todo'[t][k].id].status \in {"pending", "active"}
<1> DEFINE s == todo[t]
<1>1. Shaped(s) /\ s # <<>>
  BY DEF Prepared, Idle
<1>2. /\ Len(s) \in Nat \ {0} /\ Len(Tail(s)) = Len(s) - 1
      /\ \A k \in 1 .. Len(Tail(s)) : Tail(s)[k] = s[k + 1]
  BY <1>1, ShapedTail
<1>3. \A k \in 1 .. Len(Tail(s)) : k + 1 \in 1 .. Len(s)
  BY <1>2
<1>4. QED
  BY <1>2, <1>3 DEF Prepared, ApprovedPending, SameStatus

\* When the step is not one that an approval waits for, no approval is left.
LEMMA NoApprovals ==
  ASSUME NEW t \in Threads, Prepared(t), ~Idle(t), This(t).do \notin {"get", "put", "log"},
         NEW k \in 1 .. Len(Tail(todo[t]))
  PROVE  Tail(todo[t])[k].event # "approved"
<1> DEFINE s == todo[t]
<1>1. Shaped(s) /\ s # <<>>
  BY DEF Prepared, Idle
<1>2. /\ Head(s) = s[1] /\ Len(s) \in Nat \ {0} /\ Len(Tail(s)) = Len(s) - 1
      /\ Tail(s)[k] = s[k + 1]
  BY <1>1, ShapedTail
<1>3. k + 1 \in 1 .. Len(s) /\ 1 \in 1 .. (k + 1) - 1
  BY <1>2
<1>4. Approving(s, k + 1)
  BY <1>1, <1>3 DEF Shaped
<1>5. QED
  BY <1>2, <1>3, <1>4 DEF Approving, This

\* A call that begins, or goes on with other steps.
Opens(s) == s # <<>> => Head(s).do \notin {"put", "delete_picked", "fetch"}

LEMMA BeginsPrepared ==
  ASSUME NEW t \in Threads, Shaped(todo'[t]), Opens(todo'[t]), ApprovedPending(t)', AddedUnlinked(t)'
  PROVE  Prepared(t)'
BY DEF Prepared, Opens, HoldsCurrent, PicksCurrent, Doing, Idle

------------------------------------------------------------------------------
(* The lists of steps of the calls, once more. *)

LEMMA StepFields ==
  ASSUME NEW i, NEW e
  PROVE  /\ Get(i).do = "get" /\ Get(i).event = "updated" /\ Get(i).id = i
         /\ Put(i, e).do = "put" /\ Put(i, e).event = "updated" /\ Put(i, e).id = i
         /\ Put(i, e).edit = e
BY DEF Get, Put, Do

LEMMA UpdateParts ==
  ASSUME NEW i, NEW e, UpdateSteps(i, e) \in Seq(Step)
  PROVE  /\ Len(UpdateSteps(i, e)) = 3 /\ UpdateSteps(i, e)[1] = Get(i)
         /\ UpdateSteps(i, e)[2] = Put(i, e) /\ UpdateSteps(i, e)[3] = Log("updated", i)
BY DEF UpdateSteps

\* Lists that only follow one another: what is asked of each place is asked of its list.
Unapproved(s) == \A k \in 1 .. Len(s) : s[k].event # "approved"

LEMMA UpdateShaped ==
  ASSUME NEW i, NEW e, UpdateSteps(i, e) \in Seq(Step), e.link = {}
  PROVE  /\ Shaped(UpdateSteps(i, e)) /\ Unapproved(UpdateSteps(i, e))
         /\ UpdateSteps(i, e)[1].do = "get" /\ Len(UpdateSteps(i, e)) = 3
<1> DEFINE s == UpdateSteps(i, e)
<1>1. Len(s) = 3 /\ s[1] = Get(i) /\ s[2] = Put(i, e) /\ s[3] = Log("updated", i) /\ s \in Seq(Step)
  BY UpdateParts
<1> HIDE DEF s
<1>2. /\ s[1].do = "get" /\ s[1].event = "updated" /\ s[1].id = i
      /\ s[2].do = "put" /\ s[2].event = "updated" /\ s[2].id = i /\ s[2].edit.link = {}
      /\ s[3].do = "log" /\ s[3].event = "updated"
  BY <1>1, StepFields, LogFields
<1>3. \A k \in 1 .. Len(s) : k = 1 \/ k = 2 \/ k = 3
  BY <1>1
<1>4. \A k \in 1 .. Len(s) : Reported(s, k)
  BY <1>1, <1>2, <1>3 DEF Reported
<1>5. Unapproved(s) /\ \A k \in 1 .. Len(s) : Approving(s, k)
  BY <1>2, <1>3 DEF Unapproved, Approving
<1>6. \A k \in 1 .. Len(s) : k > 1 => Follows(s[k - 1], s[k])
  BY <1>2, <1>3 DEF Follows
<1>7. QED
  BY <1>1, <1>2, <1>4, <1>5, <1>6 DEF Shaped, s

\* A change of status with its report.
StatusSteps(s, i, status, event) ==
  /\ s = UpdateSteps(i, ToStatus(status)) \o <<Log(event, i)>>
  /\ UpdateSteps(i, ToStatus(status)) \in Seq(Step) /\ <<Log(event, i)>> \in Seq(Step)
  /\ event = "approved" => status = "active"

LEMMA StatusShaped ==
  ASSUME NEW i, NEW status, NEW event, NEW s, StatusSteps(s, i, status, event)
  PROVE  /\ Shaped(s) /\ s[1].do = "get" /\ Len(s) = 4
         /\ s[4].do = "log"
         /\ \A k \in 1 .. 4 : s[k].event = "approved" => s[k].id = i /\ event = "approved"
<1> DEFINE u == UpdateSteps(i, ToStatus(status))
<1>0. /\ s = u \o <<Log(event, i)>> /\ u \in Seq(Step) /\ <<Log(event, i)>> \in Seq(Step)
      /\ event = "approved" => status = "active"
  BY DEF StatusSteps
<1>1. Len(u) = 3 /\ u[1] = Get(i) /\ u[2] = Put(i, ToStatus(status)) /\ u[3] = Log("updated", i)
  BY <1>0, UpdateParts
<1>2. s \in Seq(Step) /\ Len(s) = 4 /\ s[1] = u[1] /\ s[2] = u[2] /\ s[3] = u[3] /\ s[4] = Log(event, i)
  <2> DEFINE v == <<Log(event, i)>>
  <2>1. v \in Seq(Step) /\ Len(v) = 1 /\ v[1] = Log(event, i) /\ u \in Seq(Step)
    BY <1>0
  <2> HIDE DEF u, v
  <2>2. /\ u \o v \in Seq(Step) /\ Len(u \o v) = Len(u) + Len(v)
        /\ \A k \in 1 .. Len(u) + Len(v) : (u \o v)[k] = IF k <= Len(u) THEN u[k] ELSE v[k - Len(u)]
    BY <2>1, ConcatProperties
  <2>3. /\ Len(u \o v) = 4 /\ (u \o v)[1] = u[1] /\ (u \o v)[2] = u[2] /\ (u \o v)[3] = u[3]
        /\ (u \o v)[4] = v[1]
    BY <1>1, <2>1, <2>2
  <2>4. s = u \o v
    BY <1>0 DEF v
  <2>5. QED
    BY <2>1, <2>2, <2>3, <2>4
<1>3. ToStatus(status).link = {} /\ ToStatus(status).status = {status}
  BY DEF ToStatus, NoEdit
<1>4. Put(i, ToStatus(status)).edit = ToStatus(status)
  BY StepFields
<1> HIDE DEF u
<1>5. /\ s[1].do = "get" /\ s[1].event = "updated" /\ s[1].id = i
      /\ s[2].do = "put" /\ s[2].event = "updated" /\ s[2].id = i
      /\ s[2].edit.link = {} /\ s[2].edit.status = {status}
      /\ s[3].do = "log" /\ s[3].event = "updated" /\ s[3] = Log("updated", i)
      /\ s[4].do = "log" /\ s[4].event = event /\ s[4].id = i
  BY <1>1, <1>2, <1>3, <1>4, StepFields, LogFields
<1>6. \A k \in 1 .. Len(s) : k = 1 \/ k = 2 \/ k = 3 \/ k = 4
  BY <1>2
<1>7. \A k \in 1 .. Len(s) : Reported(s, k)
  BY <1>2, <1>5, <1>6 DEF Reported
<1>8. \A k \in 1 .. Len(s) : Approving(s, k)
  <2>1. \A k \in 1 .. Len(s) : s[k].event = "approved" => k = 4 /\ event = "approved"
    BY <1>5, <1>6
  <2>2. \A l \in 1 .. 4 - 1 : l = 1 \/ l = 2 \/ l = 3
    OBVIOUS
  <2>3. QED
    BY <1>0, <1>5, <2>1, <2>2 DEF Approving
<1>9. \A k \in 1 .. Len(s) : k > 1 => Follows(s[k - 1], s[k])
  BY <1>5, <1>6 DEF Follows
<1>10. QED
  <2>1. Shaped(s)
    BY <1>2, <1>7, <1>8, <1>9 DEF Shaped
  <2>2. QED
    BY <1>2, <1>5, <1>6, <2>1

LEMMA JoinShaped ==
  ASSUME NEW s, NEW u, Shaped(s), Shaped(u), Unapproved(u), u # <<>> => u[1].do = "get",
         s # <<>> => s[Len(s)].do = "log"
  PROVE  Shaped(s \o u)
<1> DEFINE w == s \o u
           n == Len(s)
<1>1. s \in Seq(Step) /\ u \in Seq(Step) /\ n \in Nat /\ Len(u) \in Nat
  BY LenProperties DEF Shaped
<1>2. /\ w \in Seq(Step) /\ Len(w) = n + Len(u)
      /\ \A k \in 1 .. n + Len(u) : w[k] = IF k <= n THEN s[k] ELSE u[k - n]
  BY <1>1, ConcatProperties
<1> HIDE DEF w
<1>3. ASSUME NEW k \in 1 .. Len(w)
      PROVE  /\ Reported(w, k) /\ Approving(w, k)
             /\ k > 1 => Follows(w[k - 1], w[k])
  <2>1. CASE k <= n
    <3>1. /\ k \in 1 .. n /\ w[k] = s[k]
          /\ k < n => w[k + 1] = s[k + 1]
          /\ k + 1 < n => w[k + 2] = s[k + 2]
          /\ k > 1 => w[k - 1] = s[k - 1]
          /\ \A l \in 1 .. k - 1 : w[l] = s[l]
          /\ n <= Len(w) /\ k \in Int
      BY <1>1, <1>2, <2>1
    <3>2. Reported(s, k) /\ Approving(s, k) /\ (k > 1 => Follows(s[k - 1], s[k]))
      BY <3>1 DEF Shaped
    <3>3. s[k].do \notin {"patch", "delete_picked"}  \/ k = n
      BY <3>2 DEF Reported
    <3>4. k = n => s[k].do = "log"
      <4>1. n # 0 => s # <<>>
        BY <1>1, EmptySeq
      <4>2. k = n => n # 0
        BY <3>1
      <4>3. QED
        BY <4>1, <4>2
    <3>5. Reported(w, k)
      BY <1>1, <3>1, <3>2, <3>3, <3>4 DEF Reported
    <3>6. QED
      BY <3>1, <3>2, <3>5 DEF Approving
  <2>2. CASE k > n
    <3> DEFINE m == k - n
    <3>1. /\ m \in 1 .. Len(u) /\ w[k] = u[m]
          /\ m < Len(u) => w[k + 1] = u[m + 1]
          /\ m + 1 < Len(u) => w[k + 2] = u[m + 2]
          /\ m > 1 => k > 1 /\ w[k - 1] = u[m - 1]
          /\ m = Len(u) <=> k = Len(w)
          /\ m < Len(u) <=> k < Len(w)
          /\ m + 1 < Len(u) <=> k + 1 < Len(w)
          /\ m \in Int
      <4>1. k \in Int /\ m \in Int /\ m \in 1 .. Len(u) /\ k = m + n /\ Len(w) = Len(u) + n
        BY <1>1, <1>2, <2>2
      <4>2. \A l \in 1 .. Len(u) : l + n \in 1 .. n + Len(u) /\ l + n > n /\ (l + n) - n = l
        BY <1>1
      <4>3. ASSUME NEW l \in 1 .. Len(u) PROVE w[l + n] = u[l]
        <5>1. PICK x : x = l + n
          OBVIOUS
        <5>2. x \in 1 .. n + Len(u) /\ ~(x <= n) /\ x - n = l
          BY <1>1, <5>1
        <5>3. w[x] = u[x - n]
          BY <1>2, <5>2
        <5>4. QED
          BY <5>1, <5>2, <5>3, Zenon
      <4> HIDE DEF m
      <4>4. w[k] = u[m]
        BY <4>1, <4>3
      <4>5. m < Len(u) => k + 1 = (m + 1) + n /\ m + 1 \in 1 .. Len(u)
        BY <1>1, <4>1
      <4>6. m + 1 < Len(u) => k + 2 = (m + 2) + n /\ m + 2 \in 1 .. Len(u)
        BY <1>1, <4>1
      <4>7. m > 1 => k > 1 /\ k - 1 = (m - 1) + n /\ m - 1 \in 1 .. Len(u)
        BY <1>1, <4>1
      <4>8. (m = Len(u) <=> k = Len(w)) /\ (m < Len(u) <=> k < Len(w)) /\ (m + 1 < Len(u) <=> k + 1 < Len(w))
        BY <1>1, <4>1
      <4>9. ASSUME m < Len(u) PROVE w[k + 1] = u[m + 1]
        <5>1. w[(m + 1) + n] = u[m + 1]
          BY <4>3, <4>5, <4>9
        <5>2. k + 1 = (m + 1) + n
          BY <4>5, <4>9
        <5>3. QED
          BY <5>1, <5>2, Zenon
      <4>10. ASSUME m + 1 < Len(u) PROVE w[k + 2] = u[m + 2]
        <5>1. w[(m + 2) + n] = u[m + 2]
          BY <4>3, <4>6, <4>10
        <5>2. k + 2 = (m + 2) + n
          BY <4>6, <4>10
        <5>3. QED
          BY <5>1, <5>2, Zenon
      <4>11. ASSUME m > 1 PROVE k > 1 /\ w[k - 1] = u[m - 1]
        <5>1. w[(m - 1) + n] = u[m - 1] /\ k > 1
          BY <4>3, <4>7, <4>11
        <5>2. k - 1 = (m - 1) + n
          BY <4>7, <4>11
        <5>3. QED
          BY <5>1, <5>2, Zenon
      <4>12. QED
        BY <4>1, <4>4, <4>8, <4>9, <4>10, <4>11
    <3>2. Reported(u, m) /\ (m > 1 => Follows(u[m - 1], u[m])) /\ u[m].event # "approved"
      BY <3>1 DEF Shaped, Unapproved
    <3>3. m = 1 => u[m].do = "get"
      <4>1. Len(u) # 0 => u # <<>>
        BY <1>1, EmptySeq
      <4>2. Len(u) # 0
        BY <3>1
      <4>3. QED
        BY <4>1, <4>2
    <3> HIDE DEF m
    <3>4. Reported(w, k)
      BY <3>1, <3>2 DEF Reported
    <3>5. k > 1 => Follows(w[k - 1], w[k])
      <4>1. CASE m > 1
        BY <3>1, <3>2, <4>1
      <4>2. CASE m = 1
        BY <3>1, <3>3, <4>2 DEF Follows
      <4>3. QED
        BY <3>1, <4>1, <4>2
    <3>6. Approving(w, k)
      BY <3>1, <3>2 DEF Approving
    <3>7. QED
      BY <3>4, <3>5, <3>6
  <2>3. QED
    BY <1>1, <1>2, <2>1, <2>2
<1>4. QED
  BY <1>2, <1>3 DEF Shaped, w

LEMMA JoinThree ==
  ASSUME NEW x \in Seq(Step), NEW y \in Seq(Step), NEW z \in Seq(Step),
         Len(x) = 3, Len(y) = 2, Len(z) = 1
  PROVE  LET s == x \o y \o z IN
         /\ s \in Seq(Step) /\ Len(s) = 6
         /\ s[1] = x[1] /\ s[2] = x[2] /\ s[3] = x[3]
         /\ s[4] = y[1] /\ s[5] = y[2] /\ s[6] = z[1]
<1> DEFINE a == x \o y
           s == a \o z
<1>1. /\ a \in Seq(Step) /\ Len(a) = 5
      /\ \A k \in 1 .. 5 : a[k] = IF k <= 3 THEN x[k] ELSE y[k - 3]
  <2>1. /\ a \in Seq(Step) /\ Len(a) = Len(x) + Len(y)
        /\ \A k \in 1 .. Len(x) + Len(y) : a[k] = IF k <= Len(x) THEN x[k] ELSE y[k - Len(x)]
    BY ConcatProperties, Zenon
  <2> HIDE DEF a
  <2>2. QED
    BY <2>1
<1>2. a[1] = x[1] /\ a[2] = x[2] /\ a[3] = x[3] /\ a[4] = y[1] /\ a[5] = y[2]
  BY <1>1
<1> HIDE DEF a
<1>3. /\ s \in Seq(Step) /\ Len(s) = 6
      /\ \A k \in 1 .. 6 : s[k] = IF k <= 5 THEN a[k] ELSE z[k - 5]
  <2>1. /\ s \in Seq(Step) /\ Len(s) = Len(a) + Len(z)
        /\ \A k \in 1 .. Len(a) + Len(z) : s[k] = IF k <= Len(a) THEN a[k] ELSE z[k - Len(a)]
    BY <1>1, ConcatProperties, Zenon
  <2> HIDE DEF s
  <2>2. QED
    BY <1>1, <2>1
<1> HIDE DEF s
<1>4. /\ s[1] = a[1] /\ s[2] = a[2] /\ s[3] = a[3] /\ s[4] = a[4] /\ s[5] = a[5]
      /\ s[6] = z[1]
  BY <1>3
<1>5. QED
  BY <1>2, <1>3, <1>4 DEF s, a

LEMMA InsertFields ==
  ASSUME NEW i, NEW r
  PROVE  /\ Insert(i, r).do = "insert" /\ Insert(i, r).event = "updated" /\ Insert(i, r).id = i
         /\ Insert(i, r).row = {r}
BY DEF Insert, Do

LEMMA AddShaped ==
  ASSUME NEW i, NEW r, AddSteps(i, r) \in Seq(Step), r.status \in {"pending", "active"}
  PROVE  /\ Shaped(AddSteps(i, r)) /\ Unapproved(AddSteps(i, r)) /\ Len(AddSteps(i, r)) = 2
         /\ AddSteps(i, r)[1] = Insert(i, r) /\ AddSteps(i, r)[2] = Log("created", i)
<1> DEFINE s == AddSteps(i, r)
<1>1. Len(s) = 2 /\ s[1] = Insert(i, r) /\ s[2] = Log("created", i) /\ s \in Seq(Step)
  BY DEF AddSteps
<1> HIDE DEF s
<1>2. /\ s[1].do = "insert" /\ s[1].event = "updated" /\ s[1].id = i /\ s[1].row = {r}
      /\ s[2].do = "log" /\ s[2].event = "created"
  BY <1>1, InsertFields, LogFields
<1>3. \A k \in 1 .. Len(s) : k = 1 \/ k = 2
  BY <1>1
<1>4. \A k \in 1 .. Len(s) : Reported(s, k)
  BY <1>1, <1>2, <1>3 DEF Reported
<1>5. Unapproved(s) /\ \A k \in 1 .. Len(s) : Approving(s, k)
  BY <1>2, <1>3 DEF Unapproved, Approving
<1>6. \A k \in 1 .. Len(s) : k > 1 => Follows(s[k - 1], s[k])
  BY <1>2, <1>3 DEF Follows
<1>7. QED
  BY <1>1, <1>4, <1>5, <1>6 DEF Shaped, s

LEMMA SupersedeShaped ==
  ASSUME NEW old \in Nat, NEW new \in Nat, 1 <= old, old < new, NEW r, FreshRow(r)
  PROVE  LET s == SupersedeSteps(old, new, r) IN
         Shaped(s) /\ Unapproved(s) /\ s[1].do = "get" /\ Len(s) = 6
<1> DEFINE e == [ToStatus("superseded") EXCEPT !.link = {new}]
           q == [r EXCEPT !.status = "pending"]
           x == UpdateSteps(old, e)
           y == AddSteps(new, q)
           z == <<Log("superseded", old)>>
           s == x \o y \o z
<1>1. {"superseded", "pending"} \subseteq Status /\ "superseded" \in Events
  BY DEF Status, Events
<1>2. ToStatus("superseded") \in Edit /\ ToStatus("superseded").content = {}
  BY <1>1, NoEditOK DEF ToStatus, Edit
<1>3. e \in Edit /\ e.content = {} /\ e.link = {new}
  BY <1>2 DEF Edit
<1>4. EditOK(old, e, new + 1)
  BY <1>3 DEF EditOK
<1>5. FreshRow(q) /\ q.status = "pending"
  BY <1>1 DEF FreshRow, Row
<1> HIDE DEF e, q
<1>6. StepsOK(x, new + 1) /\ StepsOK(y, new + 1) /\ StepsOK(z, new + 1)
  BY <1>1, <1>4, <1>5, UpdateOK, AddOK, LogOK
<1>7. x \in Seq(Step) /\ y \in Seq(Step) /\ z \in Seq(Step)
  BY <1>6 DEF StepsOK
<1>8. Len(x) = 3 /\ x[1] = Get(old) /\ x[2] = Put(old, e) /\ x[3] = Log("updated", old)
  BY <1>7, UpdateParts
<1>9. Len(y) = 2 /\ y[1] = Insert(new, q) /\ y[2] = Log("created", new)
  BY <1>5, <1>7, AddShaped
<1>10. Len(z) = 1 /\ z[1] = Log("superseded", old)
  OBVIOUS
<1> HIDE DEF x, y, z
<1>11. /\ s \in Seq(Step) /\ Len(s) = 6
       /\ s[1] = Get(old) /\ s[2] = Put(old, e) /\ s[3] = Log("updated", old)
       /\ s[4] = Insert(new, q) /\ s[5] = Log("created", new) /\ s[6] = Log("superseded", old)
  BY <1>7, <1>8, <1>9, <1>10, JoinThree
<1> HIDE DEF s
<1>12. /\ s[1].do = "get" /\ s[1].event = "updated" /\ s[1].id = old
       /\ s[2].do = "put" /\ s[2].event = "updated" /\ s[2].id = old /\ s[2].edit.link = {new}
       /\ s[3].do = "log" /\ s[3].event = "updated"
       /\ s[4].do = "insert" /\ s[4].event = "updated" /\ s[4].id = new
       /\ \A row \in s[4].row : row.status = "pending"
       /\ s[5].do = "log" /\ s[5].event = "created"
       /\ s[6].do = "log" /\ s[6].event = "superseded"
  BY <1>3, <1>5, <1>11, StepFields, LogFields, InsertFields
<1>13. \A k \in 1 .. Len(s) : k = 1 \/ k = 2 \/ k = 3 \/ k = 4 \/ k = 5 \/ k = 6
  BY <1>11
<1>14. Reported(s, 1) /\ Reported(s, 2) /\ Reported(s, 3) /\ Reported(s, 4) /\ Reported(s, 5)
       /\ Reported(s, 6)
  BY <1>11, <1>12 DEF Reported
<1>15. Unapproved(s) /\ \A k \in 1 .. Len(s) : Approving(s, k)
  BY <1>12, <1>13 DEF Unapproved, Approving
<1>16. Follows(s[1], s[2]) /\ Follows(s[2], s[3]) /\ Follows(s[3], s[4]) /\ Follows(s[4], s[5])
       /\ Follows(s[5], s[6])
  BY <1>12 DEF Follows
<1>17. ASSUME NEW k \in 1 .. Len(s)
       PROVE  Reported(s, k) /\ Approving(s, k) /\ (k > 1 => Follows(s[k - 1], s[k]))
  BY <1>13, <1>14, <1>15, <1>16
<1>18. Shaped(s)
  BY <1>11, <1>17 DEF Shaped
<1>19. s = SupersedeSteps(old, new, r)
  BY DEF s, x, y, z, e, q, SupersedeSteps
<1>20. QED
  BY <1>11, <1>12, <1>15, <1>18, <1>19

\* Calls of one step, and of two that are not writes.
LEMMA SingleShaped ==
  ASSUME NEW a \in Step, a.do \notin {"put", "insert"}, a.event # "approved"
  PROVE  Shaped(<<a>>) /\ Unapproved(<<a>>)
<1> DEFINE s == <<a>>
<1>1. s \in Seq(Step) /\ Len(s) = 1 /\ s[1] = a
  OBVIOUS
<1> HIDE DEF s
<1>2. \A k \in 1 .. Len(s) : k = 1
  BY <1>1
<1>3. QED
  BY <1>1, <1>2 DEF Shaped, Reported, Approving, Unapproved, s

LEMMA PairShaped ==
  ASSUME NEW a \in Step, NEW b \in Step, a.do \notin {"put", "insert", "patch", "delete_picked"},
         b.do \notin {"put", "insert"}, a.event # "approved", b.event # "approved", Follows(a, b)
  PROVE  Shaped(<<a, b>>) /\ Unapproved(<<a, b>>)
<1> DEFINE s == <<a, b>>
<1>1. s \in Seq(Step) /\ Len(s) = 2 /\ s[1] = a /\ s[2] = b
  OBVIOUS
<1> HIDE DEF s
<1>2. \A k \in 1 .. Len(s) : k = 1 \/ k = 2
  BY <1>1
<1>3. \A k \in 1 .. Len(s) : Reported(s, k) /\ Approving(s, k)
  BY <1>1, <1>2 DEF Reported, Approving
<1>4. \A k \in 1 .. Len(s) : k > 1 => Follows(s[k - 1], s[k])
  BY <1>1, <1>2
<1>5. Unapproved(s)
  BY <1>1, <1>2 DEF Unapproved
<1>6. QED
  BY <1>1, <1>3, <1>4, <1>5 DEF Shaped, s

LEMMA PatchShaped ==
  ASSUME NEW n \in Nat, NEW i \in Nat, i < n, NEW e, EditOK(i, e, n), e.link = {}, NEW status
  PROVE  LET p == PatchSteps(i, e, status) IN
         /\ Shaped(p) /\ (p # <<>> => Head(p).do = "get")
         /\ \A k \in 1 .. Len(p) : p[k].event = "approved" => p[k].id = i /\ status = "pending"
<1> DEFINE rest == IF e.status = {"active"} /\ status \in {"pending", "active"}
                   THEN [e EXCEPT !.status = {}] ELSE e
           approves == e.status = {"active"} /\ status = "pending"
           first == IF approves THEN ApproveSteps(i) ELSE <<>>
           then == IF rest = NoEdit THEN <<>> ELSE UpdateSteps(i, rest)
           p == first \o then
<1>1. EditOK(i, rest, n) /\ rest.link = {}
  BY DEF EditOK, Edit
<1> HIDE DEF rest
<1>2. Shaped(then) /\ Unapproved(then) /\ (then # <<>> => then[1].do = "get")
  <2>1. UpdateSteps(i, rest) \in Seq(Step)
    BY <1>1, UpdateOK DEF StepsOK
  <2>2. Shaped(UpdateSteps(i, rest)) /\ Unapproved(UpdateSteps(i, rest)) /\ UpdateSteps(i, rest)[1].do = "get"
    BY <1>1, <2>1, UpdateShaped
  <2>3. Unapproved(<<>>)
    BY DEF Unapproved
  <2>4. QED
    BY <2>2, <2>3, ShapedNone
<1>3. /\ Shaped(first) /\ (first # <<>> => first[1].do = "get" /\ first[Len(first)].do = "log")
      /\ \A k \in 1 .. Len(first) : first[k].event = "approved" => first[k].id = i /\ approves
  <2>1. CASE approves
    <3>1. "active" \in Status /\ "approved" \in Events
      BY DEF Status, Events
    <3>2. UpdateSteps(i, ToStatus("active")) \in Seq(Step) /\ <<Log("approved", i)>> \in Seq(Step)
      BY <3>1, ToStatusOK, UpdateOK, LogOK DEF StepsOK
    <3>3. PICK s : s = UpdateSteps(i, ToStatus("active")) \o <<Log("approved", i)>>
      OBVIOUS
    <3>4. /\ Shaped(s) /\ s[1].do = "get" /\ Len(s) = 4 /\ s[4].do = "log"
          /\ \A k \in 1 .. 4 : s[k].event = "approved" => s[k].id = i
      <4>1. StatusSteps(s, i, "active", "approved")
        BY <3>2, <3>3 DEF StatusSteps
      <4>2. QED
        BY <4>1, StatusShaped
    <3>5. s = ApproveSteps(i)
      BY <3>3 DEF ApproveSteps
    <3>6. QED
      BY <2>1, <3>4, <3>5
  <2>2. CASE ~approves
    BY <2>2, ShapedNone
  <2>3. QED
    BY <2>1, <2>2
<1>4. PatchSteps(i, e, status) = p
  BY DEF PatchSteps, rest
<1> HIDE DEF first, then
<1>5. first \in Seq(Step) /\ then \in Seq(Step) /\ Len(first) \in Nat /\ Len(then) \in Nat
  BY <1>2, <1>3, LenProperties DEF Shaped
<1>6. /\ p \in Seq(Step) /\ Len(p) = Len(first) + Len(then)
      /\ \A k \in 1 .. Len(first) + Len(then) : p[k] = IF k <= Len(first) THEN first[k] ELSE then[k - Len(first)]
  BY <1>5, ConcatProperties, Zenon
<1>7. Shaped(p)
  BY <1>2, <1>3, JoinShaped
<1> HIDE DEF p
<1>8. p # <<>> => Head(p).do = "get"
  <2> SUFFICES ASSUME p # <<>> PROVE Head(p).do = "get"
    OBVIOUS
  <2>1. Head(p) = p[1] /\ 1 \in 1 .. Len(first) + Len(then)
    BY <1>5, <1>6, EmptySeq
  <2>2. CASE first # <<>>
    <3>1. 1 <= Len(first)
      BY <1>5, <2>2, EmptySeq
    <3>2. QED
      BY <1>3, <1>6, <2>1, <2>2, <3>1
  <2>3. CASE first = <<>>
    <3>1. Len(first) = 0
      BY <2>3
    <3>2. then # <<>> /\ p[1] = then[1]
      BY <1>5, <1>6, <2>1, <3>1
    <3>3. QED
      BY <1>2, <2>1, <3>2
  <2>4. QED
    BY <2>2, <2>3
<1>9. ASSUME NEW k \in 1 .. Len(p), p[k].event = "approved" PROVE p[k].id = i /\ status = "pending"
  <2>1. CASE k <= Len(first)
    <3>1. k \in 1 .. Len(first) /\ p[k] = first[k]
      BY <1>5, <1>6, <2>1
    <3>2. QED
      BY <1>3, <1>9, <3>1
  <2>2. CASE ~(k <= Len(first))
    <3>1. k - Len(first) \in 1 .. Len(then) /\ p[k] = then[k - Len(first)]
      BY <1>5, <1>6, <2>2
    <3>2. QED
      BY <1>2, <1>9, <3>1 DEF Unapproved
  <2>3. QED
    BY <2>1, <2>2
<1>10. QED
  BY <1>4, <1>7, <1>8, <1>9

------------------------------------------------------------------------------
(* The steps of a call, one by one. *)

\* The table has the rows and links it had.
SameLinks ==
  /\ DOMAIN rows' = DOMAIN rows
  /\ \A i \in DOMAIN rows : rows'[i].link = rows[i].link

\* The process has read no tail for an append.
LEMMA QuietLog ==
  ASSUME NEW t \in Threads, SerialInv(t), ~Doing(t, "log"), tail'[t] = tail[t]
  PROVE  LogSerial(t)'
BY DEF SerialInv, LogSerial, Audit!Appending

\* A step that neither commits nor reports.
LEMMA QuietStep ==
  ASSUME NEW t \in Threads, SerialInv(t), Idle(t) \/ This(t).do \notin {"log", "insert"},
         UNCHANGED <<backup, auditVars, unlogged>>, SameLinks
  PROVE  LoggedSoon(t)' /\ LinkedSoon(t)' /\ BackedUp' /\ LogSerial(t)'
<1>1. unlogged' = {} /\ Whole(rows, log)
  BY AtRest
<1>2. log' = log /\ tail' = tail /\ image' = image /\ backup' = backup
  BY DEF auditVars
<1>3. Whole(rows', log')
  BY <1>1, <1>2 DEF Whole, SameLinks
<1>4. BackedUp'
  BY <1>2 DEF SerialInv, BackedUp
<1>5. LogSerial(t)'
  BY <1>2, QuietLog DEF Doing, This
<1>6. QED
  BY <1>1, <1>3, <1>4, <1>5, StaysRestful

LEMMA PatchSerial ==
  ASSUME StoreInv, NEW t \in Threads, SerialInv(t), StepPatch(t)
  PROVE  SerialInv(t)'
<1> DEFINE i == This(t).id
           e == This(t).edit
<1>1. /\ ~Idle(t) /\ This(t).do = "patch" /\ SameLinks
      /\ UNCHANGED <<backup, auditVars, unlogged, answer, rows>>
  BY DEF StepPatch, Doing, This, dbVars, SameLinks
<1>2. LoggedSoon(t)' /\ LinkedSoon(t)' /\ BackedUp' /\ LogSerial(t)' /\ AnsweredActive(t)'
  BY <1>1, QuietStep DEF SerialInv, AnsweredActive
<1>3. CASE Raises(t)
  BY <1>2, <1>3, RaisesTo, StopsPrepared DEF SerialInv
<1>4. CASE i \in DOMAIN rows /\ Goes(t, PatchSteps(i, e, rows[i].status))
  <2> DEFINE p == PatchSteps(i, e, rows[i].status)
  <2>1. i \in Nat /\ i < nextId /\ EditOK(i, e, nextId) /\ e.link = {} /\ nextId \in Nat
    BY <1>1, NextStep, TypedFacts DEF StepOK, Step
  <2>2. /\ Shaped(p) /\ (p # <<>> => Head(p).do = "get")
        /\ \A k \in 1 .. Len(p) : p[k].event = "approved" => p[k].id = i /\ rows[i].status = "pending"
    BY <2>1, PatchShaped
  <2>3. todo'[t] = p \o Tail(todo[t])
    BY <1>1, <1>4, <2>1, GoesTo, PatchOK
  <2>4. Tail(todo[t]) = <<>>
    <3>1. Shaped(todo[t]) /\ todo[t] # <<>>
      BY <1>1 DEF SerialInv, Prepared, Idle
    <3>2. Head(todo[t]) = todo[t][1] /\ Len(todo[t]) \in Nat \ {0} /\ Len(Tail(todo[t])) = Len(todo[t]) - 1
          /\ Shaped(Tail(todo[t]))
      BY <3>1, ShapedTail
    <3>3. Reported(todo[t], 1)
      BY <3>1, <3>2 DEF Shaped
    <3>4. Len(Tail(todo[t])) = 0
      BY <1>1, <3>2, <3>3 DEF Reported, This
    <3>5. QED
      BY <3>2, <3>4, EmptySeq DEF Shaped
  <2> HIDE DEF p
  <2>5. todo'[t] = p
    BY <2>2, <2>3, <2>4, ConcatEmptySeq DEF Shaped
  <2>6. Prepared(t)'
    <3>1. Opens(todo'[t]) /\ Shaped(todo'[t])
      BY <2>2, <2>5 DEF Opens
    <3>2. AddedUnlinked(t)'
      BY <2>2, <2>5 DEF AddedUnlinked, Doing, Idle
    <3>3. ApprovedPending(t)'
      BY <1>1, <2>2, <2>5 DEF ApprovedPending
    <3>4. QED
      BY <3>1, <3>2, <3>3, BeginsPrepared
  <2>7. QED
    BY <1>2, <2>6 DEF SerialInv
<1>5. QED
  BY <1>3, <1>4 DEF StepPatch

LEMMA GetSerial ==
  ASSUME StoreInv, NEW t \in Threads, SerialInv(t), StepGet(t)
  PROVE  SerialInv(t)'
<1> DEFINE i == This(t).id
<1>1. /\ ~Idle(t) /\ This(t).do = "get" /\ SameLinks /\ SameStatus
      /\ UNCHANGED <<backup, auditVars, unlogged, answer, rows>>
  BY DEF StepGet, Doing, This, dbVars, SameLinks, SameStatus
<1>2. LoggedSoon(t)' /\ LinkedSoon(t)' /\ BackedUp' /\ LogSerial(t)' /\ AnsweredActive(t)'
  BY <1>1, QuietStep DEF SerialInv, AnsweredActive
<1>3. CASE Raises(t)
  BY <1>2, <1>3, RaisesTo, StopsPrepared DEF SerialInv
<1>4. CASE i \in DOMAIN rows /\ snap' = [snap EXCEPT ![t] = {rows[i]}] /\ Proceeds(t)
  <2>1. todo'[t] = Tail(todo[t])
    BY <1>1, <1>4, ProceedsTo
  <2>2. snap'[t] = {rows[i]}
    BY <1>4 DEF StoreInv, Typed
  <2>3. This(t)'.id = i
    BY <1>1, <2>1, NextStep DEF This
  <2>4. HoldsCurrent(t)'
    BY <1>1, <2>2, <2>3 DEF HoldsCurrent
  <2>5. Prepared(t)'
    BY <1>1, <2>1, <2>4, SameApprovals, MovesPrepared DEF SerialInv
  <2>6. QED
    BY <1>2, <2>5 DEF SerialInv
<1>5. QED
  BY <1>3, <1>4 DEF StepGet

\* The UPDATE of a row, as the table shows it.
LEMMA PutRow ==
  ASSUME StoreInv, NEW t \in Threads, Doing(t, "put"), This(t).id \in DOMAIN rows,
         NEW record \in snap[t], rows' = SetRow(This(t).id, Rewritten(This(t).id, record, This(t).edit))
  PROVE  /\ DOMAIN rows' = DOMAIN rows
         /\ \A j \in DOMAIN rows : j # This(t).id => rows'[j] = rows[j]
         /\ rows'[This(t).id].status = Given(This(t).edit.status, record.status)
         /\ rows'[This(t).id].link = (IF This(t).edit.link = {} THEN record.link ELSE This(t).edit.link)
<1> DEFINE i == This(t).id
           e == This(t).edit
           r == Rewritten(i, record, e)
<1>1. e \in Edit
  BY NextStep DEF Doing, StepOK, EditOK
<1>2. record \in Row /\ rows[i] \in Row
  BY TypedFacts DEF StoreInv, Typed
<1>3. /\ r.status = Given(e.status, record.status)
      /\ r.link = (IF e.link = {} THEN record.link ELSE e.link)
  BY <1>1, <1>2, PatchedRow, RewrittenRow
<1> HIDE DEF r
<1>4. /\ DOMAIN rows' = DOMAIN rows /\ rows'[i] = r
      /\ \A j \in DOMAIN rows : j # i => rows'[j] = rows[j]
  BY DEF SetRow, r
<1>5. QED
  BY <1>3, <1>4

LEMMA PutSerial ==
  ASSUME StoreInv, NEW t \in Threads, SerialInv(t), StepPut(t)
  PROVE  SerialInv(t)'
<1> DEFINE i == This(t).id
           e == This(t).edit
           s == todo[t]
<1>1. /\ ~Idle(t) /\ Doing(t, "put") /\ This(t).do = "put" /\ s # <<>> /\ Head(s) = This(t)
      /\ UNCHANGED <<backup, auditVars, answer>>
  BY DEF StepPut, Doing, This, Idle
<1>2. unlogged = {} /\ Whole(rows, log)
  BY <1>1, AtRest
<1>3. log' = log /\ tail' = tail /\ image' = image /\ backup' = backup /\ answer' = answer
  BY <1>1 DEF auditVars
<1>4. BackedUp' /\ AnsweredActive(t)' /\ LogSerial(t)'
  BY <1>1, <1>3, QuietLog DEF SerialInv, BackedUp, AnsweredActive, Doing, This
<1>5. CASE Raises(t) /\ UNCHANGED <<rows, unlogged>>
  <2>1. Prepared(t)'
    BY <1>5, RaisesTo, StopsPrepared
  <2>2. LoggedSoon(t)' /\ LinkedSoon(t)'
    BY <1>2, <1>3, <1>5, StaysRestful
  <2>3. QED
    BY <1>4, <2>1, <2>2 DEF SerialInv
<1>6. CASE Proceeds(t) /\ UNCHANGED <<rows, unlogged>>
  <2>1. todo'[t] = Tail(s) /\ SameStatus
    BY <1>1, <1>6, ProceedsTo DEF SameStatus
  <2>2. Prepared(t)'
    BY <1>1, <2>1, SameApprovals, MovesPrepared DEF SerialInv
  <2>3. LoggedSoon(t)' /\ LinkedSoon(t)'
    BY <1>2, <1>3, <1>6, StaysRestful
  <2>4. QED
    BY <1>4, <2>2, <2>3 DEF SerialInv
<1>7. ASSUME NEW record \in snap[t], i \in DOMAIN rows,
             rows' = SetRow(i, Rewritten(i, record, e)),
             Committed(t, "updated", i), Proceeds(t)
      PROVE  SerialInv(t)'
  <2>1. todo'[t] = Tail(s)
    BY <1>1, <1>7, ProceedsTo
  <2>2. /\ DOMAIN rows' = DOMAIN rows
        /\ \A j \in DOMAIN rows : j # i => rows'[j] = rows[j]
        /\ rows'[i].status = Given(e.status, record.status)
        /\ rows'[i].link = (IF e.link = {} THEN record.link ELSE e.link)
    BY <1>1, <1>7, PutRow
  <2>3. record.status = rows[i].status /\ record.link = rows[i].link
    BY <1>1, <1>7 DEF SerialInv, Prepared, HoldsCurrent
  <2>4. Shaped(s)
    BY DEF SerialInv, Prepared
  <2>5. /\ Shaped(Tail(s)) /\ Head(s) = s[1] /\ Len(s) \in Nat \ {0}
        /\ Len(Tail(s)) = Len(s) - 1
        /\ \A k \in 1 .. Len(Tail(s)) : Tail(s)[k] = s[k + 1]
    BY <1>1, <2>4, ShapedTail
  <2>6. Reported(s, 1)
    BY <2>4, <2>5 DEF Shaped
  <2>7. /\ 1 < Len(s) /\ s[2] = Log("updated", i)
        /\ \A j \in e.link : 2 < Len(s) /\ s[3].do = "insert" /\ s[3].id = j
    BY <1>1, <2>5, <2>6 DEF Reported
  <2>8. Soon(Tail(s), 1) /\ Tail(s)[1] = Log("updated", i) /\ 1 \in 1 .. Len(Tail(s))
    BY <2>5, <2>7 DEF Soon
  <2>9. \A j \in e.link : 2 \in 1 .. Len(Tail(s)) /\ Soon(Tail(s), 2) /\ Tail(s)[2].do = "insert"
                          /\ Tail(s)[2].id = j
    BY <2>5, <2>7, <2>8, LogFields DEF Soon
  <2>10. LoggedSoon(t)'
    BY <1>2, <1>7, <2>1, <2>8 DEF Committed, LoggedSoon
  <2>11. LinkedSoon(t)'
    <3> SUFFICES ASSUME NEW h \in DOMAIN rows', NEW j \in rows'[h].link
                 PROVE  j \in DOMAIN rows' \/ PurgedIn(log', j) \/ Due(todo'[t], j)
      BY DEF LinkedSoon
    <3>1. CASE j \in rows[h].link
      BY <1>2, <1>3, <2>2, <3>1 DEF Whole
    <3>2. CASE j \notin rows[h].link
      <4>1. h = i /\ j \in e.link
        BY <2>2, <2>3, <3>2
      <4>2. Due(Tail(s), j)
        BY <2>9, <4>1 DEF Due
      <4>3. QED
        BY <2>1, <4>2
    <3>3. QED
      BY <3>1, <3>2
  <2>12. ASSUME NEW k \in 1 .. Len(todo'[t]), todo'[t][k].event = "approved",
                todo'[t][k].id \in DOMAIN rows'
         PROVE  rows'[todo'[t][k].id].status \in {"pending", "active"}
    <3> DEFINE h == todo'[t][k].id
    <3>1. /\ k \in 1 .. Len(Tail(s)) /\ k + 1 \in 1 .. Len(s) /\ 1 \in 1 .. (k + 1) - 1
          /\ todo'[t][k] = s[k + 1]
      BY <2>1, <2>5, <2>12
    <3>2. CASE h = i
      <4>1. Approving(s, k + 1)
        BY <2>4, <3>1 DEF Shaped
      <4>2. s[1].edit.status = {"active"}
        BY <1>1, <2>5, <2>12, <3>1, <4>1 DEF Approving
      <4>3. e.status = {"active"}
        BY <1>1, <2>5, <4>2
      <4>4. Given(e.status, record.status) = "active"
        BY <4>3 DEF Given
      <4>5. QED
        BY <2>2, <3>2, <4>4
    <3>3. CASE h # i
      BY <2>2, <2>12, <3>1, <3>3 DEF SerialInv, Prepared, ApprovedPending
    <3>4. QED
      BY <3>2, <3>3
  <2>13. Prepared(t)'
    BY <1>1, <2>1, <2>12, MovesPrepared DEF SerialInv
  <2>14. QED
    BY <1>4, <2>10, <2>11, <2>13 DEF SerialInv
<1>8. PICK record \in snap[t] :
        \/ /\ i \in DOMAIN rows
           /\ rows' = SetRow(i, Rewritten(i, record, e))
           /\ Committed(t, "updated", i)
           /\ Proceeds(t)
        \/ Raises(t) /\ UNCHANGED <<rows, unlogged>>
        \/ Proceeds(t) /\ UNCHANGED <<rows, unlogged>>
  BY DEF StepPut
<1>9. QED
  BY <1>5, <1>6, <1>7, <1>8

\* What is not a secret is inserted, unless an active row has its text.
LEMMA InsertSerial ==
  ASSUME StoreInv, NEW t \in Threads, SerialInv(t), StepInsert(t), Secrets = {}
  PROVE  SerialInv(t)'
<1> DEFINE i == This(t).id
           s == todo[t]
<1>1. /\ ~Idle(t) /\ Doing(t, "insert") /\ This(t).do = "insert" /\ s # <<>> /\ Head(s) = This(t)
      /\ UNCHANGED <<backup, auditVars, answer>>
  BY DEF StepInsert, Doing, This, Idle
<1>2. log' = log /\ tail' = tail /\ image' = image /\ backup' = backup /\ answer' = answer
  BY <1>1 DEF auditVars
<1>3. BackedUp' /\ AnsweredActive(t)' /\ LogSerial(t)'
  BY <1>1, <1>2, QuietLog DEF SerialInv, BackedUp, AnsweredActive, Doing, This
<1>4. Shaped(s)
  BY DEF SerialInv, Prepared
<1>5. /\ Shaped(Tail(s)) /\ Head(s) = s[1] /\ Len(s) \in Nat \ {0}
      /\ Len(Tail(s)) = Len(s) - 1
      /\ \A k \in 1 .. Len(Tail(s)) : Tail(s)[k] = s[k + 1]
  BY <1>1, <1>4, ShapedTail
<1>6. ASSUME NEW k \in 1 .. Len(s), Soon(s, k) PROVE k = 1 /\ s[k] = This(t)
  BY <1>1, <1>4, <1>6, SoonTail
<1>7. unlogged = {}
  <2> SUFFICES ASSUME NEW u \in unlogged PROVE FALSE
    OBVIOUS
  <2>1. PICK k \in 1 .. Len(s) : Soon(s, k) /\ s[k] = Log(u[2], u[3])
    BY DEF SerialInv, LoggedSoon
  <2>2. QED
    BY <1>1, <1>6, <2>1, LogFields
<1>8. \A j : Due(s, j) => j = i
  <2> SUFFICES ASSUME NEW j, NEW k \in 1 .. Len(s), Soon(s, k),
                      s[k] = Log("purged", j) \/ (s[k].do = "insert" /\ s[k].id = j)
               PROVE  j = i
    BY DEF Due
  <2>1. QED
    BY <1>1, <1>6, LogFields
<1>9. \A h \in DOMAIN rows : \A j \in rows[h].link : j \in DOMAIN rows \/ PurgedIn(log, j) \/ j = i
  BY <1>8 DEF SerialInv, LinkedSoon
<1>10. PICK row \in This(t).row :
         \/ /\ IndexRefuses(i, row) \/ i \in DOMAIN rows
            /\ Raises(t)
            /\ UNCHANGED <<rows, unlogged>>
         \/ /\ i \notin DOMAIN rows
            /\ rows' = SetRow(i, row)
            /\ Committed(t, "created", i)
            /\ Proceeds(t)
  BY DEF StepInsert, Unsafe
<1>11. CASE /\ IndexRefuses(i, row) \/ i \in DOMAIN rows
            /\ Raises(t)
            /\ UNCHANGED <<rows, unlogged>>
  <2>1. Prepared(t)'
    BY <1>11, RaisesTo, StopsPrepared
  <2>2. Whole(rows, log)
    <3>1. CASE i \in DOMAIN rows
      BY <1>9, <3>1 DEF Whole
    <3>2. CASE IndexRefuses(i, row)
      <4>1. row.status # "pending"
        BY <3>2 DEF IndexRefuses
      <4>2. \A h \in DOMAIN rows : i \notin rows[h].link
        BY <1>1, <4>1 DEF SerialInv, Prepared, AddedUnlinked
      <4>3. QED
        BY <1>9, <4>2 DEF Whole
    <3>3. QED
      BY <1>11, <3>1, <3>2
  <2>3. LoggedSoon(t)' /\ LinkedSoon(t)'
    BY <1>2, <1>7, <1>11, <2>2, StaysRestful
  <2>4. QED
    BY <1>3, <2>1, <2>3 DEF SerialInv
<1>12. CASE /\ i \notin DOMAIN rows
            /\ rows' = SetRow(i, row)
            /\ Committed(t, "created", i)
            /\ Proceeds(t)
  <2>1. todo'[t] = Tail(s)
    BY <1>1, <1>12, ProceedsTo
  <2>2. /\ DOMAIN rows' = DOMAIN rows \cup {i} /\ rows'[i] = row
        /\ \A j \in DOMAIN rows : rows'[j] = rows[j]
    BY <1>12 DEF SetRow
  <2>3. row.link = {}
    BY <1>1, NextStep DEF StepOK
  <2>4. Reported(s, 1)
    BY <1>4, <1>5 DEF Shaped
  <2>5. 1 < Len(s) /\ s[2] = Log("created", i)
    BY <1>1, <1>5, <2>4 DEF Reported
  <2>6. Soon(Tail(s), 1) /\ Tail(s)[1] = Log("created", i) /\ 1 \in 1 .. Len(Tail(s))
    BY <1>5, <2>5 DEF Soon
  <2>7. LoggedSoon(t)'
    BY <1>7, <1>12, <2>1, <2>6 DEF Committed, LoggedSoon
  <2>8. LinkedSoon(t)'
    BY <1>2, <1>9, <2>2, <2>3 DEF LinkedSoon
  <2>9. \A k \in 1 .. Len(Tail(s)) : Tail(s)[k].event # "approved"
    BY <1>1, NoApprovals DEF SerialInv
  <2>10. Prepared(t)'
    BY <1>1, <2>1, <2>9, MovesPrepared DEF SerialInv
  <2>11. QED
    BY <1>3, <2>7, <2>8, <2>10 DEF SerialInv
<1>13. QED
  BY <1>10, <1>11, <1>12

LEMMA NewestSeq ==
  ASSUME NEW n \in Nat, DOMAIN log = 1 .. n
  PROVE  Audit!LastRow(log).seq = n
<1>1. CASE n = 0
  BY <1>1 DEF Audit!LastRow, Audit!EmptyTail
<1>2. CASE n # 0
  <2>1. Audit!Newest(log) = n
    BY <1>2 DEF Audit!Newest
  <2>2. n \in DOMAIN log
    BY <1>2
  <2>3. DOMAIN log # {}
    BY <2>2
  <2>4. QED
    BY <2>1, <2>3 DEF Audit!LastRow
<1>3. QED
  BY <1>1, <1>2

\* What depends on the steps left, the table and what is held stays with them.
LEMMA SamePrepared ==
  ASSUME NEW t \in Threads, Prepared(t), UNCHANGED <<todo, rows, snap, picked>>
  PROVE  Prepared(t)'
BY DEF Prepared, HoldsCurrent, PicksCurrent, ApprovedPending, AddedUnlinked, Doing, Idle, This

\* An append reads the newest row: the seq after it is free, and stays so.
LEMMA LogReadSerial ==
  ASSUME NEW t \in Threads, SerialInv(t), TailsAreFunction, AP!Numbered, StepLogRead(t)
  PROVE  SerialInv(t)'
<1>1. /\ Doing(t, "log") /\ tail' = [tail EXCEPT ![t] = Audit!LastRow(log)]
      /\ rows' = rows /\ backup' = backup /\ todo' = todo /\ snap' = snap /\ picked' = picked
      /\ answer' = answer /\ unlogged' = unlogged /\ log' = log /\ image' = image
  BY DEF StepLogRead, Audit!ReadTail, dbVars, threadVars
<1>2. PICK n \in Nat : DOMAIN log = 1 .. n
  BY DEF AP!Numbered
<1>3. tail'[t] = Audit!LastRow(log)
  BY <1>1 DEF TailsAreFunction
<1>4. tail'[t].seq + 1 \notin DOMAIN log'
  BY <1>1, <1>2, <1>3, NewestSeq
<1>5. LogSerial(t)'
  BY <1>1, <1>4 DEF LogSerial, Doing, Idle
<1>6. LoggedSoon(t)' /\ LinkedSoon(t)' /\ BackedUp' /\ AnsweredActive(t)'
  BY <1>1 DEF SerialInv, LoggedSoon, LinkedSoon, BackedUp, AnsweredActive
<1>7. Prepared(t)'
  BY <1>1, SamePrepared DEF SerialInv
<1>8. QED
  BY <1>5, <1>6, <1>7 DEF SerialInv

\* The primary key refuses nothing, and the report that is due is made.
LEMMA LogInsertSerial ==
  ASSUME StoreInv, NEW t \in Threads, SerialInv(t), TailsAreFunction, StepLogInsert(t)
  PROVE  SerialInv(t)'
<1> DEFINE s == todo[t]
           n == tail[t].seq + 1
<1>1. /\ ~Idle(t) /\ Doing(t, "log") /\ This(t).do = "log" /\ s # <<>> /\ Head(s) = This(t)
      /\ rows' = rows /\ backup' = backup /\ snap' = snap /\ picked' = picked /\ answer' = answer
  BY DEF StepLogInsert, Doing, This, Idle, dbVars
<1>2. ~Audit!RejectDuplicateSeq(t)
  BY DEF SerialInv, LogSerial, Audit!RejectDuplicateSeq
<1>3. /\ Audit!InsertRow(t, Entry(t)) /\ unlogged' = unlogged \ {<<t, This(t).event, This(t).id>>}
      /\ Proceeds(t)
  BY <1>2 DEF StepLogInsert
<1>4. /\ todo'[t] = Tail(s) /\ SameStatus
  BY <1>1, <1>3, ProceedsTo DEF SameStatus
<1>5. /\ DOMAIN log' = DOMAIN log \cup {n} /\ log'[n].entry = Entry(t)
      /\ \A r \in DOMAIN log : log'[r] = log[r]
      /\ image' = image /\ tail' = [tail EXCEPT ![t] = Audit!NoTail]
  BY <1>3 DEF Audit!InsertRow, Audit!Inserted, Audit!Row
<1>6. LogSerial(t)'
  <2>1. tail'[t] = Audit!NoTail
    BY <1>5 DEF TailsAreFunction
  <2>2. QED
    BY <2>1 DEF LogSerial, Audit!Appending
<1>7. /\ \A j : PurgedIn(log, j) => PurgedIn(log', j)
      /\ \A j : This(t) = Log("purged", j) => PurgedIn(log', j)
  <2>1. \A j : PurgedIn(log, j) => PurgedIn(log', j)
    BY <1>5 DEF PurgedIn
  <2>2. ASSUME NEW j, This(t) = Log("purged", j) PROVE PurgedIn(log', j)
    <3>1. Entry(t) = [event |-> "purged", id |-> j]
      BY <2>2, LogFields DEF Entry
    <3>2. QED
      BY <1>5, <3>1 DEF PurgedIn
  <2>3. QED
    BY <2>1, <2>2
<1>8. Shaped(s)
  BY DEF SerialInv, Prepared
<1>9. ASSUME NEW k \in 1 .. Len(s), Soon(s, k), s[k] # This(t)
      PROVE  k - 1 \in 1 .. Len(Tail(s)) /\ Soon(Tail(s), k - 1) /\ Tail(s)[k - 1] = s[k]
  BY <1>1, <1>8, <1>9, SoonTail
<1>10. LoggedSoon(t)'
  <2> SUFFICES ASSUME NEW u \in unlogged'
               PROVE  /\ u[1] = t
                      /\ \E k \in 1 .. Len(Tail(s)) : Soon(Tail(s), k) /\ Tail(s)[k] = Log(u[2], u[3])
    BY <1>4 DEF LoggedSoon
  <2>1. u \in unlogged /\ u # <<t, This(t).event, This(t).id>>
    BY <1>3
  <2>2. PICK k \in 1 .. Len(s) : u[1] = t /\ Soon(s, k) /\ s[k] = Log(u[2], u[3])
    BY <2>1 DEF SerialInv, LoggedSoon
  <2>3. u = <<u[1], u[2], u[3]>>
    BY <2>1 DEF StoreInv, Typed
  <2>4. s[k] # This(t)
    BY <2>1, <2>2, <2>3, LogFields
  <2>5. QED
    BY <1>9, <2>2, <2>4
<1>11. LinkedSoon(t)'
  <2> SUFFICES ASSUME NEW h \in DOMAIN rows, NEW j \in rows[h].link
               PROVE  j \in DOMAIN rows \/ PurgedIn(log', j) \/ Due(Tail(s), j)
    BY <1>1, <1>4 DEF LinkedSoon
  <2>1. j \in DOMAIN rows \/ PurgedIn(log, j) \/ Due(s, j)
    BY DEF SerialInv, LinkedSoon
  <2>2. ASSUME Due(s, j) PROVE PurgedIn(log', j) \/ Due(Tail(s), j)
    <3>1. PICK k \in 1 .. Len(s) :
            Soon(s, k) /\ (s[k] = Log("purged", j) \/ (s[k].do = "insert" /\ s[k].id = j))
      BY <2>2 DEF Due
    <3>2. CASE s[k] = This(t)
      BY <1>1, <1>7, <3>1, <3>2
    <3>3. CASE s[k] # This(t)
      BY <1>9, <3>1, <3>3 DEF Due
    <3>4. QED
      BY <3>2, <3>3
  <2>3. QED
    BY <1>7, <2>1, <2>2
<1>12. BackedUp' /\ AnsweredActive(t)'
  BY <1>1, <1>5 DEF SerialInv, BackedUp, AnsweredActive
<1>13. Prepared(t)'
  BY <1>1, <1>4, SameApprovals, MovesPrepared DEF SerialInv
<1>14. QED
  BY <1>6, <1>10, <1>11, <1>12, <1>13 DEF SerialInv

\* A column is written that no link and no status depends on.
LEMMA MarkedTable ==
  ASSUME NEW i \in DOMAIN rows, NEW row, rows' = SetRow(i, row),
         row.status = rows[i].status, row.link = rows[i].link
  PROVE  SameLinks /\ SameStatus
BY DEF SetRow, SameLinks, SameStatus

LEMMA MarkedRow ==
  ASSUME NEW row \in Row, NEW b
  PROVE  /\ [row EXCEPT !.pinned = b].status = row.status /\ [row EXCEPT !.pinned = b].link = row.link
         /\ [row EXCEPT !.used = b].status = row.status /\ [row EXCEPT !.used = b].link = row.link
         /\ [row EXCEPT !.expired = b].status = row.status /\ [row EXCEPT !.expired = b].link = row.link
BY DEF Row

LEMMA MarkSerial ==
  ASSUME StoreInv, NEW t \in Threads, SerialInv(t), StepPin(t) \/ StepTouch(t)
  PROVE  SerialInv(t)'
<1>1. /\ ~Idle(t) /\ This(t).do \in {"pin", "unpin", "touch"} /\ Proceeds(t)
      /\ UNCHANGED <<backup, auditVars, unlogged, answer>>
  BY DEF StepPin, StepTouch, Doing, This
<1>2. SameLinks /\ SameStatus
  <2> DEFINE i == This(t).id
  <2>1. CASE rows' = rows
    BY <2>1 DEF SameLinks, SameStatus
  <2>2. CASE i \in DOMAIN rows /\ rows' = SetRow(i, [rows[i] EXCEPT !.pinned = Doing(t, "pin")])
    BY <2>2, MarkedRow, MarkedTable, TypedFacts
  <2>3. CASE i \in DOMAIN rows /\ rows' = SetRow(i, [rows[i] EXCEPT !.used = TRUE])
    BY <2>3, MarkedRow, MarkedTable, TypedFacts
  <2>4. QED
    BY <2>1, <2>2, <2>3 DEF StepPin, StepTouch
<1>3. LoggedSoon(t)' /\ LinkedSoon(t)' /\ BackedUp' /\ LogSerial(t)' /\ AnsweredActive(t)'
  BY <1>1, <1>2, QuietStep DEF SerialInv, AnsweredActive
<1>4. todo'[t] = Tail(todo[t])
  BY <1>1, ProceedsTo
<1>5. Prepared(t)'
  BY <1>1, <1>2, <1>4, SameApprovals, MovesPrepared DEF SerialInv
<1>6. QED
  BY <1>3, <1>5 DEF SerialInv

\* What a step that goes on has right before it.
LEMMA ComesNext ==
  ASSUME NEW t \in Threads, Prepared(t), ~Idle(t), todo'[t] = Tail(todo[t])
  PROVE  /\ Doing(t, "delete_picked")' => This(t).do = "pick_forgotten"
         /\ Doing(t, "fetch")' => This(t).do = "match"
<1>1. Shaped(todo[t]) /\ todo[t] # <<>>
  BY DEF Prepared, Idle
<1>2. /\ Head(todo[t]) = todo[t][1]
      /\ todo'[t] # <<>> => Head(todo'[t]) = todo[t][2] /\ Follows(todo[t][1], todo[t][2])
  BY <1>1, ShapedTail
<1>3. QED
  BY <1>2 DEF Follows, Doing, Idle, This

\* The ids are picked by the status that their use relies on.
LEMMA PickSerial ==
  ASSUME StoreInv, NEW t \in Threads, SerialInv(t), StepPickForgotten(t) \/ StepMatch(t)
  PROVE  SerialInv(t)'
<1>1. /\ ~Idle(t) /\ This(t).do \in {"pick_forgotten", "match"} /\ Proceeds(t)
      /\ UNCHANGED <<rows, backup, auditVars, unlogged, answer>>
  BY DEF StepPickForgotten, StepMatch, Doing, This, dbVars
<1>2. SameLinks /\ SameStatus
  BY <1>1 DEF SameLinks, SameStatus
<1>3. LoggedSoon(t)' /\ LinkedSoon(t)' /\ BackedUp' /\ LogSerial(t)' /\ AnsweredActive(t)'
  BY <1>1, <1>2, QuietStep DEF SerialInv, AnsweredActive
<1>4. todo'[t] = Tail(todo[t])
  BY <1>1, ProceedsTo
<1>5. PicksCurrent(t)'
  <2>1. CASE StepPickForgotten(t)
    <3>1. This(t).do = "pick_forgotten" /\ picked'[t] = Tombstones /\ rows' = rows
      BY <2>1 DEF StepPickForgotten, Doing, This, dbVars, StoreInv, Typed
    <3>2. ~Doing(t, "fetch")'
      BY <1>1, <1>4, <3>1, ComesNext DEF SerialInv
    <3>3. QED
      BY <3>1, <3>2 DEF PicksCurrent, Tombstones
  <2>2. CASE StepMatch(t)
    <3>1. This(t).do = "match" /\ picked'[t] \subseteq Searchable /\ rows' = rows
      BY <2>2 DEF StepMatch, Doing, This, dbVars, StoreInv, Typed
    <3>2. ~Doing(t, "delete_picked")'
      BY <1>1, <1>4, <3>1, ComesNext DEF SerialInv
    <3>3. QED
      BY <3>1, <3>2 DEF PicksCurrent, Searchable
  <2>3. QED
    BY <2>1, <2>2
<1>6. Prepared(t)'
  BY <1>1, <1>2, <1>4, <1>5, SameApprovals, MovesPrepared DEF SerialInv
<1>7. QED
  BY <1>3, <1>6 DEF SerialInv

LEMMA FetchSerial ==
  ASSUME StoreInv, NEW t \in Threads, SerialInv(t), StepFetch(t)
  PROVE  SerialInv(t)'
<1>1. /\ ~Idle(t) /\ This(t).do = "fetch" /\ Doing(t, "fetch") /\ Proceeds(t)
      /\ UNCHANGED <<rows, backup, auditVars, unlogged>>
      /\ answer' = [answer EXCEPT ![t] = {rows[i] : i \in picked[t] \cap DOMAIN rows}]
  BY DEF StepFetch, Doing, This, dbVars
<1>2. SameLinks /\ SameStatus
  BY <1>1 DEF SameLinks, SameStatus
<1>3. LoggedSoon(t)' /\ LinkedSoon(t)' /\ BackedUp' /\ LogSerial(t)'
  BY <1>1, <1>2, QuietStep
<1>4. AnsweredActive(t)'
  <2>1. answer'[t] = {rows[i] : i \in picked[t] \cap DOMAIN rows}
    BY <1>1 DEF StoreInv, Typed
  <2>2. \A i \in picked[t] \cap DOMAIN rows : rows[i].status = "active"
    BY <1>1 DEF SerialInv, Prepared, PicksCurrent
  <2>3. QED
    BY <2>1, <2>2 DEF AnsweredActive
<1>5. todo'[t] = Tail(todo[t])
  BY <1>1, ProceedsTo
<1>6. Prepared(t)'
  BY <1>1, <1>2, <1>5, SameApprovals, MovesPrepared DEF SerialInv
<1>7. QED
  BY <1>3, <1>4, <1>6 DEF SerialInv

\* Every picked id is in the order in which its purge is reported.
LEMMA OrderCovers ==
  ASSUME NEW S, IsFiniteSet(S), NEW order \in SetToSeqs(S), NEW i \in S
  PROVE  /\ Cardinality(S) \in Nat /\ DOMAIN order = 1 .. Cardinality(S)
         /\ \E k \in DOMAIN order : order[k] = i
<1> DEFINE n == Cardinality(S)
<1>1. n \in Nat
  BY FS_CardinalityType
<1>2. order \in [1 .. n -> S] /\ \A k, l \in 1 .. n : k # l => order[k] # order[l]
  BY DEF SetToSeqs
<1>3. order \in Injection(1 .. n, S)
  BY <1>2 DEF Injection, IsInjective
<1>4. Cardinality(1 .. n) = n
  <2>1. 1 \in Int /\ n \in Int
    BY <1>1
  <2>2. QED
    BY <1>1, <2>1, FS_Interval
<1>5. order \in Surjection(1 .. n, S)
  BY <1>3, <1>4, FS_Injection
<1>6. \E k \in 1 .. n : order[k] = i
  BY <1>5 DEF Surjection
<1>7. QED
  BY <1>1, <1>2, <1>6

LEMMA PurgesShaped ==
  ASSUME NEW s \in Seq(Step), \A k \in 1 .. Len(s) : s[k].do = "log" /\ s[k].event = "purged"
  PROVE  /\ Shaped(s) /\ Unapproved(s) /\ (s # <<>> => Head(s).do = "log")
         /\ \A k \in 1 .. Len(s) : Soon(s, k)
<1>1. Len(s) \in Nat /\ (s # <<>> => Head(s) = s[1] /\ 1 \in 1 .. Len(s))
  BY LenProperties, EmptySeq
<1>2. \A k \in 1 .. Len(s) : \A l \in 1 .. k - 1 : l \in 1 .. Len(s)
  BY <1>1
<1>3. \A k \in 1 .. Len(s) : Reported(s, k) /\ Approving(s, k)
  BY DEF Reported, Approving
<1>4. \A k \in 1 .. Len(s) : k > 1 => Follows(s[k - 1], s[k])
  BY DEF Follows
<1>5. QED
  BY <1>1, <1>2, <1>3, <1>4 DEF Shaped, Unapproved, Soon

\* The purges are reported, one by one, before anything else is done.
LEMMA DeleteSerial ==
  ASSUME StoreInv, NEW t \in Threads, SerialInv(t), StepDeletePicked(t)
  PROVE  SerialInv(t)'
<1> DEFINE P == picked[t]
<1>1. /\ ~Idle(t) /\ This(t).do = "delete_picked" /\ ~Doing(t, "log")
      /\ rows' = [i \in DOMAIN rows \ P |-> rows[i]]
      /\ unlogged' = unlogged \cup {<<t, "purged", i>> : i \in P}
      /\ UNCHANGED <<backup, answer, auditVars>>
  BY DEF StepDeletePicked, Doing, This
<1>2. log' = log /\ tail' = tail /\ image' = image /\ backup' = backup /\ answer' = answer
  BY <1>1 DEF auditVars
<1>3. unlogged = {} /\ Whole(rows, log)
  BY <1>1, AtRest
<1>4. nextId \in Nat /\ P \in SUBSET (1 .. nextId - 1) /\ IsFiniteSet(P)
  <2>1. nextId \in Nat /\ P \in SUBSET (1 .. nextId - 1)
    BY TypedFacts
  <2>2. 1 \in Int /\ nextId - 1 \in Int
    BY <2>1
  <2>3. QED
    BY <2>1, <2>2, FS_Interval, FS_Subset
<1>5. PICK order \in SetToSeqs(P) : Goes(t, [k \in DOMAIN order |-> Log("purged", order[k])])
  BY DEF StepDeletePicked
<1>6. PICK s : s = [k \in DOMAIN order |-> Log("purged", order[k])]
  OBVIOUS
<1>7. StepsOK(s, nextId) /\ \A k \in 1 .. Len(s) : \E i \in P : s[k] = Log("purged", i)
  BY <1>4, <1>6, PurgeLogs
<1>8. /\ Shaped(s) /\ Unapproved(s) /\ (s # <<>> => Head(s).do = "log")
      /\ \A k \in 1 .. Len(s) : Soon(s, k)
  BY <1>7, LogFields, PurgesShaped DEF StepsOK
<1>9. ASSUME NEW i \in P PROVE \E k \in 1 .. Len(s) : Soon(s, k) /\ s[k] = Log("purged", i)
  <2>1. PICK k \in DOMAIN order : order[k] = i
    BY <1>4, <1>5, OrderCovers
  <2>2. k \in DOMAIN s /\ s[k] = Log("purged", i)
    BY <1>6, <2>1
  <2>3. k \in 1 .. Len(s)
    BY <1>7, <2>2, LenProperties DEF StepsOK
  <2>4. QED
    BY <1>8, <2>2, <2>3
<1>10. todo'[t] = s
  <2>1. todo'[t] = s \o Tail(todo[t])
    BY <1>1, <1>5, <1>6, <1>7, GoesTo
  <2>2. Shaped(todo[t]) /\ todo[t] # <<>>
    BY <1>1 DEF SerialInv, Prepared, Idle
  <2>3. /\ Head(todo[t]) = todo[t][1] /\ Len(todo[t]) \in Nat \ {0}
        /\ Len(Tail(todo[t])) = Len(todo[t]) - 1 /\ Shaped(Tail(todo[t]))
    BY <2>2, ShapedTail
  <2>4. Reported(todo[t], 1)
    BY <2>2, <2>3 DEF Shaped
  <2>5. Len(Tail(todo[t])) = 0
    BY <1>1, <2>3, <2>4 DEF Reported, This
  <2>6. Tail(todo[t]) = <<>>
    BY <2>3, <2>5, EmptySeq DEF Shaped
  <2>7. QED
    BY <1>8, <2>1, <2>6, ConcatEmptySeq DEF Shaped
<1>11. Prepared(t)'
  <2>1. Opens(todo'[t]) /\ Shaped(todo'[t])
    BY <1>8, <1>10 DEF Opens
  <2>2. AddedUnlinked(t)' /\ ApprovedPending(t)'
    BY <1>8, <1>10 DEF AddedUnlinked, ApprovedPending, Unapproved, Doing, Idle
  <2>3. QED
    BY <2>1, <2>2, BeginsPrepared
<1>12. LoggedSoon(t)'
  BY <1>1, <1>3, <1>9, <1>10 DEF LoggedSoon
<1>13. LinkedSoon(t)'
  <2> SUFFICES ASSUME NEW h \in DOMAIN rows', NEW j \in rows'[h].link
               PROVE  j \in DOMAIN rows' \/ PurgedIn(log', j) \/ Due(todo'[t], j)
    BY DEF LinkedSoon
  <2>1. j \in DOMAIN rows \/ PurgedIn(log', j)
    BY <1>1, <1>2, <1>3 DEF Whole
  <2>2. CASE j \in P
    BY <1>9, <1>10, <2>2 DEF Due
  <2>3. CASE j \notin P
    BY <1>1, <2>1, <2>3
  <2>4. QED
    BY <2>2, <2>3
<1>14. BackedUp' /\ AnsweredActive(t)' /\ LogSerial(t)'
  BY <1>1, <1>2, QuietLog DEF SerialInv, BackedUp, AnsweredActive
<1>15. QED
  BY <1>11, <1>12, <1>13, <1>14 DEF SerialInv

\* The file is written, and put back, when nothing of a call is missing.
LEMMA BackupSerial ==
  ASSUME StoreInv, NEW t \in Threads, SerialInv(t), StepBackup(t)
  PROVE  SerialInv(t)'
<1>1. /\ ~Idle(t) /\ This(t).do = "backup" /\ ~Doing(t, "log") /\ Proceeds(t)
      /\ rows' = rows /\ unlogged' = unlogged /\ answer' = answer /\ log' = log /\ tail' = tail
      /\ backup' = {rows} /\ image' = {log}
  BY DEF StepBackup, Audit!CopyToImage, Doing, This
<1>2. unlogged = {} /\ Whole(rows, log)
  BY <1>1, AtRest
<1>3. LoggedSoon(t)' /\ LinkedSoon(t)'
  BY <1>1, <1>2, StaysRestful
<1>4. BackedUp' /\ AnsweredActive(t)' /\ LogSerial(t)'
  BY <1>1, <1>2, QuietLog DEF SerialInv, BackedUp, AnsweredActive
<1>5. todo'[t] = Tail(todo[t]) /\ SameStatus
  BY <1>1, ProceedsTo DEF SameStatus
<1>6. Prepared(t)'
  BY <1>1, <1>5, SameApprovals, MovesPrepared DEF SerialInv
<1>7. QED
  BY <1>3, <1>4, <1>6 DEF SerialInv

LEMMA RestoreSerial ==
  ASSUME StoreInv, NEW t \in Threads, SerialInv(t), StepRestore(t)
  PROVE  SerialInv(t)'
<1>1. /\ ~Idle(t) /\ This(t).do = "restore" /\ ~Doing(t, "log")
      /\ backup' = backup /\ unlogged' = unlogged /\ answer' = answer
  BY DEF StepRestore, Doing, This
<1>2. unlogged = {} /\ Whole(rows, log)
  BY <1>1, AtRest
<1>3. AnsweredActive(t)'
  BY <1>1 DEF SerialInv, AnsweredActive
<1>4. CASE Raises(t) /\ UNCHANGED <<rows, auditVars>>
  <2>1. rows' = rows /\ log' = log /\ image' = image /\ tail' = tail
    BY <1>4 DEF auditVars
  <2>2. LoggedSoon(t)' /\ LinkedSoon(t)'
    BY <1>1, <1>2, <2>1, StaysRestful
  <2>3. BackedUp' /\ LogSerial(t)'
    BY <1>1, <2>1, QuietLog DEF SerialInv, BackedUp
  <2>4. Prepared(t)'
    BY <1>4, RaisesTo, StopsPrepared
  <2>5. QED
    BY <1>3, <2>2, <2>3, <2>4 DEF SerialInv
<1>5. CASE Audit!CopyFromImage(t) /\ (\E table \in backup : rows' = table) /\ Proceeds(t)
  <2>1. rows' \in backup /\ log' \in image /\ image' = image /\ tail' = tail
    BY <1>5 DEF Audit!CopyFromImage
  <2>2. Whole(rows', log')
    BY <2>1 DEF SerialInv, BackedUp
  <2>3. LoggedSoon(t)' /\ LinkedSoon(t)'
    BY <1>1, <1>2, <2>2, StaysRestful
  <2>4. BackedUp' /\ LogSerial(t)'
    BY <1>1, <2>1, QuietLog DEF SerialInv, BackedUp
  <2>5. todo'[t] = Tail(todo[t])
    BY <1>1, <1>5, ProceedsTo
  <2>6. \A k \in 1 .. Len(Tail(todo[t])) : Tail(todo[t])[k].event # "approved"
    BY <1>1, NoApprovals DEF SerialInv
  <2>7. Prepared(t)'
    BY <1>1, <2>5, <2>6, MovesPrepared DEF SerialInv
  <2>8. QED
    BY <1>3, <2>3, <2>4, <2>7 DEF SerialInv
<1>6. QED
  BY <1>4, <1>5 DEF StepRestore

------------------------------------------------------------------------------
(* The calls and the time. *)

LEMMA StartSerial ==
  ASSUME StoreInv, NEW t \in Threads, SerialInv(t), NEW steps, Starts(t, steps),
         Shaped(steps), Opens(steps),
         \A k \in 1 .. Len(steps) : steps[k].event = "approved" /\ steps[k].id \in DOMAIN rows =>
           rows[steps[k].id].status \in {"pending", "active"},
         steps # <<>> /\ Head(steps).do = "insert" => Head(steps).id = nextId
  PROVE  SerialInv(t)'
<1>1. /\ Idle(t) /\ todo' = [todo EXCEPT ![t] = steps] /\ answer' = [answer EXCEPT ![t] = {}]
      /\ UNCHANGED <<rows, backup, auditVars, unlogged>>
  BY DEF Starts, dbVars
<1>2. todo'[t] = steps /\ answer'[t] = {}
  BY <1>1 DEF StoreInv, Typed
<1>3. SameLinks
  BY <1>1 DEF SameLinks
<1>4. LoggedSoon(t)' /\ LinkedSoon(t)' /\ BackedUp' /\ LogSerial(t)'
  BY <1>1, <1>3, QuietStep
<1>5. AddedUnlinked(t)'
  <2>1. \A i \in DOMAIN rows : nextId \notin rows[i].link
    BY TypedFacts DEF RowOK
  <2>2. QED
    BY <1>1, <1>2, <2>1 DEF AddedUnlinked, Doing, Idle, This
<1>6. ApprovedPending(t)'
  BY <1>1, <1>2 DEF ApprovedPending
<1>7. Prepared(t)'
  BY <1>2, <1>5, <1>6, BeginsPrepared
<1>8. QED
  BY <1>2, <1>4, <1>7 DEF SerialInv, AnsweredActive

\* A call that approves nothing and adds nothing for itself.
LEMMA PlainSerial ==
  ASSUME StoreInv, NEW t \in Threads, SerialInv(t), NEW steps, Starts(t, steps),
         Shaped(steps), Unapproved(steps),
         steps # <<>> => Head(steps).do \notin {"put", "delete_picked", "fetch", "insert"}
  PROVE  SerialInv(t)'
<1>1. Opens(steps)
  BY DEF Opens
<1>2. \A k \in 1 .. Len(steps) : steps[k].event = "approved" /\ steps[k].id \in DOMAIN rows =>
        rows[steps[k].id].status \in {"pending", "active"}
  BY DEF Unapproved
<1>3. steps # <<>> /\ Head(steps).do = "insert" => Head(steps).id = nextId
  OBVIOUS
<1>4. QED
  BY <1>1, <1>2, <1>3, StartSerial

LEMMA HeadFirst ==
  ASSUME NEW s, s \in Seq(Step), s # <<>>
  PROVE  Head(s) = s[1]
BY HeadTailProperties

LEMMA AddSerial ==
  ASSUME StoreInv, NEW t \in Threads, SerialInv(t), CallAdd(t)
  PROVE  SerialInv(t)'
<1>0. {"pending", "active"} \subseteq Status
  BY DEF Status
<1>1. nextId \in Nat /\ 1 <= nextId
  BY TypedFacts
<1>2. PICK ns \in Namespaces, c \in Contents, status \in {"pending", "active"} :
        Starts(t, AddSteps(nextId, NewRow(ns, c, status)))
  BY DEF CallAdd
<1>3. PICK r : r = NewRow(ns, c, status)
  OBVIOUS
<1>4. FreshRow(r) /\ r.status \in {"pending", "active"}
  <2>1. FreshRow(r)
    BY <1>0, <1>2, <1>3, FreshIsFresh
  <2>2. r.status = status
    BY <1>3 DEF NewRow
  <2>3. QED
    BY <1>2, <2>1, <2>2
<1>5. PICK s : s = AddSteps(nextId, r)
  OBVIOUS
<1>6. s \in Seq(Step)
  <2>1. nextId < nextId + 1 /\ nextId + 1 \in Nat
    BY <1>1
  <2>2. StepsOK(AddSteps(nextId, r), nextId + 1)
    BY <1>1, <1>4, <2>1, AddOK
  <2>3. QED
    BY <1>5, <2>2 DEF StepsOK
<1>7. Shaped(s) /\ Unapproved(s) /\ Len(s) = 2 /\ s[1] = Insert(nextId, r)
  BY <1>4, <1>5, <1>6, AddShaped
<1>8. s # <<>> /\ Head(s) = s[1] /\ s[1].do = "insert" /\ s[1].id = nextId
  <2>1. s # <<>>
    BY <1>7
  <2>2. QED
    BY <1>6, <1>7, <2>1, HeadFirst, InsertFields
<1>9. Opens(s)
  BY <1>8 DEF Opens
<1>10. \A k \in 1 .. Len(s) : s[k].event = "approved" /\ s[k].id \in DOMAIN rows =>
         rows[s[k].id].status \in {"pending", "active"}
  BY <1>7 DEF Unapproved
<1>11. Starts(t, s)
  BY <1>2, <1>3, <1>5
<1>12. QED
  BY <1>7, <1>8, <1>9, <1>10, <1>11, StartSerial

LEMMA SupersedeSerial ==
  ASSUME StoreInv, NEW t \in Threads, SerialInv(t), CallSupersede(t)
  PROVE  SerialInv(t)'
<1>1. PICK old \in DOMAIN rows, c \in Contents :
        Starts(t, SupersedeSteps(old, nextId, NewRow(rows[old].ns, c, "pending")))
  BY DEF CallSupersede
<1>2. old \in Nat /\ 1 <= old /\ old < nextId /\ nextId \in Nat /\ rows[old].ns \in Namespaces
  BY TypedFacts DEF Row
<1>3. FreshRow(NewRow(rows[old].ns, c, "pending"))
  <2>1. "pending" \in Status
    BY DEF Status
  <2>2. QED
    BY <1>2, <2>1, FreshIsFresh
<1>4. PICK s : s = SupersedeSteps(old, nextId, NewRow(rows[old].ns, c, "pending"))
  OBVIOUS
<1>5. Shaped(s) /\ Unapproved(s) /\ s[1].do = "get"
  BY <1>2, <1>3, <1>4, SupersedeShaped
<1>6. s # <<>> => Head(s).do = "get"
  BY <1>5, HeadFirst DEF Shaped
<1>7. QED
  BY <1>1, <1>4, <1>5, <1>6, PlainSerial

LEMMA StatusListOK ==
  ASSUME NEW i \in Nat, NEW status \in Status, NEW event \in Events, NEW s,
         s = UpdateSteps(i, ToStatus(status)) \o <<Log(event, i)>>,
         event = "approved" => status = "active"
  PROVE  StatusSteps(s, i, status, event)
<1>1. i < i + 1 /\ i + 1 \in Nat
  OBVIOUS
<1>2. StepsOK(UpdateSteps(i, ToStatus(status)), i + 1) /\ StepsOK(<<Log(event, i)>>, i + 1)
  BY <1>1, ToStatusOK, UpdateOK, LogOK
<1>3. QED
  BY <1>2 DEF StepsOK, StatusSteps

\* approve is called for a pending memory, the other changes for any.
LEMMA StatusSerial ==
  ASSUME StoreInv, NEW t \in Threads, SerialInv(t), NEW i \in DOMAIN rows, NEW status, NEW event,
         NEW s, StatusSteps(s, i, status, event), Starts(t, s),
         event = "approved" => rows[i].status = "pending"
  PROVE  SerialInv(t)'
<1>1. /\ Shaped(s) /\ s[1].do = "get" /\ Len(s) = 4
      /\ \A k \in 1 .. 4 : s[k].event = "approved" => s[k].id = i /\ event = "approved"
  BY StatusShaped
<1>2. s # <<>> /\ Head(s).do = "get"
  <2>1. s # <<>>
    BY <1>1
  <2>2. QED
    BY <1>1, <2>1, HeadFirst DEF Shaped
<1>3. Opens(s)
  BY <1>2 DEF Opens
<1>4. \A k \in 1 .. Len(s) : s[k].event = "approved" /\ s[k].id \in DOMAIN rows =>
        rows[s[k].id].status \in {"pending", "active"}
  BY <1>1
<1>5. QED
  BY <1>1, <1>2, <1>3, <1>4, StartSerial

LEMMA RecordSerial ==
  ASSUME StoreInv, NEW t \in Threads, SerialInv(t), CallOnRecord(t)
  PROVE  SerialInv(t)'
<1>1. PICK i \in DOMAIN rows :
        \/ \E e \in Edits : Starts(t, <<[Do("patch", i) EXCEPT !.edit = e]>>)
        \/ rows[i].status = "pending" /\ Starts(t, ApproveSteps(i))
        \/ Starts(t, RejectSteps(i)) \/ Starts(t, ForgetSteps(i))
        \/ \E kind \in {"pin", "unpin", "touch"} : Starts(t, <<Do(kind, i)>>)
  BY DEF CallOnRecord
<1>2. i \in Nat
  BY TypedFacts
<1>3. /\ {"patch", "pin", "unpin", "touch"} \subseteq StepKinds
      /\ {"active", "archived", "forgotten"} \subseteq Status
      /\ {"approved", "rejected", "forgotten"} \subseteq Events
  BY DEF StepKinds, Status, Events
<1>4. ASSUME NEW a \in Step, a.do \notin {"put", "insert", "delete_picked", "fetch"},
             a.event # "approved", Starts(t, <<a>>)
      PROVE  SerialInv(t)'
  <2>1. PICK s : s = <<a>>
    OBVIOUS
  <2>2. Shaped(s) /\ Unapproved(s)
    BY <1>4, <2>1, SingleShaped
  <2>3. Head(s) = a
    BY <2>1
  <2>4. QED
    BY <1>4, <2>1, <2>2, <2>3, PlainSerial
<1>5. ASSUME NEW e \in Edits, Starts(t, <<[Do("patch", i) EXCEPT !.edit = e]>>)
      PROVE  SerialInv(t)'
  <2>1. PICK a : a = [Do("patch", i) EXCEPT !.edit = e]
    OBVIOUS
  <2>2. e \in Edit
    BY EditsAssumption
  <2>3. a \in Step /\ a.do = "patch" /\ a.event = "updated"
    BY <1>2, <1>3, <2>1, <2>2, DoStep DEF Step
  <2>4. QED
    BY <1>4, <1>5, <2>1, <2>3
<1>6. ASSUME NEW kind \in {"pin", "unpin", "touch"}, Starts(t, <<Do(kind, i)>>)
      PROVE  SerialInv(t)'
  <2>1. Do(kind, i) \in Step /\ Do(kind, i).do = kind /\ Do(kind, i).event = "updated"
    BY <1>2, <1>3, DoStep
  <2>2. QED
    BY <1>4, <1>6, <2>1
<1>7. ASSUME rows[i].status = "pending", Starts(t, ApproveSteps(i)) PROVE SerialInv(t)'
  <2>1. PICK s : s = UpdateSteps(i, ToStatus("active")) \o <<Log("approved", i)>>
    OBVIOUS
  <2>2. StatusSteps(s, i, "active", "approved")
    BY <1>2, <1>3, <2>1, StatusListOK
  <2>3. Starts(t, s)
    BY <1>7, <2>1 DEF ApproveSteps
  <2>4. QED
    BY <1>7, <2>2, <2>3, StatusSerial
<1>8. ASSUME Starts(t, RejectSteps(i)) PROVE SerialInv(t)'
  <2>1. PICK s : s = UpdateSteps(i, ToStatus("archived")) \o <<Log("rejected", i)>>
    OBVIOUS
  <2>2. StatusSteps(s, i, "archived", "rejected")
    BY <1>2, <1>3, <2>1, StatusListOK
  <2>3. Starts(t, s)
    BY <1>8, <2>1 DEF RejectSteps
  <2>4. QED
    BY <2>2, <2>3, StatusSerial
<1>9. ASSUME Starts(t, ForgetSteps(i)) PROVE SerialInv(t)'
  <2>1. PICK s : s = UpdateSteps(i, ToStatus("forgotten")) \o <<Log("forgotten", i)>>
    OBVIOUS
  <2>2. StatusSteps(s, i, "forgotten", "forgotten")
    BY <1>2, <1>3, <2>1, StatusListOK
  <2>3. Starts(t, s)
    BY <1>9, <2>1 DEF ForgetSteps
  <2>4. QED
    BY <2>2, <2>3, StatusSerial
<1>10. QED
  BY <1>1, <1>5, <1>6, <1>7, <1>8, <1>9

LEMMA StoreCallSerial ==
  ASSUME StoreInv, NEW t \in Threads, SerialInv(t), CallOnStore(t)
  PROVE  SerialInv(t)'
<1>1. /\ {"pick_forgotten", "delete_picked", "match", "fetch", "backup", "restore"} \subseteq StepKinds
      /\ {"backup", "restore"} \subseteq Events
  BY DEF StepKinds, Events
<1>2. ASSUME NEW a \in Step, NEW b \in Step,
             a.do \in {"pick_forgotten", "match", "backup", "restore"},
             b.do \notin {"put", "insert"}, a.event # "approved", b.event # "approved",
             Follows(a, b), Starts(t, <<a, b>>)
      PROVE  SerialInv(t)'
  <2>1. PICK s : s = <<a, b>>
    OBVIOUS
  <2>2. Shaped(s) /\ Unapproved(s)
    BY <1>2, <2>1, PairShaped
  <2>3. Head(s) = a
    BY <2>1
  <2>4. QED
    BY <1>2, <2>1, <2>2, <2>3, PlainSerial
<1>3. ASSUME NEW kind \in StepKinds
      PROVE  Do(kind, 0) \in Step /\ Do(kind, 0).do = kind /\ Do(kind, 0).event = "updated"
  BY DoStep
<1>4. ASSUME NEW event \in Events
      PROVE  Log(event, 0) \in Step /\ Log(event, 0).do = "log" /\ Log(event, 0).event = event
  BY LogStep
<1>5. ASSUME Starts(t, PurgeSteps) PROVE SerialInv(t)'
  <2>1. Follows(Do("pick_forgotten", 0), Do("delete_picked", 0))
    BY <1>1, <1>3 DEF Follows
  <2>2. QED
    BY <1>1, <1>2, <1>3, <1>5, <2>1 DEF PurgeSteps
<1>6. ASSUME Starts(t, SearchSteps) PROVE SerialInv(t)'
  <2>1. Follows(Do("match", 0), Do("fetch", 0))
    BY <1>1, <1>3 DEF Follows
  <2>2. QED
    BY <1>1, <1>2, <1>3, <1>6, <2>1 DEF SearchSteps
<1>7. ASSUME Starts(t, BackupSteps) PROVE SerialInv(t)'
  <2>1. Follows(Do("backup", 0), Log("backup", 0))
    BY <1>1, <1>4 DEF Follows
  <2>2. QED
    BY <1>1, <1>2, <1>3, <1>4, <1>7, <2>1 DEF BackupSteps
<1>8. ASSUME Starts(t, RestoreSteps) PROVE SerialInv(t)'
  <2>1. Follows(Do("restore", 0), Log("restore", 0))
    BY <1>1, <1>4 DEF Follows
  <2>2. QED
    BY <1>1, <1>2, <1>3, <1>4, <1>8, <2>1 DEF RestoreSteps
<1>9. QED
  BY <1>5, <1>6, <1>7, <1>8 DEF CallOnStore

LEMMA RetentionSerial ==
  ASSUME StoreInv, NEW t \in Threads, SerialInv(t), NEW i \in DOMAIN rows, RetentionEnds(i)
  PROVE  SerialInv(t)'
<1>1. /\ rows' = SetRow(i, [rows[i] EXCEPT !.expired = TRUE])
      /\ backup' = backup /\ todo' = todo /\ snap' = snap /\ picked' = picked /\ answer' = answer
      /\ log' = log /\ tail' = tail /\ image' = image /\ unlogged' = unlogged
  BY DEF RetentionEnds, threadVars, auditVars
<1>2. SameLinks /\ SameStatus
  BY <1>1, MarkedRow, MarkedTable, TypedFacts
<1>3. HoldsCurrent(t)' /\ PicksCurrent(t)'
  BY <1>1, <1>2 DEF SerialInv, Prepared, HoldsCurrent, PicksCurrent, SameLinks, SameStatus, Doing, Idle, This
<1>4. ApprovedPending(t)' /\ AddedUnlinked(t)'
  BY <1>1, <1>2 DEF SerialInv, Prepared, ApprovedPending, AddedUnlinked, SameLinks, SameStatus, Doing, Idle, This
<1>5. LoggedSoon(t)' /\ LinkedSoon(t)'
  BY <1>1, <1>2 DEF SerialInv, LoggedSoon, LinkedSoon, SameLinks
<1>6. BackedUp' /\ AnsweredActive(t)' /\ LogSerial(t)'
  BY <1>1 DEF SerialInv, BackedUp, AnsweredActive, LogSerial, Audit!Appending, Doing, Idle, This
<1>7. QED
  BY <1>1, <1>3, <1>4, <1>5, <1>6 DEF SerialInv, Prepared

------------------------------------------------------------------------------
(* The log, and the log of the backup file, which a restore puts back.     *)

LogWhole(l) ==
  /\ \E n \in Nat : DOMAIN l = 1 .. n
  /\ \A s \in DOMAIN l :
       /\ l[s].entry \in Entries
       /\ l[s].prev = IF s = 1 THEN AP!Genesis ELSE l[s - 1].hash
       /\ l[s].hash = AP!Digest(s, l[s].entry, l[s].prev)

LogsInv == AP!Inv /\ \A l \in image : LogWhole(l)

LEMMA LogsStart == Init => LogsInv
<1>1. Init => AP!Init
  BY DEF Init, Audit!Init, AP!Init, Audit!NoTail, AP!NoTail, Audit!Genesis, AP!Genesis
<1>2. AP!Init => AP!Inv
  BY StoreAssumption, AP!InitInv DEF StoreAssumption, AP!MaxSeqAssumption
<1>3. QED
  BY <1>1, <1>2 DEF LogsInv, Init, Audit!Init

\* A log that has been put back is as whole as the one it replaces, when the
\* thread that restores is the only one and has read no tail.
LEMMA RestoredLog ==
  ASSUME NEW t, Threads = {t}, LogsInv, StepRestore(t)
  PROVE  LogsInv'
<1>1. tail' = tail /\ image' = image /\ (log' = log \/ (log' \in image /\ ~Audit!Appending(t)))
  BY DEF StepRestore, Audit!CopyFromImage, auditVars
<1>2. CASE log' = log
  BY <1>1, <1>2 DEF LogsInv, AP!Inv, AP!TypeOK, AP!Numbered, AP!Linked, AP!TailsStored,
     AP!Appending
<1>3. CASE log' \in image /\ ~Audit!Appending(t)
  <2>1. LogWhole(log')
    BY <1>3 DEF LogsInv
  <2>2. PICK n \in Nat : DOMAIN log' = 1 .. n
    BY <2>1 DEF LogWhole
  <2>3. AP!IsFiniteSet(DOMAIN log') /\ DOMAIN log' \subseteq Nat \ {0}
    <3>1. IsFiniteSet(1 .. n)
      BY FS_Interval
    <3>2. AP!IsFiniteSet(1 .. n)
      BY <3>1 DEF IsFiniteSet, AP!IsFiniteSet
    <3>3. QED
      BY <2>2, <3>2
  <2>4. AP!TypeOK'
    <3>1. \A s \in DOMAIN log' : log'[s].entry \in Entries
      BY <2>1 DEF LogWhole
    <3>2. DOMAIN tail' = Threads /\ \A u \in Threads : tail'[u].seq \in Nat \cup {-1}
      BY <1>1 DEF AP!TypeOK, LogsInv, AP!Inv
    <3>3. QED
      BY <2>3, <3>1, <3>2 DEF AP!TypeOK
  <2>5. AP!Numbered'
    BY <2>2 DEF AP!Numbered
  <2>6. AP!Linked'
    BY <2>1 DEF LogWhole, AP!Linked
  <2>7. AP!TailsStored'
    BY <1>1, <1>3 DEF AP!TailsStored, AP!Appending, Audit!Appending, AP!NoTail, Audit!NoTail,
       AP!Genesis, Audit!Genesis
  <2>8. QED
    BY <1>1, <2>4, <2>5, <2>6, <2>7 DEF LogsInv, AP!Inv
<1>4. QED
  BY <1>1, <1>2, <1>3

LEMMA LogsNext ==
  ASSUME NEW t, Threads = {t}, StoreInv, TailsAreFunction, LogsInv, [Next]_vars
  PROVE  LogsInv'
<1>1. CASE \E u \in Threads : StepRestore(u)
  <2>1. StepRestore(t)
    BY <1>1
  <2>2. QED
    BY <2>1, RestoredLog
<1>2. CASE \A u \in Threads : ~StepRestore(u)
  <2>1. [AP!Next]_auditVars
    BY <1>2, AuditStep
  <2>2. [AP!Next]_(AP!auditVars)
    BY <2>1 DEF auditVars, AP!auditVars
  <2>3. AP!Inv'
    BY <2>2, StoreAssumption, AP!NextInv DEF LogsInv, StoreAssumption, AP!MaxSeqAssumption
  <2>4. image' = image \/ image' = {log}
    BY <2>1 DEF AP!Next, AP!ThreadStep, AP!ReadTail, AP!InsertRow, AP!RejectDuplicateSeq,
       AP!CopyToImage, AP!Crash, auditVars
  <2>5. LogWhole(log)
    BY DEF LogsInv, AP!Inv, AP!TypeOK, AP!Numbered, AP!Linked, LogWhole
  <2>6. QED
    BY <2>3, <2>4, <2>5 DEF LogsInv
<1>3. QED
  BY <1>1, <1>2

------------------------------------------------------------------------------
(* The invariant of calls that come one after the other. *)

LEMMA SerialStart == ASSUME NEW t \in Threads, Init PROVE SerialInv(t)
<1>1. /\ DOMAIN rows = {} /\ backup = {} /\ unlogged = {} /\ todo[t] = <<>>
      /\ snap[t] = {} /\ picked[t] = {} /\ answer[t] = {} /\ tail[t] = Audit!NoTail
  BY DEF Init, Audit!Init
<1>2. Len(todo[t]) = 0 /\ Idle(t)
  BY <1>1 DEF Idle
<1>3. Prepared(t)
  BY <1>1, <1>2, ShapedNone
     DEF Prepared, HoldsCurrent, PicksCurrent, ApprovedPending, AddedUnlinked, Doing
<1>4. LoggedSoon(t) /\ LinkedSoon(t) /\ BackedUp /\ AnsweredActive(t) /\ LogSerial(t)
  BY <1>1 DEF LoggedSoon, LinkedSoon, BackedUp, AnsweredActive, LogSerial, Audit!Appending
<1>5. QED
  BY <1>3, <1>4 DEF SerialInv

LEMMA SerialStays == ASSUME NEW t \in Threads, SerialInv(t), UNCHANGED vars PROVE SerialInv(t)'
<1>1. UNCHANGED <<rows, backup, todo, snap, picked, answer, log, tail, image, unlogged>>
  BY DEF vars, dbVars, threadVars, auditVars
<1>2. Prepared(t)'
  BY <1>1, SamePrepared DEF SerialInv
<1>3. LoggedSoon(t)' /\ LinkedSoon(t)' /\ BackedUp' /\ AnsweredActive(t)' /\ LogSerial(t)'
  BY <1>1 DEF SerialInv, LoggedSoon, LinkedSoon, BackedUp, AnsweredActive, LogSerial,
     Audit!Appending, Doing, Idle, This
<1>4. QED
  BY <1>2, <1>3 DEF SerialInv

LEMMA SerialNext ==
  ASSUME NEW t, Threads = {t}, MaxCrashes = 0, Secrets = {},
         StoreInv, TailsAreFunction, LogsInv, SerialInv(t), [Next]_vars
  PROVE  SerialInv(t)'
<1>1. t \in Threads /\ AP!Numbered
  BY DEF LogsInv, AP!Inv
<1>2. ASSUME StoreStep(t) PROVE SerialInv(t)'
  <2>1. CASE StepPatch(t) \/ StepGet(t) \/ StepPut(t) \/ StepInsert(t)
    BY <1>1, <2>1, PatchSerial, GetSerial, PutSerial, InsertSerial
  <2>2. CASE StepLogRead(t) \/ StepLogInsert(t)
    BY <1>1, <2>2, LogReadSerial, LogInsertSerial
  <2>3. CASE StepPin(t) \/ StepTouch(t)
    BY <1>1, <2>3, MarkSerial
  <2>4. CASE StepPickForgotten(t) \/ StepMatch(t)
    BY <1>1, <2>4, PickSerial
  <2>5. CASE StepDeletePicked(t) \/ StepFetch(t)
    BY <1>1, <2>5, DeleteSerial, FetchSerial
  <2>6. CASE StepBackup(t) \/ StepRestore(t)
    BY <1>1, <2>6, BackupSerial, RestoreSerial
  <2>7. QED
    BY <1>2, <2>1, <2>2, <2>3, <2>4, <2>5, <2>6 DEF StoreStep
<1>3. ASSUME Call(t) PROVE SerialInv(t)'
  BY <1>1, <1>3, AddSerial, SupersedeSerial, RecordSerial, StoreCallSerial DEF Call
<1>4. ASSUME NEW i \in DOMAIN rows, RetentionEnds(i) PROVE SerialInv(t)'
  BY <1>1, <1>4, RetentionSerial
<1>5. ~Crash
  BY DEF StoreInv, Typed, Crash
<1>6. CASE UNCHANGED vars
  BY <1>1, <1>6, SerialStays
<1>7. QED
  BY <1>2, <1>3, <1>4, <1>5, <1>6 DEF Next

LEMMA SerialIsSound ==
  ASSUME NEW t, Threads = {t}, StoreInv, LogsInv, SerialInv(t)
  PROVE  SerialSound
<1>1. AuditVerifies
  <2>1. AP!ChainVerifies
    BY StoreAssumption, AP!InvVerifies DEF LogsInv, StoreAssumption, AP!MaxSeqAssumption
  <2>2. QED
    BY <2>1 DEF AuditVerifies, Audit!ChainVerifies, AP!ChainVerifies, Audit!Verify, AP!Verify,
       Audit!ExpectedPrev, AP!ExpectedPrev, Audit!Below, AP!Below, Audit!Digest, AP!Digest,
       Audit!Genesis, AP!Genesis
<1>2. DOMAIN todo[t] = 1 .. Len(todo[t])
  BY DEF SerialInv, Prepared, Shaped
<1>3. AuditComplete
  <2> SUFFICES ASSUME NEW u \in unlogged
               PROVE  \E k \in DOMAIN todo[u[1]] : todo[u[1]][k] = Log(u[2], u[3])
    BY DEF AuditComplete
  <2>1. u[1] = t /\ \E k \in 1 .. Len(todo[t]) : todo[t][k] = Log(u[2], u[3])
    BY DEF SerialInv, LoggedSoon
  <2>2. QED
    BY <1>2, <2>1
<1>4. AnswersActive
  BY DEF SerialInv, AnsweredActive, AnswersActive
<1>5. SuccessorWritten
  <2> SUFFICES ASSUME NEW i \in DOMAIN rows, NEW j \in rows[i].link
               PROVE  \/ j \in DOMAIN rows
                      \/ \E s \in DOMAIN log : log[s].entry = [event |-> "purged", id |-> j]
                      \/ \E u \in Threads : \E k \in DOMAIN todo[u] :
                           \/ todo[u][k].do = "insert" /\ todo[u][k].id = j
                           \/ todo[u][k] = Log("purged", j)
    BY DEF SuccessorWritten
  <2>1. j \in DOMAIN rows \/ PurgedIn(log, j) \/ Due(todo[t], j)
    BY DEF SerialInv, LinkedSoon
  <2>2. ASSUME Due(todo[t], j)
        PROVE  \E k \in DOMAIN todo[t] :
                 \/ todo[t][k].do = "insert" /\ todo[t][k].id = j
                 \/ todo[t][k] = Log("purged", j)
    BY <1>2, <2>2 DEF Due
  <2>3. t \in Threads
    OBVIOUS
  <2>4. QED
    BY <2>1, <2>2, <2>3 DEF PurgedIn
<1>6. QED
  BY <1>1, <1>3, <1>4, <1>5 DEF SerialSound

\* What is proved of calls that come one after the other: a single thread
\* works, the process does not die, and no text is a secret (a supersede
\* whose new text the guard rejects names a successor it never writes).
CallsInTurn == (\E t : Threads = {t}) /\ MaxCrashes = 0 /\ Secrets = {}

\* Whatever the calls are, and however many: the log verifies, each mutation
\* is in it before the call reads anything else, a search answers with active
\* memories and a superseded memory has its successor, or the record that it
\* has been purged.
THEOREM SerialStaysSound == CallsInTurn => (Spec => []SerialSound)
<1> SUFFICES ASSUME NEW t, Threads = {t}, MaxCrashes = 0, Secrets = {}
             PROVE  Spec => []SerialSound
  BY DEF CallsInTurn
<1>1. Init => SerialInv(t)
  BY SerialStart
<1>2. StoreInv /\ TailsAreFunction /\ LogsInv /\ [Next]_vars => LogsInv'
  BY LogsNext
<1>3. StoreInv /\ TailsAreFunction /\ LogsInv /\ SerialInv(t) /\ [Next]_vars => SerialInv(t)'
  BY SerialNext
<1>4. StoreInv /\ LogsInv /\ SerialInv(t) => SerialSound
  BY SerialIsSound
<1>5. QED
  BY <1>1, <1>2, <1>3, <1>4, LogsStart, TailsInit, TailsNext, StoreInvariance, PTL DEF Spec

\* A step that changes no status of a row and removes none.
LEMMA KeepsStatus ==
  ASSUME \A i \in DOMAIN rows : i \in DOMAIN rows' /\ rows'[i].status = rows[i].status
  PROVE  KeepsForgotten /\ PurgesForgotten
BY DEF KeepsForgotten, PurgesForgotten

LEMMA PutStatus ==
  ASSUME StoreInv, NEW t \in Threads, SerialInv(t), StepPut(t)
  PROVE  KeepsForgotten /\ PurgesForgotten
<1> DEFINE i == This(t).id
           e == This(t).edit
<1>1. Doing(t, "put")
  BY DEF StepPut
<1>2. CASE UNCHANGED rows
  BY <1>2, KeepsStatus
<1>3. ASSUME i \in DOMAIN rows, NEW record \in snap[t], rows' = SetRow(i, Rewritten(i, record, e))
      PROVE  KeepsForgotten /\ PurgesForgotten
  <2>1. /\ DOMAIN rows' = DOMAIN rows
        /\ \A j \in DOMAIN rows : j # i => rows'[j] = rows[j]
        /\ rows'[i].status = Given(e.status, record.status)
    BY <1>1, <1>3, PutRow
  <2>2. record.status = rows[i].status
    BY <1>1, <1>3 DEF SerialInv, Prepared, HoldsCurrent
  <2>3. CASE e.status = {}
    <3>1. \A j \in DOMAIN rows : j \in DOMAIN rows' /\ rows'[j].status = rows[j].status
      BY <2>1, <2>2, <2>3 DEF Given
    <3>2. QED
      BY <3>1, KeepsStatus
  <2>4. CASE e.status # {}
    <3>1. KeepsForgotten
      BY <1>1, <2>1, <2>4 DEF KeepsForgotten
    <3>2. PurgesForgotten
      BY <2>1 DEF PurgesForgotten
    <3>3. QED
      BY <3>1, <3>2
  <2>5. QED
    BY <2>3, <2>4
<1>4. QED
  BY <1>2, <1>3 DEF StepPut

LEMMA RestoreStatus ==
  ASSUME StoreInv, NEW t \in Threads, StepRestore(t)
  PROVE  KeepsForgotten /\ PurgesForgotten
<1>1. Doing(t, "restore") /\ ~Idle(t) /\ (Proceeds(t) \/ Raises(t))
  BY DEF StepRestore, Doing
<1>2. todo[t] \in Seq(Step) /\ todo[t] # <<>>
  BY <1>1 DEF StoreInv, Typed, Idle
<1>3. todo'[t] = Tail(todo[t]) \/ todo'[t] = <<>>
  BY <1>1, ProceedsTo, RaisesTo
<1>4. Len(Tail(todo[t])) = Len(todo[t]) - 1 /\ Len(todo[t]) \in Nat
  BY <1>2, HeadTailProperties, LenProperties
<1>5. todo'[t] # todo[t]
  <2>1. Len(todo[t]) - 1 # Len(todo[t])
    BY <1>4
  <2>2. Tail(todo[t]) # todo[t]
    BY <1>4, <2>1
  <2>3. QED
    BY <1>2, <1>3, <2>2
<1>6. Restores
  BY <1>1, <1>5 DEF Restores
<1>7. QED
  BY <1>6 DEF KeepsForgotten, PurgesForgotten

LEMMA StepStatus ==
  ASSUME StoreInv, NEW t \in Threads, SerialInv(t), StoreStep(t)
  PROVE  KeepsForgotten /\ PurgesForgotten
<1>1. CASE StepPut(t)
  BY <1>1, PutStatus
<1>2. CASE StepInsert(t)
  <2>1. UNCHANGED rows \/ \E row : rows' = SetRow(This(t).id, row) /\ This(t).id \notin DOMAIN rows
    BY <1>2 DEF StepInsert
  <2>2. \A i \in DOMAIN rows : i \in DOMAIN rows' /\ rows'[i] = rows[i]
    BY <2>1 DEF SetRow
  <2>3. QED
    BY <2>2, KeepsStatus
<1>3. CASE StepPin(t) \/ StepTouch(t)
  <2>1. PICK i, row : /\ rows' = rows \/ (i \in DOMAIN rows /\ rows' = SetRow(i, row))
                      /\ i \in DOMAIN rows => row.status = rows[i].status
    <3>1. CASE This(t).id \notin DOMAIN rows
      BY <1>3, <3>1 DEF StepPin, StepTouch
    <3>2. CASE This(t).id \in DOMAIN rows
      BY <1>3, <3>2, TypedFacts DEF StepPin, StepTouch, Row
    <3>3. QED
      BY <3>1, <3>2
  <2>2. \A j \in DOMAIN rows : j \in DOMAIN rows' /\ rows'[j].status = rows[j].status
    BY <2>1 DEF SetRow
  <2>3. QED
    BY <2>2, KeepsStatus
<1>4. CASE StepDeletePicked(t)
  <2>1. /\ Doing(t, "delete_picked") /\ DOMAIN rows' = DOMAIN rows \ picked[t]
        /\ \A i \in DOMAIN rows' : rows'[i] = rows[i]
    BY <1>4 DEF StepDeletePicked
  <2>2. \A i \in DOMAIN rows \ DOMAIN rows' : rows[i].status = "forgotten"
    BY <2>1 DEF SerialInv, Prepared, PicksCurrent
  <2>3. QED
    BY <2>1, <2>2 DEF KeepsForgotten, PurgesForgotten
<1>5. CASE StepRestore(t)
  BY <1>5, RestoreStatus
<1>6. CASE /\ ~StepPut(t) /\ ~StepInsert(t) /\ ~StepPin(t) /\ ~StepTouch(t)
           /\ ~StepDeletePicked(t) /\ ~StepRestore(t)
  <2>1. UNCHANGED rows
    BY <1>6 DEF StoreStep, StepPatch, StepGet, StepLogRead, StepLogInsert, StepPickForgotten,
       StepMatch, StepFetch, StepBackup, dbVars
  <2>2. QED
    BY <2>1, KeepsStatus
<1>7. QED
  BY <1>1, <1>2, <1>3, <1>4, <1>5, <1>6

StatusMoves == KeepsForgotten /\ ApprovesPending /\ PurgesForgotten

LEMMA StatusNext ==
  ASSUME NEW t, Threads = {t}, StoreInv, SerialInv(t), [Next]_vars
  PROVE  [StatusMoves]_vars
<1>1. ApprovesPending
  <2> SUFFICES ASSUME NEW i \in DOMAIN rows \cap DOMAIN rows',
                      NEW k \in DOMAIN todo[t], todo[t][k] = Log("approved", i)
               PROVE  rows[i].status \in {"pending", "active"}
    BY DEF ApprovesPending
  <2>1. k \in 1 .. Len(todo[t])
    BY DEF SerialInv, Prepared, Shaped
  <2>2. todo[t][k].event = "approved" /\ todo[t][k].id = i
    BY LogFields
  <2>3. QED
    BY <2>1, <2>2 DEF SerialInv, Prepared, ApprovedPending
<1>2. ASSUME StoreStep(t) PROVE KeepsForgotten /\ PurgesForgotten
  <2>1. t \in Threads
    OBVIOUS
  <2>2. QED
    BY <1>2, <2>1, StepStatus
<1>3. ASSUME NEW i \in DOMAIN rows, RetentionEnds(i) PROVE KeepsForgotten /\ PurgesForgotten
  <2>1. \A j \in DOMAIN rows : j \in DOMAIN rows' /\ rows'[j].status = rows[j].status
    BY <1>3, TypedFacts DEF RetentionEnds, SetRow, Row
  <2>2. QED
    BY <2>1, KeepsStatus
<1>4. ASSUME Call(t) \/ Crash \/ UNCHANGED vars PROVE KeepsForgotten /\ PurgesForgotten
  <2>1. UNCHANGED rows
    BY <1>4 DEF Call, CallAdd, CallSupersede, CallOnRecord, CallOnStore, Starts, Crash, vars, dbVars
  <2>2. QED
    BY <2>1, KeepsStatus
<1>5. QED
  BY <1>1, <1>2, <1>3, <1>4 DEF Next, StatusMoves

\* Calls in turn change the status of a memory only as the port says: an edit
\* of other fields does not bring a forgotten memory back, approve meets a
\* memory that is pending (or active by then), and a purge removes what is
\* forgotten at the moment of its DELETE.
THEOREM StatusesStaySound == CallsInTurn => (Spec => StatusesSound)
<1> SUFFICES ASSUME NEW t, Threads = {t}, MaxCrashes = 0, Secrets = {}
             PROVE  Spec => StatusesSound
  BY DEF CallsInTurn
<1>1. Init => SerialInv(t)
  BY SerialStart
<1>2. StoreInv /\ TailsAreFunction /\ LogsInv /\ [Next]_vars => LogsInv'
  BY LogsNext
<1>3. StoreInv /\ TailsAreFunction /\ LogsInv /\ SerialInv(t) /\ [Next]_vars => SerialInv(t)'
  BY SerialNext
<1>4. StoreInv /\ SerialInv(t) /\ [Next]_vars => [StatusMoves]_vars
  BY StatusNext
<1>5. QED
  BY <1>1, <1>2, <1>3, <1>4, LogsStart, TailsInit, TailsNext, StoreInvariance, PTL
     DEF Spec, StatusesSound, StatusMoves
==============================================================================
