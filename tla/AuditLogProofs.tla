---------------------------- MODULE AuditLogProofs ----------------------------
(***************************************************************************)
(* Proofs about AuditLog for any set of threads, any set of entries and    *)
(* any bound.  The argument: the primary key keeps the rows numbered 1..n, *)
(* every row is linked to the row before it, and what an append has read   *)
(* is a row that is still there, because rows are never changed.  An       *)
(* append whose row is no longer the newest meets the primary key, so the  *)
(* only INSERT that succeeds extends the chain at its end.                 *)
(***************************************************************************)
EXTENDS AuditLog, Sequences, FiniteSetTheorems, TLAPS

Linked ==
  \A s \in DOMAIN log :
    /\ log[s].prev = IF s = 1 THEN Genesis ELSE log[s - 1].hash
    /\ log[s].hash = Digest(s, log[s].entry, log[s].prev)

TailsStored ==
  \A t \in Threads : Appending(t) =>
    \/ tail[t] = EmptyTail
    \/ /\ tail[t].seq \in DOMAIN log
       /\ tail[t].hash = log[tail[t].seq].hash

Numbered == \E n \in Nat : DOMAIN log = 1 .. n

Inv == TypeOK /\ Numbered /\ Linked /\ TailsStored

------------------------------------------------------------------------------
\* In a table numbered 1..n the newest row is row n.
LEMMA NewestIsLast ==
  ASSUME NEW table, NEW n \in Nat \ {0}, DOMAIN table = 1 .. n
  PROVE  Newest(table) = n
BY DEF Newest

\* What an append reads is the empty chain or a row of the table.
LEMMA LastRowStored ==
  ASSUME NEW table, NEW n \in Nat, DOMAIN table = 1 .. n
  PROVE  /\ LastRow(table).seq = n
         /\ n = 0 => LastRow(table) = EmptyTail
         /\ n # 0 => LastRow(table).hash = table[n].hash
BY NewestIsLast DEF LastRow, EmptyTail

\* The only row that can still be inserted is the one after the newest.
LEMMA InsertExtends ==
  ASSUME Inv, NEW n \in Nat, DOMAIN log = 1 .. n,
         NEW t \in Threads, Appending(t), tail[t].seq + 1 \notin DOMAIN log
  PROVE  /\ tail[t].seq = n
         /\ tail[t].hash = IF n = 0 THEN Genesis ELSE log[n].hash
<1>1. CASE tail[t] = EmptyTail
  BY <1>1 DEF EmptyTail
<1>2. CASE tail[t].seq \in DOMAIN log /\ tail[t].hash = log[tail[t].seq].hash
  BY <1>2
<1>3. QED
  BY <1>1, <1>2 DEF Inv, TailsStored

LEMMA InitInv == Init => Inv
<1> SUFFICES ASSUME Init PROVE Inv
  OBVIOUS
<1>1. DOMAIN log = {}
  BY DEF Init
<1>2. TypeOK
  BY <1>1, FS_EmptySet DEF Init, TypeOK, NoTail
<1>3. DOMAIN log = 1 .. 0
  BY <1>1
<1>4. Linked
  BY <1>1 DEF Linked
<1>5. TailsStored
  BY DEF Init, TailsStored, Appending
<1>6. QED
  BY <1>2, <1>3, <1>4, <1>5 DEF Inv, Numbered

LEMMA ReadTailInv ==
  ASSUME Inv, NEW t \in Threads, ReadTail(t)
  PROVE  Inv'
<1> USE DEF Inv, ReadTail
<1>1. PICK n \in Nat : DOMAIN log = 1 .. n
  BY DEF Numbered
<1>2. /\ LastRow(log).seq = n
      /\ n = 0 => LastRow(log) = EmptyTail
      /\ n # 0 => LastRow(log).hash = log[n].hash
  BY <1>1, LastRowStored
<1>3. TypeOK'
  BY <1>2 DEF TypeOK
<1>4. TailsStored'
  BY <1>1, <1>2 DEF TailsStored, Appending, TypeOK
<1>5. QED
  BY <1>3, <1>4 DEF Numbered, Linked

LEMMA InsertRowInv ==
  ASSUME Inv, NEW t \in Threads, NEW entry \in Entries, InsertRow(t, entry)
  PROVE  Inv'
<1>1. PICK n \in Nat : DOMAIN log = 1 .. n
  BY DEF Inv, Numbered
<1>2. /\ tail[t].seq = n
      /\ tail[t].hash = IF n = 0 THEN Genesis ELSE log[n].hash
  BY <1>1, InsertExtends DEF InsertRow
<1>3. /\ DOMAIN log' = 1 .. (n + 1)
      /\ log'[n + 1] = Row(t, entry)
      /\ \A s \in DOMAIN log : log'[s] = log[s]
  BY <1>1, <1>2 DEF InsertRow, Inserted
<1>4. TypeOK'
  <2>1. IsFiniteSet(DOMAIN log')
    BY <1>3, FS_Interval
  <2>2. \A s \in DOMAIN log' : log'[s].entry \in Entries
    BY <1>1, <1>3 DEF Row, Inv, TypeOK
  <2>3. QED
    BY <1>3, <2>1, <2>2 DEF Inv, TypeOK, InsertRow, NoTail
<1>5. Linked'
  <2> SUFFICES ASSUME NEW s \in DOMAIN log'
               PROVE  /\ log'[s].prev = IF s = 1 THEN Genesis ELSE log'[s - 1].hash
                      /\ log'[s].hash = Digest(s, log'[s].entry, log'[s].prev)
    BY DEF Linked
  <2>1. CASE s = n + 1
    BY <1>1, <1>2, <1>3, <2>1 DEF Row, Digest
  <2>2. CASE s # n + 1
    <3>1. s \in DOMAIN log /\ (s # 1 => s - 1 \in DOMAIN log)
      BY <1>1, <1>3, <2>2
    <3>2. QED
      BY <1>3, <3>1 DEF Inv, Linked
  <2>3. QED
    BY <2>1, <2>2
<1>6. TailsStored'
  <2> SUFFICES ASSUME NEW u \in Threads, Appending(u)'
               PROVE  \/ tail'[u] = EmptyTail
                      \/ /\ tail'[u].seq \in DOMAIN log'
                         /\ tail'[u].hash = log'[tail'[u].seq].hash
    BY DEF TailsStored
  <2>1. u # t /\ tail'[u] = tail[u]
    BY DEF InsertRow, Appending, Inv, TypeOK
  <2>2. QED
    BY <1>1, <1>3, <2>1 DEF Inv, TailsStored, Appending
<1>7. QED
  BY <1>3, <1>4, <1>5, <1>6 DEF Inv, Numbered

LEMMA TailsDroppedInv ==
  ASSUME Inv, UNCHANGED log, DOMAIN tail' = Threads,
         \A u \in Threads : tail'[u] = NoTail \/ tail'[u] = tail[u]
  PROVE  Inv'
BY DEF Inv, TypeOK, Numbered, Linked, TailsStored, Appending, NoTail

LEMMA NextInv == Inv /\ [Next]_auditVars => Inv'
<1> SUFFICES ASSUME Inv, [Next]_auditVars PROVE Inv'
  OBVIOUS
<1>1. ASSUME NEW t \in Threads, ReadTail(t) PROVE Inv'
  BY <1>1, ReadTailInv
<1>2. ASSUME NEW t \in Threads, NEW entry \in Entries, InsertRow(t, entry) PROVE Inv'
  BY <1>2, InsertRowInv
<1>3. ASSUME NEW t \in Threads, RejectDuplicateSeq(t) PROVE Inv'
  BY <1>3, TailsDroppedInv DEF RejectDuplicateSeq, Inv, TypeOK
<1>4. ASSUME NEW t \in Threads, CopyToImage(t) PROVE Inv'
  BY <1>4, TailsDroppedInv DEF CopyToImage, Inv, TypeOK
<1>5. CASE Crash
  BY <1>5, TailsDroppedInv DEF Crash
<1>6. CASE UNCHANGED auditVars
  BY <1>6, TailsDroppedInv DEF auditVars, Inv, TypeOK
<1>7. QED
  BY <1>1, <1>2, <1>3, <1>4, <1>5, <1>6 DEF Next, ThreadStep

\* The inductive invariant holds in every reachable state.
THEOREM Invariance == Spec => []Inv
BY InitInv, NextInv, PTL DEF Spec

------------------------------------------------------------------------------
\* On a linked table numbered 1..n, verify expects of each row what Linked says.
LEMMA ExpectedPrevIsPredecessor ==
  ASSUME NEW n \in Nat, DOMAIN log = 1 .. n, NEW s \in DOMAIN log
  PROVE  ExpectedPrev(log, s) = IF s = 1 THEN Genesis ELSE log[s - 1].hash
<1>1. CASE s = 1
  BY <1>1 DEF ExpectedPrev, Below
<1>2. CASE s # 1
  <2>1. s - 1 \in Below(log, s) /\ \A q \in Below(log, s) : q <= s - 1
    BY <1>2 DEF Below
  <2>2. (CHOOSE r \in Below(log, s) : \A q \in Below(log, s) : q <= r) = s - 1
    BY <1>2, <2>1 DEF Below
  <2>3. QED
    BY <1>2, <2>1, <2>2 DEF ExpectedPrev
<1>3. QED
  BY <1>1, <1>2

LEMMA InvVerifies == Inv => ChainVerifies
<1> SUFFICES ASSUME Inv, NEW s \in DOMAIN log
             PROVE  /\ log[s].prev = ExpectedPrev(log, s)
                    /\ log[s].hash = Digest(s, log[s].entry, log[s].prev)
  BY DEF ChainVerifies, Verify
<1>1. PICK n \in Nat : DOMAIN log = 1 .. n
  BY DEF Inv, Numbered
<1>2. QED
  BY <1>1, ExpectedPrevIsPredecessor DEF Inv, Linked

\* The type invariant holds for any threads, entries and bound.
THEOREM TypeCorrect == Spec => []TypeOK
BY Invariance, PTL DEF Inv

\* AuditLog.verify accepts the log after any interleaving of appends and
\* crashes, for any number of threads.
THEOREM ChainCorrect == Spec => []ChainVerifies
BY Invariance, InvVerifies, PTL

LEMMA CountOfRows ==
  ASSUME NEW table, NEW n \in Nat, DOMAIN table = 1 .. n
  PROVE  Cardinality(DOMAIN table) = n
BY FS_Interval

\* Concurrent appends leave no hole in the sequence numbers.
THEOREM Contiguous == Spec => []NoGaps
<1>1. Inv => NoGaps
  BY CountOfRows DEF Inv, Numbered, NoGaps
<1>2. QED
  BY <1>1, Invariance, PTL

LEMMA StepImmutable ==
  Inv /\ [Next]_auditVars =>
    [\A s \in DOMAIN log : s \in DOMAIN log' /\ log'[s] = log[s]]_log
<1> SUFFICES ASSUME Inv, [Next]_auditVars, log' # log, NEW s \in DOMAIN log
             PROVE  s \in DOMAIN log' /\ log'[s] = log[s]
  OBVIOUS
<1>1. PICK t \in Threads, entry \in Entries : InsertRow(t, entry)
  BY DEF Next, ThreadStep, ReadTail, RejectDuplicateSeq, CopyToImage, Crash, auditVars
<1>2. QED
  BY <1>1 DEF InsertRow, Inserted

\* No step of any thread changes or removes a row that has been written.
THEOREM Immutable == Spec => RowsImmutable
BY Invariance, StepImmutable, PTL DEF Spec, RowsImmutable

------------------------------------------------------------------------------
LEMMA TrailOfNumbered ==
  ASSUME Inv, NEW n \in Nat, DOMAIN log = 1 .. n
  PROVE  /\ Trail = [i \in 1 .. n |-> log[i].entry]
         /\ Trail \in Seq(Entries)
         /\ Len(Trail) = n
<1>1. Trail = [i \in 1 .. n |-> log[i].entry]
  BY CountOfRows DEF Trail
<1>2. \A i \in 1 .. n : log[i].entry \in Entries
  BY DEF Inv, TypeOK
<1>3. QED
  BY <1>1, <1>2

LEMMA InsertAppends ==
  ASSUME Inv, NEW t \in Threads, NEW entry \in Entries, InsertRow(t, entry)
  PROVE  Trail' = Append(Trail, entry)
<1>1. PICK n \in Nat : DOMAIN log = 1 .. n
  BY DEF Inv, Numbered
<1>2. tail[t].seq = n
  BY <1>1, InsertExtends DEF InsertRow
<1>3. /\ DOMAIN log' = 1 .. (n + 1)
      /\ log'[n + 1].entry = entry
      /\ \A s \in 1 .. n : log'[s] = log[s]
  BY <1>1, <1>2 DEF InsertRow, Inserted, Row
<1>4. Trail' = [i \in 1 .. (n + 1) |-> log'[i].entry]
  <2>1. Cardinality(DOMAIN log') = n + 1
    BY <1>3, FS_Interval
  <2>2. QED
    BY <2>1 DEF Trail
<1>5. QED
  <2>1. /\ Trail = [i \in 1 .. n |-> log[i].entry]
        /\ Trail \in Seq(Entries)
        /\ Len(Trail) = n
    BY <1>1, TrailOfNumbered
  <2>2. /\ Append(Trail, entry) = [i \in 1 .. (n + 1) |-> IF i = n + 1 THEN entry ELSE Trail[i]]
    BY <2>1
  <2>3. \A i \in 1 .. (n + 1) :
          log'[i].entry = IF i = n + 1 THEN entry ELSE Trail[i]
    BY <1>3, <2>1
  <2>4. QED
    BY <1>4, <2>2, <2>3

LEMMA InitRefines == Init => Abstract!Init
<1> SUFFICES ASSUME Init PROVE Trail = <<>>
  BY DEF Abstract!Init
<1>1. DOMAIN log = {} /\ Cardinality(DOMAIN log) = 0
  BY FS_EmptySet DEF Init
<1>2. QED
  BY <1>1 DEF Trail

LEMMA StepRefines == Inv /\ [Next]_auditVars => [Abstract!Next]_Trail
<1> SUFFICES ASSUME Inv, [Next]_auditVars
             PROVE  [Abstract!Next]_Trail
  OBVIOUS
<1>1. ASSUME NEW t \in Threads, NEW entry \in Entries, InsertRow(t, entry)
      PROVE  Abstract!Next
  BY <1>1, InsertAppends DEF Abstract!Next, Abstract!Record
<1>2. ASSUME UNCHANGED log PROVE UNCHANGED Trail
  BY <1>2 DEF Trail
<1>3. QED
  BY <1>1, <1>2
     DEF Next, ThreadStep, ReadTail, RejectDuplicateSeq, CopyToImage, Crash, auditVars

\* The table, its unsynchronised appends and its crashes implement the list
\* that only grows: every step appends one entry or changes nothing.
THEOREM Implements == Spec => ImplementsTrail
BY InitRefines, StepRefines, Invariance, PTL DEF Spec, ImplementsTrail, Abstract!Spec
------------------------------------------------------------------------------
\* With a row s below the newest one gone, verify expects of row s + 1 the
\* hash of row s - 1, which is shorter than the one it finds.
LEMMA RemovalDetected ==
  ASSUME Inv, NEW s \in DOMAIN log, s # Newest(log)
  PROVE  ~Verify(Removed(log, s))
<1> DEFINE T == Removed(log, s)
<1>1. PICK n \in Nat : DOMAIN log = 1 .. n
  BY DEF Inv, Numbered
<1>2. s \in 1 .. (n - 1) /\ s + 1 \in 1 .. n
  BY <1>1, NewestIsLast
<1>3. /\ DOMAIN T = (1 .. n) \ {s}
      /\ \A r \in DOMAIN T : T[r] = log[r]
  BY <1>1 DEF Removed
<1>4. /\ log[s + 1].prev = log[s].hash
      /\ log[s].hash = Digest(s, log[s].entry, log[s].prev)
  BY <1>1, <1>2 DEF Inv, Linked
<1>5. CASE s = 1
  <2>1. ExpectedPrev(T, 2) = Genesis
    BY <1>3, <1>5 DEF ExpectedPrev, Below
  <2>2. T[2].prev = Digest(1, log[1].entry, log[1].prev)
    BY <1>2, <1>3, <1>4, <1>5
  <2>3. Digest(1, log[1].entry, log[1].prev) # Genesis
    BY DEF Digest, Genesis
  <2>4. QED
    BY <1>2, <1>3, <1>5, <2>1, <2>2, <2>3 DEF Verify
<1>6. CASE s # 1
  <2>1. s - 1 \in Below(T, s + 1) /\ \A q \in Below(T, s + 1) : q <= s - 1
    BY <1>2, <1>3, <1>6 DEF Below
  <2>2. (CHOOSE r \in Below(T, s + 1) : \A q \in Below(T, s + 1) : q <= r) = s - 1
    BY <1>2, <1>3, <2>1 DEF Below
  <2>3. ExpectedPrev(T, s + 1) = log[s - 1].hash
    <3>1. ExpectedPrev(T, s + 1) = T[s - 1].hash
      BY <2>1, <2>2 DEF ExpectedPrev
    <3>2. T[s - 1] = log[s - 1]
      BY <1>3, <2>1 DEF Below
    <3>3. QED
      BY <3>1, <3>2
  <2>4. log[s - 1].hash = Digest(s - 1, log[s - 1].entry, log[s - 1].prev)
    BY <1>1, <1>2, <1>6 DEF Inv, Linked
  <2>5. log[s - 1].hash # log[s].hash
    BY <1>2, <1>4, <2>4 DEF Digest
  <2>6. T[s + 1].prev # ExpectedPrev(T, s + 1)
    BY <1>2, <1>3, <1>4, <2>3, <2>5
  <2>7. QED
    BY <1>2, <1>3, <2>6 DEF Verify
<1>7. QED
  BY <1>5, <1>6

\* An altered row no longer matches its own hash; when that is recomputed,
\* the next row no longer matches it.
LEMMA AlterationDetected ==
  ASSUME Inv, NEW s \in DOMAIN log, NEW e \in Entries \ {log[s].entry}
  PROVE  /\ ~Verify(Altered(log, s, e, log[s].hash))
         /\ s # Newest(log) =>
              ~Verify(Altered(log, s, e, Digest(s, e, log[s].prev)))
<1>1. PICK n \in Nat : DOMAIN log = 1 .. n
  BY DEF Inv, Numbered
<1>2. log[s].hash = Digest(s, log[s].entry, log[s].prev)
  BY DEF Inv, Linked
<1>3. log[s].hash # Digest(s, e, log[s].prev)
  BY <1>2 DEF Digest
<1>4. ~Verify(Altered(log, s, e, log[s].hash))
  <2> DEFINE T == Altered(log, s, e, log[s].hash)
  <2>1. s \in DOMAIN T /\ T[s].hash = log[s].hash /\ T[s].entry = e /\ T[s].prev = log[s].prev
    BY DEF Altered
  <2>2. QED
    BY <1>3, <2>1 DEF Verify
<1>5. ASSUME s # Newest(log)
      PROVE  ~Verify(Altered(log, s, e, Digest(s, e, log[s].prev)))
  <2> DEFINE h == Digest(s, e, log[s].prev)
             T == Altered(log, s, e, h)
  <2>1. s + 1 \in 1 .. n /\ s \in 1 .. n
    BY <1>1, <1>5, NewestIsLast
  <2>2. DOMAIN T = 1 .. n /\ T[s].hash = h /\ T[s + 1] = log[s + 1]
    BY <1>1, <2>1 DEF Altered
  <2>3. (CHOOSE r \in Below(T, s + 1) : \A q \in Below(T, s + 1) : q <= r) = s
    <3>1. s \in Below(T, s + 1) /\ \A q \in Below(T, s + 1) : q <= s
      BY <2>1, <2>2 DEF Below
    <3>2. QED
      BY <2>1, <2>2, <3>1 DEF Below
  <2>4. ExpectedPrev(T, s + 1) = h
    BY <2>1, <2>2, <2>3 DEF ExpectedPrev, Below
  <2>5. T[s + 1].prev = log[s].hash
    BY <1>1, <2>1, <2>2 DEF Inv, Linked
  <2>6. QED
    BY <1>3, <2>1, <2>2, <2>4, <2>5 DEF Verify
<1>6. QED
  BY <1>4, <1>5

\* verify notices the loss of any row but the newest and the alteration of
\* any row, in every reachable state and for every set of entries.
THEOREM TamperEvidence == Spec => []TamperEvident
<1>1. Inv => TamperEvident
  BY RemovalDetected, AlterationDetected DEF TamperEvident
<1>2. QED
  BY <1>1, Invariance, PTL
==============================================================================
