---------------------------- MODULE AssistantProofs ----------------------------
(***************************************************************************)
(* Proofs about parts of Assistant: the approval gate, for any expiry, any *)
(* number of proposals, failed writes and crashes; the page of the chat,   *)
(* for any number of questions, words, visits and exchanges kept; the      *)
(* knowledge graph, for any nodes and edges, starts, failed writes and     *)
(* crashes; the log of conversations, for any requests; and the memory     *)
(* jobs, for any memories at the start, any answers of a model, any        *)
(* similarity of texts and any number of runs, failures and calls of the   *)
(* user. What is proved of them holds while everything else runs.          *)
(*                                                                         *)
(* The jobs (MemoryJobs): a row is never changed in what it says, and      *)
(* while a job holds what it has read of a row, the row is there and says  *)
(* the same; what the user pins, uses or takes back in the meantime is     *)
(* told apart by the histories.  A fact in use is always to be found in an *)
(* active memory, among what was dropped on purpose, or in the hands of a  *)
(* merge: between its two halves in what the job has read, then in the     *)
(* memory it has made, which after a failure stays behind and waits for    *)
(* approval.                                                               *)
(*                                                                         *)
(* The gate (ApprovalGate): wherever a proposal is kept, in memory or in   *)
(* the file, it is kept under the second in which it was made, so that a   *)
(* number never stands for two ids.  A call reports a proposal as settled  *)
(* only after it has written the file, and the file then holds what memory *)
(* holds.  A write that fails leaves in the file what was there before, or *)
(* nothing, and neither can hold more that is pending than memory did.     *)
(*                                                                         *)
(* The page (LensChat): what is shown of an answer is what will be         *)
(* recorded of it, a stopped answer is closed, and a page waits for the    *)
(* answer it can stop or for none.  An exchange is recorded by the one     *)
(* step that closes an answer which was not stopped, so that it is         *)
(* recorded once; the recording keeps the newest exchanges, in order.      *)
(*                                                                         *)
(* The graph (KnowledgeGraph): a connection that is missing belongs to an  *)
(* edge that is going to be added again.  A query visits, level by level,  *)
(* what is an edge further, and lists what it visits until the limit.      *)
(*                                                                         *)
(* The log (ChatStream): a request whose number is in the log is past its  *)
(* recording, with the same words, and no two requests share a number.     *)
(***************************************************************************)
EXTENDS Assistant, SequenceLemmas

------------------------------------------------------------------------------
(* The memory jobs. *)

JobsTyped ==
  /\ memoNext \in 1 .. (MaxMemos + 1) /\ DOMAIN memos \subseteq 1 .. (memoNext - 1)
  /\ memos \in [DOMAIN memos -> MemoRow]
  /\ extraction \in Extraction \cup {None} /\ merging \in Merging \cup {None}
  /\ jobErrors \in Nat

\* What a row tells of other memories is of older ones, and no row says a secret.
RowsSound ==
  \A i \in DOMAIN memos : /\ memos[i].text \cap SecretFacts = {}
                          /\ memos[i].from \subseteq 1 .. (i - 1)
                          /\ memos[i].seen \subseteq 1 .. (i - 1)

\* The candidate of an extraction is none of the memories it was compared with.
CandidateOK(x) ==
  /\ x.todo # <<>> /\ x.seen \subseteq 1 .. (memoNext - 1)
  /\ x.old # None => x.old \in 1 .. (memoNext - 1)
  /\ x.pc = "mark" => x.old # None
  /\ x.pc = "hash" => x.seen = {}
  /\ \A i \in x.seen \cap DOMAIN memos :
       memos[i].ns # x.ns \/ memos[i].text # Head(x.todo)

\* What a consolidation has read is still there, as it was read.
ReadingsOK(c) ==
  /\ DOMAIN c.listed \subseteq DOMAIN memos
  /\ \A i \in DOMAIN c.listed :
       /\ c.listed[i].text = memos[i].text
       /\ memos[i].pinned /\ i \notin late => c.listed[i].pinned
  /\ c.pc \in {"purge", "stale", "forget", "list"} => DOMAIN c.listed = {}
  /\ c.pc \in {"mark", "add", "settle", "approve"} =>
       c.pair[1] \in DOMAIN c.listed /\ c.pair[2] \in DOMAIN c.listed /\ c.pair[1] # c.pair[2]

StaleOK(c) ==
  /\ c.stale \subseteq 1 .. (memoNext - 1)
  /\ \A i \in c.stale \cap DOMAIN memos :
       /\ memos[i].type = "episodic" /\ memos[i].old
       /\ i \in late \/ (~memos[i].pinned /\ ~memos[i].used)

\* The memory a merge has made says what both said, and can become active or was taken
\* back by the user.
NewOK(c) ==
  /\ c.new # None => c.new \in 1 .. (memoNext - 1)
  /\ c.pc \in {"settle", "approve"} =>
       /\ c.new \in DOMAIN memos /\ c.new \notin DOMAIN c.listed
       /\ memos[c.new].text = c.listed[c.pair[1]].text \cup c.listed[c.pair[2]].text
       /\ memos[c.new].type = "semantic"
       /\ \/ memos[c.new].status \in {"active", "pending"}
          \/ memos[c.new].text \subseteq dropped

\* Where a fact in use is to be found: in a memory, among what was dropped on purpose, or
\* in the hands of a merge.
Safe(f) ==
  \/ \E i \in DOMAIN memos : /\ f \in memos[i].text
                             /\ \/ memos[i].status = "active"
                                \/ memos[i].status = "pending" /\ jobErrors # 0
  \/ f \in dropped
  \/ MergingIs("add") /\ f \in Read(One).text
  \/ /\ jobErrors = 0 /\ (MergingIs("settle") \/ MergingIs("approve"))
     /\ f \in memos[merging.new].text

ForgottenByJob ==
  \A i \in DOMAIN memos : memos[i].by = "job" => memos[i].status \notin {"active", "pending"}

\* No job holds what the user has settled.
SettledFree ==
  \A s \in settled : s[1] \in 1 .. (memoNext - 1) /\ ~Held(s[1])

JobsInv ==
  /\ JobsTyped /\ RowsSound
  /\ extraction # None => CandidateOK(extraction)
  /\ merging # None => ReadingsOK(merging) /\ StaleOK(merging) /\ NewOK(merging)
  /\ \A f \in known : Safe(f)
  /\ ForgottenByJob /\ SettledFree
  /\ NotExtractedAgain /\ PinSurvives /\ ArchivesOnlyStale /\ ForgottenStaysOut

------------------------------------------------------------------------------
(* Numbers and records. *)

\* A set of ids that is not empty has a greatest.
LEMMA GreatestId ==
  ASSUME NEW S, S \subseteq MemoIds, S # {}
  PROVE  \E i \in S : \A j \in S : j <= i
<1> DEFINE T == {MaxMemos - i : i \in S}
<1>0. MaxMemos \in Nat
  BY JobsAssumption
<1>1. T \in SUBSET Nat /\ T # {}
  <2>1. \A i \in S : MaxMemos - i \in Nat
    BY <1>0 DEF MemoIds
  <2> QED
    BY <2>1
<1>2. PICK m \in T : \A n \in T : m <= n
  BY <1>1, LeastNumber
<1>3. PICK i \in S : m = MaxMemos - i
  OBVIOUS
<1>4. ASSUME NEW j \in S PROVE j <= i
  <2>1. MaxMemos - i <= MaxMemos - j
    BY <1>2, <1>3
  <2> QED
    BY <2>1, <1>0 DEF MemoIds
<1> QED
  BY <1>4

LEMMA NewestIn ==
  ASSUME NEW S, S \subseteq MemoIds, S # {}
  PROVE  Newest(S) \in S
BY GreatestId DEF Newest

\* The first of the pairs left is one of them.
LEMMA FirstPair ==
  ASSUME NEW S, S \subseteq MemoIds \X MemoIds, S # {}
  PROVE  (CHOOSE p \in S : \A q \in S : q = p \/ After(q, p)) \in S
<1> DEFINE A == {p[1] : p \in S}
<1>1. A \subseteq MemoIds /\ A # {}
  OBVIOUS
<1>2. PICK i \in A : \A j \in A : j <= i
  BY <1>1, GreatestId
<1> DEFINE B == {p[2] : p \in {q \in S : q[1] = i}}
<1>3. B \subseteq MemoIds /\ B # {}
  OBVIOUS
<1>4. PICK k \in B : \A j \in B : j <= k
  BY <1>3, GreatestId
<1>5. PICK p \in S : p[1] = i /\ p[2] = k
  BY <1>4
<1>6. ASSUME NEW q \in S PROVE q = p \/ After(q, p)
  <2>1. /\ q[1] \in A /\ q[1] <= i /\ (q[1] = i => q[2] \in B /\ q[2] <= k)
        /\ q = <<q[1], q[2]>> /\ p = <<i, k>>
        /\ q[1] \in Int /\ q[2] \in Int /\ i \in Int /\ k \in Int
    BY <1>1, <1>2, <1>3, <1>4, <1>5, JobsAssumption DEF MemoIds
  <2> QED
    BY <2>1, <1>5 DEF After
<1> QED
  BY <1>6

------------------------------------------------------------------------------
(* What every step but a mark of the user does to the table. *)

SameBut(i) ==
  /\ memos'[i].ns = memos[i].ns /\ memos'[i].text = memos[i].text
  /\ memos'[i].type = memos[i].type /\ memos'[i].old = memos[i].old
  /\ memos'[i].pinned = memos[i].pinned /\ memos'[i].used = memos[i].used
  /\ memos'[i].from = memos[i].from /\ memos'[i].seen = memos[i].seen

\* Rows keep what they say, may go, and one may come.
RowsStay ==
  /\ memoNext' \in {memoNext, memoNext + 1} /\ late' = late /\ dropped \subseteq dropped'
  /\ DOMAIN memos' \subseteq DOMAIN memos \cup {memoNext}
  /\ memoNext \in DOMAIN memos' => memoNext' = memoNext + 1
  /\ \A i \in DOMAIN memos \cap DOMAIN memos' : SameBut(i)

\* The row that comes.
NewRowOK ==
  memoNext \in DOMAIN memos' =>
    LET r == memos'[memoNext] IN
    /\ r.text \cap SecretFacts = {} /\ r.by = "user"
    /\ r.from \subseteq DOMAIN memos /\ r.seen \subseteq 1 .. (memoNext - 1)
    /\ \A i \in r.seen \cap DOMAIN memos : memos[i].ns # r.ns \/ memos[i].text # r.text
    /\ \A i \in r.from : Held(i) /\ (memos[i].pinned /\ i \notin late => r.pinned)

\* Who forgets, and whose status may change.
StatusOK ==
  \A i \in DOMAIN memos \cap DOMAIN memos' :
    /\ memos'[i].status = memos[i].status \/ Held(i) \/ memos[i].status \in {"active", "pending"}
    /\ \/ /\ memos'[i].by = memos[i].by
          /\ memos[i].by = "job" => memos'[i].status \notin {"active", "pending"}
       \/ memos'[i].status = "forgotten" /\ merging # None /\ i \in merging.stale

\* What is settled comes when no job holds it, and jobs take up what is active only.
SettledOK ==
  /\ \/ settled' = settled
     \/ /\ memoNext \notin DOMAIN memos'
        /\ \E i \in DOMAIN memos :
             /\ settled' = settled \cup {<<i, memoNext>>} /\ ~Held(i)'
             /\ memos'[i].status \in {"forgotten", "archived"}
  /\ \A i \in 1 .. (memoNext - 1) :
       Held(i)' => Held(i) \/ (i \in DOMAIN memos /\ memos[i].status = "active")

LEMMA TableStep ==
  ASSUME JobsInv, RowsStay, NewRowOK, StatusOK, SettledOK
  PROVE  /\ RowsSound' /\ ForgottenByJob' /\ SettledFree'
         /\ NotExtractedAgain' /\ PinSurvives' /\ ArchivesOnlyStale' /\ ForgottenStaysOut'
<1> DEFINE new == memoNext
           r == memos'[memoNext]
<1>1. /\ memoNext \in Nat /\ memoNext' \in Nat /\ memoNext <= memoNext'
      /\ \A i \in DOMAIN memos : i \in Nat /\ i < memoNext
      /\ new \notin DOMAIN memos
  BY DEF JobsInv, JobsTyped, RowsStay
<1>2. \A i \in DOMAIN memos' : i = new \/ i \in DOMAIN memos
  BY DEF RowsStay
<1>3. \A i \in DOMAIN memos' : i # new => i \in DOMAIN memos /\ SameBut(i)
  BY <1>2 DEF RowsStay
<1>4. new \in DOMAIN memos' =>
        /\ r.text \cap SecretFacts = {} /\ r.by = "user"
        /\ r.from \subseteq DOMAIN memos /\ r.seen \subseteq 1 .. (new - 1)
        /\ \A i \in r.seen \cap DOMAIN memos : memos[i].ns # r.ns \/ memos[i].text # r.text
        /\ \A i \in r.from : Held(i) /\ (memos[i].pinned /\ i \notin late => r.pinned)
  BY DEF NewRowOK
<1>5. late' = late
  BY DEF RowsStay
<1>6. RowsSound'
  <2>1. ASSUME NEW i \in DOMAIN memos', i # new
        PROVE  /\ memos'[i].text \cap SecretFacts = {}
               /\ memos'[i].from \subseteq 1 .. (i - 1) /\ memos'[i].seen \subseteq 1 .. (i - 1)
    BY <2>1, <1>3 DEF JobsInv, RowsSound, SameBut
  <2>2. ASSUME new \in DOMAIN memos'
        PROVE  /\ r.text \cap SecretFacts = {}
               /\ r.from \subseteq 1 .. (new - 1) /\ r.seen \subseteq 1 .. (new - 1)
    <3>1. DOMAIN memos \subseteq 1 .. (new - 1)
      BY DEF JobsInv, JobsTyped
    <3> QED
      BY <2>2, <3>1, <1>4
  <2> QED
    BY <2>1, <2>2 DEF RowsSound
<1>7. NotExtractedAgain'
  <2> SUFFICES ASSUME NEW i \in DOMAIN memos', NEW j \in DOMAIN memos', i \in memos'[j].seen
               PROVE  memos'[i].ns # memos'[j].ns \/ memos'[i].text # memos'[j].text
    BY DEF NotExtractedAgain
  <2>1. i \in 1 .. (j - 1)
    BY <1>6 DEF RowsSound
  <2>2. j \in Nat /\ i # new
    BY <2>1, <1>1, <1>2
  <2>3. CASE j # new
    BY <2>2, <2>3, <1>3 DEF JobsInv, NotExtractedAgain, SameBut
  <2>4. CASE j = new
    BY <2>2, <2>4, <1>3, <1>4 DEF SameBut
  <2> QED
    BY <2>3, <2>4
<1>8. PinSurvives'
  <2> SUFFICES ASSUME NEW j \in DOMAIN memos', NEW i \in memos'[j].from \cap DOMAIN memos',
                      memos'[i].pinned, i \notin late
               PROVE  memos'[j].pinned
    BY <1>5 DEF PinSurvives
  <2>1. i \in 1 .. (j - 1)
    BY <1>6 DEF RowsSound
  <2>2. j \in Nat /\ i # new
    BY <2>1, <1>1, <1>2
  <2>3. CASE j # new
    BY <2>2, <2>3, <1>3 DEF JobsInv, PinSurvives, SameBut
  <2>4. CASE j = new
    BY <2>2, <2>4, <1>3, <1>4 DEF SameBut
  <2> QED
    BY <2>3, <2>4
<1>9. ArchivesOnlyStale'
  <2> SUFFICES ASSUME NEW i \in DOMAIN memos', memos'[i].by = "job"
               PROVE  /\ memos'[i].type = "episodic" /\ memos'[i].old
                      /\ i \in late \/ (~memos'[i].pinned /\ ~memos'[i].used)
    BY <1>5 DEF ArchivesOnlyStale
  <2>1. i # new /\ i \in DOMAIN memos /\ SameBut(i)
    BY <1>3, <1>4
  <2>2. CASE memos[i].by = "job"
    BY <2>1, <2>2 DEF JobsInv, ArchivesOnlyStale, SameBut
  <2>3. CASE memos[i].by # "job"
    <3>1. merging # None /\ i \in merging.stale
      BY <2>1, <2>3 DEF StatusOK
    <3> QED
      BY <2>1, <3>1 DEF JobsInv, StaleOK, SameBut
  <2> QED
    BY <2>2, <2>3
<1>10. ForgottenByJob'
  <2> SUFFICES ASSUME NEW i \in DOMAIN memos', memos'[i].by = "job"
               PROVE  memos'[i].status \notin {"active", "pending"}
    BY DEF ForgottenByJob
  <2>1. i # new /\ i \in DOMAIN memos
    BY <1>3, <1>4
  <2> QED
    BY <2>1 DEF StatusOK
<1>11. \A s \in settled : /\ s[1] \in 1 .. (memoNext - 1) /\ ~Held(s[1])
                          /\ s[1] \in DOMAIN memos => memos[s[1]].status \in {"forgotten", "archived"}
                          /\ \A j \in DOMAIN memos : j >= s[2] => s[1] \notin memos[j].from
  BY DEF JobsInv, SettledFree, ForgottenStaysOut
<1>12. ASSUME NEW s \in settled
       PROVE  /\ s[1] \in 1 .. (memoNext' - 1) /\ ~Held(s[1])'
              /\ s[1] \in DOMAIN memos' => memos'[s[1]].status \in {"forgotten", "archived"}
              /\ \A j \in DOMAIN memos' : j >= s[2] => s[1] \notin memos'[j].from
  <2> DEFINE k == s[1]
  <2>1. k \in 1 .. (memoNext - 1) /\ ~Held(k)
        /\ (k \in DOMAIN memos => memos[k].status \in {"forgotten", "archived"})
    BY <1>11
  <2>2. k \in 1 .. (memoNext' - 1) /\ k # new
    BY <2>1, <1>1
  <2>3. ~Held(k)'
    BY <2>1 DEF SettledOK
  <2>4. k \in DOMAIN memos' => memos'[k].status \in {"forgotten", "archived"}
    BY <2>1, <2>2, <1>2 DEF StatusOK
  <2>5. ASSUME NEW j \in DOMAIN memos', j >= s[2] PROVE k \notin memos'[j].from
    <3>1. CASE j # new
      BY <3>1, <2>5, <1>3, <1>11 DEF SameBut
    <3>2. CASE j = new
      BY <3>2, <2>1, <1>4
    <3> QED
      BY <3>1, <3>2
  <2> QED
    BY <2>2, <2>3, <2>4, <2>5
<1>13. CASE settled' = settled
  BY <1>12, <1>13, <1>6, <1>7, <1>8, <1>9, <1>10 DEF SettledFree, ForgottenStaysOut
<1>14. CASE /\ new \notin DOMAIN memos'
            /\ \E i \in DOMAIN memos :
                 /\ settled' = settled \cup {<<i, memoNext>>} /\ ~Held(i)'
                 /\ memos'[i].status \in {"forgotten", "archived"}
  <2>1. PICK i \in DOMAIN memos : /\ settled' = settled \cup {<<i, memoNext>>} /\ ~Held(i)'
                                  /\ memos'[i].status \in {"forgotten", "archived"}
    BY <1>14
  <2>2. i \in 1 .. (memoNext' - 1)
    <3>1. i \in 1 .. (memoNext - 1)
      BY DEF JobsInv, JobsTyped
    <3> QED
      BY <3>1, <1>1
  <2>3. \A j \in DOMAIN memos' : ~(j >= memoNext)
    BY <1>14, <1>1, <1>2
  <2>4. \A s \in settled' : s \in settled \/ (s[1] = i /\ s[2] = memoNext)
    BY <2>1
  <2>5. SettledFree'
    BY <2>1, <2>2, <2>4, <1>12 DEF SettledFree
  <2>6. ForgottenStaysOut'
    BY <2>1, <2>3, <2>4, <1>12 DEF ForgottenStaysOut
  <2> QED
    BY <2>5, <2>6, <1>6, <1>7, <1>8, <1>9, <1>10
<1> QED
  BY <1>13, <1>14 DEF SettledOK

------------------------------------------------------------------------------
(* What the calls do to a row, and what a job holds. *)

Statuses == {"pending", "active", "superseded", "archived", "forgotten"}

LEMMA StatusRow ==
  ASSUME NEW r \in MemoRow, NEW s \in Statuses, NEW n, n = [r EXCEPT !.status = s]
  PROVE  /\ n \in MemoRow /\ n.status = s /\ n.ns = r.ns /\ n.text = r.text /\ n.type = r.type
         /\ n.old = r.old /\ n.pinned = r.pinned /\ n.used = r.used /\ n.from = r.from
         /\ n.seen = r.seen /\ n.by = r.by /\ n.vec = r.vec
BY DEF MemoRow, Statuses

\* A call that leaves the table alone.
LEMMA CalmTable ==
  ASSUME JobsInv, Stays, UNCHANGED <<settled, late>>, dropped \subseteq dropped',
         \A i \in 1 .. (memoNext - 1) :
           Held(i)' => Held(i) \/ (i \in DOMAIN memos /\ memos[i].status = "active")
  PROVE  RowsStay /\ NewRowOK /\ StatusOK /\ SettledOK
<1>1. memos' = memos /\ memoNext' = memoNext /\ late' = late /\ settled' = settled
  BY DEF Stays
<1>2. memoNext \notin DOMAIN memos
  BY DEF JobsInv, JobsTyped
<1>3. RowsStay
  BY <1>1, <1>2 DEF RowsStay, SameBut
<1>4. NewRowOK
  BY <1>1, <1>2 DEF NewRowOK
<1>5. StatusOK
  BY <1>1 DEF StatusOK, JobsInv, ForgottenByJob
<1> QED
  BY <1>1, <1>3, <1>4, <1>5 DEF SettledOK

\* A call that gives a row another status.
LEMMA StatusTable ==
  ASSUME JobsInv, NEW k \in DOMAIN memos, NEW s \in Statuses,
         memos' = ToStatusOf(k, s), memoNext' = memoNext, late' = late, dropped \subseteq dropped',
         Held(k) \/ memos[k].status \in {"active", "pending"},
         memos[k].by = "job" => s \notin {"active", "pending"}
  PROVE  /\ RowsStay /\ NewRowOK /\ StatusOK
         /\ DOMAIN memos' = DOMAIN memos /\ memos' \in [DOMAIN memos -> MemoRow]
         /\ memos'[k].status = s /\ memos'[k].text = memos[k].text
         /\ \A i \in DOMAIN memos \ {k} : memos'[i] = memos[i]
<1> DEFINE n == [memos[k] EXCEPT !.status = s]
<1>1. memos \in [DOMAIN memos -> MemoRow] /\ memoNext \notin DOMAIN memos
  BY DEF JobsInv, JobsTyped
<1>2. memos[k] \in MemoRow
  BY <1>1
<1>3. /\ n \in MemoRow /\ n.status = s /\ n.ns = memos[k].ns /\ n.text = memos[k].text
      /\ n.type = memos[k].type /\ n.old = memos[k].old /\ n.pinned = memos[k].pinned
      /\ n.used = memos[k].used /\ n.from = memos[k].from /\ n.seen = memos[k].seen
      /\ n.by = memos[k].by
  BY <1>2, StatusRow
<1>4. memos' = [memos EXCEPT ![k] = n]
  BY DEF ToStatusOf
<1> HIDE DEF n
<1>5. /\ DOMAIN memos' = DOMAIN memos /\ memos' \in [DOMAIN memos -> MemoRow] /\ memos'[k] = n
      /\ \A i \in DOMAIN memos \ {k} : memos'[i] = memos[i]
  BY <1>1, <1>3, <1>4
<1>6. \A i \in DOMAIN memos : SameBut(i)
  BY <1>3, <1>5 DEF SameBut
<1>7. RowsStay
  BY <1>1, <1>5, <1>6 DEF RowsStay
<1>8. NewRowOK
  BY <1>1, <1>5 DEF NewRowOK
<1>9. StatusOK
  BY <1>3, <1>5 DEF StatusOK, JobsInv, ForgottenByJob
<1> QED
  BY <1>3, <1>5, <1>7, <1>8, <1>9

\* An insert.
LEMMA InsertedTable ==
  ASSUME JobsInv, NEW row, memos' = Inserted(row), row \in MemoRow, memoNext <= MaxMemos,
         memoNext' = memoNext + 1, late' = late, dropped \subseteq dropped',
         row.text \cap SecretFacts = {}, row.by = "user",
         row.from \subseteq DOMAIN memos, row.seen \subseteq 1 .. (memoNext - 1),
         \A i \in row.seen \cap DOMAIN memos : memos[i].ns # row.ns \/ memos[i].text # row.text,
         \A i \in row.from : Held(i) /\ (memos[i].pinned /\ i \notin late => row.pinned)
  PROVE  /\ RowsStay /\ NewRowOK /\ StatusOK
         /\ DOMAIN memos' = DOMAIN memos \cup {memoNext} /\ memos' \in [DOMAIN memos' -> MemoRow]
         /\ memos'[memoNext] = row /\ \A i \in DOMAIN memos : memos'[i] = memos[i]
         /\ DOMAIN memos' \subseteq 1 .. (memoNext' - 1) /\ memoNext' \in 1 .. (MaxMemos + 1)
<1>0. MaxMemos \in Nat
  BY JobsAssumption
<1>1. /\ memos \in [DOMAIN memos -> MemoRow] /\ memoNext \notin DOMAIN memos
      /\ memoNext \in Nat /\ memoNext >= 1 /\ DOMAIN memos \subseteq 1 .. (memoNext - 1)
  BY <1>0 DEF JobsInv, JobsTyped
<1>2. /\ DOMAIN memos' = DOMAIN memos \cup {memoNext} /\ memos' \in [DOMAIN memos' -> MemoRow]
      /\ memos'[memoNext] = row /\ \A i \in DOMAIN memos : memos'[i] = memos[i]
  BY <1>1 DEF Inserted, With
<1>3. DOMAIN memos' \subseteq 1 .. (memoNext' - 1) /\ memoNext' \in 1 .. (MaxMemos + 1)
  BY <1>0, <1>1, <1>2
<1>4. RowsStay
  BY <1>2 DEF RowsStay, SameBut
<1>5. NewRowOK
  BY <1>2 DEF NewRowOK
<1>6. StatusOK
  BY <1>2 DEF StatusOK, JobsInv, ForgottenByJob
<1> QED
  BY <1>2, <1>3, <1>4, <1>5, <1>6

------------------------------------------------------------------------------
(* What the jobs know of the table stays true. *)

LEMMA CandidateStays ==
  ASSUME JobsInv, RowsStay, NEW x, CandidateOK(x)
  PROVE  CandidateOK(x)'
<1>1. memoNext \in Nat /\ memoNext' \in Nat /\ memoNext <= memoNext'
  BY DEF JobsInv, JobsTyped, RowsStay
<1>2. \A i \in x.seen \cap DOMAIN memos' : i \in DOMAIN memos /\ SameBut(i)
  BY <1>1 DEF RowsStay, CandidateOK
<1>3. \A i \in x.seen \cap DOMAIN memos' :
        memos'[i].ns # x.ns \/ memos'[i].text # Head(x.todo)
  BY <1>2 DEF CandidateOK, SameBut
<1>4. x.seen \subseteq 1 .. (memoNext' - 1) /\ (x.old # None => x.old \in 1 .. (memoNext' - 1))
  <2>1. x.seen \subseteq 1 .. (memoNext' - 1)
    BY <1>1 DEF CandidateOK
  <2>2. x.old # None => x.old \in 1 .. (memoNext' - 1)
    BY <1>1 DEF CandidateOK, RowsStay
  <2> QED
    BY <2>1, <2>2
<1> QED
  BY <1>3, <1>4 DEF CandidateOK

LEMMA ReadingsStay ==
  ASSUME JobsInv, RowsStay, NEW c, ReadingsOK(c), DOMAIN c.listed \subseteq DOMAIN memos'
  PROVE  ReadingsOK(c)'
<1>1. \A i \in DOMAIN c.listed : SameBut(i) /\ late' = late
  BY DEF RowsStay, ReadingsOK
<1> QED
  BY <1>1 DEF ReadingsOK, SameBut

LEMMA StaleStays ==
  ASSUME JobsInv, RowsStay, NEW c, StaleOK(c)
  PROVE  StaleOK(c)'
<1>1. memoNext \in Nat /\ memoNext' \in Nat /\ memoNext <= memoNext'
  BY DEF JobsInv, JobsTyped, RowsStay
<1>2. \A i \in c.stale \cap DOMAIN memos' : i \in DOMAIN memos /\ SameBut(i) /\ late' = late
  BY <1>1 DEF RowsStay, StaleOK
<1>3. c.stale \subseteq 1 .. (memoNext' - 1)
  BY <1>1 DEF StaleOK
<1> QED
  BY <1>2, <1>3 DEF StaleOK, SameBut

LEMMA NewStays ==
  ASSUME JobsInv, RowsStay, NEW c, NewOK(c),
         c.pc \in {"settle", "approve"} =>
           /\ c.new \in DOMAIN memos'
           /\ \/ memos'[c.new].status \in {"active", "pending"}
              \/ memos'[c.new].status = memos[c.new].status
              \/ memos[c.new].text \subseteq dropped'
  PROVE  NewOK(c)'
<1>1. memoNext \in Nat /\ (memoNext' = memoNext \/ memoNext' = memoNext + 1)
  BY DEF JobsInv, JobsTyped, RowsStay
<1>2. c.new # None => c.new \in 1 .. (memoNext' - 1)
  BY <1>1 DEF NewOK
<1>3. ASSUME c.pc \in {"settle", "approve"}
      PROVE  /\ c.new \in DOMAIN memos' /\ c.new \notin DOMAIN c.listed
             /\ memos'[c.new].text = c.listed[c.pair[1]].text \cup c.listed[c.pair[2]].text
             /\ memos'[c.new].type = "semantic"
             /\ \/ memos'[c.new].status \in {"active", "pending"}
                \/ memos'[c.new].text \subseteq dropped'
  <2>1. SameBut(c.new) /\ dropped \subseteq dropped'
    BY <1>3 DEF RowsStay, NewOK
  <2> QED
    BY <1>3, <2>1 DEF NewOK, SameBut
<1> QED
  BY <1>2, <1>3 DEF NewOK

------------------------------------------------------------------------------
(* The invariant after a step, from what the step does. *)

LEMMA JobsAssemble ==
  ASSUME JobsInv, RowsStay, NewRowOK, StatusOK, SettledOK, JobsTyped',
         NEW x, NEW c, extraction' = x, merging' = c,
         x # None => CandidateOK(x)',
         c # None => ReadingsOK(c)' /\ StaleOK(c)' /\ NewOK(c)',
         \A f \in known' : Safe(f)'
  PROVE  JobsInv'
<1>1. /\ RowsSound' /\ ForgottenByJob' /\ SettledFree'
      /\ NotExtractedAgain' /\ PinSurvives' /\ ArchivesOnlyStale' /\ ForgottenStaysOut'
  BY TableStep
<1>2. extraction' # None => CandidateOK(extraction)'
  BY DEF CandidateOK
<1>3. merging' # None => ReadingsOK(merging)' /\ StaleOK(merging)' /\ NewOK(merging)'
  BY DEF ReadingsOK, StaleOK, NewOK
<1> QED
  BY <1>1, <1>2, <1>3 DEF JobsInv

\* A step that leaves the consolidation alone loses no fact but those it drops.
LEMMA SafeAside ==
  ASSUME JobsInv, merging' = merging, known' \subseteq known \cup ActiveFacts(memos'),
         dropped \subseteq dropped', jobErrors' \in {jobErrors, jobErrors + 1},
         \A i \in DOMAIN memos :
           /\ i \in DOMAIN memos' /\ memos'[i].text = memos[i].text
           /\ \/ memos'[i].status = memos[i].status \/ memos'[i].status = "active"
              \/ memos[i].text \subseteq dropped'
  PROVE  \A f \in known' : Safe(f)'
<1> SUFFICES ASSUME NEW f \in known' PROVE Safe(f)'
  OBVIOUS
<1>1. CASE \E i \in DOMAIN memos' : f \in memos'[i].text /\ memos'[i].status = "active"
  BY <1>1 DEF Safe
<1>2. CASE ~\E i \in DOMAIN memos' : f \in memos'[i].text /\ memos'[i].status = "active"
  <2>1. f \in known
    BY <1>2 DEF ActiveFacts
  <2>2. Safe(f) /\ jobErrors \in Nat
    BY <2>1 DEF JobsInv, JobsTyped
  <2>3. CASE \E i \in DOMAIN memos : /\ f \in memos[i].text
                                     /\ \/ memos[i].status = "active"
                                        \/ memos[i].status = "pending" /\ jobErrors # 0
    <3>1. PICK i \in DOMAIN memos : /\ f \in memos[i].text
                                    /\ \/ memos[i].status = "active"
                                       \/ memos[i].status = "pending" /\ jobErrors # 0
      BY <2>3
    <3>2. jobErrors # 0 => jobErrors' # 0
      BY <2>2
    <3>3. f \in dropped' \/ (memos'[i].status = "pending" /\ jobErrors' # 0)
      BY <3>1, <3>2, <1>2
    <3> QED
      BY <3>1, <3>3 DEF Safe
  <2>4. CASE f \in dropped
    BY <2>4 DEF Safe
  <2>5. CASE MergingIs("add") /\ f \in Read(One).text
    BY <2>5 DEF Safe, MergingIs, Read, One
  <2>6. CASE /\ jobErrors = 0 /\ (MergingIs("settle") \/ MergingIs("approve"))
             /\ f \in memos[merging.new].text
    <3> DEFINE m == merging.new
    <3>1. /\ m \in DOMAIN memos /\ merging # None /\ merging.pc \in {"settle", "approve"}
          /\ memos[m].status \in {"active", "pending"} \/ memos[m].text \subseteq dropped
      BY <2>6 DEF JobsInv, NewOK, MergingIs
    <3>2. m \in DOMAIN memos' /\ f \in memos'[m].text
      BY <3>1, <2>6
    <3>3. CASE jobErrors' = 0
      BY <3>1, <3>2, <3>3 DEF Safe, MergingIs
    <3>4. CASE jobErrors' # 0
      <4>1. f \in dropped' \/ memos'[m].status = "pending"
        BY <3>1, <3>2, <1>2, <2>6
      <4> QED
        BY <4>1, <3>2, <3>4 DEF Safe
    <3> QED
      BY <3>3, <3>4
  <2> QED
    BY <2>2, <2>3, <2>4, <2>5, <2>6 DEF Safe
<1> QED
  BY <1>1, <1>2

\* A step of the extraction or of the user.
LEMMA AsideStep ==
  ASSUME JobsInv, RowsStay, NewRowOK, StatusOK, SettledOK, JobsTyped',
         merging' = merging, known' \subseteq known \cup ActiveFacts(memos'),
         jobErrors' \in {jobErrors, jobErrors + 1},
         \A i \in DOMAIN memos :
           /\ i \in DOMAIN memos'
           /\ \/ memos'[i].status = memos[i].status \/ memos'[i].status = "active"
              \/ memos[i].text \subseteq dropped',
         NEW x, extraction' = x, x # None => CandidateOK(x)'
  PROVE  JobsInv'
<1>1. \A i \in DOMAIN memos : memos'[i].text = memos[i].text
  BY DEF RowsStay, SameBut
<1>2. dropped \subseteq dropped'
  BY DEF RowsStay
<1>3. \A f \in known' : Safe(f)'
  BY <1>1, <1>2, SafeAside
<1>4. PICK c : c = merging
  OBVIOUS
<1>5. c # None => ReadingsOK(c) /\ StaleOK(c) /\ NewOK(c)
  BY <1>4 DEF JobsInv
<1>6. ASSUME c # None PROVE ReadingsOK(c)' /\ StaleOK(c)' /\ NewOK(c)'
  <2>1. ReadingsOK(c)'
    <3>1. DOMAIN c.listed \subseteq DOMAIN memos'
      BY <1>5, <1>6 DEF ReadingsOK
    <3> QED
      BY <3>1, <1>5, <1>6, ReadingsStay
  <2>2. StaleOK(c)'
    BY <1>5, <1>6, StaleStays
  <2>3. NewOK(c)'
    <3>1. c.pc \in {"settle", "approve"} =>
           /\ c.new \in DOMAIN memos'
           /\ \/ memos'[c.new].status \in {"active", "pending"}
              \/ memos'[c.new].status = memos[c.new].status
              \/ memos[c.new].text \subseteq dropped'
      BY <1>5, <1>6 DEF NewOK
    <3> QED
      BY <3>1, <1>5, <1>6, NewStays
  <2> QED
    BY <2>1, <2>2, <2>3
<1>7. merging' = c
  BY <1>4
<1> QED
  BY <1>3, <1>6, <1>7, JobsAssemble

------------------------------------------------------------------------------
(* The extraction. *)

LEMMA IdsAreNotNone ==
  ASSUME JobsInv
  PROVE  \A i \in 1 .. (memoNext - 1) : i \in MemoIds /\ i # None
<1>1. MaxMemos \in Nat /\ None \notin MemoIds
  BY JobsAssumption
<1>2. memoNext \in 1 .. (MaxMemos + 1)
  BY DEF JobsInv, JobsTyped
<1>3. ASSUME NEW i \in 1 .. (memoNext - 1) PROVE i \in MemoIds
  BY <1>1, <1>2 DEF MemoIds
<1> QED
  BY <1>1, <1>3

\* A step of the extraction that writes nothing and takes up only what is active.
LEMMA ExtractionCalm ==
  ASSUME JobsInv, Stays, UNCHANGED <<merging, settled, late, dropped>>,
         jobErrors' \in {jobErrors, jobErrors + 1},
         NEW x, extraction' = x, x \in Extraction \cup {None}, x # None => CandidateOK(x),
         x # None => \/ x.old = None
                     \/ extraction # None /\ x.old = extraction.old
                     \/ x.old \in DOMAIN memos /\ memos[x.old].status = "active"
  PROVE  JobsInv'
<1>1. memos' = memos /\ known' = known /\ memoNext' = memoNext
  BY DEF Stays
<1>2. ASSUME NEW i \in 1 .. (memoNext - 1), Held(i)'
      PROVE  Held(i) \/ (i \in DOMAIN memos /\ memos[i].status = "active")
  <2>1. i # None
    BY IdsAreNotNone
  <2> QED
    BY <1>2, <2>1 DEF Held
<1>3. RowsStay /\ NewRowOK /\ StatusOK /\ SettledOK
  BY <1>2, CalmTable
<1>4. JobsTyped'
  <2>1. jobErrors' \in Nat
    BY DEF JobsInv, JobsTyped
  <2> QED
    BY <1>1, <2>1 DEF JobsInv, JobsTyped
<1>5. x # None => CandidateOK(x)'
  BY <1>3, CandidateStays
<1>6. \A i \in DOMAIN memos : i \in DOMAIN memos' /\ memos'[i].status = memos[i].status
  BY <1>1
<1>7. known' \subseteq known \cup ActiveFacts(memos')
  BY <1>1
<1> QED
  BY <1>3, <1>4, <1>5, <1>6, <1>7, AsideStep

LEMMA NextCandidateOK ==
  ASSUME JobsInv, extraction # None, NEW x, x = NextCandidate
  PROVE  /\ x \in Extraction \cup {None}
         /\ x # None => CandidateOK(x) /\ x.old = extraction.old
<1>1. extraction \in Extraction /\ CandidateOK(extraction) /\ None \notin Extraction
  BY JobsAssumption DEF JobsInv, JobsTyped
<1>2. extraction.todo \in Seq(SUBSET Facts) /\ extraction.todo # <<>>
  BY <1>1 DEF Extraction, CandidateOK
<1>3. CASE Len(extraction.todo) = 1
  BY <1>3 DEF NextCandidate
<1>4. CASE Len(extraction.todo) # 1
  <2> DEFINE t == Tail(extraction.todo)
  <2>1. t \in Seq(SUBSET Facts) /\ t # <<>>
    <3>1. t \in Seq(SUBSET Facts) /\ Len(t) = Len(extraction.todo) - 1
      BY <1>2, HeadTailProperties
    <3>2. Len(extraction.todo) \in Nat /\ Len(<<>>) = 0
      BY <1>2, LenProperties, EmptySeq
    <3>3. Len(t) # 0
      BY <1>4, <3>1, <3>2
    <3> HIDE DEF t
    <3>4. t # <<>>
      BY <3>2, <3>3, Zenon
    <3> QED
      BY <3>1, <3>4
  <2> HIDE DEF t
  <2>2. x = [extraction EXCEPT !.pc = "hash", !.todo = t, !.seen = {}]
    BY <1>4 DEF NextCandidate, t
  <2>3. x \in Extraction
    BY <1>1, <2>1, <2>2 DEF Extraction
  <2>4. x.pc = "hash" /\ x.todo = t /\ x.seen = {} /\ x.old = extraction.old
    BY <1>1, <2>2 DEF Extraction
  <2>5. CandidateOK(x)
    BY <1>1, <2>1, <2>4 DEF CandidateOK
  <2> QED
    BY <2>3, <2>4, <2>5
<1> QED
  BY <1>3, <1>4

LEMMA FoundStarts ==
  ASSUME JobsInv, extract_from_thread
  PROVE  JobsInv'
<1>1. PICK ns \in JobSpaces, found \in Found \ {<<>>} :
        extraction' = [ns |-> ns, pc |-> "hash", todo |-> found, vec |-> {}, seen |-> {},
                       old |-> None]
  BY DEF extract_from_thread
<1> DEFINE x == [ns |-> ns, pc |-> "hash", todo |-> found, vec |-> {}, seen |-> {}, old |-> None]
<1>2. found \in Seq(SUBSET Facts) /\ found # <<>>
  <2>1. \A f \in Found : f \in Seq(SUBSET Facts)
    BY JobsAssumption
  <2>2. found \in Found /\ found # <<>>
    OBVIOUS
  <2> QED
    BY <2>1, <2>2, Zenon
<1>3. x \in Extraction
  BY <1>2 DEF Extraction
<1>4. CandidateOK(x)
  BY <1>2 DEF CandidateOK
<1>5. x.old = None
  OBVIOUS
<1>6. extraction' = x
  BY <1>1
<1> HIDE DEF x
<1>7. /\ Stays /\ UNCHANGED <<merging, settled, late, dropped>>
      /\ jobErrors' \in {jobErrors, jobErrors + 1}
  BY DEF extract_from_thread, history
<1> QED
  BY <1>3, <1>4, <1>5, <1>6, <1>7, ExtractionCalm

LEMMA HashChecked ==
  ASSUME JobsInv, CheckHash
  PROVE  JobsInv'
<1> DEFINE text == Head(extraction.todo)
<1>1. /\ extraction \in Extraction /\ extraction # None /\ CandidateOK(extraction)
      /\ extraction.pc = "hash"
  BY DEF CheckHash, ExtractionIs, JobsInv, JobsTyped
<1>2. text \in SUBSET Facts
  BY <1>1, HeadTailProperties DEF Extraction, CandidateOK
<1>3. DOMAIN memos \subseteq 1 .. (memoNext - 1) /\ DOMAIN memos \subseteq MemoIds
  BY IdsAreNotNone DEF JobsInv, JobsTyped
<1>4. PICK vec \in {text, {}} :
        \/ /\ NoError
           /\ ExtractionGoes(
                IF find_by_hash(extraction.ns, text) # {} THEN NextCandidate
                ELSE [extraction EXCEPT !.pc = IF vec = {} THEN "add" ELSE "cosine",
                                        !.vec = vec, !.old = None, !.seen = DOMAIN memos])
        \/ /\ StoreError
           /\ ExtractionGoes([extraction EXCEPT !.pc = IF vec = {} THEN "add" ELSE "contradiction",
                                                !.vec = vec, !.old = None, !.seen = {}])
  BY DEF CheckHash
<1>5. vec \in SUBSET Facts
  BY <1>2
<1>6. /\ Stays /\ UNCHANGED <<merging, settled, late, dropped>>
      /\ jobErrors' \in {jobErrors, jobErrors + 1}
  BY <1>4 DEF CheckHash, NoError, StoreError, ExtractionGoes
<1> HIDE DEF text
<1>7. CASE extraction' = NextCandidate
  <2>1. PICK x : x = NextCandidate
    OBVIOUS
  <2>2. x \in Extraction \cup {None} /\ (x # None => CandidateOK(x) /\ x.old = extraction.old)
    BY <2>1, <1>1, NextCandidateOK
  <2>3. extraction' = x
    BY <1>7, <2>1
  <2> QED
    BY <1>1, <1>6, <2>2, <2>3, ExtractionCalm
<1>8. CASE /\ find_by_hash(extraction.ns, text) = {}
           /\ extraction' = [extraction EXCEPT !.pc = IF vec = {} THEN "add" ELSE "cosine",
                                               !.vec = vec, !.old = None, !.seen = DOMAIN memos]
  <2> DEFINE x == [extraction EXCEPT !.pc = IF vec = {} THEN "add" ELSE "cosine",
                                     !.vec = vec, !.old = None, !.seen = DOMAIN memos]
  <2>1. x \in Extraction
    BY <1>1, <1>3, <1>5 DEF Extraction
  <2>2. /\ x.todo = extraction.todo /\ x.ns = extraction.ns /\ x.seen = DOMAIN memos
        /\ x.old = None /\ x.pc \in {"add", "cosine"}
    BY <1>1 DEF Extraction
  <2>3. extraction' = x
    BY <1>8
  <2> HIDE DEF x
  <2>4. \A i \in DOMAIN memos : memos[i].ns # x.ns \/ memos[i].text # Head(x.todo)
    BY <1>8, <2>2 DEF find_by_hash, text
  <2>5. CandidateOK(x)
    BY <1>1, <1>3, <2>2, <2>4 DEF CandidateOK
  <2> QED
    BY <1>6, <2>1, <2>2, <2>3, <2>5, ExtractionCalm
<1>9. CASE extraction' = [extraction EXCEPT !.pc = IF vec = {} THEN "add" ELSE "contradiction",
                                            !.vec = vec, !.old = None, !.seen = {}]
  <2> DEFINE x == [extraction EXCEPT !.pc = IF vec = {} THEN "add" ELSE "contradiction",
                                     !.vec = vec, !.old = None, !.seen = {}]
  <2>1. x \in Extraction
    BY <1>1, <1>5 DEF Extraction
  <2>2. x.todo = extraction.todo /\ x.seen = {} /\ x.old = None /\ x.pc \in {"add", "contradiction"}
    BY <1>1 DEF Extraction
  <2>3. extraction' = x
    BY <1>9
  <2> HIDE DEF x
  <2>4. CandidateOK(x)
    BY <1>1, <2>2 DEF CandidateOK
  <2> QED
    BY <1>6, <2>1, <2>2, <2>3, <2>4, ExtractionCalm
<1> QED
  BY <1>4, <1>7, <1>8, <1>9 DEF ExtractionGoes

\* The candidate passes on as it is.
LEMMA CandidateGoes ==
  ASSUME JobsInv, extraction # None, extraction.pc # "mark",
         Stays, UNCHANGED <<merging, settled, late, dropped>>, jobErrors' \in {jobErrors, jobErrors + 1},
         NEW s \in {"contradiction", "add"}, extraction' = [extraction EXCEPT !.pc = s]
  PROVE  JobsInv'
<1>1. extraction \in Extraction /\ CandidateOK(extraction)
  BY DEF JobsInv, JobsTyped
<1>2. PICK x : x = [extraction EXCEPT !.pc = s]
  OBVIOUS
<1>3. /\ x \in Extraction /\ x.pc = s /\ x.todo = extraction.todo /\ x.seen = extraction.seen
      /\ x.old = extraction.old /\ x.ns = extraction.ns
  BY <1>1, <1>2 DEF Extraction
<1>4. CandidateOK(x)
  BY <1>1, <1>3 DEF CandidateOK
<1>5. extraction' = x
  BY <1>2
<1> QED
  BY <1>3, <1>4, <1>5, ExtractionCalm

LEMMA CandidateDone ==
  ASSUME JobsInv, extraction # None,
         Stays, UNCHANGED <<merging, settled, late, dropped>>, jobErrors' \in {jobErrors, jobErrors + 1},
         extraction' = NextCandidate
  PROVE  JobsInv'
<1>1. PICK x : x = NextCandidate
  OBVIOUS
<1>2. x \in Extraction \cup {None} /\ (x # None => CandidateOK(x) /\ x.old = extraction.old)
  BY <1>1, NextCandidateOK
<1>3. extraction' = x
  BY <1>1
<1> QED
  BY <1>2, <1>3, ExtractionCalm

LEMMA CosineChecked ==
  ASSUME JobsInv, CheckCosine
  PROVE  JobsInv'
<1>1. extraction # None /\ extraction.pc # "mark"
  BY DEF CheckCosine, ExtractionIs
<1>2. /\ Stays /\ UNCHANGED <<merging, settled, late, dropped>>
      /\ jobErrors' \in {jobErrors, jobErrors + 1}
  BY DEF CheckCosine, ExtractionGoes, NoError, StoreError
<1>3. extraction' = NextCandidate \/ extraction' = [extraction EXCEPT !.pc = "contradiction"]
  BY DEF CheckCosine, ExtractionGoes
<1>4. CASE extraction' = NextCandidate
  BY <1>1, <1>2, <1>4, CandidateDone
<1>5. CASE extraction' = [extraction EXCEPT !.pc = "contradiction"]
  BY <1>1, <1>2, <1>5, CandidateGoes
<1> QED
  BY <1>3, <1>4, <1>5

LEMMA ContradictionFound ==
  ASSUME JobsInv, FindContradiction
  PROVE  JobsInv'
<1>1. /\ extraction # None /\ extraction.pc # "mark" /\ extraction \in Extraction
      /\ CandidateOK(extraction)
  BY DEF FindContradiction, ExtractionIs, JobsInv, JobsTyped
<1>2. /\ Stays /\ UNCHANGED <<merging, settled, late, dropped>>
      /\ jobErrors' \in {jobErrors, jobErrors + 1}
  BY DEF FindContradiction, ExtractionGoes, NoError, StoreError
<1>3. \/ extraction' = [extraction EXCEPT !.pc = "add"]
      \/ \E i \in DOMAIN memos : /\ memos[i].status = "active"
                                 /\ extraction' = [extraction EXCEPT !.pc = "mark", !.old = i]
  BY DEF FindContradiction, ExtractionGoes, get_active_with_embeddings
<1>4. CASE extraction' = [extraction EXCEPT !.pc = "add"]
  BY <1>1, <1>2, <1>4, CandidateGoes
<1>5. ASSUME NEW i \in DOMAIN memos, memos[i].status = "active",
             extraction' = [extraction EXCEPT !.pc = "mark", !.old = i]
      PROVE  JobsInv'
  <2>1. i \in 1 .. (memoNext - 1) /\ i \in MemoIds /\ i # None
    BY IdsAreNotNone DEF JobsInv, JobsTyped
  <2>2. PICK x : x = [extraction EXCEPT !.pc = "mark", !.old = i]
    OBVIOUS
  <2>3. /\ x \in Extraction /\ x.pc = "mark" /\ x.todo = extraction.todo /\ x.seen = extraction.seen
        /\ x.old = i /\ x.ns = extraction.ns
    BY <1>1, <2>1, <2>2 DEF Extraction
  <2>4. CandidateOK(x)
    BY <1>1, <2>1, <2>3 DEF CandidateOK
  <2>5. extraction' = x
    BY <1>5, <2>2
  <2> QED
    BY <1>2, <1>5, <2>3, <2>4, <2>5, ExtractionCalm
<1> QED
  BY <1>3, <1>4, <1>5

LEMMA ContradictedMarked ==
  ASSUME JobsInv, MarkContradicted
  PROVE  JobsInv'
<1> DEFINE i == extraction.old
<1>1. /\ extraction # None /\ extraction.pc = "mark" /\ extraction \in Extraction
      /\ CandidateOK(extraction) /\ i # None /\ i \in 1 .. (memoNext - 1)
  BY DEF MarkContradicted, ExtractionIs, JobsInv, JobsTyped, CandidateOK
<1>2. CASE /\ i \in DOMAIN memos /\ NoError
           /\ Writes(ToStatusOf(i, "superseded")) /\ UNCHANGED memoNext
           /\ dropped' = dropped \cup Fact(i)
           /\ ExtractionGoes([extraction EXCEPT !.pc = "add"])
  <2>1. /\ RowsStay /\ NewRowOK /\ StatusOK
        /\ DOMAIN memos' = DOMAIN memos /\ memos' \in [DOMAIN memos -> MemoRow]
        /\ memos'[i].status = "superseded" /\ memos'[i].text = memos[i].text
        /\ \A j \in DOMAIN memos \ {i} : memos'[j] = memos[j]
    <3>1. Held(i)
      BY <1>1 DEF Held
    <3>2. /\ memos' = ToStatusOf(i, "superseded") /\ memoNext' = memoNext /\ late' = late
          /\ dropped \subseteq dropped' /\ i \in DOMAIN memos /\ "superseded" \in Statuses
      BY <1>2 DEF Writes, ExtractionGoes, Statuses
    <3> QED
      BY <3>1, <3>2, StatusTable
  <2>2. PICK x : x = [extraction EXCEPT !.pc = "add"]
    OBVIOUS
  <2>3. /\ x \in Extraction /\ x.pc = "add" /\ x.todo = extraction.todo /\ x.seen = extraction.seen
        /\ x.old = extraction.old /\ x.ns = extraction.ns
    BY <1>1, <2>2 DEF Extraction
  <2>4. CandidateOK(x)
    BY <1>1, <2>3 DEF CandidateOK
  <2>5. CandidateOK(x)'
    BY <2>1, <2>4, CandidateStays
  <2>6. extraction' = x /\ merging' = merging /\ settled' = settled
    BY <1>2, <2>2 DEF ExtractionGoes
  <2>7. SettledOK
    <3>1. \A j \in 1 .. (memoNext - 1) : Held(j)' => Held(j)
      BY <2>3, <2>6, <1>1 DEF Held
    <3> QED
      BY <3>1, <2>6 DEF SettledOK
  <2>8. jobErrors' = jobErrors /\ memoNext' = memoNext
    BY <1>2 DEF NoError
  <2>9. JobsTyped'
    BY <2>1, <2>3, <2>6, <2>8 DEF JobsInv, JobsTyped
  <2>10. known' \subseteq known \cup ActiveFacts(memos')
    BY <1>2 DEF Writes
  <2>11. \A j \in DOMAIN memos :
           /\ j \in DOMAIN memos'
           /\ \/ memos'[j].status = memos[j].status \/ memos'[j].status = "active"
              \/ memos[j].text \subseteq dropped'
    BY <1>2, <2>1 DEF Fact
  <2> QED
    BY <2>1, <2>5, <2>6, <2>7, <2>8, <2>9, <2>10, <2>11, AsideStep
<1>3. CASE /\ (i \notin DOMAIN memos /\ NoError) \/ StoreError
           /\ Stays /\ UNCHANGED dropped
           /\ ExtractionGoes(NextCandidate)
  <2>1. /\ Stays /\ UNCHANGED <<merging, settled, late, dropped>>
        /\ jobErrors' \in {jobErrors, jobErrors + 1} /\ extraction' = NextCandidate
    BY <1>3 DEF ExtractionGoes, NoError, StoreError
  <2> QED
    BY <1>1, <2>1, CandidateDone
<1> QED
  BY <1>2, <1>3 DEF MarkContradicted

LEMMA CandidateAdded ==
  ASSUME JobsInv, AddCandidate
  PROVE  JobsInv'
<1> DEFINE text == Head(extraction.todo)
           row == [Memo(extraction.ns, text, "semantic", "pending", FALSE)
                     EXCEPT !.vec = extraction.vec, !.seen = extraction.seen]
<1>1. /\ extraction # None /\ extraction \in Extraction /\ CandidateOK(extraction)
      /\ extraction' = NextCandidate
  BY DEF AddCandidate, ExtractionIs, ExtractionGoes, JobsInv, JobsTyped
<1>2. /\ merging' = merging /\ settled' = settled /\ late' = late /\ dropped' = dropped
      /\ memoNext <= MaxMemos
  BY DEF AddCandidate, ExtractionGoes
<1>3. CASE ~Guarded(text) /\ NoError /\ Writes(Inserted(row)) /\ memoNext' = memoNext + 1
  <2>1. text \in SUBSET Facts
    BY <1>1, HeadTailProperties DEF Extraction, CandidateOK
  <2>2. PICK r : r = row
    OBVIOUS
  <2>3. /\ r \in MemoRow /\ r.text = text /\ r.ns = extraction.ns /\ r.by = "user" /\ r.from = {}
        /\ r.seen = extraction.seen /\ r.status = "pending"
    BY <1>1, <2>1, <2>2 DEF Memo, MemoRow, Extraction
  <2>4. /\ r.text \cap SecretFacts = {}
        /\ r.from \subseteq DOMAIN memos /\ r.seen \subseteq 1 .. (memoNext - 1)
        /\ \A i \in r.seen \cap DOMAIN memos : memos[i].ns # r.ns \/ memos[i].text # r.text
        /\ \A i \in r.from : Held(i) /\ (memos[i].pinned /\ i \notin late => r.pinned)
    BY <1>1, <1>3, <2>3 DEF Guarded, CandidateOK
  <2>5. memos' = Inserted(r) /\ memoNext' = memoNext + 1 /\ dropped \subseteq dropped'
    BY <1>2, <1>3, <2>2 DEF Writes
  <2>6. /\ RowsStay /\ NewRowOK /\ StatusOK
        /\ DOMAIN memos' = DOMAIN memos \cup {memoNext} /\ memos' \in [DOMAIN memos' -> MemoRow]
        /\ memos'[memoNext] = r /\ \A i \in DOMAIN memos : memos'[i] = memos[i]
        /\ DOMAIN memos' \subseteq 1 .. (memoNext' - 1) /\ memoNext' \in 1 .. (MaxMemos + 1)
    BY <1>2, <2>3, <2>4, <2>5, InsertedTable
  <2>7. PICK x : x = NextCandidate
    OBVIOUS
  <2>8. x \in Extraction \cup {None} /\ (x # None => CandidateOK(x) /\ x.old = extraction.old)
    BY <1>1, <2>7, NextCandidateOK
  <2>9. x # None => CandidateOK(x)'
    BY <2>6, <2>8, CandidateStays
  <2>10. extraction' = x
    BY <1>1, <2>7
  <2>11. SettledOK
    <3>1. \A j \in 1 .. (memoNext - 1) : Held(j)' => Held(j)
      BY <1>1, <1>2, <2>8, <2>10 DEF Held
    <3> QED
      BY <3>1, <1>2 DEF SettledOK
  <2>12. jobErrors' = jobErrors
    BY <1>3 DEF NoError
  <2>13. JobsTyped'
    BY <1>2, <2>6, <2>8, <2>10, <2>12 DEF JobsInv, JobsTyped
  <2>14. known' \subseteq known \cup ActiveFacts(memos')
    BY <1>3 DEF Writes
  <2>15. \A j \in DOMAIN memos : j \in DOMAIN memos' /\ memos'[j].status = memos[j].status
    BY <2>6
  <2> QED
    BY <1>2, <2>6, <2>9, <2>10, <2>11, <2>12, <2>13, <2>14, <2>15, AsideStep
<1>4. CASE ((Guarded(text) /\ NoError) \/ StoreError) /\ Stays
  <2>1. jobErrors' \in {jobErrors, jobErrors + 1}
    BY <1>4 DEF NoError, StoreError
  <2> QED
    BY <1>1, <1>2, <1>4, <2>1, CandidateDone
<1> QED
  BY <1>3, <1>4 DEF AddCandidate

------------------------------------------------------------------------------
(* The user. *)

\* The user gives a memory that is active or pending another status.
LEMMA UserSetsStatus ==
  ASSUME JobsInv, NEW i \in DOMAIN memos, NEW s \in {"active", "forgotten", "archived"},
         memos' = ToStatusOf(i, s), known' = known \cup ActiveFacts(memos'),
         UNCHANGED <<memoNext, extraction, merging, jobErrors, late>>, dropped \subseteq dropped',
         memos[i].status \in {"active", "pending"}, s = "active" \/ memos[i].text \subseteq dropped',
         \/ settled' = settled
         \/ s # "active" /\ ~Held(i) /\ settled' = settled \cup {<<i, memoNext>>}
  PROVE  JobsInv'
<1>1. s \in Statuses
  BY DEF Statuses
<1>2. memos[i].by # "job"
  BY DEF JobsInv, ForgottenByJob
<1>3. /\ RowsStay /\ NewRowOK /\ StatusOK
      /\ DOMAIN memos' = DOMAIN memos /\ memos' \in [DOMAIN memos -> MemoRow]
      /\ memos'[i].status = s /\ memos'[i].text = memos[i].text
      /\ \A j \in DOMAIN memos \ {i} : memos'[j] = memos[j]
  BY <1>1, <1>2, StatusTable
<1>4. \A j : Held(j)' <=> Held(j)
  BY DEF Held
<1>5. SettledOK
  <2>1. memoNext \notin DOMAIN memos'
    BY <1>3 DEF JobsInv, JobsTyped
  <2> QED
    BY <1>3, <1>4, <2>1 DEF SettledOK
<1>6. JobsTyped'
  BY <1>3 DEF JobsInv, JobsTyped
<1>7. PICK x : x = extraction
  OBVIOUS
<1>8. x # None => CandidateOK(x)
  BY <1>7 DEF JobsInv
<1>9. x # None => CandidateOK(x)'
  BY <1>3, <1>8, CandidateStays
<1>10. extraction' = x /\ jobErrors' \in {jobErrors, jobErrors + 1}
  BY <1>7
<1>11. \A j \in DOMAIN memos :
         /\ j \in DOMAIN memos'
         /\ \/ memos'[j].status = memos[j].status \/ memos'[j].status = "active"
            \/ memos[j].text \subseteq dropped'
  BY <1>3
<1>12. known' \subseteq known \cup ActiveFacts(memos')
  OBVIOUS
<1> QED
  BY <1>3, <1>5, <1>6, <1>9, <1>10, <1>11, <1>12, AsideStep

LEMMA UserTakesBack ==
  ASSUME JobsInv, NEW i \in DOMAIN memos, NEW s \in {"forgotten", "archived"}, TakesBack(i, s)
  PROVE  JobsInv'
<1>1. /\ memos' = ToStatusOf(i, s) /\ known' = known \cup ActiveFacts(memos')
      /\ UNCHANGED <<memoNext, extraction, merging, jobErrors, late>>
      /\ memos[i].status \in {"active", "pending"}
  BY DEF TakesBack, Writes, ToStatusOf
<1>2. dropped \subseteq dropped' /\ memos[i].text \subseteq dropped'
  BY DEF TakesBack, Fact
<1>3. settled' = settled \/ (~Held(i) /\ settled' = settled \cup {<<i, memoNext>>})
  BY DEF TakesBack
<1> QED
  BY <1>1, <1>2, <1>3, UserSetsStatus

LEMMA UserApproves ==
  ASSUME JobsInv, NEW i \in DOMAIN memos, Approves(i)
  PROVE  JobsInv'
<1>1. /\ memos' = ToStatusOf(i, "active") /\ known' = known \cup ActiveFacts(memos')
      /\ UNCHANGED <<memoNext, extraction, merging, jobErrors, late>>
      /\ memos[i].status \in {"active", "pending"}
      /\ dropped \subseteq dropped' /\ settled' = settled
  BY DEF Approves, Writes, ToStatusOf, history
<1> QED
  BY <1>1, UserSetsStatus

\* A pin, or the touch of a search: what a job has read of the memory is stale by then.
LEMMA UserMarks ==
  ASSUME JobsInv, NEW i \in DOMAIN memos, NEW n,
         n = [memos[i] EXCEPT !.pinned = TRUE] \/ n = [memos[i] EXCEPT !.used = TRUE],
         Marks(i, n)
  PROVE  JobsInv'
<1>1. memos \in [DOMAIN memos -> MemoRow] /\ memos[i] \in MemoRow
  BY DEF JobsInv, JobsTyped
<1>2. /\ n \in MemoRow /\ n.ns = memos[i].ns /\ n.text = memos[i].text /\ n.type = memos[i].type
      /\ n.old = memos[i].old /\ n.from = memos[i].from /\ n.seen = memos[i].seen
      /\ n.by = memos[i].by /\ n.status = memos[i].status
      /\ memos[i].pinned => n.pinned
  BY <1>1 DEF MemoRow
<1>3. /\ memos' = [memos EXCEPT ![i] = n]
      /\ UNCHANGED <<extraction, merging, memoNext, jobErrors, known, dropped, settled>>
      /\ late \subseteq late'
      /\ Held(i) \/ memos[i].status # "active" \/ (\E j \in DOMAIN memos : i \in memos[j].from)
           => i \in late'
  BY DEF Marks
<1>4. /\ DOMAIN memos' = DOMAIN memos /\ memos' \in [DOMAIN memos -> MemoRow] /\ memos'[i] = n
      /\ \A j \in DOMAIN memos \ {i} : memos'[j] = memos[j]
  BY <1>1, <1>2, <1>3
<1>5. \A j \in DOMAIN memos :
        /\ memos'[j].ns = memos[j].ns /\ memos'[j].text = memos[j].text
        /\ memos'[j].type = memos[j].type /\ memos'[j].old = memos[j].old
        /\ memos'[j].from = memos[j].from /\ memos'[j].seen = memos[j].seen
        /\ memos'[j].by = memos[j].by /\ memos'[j].status = memos[j].status
        /\ memos[j].pinned => memos'[j].pinned
  BY <1>2, <1>4
<1>6. \A j : Held(j)' <=> Held(j)
  BY <1>3 DEF Held
<1>7. JobsTyped'
  BY <1>3, <1>4 DEF JobsInv, JobsTyped
<1>8. RowsSound'
  BY <1>4, <1>5 DEF JobsInv, RowsSound
<1>9. ASSUME extraction' # None PROVE CandidateOK(extraction)'
  BY <1>3, <1>4, <1>5, <1>9 DEF JobsInv, CandidateOK
<1>10. ASSUME merging' # None PROVE ReadingsOK(merging)'
  <2>1. merging # None /\ merging' = merging /\ ReadingsOK(merging)
    BY <1>3, <1>10 DEF JobsInv
  <2>2. i \in DOMAIN merging.listed => i \in late'
    BY <2>1, <1>3 DEF Held
  <2>3. \A j \in DOMAIN merging.listed :
          /\ merging.listed[j].text = memos'[j].text
          /\ memos'[j].pinned /\ j \notin late' => merging.listed[j].pinned
    BY <2>1, <2>2, <1>3, <1>4, <1>5 DEF ReadingsOK
  <2> QED
    BY <2>1, <2>3, <1>4 DEF ReadingsOK
<1>11. ASSUME merging' # None PROVE StaleOK(merging)'
  <2>1. merging # None /\ merging' = merging /\ StaleOK(merging)
    BY <1>3, <1>11 DEF JobsInv
  <2>2. i \in merging.stale => i \in late'
    BY <2>1, <1>3 DEF Held
  <2>3. \A j \in merging.stale \cap DOMAIN memos' :
          /\ memos'[j].type = "episodic" /\ memos'[j].old
          /\ j \in late' \/ (~memos'[j].pinned /\ ~memos'[j].used)
    BY <2>1, <2>2, <1>3, <1>4, <1>5 DEF StaleOK
  <2> QED
    BY <2>1, <2>3, <1>3 DEF StaleOK
<1>12. ASSUME merging' # None PROVE NewOK(merging)'
  <2>1. merging # None /\ merging' = merging /\ NewOK(merging)
    BY <1>3, <1>12 DEF JobsInv
  <2> QED
    BY <2>1, <1>3, <1>4, <1>5 DEF NewOK
<1>13. \A f \in known' : Safe(f)'
  <2>1. \A j \in DOMAIN memos :
          /\ j \in DOMAIN memos' /\ memos'[j].text = memos[j].text
          /\ \/ memos'[j].status = memos[j].status \/ memos'[j].status = "active"
             \/ memos[j].text \subseteq dropped'
    BY <1>4, <1>5
  <2>2. merging' = merging /\ known' \subseteq known \cup ActiveFacts(memos')
        /\ dropped \subseteq dropped' /\ jobErrors' \in {jobErrors, jobErrors + 1}
    BY <1>3
  <2> QED
    BY <2>1, <2>2, SafeAside
<1>14. ForgottenByJob'
  BY <1>4, <1>5 DEF JobsInv, ForgottenByJob
<1>15. SettledFree'
  BY <1>3, <1>6 DEF JobsInv, SettledFree
<1>16. NotExtractedAgain'
  BY <1>4, <1>5 DEF JobsInv, NotExtractedAgain
<1>17. PinSurvives'
  <2> SUFFICES ASSUME NEW j \in DOMAIN memos, NEW k \in memos[j].from \cap DOMAIN memos,
                      memos'[k].pinned, k \notin late'
               PROVE  memos'[j].pinned
    BY <1>4, <1>5 DEF PinSurvives
  <2>1. k # i /\ memos[k].pinned /\ k \notin late
    BY <1>3, <1>4
  <2> QED
    BY <2>1, <1>5 DEF JobsInv, PinSurvives
<1>18. ArchivesOnlyStale'
  <2> SUFFICES ASSUME NEW j \in DOMAIN memos, memos[j].by = "job"
               PROVE  /\ memos'[j].type = "episodic" /\ memos'[j].old
                      /\ j \in late' \/ (~memos'[j].pinned /\ ~memos'[j].used)
    BY <1>4, <1>5 DEF ArchivesOnlyStale
  <2>1. /\ memos[j].type = "episodic" /\ memos[j].old
        /\ j \in late \/ (~memos[j].pinned /\ ~memos[j].used)
        /\ memos[j].status # "active"
    BY DEF JobsInv, ArchivesOnlyStale, ForgottenByJob
  <2> QED
    BY <2>1, <1>3, <1>4, <1>5
<1>19. ForgottenStaysOut'
  BY <1>3, <1>4, <1>5 DEF JobsInv, ForgottenStaysOut
<1> QED
  BY <1>7, <1>8, <1>9, <1>10, <1>11, <1>12, <1>13, <1>14, <1>15, <1>16, <1>17, <1>18, <1>19
  DEF JobsInv

------------------------------------------------------------------------------
(* The consolidation. *)

MergingPcs == {"purge", "stale", "forget", "list", "next", "mark", "add", "settle", "approve"}

LEMMA MergingPc ==
  ASSUME NEW m \in Merging, NEW s \in MergingPcs, NEW c, c = [m EXCEPT !.pc = s]
  PROVE  /\ c \in Merging /\ c.pc = s /\ c.ns = m.ns /\ c.stale = m.stale /\ c.listed = m.listed
         /\ c.gone = m.gone /\ c.pair = m.pair /\ c.new = m.new
BY DEF Merging, MergingPcs

\* No fact is lost by a step that keeps the rows in use, and those in the hands of a merge.
LEMMA SafeStep ==
  ASSUME JobsInv, known' \subseteq known \cup ActiveFacts(memos'),
         dropped \subseteq dropped', jobErrors' \in {jobErrors, jobErrors + 1},
         \A i \in DOMAIN memos :
           memos[i].status = "active" \/ (memos[i].status = "pending" /\ jobErrors # 0) =>
             \/ /\ i \in DOMAIN memos' /\ memos'[i].text = memos[i].text
                /\ memos'[i].status = memos[i].status \/ memos'[i].status = "active"
             \/ \A f \in memos[i].text : Safe(f)',
         MergingIs("add") => \A f \in Read(One).text : Safe(f)',
         jobErrors = 0 /\ (MergingIs("settle") \/ MergingIs("approve")) =>
           \A f \in memos[merging.new].text : Safe(f)'
  PROVE  \A f \in known' : Safe(f)'
<1> SUFFICES ASSUME NEW f \in known' PROVE Safe(f)'
  OBVIOUS
<1>1. CASE \E i \in DOMAIN memos' : f \in memos'[i].text /\ memos'[i].status = "active"
  BY <1>1 DEF Safe
<1>2. CASE ~\E i \in DOMAIN memos' : f \in memos'[i].text /\ memos'[i].status = "active"
  <2>1. f \in known
    BY <1>2 DEF ActiveFacts
  <2>2. Safe(f) /\ jobErrors \in Nat
    BY <2>1 DEF JobsInv, JobsTyped
  <2>3. ASSUME NEW i \in DOMAIN memos, f \in memos[i].text,
               memos[i].status = "active" \/ (memos[i].status = "pending" /\ jobErrors # 0)
        PROVE  Safe(f)'
    <3>1. CASE \A g \in memos[i].text : Safe(g)'
      BY <2>3, <3>1
    <3>2. CASE /\ i \in DOMAIN memos' /\ memos'[i].text = memos[i].text
               /\ memos'[i].status = memos[i].status \/ memos'[i].status = "active"
      <4>1. memos'[i].status = "pending" /\ jobErrors # 0 /\ jobErrors' # 0
        BY <2>2, <2>3, <3>2, <1>2
      <4> QED
        BY <4>1, <2>3, <3>2 DEF Safe
    <3> QED
      BY <2>3, <3>1, <3>2
  <2>4. CASE f \in dropped
    BY <2>4 DEF Safe
  <2>5. CASE MergingIs("add") /\ f \in Read(One).text
    BY <2>5
  <2>6. CASE /\ jobErrors = 0 /\ (MergingIs("settle") \/ MergingIs("approve"))
             /\ f \in memos[merging.new].text
    BY <2>6
  <2> QED
    BY <2>2, <2>3, <2>4, <2>5, <2>6 DEF Safe
<1> QED
  BY <1>1, <1>2

LEMMA MergeStep ==
  ASSUME JobsInv, RowsStay, NewRowOK, StatusOK, UNCHANGED <<extraction, settled>>,
         jobErrors' \in {jobErrors, jobErrors + 1},
         memoNext' \in 1 .. (MaxMemos + 1), DOMAIN memos' \subseteq 1 .. (memoNext' - 1),
         memos' \in [DOMAIN memos' -> MemoRow],
         NEW c, merging' = c, c \in Merging \cup {None},
         c # None => ReadingsOK(c)' /\ StaleOK(c)' /\ NewOK(c)',
         c # None => \A i \in 1 .. (memoNext - 1) :
                       i \in DOMAIN c.listed \cup c.stale \/ i = c.new =>
                         Held(i) \/ (i \in DOMAIN memos /\ memos[i].status = "active"),
         \A f \in known' : Safe(f)'
  PROVE  JobsInv'
<1>1. JobsTyped'
  BY DEF JobsInv, JobsTyped
<1>2. PICK x : x = extraction
  OBVIOUS
<1>3. x # None => CandidateOK(x)
  BY <1>2 DEF JobsInv
<1>4. x # None => CandidateOK(x)'
  BY <1>3, CandidateStays
<1>5. ASSUME NEW i \in 1 .. (memoNext - 1), Held(i)'
      PROVE  Held(i) \/ (i \in DOMAIN memos /\ memos[i].status = "active")
  <2>1. CASE merging' # None /\ (i \in DOMAIN merging'.listed \cup merging'.stale \/ i = merging'.new)
    BY <2>1
  <2>2. CASE extraction' # None /\ extraction'.old = i
    BY <2>2 DEF Held
  <2> QED
    BY <1>5, <2>1, <2>2 DEF Held
<1>6. SettledOK
  BY <1>5 DEF SettledOK
<1>7. extraction' = x
  BY <1>2
<1> QED
  BY <1>1, <1>4, <1>6, <1>7, JobsAssemble

\* A step of the consolidation that writes nothing.
LEMMA MergeCalm ==
  ASSUME JobsInv, Stays, UNCHANGED <<extraction, settled, late>>, dropped \subseteq dropped',
         jobErrors' \in {jobErrors, jobErrors + 1},
         NEW c, merging' = c, c \in Merging \cup {None},
         c # None => ReadingsOK(c) /\ StaleOK(c) /\ NewOK(c),
         c # None => \A i \in 1 .. (memoNext - 1) :
                       i \in DOMAIN c.listed \cup c.stale \/ i = c.new =>
                         Held(i) \/ (i \in DOMAIN memos /\ memos[i].status = "active"),
         MergingIs("add") => Read(One).text \subseteq dropped',
         jobErrors = 0 /\ (MergingIs("settle") \/ MergingIs("approve")) =>
           \A f \in memos[merging.new].text : Safe(f)'
  PROVE  JobsInv'
<1>1. memos' = memos /\ known' = known /\ memoNext' = memoNext
  BY DEF Stays
<1>2. ASSUME NEW i \in 1 .. (memoNext - 1), Held(i)'
      PROVE  Held(i) \/ (i \in DOMAIN memos /\ memos[i].status = "active")
  BY <1>2 DEF Held
<1>3. RowsStay /\ NewRowOK /\ StatusOK
  BY <1>2, CalmTable
<1>4. /\ memoNext' \in 1 .. (MaxMemos + 1) /\ DOMAIN memos' \subseteq 1 .. (memoNext' - 1)
      /\ memos' \in [DOMAIN memos' -> MemoRow]
  BY <1>1 DEF JobsInv, JobsTyped
<1>5. \A f \in known' : Safe(f)'
  <2>1. MergingIs("add") => \A f \in Read(One).text : Safe(f)'
    BY DEF Safe
  <2>2. known' \subseteq known \cup ActiveFacts(memos')
    BY <1>1
  <2>3. \A i \in DOMAIN memos :
          /\ i \in DOMAIN memos' /\ memos'[i].text = memos[i].text
          /\ memos'[i].status = memos[i].status \/ memos'[i].status = "active"
    BY <1>1
  <2> QED
    BY <2>1, <2>2, <2>3, SafeStep
<1>6. ASSUME c # None PROVE ReadingsOK(c)' /\ StaleOK(c)' /\ NewOK(c)'
  <2>1. ReadingsOK(c)'
    <3>1. DOMAIN c.listed \subseteq DOMAIN memos'
      BY <1>1, <1>6 DEF ReadingsOK
    <3> QED
      BY <3>1, <1>3, <1>6, ReadingsStay
  <2>2. StaleOK(c)'
    BY <1>3, <1>6, StaleStays
  <2>3. NewOK(c)'
    <3>1. c.pc \in {"settle", "approve"} =>
            c.new \in DOMAIN memos' /\ memos'[c.new].status = memos[c.new].status
      BY <1>1, <1>6 DEF NewOK
    <3> QED
      BY <3>1, <1>3, <1>6, NewStays
  <2> QED
    BY <2>1, <2>2, <2>3
<1> QED
  BY <1>3, <1>4, <1>5, <1>6, MergeStep

LEMMA RunStarts ==
  ASSUME JobsInv, run
  PROVE  JobsInv'
<1>1. PICK ns \in JobSpaces :
        merging' = [ns |-> ns, pc |-> "purge", stale |-> {}, listed |-> [i \in {} |-> None],
                    gone |-> {}, pair |-> <<0, 0>>, new |-> None]
  BY DEF run
<1> DEFINE none == [i \in {} |-> None]
<1>2. DOMAIN none = {} /\ none \in [{} -> Reading]
  OBVIOUS
<1> HIDE DEF none
<1> DEFINE c == [ns |-> ns, pc |-> "purge", stale |-> {}, listed |-> none,
                 gone |-> {}, pair |-> <<0, 0>>, new |-> None]
<1>3. c \in Merging
  <2>1. none \in UNION {[ids -> Reading] : ids \in SUBSET MemoIds}
    BY <1>2
  <2>2. <<0, 0>> \in Nat \X Nat
    OBVIOUS
  <2> QED
    BY <2>1, <2>2 DEF Merging
<1>4. c.pc = "purge" /\ DOMAIN c.listed = {} /\ c.stale = {} /\ c.new = None
  BY <1>2
<1>5. merging' = c
  BY <1>1 DEF none
<1> HIDE DEF c
<1>6. ReadingsOK(c) /\ StaleOK(c) /\ NewOK(c)
  BY <1>4 DEF ReadingsOK, StaleOK, NewOK
<1>7. \A i \in 1 .. (memoNext - 1) : ~(i \in DOMAIN c.listed \cup c.stale \/ i = c.new)
  BY <1>4, IdsAreNotNone
<1>8. /\ Stays /\ UNCHANGED <<extraction, settled, late>> /\ dropped \subseteq dropped'
      /\ jobErrors' \in {jobErrors, jobErrors + 1} /\ merging = None
  BY DEF run, history
<1>9. ~MergingIs("add") /\ ~MergingIs("settle") /\ ~MergingIs("approve")
  BY <1>8 DEF MergingIs
<1> QED
  BY <1>3, <1>5, <1>6, <1>7, <1>8, <1>9, MergeCalm

\* The consolidation as the invariant has it, while it is under way.
LEMMA MergingNow ==
  ASSUME JobsInv, merging # None
  PROVE  merging \in Merging /\ ReadingsOK(merging) /\ StaleOK(merging) /\ NewOK(merging)
BY DEF JobsInv, JobsTyped

\* What it holds it held before.
LEMMA HeldAsBefore ==
  ASSUME JobsInv, merging # None, NEW c,
         DOMAIN c.listed \subseteq DOMAIN merging.listed, c.stale \subseteq merging.stale,
         c.new = merging.new
  PROVE  \A i \in 1 .. (memoNext - 1) :
           i \in DOMAIN c.listed \cup c.stale \/ i = c.new => Held(i)
BY DEF Held

LEMMA Purged ==
  ASSUME JobsInv, Purge
  PROVE  JobsInv'
<1>1. /\ merging # None /\ merging.pc = "purge" /\ merging \in Merging
      /\ ReadingsOK(merging) /\ StaleOK(merging) /\ NewOK(merging)
  BY MergingNow DEF Purge, MergingIs
<1>2. PICK c : c = [merging EXCEPT !.pc = "stale"]
  OBVIOUS
<1>3. /\ c \in Merging /\ c.pc = "stale" /\ c.stale = merging.stale /\ c.listed = merging.listed
      /\ c.new = merging.new
  <2>1. "stale" \in MergingPcs
    BY DEF MergingPcs
  <2> QED
    BY <1>1, <1>2, <2>1, MergingPc
<1>4. /\ merging' = c /\ UNCHANGED <<extraction, settled, late, dropped, known, memoNext>>
      /\ jobErrors' \in {jobErrors, jobErrors + 1}
  BY <1>2 DEF Purge, MergingGoes, NoError, StoreError
<1>5. /\ DOMAIN memos' \subseteq DOMAIN memos
      /\ \A i \in DOMAIN memos' : memos'[i] = memos[i]
      /\ \A i \in DOMAIN memos : i \in DOMAIN memos' \/ memos[i].status = "forgotten"
      /\ memos' = [i \in DOMAIN memos' |-> memos'[i]]
  <2>1. CASE memos' = memos
    BY <2>1 DEF JobsInv, JobsTyped
  <2>2. CASE \E gone \in SUBSET {i \in DOMAIN memos : memos[i].status = "forgotten"} :
               memos' = [i \in DOMAIN memos \ gone |-> memos[i]]
    BY <2>2
  <2> QED
    BY <2>1, <2>2 DEF Purge
<1>6. memos \in [DOMAIN memos -> MemoRow] /\ DOMAIN memos \subseteq 1 .. (memoNext - 1)
      /\ memoNext \in 1 .. (MaxMemos + 1) /\ memoNext \notin DOMAIN memos
  BY DEF JobsInv, JobsTyped
<1>7. memos' \in [DOMAIN memos' -> MemoRow] /\ DOMAIN memos' \subseteq 1 .. (memoNext' - 1)
      /\ memoNext' \in 1 .. (MaxMemos + 1)
  BY <1>4, <1>5, <1>6
<1>8. RowsStay
  BY <1>4, <1>5, <1>6 DEF RowsStay, SameBut
<1>9. NewRowOK
  BY <1>5, <1>6 DEF NewRowOK
<1>10. StatusOK
  BY <1>5 DEF StatusOK, JobsInv, ForgottenByJob
<1>11. \A f \in known' : Safe(f)'
  <2>1. ~MergingIs("add") /\ ~MergingIs("settle") /\ ~MergingIs("approve")
    BY <1>1 DEF MergingIs
  <2>2. \A i \in DOMAIN memos :
          memos[i].status = "active" \/ (memos[i].status = "pending" /\ jobErrors # 0) =>
            /\ i \in DOMAIN memos' /\ memos'[i].text = memos[i].text
            /\ memos'[i].status = memos[i].status
    BY <1>5
  <2>3. known' \subseteq known \cup ActiveFacts(memos') /\ dropped \subseteq dropped'
    BY <1>4
  <2> QED
    BY <1>4, <2>1, <2>2, <2>3, SafeStep
<1>12. ReadingsOK(c)' /\ StaleOK(c)' /\ NewOK(c)'
  <2>1. DOMAIN c.listed = {}
    BY <1>1, <1>3 DEF ReadingsOK
  <2>2. ReadingsOK(c)
    BY <1>3, <2>1 DEF ReadingsOK
  <2>3. StaleOK(c) /\ NewOK(c)
    BY <1>1, <1>3 DEF StaleOK, NewOK
  <2>4. ReadingsOK(c)'
    BY <1>8, <2>1, <2>2, ReadingsStay
  <2>5. StaleOK(c)'
    BY <1>8, <2>3, StaleStays
  <2>6. NewOK(c)'
    <3>1. c.pc \notin {"settle", "approve"}
      BY <1>3
    <3> QED
      BY <3>1, <1>8, <2>3, NewStays
  <2> QED
    BY <2>4, <2>5, <2>6
<1>13. \A i \in 1 .. (memoNext - 1) : i \in DOMAIN c.listed \cup c.stale \/ i = c.new => Held(i)
  BY <1>1, <1>3, HeldAsBefore
<1> QED
  BY <1>3, <1>4, <1>7, <1>8, <1>9, <1>10, <1>11, <1>12, <1>13, MergeStep

LEMMA StaleListed ==
  ASSUME JobsInv, ListStale
  PROVE  JobsInv'
<1>1. /\ merging # None /\ merging.pc = "stale" /\ merging \in Merging
      /\ ReadingsOK(merging) /\ StaleOK(merging) /\ NewOK(merging)
  BY MergingNow DEF ListStale, MergingIs
<1>2. /\ Stays /\ UNCHANGED <<extraction, settled, late>> /\ dropped \subseteq dropped'
      /\ jobErrors' \in {jobErrors, jobErrors + 1}
  BY DEF ListStale, MergingGoes, NoError, StoreError
<1>3. ~MergingIs("add") /\ ~MergingIs("settle") /\ ~MergingIs("approve")
  BY <1>1 DEF MergingIs
<1>4. DOMAIN memos \subseteq 1 .. (memoNext - 1) /\ DOMAIN memos \subseteq MemoIds
  BY IdsAreNotNone DEF JobsInv, JobsTyped
<1> DEFINE old == {i \in DOMAIN memos : memos[i].ns = merging.ns /\ Stale(memos[i])}
<1>5. CASE merging' = [merging EXCEPT !.pc = "forget", !.stale = old]
  <2>1. PICK c : c = [merging EXCEPT !.pc = "forget", !.stale = old]
    OBVIOUS
  <2>2. old \subseteq DOMAIN memos /\ \A i \in old : Stale(memos[i])
    OBVIOUS
  <2>3. merging' = c
    BY <1>5, <2>1
  <2> HIDE DEF old
  <2>4. /\ c \in Merging /\ c.pc = "forget" /\ c.stale = old /\ c.listed = merging.listed
        /\ c.new = merging.new
    BY <1>1, <1>4, <2>1, <2>2 DEF Merging
  <2>5. ReadingsOK(c) /\ NewOK(c)
    BY <1>1, <2>4 DEF ReadingsOK, NewOK
  <2>6. StaleOK(c)
    BY <1>4, <2>2, <2>4 DEF StaleOK, Stale
  <2>7. \A i \in 1 .. (memoNext - 1) :
          i \in DOMAIN c.listed \cup c.stale \/ i = c.new =>
            Held(i) \/ (i \in DOMAIN memos /\ memos[i].status = "active")
    BY <1>1, <2>2, <2>4 DEF Held, Stale
  <2> QED
    BY <1>2, <1>3, <2>3, <2>4, <2>5, <2>6, <2>7, MergeCalm
<1>6. CASE merging' = [merging EXCEPT !.pc = "list"]
  <2>1. PICK c : c = [merging EXCEPT !.pc = "list"]
    OBVIOUS
  <2>2. /\ c \in Merging /\ c.pc = "list" /\ c.stale = merging.stale /\ c.listed = merging.listed
        /\ c.new = merging.new
    <3>1. "list" \in MergingPcs
      BY DEF MergingPcs
    <3> QED
      BY <1>1, <2>1, <3>1, MergingPc
  <2>3. ReadingsOK(c) /\ StaleOK(c) /\ NewOK(c)
    BY <1>1, <2>2 DEF ReadingsOK, StaleOK, NewOK
  <2>4. \A i \in 1 .. (memoNext - 1) : i \in DOMAIN c.listed \cup c.stale \/ i = c.new => Held(i)
    BY <1>1, <2>2, HeldAsBefore
  <2>5. merging' = c
    BY <1>6, <2>1
  <2> QED
    BY <1>2, <1>3, <2>2, <2>3, <2>4, <2>5, MergeCalm
<1> QED
  BY <1>5, <1>6 DEF ListStale, MergingGoes

LEMMA StaleForgotten ==
  ASSUME JobsInv, ForgetStale
  PROVE  JobsInv'
<1>1. /\ merging # None /\ merging.pc = "forget" /\ merging \in Merging
      /\ ReadingsOK(merging) /\ StaleOK(merging) /\ NewOK(merging)
  BY MergingNow DEF ForgetStale, MergingIs
<1>2. ~MergingIs("add") /\ ~MergingIs("settle") /\ ~MergingIs("approve")
  BY <1>1 DEF MergingIs
<1>3. merging.stale \subseteq 1 .. (memoNext - 1) /\ merging.stale \subseteq MemoIds
  BY <1>1, IdsAreNotNone DEF StaleOK
<1> DEFINE i == Newest(merging.stale)
<1>4. CASE /\ Stays /\ UNCHANGED dropped /\ (NoError \/ StoreError)
           /\ \/ MergingGoes([merging EXCEPT !.pc = "list"])
              \/ MergingGoes([merging EXCEPT !.pc = "list", !.stale = {}])
  <2>1. PICK c : merging' = c /\ (\/ c = [merging EXCEPT !.pc = "list"]
                                  \/ c = [merging EXCEPT !.pc = "list", !.stale = {}])
    BY <1>4 DEF MergingGoes
  <2>2. /\ c \in Merging /\ c.pc = "list" /\ c.stale \subseteq merging.stale
        /\ c.listed = merging.listed /\ c.new = merging.new
    BY <1>1, <2>1 DEF Merging
  <2>3. ReadingsOK(c) /\ StaleOK(c) /\ NewOK(c)
    BY <1>1, <2>2 DEF ReadingsOK, StaleOK, NewOK
  <2>4. \A j \in 1 .. (memoNext - 1) : j \in DOMAIN c.listed \cup c.stale \/ j = c.new => Held(j)
    BY <1>1, <2>2, HeldAsBefore
  <2>5. /\ Stays /\ UNCHANGED <<extraction, settled, late>> /\ dropped \subseteq dropped'
        /\ jobErrors' \in {jobErrors, jobErrors + 1}
    BY <1>4 DEF MergingGoes, NoError, StoreError
  <2> QED
    BY <1>2, <2>1, <2>2, <2>3, <2>4, <2>5, MergeCalm
<1>5. CASE /\ merging.stale # {} /\ i \in DOMAIN memos /\ NoError
           /\ Writes([memos EXCEPT ![i] = [@ EXCEPT !.status = "forgotten", !.by = "job"]])
           /\ UNCHANGED memoNext
           /\ dropped' = dropped \cup Fact(i)
           /\ MergingGoes([merging EXCEPT !.stale = @ \ {i}])
  <2>1. i \in merging.stale
    BY <1>3, <1>5, NewestIn
  <2> HIDE DEF i
  <2> DEFINE n == [memos[i] EXCEPT !.status = "forgotten", !.by = "job"]
  <2>2. /\ memos \in [DOMAIN memos -> MemoRow] /\ DOMAIN memos \subseteq 1 .. (memoNext - 1)
        /\ memoNext \in 1 .. (MaxMemos + 1) /\ memoNext \notin DOMAIN memos
    BY DEF JobsInv, JobsTyped
  <2>3. memos[i] \in MemoRow
    BY <1>5, <2>2
  <2>4. /\ n \in MemoRow /\ n.status = "forgotten" /\ n.by = "job" /\ n.ns = memos[i].ns
        /\ n.text = memos[i].text /\ n.type = memos[i].type /\ n.old = memos[i].old
        /\ n.pinned = memos[i].pinned /\ n.used = memos[i].used /\ n.from = memos[i].from
        /\ n.seen = memos[i].seen
    BY <2>3 DEF MemoRow
  <2>5. memos' = [memos EXCEPT ![i] = n]
    BY <1>5 DEF Writes
  <2> HIDE DEF n
  <2>6. /\ DOMAIN memos' = DOMAIN memos /\ memos' \in [DOMAIN memos' -> MemoRow] /\ memos'[i] = n
        /\ \A j \in DOMAIN memos \ {i} : memos'[j] = memos[j]
    BY <1>5, <2>2, <2>4, <2>5
  <2>7. PICK c : c = [merging EXCEPT !.stale = @ \ {i}]
    OBVIOUS
  <2>8. /\ c \in Merging /\ c.pc = merging.pc /\ c.stale = merging.stale \ {i}
        /\ c.listed = merging.listed /\ c.new = merging.new /\ c.pair = merging.pair
    BY <1>1, <2>7 DEF Merging
  <2>9. /\ merging' = c /\ UNCHANGED <<extraction, settled, late, memoNext>>
        /\ jobErrors' = jobErrors /\ dropped \subseteq dropped'
        /\ memos[i].text \subseteq dropped' /\ known' \subseteq known \cup ActiveFacts(memos')
    BY <1>5, <2>7 DEF MergingGoes, NoError, Fact, Writes
  <2>10. RowsStay
    BY <2>2, <2>4, <2>6, <2>9 DEF RowsStay, SameBut
  <2>11. NewRowOK
    BY <2>2, <2>6 DEF NewRowOK
  <2>12. StatusOK
    <3>1. Held(i)
      BY <1>1, <2>1 DEF Held
    <3> QED
      BY <1>1, <2>1, <2>4, <2>6, <3>1 DEF StatusOK, JobsInv, ForgottenByJob
  <2>13. \A f \in known' : Safe(f)'
    <3>1. \A j \in DOMAIN memos :
            \/ j \in DOMAIN memos' /\ memos'[j].text = memos[j].text /\ memos'[j].status = memos[j].status
            \/ \A f \in memos[j].text : Safe(f)'
      BY <2>6, <2>9 DEF Safe
    <3>2. jobErrors' \in {jobErrors, jobErrors + 1}
      BY <2>9
    <3> QED
      BY <1>2, <2>9, <3>1, <3>2, SafeStep
  <2>14. ReadingsOK(c) /\ StaleOK(c) /\ NewOK(c)
    BY <1>1, <2>8 DEF ReadingsOK, StaleOK, NewOK
  <2>15. ReadingsOK(c)' /\ StaleOK(c)' /\ NewOK(c)'
    <3>1. DOMAIN c.listed \subseteq DOMAIN memos' /\ c.pc \notin {"settle", "approve"}
      BY <1>1, <2>6, <2>8, <2>14 DEF ReadingsOK
    <3>2. ReadingsOK(c)'
      BY <2>10, <2>14, <3>1, ReadingsStay
    <3>3. StaleOK(c)'
      BY <2>10, <2>14, StaleStays
    <3>4. NewOK(c)'
      BY <2>10, <2>14, <3>1, NewStays
    <3> QED
      BY <3>2, <3>3, <3>4
  <2>16. \A j \in 1 .. (memoNext - 1) : j \in DOMAIN c.listed \cup c.stale \/ j = c.new => Held(j)
    BY <1>1, <2>8, HeldAsBefore
  <2>17. memoNext' \in 1 .. (MaxMemos + 1) /\ DOMAIN memos' \subseteq 1 .. (memoNext' - 1)
    BY <2>2, <2>6, <2>9
  <2>18. jobErrors' \in {jobErrors, jobErrors + 1}
    BY <2>9
  <2> QED
    BY <2>6, <2>8, <2>9, <2>10, <2>11, <2>12, <2>13, <2>15, <2>16, <2>17, <2>18, MergeStep
<1> QED
  BY <1>4, <1>5 DEF ForgetStale

LEMMA SimilarListed ==
  ASSUME JobsInv, ListSimilar
  PROVE  JobsInv'
<1>1. /\ merging # None /\ merging.pc = "list" /\ merging \in Merging
      /\ ReadingsOK(merging) /\ StaleOK(merging) /\ NewOK(merging)
  BY MergingNow DEF ListSimilar, MergingIs
<1>2. ~MergingIs("add") /\ ~MergingIs("settle") /\ ~MergingIs("approve")
  BY <1>1 DEF MergingIs
<1>3. /\ Stays /\ UNCHANGED <<extraction, settled, late>> /\ dropped \subseteq dropped'
      /\ jobErrors' \in {jobErrors, jobErrors + 1}
  BY DEF ListSimilar, MergingGoes, NoError, StoreError
<1>4. CASE merging' = None
  BY <1>2, <1>3, <1>4, MergeCalm
<1> DEFINE ids == Mergeable(merging.ns)
           listed == [i \in ids |->
                        [text |-> memos[i].text, vec |-> memos[i].vec, pinned |-> memos[i].pinned]]
<1>5. CASE merging' = [merging EXCEPT !.pc = "next", !.pair = <<memoNext, 0>>, !.listed = listed]
  <2>1. ids \subseteq DOMAIN memos /\ \A i \in ids : memos[i].status = "active"
    BY DEF Mergeable
  <2>2. DOMAIN memos \subseteq MemoIds /\ memos \in [DOMAIN memos -> MemoRow] /\ memoNext \in Nat
    BY IdsAreNotNone DEF JobsInv, JobsTyped
  <2> HIDE DEF ids
  <2>3. \A i \in ids : [text |-> memos[i].text, vec |-> memos[i].vec, pinned |-> memos[i].pinned]
                         \in Reading
    BY <2>1, <2>2 DEF Reading, MemoRow
  <2>4. DOMAIN listed = ids /\ listed \in [ids -> Reading]
        /\ \A i \in ids : listed[i].text = memos[i].text /\ listed[i].pinned = memos[i].pinned
    BY <2>3
  <2> HIDE DEF listed
  <2>5. listed \in UNION {[is -> Reading] : is \in SUBSET MemoIds}
    BY <2>1, <2>2, <2>4
  <2>6. <<memoNext, 0>> \in Nat \X Nat
    BY <2>2
  <2>7. PICK c : c = [merging EXCEPT !.pc = "next", !.pair = <<memoNext, 0>>, !.listed = listed]
    OBVIOUS
  <2>8. /\ c \in Merging /\ c.pc = "next" /\ c.stale = merging.stale /\ c.listed = listed
        /\ c.new = merging.new
    BY <1>1, <2>5, <2>6, <2>7 DEF Merging
  <2>9. merging' = c
    BY <1>5, <2>7
  <2>10. ReadingsOK(c)
    BY <2>1, <2>4, <2>8 DEF ReadingsOK
  <2>11. StaleOK(c) /\ NewOK(c)
    BY <1>1, <2>8 DEF StaleOK, NewOK
  <2>12. \A i \in 1 .. (memoNext - 1) :
           i \in DOMAIN c.listed \cup c.stale \/ i = c.new =>
             Held(i) \/ (i \in DOMAIN memos /\ memos[i].status = "active")
    BY <1>1, <2>1, <2>4, <2>8 DEF Held
  <2> QED
    BY <1>2, <1>3, <2>8, <2>9, <2>10, <2>11, <2>12, MergeCalm
<1> QED
  BY <1>4, <1>5 DEF ListSimilar, MergingGoes

LEMMA PairTaken ==
  ASSUME JobsInv, NextPair
  PROVE  JobsInv'
<1>1. /\ merging # None /\ merging.pc = "next" /\ merging \in Merging
      /\ ReadingsOK(merging) /\ StaleOK(merging) /\ NewOK(merging)
  BY MergingNow DEF NextPair, MergingIs
<1>2. ~MergingIs("add") /\ ~MergingIs("settle") /\ ~MergingIs("approve")
  BY <1>1 DEF MergingIs
<1>3. /\ Stays /\ UNCHANGED <<extraction, settled, late>> /\ dropped \subseteq dropped'
      /\ jobErrors' \in {jobErrors, jobErrors + 1}
  BY DEF NextPair, MergingGoes, NoError
<1>4. CASE merging' = None
  BY <1>2, <1>3, <1>4, MergeCalm
<1> DEFINE S == PairsLeft(merging)
           p == CHOOSE q \in S : \A r \in S : r = q \/ After(r, q)
<1>5. CASE S # {} /\ merging' = [merging EXCEPT !.pc = "mark", !.pair = p]
  <2>1. DOMAIN merging.listed \subseteq MemoIds
    <3>1. merging.listed \in UNION {[ids -> Reading] : ids \in SUBSET MemoIds}
      BY <1>1 DEF Merging
    <3> QED
      BY <3>1
  <2>2. S \subseteq MemoIds \X MemoIds
    BY <2>1 DEF PairsLeft
  <2>3. \A q \in S : /\ q[1] \in DOMAIN merging.listed /\ q[2] \in DOMAIN merging.listed
                     /\ q[1] > q[2]
    BY DEF PairsLeft, IsPair
  <2> HIDE DEF S
  <2>4. p \in S
    BY <1>5, <2>2, FirstPair
  <2> HIDE DEF p
  <2>5. p[1] \in DOMAIN merging.listed /\ p[2] \in DOMAIN merging.listed /\ p[1] # p[2]
    <3>1. p[1] \in MemoIds /\ p[2] \in MemoIds /\ p[1] > p[2]
      BY <2>2, <2>3, <2>4
    <3> QED
      BY <2>3, <2>4, <3>1 DEF MemoIds
  <2>6. p \in Nat \X Nat
    BY <2>2, <2>4 DEF MemoIds
  <2>7. PICK c : c = [merging EXCEPT !.pc = "mark", !.pair = p]
    OBVIOUS
  <2>8. /\ c \in Merging /\ c.pc = "mark" /\ c.pair = p /\ c.stale = merging.stale
        /\ c.listed = merging.listed /\ c.new = merging.new
    BY <1>1, <2>6, <2>7 DEF Merging
  <2>9. merging' = c
    BY <1>5, <2>7
  <2>10. ReadingsOK(c) /\ StaleOK(c) /\ NewOK(c)
    BY <1>1, <2>5, <2>8 DEF ReadingsOK, StaleOK, NewOK
  <2>11. \A i \in 1 .. (memoNext - 1) : i \in DOMAIN c.listed \cup c.stale \/ i = c.new => Held(i)
    BY <1>1, <2>8, HeldAsBefore
  <2> QED
    BY <1>2, <1>3, <2>8, <2>9, <2>10, <2>11, MergeCalm
<1> QED
  BY <1>4, <1>5 DEF NextPair, MergingGoes

------------------------------------------------------------------------------
(* A merge. *)

LEMMA PairNow ==
  ASSUME JobsInv, merging # None, merging.pc \in {"mark", "add", "settle", "approve"}
  PROVE  /\ One \in DOMAIN merging.listed /\ Two \in DOMAIN merging.listed /\ One # Two
         /\ One \in DOMAIN memos /\ Two \in DOMAIN memos /\ One \in MemoIds /\ Two \in MemoIds
         /\ Read(One).text = memos[One].text /\ Read(Two).text = memos[Two].text
         /\ Held(One) /\ Held(Two)
<1>1. ReadingsOK(merging)
  BY MergingNow
<1>2. One \in DOMAIN merging.listed /\ Two \in DOMAIN merging.listed /\ One # Two
  BY <1>1 DEF ReadingsOK, One, Two
<1>3. One \in DOMAIN memos /\ Two \in DOMAIN memos
      /\ Read(One).text = memos[One].text /\ Read(Two).text = memos[Two].text
  BY <1>1, <1>2 DEF ReadingsOK, Read
<1>4. One \in MemoIds /\ Two \in MemoIds
  BY <1>3, IdsAreNotNone DEF JobsInv, JobsTyped
<1> QED
  BY <1>2, <1>3, <1>4 DEF Held

\* What the merged memory says is safe once something has failed: it waits for approval.
LEMMA SafeNew ==
  ASSUME JobsInv, merging # None, merging.pc \in {"settle", "approve"},
         Stays, dropped \subseteq dropped', jobErrors' # 0
  PROVE  \A f \in memos[merging.new].text : Safe(f)'
<1>1. /\ merging.new \in DOMAIN memos
      /\ memos[merging.new].status \in {"active", "pending"}
         \/ memos[merging.new].text \subseteq dropped
  BY MergingNow DEF NewOK
<1>2. memos' = memos
  BY DEF Stays
<1> QED
  BY <1>1, <1>2 DEF Safe

LEMMA MergeFailsStep ==
  ASSUME JobsInv, merging # None, NEW lost, MergeFails(lost),
         jobErrors' \in {jobErrors, jobErrors + 1},
         MergingIs("add") => Read(One).text \subseteq lost,
         jobErrors = 0 /\ (MergingIs("settle") \/ MergingIs("approve")) =>
           \A f \in memos[merging.new].text : Safe(f)'
  PROVE  JobsInv'
<1>1. /\ merging \in Merging /\ ReadingsOK(merging) /\ StaleOK(merging) /\ NewOK(merging)
  BY MergingNow
<1>2. PICK c : c = [merging EXCEPT !.pc = "next"]
  OBVIOUS
<1>3. /\ c \in Merging /\ c.pc = "next" /\ c.stale = merging.stale /\ c.listed = merging.listed
      /\ c.new = merging.new
  <2>1. "next" \in MergingPcs
    BY DEF MergingPcs
  <2> QED
    BY <1>1, <1>2, <2>1, MergingPc
<1>4. ReadingsOK(c) /\ StaleOK(c) /\ NewOK(c)
  BY <1>1, <1>3 DEF ReadingsOK, StaleOK, NewOK
<1>5. \A i \in 1 .. (memoNext - 1) : i \in DOMAIN c.listed \cup c.stale \/ i = c.new => Held(i)
  BY <1>1, <1>3, HeldAsBefore
<1>6. /\ Stays /\ UNCHANGED <<extraction, settled, late>> /\ dropped \subseteq dropped'
      /\ lost \subseteq dropped' /\ merging' = c
  BY <1>2 DEF MergeFails, MergingGoes
<1>7. MergingIs("add") => Read(One).text \subseteq dropped'
  BY <1>6
<1> QED
  BY <1>3, <1>4, <1>5, <1>6, <1>7, MergeCalm

LEMMA FirstMarked ==
  ASSUME JobsInv, MarkFirst
  PROVE  JobsInv'
<1>1. /\ merging # None /\ merging.pc = "mark" /\ merging \in Merging
      /\ ReadingsOK(merging) /\ StaleOK(merging) /\ NewOK(merging)
  BY MergingNow DEF MarkFirst, MergingIs
<1>2. ~MergingIs("add") /\ ~MergingIs("settle") /\ ~MergingIs("approve")
  BY <1>1 DEF MergingIs
<1>3. /\ One \in DOMAIN merging.listed /\ One \in DOMAIN memos /\ Held(One)
      /\ Read(One).text = memos[One].text
  BY <1>1, PairNow
<1>4. CASE /\ NoError /\ Writes(ToStatusOf(One, "superseded")) /\ UNCHANGED <<memoNext, dropped>>
           /\ MergingGoes([merging EXCEPT !.pc = "add"])
  <2>1. PICK k \in DOMAIN memos : k = One
    BY <1>3
  <2>2. /\ RowsStay /\ NewRowOK /\ StatusOK
        /\ DOMAIN memos' = DOMAIN memos /\ memos' \in [DOMAIN memos -> MemoRow]
        /\ memos'[k].status = "superseded" /\ memos'[k].text = memos[k].text
        /\ \A i \in DOMAIN memos \ {k} : memos'[i] = memos[i]
    <3>1. /\ memos' = ToStatusOf(k, "superseded") /\ memoNext' = memoNext /\ late' = late
          /\ dropped \subseteq dropped' /\ Held(k) /\ "superseded" \in Statuses
      BY <1>3, <1>4, <2>1 DEF Writes, MergingGoes, Statuses
    <3> QED
      BY <3>1, StatusTable
  <2>3. PICK c : c = [merging EXCEPT !.pc = "add"]
    OBVIOUS
  <2>4. /\ c \in Merging /\ c.pc = "add" /\ c.stale = merging.stale /\ c.listed = merging.listed
        /\ c.new = merging.new /\ c.pair = merging.pair
    <3>1. "add" \in MergingPcs
      BY DEF MergingPcs
    <3> QED
      BY <1>1, <2>3, <3>1, MergingPc
  <2>5. /\ merging' = c /\ UNCHANGED <<extraction, settled, memoNext, dropped>>
        /\ jobErrors' = jobErrors /\ known' \subseteq known \cup ActiveFacts(memos')
    BY <1>4, <2>3 DEF MergingGoes, NoError, Writes
  <2>6. \A f \in memos[k].text : Safe(f)'
    <3>1. k = c.pair[1] /\ c.listed[k].text = memos[k].text
      BY <1>3, <2>1, <2>4 DEF One, Read
    <3>2. merging' # None
      BY <2>4, <2>5, JobsAssumption
    <3> QED
      BY <2>4, <2>5, <3>1, <3>2 DEF Safe, MergingIs, Read, One
  <2>7. \A f \in known' : Safe(f)'
    <3>1. \A i \in DOMAIN memos :
            \/ i \in DOMAIN memos' /\ memos'[i].text = memos[i].text /\ memos'[i].status = memos[i].status
            \/ \A f \in memos[i].text : Safe(f)'
      BY <2>2, <2>6
    <3>2. jobErrors' \in {jobErrors, jobErrors + 1} /\ dropped \subseteq dropped'
      BY <2>5
    <3> QED
      BY <1>2, <2>5, <3>1, <3>2, SafeStep
  <2>8. ReadingsOK(c) /\ StaleOK(c) /\ NewOK(c)
    BY <1>1, <2>4 DEF ReadingsOK, StaleOK, NewOK
  <2>9. ReadingsOK(c)' /\ StaleOK(c)' /\ NewOK(c)'
    <3>1. DOMAIN c.listed \subseteq DOMAIN memos' /\ c.pc \notin {"settle", "approve"}
      BY <2>2, <2>4, <2>8 DEF ReadingsOK
    <3>2. ReadingsOK(c)'
      BY <2>2, <2>8, <3>1, ReadingsStay
    <3>3. StaleOK(c)'
      BY <2>2, <2>8, StaleStays
    <3>4. NewOK(c)'
      BY <2>2, <2>8, <3>1, NewStays
    <3> QED
      BY <3>2, <3>3, <3>4
  <2>10. \A i \in 1 .. (memoNext - 1) : i \in DOMAIN c.listed \cup c.stale \/ i = c.new => Held(i)
    BY <1>1, <2>4, HeldAsBefore
  <2>11. /\ memoNext' \in 1 .. (MaxMemos + 1) /\ DOMAIN memos' \subseteq 1 .. (memoNext' - 1)
         /\ memos' \in [DOMAIN memos' -> MemoRow] /\ jobErrors' \in {jobErrors, jobErrors + 1}
    BY <2>2, <2>5 DEF JobsInv, JobsTyped
  <2> QED
    BY <2>2, <2>4, <2>5, <2>7, <2>9, <2>10, <2>11, MergeStep
<1>5. CASE (NoError \/ StoreError) /\ MergeFails({})
  <2>1. jobErrors' \in {jobErrors, jobErrors + 1}
    BY <1>5 DEF NoError, StoreError
  <2> QED
    BY <1>1, <1>2, <1>5, <2>1, MergeFailsStep
<1> QED
  BY <1>4, <1>5 DEF MarkFirst

LEMMA MergedAdded ==
  ASSUME JobsInv, AddMerged
  PROVE  JobsInv'
<1>1. /\ merging # None /\ merging.pc = "add" /\ merging \in Merging
      /\ ReadingsOK(merging) /\ StaleOK(merging) /\ NewOK(merging) /\ memoNext <= MaxMemos
  BY MergingNow DEF AddMerged, MergingIs
<1>2. ~MergingIs("settle") /\ ~MergingIs("approve")
  BY <1>1 DEF MergingIs
<1>3. /\ One \in DOMAIN merging.listed /\ Two \in DOMAIN merging.listed
      /\ One \in DOMAIN memos /\ Two \in DOMAIN memos /\ One \in MemoIds /\ Two \in MemoIds
      /\ Held(One) /\ Held(Two)
  BY <1>1, PairNow
<1>4. CASE /\ ~Guarded(Merged.text) /\ NoError
           /\ Writes(Inserted(Merged)) /\ memoNext' = memoNext + 1 /\ UNCHANGED dropped
           /\ MergingGoes([merging EXCEPT !.pc = "settle", !.new = memoNext])
  <2>1. Read(One) \in Reading /\ Read(Two) \in Reading
    <3>1. PICK ids \in SUBSET MemoIds : merging.listed \in [ids -> Reading]
      BY <1>1 DEF Merging
    <3> QED
      BY <1>3, <3>1 DEF Read
  <2>2. PICK r : r = Merged
    OBVIOUS
  <2>3. /\ r \in MemoRow /\ r.text = Read(One).text \cup Read(Two).text /\ r.by = "user"
        /\ r.from = {One, Two} /\ r.seen = {} /\ r.status = "pending" /\ r.type = "semantic"
        /\ r.pinned = (Read(One).pinned \/ Read(Two).pinned)
    <3>1. /\ Read(One).text \in SUBSET Facts /\ Read(Two).text \in SUBSET Facts
          /\ Read(One).vec \in SUBSET Facts
          /\ Read(One).pinned \in BOOLEAN /\ Read(Two).pinned \in BOOLEAN
          /\ merging.ns \in JobSpaces
      BY <1>1, <2>1 DEF Reading, Merging
    <3> QED
      BY <1>3, <2>2, <3>1 DEF Merged, Memo, MemoRow, Synthesized
  <2>4. /\ r.text \cap SecretFacts = {}
        /\ r.from \subseteq DOMAIN memos /\ r.seen \subseteq 1 .. (memoNext - 1)
        /\ \A i \in r.seen \cap DOMAIN memos : memos[i].ns # r.ns \/ memos[i].text # r.text
    BY <1>3, <1>4, <2>2, <2>3 DEF Guarded
  <2>5. \A i \in r.from : Held(i) /\ (memos[i].pinned /\ i \notin late => r.pinned)
    BY <1>1, <1>3, <2>3 DEF ReadingsOK, Read
  <2>6. memos' = Inserted(r) /\ memoNext' = memoNext + 1 /\ dropped \subseteq dropped' /\ late' = late
    BY <1>4, <2>2 DEF Writes, MergingGoes
  <2>7. /\ RowsStay /\ NewRowOK /\ StatusOK
        /\ DOMAIN memos' = DOMAIN memos \cup {memoNext} /\ memos' \in [DOMAIN memos' -> MemoRow]
        /\ memos'[memoNext] = r /\ \A i \in DOMAIN memos : memos'[i] = memos[i]
        /\ DOMAIN memos' \subseteq 1 .. (memoNext' - 1) /\ memoNext' \in 1 .. (MaxMemos + 1)
    BY <1>1, <2>3, <2>4, <2>5, <2>6, InsertedTable
  <2>8. /\ memoNext \in MemoIds /\ memoNext \in 1 .. (memoNext' - 1) /\ memoNext \notin DOMAIN memos
        /\ memoNext \notin 1 .. (memoNext - 1)
    <3>1. MaxMemos \in Nat
      BY JobsAssumption
    <3>2. memoNext \in 1 .. (MaxMemos + 1) /\ DOMAIN memos \subseteq 1 .. (memoNext - 1)
      BY DEF JobsInv, JobsTyped
    <3> QED
      BY <1>1, <2>6, <3>1, <3>2 DEF MemoIds
  <2>9. PICK c : c = [merging EXCEPT !.pc = "settle", !.new = memoNext]
    OBVIOUS
  <2>10. /\ c \in Merging /\ c.pc = "settle" /\ c.stale = merging.stale /\ c.listed = merging.listed
         /\ c.new = memoNext /\ c.pair = merging.pair
    BY <1>1, <2>8, <2>9 DEF Merging
  <2>11. /\ merging' = c /\ UNCHANGED <<extraction, settled>> /\ jobErrors' = jobErrors
         /\ known' \subseteq known \cup ActiveFacts(memos')
    BY <1>4, <2>9 DEF MergingGoes, NoError, Writes
  <2>12. \A f \in Read(One).text : Safe(f)'
    <3>1. merging' # None
      BY <2>10, <2>11, JobsAssumption
    <3>2. \A f \in Read(One).text : f \in memos'[memoNext].text
      BY <2>3, <2>7
    <3>3. CASE jobErrors = 0
      BY <2>10, <2>11, <3>1, <3>2, <3>3 DEF Safe, MergingIs
    <3>4. CASE jobErrors # 0
      BY <2>3, <2>7, <2>11, <3>2, <3>4 DEF Safe
    <3> QED
      BY <3>3, <3>4
  <2>13. \A f \in known' : Safe(f)'
    <3>1. \A i \in DOMAIN memos :
            i \in DOMAIN memos' /\ memos'[i].text = memos[i].text /\ memos'[i].status = memos[i].status
      BY <2>7
    <3>2. jobErrors' \in {jobErrors, jobErrors + 1}
      BY <2>11
    <3> QED
      BY <1>2, <2>6, <2>11, <2>12, <3>1, <3>2, SafeStep
  <2>14. ReadingsOK(c)'
    <3>1. ReadingsOK(c) /\ DOMAIN c.listed \subseteq DOMAIN memos'
      BY <1>1, <2>7, <2>10 DEF ReadingsOK
    <3> QED
      BY <2>7, <3>1, ReadingsStay
  <2>15. StaleOK(c)'
    <3>1. StaleOK(c)
      BY <1>1, <2>10 DEF StaleOK
    <3> QED
      BY <2>7, <3>1, StaleStays
  <2>16. NewOK(c)'
    <3>1. c.new \notin DOMAIN c.listed
      BY <1>1, <2>8, <2>10 DEF ReadingsOK
    <3>2. memos'[c.new].text = c.listed[c.pair[1]].text \cup c.listed[c.pair[2]].text
      BY <2>3, <2>7, <2>10 DEF Read, One, Two
    <3> QED
      BY <2>3, <2>7, <2>8, <2>10, <3>1, <3>2 DEF NewOK
  <2>17. \A i \in 1 .. (memoNext - 1) : i \in DOMAIN c.listed \cup c.stale \/ i = c.new => Held(i)
    BY <1>1, <2>8, <2>10 DEF Held
  <2>18. jobErrors' \in {jobErrors, jobErrors + 1}
    BY <2>11
  <2> QED
    BY <2>7, <2>10, <2>11, <2>13, <2>14, <2>15, <2>16, <2>17, <2>18, MergeStep
<1>5. CASE (NoError \/ StoreError) /\ MergeFails(Read(One).text)
  <2>1. jobErrors' \in {jobErrors, jobErrors + 1}
    BY <1>5 DEF NoError, StoreError
  <2>2. PICK lost : lost = Read(One).text
    OBVIOUS
  <2>3. MergeFails(lost) /\ Read(One).text \subseteq lost
    BY <1>5, <2>2
  <2> QED
    BY <1>1, <1>2, <2>1, <2>3, MergeFailsStep
<1> QED
  BY <1>4, <1>5 DEF AddMerged

LEMMA SecondSettled ==
  ASSUME JobsInv, SettleSecond
  PROVE  JobsInv'
<1>1. /\ merging # None /\ merging.pc = "settle" /\ merging \in Merging
      /\ ReadingsOK(merging) /\ StaleOK(merging) /\ NewOK(merging)
  BY MergingNow DEF SettleSecond, MergingIs
<1>2. ~MergingIs("add")
  BY <1>1 DEF MergingIs
<1>3. /\ Two \in DOMAIN merging.listed /\ Two \in DOMAIN memos /\ Held(Two)
      /\ Read(One).text = memos[One].text /\ Read(Two).text = memos[Two].text
  BY <1>1, PairNow
<1> DEFINE new == merging.new
<1>4. /\ new \in DOMAIN memos /\ new # Two
      /\ memos[new].text = Read(One).text \cup Read(Two).text
      /\ memos[new].status \in {"active", "pending"} \/ memos[new].text \subseteq dropped
  BY <1>1, <1>3 DEF NewOK, Read, One, Two
<1>5. CASE /\ NoError /\ Writes(ToStatusOf(Two, "superseded")) /\ UNCHANGED <<memoNext, dropped>>
           /\ MergingGoes([merging EXCEPT !.pc = "approve"])
  <2>1. PICK k \in DOMAIN memos : k = Two
    BY <1>3
  <2>2. /\ RowsStay /\ NewRowOK /\ StatusOK
        /\ DOMAIN memos' = DOMAIN memos /\ memos' \in [DOMAIN memos -> MemoRow]
        /\ memos'[k].status = "superseded" /\ memos'[k].text = memos[k].text
        /\ \A i \in DOMAIN memos \ {k} : memos'[i] = memos[i]
    <3>1. /\ memos' = ToStatusOf(k, "superseded") /\ memoNext' = memoNext /\ late' = late
          /\ dropped \subseteq dropped' /\ Held(k) /\ "superseded" \in Statuses
      BY <1>3, <1>5, <2>1 DEF Writes, MergingGoes, Statuses
    <3> QED
      BY <3>1, StatusTable
  <2>3. PICK c : c = [merging EXCEPT !.pc = "approve"]
    OBVIOUS
  <2>4. /\ c \in Merging /\ c.pc = "approve" /\ c.stale = merging.stale /\ c.listed = merging.listed
        /\ c.new = merging.new /\ c.pair = merging.pair
    <3>1. "approve" \in MergingPcs
      BY DEF MergingPcs
    <3> QED
      BY <1>1, <2>3, <3>1, MergingPc
  <2>5. /\ merging' = c /\ UNCHANGED <<extraction, settled, memoNext, dropped>>
        /\ jobErrors' = jobErrors /\ known' \subseteq known \cup ActiveFacts(memos')
    BY <1>5, <2>3 DEF MergingGoes, NoError, Writes
  <2>6. new \in DOMAIN memos' /\ memos'[new] = memos[new]
    BY <1>4, <2>1, <2>2
  <2>7. \A f \in memos[new].text : Safe(f)'
    <3>1. merging' # None /\ merging'.pc = "approve" /\ merging'.new = new
      BY <2>4, <2>5, JobsAssumption
    <3>2. CASE jobErrors = 0
      BY <2>5, <2>6, <3>1, <3>2 DEF Safe, MergingIs
    <3>3. CASE jobErrors # 0
      <4>1. \/ memos'[new].status \in {"active", "pending"}
            \/ memos'[new].text \subseteq dropped'
        BY <1>4, <2>5, <2>6
      <4> QED
        BY <2>5, <2>6, <3>3, <4>1 DEF Safe
    <3> QED
      BY <3>2, <3>3
  <2>8. \A f \in known' : Safe(f)'
    <3>1. \A f \in memos[k].text : Safe(f)'
      BY <1>3, <1>4, <2>1, <2>7
    <3>2. \A i \in DOMAIN memos :
            \/ i \in DOMAIN memos' /\ memos'[i].text = memos[i].text /\ memos'[i].status = memos[i].status
            \/ \A f \in memos[i].text : Safe(f)'
      BY <2>2, <3>1
    <3>3. jobErrors' \in {jobErrors, jobErrors + 1} /\ dropped \subseteq dropped'
      BY <2>5
    <3> QED
      BY <1>2, <2>5, <2>7, <3>2, <3>3, SafeStep
  <2>9. ReadingsOK(c) /\ StaleOK(c) /\ NewOK(c)
    BY <1>1, <2>4 DEF ReadingsOK, StaleOK, NewOK
  <2>10. ReadingsOK(c)' /\ StaleOK(c)' /\ NewOK(c)'
    <3>1. DOMAIN c.listed \subseteq DOMAIN memos'
      BY <2>2, <2>9 DEF ReadingsOK
    <3>2. ReadingsOK(c)'
      BY <2>2, <2>9, <3>1, ReadingsStay
    <3>3. StaleOK(c)'
      BY <2>2, <2>9, StaleStays
    <3>4. c.new \in DOMAIN memos' /\ memos'[c.new].status = memos[c.new].status
      BY <2>4, <2>6
    <3>5. NewOK(c)'
      BY <2>2, <2>9, <3>4, NewStays
    <3> QED
      BY <3>2, <3>3, <3>5
  <2>11. \A i \in 1 .. (memoNext - 1) : i \in DOMAIN c.listed \cup c.stale \/ i = c.new => Held(i)
    BY <1>1, <2>4, HeldAsBefore
  <2>12. /\ memoNext' \in 1 .. (MaxMemos + 1) /\ DOMAIN memos' \subseteq 1 .. (memoNext' - 1)
         /\ memos' \in [DOMAIN memos' -> MemoRow] /\ jobErrors' \in {jobErrors, jobErrors + 1}
    BY <2>2, <2>5 DEF JobsInv, JobsTyped
  <2> QED
    BY <2>2, <2>4, <2>5, <2>8, <2>10, <2>11, <2>12, MergeStep
<1>6. CASE StoreError /\ MergeFails({})
  <2>1. jobErrors' = jobErrors + 1 /\ jobErrors' # 0 /\ Stays /\ dropped \subseteq dropped'
    BY <1>6 DEF StoreError, MergeFails, JobsInv, JobsTyped
  <2>2. \A f \in memos[merging.new].text : Safe(f)'
    BY <1>1, <2>1, SafeNew
  <2> QED
    BY <1>1, <1>2, <1>6, <2>1, <2>2, MergeFailsStep
<1> QED
  BY <1>3, <1>5, <1>6 DEF SettleSecond

LEMMA MergedApproved ==
  ASSUME JobsInv, ApproveMerged
  PROVE  JobsInv'
<1>1. /\ merging # None /\ merging.pc = "approve" /\ merging \in Merging
      /\ ReadingsOK(merging) /\ StaleOK(merging) /\ NewOK(merging)
  BY MergingNow DEF ApproveMerged, MergingIs
<1>2. ~MergingIs("add")
  BY <1>1 DEF MergingIs
<1>3. One \in MemoIds /\ Two \in MemoIds
  BY <1>1, PairNow
<1> DEFINE new == merging.new
<1>4. /\ new \in DOMAIN memos /\ memos[new].type = "semantic" /\ Held(new)
      /\ memos[new].status \in {"active", "pending"} \/ memos[new].text \subseteq dropped
  BY <1>1 DEF NewOK, Held
<1>5. CASE /\ NoError /\ Writes(ToStatusOf(new, "active")) /\ UNCHANGED <<memoNext, dropped>>
           /\ MergingGoes([merging EXCEPT !.pc = "next", !.gone = @ \cup {One, Two}])
  <2>1. memos[new].by # "job"
    BY <1>4 DEF JobsInv, ArchivesOnlyStale
  <2>2. PICK k \in DOMAIN memos : k = new
    BY <1>4
  <2>3. /\ RowsStay /\ NewRowOK /\ StatusOK
        /\ DOMAIN memos' = DOMAIN memos /\ memos' \in [DOMAIN memos -> MemoRow]
        /\ memos'[k].status = "active" /\ memos'[k].text = memos[k].text
        /\ \A i \in DOMAIN memos \ {k} : memos'[i] = memos[i]
    <3>1. /\ memos' = ToStatusOf(k, "active") /\ memoNext' = memoNext /\ late' = late
          /\ dropped \subseteq dropped' /\ Held(k) /\ "active" \in Statuses /\ memos[k].by # "job"
      BY <1>4, <1>5, <2>1, <2>2 DEF Writes, MergingGoes, Statuses
    <3> QED
      BY <3>1, StatusTable
  <2>4. PICK c : c = [merging EXCEPT !.pc = "next", !.gone = @ \cup {One, Two}]
    OBVIOUS
  <2>5. /\ c \in Merging /\ c.pc = "next" /\ c.stale = merging.stale /\ c.listed = merging.listed
        /\ c.new = merging.new
    BY <1>1, <1>3, <2>4 DEF Merging
  <2>6. /\ merging' = c /\ UNCHANGED <<extraction, settled, memoNext, dropped>>
        /\ jobErrors' = jobErrors /\ known' \subseteq known \cup ActiveFacts(memos')
    BY <1>5, <2>4 DEF MergingGoes, NoError, Writes
  <2>7. \A f \in memos[new].text : Safe(f)'
    BY <2>2, <2>3 DEF Safe
  <2>8. \A f \in known' : Safe(f)'
    <3>1. \A i \in DOMAIN memos :
            /\ i \in DOMAIN memos' /\ memos'[i].text = memos[i].text
            /\ memos'[i].status = memos[i].status \/ memos'[i].status = "active"
      BY <2>3
    <3>2. jobErrors' \in {jobErrors, jobErrors + 1} /\ dropped \subseteq dropped'
      BY <2>6
    <3> QED
      BY <1>2, <2>6, <2>7, <3>1, <3>2, SafeStep
  <2>9. ReadingsOK(c) /\ StaleOK(c) /\ NewOK(c)
    BY <1>1, <2>5 DEF ReadingsOK, StaleOK, NewOK
  <2>10. ReadingsOK(c)' /\ StaleOK(c)' /\ NewOK(c)'
    <3>1. DOMAIN c.listed \subseteq DOMAIN memos' /\ c.pc \notin {"settle", "approve"}
      BY <2>3, <2>5, <2>9 DEF ReadingsOK
    <3>2. ReadingsOK(c)'
      BY <2>3, <2>9, <3>1, ReadingsStay
    <3>3. StaleOK(c)'
      BY <2>3, <2>9, StaleStays
    <3>4. NewOK(c)'
      BY <2>3, <2>9, <3>1, NewStays
    <3> QED
      BY <3>2, <3>3, <3>4
  <2>11. \A i \in 1 .. (memoNext - 1) : i \in DOMAIN c.listed \cup c.stale \/ i = c.new => Held(i)
    BY <1>1, <2>5, HeldAsBefore
  <2>12. /\ memoNext' \in 1 .. (MaxMemos + 1) /\ DOMAIN memos' \subseteq 1 .. (memoNext' - 1)
         /\ memos' \in [DOMAIN memos' -> MemoRow] /\ jobErrors' \in {jobErrors, jobErrors + 1}
    BY <2>3, <2>6 DEF JobsInv, JobsTyped
  <2> QED
    BY <2>3, <2>5, <2>6, <2>8, <2>10, <2>11, <2>12, MergeStep
<1>6. CASE /\ (Twin(ToStatusOf(new, "active"), new) /\ NoError) \/ StoreError
           /\ MergeFails({})
  <2>1. /\ jobErrors' \in {jobErrors, jobErrors + 1} /\ Stays /\ dropped \subseteq dropped'
        /\ memos' = memos
    BY <1>6 DEF NoError, StoreError, MergeFails, Stays
  <2>2. CASE StoreError
    <3>1. jobErrors' # 0
      BY <2>2 DEF StoreError, JobsInv, JobsTyped
    <3>2. \A f \in memos[merging.new].text : Safe(f)'
      BY <1>1, <2>1, <3>1, SafeNew
    <3> QED
      BY <1>1, <1>2, <1>6, <2>1, <3>2, MergeFailsStep
  <2>3. CASE Twin(ToStatusOf(new, "active"), new)
    <3> DEFINE n == [memos[new] EXCEPT !.status = "active"]
    <3>1. memos \in [DOMAIN memos -> MemoRow] /\ memos[new] \in MemoRow
      BY <1>4 DEF JobsInv, JobsTyped
    <3>2. n.text = memos[new].text
      BY <3>1 DEF MemoRow
    <3>3. ToStatusOf(new, "active") = [memos EXCEPT ![new] = n]
      BY DEF ToStatusOf
    <3> HIDE DEF n
    <3>4. \E j \in DOMAIN memos \ {new} : memos[j].status = "active" /\ memos[j].text = memos[new].text
      BY <2>3, <1>4, <3>1, <3>2, <3>3 DEF Twin
    <3>5. \A f \in memos[merging.new].text : Safe(f)'
      BY <2>1, <3>4 DEF Safe
    <3> QED
      BY <1>1, <1>2, <1>6, <2>1, <3>5, MergeFailsStep
  <2> QED
    BY <1>6, <2>2, <2>3
<1> QED
  BY <1>4, <1>5, <1>6 DEF ApproveMerged, ToStatusOf

------------------------------------------------------------------------------
(* The specification. *)

LEMMA JobsCrashed ==
  ASSUME JobsInv, JobsCrash
  PROVE  JobsInv'
<1>1. /\ jobErrors' = jobErrors + 1 /\ jobErrors' # 0 /\ extraction' = None /\ merging' = None
      /\ Stays /\ UNCHANGED <<settled, late>> /\ dropped \subseteq dropped'
      /\ memos' = memos /\ memoNext' = memoNext /\ known' = known
      /\ MergingIs("add") => Read(One).text \subseteq dropped'
  BY DEF JobsCrash, StoreError, Stays, JobsInv, JobsTyped
<1>2. \A i : ~Held(i)'
  BY <1>1 DEF Held
<1>3. RowsStay /\ NewRowOK /\ StatusOK /\ SettledOK
  BY <1>1, <1>2, CalmTable
<1>4. JobsTyped'
  BY <1>1 DEF JobsInv, JobsTyped
<1>5. \A f \in known' : Safe(f)'
  <2>1. MergingIs("add") => \A f \in Read(One).text : Safe(f)'
    BY <1>1 DEF Safe
  <2>2. MergingIs("settle") \/ MergingIs("approve") => \A f \in memos[merging.new].text : Safe(f)'
    BY <1>1, SafeNew DEF MergingIs
  <2>3. /\ known' \subseteq known \cup ActiveFacts(memos')
        /\ jobErrors' \in {jobErrors, jobErrors + 1}
        /\ \A i \in DOMAIN memos :
             i \in DOMAIN memos' /\ memos'[i].text = memos[i].text /\ memos'[i].status = memos[i].status
    BY <1>1
  <2> QED
    BY <1>1, <2>1, <2>2, <2>3, SafeStep
<1> QED
  BY <1>1, <1>3, <1>4, <1>5, JobsAssemble

LEMMA JobsInvInit ==
  JobsInit => JobsInv
<1> SUFFICES ASSUME JobsInit PROVE JobsInv
  OBVIOUS
<1>1. MaxMemos \in Nat /\ Stored \in Seq(MemoRow) /\ Len(Stored) <= MaxMemos
  BY JobsAssumption
<1>2. \A i \in DOMAIN Stored : /\ Stored[i].text \cap SecretFacts = {} /\ Stored[i].by = "user"
                               /\ Stored[i].from = {} /\ Stored[i].seen = {}
  BY JobsAssumption
<1>3. /\ DOMAIN Stored = 1 .. Len(Stored) /\ Len(Stored) \in Nat
      /\ Stored \in [1 .. Len(Stored) -> MemoRow]
  BY <1>1, LenProperties
<1>4. /\ memos = Stored /\ memoNext = Len(Stored) + 1 /\ extraction = None /\ merging = None
      /\ jobErrors = 0 /\ known = ActiveFacts(Stored) /\ settled = {}
  BY DEF JobsInit
<1>5. JobsTyped
  <2>1. memoNext \in 1 .. (MaxMemos + 1) /\ DOMAIN memos \subseteq 1 .. (memoNext - 1)
    BY <1>1, <1>3, <1>4
  <2> QED
    BY <1>3, <1>4, <2>1 DEF JobsTyped
<1>6. RowsSound
  BY <1>2, <1>4 DEF RowsSound
<1>7. \A f \in known : Safe(f)
  BY <1>4 DEF ActiveFacts, Safe
<1>8. ForgottenByJob
  BY <1>2, <1>4 DEF ForgottenByJob
<1>9. SettledFree /\ ForgottenStaysOut
  BY <1>4 DEF SettledFree, ForgottenStaysOut
<1>10. NotExtractedAgain /\ PinSurvives
  BY <1>2, <1>4 DEF NotExtractedAgain, PinSurvives
<1>11. ArchivesOnlyStale
  BY <1>2, <1>4 DEF ArchivesOnlyStale
<1> QED
  BY <1>4, <1>5, <1>6, <1>7, <1>8, <1>9, <1>10, <1>11 DEF JobsInv

LEMMA JobsInvStep ==
  JobsInv /\ [JobsNext]_jobsVars => JobsInv'
<1> SUFFICES ASSUME JobsInv, [JobsNext]_jobsVars PROVE JobsInv'
  OBVIOUS
<1>1. CASE UNCHANGED jobsVars
  BY <1>1 DEF jobsVars, boundsOfJobs, history, JobsInv, JobsTyped, RowsSound, CandidateOK,
     ReadingsOK, StaleOK, NewOK, Safe, MergingIs, Read, One, ForgottenByJob, SettledFree, Held,
     NotExtractedAgain, PinSurvives, ArchivesOnlyStale, ForgottenStaysOut
<1>2. CASE extract_from_thread
  BY <1>2, FoundStarts
<1>3. CASE run
  BY <1>3, RunStarts
<1>4. CASE ExtractionStep
  BY <1>4, HashChecked, CosineChecked, ContradictionFound, ContradictedMarked, CandidateAdded
  DEF ExtractionStep
<1>5. CASE MergingStep
  BY <1>5, Purged, StaleListed, StaleForgotten, SimilarListed, PairTaken, FirstMarked, MergedAdded,
     SecondSettled, MergedApproved DEF MergingStep
<1>6. CASE JobsCrash
  BY <1>6, JobsCrashed
<1>7. ASSUME NEW i \in DOMAIN memos, TakesBack(i, "forgotten") \/ TakesBack(i, "archived")
      PROVE  JobsInv'
  BY <1>7, UserTakesBack
<1>8. ASSUME NEW i \in DOMAIN memos, Approves(i)
      PROVE  JobsInv'
  BY <1>8, UserApproves
<1>9. ASSUME NEW i \in DOMAIN memos,
             \/ Marks(i, [memos[i] EXCEPT !.pinned = TRUE])
             \/ Marks(i, [memos[i] EXCEPT !.used = TRUE])
      PROVE  JobsInv'
  BY <1>9, UserMarks
<1> QED
  BY <1>1, <1>2, <1>3, <1>4, <1>5, <1>6, <1>7, <1>8, <1>9 DEF JobsNext

LEMMA JobsInvSound ==
  JobsInv => JobsSound /\ JobsTypeOK
<1> SUFFICES ASSUME JobsInv PROVE JobsSound /\ JobsTypeOK
  OBVIOUS
<1>1. FactsKept
  <2> SUFFICES ASSUME NEW f \in known
               PROVE  \/ \E i \in DOMAIN memos :
                           /\ f \in memos[i].text
                           /\ memos[i].status \in (IF merging = None /\ jobErrors = 0 THEN {"active"}
                                                   ELSE {"active", "pending"})
                      \/ f \in (IF MergingIs("add") THEN Read(One).text ELSE {})
                      \/ f \in dropped
    BY DEF FactsKept
  <2>1. Safe(f)
    BY DEF JobsInv
  <2>2. ASSUME MergingIs("settle") \/ MergingIs("approve"), f \in memos[merging.new].text
        PROVE  f \in dropped \/ \E i \in DOMAIN memos :
                 f \in memos[i].text /\ memos[i].status \in {"active", "pending"}
    BY <2>2, MergingNow DEF MergingIs, NewOK
  <2> QED
    BY <2>1, <2>2 DEF Safe, MergingIs
<1>2. NotExtractedAgain /\ PinSurvives /\ ArchivesOnlyStale /\ ForgottenStaysOut
  BY DEF JobsInv
<1>3. JobsTypeOK
  <2>1. /\ memoNext \in 1 .. (MaxMemos + 1) /\ DOMAIN memos \subseteq 1 .. (memoNext - 1)
        /\ memos \in [DOMAIN memos -> MemoRow] /\ RowsSound
    BY DEF JobsInv, JobsTyped
  <2>2. MaxMemos \in Nat
    BY JobsAssumption
  <2>3. memoNext <= MaxMemos + 1
    BY <2>1, <2>2
  <2> QED
    BY <2>1, <2>3 DEF JobsTypeOK, RowsSound, MemoRow
<1> QED
  BY <1>1, <1>2, <1>3 DEF JobsSound

LEMMA JobsInvariance == JobsSpec => []JobsInv
BY JobsInvInit, JobsInvStep, PTL DEF JobsSpec

\* However calls of the user, failures and the end of the process come between the calls of
\* an extraction or of a consolidation, no fact in use, no pin and no decision of the user
\* is lost, and nothing is stored twice that a job has seen (extractor.py, consolidation.py).
THEOREM JobsStaySound == JobsSpec => []JobsSound
BY JobsInvariance, JobsInvSound, PTL

\* The type invariant of the table: ids are below the next one, no row says a secret, and a
\* memory is merged from older ones.
THEOREM JobsTypeCorrect == JobsSpec => []JobsTypeOK
BY JobsInvariance, JobsInvSound, PTL

------------------------------------------------------------------------------
(* The approval gate. *)

Proposal == [no : Nat, made : Nat, status : GateStatus]

\* The proposals of a table at second now, when made is the number of the newest.
Table(p, now, made) ==
  /\ p \in [DOMAIN p -> Proposal]
  /\ \A id \in DOMAIN p :
       p[id].made = id /\ id \in 0 .. now /\ p[id].no \in 1 .. made

Tables == gateFile \cup {gateProposals}

\* A number has one id, in memory and in the file.
OneId ==
  \A p, q \in Tables : \A i \in DOMAIN p, j \in DOMAIN q : p[i].no = q[j].no => i = j

Counts ==
  /\ gateNow \in 0 .. MaxSecond /\ gateMade \in 0 .. MaxProposals
  /\ gateErrors \in Nat

ShownOK == \A s \in gateShown : s.id = s.made /\ s.no \in 1 .. gateMade

GateInv ==
  /\ Counts
  /\ gateFile = {} \/ \E p : gateFile = {p}
  /\ \A p \in Tables : Table(p, gateNow, gateMade)
  /\ OneId
  /\ ShownOK
  /\ gateSettled \subseteq 1 .. gateMade
  /\ SettledStaysSettled
  /\ RestartKeepsPending
  /\ DecisionMeetsShown

------------------------------------------------------------------------------
(* Tables that come from others by decisions, expiry and restarts. *)

\* q keeps some proposals of p, and none becomes pending.
From(q, p) ==
  /\ q \in [DOMAIN q -> Proposal] /\ DOMAIN q \subseteq DOMAIN p
  /\ \A id \in DOMAIN q :
       /\ q[id].no = p[id].no /\ q[id].made = p[id].made
       /\ q[id].status = "pending" => p[id].status = "pending"

LEMMA FromItself == ASSUME NEW p, NEW now, NEW made, Table(p, now, made) PROVE From(p, p)
BY DEF From, Table

LEMMA TablesDerive ==
  ASSUME GateInv, gateMade' = gateMade, gateNow' \in Nat, gateNow <= gateNow',
         \A q \in Tables' : \E p \in Tables : From(q, p)
  PROVE  (\A q \in Tables' : Table(q, gateNow', gateMade')) /\ OneId'
<1>1. ASSUME NEW q \in Tables' PROVE Table(q, gateNow', gateMade')
  <2>1. PICK p \in Tables : From(q, p) /\ Table(p, gateNow, gateMade)
    BY DEF GateInv
  <2>2. \A id \in 0 .. gateNow : id \in 0 .. gateNow'
    BY DEF GateInv, Counts
  <2>3. QED
    BY <2>1, <2>2 DEF Table, From
<1>2. OneId'
  BY DEF GateInv, OneId, From
<1>3. QED
  BY <1>1, <1>2

\* As long as nothing else is settled, what is settled stays so.
LEMMA SettledDerives ==
  ASSUME GateInv, gateSettled' = gateSettled,
         \A q \in Tables' : \E p \in Tables : From(q, p)
  PROVE  SettledStaysSettled'
BY DEF GateInv, SettledStaysSettled, Tables, From, PendingOf

\* A file that holds what memory holds is what a restart needs.
LEMMA SavedFile ==
  ASSUME gateFile' = {gateProposals'}
  PROVE  RestartKeepsPending'
<1>1. (CHOOSE p \in gateFile' : TRUE) = gateProposals' /\ gateFile' # {}
  OBVIOUS
<1>2. QED
  BY <1>1 DEF RestartKeepsPending, Loaded

LEMMA ProposalChanged ==
  ASSUME NEW r \in Proposal, NEW status \in GateStatus
  PROVE  /\ [r EXCEPT !.status = status] \in Proposal
         /\ [r EXCEPT !.status = status].no = r.no /\ [r EXCEPT !.status = status].made = r.made
         /\ [r EXCEPT !.status = status].status = status
BY DEF Proposal

LEMMA ExpiredFrom ==
  ASSUME GateInv, NEW ids
  PROVE  /\ From(Expired(ids), gateProposals) /\ DOMAIN Expired(ids) = DOMAIN gateProposals
         /\ \A id \in DOMAIN gateProposals \cap ids : Expired(ids)[id].status = "expired"
         /\ \A id \in DOMAIN gateProposals \ ids : Expired(ids)[id] = gateProposals[id]
<1>1. \A id \in DOMAIN gateProposals : gateProposals[id] \in Proposal
  BY DEF GateInv, Tables, Table
<1>2. "expired" \in GateStatus
  BY DEF GateStatus
<1>3. DOMAIN Expired(ids) = DOMAIN gateProposals
  BY DEF Expired
<1>4. ASSUME NEW id \in DOMAIN gateProposals
      PROVE  /\ Expired(ids)[id] \in Proposal
             /\ Expired(ids)[id].no = gateProposals[id].no
             /\ Expired(ids)[id].made = gateProposals[id].made
             /\ id \in ids => Expired(ids)[id].status = "expired"
             /\ id \notin ids => Expired(ids)[id] = gateProposals[id]
  BY <1>1, <1>2, ProposalChanged DEF Expired
<1>5. Expired(ids) \in [DOMAIN Expired(ids) -> Proposal]
  BY <1>3, <1>4 DEF Expired
<1>6. QED
  BY <1>3, <1>4, <1>5 DEF From

LEMMA GateStarts == GateInit => GateInv
<1> SUFFICES ASSUME GateInit PROVE GateInv
  OBVIOUS
<1>1. Counts
  BY GateAssumption DEF GateInit, Counts
<1>2. Tables = {<<>>} /\ DOMAIN <<>> = {}
  BY DEF GateInit, Tables
<1>3. \A p \in Tables : Table(p, gateNow, gateMade)
  BY <1>2 DEF Table
<1>4. OneId /\ ShownOK /\ SettledStaysSettled /\ DecisionMeetsShown
  BY <1>2 DEF GateInit, OneId, ShownOK, SettledStaysSettled, PendingOf, DecisionMeetsShown
<1>5. RestartKeepsPending
  <2>1. PendingOf(gateProposals) = {}
    BY <1>2 DEF GateInit, PendingOf
  <2>2. Loaded = <<>>
    BY DEF GateInit, Loaded
  <2>3. <<>> = [id \in {} |-> gateProposals[id]]
    OBVIOUS
  <2>4. QED
    BY <2>1, <2>2, <2>3 DEF RestartKeepsPending
<1>6. QED
  BY <1>1, <1>3, <1>4, <1>5 DEF GateInit, GateInv

------------------------------------------------------------------------------
(* The calls. *)

\* What a write leaves in the file.
LEMMA FileWritten ==
  ASSUME GateInv, NEW before, before = {} \/ \E p : before = {p},
         Saved(gateProposals') \/ NotSaved(before)
  PROVE  /\ gateFile' = {} \/ \E p : gateFile' = {p}
         /\ gateFile' \subseteq before \cup {gateProposals'}
         /\ gateErrors' \in Nat
         /\ gateFile' = {gateProposals'} \/ gateLost'
<1>1. CASE Saved(gateProposals')
  BY <1>1 DEF Saved, GateInv, Counts
<1>2. CASE NotSaved(before)
  <2>1. gateFile' \in {before, {}} /\ gateErrors' \in Nat
    BY <1>2 DEF NotSaved, GateError, GateInv, Counts
  <2>2. gateLost'
    BY <1>2, Zenon DEF NotSaved
  <2>3. QED
    BY <2>1, <2>2
<1>3. QED
  BY <1>1, <1>2

LEMMA ProposeKeeps == ASSUME GateInv, propose PROVE GateInv'
<1> DEFINE new == [no |-> gateMade + 1, made |-> gateNow, status |-> "pending"]
           table == With(gateProposals, gateNow, new)
<1>1. /\ gateMade < MaxProposals /\ gateMade' = gateMade + 1 /\ gateProposals' = table
      /\ UNCHANGED <<gateNow, gateShown, gateSettled, gateHits>>
  BY DEF propose, NewId
<1>2. gateMade \in Nat /\ gateNow \in Nat /\ MaxProposals \in Nat
  BY GateAssumption DEF GateInv, Counts
<1>3. new \in Proposal /\ new.no = gateMade + 1 /\ new.made = gateNow /\ new.status = "pending"
  BY <1>2 DEF Proposal, GateStatus
<1> HIDE DEF new
<1>4. /\ DOMAIN table = DOMAIN gateProposals \cup {gateNow} /\ table[gateNow] = new
      /\ \A id \in DOMAIN gateProposals : id # gateNow => table[id] = gateProposals[id]
  BY DEF With
<1>5. gateFile' = {} \/ \E p : gateFile' = {p}
  BY FileWritten DEF propose, GateInv
<1>6. gateFile' \subseteq gateFile \cup {table} /\ gateErrors' \in Nat
      /\ (gateFile' = {gateProposals'} \/ gateLost')
  BY <1>1, FileWritten DEF propose, GateInv
<1>7. ASSUME NEW p \in Tables PROVE Table(p, gateNow', gateMade')
  <2>1. Table(p, gateNow, gateMade)
    BY DEF GateInv
  <2>2. \A k \in 1 .. gateMade : k \in 1 .. gateMade'
    BY <1>1, <1>2
  <2>3. QED
    BY <1>1, <2>1, <2>2 DEF Table
<1>8. Table(table, gateNow', gateMade')
  <2>1. Table(gateProposals, gateNow', gateMade')
    BY <1>7 DEF Tables
  <2>2. table \in [DOMAIN table -> Proposal]
    <3>1. \A id \in DOMAIN table : table[id] \in Proposal
      BY <1>3, <1>4, <2>1 DEF Table, GateInv, Tables
    <3>2. table = [id \in DOMAIN table |-> table[id]]
      BY DEF With
    <3>3. QED
      BY <3>1, <3>2
  <2>3. ASSUME NEW id \in DOMAIN table
        PROVE  table[id].made = id /\ id \in 0 .. gateNow' /\ table[id].no \in 1 .. gateMade'
    <3>1. CASE id = gateNow
      BY <1>1, <1>2, <1>3, <1>4, <3>1
    <3>2. CASE id # gateNow
      <4>1. id \in DOMAIN gateProposals /\ table[id] = gateProposals[id]
        BY <1>4, <3>2
      <4>2. Table(gateProposals, gateNow, gateMade)
        BY DEF GateInv, Tables
      <4>3. QED
        BY <1>1, <1>2, <4>1, <4>2 DEF Table
    <3>3. QED
      BY <3>1, <3>2
  <2>4. QED
    BY <2>2, <2>3 DEF Table
<1> HIDE DEF table
<1>9. \A p \in Tables' : Table(p, gateNow', gateMade')
  BY <1>1, <1>6, <1>7, <1>8 DEF Tables
<1>10. \A p \in Tables : \A i \in DOMAIN p : p[i].no # gateMade + 1
  BY <1>2 DEF GateInv, Table
<1>11. OneId'
  <2> SUFFICES ASSUME NEW p \in Tables', NEW q \in Tables', NEW i \in DOMAIN p, NEW j \in DOMAIN q,
                      p[i].no = q[j].no
               PROVE  i = j
    BY DEF OneId
\* An entry of either table is the new one or one that was there.
  <2>1. ASSUME NEW r \in Tables', NEW k \in DOMAIN r
        PROVE  \/ k = gateNow /\ r[k].no = gateMade + 1
               \/ \E o \in Tables : k \in DOMAIN o /\ r[k].no = o[k].no
    <3>1. CASE r = table
      BY <1>3, <1>4, <3>1 DEF Tables
    <3>2. CASE r \in gateFile
      BY <3>2 DEF Tables
    <3>3. QED
      BY <1>1, <1>6, <3>1, <3>2 DEF Tables
  <2>2. QED
    BY <1>10, <2>1 DEF GateInv, OneId
<1>12. SettledStaysSettled'
  <2> SUFFICES ASSUME NEW p \in Tables', NEW id \in DOMAIN p, p[id].status = "pending"
               PROVE  p[id].no \notin gateSettled
    BY <1>1 DEF SettledStaysSettled, Tables, PendingOf
  <2>1. CASE p \in Tables
    BY <2>1 DEF GateInv, SettledStaysSettled, Tables, PendingOf
  <2>2. CASE p = table
    <3>1. gateMade + 1 \notin gateSettled
      BY <1>2 DEF GateInv
    <3>2. \A k \in DOMAIN gateProposals :
            gateProposals[k].status = "pending" => gateProposals[k].no \notin gateSettled
      BY DEF GateInv, SettledStaysSettled, PendingOf
    <3>3. QED
      BY <1>3, <1>4, <2>2, <3>1, <3>2
  <2>3. QED
    BY <1>1, <1>6, <2>1, <2>2 DEF Tables
<1>13. RestartKeepsPending'
  BY <1>6, SavedFile DEF RestartKeepsPending
<1>14. Counts' /\ gateSettled' \subseteq 1 .. gateMade' /\ ShownOK' /\ DecisionMeetsShown'
  <2>1. \A k \in 1 .. gateMade : k \in 1 .. gateMade'
    BY <1>1, <1>2
  <2>2. Counts'
    BY <1>1, <1>2, <1>6 DEF GateInv, Counts
  <2>3. QED
    BY <1>1, <2>1, <2>2 DEF GateInv, ShownOK, DecisionMeetsShown
<1>15. QED
  BY <1>5, <1>9, <1>11, <1>12, <1>13, <1>14 DEF GateInv

LEMMA DecideKeeps ==
  ASSUME GateInv, NEW shown \in gateShown, NEW verdict \in {"approved", "rejected"},
         decide(shown, verdict)
  PROVE  GateInv'
<1> DEFINE id == shown.id
           table == [gateProposals EXCEPT ![id].status = verdict]
<1>1. /\ id \in DOMAIN gateProposals /\ gateProposals' = table
      /\ UNCHANGED <<gateNow, gateMade, gateShown>>
  BY DEF decide, Decided
<1>2. Table(gateProposals, gateNow, gateMade)
  BY DEF GateInv, Tables
<1>3. /\ DOMAIN table = DOMAIN gateProposals /\ table[id].status = verdict
      /\ From(table, gateProposals)
  <2>1. verdict \in GateStatus /\ verdict # "pending"
    BY DEF GateStatus
  <2>2. \A i \in DOMAIN gateProposals : gateProposals[i] \in Proposal
    BY <1>2 DEF Table
  <2>3. /\ DOMAIN table = DOMAIN gateProposals
        /\ table[id] = [gateProposals[id] EXCEPT !.status = verdict]
        /\ \A i \in DOMAIN gateProposals : i # id => table[i] = gateProposals[i]
        /\ table = [i \in DOMAIN gateProposals |-> table[i]]
    BY <1>1, <1>2 DEF Table
  <2>4. /\ table[id] \in Proposal /\ table[id].no = gateProposals[id].no
        /\ table[id].made = gateProposals[id].made /\ table[id].status = verdict
    BY <1>1, <2>1, <2>2, <2>3, ProposalChanged
  <2> HIDE DEF table
  <2>5. table \in [DOMAIN table -> Proposal]
    BY <2>2, <2>3, <2>4
  <2>6. QED
    BY <2>1, <2>3, <2>4, <2>5 DEF From
<1> HIDE DEF table
<1>4. Saved(gateProposals') \/ NotSaved(gateFile)
  BY DEF decide
<1>5. gateFile = {} \/ \E p : gateFile = {p}
  BY DEF GateInv
<1>6. /\ gateFile' = {} \/ \E p : gateFile' = {p}
      /\ gateFile' \subseteq gateFile \cup {table} /\ gateErrors' \in Nat
      /\ gateFile' = {gateProposals'} \/ gateLost'
  BY <1>1, <1>4, <1>5, FileWritten
<1>7. \A q \in Tables' : \E p \in Tables : From(q, p)
  BY <1>1, <1>3, <1>6, FromItself DEF Tables, GateInv
<1>8. (\A q \in Tables' : Table(q, gateNow', gateMade')) /\ OneId'
  BY <1>1, <1>7, TablesDerive DEF GateInv, Counts
<1>9. SettledStaysSettled' /\ gateSettled' \subseteq 1 .. gateMade'
  <2>1. CASE Saved(gateProposals') /\ gateSettled' = gateSettled \cup {gateProposals[id].no}
    <3>1. Tables' = {table}
      BY <1>1, <2>1 DEF Saved, Tables
    <3>2. ASSUME NEW i \in DOMAIN table, table[i].status = "pending"
          PROVE  table[i].no \notin gateSettled /\ table[i].no # gateProposals[id].no
      <4>1. i \in DOMAIN gateProposals /\ table[i].no = gateProposals[i].no /\ i # id
            /\ gateProposals[i].status = "pending"
        BY <1>3, <3>2 DEF From
      <4>2. gateProposals[i].no \notin gateSettled
        BY <4>1 DEF GateInv, SettledStaysSettled, PendingOf
      <4>3. gateProposals[i].no # gateProposals[id].no
        BY <1>1, <4>1 DEF GateInv, OneId, Tables
      <4>4. QED
        BY <4>1, <4>2, <4>3
    <3>3. SettledStaysSettled'
      BY <2>1, <3>1, <3>2 DEF SettledStaysSettled, PendingOf, Tables
    <3>4. gateProposals[id].no \in 1 .. gateMade
      BY <1>1, <1>2 DEF Table
    <3>5. QED
      BY <1>1, <2>1, <3>3, <3>4 DEF GateInv
  <2>2. CASE gateSettled' = gateSettled
    BY <1>1, <1>7, <2>2, SettledDerives DEF GateInv
  <2>3. QED
    BY <2>1, <2>2 DEF decide
<1>10. RestartKeepsPending'
  BY <1>6, SavedFile DEF RestartKeepsPending
<1>11. DecisionMeetsShown'
  <2>1. shown.made = id /\ gateProposals[id].made = id
    BY <1>1, <1>2 DEF GateInv, ShownOK, Table
  <2>2. gateHits' = gateHits \cup {[shown |-> shown.no, at |-> shown.made,
                                    hit |-> gateProposals[id].no,
                                    hitAt |-> gateProposals[id].made]}
    BY DEF decide, Hit
  <2>3. QED
    BY <2>1, <2>2 DEF GateInv, DecisionMeetsShown
<1>12. Counts' /\ ShownOK'
  BY <1>1, <1>6 DEF GateInv, Counts, ShownOK
<1>13. QED
  BY <1>6, <1>8, <1>9, <1>10, <1>11, <1>12 DEF GateInv

LEMMA ListKeeps == ASSUME GateInv, get_pending PROVE GateInv'
<1>1. UNCHANGED <<gateNow, gateMade, gateHits>>
  BY DEF get_pending
<1>2. PICK overdue \in BOOLEAN :
        LET due == Expiring(overdue)
            rest == PendingOf(gateProposals) \ due
            upTo(id) == {j \in due : j < id} IN
        \/ /\ gateProposals' = Expired(due)
           /\ IF due = {} THEN UNCHANGED <<gateFile, gateErrors, gateLost>>
              ELSE Saved(gateProposals')
           /\ gateShown' = {[id |-> id, no |-> gateProposals[id].no, made |-> gateProposals[id].made]
                              : id \in rest}
           /\ gateSettled' = gateSettled \cup {gateProposals[id].no : id \in due}
        \/ \E id \in due :
             /\ gateProposals' = Expired(upTo(id) \cup {id})
             /\ NotSaved(IF upTo(id) = {} THEN gateFile ELSE {Expired(upTo(id))})
             /\ gateShown' = {}
             /\ UNCHANGED gateSettled
  BY DEF get_pending
<1> DEFINE due == Expiring(overdue)
           rest == PendingOf(gateProposals) \ due
           upTo(id) == {j \in due : j < id}
<1>3. Table(gateProposals, gateNow, gateMade) /\ From(gateProposals, gateProposals)
  BY FromItself DEF GateInv, Tables
<1>4. due \subseteq DOMAIN gateProposals /\ rest \subseteq DOMAIN gateProposals
  BY DEF Expiring, PendingOf
<1> HIDE DEF due, rest
<1>5. gateNow' \in Nat /\ gateNow <= gateNow'
  BY <1>1, GateAssumption DEF GateInv, Counts
<1>6. CASE /\ gateProposals' = Expired(due)
           /\ IF due = {} THEN UNCHANGED <<gateFile, gateErrors, gateLost>>
              ELSE Saved(gateProposals')
           /\ gateShown' = {[id |-> id, no |-> gateProposals[id].no, made |-> gateProposals[id].made]
                              : id \in rest}
           /\ gateSettled' = gateSettled \cup {gateProposals[id].no : id \in due}
  <2>1. /\ From(gateProposals', gateProposals) /\ DOMAIN gateProposals' = DOMAIN gateProposals
        /\ \A id \in due : gateProposals'[id].status = "expired"
        /\ \A id \in DOMAIN gateProposals \ due : gateProposals'[id] = gateProposals[id]
    BY <1>4, <1>6, ExpiredFrom
  <2>2. /\ gateFile' = {} \/ \E p : gateFile' = {p}
        /\ \A q \in Tables' : \E p \in Tables : From(q, p)
        /\ SettledStaysSettled' /\ RestartKeepsPending' /\ Counts'
    <3>1. CASE due = {}
      <4>1. UNCHANGED <<gateFile, gateErrors, gateLost, gateSettled>>
        BY <1>6, <3>1
      <4>2. \A q \in Tables' : \E p \in Tables : From(q, p)
        BY <2>1, <4>1, FromItself DEF Tables, GateInv
      <4>3. PendingOf(gateProposals') = PendingOf(gateProposals) /\ Loaded' = Loaded
            /\ \A id \in PendingOf(gateProposals) : gateProposals'[id] = gateProposals[id]
        BY <2>1, <3>1, <4>1 DEF PendingOf, Loaded
      <4>4. RestartKeepsPending'
        BY <4>1, <4>3 DEF RestartKeepsPending, GateInv
      <4>5. SettledStaysSettled'
        BY <4>1, <4>2, SettledDerives
      <4>6. Counts'
        BY <1>1, <4>1 DEF GateInv, Counts
      <4>7. gateFile' = {} \/ \E p : gateFile' = {p}
        BY <4>1 DEF GateInv
      <4>8. QED
        BY <4>2, <4>4, <4>5, <4>6, <4>7
    <3>2. CASE due # {}
      <4>1. gateFile' = {gateProposals'} /\ UNCHANGED <<gateErrors, gateLost>>
        BY <1>6, <3>2 DEF Saved
      <4>2. RestartKeepsPending'
        BY <4>1, SavedFile
      <4>3. \A q \in Tables' : \E p \in Tables : From(q, p)
        BY <2>1, <4>1 DEF Tables
      <4>4. ASSUME NEW i \in DOMAIN gateProposals', gateProposals'[i].status = "pending"
            PROVE  gateProposals'[i].no \notin gateSettled'
        <5>1. i \in DOMAIN gateProposals /\ gateProposals'[i].no = gateProposals[i].no
              /\ i \notin due /\ gateProposals[i].status = "pending"
          BY <2>1, <4>4 DEF From
        <5>2. gateProposals[i].no \notin gateSettled
          BY <5>1 DEF GateInv, SettledStaysSettled, PendingOf
        <5>3. \A id \in due : gateProposals[id].no # gateProposals[i].no
          BY <1>4, <5>1 DEF GateInv, OneId, Tables
        <5>4. QED
          BY <1>6, <5>1, <5>2, <5>3
      <4>5. SettledStaysSettled'
        BY <4>1, <4>4 DEF SettledStaysSettled, PendingOf
      <4>6. Counts'
        BY <1>1, <4>1 DEF GateInv, Counts
      <4>7. gateFile' = {} \/ \E p : gateFile' = {p}
        BY <4>1
      <4>8. QED
        BY <4>2, <4>3, <4>5, <4>6, <4>7
    <3>3. QED
      BY <3>1, <3>2
  <2>3. (\A q \in Tables' : Table(q, gateNow', gateMade')) /\ OneId'
    BY <1>1, <1>5, <2>2, TablesDerive
  <2>4. gateSettled' \subseteq 1 .. gateMade'
    BY <1>1, <1>3, <1>4, <1>6 DEF GateInv, Table
  <2>5. ShownOK'
    <3>1. ASSUME NEW s \in gateShown' PROVE s.id = s.made /\ s.no \in 1 .. gateMade
      <4>1. PICK id \in rest : s = [id |-> id, no |-> gateProposals[id].no, made |-> gateProposals[id].made]
        BY <1>6
      <4>2. QED
        BY <1>3, <1>4, <4>1 DEF Table
    <3>2. QED
      BY <1>1, <3>1 DEF ShownOK
  <2>6. DecisionMeetsShown'
    BY <1>1 DEF GateInv, DecisionMeetsShown
  <2>7. QED
    BY <2>2, <2>3, <2>4, <2>5, <2>6 DEF GateInv
<1>7. CASE \E id \in due :
             /\ gateProposals' = Expired(upTo(id) \cup {id})
             /\ NotSaved(IF upTo(id) = {} THEN gateFile ELSE {Expired(upTo(id))})
             /\ gateShown' = {}
             /\ UNCHANGED gateSettled
  <2>1. PICK id \in due :
             /\ gateProposals' = Expired(upTo(id) \cup {id})
             /\ NotSaved(IF upTo(id) = {} THEN gateFile ELSE {Expired(upTo(id))})
    BY <1>7
  <2>2. From(gateProposals', gateProposals) /\ From(Expired(upTo(id)), gateProposals)
    BY <2>1, ExpiredFrom
  <2> DEFINE before == IF upTo(id) = {} THEN gateFile ELSE {Expired(upTo(id))}
  <2>3. before = {} \/ \E p : before = {p}
    BY DEF GateInv
  <2>4. \A q \in before : \E p \in Tables : From(q, p)
    BY <2>2, FromItself DEF Tables, GateInv
  <2>5. NotSaved(before)
    BY <2>1
  <2> HIDE DEF before
  <2>6. /\ gateFile' = {} \/ \E p : gateFile' = {p}
        /\ gateFile' \subseteq before \cup {gateProposals'}
        /\ gateErrors' \in Nat /\ (gateFile' = {gateProposals'} \/ gateLost')
    BY <2>3, <2>5, FileWritten
  <2>7. \A q \in Tables' : \E p \in Tables : From(q, p)
    BY <2>2, <2>4, <2>6 DEF Tables
  <2>8. (\A q \in Tables' : Table(q, gateNow', gateMade')) /\ OneId' /\ SettledStaysSettled'
    BY <1>1, <1>7, <2>7, TablesDerive, SettledDerives DEF GateInv, Counts
  <2>9. RestartKeepsPending'
    BY <2>6, SavedFile DEF RestartKeepsPending
  <2>10. Counts' /\ ShownOK' /\ DecisionMeetsShown' /\ gateSettled' \subseteq 1 .. gateMade'
    BY <1>1, <1>7, <2>6 DEF GateInv, Counts, ShownOK, DecisionMeetsShown
  <2>11. QED
    BY <2>6, <2>8, <2>9, <2>10 DEF GateInv
<1>8. QED
  BY <1>2, <1>6, <1>7 DEF due, rest

LEMMA SecondKeeps == ASSUME GateInv, Second PROVE GateInv'
<1>1. /\ gateNow' = gateNow + 1 /\ gateNow < MaxSecond
      /\ UNCHANGED <<gateProposals, gateFile, gateMade, gateErrors, gateLost, gateShown,
                     gateSettled, gateHits>>
  BY DEF Second
<1>2. gateNow \in Nat /\ MaxSecond \in Nat
  BY GateAssumption DEF GateInv, Counts
<1>3. Counts'
  BY <1>1, <1>2 DEF GateInv, Counts
<1>4. \A q \in Tables' : \E p \in Tables : From(q, p)
  BY <1>1, FromItself DEF Tables, GateInv
<1>5. (\A q \in Tables' : Table(q, gateNow', gateMade')) /\ OneId'
  BY <1>1, <1>2, <1>4, TablesDerive
<1>6. QED
  BY <1>1, <1>3, <1>5 DEF GateInv, ShownOK, SettledStaysSettled, RestartKeepsPending, Loaded,
     DecisionMeetsShown

\* A start keeps what is pending in the file, if there is one.
LEMMA LoadedFrom ==
  ASSUME GateInv
  PROVE  /\ Loaded = [id \in PendingOf(Loaded) |-> Loaded[id]]
         /\ gateFile # {} => \E p \in gateFile : From(Loaded, p)
         /\ gateFile = {} => Loaded = <<>> /\ DOMAIN Loaded = {}
<1>1. CASE gateFile = {}
  <2>1. Loaded = <<>> /\ DOMAIN <<>> = {}
    BY <1>1 DEF Loaded
  <2>2. PendingOf(Loaded) = {}
    BY <2>1 DEF PendingOf
  <2>3. <<>> = [id \in {} |-> Loaded[id]]
    OBVIOUS
  <2>4. QED
    BY <1>1, <2>1, <2>2, <2>3
<1>2. CASE gateFile # {}
  <2>1. PICK p : gateFile = {p}
    BY <1>2 DEF GateInv
  <2>2. (CHOOSE q \in gateFile : TRUE) = p
    BY <2>1
  <2>3. Loaded = [id \in PendingOf(p) |-> p[id]]
    BY <1>2, <2>2 DEF Loaded
  <2>4. Table(p, gateNow, gateMade)
    BY <2>1 DEF GateInv, Tables
  <2>5. From(Loaded, p)
    BY <2>3, <2>4 DEF From, Table, PendingOf
  <2>6. PendingOf(Loaded) = DOMAIN Loaded /\ DOMAIN Loaded = PendingOf(p)
    BY <2>3 DEF PendingOf
  <2>7. Loaded = [id \in PendingOf(Loaded) |-> Loaded[id]]
    BY <2>3, <2>6
  <2>8. QED
    BY <1>2, <2>1, <2>5, <2>7
<1>3. QED
  BY <1>1, <1>2

LEMMA RestartKeeps == ASSUME GateInv, GateRestart PROVE GateInv'
<1>1. /\ gateProposals' = Loaded /\ gateErrors' \in Nat
      /\ UNCHANGED <<gateNow, gateFile, gateMade, gateLost, gateShown, gateSettled, gateHits>>
  BY DEF GateRestart, GateError, GateInv, Counts
<1>2. \A q \in Tables' : \E p \in Tables : From(q, p)
  <2>1. \A q \in gateFile : From(q, q)
    BY FromItself DEF GateInv, Tables
  <2>2. CASE gateFile = {}
    <3>1. From(<<>>, gateProposals)
      BY DEF From
    <3>2. QED
      BY <1>1, <2>2, <3>1, LoadedFrom DEF Tables
  <2>3. CASE gateFile # {}
    BY <1>1, <2>1, <2>3, LoadedFrom DEF Tables
  <2>4. QED
    BY <2>2, <2>3
<1>3. (\A q \in Tables' : Table(q, gateNow', gateMade')) /\ OneId' /\ SettledStaysSettled'
  <2>1. gateNow' \in Nat /\ gateNow <= gateNow'
    BY <1>1, GateAssumption DEF GateInv, Counts
  <2>2. SettledStaysSettled'
    BY <1>1, <1>2, SettledDerives
  <2>3. QED
    BY <1>1, <1>2, <2>1, <2>2, TablesDerive
<1>4. RestartKeepsPending'
  <2>1. Loaded' = Loaded
    BY <1>1 DEF Loaded
  <2>2. QED
    BY <1>1, <2>1, LoadedFrom DEF RestartKeepsPending
<1>5. QED
  BY <1>1, <1>3, <1>4 DEF GateInv, Counts, ShownOK, DecisionMeetsShown

LEMMA GateNextKeeps == GateInv /\ [GateNext]_gateVars => GateInv'
<1>1. ASSUME GateInv, UNCHANGED gateVars PROVE GateInv'
  <2>1. Tables' = Tables /\ Loaded' = Loaded
    BY <1>1 DEF gateVars, Tables, Loaded
  <2>2. QED
    BY <1>1, <2>1 DEF gateVars, GateInv, Counts, OneId, ShownOK, SettledStaysSettled,
       RestartKeepsPending, DecisionMeetsShown, Tables
<1>2. QED
  BY <1>1, ProposeKeeps, DecideKeeps, ListKeeps, SecondKeeps, RestartKeeps DEF GateNext

LEMMA GateInvariance == GateSpec => []GateInv
BY GateStarts, GateNextKeeps, PTL DEF GateSpec

------------------------------------------------------------------------------
\* Failed writes, restarts and shared ids neither reopen a proposal that a call
\* has reported as settled, nor drop a pending one while no write has failed,
\* nor turn a decision to a proposal of another second.
THEOREM GateStaysSound == GateSpec => []GateSound
<1>1. GateInv => GateSound
  BY DEF GateInv, GateSound
<1>2. QED
  BY <1>1, GateInvariance, PTL

\* The type invariant of the gate holds for any bounds.
THEOREM GateTypeCorrect == GateSpec => []GateTypeOK
<1>1. GateInv => GateTypeOK
  <2> SUFFICES ASSUME GateInv PROVE GateTypeOK
    OBVIOUS
  <2>1. Cardinality(gateFile) <= 1
    <3>1. \A p : Cardinality({p}) = 1
      BY FS_Singleton
    <3>2. Cardinality({}) = 0
      BY FS_EmptySet
    <3>3. CASE gateFile = {}
      BY <3>2, <3>3
    <3>4. CASE \E p : gateFile = {p}
      <4>1. PICK p : gateFile = {p}
        BY <3>4
      <4>2. Cardinality(gateFile) = 1
        BY <3>1, <4>1
      <4>3. QED
        BY <4>2
    <3>5. QED
      BY <3>3, <3>4 DEF GateInv
  <2>2. Table(gateProposals, gateNow, gateMade)
    BY DEF GateInv, Tables
  <2>3. QED
    BY <2>1, <2>2 DEF GateInv, Counts, Table, Proposal, ShownOK, GateTypeOK
<1>2. QED
  BY <1>1, GateInvariance, PTL
------------------------------------------------------------------------------
(* The page of the chat. *)

Send == [page : Pages, visit : 0 .. MaxVisits, thread : Conversations,
         pc : {"parsing", "open", "simulating", "closed"},
         simulated : 1 .. (SimulatedWords + 1), words : Nat, stopped : BOOLEAN]

LensTyped ==
  /\ lensPage \in [Pages -> [visit : 0 .. MaxVisits, conv : 0 .. MaxVisits,
                             abort : SendIds \cup {None}, streaming : BOOLEAN]]
  /\ lensShown \in [SendIds -> Nat]
  /\ lensSends \in Seq(Send) /\ Len(lensSends) <= MaxSends
  /\ lensVisits \in 0 .. MaxVisits

StoreTyped ==
  \A t \in DOMAIN lensStore :
    /\ lensStore[t] \in Seq([no : SendIds, words : Nat])
    /\ Len(lensStore[t]) \in 1 .. MaxExchanges

\* Only the home page can stop an answer, and only one of its own.
AbortsOwn ==
  /\ lensPage["home"].abort \in Sent \cup {None} /\ lensPage["memory"].abort = None
  /\ \A i \in Sent : /\ lensPage["home"].abort = i => lensSends[i].page = "home"
                     /\ lensSends[i].pc = "parsing" => lensSends[i].page = "home"

\* What is shown is what will be recorded.
ShownIsSaid ==
  \A i \in SendIds : lensShown[i] = IF i \in Sent THEN lensSends[i].words ELSE 0

StoppedIsClosed == \A i \in Sent : lensSends[i].stopped => lensSends[i].pc = "closed"

\* An exchange is of a question whose answer has ended and has not been stopped.
RecordedAtEnd ==
  \A t \in DOMAIN lensStore : \A k \in DOMAIN lensStore[t] :
    LET i == lensStore[t][k].no IN
    /\ i \in Sent /\ lensSends[i].pc = "closed" /\ ~lensSends[i].stopped
    /\ lensSends[i].thread = t /\ lensSends[i].words = lensStore[t][k].words

RecordedOnce ==
  \A t \in DOMAIN lensStore : \A k, j \in DOMAIN lensStore[t] :
    lensStore[t][k].no = lensStore[t][j].no => j = k

LensInv ==
  /\ LensTyped /\ StoreTyped /\ AbortsOwn /\ ShownIsSaid /\ StoppedIsClosed
  /\ RecordedAtEnd /\ RecordedOnce /\ WaitsForAnswer

------------------------------------------------------------------------------
(* What recordExchange keeps. *)

\* The end of a sequence to which an exchange is appended.
LEMMA KeptEnd ==
  ASSUME NEW S, NEW s \in Seq(S), NEW e \in S
  PROVE  LET d == Len(s) + 1 - Least(Len(s) + 1, MaxExchanges)
             kept == Kept(Append(s, e)) IN
         /\ d \in Nat /\ d <= Len(s)
         /\ kept \in Seq(S) /\ Len(kept) = Len(s) + 1 - d
         /\ Len(kept) \in 1 .. MaxExchanges
         /\ \A k \in 1 .. Len(kept) : kept[k] = IF k + d = Len(s) + 1 THEN e ELSE s[k + d]
<1> DEFINE q == Append(s, e)
           d == Len(s) + 1 - Least(Len(s) + 1, MaxExchanges)
<1>1. /\ q \in Seq(S) /\ Len(q) = Len(s) + 1
      /\ \A k \in 1 .. Len(q) : q[k] = IF k = Len(s) + 1 THEN e ELSE s[k]
  BY AppendProperties
<1>2. Len(s) \in Nat
  BY LenProperties
<1>3. d \in Nat /\ d <= Len(s) /\ Len(s) + 1 - d \in 1 .. MaxExchanges
  BY <1>2, LensAssumption DEF Least
<1>4. Kept(q) = SubSeq(q, 1 + d, Len(q))
  <2>1. 1 + Len(q) - Least(Len(q), MaxExchanges) = 1 + d
    BY <1>1, <1>2, LensAssumption DEF Least
  <2> QED
    BY <2>1 DEF Kept
<1> HIDE DEF d, q
<1>5. /\ SubSeq(q, 1 + d, Len(q)) \in Seq(S)
      /\ Len(SubSeq(q, 1 + d, Len(q))) = Len(q) - d
      /\ \A k \in 1 .. Len(q) - d : SubSeq(q, 1 + d, Len(q))[k] = q[k + d]
  <2>1. 1 + d \in 1 .. Len(q) + 1 /\ Len(q) \in Nat
    BY <1>1, <1>2, <1>3
  <2>2. \A k \in (1 + d) .. Len(q) : q[k] \in S
    BY <1>1, <1>3, ElementOfSeq
  <2> QED
    BY <1>1, <1>2, <1>3, <2>1, <2>2, SubSeqProperties
<1>6. \A k \in 1 .. Len(q) - d : /\ k + d \in 1 .. Len(q)
                               /\ Kept(q)[k] = q[k + d]
  <2>1. \A k \in 1 .. Len(q) - d : k + d \in 1 .. Len(q)
    BY <1>1, <1>2, <1>3
  <2> QED
    BY <2>1, <1>4, <1>5, Zenon
<1>7. Kept(q) \in Seq(S) /\ Len(Kept(q)) = Len(q) - d
  BY <1>4, <1>5, Zenon
<1> DEFINE r == Kept(q)
<1> HIDE DEF r
<1>8. /\ r \in Seq(S) /\ Len(r) = Len(s) + 1 - d
      /\ \A k \in 1 .. Len(r) : r[k] = IF k + d = Len(s) + 1 THEN e ELSE s[k + d]
  <2>1. \A k \in 1 .. Len(q) - d : r[k] = q[k + d] /\ k + d \in 1 .. Len(q)
    BY <1>6 DEF r
  <2>2. r \in Seq(S) /\ Len(r) = Len(q) - d
    BY <1>7 DEF r
  <2>3. \A k \in 1 .. Len(q) : q[k] = IF k = Len(s) + 1 THEN e ELSE s[k]
    BY <1>1
  <2>4. \A k \in 1 .. Len(q) - d : r[k] = IF k + d = Len(s) + 1 THEN e ELSE s[k + d]
    BY <2>1, <2>3, Zenon
  <2>5. Len(q) = Len(s) + 1
    BY <1>1
  <2> QED
    BY <1>2, <1>3, <2>2, <2>4, <2>5
<1> QED
  BY <1>3, <1>8 DEF d, q, r

------------------------------------------------------------------------------
(* Frames: what follows when a send or the store changes little. *)

LEMMA SendsOf ==
  ASSUME LensTyped
  PROVE  /\ Len(lensSends) \in Nat /\ Sent = 1 .. Len(lensSends) /\ Sent \subseteq SendIds
         /\ \A i \in Sent : lensSends[i] \in Send
<1>1. Len(lensSends) \in Nat /\ Sent = 1 .. Len(lensSends)
  BY LenProperties DEF LensTyped, Sent
<1>2. Sent \subseteq SendIds
  BY <1>1, LensAssumption DEF LensTyped, SendIds
<1>3. \A i \in Sent : lensSends[i] \in Send
  BY <1>1, ElementOfSeq DEF LensTyped
<1> QED
  BY <1>1, <1>2, <1>3

\* One send changes.
LEMMA OneSend ==
  ASSUME LensTyped, NEW i \in Sent, NEW r \in Send,
         lensSends' = [lensSends EXCEPT ![i] = r]
  PROVE  /\ Sent' = Sent /\ lensSends' \in Seq(Send) /\ Len(lensSends') = Len(lensSends)
         /\ lensSends'[i] = r
         /\ \A j \in Sent : j # i => lensSends'[j] = lensSends[j]
<1>1. i \in 1 .. Len(lensSends)
  BY SendsOf
<1>2. lensSends' \in Seq(Send) /\ Len(lensSends') = Len(lensSends)
  BY <1>1, ExceptSeq DEF LensTyped
<1>3. DOMAIN lensSends' = DOMAIN lensSends
  OBVIOUS
<1>4. lensSends'[i] = r /\ \A j \in Sent : j # i => lensSends'[j] = lensSends[j]
  BY DEF Sent
<1> QED
  BY <1>2, <1>3, <1>4 DEF Sent

\* A send whose answer has ended and was not stopped is never touched again.
EndedIn(sends, i) == sends[i].pc = "closed" /\ ~sends[i].stopped
Ended(i) == EndedIn(lensSends, i)

EndedStays ==
  \A i \in Sent : Ended(i) =>
    /\ i \in Sent' /\ EndedIn(lensSends', i)
    /\ lensSends'[i].thread = lensSends[i].thread /\ lensSends'[i].words = lensSends[i].words

\* No exchange comes, and threads may go.
LEMMA StoreStays ==
  ASSUME LensInv, EndedStays, DOMAIN lensStore' \subseteq DOMAIN lensStore,
         \A t \in DOMAIN lensStore' : lensStore'[t] = lensStore[t]
  PROVE  StoreTyped' /\ RecordedAtEnd' /\ RecordedOnce'
<1>1. StoreTyped'
  BY DEF LensInv, StoreTyped, SendIds
<1>2. RecordedOnce'
  BY DEF LensInv, RecordedOnce
<1>3. RecordedAtEnd'
  BY DEF LensInv, RecordedAtEnd, EndedStays, Ended, EndedIn
<1> QED
  BY <1>1, <1>2, <1>3

Exchange == [no : SendIds, words : Nat]
Before(t) == IF t \in DOMAIN lensStore THEN lensStore[t] ELSE <<>>

\* What was kept of a thread before, with its types.
LEMMA BeforeTyped ==
  ASSUME StoreTyped, NEW t
  PROVE  /\ Before(t) \in Seq(Exchange) /\ Len(Before(t)) \in Nat
         /\ Before(t) # <<>> => t \in DOMAIN lensStore
<1>1. CASE t \in DOMAIN lensStore
  BY <1>1, LenProperties DEF StoreTyped, Before, Exchange
<1>2. CASE t \notin DOMAIN lensStore
  <2>1. Before(t) = <<>>
    BY <1>2 DEF Before
  <2> QED
    BY <2>1, EmptySeq
<1> QED
  BY <1>1, <1>2

\* An answer that ends is the newest exchange of its thread.
RecordedLast(t, e) ==
  LET old == Before(t)
      new == lensStore'[t] IN
  /\ DOMAIN lensStore' = DOMAIN lensStore \cup {t}
  /\ \A u \in DOMAIN lensStore \ {t} : lensStore'[u] = lensStore[u]
  /\ new \in Seq(Exchange) /\ Len(new) \in 1 .. MaxExchanges
  /\ new[Len(new)] = e
  /\ \A k \in 1 .. Len(new) - 1 : \E j \in DOMAIN old :
       new[k] = old[j] /\ j = k + Len(old) - (Len(new) - 1)
  /\ \A j \in 2 .. Len(old) : old[j] \in Elements(new)
  /\ Len(old) < MaxExchanges => Len(new) = Len(old) + 1

LEMMA Recording ==
  ASSUME StoreTyped, NEW t, NEW e \in Exchange, recordExchange(t, e)
  PROVE  RecordedLast(t, e)
<1> DEFINE old == Before(t)
           d == Len(old) + 1 - Least(Len(old) + 1, MaxExchanges)
           new == Kept(Append(old, e))
<1>1. old \in Seq(Exchange) /\ Len(old) \in Nat
  BY BeforeTyped
<1>2. /\ DOMAIN lensStore' = DOMAIN lensStore \cup {t}
      /\ \A u \in DOMAIN lensStore \ {t} : lensStore'[u] = lensStore[u]
      /\ lensStore'[t] = new
  BY DEF recordExchange, Before
<1>3. /\ d \in Nat /\ d <= Len(old)
      /\ new \in Seq(Exchange) /\ Len(new) = Len(old) + 1 - d /\ Len(new) \in 1 .. MaxExchanges
      /\ \A k \in 1 .. Len(new) : new[k] = IF k + d = Len(old) + 1 THEN e ELSE old[k + d]
  BY <1>1, KeptEnd
<1>4. Len(old) < MaxExchanges => d = 0
  BY <1>1, LensAssumption DEF Least
<1>5. d <= 1
  <2>1. Len(old) <= MaxExchanges
    <3>1. CASE t \in DOMAIN lensStore
      BY <3>1, <1>1 DEF StoreTyped, Before
    <3>2. CASE t \notin DOMAIN lensStore
      <4>1. Len(old) = 0
        BY <3>2, EmptySeq DEF Before
      <4> QED
        BY <4>1, LensAssumption
    <3> QED
      BY <3>1, <3>2
  <2> QED
    BY <2>1, <1>1, LensAssumption DEF Least
<1>6. DOMAIN old = 1 .. Len(old) /\ DOMAIN new = 1 .. Len(new)
  BY <1>1, <1>3, LenProperties
<1> HIDE DEF old, new, d
<1>7. new[Len(new)] = e
  BY <1>1, <1>3
<1>8. ASSUME NEW k \in 1 .. Len(new) - 1
      PROVE  \E j \in DOMAIN old : new[k] = old[j] /\ j = k + Len(old) - (Len(new) - 1)
  <2>1. k + d \in 1 .. Len(old) /\ k \in 1 .. Len(new) /\ k + d # Len(old) + 1
    BY <1>1, <1>3
  <2>2. k + d = k + Len(old) - (Len(new) - 1)
    BY <1>1, <1>3
  <2>3. new[k] = old[k + d]
    BY <1>3, <2>1
  <2> QED
    BY <1>6, <2>1, <2>2, <2>3
<1>9. ASSUME NEW j \in 2 .. Len(old)
      PROVE  old[j] \in Elements(new)
  <2>1. j - d \in 1 .. Len(new) /\ (j - d) + d = j /\ j # Len(old) + 1
    BY <1>1, <1>3, <1>5
  <2>2. new[j - d] = old[j]
    BY <1>3, <2>1
  <2> QED
    BY <1>6, <2>1, <2>2 DEF Elements
<1>10. Len(old) < MaxExchanges => Len(new) = Len(old) + 1
  BY <1>1, <1>3, <1>4
<1> QED
  BY <1>2, <1>3, <1>7, <1>8, <1>9, <1>10 DEF RecordedLast, old

\* Then the store is still sound if the answer had not ended before.
LEMMA RecordingInv ==
  ASSUME LensInv, NEW i \in Sent, ~Ended(i), EndedStays, i \in Sent', EndedIn(lensSends', i),
         lensSends'[i].thread = lensSends[i].thread, lensSends'[i].words = lensSends[i].words,
         RecordedLast(lensSends[i].thread, [no |-> i, words |-> lensSends[i].words])
  PROVE  StoreTyped' /\ RecordedAtEnd' /\ RecordedOnce'
<1> DEFINE t == lensSends[i].thread
           e == [no |-> i, words |-> lensSends[i].words]
           old == Before(t)
           new == lensStore'[t]
<1>1. /\ DOMAIN lensStore' = DOMAIN lensStore \cup {t}
      /\ \A u \in DOMAIN lensStore \ {t} : lensStore'[u] = lensStore[u]
      /\ new \in Seq(Exchange) /\ Len(new) \in 1 .. MaxExchanges
      /\ new[Len(new)] = e
      /\ \A k \in 1 .. Len(new) - 1 : \E j \in DOMAIN old :
           new[k] = old[j] /\ j = k + Len(old) - (Len(new) - 1)
  BY DEF RecordedLast
<1>2. old \in Seq(Exchange) /\ Len(old) \in Nat /\ (old # <<>> => t \in DOMAIN lensStore)
  BY BeforeTyped DEF LensInv
<1>3. DOMAIN old = 1 .. Len(old) /\ DOMAIN new = 1 .. Len(new)
  BY <1>1, <1>2, LenProperties
<1>4. ASSUME NEW j \in DOMAIN old
      PROVE  /\ t \in DOMAIN lensStore /\ old = lensStore[t]
             /\ old[j].no \in Sent /\ old[j].no # i /\ Ended(old[j].no)
             /\ lensSends[old[j].no].thread = t /\ lensSends[old[j].no].words = old[j].words
  <2>1. t \in DOMAIN lensStore /\ old = lensStore[t]
    BY <1>4, <1>3, <1>2, EmptySeq DEF Before
  <2> QED
    BY <2>1, <1>4 DEF LensInv, RecordedAtEnd, Ended, EndedIn
<1>5. ASSUME NEW j \in DOMAIN old, NEW k \in DOMAIN old, old[j].no = old[k].no
      PROVE  j = k
  BY <1>4, <1>5 DEF LensInv, RecordedOnce
<1> HIDE DEF old, new
<1>6. StoreTyped'
  BY <1>1 DEF LensInv, StoreTyped, Exchange, SendIds, new
<1>7. e.no = i /\ e.words = lensSends[i].words
  OBVIOUS
<1> HIDE DEF e
<1>8. ASSUME NEW k \in DOMAIN new
      PROVE  \/ k = Len(new) /\ new[k] = e
             \/ k # Len(new) /\ \E j \in DOMAIN old :
                  new[k] = old[j] /\ j = k + Len(old) - (Len(new) - 1)
  <2>1. k = Len(new) \/ k \in 1 .. Len(new) - 1
    BY <1>8, <1>1, <1>3
  <2> QED
    BY <2>1, <1>1 DEF new
<1>9. RecordedAtEnd'
  <2> SUFFICES ASSUME NEW u \in DOMAIN lensStore', NEW k \in DOMAIN lensStore'[u]
               PROVE  LET n == lensStore'[u][k].no IN
                      /\ n \in Sent' /\ EndedIn(lensSends', n) /\ lensSends'[n].thread = u
                      /\ lensSends'[n].words = lensStore'[u][k].words
    BY DEF RecordedAtEnd, Ended, EndedIn
  <2>1. CASE u # t
    <3>1. u \in DOMAIN lensStore /\ lensStore'[u] = lensStore[u]
      BY <2>1, <1>1
    <3> QED
      BY <3>1 DEF LensInv, RecordedAtEnd, EndedStays, Ended, EndedIn
  <2>2. CASE u = t /\ new[k] = e
    BY <2>2, <1>7 DEF new
  <2>3. CASE u = t /\ \E j \in DOMAIN old : new[k] = old[j]
    <3>1. PICK j \in DOMAIN old : new[k] = old[j]
      BY <2>3
    <3> QED
      BY <2>3, <3>1, <1>4 DEF EndedStays, new
  <2> QED
    BY <2>1, <2>2, <2>3, <1>8 DEF new
<1>10. RecordedOnce'
  <2> SUFFICES ASSUME NEW u \in DOMAIN lensStore',
                      NEW k \in DOMAIN lensStore'[u], NEW j \in DOMAIN lensStore'[u],
                      lensStore'[u][k].no = lensStore'[u][j].no
               PROVE  j = k
    BY DEF RecordedOnce
  <2>1. CASE u # t
    <3>1. u \in DOMAIN lensStore /\ lensStore'[u] = lensStore[u]
      BY <2>1, <1>1
    <3> QED
      BY <3>1 DEF LensInv, RecordedOnce
  <2>2. CASE u = t
    <3>1. k \in DOMAIN new /\ j \in DOMAIN new /\ new[k].no = new[j].no
      BY <2>2 DEF new
    <3>2. CASE k = Len(new) /\ j # Len(new)
      BY <3>1, <3>2, <1>4, <1>7, <1>8
    <3>3. CASE j = Len(new) /\ k # Len(new)
      BY <3>1, <3>3, <1>4, <1>7, <1>8
    <3>4. CASE j # Len(new) /\ k # Len(new)
      <4>1. PICK m \in DOMAIN old : new[k] = old[m] /\ m = k + Len(old) - (Len(new) - 1)
        BY <3>1, <3>4, <1>8
      <4>2. PICK n \in DOMAIN old : new[j] = old[n] /\ n = j + Len(old) - (Len(new) - 1)
        BY <3>1, <3>4, <1>8
      <4>3. m = n
        BY <4>1, <4>2, <3>1, <1>5
      <4>4. k \in Int /\ j \in Int /\ Len(new) \in Int
        BY <3>1, <1>3, <1>1 DEF new
      <4> QED
        BY <4>1, <4>2, <4>3, <4>4, <1>2
    <3> QED
      BY <3>2, <3>3, <3>4
  <2> QED
    BY <2>1, <2>2
<1> QED
  BY <1>6, <1>9, <1>10

------------------------------------------------------------------------------
(* The steps. *)

LEMMA LensInitInv == ASSUME LensInit PROVE LensInv
<1>1. Sent = {} /\ lensSends \in Seq(Send) /\ Len(lensSends) = 0 /\ DOMAIN lensStore = {}
  BY EmptySeq, LenProperties DEF LensInit, Sent
<1>2. LensTyped
  BY <1>1, LensAssumption DEF LensInit, LensTyped, Pages
<1>3. StoreTyped /\ RecordedAtEnd /\ RecordedOnce
  BY <1>1 DEF StoreTyped, RecordedAtEnd, RecordedOnce
<1>4. AbortsOwn /\ ShownIsSaid /\ StoppedIsClosed
  BY <1>1 DEF LensInit, AbortsOwn, ShownIsSaid, StoppedIsClosed, Pages
<1>5. WaitsForAnswer
  BY DEF LensInit, WaitsForAnswer
<1> QED
  BY <1>2, <1>3, <1>4, <1>5 DEF LensInv

LEMMA HandleSendInv ==
  ASSUME LensInv, NEW p \in Pages, NEW attached \in BOOLEAN, handleSend(p, attached)
  PROVE  LensInv'
<1> DEFINE i == Len(lensSends) + 1
           page == lensPage[p]
           send == [page |-> p, visit |-> page.visit,
                    thread |-> IF p = "home" THEN <<p, page.conv>> ELSE <<p, "send", i>>,
                    pc |-> IF attached THEN "parsing" ELSE "open",
                    simulated |-> SimulatedWords + 1, words |-> 0, stopped |-> FALSE]
<1>1. /\ i \in SendIds /\ ~page.streaming /\ (attached => p = "home")
      /\ lensSends' = Append(lensSends, send)
      /\ lensPage' = [lensPage EXCEPT ![p].streaming = TRUE,
                                      ![p].abort = IF p = "home" /\ ~attached THEN i ELSE @]
      /\ UNCHANGED <<lensShown, lensStore, lensVisits>>
  BY DEF handleSend
<1>2. /\ Len(lensSends) \in Nat /\ Sent = 1 .. Len(lensSends) /\ Sent \subseteq SendIds
      /\ lensSends \in Seq(Send)
  BY SendsOf DEF LensInv, LensTyped
<1>3. send \in Send
  <2>1. page.visit \in 0 .. MaxVisits /\ page.conv \in 0 .. MaxVisits
    BY DEF LensInv, LensTyped
  <2>2. send.thread \in Conversations
    BY <2>1, <1>1 DEF Conversations
  <2> QED
    BY <2>1, <2>2, LensAssumption DEF Send
<1>4. send.page = p /\ send.words = 0 /\ ~send.stopped /\ send.pc # "closed"
      /\ (send.pc = "parsing" => p = "home") /\ send.visit = page.visit
  BY <1>1
<1> HIDE DEF send
<1>5. /\ lensSends' \in Seq(Send) /\ Len(lensSends') = i /\ Sent' = 1 .. i
      /\ lensSends'[i] = send /\ \A j \in Sent : lensSends'[j] = lensSends[j]
  <2>1. /\ Append(lensSends, send) \in Seq(Send) /\ Len(Append(lensSends, send)) = i
        /\ \A j \in 1 .. i : Append(lensSends, send)[j] = IF j = i THEN send ELSE lensSends[j]
    BY <1>2, <1>3, AppendProperties
  <2> QED
    BY <1>1, <1>2, <2>1, LenProperties DEF Sent
<1>6. i \notin Sent /\ Sent' = Sent \cup {i}
  BY <1>2, <1>5
<1>7. /\ lensPage'[p].streaming = TRUE
      /\ \A q \in Pages : /\ lensPage'[q].visit = lensPage[q].visit
                          /\ q # p => lensPage'[q] = lensPage[q]
      /\ lensPage'[p].abort = IF p = "home" /\ ~attached THEN i ELSE page.abort
  BY <1>1 DEF LensInv, LensTyped
<1>8. LensTyped'
  <2>1. lensPage' \in [Pages -> [visit : 0 .. MaxVisits, conv : 0 .. MaxVisits,
                                 abort : SendIds \cup {None}, streaming : BOOLEAN]]
    BY <1>1 DEF LensInv, LensTyped
  <2>2. Len(lensSends') <= MaxSends
    BY <1>1, <1>5, LensAssumption DEF SendIds
  <2> QED
    BY <1>1, <1>5, <2>1, <2>2 DEF LensInv, LensTyped
<1>9. EndedStays
  BY <1>5, <1>6 DEF EndedStays, Ended, EndedIn
<1>10. StoreTyped' /\ RecordedAtEnd' /\ RecordedOnce'
  BY <1>1, <1>9, StoreStays
<1>11. AbortsOwn'
  <2>1. lensPage'["home"].abort \in Sent' \cup {None} /\ lensPage'["memory"].abort = None
    BY <1>6, <1>7 DEF LensInv, AbortsOwn, Pages
  <2>2. ASSUME NEW j \in Sent
        PROVE  /\ lensPage'["home"].abort = j => lensSends'[j].page = "home"
               /\ lensSends'[j].pc = "parsing" => lensSends'[j].page = "home"
    BY <1>5, <1>6, <1>7 DEF LensInv, AbortsOwn, Pages
  <2>3. /\ lensPage'["home"].abort = i => lensSends'[i].page = "home"
        /\ lensSends'[i].pc = "parsing" => lensSends'[i].page = "home"
    <3>1. lensPage'["home"].abort = i => p = "home"
      BY <1>1, <1>6, <1>7, LensAssumption DEF LensInv, AbortsOwn, Pages
    <3> QED
      BY <3>1, <1>4, <1>5
  <2> QED
    BY <2>1, <2>2, <2>3, <1>6 DEF AbortsOwn
<1>12. ShownIsSaid'
  BY <1>1, <1>2, <1>4, <1>5, <1>6 DEF LensInv, ShownIsSaid
<1>13. StoppedIsClosed'
  BY <1>4, <1>5, <1>6 DEF LensInv, StoppedIsClosed
<1>14. WaitsForAnswer'
  <2> SUFFICES ASSUME NEW q \in Pages, lensPage'[q].streaming
               PROVE  \E j \in Sent' : lensSends'[j].page = q /\ lensSends'[j].pc # "closed"
                                       /\ lensPage'[lensSends'[j].page].visit = lensSends'[j].visit
    BY DEF WaitsForAnswer, Mounted
  <2>1. CASE q = p
    BY <2>1, <1>4, <1>5, <1>6, <1>7
  <2>2. CASE q # p
    <3>1. PICK j \in Sent : lensSends[j].page = q /\ Mounted(j) /\ lensSends[j].pc # "closed"
      BY <2>2, <1>7 DEF LensInv, WaitsForAnswer
    <3> QED
      BY <3>1, <1>5, <1>6, <1>7 DEF Mounted
  <2> QED
    BY <2>1, <2>2
<1> QED
  BY <1>8, <1>10, <1>11, <1>12, <1>13, <1>14 DEF LensInv

PageType == [Pages -> [visit : 0 .. MaxVisits, conv : 0 .. MaxVisits,
                       abort : SendIds \cup {None}, streaming : BOOLEAN]]

\* A send that is not over goes on, whatever becomes of the page and the store.
SendBecomes(i, r) ==
  /\ lensSends' = [lensSends EXCEPT ![i] = r]
  /\ r.page = lensSends[i].page /\ r.visit = lensSends[i].visit
  /\ r.thread = lensSends[i].thread
  /\ r.stopped => r.pc = "closed"
  /\ r.pc = "parsing" => lensSends[i].pc = "parsing"
  /\ Ended(i) => r.pc = "closed" /\ ~r.stopped /\ r.words = lensSends[i].words
  /\ lensShown' = [lensShown EXCEPT ![i] = r.words]
  /\ lensVisits' = lensVisits

LEMMA SendGoes ==
  ASSUME LensInv, NEW i \in Sent, NEW r \in Send, SendBecomes(i, r), lensPage' \in PageType
  PROVE  /\ LensTyped' /\ ShownIsSaid' /\ StoppedIsClosed' /\ EndedStays
         /\ Sent' = Sent /\ lensSends'[i] = r
         /\ \A j \in Sent : j # i => lensSends'[j] = lensSends[j]
         /\ \A j \in Sent : /\ lensSends'[j].page = lensSends[j].page
                            /\ lensSends'[j].visit = lensSends[j].visit
                            /\ lensSends'[j].pc = "parsing" => lensSends[j].pc = "parsing"
<1>1. /\ Sent' = Sent /\ lensSends' \in Seq(Send) /\ Len(lensSends') = Len(lensSends)
      /\ lensSends'[i] = r
      /\ \A j \in Sent : j # i => lensSends'[j] = lensSends[j]
  BY OneSend DEF LensInv, SendBecomes
<1>2. Sent \subseteq SendIds
  BY SendsOf DEF LensInv
<1>3. r.words \in Nat
  BY DEF Send
<1>4. /\ lensShown' \in [SendIds -> Nat] /\ lensShown'[i] = r.words
      /\ \A j \in SendIds : j # i => lensShown'[j] = lensShown[j]
  BY <1>2, <1>3 DEF LensInv, LensTyped, SendBecomes
<1>5. LensTyped'
  BY <1>1, <1>4 DEF LensInv, LensTyped, SendBecomes, PageType
<1>6. ShownIsSaid'
  BY <1>1, <1>4, <1>2 DEF LensInv, ShownIsSaid
<1>7. StoppedIsClosed'
  BY <1>1 DEF LensInv, StoppedIsClosed, SendBecomes
<1>8. EndedStays
  BY <1>1 DEF EndedStays, SendBecomes, Ended, EndedIn
<1>9. \A j \in Sent : /\ lensSends'[j].page = lensSends[j].page
                      /\ lensSends'[j].visit = lensSends[j].visit
                      /\ lensSends'[j].pc = "parsing" => lensSends[j].pc = "parsing"
  BY <1>1 DEF SendBecomes
<1> QED
  BY <1>1, <1>5, <1>6, <1>7, <1>8, <1>9

\* The pages wait for no more than before, and for nothing that the step ends.
LEMMA StillWaits ==
  ASSUME LensInv, Sent' = Sent,
         \A q \in Pages : lensPage'[q].streaming =>
           lensPage[q].streaming /\ lensPage'[q].visit = lensPage[q].visit,
         \A j \in Sent : lensSends'[j].page = lensSends[j].page
                         /\ lensSends'[j].visit = lensSends[j].visit,
         \A j \in Sent : lensSends'[j].pc = "closed" =>
           \/ lensSends[j].pc = "closed" \/ ~Mounted(j)
           \/ lensSends[j].page \in Pages /\ ~lensPage'[lensSends[j].page].streaming
  PROVE  WaitsForAnswer'
<1> SUFFICES ASSUME NEW q \in Pages, lensPage'[q].streaming
             PROVE  \E j \in Sent' : lensSends'[j].page = q /\ lensSends'[j].pc # "closed"
                                     /\ lensPage'[lensSends'[j].page].visit = lensSends'[j].visit
  BY DEF WaitsForAnswer, Mounted
<1>1. PICK j \in Sent : lensSends[j].page = q /\ Mounted(j) /\ lensSends[j].pc # "closed"
  BY DEF LensInv, WaitsForAnswer
<1>2. lensSends'[j].pc # "closed"
  BY <1>1
<1> QED
  BY <1>1, <1>2 DEF Mounted

\* A send after the page has stopped it.
AfterStop(n) ==
  [lensSends[n] EXCEPT !.pc = IF lensSends[n].pc = "open" THEN "closed" ELSE lensSends[n].pc,
                       !.stopped = lensSends[n].pc = "open"]

LEMMA StopChanges ==
  ASSUME LensInv, handleStop, NEW n \in Sent, lensPage["home"].abort = n
  PROVE  /\ AfterStop(n) \in Send
         /\ AfterStop(n).page = lensSends[n].page /\ AfterStop(n).visit = lensSends[n].visit
         /\ AfterStop(n).thread = lensSends[n].thread /\ AfterStop(n).words = lensSends[n].words
         /\ AfterStop(n).pc = IF lensSends[n].pc = "open" THEN "closed" ELSE lensSends[n].pc
         /\ AfterStop(n).stopped = (lensSends[n].pc = "open")
         /\ lensSends' = [lensSends EXCEPT ![n] = AfterStop(n)]
<1>1. n # None /\ lensSends[n] \in Send
  BY SendsOf, LensAssumption DEF LensInv
<1>2. lensSends' = [lensSends EXCEPT ![n].pc = IF @ = "open" THEN "closed" ELSE @,
                                     ![n].stopped = lensSends[n].pc = "open"]
  BY <1>1 DEF handleStop
<1>3. lensSends' = [lensSends EXCEPT ![n] = AfterStop(n)]
  BY <1>1, <1>2 DEF Send, AfterStop
<1> QED
  BY <1>1, <1>3 DEF Send, AfterStop

LEMMA HandleStopInv ==
  ASSUME LensInv, handleStop
  PROVE  LensInv'
<1> DEFINE i == lensPage["home"].abort
<1>1. /\ lensSends' = IF i = None THEN lensSends
                      ELSE [lensSends EXCEPT ![i].pc = IF @ = "open" THEN "closed" ELSE @,
                                             ![i].stopped = lensSends[i].pc = "open"]
      /\ lensPage' = [lensPage EXCEPT !["home"].abort = None, !["home"].streaming = FALSE]
      /\ UNCHANGED <<lensShown, lensStore, lensVisits>>
  BY DEF handleStop
<1>2. /\ lensPage' \in PageType
      /\ \A q \in Pages : /\ lensPage'[q].visit = lensPage[q].visit
                          /\ q # "home" => lensPage'[q] = lensPage[q]
      /\ ~lensPage'["home"].streaming /\ lensPage'["home"].abort = None
  BY <1>1 DEF LensInv, LensTyped, PageType, Pages
<1>3. CASE i = None
  <2>1. lensSends' = lensSends /\ Sent' = Sent
    BY <1>1, <1>3 DEF Sent
  <2>2. LensTyped' /\ ShownIsSaid' /\ StoppedIsClosed' /\ EndedStays
    BY <1>1, <1>2, <2>1 DEF LensInv, LensTyped, ShownIsSaid, StoppedIsClosed, EndedStays,
      Ended, EndedIn, PageType
  <2>3. StoreTyped' /\ RecordedAtEnd' /\ RecordedOnce'
    BY <1>1, <2>2, StoreStays
  <2>4. AbortsOwn'
    <3>1. None \notin Sent
      BY SendsOf, LensAssumption DEF LensInv
    <3> QED
      BY <1>2, <2>1, <3>1 DEF LensInv, AbortsOwn, Pages
  <2>5. WaitsForAnswer'
    <3>1. \A q \in Pages : lensPage'[q].streaming =>
            lensPage[q].streaming /\ lensPage'[q].visit = lensPage[q].visit
      BY <1>2
    <3> QED
      BY <2>1, <3>1, StillWaits
  <2> QED
    BY <2>2, <2>3, <2>4, <2>5 DEF LensInv
<1>4. CASE i # None
  <2>1. i \in Sent /\ lensSends[i].page = "home"
    BY <1>4 DEF LensInv, AbortsOwn
  <2>2. PICK n \in Sent : n = i
    BY <2>1
  <2> DEFINE r == AfterStop(n)
  <2>4. /\ r \in Send /\ r.page = lensSends[n].page /\ r.visit = lensSends[n].visit
        /\ r.thread = lensSends[n].thread /\ r.words = lensSends[n].words
        /\ r.pc = IF lensSends[n].pc = "open" THEN "closed" ELSE lensSends[n].pc
        /\ r.stopped = (lensSends[n].pc = "open")
        /\ lensSends' = [lensSends EXCEPT ![n] = r]
    BY <2>2, StopChanges
  <2> HIDE DEF r
  <2>6. SendBecomes(n, r)
    <3>1. n \in SendIds /\ lensShown[n] = lensSends[n].words
      BY SendsOf DEF LensInv, ShownIsSaid
    <3>2. lensShown' = [lensShown EXCEPT ![n] = r.words]
      BY <1>1, <2>4, <3>1 DEF LensInv, LensTyped
    <3> QED
      BY <1>1, <2>4, <3>2 DEF SendBecomes, Ended, EndedIn
  <2>7. /\ LensTyped' /\ ShownIsSaid' /\ StoppedIsClosed' /\ EndedStays
        /\ Sent' = Sent /\ lensSends'[n] = r
        /\ \A j \in Sent : j # n => lensSends'[j] = lensSends[j]
        /\ \A j \in Sent : /\ lensSends'[j].page = lensSends[j].page
                           /\ lensSends'[j].visit = lensSends[j].visit
                           /\ lensSends'[j].pc = "parsing" => lensSends[j].pc = "parsing"
    BY <1>2, <2>4, <2>6, SendGoes
  <2>8. StoreTyped' /\ RecordedAtEnd' /\ RecordedOnce'
    BY <1>1, <2>7, StoreStays
  <2>9. AbortsOwn'
    <3>1. None \notin Sent
      BY SendsOf, LensAssumption DEF LensInv
    <3> QED
      BY <1>2, <2>7, <3>1 DEF LensInv, AbortsOwn, Pages
  <2>10. WaitsForAnswer'
    <3>1. \A q \in Pages : lensPage'[q].streaming =>
            lensPage[q].streaming /\ lensPage'[q].visit = lensPage[q].visit
      BY <1>2
    <3>2. \A j \in Sent : lensSends'[j].pc = "closed" =>
            \/ lensSends[j].pc = "closed"
            \/ lensSends[j].page \in Pages /\ ~lensPage'[lensSends[j].page].streaming
      BY <1>2, <2>1, <2>2, <2>7 DEF Pages
    <3> QED
      BY <2>7, <3>1, <3>2, StillWaits
  <2> QED
    BY <2>7, <2>8, <2>9, <2>10 DEF LensInv
<1> QED
  BY <1>3, <1>4

LEMMA HandleNewChatInv ==
  ASSUME LensInv, handleNewChat
  PROVE  LensInv'
<1>1. /\ lensVisits' = lensVisits + 1 /\ lensVisits' \in 0 .. MaxVisits
      /\ lensPage' = [lensPage EXCEPT !["home"].conv = lensVisits']
      /\ lensSends' = lensSends /\ Sent' = Sent
      /\ UNCHANGED <<lensShown, lensSends, lensStore>>
  BY LensAssumption DEF handleNewChat, LensInv, LensTyped, Sent
<1>2. /\ lensPage' \in PageType
      /\ \A q \in Pages : /\ lensPage'[q].visit = lensPage[q].visit
                          /\ lensPage'[q].streaming = lensPage[q].streaming
                          /\ lensPage'[q].abort = lensPage[q].abort
  BY <1>1 DEF LensInv, LensTyped, PageType, Pages
<1>3. LensTyped' /\ ShownIsSaid' /\ StoppedIsClosed' /\ EndedStays
  BY <1>1, <1>2 DEF LensInv, LensTyped, ShownIsSaid, StoppedIsClosed, EndedStays, Ended,
    EndedIn, PageType
<1>4. StoreTyped' /\ RecordedAtEnd' /\ RecordedOnce'
  BY <1>1, <1>3, StoreStays
<1>5. AbortsOwn'
  BY <1>1, <1>2 DEF LensInv, AbortsOwn, Pages
<1>6. WaitsForAnswer'
  BY <1>1, <1>2, StillWaits
<1> QED
  BY <1>3, <1>4, <1>5, <1>6 DEF LensInv

LEMMA LeaveMemoryInv ==
  ASSUME LensInv, LeaveMemory
  PROVE  LensInv'
<1>1. /\ lensVisits' = lensVisits + 1 /\ lensVisits' \in 0 .. MaxVisits
      /\ lensPage' = [lensPage EXCEPT !["memory"].visit = lensVisits', !["memory"].streaming = FALSE]
      /\ lensSends' = lensSends /\ Sent' = Sent
      /\ UNCHANGED <<lensShown, lensSends, lensStore>>
  BY LensAssumption DEF LeaveMemory, LensInv, LensTyped, Sent
<1>2. /\ lensPage' \in PageType
      /\ ~lensPage'["memory"].streaming
      /\ lensPage'["home"] = lensPage["home"]
      /\ lensPage'["memory"].abort = lensPage["memory"].abort
  BY <1>1 DEF LensInv, LensTyped, PageType, Pages
<1>3. LensTyped' /\ ShownIsSaid' /\ StoppedIsClosed' /\ EndedStays
  BY <1>1, <1>2 DEF LensInv, LensTyped, ShownIsSaid, StoppedIsClosed, EndedStays, Ended,
    EndedIn, PageType
<1>4. StoreTyped' /\ RecordedAtEnd' /\ RecordedOnce'
  BY <1>1, <1>3, StoreStays
<1>5. AbortsOwn'
  BY <1>1, <1>2 DEF LensInv, AbortsOwn, Pages
<1>6. WaitsForAnswer'
  <2>1. \A q \in Pages : lensPage'[q].streaming =>
          lensPage[q].streaming /\ lensPage'[q].visit = lensPage[q].visit
    BY <1>2 DEF Pages
  <2> QED
    BY <1>1, <2>1, StillWaits
<1> QED
  BY <1>3, <1>4, <1>5, <1>6 DEF LensInv

\* What a thread or all threads are cleared of is gone; nothing else changes.
LEMMA ClearInv ==
  ASSUME LensInv, DOMAIN lensStore' \subseteq DOMAIN lensStore,
         \A t \in DOMAIN lensStore' : lensStore'[t] = lensStore[t],
         UNCHANGED <<lensPage, lensShown, lensSends, lensVisits>>
  PROVE  LensInv'
<1>1. Sent' = Sent
  BY DEF Sent
<1>2. LensTyped' /\ ShownIsSaid' /\ StoppedIsClosed' /\ EndedStays
  BY <1>1 DEF LensInv, LensTyped, ShownIsSaid, StoppedIsClosed, EndedStays, Ended, EndedIn
<1>3. StoreTyped' /\ RecordedAtEnd' /\ RecordedOnce'
  BY <1>2, StoreStays
<1>4. AbortsOwn'
  BY <1>1 DEF LensInv, AbortsOwn
<1>5. WaitsForAnswer'
  BY <1>1 DEF LensInv, WaitsForAnswer, Mounted
<1> QED
  BY <1>2, <1>3, <1>4, <1>5 DEF LensInv

LEMMA ParsedInv ==
  ASSUME LensInv, NEW i \in Sent, Parsed(i)
  PROVE  LensInv'
<1> DEFINE r == [lensSends[i] EXCEPT !.pc = "open"]
<1>1. /\ lensSends[i].pc = "parsing"
      /\ lensSends' = [lensSends EXCEPT ![i] = r]
      /\ lensPage' = [lensPage EXCEPT !["home"].abort = i]
      /\ UNCHANGED <<lensShown, lensStore, lensVisits>>
  BY DEF Parsed
<1>2. lensSends[i] \in Send /\ i \in SendIds
  BY SendsOf DEF LensInv
<1>3. /\ r \in Send /\ r.page = lensSends[i].page /\ r.visit = lensSends[i].visit
      /\ r.thread = lensSends[i].thread /\ r.words = lensSends[i].words
      /\ r.pc = "open" /\ r.stopped = lensSends[i].stopped
  BY <1>2 DEF Send
<1> HIDE DEF r
<1>4. /\ lensPage' \in PageType
      /\ \A q \in Pages : /\ lensPage'[q].visit = lensPage[q].visit
                          /\ lensPage'[q].streaming = lensPage[q].streaming
      /\ lensPage'["home"].abort = i /\ lensPage'["memory"].abort = lensPage["memory"].abort
  BY <1>1, <1>2 DEF LensInv, LensTyped, PageType, Pages
<1>5. SendBecomes(i, r)
  <2>1. lensShown' = [lensShown EXCEPT ![i] = r.words]
    BY <1>1, <1>2, <1>3 DEF LensInv, LensTyped, ShownIsSaid
  <2>2. ~lensSends[i].stopped
    BY <1>1 DEF LensInv, StoppedIsClosed
  <2> QED
    BY <1>1, <1>3, <2>1, <2>2 DEF SendBecomes, Ended, EndedIn
<1>6. /\ LensTyped' /\ ShownIsSaid' /\ StoppedIsClosed' /\ EndedStays
      /\ Sent' = Sent /\ lensSends'[i] = r
      /\ \A j \in Sent : j # i => lensSends'[j] = lensSends[j]
      /\ \A j \in Sent : /\ lensSends'[j].page = lensSends[j].page
                         /\ lensSends'[j].visit = lensSends[j].visit
                         /\ lensSends'[j].pc = "parsing" => lensSends[j].pc = "parsing"
  BY <1>3, <1>4, <1>5, SendGoes
<1>7. StoreTyped' /\ RecordedAtEnd' /\ RecordedOnce'
  BY <1>1, <1>6, StoreStays
<1>8. AbortsOwn'
  BY <1>1, <1>4, <1>6 DEF LensInv, AbortsOwn, Pages
<1>9. WaitsForAnswer'
  <2>1. \A j \in Sent : lensSends'[j].pc = "closed" => lensSends[j].pc = "closed"
    BY <1>3, <1>6
  <2> QED
    BY <1>4, <1>6, <2>1, StillWaits
<1> QED
  BY <1>6, <1>7, <1>8, <1>9 DEF LensInv

\* A word of an answer that is under way, or the drop of its connection.
LEMMA GoesOnInv ==
  ASSUME LensInv, NEW i \in Sent, NEW r \in Send, SendBecomes(i, r),
         lensSends[i].pc # "closed", r.pc # "closed", UNCHANGED <<lensPage, lensStore>>
  PROVE  LensInv'
<1>1. lensPage' \in PageType
  BY DEF LensInv, LensTyped, PageType
<1>2. /\ LensTyped' /\ ShownIsSaid' /\ StoppedIsClosed' /\ EndedStays
      /\ Sent' = Sent /\ lensSends'[i] = r
      /\ \A j \in Sent : j # i => lensSends'[j] = lensSends[j]
      /\ \A j \in Sent : /\ lensSends'[j].page = lensSends[j].page
                         /\ lensSends'[j].visit = lensSends[j].visit
                         /\ lensSends'[j].pc = "parsing" => lensSends[j].pc = "parsing"
  BY <1>1, SendGoes
<1>3. StoreTyped' /\ RecordedAtEnd' /\ RecordedOnce'
  BY <1>2, StoreStays
<1>4. AbortsOwn'
  BY <1>2 DEF LensInv, AbortsOwn
<1>5. WaitsForAnswer'
  <2>1. \A j \in Sent : lensSends'[j].pc = "closed" => lensSends[j].pc = "closed"
    BY <1>2
  <2> QED
    BY <1>2, <2>1, StillWaits
<1> QED
  BY <1>2, <1>3, <1>4, <1>5 DEF LensInv

LEMMA WordInv ==
  ASSUME LensInv, NEW i \in Sent, NEW m \in 1 .. (SimulatedWords + 1),
         lensSends[i].pc \in {"open", "simulating"},
         onToken(i, 1, [lensSends[i] EXCEPT !.simulated = m])
  PROVE  LensInv'
<1> DEFINE next == [lensSends[i] EXCEPT !.simulated = m]
           r == [next EXCEPT !.words = @ + 1]
<1>1. /\ lensSends' = [lensSends EXCEPT ![i] = r]
      /\ lensShown' = [lensShown EXCEPT ![i] = @ + 1]
      /\ UNCHANGED <<lensPage, lensStore, lensVisits>>
  BY DEF onToken
<1>2. lensSends[i] \in Send /\ i \in SendIds
  BY SendsOf DEF LensInv
<1>3. next \in Send /\ next.page = lensSends[i].page /\ next.visit = lensSends[i].visit
      /\ next.thread = lensSends[i].thread /\ next.words = lensSends[i].words
      /\ next.pc = lensSends[i].pc /\ next.stopped = lensSends[i].stopped
  BY <1>2 DEF Send
<1> HIDE DEF next
<1>4. r \in Send /\ r.page = next.page /\ r.visit = next.visit
      /\ r.thread = next.thread /\ r.words = next.words + 1
      /\ r.pc = next.pc /\ r.stopped = next.stopped
  BY <1>3 DEF Send
<1> HIDE DEF r
<1>5. ~lensSends[i].stopped
  BY DEF LensInv, StoppedIsClosed
<1>6. lensShown' = [lensShown EXCEPT ![i] = r.words]
  BY <1>1, <1>2, <1>3, <1>4 DEF LensInv, LensTyped, ShownIsSaid
<1>7. SendBecomes(i, r)
  BY <1>1, <1>3, <1>4, <1>5, <1>6 DEF SendBecomes, Ended, EndedIn
<1> QED
  BY <1>1, <1>3, <1>4, <1>7, GoesOnInv

LEMMA TokenEventInv ==
  ASSUME LensInv, NEW i \in Sent, TokenEvent(i)
  PROVE  LensInv'
<1>1. lensSends[i] \in Send
  BY SendsOf DEF LensInv
<1>2. PICK m \in 1 .. (SimulatedWords + 1) : m = lensSends[i].simulated
  BY <1>1 DEF Send
<1>3. lensSends[i] = [lensSends[i] EXCEPT !.simulated = m]
  BY <1>1, <1>2 DEF Send
<1>4. onToken(i, 1, [lensSends[i] EXCEPT !.simulated = m])
  BY <1>3 DEF TokenEvent
<1>5. lensSends[i].pc = "open"
  BY DEF TokenEvent
<1> QED
  BY <1>4, <1>5, WordInv

LEMMA OnerrorInv ==
  ASSUME LensInv, NEW i \in Sent, onerror(i)
  PROVE  LensInv'
<1> DEFINE r == [lensSends[i] EXCEPT !.pc = "simulating"]
<1>1. /\ lensSends[i].pc = "open" /\ lensSends' = [lensSends EXCEPT ![i] = r]
      /\ UNCHANGED <<lensPage, lensShown, lensStore, lensVisits>>
  BY DEF onerror
<1>2. lensSends[i] \in Send /\ i \in SendIds
  BY SendsOf DEF LensInv
<1>3. r \in Send /\ r.page = lensSends[i].page /\ r.visit = lensSends[i].visit
      /\ r.thread = lensSends[i].thread /\ r.words = lensSends[i].words
      /\ r.pc = "simulating" /\ r.stopped = lensSends[i].stopped
  BY <1>2 DEF Send
<1> HIDE DEF r
<1>4. ~lensSends[i].stopped
  BY <1>1 DEF LensInv, StoppedIsClosed
<1>5. lensShown' = [lensShown EXCEPT ![i] = r.words]
  BY <1>1, <1>2, <1>3 DEF LensInv, LensTyped, ShownIsSaid
<1>6. SendBecomes(i, r)
  BY <1>1, <1>3, <1>4, <1>5 DEF SendBecomes, Ended, EndedIn
<1> QED
  BY <1>1, <1>3, <1>6, GoesOnInv

LEMMA OnDoneInv ==
  ASSUME LensInv, NEW i \in Sent, lensSends[i].pc \in {"open", "simulating"}, onDone(i)
  PROVE  LensInv'
<1> DEFINE r == [lensSends[i] EXCEPT !.pc = "closed"]
           e == [no |-> i, words |-> lensSends[i].words]
           t == lensSends[i].thread
<1>1. /\ lensSends' = [lensSends EXCEPT ![i] = r]
      /\ lensPage' = IF ~Mounted(i) THEN lensPage
                     ELSE [lensPage EXCEPT ![lensSends[i].page].streaming = FALSE,
                                           ![lensSends[i].page].abort = None]
      /\ IF lensSends[i].words = 0 THEN UNCHANGED lensStore ELSE recordExchange(t, e)
      /\ UNCHANGED <<lensShown, lensVisits>>
  BY DEF onDone
<1>2. lensSends[i] \in Send /\ i \in SendIds
  BY SendsOf DEF LensInv
<1>3. r \in Send /\ r.page = lensSends[i].page /\ r.visit = lensSends[i].visit
      /\ r.thread = lensSends[i].thread /\ r.words = lensSends[i].words
      /\ r.pc = "closed" /\ r.stopped = lensSends[i].stopped
  BY <1>2 DEF Send
<1>4. ~lensSends[i].stopped /\ ~Ended(i) /\ lensSends[i].page \in Pages
  BY <1>2 DEF LensInv, StoppedIsClosed, Ended, EndedIn, Send
<1> HIDE DEF r
<1>5. /\ lensPage' \in PageType
      /\ \A q \in Pages : /\ lensPage'[q].visit = lensPage[q].visit
                          /\ lensPage'[q].streaming => lensPage[q].streaming
                          /\ lensPage'[q].abort \in {lensPage[q].abort, None}
      /\ Mounted(i) => ~lensPage'[lensSends[i].page].streaming
  BY <1>1, <1>4 DEF LensInv, LensTyped, PageType
<1>6. SendBecomes(i, r)
  <2>1. lensShown' = [lensShown EXCEPT ![i] = r.words]
    BY <1>1, <1>2, <1>3 DEF LensInv, LensTyped, ShownIsSaid
  <2> QED
    BY <1>1, <1>3, <1>4, <2>1 DEF SendBecomes
<1>7. /\ LensTyped' /\ ShownIsSaid' /\ StoppedIsClosed' /\ EndedStays
      /\ Sent' = Sent /\ lensSends'[i] = r
      /\ \A j \in Sent : j # i => lensSends'[j] = lensSends[j]
      /\ \A j \in Sent : /\ lensSends'[j].page = lensSends[j].page
                         /\ lensSends'[j].visit = lensSends[j].visit
                         /\ lensSends'[j].pc = "parsing" => lensSends[j].pc = "parsing"
  BY <1>3, <1>5, <1>6, SendGoes
<1>8. StoreTyped' /\ RecordedAtEnd' /\ RecordedOnce'
  <2>1. CASE lensSends[i].words = 0
    BY <1>1, <1>7, <2>1, StoreStays
  <2>2. CASE lensSends[i].words # 0
    <3>1. e \in Exchange
      BY <1>2 DEF Exchange, Send
    <3>2. recordExchange(t, e) /\ StoreTyped
      BY <1>1, <2>2 DEF LensInv
    <3> HIDE DEF e, t
    <3>3. RecordedLast(t, e)
      BY <3>1, <3>2, Recording
    <3>4. EndedIn(lensSends', i) /\ i \in Sent'
      BY <1>3, <1>4, <1>7 DEF EndedIn
    <3>5. lensSends'[i].thread = lensSends[i].thread /\ lensSends'[i].words = lensSends[i].words
      BY <1>3, <1>7
    <3> QED
      BY <3>3, <3>4, <3>5, <1>4, <1>7, RecordingInv DEF e, t
  <2> QED
    BY <2>1, <2>2
<1>9. AbortsOwn'
  <2>1. None \notin Sent
    BY SendsOf, LensAssumption DEF LensInv
  <2> QED
    BY <1>5, <1>7, <2>1 DEF LensInv, AbortsOwn, Pages
<1>10. WaitsForAnswer'
  <2>1. \A j \in Sent : lensSends'[j].pc = "closed" =>
          \/ lensSends[j].pc = "closed" \/ ~Mounted(j)
          \/ lensSends[j].page \in Pages /\ ~lensPage'[lensSends[j].page].streaming
    BY <1>4, <1>5, <1>7
  <2> QED
    BY <1>5, <1>7, <2>1, StillWaits
<1> QED
  BY <1>7, <1>8, <1>9, <1>10 DEF LensInv

LEMMA SimulationStepInv ==
  ASSUME LensInv, NEW i \in Sent, SimulationStep(i)
  PROVE  LensInv'
<1>1. lensSends[i] \in Send
  BY SendsOf DEF LensInv
<1>2. CASE lensSends[i].simulated > 1
  <2>1. PICK m \in 1 .. (SimulatedWords + 1) : m = lensSends[i].simulated - 1
    BY <1>1, <1>2, LensAssumption DEF Send
  <2>2. [lensSends[i] EXCEPT !.simulated = @ - 1] = [lensSends[i] EXCEPT !.simulated = m]
    BY <2>1
  <2>3. lensSends[i].pc = "simulating" /\ onToken(i, 1, [lensSends[i] EXCEPT !.simulated = m])
    BY <1>2, <2>2 DEF SimulationStep
  <2> QED
    BY <2>3, WordInv
<1>3. CASE ~(lensSends[i].simulated > 1)
  BY <1>3, OnDoneInv DEF SimulationStep
<1> QED
  BY <1>2, <1>3

LEMMA LensStepInv == LensInv /\ [LensNext]_lensVars => LensInv'
<1> SUFFICES ASSUME LensInv, [LensNext]_lensVars PROVE LensInv'
  OBVIOUS
<1>1. ASSUME NEW p \in Pages, NEW attached \in BOOLEAN, handleSend(p, attached) PROVE LensInv'
  BY <1>1, HandleSendInv
<1>2. CASE handleStop
  BY <1>2, HandleStopInv
<1>3. CASE handleNewChat
  BY <1>3, HandleNewChatInv
<1>4. CASE LeaveMemory
  BY <1>4, LeaveMemoryInv
<1>5. ASSUME NEW t \in DOMAIN lensStore, clearThread(t) PROVE LensInv'
  <2>1. DOMAIN lensStore' \subseteq DOMAIN lensStore
        /\ \A u \in DOMAIN lensStore' : lensStore'[u] = lensStore[u]
    BY <1>5 DEF clearThread
  <2> QED
    BY <1>5, <2>1, ClearInv DEF clearThread
<1>6. CASE clearAllConversations
  <2>1. DOMAIN lensStore' = {}
    BY <1>6, EmptySeq, LenProperties DEF clearAllConversations
  <2> QED
    BY <1>6, <2>1, ClearInv DEF clearAllConversations
<1>7. ASSUME NEW i \in Sent, StreamStep(i) PROVE LensInv'
  <2>1. CASE Parsed(i)
    BY <2>1, ParsedInv
  <2>2. CASE TokenEvent(i)
    BY <2>2, TokenEventInv
  <2>3. CASE DoneEvent(i)
    BY <2>3, OnDoneInv DEF DoneEvent
  <2>4. CASE onerror(i)
    BY <2>4, OnerrorInv
  <2>5. CASE SimulationStep(i)
    BY <2>5, SimulationStepInv
  <2> QED
    BY <1>7, <2>1, <2>2, <2>3, <2>4, <2>5 DEF StreamStep, AnswerEnds
<1>8. CASE UNCHANGED lensVars
  BY <1>8, ClearInv DEF lensVars
<1> QED
  BY <1>1, <1>2, <1>3, <1>4, <1>5, <1>6, <1>7, <1>8 DEF LensNext

------------------------------------------------------------------------------
(* What the steps may not do. *)

LEMMA StopIsFinalStep == LensInv /\ [LensNext]_lensVars => StopIsFinal
<1> SUFFICES ASSUME LensInv, [LensNext]_lensVars, NEW i \in Sent, lensSends[i].stopped
             PROVE  lensShown'[i] = lensShown[i]
  BY DEF StopIsFinal
<1>1. lensSends[i].pc = "closed"
  BY DEF LensInv, StoppedIsClosed
<1>2. ASSUME NEW j \in Sent, StreamStep(j) PROVE lensShown'[i] = lensShown[i]
  <2>1. CASE TokenEvent(j)
    BY <2>1, <1>1 DEF TokenEvent, onToken, LensInv, LensTyped
  <2>2. CASE SimulationStep(j)
    <3>1. j # i
      BY <2>2, <1>1 DEF SimulationStep
    <3>2. lensShown' = [lensShown EXCEPT ![j] = @ + 1] \/ lensShown' = lensShown
      BY <2>2 DEF SimulationStep, onToken, onDone
    <3>3. i \in SendIds
      BY SendsOf DEF LensInv
    <3> QED
      BY <3>1, <3>2, <3>3 DEF LensInv, LensTyped
  <2> QED
    BY <1>2, <2>1, <2>2 DEF StreamStep, AnswerEnds, Parsed, DoneEvent, onerror, onDone
<1> QED
  BY <1>2 DEF LensNext, lensVars, handleSend, handleStop, handleNewChat, LeaveMemory,
    clearThread, clearAllConversations

\* An answer that ends without being stopped ends by onDone.
LEMMA EndsByDone ==
  ASSUME LensInv, [LensNext]_lensVars, NEW i \in Sent,
         lensSends[i].pc # "closed", lensSends'[i].pc = "closed", ~lensSends'[i].stopped
  PROVE  onDone(i)
<1>1. \A j \in Sent : lensSends[j] \in Send
  BY SendsOf DEF LensInv
<1>2. lensSends'[i] # lensSends[i]
  OBVIOUS
<1>3. ASSUME NEW p \in Pages, NEW attached \in BOOLEAN, handleSend(p, attached) PROVE FALSE
  <2>1. PICK s : lensSends' = Append(lensSends, s)
    BY <1>3 DEF handleSend
  <2>2. Append(lensSends, s)[i] = lensSends[i]
    BY SendsOf DEF LensInv, LensTyped
  <2> QED
    BY <2>1, <2>2, <1>2
<1>4. CASE handleStop
  <2>1. lensPage["home"].abort # None
    BY <1>4, <1>2 DEF handleStop
  <2>2. PICK n \in Sent : lensPage["home"].abort = n
    BY <2>1 DEF LensInv, AbortsOwn
  <2>3. /\ AfterStop(n).pc = IF lensSends[n].pc = "open" THEN "closed" ELSE lensSends[n].pc
        /\ AfterStop(n).stopped = (lensSends[n].pc = "open")
        /\ lensSends' = [lensSends EXCEPT ![n] = AfterStop(n)]
    BY <1>4, <2>2, StopChanges
  <2>4. i = n
    BY <2>3, <1>2
  <2>5. lensSends'[i] = AfterStop(i)
    BY <2>3, <2>4 DEF Sent
  <2> QED
    BY <2>3, <2>4, <2>5
<1>5. ASSUME NEW j \in Sent, StreamStep(j) PROVE onDone(i)
  <2>1. CASE onDone(j)
    <3>1. i = j
      BY <2>1, <1>2 DEF onDone
    <3> QED
      BY <2>1, <3>1
  <2>2. CASE Parsed(j) \/ onerror(j)
    <3>1. PICK pc \in {"open", "simulating"} : lensSends' = [lensSends EXCEPT ![j].pc = pc]
      BY <2>2 DEF Parsed, onerror
    <3>2. i = j
      BY <3>1, <1>2
    <3>3. lensSends'[i].pc = pc
      BY <3>1, <3>2, <1>1 DEF Send, Sent
    <3> QED
      BY <3>3
  <2>3. ASSUME NEW m, onToken(j, 1, [lensSends[j] EXCEPT !.simulated = m]) PROVE FALSE
    <3>1. i = j
      BY <2>3, <1>2 DEF onToken
    <3>2. lensSends'[i].pc = lensSends[i].pc
      BY <2>3, <3>1, <1>1 DEF onToken, Send
    <3> QED
      BY <3>2
  <2>4. CASE TokenEvent(j)
    <3>1. lensSends[j] = [lensSends[j] EXCEPT !.simulated = lensSends[j].simulated]
      BY <1>1 DEF Send
    <3>2. onToken(j, 1, [lensSends[j] EXCEPT !.simulated = lensSends[j].simulated])
      BY <2>4, <3>1 DEF TokenEvent
    <3> QED
      BY <3>2, <2>3
  <2>5. CASE SimulationStep(j)
    BY <2>5, <2>1, <2>3 DEF SimulationStep
  <2> QED
    BY <1>5, <2>1, <2>2, <2>4, <2>5 DEF StreamStep, AnswerEnds, DoneEvent
<1> QED
  BY <1>2, <1>3, <1>4, <1>5 DEF LensNext, lensVars, handleNewChat, LeaveMemory,
    clearThread, clearAllConversations

LEMMA NewestKeptStep == LensInv /\ [LensNext]_lensVars => NewestKept
<1> SUFFICES ASSUME LensInv, [LensNext]_lensVars, NEW i \in Sent,
                    lensSends[i].pc # "closed", lensSends'[i].pc = "closed",
                    lensSends[i].words > 0, ~lensSends'[i].stopped
             PROVE  LET t == lensSends[i].thread IN
                    /\ t \in DOMAIN lensStore'
                    /\ lensStore'[t][Len(lensStore'[t])].no = i
                    /\ \A k \in 2 .. Len(Before(t)) : Before(t)[k] \in Elements(lensStore'[t])
                    /\ Len(Before(t)) < MaxExchanges => Len(lensStore'[t]) = Len(Before(t)) + 1
  BY DEF NewestKept, Before
<1> DEFINE t == lensSends[i].thread
           e == [no |-> i, words |-> lensSends[i].words]
<1>1. lensSends[i] \in Send /\ i \in SendIds
  BY SendsOf DEF LensInv
<1>2. lensSends[i].words # 0
  BY <1>1 DEF Send
<1>3. recordExchange(t, e) /\ StoreTyped
  BY <1>2, EndsByDone DEF onDone, LensInv
<1>4. e \in Exchange /\ e.no = i
  BY <1>1 DEF Exchange, Send
<1> HIDE DEF e
<1>5. RecordedLast(t, e)
  BY <1>3, <1>4, Recording
<1> QED
  BY <1>4, <1>5 DEF RecordedLast

------------------------------------------------------------------------------
(* The theorems. *)

LEMMA LensInvSound == LensInv => LensSound /\ LensTypeOK
<1> SUFFICES ASSUME LensInv PROVE LensSound /\ LensTypeOK
  OBVIOUS
<1>1. RecordedAsShown
  <2>1. Sent \subseteq SendIds
    BY SendsOf DEF LensInv
  <2> QED
    BY <2>1 DEF LensInv, RecordedAtEnd, RecordedOnce, ShownIsSaid, RecordedAsShown
<1>2. WaitsForAnswer
  BY DEF LensInv
<1>3. LensTypeOK
  <2>1. \A i \in Sent : lensSends[i] \in Send
    BY SendsOf DEF LensInv
  <2>2. \A p \in Pages : lensPage[p].streaming \in BOOLEAN /\ lensPage[p].abort \in Sent \cup {None}
    BY DEF LensInv, LensTyped, AbortsOwn, Pages
  <2> QED
    BY <2>1, <2>2 DEF LensInv, LensTyped, StoreTyped, LensTypeOK, Send
<1> QED
  BY <1>1, <1>2, <1>3 DEF LensSound

------------------------------------------------------------------------------
(* The page by itself. *)

LEMMA LensInvariance == LensSpec => []LensInv
<1>1. LensInit => LensInv
  BY LensInitInv
<1> QED
  BY <1>1, LensStepInv, PTL DEF LensSpec

\* A word that comes after the user has stopped an answer is neither shown nor recorded
\* (handleStop in useStream).
THEOREM StopsForGood == LensSpec => [][StopIsFinal]_lensVars
BY LensInvariance, StopIsFinalStep, PTL DEF LensSpec

\* The newest exchange of a conversation is not dropped to make room for another
\* (recordExchange).
THEOREM KeepsNewest == LensSpec => [][NewestKept]_lensVars
BY LensInvariance, NewestKeptStep, PTL DEF LensSpec

------------------------------------------------------------------------------
(* The knowledge graph. *)

\* A process that has a copy of the graph.
Up(w) == graphOf[w] # None \/ graphTodo[w] # <<>>

GraphOK(g) ==
  /\ g = [order |-> g.order, links |-> g.links, edges |-> g.edges]
  /\ g.order \in Seq(Nodes) /\ g.edges \in Seq(Edges(Script))
  /\ g.links \in [DOMAIN g.links -> SUBSET Nodes]
  /\ IsGraph(g) /\ Closed(g)

Additions(ops) ==
  /\ ops \in Seq(Seq(Nodes)) /\ \A i \in DOMAIN ops : Len(ops[i]) \in {1, 2}
  /\ NodesFirst(ops) /\ Edges(ops) \subseteq Edges(Script)

\* A graph that is whole once ops are added: a connection that is missing belongs to an
\* edge that is added again, and a node is only added while that holds of all edges.
MadeWhole(g, ops) ==
  /\ \A n \in DOMAIN g.links : g.links[n] \subseteq Neighbours(g, n)
  /\ \A n \in DOMAIN g.links : \A m \in Neighbours(g, n) \ g.links[n] :
       <<n, m>> \in Edges(ops) \/ <<m, n>> \in Edges(ops)
  /\ ops # <<>> /\ IsNode(Head(ops)) => Elements(g.edges) \subseteq Edges(ops)

CopyOK(w) ==
  /\ Additions(graphTodo[w])
  /\ Up(w) => GraphOK(graphOf[w])
  /\ Up(w) /\ graphClean[w] => MadeWhole(graphOf[w], graphTodo[w])

\* The lists of additions.
LEMMA EdgesOfRest ==
  ASSUME NEW ops, ops \in Seq(Seq(Nodes)), ops # <<>>
  PROVE  Edges(ops) = Edges(Tail(ops)) \cup (IF IsNode(Head(ops)) THEN {} ELSE {Head(ops)})
<1>1. /\ Len(ops) \in Nat \ {0} /\ DOMAIN ops = 1..Len(ops) /\ Head(ops) = ops[1]
      /\ DOMAIN Tail(ops) = 1..(Len(ops) - 1)
      /\ \A i \in 1..(Len(ops) - 1) : Tail(ops)[i] = ops[i + 1]
  OBVIOUS
<1>2. Edges(Tail(ops)) \subseteq Edges(ops)
  <2>1. ASSUME NEW i \in DOMAIN Tail(ops), ~IsNode(Tail(ops)[i]) PROVE Tail(ops)[i] \in Edges(ops)
    <3>1. i + 1 \in DOMAIN ops /\ Tail(ops)[i] = ops[i + 1]
      BY <1>1
    <3>2. QED
      BY <2>1, <3>1 DEF Edges
  <2>2. QED
    BY <2>1 DEF Edges
<1>3. ~IsNode(Head(ops)) => Head(ops) \in Edges(ops)
  BY <1>1 DEF Edges
<1>4. ASSUME NEW i \in DOMAIN ops, ~IsNode(ops[i])
      PROVE  ops[i] \in Edges(Tail(ops)) \/ ops[i] = Head(ops)
  <2>1. CASE i = 1
    BY <1>1, <2>1
  <2>2. CASE i # 1
    <3>1. i - 1 \in DOMAIN Tail(ops) /\ Tail(ops)[i - 1] = ops[i]
      BY <1>1, <2>2
    <3>2. QED
      BY <1>4, <3>1 DEF Edges
  <2>3. QED
    BY <2>1, <2>2
<1>5. \A e \in Edges(ops) : e \in Edges(Tail(ops)) \/ (~IsNode(Head(ops)) /\ e = Head(ops))
  <2>1. ASSUME NEW e \in Edges(ops) PROVE e \in Edges(Tail(ops)) \/ (~IsNode(Head(ops)) /\ e = Head(ops))
    <3>1. PICK i \in DOMAIN ops : ~IsNode(ops[i]) /\ e = ops[i]
      BY DEF Edges
    <3>2. QED
      BY <1>4, <3>1
  <2>2. QED
    BY <2>1
<1>6. QED
  BY <1>2, <1>3, <1>5

LEMMA RestOfAdditions ==
  ASSUME NEW ops, Additions(ops), ops # <<>>
  PROVE  /\ Additions(Tail(ops))
         /\ ~IsNode(Head(ops)) /\ Tail(ops) # <<>> => ~IsNode(Head(Tail(ops)))
         /\ Head(ops) \in Seq(Nodes) /\ Len(Head(ops)) \in {1, 2}
         /\ ~IsNode(Head(ops)) => Head(ops) \in Edges(Script)
<1>1. /\ ops \in Seq(Seq(Nodes)) /\ Len(ops) \in Nat \ {0} /\ DOMAIN ops = 1..Len(ops) /\ Head(ops) = ops[1]
      /\ DOMAIN Tail(ops) = 1..(Len(ops) - 1) /\ Tail(ops) \in Seq(Seq(Nodes))
      /\ \A i \in 1..(Len(ops) - 1) : Tail(ops)[i] = ops[i + 1]
  BY DEF Additions
<1>2. \A i \in DOMAIN Tail(ops) : i + 1 \in DOMAIN ops /\ Tail(ops)[i] = ops[i + 1]
  BY <1>1
<1>3. \A i \in DOMAIN Tail(ops) : Len(Tail(ops)[i]) \in {1, 2}
  BY <1>2 DEF Additions
<1>4. NodesFirst(Tail(ops))
  <2>1. ASSUME NEW i \in DOMAIN Tail(ops), NEW j \in DOMAIN Tail(ops), i < j, IsNode(Tail(ops)[j])
        PROVE  IsNode(Tail(ops)[i])
    <3>1. i + 1 < j + 1
      BY <1>1, <2>1
    <3>2. QED
      BY <1>2, <2>1, <3>1 DEF Additions, NodesFirst
  <2>2. QED
    BY <2>1 DEF NodesFirst
<1>5. Edges(Tail(ops)) \subseteq Edges(Script)
  BY <1>1, EdgesOfRest DEF Additions
<1>6. ~IsNode(Head(ops)) /\ Tail(ops) # <<>> => ~IsNode(Head(Tail(ops)))
  <2>1. ASSUME ~IsNode(Head(ops)), Tail(ops) # <<>> PROVE ~IsNode(Head(Tail(ops)))
    <3>1. 1 \in DOMAIN Tail(ops) /\ Head(Tail(ops)) = Tail(ops)[1] /\ 1 < 2 /\ 1 \in DOMAIN ops
      BY <1>1, <2>1
    <3>2. 2 \in DOMAIN ops /\ Tail(ops)[1] = ops[2]
      BY <1>2, <3>1
    <3>3. QED
      BY <1>1, <2>1, <3>1, <3>2 DEF Additions, NodesFirst
  <2>2. QED
    BY <2>1
<1>7. ~IsNode(Head(ops)) => Head(ops) \in Edges(Script)
  BY <1>1, EdgesOfRest DEF Additions
<1>8. QED
  BY <1>1, <1>3, <1>4, <1>5, <1>6, <1>7 DEF Additions

LEMMA GivenAdditions ==
  /\ Additions(Script) /\ Additions(Default) /\ Additions(<<>>)
  /\ \A e \in Edges(Script) : e \in Seq(Nodes) /\ Len(e) = 2 /\ e = <<e[1], e[2]>>
                              /\ e[1] \in Nodes /\ e[2] \in Nodes /\ Elements(e) = {e[1], e[2]}
<1>1. Additions(Script) /\ Additions(Default)
  BY GraphAssumption DEF Additions
<1>2. Additions(<<>>)
  BY DEF Additions, NodesFirst, Edges
<1>3. ASSUME NEW e \in Edges(Script)
      PROVE  e \in Seq(Nodes) /\ Len(e) = 2 /\ e = <<e[1], e[2]>>
             /\ e[1] \in Nodes /\ e[2] \in Nodes /\ Elements(e) = {e[1], e[2]}
  <2>1. e \in Seq(Nodes) /\ Len(e) = 2
    <3>1. PICK i \in DOMAIN Script : e = Script[i] /\ ~IsNode(Script[i])
      BY DEF Edges
    <3>2. Script \in Seq(Seq(Nodes)) /\ Len(Script[i]) \in {1, 2}
      BY <1>1 DEF Additions
    <3>3. QED
      BY <3>1, <3>2 DEF IsNode
  <2>2. DOMAIN e = {1, 2} /\ e[1] \in Nodes /\ e[2] \in Nodes /\ e = <<e[1], e[2]>>
    BY <2>1
  <2>3. Elements(e) = {e[1], e[2]}
    BY <2>2 DEF Elements
  <2>4. QED
    BY <2>1, <2>2, <2>3
<1>4. QED
  BY <1>1, <1>2, <1>3

\* What an addition makes of a graph.
LEMMA ElementsOfLonger ==
  ASSUME NEW S, NEW s \in Seq(S), NEW x
  PROVE  Elements(Append(s, x)) = Elements(s) \cup {x}
<1>1. Len(s) \in Nat /\ DOMAIN s = 1..Len(s) /\ DOMAIN Append(s, x) = 1..(Len(s) + 1)
      /\ Append(s, x)[Len(s) + 1] = x /\ \A i \in 1..Len(s) : Append(s, x)[i] = s[i]
  <2>1. s \in Seq(S \cup {x}) /\ x \in S \cup {x}
    <3>1. Len(s) \in Nat /\ s \in [1..Len(s) -> S \cup {x}]
      OBVIOUS
    <3>2. QED
      BY <3>1, SeqDef
  <2>2. QED
    BY <2>1, AppendProperties
<1>2. \A i \in 1..(Len(s) + 1) : i \in 1..Len(s) \/ i = Len(s) + 1
  BY <1>1
<1>3. \A i \in 1..Len(s) : i \in 1..(Len(s) + 1)
  BY <1>1
<1>4. Len(s) + 1 \in 1..(Len(s) + 1)
  BY <1>1
<1>5. QED
  BY <1>1, <1>2, <1>3, <1>4 DEF Elements

LEMMA ElementsFinite ==
  ASSUME NEW S, NEW s \in Seq(S)
  PROVE  IsFiniteSet(Elements(s)) /\ Elements(s) \subseteq S
<1>1. Len(s) \in Nat /\ DOMAIN s = 1..Len(s) /\ s \in [1..Len(s) -> S]
  OBVIOUS
<1>2. IsFiniteSet(1..Len(s))
  BY <1>1, FS_Interval
<1>3. s \in Surjection(1..Len(s), Elements(s))
  BY <1>1 DEF Elements, Surjection
<1>4. QED
  BY <1>1, <1>2, <1>3, FS_Surjection DEF Elements

LEMMA WithNodeFacts ==
  ASSUME NEW g, GraphOK(g), NEW n \in Nodes
  PROVE  LET h == WithNode(g, n) IN
         /\ GraphOK(h) /\ h.edges = g.edges /\ DOMAIN h.links = DOMAIN g.links \cup {n}
         /\ h.links[n] = {} /\ \A m \in DOMAIN g.links \ {n} : h.links[m] = g.links[m]
<1> DEFINE order == IF n \in Elements(g.order) THEN g.order ELSE Append(g.order, n)
           links == With(g.links, n, {})
           h == [order |-> order, links |-> links, edges |-> g.edges]
<1>1. WithNode(g, n) = h
  <2>1. PICK a, b, c : g = [order |-> a, links |-> b, edges |-> c]
    BY DEF GraphOK
  <2>2. WithNode(g, n) = [[order |-> a, links |-> b, edges |-> c] EXCEPT
                            !.order = IF n \in Elements(a) THEN a ELSE Append(a, n), !.links = With(b, n, {})]
    BY <2>1 DEF WithNode
  <2>3. QED
    BY <2>1, <2>2
<1>2. /\ DOMAIN links = DOMAIN g.links \cup {n} /\ links[n] = {}
      /\ \A m \in DOMAIN g.links \ {n} : links[m] = g.links[m]
  BY DEF With
<1>3. links \in [DOMAIN links -> SUBSET Nodes]
  BY DEF With, GraphOK
<1>4. order \in Seq(Nodes) /\ Elements(order) = Elements(g.order) \cup {n}
  BY ElementsOfLonger DEF GraphOK
<1>5. Cardinality(Elements(order)) = Len(order)
  <2>1. CASE n \in Elements(g.order)
    BY <2>1 DEF GraphOK, IsGraph
  <2>2. CASE n \notin Elements(g.order)
    <3>1. g.order \in Seq(Nodes) /\ Cardinality(Elements(g.order)) = Len(g.order)
      BY DEF GraphOK, IsGraph
    <3>2. Cardinality(Elements(g.order) \cup {n}) = Cardinality(Elements(g.order)) + 1
      BY <2>2, <3>1, ElementsFinite, FS_AddElement
    <3>3. Len(order) = Len(g.order) + 1
      BY <2>2, <3>1
    <3>4. QED
      BY <1>4, <3>1, <3>2, <3>3
  <2>3. QED
    BY <2>1, <2>2
<1>6. h.order = order /\ h.links = links /\ h.edges = g.edges
  OBVIOUS
<1> HIDE DEF h, links, order
<1>7. IsGraph(h)
  BY <1>2, <1>3, <1>4, <1>5, <1>6 DEF IsGraph, GraphOK
<1>8. Closed(h)
  BY <1>2, <1>6 DEF Closed, GraphOK
<1>9. GraphOK(h)
  <2>1. h = [order |-> h.order, links |-> h.links, edges |-> h.edges]
    BY DEF h
  <2>2. g.edges \in Seq(Edges(Script))
    BY DEF GraphOK
  <2>3. QED
    BY <1>3, <1>4, <1>6, <1>7, <1>8, <2>1, <2>2 DEF GraphOK
<1>10. QED
  BY <1>1, <1>2, <1>6, <1>9

LEMMA WithEdgeFacts ==
  ASSUME NEW g, GraphOK(g), NEW e \in Edges(Script), Missing(g, e) = {}
  PROVE  LET h == WithEdge(g, e) IN
         /\ GraphOK(h) /\ Elements(h.edges) = Elements(g.edges) \cup {e}
         /\ DOMAIN h.links = DOMAIN g.links
         /\ \A n \in DOMAIN g.links :
              h.links[n] = g.links[n] \cup (IF n = e[1] THEN {e[2]} ELSE {}) \cup (IF n = e[2] THEN {e[1]} ELSE {})
<1> DEFINE links == [n \in DOMAIN g.links |->
             g.links[n] \cup (IF n = e[1] THEN {e[2]} ELSE {}) \cup (IF n = e[2] THEN {e[1]} ELSE {})]
           h == [order |-> g.order, links |-> links, edges |-> Append(g.edges, e)]
<1>1. WithEdge(g, e) = h
  <2>1. PICK a, b, c : g = [order |-> a, links |-> b, edges |-> c]
    BY DEF GraphOK
  <2>2. g.order = a /\ g.links = b /\ g.edges = c
    BY <2>1
  <2>3. PICK l : l = links
    OBVIOUS
  <2>4. WithEdge(g, e) = [[order |-> a, links |-> b, edges |-> c] EXCEPT !.edges = Append(c, e), !.links = l]
    BY <2>1, <2>2, <2>3, Zenon DEF WithEdge
  <2>5. WithEdge(g, e) = [order |-> a, links |-> l, edges |-> Append(c, e)]
    BY <2>4
  <2>6. QED
    BY <2>2, <2>3, <2>5
<1>2. e[1] \in Nodes /\ e[2] \in Nodes /\ Elements(e) = {e[1], e[2]}
  BY GivenAdditions
<1>3. DOMAIN links = DOMAIN g.links /\ links \in [DOMAIN links -> SUBSET Nodes]
  BY <1>2 DEF GraphOK
<1>4. g.edges \in Seq(Edges(Script)) /\ Append(g.edges, e) \in Seq(Edges(Script))
      /\ Elements(Append(g.edges, e)) = Elements(g.edges) \cup {e}
  BY ElementsOfLonger DEF GraphOK
<1>5. h.order = g.order /\ h.links = links /\ h.edges = Append(g.edges, e)
      /\ h = [order |-> h.order, links |-> h.links, edges |-> h.edges]
  OBVIOUS
<1>6. \A n \in DOMAIN g.links :
        links[n] = g.links[n] \cup (IF n = e[1] THEN {e[2]} ELSE {}) \cup (IF n = e[2] THEN {e[1]} ELSE {})
  OBVIOUS
<1> HIDE DEF h, links
<1>7. IsGraph(h)
  BY <1>3, <1>5 DEF IsGraph, GraphOK
<1>8. Closed(h)
  <2>1. Elements(e) \subseteq DOMAIN g.links
    BY DEF Missing
  <2>2. QED
    BY <1>3, <1>4, <1>5, <2>1 DEF Closed, GraphOK
<1>9. GraphOK(h)
  <2>1. g.order \in Seq(Nodes)
    BY DEF GraphOK
  <2>2. QED
    BY <1>3, <1>4, <1>5, <1>7, <1>8, <2>1 DEF GraphOK
<1>10. QED
  BY <1>1, <1>3, <1>4, <1>5, <1>6, <1>9

LEMMA EmptyGraph ==
  /\ GraphOK(Empty) /\ Elements(Empty.edges) = {} /\ DOMAIN Empty.links = {}
<1>1. Empty.order = <<>> /\ Empty.links = <<>> /\ Empty.edges = <<>>
      /\ Empty = [order |-> Empty.order, links |-> Empty.links, edges |-> Empty.edges]
  BY DEF Empty
<1>2. DOMAIN <<>> = {} /\ Elements(<<>>) = {} /\ Len(<<>>) = 0 /\ Cardinality({}) = 0
  BY FS_EmptySet DEF Elements
<1>3. <<>> \in [{} -> SUBSET Nodes] /\ <<>> \in Seq(Nodes) /\ <<>> \in Seq(Edges(Script))
  OBVIOUS
<1>4. QED
  BY <1>1, <1>2, <1>3 DEF GraphOK, IsGraph, Closed

\* A graph from which nothing is missing needs no addition; and one without connections
\* any that there are.
LEMMA WholeIsMade ==
  ASSUME NEW g, GraphOK(g)
  PROVE  /\ Whole(g) => MadeWhole(g, <<>>) /\ MadeWhole(g, Script)
         /\ g = Empty => MadeWhole(g, Default)
         /\ MadeWhole(g, <<>>) => Whole(g)
<1>1. Edges(<<>>) = {}
  BY DEF Edges
<1>2. \A n : Neighbours(g, n) \subseteq Nodes
  BY DEF Neighbours
<1>3. Elements(g.edges) \subseteq Edges(Script)
  BY ElementsFinite DEF GraphOK
<1>4. Whole(g) => MadeWhole(g, <<>>) /\ MadeWhole(g, Script)
  BY <1>1, <1>3 DEF Whole, MadeWhole
<1>5. g = Empty => MadeWhole(g, Default)
  BY EmptyGraph DEF MadeWhole
<1>6. MadeWhole(g, <<>>) => Whole(g)
  <2>1. ASSUME MadeWhole(g, <<>>), NEW n \in DOMAIN g.links PROVE g.links[n] = Neighbours(g, n)
    BY <1>1, <2>1 DEF MadeWhole
  <2>2. QED
    BY <2>1 DEF Whole, GraphOK
<1>7. QED
  BY <1>4, <1>5, <1>6

\* A write that succeeds.
LEMMA GrowsWhole ==
  ASSUME NEW g, GraphOK(g), NEW ops, Additions(ops), ops # <<>>
  PROVE  LET op == Head(ops)
             grown == Grown(g, op)
             rest == IF IsNode(op) \/ Missing(g, op) = {} THEN Tail(ops) ELSE ops IN
         /\ GraphOK(grown) /\ Additions(rest)
         /\ MadeWhole(g, ops) => MadeWhole(grown, rest)
<1> DEFINE op == Head(ops)
           grown == Grown(g, op)
           rest == IF IsNode(op) \/ Missing(g, op) = {} THEN Tail(ops) ELSE ops
<1>1. /\ op \in Seq(Nodes) /\ Len(op) \in {1, 2} /\ op[1] \in Nodes
      /\ Additions(Tail(ops)) /\ Additions(rest)
      /\ ~IsNode(op) => op \in Edges(Script) /\ (Tail(ops) # <<>> => ~IsNode(Head(Tail(ops))))
  BY RestOfAdditions
<1>2. Edges(ops) = Edges(Tail(ops)) \cup (IF IsNode(op) THEN {} ELSE {op})
  BY EdgesOfRest DEF Additions
<1>3. CASE IsNode(op)
  <2>1. grown = WithNode(g, op[1]) /\ rest = Tail(ops)
    BY <1>3 DEF Grown
  <2>2. PICK n \in Nodes : n = op[1]
    BY <1>1
  <2>3. PICK h : h = WithNode(g, n)
    OBVIOUS
  <2>4. /\ GraphOK(h) /\ h.edges = g.edges /\ DOMAIN h.links = DOMAIN g.links \cup {n}
        /\ h.links[n] = {} /\ \A m \in DOMAIN g.links \ {n} : h.links[m] = g.links[m]
    BY <2>3, WithNodeFacts
  <2>5. \A m : Neighbours(h, m) = Neighbours(g, m)
    BY <2>4 DEF Neighbours
  <2>6. ASSUME MadeWhole(g, ops) PROVE MadeWhole(h, Tail(ops))
    <3>1. Elements(g.edges) \subseteq Edges(Tail(ops))
      BY <1>2, <1>3, <2>6 DEF MadeWhole
    <3>2. \A m \in DOMAIN h.links : h.links[m] \subseteq Neighbours(h, m)
      BY <2>4, <2>5, <2>6 DEF MadeWhole
    <3>3. \A m : \A k \in Neighbours(h, m) : <<m, k>> \in Edges(Tail(ops)) \/ <<k, m>> \in Edges(Tail(ops))
      BY <2>5, <3>1 DEF Neighbours
    <3>4. QED
      BY <2>4, <3>1, <3>2, <3>3 DEF MadeWhole
  <2>7. QED
    BY <1>1, <2>1, <2>2, <2>3, <2>4, <2>6
<1>4. CASE ~IsNode(op) /\ Missing(g, op) # {}
  <2>1. op[2] \in Nodes /\ Elements(op) = {op[1], op[2]} /\ rest = ops
    BY <1>1, <1>4, GivenAdditions
  <2>2. PICK n \in Nodes : n \in Missing(g, op) /\ grown = WithNode(g, n)
    BY <1>1, <1>4, <2>1 DEF Grown, Missing
  <2>3. PICK h : h = WithNode(g, n)
    OBVIOUS
  <2>4. /\ GraphOK(h) /\ h.edges = g.edges /\ DOMAIN h.links = DOMAIN g.links \cup {n}
        /\ h.links[n] = {} /\ \A m \in DOMAIN g.links \ {n} : h.links[m] = g.links[m]
    BY <2>3, WithNodeFacts
  <2>5. \A m : Neighbours(h, m) = Neighbours(g, m)
    BY <2>4 DEF Neighbours
  <2>6. n \notin DOMAIN g.links
    BY <2>2 DEF Missing
  <2>7. Neighbours(g, n) = {}
    <3>1. ASSUME NEW e \in Elements(g.edges) PROVE e[1] # n /\ e[2] # n
      <4>1. e \in Edges(Script) /\ Elements(e) \subseteq DOMAIN g.links
        BY ElementsFinite DEF GraphOK, Closed
      <4>2. Elements(e) = {e[1], e[2]}
        BY <4>1, GivenAdditions
      <4>3. QED
        BY <2>6, <4>1, <4>2
    <3>2. \A m : <<n, m>>[1] = n /\ <<m, n>>[2] = n
      OBVIOUS
    <3>3. QED
      BY <3>1, <3>2 DEF Neighbours
  <2>8. ASSUME MadeWhole(g, ops) PROVE MadeWhole(h, ops)
    <3>1. \A m \in DOMAIN h.links : m = n \/ (m \in DOMAIN g.links /\ h.links[m] = g.links[m])
      BY <2>4, <2>6
    <3>2. QED
      BY <2>4, <2>5, <2>7, <2>8, <3>1, <1>4 DEF MadeWhole
  <2>9. QED
    BY <1>1, <2>1, <2>2, <2>3, <2>4, <2>8
<1>5. CASE ~IsNode(op) /\ Missing(g, op) = {}
  <2>1. op \in Edges(Script) /\ op[2] \in Nodes /\ op = <<op[1], op[2]>>
        /\ grown = WithEdge(g, op) /\ rest = Tail(ops)
    BY <1>1, <1>5, GivenAdditions DEF Grown
  <2>2. PICK e : e = op
    OBVIOUS
  <2>3. PICK h : h = WithEdge(g, e)
    OBVIOUS
  <2>4. /\ GraphOK(h) /\ Elements(h.edges) = Elements(g.edges) \cup {e}
        /\ DOMAIN h.links = DOMAIN g.links
        /\ \A n \in DOMAIN g.links :
             h.links[n] = g.links[n] \cup (IF n = e[1] THEN {e[2]} ELSE {}) \cup (IF n = e[2] THEN {e[1]} ELSE {})
    BY <1>5, <2>1, <2>2, <2>3, WithEdgeFacts
  <2>5. e = <<e[1], e[2]>> /\ e[1] \in Nodes /\ e[2] \in Nodes
    BY <1>1, <2>1, <2>2
  <2>6. \A n : Neighbours(h, n) = Neighbours(g, n) \cup (IF n = e[1] THEN {e[2]} ELSE {})
                                                  \cup (IF n = e[2] THEN {e[1]} ELSE {})
    <3>1. \A n, m : (e = <<n, m>> <=> n = e[1] /\ m = e[2]) /\ (e = <<m, n>> <=> n = e[2] /\ m = e[1])
      BY <2>5
    <3>2. QED
      BY <2>4, <2>5, <3>1 DEF Neighbours
  <2>7. ASSUME MadeWhole(g, ops) PROVE MadeWhole(h, Tail(ops))
    <3>1. \A n \in DOMAIN h.links : h.links[n] \subseteq Neighbours(h, n)
      BY <2>4, <2>6, <2>7 DEF MadeWhole
    <3>2. ASSUME NEW n \in DOMAIN h.links, NEW m \in Neighbours(h, n) \ h.links[n]
          PROVE  <<n, m>> \in Edges(Tail(ops)) \/ <<m, n>> \in Edges(Tail(ops))
      <4>1. m \in Neighbours(g, n) \ g.links[n] /\ ~(n = e[1] /\ m = e[2]) /\ ~(n = e[2] /\ m = e[1])
        BY <2>4, <2>6, <3>2
      <4>2. <<n, m>> # e /\ <<m, n>> # e
        BY <2>5, <4>1
      <4>3. <<n, m>> \in Edges(ops) \/ <<m, n>> \in Edges(ops)
        BY <2>4, <2>7, <4>1 DEF MadeWhole
      <4>4. QED
        BY <1>2, <1>5, <2>2, <4>2, <4>3
    <3>3. QED
      BY <1>1, <1>5, <3>1, <3>2 DEF MadeWhole
  <2>8. QED
    BY <1>1, <2>1, <2>2, <2>3, <2>4, <2>7
<1>6. QED
  BY <1>3, <1>4, <1>5
------------------------------------------------------------------------------
(* A query around a node. *)

\* The passes of the loops over the edges, and over the nodes of the queue.
Looks(f, g, s, n, limit, k) ==
  f = [i \in 0..k |-> IF i = 0 THEN s ELSE Visit(f[i - 1], n, g.edges[i], limit)]

Walks(f, g, s, limit, k) ==
  f = [i \in 0..k |-> IF i = 0 THEN [s EXCEPT !.next = <<>>] ELSE Around(g, f[i - 1], s.next[i], limit)]

LEMMA LooksExist ==
  ASSUME NEW g, NEW s, NEW n, NEW limit, NEW l \in Nat
  PROVE  \E f : Looks(f, g, s, n, limit, l)
<1> DEFINE bad == {k \in Nat : ~ \E f : Looks(f, g, s, n, limit, k)}
<1>1. SUFFICES ASSUME bad # {} PROVE FALSE
  OBVIOUS
<1>2. PICK k \in bad : \A j \in bad : k <= j
  <2>1. bad \in SUBSET Nat
    OBVIOUS
  <2> HIDE DEF bad
  <2>2. QED
    BY <1>1, <2>1, LeastNumber
<1>3. k # 0
  <2> DEFINE f == [i \in 0..0 |-> s]
  <2>1. Looks(f, g, s, n, limit, 0)
    BY DEF Looks
  <2>2. QED
    BY <2>1
<1>4. k \in Nat /\ k - 1 \in Nat /\ ~(k <= k - 1)
  BY <1>3
<1>5. PICK f : Looks(f, g, s, n, limit, k - 1)
  BY <1>2, <1>4
<1> DEFINE step(x, i) == Visit(x, n, g.edges[i], limit)
           h == [i \in 0..k |-> IF i = k THEN step(f[k - 1], k) ELSE f[i]]
<1>6. \A i \in 0..k : h[i] = IF i = 0 THEN s ELSE step(h[i - 1], i)
  <2>1. \A i \in 0..(k - 1) : f[i] = IF i = 0 THEN s ELSE step(f[i - 1], i)
    BY <1>4, <1>5 DEF Looks
  <2> HIDE DEF step
  <2>2. TAKE i \in 0..k
  <2>3. CASE i = k
    BY <1>3, <1>4, <2>3
  <2>4. CASE i # k
    BY <1>4, <2>1, <2>4
  <2>5. QED
    BY <2>3, <2>4
<1>7. Looks(h, g, s, n, limit, k)
  <2>1. h = [i \in 0..k |-> h[i]]
    OBVIOUS
  <2> HIDE DEF h
  <2>2. QED
    BY <1>6, <2>1 DEF Looks
<1>8. QED
  BY <1>7

LEMMA WalksExist ==
  ASSUME NEW g, NEW s, NEW limit, NEW l \in Nat
  PROVE  \E f : Walks(f, g, s, limit, l)
<1> DEFINE bad == {k \in Nat : ~ \E f : Walks(f, g, s, limit, k)}
<1>1. SUFFICES ASSUME bad # {} PROVE FALSE
  OBVIOUS
<1>2. PICK k \in bad : \A j \in bad : k <= j
  <2>1. bad \in SUBSET Nat
    OBVIOUS
  <2> HIDE DEF bad
  <2>2. QED
    BY <1>1, <2>1, LeastNumber
<1> DEFINE start == [s EXCEPT !.next = <<>>]
<1>3. k # 0
  <2> DEFINE f == [i \in 0..0 |-> start]
  <2>1. Walks(f, g, s, limit, 0)
    BY DEF Walks
  <2>2. QED
    BY <2>1
<1>4. k \in Nat /\ k - 1 \in Nat /\ ~(k <= k - 1)
  BY <1>3
<1>5. PICK f : Walks(f, g, s, limit, k - 1)
  BY <1>2, <1>4
<1> DEFINE step(x, i) == Around(g, x, s.next[i], limit)
           h == [i \in 0..k |-> IF i = k THEN step(f[k - 1], k) ELSE f[i]]
<1>6. \A i \in 0..k : h[i] = IF i = 0 THEN start ELSE step(h[i - 1], i)
  <2>1. \A i \in 0..(k - 1) : f[i] = IF i = 0 THEN start ELSE step(f[i - 1], i)
    BY <1>4, <1>5 DEF Walks
  <2> HIDE DEF step, start
  <2>2. TAKE i \in 0..k
  <2>3. CASE i = k
    BY <1>3, <1>4, <2>3
  <2>4. CASE i # k
    BY <1>4, <2>1, <2>4
  <2>5. QED
    BY <2>3, <2>4
<1>7. Walks(h, g, s, limit, k)
  <2>1. h = [i \in 0..k |-> h[i]]
    OBVIOUS
  <2> HIDE DEF h
  <2>2. QED
    BY <1>6, <2>1 DEF Walks
<1>8. QED
  BY <1>7

\* What the loops end with, step by step.
LEMMA LooksSteps ==
  ASSUME NEW f, NEW g, NEW s, NEW n, NEW limit, NEW l \in Nat, Looks(f, g, s, n, limit, l)
  PROVE  f[0] = s /\ \A i \in 1..l : f[i] = Visit(f[i - 1], n, g.edges[i], limit)
<1> DEFINE step(x, i) == Visit(x, n, g.edges[i], limit)
<1>1. f = [i \in 0..l |-> IF i = 0 THEN s ELSE step(f[i - 1], i)]
  BY DEF Looks
<1> HIDE DEF step
<1>2. f[0] = s /\ \A i \in 1..l : f[i] = step(f[i - 1], i)
  BY <1>1
<1>3. QED
  BY <1>2 DEF step

LEMMA WalksSteps ==
  ASSUME NEW f, NEW g, NEW s, NEW limit, NEW l \in Nat, Walks(f, g, s, limit, l)
  PROVE  f[0] = [s EXCEPT !.next = <<>>] /\ \A i \in 1..l : f[i] = Around(g, f[i - 1], s.next[i], limit)
<1> DEFINE step(x, i) == Around(g, x, s.next[i], limit)
           start == [s EXCEPT !.next = <<>>]
<1>1. f = [i \in 0..l |-> IF i = 0 THEN start ELSE step(f[i - 1], i)]
  BY DEF Walks
<1> HIDE DEF step, start
<1>2. f[0] = start /\ \A i \in 1..l : f[i] = step(f[i - 1], i)
  BY <1>1
<1>3. QED
  BY <1>2 DEF step, start

LEMMA AroundByPass ==
  ASSUME NEW g, NEW s, NEW n, NEW limit, Len(g.edges) \in Nat
  PROVE  \E f : /\ f[0] = s /\ Around(g, s, n, limit) = f[Len(g.edges)]
                /\ \A i \in 1..Len(g.edges) : f[i] = Visit(f[i - 1], n, g.edges[i], limit)
<1> DEFINE l == Len(g.edges)
           f == CHOOSE x : Looks(x, g, s, n, limit, l)
<1>1. Looks(f, g, s, n, limit, l)
  <2>1. \E x : Looks(x, g, s, n, limit, l)
    BY LooksExist
  <2>2. QED
    BY <2>1, Zenon
<1>2. Around(g, s, n, limit) = f[l]
  BY DEF Around, Looks
<1>3. f[0] = s /\ \A i \in 1..l : f[i] = Visit(f[i - 1], n, g.edges[i], limit)
  <2> HIDE DEF f
  <2>1. QED
    BY <1>1, LooksSteps
<1>4. QED
  BY <1>2, <1>3

LEMMA SweepByPass ==
  ASSUME NEW g, NEW s, NEW limit, Len(s.next) \in Nat, NEW start, start = [s EXCEPT !.next = <<>>]
  PROVE  \E f : /\ f[0] = start /\ Sweep(g, s, limit) = f[Len(s.next)]
                /\ \A i \in 1..Len(s.next) : f[i] = Around(g, f[i - 1], s.next[i], limit)
<1> DEFINE l == Len(s.next)
           f == CHOOSE x : Walks(x, g, s, limit, l)
<1>1. Walks(f, g, s, limit, l)
  <2>1. \E x : Walks(x, g, s, limit, l)
    BY WalksExist
  <2>2. QED
    BY <2>1, Zenon
<1>2. Sweep(g, s, limit) = f[l]
  BY DEF Sweep, Walks
<1>3. f[0] = start /\ \A i \in 1..l : f[i] = Around(g, f[i - 1], s.next[i], limit)
  <2> HIDE DEF f
  <2>1. QED
    BY <1>1, WalksSteps
<1>4. QED
  BY <1>2, <1>3

\* What a search around n has found, of which no more than limit nodes are listed.
Search(g, n, limit, s) ==
  /\ s = [visited |-> s.visited, next |-> s.next, nodes |-> s.nodes, edges |-> s.edges]
  /\ n \in s.visited /\ s.visited \in SUBSET Nodes
  /\ s.next \in Seq(Nodes) /\ Elements(s.next) \subseteq s.visited
  /\ s.nodes \in Seq(Nodes) /\ Elements(s.nodes) \subseteq s.visited \ {n}
  /\ Cardinality(Elements(s.nodes)) = Len(s.nodes)
  /\ Len(s.nodes) = Least(limit, Cardinality(s.visited \ {n}))
  /\ s.edges \in Seq(Edges(Script)) /\ Len(s.edges) = Len(s.nodes)
  /\ \A i \in 1..Len(s.edges) :
       /\ s.edges[i] \in Elements(g.edges) /\ s.nodes[i] \in Elements(s.edges[i])
       /\ \E m \in Elements(s.edges[i]) : m = n \/ \E j \in 1..(i - 1) : m = s.nodes[j]

\* Nodes of B are listed before others.
Ranked(B, s) == \A i, j \in DOMAIN s.nodes : i < j /\ s.nodes[j] \in B => s.nodes[i] \in B

\* A sweep that began when A had been visited.
Widens(g, A, s) ==
  A \subseteq s.visited /\ s.visited \subseteq Further(g, A) /\ Elements(s.next) = s.visited \ A

LEMMA CountsOfNodes ==
  ASSUME NEW S \in SUBSET Nodes
  PROVE  IsFiniteSet(S) /\ Cardinality(S) \in Nat
BY GraphAssumption, FS_Subset, FS_CardinalityType

\* A list that is as long as there are nodes has them all.
LEMMA ListsAll ==
  ASSUME NEW g, NEW n, NEW limit \in Nat, NEW s, Search(g, n, limit, s), Len(s.nodes) < limit
  PROVE  Elements(s.nodes) = s.visited \ {n} /\ Len(s.nodes) = Cardinality(s.visited \ {n})
<1>1. /\ Elements(s.nodes) \subseteq s.visited \ {n} /\ s.visited \ {n} \in SUBSET Nodes
      /\ Cardinality(Elements(s.nodes)) = Len(s.nodes)
      /\ Len(s.nodes) = Least(limit, Cardinality(s.visited \ {n}))
  BY DEF Search
<1>2. Cardinality(s.visited \ {n}) \in Nat /\ IsFiniteSet(s.visited \ {n})
  BY <1>1, CountsOfNodes
<1>3. Len(s.nodes) = Cardinality(s.visited \ {n})
  BY <1>1, <1>2 DEF Least
<1>4. QED
  BY <1>1, <1>2, <1>3, FS_Subset

\* A node that is found is new, and is connected with the one it was found from.
LEMMA EndFound ==
  ASSUME NEW g, GraphOK(g), NEW V, NEW k, NEW e \in Elements(g.edges), NEW m, m \notin V,
         e = <<k, m>> \/ e = <<m, k>>
  PROVE  /\ m \in Nodes /\ m # None
         /\ (IF e[1] = k /\ e[2] \notin V THEN e[2] ELSE IF e[2] = k /\ e[1] \notin V THEN e[1] ELSE None) = m
<1>1. e \in Edges(Script) /\ e[1] \in Nodes /\ e[2] \in Nodes
  BY ElementsFinite, GivenAdditions DEF GraphOK
<1>2. m \in Nodes /\ m # None
  BY <1>1, GraphAssumption
<1>3. CASE e = <<k, m>>
  BY <1>2, <1>3
<1>4. CASE e = <<m, k>>
  BY <1>2, <1>4
<1>5. QED
  BY <1>3, <1>4

LEMMA VisitPasses ==
  ASSUME NEW g, GraphOK(g), NEW limit, NEW s, NEW k, NEW e \in Elements(g.edges),
         ~ \E m : m \notin s.visited /\ (e = <<k, m>> \/ e = <<m, k>>)
  PROVE  Visit(s, k, e, limit) = s
<1>1. e = <<e[1], e[2]>>
  BY ElementsFinite, GivenAdditions DEF GraphOK
<1>2. ~(e[1] = k /\ e[2] \notin s.visited) /\ ~(e[2] = k /\ e[1] \notin s.visited)
  BY <1>1
<1>3. QED
  BY <1>2 DEF Visit

LEMMA ListGrows ==
  ASSUME NEW S, NEW s \in Seq(S), NEW x \in S
  PROVE  LET t == Append(s, x) IN
         /\ t \in Seq(S) /\ Len(t) = Len(s) + 1 /\ t[Len(s) + 1] = x /\ \A i \in 1..Len(s) : t[i] = s[i]
         /\ Elements(t) = Elements(s) \cup {x}
         /\ x \notin Elements(s) /\ Cardinality(Elements(s)) = Len(s) => Cardinality(Elements(t)) = Len(t)
<1>1. Elements(Append(s, x)) = Elements(s) \cup {x}
  BY ElementsOfLonger
<1>2. /\ Append(s, x) \in Seq(S) /\ Len(Append(s, x)) = Len(s) + 1 /\ Append(s, x)[Len(s) + 1] = x
      /\ \A i \in 1..Len(s) : Append(s, x)[i] = s[i]
  BY AppendProperties
<1>3. x \notin Elements(s) => Cardinality(Elements(s) \cup {x}) = Cardinality(Elements(s)) + 1
  BY ElementsFinite, FS_AddElement
<1>4. QED
  BY <1>1, <1>2, <1>3

LEMMA VisitKeeps ==
  ASSUME NEW g, GraphOK(g), NEW n, NEW limit \in Nat, NEW s, Search(g, n, limit, s),
         NEW A \in SUBSET Nodes, Widens(g, A, s), NEW k \in A, NEW e \in Elements(g.edges)
  PROVE  LET t == Visit(s, k, e, limit) IN
         /\ Search(g, n, limit, t) /\ Widens(g, A, t) /\ s.visited \subseteq t.visited
         /\ (e[1] = k => e[2] \in t.visited) /\ (e[2] = k => e[1] \in t.visited)
         /\ \A B \in SUBSET s.visited : Ranked(B, s) => Ranked(B, t)
<1>1. CASE ~ \E m : m \notin s.visited /\ (e = <<k, m>> \/ e = <<m, k>>)
  <2>1. Visit(s, k, e, limit) = s
    BY <1>1, VisitPasses
  <2>2. e = <<e[1], e[2]>>
    BY ElementsFinite, GivenAdditions DEF GraphOK
  <2>3. (e[1] = k => e[2] \in s.visited) /\ (e[2] = k => e[1] \in s.visited)
    BY <1>1, <2>2
  <2>4. QED
    BY <2>1, <2>3
<1>2. ASSUME NEW m, m \notin s.visited, e = <<k, m>> \/ e = <<m, k>>
      PROVE  LET t == Visit(s, k, e, limit) IN
             /\ Search(g, n, limit, t) /\ Widens(g, A, t) /\ s.visited \subseteq t.visited
             /\ (e[1] = k => e[2] \in t.visited) /\ (e[2] = k => e[1] \in t.visited)
             /\ \A B \in SUBSET s.visited : Ranked(B, s) => Ranked(B, t)
  <2> DEFINE listed == Len(s.nodes) < limit
  <2>1. PICK t : t = [visited |-> s.visited \cup {m}, next |-> Append(s.next, m),
                      nodes |-> IF listed THEN Append(s.nodes, m) ELSE s.nodes,
                      edges |-> IF listed THEN Append(s.edges, e) ELSE s.edges]
    OBVIOUS
  <2>2. Visit(s, k, e, limit) = t
    <3>1. /\ m # None
          /\ (IF e[1] = k /\ e[2] \notin s.visited THEN e[2]
              ELSE IF e[2] = k /\ e[1] \notin s.visited THEN e[1] ELSE None) = m
      BY <1>2, EndFound
    <3>2. QED
      BY <2>1, <3>1, Zenon DEF Visit
  <2>3. /\ t.visited = s.visited \cup {m} /\ t.next = Append(s.next, m)
        /\ t.nodes = (IF listed THEN Append(s.nodes, m) ELSE s.nodes)
        /\ t.edges = (IF listed THEN Append(s.edges, e) ELSE s.edges)
        /\ t = [visited |-> t.visited, next |-> t.next, nodes |-> t.nodes, edges |-> t.edges]
    BY <2>1
  <2>4. e \in Edges(Script) /\ Elements(e) = {k, m} /\ m \in Nodes /\ k \in Nodes /\ k \in s.visited
    <3>1. e \in Edges(Script) /\ Elements(e) = {e[1], e[2]} /\ e[1] \in Nodes /\ e[2] \in Nodes
      BY ElementsFinite, GivenAdditions DEF GraphOK
    <3>2. QED
      BY <1>2, <3>1 DEF Widens
  <2>5. m \in Neighbours(g, k)
    BY <1>2, <2>4 DEF Neighbours
  <2>6. /\ s.next \in Seq(Nodes) /\ s.nodes \in Seq(Nodes) /\ s.edges \in Seq(Edges(Script))
        /\ Elements(s.nodes) \subseteq s.visited \ {n} /\ n \in s.visited /\ m # n /\ m \notin Elements(s.nodes)
        /\ Cardinality(Elements(s.nodes)) = Len(s.nodes) /\ Len(s.edges) = Len(s.nodes)
        /\ Len(s.nodes) \in Nat /\ DOMAIN s.nodes = 1..Len(s.nodes)
    BY <1>2 DEF Search
  <2>7. /\ t.next \in Seq(Nodes) /\ Elements(t.next) = Elements(s.next) \cup {m}
    <3>1. s.next \in Seq(Nodes) /\ m \in Nodes /\ t.next = Append(s.next, m)
      BY <2>3, <2>4, <2>6
    <3>2. QED
      BY <3>1, ListGrows
  <2>8. Widens(g, A, t)
    BY <1>2, <2>3, <2>5, <2>7 DEF Widens, Further
  <2>9. Cardinality(t.visited \ {n}) = Cardinality(s.visited \ {n}) + 1 /\ Cardinality(s.visited \ {n}) \in Nat
    <3>1. t.visited \ {n} = (s.visited \ {n}) \cup {m} /\ m \notin s.visited \ {n}
      BY <1>2, <2>3, <2>6
    <3>2. s.visited \ {n} \in SUBSET Nodes
      BY DEF Search
    <3>3. QED
      BY <3>1, <3>2, CountsOfNodes, FS_AddElement
  <2>13. (e[1] = k => e[2] \in t.visited) /\ (e[2] = k => e[1] \in t.visited)
    BY <1>2, <2>3, <2>4
  <2>10. CASE listed
    <3>1. /\ t.nodes \in Seq(Nodes) /\ Len(t.nodes) = Len(s.nodes) + 1 /\ t.nodes[Len(s.nodes) + 1] = m
          /\ \A i \in 1..Len(s.nodes) : t.nodes[i] = s.nodes[i]
          /\ Elements(t.nodes) = Elements(s.nodes) \cup {m} /\ Cardinality(Elements(t.nodes)) = Len(t.nodes)
      BY <2>3, <2>4, <2>6, <2>10, ListGrows
    <3>2. /\ t.edges \in Seq(Edges(Script)) /\ Len(t.edges) = Len(s.nodes) + 1 /\ t.edges[Len(s.nodes) + 1] = e
          /\ \A i \in 1..Len(s.nodes) : t.edges[i] = s.edges[i]
      BY <2>3, <2>4, <2>6, <2>10, ListGrows
    <3>3. /\ Elements(s.nodes) = s.visited \ {n} /\ Len(s.nodes) = Cardinality(s.visited \ {n})
      BY <2>10, ListsAll
    <3>4. Len(t.nodes) = Least(limit, Cardinality(t.visited \ {n}))
      BY <2>6, <2>9, <2>10, <3>1, <3>3 DEF Least
    <3>5. ASSUME NEW i \in 1..Len(t.edges)
          PROVE  /\ t.edges[i] \in Elements(g.edges) /\ t.nodes[i] \in Elements(t.edges[i])
                 /\ \E x \in Elements(t.edges[i]) : x = n \/ \E j \in 1..(i - 1) : x = t.nodes[j]
      <4>1. CASE i \in 1..Len(s.nodes)
        <5>1. t.edges[i] = s.edges[i] /\ t.nodes[i] = s.nodes[i] /\ \A j \in 1..(i - 1) : t.nodes[j] = s.nodes[j]
          <6>1. \A j \in 1..(i - 1) : j \in 1..Len(s.nodes)
            BY <2>6, <4>1
          <6>2. QED
            BY <3>1, <3>2, <4>1, <6>1
        <5>2. QED
          BY <2>6, <4>1, <5>1 DEF Search
      <4>2. CASE i = Len(s.nodes) + 1
        <5>1. t.edges[i] = e /\ t.nodes[i] = m
          BY <3>1, <3>2, <4>2
        <5>2. k = n \/ \E j \in 1..Len(s.nodes) : k = s.nodes[j]
          BY <2>4, <2>6, <3>3 DEF Elements
        <5>3. k = n \/ \E j \in 1..(i - 1) : k = t.nodes[j]
          BY <2>6, <3>1, <4>2, <5>2
        <5>4. QED
          BY <2>4, <5>1, <5>3
      <4>3. QED
        BY <2>6, <3>2, <4>1, <4>2
    <3>6. Search(g, n, limit, t)
      <4>1. t.visited \in SUBSET Nodes /\ n \in t.visited /\ Elements(t.next) \subseteq t.visited
            /\ Elements(t.nodes) \subseteq t.visited \ {n} /\ Len(t.edges) = Len(t.nodes)
        BY <2>3, <2>4, <2>6, <2>7, <3>1, <3>2 DEF Search
      <4>2. QED
        BY <2>3, <2>7, <3>1, <3>2, <3>4, <3>5, <4>1 DEF Search
    <3>7. ASSUME NEW B \in SUBSET s.visited, Ranked(B, s) PROVE Ranked(B, t)
      <4>1. ASSUME NEW i \in DOMAIN t.nodes, NEW j \in DOMAIN t.nodes, i < j, t.nodes[j] \in B
            PROVE  t.nodes[i] \in B
        <5>1. j # Len(s.nodes) + 1
          BY <1>2, <3>1, <4>1
        <5>2. i \in 1..Len(s.nodes) /\ j \in 1..Len(s.nodes)
          BY <2>6, <3>1, <4>1, <5>1
        <5>3. QED
          BY <2>6, <3>1, <3>7, <4>1, <5>2 DEF Ranked
      <4>2. QED
        BY <4>1 DEF Ranked
    <3>8. QED
      BY <2>2, <2>3, <2>8, <2>13, <3>6, <3>7
  <2>11. CASE ~listed
    <3>1. t.nodes = s.nodes /\ t.edges = s.edges
      BY <2>3, <2>11
    <3>2. Len(t.nodes) = Least(limit, Cardinality(t.visited \ {n}))
      <4>1. Len(s.nodes) = Least(limit, Cardinality(s.visited \ {n}))
        BY DEF Search
      <4>2. QED
        BY <2>6, <2>9, <2>11, <3>1, <4>1 DEF Least
    <3>3. Search(g, n, limit, t)
      <4>1. t.visited \in SUBSET Nodes /\ n \in t.visited /\ Elements(t.next) \subseteq t.visited
            /\ Elements(t.nodes) \subseteq t.visited \ {n} /\ Len(t.edges) = Len(t.nodes)
        BY <2>3, <2>4, <2>6, <2>7, <3>1 DEF Search
      <4>2. QED
        BY <2>3, <2>6, <2>7, <3>1, <3>2, <4>1 DEF Search
    <3>4. \A B : Ranked(B, s) => Ranked(B, t)
      BY <3>1 DEF Ranked
    <3>5. QED
      BY <2>2, <2>3, <2>8, <2>13, <3>3, <3>4
  <2>12. QED
    BY <2>10, <2>11
<1>3. QED
  BY <1>1, <1>2

LEMMA AroundKeeps ==
  ASSUME NEW g, GraphOK(g), NEW n, NEW limit \in Nat, NEW s, Search(g, n, limit, s),
         NEW A \in SUBSET Nodes, Widens(g, A, s), NEW k \in A
  PROVE  LET t == Around(g, s, k, limit) IN
         /\ Search(g, n, limit, t) /\ Widens(g, A, t) /\ s.visited \subseteq t.visited
         /\ Neighbours(g, k) \subseteq t.visited
         /\ \A B \in SUBSET s.visited : Ranked(B, s) => Ranked(B, t)
<1> DEFINE l == Len(g.edges)
           Leads(e, t) == (e[1] = k => e[2] \in t.visited) /\ (e[2] = k => e[1] \in t.visited)
           Seen(t, j) ==
             /\ Search(g, n, limit, t) /\ Widens(g, A, t) /\ s.visited \subseteq t.visited
             /\ \A i \in 1..j : Leads(g.edges[i], t)
             /\ \A B \in SUBSET s.visited : Ranked(B, s) => Ranked(B, t)
<1>1. l \in Nat /\ g.edges \in Seq(Edges(Script)) /\ DOMAIN g.edges = 1..l
  BY DEF GraphOK
<1>2. PICK f : /\ f[0] = s /\ Around(g, s, k, limit) = f[l]
               /\ \A i \in 1..l : f[i] = Visit(f[i - 1], k, g.edges[i], limit)
  BY <1>1, AroundByPass
<1> DEFINE bad == {j \in 0..l : ~Seen(f[j], j)}
<1>3. bad = {}
  <2> SUFFICES ASSUME bad # {} PROVE FALSE
    OBVIOUS
  <2>1. PICK j \in bad : \A i \in bad : j <= i
    <3>1. bad \in SUBSET Nat
      BY <1>1
    <3> HIDE DEF bad
    <3>2. QED
      BY <3>1, LeastNumber
  <2>2. Seen(f[0], 0)
    BY <1>2
  <2> HIDE DEF Seen
  <2>3. j \in 0..l /\ j # 0
    BY <2>2
  <2>4. j \in 1..l /\ j - 1 \in 0..l /\ ~(j <= j - 1) /\ j \in Nat
    BY <1>1, <2>3
  <2>5. Seen(f[j - 1], j - 1)
    BY <2>1, <2>4
  <2>6. PICK u : u = f[j - 1]
    OBVIOUS
  <2>7. PICK e : e = g.edges[j]
    OBVIOUS
  <2>8. e \in Elements(g.edges)
    BY <1>1, <2>4, <2>7 DEF Elements
  <2>9. f[j] = Visit(u, k, e, limit)
    BY <1>2, <2>4, <2>6, <2>7
  <2>10. Search(g, n, limit, u) /\ Widens(g, A, u) /\ s.visited \subseteq u.visited
    BY <2>5, <2>6 DEF Seen
  <2>11. PICK t : t = f[j]
    OBVIOUS
  <2>12. /\ Search(g, n, limit, t) /\ Widens(g, A, t) /\ u.visited \subseteq t.visited
         /\ Leads(e, t)
         /\ \A B \in SUBSET u.visited : Ranked(B, u) => Ranked(B, t)
    <3> HIDE DEF bad
    <3>1. t = Visit(u, k, e, limit)
      BY <2>9, <2>11
    <3>2. QED
      BY <2>8, <2>10, <3>1, VisitKeeps
  <2>13. \A i \in 1..j : Leads(g.edges[i], t)
    <3>1. \A i \in 1..j : i \in 1..(j - 1) \/ i = j
      BY <2>4
    <3>2. \A i \in 1..(j - 1) : Leads(g.edges[i], u)
      BY <2>5, <2>6 DEF Seen
    <3>3. Leads(g.edges[j], t)
      BY <2>7, <2>12
    <3>4. QED
      BY <2>12, <3>1, <3>2, <3>3
  <2>14. \A B \in SUBSET s.visited : Ranked(B, s) => Ranked(B, t)
    BY <2>5, <2>6, <2>10, <2>12 DEF Seen
  <2>15. Seen(t, j)
    BY <2>10, <2>12, <2>13, <2>14 DEF Seen
  <2>16. QED
    BY <2>11, <2>15
<1>4. Seen(f[l], l)
  BY <1>1, <1>3
<1>5. PICK t : t = Around(g, s, k, limit) /\ Seen(t, l)
  BY <1>2, <1>4
<1>6. Neighbours(g, k) \subseteq t.visited
  <2>1. ASSUME NEW m \in Neighbours(g, k) PROVE m \in t.visited
    <3>1. PICK i \in 1..l : g.edges[i] \in {<<k, m>>, <<m, k>>}
      BY <1>1 DEF Neighbours, Elements
    <3>2. QED
      BY <1>5, <3>1
  <2>2. QED
    BY <2>1
<1>7. QED
  BY <1>5, <1>6

\* Before a sweep: only the queue may have neighbours that have not been visited.
Bordered(g, s) == \A m \in s.visited \ Elements(s.next) : Neighbours(g, m) \subseteq s.visited

LEMMA SweepKeeps ==
  ASSUME NEW g, GraphOK(g), NEW n, NEW limit \in Nat, NEW s, Search(g, n, limit, s), Bordered(g, s)
  PROVE  LET t == Sweep(g, s, limit) IN
         /\ Search(g, n, limit, t) /\ Bordered(g, t) /\ t.visited = Further(g, s.visited)
         /\ \A B \in SUBSET s.visited : Ranked(B, s) => Ranked(B, t)
<1> DEFINE l == Len(s.next)
           A == s.visited
           Swept(t, j) ==
             /\ Search(g, n, limit, t) /\ Widens(g, A, t)
             /\ \A i \in 1..j : Neighbours(g, s.next[i]) \subseteq t.visited
             /\ \A B \in SUBSET A : Ranked(B, s) => Ranked(B, t)
<1>1. l \in Nat /\ s.next \in Seq(Nodes) /\ DOMAIN s.next = 1..l /\ A \in SUBSET Nodes
      /\ \A i \in 1..l : s.next[i] \in A
  BY DEF Search, Elements
<1>0. PICK start : start = [s EXCEPT !.next = <<>>]
  OBVIOUS
<1>2. PICK f : /\ f[0] = start /\ Sweep(g, s, limit) = f[l]
               /\ \A i \in 1..l : f[i] = Around(g, f[i - 1], s.next[i], limit)
  <2>1. Len(s.next) \in Nat
    BY <1>1
  <2>2. QED
    BY <1>0, <2>1, SweepByPass
<1>3. Swept(f[0], 0)
  <2>1. PICK t : t = f[0]
    OBVIOUS
  <2>2. /\ t = [visited |-> t.visited, next |-> t.next, nodes |-> t.nodes, edges |-> t.edges]
        /\ t.visited = s.visited /\ t.next = <<>> /\ t.nodes = s.nodes /\ t.edges = s.edges
    <3>1. PICK a, b, c, d : s = [visited |-> a, next |-> b, nodes |-> c, edges |-> d]
      BY DEF Search
    <3>2. t = [visited |-> a, next |-> <<>>, nodes |-> c, edges |-> d]
      BY <1>2, <1>0, <2>1, <3>1
    <3>3. QED
      BY <3>1, <3>2
  <2>3. Elements(t.next) = {} /\ t.next \in Seq(Nodes)
    BY <2>2 DEF Elements
  <2>4. Search(g, n, limit, t)
    BY <2>2, <2>3 DEF Search
  <2>5. Widens(g, A, t)
    BY <2>2, <2>3 DEF Widens, Further
  <2>6. \A B \in SUBSET A : Ranked(B, s) => Ranked(B, t)
    BY <2>2 DEF Ranked
  <2>7. QED
    BY <2>1, <2>4, <2>5, <2>6
<1> DEFINE bad == {j \in 0..l : ~Swept(f[j], j)}
<1> HIDE DEF A
<1>4. bad = {}
  <2> SUFFICES ASSUME bad # {} PROVE FALSE
    OBVIOUS
  <2>1. PICK j \in bad : \A i \in bad : j <= i
    <3>1. bad \in SUBSET Nat
      BY <1>1
    <3> HIDE DEF bad
    <3>2. QED
      BY <3>1, LeastNumber
  <2> HIDE DEF Swept
  <2>3. j \in 0..l /\ j # 0
    BY <1>3
  <2>4. j \in 1..l /\ j - 1 \in 0..l /\ ~(j <= j - 1) /\ j \in Nat
    BY <1>1, <2>3
  <2>5. Swept(f[j - 1], j - 1)
    BY <2>1, <2>4
  <2>6. PICK u : u = f[j - 1]
    OBVIOUS
  <2>7. PICK k \in A : k = s.next[j]
    BY <1>1, <2>4
  <2>9. f[j] = Around(g, u, k, limit)
    BY <1>2, <2>4, <2>6, <2>7
  <2>10. Search(g, n, limit, u) /\ Widens(g, A, u) /\ A \subseteq u.visited
    BY <2>5, <2>6 DEF Swept, Widens
  <2>11. PICK t : t = f[j]
    OBVIOUS
  <2>12. /\ Search(g, n, limit, t) /\ Widens(g, A, t) /\ u.visited \subseteq t.visited
         /\ Neighbours(g, k) \subseteq t.visited
         /\ \A B \in SUBSET u.visited : Ranked(B, u) => Ranked(B, t)
    BY <1>1, <2>9, <2>10, <2>11, AroundKeeps
  <2>13. \A i \in 1..j : Neighbours(g, s.next[i]) \subseteq t.visited
    <3>1. \A i \in 1..j : i \in 1..(j - 1) \/ i = j
      BY <2>4
    <3>2. \A i \in 1..(j - 1) : Neighbours(g, s.next[i]) \subseteq u.visited
      BY <2>5, <2>6 DEF Swept
    <3>3. QED
      BY <2>7, <2>12, <3>1, <3>2
  <2>14. \A B \in SUBSET A : Ranked(B, s) => Ranked(B, t)
    BY <2>5, <2>6, <2>10, <2>12 DEF Swept
  <2>15. Swept(t, j)
    BY <2>12, <2>13, <2>14 DEF Swept
  <2>16. QED
    BY <2>11, <2>15
<1>5. Swept(f[l], l)
  BY <1>1, <1>4
<1>6. PICK t : t = Sweep(g, s, limit) /\ Swept(t, l)
  BY <1>2, <1>5
<1>7. \A m \in A : Neighbours(g, m) \subseteq t.visited
  <2>1. ASSUME NEW m \in A PROVE Neighbours(g, m) \subseteq t.visited
    <3>1. CASE m \in Elements(s.next)
      <4>1. PICK i \in 1..l : m = s.next[i]
        BY <1>1, <3>1 DEF Elements
      <4>2. QED
        BY <1>6, <4>1
    <3>2. CASE m \notin Elements(s.next)
      BY <1>6, <2>1, <3>2 DEF A, Bordered, Widens
    <3>3. QED
      BY <3>1, <3>2
  <2>2. QED
    BY <2>1
<1>8. t.visited = Further(g, A)
  BY <1>6, <1>7 DEF Widens, Further
<1>9. Bordered(g, t)
  BY <1>6, <1>7 DEF Bordered, Widens
<1>10. QED
  BY <1>6, <1>8, <1>9 DEF A

\* The answer to a query.
RightAnswer(answer) ==
  LET g == answer.graph
      n == answer.around
      nodes == answer.found.nodes
      edges == answer.found.edges
      one == Further(g, {n})
      two == Further(g, one)
      three == Further(g, two) IN
  n \in DOMAIN g.links =>
    /\ GraphOK(g) /\ nodes \in Seq(Nodes) /\ edges \in Seq(Edges(Script)) /\ three \subseteq Nodes
    /\ Elements(nodes) \subseteq three \ {n}
    /\ Cardinality(Elements(nodes)) = Len(nodes)
    /\ Len(nodes) = Least(answer.limit, Cardinality(three \ {n}))
    /\ Len(edges) = Len(nodes)
    /\ \A i \in 1..Len(edges) :
         /\ edges[i] \in Elements(g.edges) /\ nodes[i] \in Elements(edges[i])
         /\ \E m \in Elements(edges[i]) : m = n \/ \E j \in 1..(i - 1) : m = nodes[j]
    /\ \A i, j \in DOMAIN nodes : i < j => (nodes[j] \in one => nodes[i] \in one) /\ (nodes[j] \in two => nodes[i] \in two)

LEMMA QueryAnswers ==
  ASSUME NEW g, GraphOK(g), NEW n \in Nodes, NEW limit \in Nat
  PROVE  RightAnswer([around |-> n, limit |-> limit, found |-> Query(g, n, limit), graph |-> g])
<1> SUFFICES ASSUME n \in DOMAIN g.links
             PROVE  RightAnswer([around |-> n, limit |-> limit, found |-> Query(g, n, limit), graph |-> g])
  BY DEF RightAnswer
<1>1. PICK s : s = [visited |-> {n}, next |-> <<n>>, nodes |-> <<>>, edges |-> <<>>]
  OBVIOUS
<1>2. Search(g, n, limit, s) /\ Bordered(g, s) /\ s.visited = {n}
  <2>1. /\ s = [visited |-> s.visited, next |-> s.next, nodes |-> s.nodes, edges |-> s.edges]
        /\ s.visited = {n} /\ s.next = <<n>> /\ s.nodes = <<>> /\ s.edges = <<>>
    BY <1>1
  <2>2. /\ s.next \in Seq(Nodes) /\ Elements(s.next) = {n}
        /\ s.nodes \in Seq(Nodes) /\ Elements(s.nodes) = {} /\ Len(s.nodes) = 0
        /\ s.edges \in Seq(Edges(Script)) /\ Len(s.edges) = 0
    BY <2>1 DEF Elements
  <2>3. Cardinality({}) = 0 /\ s.visited \ {n} = {} /\ Least(limit, 0) = 0
    BY <2>1, FS_EmptySet DEF Least
  <2>4. Search(g, n, limit, s)
    <3>1. 1..Len(s.edges) = {} /\ n \in s.visited /\ s.visited \in SUBSET Nodes
      BY <2>1, <2>2
    <3>2. /\ Elements(s.next) \subseteq s.visited /\ Elements(s.nodes) \subseteq s.visited \ {n}
          /\ Cardinality(Elements(s.nodes)) = Len(s.nodes)
          /\ Len(s.nodes) = Least(limit, Cardinality(s.visited \ {n}))
      BY <2>1, <2>2, <2>3
    <3>3. QED
      BY <2>1, <2>2, <3>1, <3>2 DEF Search
  <2>5. Bordered(g, s)
    BY <2>1, <2>2 DEF Bordered
  <2>6. QED
    BY <2>1, <2>4, <2>5
<1>3. PICK t : t = Sweep(g, s, limit)
  OBVIOUS
<1>4. PICK u : u = Sweep(g, t, limit)
  OBVIOUS
<1>5. PICK v : v = Sweep(g, u, limit)
  OBVIOUS
<1> DEFINE one == Further(g, {n})
           two == Further(g, one)
           three == Further(g, two)
<1>6. Search(g, n, limit, t) /\ Bordered(g, t) /\ t.visited = one
  <2>1. Search(g, n, limit, t) /\ Bordered(g, t) /\ t.visited = Further(g, s.visited)
    BY <1>2, <1>3, SweepKeeps
  <2>2. QED
    BY <1>2, <2>1
<1>7. /\ Search(g, n, limit, u) /\ Bordered(g, u) /\ u.visited = two
      /\ Ranked(one, t) => Ranked(one, u)
  BY <1>4, <1>6, SweepKeeps
<1>8. /\ Search(g, n, limit, v) /\ v.visited = three
      /\ \A B \in SUBSET two : Ranked(B, u) => Ranked(B, v)
  BY <1>5, <1>7, SweepKeeps
<1>9. Ranked(one, t) /\ Ranked(two, u)
  BY <1>6, <1>7 DEF Ranked, Search, Elements
<1>10. one \subseteq two
  BY DEF Further
<1>11. Ranked(one, v) /\ Ranked(two, v)
  BY <1>7, <1>8, <1>9, <1>10
<1>12. Query(g, n, limit) = [nodes |-> v.nodes, edges |-> v.edges]
  BY <1>1, <1>3, <1>4, <1>5 DEF Query
<1>13. PICK answer : answer = [around |-> n, limit |-> limit, found |-> Query(g, n, limit), graph |-> g]
  OBVIOUS
<1>14. /\ answer.around = n /\ answer.limit = limit /\ answer.graph = g
       /\ answer.found.nodes = v.nodes /\ answer.found.edges = v.edges
  BY <1>12, <1>13
<1>15. RightAnswer(answer)
  <2>1. /\ v.nodes \in Seq(Nodes) /\ v.edges \in Seq(Edges(Script)) /\ three \subseteq Nodes
        /\ Elements(v.nodes) \subseteq three \ {n}
        /\ Cardinality(Elements(v.nodes)) = Len(v.nodes)
        /\ Len(v.nodes) = Least(limit, Cardinality(three \ {n}))
        /\ Len(v.edges) = Len(v.nodes)
        /\ \A i \in 1..Len(v.edges) :
             /\ v.edges[i] \in Elements(g.edges) /\ v.nodes[i] \in Elements(v.edges[i])
             /\ \E m \in Elements(v.edges[i]) : m = n \/ \E j \in 1..(i - 1) : m = v.nodes[j]
    <3> HIDE DEF three
    <3>1. QED
      BY <1>8 DEF Search
  <2>2. \A i, j \in DOMAIN v.nodes :
          i < j => (v.nodes[j] \in one => v.nodes[i] \in one) /\ (v.nodes[j] \in two => v.nodes[i] \in two)
    <3> HIDE DEF one, two
    <3>1. QED
      BY <1>11 DEF Ranked
  <2>3. QED
    BY <1>14, <2>1, <2>2 DEF RightAnswer
<1>16. QED
  BY <1>13, <1>15

LEMMA FirstElements ==
  ASSUME NEW S, NEW s \in Seq(S), NEW i \in 1..Len(s)
  PROVE  Elements(First(i - 1, s)) = {s[j] : j \in 1..(i - 1)}
<1>1. i - 1 \in Nat /\ i - 1 < Len(s) /\ Len(s) \in Nat
  OBVIOUS
<1>2. First(i - 1, s) = SubSeq(s, 1, i - 1)
  BY <1>1 DEF First, Least
<1>3. Len(SubSeq(s, 1, i - 1)) = i - 1 /\ DOMAIN SubSeq(s, 1, i - 1) = 1..(i - 1)
      /\ \A j \in 1..(i - 1) : SubSeq(s, 1, i - 1)[j] = s[j]
  BY <1>1
<1>4. QED
  BY <1>2, <1>3 DEF Elements

LEMMA AnswersRight ==
  ASSUME graphAnswer # None => RightAnswer(graphAnswer)
  PROVE  QueryRight
<1> DEFINE g == graphAnswer.graph
           n == graphAnswer.around
           nodes == graphAnswer.found.nodes
           edges == graphAnswer.found.edges
           one == Further(g, {n})
           two == Further(g, one)
           three == Further(g, two)
           within == <<one, two, three>>
           distance(m) == CHOOSE k \in 1..3 : m \in within[k] /\ \A j \in 1..(k - 1) : m \notin within[j]
<1> SUFFICES ASSUME graphAnswer # None, n \in DOMAIN g.links
             PROVE  /\ Elements(nodes) \subseteq within[3] \ {n}
                    /\ Cardinality(Elements(nodes)) = Len(nodes)
                    /\ Len(nodes) = Least(graphAnswer.limit, Cardinality(within[3] \ {n}))
                    /\ \A i, j \in DOMAIN nodes : i < j => distance(nodes[i]) <= distance(nodes[j])
                    /\ Len(edges) = Len(nodes)
                    /\ \A i \in DOMAIN edges :
                         /\ edges[i] \in Elements(g.edges) /\ nodes[i] \in Elements(edges[i])
                         /\ Elements(edges[i]) \cap ({n} \cup Elements(First(i - 1, nodes))) # {}
  BY DEF QueryRight
<1>1. /\ nodes \in Seq(Nodes) /\ edges \in Seq(Edges(Script))
      /\ Elements(nodes) \subseteq three \ {n}
      /\ Cardinality(Elements(nodes)) = Len(nodes)
      /\ Len(nodes) = Least(graphAnswer.limit, Cardinality(three \ {n}))
      /\ Len(edges) = Len(nodes)
      /\ \A i \in 1..Len(edges) :
           /\ edges[i] \in Elements(g.edges) /\ nodes[i] \in Elements(edges[i])
           /\ \E m \in Elements(edges[i]) : m = n \/ \E j \in 1..(i - 1) : m = nodes[j]
      /\ \A i, j \in DOMAIN nodes :
           i < j => (nodes[j] \in one => nodes[i] \in one) /\ (nodes[j] \in two => nodes[i] \in two)
  BY DEF RightAnswer
<1>2. within[1] = one /\ within[2] = two /\ within[3] = three
  OBVIOUS
<1>3. one \subseteq two /\ two \subseteq three
  BY DEF Further
<1> HIDE DEF within, one, two, three
<1>4. ASSUME NEW m \in three
      PROVE  distance(m) = IF m \in one THEN 1 ELSE IF m \in two THEN 2 ELSE 3
  <2> DEFINE nearest(k) == k \in 1..3 /\ m \in within[k] /\ \A j \in 1..(k - 1) : m \notin within[j]
  <2>1. \A k \in 1..3 : k = 1 \/ k = 2 \/ k = 3
    OBVIOUS
  <2>2. 1..(1 - 1) = {} /\ 1..(2 - 1) = {1} /\ 1..(3 - 1) = {1, 2}
    OBVIOUS
  <2>3. PICK d \in 1..3 : d = IF m \in one THEN 1 ELSE IF m \in two THEN 2 ELSE 3
    OBVIOUS
  <2>4. nearest(d)
    BY <1>2, <1>4, <2>2, <2>3
  <2>5. \A k \in 1..3 : nearest(k) => k = d
    BY <1>2, <1>3, <2>1, <2>2, <2>3
  <2>6. distance(m) = d
    BY <2>4, <2>5
  <2>7. QED
    BY <2>3, <2>6
<1>5. ASSUME NEW i \in DOMAIN nodes, NEW j \in DOMAIN nodes, i < j
      PROVE  distance(nodes[i]) <= distance(nodes[j])
  <2>1. nodes[i] \in three /\ nodes[j] \in three
    BY <1>1 DEF Elements
  <2>2. PICK a, b : a = nodes[i] /\ b = nodes[j]
    OBVIOUS
  <2>3. (b \in one => a \in one) /\ (b \in two => a \in two)
    BY <1>1, <1>5, <2>2
  <2>4. /\ distance(a) = (IF a \in one THEN 1 ELSE IF a \in two THEN 2 ELSE 3)
        /\ distance(b) = (IF b \in one THEN 1 ELSE IF b \in two THEN 2 ELSE 3)
    BY <1>4, <2>1, <2>2
  <2> HIDE DEF distance
  <2>5. distance(a) <= distance(b)
    BY <1>3, <2>3, <2>4
  <2>6. QED
    BY <2>2, <2>5
<1>6. ASSUME NEW i \in DOMAIN edges
      PROVE  /\ edges[i] \in Elements(g.edges) /\ nodes[i] \in Elements(edges[i])
             /\ Elements(edges[i]) \cap ({n} \cup Elements(First(i - 1, nodes))) # {}
  <2>1. i \in 1..Len(edges) /\ i \in 1..Len(nodes)
    BY <1>1
  <2>2. Elements(First(i - 1, nodes)) = {nodes[j] : j \in 1..(i - 1)}
    BY <1>1, <2>1, FirstElements
  <2>3. PICK m \in Elements(edges[i]) : m = n \/ \E j \in 1..(i - 1) : m = nodes[j]
    BY <1>1, <2>1
  <2>4. m \in {n} \cup Elements(First(i - 1, nodes))
    BY <2>2, <2>3
  <2>5. QED
    BY <1>1, <2>1, <2>3, <2>4
<1>7. QED
  BY <1>1, <1>2, <1>5, <1>6

------------------------------------------------------------------------------
(* The copies of the graph. *)

GraphInv ==
  /\ \A g \in graphFile : GraphOK(g)
  /\ served # None => GraphOK(served)
  /\ \A w \in Writers : CopyOK(w)
  /\ Up("server") => served # None
  /\ graphAnswer # None => RightAnswer(graphAnswer)
  /\ graphStarts \in [Writers -> 0..MaxStarts] /\ graphErrors \in 0..MaxGraphErrors
  /\ DOMAIN graphOf = Writers /\ DOMAIN graphTodo = Writers /\ DOMAIN graphClean = Writers

LEMMA GraphStarts == GraphInit => GraphInv
<1> SUFFICES ASSUME GraphInit PROVE GraphInv
  OBVIOUS
<1>1. \A w \in Writers : ~Up(w) /\ graphTodo[w] = <<>>
  BY DEF GraphInit, Up
<1>2. \A w \in Writers : CopyOK(w)
  BY <1>1, GivenAdditions DEF CopyOK
<1>3. graphStarts \in [Writers -> 0..MaxStarts] /\ graphErrors \in 0..MaxGraphErrors
  BY GraphAssumption DEF GraphInit
<1>4. "server" \in Writers
  BY DEF Writers
<1>5. QED
  BY <1>1, <1>2, <1>3, <1>4 DEF GraphInit, GraphInv

\* What a process may load is a graph without loose ends.
LEMMA ReadableOK ==
  ASSUME GraphInv, NEW w, NEW g \in Readable(w)
  PROVE  GraphOK(g)
BY EmptyGraph DEF Readable, GraphInv

LEMMA CreateAppKeeps == ASSUME GraphInv, CreateApp PROVE GraphInv'
<1>1. \A w : Up(w)' = Up(w)
  BY DEF CreateApp, Up
<1>2. \A w \in Writers : CopyOK(w)'
  BY <1>1 DEF CreateApp, CopyOK, GraphInv
<1>3. served' # None => GraphOK(served')
  BY ReadableOK DEF CreateApp
<1>4. Up("server")' => served' # None
  BY <1>1 DEF CreateApp, GraphInv
<1>5. QED
  BY <1>2, <1>3, <1>4 DEF CreateApp, GraphInv

LEMMA StartProcessKeeps == ASSUME GraphInv, NEW w \in Writers, StartProcess(w) PROVE GraphInv'
<1>1. PICK g \in Readable(w) :
        /\ graphOf' = [graphOf EXCEPT ![w] = g]
        /\ graphTodo' = [graphTodo EXCEPT ![w] = IF w = "script" THEN Script
                                                 ELSE IF g = Empty THEN Default ELSE <<>>]
        /\ graphClean' = [graphClean EXCEPT ![w] = Whole(g)]
  BY DEF StartProcess
<1>2. GraphOK(g)
  BY ReadableOK
<1>3. /\ graphOf'[w] = g /\ graphClean'[w] = Whole(g)
      /\ graphTodo'[w] = IF w = "script" THEN Script ELSE IF g = Empty THEN Default ELSE <<>>
      /\ DOMAIN graphOf' = Writers /\ DOMAIN graphTodo' = Writers /\ DOMAIN graphClean' = Writers
      /\ \A v \in Writers \ {w} : graphOf'[v] = graphOf[v] /\ graphTodo'[v] = graphTodo[v]
                                  /\ graphClean'[v] = graphClean[v]
  BY <1>1 DEF GraphInv
<1>4. CopyOK(w)'
  <2>1. Additions(graphTodo'[w])
    BY <1>3, GivenAdditions
  <2>2. Whole(g) => MadeWhole(g, graphTodo'[w])
    BY <1>2, <1>3, WholeIsMade
  <2>3. QED
    BY <1>2, <1>3, <2>1, <2>2 DEF CopyOK
<1>5. \A v \in Writers \ {w} : CopyOK(v)'
  BY <1>3 DEF GraphInv, CopyOK, Up
<1>6. Up("server")' => served' # None
  BY <1>3 DEF StartProcess, GraphInv, Up, Writers
<1>7. graphStarts' \in [Writers -> 0..MaxStarts]
  <2>1. /\ graphStarts \in [Writers -> 0..MaxStarts]
        /\ graphStarts["server"] + graphStarts["script"] < MaxStarts /\ w \in {"server", "script"}
        /\ graphStarts' = [graphStarts EXCEPT ![w] = @ + 1] /\ MaxStarts \in Nat
    BY GraphAssumption DEF StartProcess, CanStart, GraphInv, Writers
  <2>2. graphStarts[w] + 1 \in 0..MaxStarts
    <3>1. graphStarts["server"] \in 0..MaxStarts /\ graphStarts["script"] \in 0..MaxStarts
      BY <2>1 DEF Writers
    <3>2. QED
      BY <2>1, <3>1
  <2>3. QED
    BY <2>1, <2>2
<1>8. QED
  BY <1>3, <1>4, <1>5, <1>6, <1>7 DEF StartProcess, GraphInv

LEMMA AddAndSaveKeeps == ASSUME GraphInv, NEW w \in Writers, AddAndSave(w) PROVE GraphInv'
<1> DEFINE g == graphOf[w]
           ops == graphTodo[w]
           grown == Grown(g, Head(ops))
           rest == IF IsNode(Head(ops)) \/ Missing(g, Head(ops)) = {} THEN Tail(ops) ELSE ops
<1>1. /\ ops # <<>> /\ Up(w) /\ GraphOK(g) /\ Additions(ops)
      /\ graphClean[w] => MadeWhole(g, ops)
  BY DEF AddAndSave, GraphInv, CopyOK, Up
<1>2. GraphOK(grown) /\ Additions(rest) /\ (MadeWhole(g, ops) => MadeWhole(grown, rest))
  BY <1>1, GrowsWhole
<1>3. CASE /\ graphFile' = {grown} /\ graphOf' = [graphOf EXCEPT ![w] = grown]
           /\ graphTodo' = [graphTodo EXCEPT ![w] = rest]
           /\ UNCHANGED <<graphClean, graphErrors>>
  <2>1. /\ graphOf'[w] = grown /\ graphTodo'[w] = rest /\ graphClean'[w] = graphClean[w]
        /\ DOMAIN graphOf' = Writers /\ DOMAIN graphTodo' = Writers /\ DOMAIN graphClean' = Writers
        /\ \A v \in Writers \ {w} : graphOf'[v] = graphOf[v] /\ graphTodo'[v] = graphTodo[v]
                                    /\ graphClean'[v] = graphClean[v]
    BY <1>3 DEF GraphInv
  <2> HIDE DEF grown, rest
  <2>2. CopyOK(w)'
    BY <1>1, <1>2, <2>1 DEF CopyOK
  <2>3. \A v \in Writers \ {w} : CopyOK(v)'
    BY <2>1 DEF GraphInv, CopyOK, Up
  <2>4. Up("server")' => Up("server")
    BY <1>1, <2>1 DEF Up, Writers
  <2>5. QED
    BY <1>2, <1>3, <2>1, <2>2, <2>3, <2>4 DEF AddAndSave, GraphInv
<1>4. CASE /\ GraphError /\ graphFile' \in {graphFile, {}}
           /\ graphOf' = [graphOf EXCEPT ![w] = IF w = "server" THEN grown ELSE None]
           /\ graphTodo' = [graphTodo EXCEPT ![w] = <<>>]
           /\ graphClean' = [graphClean EXCEPT ![w] = FALSE]
  <2>1. /\ graphOf'[w] = (IF w = "server" THEN grown ELSE None) /\ graphTodo'[w] = <<>> /\ graphClean'[w] = FALSE
        /\ DOMAIN graphOf' = Writers /\ DOMAIN graphTodo' = Writers /\ DOMAIN graphClean' = Writers
        /\ \A v \in Writers \ {w} : graphOf'[v] = graphOf[v] /\ graphTodo'[v] = graphTodo[v]
                                    /\ graphClean'[v] = graphClean[v]
    BY <1>4 DEF GraphInv
  <2> HIDE DEF grown, rest
  <2>2. CopyOK(w)'
    BY <1>2, <2>1, GivenAdditions DEF CopyOK, Up
  <2>3. \A v \in Writers \ {w} : CopyOK(v)'
    BY <2>1 DEF GraphInv, CopyOK, Up
  <2>4. Up("server")' => Up("server")
    BY <1>1, <2>1 DEF Up, Writers
  <2>5. graphErrors' \in 0..MaxGraphErrors
    BY <1>4, GraphAssumption DEF GraphError, GraphInv
  <2>6. QED
    BY <1>4, <2>1, <2>2, <2>3, <2>4, <2>5 DEF AddAndSave, GraphInv
<1>5. QED
  BY <1>3, <1>4 DEF AddAndSave

LEMMA EndProcessKeeps == ASSUME GraphInv, NEW w \in Writers, EndProcess(w) PROVE GraphInv'
<1>1. /\ graphOf'[w] = None /\ graphTodo'[w] = <<>>
      /\ DOMAIN graphOf' = Writers /\ DOMAIN graphTodo' = Writers /\ DOMAIN graphClean' = Writers
      /\ \A v \in Writers \ {w} : graphOf'[v] = graphOf[v] /\ graphTodo'[v] = graphTodo[v]
                                  /\ graphClean'[v] = graphClean[v]
  BY DEF EndProcess, GraphInv
<1>2. \A v \in Writers : CopyOK(v)'
  <2>1. CopyOK(w)'
    BY <1>1, GivenAdditions DEF CopyOK, Up
  <2>2. QED
    BY <1>1, <2>1 DEF GraphInv, CopyOK, Up
<1>3. Up("server")' => served' # None
  BY <1>1 DEF EndProcess, GraphInv, Up, Writers
<1>4. served' # None => GraphOK(served')
  BY DEF EndProcess, GraphInv
<1>5. graphErrors' \in 0..MaxGraphErrors /\ \A h \in graphFile' : h \in graphFile
  BY GraphAssumption DEF EndProcess, GraphError, GraphInv
<1>6. QED
  BY <1>1, <1>2, <1>3, <1>4, <1>5 DEF EndProcess, GraphInv

LEMMA GraphStepKeeps == GraphInv /\ [GraphNext]_graphVars => GraphInv'
<1> SUFFICES ASSUME GraphInv, [GraphNext]_graphVars PROVE GraphInv'
  OBVIOUS
<1>1. ASSUME NEW n \in Nodes, NEW limit \in {2, Cardinality(Nodes)}, graph_query(n, limit) PROVE GraphInv'
  <2>1. limit \in Nat
    BY CountsOfNodes
  <2>2. GraphOK(served)
    BY <1>1 DEF graph_query, GraphInv, Up
  <2>3. RightAnswer(graphAnswer')
    BY <1>1, <2>1, <2>2, QueryAnswers DEF graph_query
  <2>4. QED
    BY <1>1, <2>3 DEF graph_query, GraphInv, CopyOK, Up
<1>2. CASE UNCHANGED graphVars
  BY <1>2 DEF graphVars, GraphInv, CopyOK, Up
<1>3. QED
  BY <1>1, <1>2, CreateAppKeeps, StartProcessKeeps, AddAndSaveKeeps, EndProcessKeeps DEF GraphNext

LEMMA GraphInvGives == GraphInv => GraphTypeOK /\ GraphSound
<1> SUFFICES ASSUME GraphInv PROVE GraphTypeOK /\ GraphSound
  OBVIOUS
<1>1. \A w \in Writers : graphOf[w] # None => Up(w) /\ GraphOK(graphOf[w])
  BY DEF GraphInv, CopyOK, Up
<1>2. GraphTypeOK
  BY <1>1 DEF GraphInv, GraphTypeOK, GraphOK
<1>3. EdgesLeadToNodes
  BY <1>1 DEF GraphInv, EdgesLeadToNodes, GraphOK
<1>4. SeedingEndsWhole
  BY <1>1, WholeIsMade DEF GraphInv, CopyOK, SeedingEndsWhole
<1>5. QueryRight
  BY AnswersRight DEF GraphInv
<1>6. QED
  BY <1>2, <1>3, <1>4, <1>5 DEF GraphSound

LEMMA GraphInvariance == GraphSpec => []GraphInv
BY GraphStarts, GraphStepKeeps, PTL DEF GraphSpec

\* However the server and the script overlap, and whatever write fails: no edge of the file
\* or of a copy leads to a node that is not there; who starts from a whole graph and adds all
\* it has ends with a whole one (add_node, add_edge and _save in engine.py); and a query
\* lists what is within three edges, once, nearer nodes first, each with the edge it was
\* found by.
THEOREM GraphStaysSound == GraphSpec => []GraphSound
BY GraphInvariance, GraphInvGives, PTL

\* The types of the graph's state.
THEOREM GraphTypeCorrect == GraphSpec => []GraphTypeOK
BY GraphInvariance, GraphInvGives, PTL

------------------------------------------------------------------------------
(* The log of conversations. *)

\* Where a request may be whose answer is in the log.
AfterRecord == {"cite", "answered", "left"}

\* The request of a slot.
AskRight(ask) ==
  /\ {"no", "pc", "kind", "words", "seen"} \subseteq DOMAIN ask
  /\ ask.no \in 1..asked /\ ask.words \in Nat
  /\ ask.kind \in {"search", "chat"} => "tokens" \in DOMAIN ask
  /\ ask.kind \in {"search", "chat"} \/ ask.pc \in {"recall", "generate", "answered"}
  /\ ask.pc = "record" => ask.words > 0

AsRecorded(ask) ==
  \A i \in DOMAIN log : log[i].no = ask.no => log[i].words = ask.words /\ ask.pc \in AfterRecord

TurnInv ==
  /\ asked \in Nat /\ DOMAIN asks = Slots
  /\ log \in Seq([no : 1..asked, words : Nat \ {0}])
  /\ \A i, j \in DOMAIN log : log[i].no = log[j].no => i = j
  /\ \A q \in Slots : asks[q] # None => AskRight(asks[q]) /\ AsRecorded(asks[q])
  /\ \A p, q \in Slots : asks[p] # None /\ asks[q] # None /\ asks[p].no = asks[q].no => p = q

LEMMA LogRows ==
  ASSUME TurnInv
  PROVE  /\ Len(log) \in Nat /\ DOMAIN log = 1..Len(log)
         /\ \A i \in DOMAIN log : log[i].no \in 1..asked /\ log[i].words \in Nat \ {0}
<1>1. log \in Seq([no : 1..asked, words : Nat \ {0}])
  BY DEF TurnInv
<1>2. \A i \in 1..Len(log) : log[i] \in [no : 1..asked, words : Nat \ {0}]
  BY <1>1, ElementOfSeq
<1>3. QED
  BY <1>1, <1>2, LenProperties

LEMMA TurnStarts == ChatInit => TurnInv
<1> SUFFICES ASSUME ChatInit PROVE TurnInv
  OBVIOUS
<1>1. log = <<>> /\ asked = 0 /\ asks = [q \in Slots |-> None]
  BY DEF ChatInit
<1>2. log \in Seq([no : 1..asked, words : Nat \ {0}]) /\ DOMAIN log = {}
  BY <1>1, EmptySeq
<1>3. QED
  BY <1>1, <1>2 DEF TurnInv

\* The corpus changes beside the requests, which only notice what there is to see.
LEMMA CorpusStepKeepsTurns == TurnInv /\ CorpusStep => TurnInv'
<1> SUFFICES ASSUME TurnInv, UNCHANGED <<log, asked>>,
                    NEW sees, asks' = [q \in Slots |-> IF asks[q] = None THEN None
                                                      ELSE [asks[q] EXCEPT !.seen = @ \cup sees]]
             PROVE  TurnInv'
  BY DEF CorpusStep
<1>1. ASSUME NEW q \in Slots, asks'[q] # None
      PROVE  /\ asks[q] # None /\ DOMAIN asks'[q] = DOMAIN asks[q]
             /\ asks'[q].no = asks[q].no /\ asks'[q].pc = asks[q].pc /\ asks'[q].kind = asks[q].kind
             /\ asks'[q].words = asks[q].words
  BY <1>1 DEF TurnInv, AskRight
<1>2. ASSUME NEW q \in Slots, asks'[q] # None PROVE (AskRight(asks[q]) /\ AsRecorded(asks[q]))'
  <2>1. AskRight(asks[q]) /\ AsRecorded(asks[q])
    BY <1>1, <1>2 DEF TurnInv
  <2>2. QED
    BY <1>1, <1>2, <2>1 DEF AskRight, AsRecorded
<1>3. QED
  BY <1>1, <1>2 DEF TurnInv

LEMMA ClearKeepsTurns == TurnInv /\ memory_clear => TurnInv'
<1> SUFFICES ASSUME TurnInv, log' = <<>>, UNCHANGED <<asks, asked>> PROVE TurnInv'
  BY DEF memory_clear
<1>1. log' \in Seq([no : 1..asked, words : Nat \ {0}]) /\ DOMAIN log' = {}
  BY EmptySeq
<1>2. QED
  BY <1>1 DEF TurnInv, AskRight, AsRecorded

\* A new request has a number that no row has.
LEMMA BeginKeepsTurns ==
  ASSUME TurnInv, NEW q \in Slots, NEW r, Begin(q, r),
         {"no", "pc", "kind", "words", "seen"} \subseteq DOMAIN r, r.words = 0, r.pc \in {"embed", "recall"},
         r.kind \in {"search", "chat"} => "tokens" \in DOMAIN r,
         r.kind \in {"search", "chat"} \/ r.pc = "recall"
  PROVE  TurnInv'
<1> DEFINE ask == [r EXCEPT !.no = asked', !.seen = Active]
<1>1. asked \in Nat /\ asked' = asked + 1 /\ log' = log /\ asks' = [asks EXCEPT ![q] = ask]
  BY DEF Begin, TurnInv
<1>2. /\ DOMAIN ask = DOMAIN r /\ ask.no = asked + 1 /\ ask.pc = r.pc /\ ask.kind = r.kind /\ ask.words = 0
  BY <1>1
<1> HIDE DEF ask
<1>3. DOMAIN asks' = Slots /\ asks'[q] = ask /\ \A p \in Slots : p # q => asks'[p] = asks[p]
  BY <1>1 DEF TurnInv
<1>4. \A i \in DOMAIN log : log[i].no \in 1..asked /\ log[i].no # asked + 1
  BY <1>1, LogRows
<1>5. log \in Seq([no : 1..(asked + 1), words : Nat \ {0}])
  <2> DEFINE before == [no : 1..asked, words : Nat \ {0}]
             after == [no : 1..(asked + 1), words : Nat \ {0}]
  <2>1. before \subseteq after /\ log \in Seq(before)
    BY <1>1 DEF TurnInv
  <2> HIDE DEF before, after
  <2>2. log \in Seq(after)
    BY <2>1, SeqMonotonic
  <2>3. QED
    BY <2>2 DEF after
<1>6. (AskRight(asks[q]) /\ AsRecorded(asks[q]))'
  BY <1>1, <1>2, <1>3, <1>4 DEF AskRight, AsRecorded
<1>7. ASSUME NEW p \in Slots, p # q, asks[p] # None
      PROVE  (AskRight(asks[p]) /\ AsRecorded(asks[p]))' /\ asks[p].no # asked + 1
  BY <1>1, <1>3, <1>7 DEF TurnInv, AskRight, AsRecorded
<1>8. \A p \in Slots : asks'[p] # None => (AskRight(asks[p]) /\ AsRecorded(asks[p]))'
  BY <1>3, <1>6, <1>7
<1>9. \A p, o \in Slots : asks'[p] # None /\ asks'[o] # None /\ asks'[p].no = asks'[o].no => p = o
  BY <1>2, <1>3, <1>7 DEF TurnInv
<1>10. QED
  BY <1>1, <1>3, <1>5, <1>8, <1>9 DEF TurnInv

\* A request goes on, with the same number; if it is in the log, with the same words.
LEMMA GoesKeepsTurns ==
  ASSUME TurnInv, NEW q \in Slots, asks[q] # None, NEW r, Goes(q, r), log' = log,
         AskRight(r), AsRecorded(r), r.no = asks[q].no
  PROVE  TurnInv'
<1>1. asks' = [asks EXCEPT ![q] = r] /\ asked' = asked
  BY DEF Goes
<1>2. DOMAIN asks' = Slots /\ asks'[q] = r /\ \A p \in Slots : p # q => asks'[p] = asks[p]
  BY <1>1 DEF TurnInv
<1>3. \A p \in Slots : asks'[p] # None => AskRight(asks'[p]) /\ AsRecorded(asks'[p])
  BY <1>2 DEF TurnInv
<1>4. \A p \in Slots : asks'[p] # None => (AskRight(asks[p]) /\ AsRecorded(asks[p]))'
  BY <1>1, <1>3 DEF AskRight, AsRecorded
<1>5. \A p, o \in Slots : asks'[p] # None /\ asks'[o] # None /\ asks'[p].no = asks'[o].no => p = o
  BY <1>2 DEF TurnInv
<1>6. QED
  BY <1>1, <1>2, <1>4, <1>5 DEF TurnInv

\* ... and adds its row to the log.
LEMMA RecordKeepsTurns ==
  ASSUME TurnInv, NEW q \in Slots, asks[q] # None, asks[q].pc \notin AfterRecord, NEW r, Goes(q, r),
         log' = Append(log, Row(r)), AskRight(r), r.words > 0, r.pc \in AfterRecord, r.no = asks[q].no
  PROVE  TurnInv'
<1>1. asks' = [asks EXCEPT ![q] = r] /\ asked' = asked
  BY DEF Goes
<1>2. DOMAIN asks' = Slots /\ asks'[q] = r /\ \A p \in Slots : p # q => asks'[p] = asks[p]
  BY <1>1 DEF TurnInv
<1>3. Row(r).no = r.no /\ Row(r).words = r.words /\ Row(r) \in [no : 1..asked, words : Nat \ {0}]
  BY DEF Row, AskRight
<1>4. /\ log' \in Seq([no : 1..asked, words : Nat \ {0}]) /\ Len(log) \in Nat /\ DOMAIN log = 1..Len(log)
      /\ DOMAIN log' = 1..(Len(log) + 1) /\ log'[Len(log) + 1] = Row(r)
      /\ \A i \in DOMAIN log : log'[i] = log[i]
  <2>1. log \in Seq([no : 1..asked, words : Nat \ {0}])
    BY DEF TurnInv
  <2>2. QED
    BY <1>3, <2>1, AppendProperties, LenProperties
<1>5. \A i \in DOMAIN log : log[i].no # r.no
  BY DEF TurnInv, AsRecorded
<1>6. \A i, j \in DOMAIN log' : log'[i].no = log'[j].no => i = j
  BY <1>3, <1>4, <1>5 DEF TurnInv
<1>7. ASSUME NEW p \in Slots, asks'[p] # None PROVE (AskRight(asks[p]) /\ AsRecorded(asks[p]))'
  <2>1. CASE p = q
    BY <1>1, <1>2, <1>3, <1>4, <1>5, <2>1 DEF AskRight, AsRecorded
  <2>2. CASE p # q
    <3>1. AskRight(asks[p]) /\ AsRecorded(asks[p]) /\ asks[p].no # r.no /\ asks'[p] = asks[p]
      BY <1>2, <1>7, <2>2 DEF TurnInv
    <3>2. QED
      BY <1>1, <1>3, <1>4, <3>1 DEF AskRight, AsRecorded
  <2>3. QED
    BY <2>1, <2>2
<1>8. \A p, o \in Slots : asks'[p] # None /\ asks'[o] # None /\ asks'[p].no = asks'[o].no => p = o
  BY <1>2 DEF TurnInv
<1>9. QED
  BY <1>1, <1>2, <1>4, <1>6, <1>7, <1>8 DEF TurnInv

\* What retrieval makes of a request leaves its number, its kind and its words alone.
LEMMA RetrievedFields ==
  ASSUME NEW r, AskRight(r), r.kind \in {"search", "chat"}, r.pc \notin AfterRecord, AsRecorded(r)
  PROVE  LET next == Retrieved(r) IN AskRight(next) /\ AsRecorded(next) /\ next.no = r.no
<1>1. {"no", "pc", "kind", "words", "seen"} \subseteq DOMAIN r
  BY DEF AskRight
<1>2. \A i \in DOMAIN log : log[i].no # r.no
  BY DEF AsRecorded
<1>3. ASSUME NEW next, next = Retrieved(r)
      PROVE  /\ DOMAIN next = DOMAIN r /\ next.no = r.no /\ next.kind = r.kind /\ next.words = r.words
             /\ next.pc \in {"answered", "stream", "recall"}
  BY <1>1, <1>3 DEF Retrieved
<1>4. QED
  BY <1>2, <1>3 DEF AskRight, AsRecorded

LEMMA AskStepKeepsTurns ==
  ASSUME TurnInv, NEW q \in Slots, AskStep(q) \/ Leaves(q)
  PROVE  TurnInv'
<1> DEFINE r == asks[q]
<1>1. r # None /\ AskRight(r) /\ AsRecorded(r)
  BY DEF TurnInv, AskStep, Leaves, Searched, Reranked, Recalled, Token, StreamEnds, Recorded, Done,
         RecalledForLesson, Answered, At, Open
<1>2. {"no", "pc", "kind", "words", "seen"} \subseteq DOMAIN r /\ r.words \in Nat
  BY <1>1 DEF AskRight
<1>3. r.pc \notin AfterRecord => \A i \in DOMAIN log : log[i].no # r.no
  BY <1>1 DEF AsRecorded
<1> HIDE DEF r
<1>4. ASSUME NEW pc, Goes(q, [r EXCEPT !.pc = pc]), log' = log, pc # "record",
             r.kind \in {"search", "chat"} \/ pc \in {"recall", "generate", "answered"},
             r.pc \in AfterRecord => pc \in AfterRecord
      PROVE  TurnInv'
  <2> DEFINE next == [r EXCEPT !.pc = pc]
  <2>1. /\ DOMAIN next = DOMAIN r /\ next.no = r.no /\ next.kind = r.kind /\ next.words = r.words /\ next.pc = pc
    BY <1>2
  <2> HIDE DEF next
  <2>2. AskRight(next) /\ AsRecorded(next)
    BY <1>1, <1>4, <2>1 DEF AskRight, AsRecorded
  <2>3. QED
    BY <1>1, <1>4, <2>1, <2>2, GoesKeepsTurns DEF next, r
<1>5. ASSUME r.pc \in {"embed", "rerank", "recall", "stream", "record", "generate"}
      PROVE  r.pc \notin AfterRecord
  BY <1>5 DEF AfterRecord
<1>6. CASE Searched(q)
  <2>1. r.pc = "embed" /\ r.kind \in {"search", "chat"}
    BY <1>1, <1>6 DEF Searched, At, r, AskRight
  <2>2. CASE Fails(q) /\ log' = log
    BY <1>4, <1>5, <2>1, <2>2 DEF Fails, r
  <2>3. ASSUME NEW dense, NEW lexical, NEW best,
               Goes(q, IF best = <<>>
                       THEN Retrieved([r EXCEPT !.dense = dense, !.lexical = lexical, !.candidates = best])
                       ELSE [[r EXCEPT !.dense = dense, !.lexical = lexical, !.candidates = best] EXCEPT !.pc = "rerank"]),
               log' = log
        PROVE  TurnInv'
    <3> DEFINE next == [r EXCEPT !.dense = dense, !.lexical = lexical, !.candidates = best]
    <3>1. /\ DOMAIN next = DOMAIN r /\ next.no = r.no /\ next.kind = r.kind /\ next.words = r.words
          /\ next.pc = r.pc
      BY <1>2
    <3> DEFINE reranked == [next EXCEPT !.pc = "rerank"]
    <3>2. /\ DOMAIN reranked = DOMAIN r /\ reranked.no = r.no /\ reranked.kind = r.kind
          /\ reranked.words = r.words /\ reranked.pc = "rerank"
      BY <1>2, <3>1
    <3>3. Goes(q, IF best = <<>> THEN Retrieved(next) ELSE reranked)
      BY <2>3
    <3> HIDE DEF next, reranked
    <3>4. AskRight(next) /\ AsRecorded(next) /\ next.pc \notin AfterRecord
      BY <1>1, <1>3, <1>5, <2>1, <3>1 DEF AskRight, AsRecorded
    <3>5. AskRight(reranked) /\ AsRecorded(reranked)
      BY <1>1, <1>3, <1>5, <2>1, <3>2 DEF AskRight, AsRecorded
    <3>6. AskRight(Retrieved(next)) /\ AsRecorded(Retrieved(next)) /\ Retrieved(next).no = next.no
      BY <2>1, <3>1, <3>4, RetrievedFields
    <3>7. CASE best = <<>>
      BY <1>1, <2>3, <3>1, <3>3, <3>6, <3>7, GoesKeepsTurns DEF r
    <3>8. CASE best # <<>>
      BY <1>1, <2>3, <3>2, <3>3, <3>5, <3>8, GoesKeepsTurns DEF r
    <3>9. QED
      BY <3>7, <3>8
  <2>4. QED
    BY <1>6, <2>2, <2>3, Zenon DEF Searched, Fails, r
<1>7. CASE Reranked(q)
  <2>1. r.pc = "rerank" /\ r.kind \in {"search", "chat"}
    BY <1>1, <1>7 DEF Reranked, At, r, AskRight
  <2>2. CASE Fails(q) /\ log' = log
    BY <1>4, <1>5, <2>1, <2>2 DEF Fails, r
  <2>3. ASSUME NEW found, Goes(q, Retrieved([r EXCEPT !.results = found])), log' = log
        PROVE  TurnInv'
    <3> DEFINE next == [r EXCEPT !.results = found]
    <3>1. /\ DOMAIN next = DOMAIN r /\ next.no = r.no /\ next.kind = r.kind /\ next.words = r.words
          /\ next.pc = r.pc
      BY <1>2
    <3>2. Goes(q, Retrieved(next))
      BY <2>3
    <3> HIDE DEF next
    <3>3. AskRight(next) /\ AsRecorded(next) /\ next.pc \notin AfterRecord
      BY <1>1, <1>3, <1>5, <2>1, <3>1 DEF AskRight, AsRecorded
    <3>4. AskRight(Retrieved(next)) /\ AsRecorded(Retrieved(next)) /\ Retrieved(next).no = next.no
      BY <2>1, <3>1, <3>3, RetrievedFields
    <3>5. QED
      BY <1>1, <2>3, <3>1, <3>2, <3>4, GoesKeepsTurns DEF r
  <2>4. QED
    BY <1>7, <2>2, <2>3, Zenon DEF Reranked, Fails, r
<1>8. CASE Recalled(q)
  <2> DEFINE next == [r EXCEPT !.pc = "stream", !.prompt = apply_context_budget(r.results)]
  <2>1. r.pc = "recall" /\ r.kind = "chat" /\ Goes(q, next) /\ log' = log
    BY <1>8 DEF Recalled, At, r
  <2>2. /\ DOMAIN next = DOMAIN r /\ next.no = r.no /\ next.kind = r.kind /\ next.words = r.words
        /\ next.pc = "stream"
    BY <1>2
  <2> HIDE DEF next
  <2>3. AskRight(next) /\ AsRecorded(next)
    BY <1>1, <1>3, <1>5, <2>1, <2>2 DEF AskRight, AsRecorded
  <2>4. QED
    BY <1>1, <2>1, <2>2, <2>3, GoesKeepsTurns DEF r
<1>9. CASE Token(q)
  <2>1. r.pc = "stream" /\ r.kind \in {"search", "chat"}
    BY <1>1, <1>9 DEF Token, At, r, AskRight
  <2>2. PICK n \in {0, 1} : Goes(q, [r EXCEPT !.tokens = @ + 1, !.words = @ + n]) /\ log' = log
    BY <1>9 DEF Token, r
  <2> DEFINE next == [r EXCEPT !.tokens = @ + 1, !.words = @ + n]
  <2>3. /\ DOMAIN next = DOMAIN r /\ next.no = r.no /\ next.kind = r.kind /\ next.words = r.words + n
        /\ next.pc = "stream"
    BY <1>2, <2>1
  <2>4. Goes(q, next)
    BY <2>2
  <2> HIDE DEF next
  <2>5. AskRight(next) /\ AsRecorded(next)
    BY <1>1, <1>2, <1>3, <1>5, <2>1, <2>3 DEF AskRight, AsRecorded
  <2>6. QED
    BY <1>1, <2>2, <2>3, <2>4, <2>5, GoesKeepsTurns DEF r
<1>10. CASE StreamEnds(q)
  <2> DEFINE pc == IF Worded(r) THEN "record" ELSE "cite"
             next == [r EXCEPT !.pc = pc]
  <2>1. r.pc = "stream" /\ r.kind \in {"search", "chat"} /\ Goes(q, next) /\ log' = log
    BY <1>1, <1>10 DEF StreamEnds, At, r, AskRight
  <2>2. /\ DOMAIN next = DOMAIN r /\ next.no = r.no /\ next.kind = r.kind /\ next.words = r.words
        /\ next.pc = pc
    BY <1>2
  <2> HIDE DEF next
  <2>3. AskRight(next) /\ AsRecorded(next)
    BY <1>1, <1>3, <1>5, <2>1, <2>2 DEF AskRight, AsRecorded, Worded
  <2>4. QED
    BY <1>1, <2>1, <2>2, <2>3, GoesKeepsTurns DEF r
<1>11. CASE Recorded(q)
  <2> DEFINE next == [r EXCEPT !.pc = "cite"]
  <2>1. r.pc = "record" /\ r.kind \in {"search", "chat"} /\ r.words > 0 /\ Goes(q, next)
        /\ log' \in {log, Append(log, Row(r))}
    BY <1>1, <1>11 DEF Recorded, At, r, AskRight
  <2>2. /\ DOMAIN next = DOMAIN r /\ next.no = r.no /\ next.kind = r.kind /\ next.words = r.words
        /\ next.pc = "cite" /\ Row(next) = Row(r)
    BY <1>2 DEF Row
  <2> HIDE DEF next
  <2>3. AskRight(next) /\ AsRecorded(next)
    BY <1>1, <1>3, <1>5, <2>1, <2>2 DEF AskRight, AsRecorded
  <2>4. CASE log' = log
    BY <1>1, <2>1, <2>2, <2>3, <2>4, GoesKeepsTurns DEF r
  <2>5. CASE log' = Append(log, Row(next))
    <3>1. next.pc \in AfterRecord
      BY <2>2 DEF AfterRecord
    <3>2. QED
      BY <1>1, <1>5, <2>1, <2>2, <2>3, <2>5, <3>1, RecordKeepsTurns DEF r
  <2>6. QED
    BY <2>1, <2>2, <2>4, <2>5
<1>12. CASE Done(q)
  <2> DEFINE next == [r EXCEPT !.pc = "answered", !.cited = Cited(r)]
  <2>1. r.pc = "cite" /\ Goes(q, next) /\ log' = log
    BY <1>12 DEF Done, At, r
  <2>2. /\ DOMAIN next = DOMAIN r /\ next.no = r.no /\ next.kind = r.kind /\ next.words = r.words
        /\ next.pc = "answered"
    BY <1>2
  <2> HIDE DEF next
  <2>3. AskRight(next) /\ AsRecorded(next)
    BY <1>1, <2>1, <2>2 DEF AskRight, AsRecorded, AfterRecord
  <2>4. QED
    BY <1>1, <2>1, <2>2, <2>3, GoesKeepsTurns DEF r
<1>13. CASE RecalledForLesson(q)
  BY <1>4, <1>5, <1>13 DEF RecalledForLesson, At, r
<1>14. CASE Answered(q)
  <2> DEFINE next == [r EXCEPT !.pc = "answered", !.words = 1]
  <2>1. r.pc = "generate" /\ Goes(q, next) /\ log' \in {log, Append(log, Row([r EXCEPT !.words = 1]))}
    BY <1>14 DEF Answered, At, r
  <2>2. /\ DOMAIN next = DOMAIN r /\ next.no = r.no /\ next.kind = r.kind /\ next.words = 1
        /\ next.pc = "answered" /\ Row(next) = Row([r EXCEPT !.words = 1])
    BY <1>2 DEF Row
  <2> HIDE DEF next
  <2>3. AskRight(next) /\ AsRecorded(next)
    BY <1>1, <1>3, <1>5, <2>1, <2>2 DEF AskRight, AsRecorded
  <2>4. CASE log' = log
    BY <1>1, <2>1, <2>2, <2>3, <2>4, GoesKeepsTurns DEF r
  <2>5. CASE log' = Append(log, Row(next))
    <3>1. next.pc \in AfterRecord
      BY <2>2 DEF AfterRecord
    <3>2. QED
      BY <1>1, <1>5, <2>1, <2>2, <2>3, <2>5, <3>1, RecordKeepsTurns DEF r
  <2>6. QED
    BY <2>1, <2>2, <2>4, <2>5
<1>15. CASE Leaves(q)
  <2>1. "left" \in AfterRecord
    BY DEF AfterRecord
  <2>2. QED
    BY <1>4, <1>15, <2>1 DEF Leaves, r
<1>16. QED
  BY <1>6, <1>7, <1>8, <1>9, <1>10, <1>11, <1>12, <1>13, <1>14, <1>15 DEF AskStep

LEMMA AsksKeepTurns ==
  ASSUME TurnInv, NEW q \in Slots,
         \/ \E t \in Tenants \cup {None}, n \in 1..MaxTop :
              search(q, t, n) \/ \E private \in BOOLEAN : chat_sse(q, t, n, private)
         \/ study_ask(q) \/ \E d \in Elements(Docs) : chat_with_dataset(q, d)
  PROVE  TurnInv'
<1>1. ASSUME NEW kind \in {"search", "chat"}, NEW t, NEW n, NEW private, Begin(q, Question(kind, t, n, private))
      PROVE  TurnInv'
  <2> DEFINE r == Question(kind, t, n, private)
  <2>1. /\ {"no", "pc", "kind", "words", "seen", "tokens"} \subseteq DOMAIN r
        /\ r.words = 0 /\ r.pc = "embed" /\ r.kind = kind
    BY DEF Question
  <2> HIDE DEF r
  <2>2. QED
    BY <1>1, <2>1, BeginKeepsTurns DEF r
<1>2. ASSUME NEW kind \in {"dataset", "study"}, NEW d, NEW content, Begin(q, Lesson(kind, d, content))
      PROVE  TurnInv'
  <2> DEFINE r == Lesson(kind, d, content)
  <2>1. /\ {"no", "pc", "kind", "words", "seen"} \subseteq DOMAIN r
        /\ r.words = 0 /\ r.pc = "recall" /\ r.kind = kind
    BY DEF Lesson
  <2> HIDE DEF r
  <2>2. QED
    BY <1>2, <2>1, BeginKeepsTurns DEF r
<1>3. QED
  BY <1>1, <1>2 DEF search, chat_sse, study_ask, chat_with_dataset

LEMMA TurnStepKeeps == TurnInv /\ [ChatNext]_allVars => TurnInv'
<1>1. ASSUME TurnInv, UNCHANGED allVars PROVE TurnInv'
  BY <1>1 DEF TurnInv, allVars, chatVars, AskRight, AsRecorded
<1>2. QED
  BY <1>1, CorpusStepKeepsTurns, ClearKeepsTurns, AskStepKeepsTurns, AsksKeepTurns DEF ChatNext

LEMMA TurnInvGives == TurnInv => TurnRecorded
<1> SUFFICES ASSUME TurnInv PROVE TurnRecorded
  OBVIOUS
<1>1. \A i \in DOMAIN log : log[i].words > 0
  BY LogRows
<1>2. QED
  BY <1>1 DEF TurnInv, TurnRecorded, AsRecorded, AfterRecord

\* However many requests are answered side by side, whatever fails, whoever goes away and
\* whenever the log is cleared: a turn is in the log at most once, with the words that were
\* streamed, and never before its answer has ended (record_conversation, routes.py).
THEOREM TurnsAreRecorded == ChatSpec => []TurnRecorded
<1>1. ChatSpec => []TurnInv
  BY TurnStarts, TurnStepKeeps, PTL DEF ChatSpec
<1>2. QED
  BY <1>1, TurnInvGives, PTL

------------------------------------------------------------------------------
(* The parts in the whole. *)

assistantVars == <<part, allVars, gateVars, graphVars, lensVars, jobsVars>>

LEMMA ChatInWhole == Assistant => ChatSpec
<1>1. AssistantInit => ChatInit
  BY DEF AssistantInit
<1>2. [AssistantNext]_assistantVars => [ChatNext]_allVars
  BY DEF AssistantNext, ChatRuns, GateRuns, GraphRuns, LensRuns, JobsRun, assistantVars
<1> QED
  BY <1>1, <1>2, PTL DEF Assistant, assistantVars, ChatSpec

LEMMA GateInWhole == Assistant => GateSpec
<1>1. AssistantInit => GateInit
  BY DEF AssistantInit
<1>2. [AssistantNext]_assistantVars => [GateNext]_gateVars
  BY DEF AssistantNext, ChatRuns, GateRuns, GraphRuns, LensRuns, JobsRun, assistantVars
<1> QED
  BY <1>1, <1>2, PTL DEF Assistant, assistantVars, GateSpec

LEMMA LensInWhole == Assistant => LensSpec
<1>1. AssistantInit => LensInit
  BY DEF AssistantInit
<1>2. [AssistantNext]_assistantVars => [LensNext]_lensVars
  BY DEF AssistantNext, ChatRuns, GateRuns, GraphRuns, LensRuns, JobsRun, assistantVars
<1> QED
  BY <1>1, <1>2, PTL DEF Assistant, assistantVars, LensSpec

LEMMA GraphInWhole == Assistant => GraphSpec
<1>1. AssistantInit => GraphInit
  BY DEF AssistantInit
<1>2. [AssistantNext]_assistantVars => [GraphNext]_graphVars
  BY DEF AssistantNext, ChatRuns, GateRuns, GraphRuns, LensRuns, JobsRun, assistantVars
<1> QED
  BY <1>1, <1>2, PTL DEF Assistant, assistantVars, GraphSpec

LEMMA JobsInWhole == Assistant => JobsSpec
<1>1. AssistantInit => JobsInit
  BY DEF AssistantInit
<1>2. [AssistantNext]_assistantVars => [JobsNext]_jobsVars
  BY DEF AssistantNext, ChatRuns, GateRuns, GraphRuns, LensRuns, JobsRun, assistantVars
<1> QED
  BY <1>1, <1>2, PTL DEF Assistant, assistantVars, JobsSpec

\* Whatever is stopped, left or begun meanwhile, an answer is recorded once, in its own
\* conversation and as it was shown, and no page waits for one that will not come.
THEOREM LensStaysSound == Assistant => []LensSound
BY LensInWhole, LensInvariance, LensInvSound, PTL

\* Beside everything else that runs, the gate keeps the decisions it reported, the jobs
\* lose no fact, no pin and no decision of the user, the graph stays linked, and every
\* turn is recorded once with what was streamed.
THEOREM WholeKeepsDecisions == Assistant => []GateSound /\ []JobsSound /\ []GraphSound /\ []TurnRecorded
BY GateInWhole, JobsInWhole, GraphInWhole, ChatInWhole,
   GateStaysSound, JobsStaySound, GraphStaysSound, TurnsAreRecorded, PTL
================================================================================
