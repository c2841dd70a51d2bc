------------------------------- MODULE MemoryJobs -------------------------------
(***************************************************************************)
(* The jobs that write long-term memories: MemoryExtractor, which keeps    *)
(* the facts a model finds in a conversation, and MemoryConsolidator,      *)
(* which purges, archives and merges memories                              *)
(* (aegismind_core/memory/extractor.py and consolidation.py).              *)
(*                                                                         *)
(* A job is a sequence of calls of the store.  Here a call is one step,    *)
(* between which the user and the other job make theirs (MemoryStore has   *)
(* the statements of a call); supersede is two, because the second half    *)
(* may be refused.  A text is a set of facts: what a merge writes has the  *)
(* facts of both memories, and an embedding is the text it was made from,  *)
(* {} if there is none.                                                    *)
(***************************************************************************)
EXTENDS Values, FiniteSets

CONSTANTS
  JobSpaces, Global,    \* namespaces; the one that is searched with every other
  Stored,               \* the memories at the start, a sequence of records
  Found,                \* what a model may answer: sequences of texts
  SecretFacts,          \* facts with a secret, which the guard refuses
  Alike, Near,          \* texts whose similarity is at least .90, or from .75 to .90
  MaxMemos,             \* bound on the memories ever made
  MaxJobRuns, MaxJobErrors, MaxUserCalls

VARIABLES
  memos, memoNext,      \* the table: id |-> row; the next id
  extraction,           \* the extraction under way or None
  merging,              \* the consolidation under way or None
  jobRuns, jobErrors, userCalls,
  known,                \* history: the facts that have been in an active memory
  dropped,              \* history: the facts of memories taken out of use on purpose
  settled,              \* history: memories forgotten or rejected while no job held them,
                        \* each with the next id by then
  late                  \* history: memories pinned or used after a job had read them

boundsOfJobs == <<jobRuns, jobErrors, userCalls>>
history == <<dropped, settled, late>>
jobsVars == <<memos, memoNext, extraction, merging, boundsOfJobs, known, history>>

Memo(ns, text, type, status, pinned) ==
  [ns |-> ns, text |-> text, vec |-> text, type |-> type, status |-> status,
   pinned |-> pinned, used |-> FALSE, old |-> FALSE,
   by |-> "user",       \* history: who has forgotten it
   from |-> {},         \* history: the memories it was merged from
   seen |-> {}]         \* history: the memories its extraction compared it with

Facts == (UNION {Stored[i].text : i \in DOMAIN Stored}) \cup UNION UNION {Elements(f) : f \in Found}
MemoIds == 1..MaxMemos

MemoRow ==
  [ns : JobSpaces, text : SUBSET Facts, vec : SUBSET Facts, type : {"semantic", "episodic"},
   status : {"pending", "active", "superseded", "archived", "forgotten"},
   pinned : BOOLEAN, used : BOOLEAN, old : BOOLEAN,
   by : {"user", "job"}, from : SUBSET MemoIds, seen : SUBSET MemoIds]

\* What a consolidation has read of a memory.
Reading == [text : SUBSET Facts, vec : SUBSET Facts, pinned : BOOLEAN]

Extraction ==
  [ns : JobSpaces, pc : {"hash", "cosine", "contradiction", "mark", "add"},
   todo : Seq(SUBSET Facts), vec : SUBSET Facts, seen : SUBSET MemoIds, old : MemoIds \cup {None}]

Merging ==
  [ns : JobSpaces,
   pc : {"purge", "stale", "forget", "list", "next", "mark", "add", "settle", "approve"},
   stale : SUBSET MemoIds, listed : UNION {[ids -> Reading] : ids \in SUBSET MemoIds},
   gone : SUBSET MemoIds, pair : Nat \X Nat, new : MemoIds \cup {None}]

\* The memories at the start say no secret, and no job has had a hand in them.
ASSUME JobsAssumption ==
  /\ Global \in JobSpaces /\ \A p \in Alike \cup Near : {} \notin {p[1], p[2]}
  /\ MaxMemos \in Nat /\ MaxJobRuns \in Nat
  /\ MaxJobErrors \in Nat /\ MaxUserCalls \in Nat
  /\ Stored \in Seq(MemoRow) /\ Len(Stored) <= MaxMemos
  /\ \A i \in DOMAIN Stored : /\ Stored[i].text \cap SecretFacts = {} /\ Stored[i].by = "user"
                              /\ Stored[i].from = {} /\ Stored[i].seen = {}
  /\ \A f \in Found : f \in Seq(SUBSET Facts)
  /\ None \notin MemoIds /\ None \notin Extraction /\ None \notin Merging

ActiveFacts(table) == UNION {table[i].text : i \in {j \in DOMAIN table : table[j].status = "active"}}

JobsInit ==
  /\ memos = Stored /\ memoNext = Len(Stored) + 1
  /\ extraction = None /\ merging = None
  /\ jobRuns = 0 /\ jobErrors = 0 /\ userCalls = 0
  /\ known = ActiveFacts(Stored) /\ dropped = {} /\ settled = {} /\ late = {}

------------------------------------------------------------------------------
(* The calls of the store. *)

Writes(table) == memos' = table /\ known' = known \cup ActiveFacts(table)

Stays == UNCHANGED <<memos, known, memoNext>>

Fact(i) == memos[i].text

\* An error of the database, on which the call raises.
StoreError == jobErrors < MaxJobErrors /\ jobErrors' = jobErrors + 1
NoError == UNCHANGED jobErrors

\* _update with a new status; there is no such row: KeyError.
ToStatusOf(i, status) == [memos EXCEPT ![i].status = status]

\* The unique index on active memories.
Twin(table, i) ==
  \E j \in DOMAIN table \ {i} :
    /\ table[j].status = "active" /\ table[i].status = "active"
    /\ table[j].ns = table[i].ns /\ table[j].text = table[i].text

Guarded(text) == text \cap SecretFacts # {}

Inserted(row) == With(memos, memoNext, row)

------------------------------------------------------------------------------
(* extract_from_thread *)

ExtractionIs(pc) == extraction # None /\ extraction.pc = pc
ExtractionGoes(x) == extraction' = x /\ UNCHANGED <<merging, jobRuns, userCalls, settled, late>>

\* A model answers, or fails or says nothing that can be parsed, and nothing is extracted.
extract_from_thread ==
  /\ extraction = None /\ jobRuns < MaxJobRuns
  /\ jobRuns' = jobRuns + 1
  /\ \E ns \in JobSpaces, found \in Found \ {<<>>} :
       extraction' = [ns |-> ns, pc |-> "hash", todo |-> found, vec |-> {}, seen |-> {},
                      old |-> None]
  /\ Stays /\ UNCHANGED <<merging, jobErrors, userCalls, history>>

\* The next candidate, if there is one.
NextCandidate ==
  IF Len(extraction.todo) = 1 THEN None
  ELSE [extraction EXCEPT !.pc = "hash", !.todo = Tail(@), !.seen = {}]

\* Memories of the namespace that say the same, whatever has become of them.
find_by_hash(ns, text) == {i \in DOMAIN memos : memos[i].ns = ns /\ memos[i].text = text}

get_active_with_embeddings(ns) ==
  {i \in DOMAIN memos :
     memos[i].status = "active" /\ memos[i].vec # {} /\ memos[i].ns \in {ns, Global}}

\* The candidate is embedded, unless that fails, and its hash is looked up; when a check
\* raises, the candidate goes on as if nothing had been found.
CheckHash ==
  /\ ExtractionIs("hash")
  /\ LET text == Head(extraction.todo) IN
     \E vec \in {text, {}} :
       \/ /\ NoError
          /\ ExtractionGoes(
               IF find_by_hash(extraction.ns, text) # {} THEN NextCandidate
               ELSE [extraction EXCEPT !.pc = IF vec = {} THEN "add" ELSE "cosine",
                                       !.vec = vec, !.old = None, !.seen = DOMAIN memos])
       \/ /\ StoreError
          /\ ExtractionGoes([extraction EXCEPT !.pc = IF vec = {} THEN "add" ELSE "contradiction",
                                               !.vec = vec, !.old = None, !.seen = {}])
  /\ Stays /\ UNCHANGED dropped

CheckCosine ==
  /\ ExtractionIs("cosine")
  /\ \/ /\ NoError
        /\ LET same == \E i \in get_active_with_embeddings(extraction.ns) :
                         <<extraction.vec, memos[i].vec>> \in Alike IN
           ExtractionGoes(IF same THEN NextCandidate
                          ELSE [extraction EXCEPT !.pc = "contradiction"])
     \/ StoreError /\ ExtractionGoes([extraction EXCEPT !.pc = "contradiction"])
  /\ Stays /\ UNCHANGED dropped

FindContradiction ==
  /\ ExtractionIs("contradiction")
  /\ LET near == {i \in get_active_with_embeddings(extraction.ns) :
                    <<extraction.vec, memos[i].vec>> \in Near} IN
     \/ /\ NoError
        /\ \/ near = {} /\ ExtractionGoes([extraction EXCEPT !.pc = "add"])
           \/ \E i \in near : ExtractionGoes([extraction EXCEPT !.pc = "mark", !.old = i])
     \/ StoreError /\ ExtractionGoes([extraction EXCEPT !.pc = "add"])
  /\ Stays /\ UNCHANGED dropped

\* supersede, its first half: what it says is given up for what the user now says.
MarkContradicted ==
  /\ ExtractionIs("mark")
  /\ LET i == extraction.old IN
     \/ /\ i \in DOMAIN memos /\ NoError
        /\ Writes(ToStatusOf(i, "superseded")) /\ UNCHANGED memoNext
        /\ dropped' = dropped \cup Fact(i)
        /\ ExtractionGoes([extraction EXCEPT !.pc = "add"])
     \/ /\ (i \notin DOMAIN memos /\ NoError) \/ StoreError
        /\ Stays /\ UNCHANGED dropped
        /\ ExtractionGoes(NextCandidate)

\* add, or the second half of supersede: a secret is refused.
AddCandidate ==
  /\ ExtractionIs("add") /\ memoNext <= MaxMemos
  /\ LET text == Head(extraction.todo)
         row == [Memo(extraction.ns, text, "semantic", "pending", FALSE)
                   EXCEPT !.vec = extraction.vec, !.seen = extraction.seen] IN
     \/ /\ ~Guarded(text) /\ NoError
        /\ Writes(Inserted(row)) /\ memoNext' = memoNext + 1
     \/ /\ (Guarded(text) /\ NoError) \/ StoreError
        /\ Stays
  /\ ExtractionGoes(NextCandidate) /\ UNCHANGED dropped

------------------------------------------------------------------------------
(* MemoryConsolidator.run *)

MergingIs(pc) == merging # None /\ merging.pc = pc
MergingGoes(c) == merging' = c /\ UNCHANGED <<extraction, jobRuns, userCalls, settled, late>>

run ==
  /\ merging = None /\ jobRuns < MaxJobRuns
  /\ jobRuns' = jobRuns + 1
  /\ \E ns \in JobSpaces :
       merging' = [ns |-> ns, pc |-> "purge", stale |-> {}, listed |-> [i \in {} |-> None],
                   gone |-> {}, pair |-> <<0, 0>>, new |-> None]
  /\ Stays /\ UNCHANGED <<extraction, jobErrors, userCalls, history>>

\* purge_forgotten, of tombstones that are old enough.
Purge ==
  /\ MergingIs("purge")
  /\ \/ /\ NoError
        /\ \E gone \in SUBSET {i \in DOMAIN memos : memos[i].status = "forgotten"} :
             memos' = [i \in DOMAIN memos \ gone |-> memos[i]]
     \/ StoreError /\ UNCHANGED memos
  /\ MergingGoes([merging EXCEPT !.pc = "stale"])
  /\ UNCHANGED <<known, memoNext, dropped>>

Stale(row) ==
  row.status = "active" /\ row.type = "episodic" /\ ~row.pinned /\ row.old /\ ~row.used

ListStale ==
  /\ MergingIs("stale")
  /\ \/ /\ NoError
        /\ MergingGoes([merging EXCEPT !.pc = "forget",
             !.stale = {i \in DOMAIN memos : memos[i].ns = merging.ns /\ Stale(memos[i])}])
     \/ StoreError /\ MergingGoes([merging EXCEPT !.pc = "list"])
  /\ Stays /\ UNCHANGED dropped

\* The memories of a listing are taken in its order, the newest first.
Newest(ids) == CHOOSE i \in ids : \A j \in ids : j <= i

\* forget of the next stale memory; when it raises, the others are left for another run.
ForgetStale ==
  /\ MergingIs("forget")
  /\ IF merging.stale = {}
     THEN Stays /\ NoError /\ UNCHANGED dropped /\ MergingGoes([merging EXCEPT !.pc = "list"])
     ELSE LET i == Newest(merging.stale) IN
          \/ /\ i \in DOMAIN memos /\ NoError
             /\ Writes([memos EXCEPT ![i] = [@ EXCEPT !.status = "forgotten", !.by = "job"]])
             /\ UNCHANGED memoNext
             /\ dropped' = dropped \cup Fact(i)
             /\ MergingGoes([merging EXCEPT !.stale = @ \ {i}])
          \/ /\ (i \notin DOMAIN memos /\ NoError) \/ StoreError
             /\ Stays /\ UNCHANGED dropped
             /\ MergingGoes([merging EXCEPT !.pc = "list", !.stale = {}])

\* Mutant of Mergeable: superseded and forgotten memories too.
Mergeable_Any(ns) == {i \in DOMAIN memos : memos[i].ns = ns /\ memos[i].type = "semantic"}

Mergeable(ns) ==
  {i \in DOMAIN memos :
     memos[i].ns = ns /\ memos[i].type = "semantic" /\ memos[i].status = "active"}

\* list, and the embeddings, which do not change as long as the row is there.
ListSimilar ==
  /\ MergingIs("list")
  /\ \/ /\ NoError
        /\ MergingGoes([merging EXCEPT !.pc = "next", !.pair = <<memoNext, 0>>,
             !.listed = [i \in Mergeable(merging.ns) |->
                           [text |-> memos[i].text, vec |-> memos[i].vec, pinned |-> memos[i].pinned]]])
     \/ StoreError /\ MergingGoes(None)
  /\ Stays /\ UNCHANGED dropped

\* The order of the two loops over the listing.
After(p, q) == p[1] < q[1] \/ (p[1] = q[1] /\ p[2] < q[2])

IsPair(c, p) ==
  /\ p[1] > p[2] /\ p[1] \notin c.gone /\ p[2] \notin c.gone
  /\ <<c.listed[p[1]].vec, c.listed[p[2]].vec>> \in Alike

\* The pairs still to be merged.
PairsLeft(c) ==
  {p \in (DOMAIN c.listed) \X (DOMAIN c.listed) : IsPair(c, p) /\ After(p, c.pair)}

\* The first of the pairs left, while the model is asked for a text; the run ends if
\* there is none.
NextPair ==
  /\ MergingIs("next")
  /\ MergingGoes(
       IF PairsLeft(merging) = {} THEN None
       ELSE [merging EXCEPT !.pc = "mark",
               !.pair = CHOOSE p \in PairsLeft(merging) :
                          \A q \in PairsLeft(merging) : q = p \/ After(q, p)])
  /\ Stays /\ NoError /\ UNCHANGED dropped

One == merging.pair[1]
Two == merging.pair[2]
Read(i) == merging.listed[i]

\* _merge_pair: a call has raised, and the pair counts as not merged.
MergeFails(lost) ==
  /\ Stays
  /\ dropped' = dropped \cup lost
  /\ MergingGoes([merging EXCEPT !.pc = "next"])

MarkFirst ==
  /\ MergingIs("mark")
  /\ \/ /\ One \in DOMAIN memos /\ NoError
        /\ Writes(ToStatusOf(One, "superseded")) /\ UNCHANGED <<memoNext, dropped>>
        /\ MergingGoes([merging EXCEPT !.pc = "add"])
     \/ /\ (One \notin DOMAIN memos /\ NoError) \/ StoreError
        /\ MergeFails({})

\* The longer text if it holds the other, else both, or what a model makes of them.
Synthesized(a, b) == a \cup b

Merged ==
  [Memo(merging.ns, Synthesized(Read(One).text, Read(Two).text), "semantic", "pending",
        Read(One).pinned \/ Read(Two).pinned)
     EXCEPT !.vec = Read(One).vec, !.from = {One, Two}]

\* The second half of supersede; the first memory's facts are lost if it fails.
AddMerged ==
  /\ MergingIs("add") /\ memoNext <= MaxMemos
  /\ \/ /\ ~Guarded(Merged.text) /\ NoError
        /\ Writes(Inserted(Merged)) /\ memoNext' = memoNext + 1 /\ UNCHANGED dropped
        /\ MergingGoes([merging EXCEPT !.pc = "settle", !.new = memoNext])
     \/ /\ (Guarded(Merged.text) /\ NoError) \/ StoreError
        /\ MergeFails(Read(One).text)

\* The second memory is superseded before the new one becomes active, so that they do
\* not collide.
SettleSecond ==
  /\ MergingIs("settle")
  /\ \/ /\ Two \in DOMAIN memos /\ NoError
        /\ Writes(ToStatusOf(Two, "superseded")) /\ UNCHANGED <<memoNext, dropped>>
        /\ MergingGoes([merging EXCEPT !.pc = "approve"])
     \/ /\ (Two \notin DOMAIN memos /\ NoError) \/ StoreError
        /\ MergeFails({})

ApproveMerged ==
  /\ MergingIs("approve")
  /\ LET i == merging.new
         table == [memos EXCEPT ![i].status = "active"] IN
     \/ /\ i \in DOMAIN memos /\ ~Twin(table, i) /\ NoError
        /\ Writes(table) /\ UNCHANGED <<memoNext, dropped>>
        /\ MergingGoes([merging EXCEPT !.pc = "next", !.gone = @ \cup {One, Two}])
     \/ /\ ((i \in DOMAIN memos => Twin(table, i)) /\ NoError) \/ StoreError
        /\ MergeFails({})

------------------------------------------------------------------------------
(* The user, and the end of the process. *)

Held(i) ==
  \/ merging # None /\ (i \in DOMAIN merging.listed \cup merging.stale \/ i = merging.new)
  \/ extraction # None /\ extraction.old = i

UserCall == userCalls < MaxUserCalls /\ userCalls' = userCalls + 1

\* forget and reject
TakesBack(i, status) ==
  /\ UserCall /\ memos[i].status \in {"active", "pending"}
  /\ Writes([memos EXCEPT ![i].status = status]) /\ UNCHANGED memoNext
  /\ dropped' = dropped \cup Fact(i)
  /\ settled' = IF Held(i) THEN settled ELSE settled \cup {<<i, memoNext>>}
  /\ UNCHANGED <<extraction, merging, jobRuns, jobErrors, late>>

Approves(i) ==
  LET table == [memos EXCEPT ![i].status = "active"] IN
  /\ UserCall /\ memos[i].status = "pending" /\ ~Twin(table, i)
  /\ Writes(table) /\ UNCHANGED memoNext
  /\ UNCHANGED <<extraction, merging, jobRuns, jobErrors, history>>

\* pin, or the touch of a search
Marks(i, row) ==
  /\ UserCall /\ row # memos[i]
  /\ memos' = [memos EXCEPT ![i] = row]
  /\ late' = IF Held(i) \/ memos[i].status # "active" \/ \E j \in DOMAIN memos : i \in memos[j].from
             THEN late \cup {i} ELSE late
  /\ UNCHANGED <<extraction, merging, memoNext, jobRuns, jobErrors, known, dropped, settled>>

\* The process ends between two calls, or within supersede.
JobsCrash ==
  /\ StoreError /\ (extraction # None \/ merging # None)
  /\ extraction' = None /\ merging' = None
  /\ dropped' = IF MergingIs("add") THEN dropped \cup Read(One).text ELSE dropped
  /\ Stays /\ UNCHANGED <<jobRuns, userCalls, settled, late>>

ExtractionStep ==
  CheckHash \/ CheckCosine \/ FindContradiction \/ MarkContradicted \/ AddCandidate

MergingStep ==
  \/ Purge \/ ListStale \/ ForgetStale \/ ListSimilar \/ NextPair
  \/ MarkFirst \/ AddMerged \/ SettleSecond \/ ApproveMerged

JobsNext ==
  \/ extract_from_thread \/ run \/ ExtractionStep \/ MergingStep \/ JobsCrash
  \/ \E i \in DOMAIN memos :
       \/ TakesBack(i, "forgotten") \/ TakesBack(i, "archived") \/ Approves(i)
       \/ Marks(i, [memos[i] EXCEPT !.pinned = TRUE]) \/ Marks(i, [memos[i] EXCEPT !.used = TRUE])

JobsFairness == WF_jobsVars(ExtractionStep) /\ WF_jobsVars(MergingStep)

JobsSpec == JobsInit /\ [][JobsNext]_jobsVars /\ JobsFairness

------------------------------------------------------------------------------
(* Properties. *)

JobsTypeOK ==
  /\ DOMAIN memos \subseteq 1..(memoNext - 1) /\ memoNext <= MaxMemos + 1
  /\ \A i \in DOMAIN memos :
       /\ memos[i].ns \in JobSpaces /\ memos[i].pinned \in BOOLEAN
       /\ memos[i].status \in {"pending", "active", "superseded", "archived", "forgotten"}
       /\ memos[i].text \cap SecretFacts = {} /\ memos[i].from \subseteq 1..(i - 1)

\* A fact in use is not lost to a job: unless its memory was taken out of use on purpose,
\* it is in an active memory when no merge is under way and nothing has failed; after
\* errors and crashes it is at least in one that waits for approval.  (The exception is
\* the first half of a supersede whose second half fails: see the README.)
FactsKept ==
  LET live == IF merging = None /\ jobErrors = 0 THEN {"active"} ELSE {"active", "pending"}
      held == UNION {memos[i].text : i \in {j \in DOMAIN memos : memos[j].status \in live}}
      written == IF MergingIs("add") THEN Read(One).text ELSE {}
  IN known \subseteq held \cup written \cup dropped

\* What an extraction has found in the namespace when it looked is not stored again,
\* whether the user has kept, rejected or forgotten it.
NotExtractedAgain ==
  \A i, j \in DOMAIN memos : i \in memos[j].seen =>
    memos[i].ns # memos[j].ns \/ memos[i].text # memos[j].text

\* A memory that takes the place of a pinned one is pinned, unless the pin came after
\* the run had read the memory.
PinSurvives ==
  \A j \in DOMAIN memos : \A i \in memos[j].from \cap DOMAIN memos :
    memos[i].pinned /\ i \notin late => memos[j].pinned

\* What the job forgets is old, and was neither pinned nor used when it looked.
ArchivesOnlyStale ==
  \A i \in DOMAIN memos : memos[i].by = "job" =>
    /\ memos[i].type = "episodic" /\ memos[i].old
    /\ i \in late \/ (~memos[i].pinned /\ ~memos[i].used)

\* A memory that the user has forgotten or rejected stays so, and no job then makes another
\* from it, unless one held it already when the user did.
ForgottenStaysOut ==
  \A s \in settled :
    /\ s[1] \in DOMAIN memos => memos[s[1]].status \in {"forgotten", "archived"}
    /\ \A j \in DOMAIN memos : j >= s[2] => s[1] \notin memos[j].from

\* A job ends, whatever fails: a pair that cannot be merged is not tried for ever.
JobsEnd == (merging # None ~> merging = None) /\ (extraction # None ~> extraction = None)

\* Extraction and consolidation lose no fact, no pin and no decision of the user, and do
\* not store twice what they have seen.
JobsSound ==
  /\ FactsKept /\ NotExtractedAgain /\ PinSurvives /\ ArchivesOnlyStale /\ ForgottenStaysOut
==================================================================================
