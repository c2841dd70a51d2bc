------------------------------ MODULE VectorStores ------------------------------
(***************************************************************************)
(* Three stores behind one port, VectorStorePort of aegismind-retrieval:   *)
(* MemoryVectorStoreAdapter and QdrantVectorStoreAdapter                   *)
(* (adapters_vector.py) and SqliteVectorStoreAdapter                       *)
(* (adapters_sqlite_vector.py).  Each is given the same calls: those of    *)
(* IngestionPipeline.ingest_records, which puts a document under its next  *)
(* version, and the deletions.                                             *)
(*                                                                         *)
(* The memory store is a dictionary, which keeps the order in which its    *)
(* keys were added; SQLite a table with row numbers; Qdrant a set of       *)
(* points, beside which its adapter has a memory store to fall back on.    *)
(* A call of Qdrant may fail, with effect or without.  The scores of a     *)
(* text for the one query are constants; what a chunk tells of its         *)
(* document beside its text is the tenant and the groups.                  *)
(***************************************************************************)
EXTENDS Values, SequencesExt

CONSTANTS
  StoreDocs,            \* the documents, in the order of their ids
  DocTenant, DocGroups, \* per document, its tenant or None, and the groups it is for
  Similar, Overlapping, \* per text, its scores in a dense and in a lexical search
  Batches,              \* what a document may consist of: sequences of texts
  StoreFilters,         \* the filters of searches: a tenant or None, and groups
  MaxTopK,              \* bound on the results asked for
  MaxStoreCalls, MaxStoreClock, MaxOutages      \* bounds on calls, time and failures

VARIABLES
  memory,               \* the chunks of the memory store, in order
  sqlite,               \* the table: per id, the row
  points, fallback,     \* Qdrant, and what its adapter falls back on
  storeClock, storeCalls, outages,
  newest                \* history: per document, its chunks as last put and not deleted since

storeVars == <<memory, sqlite, points, fallback, storeClock, storeCalls, outages, newest>>

ASSUME VectorStoresAssumption ==
  /\ MaxStoreCalls \in Nat /\ MaxOutages \in Nat /\ MaxStoreClock \in Nat \ {0}
  /\ StoreDocs \in Seq(Elements(StoreDocs)) /\ MaxTopK \in Nat
  /\ \A d \in Elements(StoreDocs) : IsFiniteSet(DocGroups[d])
  /\ Similar \in [DOMAIN Similar -> Int] /\ Overlapping \in [DOMAIN Similar -> Int]
  /\ Batches \subseteq Seq(DOMAIN Similar)

VectorStoresInit ==
  /\ memory = <<>> /\ sqlite = <<>> /\ points = <<>> /\ fallback = <<>>
  /\ storeClock = 1 /\ storeCalls = 0 /\ outages = 0
  /\ newest = [d \in Elements(StoreDocs) |-> {}]

\* The id of a chunk is made of these three.
Id(c) == <<c.doc, c.ver, c.idx>>

------------------------------------------------------------------------------
(* The memory store, which is a sequence of chunks; gone is 0 or the time of a tombstone. *)

\* A key that is there keeps its place; no two chunks of a batch have the same.
MemPut(store, new) ==
  LET there == {Id(c) : c \in Elements(store)}
      at(i) == {c \in Elements(new) : Id(c) = Id(store[i])} IN
  [i \in DOMAIN store |-> IF at(i) = {} THEN store[i] ELSE CHOOSE c \in at(i) : TRUE]
    \o Only(new, {c \in Elements(new) : Id(c) \notin there})

MemDelete(store, id) == Only(store, {c \in Elements(store) : Id(c) # id})

ActiveOf(store, d) == Only(store, {c \in Elements(store) : c.doc = d /\ c.gone = 0})

MemSoftDelete(store, d) ==
  [i \in DOMAIN store |-> IF store[i].doc = d /\ store[i].gone = 0
                          THEN [store[i] EXCEPT !.gone = storeClock] ELSE store[i]]

MemVacuum(store, age) ==
  Only(store, {c \in Elements(store) : c.gone = 0 \/ storeClock - c.gone < age})

------------------------------------------------------------------------------
(* SQLite *)

LastRow(table) == Largest({table[id].row : id \in DOMAIN table})

\* INSERT ... ON CONFLICT(id) DO UPDATE: a row that is there keeps its number.
SqlPut(table, new) ==
  [id \in DOMAIN table \cup {Id(c) : c \in Elements(new)} |->
     IF id \notin {Id(c) : c \in Elements(new)} THEN table[id]
     ELSE LET i == CHOOSE j \in DOMAIN new : Id(new[j]) = id IN
          [row |-> IF id \in DOMAIN table THEN table[id].row ELSE LastRow(table) + i,
           text |-> new[i].text, gone |-> 0]]

SqlDelete(table, id) == [j \in DOMAIN table \ {id} |-> table[j]]

SqlSoftDelete(table, d) ==
  [id \in DOMAIN table |-> IF id[1] = d /\ table[id].gone = 0
                           THEN [table[id] EXCEPT !.gone = storeClock] ELSE table[id]]

SqlVacuum(table, age) ==
  LET old == {id \in DOMAIN table : table[id].gone # 0 /\ storeClock - table[id].gone >= age}
  IN [id \in DOMAIN table \ old |-> table[id]]

\* SELECT: the rows in the order of their numbers.
Rows(table) ==
  LET upTo(id) == {j \in DOMAIN table : table[j].row <= table[id].row}
      nth(k) == CHOOSE id \in DOMAIN table : Cardinality(upTo(id)) = k IN
  [k \in 1..Cardinality(DOMAIN table) |->
     [doc |-> nth(k)[1], ver |-> nth(k)[2], idx |-> nth(k)[3],
      text |-> table[nth(k)].text, gone |-> table[nth(k)].gone]]

SqlActive(table, d) == ActiveOf(Rows(table), d)

------------------------------------------------------------------------------
(* Calls.  The outcome is that of Qdrant: done; lost, with effect; failed, without; or  *)
(* refused, an answer other than 200.                                                   *)

StoreCall(outcome) ==
  /\ storeCalls < MaxStoreCalls /\ storeCalls' = storeCalls + 1
  /\ outages' = outages + (IF outcome = "done" THEN 0 ELSE 1) /\ outages' <= MaxOutages
  /\ UNCHANGED storeClock

\* One more than the version of the chunks that are active.
Version(active) == 1 + Largest({c.ver : c \in Elements(active)})

ChunkedBatch(d, batch, active) ==
  [i \in DOMAIN batch |-> [doc |-> d, ver |-> Version(active), idx |-> i, text |-> batch[i],
                           gone |-> 0]]

PointsPut(new) ==
  [id \in DOMAIN points \cup {Id(c) : c \in Elements(new)} |->
     IF id \notin {Id(c) : c \in Elements(new)} THEN points[id]
     ELSE (CHOOSE c \in Elements(new) : Id(c) = id).text]

\* Mutant of FallbackPut: a put that fails is given up.
FallbackPut_Never(outcome, store, new) == store

\* Any failure of a put lets the adapter fall back.
FallbackPut(outcome, store, new) == IF outcome = "done" THEN store ELSE MemPut(store, new)

\* ingest_records: what is there of the document becomes a tombstone, then the next
\* version is put.  The Qdrant adapter asks its fallback for what is there.
Ingest(d, batch, outcome) ==
  LET toQdrant == ChunkedBatch(d, batch, ActiveOf(fallback, d)) IN
  /\ StoreCall(outcome)
  /\ memory' = MemPut(MemSoftDelete(memory, d), ChunkedBatch(d, batch, ActiveOf(memory, d)))
  /\ sqlite' = SqlPut(SqlSoftDelete(sqlite, d), ChunkedBatch(d, batch, SqlActive(sqlite, d)))
  /\ points' = IF outcome \in {"done", "lost"} THEN PointsPut(toQdrant) ELSE points
  /\ fallback' = FallbackPut(outcome, MemSoftDelete(fallback, d), toQdrant)
  /\ newest' = [newest EXCEPT ![d] = {[idx |-> i, text |-> batch[i]] : i \in DOMAIN batch}]

\* The document has vanished from its source.
soft_delete_document_(d) ==
  /\ StoreCall("done")
  /\ memory' = MemSoftDelete(memory, d)
  /\ sqlite' = SqlSoftDelete(sqlite, d)
  /\ fallback' = MemSoftDelete(fallback, d) /\ UNCHANGED points
  /\ newest' = [newest EXCEPT ![d] = {}]

\* delete: an answer other than 200 is no reason to fall back.
DeleteChunk(id, outcome) ==
  /\ StoreCall(outcome)
  /\ memory' = MemDelete(memory, id)
  /\ sqlite' = SqlDelete(sqlite, id)
  /\ points' = IF outcome \in {"done", "lost"} THEN [j \in DOMAIN points \ {id} |-> points[j]]
               ELSE points
  /\ fallback' = IF outcome \in {"lost", "failed"} THEN MemDelete(fallback, id) ELSE fallback
  /\ newest' = [newest EXCEPT ![id[1]] = {e \in @ : e.idx # id[3]}]

vacuum_tombstones(age) ==
  /\ StoreCall("done")
  /\ memory' = MemVacuum(memory, age)
  /\ sqlite' = SqlVacuum(sqlite, age)
  /\ fallback' = MemVacuum(fallback, age)
  /\ UNCHANGED <<points, newest>>

StoreTick ==
  /\ storeClock < MaxStoreClock /\ storeClock' = storeClock + 1
  /\ UNCHANGED <<memory, sqlite, points, fallback, storeCalls, outages, newest>>

VectorStoresNext ==
  \/ StoreTick
  \/ \E d \in Elements(StoreDocs) :
       \/ soft_delete_document_(d)
       \/ \E batch \in Batches, outcome \in {"done", "lost", "failed"} : Ingest(d, batch, outcome)
  \/ \E id \in {Id(c) : c \in Elements(memory)}, outcome \in {"done", "lost", "failed", "refused"} :
       DeleteChunk(id, outcome)
  \/ \E age \in {0, 1} : vacuum_tombstones(age)

VectorStoresSpec == VectorStoresInit /\ [][VectorStoresNext]_storeVars

------------------------------------------------------------------------------
(* Searches *)

\* The part of _matches_filter that is about the document: one without a tenant is
\* anybody's, one without groups for all.
InScope(d, f) ==
  /\ f.tenant # None => DocTenant[d] \in {None, f.tenant}
  /\ f.groups # {} /\ DocGroups[d] # {} => f.groups \cap DocGroups[d] # {}

Matching_(s, f) == Only(s, {c \in Elements(s) : c.gone = 0 /\ InScope(c.doc, f)})

\* By falling score; equal ones stay in their order.
ByScore(score, s) ==
  Arranged(s, DOMAIN s, {p \in (DOMAIN s) \X (DOMAIN s) :
    \/ score[s[p[1]].text] > score[s[p[2]].text]
    \/ score[s[p[1]].text] = score[s[p[2]].text] /\ p[1] < p[2]})

\* The chunks with a word of the query.
InQuery(s) == Only(s, {c \in Elements(s) : Overlapping[c.text] > 0})

MemDense(f, k) == First(k, ByScore(Similar, Matching_(memory, f)))
MemLexical(f, k) == First(k, ByScore(Overlapping, InQuery(Matching_(memory, f))))

SqlMatching(f) == Matching_(Rows(sqlite), f)
SqlDense(f, k) == First(k, ByScore(Similar, SqlMatching(f)))
SqlLexical(f, k) == First(k, ByScore(Overlapping, SqlMatching(f)))

\* 1 / (60 + rank), as a whole number of parts.
Share(l, c) ==
  LET ranks == {i \in DOMAIN l : l[i] = c} IN
  IF ranks = {} THEN 0 ELSE (61 * 62 * 63 * 64 * 65) \div (60 + (CHOOSE i \in ranks : TRUE))

\* fuse_dense_sparse; equal scores are in the order of the ids.
FusedLists(l, m) ==
  LET all == l \o Only(m, Elements(m) \ Elements(l))
      total == [i \in DOMAIN all |-> Share(l, all[i]) + Share(m, all[i])]
      nth == [i \in DOMAIN all |-> CHOOSE n \in DOMAIN StoreDocs : StoreDocs[n] = all[i].doc]
      idBelow(i, j) == \/ nth[i] < nth[j]
                       \/ nth[i] = nth[j] /\ all[i].ver < all[j].ver
                       \/ nth[i] = nth[j] /\ all[i].ver = all[j].ver /\ all[i].idx < all[j].idx IN
  Arranged(all, DOMAIN all, {p \in (DOMAIN all) \X (DOMAIN all) :
    total[p[1]] > total[p[2]] \/ (total[p[1]] = total[p[2]] /\ idBelow(p[1], p[2]))})

\* query with both vectors: all of two rankings in memory; in SQLite the best of each,
\* the lexical one for an empty text, where every chunk scores zero.
MemHybrid(f, k) ==
  First(k, FusedLists(ByScore(Similar, Matching_(memory, f)),
                      ByScore(Overlapping, Matching_(memory, f))))
SqlHybrid(f, k) == First(k, FusedLists(SqlDense(f, 2 * k), First(2 * k, SqlMatching(f))))

\* What a search may find at most in Qdrant (a list of groups is an error there), where only
\* a document with that very tenant matches, and in the fallback while Qdrant is not there.
QdrantFinds(f) == {id \in DOMAIN points : f.tenant \in {None, DocTenant[id[1]]}}
FallbackFinds(f) == Elements(Matching_(fallback, f))

------------------------------------------------------------------------------
(* Properties. *)

VectorStoresTypeOK ==
  /\ \A i, j \in DOMAIN memory : Id(memory[i]) = Id(memory[j]) => i = j
  /\ \A i, j \in DOMAIN sqlite : sqlite[i].row = sqlite[j].row => i = j
  /\ \A c \in Elements(memory) : c.gone \in 0..storeClock
  /\ outages \in 0..MaxOutages

\* SQLite holds what the memory store holds, in the same order and with tombstones of the
\* same age, whatever was put, deleted, put again and vacuumed.
StoresAgree == Rows(sqlite) = memory

\* Both give the same answer to a dense search, and to a lexical one but for chunks that
\* score zero, which only SQLite lists; no chunk in scope that is left out of a dense
\* answer scores higher than one in it, and a full answer is given if there is one.
AnswersAgree == storeCalls > 0 =>
  \A f \in StoreFilters, k \in 1..MaxTopK :
    LET dense == MemDense(f, k)
        scope == {c \in Elements(memory) : c.gone = 0 /\ InScope(c.doc, f)} IN
    /\ SqlDense(f, k) = dense
    /\ InQuery(SqlLexical(f, k)) = MemLexical(f, k)
    /\ Len(dense) = Least(k, Cardinality(scope)) /\ Elements(dense) \subseteq scope
    /\ \A c \in scope \ Elements(dense), e \in Elements(dense) : Similar[c.text] <= Similar[e.text]

\* A hybrid search finds as many chunks as are in scope, up to the number asked for.
HybridFull == storeCalls > 0 =>
  \A f \in StoreFilters, k \in 1..MaxTopK :
    LET scope == {c \in Elements(memory) : c.gone = 0 /\ InScope(c.doc, f)} IN
    \A found \in {MemHybrid(f, k), SqlHybrid(f, k)} :
      /\ Cardinality(Elements(found)) = Least(k, Cardinality(scope))
      /\ Elements(found) \subseteq scope

\* A search for a tenant finds no document of another one, in any of the stores.
TenantScoped == storeCalls > 0 =>
  \A f \in StoreFilters : f.tenant # None =>
    LET others == {d \in Elements(StoreDocs) : DocTenant[d] \notin {None, f.tenant}} IN
    /\ \A c \in Elements(MemHybrid(f, MaxTopK)) \cup Elements(SqlHybrid(f, MaxTopK))
                \cup FallbackFinds(f) : c.doc \notin others
    /\ \A id \in QdrantFinds(f) : id[1] \notin others

\* What was put last of a document is a point of Qdrant or active in the fallback,
\* whichever calls have failed, with effect or without.
NewestFindable ==
  \A d \in Elements(StoreDocs) : \A e \in newest[d] :
    \/ \E id \in DOMAIN points : id[1] = d /\ id[3] = e.idx /\ points[id] = e.text
    \/ \E c \in Elements(fallback) : c.doc = d /\ c.idx = e.idx /\ c.text = e.text /\ c.gone = 0

\* The fallback cannot tell the version of what is in Qdrant: while no call fails, every
\* version is the first, so that a document that is put again replaces its points, and
\* what is left of an older one is its tail.
LeftoverIsTail ==
  outages = 0 => \A id \in DOMAIN points :
    id[2] = 1 /\ \A e \in newest[id[1]] : e.idx = id[3] => points[id] = e.text
==================================================================================
