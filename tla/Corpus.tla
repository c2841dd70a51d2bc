-------------------------------- MODULE Corpus --------------------------------
(***************************************************************************)
(* The chunks a server answers from: MemoryVectorStoreAdapter              *)
(* (packages/aegismind-retrieval/.../adapters_vector.py), the routes that  *)
(* add and delete documents (routes.py), and the ranking of the retrieval  *)
(* pipeline (pipeline.py, rrf.py, mmr.py, budgeting.py).                   *)
(*                                                                         *)
(* The store's operations do not suspend.  Embedding a paragraph does, so  *)
(* that other requests come between the paragraphs of a document.  A text  *)
(* is a model value; how well it matches the question, its size and its    *)
(* similarity to another are constants.  There is one question.            *)
(***************************************************************************)
EXTENDS Values, FiniteSets, SequencesExt

CONSTANTS
  Docs,               \* ids of documents, in the order of their names
  Synced,             \* those that come from a connector and are not in the list
  Texts,              \* the texts of paragraphs
  Tenants,
  Uploads,            \* what is ingested: records of paragraphs and a tenant
  Seeded,             \* the chunks at the start
  Ingests,            \* ingesting requests in progress
  MaxWrites,          \* bound on the requests that change the corpus
  Dense, Lexical,     \* per text, its similarity to the question and its token overlap
  Rerank,             \* per text, the score of the reranker, in percent
  Jaccard,            \* per pair of texts, the overlap of their words, in percent
  Size,               \* per text, its tokens in a prompt
  Window              \* the tokens that a prompt may have beyond the question's

VARIABLES
  chunks,             \* the chunks, in the order of the dictionary of the store
  resources,          \* the list of documents, the newest first
  ingests,            \* per ingesting request, what it has to store or None
  latest,             \* history: per document, the paragraphs last stored or None
  writes

corpusVars == <<chunks, resources, ingests, latest, writes>>

CorpusInit ==
  /\ chunks = Seeded
  /\ resources = <<>>
  /\ ingests = [r \in Ingests |-> None]
  /\ latest = [d \in Elements(Docs) |-> None]
  /\ writes = 0

Write == writes < MaxWrites /\ writes' = writes + 1

------------------------------------------------------------------------------
(* The store. *)

SameId(c, e) == c.doc = e.doc /\ c.idx = e.idx

\* A chunk whose id is in the store takes the place of the one it replaces.
upsert(store, new) ==
  LET replaced(e) == \E c \in Elements(new) : SameId(c, e)
      added(c) == \A e \in Elements(store) : ~SameId(c, e) IN
  [i \in DOMAIN store |-> IF replaced(store[i])
                          THEN CHOOSE c \in Elements(new) : SameId(c, store[i])
                          ELSE store[i]]
    \o SelectSeq(new, added)

\* The filter asks for a tenant or None; a chunk without a tenant is anybody's.
\* Mutant of Matches: tombstones are not excluded.
Matches_Deleted(c, tenant) == tenant = None \/ c.tenant \in {None, tenant}

Matches(c, tenant) == ~c.deleted /\ (tenant = None \/ c.tenant \in {None, tenant})

Filtered(tenant) == SelectSeq(chunks, LAMBDA c : Matches(c, tenant))

------------------------------------------------------------------------------
(* The routes. *)

\* ingest_document under a name of the user's choice, and upload_document_file,
\* which takes a new one.
ingest_document(r, d, upload) ==
  /\ ingests[r] = None /\ d \notin Synced
  /\ Write
  /\ ingests' = [ingests EXCEPT ![r] = [doc |-> d, upload |-> upload, embedded |-> 0]]
  /\ UNCHANGED <<chunks, resources, latest>>

\* The chunks of a document: one for each paragraph.
NewChunks(d, upload) ==
  [i \in DOMAIN upload.paragraphs |->
     [doc |-> d, idx |-> i, text |-> upload.paragraphs[i], tenant |-> upload.tenant,
      deleted |-> FALSE]]

\* The next paragraph is embedded; after the last one the document is stored.
EmbedParagraph(r) ==
  /\ ingests[r] # None
  /\ LET d == ingests[r].doc
         upload == ingests[r].upload
         k == ingests[r].embedded + 1 IN
     IF k < Len(upload.paragraphs)
     THEN /\ ingests' = [ingests EXCEPT ![r].embedded = k]
          /\ UNCHANGED <<chunks, resources, latest>>
     ELSE /\ ingests' = [ingests EXCEPT ![r] = None]
          /\ chunks' = upsert(chunks, NewChunks(d, upload))
          /\ resources' = <<[id |-> d, content |-> upload]>> \o resources
          /\ latest' = [latest EXCEPT ![d] = upload.paragraphs]
  /\ UNCHANGED writes

EmbedFails(r) ==
  /\ ingests[r] # None
  /\ ingests' = [ingests EXCEPT ![r] = None]
  /\ UNCHANGED <<chunks, resources, latest, writes>>

delete_document(d) ==
  /\ Write
  /\ chunks' = SelectSeq(chunks, LAMBDA c : c.doc # d)
  /\ resources' = SelectSeq(resources, LAMBDA e : e.id # d)
  /\ latest' = [latest EXCEPT ![d] = None]
  /\ UNCHANGED ingests

\* A sync finds that a document is gone.
soft_delete_document(d) ==
  /\ d \in Synced /\ \E c \in Elements(chunks) : c.doc = d /\ ~c.deleted
  /\ chunks' = [i \in DOMAIN chunks |->
                  IF chunks[i].doc = d THEN [chunks[i] EXCEPT !.deleted = TRUE] ELSE chunks[i]]
  /\ UNCHANGED <<resources, ingests, latest, writes>>

CorpusNext ==
  \/ \E r \in Ingests, d \in Elements(Docs), u \in Uploads : ingest_document(r, d, u)
  \/ \E r \in Ingests : EmbedParagraph(r) \/ EmbedFails(r)
  \/ \E d \in Elements(Docs) : delete_document(d) \/ soft_delete_document(d)

------------------------------------------------------------------------------
(* The pipeline. *)

\* The indices of s by falling score of the texts, those of equal texts in order.
By(score, s) ==
  LET before(i, j) == \/ score[s[i].text] > score[s[j].text]
                      \/ score[s[i].text] = score[s[j].text] /\ i < j
      order == SortSeq([i \in DOMAIN s |-> i], before) IN
  [k \in DOMAIN s |-> s[order[k]]]

query_dense(s, n) == First(n, By(Dense, s))

query_lexical(s, n) == First(n, By(Lexical, SelectSeq(s, LAMBDA c : Lexical[c.text] > 0)))

\* 1 / (60 + rank), as a whole number of parts.
Reciprocal(rank) == (61 * 62 * 63 * 64 * 65) \div (60 + rank)

Part(l, c) == IF c \in Elements(l) THEN Reciprocal(CHOOSE i \in DOMAIN l : l[i] = c) ELSE 0

Score(dense, lexical, c) == Part(dense, c) + Part(lexical, c)

\* reciprocal_rank_fusion of two lists; equal scores are in the order of the ids.
Fused(dense, lexical) ==
  LET ranked == dense \o SelectSeq(lexical, LAMBDA c : c \notin Elements(dense))
      place(c) == CHOOSE i \in DOMAIN Docs : Docs[i] = c.doc
      idBelow(c, e) == place(c) < place(e) \/ (c.doc = e.doc /\ c.idx < e.idx)
      above(c, e) == \/ Score(dense, lexical, c) > Score(dense, lexical, e)
                     \/ Score(dense, lexical, c) = Score(dense, lexical, e) /\ idBelow(c, e)
  IN SortSeq(ranked, above)

HalfUp(n) == (n + 1) \div 2

\* The two searches, each for half as many again as are reranked.
Searches(tenant, top) ==
  LET pool == HalfUp(9 * top) IN
  <<query_dense(Filtered(tenant), pool), query_lexical(Filtered(tenant), pool)>>

\* The candidates for the reranker: three times as many as are asked for.
Candidates(dense, lexical, top) == First(3 * top, Fused(dense, lexical))

\* _chunk_content_similarity, in percent.
Similarity(c, e) ==
  LET boost == IF c.doc = e.doc THEN 30 ELSE 0 IN
  Least(100, ((100 - boost) * Jaccard[c.text][e.text]) \div 100 + boost)

Remaining(ranked, chosen) == DOMAIN ranked \ Elements(chosen)

\* maximal_marginal_relevance with lambda 0.7: the best first, then always the one
\* that is most relevant and least like those chosen.
Diverse(ranked, top) ==
  LET rel == [i \in DOMAIN ranked |-> Rerank[ranked[i].text]]
      best(S, v) == CHOOSE i \in S : \A j \in S : v[j] < v[i] \/ (v[j] = v[i] /\ i <= j)
      likest(i, chosen) ==
        LET all == {Similarity(ranked[i], ranked[j]) : j \in Elements(chosen)}
        IN CHOOSE x \in all : \A y \in all : y <= x
      worth(chosen) == [i \in DOMAIN ranked |-> 7 * rel[i] - 3 * likest(i, chosen)]
      next(chosen, k) == Append(chosen, best(Remaining(ranked, chosen), worth(chosen)))
      rounds == [k \in 1..(Least(top, Len(ranked)) - 1) |-> k]
      picked == FoldLeft(next, <<best(DOMAIN ranked, rel)>>, rounds)
  IN IF Len(ranked) <= 1 THEN First(top, ranked)
     ELSE [k \in DOMAIN picked |-> ranked[picked[k]]]

PromptSize(s) == FoldLeft(LAMBDA n, c : n + Size[c.text], 0, s)

\* Chunks are dropped from the end until the prompt fits.
apply_context_budget(s) ==
  LET fitting == {k \in 0..Len(s) : k = 0 \/ PromptSize(First(k, s)) <= Window}
  IN First(CHOOSE k \in fitting : \A j \in fitting : j <= k, s)

------------------------------------------------------------------------------
(* Properties. *)

CorpusTypeOK ==
  /\ \A i \in DOMAIN chunks : /\ chunks[i].doc \in Elements(Docs) /\ chunks[i].text \in Texts
                              /\ chunks[i].deleted \in BOOLEAN
                              /\ \A j \in DOMAIN chunks : SameId(chunks[i], chunks[j]) => i = j
  /\ \A r \in Ingests : ingests[r] # None => ingests[r].embedded < Len(ingests[r].upload.paragraphs)
  /\ writes \in 0..MaxWrites

\* The list of documents and the index agree, however the requests that add and
\* delete the same document interleave: the newest entry of a document tells its
\* paragraphs, every one of which can be searched, and a custom document without
\* an entry has no chunk.  (It may have more chunks than the entry tells: see the
\* README.)
ListingAgrees ==
  \A d \in Elements(Docs) \ Synced :
    LET entries == {i \in DOMAIN resources : resources[i].id = d}
        mine == {c \in Elements(chunks) : c.doc = d} IN
    IF entries = {} THEN mine = {}
    ELSE LET newest == CHOOSE i \in entries : \A j \in entries : i <= j IN
         Elements(NewChunks(d, resources[newest].content)) \subseteq mine
==============================================================================
