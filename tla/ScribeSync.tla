------------------------------ MODULE ScribeSync ------------------------------
(***************************************************************************)
(* The ingestion path of AegisMind: a sync run of the Scribe worker        *)
(* (worker.py) reads the files of the local filesystem connector           *)
(* (connector.py), cuts them into batches, runs every batch as a durable   *)
(* step (workflow_dbos.py) of the ingestion pipeline (pipeline.py) and so  *)
(* replaces the chunks of each document in the vector store                *)
(* (adapters_sqlite_vector.py).                                            *)
(*                                                                         *)
(* Runs are coroutines on one event loop.  The connector, the parser and   *)
(* the vector store return without suspending: a run lets go of the loop   *)
(* only while it awaits the embedder, so that nothing but the end of the   *)
(* process comes between the soft delete of a batch and its upsert.  The   *)
(* files belong to other processes and change at any time.                 *)
(*                                                                         *)
(* A text is the sequence of its chunks.                                   *)
(***************************************************************************)
EXTENDS Integers, FiniteSets, FiniteSetsExt, Sequences, SequencesExt

CONSTANTS
  Runs,         \* run ids
  Files,        \* in the order in which the directory lists them
  Texts,        \* what files can contain, as parsed and chunked
  Remains,      \* what is parsed from a record without content
  Cursors,      \* the content_hashes that callers pass: file |-> text
  BatchSize,
  Faults,       \* the kinds of operations that can fail
  MaxTries,     \* bound on the times a run id is started
  MaxEdits,     \* bound on the edits of files
  MaxFaults     \* bound on the operations that fail, crashes included

Docs  == ToSet(Files)
Piece == UNION {ToSet(t) : t \in Texts \cup {Remains}}

\* A chunk; its id is made of doc, version and index, vector names the piece
\* its embedding was computed from.
Chunk ==
  [doc : Docs, version : Nat, index : Nat, piece : Piece, vector : Piece, live : BOOLEAN]

\* What a connector yields; rev is the revision of the file it was read from.
Record == [doc : Docs, text : Texts \cup {Remains}, rev : Nat]

FaultKinds ==
  {"scan", "read", "parse", "chunk", "embed", "soft_delete", "upsert", "crash"}

ASSUME ScribeAssumption ==
  /\ Files \in Seq(Docs)
  /\ \A i, j \in DOMAIN Files : Files[i] = Files[j] => i = j
  /\ <<>> \notin Texts \cup {Remains}
  /\ \A t \in Texts \cup {Remains} : t \in Seq(Piece)
  /\ \A c \in Cursors : DOMAIN c \subseteq Docs
  /\ BatchSize \in Nat \ {0}
  /\ Faults \subseteq FaultKinds
  /\ MaxTries \in Nat /\ MaxEdits \in Nat /\ MaxFaults \in Nat

VARIABLES
  source, rev,  \* per file, {} or {its text}, and the number of its edits
  chunks,       \* the rows of the vector store
  dlq,          \* the documents that have an item in the dead-letter queue
  steps,        \* engine: per run id, the recorded steps: batch |-> had errors
  known,        \* engine: the run ids it has a WorkflowState of
  pc,           \* per run, where run_sync is
  hashes,       \* per run, content_hashes of the cursor it reads with
  queue, seen,  \* per run, the places in Files yet to visit and the paths seen
  batch, number,                      \* per run, current_batch, batch_number
  docs, prepared, pending, faulty,    \* per run, locals of ingest_records
  errors, report,                     \* per run, all_errors, status of the report
  read, delivered,    \* history: records yielded in this try, indexed in any try
  tries, changed,     \* history: starts of the run, whether its connector may
                      \* yield other records than at the first of them
  settled, shown,     \* history: the text last indexed without error, the
                      \* newest revision that has been upserted
  edits, faults

sourceVars == <<source, rev, edits>>
engineVars == <<steps, known>>
scanVars   == <<hashes, queue, seen, batch, number, read>>
ingestVars == <<docs, prepared, pending, faulty>>
reportVars == <<errors, report>>
indexVars  == <<chunks, settled, shown, delivered>>
tryVars    == <<tries, changed>>
vars == <<sourceVars, indexVars, dlq, engineVars, pc, scanVars, ingestVars, reportVars,
          tryVars, faults>>

Fails(kind) == kind \in Faults /\ faults < MaxFaults /\ faults' = faults + 1

\* No other run holds the event loop.
LoopFree(r) ==
  \A q \in Runs \ {r} : pc[q] = "idle" \/ (pc[q] = "embed" /\ pending[q] # {})

At(r, label) == pc[r] = label /\ LoopFree(r)
Goto(r, label) == pc' = [pc EXCEPT ![r] = label]

------------------------------------------------------------------------------
(* The vector store. *)

SameId(c, d) == c.doc = d.doc /\ c.version = d.version /\ c.index = d.index

\* Mutant of Upserted: a chunk whose id is taken is not written.
Upserted_OrIgnored(new) == chunks \cup {n \in new : \A c \in chunks : ~SameId(c, n)}

\* INSERT ... ON CONFLICT(id) DO UPDATE
Upserted(new) == {c \in chunks : \A n \in new : ~SameId(c, n)} \cup new

SoftDeleted(ds) ==
  {IF c.doc \in ds THEN [c EXCEPT !.live = FALSE] ELSE c : c \in chunks}

GetByDocument(d) == {c \in chunks : c.doc = d /\ c.live}

Indexed(d)     == {<<c.index, c.piece>> : c \in GetByDocument(d)}
Pieces(text)   == {<<i, text[i]>> : i \in DOMAIN text}

------------------------------------------------------------------------------
(* Starting a run and reading the connector. *)

(***************************************************************************)
(* run_sync: a run id the engine knows goes on with the cursor recorded    *)
(* for it and ignores the caller's, but reads the connector from the start.*)
(***************************************************************************)
StartSync(r) ==
  /\ At(r, "idle")
  /\ tries[r] < MaxTries
  /\ tries' = [tries EXCEPT ![r] = @ + 1]
  /\ known' = known \cup {r}
  /\ \/ r \in known /\ UNCHANGED <<hashes, steps, changed, delivered>>
     \/ /\ r \notin known
        /\ \E cursor \in Cursors : hashes' = [hashes EXCEPT ![r] = cursor]
        /\ steps' = [steps EXCEPT ![r] = <<>>]
        /\ changed' = [changed EXCEPT ![r] = FALSE]
        /\ delivered' = [delivered EXCEPT ![r] = {}]
  /\ queue' = [queue EXCEPT ![r] = {i \in DOMAIN Files : source[Files[i]] # {}}]
  /\ seen' = [seen EXCEPT ![r] = {}]
  /\ batch' = [batch EXCEPT ![r] = {}]
  /\ number' = [number EXCEPT ![r] = 1]
  /\ read' = [read EXCEPT ![r] = {}]
  /\ errors' = [errors EXCEPT ![r] = FALSE]
  /\ report' = [report EXCEPT ![r] = "none"]
  /\ Goto(r, "scan")
  /\ UNCHANGED <<sourceVars, chunks, dlq, ingestVars, settled, shown, faults>>

BatchFull(r) == Cardinality(batch[r]) >= BatchSize

Yields(r, record) ==
  /\ batch' = [batch EXCEPT ![r] = @ \cup {record}]
  /\ read' = [read EXCEPT ![r] = @ \cup {record}]

\* detect_change compares the hash with the one in the cursor.
Unchanged(r, f, text) == f \in DOMAIN hashes[r] /\ hashes[r][f] = text

(***************************************************************************)
(* One file of the listing.  A file that has gone is not seen; one that    *)
(* cannot be read is skipped, and the run does not report it.              *)
(***************************************************************************)
VisitFile(r) ==
  /\ At(r, "scan")
  /\ ~BatchFull(r)
  /\ \E i \in queue[r] :
       LET f == Files[i] IN
       /\ \A j \in queue[r] : i <= j
       /\ queue' = [queue EXCEPT ![r] = @ \ {i}]
       /\ \/ source[f] = {} /\ UNCHANGED <<seen, batch, read, changed, faults>>
          \/ /\ source[f] # {}
             /\ seen' = [seen EXCEPT ![r] = @ \cup {f}]
             /\ \/ /\ Fails("read")
                   /\ changed' = [changed EXCEPT ![r] = TRUE]
                   /\ UNCHANGED <<batch, read>>
                \/ /\ \E text \in source[f] :
                        IF Unchanged(r, f, text)
                        THEN UNCHANGED <<batch, read>>
                        ELSE Yields(r, [doc |-> f, text |-> text, rev |-> rev[f]])
                   /\ UNCHANGED <<changed, faults>>
  /\ UNCHANGED <<sourceVars, indexVars, dlq, engineVars, pc, hashes, number,
                 ingestVars, reportVars, tries>>

\* The deletions: the paths of the cursor the listing has not shown.
Missing(r) == IF queue[r] = {} THEN DOMAIN hashes[r] \ seen[r] ELSE {}

\* Mutant of Tombstone: the text is empty as the content is.
Tombstone_Empty(f) == [doc |-> f, text |-> <<>>, rev |-> rev[f]]

\* A tombstone is a record whose content is empty, of which the parser makes
\* a text nevertheless.  The pipeline takes it for a document like any other.
Tombstone(f) == [doc |-> f, text |-> Remains, rev |-> rev[f]]

YieldTombstone(r) ==
  /\ At(r, "scan")
  /\ ~BatchFull(r)
  /\ \E f \in Missing(r) :
       /\ seen' = [seen EXCEPT ![r] = @ \cup {f}]
       /\ Yields(r, Tombstone(f))
  /\ UNCHANGED <<sourceVars, indexVars, dlq, engineVars, pc, hashes, queue, number,
                 ingestVars, reportVars, tryVars, faults>>

ScanEnded(r) == queue[r] = {} /\ Missing(r) = {}

\* The connector raises, as when a file goes between its read and its stat:
\* the batch is dropped and the report says FAILED.
ScanFails(r) ==
  /\ At(r, "scan")
  /\ queue[r] # {} /\ ~BatchFull(r)
  /\ Fails("scan")
  /\ report' = [report EXCEPT ![r] = "FAILED"]
  /\ errors' = [errors EXCEPT ![r] = TRUE]
  /\ Goto(r, "idle")
  /\ UNCHANGED <<sourceVars, indexVars, dlq, engineVars, scanVars, ingestVars,
                 tryVars>>

------------------------------------------------------------------------------
(* One batch: execute_step around ingest_records. *)

BatchReady(r) ==
  /\ At(r, "scan")
  /\ batch[r] # {}
  /\ BatchFull(r) \/ ScanEnded(r)

NextBatch(r, hadErrors) ==
  /\ errors' = [errors EXCEPT ![r] = @ \/ hadErrors]
  /\ batch' = [batch EXCEPT ![r] = {}]
  /\ number' = [number EXCEPT ![r] = @ + 1]

\* Mutant of Recorded: the cached result is not looked at.
Recorded_Clean(r) == FALSE

\* The result of the step recorded under the number of this batch.
Recorded(r) == steps[r][number[r]]

\* A step of that name is on record: its result stands for the batch.
ReplayBatch(r) ==
  /\ BatchReady(r)
  /\ number[r] \in DOMAIN steps[r]
  /\ NextBatch(r, Recorded(r))
  /\ UNCHANGED <<sourceVars, indexVars, dlq, engineVars, pc, hashes, queue, seen,
                 read, ingestVars, report, tryVars, faults>>

Version(d) ==
  IF GetByDocument(d) = {} THEN 1
  ELSE Max({c.version : c \in GetByDocument(d)}) + 1

\* Live chunks of the document with the same content hash.
Reusable(d, i, piece) == {c \in GetByDocument(d) : c.piece = piece}

NewChunk(record, i, vector) ==
  [doc |-> record.doc, version |-> Version(record.doc), index |-> i,
   piece |-> record.text[i], vector |-> vector, live |-> TRUE]

ReusedChunks(records) ==
  UNION {{NewChunk(x, i, (CHOOSE c \in Reusable(x.doc, i, x.text[i]) : TRUE).vector) :
            i \in {k \in DOMAIN x.text : Reusable(x.doc, k, x.text[k]) # {}}} :
         x \in records}

ChunksToEmbed(records) ==
  UNION {{NewChunk(x, i, x.text[i]) :
            i \in {k \in DOMAIN x.text : Reusable(x.doc, k, x.text[k]) = {}}} :
         x \in records}

Enqueue(ds) == dlq' = dlq \cup ds

(***************************************************************************)
(* Parsing, chunking and versioning, up to the call of the embedder.       *)
(* Records that cannot be parsed are enqueued in the DLQ; a document that  *)
(* cannot be chunked is an error and no more, and goes on without chunks.  *)
(***************************************************************************)
PrepareBatch(r) ==
  /\ BatchReady(r)
  /\ number[r] \notin DOMAIN steps[r]
  /\ \E unparsed \in SUBSET batch[r] : \E unchunked \in SUBSET (batch[r] \ unparsed) :
       /\ \/ unparsed = {} /\ unchunked = {} /\ UNCHANGED faults
          \/ unparsed # {} /\ unchunked = {} /\ Fails("parse")
          \/ unparsed = {} /\ unchunked # {} /\ Fails("chunk")
       /\ LET parsed  == batch[r] \ unparsed
              chunked == parsed \ unchunked
          IN /\ docs' = [docs EXCEPT ![r] = parsed]
             /\ prepared' = [prepared EXCEPT ![r] = ReusedChunks(chunked)]
             /\ pending' = [pending EXCEPT ![r] = ChunksToEmbed(chunked)]
       /\ faulty' = [faulty EXCEPT ![r] = unparsed \cup unchunked # {}]
       /\ Enqueue({x.doc : x \in unparsed})
  /\ Goto(r, "embed")
  /\ UNCHANGED <<sourceVars, indexVars, engineVars, scanVars, reportVars, tryVars>>

\* embed_documents, the call that suspends the run.
Embed(r) ==
  /\ At(r, "embed")
  /\ \/ /\ prepared' = [prepared EXCEPT ![r] = @ \cup pending[r]]
        /\ UNCHANGED <<faulty, dlq, faults>>
     \/ /\ pending[r] # {} /\ Fails("embed")
        /\ faulty' = [faulty EXCEPT ![r] = TRUE]
        /\ Enqueue({c.doc : c \in pending[r]})
        /\ UNCHANGED prepared
  /\ pending' = [pending EXCEPT ![r] = {}]
  /\ Goto(r, "replace")
  /\ UNCHANGED <<sourceVars, indexVars, engineVars, scanVars, docs, reportVars,
                 tryVars>>

\* The old chunks of every parsed document go, those included whose new
\* chunks could not be made.
SoftDelete(r) ==
  /\ At(r, "replace")
  /\ \E kept \in SUBSET docs[r] :
       /\ \/ kept = {} /\ UNCHANGED <<faulty, faults>>
          \/ /\ kept # {} /\ Fails("soft_delete")
             /\ faulty' = [faulty EXCEPT ![r] = TRUE]
       /\ chunks' = SoftDeleted({x.doc : x \in docs[r] \ kept})
  /\ settled' = [f \in Docs |-> IF \E x \in docs[r] : x.doc = f THEN {} ELSE settled[f]]
  /\ Goto(r, "upsert")
  /\ UNCHANGED <<sourceVars, shown, delivered, dlq, engineVars, scanVars, docs,
                 prepared, pending, reportVars, tryVars>>

RecordStep(r, hadErrors) ==
  steps' = [steps EXCEPT ![r] =
              [n \in DOMAIN @ \cup {number[r]} |->
                 IF n = number[r] THEN hadErrors ELSE @[n]]]

\* Whether all chunks of a record are among those to be indexed.
Complete(r, x) ==
  \A i \in DOMAIN x.text :
    \E c \in prepared[r] : c.doc = x.doc /\ c.index = i /\ c.piece = x.text[i]

\* The new chunks are indexed and the step is recorded with its result.
Upsert(r) ==
  /\ At(r, "upsert")
  /\ \/ /\ chunks' = Upserted(prepared[r])
        /\ LET whole == {x \in docs[r] : Complete(r, x)} IN
           /\ delivered' = [delivered EXCEPT ![r] = @ \cup whole]
           /\ shown' = [f \in Docs |-> IF \E x \in whole : x.doc = f
                                       THEN (CHOOSE x \in whole : x.doc = f).rev
                                       ELSE shown[f]]
           /\ settled' = IF faulty[r] THEN settled
                         ELSE [f \in Docs |-> LET xs == {x \in whole : x.doc = f}
                                              IN IF xs = {} THEN settled[f]
                                                 ELSE {x.text : x \in xs}]
        /\ RecordStep(r, faulty[r])
        /\ NextBatch(r, faulty[r])
        /\ UNCHANGED <<dlq, faults>>
     \/ /\ prepared[r] # {} /\ Fails("upsert")
        /\ Enqueue({c.doc : c \in prepared[r]})
        /\ RecordStep(r, TRUE)
        /\ NextBatch(r, TRUE)
        /\ UNCHANGED indexVars
  /\ docs' = [docs EXCEPT ![r] = {}]
  /\ prepared' = [prepared EXCEPT ![r] = {}]
  /\ faulty' = [faulty EXCEPT ![r] = FALSE]
  /\ Goto(r, "scan")
  /\ UNCHANGED <<sourceVars, known, hashes, queue, seen, read, pending, report,
                 tryVars>>

CompleteSync(r) ==
  /\ At(r, "scan")
  /\ ScanEnded(r) /\ batch[r] = {}
  /\ report' = [report EXCEPT ![r] = "COMPLETED"]
  /\ Goto(r, "idle")
  /\ UNCHANGED <<sourceVars, indexVars, dlq, engineVars, scanVars, ingestVars,
                 errors, tryVars, faults>>

------------------------------------------------------------------------------
\* Another process writes, creates or deletes a file.
EditFile(f) ==
  /\ edits < MaxEdits
  /\ edits' = edits + 1
  /\ \E now \in {{}} \cup {{t} : t \in Texts} :
       now # source[f] /\ source' = [source EXCEPT ![f] = now]
  /\ rev' = [rev EXCEPT ![f] = @ + 1]
  /\ changed' = [r \in Runs |-> TRUE]
  /\ UNCHANGED <<indexVars, dlq, engineVars, pc, scanVars, ingestVars, reportVars,
                 tries, faults>>

\* The process ends and is started again: only the vector store is on disk.
Crash ==
  /\ \E r \in Runs : pc[r] # "idle"
  /\ Fails("crash")
  /\ pc' = [r \in Runs |-> "idle"]
  /\ known' = {}
  /\ steps' = [r \in Runs |-> <<>>]
  /\ dlq' = {}
  /\ docs' = [r \in Runs |-> {}]
  /\ prepared' = [r \in Runs |-> {}]
  /\ pending' = [r \in Runs |-> {}]
  /\ faulty' = [r \in Runs |-> FALSE]
  /\ errors' = [r \in Runs |-> FALSE]
  /\ report' = [r \in Runs |-> "none"]
  /\ UNCHANGED <<sourceVars, indexVars, scanVars, tryVars>>

Init ==
  /\ source \in [Docs -> {{}} \cup {{t} : t \in Texts}]
  /\ rev = [f \in Docs |-> 0]
  /\ chunks = {}
  /\ dlq = {}
  /\ steps = [r \in Runs |-> <<>>]
  /\ known = {}
  /\ pc = [r \in Runs |-> "idle"]
  /\ hashes = [r \in Runs |-> <<>>]
  /\ queue = [r \in Runs |-> {}]
  /\ seen = [r \in Runs |-> {}]
  /\ batch = [r \in Runs |-> {}]
  /\ number = [r \in Runs |-> 1]
  /\ docs = [r \in Runs |-> {}]
  /\ prepared = [r \in Runs |-> {}]
  /\ pending = [r \in Runs |-> {}]
  /\ faulty = [r \in Runs |-> FALSE]
  /\ errors = [r \in Runs |-> FALSE]
  /\ report = [r \in Runs |-> "none"]
  /\ read = [r \in Runs |-> {}]
  /\ delivered = [r \in Runs |-> {}]
  /\ tries = [r \in Runs |-> 0]
  /\ changed = [r \in Runs |-> FALSE]
  /\ settled = [f \in Docs |-> {}]
  /\ shown = [f \in Docs |-> 0]
  /\ edits = 0 /\ faults = 0

SyncStep(r) ==
  \/ StartSync(r) \/ VisitFile(r) \/ YieldTombstone(r) \/ ScanFails(r)
  \/ ReplayBatch(r) \/ PrepareBatch(r) \/ Embed(r) \/ SoftDelete(r) \/ Upsert(r)
  \/ CompleteSync(r)

Next ==
  \/ \E r \in Runs : SyncStep(r)
  \/ \E f \in Docs : EditFile(f)
  \/ Crash

Spec == Init /\ [][Next]_vars

------------------------------------------------------------------------------
TypeOK ==
  /\ source \in [Docs -> SUBSET Texts] /\ rev \in [Docs -> Nat]
  /\ chunks \subseteq Chunk
  /\ dlq \subseteq Docs /\ known \subseteq Runs
  /\ \A r \in Runs : steps[r] \in [DOMAIN steps[r] -> BOOLEAN] /\ DOMAIN steps[r] \subseteq Nat
  /\ pc \in [Runs -> {"idle", "scan", "embed", "replace", "upsert"}]
  /\ queue \in [Runs -> SUBSET DOMAIN Files] /\ seen \in [Runs -> SUBSET Docs]
  /\ batch \in [Runs -> SUBSET Record] /\ number \in [Runs -> Nat]
  /\ docs \in [Runs -> SUBSET Record] /\ prepared \in [Runs -> SUBSET Chunk]
  /\ pending \in [Runs -> SUBSET Chunk] /\ faulty \in [Runs -> BOOLEAN]
  /\ errors \in [Runs -> BOOLEAN] /\ report \in [Runs -> {"none", "COMPLETED", "FAILED"}]

\* Once a batch has gone through without an error, the live chunks of each of
\* its documents are its text and nothing else, until the document is ingested
\* again: whatever other runs prepare from an older state of the index in the
\* meantime, and although version numbers start over when a document has lost
\* all its live chunks.
IndexSettled ==
  \A f \in Docs : \A text \in settled[f] : Indexed(f) = Pieces(text)

\* The embedding of a chunk is that of its own content, also when it has been
\* taken over from another version by content hash.
VectorsMatch == \A c \in chunks : c.live => c.vector = c.piece

Clean(r)    == report[r] = "COMPLETED" /\ ~errors[r]
Repeated(r) == tries[r] > 1 /\ changed[r]

\* What a run that reports success without an error has read, it has indexed,
\* in this try or, by the recorded steps, in an earlier one.  A repeated run
\* id whose files have changed is the exception: the recorded steps are taken
\* by number, whatever is in the batch now.
CleanReportDelivered ==
  \A r \in Runs : Clean(r) /\ ~Repeated(r) => read[r] \subseteq delivered[r]

\* A run that reports success without an error while no file changes has
\* indexed every file that differs from the caller's cursor.
CleanRunCoversSource ==
  \A r \in Runs : Clean(r) /\ ~changed[r] =>
    \A f \in Docs : \A text \in source[f] :
      \/ f \in DOMAIN hashes[r] /\ hashes[r][f] = text
      \/ \E x \in delivered[r] : x.doc = f /\ x.text = text

\* Failed ingestion records are captured in the DLQ (README.md): what a run
\* has read and not indexed has an item there.
FailuresQueued ==
  \A r \in Runs : report[r] = "COMPLETED" /\ ~Repeated(r) =>
    \A x \in read[r] \ delivered[r] : x.doc \in dlq

\* The old chunks of a document are replaced by the new ones atomically
\* (pipeline.py, docs/architecture/consistency_model.md): a document that has
\* been indexed is found with a whole text.
WholeDocuments ==
  \A f \in Docs :
    (\E c \in chunks : c.doc = f) /\ (\A r \in Runs : pc[r] # "upsert") =>
      \E text \in Texts \cup {Remains} : Indexed(f) = Pieces(text)

\* A document update reflects only the latest version in search results
\* (docs/architecture/consistency_model.md): no run puts an older revision of
\* a file in the place of a newer one.
NewestStays == [][\A f \in Docs : shown'[f] >= shown[f]]_vars

\* After clean batches the index holds each document as it was last indexed, and every
\* vector belongs to its chunk.
IndexSound == IndexSettled /\ VectorsMatch

\* A report tells the truth: without an error everything read is indexed and everything
\* that had changed is read; what is read and not indexed is in the dead-letter queue.
ReportsSound == CleanReportDelivered /\ CleanRunCoversSource /\ FailuresQueued
==============================================================================
