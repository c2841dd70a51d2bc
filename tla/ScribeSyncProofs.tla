--------------------------- MODULE ScribeSyncProofs ---------------------------
(***************************************************************************)
(* Proofs about ScribeSync: the types of its state, that the index holds   *)
(* each document as its last clean batch has left it, and that the reports *)
(* of runs tell the truth, for any number of runs, tries, files, crashes,  *)
(* faults and edits and for batches of any size.                           *)
(***************************************************************************)
EXTENDS ScribeSync, FiniteSetTheorems, TLAPS

\* Tables over runs, and cursors that name files of the directory.
TablesTotal ==
  /\ DOMAIN steps = Runs /\ DOMAIN hashes = Runs
  /\ \A r \in Runs : DOMAIN hashes[r] \subseteq Docs

\* No batch lasts for ever: the version numbers in use have a bound.
InUse == chunks \cup UNION {prepared[r] \cup pending[r] : r \in Runs}

VersionsBounded == \E b \in Nat : \A c \in InUse : c.version <= b

\* A run reads a file once: no two records of a batch are of one document.
OncePerDocument ==
  /\ \A r \in Runs : \A i \in queue[r] : Files[i] \notin seen[r]
  /\ \A r \in Runs : \A x \in batch[r] : x.doc \in seen[r]
  /\ \A r \in Runs : \A x, y \in batch[r] : x.doc = y.doc => x = y
  /\ \A r \in Runs : \A x, y \in docs[r] : x.doc = y.doc => x = y

\* A chunk that has been made for a record of the batch.
MadeOf(c, x) ==
  /\ c.doc = x.doc /\ c.index \in DOMAIN x.text
  /\ c.piece = x.text[c.index] /\ c.vector = c.piece /\ c.live

\* What is to be upserted is made of the records of the batch.
MadeFromBatch ==
  /\ VectorsMatch
  /\ \A r \in Runs : \A c \in prepared[r] \cup pending[r] : \E x \in docs[r] : MadeOf(c, x)
  /\ \A r \in Runs : pc[r] # "embed" => pending[r] = {}

\* Between the soft delete of a batch and its upsert.
Replacing ==
  \A r \in Runs : pc[r] = "upsert" =>
    \A x \in docs[r] : settled[x.doc] = {} /\ (~faulty[r] => GetByDocument(x.doc) = {})

SyncInv ==
  /\ TypeOK /\ TablesTotal /\ VersionsBounded /\ OncePerDocument /\ MadeFromBatch
  /\ Replacing /\ IndexSettled

------------------------------------------------------------------------------
(* The largest of some numbers that have a bound. *)

LEMMA OrderWellFounded ==
  \E R : (\A a, b \in Nat : <<a, b>> \in R <=> a < b) /\ IsWellFoundedOn(R, Nat)
<1>1. \A a, b \in Nat : <<a, b>> \in OpToRel(<, Nat) <=> a < b
  BY DEF OpToRel
<1>2. QED
  BY <1>1, NatLessThanWellFounded, Zenon

LEMMA HasMinimum ==
  ASSUME NEW R, IsWellFoundedOn(R, Nat), NEW S \in SUBSET Nat, S # {}
  PROVE  \E k \in S : \A j \in S : ~ (<<j, k>> \in R)
<1>1. S \subseteq Nat
  OBVIOUS
<1>2. QED
  BY <1>1, WFMin, Zenon

LEMMA LeastNumber ==
  ASSUME NEW S \in SUBSET Nat, S # {}
  PROVE  \E k \in S : \A j \in S : k <= j
<1>1. PICK R : (\A a, b \in Nat : <<a, b>> \in R <=> a < b) /\ IsWellFoundedOn(R, Nat)
  BY OrderWellFounded
<1>2. PICK k \in S : \A j \in S : ~ (<<j, k>> \in R)
  BY <1>1, HasMinimum
<1>3. ASSUME NEW j \in S PROVE k <= j
  <2>1. k \in Nat /\ j \in Nat /\ ~ (j < k)
    BY <1>1, <1>2
  <2>2. QED
    BY <2>1
<1>4. QED
  BY <1>3

\* Max is what it says for numbers that have a bound: their least bound is one of them.
LEMMA MaxOfBounded ==
  ASSUME NEW S \in SUBSET Nat, S # {}, NEW b \in Nat, \A n \in S : n <= b
  PROVE  Max(S) \in S
<1> DEFINE uppers == {u \in Nat : \A n \in S : n <= u}
<1>1. uppers \in SUBSET Nat /\ uppers # {}
  OBVIOUS
<1>2. PICK u \in uppers : \A v \in uppers : u <= v
  <2> HIDE DEF uppers
  <2> QED BY <1>1, LeastNumber
<1>3. u \in S
  <2>1. SUFFICES ASSUME u \notin S PROVE FALSE
    OBVIOUS
  <2>2. \A n \in S : n \in Nat /\ n < u
    BY <2>1
  <2>3. PICK n \in S : TRUE
    OBVIOUS
  <2>4. u \in Nat /\ n \in Nat /\ n < u
    BY <2>2
  <2>5. u - 1 \in Nat
    BY <2>4
  <2>6. \A m \in S : m <= u - 1
    BY <2>2, <2>4
  <2>7. u <= u - 1
    BY <1>2, <2>5, <2>6
  <2>8. QED
    BY <2>4, <2>7
<1>4. \A n \in S : u >= n
  BY <1>2
<1>5. QED
  BY <1>3, <1>4 DEF Max

------------------------------------------------------------------------------
(* What is made of the records of a batch. *)

LEMMA VersionsGrowByOne ==
  ASSUME chunks \subseteq Chunk, NEW b \in Nat, \A c \in chunks : c.version <= b, NEW d
  PROVE  Version(d) \in Nat /\ Version(d) <= b + 1
<1> DEFINE S == {c.version : c \in GetByDocument(d)}
<1>1. CASE GetByDocument(d) = {}
  BY <1>1 DEF Version
<1>2. CASE GetByDocument(d) # {}
  <2>1. S \in SUBSET Nat /\ S # {} /\ \A n \in S : n <= b
    BY <1>2 DEF GetByDocument, Chunk
  <2>2. Version(d) = Max(S) + 1
    BY <1>2 DEF Version
  <2> HIDE DEF S
  <2>3. Max(S) \in S
    BY <2>1, MaxOfBounded
  <2>4. \A n \in Nat : n <= b => n + 1 \in Nat /\ n + 1 <= b + 1
    OBVIOUS
  <2>5. Max(S) \in Nat /\ Max(S) <= b
    BY <2>1, <2>3
  <2>6. QED
    BY <2>2, <2>4, <2>5
<1>3. QED
  BY <1>1, <1>2

\* A chunk taken over by its hash is like one whose embedding is computed anew.
LEMMA ChunksAreNew ==
  ASSUME VectorsMatch, NEW records, NEW c \in ReusedChunks(records) \cup ChunksToEmbed(records)
  PROVE  \E x \in records : \E i \in DOMAIN x.text : c = NewChunk(x, i, x.text[i])
<1>1. CASE c \in ReusedChunks(records)
  <2>1. PICK x \in records :
          \E i \in {k \in DOMAIN x.text : Reusable(x.doc, k, x.text[k]) # {}} :
            c = NewChunk(x, i, (CHOOSE e \in Reusable(x.doc, i, x.text[i]) : TRUE).vector)
    BY <1>1 DEF ReusedChunks
  <2>2. PICK i \in DOMAIN x.text :
          /\ Reusable(x.doc, i, x.text[i]) # {}
          /\ c = NewChunk(x, i, (CHOOSE e \in Reusable(x.doc, i, x.text[i]) : TRUE).vector)
    BY <2>1
  <2> DEFINE old == CHOOSE e \in Reusable(x.doc, i, x.text[i]) : TRUE
  <2>3. old \in Reusable(x.doc, i, x.text[i])
    BY <2>2
  <2>4. old.vector = x.text[i]
    BY <2>3 DEF Reusable, GetByDocument, VectorsMatch
  <2>5. QED
    BY <2>2, <2>4
<1>2. CASE c \in ChunksToEmbed(records)
  BY <1>2 DEF ChunksToEmbed
<1>3. QED
  BY <1>1, <1>2

LEMMA NewChunkFields ==
  ASSUME NEW x \in Record, NEW i \in DOMAIN x.text, NEW b \in Nat,
         Version(x.doc) \in Nat, Version(x.doc) <= b
  PROVE  LET c == NewChunk(x, i, x.text[i]) IN
         c \in Chunk /\ MadeOf(c, x) /\ c.version <= b
<1>1. x.doc \in Docs /\ x.text \in Seq(Piece)
  BY ScribeAssumption DEF Record
<1>2. i \in Nat /\ x.text[i] \in Piece
  BY <1>1
<1>3. NewChunk(x, i, x.text[i]) \in Chunk
  BY <1>1, <1>2 DEF NewChunk, Chunk
<1>4. QED
  BY <1>3 DEF NewChunk, MadeOf

LEMMA BatchMadeWell ==
  ASSUME chunks \subseteq Chunk, VectorsMatch, NEW b \in Nat, \A c \in chunks : c.version <= b,
         NEW records \in SUBSET Record,
         NEW c \in ReusedChunks(records) \cup ChunksToEmbed(records)
  PROVE  c \in Chunk /\ c.version <= b + 1 /\ \E x \in records : MadeOf(c, x)
<1>1. PICK x \in records : \E i \in DOMAIN x.text : c = NewChunk(x, i, x.text[i])
  BY ChunksAreNew
<1>2. PICK i \in DOMAIN x.text : c = NewChunk(x, i, x.text[i])
  BY <1>1
<1>3. Version(x.doc) \in Nat /\ Version(x.doc) <= b + 1
  BY VersionsGrowByOne
<1>4. QED
  BY <1>2, <1>3, NewChunkFields

------------------------------------------------------------------------------
(* Types. *)

TypesHold == TypeOK /\ TablesTotal

LEMMA InitTyped == Init => TypesHold
<1> SUFFICES ASSUME Init PROVE TypesHold
  OBVIOUS
<1>1. source \in [Docs -> SUBSET Texts]
  BY DEF Init
<1>2. QED
  BY <1>1 DEF Init, TypesHold, TypeOK, TablesTotal

LEMMA StartTyped == ASSUME TypesHold, NEW r \in Runs, StartSync(r) PROVE TypesHold'
<1> USE DEF TypesHold
<1>1. TablesTotal' /\ (known \subseteq Runs)' /\ (dlq \subseteq Docs)'
  BY ScribeAssumption DEF StartSync, TypeOK, TablesTotal, At, Goto, sourceVars, engineVars, scanVars, ingestVars, reportVars, indexVars, tryVars
<1>2. \A q \in Runs : steps'[q] = steps[q] \/ steps'[q] = <<>>
  BY DEF StartSync, TypeOK, TablesTotal, At, Goto, sourceVars, engineVars, scanVars, ingestVars, reportVars, indexVars, tryVars
<1>3. \A q \in Runs : steps'[q] \in [DOMAIN steps'[q] -> BOOLEAN] /\ DOMAIN steps'[q] \subseteq Nat
  <2>1. \A s : s = <<>> => s \in [DOMAIN s -> BOOLEAN] /\ DOMAIN s \subseteq Nat
    OBVIOUS
  <2>2. \A q \in Runs : steps[q] \in [DOMAIN steps[q] -> BOOLEAN] /\ DOMAIN steps[q] \subseteq Nat
    BY DEF TypeOK
  <2> HIDE DEF TypesHold
  <2>3. QED
    BY <1>2, <2>1, <2>2, Zenon
<1>4. queue' \in [Runs -> SUBSET DOMAIN Files] /\ seen' \in [Runs -> SUBSET Docs]
  BY DEF StartSync, TypeOK
<1>5. /\ batch' \in [Runs -> SUBSET Record] /\ number' \in [Runs -> Nat]
      /\ errors' \in [Runs -> BOOLEAN] /\ report' \in [Runs -> {"none", "COMPLETED", "FAILED"}]
      /\ pc' \in [Runs -> {"idle", "scan", "embed", "replace", "upsert"}]
  BY DEF StartSync, TypeOK, Goto
<1>6. UNCHANGED <<source, rev, chunks, dlq, docs, prepared, pending, faulty>>
  BY DEF StartSync, sourceVars, ingestVars
<1>7. QED
  BY <1>1, <1>3, <1>4, <1>5, <1>6 DEF TypeOK

LEMMA VisitTyped == ASSUME TypesHold, NEW r \in Runs, VisitFile(r) PROVE TypesHold'
<1> USE DEF TypesHold
<1>1. PICK i \in queue[r] :
        /\ queue' = [queue EXCEPT ![r] = @ \ {i}]
        /\ \/ UNCHANGED <<seen, batch>>
           \/ /\ seen' = [seen EXCEPT ![r] = @ \cup {Files[i]}]
              /\ \/ UNCHANGED batch
                 \/ \E text \in source[Files[i]] :
                      batch' = [batch EXCEPT ![r] =
                                  @ \cup {[doc |-> Files[i], text |-> text, rev |-> rev[Files[i]]]}]
  BY DEF VisitFile, Yields
<1>2. Files[i] \in Docs
  BY <1>1 DEF Docs, ToSet, TypeOK
<1>3. \A text \in source[Files[i]] :
        [doc |-> Files[i], text |-> text, rev |-> rev[Files[i]]] \in Record
  BY <1>2 DEF Record, TypeOK
<1>4. queue' \in [Runs -> SUBSET DOMAIN Files] /\ seen' \in [Runs -> SUBSET Docs]
  BY <1>1, <1>2 DEF TypeOK
<1>5. batch' \in [Runs -> SUBSET Record]
  BY <1>1, <1>3 DEF TypeOK
<1>6. QED
  BY <1>4, <1>5 DEF VisitFile, TypeOK, TablesTotal, At, Goto, sourceVars, engineVars, scanVars, ingestVars, reportVars, indexVars, tryVars

LEMMA TombstoneTyped == ASSUME TypesHold, NEW r \in Runs, YieldTombstone(r) PROVE TypesHold'
<1> USE DEF TypesHold
<1>1. PICK f \in Missing(r) :
        seen' = [seen EXCEPT ![r] = @ \cup {f}] /\ Yields(r, Tombstone(f))
  BY DEF YieldTombstone
<1>2. f \in Docs
  BY DEF Missing, TablesTotal
<1>3. Tombstone(f) \in Record
  BY <1>2 DEF Tombstone, Record, TypeOK
<1>4. seen' \in [Runs -> SUBSET Docs] /\ batch' \in [Runs -> SUBSET Record]
  BY <1>1, <1>2, <1>3 DEF Yields, TypeOK
<1>5. QED
  BY <1>4 DEF YieldTombstone, TypeOK, TablesTotal, At, Goto, sourceVars, engineVars, scanVars, ingestVars, reportVars, indexVars, tryVars

LEMMA ScanFailsTyped == ASSUME TypesHold, NEW r \in Runs, ScanFails(r) PROVE TypesHold'
BY DEF TypesHold, ScanFails, TypeOK, TablesTotal, At, Goto, sourceVars, engineVars, scanVars, ingestVars, reportVars, indexVars, tryVars

\* A batch ends with a flag that is TRUE or FALSE.
LEMMA NextBatchTyped ==
  ASSUME TypeOK, NEW r \in Runs, NEW b \in BOOLEAN, NextBatch(r, b)
  PROVE  /\ errors' \in [Runs -> BOOLEAN] /\ batch' \in [Runs -> SUBSET Record]
         /\ number' \in [Runs -> Nat]
<1>1. (errors[r] \/ b) \in BOOLEAN
  BY DEF TypeOK
<1>2. errors' \in [Runs -> BOOLEAN]
  BY <1>1 DEF TypeOK, NextBatch
<1>3. QED
  BY <1>2 DEF TypeOK, NextBatch

LEMMA ReplayTyped == ASSUME TypesHold, NEW r \in Runs, ReplayBatch(r) PROVE TypesHold'
<1> USE DEF TypesHold
<1>1. Recorded(r) \in BOOLEAN
  BY DEF ReplayBatch, Recorded, TypeOK
<1>2. NextBatch(r, Recorded(r))
  BY DEF ReplayBatch
<1>3. /\ errors' \in [Runs -> BOOLEAN] /\ batch' \in [Runs -> SUBSET Record]
      /\ number' \in [Runs -> Nat]
  BY <1>1, <1>2, NextBatchTyped
<1>4. QED
  BY <1>3 DEF ReplayBatch, TypeOK, TablesTotal, At, Goto, sourceVars, engineVars, scanVars, ingestVars, reportVars, indexVars, tryVars

\* What PrepareBatch does to the locals of ingest_records.
LEMMA Prepares ==
  ASSUME NEW r \in Runs, PrepareBatch(r)
  PROVE  \E parsed \in SUBSET batch[r] : \E chunked \in SUBSET parsed : \E flag \in BOOLEAN :
           /\ docs' = [docs EXCEPT ![r] = parsed]
           /\ prepared' = [prepared EXCEPT ![r] = ReusedChunks(chunked)]
           /\ pending' = [pending EXCEPT ![r] = ChunksToEmbed(chunked)]
           /\ faulty' = [faulty EXCEPT ![r] = flag]
           /\ dlq' = dlq \cup {x.doc : x \in batch[r] \ parsed}
<1>1. PICK unparsed \in SUBSET batch[r] : \E unchunked \in SUBSET (batch[r] \ unparsed) :
        /\ LET parsed == batch[r] \ unparsed
               chunked == parsed \ unchunked
           IN /\ docs' = [docs EXCEPT ![r] = parsed]
              /\ prepared' = [prepared EXCEPT ![r] = ReusedChunks(chunked)]
              /\ pending' = [pending EXCEPT ![r] = ChunksToEmbed(chunked)]
        /\ faulty' = [faulty EXCEPT ![r] = unparsed \cup unchunked # {}]
        /\ Enqueue({x.doc : x \in unparsed})
  BY DEF PrepareBatch
<1>2. PICK unchunked \in SUBSET (batch[r] \ unparsed) :
        /\ LET parsed == batch[r] \ unparsed
               chunked == parsed \ unchunked
           IN /\ docs' = [docs EXCEPT ![r] = parsed]
              /\ prepared' = [prepared EXCEPT ![r] = ReusedChunks(chunked)]
              /\ pending' = [pending EXCEPT ![r] = ChunksToEmbed(chunked)]
        /\ faulty' = [faulty EXCEPT ![r] = unparsed \cup unchunked # {}]
        /\ Enqueue({x.doc : x \in unparsed})
  BY <1>1
<1> DEFINE parsed == batch[r] \ unparsed
           chunked == parsed \ unchunked
           flag == unparsed \cup unchunked # {}
<1>3. parsed \in SUBSET batch[r] /\ chunked \in SUBSET parsed /\ flag \in BOOLEAN
  OBVIOUS
<1>4. unparsed = batch[r] \ parsed
  OBVIOUS
<1>5. /\ docs' = [docs EXCEPT ![r] = parsed]
      /\ prepared' = [prepared EXCEPT ![r] = ReusedChunks(chunked)]
      /\ pending' = [pending EXCEPT ![r] = ChunksToEmbed(chunked)]
      /\ faulty' = [faulty EXCEPT ![r] = flag]
      /\ dlq' = dlq \cup {x.doc : x \in batch[r] \ parsed}
  BY <1>2, <1>4 DEF Enqueue
<1> HIDE DEF parsed, chunked, flag
<1>6. QED
  BY <1>3, <1>5

LEMMA PrepareTyped ==
  ASSUME SyncInv, NEW r \in Runs, PrepareBatch(r)
  PROVE  TypesHold' /\ VersionsBounded'
<1> USE DEF SyncInv, TypesHold
<1>1. PICK parsed \in SUBSET batch[r] : \E chunked \in SUBSET parsed : \E flag \in BOOLEAN :
        /\ docs' = [docs EXCEPT ![r] = parsed]
        /\ prepared' = [prepared EXCEPT ![r] = ReusedChunks(chunked)]
        /\ pending' = [pending EXCEPT ![r] = ChunksToEmbed(chunked)]
        /\ faulty' = [faulty EXCEPT ![r] = flag]
        /\ dlq' = dlq \cup {x.doc : x \in batch[r] \ parsed}
  BY Prepares
<1>2. PICK chunked \in SUBSET parsed, flag \in BOOLEAN :
        /\ docs' = [docs EXCEPT ![r] = parsed]
        /\ prepared' = [prepared EXCEPT ![r] = ReusedChunks(chunked)]
        /\ pending' = [pending EXCEPT ![r] = ChunksToEmbed(chunked)]
        /\ faulty' = [faulty EXCEPT ![r] = flag]
        /\ dlq' = dlq \cup {x.doc : x \in batch[r] \ parsed}
  BY <1>1
<1>3. PICK b \in Nat : /\ \A c \in chunks : c.version <= b
                       /\ \A q \in Runs : \A c \in prepared[q] \cup pending[q] : c.version <= b
  BY DEF VersionsBounded, InUse
<1>4. batch[r] \subseteq Record /\ chunked \in SUBSET Record /\ chunks \subseteq Chunk
  BY <1>1, <1>2 DEF TypeOK
<1>5. \A c \in ReusedChunks(chunked) \cup ChunksToEmbed(chunked) :
        c \in Chunk /\ c.version <= b + 1
  BY <1>3, <1>4, BatchMadeWell DEF MadeFromBatch
<1>6. dlq' \subseteq Docs
  BY <1>2, <1>4 DEF TypeOK, Record
<1>7. /\ docs' \in [Runs -> SUBSET Record] /\ faulty' \in [Runs -> BOOLEAN]
      /\ prepared' \in [Runs -> SUBSET Chunk] /\ pending' \in [Runs -> SUBSET Chunk]
  BY <1>2, <1>4, <1>5 DEF TypeOK
<1>8. TypesHold'
  BY <1>6, <1>7 DEF PrepareBatch, TypeOK, TablesTotal, At, Goto, sourceVars, engineVars, scanVars, ingestVars, reportVars, indexVars, tryVars
<1>9. VersionsBounded'
  <2>1. UNCHANGED chunks
    BY DEF PrepareBatch, indexVars
  <2>2. \A c \in chunks' : c.version <= b + 1
    BY <1>3, <2>1, <1>4 DEF Chunk
  <2>3. ASSUME NEW q \in Runs, NEW c \in prepared'[q] \cup pending'[q] PROVE c.version <= b + 1
    <3>1. CASE q = r
      BY <1>2, <1>5, <2>3, <3>1 DEF TypeOK
    <3>2. CASE q # r
      <4>1. c \in prepared[q] \cup pending[q]
        BY <1>2, <2>3, <3>2 DEF TypeOK
      <4>2. c.version \in Nat /\ c.version <= b
        BY <1>3, <4>1 DEF TypeOK, Chunk
      <4>3. QED
        BY <4>2
    <3>3. QED
      BY <3>1, <3>2
  <2>4. b + 1 \in Nat
    OBVIOUS
  <2>5. QED
    BY <2>2, <2>3, <2>4 DEF VersionsBounded, InUse
<1>10. QED
  BY <1>8, <1>9

LEMMA EmbedTyped == ASSUME TypesHold, NEW r \in Runs, Embed(r) PROVE TypesHold'
<1> USE DEF TypesHold
<1>1. prepared' \in [Runs -> SUBSET Chunk] /\ pending' \in [Runs -> SUBSET Chunk]
  BY DEF Embed, TypeOK
<1>2. dlq' \subseteq Docs
  BY DEF Embed, Enqueue, TypeOK, Chunk
<1>3. faulty' \in [Runs -> BOOLEAN]
  BY DEF Embed, TypeOK
<1>4. QED
  BY <1>1, <1>2, <1>3 DEF Embed, TypeOK, TablesTotal, At, Goto, sourceVars, engineVars, scanVars, ingestVars, reportVars, indexVars, tryVars

LEMMA SoftDeletedTyped ==
  ASSUME chunks \subseteq Chunk, NEW ds, NEW c \in SoftDeleted(ds)
  PROVE  /\ c \in Chunk
         /\ \E e \in chunks : /\ c.doc = e.doc /\ c.version = e.version /\ c.index = e.index
                              /\ c.piece = e.piece /\ c.vector = e.vector
                              /\ (c.live <=> e.live /\ e.doc \notin ds)
<1>1. PICK e \in chunks : c = IF e.doc \in ds THEN [e EXCEPT !.live = FALSE] ELSE e
  BY DEF SoftDeleted
<1>2. QED
  BY <1>1 DEF Chunk

LEMMA SoftDeleteTyped == ASSUME TypesHold, NEW r \in Runs, SoftDelete(r) PROVE TypesHold'
<1> USE DEF TypesHold
<1>1. PICK kept \in SUBSET docs[r] : chunks' = SoftDeleted({x.doc : x \in docs[r] \ kept})
  BY DEF SoftDelete
<1>2. chunks' \subseteq Chunk
  BY <1>1, SoftDeletedTyped DEF TypeOK
<1>3. faulty' \in [Runs -> BOOLEAN]
  BY DEF SoftDelete, TypeOK
<1>4. QED
  BY <1>2, <1>3 DEF SoftDelete, TypeOK, TablesTotal, At, Goto, sourceVars, engineVars, scanVars, ingestVars, reportVars, indexVars, tryVars

LEMMA UpsertTyped == ASSUME TypesHold, NEW r \in Runs, Upsert(r) PROVE TypesHold'
<1> USE DEF TypesHold
<1>1. chunks' \subseteq Chunk /\ dlq' \subseteq Docs
  <2>1. \A c \in prepared[r] : c \in Chunk /\ c.doc \in Docs
    BY DEF TypeOK, Chunk
  <2>2. chunks' = Upserted(prepared[r]) \/ UNCHANGED chunks
    BY DEF Upsert, indexVars
  <2>3. dlq' = dlq \/ dlq' = dlq \cup {c.doc : c \in prepared[r]}
    BY DEF Upsert, Enqueue
  <2>4. chunks' \subseteq Chunk
    BY <2>1, <2>2 DEF Upserted, TypeOK
  <2>5. dlq' \subseteq Docs
    BY <2>1, <2>3 DEF TypeOK
  <2>6. QED
    BY <2>4, <2>5
<1>2. PICK b \in BOOLEAN : RecordStep(r, b) /\ NextBatch(r, b)
  BY DEF Upsert, TypeOK
<1>3. /\ errors' \in [Runs -> BOOLEAN] /\ batch' \in [Runs -> SUBSET Record]
      /\ number' \in [Runs -> Nat]
  BY <1>2, NextBatchTyped
<1>4. /\ DOMAIN steps' = Runs
      /\ \A q \in Runs : steps'[q] \in [DOMAIN steps'[q] -> BOOLEAN] /\ DOMAIN steps'[q] \subseteq Nat
  <2>1. steps' = [steps EXCEPT ![r] = [n \in DOMAIN steps[r] \cup {number[r]} |->
                                        IF n = number[r] THEN b ELSE steps[r][n]]]
    BY <1>2 DEF RecordStep
  <2>2. \A q \in Runs \ {r} : steps'[q] = steps[q]
    BY <2>1 DEF TablesTotal
  <2>3. steps'[r] = [n \in DOMAIN steps[r] \cup {number[r]} |->
                       IF n = number[r] THEN b ELSE steps[r][n]]
    BY <2>1 DEF TablesTotal
  <2>4. \A n \in DOMAIN steps[r] : steps[r][n] \in BOOLEAN
    BY DEF TypeOK
  <2>5. steps'[r] \in [DOMAIN steps'[r] -> BOOLEAN] /\ DOMAIN steps'[r] \subseteq Nat
    BY <2>3, <2>4 DEF TypeOK
  <2>6. QED
    BY <2>1, <2>2, <2>5 DEF TablesTotal, TypeOK
<1>5. QED
  BY <1>1, <1>3, <1>4 DEF Upsert, TypeOK, TablesTotal, At, Goto, sourceVars, engineVars, scanVars, ingestVars, reportVars, indexVars, tryVars

LEMMA CompleteTyped == ASSUME TypesHold, NEW r \in Runs, CompleteSync(r) PROVE TypesHold'
BY DEF TypesHold, CompleteSync, TypeOK, TablesTotal, At, Goto, sourceVars, engineVars, scanVars, ingestVars, reportVars, indexVars, tryVars

LEMMA EditTyped == ASSUME TypesHold, NEW f \in Docs, EditFile(f) PROVE TypesHold'
<1> USE DEF TypesHold
<1>1. source' \in [Docs -> SUBSET Texts] /\ rev' \in [Docs -> Nat]
  BY DEF EditFile, TypeOK
<1>2. QED
  BY <1>1 DEF EditFile, TypeOK, TablesTotal, At, Goto, sourceVars, engineVars, scanVars, ingestVars, reportVars, indexVars, tryVars

LEMMA CrashTyped == ASSUME TypesHold, Crash PROVE TypesHold'
BY DEF TypesHold, Crash, TypeOK, TablesTotal, At, Goto, sourceVars, engineVars, scanVars, ingestVars, reportVars, indexVars, tryVars

LEMMA VersionsKept ==
  ASSUME VersionsBounded, \A c \in InUse' : \E e \in InUse : c.version = e.version
  PROVE  VersionsBounded'
BY DEF VersionsBounded

\* All but PrepareBatch write versions that have been in use.
LEMMA NoNewVersions ==
  ASSUME TypesHold, Next, \A r \in Runs : ~ PrepareBatch(r), NEW c \in InUse'
  PROVE  \E e \in InUse : c.version = e.version
<1> USE DEF TypesHold, TypeOK, InUse
<1>1. ASSUME NEW r \in Runs, Embed(r) PROVE c \in InUse
  BY <1>1 DEF Embed, indexVars
<1>2. ASSUME NEW r \in Runs, SoftDelete(r) PROVE \E e \in InUse : c.version = e.version
  <2>1. UNCHANGED <<prepared, pending>>
    BY <1>2 DEF SoftDelete
  <2>2. PICK kept \in SUBSET docs[r] : chunks' = SoftDeleted({x.doc : x \in docs[r] \ kept})
    BY <1>2 DEF SoftDelete
  <2>3. CASE c \in chunks'
    BY <2>2, <2>3, SoftDeletedTyped
  <2>4. CASE c \notin chunks'
    BY <2>1, <2>4
  <2>5. QED
    BY <2>3, <2>4
<1>3. ASSUME NEW r \in Runs, Upsert(r) PROVE c \in InUse
  <2>1. chunks' \subseteq chunks \cup prepared[r]
    BY <1>3 DEF Upsert, Upserted, indexVars
  <2>2. UNCHANGED pending /\ \A q \in Runs : prepared'[q] \subseteq prepared[q]
    BY <1>3 DEF Upsert
  <2>3. QED
    BY <2>1, <2>2
<1>4. ASSUME Crash PROVE c \in InUse
  BY <1>4 DEF Crash, indexVars
<1>5. ASSUME UNCHANGED <<chunks, prepared, pending>> PROVE c \in InUse
  BY <1>5
<1>6. ASSUME NEW r \in Runs,
             \/ StartSync(r) \/ VisitFile(r) \/ YieldTombstone(r) \/ ScanFails(r)
             \/ ReplayBatch(r) \/ CompleteSync(r)
      PROVE  UNCHANGED <<chunks, prepared, pending>>
  BY <1>6 DEF StartSync, VisitFile, YieldTombstone, ScanFails, ReplayBatch, CompleteSync,
              indexVars, ingestVars
<1>7. ASSUME NEW f \in Docs, EditFile(f) PROVE UNCHANGED <<chunks, prepared, pending>>
  BY <1>7 DEF EditFile, indexVars, ingestVars
<1> HIDE DEF TypesHold, TypeOK, InUse
<1>8. QED
  BY <1>1, <1>2, <1>3, <1>4, <1>5, <1>6, <1>7 DEF Next, SyncStep

LEMMA StepTyped == ASSUME SyncInv, Next PROVE TypesHold' /\ VersionsBounded'
<1>1. TypesHold
  BY DEF SyncInv, TypesHold
<1>2. ASSUME NEW r \in Runs, PrepareBatch(r) PROVE TypesHold' /\ VersionsBounded'
  BY <1>2, PrepareTyped
<1>3. ASSUME \A r \in Runs : ~ PrepareBatch(r) PROVE TypesHold' /\ VersionsBounded'
  <2>1. TypesHold'
    BY <1>1, <1>3, StartTyped, VisitTyped, TombstoneTyped, ScanFailsTyped, ReplayTyped, EmbedTyped,
       SoftDeleteTyped, UpsertTyped, CompleteTyped, EditTyped, CrashTyped DEF Next, SyncStep
  <2>2. VersionsBounded'
    BY <1>1, <1>3, NoNewVersions, VersionsKept DEF SyncInv
  <2>3. QED
    BY <2>1, <2>2
<1>4. QED
  BY <1>2, <1>3

------------------------------------------------------------------------------
(* A run reads a file once. *)

LEMMA VisitOnce ==
  ASSUME SyncInv, NEW r \in Runs, VisitFile(r) PROVE OncePerDocument'
<1> USE DEF SyncInv
<1>1. PICK i \in queue[r] :
        /\ queue' = [queue EXCEPT ![r] = @ \ {i}]
        /\ \/ UNCHANGED <<seen, batch>>
           \/ /\ seen' = [seen EXCEPT ![r] = @ \cup {Files[i]}]
              /\ \/ UNCHANGED batch
                 \/ \E text \in source[Files[i]] :
                      batch' = [batch EXCEPT ![r] =
                                  @ \cup {[doc |-> Files[i], text |-> text, rev |-> rev[Files[i]]]}]
  BY DEF VisitFile, Yields
<1>2. i \in DOMAIN Files /\ \A j \in queue[r] : j \in DOMAIN Files /\ (Files[j] = Files[i] => j = i)
  BY ScribeAssumption DEF TypeOK
<1>3. /\ seen'[r] \subseteq seen[r] \cup {Files[i]} /\ seen[r] \subseteq seen'[r]
      /\ queue'[r] = queue[r] \ {i}
      /\ \A q \in Runs \ {r} : queue'[q] = queue[q] /\ seen'[q] = seen[q] /\ batch'[q] = batch[q]
  BY <1>1 DEF TypeOK
<1>4. \/ batch'[r] = batch[r]
      \/ Files[i] \in seen'[r] /\ \E x : x.doc = Files[i] /\ batch'[r] = batch[r] \cup {x}
  <2>1. CASE UNCHANGED batch
    BY <2>1
  <2>2. CASE \E text \in source[Files[i]] :
               batch' = [batch EXCEPT ![r] =
                           @ \cup {[doc |-> Files[i], text |-> text, rev |-> rev[Files[i]]]}]
    <3>1. PICK text \in source[Files[i]] :
            batch' = [batch EXCEPT ![r] =
                        @ \cup {[doc |-> Files[i], text |-> text, rev |-> rev[Files[i]]]}]
      BY <2>2
    <3> DEFINE x == [doc |-> Files[i], text |-> text, rev |-> rev[Files[i]]]
    <3>2. x.doc = Files[i]
      OBVIOUS
    <3>3. batch' = [batch EXCEPT ![r] = @ \cup {x}]
      BY <3>1
    <3> HIDE DEF x
    <3>4. batch'[r] = batch[r] \cup {x}
      BY <3>3 DEF TypeOK
    <3>5. batch'[r] = batch[r] \/ Files[i] \in seen'[r]
      BY <1>1 DEF TypeOK
    <3>6. QED
      BY <3>2, <3>4, <3>5
  <2>3. QED
    BY <1>1, <2>1, <2>2
<1>5. Files[i] \notin seen[r]
  BY DEF OncePerDocument
<1>6. \A q \in Runs : \A j \in queue'[q] : Files[j] \notin seen'[q]
  BY <1>2, <1>3 DEF OncePerDocument
<1>7. \A x \in batch'[r] : x.doc \in seen'[r]
  BY <1>3, <1>4 DEF OncePerDocument
<1>8. \A x, y \in batch'[r] : x.doc = y.doc => x = y
  BY <1>4, <1>5 DEF OncePerDocument
<1>9. UNCHANGED docs
  BY DEF VisitFile, ingestVars
<1>10. QED
  BY <1>3, <1>6, <1>7, <1>8, <1>9 DEF OncePerDocument

LEMMA TombstoneOnce ==
  ASSUME SyncInv, NEW r \in Runs, YieldTombstone(r) PROVE OncePerDocument'
<1> USE DEF SyncInv
<1>1. PICK f \in Missing(r) :
        seen' = [seen EXCEPT ![r] = @ \cup {f}] /\ Yields(r, Tombstone(f))
  BY DEF YieldTombstone
<1>2. queue[r] = {} /\ f \notin seen[r]
  BY DEF Missing
<1>3. /\ seen'[r] = seen[r] \cup {f} /\ batch'[r] = batch[r] \cup {Tombstone(f)}
      /\ \A q \in Runs \ {r} : seen'[q] = seen[q] /\ batch'[q] = batch[q]
      /\ UNCHANGED <<queue, docs>>
  BY <1>1 DEF TypeOK, YieldTombstone, Yields, ingestVars
<1>4. Tombstone(f).doc = f
  BY DEF Tombstone
<1>5. QED
  BY <1>2, <1>3, <1>4 DEF OncePerDocument

LEMMA StepOnce == ASSUME SyncInv, Next PROVE OncePerDocument'
<1> USE DEF SyncInv
<1>1. ASSUME NEW r \in Runs, StartSync(r) PROVE OncePerDocument'
  BY <1>1 DEF StartSync, OncePerDocument, ingestVars, TypeOK
<1>2. ASSUME NEW r \in Runs, PrepareBatch(r) PROVE OncePerDocument'
  <2>1. PICK parsed \in SUBSET batch[r] : docs' = [docs EXCEPT ![r] = parsed]
    BY <1>2, Prepares
  <2>2. UNCHANGED <<queue, seen, batch>>
    BY <1>2 DEF PrepareBatch, scanVars
  <2>3. QED
    BY <2>1, <2>2 DEF OncePerDocument, TypeOK
<1>3. ASSUME NEW r \in Runs, ReplayBatch(r) \/ Upsert(r) PROVE OncePerDocument'
  <2>1. UNCHANGED <<queue, seen>> /\ batch' = [batch EXCEPT ![r] = {}]
    BY <1>3 DEF ReplayBatch, Upsert, NextBatch
  <2>2. \A q \in Runs : docs'[q] \subseteq docs[q]
    BY <1>3 DEF ReplayBatch, Upsert, ingestVars, TypeOK
  <2>3. QED
    BY <2>1, <2>2 DEF OncePerDocument, TypeOK
<1>4. ASSUME NEW r \in Runs, ScanFails(r) \/ Embed(r) \/ SoftDelete(r) \/ CompleteSync(r)
      PROVE  OncePerDocument'
  BY <1>4 DEF ScanFails, Embed, SoftDelete, CompleteSync, scanVars, ingestVars, OncePerDocument
<1>5. ASSUME NEW f \in Docs, EditFile(f) PROVE OncePerDocument'
  BY <1>5 DEF EditFile, scanVars, ingestVars, OncePerDocument
<1>6. ASSUME Crash PROVE OncePerDocument'
  BY <1>6 DEF Crash, scanVars, OncePerDocument
<1> HIDE DEF SyncInv
<1>7. QED
  BY <1>1, <1>2, <1>3, <1>4, <1>5, <1>6, VisitOnce, TombstoneOnce DEF Next, SyncStep

------------------------------------------------------------------------------
(* What is upserted is made of the batch, whatever has been read before. *)

LEMMA StepMade == ASSUME SyncInv, Next PROVE MadeFromBatch'
<1> USE DEF SyncInv
<1>1. ASSUME NEW r \in Runs, PrepareBatch(r) PROVE MadeFromBatch'
  <2>1. PICK parsed \in SUBSET batch[r] : \E chunked \in SUBSET parsed :
          /\ docs' = [docs EXCEPT ![r] = parsed]
          /\ prepared' = [prepared EXCEPT ![r] = ReusedChunks(chunked)]
          /\ pending' = [pending EXCEPT ![r] = ChunksToEmbed(chunked)]
    BY <1>1, Prepares
  <2>2. PICK chunked \in SUBSET parsed :
          /\ docs' = [docs EXCEPT ![r] = parsed]
          /\ prepared' = [prepared EXCEPT ![r] = ReusedChunks(chunked)]
          /\ pending' = [pending EXCEPT ![r] = ChunksToEmbed(chunked)]
    BY <2>1
  <2>3. PICK b \in Nat : \A c \in chunks : c.version <= b
    BY DEF VersionsBounded, InUse
  <2>4. chunked \in SUBSET Record /\ chunks \subseteq Chunk /\ VectorsMatch
    BY DEF TypeOK, MadeFromBatch
  <2>5. \A c \in ReusedChunks(chunked) \cup ChunksToEmbed(chunked) : \E x \in chunked : MadeOf(c, x)
    BY <2>3, <2>4, BatchMadeWell
  <2>6. UNCHANGED chunks /\ pc' = [pc EXCEPT ![r] = "embed"]
    BY <1>1 DEF PrepareBatch, indexVars, Goto
  <2>7. VectorsMatch'
    BY <2>4, <2>6 DEF VectorsMatch
  <2>8. \A q \in Runs : \A c \in prepared'[q] \cup pending'[q] : \E x \in docs'[q] : MadeOf(c, x)
    BY <2>2, <2>5 DEF TypeOK, MadeFromBatch
  <2>9. \A q \in Runs : pc'[q] # "embed" => pending'[q] = {}
    BY <2>2, <2>6 DEF TypeOK, MadeFromBatch
  <2>10. QED
    BY <2>7, <2>8, <2>9 DEF MadeFromBatch, MadeOf
<1>2. ASSUME NEW r \in Runs, Embed(r) PROVE MadeFromBatch'
  BY <1>2 DEF Embed, Goto, indexVars, MadeFromBatch, MadeOf, VectorsMatch, TypeOK
<1>3. ASSUME NEW r \in Runs, SoftDelete(r) PROVE MadeFromBatch'
  <2>1. PICK kept \in SUBSET docs[r] : chunks' = SoftDeleted({x.doc : x \in docs[r] \ kept})
    BY <1>3 DEF SoftDelete
  <2>2. VectorsMatch'
    BY <2>1, SoftDeletedTyped DEF VectorsMatch, MadeFromBatch, TypeOK
  <2>3. UNCHANGED <<docs, prepared, pending>> /\ pc[r] # "embed" /\ pc' = [pc EXCEPT ![r] = "upsert"]
    BY <1>3 DEF SoftDelete, At, Goto
  <2>4. QED
    BY <2>2, <2>3 DEF MadeFromBatch, MadeOf, TypeOK
<1>4. ASSUME NEW r \in Runs, Upsert(r) PROVE MadeFromBatch'
  <2>1. /\ docs' = [docs EXCEPT ![r] = {}] /\ prepared' = [prepared EXCEPT ![r] = {}]
        /\ UNCHANGED pending /\ pc[r] = "upsert" /\ pc' = [pc EXCEPT ![r] = "scan"]
        /\ chunks' \subseteq chunks \cup prepared[r]
    BY <1>4 DEF Upsert, At, Goto, Upserted, indexVars
  <2>2. \A c \in prepared[r] : c.vector = c.piece
    BY DEF MadeFromBatch, MadeOf
  <2>3. VectorsMatch'
    BY <2>1, <2>2 DEF VectorsMatch, MadeFromBatch
  <2>4. QED
    BY <2>1, <2>3 DEF MadeFromBatch, MadeOf, TypeOK
<1>5. ASSUME NEW r \in Runs,
             \/ StartSync(r) \/ VisitFile(r) \/ YieldTombstone(r) \/ ScanFails(r)
             \/ ReplayBatch(r) \/ CompleteSync(r)
      PROVE  MadeFromBatch'
  <2>1. UNCHANGED <<chunks, docs, prepared, pending>>
    BY <1>5 DEF StartSync, VisitFile, YieldTombstone, ScanFails, ReplayBatch, CompleteSync,
                indexVars, ingestVars
  <2>2. pc[r] # "embed" /\ \A q \in Runs \ {r} : pc'[q] = pc[q]
    BY <1>5 DEF StartSync, VisitFile, YieldTombstone, ScanFails, ReplayBatch, CompleteSync,
                BatchReady, At, Goto, TypeOK
  <2>3. QED
    BY <2>1, <2>2 DEF MadeFromBatch, MadeOf, VectorsMatch
<1>6. ASSUME NEW f \in Docs, EditFile(f) PROVE MadeFromBatch'
  BY <1>6 DEF EditFile, indexVars, ingestVars, MadeFromBatch, MadeOf, VectorsMatch
<1>7. ASSUME Crash PROVE MadeFromBatch'
  BY <1>7 DEF Crash, indexVars, MadeFromBatch, VectorsMatch
<1> HIDE DEF SyncInv
<1>8. QED
  BY <1>1, <1>2, <1>3, <1>4, <1>5, <1>6, <1>7 DEF Next, SyncStep

------------------------------------------------------------------------------
(* The index holds each document as its last clean batch has left it. *)

LEMMA StepReplacing == ASSUME SyncInv, Next PROVE Replacing'
<1> USE DEF SyncInv
<1>1. ASSUME NEW r \in Runs, SoftDelete(r) PROVE Replacing'
  <2>1. PICK kept \in SUBSET docs[r] :
          /\ \/ kept = {}
             \/ faulty' = [faulty EXCEPT ![r] = TRUE]
          /\ chunks' = SoftDeleted({x.doc : x \in docs[r] \ kept})
    BY <1>1 DEF SoftDelete
  <2>2. /\ UNCHANGED docs /\ pc' = [pc EXCEPT ![r] = "upsert"]
        /\ \A q \in Runs \ {r} : pc[q] # "upsert"
        /\ settled' = [f \in Docs |-> IF \E x \in docs[r] : x.doc = f THEN {} ELSE settled[f]]
    BY <1>1 DEF SoftDelete, At, Goto, LoopFree
  <2>3. ASSUME NEW x \in docs[r] PROVE settled'[x.doc] = {}
    BY <2>2 DEF TypeOK, Record
  <2>4. ASSUME NEW x \in docs[r], ~faulty'[r]
        PROVE  {c \in chunks' : c.doc = x.doc /\ c.live} = {}
    <3>1. kept = {}
      BY <2>1, <2>4 DEF TypeOK
    <3>2. x.doc \in {y.doc : y \in docs[r] \ kept}
      BY <3>1
    <3>3. \A c \in chunks' : c.live => c.doc # x.doc
      BY <2>1, <3>2, SoftDeletedTyped DEF TypeOK
    <3>4. QED
      BY <3>3
  <2>5. docs'[r] = docs[r] /\ \A q \in Runs \ {r} : pc'[q] # "upsert"
    BY <2>2 DEF TypeOK
  <2> HIDE DEF SyncInv
  <2>6. QED
    BY <2>3, <2>4, <2>5 DEF Replacing, GetByDocument
<1>2. ASSUME NEW r \in Runs, SyncStep(r), ~ SoftDelete(r) PROVE Replacing'
  <2>1. LoopFree(r)
    BY <1>2 DEF SyncStep, StartSync, VisitFile, YieldTombstone, ScanFails, ReplayBatch,
                PrepareBatch, Embed, Upsert, CompleteSync, BatchReady, At
  <2>2. \E label \in {"idle", "scan", "embed", "replace"} : pc' = [pc EXCEPT ![r] = label]
    <3>1. VisitFile(r) \/ YieldTombstone(r) \/ ReplayBatch(r) => pc[r] = "scan" /\ UNCHANGED pc
      BY DEF VisitFile, YieldTombstone, ReplayBatch, BatchReady, At
    <3>2. pc = [pc EXCEPT ![r] = pc[r]]
      BY DEF TypeOK
    <3>3. StartSync(r) \/ ScanFails(r) \/ PrepareBatch(r) \/ Embed(r) \/ Upsert(r) \/ CompleteSync(r)
            => \E label \in {"idle", "scan", "embed", "replace"} : pc' = [pc EXCEPT ![r] = label]
      BY DEF StartSync, ScanFails, PrepareBatch, Embed, Upsert, CompleteSync, Goto
    <3>4. QED
      BY <1>2, <3>1, <3>2, <3>3 DEF SyncStep
  <2>3. \A q \in Runs : pc'[q] # "upsert"
    BY <2>1, <2>2 DEF LoopFree, TypeOK
  <2>4. QED
    BY <2>3 DEF Replacing
<1>3. ASSUME NEW f \in Docs, EditFile(f) PROVE Replacing'
  BY <1>3 DEF EditFile, indexVars, ingestVars, Replacing, GetByDocument
<1>4. ASSUME Crash PROVE Replacing'
  BY <1>4 DEF Crash, Replacing
<1>5. QED
  BY <1>1, <1>2, <1>3, <1>4 DEF Next

LEMMA UpsertSettles ==
  ASSUME SyncInv, NEW r \in Runs, Upsert(r), ~ UNCHANGED indexVars PROVE IndexSettled'
<1> USE DEF SyncInv
<1> DEFINE whole == {x \in docs[r] : Complete(r, x)}
<1>1. /\ pc[r] = "upsert" /\ chunks' = Upserted(prepared[r])
      /\ settled' = IF faulty[r] THEN settled
                    ELSE [f \in Docs |-> LET xs == {x \in whole : x.doc = f}
                                         IN IF xs = {} THEN settled[f] ELSE {x.text : x \in xs}]
  BY DEF Upsert, At
<1>2. \A c \in prepared[r] : c.live /\ \E x \in docs[r] : MadeOf(c, x)
  BY DEF MadeFromBatch, MadeOf
<1>3. SUFFICES ASSUME NEW f \in Docs, NEW text \in settled'[f]
               PROVE  Indexed(f)' = Pieces(text)
  BY DEF IndexSettled, Pieces
<1>4. CASE \A x \in docs[r] : x.doc # f
  <2>1. settled'[f] = settled[f]
    BY <1>1, <1>4
  <2>2. \A n \in prepared[r] : n.doc # f
    BY <1>2, <1>4 DEF MadeOf
  <2>3. GetByDocument(f)' = GetByDocument(f)
    BY <1>1, <2>2 DEF GetByDocument, Upserted, SameId
  <2>4. Indexed(f)' = Indexed(f)
    BY <2>3 DEF Indexed
  <2>5. QED
    BY <2>1, <2>4 DEF IndexSettled
<1>5. ASSUME NEW x \in docs[r], x.doc = f PROVE Indexed(f)' = Pieces(text)
  <2>1. settled[f] = {} /\ (~faulty[r] => GetByDocument(f) = {})
    BY <1>1, <1>5 DEF Replacing
  <2>2. ~faulty[r] /\ {y \in whole : y.doc = f} # {}
    BY <1>1, <2>1
  <2>3. {y \in whole : y.doc = f} = {x}
    BY <1>5, <2>2 DEF OncePerDocument
  <2>4. text = x.text /\ Complete(r, x)
    BY <1>1, <2>2, <2>3
  <2>5. GetByDocument(f)' = {c \in prepared[r] : c.doc = f}
    BY <1>1, <1>2, <2>1, <2>2 DEF GetByDocument, Upserted
  <2>6. \A c \in prepared[r] : c.doc = f => MadeOf(c, x)
    BY <1>2, <1>5 DEF OncePerDocument, MadeOf
  <2>7. Indexed(f)' = {<<c.index, c.piece>> : c \in {e \in prepared[r] : e.doc = f}}
    BY <2>5 DEF Indexed
  <2>8. {<<c.index, c.piece>> : c \in {e \in prepared[r] : e.doc = f}} \subseteq Pieces(text)
    BY <2>4, <2>6 DEF MadeOf, Pieces
  <2>9. Pieces(text) \subseteq {<<c.index, c.piece>> : c \in {e \in prepared[r] : e.doc = f}}
    BY <1>5, <2>4 DEF Complete, Pieces
  <2>10. QED
    BY <2>7, <2>8, <2>9
<1>6. QED
  BY <1>4, <1>5

LEMMA StepSettled == ASSUME SyncInv, Next PROVE IndexSettled'
<1> USE DEF SyncInv
<1>1. ASSUME NEW r \in Runs, SoftDelete(r) PROVE IndexSettled'
  <2>1. PICK kept \in SUBSET docs[r] : chunks' = SoftDeleted({x.doc : x \in docs[r] \ kept})
    BY <1>1 DEF SoftDelete
  <2>2. settled' = [f \in Docs |-> IF \E x \in docs[r] : x.doc = f THEN {} ELSE settled[f]]
    BY <1>1 DEF SoftDelete
  <2>3. SUFFICES ASSUME NEW f \in Docs, NEW text \in settled'[f]
                 PROVE  Indexed(f)' = Pieces(text)
    BY DEF IndexSettled, Pieces
  <2>4. settled'[f] = settled[f] /\ \A x \in docs[r] : x.doc # f
    BY <2>2
  <2>5. \A c : c \in chunks' /\ c.doc = f /\ c.live <=> c \in chunks /\ c.doc = f /\ c.live
    <3> DEFINE ds == {x.doc : x \in docs[r] \ kept}
    <3>1. f \notin ds
      BY <2>4
    <3>2. chunks' = {IF c.doc \in ds THEN [c EXCEPT !.live = FALSE] ELSE c : c \in chunks}
      BY <2>1 DEF SoftDeleted
    <3> HIDE DEF ds
    <3>3. ASSUME NEW c \in chunks', c.doc = f PROVE c \in chunks
      <4>1. PICK e \in chunks : c = IF e.doc \in ds THEN [e EXCEPT !.live = FALSE] ELSE e
        BY <3>2
      <4>2. e.doc \in ds => c.doc = e.doc
        BY <4>1 DEF TypeOK, Chunk
      <4>3. QED
        BY <3>1, <3>3, <4>1, <4>2
    <3>4. ASSUME NEW c \in chunks, c.doc = f PROVE c \in chunks'
      BY <3>1, <3>2, <3>4
    <3>5. QED
      BY <3>3, <3>4
  <2>6. GetByDocument(f)' = GetByDocument(f)
    BY <2>5 DEF GetByDocument
  <2>7. QED
    BY <2>4, <2>6 DEF IndexSettled, Indexed
<1>2. ASSUME NEW r \in Runs, Upsert(r), ~ UNCHANGED indexVars PROVE IndexSettled'
  BY <1>2, UpsertSettles
<1>3. ASSUME UNCHANGED <<chunks, settled>> PROVE IndexSettled'
  BY <1>3 DEF IndexSettled, Indexed, GetByDocument
<1>4. ASSUME NEW r \in Runs,
             \/ StartSync(r) \/ VisitFile(r) \/ YieldTombstone(r) \/ ScanFails(r)
             \/ ReplayBatch(r) \/ PrepareBatch(r) \/ Embed(r) \/ CompleteSync(r)
             \/ Upsert(r) /\ UNCHANGED indexVars
      PROVE  UNCHANGED <<chunks, settled>>
  BY <1>4 DEF StartSync, VisitFile, YieldTombstone, ScanFails, ReplayBatch, PrepareBatch, Embed,
              CompleteSync, indexVars
<1>5. ASSUME Crash \/ \E f \in Docs : EditFile(f) PROVE UNCHANGED <<chunks, settled>>
  BY <1>5 DEF Crash, EditFile, indexVars
<1> HIDE DEF SyncInv
<1>6. QED
  BY <1>1, <1>2, <1>3, <1>4, <1>5 DEF Next, SyncStep

LEMMA InitSound == Init => SyncInv
<1> SUFFICES ASSUME Init PROVE SyncInv
  OBVIOUS
<1>1. TypeOK /\ TablesTotal
  BY InitTyped DEF TypesHold
<1>2. VersionsBounded
  <2>1. InUse = {}
    BY DEF Init, InUse
  <2>2. 0 \in Nat
    OBVIOUS
  <2>3. QED
    BY <2>1, <2>2 DEF VersionsBounded
<1>3. OncePerDocument /\ MadeFromBatch /\ Replacing /\ IndexSettled
  BY DEF Init, OncePerDocument, MadeFromBatch, VectorsMatch, Replacing, IndexSettled
<1>4. QED
  BY <1>1, <1>2, <1>3 DEF SyncInv

\* A step that changes nothing.
LEMMA StutterSound == ASSUME SyncInv, UNCHANGED vars PROVE SyncInv'
<1>1. /\ UNCHANGED <<source, rev, chunks, dlq, steps, known, pc, hashes, queue, seen, batch, number>>
      /\ UNCHANGED <<docs, prepared, pending, faulty, errors, report, settled>>
  BY DEF vars, sourceVars, indexVars, engineVars, scanVars, ingestVars, reportVars, tryVars
<1>2. TypeOK' /\ TablesTotal'
  BY <1>1 DEF SyncInv, TypeOK, TablesTotal
<1>3. VersionsBounded' /\ OncePerDocument' /\ MadeFromBatch'
  BY <1>1 DEF SyncInv, VersionsBounded, InUse, OncePerDocument, MadeFromBatch, VectorsMatch, MadeOf
<1>4. Replacing' /\ IndexSettled'
  BY <1>1 DEF SyncInv, Replacing, IndexSettled, GetByDocument, Indexed
<1>5. QED
  BY <1>2, <1>3, <1>4 DEF SyncInv

LEMMA SyncInvariant == Spec => []SyncInv
<1>1. SyncInv /\ Next => SyncInv'
  BY StepTyped, StepOnce, StepMade, StepReplacing, StepSettled DEF SyncInv, TypesHold
<1>2. SyncInv /\ [Next]_vars => SyncInv'
  BY <1>1, StutterSound
<1>3. QED
  BY InitSound, <1>2, PTL DEF Spec

\* Every table of a run, of the engine and of the index keeps its type (worker.py,
\* pipeline.py, adapters_sqlite_vector.py); the versions given out are numbers.
THEOREM SyncTypeCorrect == Spec => []TypeOK
<1>1. SyncInv => TypeOK
  BY DEF SyncInv
<1>2. QED
  BY <1>1, SyncInvariant, PTL

\* What a clean batch has indexed of a document is in the index, whole and alone, until the
\* document is ingested again, and every live chunk has the vector of its own content: for any
\* number of runs that suspend in the embedder, with any crashes, faults and edits of files.
THEOREM IndexStaysSound == Spec => []IndexSound
<1>1. SyncInv => IndexSound
  BY DEF SyncInv, IndexSound, MadeFromBatch
<1>2. QED
  BY <1>1, SyncInvariant, PTL

------------------------------------------------------------------------------
(* What a report may say is proved from an invariant of each run.  As long as no file    *)
(* changes, the recorded steps are those of full batches of files, the same in every try,  *)
(* or some try has come to its end and they are those of everything due.                   *)

\* A connector that yields the same in every try: what is due in the run r, and the record it
\* is read as.
FileDue(r) == {f \in Docs : \E text \in source[f] : ~Unchanged(r, f, text)}
GoneDue(r) == {f \in DOMAIN hashes[r] : source[f] = {}}
Due(r)     == FileDue(r) \cup GoneDue(r)
Seen(r)    == seen[r] \cap Due(r)

Current(x) ==
  /\ x.rev = rev[x.doc]
  /\ IF source[x.doc] = {} THEN x.text = Remains ELSE x.text \in source[x.doc]
RecordsOf(D) == {x \in Record : x.doc \in D /\ Current(x)}

\* The run has been started and its process is still there.
Going(r) == pc[r] # "idle" \/ report[r] = "COMPLETED"

\* Indexed, or in the queue; a document that cannot be chunked is in neither.
Accounted(r, x) == x \in delivered[r] \/ x.doc \in dlq \/ "chunk" \in Faults

NoneFailed(r, n) == \A k \in 1..n : ~steps[r][k]

\* What the first n recorded steps have done with the records of D.
DoneTo(r, D, n) ==
  \A x \in RecordsOf(D) : Accounted(r, x) /\ (NoneFailed(r, n) => x \in delivered[r])

\* What has been read is what is due of the places visited, which come before those waiting.
Scanned(r) ==
  /\ \A i \in queue[r] : source[Files[i]] # {}
  /\ \A i \in queue[r], j \in DOMAIN Files : i < j /\ source[Files[j]] # {} => j \in queue[r]
  /\ \A i \in DOMAIN Files : source[Files[i]] # {} => (Files[i] \in seen[r] <=> i \notin queue[r])
  /\ \A f \in seen[r] : source[f] = {} => f \in DOMAIN hashes[r] /\ queue[r] = {}
  /\ read[r] = RecordsOf(Seen(r))

\* All batches but the last are full.
Counted(r) ==
  /\ IsFiniteSet(batch[r]) /\ Cardinality(batch[r]) <= BatchSize
  /\ IsFiniteSet(Seen(r))
  /\ \/ Cardinality(Seen(r)) = (number[r] - 1) * BatchSize + Cardinality(batch[r])
     \/ /\ batch[r] = {} /\ ScanEnded(r)
        /\ (number[r] - 2) * BatchSize < Cardinality(Seen(r))
        /\ Cardinality(Seen(r)) <= (number[r] - 1) * BatchSize

Before(g, f) == \E i, j \in DOMAIN Files : i < j /\ Files[i] = g /\ Files[j] = f
DownIn(D, r) == \A f \in D, g \in FileDue(r) : Before(g, f) => g \in D

\* The first n recorded steps are those of the first n * BatchSize files.
Prefix(r, n) ==
  \E D \in SUBSET FileDue(r) :
    DownIn(D, r) /\ IsFiniteSet(D) /\ Cardinality(D) = n * BatchSize /\ DoneTo(r, D, n)

DoneWell(r) ==
  \A x \in read[r] \ batch[r] : Accounted(r, x) /\ (~errors[r] => x \in delivered[r])

\* Every recorded step is one of full batches of files, or of this try and of tombstones.
UnderWay(r) ==
  /\ \A n \in DOMAIN steps[r] :
       Prefix(r, n) \/ (pc[r] # "idle" /\ queue[r] = {} /\ n < number[r])
  /\ Going(r) => DoneWell(r)

\* Some try has come to its end: the recorded steps are those of all that is due.
CameToEnd(r) ==
  \E m \in Nat :
    /\ DOMAIN steps[r] = 1..m /\ IsFiniteSet(Due(r))
    /\ (m - 1) * BatchSize < Cardinality(Due(r)) /\ Cardinality(Due(r)) <= m * BatchSize
    /\ DoneTo(r, Due(r), m)

Stable(r) ==
  ~changed[r] => /\ Going(r) => Scanned(r) /\ Counted(r)
                 /\ CameToEnd(r) \/ UnderWay(r)

FirstTry(r) ==
  tries[r] <= 1 /\ Going(r) => DOMAIN steps[r] \subseteq 1..(number[r] - 1) /\ DoneWell(r)

\* The errors of a run are those of the steps it has gone through.
Flagged(r) ==
  /\ \E m \in Nat : DOMAIN steps[r] = 1..m
  /\ Going(r) => /\ number[r] >= 1 /\ 1..(number[r] - 1) \subseteq DOMAIN steps[r]
                 /\ errors[r] <=> \E k \in 1..(number[r] - 1) : steps[r][k]
                 /\ batch[r] \subseteq read[r]
  /\ r \in known => tries[r] >= 1

Ended(r) == report[r] = "COMPLETED" => pc[r] = "idle" /\ ScanEnded(r) /\ batch[r] = {}

CanBeWhole(r, x) ==
  \A i \in DOMAIN x.text :
    \E c \in prepared[r] \cup pending[r] : c.doc = x.doc /\ c.index = i /\ c.piece = x.text[i]

\* Every record of the batch under way will be indexed or has been enqueued.
Working(r) ==
  pc[r] \in {"embed", "replace", "upsert"} =>
    /\ batch[r] # {} /\ number[r] \notin DOMAIN steps[r] /\ (BatchFull(r) \/ ScanEnded(r))
    /\ \A x \in batch[r] : (x \in docs[r] /\ CanBeWhole(r, x)) \/ x.doc \in dlq \/ "chunk" \in Faults
    /\ ~faulty[r] => docs[r] = batch[r] /\ \A x \in docs[r] : CanBeWhole(r, x)

RunInv(r) == Ended(r) /\ Flagged(r) /\ Working(r) /\ FirstTry(r) /\ Stable(r)

OneText == \A f \in Docs : \A t, u \in source[f] : t = u

RunTypes ==
  /\ tries \in [Runs -> Nat] /\ changed \in [Runs -> BOOLEAN]
  /\ read \in [Runs -> SUBSET Record] /\ delivered \in [Runs -> SUBSET Record]

ReportInv == RunTypes /\ OneText /\ \A r \in Runs : RunInv(r)

------------------------------------------------------------------------------
(* Batches of equal size, and files in the order of their places. *)

LEMMA OneBatchMore ==
  ASSUME NEW n \in Int
  PROVE  n * BatchSize \in Int /\ (n - 1) * BatchSize + BatchSize = n * BatchSize
BY ScribeAssumption

LEMMA MoreBatches ==
  ASSUME NEW m \in Int, NEW n \in Int, m < n
  PROVE  m * BatchSize + BatchSize <= n * BatchSize
<1>1. PICK k \in Nat : n = m + 1 + k
  <2>1. n - m - 1 \in Nat
    OBVIOUS
  <2>2. QED
    BY <2>1
<1>2. PICK b \in Nat : b = BatchSize
  BY ScribeAssumption
<1>3. k * b \in Nat
  OBVIOUS
<1>4. (m + 1 + k) * b = m * b + b + k * b
  OBVIOUS
<1>5. m * b \in Int
  OBVIOUS
<1>6. QED
  BY <1>1, <1>2, <1>3, <1>4, <1>5

\* A number of records tells the number of batches.
LEMMA BatchesCounted ==
  ASSUME NEW m \in Int, NEW n \in Int, NEW c \in Int,
         (m - 1) * BatchSize < c, c <= n * BatchSize
  PROVE  m <= n
<1>1. SUFFICES ASSUME n < m PROVE FALSE
  OBVIOUS
<1>2. n <= m - 1 /\ m - 1 \in Int
  BY <1>1
<1>3. n * BatchSize \in Int /\ (m - 1) * BatchSize \in Int
  BY <1>2, OneBatchMore
<1>4. BatchSize \in Nat
  BY ScribeAssumption
<1>5. CASE n < m - 1
  <2>1. n * BatchSize + BatchSize <= (m - 1) * BatchSize
    BY <1>2, <1>5, MoreBatches
  <2>2. QED
    BY <1>3, <1>4, <2>1
<1>6. CASE n = m - 1
  BY <1>3, <1>6
<1>7. QED
  BY <1>2, <1>5, <1>6

LEMMA Places ==
  ASSUME NEW f \in Docs, NEW g \in Docs
  PROVE  f = g \/ Before(f, g) \/ Before(g, f)
<1>1. PICK i \in DOMAIN Files, j \in DOMAIN Files : Files[i] = f /\ Files[j] = g
  BY DEF Docs, ToSet
<1>2. i \in Int /\ j \in Int
  BY ScribeAssumption
<1>3. i = j \/ i < j \/ j < i
  BY <1>2
<1>4. QED
  BY <1>1, <1>3 DEF Before

\* As many files from the front are the same files.
LEMMA SameFront ==
  ASSUME NEW r, NEW D \in SUBSET FileDue(r), NEW E \in SUBSET FileDue(r),
         DownIn(D, r), DownIn(E, r), IsFiniteSet(D), IsFiniteSet(E),
         Cardinality(D) = Cardinality(E)
  PROVE  D = E
<1>1. D \subseteq E \/ E \subseteq D
  <2>1. SUFFICES ASSUME NEW f \in D, f \notin E PROVE E \subseteq D
    OBVIOUS
  <2>2. ASSUME NEW g \in E PROVE g \in D
    <3>1. f \in Docs /\ g \in Docs /\ f # g
      BY <2>1 DEF FileDue
    <3>2. Before(f, g) => f \in E
      BY DEF DownIn
    <3>3. Before(g, f)
      BY <2>1, <3>1, <3>2, Places
    <3>4. QED
      BY <3>3 DEF DownIn
  <2>3. QED
    BY <2>2
<1>2. CASE D \subseteq E
  BY <1>2, FS_Subset, Zenon
<1>3. CASE E \subseteq D
  BY <1>3, FS_Subset, Zenon
<1>4. QED
  BY <1>1, <1>2, <1>3

------------------------------------------------------------------------------
(* A run that does not move keeps what is true of it. *)

SameFiles(r) == source' = source /\ rev' = rev /\ hashes'[r] = hashes[r]

Rests(r) ==
  /\ SameFiles(r)
  /\ pc'[r] = pc[r] /\ steps'[r] = steps[r] /\ queue'[r] = queue[r] /\ seen'[r] = seen[r]
  /\ batch'[r] = batch[r] /\ number'[r] = number[r] /\ docs'[r] = docs[r]
  /\ prepared'[r] = prepared[r] /\ pending'[r] = pending[r] /\ faulty'[r] = faulty[r]
  /\ errors'[r] = errors[r] /\ report'[r] = report[r] /\ read'[r] = read[r]
  /\ delivered'[r] = delivered[r] /\ tries'[r] = tries[r] /\ changed'[r] = changed[r]
  /\ dlq \subseteq dlq' /\ (r \in known' => r \in known)

LEMMA SameDue ==
  ASSUME NEW r, SameFiles(r)
  PROVE  /\ FileDue(r)' = FileDue(r) /\ Due(r)' = Due(r)
         /\ \A D : RecordsOf(D)' = RecordsOf(D)
         /\ \A D : DownIn(D, r)' <=> DownIn(D, r)
<1>1. FileDue(r)' = FileDue(r) /\ GoneDue(r)' = GoneDue(r)
  BY DEF SameFiles, FileDue, GoneDue, Unchanged
<1>2. \A D : RecordsOf(D)' = RecordsOf(D)
  BY DEF SameFiles, RecordsOf, Current
<1>3. QED
  BY <1>1, <1>2 DEF Due, DownIn

\* More is indexed or enqueued, and the first n steps are on record as they were.
Grows(r) == SameFiles(r) /\ dlq \subseteq dlq' /\ delivered[r] \subseteq delivered'[r]

LEMMA StaysAccounted ==
  ASSUME NEW r, Grows(r), NEW x, Accounted(r, x)
  PROVE  Accounted(r, x)'
BY DEF Grows, Accounted

LEMMA StaysDone ==
  ASSUME NEW r, Grows(r), NEW n, \A k \in 1..n : steps'[r][k] = steps[r][k],
         NEW D, DoneTo(r, D, n)
  PROVE  DoneTo(r, D, n)'
<1>1. RecordsOf(D)' = RecordsOf(D)
  BY SameDue DEF Grows
<1>2. NoneFailed(r, n)' => NoneFailed(r, n)
  BY DEF NoneFailed
<1>3. delivered[r] \subseteq delivered'[r]
  BY DEF Grows
<1>4. QED
  BY <1>1, <1>2, <1>3, StaysAccounted DEF DoneTo

LEMMA StaysPrefix ==
  ASSUME NEW r, Grows(r), NEW n, \A k \in 1..n : steps'[r][k] = steps[r][k], Prefix(r, n)
  PROVE  Prefix(r, n)'
<1>1. PICK D \in SUBSET FileDue(r) :
        DownIn(D, r) /\ IsFiniteSet(D) /\ Cardinality(D) = n * BatchSize /\ DoneTo(r, D, n)
  BY DEF Prefix
<1>2. DoneTo(r, D, n)'
  BY <1>1, StaysDone
<1>3. D \in SUBSET FileDue(r)' /\ DownIn(D, r)'
  BY <1>1, SameDue DEF Grows
<1>4. QED
  BY <1>1, <1>2, <1>3 DEF Prefix

\* Nothing is recorded.
LEMMA StaysAtEnd ==
  ASSUME NEW r, Grows(r), steps'[r] = steps[r], CameToEnd(r)
  PROVE  CameToEnd(r)'
<1>1. PICK m \in Nat :
        /\ DOMAIN steps[r] = 1..m /\ IsFiniteSet(Due(r))
        /\ (m - 1) * BatchSize < Cardinality(Due(r)) /\ Cardinality(Due(r)) <= m * BatchSize
        /\ DoneTo(r, Due(r), m)
  BY DEF CameToEnd
<1>2. Due(r)' = Due(r)
  BY SameDue DEF Grows
<1>3. PICK D : D = Due(r)
  OBVIOUS
<1>4. DoneTo(r, D, m)'
  BY <1>1, <1>3, StaysDone
<1>5. DoneTo(r, Due(r), m)'
  BY <1>2, <1>3, <1>4 DEF DoneTo
<1>6. QED
  BY <1>1, <1>2, <1>5 DEF CameToEnd

\* The run is under way or it is not, as before, and it does not read, record or index.
Pauses(r) ==
  /\ SameFiles(r)
  /\ (pc'[r] = "idle" <=> pc[r] = "idle") /\ steps'[r] = steps[r]
  /\ queue'[r] = queue[r] /\ seen'[r] = seen[r] /\ batch'[r] = batch[r] /\ number'[r] = number[r]
  /\ errors'[r] = errors[r] /\ report'[r] = report[r] /\ read'[r] = read[r]
  /\ delivered'[r] = delivered[r] /\ tries'[r] = tries[r] /\ changed'[r] = changed[r]
  /\ dlq \subseteq dlq' /\ (r \in known' => r \in known)

LEMMA PausingGrows == ASSUME NEW r, Pauses(r) PROVE Grows(r) /\ SameFiles(r)
BY DEF Pauses, Grows

LEMMA PausingDoneWell == ASSUME NEW r, Pauses(r), DoneWell(r) PROVE DoneWell(r)'
<1>1. read'[r] = read[r] /\ batch'[r] = batch[r] /\ errors'[r] = errors[r] /\ delivered'[r] = delivered[r]
  BY DEF Pauses
<1>2. QED
  BY <1>1, PausingGrows, StaysAccounted DEF DoneWell

\* What has been read stays so as long as the run does not go on reading.
SameScan(r) ==
  /\ SameFiles(r)
  /\ queue'[r] = queue[r] /\ seen'[r] = seen[r] /\ read'[r] = read[r]

LEMMA StaysScanned ==
  ASSUME NEW r, SameScan(r), Scanned(r)
  PROVE  Scanned(r)' /\ Seen(r)' = Seen(r) /\ (ScanEnded(r)' <=> ScanEnded(r))
<1>1. /\ queue'[r] = queue[r] /\ seen'[r] = seen[r] /\ source' = source /\ hashes'[r] = hashes[r]
      /\ read'[r] = read[r]
  BY DEF SameScan, SameFiles
<1>2. Seen(r)' = Seen(r) /\ RecordsOf(Seen(r))' = RecordsOf(Seen(r))
  BY <1>1, SameDue DEF SameScan, Seen
<1>3. QED
  BY <1>1, <1>2 DEF Scanned, ScanEnded, Missing

LEMMA PausingStable == ASSUME NEW r, Pauses(r), Stable(r) PROVE Stable(r)'
<1>1. SUFFICES ASSUME ~changed'[r]
               PROVE  /\ Going(r)' => Scanned(r)' /\ Counted(r)'
                      /\ CameToEnd(r)' \/ UnderWay(r)'
  BY DEF Stable
<1>2. /\ Going(r) => Scanned(r) /\ Counted(r)
      /\ CameToEnd(r) \/ UnderWay(r)
  BY <1>1 DEF Stable, Pauses
<1>3. Going(r)' <=> Going(r)
  BY DEF Pauses, Going
<1>4. SameScan(r)
  BY DEF Pauses, SameScan
<1>5. Scanned(r) /\ Counted(r) => Counted(r)'
  <2>1. batch'[r] = batch[r] /\ number'[r] = number[r]
    BY DEF Pauses
  <2>2. QED
    BY <1>4, <2>1, StaysScanned DEF Counted
<1>6. CameToEnd(r) => CameToEnd(r)'
  BY PausingGrows, StaysAtEnd DEF Pauses
<1>7. UnderWay(r) => UnderWay(r)'
  <2>1. /\ steps'[r] = steps[r] /\ (pc'[r] = "idle" <=> pc[r] = "idle")
        /\ queue'[r] = queue[r] /\ number'[r] = number[r]
    BY DEF Pauses
  <2>2. \A n : Prefix(r, n) => Prefix(r, n)'
    BY <2>1, PausingGrows, StaysPrefix
  <2>3. QED
    BY <1>3, <2>1, <2>2, PausingDoneWell DEF UnderWay
<1>8. QED
  BY <1>2, <1>3, <1>4, <1>5, <1>6, <1>7, StaysScanned

LEMMA PausingKeeps ==
  ASSUME NEW r, Pauses(r), RunInv(r)
  PROVE  Ended(r)' /\ Flagged(r)' /\ FirstTry(r)' /\ Stable(r)'
<1>1. Ended(r)'
  BY DEF RunInv, Ended, Pauses, SameFiles, ScanEnded, Missing
<1>2. Flagged(r)'
  BY DEF RunInv, Flagged, Going, Pauses
<1>3. FirstTry(r)'
  <2>1. tries'[r] = tries[r] /\ steps'[r] = steps[r] /\ number'[r] = number[r] /\ (Going(r)' <=> Going(r))
    BY DEF Pauses, Going
  <2>2. FirstTry(r)
    BY DEF RunInv
  <2>3. QED
    BY <2>1, <2>2, PausingDoneWell DEF FirstTry
<1>4. Stable(r)'
  BY PausingStable DEF RunInv
<1>5. QED
  BY <1>1, <1>2, <1>3, <1>4

LEMMA RestingKeeps == ASSUME NEW r, Rests(r), RunInv(r) PROVE RunInv(r)'
<1>1. Pauses(r)
  BY DEF Rests, Pauses
<1>2. Working(r)'
  <2>1. /\ batch'[r] = batch[r] /\ number'[r] = number[r] /\ steps'[r] = steps[r]
        /\ docs'[r] = docs[r] /\ faulty'[r] = faulty[r] /\ pc'[r] = pc[r] /\ dlq \subseteq dlq'
        /\ (ScanEnded(r)' <=> ScanEnded(r)) /\ (BatchFull(r)' <=> BatchFull(r))
        /\ \A x : CanBeWhole(r, x)' <=> CanBeWhole(r, x)
    BY DEF Rests, SameFiles, ScanEnded, Missing, BatchFull, CanBeWhole
  <2>2. Working(r)
    BY DEF RunInv
  <2>3. QED
    BY <2>1, <2>2 DEF Working
<1>3. QED
  BY <1>1, <1>2, PausingKeeps DEF RunInv

\* A step of a run leaves the others where they are.
LEMMA OthersRest ==
  ASSUME SyncInv, RunTypes, NEW r \in Runs, SyncStep(r), NEW q \in Runs, q # r
  PROVE  Rests(q)
<1> USE DEF SyncInv, TypeOK, TablesTotal, RunTypes, Rests, SameFiles, At, Goto, sourceVars, engineVars,
            scanVars, ingestVars, reportVars, indexVars, tryVars, NextBatch, Yields, Enqueue, RecordStep
<1>1. CASE StartSync(r)
  BY <1>1 DEF StartSync
<1>2. CASE VisitFile(r)
  BY <1>2 DEF VisitFile
<1>3. CASE YieldTombstone(r)
  BY <1>3 DEF YieldTombstone
<1>4. CASE ScanFails(r)
  BY <1>4 DEF ScanFails
<1>5. CASE ReplayBatch(r)
  BY <1>5 DEF ReplayBatch
<1>6. CASE PrepareBatch(r)
  BY <1>6, Prepares DEF PrepareBatch
<1>7. CASE Embed(r)
  BY <1>7 DEF Embed
<1>8. CASE SoftDelete(r)
  BY <1>8 DEF SoftDelete
<1>9. CASE Upsert(r)
  BY <1>9 DEF Upsert
<1>10. CASE CompleteSync(r)
  BY <1>10 DEF CompleteSync
<1>11. QED
  BY <1>1, <1>2, <1>3, <1>4, <1>5, <1>6, <1>7, <1>8, <1>9, <1>10 DEF SyncStep

------------------------------------------------------------------------------
(* Where a batch ends. *)

\* Everything due has been seen when the scan has come to its end.
LEMMA SeenAll ==
  ASSUME NEW r, Scanned(r), ScanEnded(r)
  PROVE  Seen(r) = Due(r) /\ read[r] = RecordsOf(Due(r))
<1>1. queue[r] = {} /\ DOMAIN hashes[r] \subseteq seen[r]
  BY DEF ScanEnded, Missing
<1>2. ASSUME NEW f \in FileDue(r) PROVE f \in seen[r]
  <2>1. PICK i \in DOMAIN Files : Files[i] = f
    BY DEF FileDue, Docs, ToSet
  <2>2. source[f] # {}
    BY DEF FileDue
  <2>3. QED
    BY <1>1, <2>1, <2>2 DEF Scanned
<1>3. GoneDue(r) \subseteq seen[r]
  BY <1>1 DEF GoneDue
<1>4. Seen(r) = Due(r)
  BY <1>2, <1>3 DEF Due, Seen
<1>5. QED
  BY <1>4 DEF Scanned

\* A batch that goes to the pipeline.
Filled(r) == batch[r] # {} /\ (BatchFull(r) \/ ScanEnded(r))

LEMMA BatchSizes ==
  ASSUME NEW r, Counted(r), Filled(r), number[r] \in Nat
  PROVE  /\ Cardinality(batch[r]) \in Nat /\ Cardinality(Seen(r)) \in Nat
         /\ 1 <= Cardinality(batch[r]) /\ Cardinality(batch[r]) <= BatchSize
         /\ queue[r] # {} => Cardinality(batch[r]) = BatchSize
         /\ Cardinality(batch[r]) = BatchSize \/ ScanEnded(r)
         /\ Cardinality(Seen(r)) = (number[r] - 1) * BatchSize + Cardinality(batch[r])
<1>1. /\ IsFiniteSet(batch[r]) /\ Cardinality(batch[r]) <= BatchSize /\ IsFiniteSet(Seen(r))
      /\ Cardinality(Seen(r)) = (number[r] - 1) * BatchSize + Cardinality(batch[r])
  BY DEF Counted, Filled
<1>2. Cardinality(batch[r]) \in Nat /\ Cardinality(Seen(r)) \in Nat /\ Cardinality(batch[r]) # 0
  BY <1>1, FS_CardinalityType, FS_EmptySet DEF Filled
<1>3. BatchSize \in Nat
  BY ScribeAssumption
<1>4. Cardinality(batch[r]) = BatchSize \/ ScanEnded(r)
  BY <1>1, <1>2, <1>3 DEF Filled, BatchFull
<1>5. 1 <= Cardinality(batch[r])
  BY <1>2
<1>6. QED
  BY <1>1, <1>2, <1>4, <1>5 DEF ScanEnded

\* The files read so far come before the others.
LEMMA SeenIsFront == ASSUME NEW r, Scanned(r) PROVE DownIn(Seen(r) \cap FileDue(r), r)
<1>1. SUFFICES ASSUME NEW f \in Seen(r) \cap FileDue(r), NEW g \in FileDue(r), Before(g, f)
               PROVE  g \in Seen(r) \cap FileDue(r)
  BY DEF DownIn
<1>2. PICK i \in DOMAIN Files, j \in DOMAIN Files : i < j /\ Files[i] = g /\ Files[j] = f
  BY <1>1 DEF Before
<1>3. source[f] # {} /\ source[g] # {} /\ f \in seen[r]
  BY DEF FileDue, Seen
<1>4. j \notin queue[r]
  BY <1>2, <1>3 DEF Scanned
<1>5. i \notin queue[r]
  BY <1>2, <1>3, <1>4 DEF Scanned
<1>6. g \in seen[r]
  BY <1>2, <1>3, <1>5 DEF Scanned
<1>7. QED
  BY <1>6 DEF Seen, Due

\* A full batch of files, or one of which a recorded step says that it was.
LEMMA SeenIsPrefix ==
  ASSUME NEW r, Scanned(r), Counted(r), Filled(r), number[r] \in Nat,
         queue[r] # {} \/ Prefix(r, number[r])
  PROVE  /\ Seen(r) \subseteq FileDue(r) /\ DownIn(Seen(r), r) /\ IsFiniteSet(Seen(r))
         /\ Cardinality(Seen(r)) = number[r] * BatchSize
<1>1. IsFiniteSet(Seen(r))
  BY DEF Counted
<1>2. Seen(r) \subseteq FileDue(r) /\ Cardinality(Seen(r)) = number[r] * BatchSize
  <2>1. CASE queue[r] # {}
    <3>1. \A f \in Seen(r) : source[f] # {}
      BY <2>1 DEF Seen, Scanned
    <3>2. Seen(r) \subseteq FileDue(r)
      BY <3>1 DEF Seen, Due, GoneDue
    <3>3. Cardinality(Seen(r)) = (number[r] - 1) * BatchSize + BatchSize
      BY <2>1, BatchSizes
    <3>4. number[r] \in Int
      OBVIOUS
    <3>5. QED
      BY <3>2, <3>3, <3>4, OneBatchMore
  <2>2. CASE queue[r] = {}
    <3>1. PICK D \in SUBSET FileDue(r) : IsFiniteSet(D) /\ Cardinality(D) = number[r] * BatchSize
      BY <2>2 DEF Prefix
    <3>2. FileDue(r) \subseteq Seen(r)
      <4>1. SUFFICES ASSUME NEW f \in FileDue(r) PROVE f \in seen[r]
        BY DEF Seen, Due
      <4>2. PICK i \in DOMAIN Files : Files[i] = f
        BY DEF FileDue, Docs, ToSet
      <4>3. source[f] # {}
        BY DEF FileDue
      <4>4. QED
        BY <2>2, <4>2, <4>3 DEF Scanned
    <3>3. D \in SUBSET Seen(r)
      BY <3>2
    <3>4. /\ Cardinality(D) <= Cardinality(Seen(r))
          /\ Cardinality(Seen(r)) = Cardinality(D) => Seen(r) = D
      BY <1>1, <3>3, FS_Subset, Zenon
    <3>5. number[r] \in Int /\ BatchSize \in Nat
      BY ScribeAssumption
    <3>6. /\ number[r] * BatchSize \in Int
          /\ (number[r] - 1) * BatchSize + BatchSize = number[r] * BatchSize
      BY <3>5, OneBatchMore
    <3>7. PICK a \in Int : a = (number[r] - 1) * BatchSize
      <4>1. number[r] - 1 \in Int
        BY <3>5
      <4>2. QED
        BY <4>1, OneBatchMore
    <3>8. PICK b \in Int : b = number[r] * BatchSize
      BY <3>6
    <3>9. /\ Cardinality(Seen(r)) = a + Cardinality(batch[r]) /\ Cardinality(batch[r]) <= BatchSize
          /\ Cardinality(batch[r]) \in Nat /\ Cardinality(Seen(r)) \in Nat
      BY <3>7, BatchSizes
    <3>10. Cardinality(Seen(r)) <= b
      BY <3>5, <3>6, <3>7, <3>8, <3>9
    <3>11. Cardinality(Seen(r)) = Cardinality(D)
      BY <3>1, <3>4, <3>8, <3>9, <3>10
    <3>12. QED
      BY <3>1, <3>4, <3>11
  <2>3. QED
    BY <2>1, <2>2
<1>3. Seen(r) \cap FileDue(r) = Seen(r)
  BY <1>2
<1>4. QED
  BY <1>1, <1>2, <1>3, SeenIsFront

\* The counts after a batch.
LEMMA CountedOn ==
  ASSUME NEW r, Scanned(r), Counted(r), Filled(r), number[r] \in Nat, SameScan(r),
         batch'[r] = {}, number'[r] = number[r] + 1
  PROVE  Counted(r)'
<1>1. /\ Cardinality(batch[r]) \in Nat /\ Cardinality(Seen(r)) \in Nat
      /\ 1 <= Cardinality(batch[r]) /\ Cardinality(batch[r]) <= BatchSize
      /\ Cardinality(batch[r]) = BatchSize \/ ScanEnded(r)
      /\ Cardinality(Seen(r)) = (number[r] - 1) * BatchSize + Cardinality(batch[r])
  BY BatchSizes
<1>2. number[r] \in Int /\ BatchSize \in Nat /\ number'[r] - 1 = number[r] /\ number'[r] - 2 = number[r] - 1
  <2>1. BatchSize \in Nat
    BY ScribeAssumption
  <2>2. QED
    BY <2>1
<1>3. number[r] - 1 \in Int
  BY <1>2
<1>4. /\ number[r] * BatchSize \in Int /\ (number[r] - 1) * BatchSize \in Int
      /\ (number[r] - 1) * BatchSize + BatchSize = number[r] * BatchSize
  BY <1>2, <1>3, OneBatchMore
<1>5. Seen(r)' = Seen(r) /\ (ScanEnded(r)' <=> ScanEnded(r))
  BY StaysScanned
<1>6. IsFiniteSet({}) /\ Cardinality({}) = 0
  BY FS_EmptySet
<1>7. IsFiniteSet(Seen(r))
  BY DEF Counted
<1>8. PICK a \in Int, b \in Int, c \in Nat, s \in Nat, size \in Nat :
        /\ a = (number[r] - 1) * BatchSize /\ b = number[r] * BatchSize /\ c = Cardinality(batch[r])
        /\ s = Cardinality(Seen(r)) /\ size = BatchSize
  BY <1>1, <1>2, <1>4
<1>9. a + size = b /\ 1 <= c /\ c <= size /\ (c = size \/ ScanEnded(r)) /\ s = a + c
  BY <1>1, <1>4, <1>8
<1>10. s = b + 0 \/ (ScanEnded(r) /\ a < s /\ s <= b)
  BY <1>9
<1>11. /\ IsFiniteSet(batch'[r]) /\ Cardinality(batch'[r]) = 0 /\ 0 <= BatchSize
       /\ IsFiniteSet(Seen(r)')
  BY <1>2, <1>5, <1>6, <1>7
<1>12. \/ Cardinality(Seen(r)') = (number'[r] - 1) * BatchSize + 0
       \/ /\ batch'[r] = {} /\ ScanEnded(r)'
          /\ (number'[r] - 2) * BatchSize < Cardinality(Seen(r)')
          /\ Cardinality(Seen(r)') <= (number'[r] - 1) * BatchSize
  BY <1>2, <1>5, <1>8, <1>10
<1>13. QED
  BY <1>11, <1>12 DEF Counted

------------------------------------------------------------------------------
(* The run that moves: its start and what it reads. *)

LEMMA AtReports == ASSUME ReportInv, NEW r \in Runs PROVE RunInv(r) /\ RunTypes
BY DEF ReportInv

LEMMA StartReports ==
  ASSUME SyncInv, ReportInv, NEW r \in Runs, StartSync(r)
  PROVE  RunInv(r)'
<1>1. /\ pc[r] = "idle" /\ pc'[r] = "scan" /\ tries'[r] = tries[r] + 1 /\ known' = known \cup {r}
      /\ queue'[r] = {i \in DOMAIN Files : source[Files[i]] # {}} /\ seen'[r] = {} /\ batch'[r] = {}
      /\ number'[r] = 1 /\ read'[r] = {} /\ errors'[r] = FALSE /\ report'[r] = "none"
      /\ source' = source /\ rev' = rev /\ dlq' = dlq
  BY DEF StartSync, At, Goto, sourceVars, SyncInv, TypeOK, ReportInv, RunTypes
<1>2. \/ /\ r \in known /\ hashes' = hashes /\ steps' = steps /\ changed' = changed
         /\ delivered' = delivered
      \/ r \notin known /\ steps'[r] = <<>>
  BY DEF StartSync, SyncInv, TablesTotal
<1>3. RunInv(r) /\ tries[r] \in Nat
  BY DEF ReportInv, RunTypes
<1>4. Going(r)' /\ DoneWell(r)'
  BY <1>1 DEF Going, DoneWell
<1>5. Ended(r)' /\ Working(r)'
  BY <1>1 DEF Ended, Working
<1>6. DOMAIN <<>> = 1..0 /\ DOMAIN <<>> = {}
  OBVIOUS
<1>7. Flagged(r)'
  <2>1. \E m \in Nat : DOMAIN steps'[r] = 1..m
    <3>1. CASE steps'[r] = <<>>
      BY <1>6, <3>1
    <3>2. CASE steps' = steps
      BY <1>3, <3>2 DEF RunInv, Flagged
    <3>3. QED
      BY <1>2, <3>1, <3>2
  <2>2. tries'[r] >= 1
    BY <1>1, <1>3
  <2>3. 1..(number'[r] - 1) = {}
    BY <1>1
  <2>4. QED
    BY <1>1, <2>1, <2>2, <2>3 DEF Flagged
<1>8. FirstTry(r)'
  <2>1. SUFFICES ASSUME tries'[r] <= 1 PROVE DOMAIN steps'[r] \subseteq 1..(number'[r] - 1)
    BY <1>4 DEF FirstTry
  <2>2. r \notin known
    BY <1>1, <1>3, <2>1 DEF RunInv, Flagged
  <2>3. QED
    BY <1>2, <1>6, <2>2
<1>9. Scanned(r)'
  <2>1. Seen(r)' = {}
    BY <1>1 DEF Seen
  <2>2. RecordsOf(Seen(r))' = {}
    BY <2>1 DEF RecordsOf
  <2>3. QED
    BY <1>1, <2>2 DEF Scanned
<1>10. Counted(r)'
  <2>1. Seen(r)' = {}
    BY <1>1 DEF Seen
  <2>2. IsFiniteSet({}) /\ Cardinality({}) = 0
    BY FS_EmptySet
  <2>3. BatchSize \in Nat
    BY ScribeAssumption
  <2>4. 0 = (1 - 1) * BatchSize + 0 /\ 0 <= BatchSize
    BY <2>3
  <2>5. QED
    BY <1>1, <2>1, <2>2, <2>4 DEF Counted
<1>11. ~changed'[r] => CameToEnd(r)' \/ UnderWay(r)'
  <2>1. CASE steps'[r] = <<>>
    BY <1>4, <1>6, <2>1 DEF UnderWay
  <2>2. CASE r \in known /\ hashes' = hashes /\ steps' = steps /\ changed' = changed /\ delivered' = delivered
    <3>1. Grows(r)
      BY <1>1, <2>2 DEF Grows, SameFiles
    <3>2. CameToEnd(r) => CameToEnd(r)'
      BY <2>2, <3>1, StaysAtEnd
    <3>3. UnderWay(r) => UnderWay(r)'
      <4>1. \A n : Prefix(r, n) => Prefix(r, n)'
        BY <2>2, <3>1, StaysPrefix
      <4>2. QED
        BY <1>1, <1>4, <2>2, <4>1 DEF UnderWay
    <3>4. QED
      BY <1>3, <2>2, <3>2, <3>3 DEF RunInv, Stable
  <2>3. QED
    BY <1>2, <2>1, <2>2
<1>12. QED
  BY <1>5, <1>7, <1>8, <1>9, <1>10, <1>11 DEF RunInv, Stable

\* One record more is in the batch and among those read, or none.
LEMMA ReadsOn ==
  ASSUME NEW r, NEW X, Grows(r), RunInv(r), pc[r] = "scan", pc'[r] = "scan", batch'[r] = batch[r] \cup X,
         read'[r] = read[r] \cup X, number'[r] = number[r], steps'[r] = steps[r],
         errors'[r] = errors[r], report'[r] = report[r], tries'[r] = tries[r], known' = known,
         delivered'[r] = delivered[r]
  PROVE  /\ Ended(r)' /\ Flagged(r)' /\ Working(r)' /\ FirstTry(r)'
         /\ DoneWell(r) => DoneWell(r)'
<1>1. Ended(r)' /\ Working(r)'
  BY DEF RunInv, Ended, Working
<1>2. Going(r) /\ Going(r)'
  BY DEF Going
<1>3. Flagged(r)'
  BY <1>2 DEF RunInv, Flagged
<1>4. DoneWell(r) => DoneWell(r)'
  BY StaysAccounted DEF DoneWell
<1>5. FirstTry(r)'
  BY <1>2, <1>4 DEF RunInv, FirstTry
<1>6. QED
  BY <1>1, <1>3, <1>4, <1>5

\* The record of a document that has not been seen.
LEMMA OneRecordMore ==
  ASSUME NEW r, OneText, NEW x \in Record, Current(x), NEW D, x.doc \notin D
  PROVE  RecordsOf(D \cup {x.doc}) = RecordsOf(D) \cup {x}
<1>1. ASSUME NEW y \in RecordsOf(D \cup {x.doc}) PROVE y \in RecordsOf(D) \cup {x}
  <2>1. y \in Record /\ Current(y) /\ (y.doc \in D \/ y.doc = x.doc)
    BY DEF RecordsOf
  <2>2. CASE y.doc = x.doc
    <3>1. y.rev = x.rev /\ x.doc \in Docs
      BY <2>1, <2>2 DEF Current, Record
    <3>2. y.text = x.text
      BY <2>1, <2>2, <3>1 DEF Current, OneText
    <3>3. y = x
      BY <2>1, <2>2, <3>1, <3>2 DEF Record
    <3>4. QED
      BY <3>3
  <2>3. QED
    BY <2>1, <2>2 DEF RecordsOf
<1>2. RecordsOf(D) \cup {x} \subseteq RecordsOf(D \cup {x.doc})
  BY DEF RecordsOf
<1>3. QED
  BY <1>1, <1>2

\* The counts go on with one document and one record more.
LEMMA CountsOne ==
  ASSUME NEW r, Counted(r), BatchSize \in Nat, number[r] \in Nat, ~BatchFull(r), ~ScanEnded(r), SameFiles(r),
         NEW x, NEW f, f \notin Seen(r), x \notin batch[r],
         Seen(r)' = Seen(r) \cup {f}, batch'[r] = batch[r] \cup {x}, number'[r] = number[r]
  PROVE  Counted(r)'
<1>1. /\ IsFiniteSet(batch[r]) /\ Cardinality(batch[r]) <= BatchSize /\ IsFiniteSet(Seen(r))
      /\ Cardinality(Seen(r)) = (number[r] - 1) * BatchSize + Cardinality(batch[r])
  BY DEF Counted
<1>2. PICK b \in Nat, s \in Nat : b = Cardinality(batch[r]) /\ s = Cardinality(Seen(r))
  BY <1>1, FS_CardinalityType
<1>3. IsFiniteSet(batch'[r]) /\ Cardinality(batch'[r]) = b + 1
  BY <1>1, <1>2, FS_AddElement
<1>4. IsFiniteSet(Seen(r)') /\ Cardinality(Seen(r)') = s + 1
  BY <1>1, <1>2, FS_AddElement
<1>5. b < BatchSize
  BY <1>2 DEF BatchFull
<1>6. PICK a \in Int : a = (number[r] - 1) * BatchSize
  OBVIOUS
<1>7. s + 1 = a + (b + 1) /\ b + 1 <= BatchSize
  BY <1>1, <1>2, <1>5, <1>6
<1>8. (number'[r] - 1) * BatchSize = a
  BY <1>6
<1>9. QED
  BY <1>3, <1>4, <1>7, <1>8 DEF Counted

LEMMA VisitReports ==
  ASSUME SyncInv, ReportInv, NEW r \in Runs, VisitFile(r)
  PROVE  RunInv(r)'
<1>1. PICK i \in queue[r] :
        /\ \A j \in queue[r] : i <= j
        /\ queue' = [queue EXCEPT ![r] = @ \ {i}]
        /\ \/ source[Files[i]] = {} /\ UNCHANGED <<seen, batch, read, changed, faults>>
           \/ /\ source[Files[i]] # {}
              /\ seen' = [seen EXCEPT ![r] = @ \cup {Files[i]}]
              /\ \/ /\ Fails("read")
                    /\ changed' = [changed EXCEPT ![r] = TRUE]
                    /\ UNCHANGED <<batch, read>>
                 \/ /\ \E text \in source[Files[i]] :
                         IF Unchanged(r, Files[i], text)
                         THEN UNCHANGED <<batch, read>>
                         ELSE Yields(r, [doc |-> Files[i], text |-> text, rev |-> rev[Files[i]]])
                    /\ UNCHANGED <<changed, faults>>
  BY DEF VisitFile
<1> DEFINE f == Files[i]
<1>2. i \in DOMAIN Files /\ f \in Docs /\ f \notin seen[r] /\ ~BatchFull(r) /\ pc[r] = "scan"
  BY DEF SyncInv, TypeOK, Docs, ToSet, OncePerDocument, VisitFile, At
<1>3. /\ pc'[r] = "scan" /\ number'[r] = number[r] /\ steps'[r] = steps[r] /\ errors'[r] = errors[r]
      /\ report'[r] = report[r] /\ tries'[r] = tries[r] /\ known' = known /\ delivered'[r] = delivered[r]
      /\ queue'[r] = queue[r] \ {i} /\ source' = source /\ rev' = rev /\ hashes' = hashes /\ dlq' = dlq
      /\ r \in DOMAIN seen /\ r \in DOMAIN batch /\ r \in DOMAIN read /\ r \in DOMAIN changed
  BY <1>1, <1>2 DEF VisitFile, sourceVars, indexVars, engineVars, reportVars, SyncInv, TypeOK, ReportInv, RunTypes
<1>4. Grows(r) /\ SameFiles(r)
  BY <1>3 DEF Grows, SameFiles
<1>5. RunInv(r) /\ OneText
  BY DEF ReportInv
<1>6. \E X : batch'[r] = batch[r] \cup X /\ read'[r] = read[r] \cup X
  <2>1. CASE UNCHANGED <<batch, read>>
    <3>1. batch'[r] = batch[r] \cup {} /\ read'[r] = read[r] \cup {}
      BY <2>1
    <3>2. QED
      BY <3>1
  <2>2. CASE \E text : Yields(r, [doc |-> f, text |-> text, rev |-> rev[f]])
    BY <1>3, <2>2 DEF Yields
  <2>3. QED
    BY <1>1, <2>1, <2>2
<1>7. /\ Ended(r)' /\ Flagged(r)' /\ Working(r)' /\ FirstTry(r)'
      /\ DoneWell(r) => DoneWell(r)'
  BY <1>2, <1>3, <1>4, <1>5, <1>6, ReadsOn
<1>8. ASSUME ~changed'[r] PROVE Stable(r)'
  <2>1. /\ ~changed[r] /\ Going(r)
    BY <1>1, <1>2, <1>3, <1>8 DEF Going
  <2>2. Scanned(r) /\ Counted(r) /\ (CameToEnd(r) \/ UnderWay(r))
    BY <1>5, <2>1 DEF RunInv, Stable
  <2>3. source[f] # {}
    BY <2>2 DEF Scanned
  <2>4. seen'[r] = seen[r] \cup {f}
    BY <1>1, <1>3, <2>3
  <2>5. PICK text \in source[f] :
          IF Unchanged(r, f, text) THEN batch'[r] = batch[r] /\ read'[r] = read[r]
          ELSE /\ batch'[r] = batch[r] \cup {[doc |-> f, text |-> text, rev |-> rev[f]]}
               /\ read'[r] = read[r] \cup {[doc |-> f, text |-> text, rev |-> rev[f]]}
    BY <1>1, <1>3, <1>8, <2>3 DEF Yields
  <2> DEFINE x == [doc |-> f, text |-> text, rev |-> rev[f]]
  <2>6. Due(r)' = Due(r) /\ \A D : RecordsOf(D)' = RecordsOf(D)
    BY <1>4, SameDue
  <2>7. f \in Due(r) <=> ~Unchanged(r, f, text)
    BY <1>2, <1>5, <2>3, <2>5 DEF Due, FileDue, GoneDue, OneText
  <2>8. Scanned(r)' /\ Counted(r)'
    <3>1. \A j \in queue'[r] : source[Files[j]] # {}
      BY <1>3, <2>2 DEF Scanned
    <3>2. \A j \in queue'[r], k \in DOMAIN Files : j < k /\ source[Files[k]] # {} => k \in queue'[r]
      <4>1. SUFFICES ASSUME NEW j \in queue[r], j # i, NEW k \in DOMAIN Files, j < k, source[Files[k]] # {}
                     PROVE  k \in queue[r] \ {i}
        BY <1>3
      <4>2. k \in queue[r]
        BY <2>2, <4>1 DEF Scanned
      <4>3. i \in Int /\ j \in Int /\ k \in Int
        BY <4>1, <4>2, ScribeAssumption DEF SyncInv, TypeOK
      <4>4. k # i
        BY <1>1, <4>1, <4>3
      <4>5. QED
        BY <4>2, <4>4
    <3>3. \A j \in DOMAIN Files : Files[j] = f => j = i
      BY <1>2, ScribeAssumption
    <3>4. \A j \in DOMAIN Files : source[Files[j]] # {} => (Files[j] \in seen'[r] <=> j \notin queue'[r])
      BY <1>3, <2>2, <2>4, <3>3 DEF Scanned
    <3>5. \A g \in seen'[r] : source[g] = {} => g \in DOMAIN hashes[r] /\ queue[r] = {}
      BY <2>2, <2>3, <2>4 DEF Scanned
    <3>6. queue[r] # {} /\ ~ScanEnded(r)
      BY DEF ScanEnded
    <3>7. CASE Unchanged(r, f, text)
      <4>1. Seen(r)' = Seen(r)
        BY <2>4, <2>6, <2>7, <3>7 DEF Seen
      <4>2. read'[r] = RecordsOf(Seen(r))' /\ batch'[r] = batch[r]
        BY <2>2, <2>5, <2>6, <3>7, <4>1 DEF Scanned
      <4>3. Scanned(r)'
        BY <1>3, <3>1, <3>2, <3>4, <3>5, <3>6, <4>2 DEF Scanned
      <4>4. Counted(r)'
        BY <1>3, <2>2, <3>6, <4>1, <4>2 DEF Counted
      <4>5. QED
        BY <4>3, <4>4
    <3>8. CASE ~Unchanged(r, f, text)
      <4>1. Seen(r)' = Seen(r) \cup {f} /\ f \notin Seen(r)
        BY <1>2, <2>4, <2>6, <2>7, <3>8 DEF Seen
      <4>2. /\ x \in Record /\ Current(x) /\ x.doc = f /\ x \notin batch[r]
        BY <1>2, <2>3 DEF Record, Current, SyncInv, TypeOK, OncePerDocument
      <4>3. read'[r] = read[r] \cup {x} /\ batch'[r] = batch[r] \cup {x}
        BY <2>5, <3>8
      <4> HIDE DEF x
      <4>4. RecordsOf(Seen(r) \cup {f}) = RecordsOf(Seen(r)) \cup {x}
        BY <1>5, <4>1, <4>2, OneRecordMore
      <4>5. read'[r] = RecordsOf(Seen(r))'
        BY <2>2, <2>6, <4>1, <4>3, <4>4 DEF Scanned
      <4>6. Scanned(r)'
        BY <1>3, <3>1, <3>2, <3>4, <3>5, <3>6, <4>5 DEF Scanned
      <4>7. BatchSize \in Nat /\ number[r] \in Nat
        BY ScribeAssumption DEF SyncInv, TypeOK
      <4>8. Counted(r)'
        BY <1>2, <1>3, <1>4, <2>2, <3>6, <4>1, <4>2, <4>3, <4>7, CountsOne
      <4>9. QED
        BY <4>6, <4>8
    <3>9. QED
      BY <3>7, <3>8
  <2>9. CameToEnd(r) => CameToEnd(r)'
    BY <1>3, <1>4, StaysAtEnd
  <2>10. UnderWay(r) => UnderWay(r)'
    <3>1. \A n : Prefix(r, n) => Prefix(r, n)'
      BY <1>3, <1>4, StaysPrefix
    <3>2. queue[r] # {}
      OBVIOUS
    <3>3. QED
      BY <1>3, <1>7, <2>1, <3>1, <3>2 DEF UnderWay
  <2>11. QED
    BY <2>2, <2>8, <2>9, <2>10 DEF Stable
<1>9. QED
  BY <1>7, <1>8 DEF RunInv, Stable

LEMMA TombstoneReports ==
  ASSUME SyncInv, ReportInv, NEW r \in Runs, YieldTombstone(r)
  PROVE  RunInv(r)'
<1>1. PICK f \in Missing(r) :
        seen' = [seen EXCEPT ![r] = @ \cup {f}] /\ Yields(r, Tombstone(f))
  BY DEF YieldTombstone
<1> DEFINE x == Tombstone(f)
<1>2. /\ queue[r] = {} /\ f \in DOMAIN hashes[r] /\ f \notin seen[r] /\ f \in Docs
      /\ ~BatchFull(r) /\ ~ScanEnded(r) /\ pc[r] = "scan"
  BY DEF Missing, ScanEnded, YieldTombstone, At, SyncInv, TablesTotal
<1>3. /\ pc'[r] = "scan" /\ number'[r] = number[r] /\ steps'[r] = steps[r] /\ errors'[r] = errors[r]
      /\ report'[r] = report[r] /\ tries'[r] = tries[r] /\ known' = known /\ delivered'[r] = delivered[r]
      /\ queue'[r] = queue[r] /\ source' = source /\ rev' = rev /\ hashes' = hashes /\ dlq' = dlq
      /\ seen'[r] = seen[r] \cup {f} /\ batch'[r] = batch[r] \cup {x} /\ read'[r] = read[r] \cup {x}
      /\ changed'[r] = changed[r]
  BY <1>1, <1>2 DEF YieldTombstone, Yields, sourceVars, indexVars, engineVars, reportVars, tryVars,
                    SyncInv, TypeOK, ReportInv, RunTypes
<1>4. Grows(r) /\ SameFiles(r)
  BY <1>3 DEF Grows, SameFiles
<1>5. RunInv(r) /\ OneText
  BY DEF ReportInv
<1>6. x \in Record /\ x.doc = f /\ x.text = Remains /\ x.rev = rev[f] /\ x \notin batch[r]
  BY <1>2 DEF Tombstone, Record, SyncInv, TypeOK, OncePerDocument
<1> HIDE DEF x
<1>7. /\ Ended(r)' /\ Flagged(r)' /\ Working(r)' /\ FirstTry(r)'
      /\ DoneWell(r) => DoneWell(r)'
  BY <1>2, <1>3, <1>4, <1>5, ReadsOn
<1>8. ASSUME ~changed'[r] PROVE Stable(r)'
  <2>1. ~changed[r] /\ Going(r)
    BY <1>2, <1>3, <1>8 DEF Going
  <2>2. Scanned(r) /\ Counted(r) /\ (CameToEnd(r) \/ UnderWay(r))
    BY <1>5, <2>1 DEF RunInv, Stable
  <2>3. source[f] = {}
    <3>1. PICK i \in DOMAIN Files : Files[i] = f
      BY <1>2 DEF Docs, ToSet
    <3>2. QED
      BY <1>2, <2>2, <3>1 DEF Scanned
  <2>4. f \in Due(r) /\ Current(x)
    BY <1>2, <1>6, <2>3 DEF Due, GoneDue, Current
  <2>5. Due(r)' = Due(r) /\ \A D : RecordsOf(D)' = RecordsOf(D)
    BY <1>4, SameDue
  <2>6. Seen(r)' = Seen(r) \cup {f} /\ f \notin Seen(r)
    BY <1>2, <1>3, <2>4, <2>5 DEF Seen
  <2>7. RecordsOf(Seen(r) \cup {f}) = RecordsOf(Seen(r)) \cup {x}
    BY <1>5, <1>6, <2>4, <2>6, OneRecordMore
  <2>8. read'[r] = RecordsOf(Seen(r))'
    BY <1>3, <2>2, <2>5, <2>6, <2>7 DEF Scanned
  <2>9. Scanned(r)'
    <3>1. \A i \in DOMAIN Files : source[Files[i]] # {} => Files[i] # f
      BY <2>3
    <3>2. QED
      BY <1>2, <1>3, <2>2, <2>3, <2>8, <3>1 DEF Scanned
  <2>10. Counted(r)'
    <3>1. BatchSize \in Nat /\ number[r] \in Nat
      BY ScribeAssumption DEF SyncInv, TypeOK
    <3>2. QED
      BY <1>2, <1>3, <1>4, <1>6, <2>2, <2>6, <3>1, CountsOne
  <2>11. CameToEnd(r) => CameToEnd(r)'
    BY <1>3, <1>4, StaysAtEnd
  <2>12. UnderWay(r) => UnderWay(r)'
    <3>1. \A n : Prefix(r, n) => Prefix(r, n)'
      BY <1>3, <1>4, StaysPrefix
    <3>2. QED
      BY <1>3, <1>7, <2>1, <3>1 DEF UnderWay
  <2>13. QED
    BY <2>2, <2>9, <2>10, <2>11, <2>12 DEF Stable
<1>9. QED
  BY <1>7, <1>8 DEF RunInv, Stable

LEMMA ScanFailsReports ==
  ASSUME SyncInv, ReportInv, NEW r \in Runs, ScanFails(r)
  PROVE  RunInv(r)'
<1>1. /\ pc[r] = "scan" /\ pc'[r] = "idle" /\ queue[r] # {} /\ report'[r] = "FAILED"
      /\ source' = source /\ rev' = rev /\ hashes' = hashes /\ dlq' = dlq /\ delivered' = delivered
      /\ steps' = steps /\ tries' = tries /\ changed' = changed /\ known' = known
  BY DEF ScanFails, At, Goto, sourceVars, indexVars, engineVars, scanVars, tryVars, SyncInv, TypeOK
<1>2. RunInv(r) /\ Grows(r) /\ ~Going(r)'
  BY <1>1 DEF ReportInv, Grows, SameFiles, Going
<1>3. Ended(r)' /\ Flagged(r)' /\ Working(r)' /\ FirstTry(r)'
  BY <1>1, <1>2 DEF RunInv, Ended, Flagged, Working, FirstTry
<1>4. CameToEnd(r) => CameToEnd(r)'
  BY <1>1, <1>2, StaysAtEnd
<1>5. UnderWay(r) => UnderWay(r)'
  <2>1. \A n : Prefix(r, n) => Prefix(r, n)'
    BY <1>1, <1>2, StaysPrefix
  <2>2. QED
    BY <1>1, <1>2, <2>1 DEF UnderWay
<1>6. Stable(r)'
  BY <1>1, <1>2, <1>4, <1>5 DEF RunInv, Stable
<1>7. QED
  BY <1>3, <1>6 DEF RunInv

------------------------------------------------------------------------------
(* The end of a try. *)

\* The steps of a try that has come to its end are those of all that is due.
LEMMA EndCounts ==
  ASSUME NEW r, Scanned(r), Counted(r), ScanEnded(r), batch[r] = {}, number[r] \in Nat
  PROVE  /\ IsFiniteSet(Due(r))
         /\ (number[r] - 2) * BatchSize < Cardinality(Due(r))
         /\ Cardinality(Due(r)) <= (number[r] - 1) * BatchSize
<1>1. Seen(r) = Due(r)
  BY SeenAll
<1>2. IsFiniteSet(Due(r)) /\ Cardinality(Due(r)) \in Nat
  BY <1>1, FS_CardinalityType DEF Counted
<1>3. CASE Cardinality(Due(r)) = (number[r] - 1) * BatchSize + Cardinality(batch[r])
  <2>1. Cardinality(batch[r]) = 0
    BY FS_EmptySet
  <2>2. BatchSize \in Nat \ {0} /\ number[r] - 1 \in Int /\ (number[r] - 1) - 1 = number[r] - 2
    <3>1. BatchSize \in Nat \ {0}
      BY ScribeAssumption
    <3>2. QED
      BY <3>1
  <2>3. /\ (number[r] - 1) * BatchSize \in Int
        /\ ((number[r] - 1) - 1) * BatchSize + BatchSize = (number[r] - 1) * BatchSize
    BY <2>2, OneBatchMore
  <2>4. (number[r] - 2) * BatchSize \in Int
    <3>1. number[r] - 2 \in Int
      OBVIOUS
    <3>2. QED
      BY <3>1, OneBatchMore
  <2>5. PICK a \in Int, b \in Int, size \in Nat \ {0} :
          a = (number[r] - 2) * BatchSize /\ b = (number[r] - 1) * BatchSize /\ size = BatchSize
    BY <2>2, <2>3, <2>4
  <2>6. a + size = b
    BY <2>2, <2>3, <2>5
  <2>7. a < b + 0 /\ b + 0 <= b
    BY <2>6
  <2>8. QED
    BY <1>2, <1>3, <2>1, <2>5, <2>7
<1>4. QED
  BY <1>1, <1>2, <1>3 DEF Counted

LEMMA EndsWell ==
  ASSUME NEW r, Scanned(r), Counted(r), Flagged(r), UnderWay(r), Going(r), ScanEnded(r), batch[r] = {},
         number[r] \in Nat
  PROVE  CameToEnd(r)
<1>1. PICK m \in Nat : DOMAIN steps[r] = 1..m
  BY DEF Flagged
<1>2. /\ IsFiniteSet(Due(r))
      /\ (number[r] - 2) * BatchSize < Cardinality(Due(r))
      /\ Cardinality(Due(r)) <= (number[r] - 1) * BatchSize
  BY EndCounts
<1>3. /\ number[r] >= 1 /\ 1..(number[r] - 1) \subseteq 1..m
      /\ errors[r] <=> \E k \in 1..(number[r] - 1) : steps[r][k]
  BY <1>1 DEF Flagged
<1>4. number[r] \notin DOMAIN steps[r]
  <2>1. SUFFICES ASSUME number[r] \in DOMAIN steps[r] PROVE FALSE
    OBVIOUS
  <2>2. Prefix(r, number[r])
    BY <2>1 DEF UnderWay
  <2>3. PICK D \in SUBSET FileDue(r) : Cardinality(D) = number[r] * BatchSize
    BY <2>2 DEF Prefix
  <2>4. D \in SUBSET Due(r)
    BY DEF Due
  <2>5. Cardinality(D) <= Cardinality(Due(r))
    BY <1>2, <2>4, FS_Subset, Zenon
  <2>6. Cardinality(Due(r)) \in Nat
    BY <1>2, FS_CardinalityType
  <2>7. BatchSize \in Nat \ {0}
    BY ScribeAssumption
  <2>8. /\ number[r] * BatchSize \in Int
        /\ (number[r] - 1) * BatchSize + BatchSize = number[r] * BatchSize
    <3>1. number[r] \in Int
      OBVIOUS
    <3>2. QED
      BY <3>1, OneBatchMore
  <2>9. (number[r] - 1) * BatchSize \in Int
    <3>1. number[r] - 1 \in Int
      OBVIOUS
    <3>2. QED
      BY <3>1, OneBatchMore
  <2>10. PICK a \in Int, b \in Int, size \in Nat \ {0}, c \in Nat :
           /\ a = (number[r] - 1) * BatchSize /\ b = number[r] * BatchSize /\ size = BatchSize
           /\ c = Cardinality(Due(r))
    BY <2>6, <2>7, <2>8, <2>9
  <2>11. b <= c /\ c <= a /\ a + size = b
    BY <1>2, <2>3, <2>5, <2>8, <2>10
  <2>12. QED
    BY <2>11
<1>5. m = number[r] - 1
  <2>1. ~ (number[r] \in 1..m)
    BY <1>1, <1>4
  <2>2. number[r] > m
    BY <1>3, <2>1
  <2>3. number[r] - 1 >= 1 => number[r] - 1 \in 1..m
    BY <1>3
  <2>4. QED
    BY <1>3, <2>2, <2>3
<1>6. DoneTo(r, Due(r), m)
  <2>1. RecordsOf(Due(r)) = read[r]
    BY SeenAll
  <2>2. NoneFailed(r, m) => ~errors[r]
    BY <1>3, <1>5 DEF NoneFailed
  <2>3. DoneWell(r)
    BY DEF UnderWay
  <2>4. QED
    BY <2>1, <2>2, <2>3 DEF DoneTo, DoneWell
<1>7. (m - 1) * BatchSize < Cardinality(Due(r)) /\ Cardinality(Due(r)) <= m * BatchSize
  <2>1. m - 1 = number[r] - 2
    BY <1>5
  <2>2. QED
    BY <1>2, <1>5, <2>1
<1>8. QED
  BY <1>1, <1>2, <1>6, <1>7 DEF CameToEnd

LEMMA CompleteReports ==
  ASSUME SyncInv, ReportInv, NEW r \in Runs, CompleteSync(r)
  PROVE  RunInv(r)'
<1>1. /\ pc[r] = "scan" /\ pc'[r] = "idle" /\ ScanEnded(r) /\ batch[r] = {} /\ report'[r] = "COMPLETED"
      /\ source' = source /\ rev' = rev /\ hashes' = hashes /\ dlq' = dlq /\ delivered' = delivered
      /\ steps' = steps /\ tries' = tries /\ changed' = changed /\ known' = known
      /\ queue' = queue /\ seen' = seen /\ batch' = batch /\ number' = number /\ read' = read
      /\ errors' = errors
  BY DEF CompleteSync, At, Goto, sourceVars, indexVars, engineVars, scanVars, tryVars, SyncInv, TypeOK
<1>2. RunInv(r) /\ Grows(r) /\ Going(r) /\ Going(r)' /\ SameScan(r) /\ number[r] \in Nat
  BY <1>1 DEF ReportInv, Grows, SameFiles, SameScan, Going, SyncInv, TypeOK
<1>3. ScanEnded(r)'
  BY <1>1 DEF ScanEnded, Missing
<1>4. Ended(r)' /\ Flagged(r)' /\ Working(r)'
  BY <1>1, <1>2, <1>3 DEF RunInv, Ended, Flagged, Working
<1>5. DoneWell(r) => DoneWell(r)'
  BY <1>1, <1>2, StaysAccounted DEF DoneWell
<1>6. FirstTry(r)'
  BY <1>1, <1>2, <1>5 DEF RunInv, FirstTry
<1>7. ASSUME ~changed'[r] PROVE Stable(r)'
  <2>1. Scanned(r) /\ Counted(r) /\ (CameToEnd(r) \/ UnderWay(r))
    BY <1>1, <1>2, <1>7 DEF RunInv, Stable
  <2>2. CameToEnd(r)
    BY <1>1, <1>2, <2>1, EndsWell DEF RunInv
  <2>3. CameToEnd(r)'
    BY <1>1, <1>2, <2>2, StaysAtEnd
  <2>4. Scanned(r)' /\ Seen(r)' = Seen(r)
    BY <1>2, <2>1, StaysScanned
  <2>5. Counted(r)'
    BY <1>1, <1>3, <2>1, <2>4 DEF Counted
  <2>6. QED
    BY <2>3, <2>4, <2>5 DEF Stable
<1>8. QED
  BY <1>4, <1>6, <1>7 DEF RunInv, Stable

------------------------------------------------------------------------------
(* A batch whose step is on record. *)

LEMMA ReplayReports ==
  ASSUME SyncInv, ReportInv, NEW r \in Runs, ReplayBatch(r)
  PROVE  RunInv(r)'
<1> DEFINE n == number[r]
<1>1. /\ pc[r] = "scan" /\ pc'[r] = "scan" /\ Filled(r) /\ n \in DOMAIN steps[r] /\ n \in Nat
      /\ batch'[r] = {} /\ number'[r] = n + 1 /\ (errors'[r] <=> errors[r] \/ steps[r][n])
      /\ source' = source /\ rev' = rev /\ hashes' = hashes /\ dlq' = dlq /\ delivered' = delivered
      /\ steps' = steps /\ tries' = tries /\ changed' = changed /\ known' = known
      /\ queue' = queue /\ seen' = seen /\ read' = read /\ report' = report
  <2>1. errors' = [errors EXCEPT ![r] = @ \/ Recorded(r)] /\ errors \in [Runs -> BOOLEAN]
    BY DEF ReplayBatch, NextBatch, SyncInv, TypeOK
  <2>2. errors'[r] = (errors[r] \/ steps[r][n])
    BY <2>1 DEF Recorded
  <2>3. QED
    BY <2>2 DEF ReplayBatch, BatchReady, NextBatch, At, Filled, sourceVars, indexVars, engineVars, tryVars,
                SyncInv, TypeOK
<1>2. RunInv(r) /\ Grows(r) /\ Going(r) /\ Going(r)' /\ SameScan(r)
  BY <1>1 DEF ReportInv, Grows, SameFiles, SameScan, Going
<1>3. /\ n >= 1 /\ 1..(n - 1) \subseteq DOMAIN steps[r]
      /\ errors[r] <=> \E k \in 1..(n - 1) : steps[r][k]
  BY <1>2 DEF RunInv, Flagged
<1>4. 1..(number'[r] - 1) = 1..n /\ 1..n = 1..(n - 1) \cup {n}
  BY <1>1, <1>3
<1>5. errors'[r] <=> \E k \in 1..n : steps[r][k]
  BY <1>1, <1>3, <1>4
<1>6. Ended(r)' /\ Working(r)'
  BY <1>1, <1>2 DEF RunInv, Ended, Working
<1>7. Flagged(r)'
  <2>1. \E m \in Nat : DOMAIN steps'[r] = 1..m
    BY <1>1, <1>2 DEF RunInv, Flagged
  <2>2. 1..(number'[r] - 1) \subseteq DOMAIN steps'[r]
    BY <1>1, <1>3, <1>4
  <2>3. errors'[r] <=> \E k \in 1..(number'[r] - 1) : steps'[r][k]
    BY <1>1, <1>4, <1>5
  <2>4. number'[r] >= 1 /\ batch'[r] \subseteq read'[r] /\ (r \in known' => tries'[r] >= 1)
    BY <1>1, <1>2 DEF RunInv, Flagged
  <2>5. QED
    BY <2>1, <2>2, <2>3, <2>4 DEF Flagged
<1>8. FirstTry(r)'
  <2>1. n \notin 1..(n - 1)
    BY <1>1
  <2>2. tries[r] <= 1 => FALSE
    BY <1>1, <1>2, <2>1 DEF RunInv, FirstTry
  <2>3. QED
    BY <1>1, <2>2 DEF FirstTry
<1>9. ASSUME ~changed'[r] PROVE Stable(r)'
  <2>1. Scanned(r) /\ Counted(r) /\ (CameToEnd(r) \/ UnderWay(r))
    BY <1>1, <1>2, <1>9 DEF RunInv, Stable
  <2>2. Scanned(r)' /\ Counted(r)'
    BY <1>1, <1>2, <2>1, StaysScanned, CountedOn
  <2>3. CameToEnd(r) => CameToEnd(r)'
    BY <1>1, <1>2, StaysAtEnd
  <2>4. ASSUME UnderWay(r) PROVE UnderWay(r)'
    <3>1. Prefix(r, n)
      BY <1>1, <2>4 DEF UnderWay
    <3>2. PICK D \in SUBSET FileDue(r) :
            DownIn(D, r) /\ IsFiniteSet(D) /\ Cardinality(D) = n * BatchSize /\ DoneTo(r, D, n)
      BY <3>1 DEF Prefix
    <3>3. /\ Seen(r) \subseteq FileDue(r) /\ DownIn(Seen(r), r) /\ IsFiniteSet(Seen(r))
          /\ Cardinality(Seen(r)) = n * BatchSize
      BY <1>1, <2>1, <3>1, SeenIsPrefix
    <3>4. Seen(r) = D
      BY <3>2, <3>3, SameFront
    <3>5. read[r] = RecordsOf(D)
      BY <2>1, <3>4 DEF Scanned
    <3>6. ~errors'[r] => NoneFailed(r, n)
      BY <1>5 DEF NoneFailed
    <3>7. \A x \in read'[r] : Accounted(r, x)' /\ (~errors'[r] => x \in delivered'[r])
      BY <1>1, <1>2, <3>2, <3>5, <3>6, StaysAccounted DEF DoneTo
    <3>8. DoneWell(r)'
      BY <3>7 DEF DoneWell
    <3>9. \A k : Prefix(r, k) => Prefix(r, k)'
      BY <1>1, <1>2, StaysPrefix
    <3>10. \A k \in DOMAIN steps[r] : k < n => k < n + 1
      BY <1>1 DEF SyncInv, TypeOK
    <3>11. QED
      BY <1>1, <2>4, <3>8, <3>9, <3>10 DEF UnderWay
  <2>5. QED
    BY <2>1, <2>2, <2>3, <2>4 DEF Stable
<1>10. QED
  BY <1>6, <1>7, <1>8, <1>9 DEF RunInv, Stable

------------------------------------------------------------------------------
(* A batch that goes through the pipeline. *)

\* For every piece of a chunked document there is a chunk.
LEMMA ChunksOfAll ==
  ASSUME NEW records, NEW x \in records, NEW i \in DOMAIN x.text
  PROVE  \E c \in ReusedChunks(records) \cup ChunksToEmbed(records) :
           c.doc = x.doc /\ c.index = i /\ c.piece = x.text[i]
<1>1. CASE Reusable(x.doc, i, x.text[i]) # {}
  <2> DEFINE V(y, j) == (CHOOSE e \in Reusable(y.doc, j, y.text[j]) : TRUE).vector
             S(y) == {NewChunk(y, j, V(y, j)) : j \in {k \in DOMAIN y.text : Reusable(y.doc, k, y.text[k]) # {}}}
             c == NewChunk(x, i, V(x, i))
  <2>1. ReusedChunks(records) = UNION {S(y) : y \in records}
    BY DEF ReusedChunks
  <2> HIDE DEF V
  <2>2. c \in S(x)
    BY <1>1
  <2>3. c \in ReusedChunks(records)
    <3> HIDE DEF S, c
    <3>1. QED
      BY <2>1, <2>2
  <2>4. c.doc = x.doc /\ c.index = i /\ c.piece = x.text[i]
    BY DEF NewChunk
  <2> HIDE DEF c
  <2>5. QED
    BY <2>3, <2>4
<1>2. CASE Reusable(x.doc, i, x.text[i]) = {}
  <2> DEFINE c == NewChunk(x, i, x.text[i])
  <2>1. c \in ChunksToEmbed(records)
    BY <1>2 DEF ChunksToEmbed
  <2>2. c.doc = x.doc /\ c.index = i /\ c.piece = x.text[i]
    BY DEF NewChunk
  <2> HIDE DEF c
  <2>3. QED
    BY <2>1, <2>2
<1>3. QED
  BY <1>1, <1>2

LEMMA PrepareReports ==
  ASSUME SyncInv, ReportInv, NEW r \in Runs, PrepareBatch(r)
  PROVE  RunInv(r)'
<1>1. /\ pc[r] = "scan" /\ pc'[r] = "embed" /\ Filled(r) /\ number[r] \notin DOMAIN steps[r]
      /\ source' = source /\ rev' = rev /\ hashes' = hashes /\ dlq \subseteq dlq' /\ delivered' = delivered
      /\ steps' = steps /\ tries' = tries /\ changed' = changed /\ known' = known
      /\ queue' = queue /\ seen' = seen /\ batch' = batch /\ number' = number /\ read' = read
      /\ errors' = errors /\ report' = report
  BY DEF PrepareBatch, Enqueue, BatchReady, Filled, At, Goto, sourceVars, indexVars, engineVars, scanVars,
         reportVars, tryVars, SyncInv, TypeOK
<1>2. RunInv(r) /\ Pauses(r)
  BY <1>1 DEF ReportInv, Pauses, SameFiles
<1>3. Ended(r)' /\ Flagged(r)' /\ FirstTry(r)' /\ Stable(r)'
  BY <1>2, PausingKeeps
<1>4. PICK unparsed \in SUBSET batch[r] : \E unchunked \in SUBSET (batch[r] \ unparsed) :
        /\ unchunked # {} => "chunk" \in Faults
        /\ docs' = [docs EXCEPT ![r] = batch[r] \ unparsed]
        /\ prepared' = [prepared EXCEPT ![r] = ReusedChunks((batch[r] \ unparsed) \ unchunked)]
        /\ pending' = [pending EXCEPT ![r] = ChunksToEmbed((batch[r] \ unparsed) \ unchunked)]
        /\ faulty' = [faulty EXCEPT ![r] = unparsed \cup unchunked # {}]
        /\ dlq' = dlq \cup {x.doc : x \in unparsed}
  BY DEF PrepareBatch, Fails, Enqueue
<1>5. PICK unchunked \in SUBSET (batch[r] \ unparsed) :
        /\ unchunked # {} => "chunk" \in Faults
        /\ docs' = [docs EXCEPT ![r] = batch[r] \ unparsed]
        /\ prepared' = [prepared EXCEPT ![r] = ReusedChunks((batch[r] \ unparsed) \ unchunked)]
        /\ pending' = [pending EXCEPT ![r] = ChunksToEmbed((batch[r] \ unparsed) \ unchunked)]
        /\ faulty' = [faulty EXCEPT ![r] = unparsed \cup unchunked # {}]
        /\ dlq' = dlq \cup {x.doc : x \in unparsed}
  BY <1>4
<1> DEFINE chunked == (batch[r] \ unparsed) \ unchunked
<1>6. /\ docs'[r] = batch[r] \ unparsed
      /\ prepared'[r] \cup pending'[r] = ReusedChunks(chunked) \cup ChunksToEmbed(chunked)
      /\ faulty'[r] <=> unparsed \cup unchunked # {}
  BY <1>5 DEF SyncInv, TypeOK
<1>7. ASSUME NEW x \in chunked PROVE CanBeWhole(r, x)'
  <2>1. \A i \in DOMAIN x.text : \E c \in ReusedChunks(chunked) \cup ChunksToEmbed(chunked) :
          c.doc = x.doc /\ c.index = i /\ c.piece = x.text[i]
    <3> HIDE DEF chunked
    <3>1. QED
      BY <1>7, ChunksOfAll
  <2>2. QED
    BY <1>6, <2>1 DEF CanBeWhole
<1>8. ASSUME NEW x \in batch[r]
      PROVE  (x \in docs'[r] /\ CanBeWhole(r, x)') \/ x.doc \in dlq' \/ "chunk" \in Faults
  <2>1. CASE x \in unparsed
    BY <1>5, <2>1
  <2>2. CASE x \in unchunked
    BY <1>5, <2>2
  <2>3. CASE x \in chunked
    BY <1>6, <1>7, <2>3
  <2>4. QED
    BY <1>8, <2>1, <2>2, <2>3
<1>9. ~faulty'[r] => docs'[r] = batch[r] /\ \A x \in docs'[r] : CanBeWhole(r, x)'
  <2>1. SUFFICES ASSUME ~faulty'[r] PROVE docs'[r] = batch[r] /\ \A x \in docs'[r] : CanBeWhole(r, x)'
    OBVIOUS
  <2>2. unparsed = {} /\ unchunked = {}
    BY <1>6, <2>1
  <2>3. docs'[r] = batch[r] /\ chunked = batch[r]
    BY <1>6, <2>2
  <2>4. QED
    BY <1>7, <2>3
<1>10. Working(r)'
  <2>1. (BatchFull(r)' <=> BatchFull(r)) /\ (ScanEnded(r)' <=> ScanEnded(r))
    BY <1>1 DEF BatchFull, ScanEnded, Missing
  <2>2. QED
    BY <1>1, <1>8, <1>9, <2>1 DEF Working, Filled
<1>11. QED
  BY <1>3, <1>10 DEF RunInv

\* The steps inside the pipeline, of which only the last touches what is read or recorded.
LEMMA PipelinePauses ==
  ASSUME SyncInv, ReportInv, NEW r \in Runs, Embed(r) \/ SoftDelete(r)
  PROVE  /\ Pauses(r) /\ docs'[r] = docs[r] /\ pc[r] \in {"embed", "replace"}
         /\ (BatchFull(r)' <=> BatchFull(r)) /\ (ScanEnded(r)' <=> ScanEnded(r))
<1>1. /\ pc[r] \in {"embed", "replace"} /\ pc'[r] \in {"replace", "upsert"}
      /\ source' = source /\ rev' = rev /\ hashes' = hashes /\ dlq \subseteq dlq' /\ delivered' = delivered
      /\ steps' = steps /\ tries' = tries /\ changed' = changed /\ known' = known
      /\ queue' = queue /\ seen' = seen /\ batch' = batch /\ number' = number /\ read' = read
      /\ errors' = errors /\ report' = report /\ docs' = docs
  BY DEF Embed, SoftDelete, Enqueue, At, Goto, sourceVars, indexVars, engineVars, scanVars,
         reportVars, tryVars, SyncInv, TypeOK
<1>2. Pauses(r)
  BY <1>1 DEF Pauses, SameFiles
<1>3. QED
  BY <1>1, <1>2 DEF BatchFull, ScanEnded, Missing

\* No document is without a piece.
LEMMA HasPieces == ASSUME NEW x \in Record PROVE 1 \in DOMAIN x.text
<1>1. x.text \in Seq(Piece) /\ x.text # <<>>
  BY ScribeAssumption DEF Record
<1>2. QED
  BY <1>1

LEMMA EmbedReports ==
  ASSUME SyncInv, ReportInv, NEW r \in Runs, Embed(r)
  PROVE  RunInv(r)'
<1>1. /\ Pauses(r) /\ docs'[r] = docs[r] /\ pc[r] \in {"embed", "replace"}
      /\ (BatchFull(r)' <=> BatchFull(r)) /\ (ScanEnded(r)' <=> ScanEnded(r))
  BY PipelinePauses
<1>2. RunInv(r)
  BY DEF ReportInv
<1>3. Working(r)
  BY <1>2 DEF RunInv
<1>4. /\ pending'[r] = {}
      /\ \/ prepared'[r] = prepared[r] \cup pending[r] /\ faulty' = faulty
         \/ prepared' = prepared /\ faulty'[r] /\ {c.doc : c \in pending[r]} \subseteq dlq'
  BY DEF Embed, Enqueue, SyncInv, TypeOK
<1>5. ASSUME NEW x, CanBeWhole(r, x), ~ CanBeWhole(r, x)' PROVE x.doc \in dlq' /\ faulty'[r]
  <2>1. ~ (prepared'[r] \cup pending'[r] = prepared[r] \cup pending[r])
    BY <1>5 DEF CanBeWhole
  <2>2. prepared' = prepared /\ faulty'[r] /\ {c.doc : c \in pending[r]} \subseteq dlq'
    BY <1>4, <2>1
  <2>3. PICK i \in DOMAIN x.text :
          ~ \E c \in prepared[r] : c.doc = x.doc /\ c.index = i /\ c.piece = x.text[i]
    BY <1>5, <2>2 DEF CanBeWhole
  <2>4. PICK c \in pending[r] : c.doc = x.doc
    BY <1>5, <2>3 DEF CanBeWhole
  <2>5. QED
    BY <2>2, <2>4
<1>6. faulty[r] => faulty'[r]
  BY <1>4
<1>7. Working(r)'
  <2>1. /\ batch'[r] = batch[r] /\ number'[r] = number[r] /\ steps'[r] = steps[r] /\ dlq \subseteq dlq'
    BY <1>1 DEF Pauses
  <2>2. QED
    BY <1>1, <1>3, <1>5, <1>6, <2>1 DEF Working
<1>8. QED
  BY <1>1, <1>2, <1>7, PausingKeeps DEF RunInv

LEMMA SoftDeleteReports ==
  ASSUME SyncInv, ReportInv, NEW r \in Runs, SoftDelete(r)
  PROVE  RunInv(r)'
<1>1. /\ Pauses(r) /\ docs'[r] = docs[r] /\ pc[r] \in {"embed", "replace"}
      /\ (BatchFull(r)' <=> BatchFull(r)) /\ (ScanEnded(r)' <=> ScanEnded(r))
  BY PipelinePauses
<1>2. RunInv(r)
  BY DEF ReportInv
<1>3. Working(r)
  BY <1>2 DEF RunInv
<1>4. prepared' = prepared /\ pending' = pending /\ (faulty[r] => faulty'[r])
  BY DEF SoftDelete, SyncInv, TypeOK
<1>5. \A x : CanBeWhole(r, x)' <=> CanBeWhole(r, x)
  BY <1>4 DEF CanBeWhole
<1>6. Working(r)'
  <2>1. /\ batch'[r] = batch[r] /\ number'[r] = number[r] /\ steps'[r] = steps[r] /\ dlq \subseteq dlq'
    BY <1>1 DEF Pauses
  <2>2. QED
    BY <1>1, <1>3, <1>4, <1>5, <2>1 DEF Working
<1>7. QED
  BY <1>1, <1>2, <1>6, PausingKeeps DEF RunInv

\* What the upsert makes of the batch: flag says whether the step had errors.
LEMMA UpsertAccounts ==
  ASSUME SyncInv, ReportInv, NEW r \in Runs, Upsert(r)
  PROVE  \E flag \in BOOLEAN :
           /\ RecordStep(r, flag) /\ NextBatch(r, flag)
           /\ delivered[r] \subseteq delivered'[r] /\ dlq \subseteq dlq'
           /\ \A x \in batch[r] : Accounted(r, x)'
           /\ ~flag => batch[r] \subseteq delivered'[r]
<1>1. pc[r] = "upsert" /\ pending[r] = {}
  BY DEF Upsert, At, SyncInv, MadeFromBatch
<1>2. /\ docs[r] \subseteq Record
      /\ \A x \in batch[r] : (x \in docs[r] /\ CanBeWhole(r, x)) \/ x.doc \in dlq \/ "chunk" \in Faults
      /\ ~faulty[r] => docs[r] = batch[r] /\ \A x \in docs[r] : CanBeWhole(r, x)
  BY <1>1 DEF ReportInv, RunInv, Working, SyncInv, TypeOK
<1>3. \A x : CanBeWhole(r, x) => Complete(r, x)
  BY <1>1 DEF CanBeWhole, Complete
<1>4. CASE /\ delivered' = [delivered EXCEPT ![r] = @ \cup {x \in docs[r] : Complete(r, x)}]
           /\ RecordStep(r, faulty[r]) /\ NextBatch(r, faulty[r]) /\ dlq' = dlq
  <2>1. delivered'[r] = delivered[r] \cup {x \in docs[r] : Complete(r, x)}
    BY <1>4 DEF ReportInv, RunTypes
  <2>2. faulty[r] \in BOOLEAN
    BY DEF SyncInv, TypeOK
  <2>3. \A x \in batch[r] : Accounted(r, x)'
    BY <1>2, <1>3, <1>4, <2>1 DEF Accounted
  <2>4. ~faulty[r] => batch[r] \subseteq delivered'[r]
    BY <1>2, <1>3, <2>1
  <2>5. QED
    BY <1>4, <2>1, <2>2, <2>3, <2>4
<1>5. CASE /\ dlq' = dlq \cup {c.doc : c \in prepared[r]} /\ RecordStep(r, TRUE) /\ NextBatch(r, TRUE)
           /\ delivered' = delivered
  <2>1. ASSUME NEW x \in docs[r], CanBeWhole(r, x) PROVE x.doc \in dlq'
    <3>1. 1 \in DOMAIN x.text
      BY <1>2, HasPieces
    <3>2. PICK c \in prepared[r] : c.doc = x.doc
      BY <1>1, <2>1, <3>1 DEF CanBeWhole
    <3>3. QED
      BY <1>5, <3>2
  <2>2. \A x \in batch[r] : Accounted(r, x)'
    BY <1>2, <1>5, <2>1 DEF Accounted
  <2>3. QED
    BY <1>5, <2>2
<1>6. QED
  BY <1>4, <1>5 DEF Upsert, Enqueue, indexVars

LEMMA UpsertReports ==
  ASSUME SyncInv, ReportInv, NEW r \in Runs, Upsert(r)
  PROVE  RunInv(r)'
<1>0. PICK n \in Nat : n = number[r]
  BY DEF SyncInv, TypeOK
<1> USE <1>0
<1>1. PICK flag \in BOOLEAN :
        /\ RecordStep(r, flag) /\ NextBatch(r, flag)
        /\ delivered[r] \subseteq delivered'[r] /\ dlq \subseteq dlq'
        /\ \A x \in batch[r] : Accounted(r, x)'
        /\ ~flag => batch[r] \subseteq delivered'[r]
  BY UpsertAccounts
<1>2. /\ pc[r] = "upsert" /\ pc'[r] = "scan" /\ n \in Nat
      /\ source' = source /\ rev' = rev /\ hashes' = hashes
      /\ tries' = tries /\ changed' = changed /\ known' = known
      /\ queue' = queue /\ seen' = seen /\ read' = read /\ report' = report
  BY DEF Upsert, At, Goto, sourceVars, tryVars, SyncInv, TypeOK
<1>3. batch'[r] = {} /\ number'[r] = n + 1 /\ (errors'[r] <=> errors[r] \/ flag)
  <2>1. errors' = [errors EXCEPT ![r] = @ \/ flag] /\ errors \in [Runs -> BOOLEAN]
    BY <1>1 DEF NextBatch, SyncInv, TypeOK
  <2>2. errors'[r] = (errors[r] \/ flag)
    BY <2>1
  <2>3. QED
    BY <1>1, <2>2 DEF NextBatch, SyncInv, TypeOK
<1>4. steps'[r] = [k \in DOMAIN steps[r] \cup {n} |-> IF k = n THEN flag ELSE steps[r][k]]
  BY <1>1 DEF RecordStep, SyncInv, TablesTotal
<1>5. RunInv(r) /\ Grows(r) /\ Going(r) /\ Going(r)' /\ SameScan(r)
  BY <1>1, <1>2 DEF ReportInv, Grows, SameFiles, SameScan, Going
<1>6. Filled(r) /\ n \notin DOMAIN steps[r]
  BY <1>2, <1>5 DEF RunInv, Working, Filled
<1>7. /\ n >= 1 /\ 1..(n - 1) \subseteq DOMAIN steps[r]
      /\ errors[r] <=> \E k \in 1..(n - 1) : steps[r][k]
  BY <1>5 DEF RunInv, Flagged
<1>8. DOMAIN steps[r] = 1..(n - 1)
  <2>1. PICK m \in Nat : DOMAIN steps[r] = 1..m
    BY <1>5 DEF RunInv, Flagged
  <2>2. m < n
    BY <1>2, <1>6, <1>7, <2>1
  <2>3. \A k \in 1..m : k \in 1..(n - 1)
    BY <1>2, <2>2
  <2>4. QED
    BY <1>7, <2>1, <2>3
<1>9. 1..(number'[r] - 1) = 1..n /\ 1..n = 1..(n - 1) \cup {n}
  BY <1>2, <1>3, <1>7
<1>10. /\ DOMAIN steps'[r] = 1..n /\ (steps'[r][n] <=> flag)
       /\ \A k \in 1..(n - 1) : steps'[r][k] = steps[r][k]
  BY <1>2, <1>4, <1>8, <1>9
<1>11. errors'[r] <=> \E k \in 1..n : steps'[r][k]
  BY <1>3, <1>7, <1>9, <1>10
<1>12. DoneWell(r) => DoneWell(r)'
  <2>1. SUFFICES ASSUME DoneWell(r), NEW x \in read[r]
                 PROVE  Accounted(r, x)' /\ (~errors'[r] => x \in delivered'[r])
    BY <1>2, <1>3 DEF DoneWell
  <2>2. CASE x \in batch[r]
    BY <1>1, <1>3, <2>2
  <2>3. CASE x \notin batch[r]
    <3>1. Accounted(r, x) /\ (~errors[r] => x \in delivered[r])
      BY <2>1, <2>3 DEF DoneWell
    <3>2. Accounted(r, x)'
      BY <1>5, <3>1, StaysAccounted
    <3>3. QED
      BY <1>1, <1>3, <3>1, <3>2
  <2>4. QED
    BY <2>2, <2>3
<1>13. Ended(r)' /\ Working(r)'
  BY <1>2, <1>5 DEF RunInv, Ended, Working
<1>14. Flagged(r)'
  <2>1. r \in known' => tries'[r] >= 1
    BY <1>2, <1>5 DEF RunInv, Flagged
  <2>2. number'[r] >= 1 /\ batch'[r] \subseteq read'[r]
    BY <1>2, <1>3
  <2>3. \E m \in Nat : DOMAIN steps'[r] = 1..m
    BY <1>2, <1>10
  <2>4. 1..(number'[r] - 1) \subseteq DOMAIN steps'[r]
    BY <1>9, <1>10
  <2>5. errors'[r] <=> \E k \in 1..(number'[r] - 1) : steps'[r][k]
    BY <1>9, <1>11
  <2>6. QED
    BY <2>1, <2>2, <2>3, <2>4, <2>5 DEF Flagged
<1>15. FirstTry(r)'
  <2>1. DOMAIN steps'[r] \subseteq 1..(number'[r] - 1)
    BY <1>9, <1>10
  <2>2. QED
    BY <1>2, <1>5, <1>12, <2>1 DEF RunInv, FirstTry
<1>16. ASSUME ~changed'[r] PROVE Stable(r)'
  <2>1. Scanned(r) /\ Counted(r) /\ (CameToEnd(r) \/ UnderWay(r))
    BY <1>2, <1>5, <1>16 DEF RunInv, Stable
  <2>2. Scanned(r)' /\ Counted(r)'
    BY <1>2, <1>3, <1>5, <1>6, <2>1, StaysScanned, CountedOn
  <2>3. ~ CameToEnd(r)
    <3>1. SUFFICES ASSUME CameToEnd(r) PROVE FALSE
      OBVIOUS
    <3>2. PICK m \in Nat : /\ DOMAIN steps[r] = 1..m /\ IsFiniteSet(Due(r))
                           /\ Cardinality(Due(r)) <= m * BatchSize
      BY <3>1 DEF CameToEnd
    <3>3. m = n - 1
      <4>1. 1..m = 1..(n - 1)
        BY <1>8, <3>2
      <4>2. \A k \in Nat : k \in 1..m <=> k \in 1..(n - 1)
        BY <4>1
      <4>3. (m >= 1 => m <= n - 1) /\ (n - 1 >= 1 => n - 1 <= m)
        <5>1. m >= 1 => m \in 1..(n - 1)
          BY <4>2
        <5>2. n - 1 \in Nat
          BY <1>2, <1>7
        <5>3. n - 1 >= 1 => n - 1 \in 1..m
          BY <4>2, <5>2
        <5>4. QED
          BY <1>2, <5>1, <5>2, <5>3
      <4>4. QED
        BY <1>2, <1>7, <4>3
    <3>4. Seen(r) \in SUBSET Due(r)
      BY DEF Seen
    <3>5. Cardinality(Seen(r)) <= Cardinality(Due(r)) /\ Cardinality(Due(r)) \in Nat
      BY <3>2, <3>4, FS_Subset, FS_CardinalityType, Zenon
    <3>6. /\ Cardinality(batch[r]) \in Nat /\ Cardinality(Seen(r)) \in Nat
          /\ 1 <= Cardinality(batch[r])
          /\ Cardinality(Seen(r)) = (n - 1) * BatchSize + Cardinality(batch[r])
      BY <1>2, <1>6, <2>1, BatchSizes
    <3>7. (n - 1) * BatchSize \in Int
      <4>1. n - 1 \in Int
        BY <1>2
      <4>2. QED
        BY <4>1, OneBatchMore
    <3>8. PICK a \in Int, b \in Nat, c \in Nat, s \in Nat :
            /\ a = (n - 1) * BatchSize /\ b = Cardinality(batch[r]) /\ c = Cardinality(Due(r))
            /\ s = Cardinality(Seen(r))
      BY <3>5, <3>6, <3>7
    <3>9. s <= c /\ c <= a /\ s = a + b /\ 1 <= b
      BY <3>2, <3>3, <3>5, <3>6, <3>8
    <3>10. QED
      BY <3>9
  <2>4. DoneWell(r)'
    BY <1>5, <1>12, <2>1, <2>3 DEF UnderWay
  <2>5. ASSUME NEW k \in 1..(n - 1)
        PROVE  Prefix(r, k)' \/ (pc'[r] # "idle" /\ queue'[r] = {} /\ k < number'[r])
    <3>1. Prefix(r, k) \/ queue[r] = {}
      BY <1>8, <2>1, <2>3 DEF UnderWay
    <3>2. \A j \in 1..k : steps'[r][j] = steps[r][j]
      BY <1>2, <1>10
    <3>3. Prefix(r, k) => Prefix(r, k)'
      BY <1>5, <3>2, StaysPrefix
    <3>4. k < number'[r]
      BY <1>2, <1>3
    <3>5. QED
      BY <1>2, <3>1, <3>3, <3>4
  <2>6. ASSUME queue[r] # {} PROVE Prefix(r, n)'
    <3>1. /\ Seen(r) \subseteq FileDue(r) /\ DownIn(Seen(r), r) /\ IsFiniteSet(Seen(r))
          /\ Cardinality(Seen(r)) = n * BatchSize
      BY <1>2, <1>6, <2>1, <2>6, SeenIsPrefix
    <3>2. PICK D : D = Seen(r)
      OBVIOUS
    <3>3. D \in SUBSET FileDue(r)' /\ DownIn(D, r)' /\ RecordsOf(D)' = RecordsOf(D)
      BY <1>5, <3>1, <3>2, SameDue DEF Grows
    <3>4. RecordsOf(D)' = read'[r]
      BY <1>2, <2>1, <3>2, <3>3 DEF Scanned
    <3>5. NoneFailed(r, n)' => ~errors'[r]
      BY <1>11 DEF NoneFailed
    <3>6. DoneTo(r, D, n)'
      BY <1>3, <2>4, <3>4, <3>5 DEF DoneTo, DoneWell
    <3>7. QED
      BY <3>1, <3>2, <3>3, <3>6 DEF Prefix
  <2>7. UnderWay(r)'
    <3>1. n < number'[r]
      BY <1>2, <1>3
    <3>2. ASSUME NEW k \in DOMAIN steps'[r]
          PROVE  Prefix(r, k)' \/ (pc'[r] # "idle" /\ queue'[r] = {} /\ k < number'[r])
      <4>1. CASE k = n
        BY <1>2, <2>6, <3>1, <4>1
      <4>2. CASE k # n
        BY <1>9, <1>10, <2>5, <4>2
      <4>3. QED
        BY <4>1, <4>2
    <3>3. QED
      BY <2>4, <3>2 DEF UnderWay
  <2>8. QED
    BY <2>2, <2>7 DEF Stable
<1>17. QED
  BY <1>13, <1>14, <1>15, <1>16 DEF RunInv, Stable

------------------------------------------------------------------------------
(* What others do, and the whole. *)

LEMMA EditReports ==
  ASSUME SyncInv, ReportInv, NEW f \in Docs, EditFile(f), NEW r \in Runs
  PROVE  RunInv(r)'
<1>1. /\ changed'[r] = TRUE /\ hashes' = hashes /\ dlq' = dlq /\ delivered' = delivered
      /\ steps' = steps /\ tries' = tries /\ known' = known /\ pc' = pc
      /\ queue' = queue /\ seen' = seen /\ batch' = batch /\ number' = number /\ read' = read
      /\ errors' = errors /\ report' = report /\ docs' = docs /\ prepared' = prepared
      /\ pending' = pending /\ faulty' = faulty
  BY DEF EditFile, indexVars, engineVars, scanVars, ingestVars, reportVars
<1>2. RunInv(r)
  BY DEF ReportInv
<1>3. (ScanEnded(r)' <=> ScanEnded(r)) /\ (BatchFull(r)' <=> BatchFull(r)) /\ (Going(r)' <=> Going(r))
  BY <1>1 DEF ScanEnded, Missing, BatchFull, Going
<1>4. (DoneWell(r)' <=> DoneWell(r)) /\ \A x : CanBeWhole(r, x)' <=> CanBeWhole(r, x)
  BY <1>1 DEF DoneWell, Accounted, CanBeWhole
<1>5. Ended(r)' /\ Flagged(r)' /\ FirstTry(r)'
  BY <1>1, <1>2, <1>3, <1>4 DEF RunInv, Ended, Flagged, FirstTry
<1>6. Working(r)'
  <2>1. Working(r)
    BY <1>2 DEF RunInv
  <2>2. QED
    BY <1>1, <1>3, <1>4, <2>1 DEF Working
<1>7. Stable(r)'
  BY <1>1 DEF Stable
<1>8. QED
  BY <1>5, <1>6, <1>7 DEF RunInv

LEMMA CrashReports ==
  ASSUME SyncInv, ReportInv, Crash, NEW r \in Runs
  PROVE  RunInv(r)'
<1>1. pc'[r] = "idle" /\ report'[r] = "none" /\ steps'[r] = <<>> /\ known' = {}
  BY DEF Crash
<1>2. ~Going(r)'
  BY <1>1 DEF Going
<1>3. DOMAIN <<>> = 1..0 /\ DOMAIN <<>> = {}
  OBVIOUS
<1>4. Ended(r)' /\ Flagged(r)' /\ Working(r)' /\ FirstTry(r)'
  BY <1>1, <1>2, <1>3 DEF Ended, Flagged, Working, FirstTry
<1>5. Stable(r)'
  BY <1>1, <1>2, <1>3 DEF Stable, UnderWay
<1>6. QED
  BY <1>4, <1>5 DEF RunInv

LEMMA StepRunTypes == ASSUME SyncInv, ReportInv, Next PROVE RunTypes' /\ OneText'
<1> USE DEF ReportInv, RunTypes
<1>1. ASSUME NEW r \in Runs, StartSync(r) PROVE RunTypes' /\ OneText'
  <2>1. tries' \in [Runs -> Nat]
    BY <1>1 DEF StartSync
  <2>2. changed' \in [Runs -> BOOLEAN] /\ delivered' \in [Runs -> SUBSET Record]
    <3>1. CASE UNCHANGED <<changed, delivered>>
      BY <3>1
    <3>2. CASE /\ changed' = [changed EXCEPT ![r] = FALSE]
               /\ delivered' = [delivered EXCEPT ![r] = {}]
      BY <3>2
    <3>3. QED
      BY <1>1, <3>1, <3>2 DEF StartSync
  <2>3. read' \in [Runs -> SUBSET Record] /\ source' = source
    BY <1>1 DEF StartSync, sourceVars
  <2>4. QED
    BY <2>1, <2>2, <2>3 DEF OneText
<1>2. ASSUME NEW r \in Runs, VisitFile(r) PROVE RunTypes' /\ OneText'
  <2>1. PICK i \in queue[r] :
          /\ changed' = changed \/ changed' = [changed EXCEPT ![r] = TRUE]
          /\ \/ read' = read
             \/ \E text \in source[Files[i]] :
                  read' = [read EXCEPT ![r] = @ \cup {[doc |-> Files[i], text |-> text, rev |-> rev[Files[i]]]}]
    BY <1>2 DEF VisitFile, Yields
  <2>2. Files[i] \in Docs
    BY <2>1 DEF SyncInv, TypeOK, Docs, ToSet
  <2>3. \A text \in source[Files[i]] :
          [doc |-> Files[i], text |-> text, rev |-> rev[Files[i]]] \in Record
    BY <2>2 DEF Record, SyncInv, TypeOK
  <2>4. read' \in [Runs -> SUBSET Record]
    BY <2>1, <2>3
  <2>5. changed' \in [Runs -> BOOLEAN]
    BY <2>1
  <2>6. QED
    BY <1>2, <2>4, <2>5 DEF VisitFile, OneText, sourceVars, indexVars
<1>3. ASSUME NEW r \in Runs, YieldTombstone(r) PROVE RunTypes' /\ OneText'
  <2>1. PICK f \in Missing(r) : read' = [read EXCEPT ![r] = @ \cup {Tombstone(f)}]
    BY <1>3 DEF YieldTombstone, Yields
  <2>2. f \in Docs
    BY DEF Missing, SyncInv, TablesTotal
  <2>3. Tombstone(f) \in Record
    BY <2>2 DEF Tombstone, Record, SyncInv, TypeOK
  <2>4. read' \in [Runs -> SUBSET Record]
    BY <2>1, <2>3
  <2>5. QED
    BY <1>3, <2>4 DEF YieldTombstone, OneText, sourceVars, indexVars, tryVars
<1>4. ASSUME NEW r \in Runs, Upsert(r) PROVE RunTypes' /\ OneText'
  <2>1. delivered' = delivered \/ delivered' = [delivered EXCEPT ![r] = @ \cup {x \in docs[r] : Complete(r, x)}]
    BY <1>4 DEF Upsert, indexVars
  <2>2. docs[r] \subseteq Record
    BY DEF SyncInv, TypeOK
  <2>3. delivered' \in [Runs -> SUBSET Record]
    BY <2>1, <2>2
  <2>4. QED
    BY <1>4, <2>3 DEF Upsert, OneText, sourceVars, tryVars
<1>5. ASSUME NEW r \in Runs, \/ ScanFails(r) \/ ReplayBatch(r) \/ PrepareBatch(r) \/ Embed(r)
                             \/ SoftDelete(r) \/ CompleteSync(r)
      PROVE  RunTypes' /\ OneText'
  BY <1>5 DEF ScanFails, ReplayBatch, PrepareBatch, Embed, SoftDelete, CompleteSync, OneText, sourceVars,
              indexVars, scanVars, tryVars
<1>6. ASSUME NEW f \in Docs, EditFile(f) PROVE RunTypes' /\ OneText'
  <2>1. PICK now \in {{}} \cup {{t} : t \in Texts} : source' = [source EXCEPT ![f] = now]
    BY <1>6 DEF EditFile
  <2>2. OneText'
    BY <2>1 DEF OneText, SyncInv, TypeOK
  <2>3. RunTypes'
    BY <1>6 DEF EditFile, indexVars, scanVars
  <2>4. QED
    BY <2>2, <2>3
<1>7. ASSUME Crash PROVE RunTypes' /\ OneText'
  BY <1>7 DEF Crash, OneText, sourceVars, indexVars, scanVars, tryVars
<1> HIDE DEF ReportInv, RunTypes
<1>8. QED
  BY <1>1, <1>2, <1>3, <1>4, <1>5, <1>6, <1>7 DEF Next, SyncStep

LEMMA StepReports == ASSUME SyncInv, ReportInv, Next PROVE ReportInv'
<1>1. SUFFICES ASSUME NEW r \in Runs PROVE RunInv(r)'
  BY StepRunTypes DEF ReportInv
<1>2. ASSUME NEW q \in Runs, SyncStep(q), q # r PROVE RunInv(r)'
  <2>1. RunInv(r) /\ RunTypes
    BY DEF ReportInv
  <2>2. QED
    BY <1>2, <2>1, OthersRest, RestingKeeps
<1>3. ASSUME SyncStep(r) PROVE RunInv(r)'
  BY <1>3, StartReports, VisitReports, TombstoneReports, ScanFailsReports, ReplayReports, PrepareReports,
     EmbedReports, SoftDeleteReports, UpsertReports, CompleteReports DEF SyncStep
<1>4. QED
  BY <1>2, <1>3, EditReports, CrashReports DEF Next

LEMMA StutterReports == ASSUME ReportInv, UNCHANGED vars PROVE ReportInv'
<1>1. /\ UNCHANGED <<source, rev, chunks, dlq, steps, known, pc, hashes, queue, seen, batch, number, read>>
      /\ UNCHANGED <<docs, prepared, pending, faulty, errors, report, delivered, tries, changed>>
  BY DEF vars, sourceVars, indexVars, engineVars, scanVars, ingestVars, reportVars, tryVars
<1>2. ASSUME NEW r \in Runs PROVE RunInv(r)'
  <2>1. Rests(r) /\ RunInv(r)
    BY <1>1 DEF Rests, SameFiles, ReportInv
  <2>2. QED
    BY <2>1, RestingKeeps
<1>3. RunTypes' /\ OneText'
  BY <1>1 DEF ReportInv, RunTypes, OneText
<1>4. QED
  BY <1>2, <1>3 DEF ReportInv

LEMMA InitReports == Init => ReportInv
<1> SUFFICES ASSUME Init PROVE ReportInv
  OBVIOUS
<1>1. RunTypes
  BY DEF Init, RunTypes
<1>2. OneText
  BY DEF Init, OneText
<1>3. DOMAIN <<>> = 1..0 /\ DOMAIN <<>> = {}
  OBVIOUS
<1>4. ASSUME NEW r \in Runs PROVE RunInv(r)
  <2>1. /\ pc[r] = "idle" /\ report[r] = "none" /\ steps[r] = <<>> /\ known = {} /\ ~Going(r)
    BY DEF Init, Going
  <2>2. Ended(r) /\ Flagged(r) /\ Working(r) /\ FirstTry(r)
    BY <1>3, <2>1 DEF Ended, Flagged, Working, FirstTry
  <2>3. Stable(r)
    BY <1>3, <2>1 DEF Stable, UnderWay
  <2>4. QED
    BY <2>2, <2>3 DEF RunInv
<1>5. QED
  BY <1>1, <1>2, <1>4 DEF ReportInv

LEMMA ReportInvariant == Spec => [](SyncInv /\ ReportInv)
<1>1. SyncInv /\ Next => SyncInv'
  BY StepTyped, StepOnce, StepMade, StepReplacing, StepSettled DEF SyncInv, TypesHold
<1>2. SyncInv /\ ReportInv /\ [Next]_vars => (SyncInv /\ ReportInv)'
  BY <1>1, StutterSound, StepReports, StutterReports
<1>3. QED
  BY InitSound, InitReports, <1>2, PTL DEF Spec

------------------------------------------------------------------------------
(* What the report of a run says. *)

\* The first try of a run, or one of several over files that stay: what is read is done.
LEMMA ReportTells ==
  ASSUME SyncInv, ReportInv, NEW r \in Runs, report[r] = "COMPLETED", ~Repeated(r), NEW x \in read[r]
  PROVE  Accounted(r, x) /\ (~errors[r] => x \in delivered[r])
<1>1. RunInv(r) /\ Going(r) /\ ScanEnded(r) /\ batch[r] = {} /\ number[r] \in Nat /\ tries[r] \in Nat
  BY DEF ReportInv, RunTypes, RunInv, Ended, Going, SyncInv, TypeOK
<1>2. CASE tries[r] <= 1
  BY <1>1, <1>2 DEF RunInv, FirstTry, DoneWell
<1>3. CASE ~changed[r]
  <2>1. Scanned(r) /\ Counted(r) /\ (CameToEnd(r) \/ UnderWay(r))
    BY <1>1, <1>3 DEF RunInv, Stable
  <2>2. CASE UnderWay(r)
    BY <1>1, <2>2 DEF UnderWay, DoneWell
  <2>3. CASE CameToEnd(r)
    <3>1. PICK m \in Nat :
            /\ DOMAIN steps[r] = 1..m /\ IsFiniteSet(Due(r))
            /\ (m - 1) * BatchSize < Cardinality(Due(r)) /\ Cardinality(Due(r)) <= m * BatchSize
            /\ DoneTo(r, Due(r), m)
      BY <2>3 DEF CameToEnd
    <3>2. x \in RecordsOf(Due(r))
      BY <1>1, <2>1, SeenAll
    <3>3. (number[r] - 2) * BatchSize < Cardinality(Due(r)) /\ Cardinality(Due(r)) <= (number[r] - 1) * BatchSize
      BY <1>1, <2>1, EndCounts
    <3>4. m <= number[r] - 1
      <4>1. m \in Int /\ number[r] - 1 \in Int
        BY <1>1
      <4>2. Cardinality(Due(r)) \in Int
        BY <3>1, FS_CardinalityType
      <4>3. QED
        BY <3>1, <3>3, <4>1, <4>2, BatchesCounted
    <3>5. ~errors[r] => NoneFailed(r, m)
      <4>1. errors[r] <=> \E k \in 1..(number[r] - 1) : steps[r][k]
        BY <1>1 DEF RunInv, Flagged
      <4>2. 1..m \subseteq 1..(number[r] - 1)
        BY <1>1, <3>4
      <4>3. QED
        BY <4>1, <4>2 DEF NoneFailed
    <3>6. QED
      BY <3>1, <3>2, <3>5 DEF DoneTo
  <2>4. QED
    BY <2>1, <2>2, <2>3
<1>4. QED
  BY <1>1, <1>2, <1>3 DEF Repeated

LEMMA ReportsDelivered == SyncInv /\ ReportInv => CleanReportDelivered
BY ReportTells DEF CleanReportDelivered, Clean

LEMMA ReportsCover == SyncInv /\ ReportInv => CleanRunCoversSource
<1>1. SUFFICES ASSUME SyncInv, ReportInv, NEW r \in Runs, Clean(r), ~changed[r], NEW f \in Docs,
                      NEW text \in source[f], ~ (f \in DOMAIN hashes[r] /\ hashes[r][f] = text)
               PROVE  \E x \in delivered[r] : x.doc = f /\ x.text = text
  BY DEF CleanRunCoversSource
<1>2. RunInv(r) /\ Going(r) /\ ScanEnded(r) /\ report[r] = "COMPLETED" /\ ~errors[r] /\ ~Repeated(r)
  BY <1>1 DEF ReportInv, RunInv, Ended, Going, Clean, Repeated
<1>3. Scanned(r)
  BY <1>1, <1>2 DEF RunInv, Stable
<1>4. read[r] = RecordsOf(Due(r))
  BY <1>2, <1>3, SeenAll
<1> DEFINE x == [doc |-> f, text |-> text, rev |-> rev[f]]
<1>5. x \in Record /\ x.doc = f /\ x.text = text /\ x.rev = rev[f]
  BY <1>1 DEF Record, SyncInv, TypeOK
<1> HIDE DEF x
<1>6. f \in Due(r)
  BY <1>1 DEF Due, FileDue, Unchanged
<1>7. Current(x)
  BY <1>1, <1>5 DEF Current
<1>8. x \in read[r]
  BY <1>4, <1>5, <1>6, <1>7 DEF RecordsOf
<1>9. x \in delivered[r]
  BY <1>1, <1>2, <1>8, ReportTells
<1>10. QED
  BY <1>5, <1>9

LEMMA FailuresAreQueued ==
  ASSUME "chunk" \notin Faults, SyncInv, ReportInv
  PROVE  FailuresQueued
BY ReportTells DEF FailuresQueued, Accounted

\* A run that reports success without an error has indexed what it has read and every file
\* that differs from the caller's cursor (worker.py, workflow_dbos.py), in this try or by the
\* recorded steps in an earlier one: for any number of runs, files and tries, crashes and faults
\* at any place, and batches of any size.
THEOREM ReportsAreTrue == Spec => [](CleanReportDelivered /\ CleanRunCoversSource)
<1>1. SyncInv /\ ReportInv => CleanReportDelivered /\ CleanRunCoversSource
  BY ReportsDelivered, ReportsCover
<1>2. QED
  BY <1>1, ReportInvariant, PTL

\* As long as every document can be chunked (pipeline.py enqueues no other failure), what is read
\* and not indexed is in the dead-letter queue, too.
THEOREM ReportsStaySound == "chunk" \notin Faults => (Spec => []ReportsSound)
<1>1. SUFFICES ASSUME "chunk" \notin Faults PROVE Spec => []ReportsSound
  OBVIOUS
<1>2. SyncInv /\ ReportInv => ReportsSound
  BY <1>1, ReportsDelivered, ReportsCover, FailuresAreQueued DEF ReportsSound
<1>3. QED
  BY <1>2, ReportInvariant, PTL

==============================================================================
