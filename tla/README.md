# AegisMind verification

TLA+ models of AegisMind, a personal memory and document assistant written in
Python, the TLC runs that check them on small instances, and TLAPS proofs of
what matters most for every instance. Paths below are relative to the root of
the repository; `core` is `packages/aegismind-core/src/aegismind_core`.

## 1. The system

A FastAPI process (`core/app.py`, `core/routes.py`) owns everything: an event
loop, a pool of worker threads that `asyncio.to_thread` uses, SQLite databases,
a directory of JSON files, and adapters to language models, secret and object
stores; a web page, `apps/lens`, is its client.
The parts that keep state, and what makes each of them hard:

| component | state | operations | hard behaviour |
|---|---|---|---|
| audit log, `core/memory/audit.py` | table `memory_events`, hash-linked rows | append, verify, list | the newest row is read in one transaction and the next inserted in another, by many threads |
| memory store, `core/memory/sqlite_store.py` | tables `memories`, `memory_namespaces`, FTS and vector tables, the audit log, backup files | add, get, update, pin, approve, reject, supersede, forget, purge, search, touch, history, backup, restore, export, import | every operation is several transactions of a worker thread; whole rows read before are written back; the audit event follows its mutation |
| extraction and consolidation, `core/memory/extractor.py`, `consolidation.py` | none of their own | extract, purge, archive, merge | several store calls each; the user changes, pins or forgets a memory between them |
| ingestion, `packages/aegismind-ingestion` | run and step records of the workflow engine, chunks of the vector store, dead-letter queue | run_sync, execute_step, ingest_records, enqueue, retry | a run suspends while it awaits the embedder; replay by batch number; failures of each stage; retries that overlap with deletions |
| chunker, `chunking.py` of the same package | none | chunk | sections, tables, code and overlap at the limit of a chunk |
| vector stores, `packages/aegismind-retrieval` | chunks in memory, in SQLite or in Qdrant with a fallback | upsert, soft delete, delete, vacuum, three searches | three stores behind one port; calls of Qdrant that fail with or without effect |
| remote connectors and their routes, `connectors/github`, `connectors/gmail`, `core/routes.py` | credentials, settings, OAuth states, the registry, the mode, the guard of every connector | connect, sign in, sync, switch the mode; read page by page | source, mode, credentials and settings change between two requests; a listing that is incomplete looks like deletions |
| connectors compiled from a manifest, `packages/aegismind-connector-sdk` | page, offset or token of a read | read | the source changes between pages; three ways of counting; one variable for page token and lower bound |
| chat and retrieval, `core/routes.py`, `packages/aegismind-retrieval`, `core/memory/memory.py` | the list of documents, the chunks, the log of conversations | ingest, delete, search, stream an answer, ask about a document | a request suspends at every event while documents come and go and clients go away |
| proposals of the agent, `core/approvals` | table `proposals` | create, approve with edited arguments, reject, expire | arguments edited after they were judged; nothing but an approval or a start looks at the age |
| approval gate, `packages/aegismind-approval` | dictionary of proposals, file of the pending ones | propose, decide, get_pending, restart | ids of one-second resolution; a decision that checks neither status nor age; what a restart keeps |
| agent loop and activity recorder, `core/agent` | locals of a run; the ledger of tool runs, its JSON file, subscribers' queues | run, execute a tool, record, subscribe, clear, restart | several runs wait for tools at once; a full ledger, a slow subscriber, a write that fails, a restart |
| secret store, `packages/aegismind-infra/.../secrets` | encrypted rows, master keys | set, delete, rotate the key, rotate all rows | rotations overlap with each other and with writes |
| object stores, `packages/aegismind-infra/.../storage` | objects and their descriptions in memory; a bucket | put, get, delete, exists, list | keys of tenants; requests and answers that get lost |
| model servers, `core/adapters/llm`, `core/ollama.py` | none | probe, list, choose a model, read a stream | servers come and go between probe and request; garbled and cut streams |
| identity, `packages/aegismind-identity` | a cache of principals, registered principals, user rows | resolve, register, list groups and tenants | the same subject with other claims; three adapters behind one port |
| knowledge graph, `packages/aegismind-graph` | nodes and edges in a JSON file, copies of two processes | add, load, save, query around a node | every process writes the whole graph; writes fail |
| start of the server and MCP bridge, `core/app.py`, `bootstrap.py`, `mcp_server.py`, `packages/aegismind-mcp-bridge` | the application's state, the audit of tool calls | start, seed late, discover, readiness; list and call tools | a start that failed is made up for by whichever request comes first; the MCP router is built before |
| pages of the user interface, `apps/lens/src` | React state and localStorage | chat, datasets, notes, study, local tools | callbacks of calls and streams outlive the page and overtake each other |

How they interact. Routes call the stores directly, in the event loop
(approvals, documents, OAuth) or through `asyncio.to_thread` (memory store).
The extractor and the consolidation job are clients of the memory store. A sync
route runs the Scribe worker, which drives a connector, the workflow engine and
the ingestion pipeline; the pipeline writes to the vector store that retrieval
reads. The agent loop creates proposals, which a user decides on through a
route. The pages call the routes and keep conversations and study documents in
the browser. No component holds a lock: what protects the memory store is SQLite's
transactions and two unique keys, and what protects the rest is that a
coroutine lets go of the event loop only at `await`.

What makes each correct, in short: the audit log is append-only, has no holes
and passes its own verification; the memory store keeps one active memory per
text and namespace, no secret text, no lost pins, no history that goes round in
circles, and an event for every mutation; the index holds of a document its
latest text, whole, and a run that reports success has indexed what it read; a
tool the policy does not call harmless is only ever queued, and a decision on
what is queued is in time, within the policy and final; the ledger, its file and
its stream tell the same; a rotation loses no secret; a read that was complete
leaves the caller's cursor equal to the source; an answer is made from current
documents, cites what the model was given, and is recorded once where its
question was asked; adapters behind one port answer alike; a page settles on
what the server has.
`PROJECT.json` lists every component with its status, and every hazard at its
line with the properties that guard against it.

## 2. The modules

| module | models | uses |
|---|---|---|
| `AppendOnlyLog` | what the documentation promises of the audit trail (abstract) | |
| `AuditLog` | `audit.py`: append in its two transactions, verify, backup and restore of the table | refines `AppendOnlyLog` |
| `AuditLogProofs` | theorems about `AuditLog` | `AuditLog` |
| `MemoryStoreProofs` | theorems about `MemoryStore` | `MemoryStore`, with the theorems of `AuditLog` |
| `MemoryStore` | the record operations of `sqlite_store.py` and the handlers of `/memory/records` | instantiates `AuditLog` |
| `ScribeSync` | a sync run: `worker.py`, `workflow_dbos.py`, `pipeline.py`, the filesystem connector, the SQLite vector store and the dead-letter queue | |
| `ScribeSyncProofs` | theorems about `ScribeSync` | `ScribeSync` |
| `ApprovalStore` | the proposals of the agent: `approvals/store.py`, `policy.py`, the handlers of `/api/v1/approvals` | |
| `ActivityRecorder` | the ledger of tool runs, its file, restart and stream: `agent/activity.py` | |
| `AgentLoop` | runs of `agent/loop.py` with both of the above, users and crashes | instantiates `ApprovalStore`, `ActivityRecorder` |
| `AgentLoopProofs` | theorems about `AgentLoop` | `AgentLoop` |
| `ConnectorHub` | connect, OAuth start and callback, mode, credentials and settings of the remote connectors | |
| `RemoteRead` | a sync of GitHub or Gmail, request by request | extends `ConnectorHub` |
| `ManifestRead` | the reader of connectors compiled from a manifest | |
| `Chunker` | `chunking.py`, line by line | |
| `MemoryDlq`, `DeadLetters` | the dead-letter queue in memory (abstract), and in PostgreSQL with its routes | `DeadLetters` refines `MemoryDlq` |
| `VectorStores` | the memory, SQLite and Qdrant adapters, given the same calls | |
| `SecretVault` | the envelope store in PostgreSQL and its rotations | |
| `ObjectStores` | the memory and the S3 adapter, given the same calls | |
| `ModelServers` | the Ollama and the hosted adapter, `ollama.py`, the route of models | |
| `Identity` | the normaliser of claims and the three adapters | |
| `CoreStartup`, `McpBridge` | start, late seeding, discovery, readiness; the MCP router, bridge and client | `McpBridge` extends `CoreStartup` |
| `LensDatasets`, `LensNotes`, `LensFeed`, `LensStudy` | the pages of the same names with the calls they make | |
| `Workbench` | all from `ConnectorHub` on beside each other | extends them |
| `SequenceLemmas` | lemmas about `Values`: sorting, selections from a sequence, parts of a sequence | `Values` |
| `PageProofs` | theorems about the four pages, `LensDatasets`, `LensNotes`, `LensFeed` and `LensStudy` | extends them, `SequenceLemmas` |
| `WorkbenchProofs` | theorems about `DeadLetters`, `VectorStores`, `SecretVault`, `ObjectStores`, `McpBridge`, `RemoteRead`, `ModelServers`, `Identity` and `Workbench` | `Workbench`, `PageProofs` |
| `Corpus`, `ChatStream` | documents and ranking; search, streamed answers, questions about a document, the log of turns | `ChatStream` extends `Corpus` |
| `ApprovalGate` | `gate.py` and the routes `/approval` | |
| `KnowledgeGraph` | `engine.py`, its two writers, `/graph/query` | |
| `MemoryJobs` | `extractor.py`, `consolidation.py` and the user beside them | |
| `LensChat` | `Chat.tsx`, `streamChat` and its simulation, `conversationStore.ts` | |
| `Assistant` | all from `Corpus` on beside each other | extends them |
| `AssistantProofs` | theorems about `ApprovalGate`, `MemoryJobs`, `LensChat`, `KnowledgeGraph`, `ChatStream` and `Assistant` | `Assistant`, `SequenceLemmas` |
| `Values` | helpers for values that may be absent; `Sorted`, a set listed by an order, and `Only`, a selection from a sequence | |
| `MCMemoryStore`, `MCScribeSync`, `MCAgentLoop`, `MCWorkbench`, `MCAssistant` | values of the constants for TLC (`AuditLog.cfg` needs none) | |

### 2.1 AuditLog

`log` is the table, a function from `seq` to rows; `tail[t]` is the local
variable of an append under way in thread `t`: the row its SELECT has returned.
`ReadTail` is the SELECT, `InsertRow` the INSERT, `RejectDuplicateSeq` the
`IntegrityError` when another thread has inserted the same `seq` in between.
They are separate actions because Python's `sqlite3` opens a transaction only
before an INSERT, UPDATE or DELETE. `Crash` forgets the locals. A digest is the
tuple of the fields it is computed from, which says that SHA-256 does not
collide, and nothing else about it. `Verify` walks a table as `verify` does: it
compares the hashes of neighbours, never their `seq`, which is why the absence
of holes is a property of its own. `image` is the table inside a backup file.

### 2.2 MemoryStore

A call of the store is the list of the statements it is going to execute,
`todo[t]`; every statement is one action, so that two threads interleave
exactly where the code commits. `_update` is `StepGet`, `StepPut` (the UPDATE
of all columns but `pinned` and `access_count`, from the record read before)
and the two steps of an append. `approve`, `reject` and `forget` are an update
followed by an event of their own, `supersede` an update followed by an insert,
`purge` a SELECT and a DELETE. The handlers of PATCH decide from the record
they have read which calls follow (`StepPatch`); a statement that raises empties
`todo[t]`. The partial unique index on active memories is `IndexRefuses`. Sets
with at most one element stand for values that may be absent.

Left out of a row: title, importance, confidence, sensitivity and the other
columns no property looks at; an edit that changes only such a column is
`other`. Scores of a search are left out: a search may return any set of active
memories. A retention period ends at any time (`RetentionEnds`).

`unlogged` is a history variable: a mutation enters it when it is committed and
leaves it when its event is inserted. Two more remember what the guarantees do not
cover: `leaked` has the memories that an edit gave a secret to (`Leaks`), because
`_update` does not scan a text and `add` does, and `restored` is true from the
first restore on.

### 2.3 ScribeSync

One record of program counter and locals per run; the actions follow the
source: start, visit one file, yield one tombstone, end or fail of the scan,
replay or prepare a batch, embed, soft-delete, upsert and record, report, crash.
A text is the sequence of its chunks, so that the parser and the chunker are
abstract; a chunk carries the piece its embedding was computed from, because
embeddings are reused by content hash.

The connector, the parser and the store are coroutines that never suspend, so
that `LoopFree` lets another run move only while this one awaits the embedder,
and nothing but the end of the process falls between the soft delete of a batch
and its upsert. Every run takes one try at a time; a second start of a run id
while the first is running is left out, and so are ignore patterns, several
watch paths and the `status` of a `WorkflowState`, which nothing reads. The
pipeline is taken to have been given its dead-letter queue. The directory is flat,
and what is left of its listing is the set of places in `Files` still to visit. `Faults` names the stages that may fail,
`MaxFaults` how often.

`settled` and `shown` are history variables: the text last indexed without an
error, and the newest revision of a file that has been upserted. `delivered`,
`read` and `changed` record what a run has read and indexed and whether what
its connector yields may have changed since its first try.

### 2.4 AgentLoop, ApprovalStore, ActivityRecorder

A run is a coroutine; `pc[a]` says what it waits for: the model, a tool, or its
turn between two tool calls. `todo[a]` is what is left of the model's reply,
`total[a]` is `total_calls`, `active[a]` the id of the event of the tool under
way. One tool call is one action, or two when the tool is executed (`StartTool`,
`EndTool`); the code does not suspend between two calls of a reply, so that the
model allows some interleavings more than the code has. A reply is any of
`Replies`: lists of calls, which the policy tells apart by the kind of the tool
and whether the arguments are allowed. `ParseFails` is the exception of
`json.loads`, which ends the run. The model server and the tools are external;
either may answer anything or fail.

The methods of `ApprovalStore` and of the recorder, and the handlers that use
them, never suspend; each is one step of the event loop, which is what makes
"read, check, write back" safe in `approve_proposal` without a transaction. That
holds as long as a single process opens the database. Ids of proposals are time
stamps with microseconds and are taken to differ. `overdue` says that the hour of
a proposal is over; it becomes true at any time (`HourEnds`). Risk, preview and
taint are shown to users and decide nothing.

`file` is empty when it cannot be read: `_persist` truncates before it writes, so
that a write that fails, or a crash during one, leaves either the old content or
none (`DiskFails`). `Interrupted` is `mark_running_as_interrupted` as Python
executes it: a loop over the places of a list whose entries are moved to its end
meanwhile, written as a recursive function of the place. `heard[s]` and `missed` are history variables: what a client of the
stream has been told of each event, and whether its queue was ever full. A run
that is cancelled by the shutdown of the server, in which case `_execute_tool`
records its tool as successful, is left out, as is a loop without a store of
proposals, which the application never builds.

### 2.5 ConnectorHub and RemoteRead

The vault is a dictionary whose operations do not suspend, so that a handler is
one step except where it awaits the exchange of an OAuth code (`TakeState` and
the end of the exchange). `guard` is what every connector was told of the mode,
`airGapped` and `sovereign` are the environment. A setting is a list of places;
`asked` remembers what was last asked for. In `RemoteRead` every request of a
read is a step: list repositories, a branch, a tree, a file; a page of messages,
a message. It may fail, and the source, the mode, the credentials and the
settings may change before the next. Contents are versions, `Unusable` those
that are skipped as binary or too large. `rd` is the read under way, `known` the
cursor of the caller, which applies every record it is given. `clean` and
`stable` say whether every request of the read succeeded and nothing changed.

### 2.6 The other parts of Workbench

* `ManifestRead`: a listing whose items come and go between pages; page number,
  offset and token; a source that gives fewer items than asked for (`cap`);
  `Shapes` are the ways in which an item may lack what a record needs. The page
  tokens of a source are its own (`api.tokens`): versions of items, opaque names of
  places in the listing, or opaque counts. The reader has one cursor, which it sends
  as page token (`SentToken`) and as lower bound (`SentBound`) alike; `Strange` says
  that a value of the wrong kind went out, and `api.strange` what the source does
  with one: ignore it, find nothing, or refuse the request.
* `Chunker`: a behaviour reads one document line by line, so that the behaviours
  are the documents. A text is a sequence of line numbers, one per character,
  and 0 for the end of a line: lengths, overlap and stripping are those of the
  code. The context prefix is left out.
* `DeadLetters`: one action per statement of `PgDLQAdapter`; `ActsLikeMemory`
  is the refinement of the queue in memory, whose calls never suspend.
* `VectorStores`: the memory store is a sequence (a dictionary keeps the order of
  its keys), SQLite a table with row numbers, Qdrant a set of points with a
  memory store as its adapter's fallback. Scores are constants. A call of
  Qdrant fails with effect or without.
* `SecretVault`: a row is opened if its data key is the one its value was
  encrypted with and the master key it names is the one its data key was
  encrypted with. `set`, `delete` and `rotate_all_secrets` suspend at each
  statement.
* `ObjectStores`: a key is a sequence of characters. A request, also one for a
  listing, may get lost, be refused, or be done while the answer gets lost; `unsure` holds the keys for
  which the caller cannot know.
* `ModelServers`: endpoints answer or not, and that flips between calls; a
  stream is a sequence of kinds of lines. `None` stands for the empty string of a
  setting that is not set, here and in `Identity`, where no code tells the two apart.
* `Identity`: claims are records of what the normaliser looks at; the memory and
  the database adapter get the same registrations.
* `CoreStartup` numbers the vector stores, and knows a pipeline by the store it
  searches, which is how a state that was initialised twice shows. `McpBridge`
  runs beside it; `captured` is the pipeline its router was built with.
* The pages: a call goes out, the server carries it out, its reply arrives, three
  steps (two where the server is as good as instant); callbacks close over the
  state of their render, which the call carries along (`had`, `was`). History
  variables note whether a reply was lost or overtaken, because then the code
  makes no promise.

### 2.7 Corpus and ChatStream

Embedding a paragraph suspends, so that requests come between the paragraphs of
a document; the memory store does not. There is one question; how well a text
matches it, its size and its likeness to another are constants, from which rank
fusion, diversity and budget are computed as the code does. A request stops at
the embedder, the reranker, the recall of memories, the model and each event of
its stream. An answer is the number of its tokens that hold a word.

### 2.8 ApprovalGate, KnowledgeGraph, MemoryJobs, LensChat

The methods of the gate are one step each; the number of a proposal tells two
apart that share an id; `gateFile` is the old content or none after a failed
write. The graph has three copies: the one the server seeds, the one that
answers its queries, and the one of `scripts/seed_graph.py`; every addition is a
write of the whole file. Both lists that are added have their nodes before their
edges, which `GraphAssumption` states. The two loops of `query`, over the edges and
over the queue, are recursive functions of the passes made (`Around`, `Sweep`). In `MemoryJobs` a call of the store is one step, except
`supersede`, which is two; a text is a set of facts, so that a merge that loses
one shows. Ids grow with the time of creation, so that the order of a listing,
newest first, is that of the ids: `stale` is the set of the memories left to
archive, of which the largest id comes next, and `listed` gives of each memory
what the job has read of it. `LensChat` has one record per question that was sent, whose callbacks
live on after the page is gone; the user stops, begins a new chat, leaves.

### 2.9 Assistant and Workbench

The parts of each composition share no variable, so that a step of one commutes
with every step of another. The composition therefore lets one part run in a
behaviour, chosen at the start, while the others rest in one initial state:
that is the disjoint union of their behaviours, at the cost of the sum of their
states. Where parts do interact they are in one module or extend each other
(`RemoteRead` and `ConnectorHub`, `ChatStream` and `Corpus`, `McpBridge` and
`CoreStartup`).

## 3. The runs

| run | instance | question |
|---|---|---|
| `audit_log` | 3 threads, 2 entries, `seq` up to 4 | do concurrent appends, crashes and backups keep the log verifiable, without holes, immutable, an append-only trail? |
| `store_races` | 2 threads, 2 calls of any kind, edits of every column and a restore among them, 3 texts of which one is a secret, 1 crash | which guarantees survive every interleaving of the statements of two calls? |
| `store_serial` | 1 thread, 3 calls, with search, backup and restore | what holds in addition when calls do not overlap? |
| `store_lost_event` (violation) | 2 threads, 2 insertions | `AuditComplete`: does every mutation get its event? |
| `store_revived` (violation) | 2 threads, 2 edits | `ForgottenStays`: does a forgotten memory stay so? |
| `sync` | 2 runs of 2 tries each, 2 files, batches of 1, 1 edit, 1 fault or crash | is the index right after clean batches, and do reports tell the truth? |
| `sync_torn` (violation) | 1 file, 1 failure of the embedder | `WholeDocuments`: are chunks replaced atomically? |
| `sync_stale` (violation) | 1 file, 2 runs, 1 edit | `NewestStays`: does the newest revision win? |
| `agent` | 2 runs of 1 call each, replies of up to 2 calls of every kind, 1 client, a ledger of 2 and a queue of 1, 1 note or clear, 1 failed write, 1 crash | do runs stay within limit and policy, do decisions stand, do ledger, file and stream agree, does every run end? |
| `agent_leftover` (violation) | 2 runs of 1 call, 1 crash | `RunningIsUnderWay`: does a restart mark every interrupted tool? |
| `connectors` | fourteen parts, one per behaviour | do reads, secrets, chunks, failed items, stores, models, identities, start, MCP calls and pages keep their promises, and does a read end? |
| `assistant` | five parts, one per behaviour | do chat, approval gate, knowledge graph, chat page and memory jobs keep theirs, and does everything that was begun end? |

The invariants of a part are conjoined into one property of the part or of a
group of parts (`...Sound`); each conjunct is a definition with a comment of its
own in the part's module. `LedgerSound`, for instance, is `FeedTellsEnd` and
`LedgerOnDisk`. What the passing runs show.

* `audit_log`: whatever the interleaving, `verify` accepts the log
  (`ChainVerifies`) and there are no holes (`NoGaps`); rows never change
  (`RowsImmutable`); `verify` notices every removed row but the newest and every
  altered one, except for a newest row whose hash has been recomputed as well
  (`TamperEvident`, where the exceptions are part of the statement because
  nothing vouches for the last link); the table implements an append-only list
  (`ImplementsTrail`).
* `store_races`: two calls at once, whatever they edit, never leave two active
  memories of one text (`OneActivePerContent`) or a cycle in the history
  (`HistoryMovesOn`), and until a backup is restored neither a log that does not
  verify (`AuditVerifies`) nor a purged memory that has come back (`PurgedIsGone`). A
  memory says a secret only if an edit gave it one (`NoSecretStored`): that edits are
  not scanned is a divergence (section 5), and the named exception keeps it from
  hiding the other ways in. A pin survives concurrent updates (`PinsKept`).
* `store_serial`: when calls do not overlap, every mutation has its event, also
  across backup and restore, a search answers with active memories, a purge
  deletes only forgotten ones, an approval starts from pending or active, a
  superseded memory has a successor, and a forgotten one stays forgotten
  (`SerialSound`, `StatusesSound`). `store_races` is the same question for two
  threads (`RecordsSound`): the parts that are in one and not in the other are
  those concurrency breaks.
* `sync`: after a batch without an error the index holds exactly the text of
  each of its documents (`IndexSettled`) although other runs may have prepared
  chunks from the state before; embeddings belong to their chunks
  (`VectorsMatch`); a run that reports success has indexed what it read
  (`CleanReportDelivered`) and, if no file changed, every file that differs from
  the cursor (`CleanRunCoversSource`); what it read and did not index is in the
  dead-letter queue (`FailuresQueued`).
* `agent`: a run makes no more calls than its limit, the queued and blocked ones counted
  (`CallsLimited`), so that it ends whatever the model keeps asking for
  (`RunsEnd`); what is approved is within the policy, edits included
  (`ApprovedWithinPolicy`), approved before its hour is over (`ApprovedInTime`),
  and a decision is final (`DecisionStands`); a client that keeps up hears the
  end of every tool it has heard start, as long as the entry is in the ledger
  (`FeedTellsEnd`: an entry that a full ledger drops while its tool runs is never
  reported as ended); and the file holds the ledger unless a write has failed
  (`LedgerOnDisk`).
* `connectors`:
  - reads start only while the server is connected and from the places last
    asked for; a read in which every request succeeded, no limit was met and
    nothing changed makes the cursor equal to the source, whatever became of
    the reads before; a repository that failed loses nothing; a rotation leaves
    no secret it found under a key older than it should (`StepsSound`); a read
    that has begun ends (`ReadEnds`);
  - a state token buys one connection, connectors use what is stored, every sync
    is closed by what became of it (`ConnectorsSound`);
  - a stored secret can be opened and is the last one stored, unless it was
    written between the SELECT and the UPDATE of a rotation (`SecretsSound`);
  - the chunker loses no line and cuts no table and no code. A line stands under
    its headings as far as the first heading inside its chunk; from there on the
    chunk keeps the headings it began with, and whatever other heading a line is
    under stands in the chunk above it. The reader of manifests loses and doubles no
    item unless its cursor is misread (`Misread`): the manifest has page tokens and
    a cursor field, and the source takes a token for a bound, or a bound for a
    token, without an error. What that costs is `FirstPageOnly` (`IngestionSound`);
  - the queue in PostgreSQL does what the one in memory does
    (`ActsLikeMemory`), counts every retry that took effect and tells a caller
    the truth about it; SQLite holds what the memory store holds and answers as
    it does; what was put last stays findable although Qdrant fails; the object
    stores agree except about a write that is in doubt (`StoresSound`);
  - servers that answer are found, models that cannot write are not asked to,
    an answer is handed on whole; nobody gets a group or a tenant nothing ever
    named for them, the tenant of a user who has a tenant row is one the user may
    reach, and the cache holds the last claims (`ServicesSound`);
  - however late the state is seeded, the documents that are listed are those
    that can be searched, and nothing taken in before is lost; a tool runs
    confirmed or allowed, is audited, and fails no longer than there is no
    pipeline (`CoreSound`);
  - a page settles on what the server has, something is chosen as long as there
    is something, and answers stand in the box of their question (`PagesSound`).
* `assistant`:
  - the list of documents and the index agree, what is found was current and of
    the right tenant, fusion is fair, diversity costs nothing, citations are what
    the model read, a turn is recorded once with what was streamed (`ChatSound`);
  - a decided or expired proposal never asks again, a restart finds what is
    pending, a decision hits what was shown or what took its id in the same
    second (`GateSound`);
  - no edge of the graph hangs loose, seeding over a whole graph ends with a
    whole one, and a query finds what is near, nearer nodes first (`GraphSound`);
  - an answer is recorded once, in the conversation it was asked in, as shown
    (`LensSound`); a stopped answer shows no further word, a question about a
    dataset is answered from its last text, the newest exchange is kept
    (`StepsSound`);
  - no job loses a fact, a pin or a decision of the user, or extracts again what
    it has seen (`JobsSound`); requests, jobs and waiting pages end (`AllEnd`).

Bounds, and why they are enough. The properties of the store concern one or two
memories and one or two calls: a race is between two statement lists, and a
third thread adds no new pair of adjacent statements. The store runs start from
a table with an active, a pending and a long forgotten memory of the same text, and
a backup of it (`InitUsed`), all reachable by the calls of the store, so that two
calls suffice for every pair of operations to meet, a restore and an edit that
leaks a secret among them. `store_races` has 1 252 969 states (two minutes and a
half) and `store_serial` 883 728. `MaxSeq` is never reached in
them. In `sync`, two files with batches of one give a run two batches, so that
a fault can hit the first or the second and a replay can mix recorded and new
ones; two tries cover one restart; one edit distinguishes old from new text;
two runs cover the overlap at the embedder. The texts are of one and two chunks
and share one chunk in different places, so that lengths shrink and grow and
embeddings are reused.
In `agent` two runs make two
tools overlap, and with a note three entries compete for two places, so that one
is dropped while its tool runs; a reply of two calls passes the limit of one in
its middle. A run of one agent with three calls and two users' actions (some
700 000 states) finds nothing else.
In `connectors` (727 408 states, three minutes) and `assistant` (some
520 000, three and a half minutes) each part has bounds of its own, named in its module and set in the
`.cfg`; they follow one rule: as many actors as a conflict needs, and as many
calls as it takes to set a state up, disturb it and look at it.

| part | bounds | why |
|---|---|---|
| read | 2 requests or changes of settings (`MaxRequests`), 1 change of the source, 2 syncs, 2 places, 2 branches, pages of 1, 1 item per read | a sync, something that comes between, and the sync that has to catch up; the limits are met |
| secrets | 2 writers, 2 rotators, 2 sets, 3 master keys, 2 rotations | two rotations overlap with a write |
| chunker | documents of up to 5 lines, chunks of 4, overlap of 2 | blocks shorter than, as long as and longer than a chunk |
| letters | 2 items, 2 callers, 5 calls | enqueue, two retries, a deletion, a look |
| vectors | 2 documents, 3 calls, 1 outage, 2 times | put, put a shorter one or delete, search |
| objects | 2 tenants, 2 keys of which one looks like a tenant's, 3 calls, listings of 1 | write, disturb, look |
| models | 2 calls, of which all but the last list models, 1 flip, 2 lines of a stream | a server goes between listing or probe and request |
| manifest | 2 edits of the source during 1 read, 4 items at first or none (`FirstSizes`), pages of 2, sources that cap at 1 or 3; tokens that are versions, places or counts, and all three answers to a strange value | an item in front of or behind the page that was read; the second page, and a stored cursor |
| identity | 3 calls | resolve, change, ask |
| core | 1 start, 1 error, 1 ingestion, 1 service down, 2 MCP calls; other requests come before the last MCP call, services change only before the first | seeding early, late and never |
| datasets | 2 documents, 3 acts of the user, 2 calls on their way, 1 visit that ends, 1 lost reply | two replies overtake each other |
| notes | 3 acts, 2 calls on their way, 1 error, 2 seconds | the same |
| feed | 2 tool runs, 1 act, 1 error, a page of 2 rows, a listing of 1 | a listing is older or newer than the events |
| study | 2 files, 2 questions, 1 visit that ends, 1 failing write, before the last visit | an answer outlives its document and its page |
| chat | 1 request (the corpus changes beside it), 2 writes, 1 token, windows of 3, 2 results | documents change before, during and after the search |
| gate | 3 proposals, 3 seconds, 1 failing write, expiry after 1 second | two share an id, one expires |
| graph | 5 nodes, 3 starts of both processes together, 1 failing write; queries only while the script is down | script and server start over each other |
| chat page | 2 questions, 1 word, 1 visit that ends, conversations of 1 | a stopped question and its successor |
| jobs | 3 memories at first and 7 at most, 2 runs, 1 error, 1 call of the user | each run meets the user or the other job |

Fairness. `agent`: weak fairness of the steps of a run that has
begun. The event loop resumes every coroutine that can go on, a model call has
a timeout of 60 seconds and a command one of 10; a search waits for the embedder,
whose client has a timeout too, and a file is read locally. `connectors`: weak
fairness of the steps of a read that has begun (`ReadStep`): each is a request
with a timeout, or no request at all. `assistant`: weak fairness of the steps of
each request for an answer (`ChatFairness`; the clients of embedder, reranker
and model have timeouts), of the end of file parsing, of an answer and of the
timers of the simulation for each question (`LensFairness`: a stream ends or
breaks), and of the steps of a job (`JobsFairness`). Nothing is assumed of users,
of starts, of other clients or of crashes. All other properties are safety or
action properties. `CHECK_DEADLOCK FALSE` appears where the bounds on calls,
tries and faults let a behaviour end, which only means that clients have stopped
asking. `audit_log` needs no such line.

## 4. The proofs

Every proof is checked by TLAPS to its last leaf and holds for every value of the
constants that satisfies the named assumption of the module: types and sizes, and
that `None` is none of the values it stands beside. The theorems are about the
specifications from their initial states. (The store runs start from `InitUsed`,
a state the calls of the store reach.) Each invariant below was first checked with
TLC, as an invariant of runs with other constants than those of section 3; the
numbers of states are given.

| module | theorem | property |
|---|---|---|
| `AuditLogProofs` | `TypeCorrect`, `ChainCorrect`, `Contiguous`, `Immutable`, `TamperEvidence`, `Implements` | `TypeOK`, `ChainVerifies`, `NoGaps`, `RowsImmutable`, `TamperEvident`, `ImplementsTrail` |
| `MemoryStoreProofs` | `StoreTypeCorrect`, `RecordsStaySound`, `PinsStay` | `TypeOK`, `RecordsSound`, `PinsKept` |
| | `UniqueActive`, `HistoryAcyclic`, `SecretsKeptOut`, `LogVerifies`, `PurgesStay` | the parts of `RecordsSound`, for all calls and edits |
| | `KeepsAuditLog` | the store implements `AuditLog` |
| | `SerialStaysSound`, `StatusesStaySound` | `SerialSound`, `StatusesSound`, for calls that do not overlap |
| `ScribeSyncProofs` | `SyncTypeCorrect`, `IndexStaysSound`, `ReportsStaySound` | `TypeOK`, `IndexSound`, `ReportsSound` |
| | `ReportsAreTrue` | `CleanReportDelivered` and `CleanRunCoversSource`, without a hypothesis |
| `AgentLoopProofs` | `LimitHolds`, `ApprovesWithinPolicy`, `DecisionsStand`, `NoLateApproval`, `LedgerStaysSound`, `LoopTypeCorrect` | `CallsLimited`, `ApprovedWithinPolicy`, `DecisionStands`, `ApprovedInTime`, `LedgerSound`, `TypeOK` |
| | `ExecutesAutoOnly` | `OnlyAutoExecuted`, which no run checks |
| `WorkbenchProofs` | `ImplementsMemoryDlq`, `CountsRetries`, `AnswersRetries`, `DeletesForGood` | `ActsLikeMemory` and the queue's parts of `StoresSound` |
| | `SecretsStaySound`, `RotationsReachAll` | `SecretsSound` and `RotationReachesAll` of `StepsSound` |
| | `CoreStaysSound` | `CoreSound` |
| | `ConnectorsStaySound`, `SyncsStartRight`, `FailedReposKeep` | `ConnectorsSound`, and `NoReadWhileSovereign`, `SyncUsesSettings` and `FailedRepoKept` of `StepsSound` |
| | `ModelServersServe`, `GrantsAreTraced`, `HomesAreInScopes`, `WholeServices` | `ServicesSound`: the model servers' part and that of the identities, of the modules and of `Workbench` |
| | `ObjectsStaySound` | the object stores' parts of `StoresSound`, and their type |
| | `VectorsStaySound` | the vector stores' parts of `StoresSound`, and their type |
| | `WholeKeepsStores`, `WholeServes` | `StoresSound`, `ActsLikeMemory`, `SecretsSound`, `CoreSound`, `ConnectorsSound` and the two about the start of a sync, of `Workbench` |
| | `WholePages` | `PagesSound`, of `Workbench`, with the types of the pages |
| `PageProofs` | `DatasetsStaySound`, `NotesStaySound`, `FeedStaysSound`, `StudyStaysSound` | the parts of `PagesSound`, each of its page |
| `AssistantProofs` | `GateStaysSound` | `GateSound` |
| | `JobsStaySound` | `JobsSound` |
| | `LensStaysSound`, `StopsForGood`, `KeepsNewest` | `LensSound`, and `StopIsFinal` and `NewestKept` of `StepsSound` |
| | `GraphStaysSound` | `GraphSound` |
| | `TurnsAreRecorded` | `TurnRecorded` of `ChatSound` |
| | `WholeKeepsDecisions` | `GateSound`, `JobsSound`, `GraphSound` and `TurnRecorded` of `Assistant` |

The parts of `Workbench` and `Assistant` also have theorems of their types
(`DeadLettersTypeCorrect`, `VaultTypeCorrect`, `GateTypeCorrect`,
`GraphTypeCorrect`, `JobsTypeCorrect`).

*Audit log.* That `log` verifies is not inductive: an insertion links the new row
to what its thread has read, which may have been any earlier state of the table.
The strengthening says that the table's domain is `1 .. n`, that the first row has
the genesis value as its predecessor and every other row links to the one before
it, and that what a thread has read is a prefix of the table: `tail[t].seq` is at
most `n`, and its hash is that of the row it names. When `tail[t].seq + 1` is not
yet a key, the thread must have read the newest row, so that the insertion extends
the chain. `Implements` maps each insertion to one `Record` and every other step
to a stutter. Tamper evidence needs only the chain: a hash is the tuple of its
fields, so that a change of a row changes what its successor must name.

*Memory store* (`StoreInv`, `FreshInv`; 438 044 states). The invariant follows
what is still to be executed. In the list of statements a thread has left, a row
is read right before the statement that writes it, and a thread holds a row only
between the two; every statement names ids that have been given out, and an edit
links a memory to later ones only, which is why the history has no cycle. For
purges (`FreshInv`): an id that an INSERT will use is in no table, in no other
list and among no thread's picked rows, and no purge of it is on record. The log
is `AuditLog`'s by refinement (`KeepsAuditLog`): every statement of a call is a
step of that module or leaves its variables alone, so that `ChainVerifies` comes
from `AuditLogProofs`. A restore replaces the tables under the statements of other
calls, after which `AuditVerifies` does fail, and brings back what was purged after
the backup; so the log and the purges are promised until `restored`, and their
invariants are kept by every step that is no restore, and by none after one. For
secrets (`SecretInv`; 1 252 969 states) a row with one, in the table, in a backup or
in a thread's hands, is that of an id in `leaked`. `RecordsStaySound` and
its parts have no hypothesis; `KeepsAuditLog` alone has `"restore" \notin Calls`,
because the steps of `AuditLog` are those of its threads, and a restore is none.

*Memory store, calls in turn* (`SerialInv`). `SerialSound` and `StatusesSound` are
promises that overlapping calls break, as `store_lost_event` and `store_revived` show;
their theorems have the hypothesis `CallsInTurn`, under which the run `store_serial`
checks them: one thread, no crash, and no text that the guard refuses, because a
`supersede` whose new text is refused names a successor it never writes. The
invariant says what the statements left in the thread's list are good for: a mutation
without its event has that event in the list, right after the statements of its own
operation (`LoggedSoon`); the successor of a memory is in the table, purged, or about
to be written (`LinkedSoon`); the row the thread holds, the ids it has picked and the
memory it is about to approve are as the table has them (`Prepared`), because nobody
else writes between. A table that was backed up and its log are a whole (`BackedUp`),
so that a restore keeps all of this.

*Sync* (`SyncInv`; 1 403 816 states). The prepared and pending chunks of a run are
made of a record of its batch (`MadeFromBatch`); a batch has one record per
document, because a scan visits a file once (`OncePerDocument`); between the soft
delete and the upsert of a batch its documents are not settled and, without an
error, have no live chunk (`Replacing`); and version numbers have a bound, so that
the next one is free (`VersionsBounded`).

*Reports of a sync* (`ReportInv`; 1 761 328 states of a run of three tries with four
files in batches of two, an edit and a fault). A report is put together of what this
try has done and of what steps of earlier tries have recorded, replayed by number.
What makes that right is that the files come in the same order in every try, so that
as long as nothing has changed the n-th batch of every try is of the same files, and
a batch that is not full is the last one of a try that came to its end; either every
recorded step is that of a full batch, or some try has come to its end and the steps
are those of all it had to read. Tombstones come in no particular order, but only
after every file. If something changed, `CleanReportDelivered` and
`CleanRunCoversSource` promise less, and the invariant needs less. For
`FailuresQueued` the theorem `ReportsStaySound` has the hypothesis
`"chunk" \notin Faults`: the pipeline enqueues what cannot be parsed or embedded and
not what cannot be chunked, which section 5 has as a divergence.

*Agent loop* (`RunInv`, `ApprovalInv`, and `LedgerInv` on instances of 410 876 and
1 179 632 states). `CallsLimited` is not inductive: a call is counted when its tool
has ended, and a run that waits for a tool must still be below the limit
(`BelowLimit`). `ApprovedWithinPolicy` needs that only calls that want an approval
are queued, and that they are of the types the policy knows, because an approval
keeps the tool and evaluates only the arguments again. The action properties
follow from what a step may do with one row (`RowStep`), given that ids are fresh.
For the ledger: what a client that has kept up takes last of an event, from its
queue or out of what it has heard, is "running" only while the tool runs or when
the ledger has dropped the entry (`KeptUp`), and every id in the ledger, the file
or a queue has been given out before. What the restart makes of the ledger is a
recursive function; that it returns entries of known ids is proved by taking the
first place at which it would not.

*Queue of failed items* (`DlqInv`). An item that a call has in hand was put into
the table, and only a deletion can have taken it out; an insertion alone brings in
an id, a new one. So an UPDATE finds the row, which is one call of the queue in
memory, or an item that is gone, which is a stutter. For the listing
(`NewestAreListed`) the table has finitely many rows (`TableFinite`), so that it can be
listed in an order of the times; among equal times SQL leaves the order open, and so
does the model.

*Vector stores* (`VecInv`; 23 904 states). SQLite's table has the ids of the memory
store's sequence, with the same texts and marks, and its row numbers rise in the order
of the sequence (`Mirror`): a chunk put again keeps its place in a dictionary and its row
in the table, and a new one comes last in both. So reading the rows in their order gives
the sequence (`RowsAre`). A ranking orders places by score and place, a strict order of
finitely many; two listings of the same elements in the same order are equal
(`SameOrder`), so that both stores answer alike, and a chunk that is left out of the
first k is not better than one that is in. A lexical search of SQLite also lists chunks
that score zero, after all others, so that what has a word of the query is the same. For
the fused search (`HybridFull`) each list alone already has as many chunks as are asked
for or as there are. In Qdrant what was put last is a point, or active in the fallback,
and as long as no call failed the fallback is empty and points of first versions that are
still in use have the last text (`QdrantRight`).

*Secrets* (`VaultInv`, `RotationInv`; 45 023 and 37 417 states). Every envelope, in
the table, on its way into it or copied out by a rotation, is sealed: the master
key it names wraps its data key and is known, and its data key is the one of its
value unless a rotation has mixed it with an older one. For a rotation to reach
every row, an old row's owner must be among the copies still to do, and what any
rotation writes back must be no older than what the others began with (`Floor`);
"the oldest of the rotations under way" exists by well-foundedness.

*Server and MCP bridge* (`McpInv`; 3 602 413 states). While there is no pipeline
nothing is listed and nothing was taken in; once there is one, the store that is
written to is the one it searches (`ServedOK`), whoever seeded the state. The
router has kept the pipeline of the state or none, so that its search is the
search of the API. A call under way is in no log, so that the entry of its tool
comes after those of the tools before (`RunsAreAudited`).

*Connectors* (`SyncsInv`, `TodoInv`; 657 032 states). The guards follow the mode; a
state token that can be taken bought nothing yet; a token that was put into the
vault behind a connector's back is one, so that loading it leaves none in use that
is not stored; and the settings last asked for are those in the vault. The two
audit records of the i-th sync are the i-th two of the log (`RecordsPaired`).
`FailedReposKeep` has a hypothesis, `NoRepeats`: in a list that names a repository
twice the second attempt may succeed, and then it does change the cursor.

*Model servers* (`LlmInv`). A server that was passed over while probing did not
answer all the time (`ProbesOK`), so that one which did is found. A line that ends a
stream is the last that is read, and what was heard are the places of the lines with
words, in their order (`LinesOK`). A list that was offered holds no embedding model,
unless a server has nothing else, and a model that was offered and is asked for is the one used
(`OffersOK`). The assumption of the module says that what is installed are models.

*Identity* (`IdInv`). What a subject was last resolved to is what its last claims
normalise to (`ClaimsOK`); what the memory and the database adapter keep of a
principal are those it was registered with, the database's within the memory's, and
equal after a first registration (`KeptOK`); nothing is kept that was not named for
it. `HomeInScopes` promises of a database only what it says of users who have a
tenant row (`HasTenantRow`), because the adapter reads both tables and nothing in it
keeps them together; the instance has a user with such a row and one without.

*Object stores* (`ObjectInv`; 2 258 949 states). What stands under a path in the memory
store is described by a key and a tenant with that path, and was put by that tenant;
what stands under one in the service was put by some tenant whose keys have it. A
tenant's path is its name, a slash and the key, and both can be read off it
(`TenantPath`), so that no other tenant has put it, only a caller without one. Under
every path that is not in doubt both stores have the same object. For the listings: if
everything has a tenant, each path has one description, and the keys in the two
listings are those of the same paths. The attempt found that the
model dropped one leading slash of a key where `lstrip` drops all of them; `Clean` does
so now, and the instance has a key with two.

*Approval gate* (`GateInv`; 40 291 states). A proposal is kept under the second in
which it was made, in memory and in the file, so that a number never stands for two
ids; a proposal is settled only once the file holds what memory holds, and a
write that fails leaves in the file nothing or what was there before.

*Memory jobs* (`JobsInv`; 177 554, 192 606 and 2 457 607 states). A row never changes
what it says, and what a job has read of a row that is still listed is there
unchanged but for what the user did since (`ReadingsOK`, `StaleOK`). A fact in use
is in an active memory, among what was dropped on purpose, or in the hands of a
merge: between its halves in what the job has read, then in the memory it has
made, which after a failure waits for approval (`Safe`). The attempt found that
`PinSurvives` did not hold of every instance: after a merge that failed half-way
the user could pin the second memory, whose pin the merged one, written from the
reading, does not have. The history `late`
now covers every pin that comes after the reading.

*Knowledge graph* (`GraphInv`; 1 367 649 states). Adding a node that is there takes
its connections away, so that while a process adds, its copy is not whole: the
invariant says that a connection is missing only of an edge that is still to be
added, and that as long as a node is still to be added, so are all the edges that
the copy has. For the query the search has an invariant of its own: what has been visited
lies between two levels of distance, the answer is the first of it without
repetition, each with an edge to one found before. That the two loops keep it is
proved by taking the first pass after which it would fail.

*Log of conversations* (`TurnInv`; 6 037 089 states). No two requests share a number, and
a request whose number is in the log has the words of its row and is past the step that
records it, where it can only cite, be answered or be left.

*Page of the chat* (`LensInv`; 1 168 530 states). What is shown of an answer is what
will be recorded of it, a stopped answer is closed, only the home page can stop
one, and only its own; an exchange is recorded by the step that closes an answer
which was not stopped, so that it is recorded once.

*Study hub and datasets* (`StudyInv`, `DsListInv`, `DsChatInv`; 1 000 876 and 213 769 states).
The question a box waits for is the only one in it without an answer and the last
thing said there, so that the answer goes below it; the log on the server has the
questions that were answered, each once. A listing of the datasets on its way has
what the server has, or else a change was made after which the page asks once more.

*Notes* (`NoteInv`; 42 829 states). As long as no reply comes after the one of a
later call, the calls made last decide: the last listing asked for is that of the
selected tag, the last note asked for is the selected one, and a listing after which
nothing is written holds the notes of its tag, but for those being deleted. Once
replies have overtaken each other (`InOrder` fails) only what concerns the files is
promised, as in the property.

*Page of local tools* (`FeedInv`; 18 375 677 states). Nothing the page has, shown or in
a listing on its way, is compared with the ledger as a whole: it may lag behind by the
runs of the events that are still in the stream. Of every other entry it has the state,
and it sees the entry or a page full of newer ones. An event on its way is the last of
its entry or is followed by another; merging one keeps the order and what is seen. The
invariant refers to what is filtered and cut by a selection from a sequence (`Only`),
about which `SequenceLemmas` has the facts: the
function that builds the selection is had from counting, for each place that is chosen,
those before it.

*Compositions.* A step of `Workbench` or `Assistant` is a step of one part or
leaves that part's variables alone, and so is a resting part's initial state one
of its own: the lemmas `LettersInWhole`, `SecretsInWhole`, `VectorsInWhole`, `CoreInWhole`,
`ReadsInWhole`, `ServicesInWhole`, `PagesInWhole`, `ObjectsInWhole`, `GateInWhole`,
`GraphInWhole`, `ChatInWhole`, `LensInWhole` and `JobsInWhole` say that the composition implements the
specification of the part, fairness included where the part has it.

*Only model-checked.*
* Liveness (`RunsEnd`, `ReadEnds`, `AllEnd`): fairness and ENABLED are beyond the
  prover.
* `IngestionSound`, the rest of `ChatSound`, and `DatasetCurrent`: chunks, listings, rank fusion
  and messages are computed by folds, whose results need an induction over data.
* `ReadCatchesUp`: which ids a read visits is computed by `SelectSeq`, too.
* The type invariants of the two compositions, whose parts are mostly proved one by one.

## 5. Where code and documentation disagree

Five runs end in a violation and are recorded as findings:

* `store_lost_event`: `docs/memory.md` says every mutation appends to the log.
  The append is a second transaction whose `IntegrityError` reaches the caller
  after the mutation has been committed.
* `store_revived`: an update that has read a memory before it was forgotten
  writes the old status back, so that the memory is active again.
* `sync_torn`: replacement of chunks is documented as atomic; when the embedder
  fails, the old chunks are tombstoned without a successor.
* `sync_stale`: a run that read an old revision and waits for the embedder
  overwrites the newer revision another run has indexed.
* `agent_leftover`: `mark_running_as_interrupted` changes the list it iterates
  over and skips the entry after every one it marks; its docstring says "any
  leftover 'running' events".

Others were met while modelling and can be reproduced by changing constants:

* `PurgesForgotten` (`port.py:109`) fails with two threads that purge and
  approve; `ApprovesPending` (`port.py:69`) with a PATCH and a forget;
  `AnswersActive` (`docs/memory.md:85`) with a search and a forget.
* `SuccessorWritten` fails when the successor's text is a secret: the old memory
  has been superseded by then. `AuditVerifies` fails, without its exception, when a
  restore falls between the two statements of an append.
* `docs/memory.md:107` says "Content is scanned across 7 regex patterns before
  saving". `add` scans; PATCH hands a new `content` (`core/routes.py:442`) to
  `_update`, which writes it as it comes (`sqlite_store.py:414`). `NoSecretStored`
  fails at the first such edit when its exception `leaked` is taken away.
* A PATCH that activates a memory and also carries `entities` approves it,
  then fails, because `entities` is not a patchable column.
* `FailuresQueued` fails with `"chunk"` among the faults: a document that cannot
  be chunked is soft-deleted and not enqueued.
* A run id that is started again after its files have changed takes the recorded
  results by batch number; `CleanReportDelivered` makes the exception explicit.
* The worker writes cursor keys no connector reads, so that a sync is
  incremental, and emits tombstones, only if the caller passes `content_hashes`.
  The tombstone of a deleted file is then parsed and indexed like a document.
* A watch path that is missing yields tombstones for every file of the cursor.
* Nothing executes a proposal after its approval: the statuses `EXECUTED` and
  `FAILED` are never assigned (`core/approvals/models.py:15`, while `README.md:178`
  speaks of adapters that verify approval tokens before proceeding).
* An entry that is marked as interrupted moves to the end of the ledger, so that
  `get_events`, "in reverse chronological order" (`core/agent/activity.py:325`),
  lists it before newer ones, and a full ledger drops newer ones first.

The rest was met in the parts of `Workbench` and `Assistant`. The properties
name these as exceptions, or the models contain them as the behaviour they are.

*Connectors.*
* The guard is checked once, at the start of a read, although its documentation
  asks for a check before any outbound call; the start of an OAuth sign-in and
  the route that tells the mode look at `AIR_GAPPED` only, not at `SOVEREIGN_MODE`.
* Settings that are lists are stored with `str()` and come back garbled; settings
  stored under `<id>_extra` are never loaded.
* With `source_versions` a GitHub read notes the sha it was listed with beside a
  text it fetched later: a file that changes in between, and then back, is skipped
  although the cursor has the other text. `ReadCatchesUp` therefore excludes it
  (`tracks`; it fails with two changes). The worker's final cursor has no
  `content_hashes`, and the SDK no helper for `source_versions`.
* A page of Gmail that fails, and the limits of items and files, turn what was
  not seen into tombstones. The label to read is looked up at each page.
* `app_state.connector_registry` stays empty in the default application, and the
  page says "Sync started" of a report that is `FAILED` (it comes with HTTP 200).
* Manifests with page tokens and a cursor field: `read` has one variable for both
  (`compiler.py:128`, `154` to `167`), so that the token of the second page is also
  sent as its lower bound, and a stored cursor as token of the first page. The
  repository's own manifest (`tests/test_manifest.py:22` to `29`) has an opaque token
  (`cursor_2`, line 100) and gets `modified_at=cursor_2` with it. A source that
  finds nothing by such a bound gives the first page only, and nothing to a read
  that goes on from a stored cursor; one that refuses it ends the read with an
  error (`FirstPageOnly`); one whose tokens are counts and that ignores strange
  values takes no harm in a full read, but a read from a stored cursor gets what is
  not newer, or the same page once more. `WholeListingRead`, `NothingTwice`,
  `OnlyNewer` and `RecordsTold` fail without their exception `Misread`.
* Manifests: the cursor a read ends with is never returned; `token_env_var` is
  never used; a source that caps pages below `page_size` ends page-number and
  offset reads after one page; the text "false" counts as public; `check`
  succeeds on 401 and 404; items without an id all become `unknown_id`.

*Documents and chat.*
* Private mode is documented to skip retrieval from memory and extraction; the
  turn is recorded all the same. `study_ask` and `chat_with_dataset` answer
  `memory_saved: True` also when the log failed, and record the fallback text.
* The chunker's docstring (`chunking.py:37`) and the README of its package (line 6)
  speak of preserving the headings. A chunk of several short sections keeps those of
  its first block (`chunking.py:197` to `202`): the lines of a later section have a
  heading path they are not under. `HeadingsRight` says what is kept.
* A document that is ingested again with fewer paragraphs keeps the last ones of
  before, and its list entry twice; `chat_with_dataset`'s fallback to the store
  includes tombstoned chunks.
* `allowed_users` is not looked at by retrieval, and `deny_rate` is always 0. The
  memory context is put in front after the budget was applied, which drops "the
  chunk with the lowest rerank score" although diversity has reordered them.
* The part of an answer that came before its stream failed is recorded as the answer.

*Vector stores.* Soft deletion, `get_by_document` and `vacuum` of the Qdrant
adapter touch its fallback only, so that deleted documents and the tails of
longer versions stay searchable in Qdrant, although `VectorStorePort` says
"Mark existing chunks for a document as tombstoned"; what was put in the fallback
during an outage is not found once Qdrant answers again. SQLite's `delete` always
answers `True`; its hybrid search ranks an empty text and ignores the sparse
vector; its lexical search lists chunks that score zero. An empty list of groups
in a filter is no filter. The default application uses the memory adapter only.

*Dead-letter queue.* "Trigger reprocessing attempt" only marks the item; the
answer may be "retried" with no item; nothing ever sets `resolved` or `abandoned`.

*Secrets.* A secret written between the SELECT and the UPDATE of a rotation ends
with the wrong data key (`SecretsOpen` excludes it); `tenant_id = $5` never
matches a secret without a tenant, which is counted as rotated; `ON CONFLICT`
never applies to one either, so that it gets several rows; overlapping rotations
may write an older key over a newer one. In `memory.py` two pairs of tenant and
name may share a key.

*Object stores.* Deleting what is not there answers `True` in S3 and `False` in
memory; a listing without a tenant gives bare keys in memory and full ones in S3,
whose listing is its first page only and leaves XML escapes in keys; `exists`
answers `False` on any error. `_sign_headers` encodes the path twice, leaves the
query out and does not sign `host`. A tenant with a slash could share keys.

*Model servers.* A stream without a last marker cannot be told from a whole
answer; after all probes failed the Ollama adapter still calls 127.0.0.1; the
functions of `core/ollama.py` do not look for embedding models, and nobody calls
its stream; with only embedding models installed the route offers one and the
adapter replaces it by a default that is not installed.

*Identity.* Resolving a bare subject, or a token whose lookup fails, replaces the
cached principal by an empty one; the caller's tenant overrides the token's in
the OIDC adapter and only fills a gap in the others; the cache is keyed by subject
alone. With a database `upsert_user` still writes only dictionaries ("Upsert a
user record in the identity database"). The memory adapter adds groups, the
database adapter replaces them. Nobody but tests uses the package.

*Start and MCP.* `lifespan` takes over pipeline, vector store, connectors and
documents of the seeded state and throws away the rest; only `/chat` takes over
the model. Readiness says ready while there is no pipeline. The audit entry of an
rpc call says that there was no error when the tool failed; a `tools/call` whose
parameters are a list answers 500 and is not audited; the audit of
`/mcp/tools/{name}` and of rpc may name another principal than the tool acted
for; an error for a request without an id has none either, which `MCPClient`
cannot read. A search through MCP says "uninitialized" until some route has seeded.

*Approval gate.* The panel of the page sends a JSON body
(`apps/lens/src/lib/api.ts:1114`) to `/approval/decide`, which takes query
parameters (`core/routes.py:2536`): every decision made there is refused, and the
error is ignored. `decide` looks neither at the status nor at the age; an unknown
id is answered as rejected; two proposals of the same second have one id; a
decision whose write failed is undone by a restart, and a restart keeps only what
is pending, in spite of "full auditability".

*Knowledge graph.* `add_node` for a node that is there clears its connections
while its edges stay; a server that starts while the script writes may read an
empty graph, seed it and overwrite the script's; a query around an unknown node
answers with any first nodes; on a fresh disk queries answer from an empty graph
until the next start, because the seeded copy is another one.

*Memory jobs.* `supersede` marks the old memory first: when the new one is then
refused, it has a successor that does not exist (`FactsKept` excludes it); the old
memory leaves retrieval as soon as a pending one replaces it; an extraction may
supersede a memory of the global namespace. A memory the user forgets, pins or
uses between the consolidator's listing and its write is merged or archived
anyway. An error of the duplicate check counts as "not a duplicate".
`archive_importance_threshold` is not used, `scripts/prune_memory.py` uses a
status that does not exist, and nobody but tests calls the consolidator. An
import loses an active memory whose text is there as superseded, and all
links between memories.

*Pages.* When a stream breaks, a simulated answer with invented citations is
appended to what has come; Stop does not end a simulation, and does nothing while
attachments are read, so that two streams may run and the end of the first
forgets the second. An answer that arrives after its dataset or study document
was deleted brings its conversation back; one that arrives after the page was
left is recorded and missing from its box. Two study documents of one millisecond
share an id. Failing writes of localStorage are ignored. Listings that come later
than events wipe them or set a run back to "running"; the page of local tools
drops events while it is paused and does not ask again; its fallback
`/agent/tools` ignores the filter. A failed listing of notes or datasets comes
back as an empty one; `deleteNote` never fails; saving a guide lists the tag of
the click; a note that could not be written is reported as created, and one of
the same second and title replaces another.

Two properties of the pages did not hold of every instance, as the attempts to prove
them found, and say now what the code does. When the last note of an older listing
was found deleted, nothing is selected and the note on its way is shown all the same
(`ShownIsSelected`). With a filter on the status, an entry that no longer matches
leaves a place on a full page that no older entry fills, and an older entry that its
event puts in front may push off one that is not old: `FeedSettles` promises the
newest entries as far as the page was never short of them (TLC finds this with a
page of two and a ledger of three).

## 6. Not modelled, and the plan

The models are complete as far as the table of components says. Left to do:

| order | module | content |
|---|---|---|
| 1 | `MemoryStore` | namespaces, export and import |

Not modelled because no step of theirs depends on another's: prompts, parsers and
the sanitizer, which rewrite text; embedding and reranking adapters, which are
calls that answer freely where they are used; the evaluation harness, which
computes scores; the retriever over older turns; the requests by which OAuth
providers answer; OpenBao, a client of a server; pages that show what one route
answers, and the browser extension; deployment, scripts and the earlier copy of
the core in `src/`.
