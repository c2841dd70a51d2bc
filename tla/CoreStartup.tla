------------------------------- MODULE CoreStartup -------------------------------
(***************************************************************************)
(* How the server gets its state: create_app and its lifespan (app.py),    *)
(* the seeded state it copies from (bootstrap.py), the adapter registry    *)
(* (registry.py), the routes that make up for a start that failed, and the *)
(* readiness check (routes.py).                                            *)
(*                                                                         *)
(* Building the seeded state never waits, so it is one step.  A vector     *)
(* store is known by its number, and a pipeline by the store it searches;  *)
(* documents are values.  What a search ranks is the matter of ChatStream; *)
(* here it finds all its store has.                                        *)
(***************************************************************************)
EXTENDS Values, FiniteSets

CONSTANTS
  Plugins,            \* [overrides, entries, modules]: what can be discovered
  Initial, Uploads,   \* documents: those of the seed, and those that are brought later
  MaxServerStarts, MaxIngests, MaxStartErrors,   \* bounds,
  MaxDown             \* the last on the services that are down at a time

VARIABLES
  plugins, down,      \* the environment: what is installed, and the services that are down
  serverPc,           \* "down", "created" or "up"
  app,                \* the CoreState the routes use
  contents,           \* the documents of each vector store of the process
  response,           \* the answer to the last request: [kind, ok, found]
  serverStarts, ingests, startErrors,
  brought             \* history: the documents taken in since the start

startVars == <<plugins, down, serverPc, app, contents, response, serverStarts, ingests, startErrors, brought>>

Standard == {"local_filesystem", "github", "gmail"}
Services == {"vector_store", "embedder", "reranker", "llm"}

ASSUME StartAssumption ==
  /\ {MaxServerStarts, MaxIngests, MaxStartErrors, MaxDown} \subseteq Nat /\ None \notin Nat
  /\ \A p \in Plugins : p.modules \subseteq Standard
  /\ Initial \cap Uploads = {}

------------------------------------------------------------------------------
(* The registry and the discovery. *)

list_adapters == DOMAIN plugins.overrides \cup DOMAIN plugins.entries

\* Mutant of resolve_adapter: what is installed wins over what was registered.
resolve_adapter_Installed(name) ==
  IF name \in DOMAIN plugins.entries THEN plugins.entries[name] ELSE plugins.overrides[name]

\* Registered classes come first.  The value tells whether the class can be built.
resolve_adapter(name) ==
  IF name \in DOMAIN plugins.overrides THEN plugins.overrides[name] ELSE plugins.entries[name]

Discovered == {name \in list_adapters : resolve_adapter(name)}

discover_connectors == Discovered \cup plugins.modules

------------------------------------------------------------------------------
(* The state. *)

Fresh == Len(contents) + 1
NoApp == [pipeline |-> None, store |-> 0, connectors |-> {}, resources |-> {}, llm |-> FALSE]
NoResponse == [kind |-> "none", ok |-> TRUE, found |-> {}]

\* Mutant of Seeded: the store is not taken over with its pipeline.
Seeded_OwnStore == [app EXCEPT !.pipeline = Fresh, !.connectors = discover_connectors, !.resources = Initial]

\* What the application takes from the seeded state: not its registry, model or memory.
Seeded ==
  [app EXCEPT !.pipeline = Fresh, !.store = Fresh,
              !.connectors = discover_connectors, !.resources = Initial]

StartInit ==
  /\ plugins \in Plugins /\ down = {}
  /\ serverPc = "down" /\ app = NoApp /\ contents = <<>> /\ response = NoResponse
  /\ serverStarts = 0 /\ ingests = 0 /\ startErrors = 0 /\ brought = {}

\* The process starts: the module builds the application with a state of its own, or a
\* caller gives it one, with a pipeline over the same store or without.
create_app ==
  /\ serverPc = "down" /\ serverStarts < MaxServerStarts
  /\ \E given \in {"none", "pipeline"} :
       app' = [NoApp EXCEPT !.store = 1, !.pipeline = IF given = "pipeline" THEN 1 ELSE None,
                            !.llm = (given = "pipeline")]
  /\ contents' = <<{}>> /\ serverPc' = "created" /\ serverStarts' = serverStarts + 1
  /\ response' = NoResponse /\ brought' = {}
  /\ UNCHANGED <<plugins, down, ingests, startErrors>>

\* Building the seeded state fails, and what it had stored is garbage.
InitFails == startErrors < MaxStartErrors /\ startErrors' = startErrors + 1

\* The application serves even if its initialisation failed.
lifespan ==
  /\ serverPc = "created" /\ serverPc' = "up"
  /\ \/ app.pipeline # None /\ UNCHANGED <<app, contents, startErrors>>
     \/ app.pipeline = None /\ app' = Seeded /\ contents' = Append(contents, Initial) /\ UNCHANGED startErrors
     \/ app.pipeline = None /\ InitFails /\ UNCHANGED <<app, contents>>
  /\ UNCHANGED <<plugins, down, response, serverStarts, ingests, brought>>

Crash ==
  /\ serverPc # "down" /\ serverPc' = "down"
  /\ app' = NoApp /\ contents' = <<>> /\ response' = NoResponse /\ brought' = {}
  /\ UNCHANGED <<plugins, down, serverStarts, ingests, startErrors>>

\* A service that the state uses comes or goes.
ServiceFlips ==
  /\ serverPc = "up"
  /\ \E s \in Services : down' = IF s \in down THEN down \ {s} ELSE down \cup {s}
  /\ Cardinality(down') <= MaxDown
  /\ response' = NoResponse
  /\ UNCHANGED <<plugins, serverPc, app, contents, serverStarts, ingests, startErrors, brought>>

------------------------------------------------------------------------------
(* Requests. *)

NeedsSeed == app.pipeline = None

\* A route without a pipeline seeds the state first; if that fails, so does the request.
Ensured == IF NeedsSeed THEN Seeded ELSE app
StoresThen == IF NeedsSeed THEN Append(contents, Initial) ELSE contents

RequestErrs(kind) ==
  /\ serverPc = "up" /\ NeedsSeed /\ InitFails
  /\ response' = [kind |-> kind, ok |-> FALSE, found |-> {}]
  /\ UNCHANGED <<plugins, down, serverPc, app, contents, serverStarts, ingests, brought>>

\* The chat takes over the model, too, if there is none.
search(kind) ==
  /\ serverPc = "up"
  /\ app' = [Ensured EXCEPT !.llm = @ \/ (kind = "chat" /\ NeedsSeed)]
  /\ contents' = StoresThen
  /\ response' = [kind |-> kind, ok |-> TRUE, found |-> StoresThen[Ensured.pipeline]]
  /\ UNCHANGED <<plugins, down, serverPc, serverStarts, ingests, startErrors, brought>>

ingest_document(doc) ==
  /\ serverPc = "up" /\ ingests < MaxIngests
  /\ app' = [Ensured EXCEPT !.resources = @ \cup {doc}]
  /\ contents' = [StoresThen EXCEPT ![Ensured.store] = @ \cup {doc}]
  /\ response' = [kind |-> "ingest", ok |-> TRUE, found |-> {doc}]
  /\ ingests' = ingests + 1 /\ brought' = brought \cup {doc}
  /\ UNCHANGED <<plugins, down, serverPc, serverStarts, startErrors>>

\* The services that have to answer: those of the pipeline only if there is one, and the
\* model never.
Needed == {"vector_store"} \cup (IF app.pipeline = None THEN {} ELSE {"embedder", "reranker"})

perform_readiness_check ==
  /\ serverPc = "up"
  /\ response' = [kind |-> "readiness", ok |-> Needed \cap down = {}, found |-> {}]
  /\ UNCHANGED <<plugins, down, serverPc, app, contents, serverStarts, ingests, startErrors, brought>>

\* /readyz and /health look at nothing.
legacy_readiness_check ==
  /\ serverPc = "up"
  /\ response' = [kind |-> "readyz", ok |-> TRUE, found |-> {}]
  /\ UNCHANGED <<plugins, down, serverPc, app, contents, serverStarts, ingests, startErrors, brought>>

StartNext ==
  \/ create_app \/ lifespan \/ Crash \/ ServiceFlips
  \/ \E kind \in {"search", "chat", "ingest"} : RequestErrs(kind)
  \/ \E kind \in {"search", "chat"} : search(kind)
  \/ \E doc \in Uploads : ingest_document(doc)
  \/ perform_readiness_check \/ legacy_readiness_check

StartSpec == StartInit /\ [][StartNext]_startVars

------------------------------------------------------------------------------

\* A pipeline is there with its store, and what the process serves from exists.
StartTypeOK ==
  /\ serverPc \in {"down", "created", "up"} /\ down \subseteq Services
  /\ serverPc # "down" => app.store \in DOMAIN contents
  /\ app.pipeline # None => app.pipeline \in DOMAIN contents
  /\ app.resources \subseteq Initial \cup Uploads

\* Whenever the initialisation happens, at the start or with the first request, the
\* store that documents are written to is the one that is searched, and every document
\* that is listed is in it (lifespan; the first lines of search, chat, ingest, upload).
ListedIsSearchable ==
  app.pipeline # None =>
    /\ app.store = app.pipeline
    /\ app.resources \subseteq contents[app.pipeline]

\* What was taken in is not lost by an initialisation that comes later.
BroughtIsKept ==
  brought \subseteq app.resources /\ (brought # {} => brought \subseteq contents[app.store])

\* A plugin that cannot be built takes away no connector that comes with the program,
\* and a class that was registered is the one that counts (discover_connectors).
BuiltInsOffered ==
  app.connectors # {} =>
    /\ plugins.modules \subseteq app.connectors
    /\ \A name \in DOMAIN plugins.overrides \ plugins.modules :
         name \in app.connectors <=> plugins.overrides[name]

\* A server that says it is ready has answers from all its pipeline uses, and one that
\* says it is not has a service down (perform_readiness_check).
ReadyCanAnswer ==
  response.kind = "readiness" =>
    /\ response.ok /\ app.pipeline # None => down \subseteq {"llm"}
    /\ ~response.ok => down # {}
==============================================================================
