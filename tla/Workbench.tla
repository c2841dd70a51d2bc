------------------------------ MODULE Workbench ------------------------------
(***************************************************************************)
(* What stands around the core, modelled beside each other in one          *)
(* specification: the connectors and their readers, the secrets, the       *)
(* chunker, the queue of failed items, the stores of vectors and objects,  *)
(* the model servers, the identity adapters, the start of the server with  *)
(* its MCP bridge, and the other pages of the user interface.              *)
(*                                                                         *)
(* As in Assistant, no part reads or writes a variable of another, and one *)
(* part runs in a behaviour.  A part that does not run rests in one of its *)
(* initial states.                                                         *)
(***************************************************************************)
EXTENDS RemoteRead, SecretVault, Chunker, DeadLetters, VectorStores, ObjectStores, ModelServers,
        ManifestRead, Identity, McpBridge, LensDatasets, LensNotes, LensFeed, LensStudy

VARIABLE part         \* the part that runs

pages     == <<dsVars, noteVars, lensFeedVars, studyVars>>
stores    == <<secretVars, dlqVars, storeVars, objectVars>>
services  == <<llmVars, identityVars, coreVars>>
ingestion == <<vars, chunkerVars, manifestVars>>

WorkbenchInit ==
  /\ part \in {"read", "secrets", "chunker", "letters", "vectors", "objects", "models", "manifest",
               "identity", "core", "datasets", "notes", "feed", "study"}
  /\ Init /\ (part = "read" \/ (conn = None /\ ~airGapped /\ ~sovereign /\ registry["gmail"] = None))
  /\ LlmInit /\ (part = "models" \/ /\ llmSetting = CHOOSE s \in LlmSettings : TRUE
                                    /\ installed = CHOOSE i \in Installations : TRUE
                                    /\ answering = CHOOSE r \in Reachables : TRUE)
  /\ ManifestInit /\ (part = "manifest" \/ /\ listing = <<>>
                                           /\ manifest = CHOOSE m \in Manifests : TRUE
                                           /\ api = CHOOSE v \in Apis : TRUE
                                           /\ cap = CHOOSE c \in Caps : TRUE)
  /\ IdentityInit /\ (part = "identity" \/ /\ strategy = CHOOSE s \in Strategies : TRUE
                                           /\ userinfo /\ pooled /\ pool = CHOOSE p \in Pools : TRUE)
  /\ McpInit /\ (part = "core" \/ plugins = CHOOSE p \in Plugins : TRUE)
  /\ SecretInit /\ ChunkerInit /\ DeadLettersInit /\ VectorStoresInit /\ ObjectInit
  /\ LensDatasetsInit /\ LensNotesInit /\ LensFeedInit /\ LensStudyInit

Reads    == part = "read" /\ Next /\ UNCHANGED <<part, chunkerVars, manifestVars, stores, services, pages>>
Chunks   == part = "chunker" /\ ChunkerNext /\ UNCHANGED <<part, vars, manifestVars, stores, services, pages>>
Compiled == part = "manifest" /\ ManifestNext /\ UNCHANGED <<part, vars, chunkerVars, stores, services, pages>>

Secrets == part = "secrets" /\ SecretNext
           /\ UNCHANGED <<part, dlqVars, storeVars, objectVars, ingestion, services, pages>>
Letters == part = "letters" /\ DeadLettersNext
           /\ UNCHANGED <<part, secretVars, storeVars, objectVars, ingestion, services, pages>>
Vectors == part = "vectors" /\ VectorStoresNext
           /\ UNCHANGED <<part, secretVars, dlqVars, objectVars, ingestion, services, pages>>
Objects == part = "objects" /\ ObjectNext
           /\ UNCHANGED <<part, secretVars, dlqVars, storeVars, ingestion, services, pages>>

Models     == part = "models" /\ LlmNext /\ UNCHANGED <<part, identityVars, coreVars, ingestion, stores, pages>>
Identities == part = "identity" /\ IdentityNext /\ UNCHANGED <<part, llmVars, coreVars, ingestion, stores, pages>>
CoreRuns   == part = "core" /\ McpNext /\ UNCHANGED <<part, llmVars, identityVars, ingestion, stores, pages>>

DatasetsPage == part = "datasets" /\ LensDatasetsNext
                /\ UNCHANGED <<part, noteVars, lensFeedVars, studyVars, ingestion, stores, services>>
NotesPage    == part = "notes" /\ LensNotesNext
                /\ UNCHANGED <<part, dsVars, lensFeedVars, studyVars, ingestion, stores, services>>
FeedPage     == part = "feed" /\ LensFeedNext
                /\ UNCHANGED <<part, dsVars, noteVars, studyVars, ingestion, stores, services>>
StudyPage    == part = "study" /\ LensStudyNext
                /\ UNCHANGED <<part, dsVars, noteVars, lensFeedVars, ingestion, stores, services>>

WorkbenchNext ==
  \/ Reads \/ Chunks \/ Compiled \/ Secrets \/ Letters \/ Vectors \/ Objects
  \/ Models \/ Identities \/ CoreRuns \/ DatasetsPage \/ NotesPage \/ FeedPage \/ StudyPage

\* Only a read that has begun must go on: nobody else has to act.
Workbench ==
  /\ WorkbenchInit /\ [][WorkbenchNext]_<<part, ingestion, stores, services, pages>>
  /\ WF_vars(ReadStep)

WorkbenchTypeOK ==
  /\ TypeOK /\ SecretTypeOK /\ ChunkerTypeOK /\ DeadLettersTypeOK /\ VectorStoresTypeOK
  /\ ObjectTypeOK /\ LlmTypeOK /\ ManifestTypeOK /\ IdentityTypeOK /\ StartTypeOK /\ McpTypeOK
  /\ LensDatasetsTypeOK /\ LensNotesTypeOK /\ LensFeedTypeOK /\ LensStudyTypeOK

\* What is taken in is whole and in its place: of a document every line in its chunks
\* (chunking.py), of a listing every item in its records (the reader of manifests).
IngestionSound ==
  /\ LinesKept /\ NothingCut /\ HeadingsRight /\ FlagsRight /\ SizeKept /\ OverlapRight
  /\ WholeListingRead /\ FirstPageOnly /\ NothingTwice /\ OnlyNewer /\ RecordsTold

\* Behind each port the adapters keep and answer alike, for the right tenant, although
\* calls overlap, fail or lose their answers (the queue of failed items, the vector stores,
\* the object stores).
StoresSound ==
  /\ RetriesCounted /\ RetryAnswer /\ NewestAreListed /\ DeletedIsGone
  /\ StoresAgree /\ AnswersAgree /\ HybridFull /\ TenantScoped /\ NewestFindable /\ LeftoverIsTail
  /\ ObjectsAlike /\ TenantsApart /\ ObjectAnswersAlike

\* Model servers that come and go are found, asked for a model that can write and heard to
\* the end; and nobody is given what no claim of theirs named, nor keeps what was taken.
ServicesSound ==
  /\ StreamedWhole /\ FirstAnsweringUsed /\ NeverEmbedding /\ OfferedIsUsed
  /\ HomeInScopes /\ AdaptersAgree /\ GroupsWithdrawn /\ GrantsTraced /\ ClaimsAreCurrent

\* Replies, events and the user may overtake each other: once they are through, a page
\* shows what the server has, and every answer stands where its question was asked.
PagesSound ==
  /\ ListingSettles /\ ChosenIsListed /\ AnswersInTheirBox /\ AnswersRecorded
  /\ NoteKept /\ TagIsListed /\ ShownIsSelected /\ FeedSettles /\ ClearedIsGone
  /\ DocIsChosen /\ DocsKept /\ StudyAnswersInTheirBox /\ OrphansAreLateAnswers /\ StudyRecorded

\* What no step of a read or of a rotation may do: read while the server is sovereign or
\* from other places than asked for, leave the cursor behind the source or lose a
\* repository that failed, and leave a secret under a key that was to be replaced.
StepsSound ==
  [][NoReadWhileSovereign /\ SyncUsesSettings /\ ReadCatchesUp /\ FailedRepoKept /\ RotationReachesAll]_
    <<part, ingestion, stores, services, pages>>
==============================================================================
