CONSTANTS
  \* The connectors and their readers
  p1 = p1
  p2 = p2
  a = a
  b = b
  None = None
  Tokens = {t1, t2}
  StateIds = {s1, s2}
  Callbacks = {h1, h2}
  Settings <- Both
  Defaults <- Usual
  Junk = nowhere
  MaxRequests = 2
  Places <- TwoPlaces
  Branches <- TwoBranches
  Names <- TwoNames
  Contents <- Three
  MaxVersion = 2
  Unusable = {2}
  MaxItems = 1
  PageSize = 1
  MaxChanges = 1
  MaxSyncs = 2
  \* Secrets
  v1 = v1
  v2 = v2
  SecretNames = {k1}
  SecretTenants = {ta}
  Setters = {v1, v2}
  Rotators = {r1, r2}
  MaxSets = 2
  MaxKeys = 3
  MaxRotations = 2
  \* The chunker
  LineLength <- Lengths
  MaxChunkSize = 4
  ChunkOverlap = 2
  MaxLines = 5
  \* The dead-letter queue
  FailedIds = {f1, f2}
  FailedSources = {fs1, fs2}
  DlqCallers = {c1, c2}
  MaxDlqCalls = 5
  \* Vector stores
  tv1 = tv1
  tv2 = tv2
  gr1 = gr1
  gr2 = gr2
  x1 = x1
  x2 = x2
  x3 = x3
  x4 = x4
  StoreDocs <- TwoStoreDocs
  DocTenant <- DocOwners
  DocGroups <- GroupsFor
  Similar <- Similarities
  Overlapping <- Overlaps
  Batches <- SomeBatches
  StoreFilters <- SomeFilters
  MaxTopK = 2
  MaxStoreCalls = 3
  MaxStoreClock = 2
  MaxOutages = 1
  \* Object stores
  ObjectKeys <- SomeKeys
  ListPrefixes <- SomePrefixes
  ObjectTenants = {"t1", "t2"}
  ObjectContents = {"x", "y"}
  ListLimit = 1
  MaxObjectCalls = 3
  \* Model servers
  LlmSettings <- SomeLlmSettings
  LlmModels = {"llama", "qwen", "bge", "gpt"}
  Embedders = {"bge"}
  Installations <- SomeInstallations
  Reachables <- SomeReachables
  MaxStreamLines = 2
  MaxLlmCalls = 2
  MaxFlips = 1
  \* Compiled manifests
  Manifests <- SomeManifests
  Apis <- SomeApis
  Caps = {1, 3}
  Shapes <- SomeShapes
  FirstSizes = {0, 4}
  MaxEdits = 2
  MaxReads = 1
  \* Identity
  OpaqueTokens = {"ann", "opaque"}
  TokenClaims <- SomeClaims
  Tenants = {"t1", "t2"}
  GivenGroups <- SomeGroups
  GivenScopes <- SomeScopes
  Pools <- SomePools
  Strategies = {"auto", "keycloak"}
  MaxIdentityCalls = 3
  \* The start of the server, and MCP
  Plugins <- SomePlugins
  Initial = {"seed"}
  Uploads = {"doc"}
  MaxDown = 1
  MaxServerStarts = 1
  MaxIngests = 1
  MaxStartErrors = 1
  ToolSets = {{"aegismind_search"}, {"aegismind_search", "write_note"}}
  AllowedActions = {"aegismind_search"}
  MaxMcpCalls = 2
  \* Pages: datasets
  Datasets = {d1, d2}
  PageLimit = 1
  MaxActs = 3
  MaxLeaves = 1
  MaxLost = 1
  MaxOnTheWay = 2
  \* Pages: notes
  Titles = {w1}
  Tags = {t1}
  MaxClock = 2
  MaxNoteActs = 3
  MaxNoteCalls = 2
  MaxNoteErrors = 1
  \* Pages: local tools
  ToolKinds = {"notes"}
  FeedFilters <- SomeFeedFilters
  FeedLimit = 1
  FeedCap = 2
  FeedKeep = 2
  MaxToolRuns = 2
  MaxFeedActs = 1
  MaxFeedErrors = 1
  \* Pages: study
  Files = {"f1", "f2"}
  MaxMs = 1
  MaxAsked = 2
  MaxAway = 1
  MaxStoreErrors = 1
SPECIFICATION Workbench
INVARIANTS
  WorkbenchTypeOK
  ConnectorsSound
  SecretsSound
  IngestionSound
  StoresSound
  ServicesSound
  CoreSound
  PagesSound
PROPERTIES
  StepsSound
  ActsLikeMemory
  ReadEnds
CHECK_DEADLOCK FALSE
