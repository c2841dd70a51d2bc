CONSTANTS
  d1 = d1
  d2 = d2
  g = g
  x = x
  y = y
  z = z
  ta = ta
  tb = tb
  i1 = i1
  i2 = i2
  q1 = q1
  q2 = q2
  None = None
  Docs <- TwoDocs
  Synced <- OneSynced
  Texts <- ThreeTexts
  Tenants <- TwoTenants
  Uploads <- SomeUploads
  Seeded <- SeedChunks
  Ingests <- TwoIngests
  MaxWrites = 2
  Dense <- DenseScores
  Lexical <- LexicalScores
  Rerank <- RerankScores
  Jaccard <- JaccardScores
  Size <- Sizes
  Window = 3
  Slots <- OneSlot
  MaxTop = 2
  MaxTokens = 1
  MaxAsked = 1
  ExpirySeconds = 1
  MaxSecond = 3
  MaxProposals = 3
  MaxGateErrors = 1
  n1 = n1
  n2 = n2
  n3 = n3
  n4 = n4
  n5 = n5
  Nodes <- FiveNodes
  Default <- DefaultOps
  Script <- ScriptOps
  MaxStarts = 3
  MaxGraphErrors = 1
  MaxSends = 2
  MaxWords = 1
  SimulatedWords = 1
  MaxExchanges = 1
  MaxVisits = 1
  gl = gl
  ch = ch
  fa = fa
  fb = fb
  fc = fc
  fs = fs
  Global = gl
  JobSpaces <- TwoSpaces
  Stored <- ThreeMemos
  Found <- Answers
  SecretFacts <- SecretOnes
  Alike <- AlikeTexts
  Near <- NearTexts
  MaxMemos = 7
  MaxJobRuns = 2
  MaxJobErrors = 1
  MaxUserCalls = 1
SPECIFICATION Assistant
INVARIANTS
  AssistantTypeOK
  ChatSound
  GateSound
  GraphSound
  LensSound
  JobsSound
PROPERTIES
  StepsSound
  AllEnd
CHECK_DEADLOCK FALSE
