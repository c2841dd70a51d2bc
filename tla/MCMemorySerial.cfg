CONSTANTS
  t1 = t1
  t2 = t2
  global = global
  c1 = c1
  c2 = c2
  key = key
  Threads <- OneThread
  Namespaces <- OneNamespace
  Contents <- TwoContents
  Secrets <- Nothing
  Edits <- WordsOrActivate
  Calls = {"supersede", "patch", "forget", "purge", "search", "backup", "restore"}
  MaxCalls = 3
  MaxCrashes = 0
  MaxSeq = 40
SPECIFICATION SpecUsed
INVARIANTS
  SerialSound
PROPERTIES
  StatusesSound
CHECK_DEADLOCK FALSE
