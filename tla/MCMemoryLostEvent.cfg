CONSTANTS
  t1 = t1
  t2 = t2
  global = global
  c1 = c1
  c2 = c2
  key = key
  Threads <- TwoThreads
  Namespaces <- OneNamespace
  Contents <- TwoContents
  Secrets <- Nothing
  Edits <- WordsOrActivate
  Calls = {"add"}
  MaxCalls = 2
  MaxCrashes = 0
  MaxSeq = 40
SPECIFICATION SpecUsed
INVARIANTS
  AuditComplete
CHECK_DEADLOCK FALSE
