CONSTANTS
  t1 = t1
  t2 = t2
  global = global
  c1 = c1
  c2 = c2
  key = key
  Threads <- TwoThreads
  Namespaces <- OneNamespace
  Contents <- TwoAndKey
  Secrets <- OnlyKey
  Edits <- EveryEdit
  Calls = {"add", "supersede", "patch", "approve", "reject", "forget", "pin", "touch", "purge", "search", "backup", "restore"}
  MaxCalls = 2
  MaxCrashes = 1
  MaxSeq = 40
SYMMETRY Symmetry
SPECIFICATION SpecUsed
INVARIANTS
  TypeOK
  RecordsSound
PROPERTIES
  PinsKept
CHECK_DEADLOCK FALSE
