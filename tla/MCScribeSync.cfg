CONSTANTS
  r1 = r1
  r2 = r2
  f1 = f1
  f2 = f2
  p1 = p1
  p2 = p2
  payload = payload
  Runs <- TwoRuns
  Files <- TwoFiles
  Texts <- Small
  Remains <- Body
  Cursors <- HalfCursor
  BatchSize = 1
  Faults = {"scan", "read", "parse", "embed", "soft_delete", "upsert", "crash"}
  MaxTries = 2
  MaxEdits = 1
  MaxFaults = 1
SYMMETRY Symmetry
SPECIFICATION Spec
INVARIANTS
  TypeOK
  IndexSound
  ReportsSound
CHECK_DEADLOCK FALSE
