CONSTANTS
  r1 = r1
  r2 = r2
  f1 = f1
  f2 = f2
  p1 = p1
  p2 = p2
  payload = payload
  Runs <- TwoRuns
  Files <- OneFile
  Texts <- Small
  Remains <- Body
  Cursors <- NoCursor
  BatchSize = 1
  Faults = {"embed"}
  MaxTries = 1
  MaxEdits = 1
  MaxFaults = 1
SPECIFICATION Spec
INVARIANTS
  WholeDocuments
CHECK_DEADLOCK FALSE
