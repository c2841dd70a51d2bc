CONSTANTS
  r1 = r1
  r2 = r2
  f1 = f1
  f2 = f2
  p1 = p1
  p2 = p2
  payload = payload
  Runs <- TwoRuns
  Files <- OneFile
  Texts <- Small
  Remains <- Body
  Cursors <- NoCursor
  BatchSize = 1
  Faults = {}
  MaxTries = 1
  MaxEdits = 1
  MaxFaults = 0
SPECIFICATION Spec
PROPERTIES
  NewestStays
CHECK_DEADLOCK FALSE
