CONSTANTS
  a1 = a1
  a2 = a2
  lens = lens
  Agents <- TwoAgents
  Replies <- OnlyReads
  MaxToolCalls = 1
  Subscribers <- Nobody
  MaxEvents = 2
  QueueSize = 1
  MaxDiskErrors = 0
  MaxUses = 0
  MaxCrashes = 1
SPECIFICATION Spec
INVARIANTS
  RunningIsUnderWay
CHECK_DEADLOCK FALSE
