CONSTANTS
  a1 = a1
  a2 = a2
  lens = lens
  Agents <- TwoAgents
  Replies <- EveryKind
  MaxToolCalls = 1
  Subscribers <- Viewer
  MaxEvents = 2
  QueueSize = 1
  MaxDiskErrors = 1
  MaxUses = 1
  MaxCrashes = 1
SPECIFICATION Spec
INVARIANTS
  TypeOK
  CallsLimited
  ApprovedWithinPolicy
  LedgerSound
PROPERTIES
  DecisionStands
  ApprovedInTime
  RunsEnd
CHECK_DEADLOCK FALSE
