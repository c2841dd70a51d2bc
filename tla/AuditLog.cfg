CONSTANTS
  Threads = {t1, t2, t3}
  Entries = {created, forgotten}
  MaxSeq = 4
SPECIFICATION Spec
INVARIANTS
  TypeOK
  ChainVerifies
  NoGaps
  TamperEvident
PROPERTIES
  RowsImmutable
  ImplementsTrail
