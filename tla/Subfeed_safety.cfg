SPECIFICATION Spec
CONSTANTS
  Process = {p1, p2, p3}
  Watcher = {}
  Instance = {i1, i2}
  NoSig = NoSig
  NoInstance = NoInstance
  ForeignKeys = FALSE
  MaxBatch = 2
  Sig <- MCSig
  Batch <- MCBatch
  Budget <- AllFaults
SYMMETRY Symmetric
\* all callers may have ended
CHECK_DEADLOCK FALSE
INVARIANTS WritersHoldLock MemoryMatchesUnlessDropped DatabaseReadable
PROPERTY ImplementsFeedLog
