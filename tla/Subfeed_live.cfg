SPECIFICATION FairSpec
CONSTANTS
  Process = {p1, p2}
  Watcher = {w1}
  Instance = {i1, i2}
  NoSig = NoSig
  NoInstance = NoInstance
  ForeignKeys = FALSE
  MaxBatch = 1
  Sig <- MCSig
  Batch <- MCBatch
  Budget <- Recoverable

\* all callers may have ended
CHECK_DEADLOCK FALSE
INVARIANT NoLostWakeup
PROPERTIES CallsComplete MessagesAnnounced
