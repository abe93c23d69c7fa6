SPECIFICATION Spec
CONSTANTS
  Process = {p1, p2}
  Instance = {i1, i2}
  NoSig = NoSig
  NoInstance = NoInstance
  ForeignKeys = FALSE
  MaxWritten = 1
  Losses = 1
  Sig <- MCSig
  Batch <- MCBatch
  Budget <- AllFaults
SYMMETRY Symmetric
\* the writer may have no more to say
CHECK_DEADLOCK FALSE
INVARIANTS CopyOfWriter LocalCountStable
