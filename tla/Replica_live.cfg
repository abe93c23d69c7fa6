SPECIFICATION FairSpec
CONSTANTS
  Process = {p1, p2}
  Instance = {i1}
  NoSig = NoSig
  NoInstance = NoInstance
  ForeignKeys = FALSE
  MaxWritten = 2
  Losses = 1
  Sig <- MCSig
  Batch <- MCBatch
  Budget <- KeptObject
INVARIANT RestingMeansCaughtUp
PROPERTY CatchesUp
