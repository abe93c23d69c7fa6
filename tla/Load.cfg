SPECIFICATION FairSpec
CONSTANTS
  NumChunks = 2
  Whole = Whole
  Manifest = Manifest
  None = None
  Load = {r1}
  Local = {c1}
  Caller = {r1, c1}
  MaxFaults = 3
INVARIANTS PutWhole ChunksThereToConcatenate
PROPERTIES NeverReplaced ImplementsFileLoad LoadEnds
\* a load may be over while a stream hangs
CHECK_DEADLOCK FALSE
