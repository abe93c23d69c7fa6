SPECIFICATION Spec
CONSTANTS
  NumChunks = 1
  Whole = Whole
  Manifest = Manifest
  None = None
  Load = {r1}
  Local = {c1}
  Caller = {r1, c1}
  MaxFaults = 1
INVARIANT InPlaceMeansWhole
CHECK_DEADLOCK FALSE
