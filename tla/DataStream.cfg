SPECIFICATION StreamFairSpec
CONSTANTS
  MaxChunks = 4
  Lossy = TRUE
INVARIANT NothingHeldBack
PROPERTIES ToldOnce StreamEnds ImplementsOrderedStream
\* a stream may end, or lose its end
CHECK_DEADLOCK FALSE
