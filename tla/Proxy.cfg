SPECIFICATION FairSpec
CONSTANTS
  Conn = {k1, k2}
  None = None
  MaxChunks = 2
  Breaks = 1
INVARIANT OneConnection
PROPERTIES ProxiedCall ProxiedStream Reconnects ProxyStreamEnds
\* nodes that are connected may have nothing to say
CHECK_DEADLOCK FALSE
