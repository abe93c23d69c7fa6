SPECIFICATION CongestionFairSpec
CONSTANTS
  Packets = {p1, p2, p3, p4}
  TrialDuration = 4
  TimeoutFactor = 2
  LatMin = 1
  LatMax = 2
  FirstLatency = 2
  MinSamples = 2
  MinSent = 2
  TopLevel = 3
  FirstLevel = 2
  FloorLevel = 2
  Window <- MCWindow
  MaxWindow = 2
PROPERTY EveryPacketAnswered
INVARIANTS CounterExact InFlightBound
\* all packets may have been sent
CHECK_DEADLOCK FALSE
