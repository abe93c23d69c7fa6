SPECIFICATION FairSpec
CONSTANTS
  Boot = {b}
  Peer = {p}
  Joined = {p}
  HasUdp = TRUE
  Addresses = {"none", "udp"}
  Lifetime = 1
  None = None
  MaxRequests = 1
INVARIANTS NodesTypeOK
PROPERTIES InfoNeverOlder PeersFound GoneForgotten
