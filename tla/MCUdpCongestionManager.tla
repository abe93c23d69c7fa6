----------------------- MODULE MCUdpCongestionManager -----------------------
(* Small instances of UdpCongestionManager: windows of 1 or 2 packets.    *)
EXTENDS UdpCongestionManager

\* level times latency, a third of it, rounded up
MCWindow(lv, lat) == (lv * lat + 2) \div 3

=============================================================================
