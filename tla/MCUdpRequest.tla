----------------------------- MODULE MCUdpRequest ---------------------------
(* Small instances of UdpRequest.                                          *)
EXTENDS UdpRequest

TwoAndTwo == [m \in Message |-> 2]

=============================================================================
