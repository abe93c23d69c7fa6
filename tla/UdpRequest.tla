----------------------------- MODULE UdpRequest -----------------------------
(***************************************************************************)
(* A request from a client node to a server node over udp, and the         *)
(* response.  A message is cut into packets; a packet is sent as a         *)
(* datagram, and by a request over http or a websocket (the fallback) if   *)
(* no confirmation comes in time.  The receiver drops packets it has seen, *)
(* collects the parts of a message and handles it when all have come.      *)
(*                                                                         *)
(* The congestion manager is taken as a queue of any order, see            *)
(* UdpCongestionManager for its accounting.  Packet <<m, i>> is part i of  *)
(* message m.                                                              *)
(***************************************************************************)
EXTENDS Integers, FiniteSets

CONSTANTS
  Parts,       \* how many packets each of the two messages has
  WebFails     \* the fallback may fail

ASSUME RequestAssumption ==
  /\ Parts \in [{"request", "response"} -> Nat \ {0}]
  /\ WebFails \in BOOLEAN

Message == {"request", "response"}
PacketsOf(m) == {<<m, i>> : i \in 1..Parts[m]}
Packet == UNION {PacketsOf(m) : m \in Message}

VARIABLES
  out,       \* of each packet: how far its sender has got
  net,       \* datagrams sent so far: any of them may arrive again, or never
  web,       \* fallback requests on their way, and the answers to them
  seen,      \* #receivedUdpPackets
  parts,     \* the keys of #messageParts
  handled,   \* how often each message was handled
  sending,   \* of each message: the call of sendPackets
  known,     \* the server has seen a datagram: #remoteAddressesByNodeId
  client     \* sendRequest: "idle", "waiting", "resolved", "rejected"

vars == <<out, net, web, seen, parts, handled, sending, known, client>>

\* "queued" in the congestion manager, "udp" until a confirmation, an error or
\* a timeout, "fallback" until the answer to fallbackUdpPacket
Stage == {"new", "queued", "udp", "fallback", "done", "failed"}

Data(p) == [type |-> "data", packet |-> p]
Confirmation(p) == [type |-> "confirmation", packet |-> p]
FallbackRequest(p) == [type |-> "fallbackUdpPacket", packet |-> p]
FallbackAnswer(p) == [type |-> "success", packet |-> p]

Init ==
  /\ out = [p \in Packet |-> "new"]
  /\ net = {}
  /\ web = {}
  /\ seen = {}
  /\ parts = {}
  /\ handled = [m \in Message |-> 0]
  /\ sending = [m \in Message |-> "no"]
  /\ known = FALSE
  /\ client = "idle"

receiverVars == <<seen, parts, handled, known>>

-----------------------------------------------------------------------------
(* UdpPacketSender.                                                        *)

\* sendPackets; without an address every packet takes the fallback
SendPackets(m, addressKnown) ==
  /\ sending' = [sending EXCEPT ![m] = "sending"]
  /\ out' = [p \in Packet |->
               IF p \notin PacketsOf(m) THEN out[p]
               ELSE IF addressKnown THEN "queued" ELSE "fallback"]
  /\ web' = IF addressKnown THEN web
            ELSE web \cup {FallbackRequest(p) : p \in PacketsOf(m)}

\* the congestion manager has room
TrySend(p) ==
  /\ out[p] = "queued"
  /\ out' = [out EXCEPT ![p] = "udp"]
  /\ net' = net \cup {Data(p)}
  /\ UNCHANGED <<web, receiverVars, sending, client>>

\* mutant of FallbackSendPacket: a packet waits for its confirmation
NoFallback(p) == FALSE /\ UNCHANGED vars

\* no confirmation in time, or an error of the socket: _fallbackSendPacket
FallbackSendPacket(p) ==
  /\ out[p] = "udp"
  /\ out' = [out EXCEPT ![p] = "fallback"]
  /\ web' = web \cup {FallbackRequest(p)}
  /\ UNCHANGED <<net, receiverVars, sending, client>>

\* receivePacketConfirmation; too late or twice, it does nothing
ReceiveConfirmation(p) ==
  /\ Confirmation(p) \in net
  /\ out[p] = "udp"
  /\ out' = [out EXCEPT ![p] = "done"]
  /\ UNCHANGED <<net, web, receiverVars, sending, client>>

ReceiveFallbackAnswer(p) ==
  /\ FallbackAnswer(p) \in web
  /\ web' = web \ {FallbackAnswer(p)}
  /\ out' = [out EXCEPT ![p] = IF @ = "fallback" THEN "done" ELSE @]
  /\ UNCHANGED <<net, receiverVars, sending, client>>

\* the fallback request times out or fails, whatever became of it
FallbackFails(p) ==
  /\ WebFails
  /\ out[p] = "fallback"
  /\ out' = [out EXCEPT ![p] = "failed"]
  /\ \E lost \in SUBSET {FallbackRequest(p), FallbackAnswer(p)} :
       web' = web \ lost
  /\ UNCHANGED <<net, receiverVars, sending, client>>

SendPacketsResolves(m) ==
  /\ sending[m] = "sending"
  /\ \A p \in PacketsOf(m) : out[p] = "done"
  /\ sending' = [sending EXCEPT ![m] = "sent"]
  /\ UNCHANGED <<out, net, web, receiverVars, client>>

\* the first packet that is not done has failed.  cancel() makes the packets
\* under way as datagrams fail, and a packet that fails takes the fallback;
\* the packets in the queue are sent later
SendPacketsRejects(m) ==
  LET cancelled == {p \in PacketsOf(m) : out[p] = "udp"}
  IN  /\ sending[m] = "sending"
      /\ \E i \in 1..Parts[m] :
           /\ out[<<m, i>>] = "failed"
           /\ \A j \in 1..(i - 1) : out[<<m, j>>] = "done"
      /\ sending' = [sending EXCEPT ![m] = "failed"]
      /\ out' = [p \in Packet |-> IF p \in cancelled THEN "fallback" ELSE out[p]]
      /\ web' = web \cup {FallbackRequest(p) : p \in cancelled}
      /\ client' = IF m = "request" /\ client = "waiting"
                   THEN "rejected" ELSE client
      /\ UNCHANGED <<net, receiverVars>>

-----------------------------------------------------------------------------
(* The receiver: _receiveUdpPacket and addMessagePart.                     *)

\* mutant of Accept: packets are not checked for duplicates
AcceptAgain(p) ==
  LET m    == p[1]
      have == parts \cup {p}
      complete == PacketsOf(m) \subseteq have
  IN  /\ seen' = seen \cup {p}
      /\ parts' = IF complete THEN have \ PacketsOf(m) ELSE have
      /\ handled' = IF complete THEN [handled EXCEPT ![m] = @ + 1] ELSE handled
      /\ client' = IF complete /\ m = "response" /\ client = "waiting"
                   THEN "resolved" ELSE client

\* a response is for the listener of the request, if it still waits
Accept(p) ==
  IF p \in seen
  THEN UNCHANGED <<seen, parts, handled, client>>
  ELSE LET m    == p[1]
           have == parts \cup {p}
           complete == PacketsOf(m) \subseteq have
       IN  /\ seen' = seen \cup {p}
           /\ parts' = IF complete THEN have \ PacketsOf(m) ELSE have
           /\ handled' = IF complete THEN [handled EXCEPT ![m] = @ + 1]
                                     ELSE handled
           /\ client' = IF complete /\ m = "response" /\ client = "waiting"
                        THEN "resolved" ELSE client

\* a datagram is confirmed at once, known or not
ReceiveDatagram(p) ==
  /\ Data(p) \in net
  /\ net' = net \cup {Confirmation(p)}
  /\ Accept(p)
  /\ known' = (known \/ (p[1] = "request" /\ p \notin seen))
  /\ UNCHANGED <<out, web, sending>>

\* handleFallbackUdpPacketRequest
ReceiveFallback(p) ==
  /\ FallbackRequest(p) \in web
  /\ web' = (web \ {FallbackRequest(p)}) \cup {FallbackAnswer(p)}
  /\ Accept(p)
  /\ UNCHANGED <<out, net, sending, known>>

-----------------------------------------------------------------------------
(* sendRequest, and the handler of the request.                            *)

SendRequest ==
  /\ client = "idle"
  /\ client' = "waiting"
  /\ SendPackets("request", TRUE)
  /\ UNCHANGED <<net, receiverVars>>

\* checkTimeout
RequestTimesOut ==
  /\ client = "waiting"
  /\ client' = "rejected"
  /\ UNCHANGED <<out, net, web, receiverVars, sending>>

\* handleNodeToNodeRequest is done; it may also fail, and then says nothing
SendResponse ==
  /\ handled["request"] > 0
  /\ sending["response"] = "no"
  /\ SendPackets("response", known)
  /\ UNCHANGED <<net, receiverVars, client>>

-----------------------------------------------------------------------------
PacketStep(p) ==
  \/ TrySend(p)
  \/ FallbackSendPacket(p)
  \/ ReceiveConfirmation(p)
  \/ ReceiveFallbackAnswer(p)
  \/ FallbackFails(p)
  \/ ReceiveDatagram(p)
  \/ ReceiveFallback(p)

Next ==
  \/ \E p \in Packet : PacketStep(p)
  \/ \E m \in Message : SendPacketsResolves(m) \/ SendPacketsRejects(m)
  \/ SendRequest
  \/ RequestTimesOut
  \/ SendResponse

Spec == Init /\ [][Next]_vars

\* timers fire, and a fallback request is answered or fails; datagrams need
\* not arrive
FairSpec ==
  /\ Spec
  /\ \A p \in Packet : /\ WF_vars(TrySend(p))
                       /\ WF_vars(FallbackSendPacket(p))
                       /\ WF_vars(ReceiveFallback(p))
                       /\ WF_vars(ReceiveFallbackAnswer(p))
  /\ \A m \in Message :
       WF_vars(SendPacketsResolves(m) \/ SendPacketsRejects(m))

-----------------------------------------------------------------------------
(* Type invariant of the module.                                           *)
RequestTypeOK ==
  /\ out \in [Packet -> Stage]
  /\ net \subseteq {Data(p) : p \in Packet} \cup {Confirmation(p) : p \in Packet}
  /\ web \subseteq {FallbackRequest(p) : p \in Packet}
                     \cup {FallbackAnswer(p) : p \in Packet}
  /\ parts \subseteq seen /\ seen \subseteq Packet
  /\ \A m \in Message : ~(PacketsOf(m) \subseteq parts)
  /\ handled \in [Message -> Nat]
  /\ sending \in [Message -> {"no", "sending", "sent", "failed"}]
  /\ known \in BOOLEAN
  /\ client \in {"idle", "waiting", "resolved", "rejected"}

(* Although a packet may arrive as a datagram, again as its duplicate, and *)
(* over the fallback, no message is handled twice.                         *)
HandledOnce == \A m \in Message : handled[m] <= 1

(* When sendPackets is done (UdpPacketSender.ts:70), the receiver has      *)
(* handled the message.                                                    *)
SentMeansHandled ==
  \A m \in Message : sending[m] = "sent" => handled[m] = 1

(* A message whose datagrams or confirmations are lost is handled all the  *)
(* same, or its sender learns that the fallback failed too: no message is  *)
(* lost in silence, and sendPackets does not wait for ever.                *)
DeliveredOrRejected ==
  \A m \in Message :
    sending[m] = "sending" ~> sending[m] = "failed"
                               \/ (sending[m] = "sent" /\ handled[m] = 1)

Call == INSTANCE RemoteCall WITH executed <- handled["request"], outcome <- client

(* The request is a RemoteCall.                                            *)
ImplementsRemoteCall == Call!Spec

=============================================================================
