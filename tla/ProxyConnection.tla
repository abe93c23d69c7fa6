--------------------------- MODULE ProxyConnection ---------------------------
(***************************************************************************)
(* Websocket connections between a node (the client) and the node that is  *)
(* its proxy (the server): ProxyClientService keeps trying to have one,    *)
(* each side remembers the one it uses, requests go both ways over it, and *)
(* the server streams data up from the client.                             *)
(*                                                                         *)
(* A connection delivers messages in order until it closes; what is under  *)
(* way then arrives or not, and each side hears of it on its own.  A slot  *)
(* of Conn stands for one connection and is used again when that is over.  *)
(***************************************************************************)
EXTENDS Integers, Sequences

CONSTANTS
  Conn,        \* slots for connections
  None,        \* null
  MaxChunks,   \* the longest stream (bounds the model)
  Breaks       \* how often a connection may fail (bounds the model)

ASSUME ProxyAssumption == None \notin Conn /\ MaxChunks \in Nat /\ Breaks \in Nat

Side == {"client", "server"}
Other(s) == IF s = "client" THEN "server" ELSE "client"

VARIABLES
  link,        \* the websocket of each slot
  end,         \* #initialized and #closed of both ProxyWebsocketConnections
  inbox,       \* the messages on their way to each side
  registered,  \* the entries of #proxyConnectionsToServers and ...ToClients
  failedLately,\* an entry of #failedConnectionAttemptTimestamps, under 15 s old
  breaks,      \* the failures that may still happen
  online,      \* the client takes the proxy to be online, and has its address
  outcome,     \* of the request: "idle", "waiting", "resolved", "rejected"
  caller,      \* the side that sent it
  via,         \* its connection
  executed,    \* how often it was handled
  handling,    \* handleNodeToNodeRequest has not returned
  told,        \* the DataStreamy on the server: "idle", "none" or how it ended
  streamConn,  \* its connection
  received,    \* how many chunks it has got
  source,      \* the stream on the client: "idle", "loading", "open", ...
  produced     \* how many chunks it has sent

linkVars    == <<link, failedLately, breaks>>
connVars    == <<linkVars, end, registered>>
requestVars == <<online, outcome, caller, via, executed, handling>>
streamVars  == <<told, streamConn, received, source, produced>>
vars == <<connVars, inbox, requestVars, streamVars>>

Message == [type : {"hello", "badHello", "request", "response",
                    "streamRequest", "cancel", "data", "finished", "error"}]
Msg(t) == [type |-> t]

ProxyTypeOK ==
  /\ link \in [Conn -> {"free", "connecting", "open", "closing"}]
  /\ end \in [Side -> [Conn -> {"none", "new", "ready", "closed"}]]
  /\ inbox \in [Side -> [Conn -> Seq(Message)]]
  /\ registered \in [Side -> Conn \cup {None}]
  /\ failedLately \in BOOLEAN
  /\ breaks \in 0..Breaks
  /\ online \in BOOLEAN
  /\ outcome \in {"idle", "waiting", "resolved", "rejected"}
  /\ caller \in Side /\ via \in Conn \cup {None}
  /\ executed \in 0..1 /\ handling \in BOOLEAN
  /\ told \in {"idle", "none", "finished", "error"}
  /\ streamConn \in Conn \cup {None}
  /\ source \in {"idle", "loading", "thrown", "open", "ended", "failed"}
  /\ produced \in 0..MaxChunks /\ received \in 0..produced

Init ==
  /\ link = [k \in Conn |-> "free"]
  /\ end = [s \in Side |-> [k \in Conn |-> "none"]]
  /\ inbox = [s \in Side |-> [k \in Conn |-> << >>]]
  /\ registered = [s \in Side |-> None]
  /\ failedLately = FALSE
  /\ breaks = Breaks
  /\ online = FALSE
  /\ outcome = "idle" /\ caller = "server" /\ via = None
  /\ executed = 0 /\ handling = FALSE
  /\ told = "idle" /\ streamConn = None /\ received = 0
  /\ source = "idle" /\ produced = 0

-----------------------------------------------------------------------------
(* Messages.                                                               *)

\* _sendMessageToRemote: nothing is sent when the connection is closed
Sent(s, k, type) ==
  IF k \in Conn /\ link[k] = "open"
  THEN [inbox EXCEPT ![Other(s)][k] = Append(@, Msg(type))]
  ELSE inbox

Send(s, k, type) == inbox' = Sent(s, k, type)

\* the next message of side s on slot k has one of the types
NextMessage(s, k, state, types) ==
  /\ end[s][k] = state
  /\ inbox[s][k] # << >>
  /\ Head(inbox[s][k]).type \in types

Taken(s, k) == [inbox EXCEPT ![s][k] = Tail(@)]

\* the handler of a message answers over the same connection
TakeAndSend(s, k, type) ==
  inbox' = [Taken(s, k) EXCEPT ![Other(s)][k] =
              IF link[k] = "open" THEN Append(@, Msg(type)) ELSE @]

-----------------------------------------------------------------------------
(* Connecting.                                                             *)

\* the loop of ProxyClientService gets to the proxy, which it leaves out while
\* it takes it to be offline
TryConnection(k) ==
  /\ online
  /\ registered["client"] = None
  /\ ~failedLately
  /\ \A j \in Conn : end["client"][j] # "new"   \* one attempt at a time
  /\ link[k] = "free"
  /\ link' = [link EXCEPT ![k] = "connecting"]
  /\ end' = [end EXCEPT !["client"][k] = "new"]
  /\ UNCHANGED <<inbox, registered, failedLately, breaks, requestVars, streamVars>>

\* onOpen at the client, which presents itself, or is not what the server
\* expects (a fault)
Present(k) ==
  \E m \in {"hello", "badHello"} :
    /\ m = "badHello" => breaks > 0
    /\ breaks' = IF m = "badHello" THEN breaks - 1 ELSE breaks
    /\ inbox' = [inbox EXCEPT !["server"][k] = <<Msg(m)>>]

\* onConnection at the server
Accept(k) ==
  /\ link[k] = "connecting"
  /\ link' = [link EXCEPT ![k] = "open"]
  /\ end' = [end EXCEPT !["server"][k] = "new"]
  /\ Present(k)
  /\ UNCHANGED <<registered, failedLately, requestVars, streamVars>>

\* setProxyConnectionToServer, setProxyConnectionToClient: the connection that
\* is there already stays, the new one is closed
Register(s, k) ==
  IF registered[s] = None
  THEN registered' = [registered EXCEPT ![s] = k] /\ UNCHANGED link
  ELSE link' = [link EXCEPT ![k] = "closing"] /\ UNCHANGED registered

\* the server answers before it looks whether it has a connection already
ServerInitialized(k) ==
  /\ NextMessage("server", k, "new", {"hello"})
  /\ end' = [end EXCEPT !["server"][k] = "ready"]
  /\ TakeAndSend("server", k, "hello")
  /\ Register("server", k)
  /\ UNCHANGED <<failedLately, breaks, requestVars, streamVars>>

ServerRejects(k) ==
  /\ NextMessage("server", k, "new", {"badHello"})
  /\ inbox' = Taken("server", k)
  /\ link' = [link EXCEPT ![k] = "closing"]
  /\ UNCHANGED <<end, registered, failedLately, breaks, requestVars, streamVars>>

ClientInitialized(k) ==
  /\ NextMessage("client", k, "new", {"hello"})
  /\ end' = [end EXCEPT !["client"][k] = "ready"]
  /\ inbox' = Taken("client", k)
  /\ Register("client", k)
  /\ UNCHANGED <<failedLately, breaks, requestVars, streamVars>>

\* the network fails, or one side closes the connection
Break(k) ==
  /\ breaks > 0
  /\ link[k] \in {"connecting", "open"}
  /\ breaks' = breaks - 1
  /\ link' = [link EXCEPT ![k] = "closing"]
  /\ UNCHANGED <<end, inbox, registered, failedLately, requestVars, streamVars>>

\* mutant of Closed: a closed connection stays where it is registered
ClosedButKept(s, k) ==
  /\ link[k] = "closing"
  /\ end[s][k] \in {"new", "ready"}
  /\ end' = [end EXCEPT ![s][k] = "closed"]
  /\ inbox' = [inbox EXCEPT ![s][k] = << >>]
  /\ failedLately' = (failedLately \/ (s = "client" /\ end[s][k] = "new"))
  /\ UNCHANGED <<link, registered, breaks, requestVars, streamVars>>

\* onClose at side s: #onClosedCallbacks, which forget the connection, or end
\* the attempt of tryConnection.  Messages that come later are ignored
Closed(s, k) ==
  /\ link[k] = "closing"
  /\ end[s][k] \in {"new", "ready"}
  /\ end' = [end EXCEPT ![s][k] = "closed"]
  /\ inbox' = [inbox EXCEPT ![s][k] = << >>]
  /\ registered' = IF registered[s] = k THEN [registered EXCEPT ![s] = None]
                   ELSE registered
  /\ failedLately' = (failedLately \/ (s = "client" /\ end[s][k] = "new"))
  /\ UNCHANGED <<link, breaks, requestVars, streamVars>>

\* 15 s after the last failed attempt
FailureForgotten ==
  /\ failedLately
  /\ failedLately' = FALSE
  /\ UNCHANGED <<link, end, inbox, registered, breaks, requestVars, streamVars>>

\* the connection is over at both sides: the slot stands for another one
Reuse(k) ==
  /\ link[k] = "closing"
  /\ \A s \in Side : end[s][k] \in {"none", "closed"}
  /\ link' = [link EXCEPT ![k] = "free"]
  /\ end' = [s \in Side |-> [end[s] EXCEPT ![k] = "none"]]
  /\ inbox' = [s \in Side |-> [inbox[s] EXCEPT ![k] = << >>]]
  /\ via' = IF via = k THEN None ELSE via
  /\ streamConn' = IF streamConn = k THEN None ELSE streamConn
  /\ UNCHANGED <<registered, failedLately, breaks, online, outcome, caller, executed,
                 handling, told, received, source, produced>>

-----------------------------------------------------------------------------
(* A request, from either side.                                            *)

SendRequest(s) ==
  /\ outcome = "idle"
  /\ registered[s] # None
  /\ outcome' = "waiting"
  /\ caller' = s
  /\ via' = registered[s]
  /\ Send(s, registered[s], "request")
  /\ UNCHANGED <<connVars, online, executed, handling, streamVars>>

HandleRequest(s, k) ==
  /\ NextMessage(s, k, "ready", {"request"})
  /\ inbox' = Taken(s, k)
  /\ executed' = executed + 1
  /\ handling' = TRUE
  /\ UNCHANGED <<connVars, online, outcome, caller, via, streamVars>>

\* handleNodeToNodeRequest returns a response, or throws and nobody is told
HandlerReturns ==
  /\ handling
  /\ handling' = FALSE
  /\ Send(Other(caller), via, "response") \/ UNCHANGED inbox
  /\ UNCHANGED <<connVars, online, outcome, caller, via, executed, streamVars>>

\* mutant of HandleResponse: a response after the timeout counts
LateResponse(s, k) ==
  /\ NextMessage(s, k, "ready", {"response"})
  /\ inbox' = Taken(s, k)
  /\ outcome' = "resolved"
  /\ online' = (online \/ s = "client")
  /\ UNCHANGED <<connVars, caller, via, executed, handling, streamVars>>

\* the listener in #responseListeners, and sendRequest, which has reached the
\* node; after a timeout nobody waits any more
HandleResponse(s, k) ==
  /\ NextMessage(s, k, "ready", {"response"})
  /\ inbox' = Taken(s, k)
  /\ outcome' = IF outcome = "waiting" THEN "resolved" ELSE outcome
  /\ online' = (online \/ (s = "client" /\ outcome = "waiting"))
  /\ UNCHANGED <<connVars, caller, via, executed, handling, streamVars>>

\* _waitForResponse sees that the connection is closed or the time is over, and
\* sendRequest takes the node to be offline
GiveUp ==
  /\ outcome = "waiting"
  /\ outcome' = "rejected"
  /\ online' = (online /\ caller # "client")
  /\ UNCHANGED <<connVars, inbox, caller, via, executed, handling, streamVars>>

\* a request of the client to the proxy on another way (http, udp) succeeds or
\* fails, or the information with the address of the proxy comes or expires
OtherRequest ==
  /\ online' = ~online
  /\ UNCHANGED <<connVars, inbox, outcome, caller, via, executed, handling, streamVars>>

-----------------------------------------------------------------------------
(* A stream from the client, through the server.                           *)

\* streamDataForStreamId, for a stream of the client
OpenStream ==
  /\ told = "idle"
  /\ registered["server"] # None
  /\ told' = "none"
  /\ streamConn' = registered["server"]
  /\ Send("server", registered["server"], "streamRequest")
  /\ UNCHANGED <<connVars, requestVars, received, source, produced>>

HandleStreamRequest(k) ==
  /\ NextMessage("client", k, "ready", {"streamRequest"})
  /\ inbox' = Taken("client", k)
  /\ source' = "loading"
  /\ UNCHANGED <<connVars, requestVars, told, streamConn, received, produced>>

\* streamDataForStreamId of the client returns and the callbacks are set, the
\* one for cancelling too; or it throws, and no message says so
StreamLoaded ==
  /\ source = "loading"
  /\ source' \in {"open", "thrown"}
  /\ UNCHANGED <<connVars, inbox, requestVars, told, streamConn, received, produced>>

SendChunk ==
  /\ source = "open"
  /\ produced < MaxChunks
  /\ produced' = produced + 1
  /\ Send("client", streamConn, "data")
  /\ UNCHANGED <<connVars, requestVars, told, streamConn, received, source>>

\* mutant of EndStream: an error of the file is not passed on
EndSilently ==
  /\ source = "open"
  /\ \/ source' = "ended" /\ Send("client", streamConn, "finished")
     \/ source' = "failed" /\ UNCHANGED inbox
  /\ UNCHANGED <<connVars, requestVars, told, streamConn, received, produced>>

\* onFinished or onError of the client's stream
EndStream ==
  /\ source = "open"
  /\ \/ source' = "ended" /\ Send("client", streamConn, "finished")
     \/ source' = "failed" /\ Send("client", streamConn, "error")
  /\ UNCHANGED <<connVars, requestVars, told, streamConn, received, produced>>

\* mutant of HandleStreamMessage: every message counts as data
CountAll(k) ==
  /\ NextMessage("server", k, "ready", {"data", "finished", "error"})
  /\ inbox' = Taken("server", k)
  /\ received' = received + 1
  /\ UNCHANGED <<connVars, requestVars, told, streamConn, source, produced>>

\* mutant of HandleStreamMessage: an error is taken for the end
ErrorIsEnd(k) ==
  LET type == Head(inbox["server"][k]).type
  IN  /\ NextMessage("server", k, "ready", {"data", "finished", "error"})
      /\ inbox' = Taken("server", k)
      /\ received' = IF told = "none" /\ type = "data" THEN received + 1 ELSE received
      /\ told' = IF told = "none" /\ type # "data" THEN "finished" ELSE told
      /\ UNCHANGED <<connVars, requestVars, streamConn, source, produced>>

\* _handleResponseMessageFromServer, into a DataStreamy that ends once
HandleStreamMessage(k) ==
  LET type == Head(inbox["server"][k]).type
  IN  /\ NextMessage("server", k, "ready", {"data", "finished", "error"})
      /\ inbox' = Taken("server", k)
      /\ received' = IF told = "none" /\ type = "data" THEN received + 1 ELSE received
      /\ told' = IF told = "none" /\ type # "data" THEN type ELSE told
      /\ UNCHANGED <<connVars, requestVars, streamConn, source, produced>>

\* the reader goes away: its DataStreamy fails and the client is told
CancelStream ==
  /\ told = "none"
  /\ told' = "error"
  /\ Send("server", streamConn, "cancel")
  /\ UNCHANGED <<connVars, requestVars, streamConn, received, source, produced>>

\* the callback stops the stream and reports that; before the callback is set,
\* the request to cancel is forgotten
HandleCancel(k) ==
  /\ NextMessage("client", k, "ready", {"cancel"})
  /\ \/ /\ source = "open"
        /\ source' = "failed"
        /\ TakeAndSend("client", k, "error")
     \/ /\ source # "open"
        /\ inbox' = Taken("client", k)
        /\ UNCHANGED source
  /\ UNCHANGED <<connVars, requestVars, told, streamConn, received, produced>>

-----------------------------------------------------------------------------
Connecting(k) ==
  \/ TryConnection(k) \/ Accept(k) \/ ServerInitialized(k) \/ ServerRejects(k)
  \/ ClientInitialized(k) \/ Reuse(k) \/ \E s \in Side : Closed(s, k)

Requests ==
  \/ \E s \in Side : SendRequest(s)
  \/ \E s \in Side, k \in Conn : HandleRequest(s, k) \/ HandleResponse(s, k)
  \/ HandlerReturns
  \/ GiveUp
  \/ OtherRequest

StreamMessages(k) ==
  HandleStreamRequest(k) \/ HandleStreamMessage(k) \/ HandleCancel(k)

Streams ==
  \/ OpenStream \/ CancelStream
  \/ StreamLoaded \/ SendChunk \/ EndStream
  \/ \E k \in Conn : StreamMessages(k)

Next ==
  \/ \E k \in Conn : Connecting(k) \/ Break(k)
  \/ FailureForgotten
  \/ Requests
  \/ Streams

Spec == Init /\ [][Next]_vars

(* The event loop gets to every message, every closed socket and every     *)
(* timer; the loop of ProxyClientService goes round; a file that is being  *)
(* read ends.  Nobody has to send a request, open a stream or cancel one,  *)
(* and nothing makes the proxy be taken to be online (see Reconnects).     *)
Fairness ==
  /\ \A k \in Conn : /\ WF_vars(TryConnection(k))
                     /\ WF_vars(Accept(k))
                     /\ WF_vars(ServerInitialized(k) \/ ServerRejects(k))
                     /\ WF_vars(ClientInitialized(k))
                     /\ WF_vars(Reuse(k))
                     /\ WF_vars(StreamMessages(k))
                     /\ \A s \in Side :
                          /\ WF_vars(Closed(s, k))
                          /\ WF_vars(HandleRequest(s, k) \/ HandleResponse(s, k))
  /\ WF_vars(FailureForgotten)
  /\ WF_vars(GiveUp)
  /\ WF_vars(StreamLoaded)
  /\ WF_vars(SendChunk \/ EndStream)

FairSpec == Spec /\ Fairness

-----------------------------------------------------------------------------
(* Properties.                                                             *)

\* A node sends only over a connection it does not know to be closed, and if
\* the two sides use different connections, one of these is already closing:
\* the nodes do not talk past each other over two connections that live.  (The
\* type invariant comes first.)
OneConnection ==
  /\ ProxyTypeOK
  /\ \A s \in Side : registered[s] # None => end[s][registered[s]] = "ready"
  /\ LET c == registered["client"]
         d == registered["server"]
     IN  c # None /\ d # None /\ c # d
           => link[c] = "closing" \/ link[d] = "closing"

\* A request over a proxy connection, from either side, is a RemoteCall: it is
\* executed at most once, and resolved only if it was executed, also when the
\* connection closes or the response comes after the timeout.
Call == INSTANCE RemoteCall WITH executed <- executed, outcome <- outcome

ProxiedCall == Call!Spec

\* A stream through the proxy keeps what a stream promises: chunks in order,
\* the end after the last one, and never an end when the client's stream failed.
Stream == INSTANCE OrderedStream WITH
  produced <- produced,
  source <- IF source \in {"ended", "failed"} THEN source ELSE "open",
  received <- received,
  told <- IF told = "idle" THEN "none" ELSE told,
  dropped <- FALSE

ProxiedStream == Stream!Spec

\* Once connections stop failing and the client goes on taking the proxy to be
\* online, both nodes end up with the same connection and keep it, although the
\* server refuses a new one while it has not seen that the old one is closed.
\* Without the second condition this is wrong: a failed request over the broken
\* connection sets the proxy offline, the loop of ProxyClientService leaves out
\* who is offline, and only another request that succeeds changes that.
Reconnects ==
  <>[]online => <>[](/\ registered["client"] # None
                     /\ registered["client"] = registered["server"])

\* The reader of a stream is told how it ended, provided that the connection
\* does not close first and the client can read the file: in these two cases
\* nobody tells the reader (streamDataForStreamId has no timeout).
ProxyStreamEnds ==
  told = "none" ~> \/ told # "none"
                   \/ source = "thrown"
                   \/ streamConn = None \/ link[streamConn] = "closing"

=============================================================================
