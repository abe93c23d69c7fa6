----------------------------- MODULE RemoteNodes -----------------------------
(***************************************************************************)
(* The view that one node has of the others: which nodes it knows, how old *)
(* the information about each of them is and whether it takes them to be   *)
(* online.  The view is fed by the probes of BootstrapService, by the      *)
(* requests of AnnounceService and DiscoverService, by checkAlive and by   *)
(* the announcements of others; a search asks every node.                  *)
(*                                                                         *)
(* There is one channel, that the node and those in Joined have joined and *)
(* that authorizes them all; the bootstrap nodes are its message proxies.  *)
(* The node has no websocket connection of its own to the nodes it sends   *)
(* to (see ProxyConnection).  The time stamp of an information is          *)
(* represented by its age: 0..Lifetime, or Gone when it has expired.       *)
(* Requests to one node that are of one kind and in one state are one; one *)
(* response of DiscoverService is on its way at a time, and all the nodes  *)
(* in it are taken in one step.  The bootstrap nodes have HTTP and, where  *)
(* this node has it too, UDP.                                              *)
(***************************************************************************)
EXTENDS Integers, FiniteSets

CONSTANTS
  Boot, Peer,  \* the bootstrap nodes, and the other remote nodes
  Joined,      \* those that have joined the channel
  HasUdp,      \* this node has a UDP socket
  Addresses,   \* the addresses that peers may have in their information
  Lifetime,    \* the age that an information may have
  None,        \* null
  MaxRequests  \* how many requests may be open when a service sends one (bounds the model)

Node == Boot \cup Peer

ASSUME NodesAssumption ==
  /\ Boot \cap Peer = {} /\ Joined \subseteq Node
  /\ HasUdp \in BOOLEAN /\ Addresses \subseteq {"http", "udp", "none"}
  /\ Lifetime \in Nat \ {0} /\ MaxRequests \in Nat
  /\ None \notin Node /\ None \notin Nat

VARIABLES
  address,   \* the address in the information of each node
  up,        \* the nodes that can be reached
  told,      \* the information that each node has of those in Joined
  remote,    \* #remoteNodes: what this node knows of each of them
  requests   \* what it has sent and what it waits to send

vars == <<address, up, told, remote, requests>>

Gone  == Lifetime + 1
Infos == [Joined -> 0..Gone \cup {None}]

Unknown == [known |-> FALSE, bootstrap |-> FALSE, info |-> None, online |-> FALSE]

\* via: the node that the message is posted to, None while it waits to be sent;
\* live: the remote node object that has sent it is still in #remoteNodes;
\* infos: the response of discover
Request ==
  [to : Node, kind : {"announce", "discover", "alive", "search"},
   via : Node \cup {None}, live : BOOLEAN, infos : Infos \cup {None}]

NodesTypeOK ==
  /\ address \in [Node -> {"http", "udp", "none"}]
  /\ up \subseteq Node
  /\ told \in [Node -> Infos]
  /\ remote \in [Node -> [known : BOOLEAN, bootstrap : BOOLEAN,
                          info : 0..Gone \cup {None}, online : BOOLEAN]]
  /\ requests \subseteq Request
  /\ \A m \in Node :
       /\ ~remote[m].known => remote[m] = Unknown
       /\ remote[m].known => remote[m].bootstrap \/ remote[m].info # None

Init ==
  /\ address \in [Node -> Addresses \cup {"http"}]
  /\ \A m \in Node : IF m \in Boot THEN address[m] = "http" ELSE address[m] \in Addresses
  /\ up \in SUBSET Node
  /\ told = [n \in Node |-> [m \in Joined |-> None]]
  /\ remote = [m \in Node |-> Unknown]
  /\ requests = {}

-----------------------------------------------------------------------------
(* The method of a request; R is the view.                                 *)

HttpAddress(R, m) == R[m].bootstrap \/ (R[m].info # None /\ address[m] = "http")
UdpAddress(R, m)  == R[m].bootstrap \/ (R[m].info # None /\ address[m] = "udp")

\* getRemoteNodeMessageProxyNode
Proxies(R, m) ==
  {b \in Boot \ {m} : R[m].info # None /\ R[b].online /\ HttpAddress(R, b)}

\* determineSendRequestMethod, for prefer-udp and for default, which is
\* prefer-http; the health of every method is 0, so udp comes before http-proxy
DetermineMethod(R, m, preference) ==
  LET udp == HasUdp /\ UdpAddress(R, m)
      preferHttp == CASE HttpAddress(R, m) -> "http"
                      [] ~HttpAddress(R, m) /\ udp -> "udp"
                      [] ~HttpAddress(R, m) /\ ~udp /\ Proxies(R, m) # {} -> "http-proxy"
                      [] OTHER -> "none"
  IN  IF preference = "prefer-udp" /\ udp THEN "udp" ELSE preferHttp

\* the node that a request is posted to, None if there is no method
Route(R, m, kind) ==
  LET method == DetermineMethod(R, m, IF kind = "announce" THEN "prefer-udp" ELSE "default")
  IN  CASE method = "none"       -> None
        [] method = "http-proxy" -> CHOOSE b \in Proxies(R, m) : TRUE
        [] OTHER                 -> m

\* canSendRequest
CanSend(R, m) == Route(R, m, "default") # None

\* a new request: it is sent, or it waits until there is a method
NewRequest(R, m, kind) == [to |-> m, kind |-> kind, via |-> Route(R, m, kind),
                           live |-> TRUE, infos |-> None]

-----------------------------------------------------------------------------
(* RemoteNodeManager.                                                      *)

\* the requests, when the objects of the nodes in M leave #remoteNodes; an
\* announce or checkAlive that was sent will have no effect any more
Orphaned(M) ==
  LET orphans == {r \in requests : r.via # None /\ r.to \in M}
  IN  (requests \ orphans) \cup {[r EXCEPT !.live = FALSE] :
                                  r \in {o \in orphans : o.kind \in {"discover", "search"}}}

\* mutant of Pruned: nodes without information are kept
PruneInfos ==
  [m \in Node |-> IF remote[m].info = Gone THEN [remote[m] EXCEPT !.info = None] ELSE remote[m]]

\* _pruneRemoteNodes
Pruned ==
  [m \in Node |->
     CASE remote[m].bootstrap /\ remote[m].info = Gone -> [remote[m] EXCEPT !.info = None]
       [] ~remote[m].bootstrap /\ remote[m].info = Gone -> Unknown
       [] OTHER -> remote[m]]

Prune ==
  /\ remote' = Pruned
  /\ requests' = Orphaned({m \in Node : Pruned[m] = Unknown})

\* mutants of Accepted: whatever arrives last; also what has expired
AcceptLast(R, infos) == {m \in Joined : infos[m] \in 0..Lifetime}
AcceptExpired(R, infos) ==
  {m \in Joined : infos[m] # None /\ (R[m].info = None \/ R[m].info >= infos[m])}

\* the nodes whose information is not expired and not older than the one known
Accepted(R, infos) ==
  {m \in Joined : infos[m] \in 0..Lifetime /\ (R[m].info = None \/ R[m].info >= infos[m])}

\* mutant of Checks: only nodes that are new
CheckNew(R, infos) ==
  {NewRequest(R, m, "alive") : m \in {n \in Accepted(R, infos) :
     ~R[n].online /\ R[n].info = None /\ CanSend(R, n)}}

\* checkAlive is sent to the nodes that are offline, by the method that is
\* available before the new information is stored
Checks(R, infos) ==
  {NewRequest(R, m, "alive") : m \in {n \in Accepted(R, infos) : ~R[n].online /\ CanSend(R, n)}}

\* setChannelNodeInfo for each of infos; the callback announces to new nodes
Learn(R, Q, infos) ==
  LET S == [m \in Node |-> IF m \in Accepted(R, infos)
              THEN [R[m] EXCEPT !.known = TRUE, !.info = infos[m]] ELSE R[m]]
  IN  /\ remote' = S
      /\ requests' = Q \cup Checks(R, infos)
           \cup {NewRequest(S, m, "announce") : m \in {n \in Accepted(R, infos) : R[n].info = None}}

\* sendRequest has ended, with or without a response
Ended(r, isOnline) ==
  IF r.live THEN [remote EXCEPT ![r.to].online = isOnline] ELSE remote

-----------------------------------------------------------------------------
(* The services.                                                           *)

\* _probeBootstrapNode, setBootstrapNode with its callbacks; nothing happens if
\* the node is known as a bootstrap node
Probe(b) ==
  /\ b \in up /\ ~remote[b].bootstrap
  /\ remote' = [remote EXCEPT ![b] = [Unknown EXCEPT !.known = TRUE, !.bootstrap = TRUE]]
  /\ requests' = Orphaned({b}) \cup {NewRequest(remote', b, "announce"),
                                     NewRequest(remote', b, "discover")}
  /\ UNCHANGED <<address, up, told>>

\* the periodic rounds of AnnounceService and DiscoverService visit the nodes
\* that are online, if they are bootstrap nodes or in the channel, one by one;
\* the order of the visits is left open
Visit(m, kind) ==
  /\ Pruned[m].online
  /\ Cardinality(requests) < MaxRequests
  /\ remote' = Pruned
  /\ requests' = Orphaned({n \in Node : Pruned[n] = Unknown})
                 \cup {NewRequest(Pruned, m, kind)}
  /\ UNCHANGED <<address, up, told>>

\* a round that finds no one online
VisitNobody ==
  /\ Prune /\ Pruned # remote
  /\ UNCHANGED <<address, up, told>>

\* _announceToNode, _getChannelInfoFromNode: send, or give up after four passes
Send(r) ==
  /\ r.via = None /\ CanSend(remote, r.to)
  /\ requests' = (requests \ {r}) \cup {NewRequest(remote, r.to, r.kind)}
  /\ UNCHANGED <<address, up, told, remote>>

GiveUp(r) ==
  /\ r.via = None /\ ~CanSend(remote, r.to)
  /\ requests' = requests \ {r}
  /\ UNCHANGED <<address, up, told, remote>>

Reachable(r) == r.via # None /\ {r.to, r.via} \subseteq up

\* handleGetChannelInfoRequest at the other node, which does not prune
Serve(r) ==
  /\ r.kind = "discover" /\ Reachable(r)
  /\ \A q \in requests : q.infos = None
  /\ requests' = (requests \ {r}) \cup
       {[r EXCEPT !.infos = IF r.to \in Joined THEN [told[r.to] EXCEPT ![r.to] = 0]
                                               ELSE told[r.to]]}
  /\ UNCHANGED <<address, up, told, remote>>

\* the response is received
Respond(r) ==
  /\ IF r.kind = "discover" THEN r.infos # None ELSE Reachable(r)
  /\ IF r.kind = "discover" THEN Learn(Ended(r, TRUE), requests \ {r}, r.infos)
     ELSE remote' = Ended(r, TRUE) /\ requests' = requests \ {r}
  /\ UNCHANGED <<address, up, told>>

\* the request fails or takes too long, as its way is interrupted at this moment
Fail(r) ==
  /\ r.via # None /\ ~Reachable(r)
  /\ remote' = Ended(r, FALSE)
  /\ requests' = requests \ {r}
  /\ UNCHANGED <<address, up, told>>

\* handleAnnounceRequest
HearAnnounce(m) ==
  /\ m \in Joined \cap up
  /\ Learn(remote, requests, [n \in Joined |-> IF n = m THEN 0 ELSE None])
  /\ UNCHANGED <<address, up, told>>

\* sendRequestToAllNodes, by findFile and findLiveFeed, asks the nodes that are
\* offline too; one search at a time
StartSearch ==
  /\ \A r \in requests : r.kind # "search"
  /\ \E m \in Node : CanSend(remote, m)
  /\ requests' = requests \cup {NewRequest(remote, m, "search") :
                                m \in {n \in Node : CanSend(remote, n)}}
  /\ UNCHANGED <<address, up, told, remote>>

-----------------------------------------------------------------------------
(* The other nodes and the clock.                                          *)

\* m announces itself to n
TellOther(m, n) ==
  /\ m # n /\ {m, n} \subseteq up
  /\ told' = [told EXCEPT ![n][m] = 0]
  /\ UNCHANGED <<address, up, remote, requests>>

GoDownOrUp(m) ==
  /\ up' = IF m \in up THEN up \ {m} ELSE up \cup {m}
  /\ UNCHANGED <<address, told, remote, requests>>

Older(age) == IF age \in 0..Lifetime THEN age + 1 ELSE age

Aged(R) == [m \in Node |-> [R[m] EXCEPT !.info = Older(@)]]

\* The unit is a minute.  A request takes seconds, and a node that is up
\* announces itself to the bootstrap nodes several times in a minute.
Tick ==
  /\ requests = {}
  /\ \A b \in Boot \cap up : \A m \in (Joined \cap up) \ {b} : told[b][m] = 0
  /\ told' = [n \in Node |-> [m \in Joined |-> Older(told[n][m])]]
  /\ remote' = Aged(remote)
  /\ UNCHANGED <<address, up, requests>>

-----------------------------------------------------------------------------
Next ==
  \/ \E b \in Boot : Probe(b)
  \/ \E m \in Node : Visit(m, "announce") \/ Visit(m, "discover")
  \/ VisitNobody
  \/ \E r \in requests : Send(r) \/ GiveUp(r) \/ Serve(r) \/ Respond(r) \/ Fail(r)
  \/ \E m \in Joined : HearAnnounce(m)
  \/ StartSearch
  \/ \E m \in Joined, n \in Node : TellOther(m, n)
  \/ \E m \in Node : GoDownOrUp(m)
  \/ Tick

Spec == Init /\ [][Next]_vars

\* every request ends: it is sent or given up, answered or it fails
Proceeds(m, kind) ==
  \E r \in requests :
    /\ r.to = m /\ r.kind = kind
    /\ Send(r) \/ GiveUp(r) \/ Serve(r) \/ Respond(r) \/ Fail(r)

\* the loops of the services, the timers and the clock go on, requests end, and
\* the others announce themselves to the bootstrap nodes
Fairness ==
  /\ \A b \in Boot : WF_vars(Probe(b))
  /\ \A m \in Node : SF_vars(Visit(m, "announce")) /\ SF_vars(Visit(m, "discover"))
  /\ WF_vars(VisitNobody)
  /\ \A m \in Node : /\ SF_vars(Proceeds(m, "discover"))
                     /\ \A kind \in {"announce", "alive", "search"} : WF_vars(Proceeds(m, kind))
  /\ \A m \in Joined, b \in Boot : WF_vars(TellOther(m, b))
  /\ SF_vars(Tick)

FairSpec == Spec /\ Fairness

-----------------------------------------------------------------------------
(* What can be relied on.                                                  *)

\* The responses of several nodes arrive in any order and carry what those nodes
\* knew when they made them: the information about a node is never replaced by an
\* older one.  (setChannelNodeInfoIfMoreRecent)
InfoNeverOlder ==
  [][\A m \in Node : \/ remote[m].info = None \/ remote'[m].info = None
                     \/ remote'[m].info <= remote[m].info
                     \/ remote' = Aged(remote)]_vars

\* A node that can be reached is found online again and again, as long as a
\* bootstrap node can be reached and is taken to be online, whatever requests
\* to it have failed before.
PeersFound ==
  \A m \in Joined, b \in Boot :
    <>[]({m, b} \subseteq up /\ remote[b].online) => []<>(remote[m].online)

\* A peer that has gone is forgotten for good: nodes that still hold its
\* information, or pass it on, do not keep it alive.
GoneForgotten ==
  \A p \in Peer : <>[](p \notin up) => <>[](~remote[p].known)

=============================================================================
