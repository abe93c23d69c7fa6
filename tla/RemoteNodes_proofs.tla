-------------------------- MODULE RemoteNodes_proofs --------------------------
(***************************************************************************)
(* Proofs about RemoteNodes, for any number of nodes and requests and any  *)
(* lifetime: what the node keeps is well formed, and the information about *)
(* a node is never replaced by an older one.                               *)
(*                                                                         *)
(* The argument: NodesTypeOK is inductive, and each step does to the view  *)
(* one of a few things (Younger), among them that it grows old.            *)
(***************************************************************************)
EXTENDS RemoteNodes, TLAPS

Entry == [known : BOOLEAN, bootstrap : BOOLEAN, info : 0..Gone \cup {None}, online : BOOLEAN]

\* a view of the other nodes
View(R) ==
  /\ R \in [Node -> Entry]
  /\ \A m \in Node :
       /\ ~R[m].known => R[m] = Unknown
       /\ R[m].known => R[m].bootstrap \/ R[m].info # None

\* no information in S is older than the one in R
Younger(R, S) ==
  \A m \in Node : R[m].info = None \/ S[m].info = None \/ S[m].info <= R[m].info

LEMMA NodesAsView ==
  NodesTypeOK <=> /\ address \in [Node -> {"http", "udp", "none"}]
                  /\ up \subseteq Node
                  /\ told \in [Node -> Infos]
                  /\ View(remote)
                  /\ requests \subseteq Request
BY DEF NodesTypeOK, View, Entry

LEMMA Ages == /\ Gone \in Nat /\ None \notin 0..Gone
              /\ 0 \in 0..Lifetime /\ 0..Lifetime \subseteq 0..Gone
              /\ \A i \in 0..Gone : Older(i) \in 0..Gone
              /\ Older(None) = None
BY NodesAssumption DEF Gone, Older

LEMMA YoungerSelf == ASSUME NEW R, View(R) PROVE Younger(R, R)
<1> SUFFICES ASSUME NEW m \in Node, R[m].info # None PROVE R[m].info <= R[m].info
  BY DEF Younger
<1>1. R[m].info \in 0..Gone
  BY DEF View, Entry
<1> QED
  BY <1>1, Ages

-----------------------------------------------------------------------------
(* Requests.                                                               *)

LEMMA RouteTyped ==
  ASSUME NEW R, NEW m \in Node, NEW kind
  PROVE  Route(R, m, kind) \in Node \cup {None}
<1> DEFINE method == DetermineMethod(R, m, IF kind = "announce" THEN "prefer-udp" ELSE "default")
<1>1. CASE method = "none"
  BY <1>1 DEF Route
<1>2. CASE method = "http-proxy"
  <2>1. Proxies(R, m) # {}
    BY <1>2 DEF DetermineMethod
  <2>2. Proxies(R, m) \subseteq Node
    BY DEF Proxies, Node
  <2>3. (CHOOSE b \in Proxies(R, m) : TRUE) \in Node
    BY <2>1, <2>2
  <2> HIDE DEF method
  <2> QED
    BY <1>2, <2>3 DEF Route, method
<1>3. CASE method # "none" /\ method # "http-proxy"
  <2> HIDE DEF method
  <2> QED
    BY <1>3 DEF Route, method
<1> QED
  BY <1>1, <1>2, <1>3

LEMMA NewRequestTyped ==
  ASSUME NEW R, NEW m \in Node, NEW kind \in {"announce", "discover", "alive", "search"}
  PROVE  NewRequest(R, m, kind) \in Request
BY RouteTyped DEF NewRequest, Request

LEMMA OrphanedTyped ==
  ASSUME requests \subseteq Request, NEW M
  PROVE  Orphaned(M) \subseteq Request
<1>1. \A r \in Request : [r EXCEPT !.live = FALSE] \in Request
  BY DEF Request
<1> QED
  BY <1>1 DEF Orphaned

-----------------------------------------------------------------------------
(* Views.                                                                  *)

LEMMA Forgotten ==
  ASSUME NEW r \in Entry
  PROVE  LET e == [r EXCEPT !.info = None]
         IN  e \in Entry /\ e.info = None /\ e.known = r.known /\ e.bootstrap = r.bootstrap
BY DEF Entry

LEMMA PrunedView ==
  ASSUME View(remote)
  PROVE  View(Pruned) /\ Younger(remote, Pruned)
<1>1. ASSUME NEW m \in Node
      PROVE  /\ Pruned[m] \in Entry
             /\ ~Pruned[m].known => Pruned[m] = Unknown
             /\ Pruned[m].known => Pruned[m].bootstrap \/ Pruned[m].info # None
             /\ Pruned[m].info = None \/ Pruned[m].info = remote[m].info
  <2>1. /\ remote[m] \in Entry /\ (~remote[m].known => remote[m] = Unknown)
        /\ (remote[m].known => remote[m].bootstrap \/ remote[m].info # None)
    BY DEF View
  <2>2. CASE remote[m].bootstrap /\ remote[m].info = Gone
    <3>1. Pruned[m] = [remote[m] EXCEPT !.info = None]
      BY <2>2 DEF Pruned
    <3>2. /\ Pruned[m] \in Entry /\ Pruned[m].info = None
          /\ Pruned[m].known = remote[m].known /\ Pruned[m].bootstrap = remote[m].bootstrap
      BY <2>1, <3>1, Forgotten
    <3>3. remote[m].known
      BY <2>1, <2>2 DEF Unknown
    <3> QED
      BY <2>2, <3>2, <3>3
  <2>3. CASE ~remote[m].bootstrap /\ remote[m].info = Gone
    <3>1. Pruned[m] = Unknown
      BY <2>3 DEF Pruned
    <3> QED
      BY <3>1 DEF Unknown, Entry
  <2>4. CASE remote[m].info # Gone
    <3>1. Pruned[m] = remote[m]
      BY <2>4 DEF Pruned
    <3> QED
      BY <2>1, <3>1
  <2> QED
    BY <2>2, <2>3, <2>4
<1>2. View(Pruned)
  BY <1>1 DEF View, Pruned
<1>3. ASSUME NEW m \in Node, remote[m].info # None, Pruned[m].info # None
      PROVE  Pruned[m].info <= remote[m].info
  <2>1. Pruned[m].info = remote[m].info
    BY <1>1, <1>3
  <2> QED
    BY <1>3, <2>1, YoungerSelf DEF Younger
<1> QED
  BY <1>2, <1>3 DEF Younger

LEMMA EndedView ==
  ASSUME View(remote), NEW r \in Request, NEW isOnline \in BOOLEAN,
         r.live => remote[r.to].known
  PROVE  /\ View(Ended(r, isOnline)) /\ Younger(remote, Ended(r, isOnline))
         /\ \A m \in Node : /\ Ended(r, isOnline)[m].info = remote[m].info
                          /\ Ended(r, isOnline)[m].known = remote[m].known
<1> DEFINE S == Ended(r, isOnline)
<1>1. CASE ~r.live
  BY <1>1, YoungerSelf DEF Ended
<1>2. CASE r.live
  <2> DEFINE m == r.to
  <2>1. m \in Node /\ remote[m] \in Entry /\ remote[m].known
          /\ (remote[m].bootstrap \/ remote[m].info # None)
    BY <1>2 DEF Request, View
  <2>2. [remote[m] EXCEPT !.online = isOnline] \in Entry
    BY <2>1 DEF Entry
  <2>3. S = [remote EXCEPT ![m] = [remote[m] EXCEPT !.online = isOnline]]
    BY <1>2 DEF Ended
  <2>4. /\ S \in [Node -> Entry]
        /\ S[m] = [remote[m] EXCEPT !.online = isOnline]
        /\ \A n \in Node \ {m} : S[n] = remote[n]
    BY <2>1, <2>2, <2>3 DEF View
  <2>5. S[m].known = remote[m].known /\ S[m].bootstrap = remote[m].bootstrap
          /\ S[m].info = remote[m].info
    BY <2>1, <2>4 DEF Entry
  <2> HIDE DEF S, m
  <2>6. View(S) /\ \A n \in Node : S[n].info = remote[n].info
                                    /\ S[n].known = remote[n].known
    BY <2>1, <2>4, <2>5 DEF View
  <2>7. Younger(remote, S)
    BY <2>6, YoungerSelf DEF Younger
  <2> QED
    BY <2>6, <2>7 DEF S
<1> QED
  BY <1>1, <1>2

-----------------------------------------------------------------------------
(* The invariant.                                                          *)

\* a request is only sent to a node that is known, and an orphan is marked
Addressed(Q, R) ==
  \A r \in Q : /\ r.infos # None => r.via # None
               /\ r.live /\ r.via # None => R[r.to].known

NodesInv == NodesTypeOK /\ Addressed(requests, remote)

\* there is no way to a node that is not known
LEMMA RouteKnown ==
  ASSUME NEW R, View(R), NEW m \in Node, NEW kind, Route(R, m, kind) # None
  PROVE  R[m].known
<1>1. CASE R[m].bootstrap \/ R[m].info # None
  BY <1>1 DEF View, Unknown
<1>2. CASE ~R[m].bootstrap /\ R[m].info = None
  <2>1. ~HttpAddress(R, m) /\ ~UdpAddress(R, m) /\ Proxies(R, m) = {}
    BY <1>2 DEF HttpAddress, UdpAddress, Proxies
  <2>2. \A preference : DetermineMethod(R, m, preference) = "none"
    BY <2>1 DEF DetermineMethod
  <2> QED
    BY <2>2 DEF Route
<1> QED
  BY <1>1, <1>2

\* requests that are added to those that there are
LEMMA AddRequests ==
  ASSUME NEW R, View(R), NEW Q, Q \subseteq Request, Addressed(Q, R),
         NEW A, \A r \in A : \E m \in Node, kind \in {"announce", "discover", "alive", "search"} :
                               r = NewRequest(R, m, kind)
  PROVE  Q \cup A \subseteq Request /\ Addressed(Q \cup A, R)
<1>1. ASSUME NEW m \in Node, NEW kind \in {"announce", "discover", "alive", "search"}
      PROVE  LET r == NewRequest(R, m, kind)
             IN  /\ r \in Request
                 /\ r.infos # None => r.via # None
                 /\ r.live /\ r.via # None => R[r.to].known
  BY NewRequestTyped, RouteKnown DEF NewRequest
<1>2. A \subseteq Request /\ Addressed(A, R)
  BY <1>1 DEF Addressed
<1> QED
  BY <1>2 DEF Addressed

\* a view in which the same nodes are known
LEMMA StillAddressed ==
  ASSUME NEW R, NEW S, NEW Q, Q \subseteq Request, Addressed(Q, R),
         \A m \in Node : R[m].known => S[m].known
  PROVE  Addressed(Q, S)
BY DEF Addressed, Request

\* the objects of some nodes are gone
LEMMA OrphansAddressed ==
  ASSUME requests \subseteq Request, NEW R, Addressed(requests, remote), NEW M,
         \A m \in Node \ M : remote[m].known => R[m].known
  PROVE  Orphaned(M) \subseteq Request /\ Addressed(Orphaned(M), R)
<1>1. Orphaned(M) \subseteq Request
  BY OrphanedTyped
<1>2. ASSUME NEW r \in Orphaned(M)
      PROVE  (r.infos # None => r.via # None) /\ (r.live /\ r.via # None => R[r.to].known)
  <2> DEFINE orphans == {o \in requests : o.via # None /\ o.to \in M}
  <2>1. CASE r \in requests \ orphans
    BY <2>1 DEF Addressed, Request
  <2>2. ASSUME NEW o \in orphans, r = [o EXCEPT !.live = FALSE]
        PROVE  r.live = FALSE /\ r.via # None
    BY <2>2 DEF Request
  <2> QED
    BY <1>2, <2>1, <2>2 DEF Orphaned
<1> QED
  BY <1>1, <1>2 DEF Addressed

\* setChannelNodeInfo
LEMMA LearnView ==
  ASSUME NEW R, View(R), NEW infos \in Infos, NEW Q, Q \subseteq Request, Addressed(Q, R),
         Learn(R, Q, infos)
  PROVE  View(remote)' /\ Younger(R, remote') /\ requests' \subseteq Request
           /\ Addressed(requests, remote)'
<1> DEFINE A == Accepted(R, infos)
           S == [m \in Node |-> IF m \in A THEN [R[m] EXCEPT !.known = TRUE, !.info = infos[m]]
                                ELSE R[m]]
<1>1. ASSUME NEW m \in A
      PROVE  m \in Node /\ infos[m] \in 0..Gone /\ infos[m] # None
               /\ (R[m].info = None \/ infos[m] <= R[m].info)
  <2>1. m \in Joined /\ infos[m] \in 0..Lifetime /\ (R[m].info = None \/ R[m].info >= infos[m])
    BY <1>1 DEF Accepted
  <2>2. m \in Node
    BY <2>1, NodesAssumption
  <2>3. R[m].info \in 0..Gone \cup {None}
    BY <2>2 DEF View, Entry
  <2>4. R[m].info # None => infos[m] <= R[m].info
    BY <2>1, <2>3, Ages
  <2> QED
    BY <2>1, <2>2, <2>4, Ages
<1>2. ASSUME NEW m \in A
      PROVE  /\ S[m] \in Entry /\ S[m].known = TRUE /\ S[m].info = infos[m]
  <2>1. R[m] \in Entry /\ S[m] = [R[m] EXCEPT !.known = TRUE, !.info = infos[m]]
    BY <1>1, <1>2 DEF View
  <2> QED
    BY <1>1, <1>2, <2>1 DEF Entry
<1>3. \A m \in Node \ A : S[m] = R[m]
  OBVIOUS
<1>4. remote' = S /\ requests' = (Q \cup Checks(R, infos))
        \cup {NewRequest(S, m, "announce") : m \in {n \in A : R[n].info = None}}
  BY DEF Learn
<1> HIDE DEF S
<1>5. View(S)
  <2>1. S \in [Node -> Entry]
    BY <1>1, <1>2, <1>3 DEF View, S
  <2>2. ASSUME NEW m \in Node
        PROVE  (~S[m].known => S[m] = Unknown)
                 /\ (S[m].known => S[m].bootstrap \/ S[m].info # None)
    <3>1. CASE m \in A
      BY <1>1, <1>2, <3>1
    <3>2. CASE m \notin A
      BY <1>3, <3>2 DEF View
    <3> QED
      BY <3>1, <3>2
  <2> QED
    BY <2>1, <2>2 DEF View
<1>6. Younger(R, S)
  BY <1>1, <1>2, <1>3, YoungerSelf DEF Younger
<1>7. Q \cup Checks(R, infos) \subseteq Request /\ Addressed(Q \cup Checks(R, infos), R)
  <2>1. \A r \in Checks(R, infos) : \E m \in Node : r = NewRequest(R, m, "alive")
    BY <1>1 DEF Checks
  <2> QED
    BY <2>1, AddRequests
<1>8. Addressed(Q \cup Checks(R, infos), S)
  <2>1. \A m \in Node : R[m].known => S[m].known
    BY <1>2, <1>3
  <2> QED
    BY <1>7, <2>1, StillAddressed
<1>9. requests' \subseteq Request /\ Addressed(requests', S)
  <2> DEFINE N == {NewRequest(S, m, "announce") : m \in {n \in A : R[n].info = None}}
  <2>1. \A r \in N : \E m \in Node : r = NewRequest(S, m, "announce")
    BY <1>1
  <2> HIDE DEF N
  <2>2. (Q \cup Checks(R, infos)) \cup N \subseteq Request
          /\ Addressed((Q \cup Checks(R, infos)) \cup N, S)
    BY <1>5, <1>7, <1>8, <2>1, AddRequests
  <2> QED
    BY <1>4, <2>2 DEF N
<1> QED
  BY <1>4, <1>5, <1>6, <1>9 DEF View, Addressed

-----------------------------------------------------------------------------
(* The steps.                                                              *)

\* what a step does
Steps ==
  /\ up' \subseteq Node /\ told' \in [Node -> Infos] /\ address' = address
  /\ View(remote)' /\ requests' \subseteq Request /\ Addressed(requests, remote)'
  /\ Younger(remote, remote') \/ remote' = Aged(remote)

LEMMA ProbeSteps == ASSUME NodesInv, NEW b \in Boot, Probe(b) PROVE Steps
<1> DEFINE e == [Unknown EXCEPT !.known = TRUE, !.bootstrap = TRUE]
<1>1. b \in Node /\ View(remote) /\ requests \subseteq Request /\ Addressed(requests, remote)
  BY NodesAsView DEF NodesInv, Node
<1>2. e \in Entry /\ e.known = TRUE /\ e.bootstrap = TRUE /\ e.info = None
  BY DEF Unknown, Entry
<1>3. remote' = [remote EXCEPT ![b] = e]
  BY DEF Probe
<1> HIDE DEF e
<1>4. remote' \in [Node -> Entry] /\ remote'[b] = e
        /\ \A m \in Node \ {b} : remote'[m] = remote[m]
  BY <1>1, <1>2, <1>3 DEF View
<1>5. View(remote)'
  BY <1>1, <1>2, <1>4 DEF View
<1>6. Younger(remote, remote')
  BY <1>1, <1>2, <1>4, YoungerSelf DEF Younger
<1>7. Orphaned({b}) \subseteq Request /\ Addressed(Orphaned({b}), remote')
  BY <1>1, <1>4, OrphansAddressed
<1>8. requests' \subseteq Request /\ Addressed(requests, remote)'
  <2> DEFINE N == {NewRequest(remote', b, "announce"), NewRequest(remote', b, "discover")}
  <2>1. \A r \in N : \E m \in Node, kind \in {"announce", "discover", "alive", "search"} :
                       r = NewRequest(remote', m, kind)
    BY <1>1
  <2>2. View(remote')
    BY <1>5 DEF View
  <2> HIDE DEF N
  <2>3. Orphaned({b}) \cup N \subseteq Request /\ Addressed(Orphaned({b}) \cup N, remote')
    BY <1>7, <2>1, <2>2, AddRequests
  <2>4. requests' = Orphaned({b}) \cup N
    BY DEF Probe, N
  <2> QED
    BY <2>3, <2>4 DEF Addressed
<1> QED
  BY <1>5, <1>6, <1>8 DEF Steps, Probe, NodesInv, NodesTypeOK

\* the requests after pruning
LEMMA PrunedRequests ==
  ASSUME NodesInv
  PROVE  LET Q == Orphaned({m \in Node : Pruned[m] = Unknown})
         IN  Q \subseteq Request /\ Addressed(Q, Pruned)
<1> DEFINE M == {m \in Node : Pruned[m] = Unknown}
<1>1. View(Pruned) /\ requests \subseteq Request /\ Addressed(requests, remote)
  BY NodesAsView, PrunedView DEF NodesInv
<1>2. \A m \in Node \ M : Pruned[m].known
  BY <1>1 DEF View
<1> HIDE DEF M
<1>3. Orphaned(M) \subseteq Request /\ Addressed(Orphaned(M), Pruned)
  BY <1>1, <1>2, OrphansAddressed
<1> QED
  BY <1>3 DEF M

LEMMA VisitSteps ==
  ASSUME NodesInv, NEW m \in Node, NEW kind \in {"announce", "discover"}, Visit(m, kind)
  PROVE  Steps
<1> DEFINE Q == Orphaned({n \in Node : Pruned[n] = Unknown})
<1>1. View(Pruned) /\ Younger(remote, Pruned)
  BY NodesAsView, PrunedView DEF NodesInv
<1>2. Q \subseteq Request /\ Addressed(Q, Pruned)
  BY PrunedRequests
<1>3. requests' = Q \cup {NewRequest(Pruned, m, kind)} /\ remote' = Pruned
  BY DEF Visit
<1> HIDE DEF Q
<1>4. requests' \subseteq Request /\ Addressed(requests', Pruned)
  BY <1>1, <1>2, <1>3, AddRequests
<1>5. View(remote)' /\ Younger(remote, remote') /\ Addressed(requests, remote)'
  BY <1>1, <1>3, <1>4 DEF View, Addressed, Younger
<1> QED
  BY <1>4, <1>5 DEF Steps, Visit, NodesInv, NodesTypeOK

LEMMA VisitNobodySteps == ASSUME NodesInv, VisitNobody PROVE Steps
<1> DEFINE Q == Orphaned({n \in Node : Pruned[n] = Unknown})
<1>1. View(Pruned) /\ Younger(remote, Pruned)
  BY NodesAsView, PrunedView DEF NodesInv
<1>2. Q \subseteq Request /\ Addressed(Q, Pruned)
  BY PrunedRequests
<1>3. requests' = Q /\ remote' = Pruned
  BY DEF VisitNobody, Prune
<1>4. View(remote)' /\ Younger(remote, remote') /\ Addressed(requests, remote)'
  BY <1>1, <1>2, <1>3 DEF View, Addressed, Younger
<1> QED
  BY <1>2, <1>3, <1>4 DEF Steps, VisitNobody, NodesInv, NodesTypeOK

\* a step that leaves the view as it is
LEMMA RequestSteps ==
  ASSUME NodesInv, remote' = remote, address' = address, up' \subseteq Node,
         told' \in [Node -> Infos], requests' \subseteq Request, Addressed(requests', remote)
  PROVE  Steps
<1>1. View(remote)
  BY NodesAsView DEF NodesInv
<1>2. View(remote)' /\ Younger(remote, remote') /\ Addressed(requests, remote)'
  BY <1>1, YoungerSelf DEF View, Younger, Addressed
<1> QED
  BY <1>2 DEF Steps

LEMMA SendSteps ==
  ASSUME NodesInv, NEW r \in requests, Send(r) \/ GiveUp(r) \/ Serve(r)
  PROVE  Steps
<1>1. r \in Request /\ View(remote) /\ requests \subseteq Request
        /\ Addressed(requests, remote) /\ told \in [Node -> Infos] /\ up \subseteq Node
  BY NodesAsView DEF NodesInv
<1>2. requests \ {r} \subseteq Request /\ Addressed(requests \ {r}, remote)
  BY <1>1 DEF Addressed
<1>3. remote' = remote /\ address' = address /\ up' = up /\ told' = told
  BY DEF Send, GiveUp, Serve
<1>4. CASE Send(r)
  <2>1. requests' = (requests \ {r}) \cup {NewRequest(remote, r.to, r.kind)}
    BY <1>4 DEF Send
  <2>2. r.to \in Node /\ r.kind \in {"announce", "discover", "alive", "search"}
    BY <1>1 DEF Request
  <2>3. requests' \subseteq Request /\ Addressed(requests', remote)
    BY <1>1, <1>2, <2>1, <2>2, AddRequests
  <2> QED
    BY <1>1, <1>3, <2>3, RequestSteps
<1>5. CASE GiveUp(r)
  BY <1>1, <1>2, <1>3, <1>5, RequestSteps DEF GiveUp
<1>6. CASE Serve(r)
  <2> DEFINE infos == IF r.to \in Joined THEN [told[r.to] EXCEPT ![r.to] = 0] ELSE told[r.to]
             s == [r EXCEPT !.infos = infos]
  <2>1. told[r.to] \in Infos
    BY <1>1 DEF Request
  <2>2. infos \in Infos
    BY <2>1, Ages DEF Infos
  <2>3. requests' = (requests \ {r}) \cup {s}
    BY <1>6 DEF Serve
  <2>4. r.via # None /\ (r.live => remote[r.to].known)
    BY <1>1, <1>6 DEF Serve, Reachable, Addressed
  <2> HIDE DEF infos
  <2>5. s \in Request /\ s.via = r.via /\ s.live = r.live /\ s.to = r.to
    BY <1>1, <2>2 DEF Request
  <2> HIDE DEF s
  <2>6. requests' \subseteq Request /\ Addressed(requests', remote)
    BY <1>2, <2>3, <2>4, <2>5 DEF Addressed
  <2> QED
    BY <1>1, <1>3, <2>6, RequestSteps
<1> QED
  BY <1>4, <1>5, <1>6

\* sendRequest has ended
LEMMA EndedSteps ==
  ASSUME NodesInv, NEW r \in requests, r.via # None, NEW isOnline \in BOOLEAN
  PROVE  /\ View(Ended(r, isOnline)) /\ Younger(remote, Ended(r, isOnline))
         /\ \A m \in Node : Ended(r, isOnline)[m].info = remote[m].info
         /\ requests \ {r} \subseteq Request
         /\ Addressed(requests \ {r}, Ended(r, isOnline))
<1>1. r \in Request /\ View(remote) /\ requests \subseteq Request
        /\ Addressed(requests, remote)
  BY NodesAsView DEF NodesInv
<1>2. r.live => remote[r.to].known
  BY <1>1 DEF Addressed
<1>3. /\ View(Ended(r, isOnline)) /\ Younger(remote, Ended(r, isOnline))
      /\ \A m \in Node : /\ Ended(r, isOnline)[m].info = remote[m].info
                         /\ Ended(r, isOnline)[m].known = remote[m].known
  BY <1>1, <1>2, EndedView
<1>4. requests \ {r} \subseteq Request /\ Addressed(requests \ {r}, remote)
  BY <1>1 DEF Addressed
<1>5. Addressed(requests \ {r}, Ended(r, isOnline))
  BY <1>3, <1>4, StillAddressed
<1> QED
  BY <1>3, <1>4, <1>5

LEMMA RespondSteps ==
  ASSUME NodesInv, NEW r \in requests, Respond(r) \/ Fail(r)
  PROVE  Steps
<1>1. r \in Request /\ Addressed(requests, remote)
        /\ told' \in [Node -> Infos] /\ up' \subseteq Node /\ address' = address
  BY NodesAsView DEF NodesInv, Respond, Fail
<1>2. r.via # None
  BY <1>1 DEF Respond, Fail, Reachable, Addressed
<1>3. \A isOnline \in BOOLEAN :
        remote' = Ended(r, isOnline) /\ requests' = requests \ {r} => Steps
  <2> SUFFICES ASSUME NEW isOnline \in BOOLEAN,
                      remote' = Ended(r, isOnline), requests' = requests \ {r}
               PROVE  Steps
    OBVIOUS
  <2>1. /\ View(Ended(r, isOnline)) /\ Younger(remote, Ended(r, isOnline))
        /\ requests \ {r} \subseteq Request
        /\ Addressed(requests \ {r}, Ended(r, isOnline))
    BY <1>2, EndedSteps
  <2>2. View(remote)' /\ Addressed(requests, remote)' /\ Younger(remote, remote')
    BY <2>1 DEF View, Addressed, Younger
  <2> QED
    BY <1>1, <2>1, <2>2 DEF Steps
<1>4. CASE Respond(r) /\ r.kind = "discover"
  <2> DEFINE R == Ended(r, TRUE)
  <2>1. r.infos \in Infos
    BY <1>1, <1>4 DEF Respond, Request
  <2>2. /\ View(R) /\ \A m \in Node : R[m].info = remote[m].info
        /\ requests \ {r} \subseteq Request /\ Addressed(requests \ {r}, R)
    BY <1>2, EndedSteps
  <2>3. Learn(R, requests \ {r}, r.infos)
    BY <1>4 DEF Respond
  <2> HIDE DEF R
  <2>4. View(remote)' /\ Younger(R, remote') /\ requests' \subseteq Request
          /\ Addressed(requests, remote)'
    BY <2>1, <2>2, <2>3, LearnView
  <2>5. Younger(remote, remote')
    BY <2>2, <2>4 DEF Younger
  <2> QED
    BY <1>1, <2>4, <2>5 DEF Steps
<1>5. CASE Respond(r) /\ r.kind # "discover"
  BY <1>3, <1>5 DEF Respond
<1>6. CASE Fail(r)
  BY <1>3, <1>6 DEF Fail
<1> QED
  BY <1>4, <1>5, <1>6

LEMMA HearSteps == ASSUME NodesInv, NEW m \in Joined, HearAnnounce(m) PROVE Steps
<1> DEFINE infos == [n \in Joined |-> IF n = m THEN 0 ELSE None]
<1>1. infos \in Infos
  BY Ages DEF Infos
<1>2. Learn(remote, requests, infos)
  BY DEF HearAnnounce
<1> HIDE DEF infos
<1>3. View(remote) /\ requests \subseteq Request /\ Addressed(requests, remote)
  BY NodesAsView DEF NodesInv
<1>4. View(remote)' /\ Younger(remote, remote') /\ requests' \subseteq Request
        /\ Addressed(requests, remote)'
  BY <1>1, <1>2, <1>3, LearnView
<1> QED
  BY <1>4 DEF Steps, HearAnnounce, NodesInv, NodesTypeOK

LEMMA SearchSteps == ASSUME NodesInv, StartSearch PROVE Steps
<1> DEFINE A == {NewRequest(remote, m, "search") : m \in {n \in Node : CanSend(remote, n)}}
<1>1. View(remote) /\ requests \subseteq Request /\ Addressed(requests, remote)
  BY NodesAsView DEF NodesInv
<1>2. \A r \in A : \E m \in Node : r = NewRequest(remote, m, "search")
  OBVIOUS
<1>3. requests' = requests \cup A
  BY DEF StartSearch
<1> HIDE DEF A
<1>4. requests' \subseteq Request /\ Addressed(requests', remote)
  BY <1>1, <1>2, <1>3, AddRequests
<1> QED
  BY <1>4, RequestSteps DEF StartSearch, NodesInv, NodesTypeOK

LEMMA OthersSteps ==
  ASSUME NodesInv,
         \/ \E m \in Joined, n \in Node : TellOther(m, n)
         \/ \E m \in Node : GoDownOrUp(m)
  PROVE  Steps
<1>1. requests \subseteq Request /\ Addressed(requests, remote)
        /\ told \in [Node -> Infos] /\ up \subseteq Node
  BY DEF NodesInv, NodesTypeOK
<1>2. ASSUME NEW m \in Joined, NEW n \in Node, TellOther(m, n) PROVE Steps
  <2>1. [told[n] EXCEPT ![m] = 0] \in Infos
    BY <1>1, Ages DEF Infos
  <2>2. told' = [told EXCEPT ![n] = [told[n] EXCEPT ![m] = 0]]
    BY <1>2 DEF TellOther
  <2>3. told' \in [Node -> Infos]
    BY <1>1, <2>1, <2>2
  <2> QED
    BY <1>1, <1>2, <2>3, RequestSteps DEF TellOther
<1>3. ASSUME NEW m \in Node, GoDownOrUp(m) PROVE Steps
  BY <1>1, <1>3, RequestSteps DEF GoDownOrUp
<1> QED
  BY <1>2, <1>3

LEMMA TickSteps == ASSUME NodesInv, Tick PROVE Steps
<1>1. View(remote) /\ told \in [Node -> Infos] /\ requests \subseteq Request
        /\ Addressed(requests, remote)
  BY NodesAsView DEF NodesInv
<1>2. \A i \in 0..Gone \cup {None} : Older(i) \in 0..Gone \cup {None}
                                     /\ (Older(i) = None <=> i = None)
  BY Ages
<1>3. told' \in [Node -> Infos]
  <2>1. told' = [n \in Node |-> [m \in Joined |-> Older(told[n][m])]]
    BY DEF Tick
  <2>2. ASSUME NEW n \in Node, NEW m \in Joined
        PROVE  Older(told[n][m]) \in 0..Gone \cup {None}
    BY <1>1, <1>2 DEF Infos
  <2> QED
    BY <2>1, <2>2 DEF Infos
<1>4. ASSUME NEW m \in Node
      PROVE  LET e == [remote[m] EXCEPT !.info = Older(remote[m].info)]
             IN  /\ e \in Entry /\ e.known = remote[m].known
                 /\ e.bootstrap = remote[m].bootstrap
                 /\ e.info = None <=> remote[m].info = None
                 /\ remote[m].info = None => e = remote[m]
  <2>1. remote[m] \in Entry
    BY <1>1 DEF View
  <2>2. Older(remote[m].info) \in 0..Gone \cup {None}
          /\ (Older(remote[m].info) = None <=> remote[m].info = None)
    BY <1>2, <2>1 DEF Entry
  <2> QED
    BY <2>1, <2>2 DEF Entry
<1>5. View(remote)'
  <2>1. remote' = [m \in Node |-> [remote[m] EXCEPT !.info = Older(remote[m].info)]]
    BY DEF Tick, Aged
  <2>2. remote' \in [Node -> Entry]
    BY <1>4, <2>1
  <2>3. ASSUME NEW m \in Node, ~remote'[m].known
        PROVE  remote'[m] = Unknown
    <3>1. ~remote[m].known
      BY <1>4, <2>1, <2>3
    <3>2. remote[m] = Unknown /\ remote[m].info = None
      BY <1>1, <3>1 DEF View, Unknown
    <3> QED
      BY <1>4, <2>1, <3>2
  <2>4. ASSUME NEW m \in Node, remote'[m].known
        PROVE  remote'[m].bootstrap \/ remote'[m].info # None
    <3>1. remote[m].known
      BY <1>4, <2>1, <2>4
    <3> QED
      BY <1>1, <1>4, <2>1, <3>1 DEF View
  <2> QED
    BY <2>2, <2>3, <2>4 DEF View
<1>6. Addressed(requests, remote)'
  BY DEF Tick, Addressed
<1> QED
  BY <1>1, <1>3, <1>5, <1>6 DEF Tick, Steps, NodesInv, NodesTypeOK

LEMMA NodesSteps == ASSUME NodesInv, Next PROVE Steps
BY ProbeSteps, VisitSteps, VisitNobodySteps, SendSteps, RespondSteps, HearSteps,
   SearchSteps, OthersSteps, TickSteps
DEF Next

LEMMA StepsKeep == ASSUME NodesInv, Steps PROVE NodesInv'
<1>1. NodesTypeOK'
  BY DEF Steps, NodesInv, NodesTypeOK, View, Entry
<1> QED
  BY <1>1 DEF Steps, NodesInv

LEMMA NodesInit == Init => NodesInv
<1> SUFFICES ASSUME Init PROVE NodesInv
  OBVIOUS
<1>1. address \in [Node -> {"http", "udp", "none"}]
  BY NodesAssumption DEF Init
<1>2. told \in [Node -> Infos]
  BY DEF Init, Infos
<1>3. View(remote)
  BY DEF Init, View, Entry, Unknown
<1>4. NodesTypeOK
  BY <1>1, <1>2, <1>3, NodesAsView DEF Init
<1> QED
  BY <1>4 DEF Init, NodesInv, Addressed

LEMMA NodesStay == NodesInv /\ UNCHANGED vars => NodesInv'
BY DEF vars, NodesInv, NodesTypeOK, Addressed

\* The view of the other nodes and the requests are always well formed: a node
\* is kept exactly as long as it is a bootstrap node or there is information
\* about it, and what is forgotten is forgotten entirely.
THEOREM NodesTyped == Spec => []NodesTypeOK
<1>1. NodesInv /\ [Next]_vars => NodesInv'
  BY NodesSteps, StepsKeep, NodesStay
<1>2. NodesInv => NodesTypeOK
  BY DEF NodesInv
<1> QED
  BY <1>1, <1>2, NodesInit, PTL DEF Spec

\* The information about a node is never replaced by an older one, whatever the
\* other nodes knew when they made their responses and however late these come.
THEOREM InfoStaysFresh == Spec => InfoNeverOlder
<1>1. NodesInv /\ [Next]_vars => NodesInv'
  BY NodesSteps, StepsKeep, NodesStay
<1>2. NodesInv /\ [Next]_vars
        => [\A m \in Node : \/ remote[m].info = None \/ remote'[m].info = None
                            \/ remote'[m].info <= remote[m].info
                            \/ remote' = Aged(remote)]_vars
  BY NodesSteps DEF Steps, Younger
<1> QED
  BY <1>1, <1>2, NodesInit, PTL DEF Spec, InfoNeverOlder

=============================================================================
