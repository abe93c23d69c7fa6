----------------------- MODULE ProxyConnection_proofs -----------------------
(***************************************************************************)
(* The safety of the websocket connections to a proxy, for any number of   *)
(* connections, failures and chunks: one connection in use, a request that *)
(* is executed at most once, and a stream that keeps its order.            *)
(***************************************************************************)
EXTENDS ProxyConnection, FiniteSets, FunctionTheorems, FiniteSetTheorems,
        SequenceTheorems, TLAPS

-----------------------------------------------------------------------------

\* how many messages of type t are in q
Count(q, t) == Cardinality({i \in 1..Len(q) : q[i].type = t})

\* how many of them are on their way to side s on slot k
InBox(s, k, t) == Count(inbox[s][k], t)

\* no data comes after the word that the stream is finished
FinishedLast(q) ==
  \A i, j \in 1..Len(q) : q[i].type = "finished" /\ i < j => q[j].type # "data"

(* The life of a slot.  A client that was answered hears from a server     *)
(* that uses the connection, or closes it.                                 *)
SlotOK(k) ==
  /\ link[k] = "free" => \A s \in Side : end[s][k] = "none" /\ inbox[s][k] = << >>
  /\ link[k] = "connecting" => /\ end["client"][k] = "new" /\ end["server"][k] = "none"
                               /\ \A s \in Side : inbox[s][k] = << >>
  /\ link[k] = "open" => \A s \in Side : end[s][k] \in {"new", "ready"}
  /\ end["server"][k] = "ready" => registered["server"] = k \/ link[k] = "closing"
  /\ end["client"][k] = "ready" \/ InBox("client", k, "hello") > 0
       => end["server"][k] \in {"ready", "closed"}

ConnectionOK ==
  /\ \A k \in Conn : SlotOK(k)
  /\ \A s \in Side : registered[s] # None => end[s][registered[s]] = "ready"

(* One request was sent, and is not yet executed while it is on its way; a *)
(* response is one to an executed request.                                 *)
CallOK ==
  /\ \A s \in Side, k \in Conn :
       /\ InBox(s, k, "request") <= 1
       /\ InBox(s, k, "request") > 0 =>
            /\ k = via /\ s = Other(caller)
            /\ executed = 0 /\ outcome # "idle"
       /\ InBox(s, k, "response") > 0 => executed = 1
  /\ handling \/ outcome = "resolved" => executed = 1
  /\ outcome = "idle" => executed = 0

(* One stream is asked for, over one connection; all that was produced was *)
(* received or is on its way, as long as that connection is open, and if   *)
(* the end is on its way too.                                              *)
ProxyStreamOK ==
  /\ \A k \in Conn :
       /\ InBox("client", k, "streamRequest") <= 1
       /\ InBox("client", k, "streamRequest") > 0
            => k = streamConn /\ source = "idle"
       /\ InBox("client", k, "cancel") > 0 => k = streamConn
       /\ \A t \in {"data", "finished", "error"} :
            InBox("server", k, t) > 0 => k = streamConn
       /\ InBox("server", k, "finished") > 0 => source = "ended"
       /\ k = streamConn =>
            /\ link[k] \in {"open", "closing"}
            /\ received + InBox("server", k, "data") <= produced
            /\ told = "none"
                 /\ (link[k] = "open" \/ InBox("server", k, "finished") > 0)
               => received + InBox("server", k, "data") = produced
            /\ FinishedLast(inbox["server"][k])
  /\ told = "idle" => streamConn = None /\ source = "idle"
  /\ source \in {"idle", "loading", "thrown"} => produced = 0

(* The inductive invariant.                                                *)
ProxyInv ==
  /\ ProxyTypeOK
  /\ ConnectionOK
  /\ CallOK
  /\ ProxyStreamOK

-----------------------------------------------------------------------------
(* Counting the messages of a box.                                         *)

LEMMA CountNat ==
  ASSUME NEW q, Len(q) \in Nat, NEW t
  PROVE  Count(q, t) \in Nat /\ IsFiniteSet({i \in 1..Len(q) : q[i].type = t})
<1>1. IsFiniteSet(1..Len(q))
  BY FS_Interval
<1>2. IsFiniteSet({i \in 1..Len(q) : q[i].type = t})
  BY <1>1, FS_Subset
<1> QED
  BY <1>2, FS_CardinalityType DEF Count

LEMMA CountEmpty == \A t : Count(<< >>, t) = 0
<1>1. ASSUME NEW t PROVE {i \in 1..Len(<< >>) : << >>[i].type = t} = {}
  OBVIOUS
<1> QED
  BY <1>1, FS_EmptySet DEF Count

LEMMA CountAppend ==
  ASSUME NEW S, NEW q \in Seq(S), NEW m \in S, NEW t
  PROVE  /\ Append(q, m) \in Seq(S)
         /\ m.type = t => Count(Append(q, m), t) = Count(q, t) + 1
         /\ m.type # t => Count(Append(q, m), t) = Count(q, t)
<1> DEFINE A == {i \in 1..Len(q) : q[i].type = t}
           B == {i \in 1..Len(Append(q, m)) : Append(q, m)[i].type = t}
<1>1. /\ Append(q, m) \in Seq(S) /\ Len(q) \in Nat
      /\ Len(Append(q, m)) = Len(q) + 1
      /\ \A i \in 1..Len(q) : Append(q, m)[i] = q[i]
      /\ Append(q, m)[Len(q) + 1] = m
  BY AppendProperties, LenProperties
<1>2. IsFiniteSet(A) /\ Cardinality(A) \in Nat /\ Cardinality(A) = Count(q, t)
  <2>1. Count(q, t) \in Nat /\ IsFiniteSet({i \in 1..Len(q) : q[i].type = t})
    BY <1>1, CountNat
  <2> QED
    BY <2>1 DEF Count
<1>a. Cardinality(B) = Count(Append(q, m), t)
  BY DEF Count
<1>3. m.type = t => B = A \cup {Len(q) + 1}
  BY <1>1
<1>4. m.type # t => B = A
  BY <1>1
<1>5. Len(q) + 1 \notin A
  BY <1>1
<1> HIDE DEF A, B
<1>6. m.type = t => Cardinality(B) = Cardinality(A) + 1
  BY <1>2, <1>3, <1>5, FS_AddElement
<1> QED
  BY <1>1, <1>2, <1>a, <1>4, <1>6

LEMMA CountTail ==
  ASSUME NEW S, NEW q \in Seq(S), q # << >>, NEW t
  PROVE  /\ Tail(q) \in Seq(S) /\ Head(q) \in S
         /\ Head(q).type = t => Count(Tail(q), t) + 1 = Count(q, t)
         /\ Head(q).type # t => Count(Tail(q), t) = Count(q, t)
<1> DEFINE A == {i \in 1..Len(q) : q[i].type = t}
           B == {i \in 1..Len(Tail(q)) : Tail(q)[i].type = t}
           F == [i \in B |-> i + 1]
<1>1. /\ Tail(q) \in Seq(S) /\ Len(q) \in Nat /\ Len(q) > 0
      /\ Len(Tail(q)) = Len(q) - 1
      /\ \A i \in 1..(Len(q) - 1) : Tail(q)[i] = q[i + 1]
      /\ Head(q) = q[1] /\ Head(q) \in S
  BY HeadTailProperties, LenProperties, EmptySeq, ElementOfSeq
<1>2. /\ IsFiniteSet(A) /\ Cardinality(A) \in Nat
      /\ IsFiniteSet(B) /\ Cardinality(B) \in Nat
      /\ Cardinality(A) = Count(q, t) /\ Cardinality(B) = Count(Tail(q), t)
  <2>1. Count(q, t) \in Nat /\ IsFiniteSet({i \in 1..Len(q) : q[i].type = t})
    BY <1>1, CountNat
  <2>2. Len(Tail(q)) \in Nat
    BY <1>1
  <2>3. /\ Count(Tail(q), t) \in Nat
        /\ IsFiniteSet({i \in 1..Len(Tail(q)) : Tail(q)[i].type = t})
    BY <2>2, CountNat
  <2> QED
    BY <2>1, <2>3 DEF Count
<1>3. F \in Bijection(B, A \ {1})
  <2>1. \A i \in B : i \in Nat /\ i + 1 \in A \ {1}
    BY <1>1
  <2>2. \A j \in A \ {1} : j - 1 \in B /\ (j - 1) + 1 = j
    BY <1>1
  <2>3. F \in [B -> A \ {1}]
    BY <2>1
  <2> HIDE DEF A, B
  <2>4. \A i, j \in B : F[i] = F[j] => i = j
    BY <2>1
  <2>5. \A j \in A \ {1} : \E i \in B : F[i] = j
    BY <2>2
  <2> HIDE DEF F
  <2> QED
    BY <2>3, <2>4, <2>5, Fun_IsBij
<1>4. 1 \in A <=> Head(q).type = t
  BY <1>1
<1> HIDE DEF A, B, F
<1>5. Cardinality(B) = Cardinality(A \ {1})
  BY <1>2, <1>3, FS_Bijection DEF ExistsBijection
<1>6. Cardinality(A \ {1}) = IF 1 \in A THEN Cardinality(A) - 1 ELSE Cardinality(A)
  BY <1>2, FS_RemoveElement
<1> QED
  BY <1>1, <1>2, <1>4, <1>5, <1>6

LEMMA CountNone ==
  ASSUME NEW q, Len(q) \in Nat, NEW t, Count(q, t) = 0
  PROVE  \A i \in 1..Len(q) : q[i].type # t
<1> DEFINE A == {i \in 1..Len(q) : q[i].type = t}
<1>1. IsFiniteSet(A) /\ Cardinality(A) = 0
  BY CountNat DEF Count
<1>2. A = {}
  <2> HIDE DEF A
  <2> QED
    BY <1>1, FS_EmptySet
<1> QED
  BY <1>2

LEMMA NothingFinished ==
  ASSUME NEW q, Len(q) \in Nat, Count(q, "finished") = 0
  PROVE  FinishedLast(q)
BY CountNone DEF FinishedLast

LEMMA FinishedLastAppend ==
  ASSUME NEW S, NEW q \in Seq(S), NEW m \in S, FinishedLast(q),
         m.type # "data" \/ Count(q, "finished") = 0
  PROVE  FinishedLast(Append(q, m))
<1>1. /\ Append(q, m) \in Seq(S) /\ Len(q) \in Nat
      /\ Len(Append(q, m)) = Len(q) + 1
      /\ \A i \in 1..Len(q) : Append(q, m)[i] = q[i]
      /\ Append(q, m)[Len(q) + 1] = m
  BY AppendProperties, LenProperties
<1> SUFFICES ASSUME NEW i \in 1..(Len(q) + 1), NEW j \in 1..(Len(q) + 1),
                    Append(q, m)[i].type = "finished", i < j
             PROVE  Append(q, m)[j].type # "data"
  BY <1>1 DEF FinishedLast
<1>2. i \in 1..Len(q) /\ q[i].type = "finished"
  BY <1>1
<1>3. CASE j \in 1..Len(q)
  BY <1>1, <1>2, <1>3 DEF FinishedLast
<1>4. CASE j = Len(q) + 1
  <2>1. Count(q, "finished") # 0
    BY <1>1, <1>2, CountNone
  <2> QED
    BY <2>1, <1>1, <1>4
<1> QED
  BY <1>1, <1>3, <1>4

LEMMA FinishedLastTail ==
  ASSUME NEW S, NEW q \in Seq(S), q # << >>, FinishedLast(q)
  PROVE  FinishedLast(Tail(q))
<1>1. /\ Len(q) \in Nat /\ Len(q) > 0 /\ Len(Tail(q)) = Len(q) - 1
      /\ \A i \in 1..(Len(q) - 1) : Tail(q)[i] = q[i + 1]
  BY HeadTailProperties, LenProperties, EmptySeq
<1> SUFFICES ASSUME NEW i \in 1..(Len(q) - 1), NEW j \in 1..(Len(q) - 1),
                    Tail(q)[i].type = "finished", i < j
             PROVE  Tail(q)[j].type # "data"
  BY <1>1 DEF FinishedLast
<1>2. i + 1 \in 1..Len(q) /\ j + 1 \in 1..Len(q) /\ i + 1 < j + 1
  BY <1>1
<1> QED
  BY <1>1, <1>2 DEF FinishedLast

-----------------------------------------------------------------------------
(* What happens to the boxes.                                              *)

BoxesTyped == inbox \in [Side -> [Conn -> Seq(Message)]]

\* nothing is put in the box of a slot that is not open
SilentUnlessOpen ==
  \A s \in Side, k \in Conn :
    inbox[s][k] = << >> /\ link[k] # "open" => inbox'[s][k] = << >>

\* the order of the data and the end is kept in the boxes of the server
EndStaysLast ==
  \A k \in Conn :
    FinishedLast(inbox["server"][k]) => FinishedLast(inbox'["server"][k])

LEMMA BoxFacts ==
  ASSUME BoxesTyped, NEW s \in Side, NEW k \in Conn
  PROVE  /\ inbox[s][k] \in Seq(Message)
         /\ Len(inbox[s][k]) \in Nat
         /\ \A t : InBox(s, k, t) \in Nat
         /\ inbox[s][k] = << >> => \A t : InBox(s, k, t) = 0
<1>1. inbox[s][k] \in Seq(Message) /\ Len(inbox[s][k]) \in Nat
  BY LenProperties DEF BoxesTyped
<1> QED
  BY <1>1, CountNat, CountEmpty DEF InBox

LEMMA Sides ==
  /\ "client" \in Side /\ "server" \in Side /\ "client" # "server"
  /\ Other("client") = "server" /\ Other("server") = "client"
  /\ \A s \in Side : s \in {"client", "server"} /\ Other(s) \in Side
                     /\ Other(s) # s
BY DEF Side, Other

MessageTypes == {"hello", "badHello", "request", "response",
                 "streamRequest", "cancel", "data", "finished", "error"}

LEMMA MessageFacts ==
  /\ \A t \in MessageTypes : Msg(t) \in Message /\ Msg(t).type = t
  /\ \A m \in Message : m.type \in MessageTypes
BY DEF Msg, Message, MessageTypes

(* A message is sent.                                                      *)
SendHits(s, k, r, j) == r = Other(s) /\ j = k /\ link[k] = "open"

LEMMA SendBoxes ==
  ASSUME BoxesTyped, NEW s \in Side, NEW k, NEW t \in MessageTypes,
         Send(s, k, t)
  PROVE  /\ BoxesTyped'
         /\ \A r \in Side, j \in Conn :
              inbox'[r][j] = IF SendHits(s, k, r, j)
                             THEN Append(inbox[r][j], Msg(t)) ELSE inbox[r][j]
<1>1. CASE k \in Conn /\ link[k] = "open"
  <2>1. inbox' = [inbox EXCEPT ![Other(s)][k] = Append(@, Msg(t))]
    BY <1>1 DEF Send, Sent
  <2>2. Append(inbox[Other(s)][k], Msg(t)) \in Seq(Message)
    BY <1>1, Sides, BoxFacts, MessageFacts, AppendProperties
  <2> QED
    BY <1>1, <2>1, <2>2, Sides DEF BoxesTyped, SendHits
<1>2. CASE ~(k \in Conn /\ link[k] = "open")
  BY <1>2 DEF Send, Sent, SendHits, BoxesTyped
<1> QED
  BY <1>1, <1>2

LEMMA SendEffect ==
  ASSUME BoxesTyped, NEW s \in Side, NEW k, NEW t \in MessageTypes,
         Send(s, k, t)
  PROVE  /\ BoxesTyped'
         /\ \A r \in Side, j \in Conn : \A u :
              /\ InBox(r, j, u)' = IF SendHits(s, k, r, j) /\ u = t
                                   THEN InBox(r, j, u) + 1 ELSE InBox(r, j, u)
              /\ InBox(r, j, u)' \in Nat /\ InBox(r, j, u) \in Nat
         /\ SilentUnlessOpen
         /\ t # "data" \/ (k \in Conn => InBox("server", k, "finished") = 0)
              => EndStaysLast
<1>1. BoxesTyped'
  BY SendBoxes
<1>2. ASSUME NEW r \in Side, NEW j \in Conn
      PROVE  \A u : /\ InBox(r, j, u)' = IF SendHits(s, k, r, j) /\ u = t
                                   THEN InBox(r, j, u) + 1 ELSE InBox(r, j, u)
                    /\ InBox(r, j, u) \in Nat
  <2>1. inbox[r][j] \in Seq(Message) /\ \A u : InBox(r, j, u) \in Nat
    BY BoxFacts
  <2>2. CASE SendHits(s, k, r, j)
    <3>1. inbox'[r][j] = Append(inbox[r][j], Msg(t))
      BY <2>2, SendBoxes
    <3>2. Msg(t) \in Message /\ Msg(t).type = t
      BY MessageFacts
    <3>3. \A u : Count(Append(inbox[r][j], Msg(t)), u) =
                   IF u = t THEN Count(inbox[r][j], u) + 1 ELSE Count(inbox[r][j], u)
      BY <2>1, <3>2, CountAppend
    <3> QED
      BY <2>1, <2>2, <3>1, <3>3 DEF InBox
  <2>3. CASE ~SendHits(s, k, r, j)
    <3>1. inbox'[r][j] = inbox[r][j]
      BY <2>3, SendBoxes
    <3> QED
      BY <2>1, <2>3, <3>1 DEF InBox
  <2> QED
    BY <2>2, <2>3
<1>3. SilentUnlessOpen
  BY SendBoxes DEF SilentUnlessOpen, SendHits
<1>4. ASSUME t # "data" \/ (k \in Conn => InBox("server", k, "finished") = 0),
             NEW j \in Conn, FinishedLast(inbox["server"][j])
      PROVE  FinishedLast(inbox'["server"][j])
  <2>1. inbox["server"][j] \in Seq(Message)
    BY Sides, BoxFacts
  <2>2. Msg(t) \in Message /\ Msg(t).type = t
    BY MessageFacts
  <2>3. CASE SendHits(s, k, "server", j)
    <3>1. inbox'["server"][j] = Append(inbox["server"][j], Msg(t))
      BY <2>3, SendBoxes, Sides
    <3>2. t # "data" \/ Count(inbox["server"][j], "finished") = 0
      BY <1>4, <2>3 DEF SendHits, InBox
    <3> QED
      BY <1>4, <2>1, <2>2, <3>1, <3>2, FinishedLastAppend
  <2>4. CASE ~SendHits(s, k, "server", j)
    BY <1>4, <2>4, SendBoxes, Sides
  <2> QED
    BY <2>3, <2>4
<1>5. \A r \in Side, j \in Conn : \A u : InBox(r, j, u)' \in Nat
  BY <1>2
<1> QED
  BY <1>1, <1>2, <1>3, <1>4, <1>5 DEF EndStaysLast

(* A message is taken, and a message is answered at once.                  *)
LEMMA TakeBoxes ==
  ASSUME BoxesTyped, NEW s \in Side, NEW k \in Conn, inbox[s][k] # << >>
  PROVE  /\ Taken(s, k) \in [Side -> [Conn -> Seq(Message)]]
         /\ \A r \in Side, j \in Conn :
              Taken(s, k)[r][j] = IF r = s /\ j = k
                                  THEN Tail(inbox[r][j]) ELSE inbox[r][j]
<1>1. Tail(inbox[s][k]) \in Seq(Message)
  BY BoxFacts, CountTail
<1> QED
  BY <1>1 DEF BoxesTyped, Taken

LEMMA TakeEffect ==
  ASSUME BoxesTyped, NEW s \in Side, NEW k \in Conn, inbox[s][k] # << >>,
         inbox' = Taken(s, k)
  PROVE  /\ BoxesTyped'
         /\ \A r \in Side, j \in Conn : \A u :
              /\ InBox(r, j, u)' = IF r = s /\ j = k /\ u = Head(inbox[s][k]).type
                                   THEN InBox(r, j, u) - 1 ELSE InBox(r, j, u)
              /\ InBox(r, j, u)' \in Nat /\ InBox(r, j, u) \in Nat
         /\ SilentUnlessOpen
         /\ EndStaysLast
<1> DEFINE h == Head(inbox[s][k]).type
<1>1. BoxesTyped'
  BY TakeBoxes DEF BoxesTyped
<1>2. ASSUME NEW r \in Side, NEW j \in Conn
      PROVE  \A u : /\ InBox(r, j, u)' = IF r = s /\ j = k /\ u = h
                                         THEN InBox(r, j, u) - 1 ELSE InBox(r, j, u)
                    /\ InBox(r, j, u) \in Nat
  <2>1. \A u : InBox(r, j, u) \in Nat
    BY BoxFacts
  <2>2. CASE r = s /\ j = k
    <3>1. inbox'[r][j] = Tail(inbox[s][k]) /\ inbox[s][k] \in Seq(Message)
      BY <2>2, TakeBoxes, BoxFacts
    <3>2. \A u : /\ u = h => Count(Tail(inbox[s][k]), u) + 1 = Count(inbox[s][k], u)
                 /\ u # h => Count(Tail(inbox[s][k]), u) = Count(inbox[s][k], u)
      BY <3>1, CountTail
    <3>3. \A u : Count(Tail(inbox[s][k]), u) \in Nat
      BY <3>1, CountTail, CountNat, LenProperties
    <3> HIDE DEF h
    <3>4. \A u : Count(Tail(inbox[s][k]), u) = IF u = h THEN Count(inbox[s][k], u) - 1
                                               ELSE Count(inbox[s][k], u)
      BY <2>1, <2>2, <3>2, <3>3 DEF InBox
    <3> QED
      BY <2>1, <2>2, <3>1, <3>4 DEF InBox
  <2>3. CASE ~(r = s /\ j = k)
    <3>1. inbox'[r][j] = inbox[r][j]
      BY <2>3, TakeBoxes
    <3> QED
      BY <2>1, <2>3, <3>1 DEF InBox
  <2> QED
    BY <2>2, <2>3
<1>3. SilentUnlessOpen
  BY TakeBoxes DEF SilentUnlessOpen
<1>4. ASSUME NEW j \in Conn, FinishedLast(inbox["server"][j])
      PROVE  FinishedLast(inbox'["server"][j])
  <2>1. inbox["server"][j] \in Seq(Message)
    BY Sides, BoxFacts
  <2>2. CASE "server" = s /\ j = k
    BY <1>4, <2>1, <2>2, TakeBoxes, FinishedLastTail
  <2>3. CASE ~("server" = s /\ j = k)
    BY <1>4, <2>3, TakeBoxes, Sides
  <2> QED
    BY <2>2, <2>3
<1>5. ASSUME NEW r \in Side, NEW j \in Conn
      PROVE  \A u : InBox(r, j, u)' \in Nat
  <2>1. inbox'[r][j] \in Seq(Message)
    BY <1>1 DEF BoxesTyped
  <2> QED
    BY <2>1, CountNat, LenProperties DEF InBox
<1> QED
  BY <1>1, <1>2, <1>3, <1>4, <1>5 DEF EndStaysLast

LEMMA TakeAndSendEffect ==
  ASSUME BoxesTyped, NEW s \in Side, NEW k \in Conn, inbox[s][k] # << >>,
         NEW t \in MessageTypes, t # "data", TakeAndSend(s, k, t)
  PROVE  /\ BoxesTyped'
         /\ \A r \in Side, j \in Conn : \A u :
              /\ InBox(r, j, u)' = IF r = s /\ j = k /\ u = Head(inbox[s][k]).type
                                   THEN InBox(r, j, u) - 1
                                   ELSE IF SendHits(s, k, r, j) /\ u = t
                                   THEN InBox(r, j, u) + 1 ELSE InBox(r, j, u)
              /\ InBox(r, j, u)' \in Nat /\ InBox(r, j, u) \in Nat
         /\ SilentUnlessOpen
         /\ EndStaysLast
<1> DEFINE h == Head(inbox[s][k]).type
           q == inbox[Other(s)][k]
<1>1. /\ q \in Seq(Message) /\ Msg(t) \in Message /\ Msg(t).type = t
      /\ Append(q, Msg(t)) \in Seq(Message)
  BY Sides, BoxFacts, MessageFacts, AppendProperties
<1>2. /\ BoxesTyped'
      /\ \A r \in Side, j \in Conn :
           inbox'[r][j] = IF r = s /\ j = k THEN Tail(inbox[r][j])
                          ELSE IF SendHits(s, k, r, j)
                          THEN Append(inbox[r][j], Msg(t)) ELSE inbox[r][j]
  <2>1. Taken(s, k)[Other(s)][k] = q
    BY TakeBoxes, Sides
  <2>2. inbox' = [Taken(s, k) EXCEPT ![Other(s)][k] =
                    IF link[k] = "open" THEN Append(q, Msg(t)) ELSE q]
    BY <2>1 DEF TakeAndSend
  <2> HIDE DEF q
  <2>3. BoxesTyped'
    BY <1>1, <2>2, TakeBoxes, Sides DEF BoxesTyped
  <2>4. ASSUME NEW r \in Side, NEW j \in Conn
        PROVE  inbox'[r][j] = IF r = s /\ j = k THEN Tail(inbox[r][j])
                              ELSE IF SendHits(s, k, r, j)
                              THEN Append(inbox[r][j], Msg(t)) ELSE inbox[r][j]
    <3>1. CASE r = Other(s) /\ j = k
      <4>1. inbox'[r][j] = IF link[k] = "open" THEN Append(q, Msg(t)) ELSE q
        BY <2>2, <3>1, TakeBoxes, Sides
      <4>2. q = inbox[r][j] /\ r # s
        BY <3>1, Sides DEF q
      <4> QED
        BY <3>1, <4>1, <4>2 DEF SendHits
    <3>2. CASE ~(r = Other(s) /\ j = k)
      <4>1. inbox'[r][j] = Taken(s, k)[r][j]
        BY <2>2, <3>2, TakeBoxes, Sides
      <4> QED
        BY <3>2, <4>1, TakeBoxes DEF SendHits
    <3> QED
      BY <3>1, <3>2
  <2> QED
    BY <2>3, <2>4
<1>3. ASSUME NEW r \in Side, NEW j \in Conn
      PROVE  \A u : /\ InBox(r, j, u)' = IF r = s /\ j = k /\ u = h
                                         THEN InBox(r, j, u) - 1
                                         ELSE IF SendHits(s, k, r, j) /\ u = t
                                         THEN InBox(r, j, u) + 1 ELSE InBox(r, j, u)
                    /\ InBox(r, j, u) \in Nat
  <2>1. inbox[r][j] \in Seq(Message) /\ \A u : InBox(r, j, u) \in Nat
    BY BoxFacts
  <2>2. CASE r = s /\ j = k
    <3>1. inbox'[r][j] = Tail(inbox[s][k]) /\ inbox[s][k] \in Seq(Message)
          /\ ~SendHits(s, k, r, j)
      BY <1>2, <2>1, <2>2, Sides DEF SendHits
    <3>2. \A u : /\ u = h => Count(Tail(inbox[s][k]), u) + 1 = Count(inbox[s][k], u)
                 /\ u # h => Count(Tail(inbox[s][k]), u) = Count(inbox[s][k], u)
      BY <3>1, CountTail
    <3>3. \A u : Count(Tail(inbox[s][k]), u) \in Nat
      BY <3>1, CountTail, CountNat, LenProperties
    <3> HIDE DEF h
    <3>4. \A u : Count(Tail(inbox[s][k]), u) = IF u = h THEN Count(inbox[s][k], u) - 1
                                               ELSE Count(inbox[s][k], u)
      BY <2>1, <2>2, <3>2, <3>3 DEF InBox
    <3> QED
      BY <2>1, <2>2, <3>1, <3>4 DEF InBox
  <2>3. CASE ~(r = s /\ j = k) /\ SendHits(s, k, r, j)
    <3>1. inbox'[r][j] = Append(inbox[r][j], Msg(t))
      BY <1>2, <2>3
    <3>2. \A u : Count(Append(inbox[r][j], Msg(t)), u) =
                   IF u = t THEN Count(inbox[r][j], u) + 1 ELSE Count(inbox[r][j], u)
      BY <1>1, <2>1, CountAppend
    <3> QED
      BY <2>1, <2>3, <3>1, <3>2 DEF InBox
  <2>4. CASE ~(r = s /\ j = k) /\ ~SendHits(s, k, r, j)
    <3>1. inbox'[r][j] = inbox[r][j]
      BY <1>2, <2>4
    <3> QED
      BY <2>1, <2>4, <3>1 DEF InBox
  <2> QED
    BY <2>2, <2>3, <2>4
<1>4. SilentUnlessOpen
  <2> SUFFICES ASSUME NEW r \in Side, NEW j \in Conn,
                      inbox[r][j] = << >>, link[j] # "open"
               PROVE  inbox'[r][j] = << >>
    BY DEF SilentUnlessOpen
  <2>1. ~(r = s /\ j = k) /\ ~SendHits(s, k, r, j)
    BY DEF SendHits
  <2> QED
    BY <1>2, <2>1
<1>5. ASSUME NEW j \in Conn, FinishedLast(inbox["server"][j])
      PROVE  FinishedLast(inbox'["server"][j])
  <2>1. inbox["server"][j] \in Seq(Message)
    BY Sides, BoxFacts
  <2>2. CASE "server" = s /\ j = k
    <3>1. inbox'["server"][j] = Tail(inbox["server"][j]) /\ inbox["server"][j] # << >>
      BY <1>2, <2>2, Sides
    <3> QED
      BY <1>5, <2>1, <3>1, FinishedLastTail
  <2>3. CASE ~("server" = s /\ j = k) /\ SendHits(s, k, "server", j)
    <3>1. inbox'["server"][j] = Append(inbox["server"][j], Msg(t))
      BY <1>2, <2>3, Sides
    <3> QED
      BY <1>1, <1>5, <2>1, <3>1, FinishedLastAppend
  <2>4. CASE ~("server" = s /\ j = k) /\ ~SendHits(s, k, "server", j)
    <3>1. inbox'["server"][j] = inbox["server"][j]
      BY <1>2, <2>4, Sides
    <3> QED
      BY <1>5, <3>1
  <2> QED
    BY <2>2, <2>3, <2>4
<1>6. ASSUME NEW r \in Side, NEW j \in Conn
      PROVE  \A u : InBox(r, j, u)' \in Nat
  <2>1. inbox'[r][j] \in Seq(Message)
    BY <1>2 DEF BoxesTyped
  <2> QED
    BY <2>1, CountNat, LenProperties DEF InBox
<1> QED
  BY <1>2, <1>3, <1>4, <1>5, <1>6 DEF EndStaysLast

-----------------------------------------------------------------------------
(* What a step leaves alone.                                               *)

StreamTypes == {"streamRequest", "cancel", "data", "finished", "error"}

\* only messages of the types T come and go
OnlyMessages(T) ==
  \A s \in Side, k \in Conn : \A u : u \notin T => InBox(s, k, u)' = InBox(s, k, u)

(* The connections notice nothing of requests and streams.                 *)
LEMMA ConnectionsKept ==
  ASSUME ConnectionOK, UNCHANGED connVars, SilentUnlessOpen,
         \A k \in Conn : InBox("client", k, "hello")' = InBox("client", k, "hello")
  PROVE  ConnectionOK'
<1>1. UNCHANGED <<link, end, registered>>
  BY DEF connVars, linkVars
<1>2. ASSUME NEW k \in Conn PROVE SlotOK(k)'
  <2>1. SlotOK(k)
    BY DEF ConnectionOK
  <2>2. \A s \in Side : inbox[s][k] = << >> /\ link[k] # "open" => inbox'[s][k] = << >>
    BY DEF SilentUnlessOpen
  <2>3. InBox("client", k, "hello")' = InBox("client", k, "hello")
    OBVIOUS
  <2> QED
    BY <1>1, <2>1, <2>2, <2>3 DEF SlotOK
<1>3. \A s \in Side : registered'[s] # None => end'[s][registered'[s]] = "ready"
  BY <1>1 DEF ConnectionOK
<1> QED
  BY <1>2, <1>3 DEF ConnectionOK

(* A request notices nothing of the rest, but that its connection is over. *)
LEMMA CallKept ==
  ASSUME CallOK, BoxesTyped, UNCHANGED <<outcome, caller, executed, handling>>,
         \A s \in Side, k \in Conn :
           \/ \A t \in {"request", "response"} : InBox(s, k, t)' = InBox(s, k, t)
           \/ inbox'[s][k] = << >>,
         \A s \in Side : via \in Conn => via' = via \/ inbox'[s][via] = << >>
  PROVE  CallOK'
<1>1. ASSUME NEW s \in Side, NEW k \in Conn
      PROVE  /\ InBox(s, k, "request")' <= 1
             /\ InBox(s, k, "request")' > 0 =>
                  /\ k = via' /\ s = Other(caller')
                  /\ executed' = 0 /\ outcome' # "idle"
             /\ InBox(s, k, "response")' > 0 => executed' = 1
  <2>1. CASE inbox'[s][k] = << >>
    <3>1. \A t : InBox(s, k, t)' = 0
      BY <2>1, CountEmpty DEF InBox
    <3> QED
      BY <3>1
  <2>2. CASE /\ inbox'[s][k] # << >>
             /\ \A t \in {"request", "response"} : InBox(s, k, t)' = InBox(s, k, t)
    <3>1. /\ InBox(s, k, "request")' = InBox(s, k, "request")
          /\ InBox(s, k, "response")' = InBox(s, k, "response")
      BY <2>2
    <3>2. k = via => via' = via
      BY <2>2
    <3> QED
      BY <3>1, <3>2 DEF CallOK
  <2> QED
    BY <2>1, <2>2
<1>2. (handling' \/ outcome' = "resolved" => executed' = 1)
      /\ (outcome' = "idle" => executed' = 0)
  BY DEF CallOK
<1> QED
  BY <1>1, <1>2 DEF CallOK

(* Nor does a stream.                                                      *)
LEMMA StreamKept ==
  ASSUME ProxyStreamOK, BoxesTyped, EndStaysLast,
         received \in Nat, produced \in Nat, received <= produced,
         UNCHANGED <<told, received, source, produced>>,
         \A s \in Side, k \in Conn :
           \/ \A t \in StreamTypes : InBox(s, k, t)' = InBox(s, k, t)
           \/ inbox'[s][k] = << >> /\ link'[k] # "open",
         streamConn' = streamConn \/ streamConn' = None,
         \A s \in Side : streamConn \in Conn =>
           streamConn' = streamConn \/ inbox'[s][streamConn] = << >>,
         streamConn \in Conn => \/ streamConn' # streamConn
                                \/ link'[streamConn] \in {link[streamConn], "closing"}
  PROVE  ProxyStreamOK'
<1>0. None \notin Conn /\ "client" \in Side /\ "server" \in Side
  BY ProxyAssumption, Sides
<1>1. ASSUME NEW s \in Side, NEW k \in Conn
      PROVE  \/ /\ k = streamConn => streamConn' = streamConn
                /\ \A t \in StreamTypes : InBox(s, k, t)' = InBox(s, k, t)
             \/ /\ \A t \in StreamTypes : InBox(s, k, t)' = 0
                /\ inbox'[s][k] = << >>
                /\ k = streamConn' => link'[k] # "open"
  <2>1. CASE inbox'[s][k] = << >>
    <3>1. \A t : InBox(s, k, t)' = 0
      BY <2>1, CountEmpty DEF InBox
    <3>2. CASE link'[k] # "open"
      BY <2>1, <3>1, <3>2
    <3>3. CASE streamConn' # streamConn
      BY <1>0, <2>1, <3>1, <3>3
    <3>4. CASE link'[k] = "open" /\ streamConn' = streamConn
      BY <3>4
    <3> QED
      BY <3>2, <3>3, <3>4
  <2>2. CASE inbox'[s][k] # << >>
    BY <2>2
  <2> QED
    BY <2>1, <2>2
<1>2. ASSUME NEW k \in Conn
      PROVE  /\ InBox("client", k, "streamRequest")' <= 1
             /\ InBox("client", k, "streamRequest")' > 0
                  => k = streamConn' /\ source' = "idle"
             /\ InBox("client", k, "cancel")' > 0 => k = streamConn'
  <2>1. /\ InBox("client", k, "streamRequest") <= 1
        /\ InBox("client", k, "streamRequest") > 0 => k = streamConn /\ source = "idle"
        /\ InBox("client", k, "cancel") > 0 => k = streamConn
    BY DEF ProxyStreamOK
  <2>2. \/ /\ k = streamConn => streamConn' = streamConn
           /\ InBox("client", k, "streamRequest")' = InBox("client", k, "streamRequest")
           /\ InBox("client", k, "cancel")' = InBox("client", k, "cancel")
        \/ /\ InBox("client", k, "streamRequest")' = 0
           /\ InBox("client", k, "cancel")' = 0
    BY <1>0, <1>1 DEF StreamTypes
  <2> QED
    BY <2>1, <2>2
<1>3. ASSUME NEW k \in Conn
      PROVE  /\ \A t \in {"data", "finished", "error"} :
                  InBox("server", k, t)' > 0 => k = streamConn'
             /\ InBox("server", k, "finished")' > 0 => source' = "ended"
             /\ k = streamConn' =>
                  /\ link'[k] \in {"open", "closing"}
                  /\ received' + InBox("server", k, "data")' <= produced'
                  /\ told' = "none"
                       /\ (link'[k] = "open" \/ InBox("server", k, "finished")' > 0)
                     => received' + InBox("server", k, "data")' = produced'
                  /\ FinishedLast(inbox'["server"][k])
  <2>1. /\ \A t \in {"data", "finished", "error"} :
             InBox("server", k, t) > 0 => k = streamConn
        /\ InBox("server", k, "finished") > 0 => source = "ended"
        /\ k = streamConn =>
             /\ link[k] \in {"open", "closing"}
             /\ received + InBox("server", k, "data") <= produced
             /\ told = "none" /\ (link[k] = "open" \/ InBox("server", k, "finished") > 0)
                => received + InBox("server", k, "data") = produced
             /\ FinishedLast(inbox["server"][k])
    BY DEF ProxyStreamOK
  <2>2. k = streamConn' => k = streamConn /\ link'[k] \in {link[k], "closing"}
    BY <1>0
  <2>3. FinishedLast(inbox["server"][k]) => FinishedLast(inbox'["server"][k])
    BY DEF EndStaysLast
  <2>4. CASE /\ k = streamConn => streamConn' = streamConn
             /\ \A t \in StreamTypes : InBox("server", k, t)' = InBox("server", k, t)
    <3>1. /\ InBox("server", k, "data")' = InBox("server", k, "data")
          /\ InBox("server", k, "finished")' = InBox("server", k, "finished")
          /\ InBox("server", k, "error")' = InBox("server", k, "error")
      BY <2>4 DEF StreamTypes
    <3> QED
      BY <2>1, <2>2, <2>3, <2>4, <3>1
  <2>5. CASE /\ \A t \in StreamTypes : InBox("server", k, t)' = 0
             /\ k = streamConn' => link'[k] # "open"
    <3>1. /\ InBox("server", k, "data")' = 0
          /\ InBox("server", k, "finished")' = 0
          /\ InBox("server", k, "error")' = 0
      BY <2>5 DEF StreamTypes
    <3> QED
      BY <2>1, <2>2, <2>3, <2>5, <3>1
  <2> QED
    BY <1>0, <1>1, <2>4, <2>5
<1>4. /\ told' = "idle" => streamConn' = None /\ source' = "idle"
      /\ source' \in {"idle", "loading", "thrown"} => produced' = 0
  BY DEF ProxyStreamOK
<1> QED
  BY <1>2, <1>3, <1>4 DEF ProxyStreamOK

LEMMA ProxyFacts ==
  ASSUME ProxyInv
  PROVE  /\ BoxesTyped /\ None \notin Conn /\ "client" \in Side /\ "server" \in Side
         /\ \A s \in Side : registered[s] # None => registered[s] \in Conn
         /\ MaxChunks \in Nat /\ produced \in Nat /\ received \in Nat
         /\ received <= produced /\ executed \in 0..1
         /\ ConnectionOK /\ CallOK /\ ProxyStreamOK
BY ProxyAssumption, Sides DEF ProxyInv, ProxyTypeOK, BoxesTyped

LEMMA RequestsOnly ==
  ASSUME ProxyInv, UNCHANGED <<connVars, streamVars>>, SilentUnlessOpen, EndStaysLast,
         OnlyMessages({"request", "response"}), BoxesTyped',
         outcome' \in {"idle", "waiting", "resolved", "rejected"},
         caller' \in Side, via' \in Conn \cup {None},
         executed' \in 0..1, handling' \in BOOLEAN, online' \in BOOLEAN,
         CallOK'
  PROVE  ProxyInv'
<1>1. ProxyTypeOK'
  BY DEF ProxyInv, ProxyTypeOK, BoxesTyped, connVars, linkVars, streamVars
<1>2. ConnectionOK'
  BY ProxyFacts, ConnectionsKept DEF OnlyMessages
<1>3. ProxyStreamOK'
  <2>1. \A s \in Side, k \in Conn : \A t \in StreamTypes : InBox(s, k, t)' = InBox(s, k, t)
    BY DEF OnlyMessages, StreamTypes
  <2>2. UNCHANGED <<link, told, streamConn, received, source, produced>>
    BY DEF connVars, linkVars, streamVars
  <2> QED
    BY <2>1, <2>2, ProxyFacts, StreamKept
<1> QED
  BY <1>1, <1>2, <1>3 DEF ProxyInv

LEMMA StreamsOnly ==
  ASSUME ProxyInv, UNCHANGED <<connVars, requestVars>>, SilentUnlessOpen,
         OnlyMessages(StreamTypes), BoxesTyped',
         told' \in {"idle", "none", "finished", "error"},
         streamConn' \in Conn \cup {None},
         source' \in {"idle", "loading", "thrown", "open", "ended", "failed"},
         produced' \in 0..MaxChunks, received' \in 0..produced',
         ProxyStreamOK'
  PROVE  ProxyInv'
<1>1. ProxyTypeOK'
  BY DEF ProxyInv, ProxyTypeOK, BoxesTyped, connVars, linkVars, requestVars
<1>2. ConnectionOK'
  BY ProxyFacts, ConnectionsKept DEF OnlyMessages, StreamTypes
<1>3. CallOK'
  <2>1. \A s \in Side, k \in Conn : \A t \in {"request", "response"} :
          InBox(s, k, t)' = InBox(s, k, t)
    BY DEF OnlyMessages, StreamTypes
  <2>2. UNCHANGED <<outcome, caller, via, executed, handling>>
    BY DEF requestVars
  <2> QED
    BY <2>1, <2>2, ProxyFacts, CallKept
<1> QED
  BY <1>1, <1>2, <1>3 DEF ProxyInv

LEMMA ConnectionsOnly ==
  ASSUME ProxyInv, UNCHANGED <<requestVars, streamVars>>, EndStaysLast, BoxesTyped',
         \A s \in Side, k \in Conn :
           \/ \A u : u \notin {"hello", "badHello"} => InBox(s, k, u)' = InBox(s, k, u)
           \/ inbox'[s][k] = << >> /\ link'[k] # "open",
         \A k \in Conn : link[k] \in {"open", "closing"} => link'[k] \in {link[k], "closing"},
         link' \in [Conn -> {"free", "connecting", "open", "closing"}],
         end' \in [Side -> [Conn -> {"none", "new", "ready", "closed"}]],
         registered' \in [Side -> Conn \cup {None}],
         failedLately' \in BOOLEAN, breaks' \in 0..Breaks,
         ConnectionOK'
  PROVE  ProxyInv'
<1>0. ProxyTypeOK'
  BY DEF ProxyInv, ProxyTypeOK, BoxesTyped, requestVars, streamVars
<1>1. CallOK'
  <2>1. \A s \in Side, k \in Conn :
           \/ \A t \in {"request", "response"} : InBox(s, k, t)' = InBox(s, k, t)
           \/ inbox'[s][k] = << >>
    OBVIOUS
  <2>2. UNCHANGED <<outcome, caller, via, executed, handling>>
    BY DEF requestVars
  <2> QED
    BY <2>1, <2>2, ProxyFacts, CallKept
<1>2. ProxyStreamOK'
  <2>1. \A s \in Side, k \in Conn :
           \/ \A t \in StreamTypes : InBox(s, k, t)' = InBox(s, k, t)
           \/ inbox'[s][k] = << >> /\ link'[k] # "open"
    BY DEF StreamTypes
  <2>2. UNCHANGED <<told, streamConn, received, source, produced>>
    BY DEF streamVars
  <2>3. streamConn \in Conn => link'[streamConn] \in {link[streamConn], "closing"}
    BY ProxyFacts DEF ProxyStreamOK
  <2> QED
    BY <2>1, <2>2, <2>3, ProxyFacts, StreamKept
<1> QED
  BY <1>0, <1>1, <1>2 DEF ProxyInv

-----------------------------------------------------------------------------
(* The steps of a request.                                                 *)

LEMMA SendRequestStep ==
  ASSUME ProxyInv, NEW s \in Side, SendRequest(s)
  PROVE  ProxyInv'
<1> DEFINE k == registered[s]
<1>1. /\ outcome = "idle" /\ k \in Conn /\ outcome' = "waiting"
      /\ caller' = s /\ via' = k /\ Send(s, k, "request")
      /\ UNCHANGED <<connVars, online, executed, handling, streamVars>>
  BY ProxyFacts DEF SendRequest
<1> HIDE DEF k
<1>2. "request" \in MessageTypes
  BY DEF MessageTypes
<1>3. /\ BoxesTyped' /\ SilentUnlessOpen /\ EndStaysLast
      /\ \A r \in Side, j \in Conn : \A u :
           /\ InBox(r, j, u)' = IF SendHits(s, k, r, j) /\ u = "request"
                                THEN InBox(r, j, u) + 1 ELSE InBox(r, j, u)
           /\ InBox(r, j, u)' \in Nat /\ InBox(r, j, u) \in Nat
  BY <1>1, <1>2, ProxyFacts, SendEffect
<1>4. OnlyMessages({"request", "response"})
  BY <1>3 DEF OnlyMessages
<1>5. /\ executed = 0 /\ handling = FALSE
      /\ \A r \in Side, j \in Conn :
           InBox(r, j, "request") = 0 /\ InBox(r, j, "response") = 0
  <2>1. \A r \in Side, j \in Conn :
          InBox(r, j, "request") \in Nat /\ InBox(r, j, "response") \in Nat
    BY <1>3
  <2> QED
    BY <1>1, <2>1, ProxyFacts DEF CallOK, ProxyInv, ProxyTypeOK
<1>6. CallOK'
  <2>1. \A r \in Side, j \in Conn :
          /\ InBox(r, j, "request")' = IF SendHits(s, k, r, j) THEN 1 ELSE 0
          /\ InBox(r, j, "response")' = 0
    BY <1>3, <1>5
  <2> QED
    BY <1>1, <1>5, <2>1 DEF CallOK, SendHits
<1>7. /\ outcome' \in {"idle", "waiting", "resolved", "rejected"}
      /\ caller' \in Side /\ via' \in Conn \cup {None}
      /\ executed' \in 0..1 /\ handling' \in BOOLEAN /\ online' \in BOOLEAN
  BY <1>1, <1>5 DEF ProxyInv, ProxyTypeOK
<1> QED
  BY <1>1, <1>3, <1>4, <1>5, <1>6, <1>7, RequestsOnly

LEMMA HandleRequestStep ==
  ASSUME ProxyInv, NEW s \in Side, NEW k \in Conn, HandleRequest(s, k)
  PROVE  ProxyInv'
<1>1. /\ inbox[s][k] # << >> /\ Head(inbox[s][k]).type = "request"
      /\ inbox' = Taken(s, k) /\ executed' = executed + 1 /\ handling' = TRUE
      /\ UNCHANGED <<connVars, online, outcome, caller, via, streamVars>>
  BY DEF HandleRequest, NextMessage
<1>2. /\ BoxesTyped' /\ SilentUnlessOpen /\ EndStaysLast
      /\ \A r \in Side, j \in Conn : \A u :
           /\ InBox(r, j, u)' = IF r = s /\ j = k /\ u = "request"
                                THEN InBox(r, j, u) - 1 ELSE InBox(r, j, u)
           /\ InBox(r, j, u)' \in Nat /\ InBox(r, j, u) \in Nat
  BY <1>1, ProxyFacts, TakeEffect
<1>3. OnlyMessages({"request", "response"})
  BY <1>2 DEF OnlyMessages
<1>4. /\ InBox(s, k, "request") = 1 /\ k = via /\ s = Other(caller)
      /\ executed = 0 /\ outcome # "idle"
  <2>1. /\ InBox(s, k, "request") \in Nat /\ InBox(s, k, "request") - 1 \in Nat
    BY <1>2
  <2> QED
    BY <2>1, ProxyFacts DEF CallOK
<1>5. \A r \in Side, j \in Conn : InBox(r, j, "request")' = 0
  <2> SUFFICES ASSUME NEW r \in Side, NEW j \in Conn
               PROVE  InBox(r, j, "request")' = 0
    OBVIOUS
  <2>1. CASE r = s /\ j = k
    BY <1>2, <1>4, <2>1
  <2>2. CASE ~(r = s /\ j = k)
    <3>1. InBox(r, j, "request")' = InBox(r, j, "request") /\ InBox(r, j, "request") \in Nat
      BY <1>2, <2>2
    <3> QED
      BY <1>4, <2>2, <3>1, ProxyFacts DEF CallOK
  <2> QED
    BY <2>1, <2>2
<1>6. CallOK'
  BY <1>1, <1>4, <1>5 DEF CallOK
<1>7. /\ outcome' \in {"idle", "waiting", "resolved", "rejected"}
      /\ caller' \in Side /\ via' \in Conn \cup {None}
      /\ executed' \in 0..1 /\ handling' \in BOOLEAN /\ online' \in BOOLEAN
  BY <1>1, <1>4 DEF ProxyInv, ProxyTypeOK
<1> QED
  BY <1>1, <1>2, <1>3, <1>4, <1>6, <1>7, RequestsOnly

LEMMA HandlerReturnsStep ==
  ASSUME ProxyInv, HandlerReturns
  PROVE  ProxyInv'
<1>1. /\ handling /\ handling' = FALSE
      /\ Send(Other(caller), via, "response") \/ UNCHANGED inbox
      /\ UNCHANGED <<connVars, online, outcome, caller, via, executed, streamVars>>
  BY DEF HandlerReturns
<1>2. executed = 1 /\ Other(caller) \in Side /\ "response" \in MessageTypes
  BY <1>1, ProxyFacts, Sides DEF CallOK, ProxyInv, ProxyTypeOK, MessageTypes
<1>3. /\ BoxesTyped' /\ SilentUnlessOpen /\ EndStaysLast
      /\ \A r \in Side, j \in Conn : \A u : u # "response" =>
           InBox(r, j, u)' = InBox(r, j, u)
  <2>1. CASE Send(Other(caller), via, "response")
    BY <1>2, <2>1, ProxyFacts, SendEffect
  <2>2. CASE UNCHANGED inbox
    BY <2>2, ProxyFacts DEF BoxesTyped, SilentUnlessOpen, EndStaysLast, InBox
  <2> QED
    BY <1>1, <2>1, <2>2
<1>4. OnlyMessages({"request", "response"})
  BY <1>3 DEF OnlyMessages
<1>5. CallOK'
  BY <1>1, <1>2, <1>3, ProxyFacts DEF CallOK
<1>7. /\ outcome' \in {"idle", "waiting", "resolved", "rejected"}
      /\ caller' \in Side /\ via' \in Conn \cup {None}
      /\ executed' \in 0..1 /\ handling' \in BOOLEAN /\ online' \in BOOLEAN
  BY <1>1 DEF ProxyInv, ProxyTypeOK
<1> QED
  BY <1>1, <1>3, <1>4, <1>5, <1>7, RequestsOnly

LEMMA HandleResponseStep ==
  ASSUME ProxyInv, NEW s \in Side, NEW k \in Conn, HandleResponse(s, k)
  PROVE  ProxyInv' /\ executed = 1
<1>1. /\ inbox[s][k] # << >> /\ Head(inbox[s][k]).type = "response"
      /\ inbox' = Taken(s, k)
      /\ outcome' = IF outcome = "waiting" THEN "resolved" ELSE outcome
      /\ online' = (online \/ (s = "client" /\ outcome = "waiting"))
      /\ UNCHANGED <<connVars, caller, via, executed, handling, streamVars>>
  BY DEF HandleResponse, NextMessage
<1>2. /\ BoxesTyped' /\ SilentUnlessOpen /\ EndStaysLast
      /\ \A r \in Side, j \in Conn : \A u :
           /\ InBox(r, j, u)' = IF r = s /\ j = k /\ u = "response"
                                THEN InBox(r, j, u) - 1 ELSE InBox(r, j, u)
           /\ InBox(r, j, u)' \in Nat /\ InBox(r, j, u) \in Nat
  BY <1>1, ProxyFacts, TakeEffect
<1>3. OnlyMessages({"request", "response"})
  BY <1>2 DEF OnlyMessages
<1>4. executed = 1
  <2>1. InBox(s, k, "response") \in Nat /\ InBox(s, k, "response") - 1 \in Nat
    BY <1>2
  <2> QED
    BY <2>1, ProxyFacts DEF CallOK
<1>5. CallOK'
  <2>1. \A r \in Side, j \in Conn : InBox(r, j, "request")' = InBox(r, j, "request")
    BY <1>2
  <2> QED
    BY <1>1, <1>4, <2>1, ProxyFacts DEF CallOK
<1>7. /\ outcome' \in {"idle", "waiting", "resolved", "rejected"}
      /\ caller' \in Side /\ via' \in Conn \cup {None}
      /\ executed' \in 0..1 /\ handling' \in BOOLEAN /\ online' \in BOOLEAN
  BY <1>1 DEF ProxyInv, ProxyTypeOK
<1> QED
  BY <1>1, <1>2, <1>3, <1>4, <1>5, <1>7, RequestsOnly

LEMMA GiveUpStep ==
  ASSUME ProxyInv, GiveUp
  PROVE  ProxyInv'
<1>1. /\ outcome = "waiting" /\ outcome' = "rejected"
      /\ online' = (online /\ caller # "client")
      /\ UNCHANGED <<connVars, inbox, caller, via, executed, handling, streamVars>>
  BY DEF GiveUp
<1>2. /\ BoxesTyped' /\ SilentUnlessOpen /\ EndStaysLast
      /\ \A r \in Side, j \in Conn : \A u : InBox(r, j, u)' = InBox(r, j, u)
  BY <1>1, ProxyFacts DEF BoxesTyped, SilentUnlessOpen, EndStaysLast, InBox
<1>3. OnlyMessages({"request", "response"})
  BY <1>2 DEF OnlyMessages
<1>4. CallOK'
  BY <1>1, <1>2, ProxyFacts DEF CallOK
<1>7. /\ outcome' \in {"idle", "waiting", "resolved", "rejected"}
      /\ caller' \in Side /\ via' \in Conn \cup {None}
      /\ executed' \in 0..1 /\ handling' \in BOOLEAN /\ online' \in BOOLEAN
  BY <1>1 DEF ProxyInv, ProxyTypeOK
<1> QED
  BY <1>1, <1>2, <1>3, <1>4, <1>7, RequestsOnly

LEMMA OtherRequestStep ==
  ASSUME ProxyInv, OtherRequest
  PROVE  ProxyInv'
<1>1. /\ online' \in BOOLEAN
      /\ UNCHANGED <<connVars, inbox, outcome, caller, via, executed, handling, streamVars>>
  BY DEF OtherRequest
<1>2. /\ BoxesTyped' /\ SilentUnlessOpen /\ EndStaysLast
      /\ \A r \in Side, j \in Conn : \A u : InBox(r, j, u)' = InBox(r, j, u)
  BY <1>1, ProxyFacts DEF BoxesTyped, SilentUnlessOpen, EndStaysLast, InBox
<1>3. OnlyMessages({"request", "response"})
  BY <1>2 DEF OnlyMessages
<1>4. CallOK'
  BY <1>1, <1>2, ProxyFacts DEF CallOK
<1>5. /\ outcome' \in {"idle", "waiting", "resolved", "rejected"}
      /\ caller' \in Side /\ via' \in Conn \cup {None}
      /\ executed' \in 0..1 /\ handling' \in BOOLEAN
  BY <1>1 DEF ProxyInv, ProxyTypeOK
<1> QED
  BY <1>1, <1>2, <1>3, <1>4, <1>5, RequestsOnly

-----------------------------------------------------------------------------
(* The steps of a connection.                                              *)

LEMMA ConnectionFacts ==
  ASSUME ProxyInv
  PROVE  /\ link \in [Conn -> {"free", "connecting", "open", "closing"}]
         /\ end \in [Side -> [Conn -> {"none", "new", "ready", "closed"}]]
         /\ registered \in [Side -> Conn \cup {None}]
         /\ failedLately \in BOOLEAN /\ breaks \in 0..Breaks /\ Breaks \in Nat
         /\ \A k \in Conn : SlotOK(k)
         /\ \A s \in Side : registered[s] # None => end[s][registered[s]] = "ready"
BY ProxyAssumption DEF ProxyInv, ProxyTypeOK, ConnectionOK

\* messages and uses of a connection are over when its slot is free
LEMMA LinkLives ==
  ASSUME ProxyInv, NEW s \in Side, NEW k \in Conn,
         inbox[s][k] # << >> \/ end[s][k] \in {"ready", "closed"}
  PROVE  link[k] \in {"open", "closing"}
<1>1. link[k] \in {"free", "connecting", "open", "closing"} /\ SlotOK(k)
  BY ConnectionFacts
<1>2. s \in {"client", "server"}
  BY Sides
<1>3. CASE link[k] \in {"free", "connecting"}
  <2>1. inbox[s][k] = << >> /\ end[s][k] \in {"none", "new"}
    BY <1>1, <1>2, <1>3 DEF SlotOK
  <2> QED
    BY <2>1
<1> QED
  BY <1>1, <1>3

\* a slot that the step does not concern
LEMMA SlotKept ==
  ASSUME NEW k \in Conn, SlotOK(k), link'[k] = link[k], SilentUnlessOpen,
         \A s \in Side : end'[s][k] = end[s][k],
         registered["server"] = k => registered'["server"] = k,
         InBox("client", k, "hello")' = InBox("client", k, "hello")
  PROVE  SlotOK(k)'
BY Sides DEF SlotOK, SilentUnlessOpen

LEMMA TryConnectionStep ==
  ASSUME ProxyInv, NEW k \in Conn, TryConnection(k)
  PROVE  ProxyInv'
<1>1. /\ registered["client"] = None /\ link[k] = "free"
      /\ link' = [link EXCEPT ![k] = "connecting"]
      /\ end' = [end EXCEPT !["client"][k] = "new"]
      /\ UNCHANGED <<inbox, registered, failedLately, breaks, requestVars, streamVars>>
  BY DEF TryConnection
<1>2. /\ BoxesTyped' /\ SilentUnlessOpen /\ EndStaysLast
      /\ \A r \in Side, j \in Conn : \A u : InBox(r, j, u)' = InBox(r, j, u)
  BY <1>1, ProxyFacts DEF BoxesTyped, SilentUnlessOpen, EndStaysLast, InBox
<1>3. /\ link' \in [Conn -> {"free", "connecting", "open", "closing"}]
      /\ end' \in [Side -> [Conn -> {"none", "new", "ready", "closed"}]]
      /\ registered' \in [Side -> Conn \cup {None}]
      /\ failedLately' \in BOOLEAN /\ breaks' \in 0..Breaks
  BY <1>1, ConnectionFacts
<1>4. /\ \A s \in Side : end[s][k] = "none" /\ inbox[s][k] = << >>
      /\ registered["server"] # k
  <2>1. \A s \in Side : end[s][k] = "none" /\ inbox[s][k] = << >>
    BY <1>1, ConnectionFacts DEF SlotOK
  <2> QED
    BY <2>1, ConnectionFacts, ProxyFacts
<1>5. SlotOK(k)'
  <2>1. /\ link'[k] = "connecting" /\ end'["client"][k] = "new"
        /\ end'["server"][k] = "none"
    BY <1>1, <1>4, ConnectionFacts, Sides
  <2>2. /\ \A s \in Side : inbox'[s][k] = << >>
        /\ InBox("client", k, "hello")' = 0
    BY <1>1, <1>2, <1>4, ProxyFacts, BoxFacts
  <2> QED
    BY <2>1, <2>2 DEF SlotOK
<1>6. ASSUME NEW j \in Conn, j # k PROVE SlotOK(j)'
  <2>1. link'[j] = link[j] /\ \A s \in Side : end'[s][j] = end[s][j]
    BY <1>1, <1>6, ConnectionFacts, Sides
  <2> QED
    BY <1>1, <1>2, <2>1, ConnectionFacts, Sides, SlotKept
<1>7. \A s \in Side : registered'[s] # None => end'[s][registered'[s]] = "ready"
  BY <1>1, <1>4, ConnectionFacts, Sides
<1>8. ConnectionOK'
  BY <1>5, <1>6, <1>7 DEF ConnectionOK
<1>9. \A j \in Conn : link[j] \in {"open", "closing"} => link'[j] \in {link[j], "closing"}
  BY <1>1, ConnectionFacts
<1> QED
  BY <1>1, <1>2, <1>3, <1>8, <1>9, ConnectionsOnly

LEMMA AcceptStep ==
  ASSUME ProxyInv, NEW k \in Conn, Accept(k)
  PROVE  ProxyInv'
<1>1. PICK m \in {"hello", "badHello"} :
        /\ m = "badHello" => breaks > 0
        /\ breaks' = IF m = "badHello" THEN breaks - 1 ELSE breaks
        /\ inbox' = [inbox EXCEPT !["server"][k] = <<Msg(m)>>]
        /\ link[k] = "connecting"
        /\ link' = [link EXCEPT ![k] = "open"]
        /\ end' = [end EXCEPT !["server"][k] = "new"]
        /\ UNCHANGED <<registered, failedLately, requestVars, streamVars>>
  BY DEF Accept, Present
<1>2. /\ end["client"][k] = "new" /\ end["server"][k] = "none"
      /\ \A s \in Side : inbox[s][k] = << >>
      /\ \A s \in Side : registered[s] # k
  <2>1. /\ end["client"][k] = "new" /\ end["server"][k] = "none"
        /\ \A s \in Side : inbox[s][k] = << >>
    BY <1>1, ConnectionFacts DEF SlotOK
  <2>2. \A s \in Side : end[s][k] # "ready"
    BY <2>1, Sides
  <2> QED
    BY <2>1, <2>2, ConnectionFacts, ProxyFacts
<1>3. /\ Msg(m) \in Message /\ Msg(m).type = m
      /\ <<Msg(m)>> = Append(<< >>, Msg(m)) /\ <<Msg(m)>> \in Seq(Message)
  BY MessageFacts DEF MessageTypes
<1>4. BoxesTyped'
  BY <1>1, <1>3, ProxyFacts DEF BoxesTyped
<1>5. ASSUME NEW s \in Side, NEW j \in Conn
      PROVE  \A u : u # m => InBox(s, j, u)' = InBox(s, j, u)
  <2>1. CASE s = "server" /\ j = k
    <3>1. /\ inbox'[s][j] = Append(inbox[s][j], Msg(m))
          /\ inbox[s][j] \in Seq(Message)
      BY <1>1, <1>2, <1>3, <2>1, ProxyFacts DEF BoxesTyped
    <3>2. ASSUME NEW u, u # m
          PROVE  Count(Append(inbox[s][j], Msg(m)), u) = Count(inbox[s][j], u)
      BY <1>3, <3>1, <3>2, CountAppend
    <3> QED
      BY <3>1, <3>2 DEF InBox
  <2>2. CASE ~(s = "server" /\ j = k)
    <3>1. inbox'[s][j] = inbox[s][j]
      BY <1>1, <2>2, ProxyFacts DEF BoxesTyped
    <3> QED
      BY <3>1 DEF InBox
  <2> QED
    BY <2>1, <2>2
<1>6. EndStaysLast
  <2> SUFFICES ASSUME NEW j \in Conn, FinishedLast(inbox["server"][j])
               PROVE  FinishedLast(inbox'["server"][j])
    BY DEF EndStaysLast
  <2>1. CASE j = k
    <3>1. InBox("server", k, "finished")' = 0
      BY <1>2, <1>5, ProxyFacts, BoxFacts
    <3>2. Len(inbox'["server"][k]) \in Nat
      BY <1>4, Sides, LenProperties DEF BoxesTyped
    <3> QED
      BY <2>1, <3>1, <3>2, NothingFinished DEF InBox
  <2>2. CASE j # k
    BY <1>1, <2>2, ProxyFacts DEF BoxesTyped
  <2> QED
    BY <2>1, <2>2
<1>7. /\ link' \in [Conn -> {"free", "connecting", "open", "closing"}]
      /\ end' \in [Side -> [Conn -> {"none", "new", "ready", "closed"}]]
      /\ registered' \in [Side -> Conn \cup {None}]
      /\ failedLately' \in BOOLEAN /\ breaks' \in 0..Breaks
  <2>1. /\ link' \in [Conn -> {"free", "connecting", "open", "closing"}]
        /\ end' \in [Side -> [Conn -> {"none", "new", "ready", "closed"}]]
        /\ registered' \in [Side -> Conn \cup {None}]
        /\ failedLately' \in BOOLEAN
    BY <1>1, ConnectionFacts
  <2>2. breaks' \in 0..Breaks
    BY <1>1, ConnectionFacts
  <2> QED
    BY <2>1, <2>2
<1>8. SlotOK(k)'
  <2>1. link'[k] = "open" /\ end'["client"][k] = "new" /\ end'["server"][k] = "new"
    BY <1>1, <1>2, ConnectionFacts, Sides
  <2>2. InBox("client", k, "hello")' = 0
    <3>1. inbox'["client"][k] = << >>
      BY <1>1, <1>2, ProxyFacts, Sides DEF BoxesTyped
    <3> QED
      BY <3>1, CountEmpty DEF InBox
  <2> QED
    BY <2>1, <2>2, Sides DEF SlotOK
<1>9. ASSUME NEW j \in Conn, j # k PROVE SlotOK(j)'
  <2>1. /\ link'[j] = link[j]
        /\ \A s \in Side : end'[s][j] = end[s][j] /\ inbox'[s][j] = inbox[s][j]
    BY <1>1, <1>9, ConnectionFacts, ProxyFacts, Sides DEF BoxesTyped
  <2>2. SlotOK(j) /\ registered' = registered
    BY <1>1, ConnectionFacts
  <2> QED
    BY <2>1, <2>2, Sides DEF SlotOK, InBox
<1>10. \A s \in Side : registered'[s] # None => end'[s][registered'[s]] = "ready"
  BY <1>1, <1>2, ConnectionFacts, Sides
<1>11. ConnectionOK'
  BY <1>8, <1>9, <1>10 DEF ConnectionOK
<1>12. \A j \in Conn : link[j] \in {"open", "closing"} => link'[j] \in {link[j], "closing"}
  BY <1>1, ConnectionFacts
<1> QED
  BY <1>1, <1>4, <1>5, <1>6, <1>7, <1>11, <1>12, ConnectionsOnly

(* Both sides register in the same way.                                    *)
LEMMA RegisterFacts ==
  ASSUME ProxyInv, NEW s \in Side, NEW k \in Conn, link[k] \in {"open", "closing"},
         Register(s, k)
  PROVE  /\ link' \in [Conn -> {"free", "connecting", "open", "closing"}]
         /\ registered' \in [Side -> Conn \cup {None}]
         /\ \A r \in Side : r # s => registered'[r] = registered[r]
         /\ registered'[s] = k \/ link'[k] = "closing"
         /\ registered'[s] \in {k, registered[s]}
         /\ registered'[s] # registered[s] => registered[s] = None
         /\ \A j \in Conn : j # k => link'[j] = link[j]
         /\ link'[k] \in {link[k], "closing"}
BY ConnectionFacts, ProxyFacts DEF Register

LEMMA ServerInitializedStep ==
  ASSUME ProxyInv, NEW k \in Conn, ServerInitialized(k)
  PROVE  ProxyInv'
<1>1. /\ end["server"][k] = "new" /\ inbox["server"][k] # << >>
      /\ Head(inbox["server"][k]).type = "hello"
      /\ end' = [end EXCEPT !["server"][k] = "ready"]
      /\ TakeAndSend("server", k, "hello") /\ Register("server", k)
      /\ UNCHANGED <<failedLately, breaks, requestVars, streamVars>>
  BY DEF ServerInitialized, NextMessage
<1>2. link[k] \in {"open", "closing"}
  BY <1>1, LinkLives, Sides
<1>3. /\ BoxesTyped' /\ SilentUnlessOpen /\ EndStaysLast
      /\ \A r \in Side, j \in Conn : \A u : j # k \/ u # "hello" =>
           InBox(r, j, u)' = InBox(r, j, u)
  <2>1. "hello" \in MessageTypes
    BY DEF MessageTypes
  <2> QED
    BY <1>1, <2>1, ProxyFacts, TakeAndSendEffect DEF SendHits
<1>4. /\ link' \in [Conn -> {"free", "connecting", "open", "closing"}]
      /\ end' \in [Side -> [Conn -> {"none", "new", "ready", "closed"}]]
      /\ registered' \in [Side -> Conn \cup {None}]
      /\ failedLately' \in BOOLEAN /\ breaks' \in 0..Breaks
  BY <1>1, <1>2, ConnectionFacts, RegisterFacts, Sides
<1>5. /\ registered'["client"] = registered["client"]
      /\ registered'["server"] = k \/ link'[k] = "closing"
      /\ registered'["server"] \in {k, registered["server"]}
      /\ registered'["server"] # registered["server"] => registered["server"] = None
      /\ \A j \in Conn : j # k => link'[j] = link[j]
      /\ link'[k] \in {link[k], "closing"}
  BY <1>1, <1>2, RegisterFacts, Sides
<1>6. /\ end'["server"][k] = "ready" /\ end'["client"][k] = end["client"][k]
      /\ \A s \in Side, j \in Conn : j # k => end'[s][j] = end[s][j]
      /\ \A j \in Conn : end'["client"][j] = end["client"][j]
  BY <1>1, ConnectionFacts, Sides
<1>7. SlotOK(k)'
  <2>1. link[k] = "open" => end["client"][k] \in {"new", "ready"}
    BY ConnectionFacts, Sides DEF SlotOK
  <2>2. link'[k] \notin {"free", "connecting"} /\ (link'[k] = "open" => link[k] = "open")
    BY <1>2, <1>5
  <2>3. link'[k] = "open" => \A s \in Side : end'[s][k] \in {"new", "ready"}
    BY <1>6, <2>1, <2>2, Sides
  <2> QED
    BY <1>5, <1>6, <2>2, <2>3 DEF SlotOK
<1>8. ASSUME NEW j \in Conn, j # k PROVE SlotOK(j)'
  <2>1. registered["server"] = j => registered'["server"] = j
    BY <1>5, <1>8, ProxyFacts
  <2>2. InBox("client", j, "hello")' = InBox("client", j, "hello")
    BY <1>3, <1>8, Sides
  <2> QED
    BY <1>3, <1>5, <1>6, <1>8, <2>1, <2>2, ConnectionFacts, SlotKept
<1>9. ASSUME NEW s \in Side, registered'[s] # None
      PROVE  end'[s][registered'[s]] = "ready"
  <2>1. CASE s = "client"
    BY <1>5, <1>6, <1>9, <2>1, ConnectionFacts, ProxyFacts
  <2>2. CASE s = "server" /\ registered'[s] = k
    BY <1>6, <2>2
  <2>3. CASE s = "server" /\ registered'[s] # k
    <3>1. registered'[s] = registered[s] /\ registered[s] \in Conn
      BY <1>5, <1>9, <2>3, ProxyFacts
    <3> QED
      BY <1>6, <1>9, <2>3, <3>1, ConnectionFacts
  <2> QED
    BY <2>1, <2>2, <2>3, Sides
<1>10. ConnectionOK'
  BY <1>7, <1>8, <1>9 DEF ConnectionOK
<1>11. \A j \in Conn : link[j] \in {"open", "closing"} => link'[j] \in {link[j], "closing"}
  BY <1>5
<1> QED
  BY <1>1, <1>3, <1>4, <1>10, <1>11, ConnectionsOnly

LEMMA ServerRejectsStep ==
  ASSUME ProxyInv, NEW k \in Conn, ServerRejects(k)
  PROVE  ProxyInv'
<1>1. /\ end["server"][k] = "new" /\ inbox["server"][k] # << >>
      /\ Head(inbox["server"][k]).type = "badHello"
      /\ inbox' = Taken("server", k) /\ link' = [link EXCEPT ![k] = "closing"]
      /\ UNCHANGED <<end, registered, failedLately, breaks, requestVars, streamVars>>
  BY DEF ServerRejects, NextMessage
<1>2. /\ BoxesTyped' /\ SilentUnlessOpen /\ EndStaysLast
      /\ \A r \in Side, j \in Conn : \A u : u # "badHello" =>
           InBox(r, j, u)' = InBox(r, j, u)
  BY <1>1, ProxyFacts, TakeEffect
<1>3. /\ link' \in [Conn -> {"free", "connecting", "open", "closing"}]
      /\ end' \in [Side -> [Conn -> {"none", "new", "ready", "closed"}]]
      /\ registered' \in [Side -> Conn \cup {None}]
      /\ failedLately' \in BOOLEAN /\ breaks' \in 0..Breaks
      /\ \A j \in Conn : link'[j] = IF j = k THEN "closing" ELSE link[j]
  BY <1>1, ConnectionFacts
<1>4. ASSUME NEW j \in Conn PROVE SlotOK(j)'
  <2>1. InBox("client", j, "hello")' = InBox("client", j, "hello")
    BY <1>2, Sides
  <2>2. SlotOK(j) /\ \A s \in Side : end'[s][j] = end[s][j]
    BY <1>1, ConnectionFacts
  <2>3. CASE j = k
    BY <1>1, <1>3, <2>1, <2>2, <2>3 DEF SlotOK
  <2>4. CASE j # k
    BY <1>1, <1>2, <1>3, <2>1, <2>2, <2>4, SlotKept
  <2> QED
    BY <2>3, <2>4
<1>5. ConnectionOK'
  BY <1>1, <1>4, ConnectionFacts DEF ConnectionOK
<1>6. \A j \in Conn : link[j] \in {"open", "closing"} => link'[j] \in {link[j], "closing"}
  BY <1>3
<1> QED
  BY <1>1, <1>2, <1>3, <1>5, <1>6, ConnectionsOnly

LEMMA ClientInitializedStep ==
  ASSUME ProxyInv, NEW k \in Conn, ClientInitialized(k)
  PROVE  ProxyInv'
<1>1. /\ end["client"][k] = "new" /\ inbox["client"][k] # << >>
      /\ Head(inbox["client"][k]).type = "hello"
      /\ end' = [end EXCEPT !["client"][k] = "ready"]
      /\ inbox' = Taken("client", k) /\ Register("client", k)
      /\ UNCHANGED <<failedLately, breaks, requestVars, streamVars>>
  BY DEF ClientInitialized, NextMessage
<1>2. link[k] \in {"open", "closing"}
  BY <1>1, LinkLives, Sides
<1>3. /\ BoxesTyped' /\ SilentUnlessOpen /\ EndStaysLast
      /\ \A r \in Side, j \in Conn : \A u : j # k \/ u # "hello" =>
           InBox(r, j, u)' = InBox(r, j, u)
      /\ InBox("client", k, "hello") > 0
  <2>1. /\ BoxesTyped' /\ SilentUnlessOpen /\ EndStaysLast
        /\ \A r \in Side, j \in Conn : \A u :
             /\ InBox(r, j, u)' = IF r = "client" /\ j = k /\ u = "hello"
                                  THEN InBox(r, j, u) - 1 ELSE InBox(r, j, u)
             /\ InBox(r, j, u)' \in Nat /\ InBox(r, j, u) \in Nat
    BY <1>1, ProxyFacts, TakeEffect
  <2>2. InBox("client", k, "hello") \in Nat /\ InBox("client", k, "hello") - 1 \in Nat
    BY <2>1, Sides
  <2> QED
    BY <2>1, <2>2
<1>4. /\ link' \in [Conn -> {"free", "connecting", "open", "closing"}]
      /\ end' \in [Side -> [Conn -> {"none", "new", "ready", "closed"}]]
      /\ registered' \in [Side -> Conn \cup {None}]
      /\ failedLately' \in BOOLEAN /\ breaks' \in 0..Breaks
  BY <1>1, <1>2, ConnectionFacts, RegisterFacts, Sides
<1>5. /\ registered'["server"] = registered["server"]
      /\ registered'["client"] \in {k, registered["client"]}
      /\ \A j \in Conn : j # k => link'[j] = link[j]
      /\ link'[k] \in {link[k], "closing"}
  BY <1>1, <1>2, RegisterFacts, Sides
<1>6. /\ end'["client"][k] = "ready" /\ end'["server"][k] = end["server"][k]
      /\ \A s \in Side, j \in Conn : j # k => end'[s][j] = end[s][j]
      /\ \A j \in Conn : end'["server"][j] = end["server"][j]
  BY <1>1, ConnectionFacts, Sides
<1>7. SlotOK(k)'
  <2>1. /\ link[k] = "open" => end["server"][k] \in {"new", "ready"}
        /\ end["server"][k] = "ready" => registered["server"] = k \/ link[k] = "closing"
        /\ end["server"][k] \in {"ready", "closed"}
    BY <1>3, ConnectionFacts, Sides DEF SlotOK
  <2>2. link'[k] \notin {"free", "connecting"} /\ (link'[k] = "open" => link[k] = "open")
        /\ (link[k] = "closing" => link'[k] = "closing")
    BY <1>2, <1>5
  <2>3. link'[k] = "open" => \A s \in Side : end'[s][k] \in {"new", "ready"}
    BY <1>6, <2>1, <2>2, Sides
  <2> QED
    BY <1>5, <1>6, <2>1, <2>2, <2>3 DEF SlotOK
<1>8. ASSUME NEW j \in Conn, j # k PROVE SlotOK(j)'
  <2>1. InBox("client", j, "hello")' = InBox("client", j, "hello")
    BY <1>3, <1>8, Sides
  <2> QED
    BY <1>3, <1>5, <1>6, <1>8, <2>1, ConnectionFacts, SlotKept
<1>9. ASSUME NEW s \in Side, registered'[s] # None
      PROVE  end'[s][registered'[s]] = "ready"
  <2>1. CASE s = "server"
    BY <1>5, <1>6, <1>9, <2>1, ConnectionFacts, ProxyFacts
  <2>2. CASE s = "client" /\ registered'[s] = k
    BY <1>6, <2>2
  <2>3. CASE s = "client" /\ registered'[s] # k
    <3>1. registered'[s] = registered[s] /\ registered[s] \in Conn
      BY <1>5, <1>9, <2>3, ProxyFacts
    <3> QED
      BY <1>6, <1>9, <2>3, <3>1, ConnectionFacts
  <2> QED
    BY <2>1, <2>2, <2>3, Sides
<1>10. ConnectionOK'
  BY <1>7, <1>8, <1>9 DEF ConnectionOK
<1>11. \A j \in Conn : link[j] \in {"open", "closing"} => link'[j] \in {link[j], "closing"}
  BY <1>5
<1> QED
  BY <1>1, <1>3, <1>4, <1>10, <1>11, ConnectionsOnly

LEMMA BreakStep ==
  ASSUME ProxyInv, NEW k \in Conn, Break(k)
  PROVE  ProxyInv'
<1>1. /\ breaks > 0 /\ link[k] \in {"connecting", "open"} /\ breaks' = breaks - 1
      /\ link' = [link EXCEPT ![k] = "closing"]
      /\ UNCHANGED <<end, inbox, registered, failedLately, requestVars, streamVars>>
  BY DEF Break
<1>2. /\ BoxesTyped' /\ SilentUnlessOpen /\ EndStaysLast
      /\ \A r \in Side, j \in Conn : \A u : InBox(r, j, u)' = InBox(r, j, u)
  BY <1>1, ProxyFacts DEF BoxesTyped, SilentUnlessOpen, EndStaysLast, InBox
<1>3. /\ link' \in [Conn -> {"free", "connecting", "open", "closing"}]
      /\ end' \in [Side -> [Conn -> {"none", "new", "ready", "closed"}]]
      /\ registered' \in [Side -> Conn \cup {None}]
      /\ failedLately' \in BOOLEAN /\ breaks' \in 0..Breaks
      /\ \A j \in Conn : link'[j] = IF j = k THEN "closing" ELSE link[j]
  BY <1>1, ConnectionFacts
<1>4. ASSUME NEW j \in Conn PROVE SlotOK(j)'
  <2>1. InBox("client", j, "hello")' = InBox("client", j, "hello")
    BY <1>2, Sides
  <2>2. SlotOK(j) /\ \A s \in Side : end'[s][j] = end[s][j]
    BY <1>1, ConnectionFacts
  <2>3. CASE j = k
    BY <1>1, <1>3, <2>1, <2>2, <2>3 DEF SlotOK
  <2>4. CASE j # k
    BY <1>1, <1>2, <1>3, <2>1, <2>2, <2>4, SlotKept
  <2> QED
    BY <2>3, <2>4
<1>5. ConnectionOK'
  BY <1>1, <1>4, ConnectionFacts DEF ConnectionOK
<1>6. \A j \in Conn : link[j] \in {"open", "closing"} => link'[j] \in {link[j], "closing"}
  BY <1>3
<1> QED
  BY <1>1, <1>2, <1>3, <1>5, <1>6, ConnectionsOnly

LEMMA ClosedStep ==
  ASSUME ProxyInv, NEW s \in Side, NEW k \in Conn, Closed(s, k)
  PROVE  ProxyInv'
<1>1. /\ link[k] = "closing" /\ end[s][k] \in {"new", "ready"}
      /\ end' = [end EXCEPT ![s][k] = "closed"]
      /\ inbox' = [inbox EXCEPT ![s][k] = << >>]
      /\ registered' = IF registered[s] = k THEN [registered EXCEPT ![s] = None]
                       ELSE registered
      /\ failedLately' = (failedLately \/ (s = "client" /\ end[s][k] = "new"))
      /\ UNCHANGED <<link, breaks, requestVars, streamVars>>
  BY DEF Closed
<1>2. /\ BoxesTyped' /\ inbox'[s][k] = << >>
      /\ \A r \in Side, j \in Conn : ~(r = s /\ j = k) => inbox'[r][j] = inbox[r][j]
  BY <1>1, ProxyFacts DEF BoxesTyped
<1>3. SilentUnlessOpen
  BY <1>2 DEF SilentUnlessOpen
<1>4. EndStaysLast
  <2>1. FinishedLast(<< >>)
    BY DEF FinishedLast
  <2> QED
    BY <1>2, <2>1, Sides DEF EndStaysLast
<1>5. \A r \in Side, j \in Conn :
        \/ /\ \A u : InBox(r, j, u)' = InBox(r, j, u)
           /\ ~(r = s /\ j = k)
        \/ /\ r = s /\ j = k /\ inbox'[r][j] = << >> /\ link'[j] # "open"
           /\ \A u : InBox(r, j, u)' = 0
  BY <1>1, <1>2, CountEmpty DEF InBox
<1>6. /\ link' \in [Conn -> {"free", "connecting", "open", "closing"}]
      /\ end' \in [Side -> [Conn -> {"none", "new", "ready", "closed"}]]
      /\ registered' \in [Side -> Conn \cup {None}]
      /\ failedLately' \in BOOLEAN /\ breaks' \in 0..Breaks
  BY <1>1, ConnectionFacts
<1>7. /\ end'[s][k] = "closed"
      /\ \A r \in Side, j \in Conn : ~(r = s /\ j = k) => end'[r][j] = end[r][j]
      /\ \A r \in Side : registered'[r] # None =>
           registered'[r] = registered[r] /\ ~(r = s /\ registered[r] = k)
      /\ \A r \in Side, j \in Conn : j # k /\ registered[r] = j => registered'[r] = j
  BY <1>1, ConnectionFacts, ProxyFacts
<1>8. SlotOK(k)'
  <2>1. SlotOK(k) /\ link'[k] = "closing"
    BY <1>1, ConnectionFacts
  <2>2. CASE s = "client"
    <3>1. InBox("client", k, "hello")' = 0 /\ end'["client"][k] = "closed"
      BY <1>5, <1>7, <2>2
    <3> QED
      BY <2>1, <3>1 DEF SlotOK
  <2>3. CASE s = "server"
    <3>1. end'["server"][k] = "closed"
      BY <1>7, <2>3
    <3> QED
      BY <2>1, <3>1 DEF SlotOK
  <2> QED
    BY <2>2, <2>3, Sides
<1>9. ASSUME NEW j \in Conn, j # k PROVE SlotOK(j)'
  <2>1. InBox("client", j, "hello")' = InBox("client", j, "hello")
    BY <1>5, <1>9, Sides
  <2>2. /\ link'[j] = link[j] /\ SlotOK(j)
        /\ \A r \in Side : end'[r][j] = end[r][j]
        /\ registered["server"] = j => registered'["server"] = j
    BY <1>1, <1>7, <1>9, ConnectionFacts, Sides
  <2> QED
    BY <1>3, <2>1, <2>2, SlotKept
<1>10. \A r \in Side : registered'[r] # None => end'[r][registered'[r]] = "ready"
  <2> SUFFICES ASSUME NEW r \in Side, registered'[r] # None
               PROVE  end'[r][registered'[r]] = "ready"
    OBVIOUS
  <2>1. /\ registered'[r] = registered[r] /\ ~(r = s /\ registered[r] = k)
        /\ registered[r] \in Conn /\ end[r][registered[r]] = "ready"
    BY <1>7, ConnectionFacts, ProxyFacts
  <2> QED
    BY <1>7, <2>1
<1>11. ConnectionOK'
  BY <1>8, <1>9, <1>10 DEF ConnectionOK
<1>12. \A j \in Conn : link[j] \in {"open", "closing"} => link'[j] \in {link[j], "closing"}
  BY <1>1
<1> QED
  BY <1>1, <1>2, <1>4, <1>5, <1>6, <1>11, <1>12, ConnectionsOnly

LEMMA FailureForgottenStep ==
  ASSUME ProxyInv, FailureForgotten
  PROVE  ProxyInv'
<1>1. /\ failedLately' = FALSE
      /\ UNCHANGED <<link, end, inbox, registered, breaks, requestVars, streamVars>>
  BY DEF FailureForgotten
<1>2. ProxyTypeOK'
  BY <1>1 DEF ProxyInv, ProxyTypeOK, requestVars, streamVars
<1>3. ConnectionOK'
  BY <1>1, ProxyFacts DEF ConnectionOK, SlotOK, InBox
<1>4. CallOK'
  BY <1>1, ProxyFacts DEF CallOK, InBox, requestVars
<1>5. ProxyStreamOK'
  BY <1>1, ProxyFacts DEF ProxyStreamOK, InBox, streamVars
<1> QED
  BY <1>2, <1>3, <1>4, <1>5 DEF ProxyInv

LEMMA ReuseStep ==
  ASSUME ProxyInv, NEW k \in Conn, Reuse(k)
  PROVE  ProxyInv'
<1>1. /\ link[k] = "closing"
      /\ \A s \in Side : end[s][k] \in {"none", "closed"}
      /\ link' = [link EXCEPT ![k] = "free"]
      /\ end' = [s \in Side |-> [end[s] EXCEPT ![k] = "none"]]
      /\ inbox' = [s \in Side |-> [inbox[s] EXCEPT ![k] = << >>]]
      /\ via' = IF via = k THEN None ELSE via
      /\ streamConn' = IF streamConn = k THEN None ELSE streamConn
      /\ UNCHANGED <<registered, failedLately, breaks, online, outcome, caller, executed,
                     handling, told, received, source, produced>>
  BY DEF Reuse
<1>2. /\ BoxesTyped'
      /\ \A s \in Side, j \in Conn : inbox'[s][j] = IF j = k THEN << >> ELSE inbox[s][j]
  <2>1. << >> \in Seq(Message)
    OBVIOUS
  <2> QED
    BY <1>1, <2>1, ProxyFacts DEF BoxesTyped
<1>3. /\ link' \in [Conn -> {"free", "connecting", "open", "closing"}]
      /\ end' \in [Side -> [Conn -> {"none", "new", "ready", "closed"}]]
      /\ \A j \in Conn : link'[j] = IF j = k THEN "free" ELSE link[j]
      /\ \A s \in Side, j \in Conn : end'[s][j] = IF j = k THEN "none" ELSE end[s][j]
      /\ \A s \in Side : registered[s] # k
  BY <1>1, ConnectionFacts, ProxyFacts
<1>4. SilentUnlessOpen /\ EndStaysLast
  <2>1. FinishedLast(<< >>)
    BY DEF FinishedLast
  <2> QED
    BY <1>2, <2>1, Sides DEF SilentUnlessOpen, EndStaysLast
<1>5. \A s \in Side, j \in Conn :
        \/ j # k /\ \A u : InBox(s, j, u)' = InBox(s, j, u)
        \/ j = k /\ inbox'[s][j] = << >> /\ link'[j] # "open"
  BY <1>2, <1>3 DEF InBox
<1>6. ProxyTypeOK'
  BY <1>1, <1>2, <1>3 DEF ProxyInv, ProxyTypeOK, BoxesTyped
<1>7. ConnectionOK'
  <2>1. SlotOK(k)'
    <3>1. InBox("client", k, "hello")' = 0
      BY <1>2, CountEmpty, Sides DEF InBox
    <3> QED
      BY <1>2, <1>3, <3>1, Sides DEF SlotOK
  <2>2. ASSUME NEW j \in Conn, j # k PROVE SlotOK(j)'
    <3>1. /\ SlotOK(j) /\ link'[j] = link[j] /\ \A s \in Side : end'[s][j] = end[s][j]
          /\ registered' = registered
          /\ InBox("client", j, "hello")' = InBox("client", j, "hello")
      BY <1>1, <1>3, <1>5, <2>2, ConnectionFacts, Sides
    <3> QED
      BY <1>4, <3>1, SlotKept
  <2>3. \A s \in Side : registered'[s] # None => end'[s][registered'[s]] = "ready"
    BY <1>1, <1>3, ConnectionFacts, ProxyFacts
  <2> QED
    BY <2>1, <2>2, <2>3 DEF ConnectionOK
<1>8. CallOK'
  <2>1. \A s \in Side, j \in Conn :
           \/ \A t \in {"request", "response"} : InBox(s, j, t)' = InBox(s, j, t)
           \/ inbox'[s][j] = << >>
    BY <1>5
  <2>2. \A s \in Side : via \in Conn => via' = via \/ inbox'[s][via] = << >>
    BY <1>1, <1>2
  <2>3. UNCHANGED <<outcome, caller, executed, handling>>
    BY <1>1
  <2> QED
    BY <2>1, <2>2, <2>3, ProxyFacts, CallKept
<1>9. ProxyStreamOK'
  <2>1. \A s \in Side, j \in Conn :
           \/ \A t \in StreamTypes : InBox(s, j, t)' = InBox(s, j, t)
           \/ inbox'[s][j] = << >> /\ link'[j] # "open"
    BY <1>5
  <2>2. UNCHANGED <<told, received, source, produced>>
    BY <1>1
  <2>3. /\ streamConn' = streamConn \/ streamConn' = None
        /\ \A s \in Side : streamConn \in Conn =>
             streamConn' = streamConn \/ inbox'[s][streamConn] = << >>
        /\ streamConn \in Conn => \/ streamConn' # streamConn
                                  \/ link'[streamConn] \in {link[streamConn], "closing"}
    BY <1>1, <1>2, <1>3, ProxyFacts
  <2> QED
    BY <1>4, <2>1, <2>2, <2>3, ProxyFacts, StreamKept
<1> QED
  BY <1>6, <1>7, <1>8, <1>9 DEF ProxyInv

-----------------------------------------------------------------------------
(* The steps of a stream.                                                  *)

LEMMA StreamFacts ==
  ASSUME ProxyInv
  PROVE  /\ told \in {"idle", "none", "finished", "error"}
         /\ streamConn \in Conn \cup {None}
         /\ source \in {"idle", "loading", "thrown", "open", "ended", "failed"}
         /\ produced \in 0..MaxChunks /\ received \in 0..produced
         /\ \A s \in Side, k \in Conn : \A t : InBox(s, k, t) \in Nat
         /\ \A k \in Conn :
              /\ InBox("client", k, "streamRequest") > 0 =>
                   /\ k = streamConn /\ source = "idle"
                   /\ InBox("client", k, "streamRequest") = 1
              /\ InBox("client", k, "cancel") > 0 => k = streamConn
              /\ InBox("server", k, "data") > 0 => k = streamConn
              /\ InBox("server", k, "finished") > 0 => k = streamConn /\ source = "ended"
              /\ InBox("server", k, "error") > 0 => k = streamConn
<1>1. /\ told \in {"idle", "none", "finished", "error"}
      /\ streamConn \in Conn \cup {None}
      /\ source \in {"idle", "loading", "thrown", "open", "ended", "failed"}
      /\ produced \in 0..MaxChunks /\ received \in 0..produced
  BY DEF ProxyInv, ProxyTypeOK
<1>2. \A s \in Side, k \in Conn : \A t : InBox(s, k, t) \in Nat
  BY ProxyFacts, BoxFacts
<1>3. ASSUME NEW k \in Conn
      PROVE  /\ InBox("client", k, "streamRequest") > 0 =>
                  /\ k = streamConn /\ source = "idle"
                  /\ InBox("client", k, "streamRequest") = 1
             /\ InBox("client", k, "cancel") > 0 => k = streamConn
             /\ InBox("server", k, "data") > 0 => k = streamConn
             /\ InBox("server", k, "finished") > 0 => k = streamConn /\ source = "ended"
             /\ InBox("server", k, "error") > 0 => k = streamConn
  <2>1. InBox("client", k, "streamRequest") \in Nat
    BY <1>2, Sides
  <2> QED
    BY <2>1, ProxyFacts DEF ProxyStreamOK
<1> QED
  BY <1>1, <1>2, <1>3

\* the connection of the stream
LEMMA StreamSlot ==
  ASSUME ProxyInv, streamConn \in Conn
  PROVE  /\ link[streamConn] \in {"open", "closing"}
         /\ received + InBox("server", streamConn, "data") <= produced
         /\ told = "none"
              /\ (link[streamConn] = "open" \/ InBox("server", streamConn, "finished") > 0)
            => received + InBox("server", streamConn, "data") = produced
         /\ FinishedLast(inbox["server"][streamConn])
         /\ told # "idle"
<1>1. told # "idle"
  BY ProxyFacts DEF ProxyStreamOK
<1> QED
  BY <1>1, ProxyFacts DEF ProxyStreamOK

(* To keep the invariant of the stream is to keep it in the boxes and in   *)
(* the slot of the stream.                                                 *)
LEMMA StreamAgain ==
  ASSUME \A k \in Conn :
           /\ InBox("client", k, "streamRequest")' <= 1
           /\ InBox("client", k, "streamRequest")' > 0
                => k = streamConn' /\ source' = "idle"
           /\ InBox("client", k, "cancel")' > 0 => k = streamConn'
           /\ InBox("server", k, "data")' > 0 => k = streamConn'
           /\ InBox("server", k, "finished")' > 0 => k = streamConn'
           /\ InBox("server", k, "error")' > 0 => k = streamConn'
           /\ InBox("server", k, "finished")' > 0 => source' = "ended",
         \A k \in Conn : k = streamConn' =>
           /\ link'[k] \in {"open", "closing"}
           /\ received' + InBox("server", k, "data")' <= produced'
           /\ told' = "none"
                /\ (link'[k] = "open" \/ InBox("server", k, "finished")' > 0)
              => received' + InBox("server", k, "data")' = produced'
           /\ FinishedLast(inbox'["server"][k]),
         told' = "idle" => streamConn' = None /\ source' = "idle",
         source' \in {"idle", "loading", "thrown"} => produced' = 0
  PROVE  ProxyStreamOK'
<1>1. \A k \in Conn : \A t \in {"data", "finished", "error"} :
        InBox("server", k, t)' > 0 => k = streamConn'
  OBVIOUS
<1> QED
  BY <1>1 DEF ProxyStreamOK

LEMMA OpenStreamStep ==
  ASSUME ProxyInv, OpenStream
  PROVE  ProxyInv'
<1> DEFINE k == registered["server"]
<1>1. /\ told = "idle" /\ k \in Conn /\ told' = "none" /\ streamConn' = k
      /\ Send("server", k, "streamRequest")
      /\ UNCHANGED <<connVars, requestVars, received, source, produced>>
      /\ end["server"][k] = "ready"
  BY ProxyFacts, ConnectionFacts DEF OpenStream
<1>2. link[k] \in {"open", "closing"} /\ link' = link
  BY <1>1, LinkLives, Sides DEF connVars, linkVars
<1> HIDE DEF k
<1>3. /\ BoxesTyped' /\ SilentUnlessOpen
      /\ \A r \in Side, j \in Conn : \A u :
           /\ InBox(r, j, u)' = IF SendHits("server", k, r, j) /\ u = "streamRequest"
                                THEN InBox(r, j, u) + 1 ELSE InBox(r, j, u)
           /\ InBox(r, j, u)' \in Nat /\ InBox(r, j, u) \in Nat
  <2>1. "streamRequest" \in MessageTypes
    BY DEF MessageTypes
  <2> QED
    BY <1>1, <2>1, ProxyFacts, SendEffect
<1>4. streamConn = None /\ source = "idle" /\ produced = 0 /\ received = 0
  BY <1>1, ProxyFacts DEF ProxyStreamOK
<1>5. \A j \in Conn : \A t \in StreamTypes :
        /\ InBox("client", j, t)' = IF t = "streamRequest" /\ SendHits("server", k, "client", j)
                                    THEN 1 ELSE InBox("client", j, t)
        /\ t \in {"streamRequest", "cancel"} => InBox("client", j, t) = 0
        /\ t \notin {"streamRequest", "cancel"} => InBox("server", j, t)' = 0
  <2>1. ASSUME NEW j \in Conn
        PROVE  /\ InBox("client", j, "streamRequest") = 0
               /\ InBox("client", j, "cancel") = 0
               /\ InBox("server", j, "data") = 0
               /\ InBox("server", j, "finished") = 0
               /\ InBox("server", j, "error") = 0
    BY <1>3, <1>4, StreamFacts, ProxyFacts
  <2> QED
    BY <1>3, <2>1, Sides DEF StreamTypes
<1>6. ProxyStreamOK'
  <2>1. \A j \in Conn :
           /\ InBox("client", j, "streamRequest")' =
                IF SendHits("server", k, "client", j) THEN 1 ELSE 0
           /\ InBox("client", j, "cancel")' = 0
           /\ InBox("server", j, "data")' = 0
           /\ InBox("server", j, "finished")' = 0
           /\ InBox("server", j, "error")' = 0
    BY <1>5 DEF StreamTypes
  <2>2. FinishedLast(inbox'["server"][k])
    <3>1. Len(inbox'["server"][k]) \in Nat
      BY <1>1, <1>3, Sides, LenProperties DEF BoxesTyped
    <3> QED
      BY <1>1, <2>1, <3>1, NothingFinished DEF InBox
  <2>3. \A j \in Conn : SendHits("server", k, "client", j) => j = k
    BY DEF SendHits
  <2> QED
    BY <1>1, <1>2, <1>4, <2>1, <2>2, <2>3, StreamAgain
<1>7. OnlyMessages(StreamTypes)
  BY <1>3 DEF OnlyMessages, StreamTypes
<1> QED
  BY <1>1, <1>3, <1>4, <1>6, <1>7, StreamFacts, StreamsOnly

LEMMA HandleStreamRequestStep ==
  ASSUME ProxyInv, NEW k \in Conn, HandleStreamRequest(k)
  PROVE  ProxyInv'
<1>1. /\ inbox["client"][k] # << >> /\ Head(inbox["client"][k]).type = "streamRequest"
      /\ inbox' = Taken("client", k) /\ source' = "loading"
      /\ UNCHANGED <<connVars, requestVars, told, streamConn, received, produced>>
  BY DEF HandleStreamRequest, NextMessage
<1>2. /\ BoxesTyped' /\ SilentUnlessOpen /\ EndStaysLast
      /\ \A r \in Side, j \in Conn : \A u :
           /\ InBox(r, j, u)' = IF r = "client" /\ j = k /\ u = "streamRequest"
                                THEN InBox(r, j, u) - 1 ELSE InBox(r, j, u)
           /\ InBox(r, j, u)' \in Nat /\ InBox(r, j, u) \in Nat
  BY <1>1, ProxyFacts, TakeEffect
<1>3. k = streamConn /\ source = "idle" /\ InBox("client", k, "streamRequest") = 1
  <2>1. /\ InBox("client", k, "streamRequest") \in Nat
        /\ InBox("client", k, "streamRequest") - 1 \in Nat
    BY <1>2, Sides
  <2> QED
    BY <2>1, StreamFacts
<1>4. \A j \in Conn :
        /\ InBox("client", j, "streamRequest")' = 0
        /\ InBox("client", j, "cancel")' = InBox("client", j, "cancel")
        /\ InBox("server", j, "data")' = InBox("server", j, "data")
        /\ InBox("server", j, "finished")' = InBox("server", j, "finished")
        /\ InBox("server", j, "error")' = InBox("server", j, "error")
        /\ InBox("server", j, "finished") = 0
  <2> SUFFICES ASSUME NEW j \in Conn
               PROVE  /\ InBox("client", j, "streamRequest")' = 0
                      /\ InBox("client", j, "cancel")' = InBox("client", j, "cancel")
                      /\ InBox("server", j, "data")' = InBox("server", j, "data")
                      /\ InBox("server", j, "finished")' = InBox("server", j, "finished")
                      /\ InBox("server", j, "error")' = InBox("server", j, "error")
                      /\ InBox("server", j, "finished") = 0
    OBVIOUS
  <2>1. InBox("client", j, "streamRequest")' = 0
    BY <1>2, <1>3, StreamFacts, Sides
  <2>2. InBox("server", j, "finished") = 0
    BY <1>2, <1>3, StreamFacts, Sides
  <2> QED
    BY <1>2, <2>1, <2>2, Sides
<1>5. ProxyStreamOK'
  <2>1. link' = link /\ told # "idle" /\ produced = 0
    BY <1>1, <1>3, StreamSlot, ProxyFacts DEF connVars, linkVars, ProxyStreamOK
  <2>2. FinishedLast(inbox'["server"][streamConn])
    BY <1>2, <1>3, StreamSlot DEF EndStaysLast
  <2> QED
    BY <1>1, <1>3, <1>4, <2>1, <2>2, StreamAgain, StreamFacts, StreamSlot
<1>6. OnlyMessages(StreamTypes)
  BY <1>2 DEF OnlyMessages, StreamTypes
<1> QED
  BY <1>1, <1>2, <1>5, <1>6, StreamFacts, StreamsOnly

LEMMA StreamLoadedStep ==
  ASSUME ProxyInv, StreamLoaded
  PROVE  ProxyInv'
<1>1. /\ source = "loading" /\ source' \in {"open", "thrown"}
      /\ UNCHANGED <<connVars, inbox, requestVars, told, streamConn, received, produced>>
  BY DEF StreamLoaded
<1>2. /\ BoxesTyped' /\ SilentUnlessOpen
      /\ \A r \in Side, j \in Conn : \A u : InBox(r, j, u)' = InBox(r, j, u)
  BY <1>1, ProxyFacts DEF BoxesTyped, SilentUnlessOpen, InBox
<1>3. ProxyStreamOK'
  <2>1. \A j \in Conn :
          /\ InBox("client", j, "streamRequest")' = 0
          /\ InBox("client", j, "cancel")' = InBox("client", j, "cancel")
          /\ InBox("server", j, "data")' = InBox("server", j, "data")
          /\ InBox("server", j, "finished")' = 0
          /\ InBox("server", j, "error")' = InBox("server", j, "error")
    BY <1>1, <1>2, StreamFacts, Sides
  <2>2. streamConn \in Conn => InBox("server", streamConn, "finished") = 0
    BY <1>2, <2>1, Sides
  <2>3. link' = link /\ produced = 0 /\ told # "idle"
    BY <1>1, ProxyFacts DEF connVars, linkVars, ProxyStreamOK
  <2> QED
    BY <1>1, <2>1, <2>2, <2>3, StreamAgain, StreamFacts, StreamSlot
<1>4. OnlyMessages(StreamTypes)
  BY <1>2 DEF OnlyMessages
<1> QED
  BY <1>1, <1>2, <1>3, <1>4, StreamFacts, StreamsOnly

LEMMA SendChunkStep ==
  ASSUME ProxyInv, SendChunk
  PROVE  ProxyInv'
<1>1. /\ source = "open" /\ produced < MaxChunks /\ produced' = produced + 1
      /\ Send("client", streamConn, "data")
      /\ UNCHANGED <<connVars, requestVars, told, streamConn, received, source>>
  BY DEF SendChunk
<1>2. \A j \in Conn : InBox("server", j, "finished") = 0
  BY <1>1, StreamFacts, Sides
<1>3. /\ BoxesTyped' /\ SilentUnlessOpen /\ EndStaysLast
      /\ \A r \in Side, j \in Conn : \A u :
           /\ InBox(r, j, u)' = IF SendHits("client", streamConn, r, j) /\ u = "data"
                                THEN InBox(r, j, u) + 1 ELSE InBox(r, j, u)
           /\ InBox(r, j, u)' \in Nat /\ InBox(r, j, u) \in Nat
  <2>1. "data" \in MessageTypes
    BY DEF MessageTypes
  <2> QED
    BY <1>1, <1>2, <2>1, ProxyFacts, SendEffect
<1>4. ProxyStreamOK'
  <2>1. \A j \in Conn :
          /\ InBox("client", j, "streamRequest")' = InBox("client", j, "streamRequest")
          /\ InBox("client", j, "cancel")' = InBox("client", j, "cancel")
          /\ InBox("server", j, "data")' = IF j = streamConn /\ link[j] = "open"
                                           THEN InBox("server", j, "data") + 1
                                           ELSE InBox("server", j, "data")
          /\ InBox("server", j, "finished")' = 0
          /\ InBox("server", j, "error")' = InBox("server", j, "error")
    BY <1>2, <1>3, Sides DEF SendHits
  <2>2. link' = link
    BY <1>1 DEF connVars, linkVars
  <2>3. ASSUME NEW j \in Conn, j = streamConn'
        PROVE  /\ link'[j] \in {"open", "closing"}
               /\ received' + InBox("server", j, "data")' <= produced'
               /\ told' = "none"
                    /\ (link'[j] = "open" \/ InBox("server", j, "finished")' > 0)
                  => received' + InBox("server", j, "data")' = produced'
               /\ FinishedLast(inbox'["server"][j])
    <3>1. j = streamConn /\ InBox("server", j, "data") \in Nat
      BY <1>1, <1>3, <2>3, Sides
    <3>2. FinishedLast(inbox'["server"][j])
      BY <1>3, <2>3, <3>1, StreamSlot DEF EndStaysLast
    <3> QED
      BY <1>1, <2>1, <2>2, <2>3, <3>1, <3>2, StreamSlot, ProxyFacts
  <2>4. /\ told' = "idle" => streamConn' = None /\ source' = "idle"
        /\ source' \notin {"idle", "loading", "thrown"}
    BY <1>1, ProxyFacts DEF ProxyStreamOK
  <2>5. \A j \in Conn :
          /\ InBox("client", j, "streamRequest") = 0
          /\ InBox("client", j, "cancel") > 0 => j = streamConn
          /\ InBox("server", j, "data")' > 0 => j = streamConn
          /\ InBox("server", j, "error") > 0 => j = streamConn
    BY <1>1, <1>3, <2>1, StreamFacts, Sides
  <2> QED
    BY <1>1, <2>1, <2>3, <2>4, <2>5, StreamAgain
<1>5. OnlyMessages(StreamTypes)
  BY <1>3 DEF OnlyMessages, StreamTypes
<1>6. /\ told' \in {"idle", "none", "finished", "error"}
      /\ streamConn' \in Conn \cup {None}
      /\ source' \in {"idle", "loading", "thrown", "open", "ended", "failed"}
      /\ produced' \in 0..MaxChunks /\ received' \in 0..produced'
  BY <1>1, StreamFacts, ProxyFacts
<1> QED
  BY <1>1, <1>3, <1>4, <1>5, <1>6, StreamsOnly

LEMMA EndStreamStep ==
  ASSUME ProxyInv, EndStream
  PROVE  ProxyInv'
<1>1. PICK t \in {"finished", "error"} :
        /\ source = "open" /\ source' = IF t = "finished" THEN "ended" ELSE "failed"
        /\ Send("client", streamConn, t)
        /\ UNCHANGED <<connVars, requestVars, told, streamConn, received, produced>>
  <2>1. \/ source' = "ended" /\ Send("client", streamConn, "finished")
        \/ source' = "failed" /\ Send("client", streamConn, "error")
    BY DEF EndStream
  <2> QED
    BY <2>1 DEF EndStream
<1>2. \A j \in Conn : InBox("server", j, "finished") = 0
  BY <1>1, StreamFacts, Sides
<1>3. /\ BoxesTyped' /\ SilentUnlessOpen /\ EndStaysLast
      /\ \A r \in Side, j \in Conn : \A u :
           /\ InBox(r, j, u)' = IF SendHits("client", streamConn, r, j) /\ u = t
                                THEN InBox(r, j, u) + 1 ELSE InBox(r, j, u)
           /\ InBox(r, j, u)' \in Nat /\ InBox(r, j, u) \in Nat
  <2>1. t \in MessageTypes /\ t # "data"
    BY DEF MessageTypes
  <2> QED
    BY <1>1, <2>1, ProxyFacts, SendEffect
<1>4. ProxyStreamOK'
  <2>1. \A j \in Conn :
          /\ InBox("client", j, "streamRequest")' = InBox("client", j, "streamRequest")
          /\ InBox("client", j, "cancel")' = InBox("client", j, "cancel")
          /\ InBox("server", j, "data")' = InBox("server", j, "data")
          /\ InBox("server", j, "finished")' > 0 =>
               j = streamConn /\ link[j] = "open" /\ source' = "ended"
          /\ InBox("server", j, "error")' > 0 =>
               j = streamConn \/ InBox("server", j, "error") > 0
    BY <1>1, <1>2, <1>3, Sides DEF SendHits
  <2>2. link' = link
    BY <1>1 DEF connVars, linkVars
  <2>3. ASSUME NEW j \in Conn, j = streamConn'
        PROVE  /\ link'[j] \in {"open", "closing"}
               /\ received' + InBox("server", j, "data")' <= produced'
               /\ told' = "none"
                    /\ (link'[j] = "open" \/ InBox("server", j, "finished")' > 0)
                  => received' + InBox("server", j, "data")' = produced'
               /\ FinishedLast(inbox'["server"][j])
    <3>1. j = streamConn
      BY <1>1, <2>3
    <3>2. FinishedLast(inbox'["server"][j])
      BY <1>3, <2>3, <3>1, StreamSlot DEF EndStaysLast
    <3> QED
      BY <1>1, <2>1, <2>2, <2>3, <3>1, <3>2, StreamSlot
  <2>4. /\ told' = "idle" => streamConn' = None /\ source' = "idle"
        /\ source' \notin {"idle", "loading", "thrown"}
    BY <1>1, ProxyFacts DEF ProxyStreamOK
  <2>5. \A j \in Conn :
          /\ InBox("client", j, "streamRequest") = 0
          /\ InBox("client", j, "cancel") > 0 => j = streamConn
          /\ InBox("server", j, "data") > 0 => j = streamConn
          /\ InBox("server", j, "error") > 0 => j = streamConn
    BY <1>1, <1>3, StreamFacts, Sides
  <2> QED
    BY <1>1, <2>1, <2>3, <2>4, <2>5, StreamAgain
<1>5. OnlyMessages(StreamTypes)
  BY <1>3 DEF OnlyMessages, StreamTypes
<1>6. /\ told' \in {"idle", "none", "finished", "error"}
      /\ streamConn' \in Conn \cup {None}
      /\ source' \in {"idle", "loading", "thrown", "open", "ended", "failed"}
      /\ produced' \in 0..MaxChunks /\ received' \in 0..produced'
  BY <1>1, StreamFacts, ProxyFacts
<1> QED
  BY <1>1, <1>3, <1>4, <1>5, <1>6, StreamsOnly

\* when the word that the stream is finished comes, all data has come
LEMMA FinishedIsLast ==
  ASSUME NEW S, NEW q \in Seq(S), q # << >>, Head(q).type = "finished", FinishedLast(q)
  PROVE  Count(q, "data") = 0
<1>1. /\ Len(q) \in Nat /\ Len(q) > 0 /\ Head(q) = q[1]
  BY HeadTailProperties, LenProperties, EmptySeq
<1>2. \A i \in 1..Len(q) : q[i].type # "data"
  <2> SUFFICES ASSUME NEW i \in 1..Len(q) PROVE q[i].type # "data"
    OBVIOUS
  <2>1. CASE i = 1
    BY <1>1, <2>1
  <2>2. CASE i > 1
    <3>1. 1 \in 1..Len(q) /\ q[1].type = "finished" /\ 1 < i
      BY <1>1, <2>2
    <3> QED
      BY <3>1 DEF FinishedLast
  <2> QED
    BY <1>1, <2>1, <2>2
<1>3. {i \in 1..Len(q) : q[i].type = "data"} = {}
  BY <1>2
<1> QED
  BY <1>3, FS_EmptySet DEF Count

LEMMA HeadIsInBox ==
  ASSUME BoxesTyped, NEW s \in Side, NEW k \in Conn, inbox[s][k] # << >>
  PROVE  \A t : Head(inbox[s][k]).type = t => InBox(s, k, t) > 0
<1>1. inbox[s][k] \in Seq(Message)
  BY BoxFacts
<1>2. ASSUME NEW t, Head(inbox[s][k]).type = t
      PROVE  InBox(s, k, t) > 0
  <2>1. Count(Tail(inbox[s][k]), t) + 1 = InBox(s, k, t)
    BY <1>1, <1>2, CountTail DEF InBox
  <2>2. Count(Tail(inbox[s][k]), t) \in Nat
    BY <1>1, CountTail, CountNat, LenProperties
  <2> QED
    BY <2>1, <2>2
<1> QED
  BY <1>2

\* what the message says is true when it comes
LEMMA StreamMessageTrue ==
  ASSUME ProxyInv, NEW k \in Conn, inbox["server"][k] # << >>, told = "none"
  PROVE  /\ Head(inbox["server"][k]).type = "finished"
              => source = "ended" /\ received = produced
         /\ Head(inbox["server"][k]).type = "data" => received + 1 <= produced
<1>1. /\ inbox["server"][k] \in Seq(Message) /\ Len(inbox["server"][k]) \in Nat
      /\ \A t : InBox("server", k, t) \in Nat
  BY ProxyFacts, BoxFacts
<1>2. \A t : Head(inbox["server"][k]).type = t => InBox("server", k, t) > 0
  BY ProxyFacts, Sides, HeadIsInBox
<1>3. CASE Head(inbox["server"][k]).type = "finished"
  <2>1. k = streamConn /\ source = "ended" /\ InBox("server", k, "finished") > 0
    BY <1>2, <1>3, StreamFacts
  <2>2. InBox("server", k, "data") = 0
    BY <1>1, <1>3, <2>1, StreamSlot, FinishedIsLast DEF InBox
  <2> QED
    BY <1>3, <2>1, <2>2, StreamSlot, ProxyFacts
<1>4. CASE Head(inbox["server"][k]).type = "data"
  <2>1. k = streamConn /\ InBox("server", k, "data") > 0
    BY <1>2, <1>4, StreamFacts
  <2> QED
    BY <1>1, <1>4, <2>1, StreamSlot, ProxyFacts
<1> QED
  BY <1>3, <1>4

LEMMA HandleStreamMessageStep ==
  ASSUME ProxyInv, NEW k \in Conn, HandleStreamMessage(k)
  PROVE  ProxyInv'
<1> DEFINE t == Head(inbox["server"][k]).type
<1>1. /\ inbox["server"][k] # << >> /\ t \in {"data", "finished", "error"}
      /\ inbox' = Taken("server", k)
      /\ received' = IF told = "none" /\ t = "data" THEN received + 1 ELSE received
      /\ told' = IF told = "none" /\ t # "data" THEN t ELSE told
      /\ UNCHANGED <<connVars, requestVars, streamConn, source, produced>>
  BY DEF HandleStreamMessage, NextMessage
<1>2. /\ BoxesTyped' /\ SilentUnlessOpen /\ EndStaysLast
      /\ \A r \in Side, j \in Conn : \A u :
           /\ InBox(r, j, u)' = IF r = "server" /\ j = k /\ u = t
                                THEN InBox(r, j, u) - 1 ELSE InBox(r, j, u)
           /\ InBox(r, j, u)' \in Nat /\ InBox(r, j, u) \in Nat
  BY <1>1, ProxyFacts, TakeEffect
<1>a. t = "data" /\ told = "none" => received + 1 <= produced
  BY <1>1, StreamMessageTrue
<1> HIDE DEF t
<1>3. k = streamConn
  <2>1. InBox("server", k, t) \in Nat /\ InBox("server", k, t) - 1 \in Nat
    BY <1>2, Sides
  <2> QED
    BY <1>1, <2>1, StreamFacts
<1>4. told # "idle" /\ told' # "idle"
  BY <1>1, <1>3, StreamSlot
<1>5. ProxyStreamOK'
  <2>1. \A j \in Conn :
          /\ InBox("client", j, "streamRequest")' = InBox("client", j, "streamRequest")
          /\ InBox("client", j, "cancel")' = InBox("client", j, "cancel")
          /\ InBox("server", j, "data")' <= InBox("server", j, "data")
          /\ InBox("server", j, "finished")' <= InBox("server", j, "finished")
          /\ InBox("server", j, "error")' <= InBox("server", j, "error")
          /\ j = k => InBox("server", j, "data")' =
                IF t = "data" THEN InBox("server", j, "data") - 1
                ELSE InBox("server", j, "data")
          /\ t = "data" => InBox("server", j, "finished")' = InBox("server", j, "finished")
    <3>1. \A j \in Conn :
            /\ InBox("client", j, "streamRequest")' = InBox("client", j, "streamRequest")
            /\ InBox("client", j, "cancel")' = InBox("client", j, "cancel")
      BY <1>2, Sides
    <3>2. \A j \in Conn : \A u : /\ InBox("server", j, u) \in Nat
                                 /\ InBox("server", j, u)' = IF j = k /\ u = t
                                      THEN InBox("server", j, u) - 1 ELSE InBox("server", j, u)
      BY <1>2, Sides
    <3>3. \A j \in Conn : \A u : InBox("server", j, u)' <= InBox("server", j, u)
      BY <3>2
    <3> QED
      BY <3>1, <3>2, <3>3
  <2>2. link' = link
    BY <1>1 DEF connVars, linkVars
  <2>3. ASSUME NEW j \in Conn, j = streamConn'
        PROVE  /\ link'[j] \in {"open", "closing"}
               /\ received' + InBox("server", j, "data")' <= produced'
               /\ told' = "none"
                    /\ (link'[j] = "open" \/ InBox("server", j, "finished")' > 0)
                  => received' + InBox("server", j, "data")' = produced'
               /\ FinishedLast(inbox'["server"][j])
    <3>1. /\ j = streamConn /\ j = k /\ InBox("server", j, "data") \in Nat
          /\ InBox("server", j, "data")' \in Nat
      BY <1>1, <1>2, <1>3, <2>3, Sides
    <3>2. FinishedLast(inbox'["server"][j])
      BY <1>2, <2>3, <3>1, StreamSlot DEF EndStaysLast
    <3>3. /\ link'[j] \in {"open", "closing"}
          /\ received + InBox("server", j, "data") <= produced
          /\ told = "none"
               /\ (link[j] = "open" \/ InBox("server", j, "finished") > 0)
             => received + InBox("server", j, "data") = produced
      BY <2>2, <3>1, StreamSlot
    <3>4. CASE t = "data"
      <4>1. InBox("server", j, "data")' = InBox("server", j, "data") - 1
            /\ InBox("server", j, "finished")' = InBox("server", j, "finished")
        BY <2>1, <3>1, <3>4
      <4> QED
        BY <1>1, <2>2, <3>1, <3>2, <3>3, <3>4, <4>1, ProxyFacts
    <3>5. CASE t # "data"
      <4>1. InBox("server", j, "data")' = InBox("server", j, "data")
            /\ told' # "none" /\ received' = received
        BY <1>1, <2>1, <3>1, <3>5
      <4> QED
        BY <1>1, <3>2, <3>3, <4>1
    <3> QED
      BY <3>4, <3>5
  <2>4. \A j \in Conn : InBox("client", j, "streamRequest") <= 1
    BY ProxyFacts DEF ProxyStreamOK
  <2>5. \A j \in Conn :
           /\ InBox("client", j, "streamRequest")' <= 1
           /\ InBox("client", j, "streamRequest")' > 0
                => j = streamConn' /\ source' = "idle"
           /\ InBox("client", j, "cancel")' > 0 => j = streamConn'
           /\ InBox("server", j, "data")' > 0 => j = streamConn'
           /\ InBox("server", j, "finished")' > 0 => j = streamConn'
           /\ InBox("server", j, "error")' > 0 => j = streamConn'
           /\ InBox("server", j, "finished")' > 0 => source' = "ended"
    <3> SUFFICES ASSUME NEW j \in Conn
                 PROVE  /\ InBox("client", j, "streamRequest")' <= 1
                        /\ InBox("client", j, "streamRequest")' > 0
                             => j = streamConn' /\ source' = "idle"
                        /\ InBox("client", j, "cancel")' > 0 => j = streamConn'
                        /\ InBox("server", j, "data")' > 0 => j = streamConn'
                        /\ InBox("server", j, "finished")' > 0 => j = streamConn'
                        /\ InBox("server", j, "error")' > 0 => j = streamConn'
                        /\ InBox("server", j, "finished")' > 0 => source' = "ended"
      OBVIOUS
    <3>1. /\ InBox("server", j, "data") \in Nat /\ InBox("server", j, "data")' \in Nat
          /\ InBox("server", j, "finished") \in Nat /\ InBox("server", j, "finished")' \in Nat
          /\ InBox("server", j, "error") \in Nat /\ InBox("server", j, "error")' \in Nat
      BY <1>2, Sides
    <3> QED
      BY <1>1, <2>1, <2>4, <3>1, StreamFacts
  <2>6. /\ told' = "idle" => streamConn' = None /\ source' = "idle"
        /\ source' \in {"idle", "loading", "thrown"} => produced' = 0
    BY <1>1, <1>4, ProxyFacts DEF ProxyStreamOK
  <2> QED
    BY <2>3, <2>5, <2>6, StreamAgain
<1>6. OnlyMessages(StreamTypes)
  BY <1>1, <1>2 DEF OnlyMessages, StreamTypes
<1>7. /\ told' \in {"idle", "none", "finished", "error"}
      /\ streamConn' \in Conn \cup {None}
      /\ source' \in {"idle", "loading", "thrown", "open", "ended", "failed"}
      /\ produced' \in 0..MaxChunks /\ received' \in 0..produced'
  BY <1>1, <1>a, StreamFacts, ProxyFacts
<1> QED
  BY <1>1, <1>2, <1>5, <1>6, <1>7, StreamsOnly

LEMMA CancelStreamStep ==
  ASSUME ProxyInv, CancelStream
  PROVE  ProxyInv'
<1>1. /\ told = "none" /\ told' = "error" /\ Send("server", streamConn, "cancel")
      /\ UNCHANGED <<connVars, requestVars, streamConn, received, source, produced>>
  BY DEF CancelStream
<1>2. /\ BoxesTyped' /\ SilentUnlessOpen /\ EndStaysLast
      /\ \A r \in Side, j \in Conn : \A u :
           /\ InBox(r, j, u)' = IF SendHits("server", streamConn, r, j) /\ u = "cancel"
                                THEN InBox(r, j, u) + 1 ELSE InBox(r, j, u)
           /\ InBox(r, j, u)' \in Nat /\ InBox(r, j, u) \in Nat
  <2>1. "cancel" \in MessageTypes
    BY DEF MessageTypes
  <2> QED
    BY <1>1, <2>1, ProxyFacts, SendEffect
<1>3. ProxyStreamOK'
  <2>1. \A j \in Conn :
          /\ InBox("client", j, "streamRequest")' = InBox("client", j, "streamRequest")
          /\ InBox("client", j, "cancel")' > 0 => j = streamConn
          /\ InBox("server", j, "data")' = InBox("server", j, "data")
          /\ InBox("server", j, "finished")' = InBox("server", j, "finished")
          /\ InBox("server", j, "error")' = InBox("server", j, "error")
    BY <1>2, StreamFacts, Sides DEF SendHits
  <2>2. link' = link
    BY <1>1 DEF connVars, linkVars
  <2>3. ASSUME NEW j \in Conn, j = streamConn'
        PROVE  /\ link'[j] \in {"open", "closing"}
               /\ received' + InBox("server", j, "data")' <= produced'
               /\ FinishedLast(inbox'["server"][j])
    <3>1. j = streamConn
      BY <1>1, <2>3
    <3>2. FinishedLast(inbox'["server"][j])
      BY <1>2, <2>3, <3>1, StreamSlot DEF EndStaysLast
    <3> QED
      BY <1>1, <2>1, <2>2, <2>3, <3>1, <3>2, StreamSlot
  <2>4. /\ \A j \in Conn : InBox("client", j, "streamRequest") <= 1
        /\ source \in {"idle", "loading", "thrown"} => produced = 0
    BY ProxyFacts DEF ProxyStreamOK
  <2> QED
    BY <1>1, <2>1, <2>3, <2>4, StreamFacts, StreamAgain
<1>4. OnlyMessages(StreamTypes)
  BY <1>2 DEF OnlyMessages, StreamTypes
<1> QED
  BY <1>1, <1>2, <1>3, <1>4, StreamFacts, StreamsOnly

LEMMA HandleCancelStep ==
  ASSUME ProxyInv, NEW k \in Conn, HandleCancel(k)
  PROVE  ProxyInv'
<1>1. /\ inbox["client"][k] # << >> /\ Head(inbox["client"][k]).type = "cancel"
      /\ UNCHANGED <<connVars, requestVars, told, streamConn, received, produced>>
      /\ \/ source = "open" /\ source' = "failed" /\ TakeAndSend("client", k, "error")
         \/ source # "open" /\ inbox' = Taken("client", k) /\ source' = source
  BY DEF HandleCancel, NextMessage
<1>2. /\ BoxesTyped' /\ SilentUnlessOpen /\ EndStaysLast
      /\ \A r \in Side, j \in Conn : \A u :
           /\ u \notin {"cancel", "error"} => InBox(r, j, u)' = InBox(r, j, u)
           /\ u = "cancel" => InBox(r, j, u)' <= InBox(r, j, u)
           /\ u = "error" /\ InBox(r, j, u)' > 0 => InBox(r, j, u) > 0 \/ j = k
           /\ InBox(r, j, u) \in Nat /\ InBox(r, j, u)' \in Nat
      /\ InBox("client", k, "cancel") > 0
  <2>1. CASE TakeAndSend("client", k, "error")
    <3>1. "error" \in MessageTypes /\ "error" # "data"
      BY DEF MessageTypes
    <3>2. /\ BoxesTyped' /\ SilentUnlessOpen /\ EndStaysLast
          /\ \A r \in Side, j \in Conn : \A u :
               /\ InBox(r, j, u)' = IF r = "client" /\ j = k /\ u = "cancel"
                                    THEN InBox(r, j, u) - 1
                                    ELSE IF SendHits("client", k, r, j) /\ u = "error"
                                    THEN InBox(r, j, u) + 1 ELSE InBox(r, j, u)
               /\ InBox(r, j, u)' \in Nat /\ InBox(r, j, u) \in Nat
      BY <1>1, <2>1, <3>1, ProxyFacts, TakeAndSendEffect
    <3>3. InBox("client", k, "cancel") \in Nat /\ InBox("client", k, "cancel") - 1 \in Nat
      BY <3>2, Sides
    <3> QED
      BY <3>2, <3>3 DEF SendHits
  <2>2. CASE inbox' = Taken("client", k)
    <3>1. /\ BoxesTyped' /\ SilentUnlessOpen /\ EndStaysLast
          /\ \A r \in Side, j \in Conn : \A u :
               /\ InBox(r, j, u)' = IF r = "client" /\ j = k /\ u = "cancel"
                                    THEN InBox(r, j, u) - 1 ELSE InBox(r, j, u)
               /\ InBox(r, j, u)' \in Nat /\ InBox(r, j, u) \in Nat
      BY <1>1, <2>2, ProxyFacts, TakeEffect
    <3>2. InBox("client", k, "cancel") \in Nat /\ InBox("client", k, "cancel") - 1 \in Nat
      BY <3>1, Sides
    <3> QED
      BY <3>1, <3>2
  <2> QED
    BY <1>1, <2>1, <2>2
<1>3. k = streamConn
  BY <1>2, StreamFacts
<1>4. ProxyStreamOK'
  <2>1. \A j \in Conn :
          /\ InBox("client", j, "streamRequest")' = InBox("client", j, "streamRequest")
          /\ InBox("client", j, "cancel")' <= InBox("client", j, "cancel")
          /\ InBox("server", j, "data")' = InBox("server", j, "data")
          /\ InBox("server", j, "finished")' = InBox("server", j, "finished")
          /\ InBox("server", j, "error")' > 0 => j = streamConn
    BY <1>2, <1>3, StreamFacts, Sides
  <2>2. link' = link
    BY <1>1 DEF connVars, linkVars
  <2>3. ASSUME NEW j \in Conn, j = streamConn'
        PROVE  /\ link'[j] \in {"open", "closing"}
               /\ received' + InBox("server", j, "data")' <= produced'
               /\ told' = "none"
                    /\ (link'[j] = "open" \/ InBox("server", j, "finished")' > 0)
                  => received' + InBox("server", j, "data")' = produced'
               /\ FinishedLast(inbox'["server"][j])
    <3>1. j = streamConn
      BY <1>1, <2>3
    <3>2. FinishedLast(inbox'["server"][j])
      BY <1>2, <2>3, <3>1, StreamSlot DEF EndStaysLast
    <3> QED
      BY <1>1, <2>1, <2>2, <2>3, <3>1, <3>2, StreamSlot
  <2>4. /\ \A j \in Conn : InBox("client", j, "streamRequest") <= 1
        /\ source \in {"idle", "loading", "thrown"} => produced = 0
        /\ told # "idle"
    BY <1>3, ProxyFacts, StreamSlot DEF ProxyStreamOK
  <2>5. \A j \in Conn :
           /\ InBox("client", j, "streamRequest")' > 0 => j = streamConn /\ source' = "idle"
           /\ InBox("client", j, "cancel")' > 0 => j = streamConn
           /\ InBox("server", j, "data")' > 0 => j = streamConn
           /\ InBox("server", j, "finished")' > 0 => j = streamConn /\ source' = "ended"
    <3> SUFFICES ASSUME NEW j \in Conn
                 PROVE  /\ InBox("client", j, "streamRequest")' > 0
                             => j = streamConn /\ source' = "idle"
                        /\ InBox("client", j, "cancel")' > 0 => j = streamConn
                        /\ InBox("server", j, "data")' > 0 => j = streamConn
                        /\ InBox("server", j, "finished")' > 0
                             => j = streamConn /\ source' = "ended"
      OBVIOUS
    <3>1. InBox("client", j, "cancel")' > 0 => InBox("client", j, "cancel") > 0
      <4>1. InBox("client", j, "cancel") \in Nat /\ InBox("client", j, "cancel")' \in Nat
        BY <1>2, Sides
      <4> QED
        BY <2>1, <4>1
    <3> QED
      BY <1>1, <2>1, <3>1, StreamFacts
  <2> QED
    BY <1>1, <2>1, <2>3, <2>4, <2>5, StreamAgain
<1>5. OnlyMessages(StreamTypes)
  BY <1>2 DEF OnlyMessages, StreamTypes
<1>6. /\ told' \in {"idle", "none", "finished", "error"}
      /\ streamConn' \in Conn \cup {None}
      /\ source' \in {"idle", "loading", "thrown", "open", "ended", "failed"}
      /\ produced' \in 0..MaxChunks /\ received' \in 0..produced'
  BY <1>1, StreamFacts
<1> QED
  BY <1>1, <1>2, <1>4, <1>5, <1>6, StreamsOnly

-----------------------------------------------------------------------------
(* The invariant, from the first state on.                                 *)

LEMMA ProxyInitially == Init => ProxyInv
<1> SUFFICES ASSUME Init PROVE ProxyInv
  OBVIOUS
<1> USE DEF Init
<1>1. /\ \A s \in Side, k \in Conn : inbox[s][k] = << >> /\ end[s][k] = "none"
      /\ \A s \in Side : registered[s] = None
      /\ \A k \in Conn : link[k] = "free"
  OBVIOUS
<1>2. \A s \in Side, k \in Conn : \A t : InBox(s, k, t) = 0
  BY <1>1, CountEmpty DEF InBox
<1>3. ProxyTypeOK
  <2>1. /\ link \in [Conn -> {"free", "connecting", "open", "closing"}]
        /\ end \in [Side -> [Conn -> {"none", "new", "ready", "closed"}]]
        /\ registered \in [Side -> Conn \cup {None}]
    OBVIOUS
  <2>2. inbox \in [Side -> [Conn -> Seq(Message)]]
    <3>1. << >> \in Seq(Message)
      BY EmptySeq
    <3>2. [k \in Conn |-> << >>] \in [Conn -> Seq(Message)]
      BY <3>1
    <3> QED
      BY <3>2
  <2>3. breaks \in 0..Breaks /\ produced \in 0..MaxChunks /\ received \in 0..produced
    BY ProxyAssumption
  <2>4. caller \in Side
    BY Sides
  <2>5. executed \in 0..1
    OBVIOUS
  <2> QED
    BY <2>1, <2>2, <2>3, <2>4, <2>5 DEF ProxyTypeOK
<1>4. ConnectionOK
  BY <1>1, <1>2, Sides DEF ConnectionOK, SlotOK
<1>5. CallOK
  BY <1>2 DEF CallOK
<1>6. ProxyStreamOK
  <2>1. streamConn \notin Conn
    BY ProxyAssumption
  <2> QED
    BY <1>2, <2>1, Sides DEF ProxyStreamOK
<1> QED
  BY <1>3, <1>4, <1>5, <1>6 DEF ProxyInv

LEMMA ProxyStutter ==
  ASSUME ProxyInv, UNCHANGED vars
  PROVE  ProxyInv'
<1>1. UNCHANGED <<link, failedLately, breaks, online, end, registered, inbox, outcome, caller,
                  via, executed, handling, told, streamConn, received, source, produced>>
  BY DEF vars, connVars, linkVars, requestVars, streamVars
<1>2. ProxyTypeOK'
  BY <1>1 DEF ProxyInv, ProxyTypeOK
<1>3. \A s \in Side, k \in Conn : \A t : InBox(s, k, t)' = InBox(s, k, t)
  BY <1>1 DEF InBox
<1>4. ConnectionOK'
  BY <1>1, <1>3, Sides DEF ProxyInv, ConnectionOK, SlotOK
<1>5. CallOK'
  BY <1>1, <1>3 DEF ProxyInv, CallOK
<1>6. ProxyStreamOK'
  BY <1>1, <1>3, Sides DEF ProxyInv, ProxyStreamOK
<1> QED
  BY <1>2, <1>4, <1>5, <1>6 DEF ProxyInv

LEMMA ProxyStep ==
  ASSUME ProxyInv, [Next]_vars
  PROVE  ProxyInv'
<1>1. CASE UNCHANGED vars
  BY <1>1, ProxyStutter
<1>2. ASSUME NEW k \in Conn, Connecting(k) \/ Break(k)
      PROVE  ProxyInv'
  BY <1>2, TryConnectionStep, AcceptStep, ServerInitializedStep, ServerRejectsStep,
     ClientInitializedStep, ReuseStep, ClosedStep, BreakStep DEF Connecting
<1>3. CASE FailureForgotten
  BY <1>3, FailureForgottenStep
<1>4. CASE Requests
  BY <1>4, SendRequestStep, HandleRequestStep, HandleResponseStep, HandlerReturnsStep,
     GiveUpStep, OtherRequestStep DEF Requests
<1>5. CASE Streams
  BY <1>5, OpenStreamStep, CancelStreamStep, StreamLoadedStep, SendChunkStep,
     EndStreamStep, HandleStreamRequestStep, HandleStreamMessageStep, HandleCancelStep
     DEF Streams, StreamMessages
<1> QED
  BY <1>1, <1>2, <1>3, <1>4, <1>5 DEF Next

(* The variables keep their types, each slot lives its life, a request is  *)
(* executed once, and a stream's data is all received or on its way: for   *)
(* any number of connections, failures and chunks.                         *)
THEOREM ProxyInvariance == Spec => []ProxyInv
<1>1. ProxyInv /\ [Next]_vars => ProxyInv'
  BY ProxyStep
<1> QED
  BY ProxyInitially, <1>1, PTL DEF Spec

(* setProxyConnectionToServer and setProxyConnectionToClient keep the first*)
(* connection and close the second, each side by itself, and still the     *)
(* nodes do not use two connections that both live: where the client is    *)
(* ready the server has answered, so it uses that connection or has seen   *)
(* it close.                                                               *)
THEOREM ProxyOneConnection == Spec => []OneConnection
<1>1. ProxyInv => OneConnection
  <2> SUFFICES ASSUME ProxyInv PROVE OneConnection
    OBVIOUS
  <2>1. ProxyTypeOK /\ ConnectionOK
    BY DEF ProxyInv
  <2>2. \A s \in Side : registered[s] # None => end[s][registered[s]] = "ready"
    BY <2>1 DEF ConnectionOK
  <2>3. ASSUME NEW c \in Conn, c = registered["client"], registered["server"] # c
        PROVE  link[c] = "closing"
    <3>1. SlotOK(c) /\ end["client"][c] = "ready"
      BY <2>2, <2>3, ProxyFacts, Sides DEF ConnectionOK
    <3>2. end["server"][c] \in {"ready", "closed"}
      BY <3>1 DEF SlotOK
    <3>3. link[c] \in {"open", "closing"}
      BY <3>1, LinkLives, Sides
    <3> QED
      BY <2>3, <3>1, <3>2, <3>3, Sides DEF SlotOK
  <2>4. registered["client"] # None => registered["client"] \in Conn
    BY ProxyFacts
  <2> QED
    BY <2>1, <2>2, <2>3, <2>4 DEF OneConnection
<1> QED
  BY <1>1, ProxyInvariance, PTL

-----------------------------------------------------------------------------
(* The refinements.                                                        *)

LEMMA CallStep ==
  ASSUME ProxyInv, [Next]_vars
  PROVE  [Call!Next]_(Call!callVars)
<1> USE DEF Call!callVars
<1>1. CASE UNCHANGED vars
  BY <1>1 DEF vars, requestVars
<1>2. ASSUME NEW k \in Conn, Connecting(k) \/ Break(k)
      PROVE  UNCHANGED <<executed, outcome>>
  BY <1>2 DEF Connecting, Break, TryConnection, Accept, ServerInitialized, ServerRejects,
              ClientInitialized, Reuse, Closed, requestVars
<1>3. CASE FailureForgotten
  BY <1>3 DEF FailureForgotten, requestVars
<1>4. ASSUME NEW s \in Side, SendRequest(s)
      PROVE  Call!Next
  BY <1>4 DEF SendRequest, Call!Next, Call!Call
<1>5. ASSUME NEW s \in Side, NEW k \in Conn, HandleRequest(s, k)
      PROVE  Call!Next
  <2>1. inbox[s][k] # << >> /\ Head(inbox[s][k]).type = "request"
    BY <1>5 DEF HandleRequest, NextMessage
  <2>2. executed = 0 /\ outcome # "idle"
    BY <2>1, ProxyFacts, HeadIsInBox DEF CallOK
  <2> QED
    BY <1>5, <2>2 DEF HandleRequest, Call!Next, Call!Execute
<1>6. ASSUME NEW s \in Side, NEW k \in Conn, HandleResponse(s, k)
      PROVE  Call!Next \/ UNCHANGED <<executed, outcome>>
  <2>1. executed = 1
    BY <1>6, HandleResponseStep
  <2> QED
    BY <1>6, <2>1 DEF HandleResponse, Call!Next, Call!Resolve
<1>7. CASE HandlerReturns
  BY <1>7 DEF HandlerReturns
<1>8. CASE GiveUp
  BY <1>8 DEF GiveUp, Call!Next, Call!Reject
<1>9. CASE Streams
  BY <1>9 DEF Streams, StreamMessages, OpenStream, CancelStream, StreamLoaded, SendChunk,
              EndStream, HandleStreamRequest, HandleStreamMessage, HandleCancel, requestVars
<1>10. CASE OtherRequest
  BY <1>10 DEF OtherRequest
<1> QED
  BY <1>1, <1>2, <1>3, <1>4, <1>5, <1>6, <1>7, <1>8, <1>9, <1>10 DEF Next, Requests

(* A request through sendRequest of a ProxyConnection, from either side, is*)
(* a RemoteCall: handled at most once, and resolved only if it was, however*)
(* the connection closes and however late the response comes.              *)
THEOREM ProxyImplementsCall == Spec => ProxiedCall
<1>1. Init => Call!Init
  BY DEF Init, Call!Init
<1>2. ProxyInv /\ [Next]_vars => [Call!Next]_(Call!callVars)
  BY CallStep
<1> QED
  BY <1>1, <1>2, ProxyInvariance, PTL DEF Spec, ProxiedCall, Call!Spec

LEMMA StreamStep ==
  ASSUME ProxyInv, [Next]_vars
  PROVE  [Stream!Next]_(Stream!streamVars)
<1> DEFINE Quiet == UNCHANGED <<produced, source, received, told>>
<1>0. Quiet => UNCHANGED Stream!streamVars
  BY DEF Stream!streamVars
<1>1. CASE UNCHANGED vars
  BY <1>0, <1>1 DEF vars, streamVars
<1>2. ASSUME NEW k \in Conn, Connecting(k) \/ Break(k)
      PROVE  Quiet
  BY <1>2 DEF Connecting, Break, TryConnection, Accept, ServerInitialized, ServerRejects,
              ClientInitialized, Reuse, Closed, streamVars
<1>3. CASE FailureForgotten
  BY <1>0, <1>3 DEF FailureForgotten, streamVars
<1>4. CASE Requests
  BY <1>0, <1>4 DEF Requests, SendRequest, HandleRequest, HandleResponse, HandlerReturns,
                    GiveUp, OtherRequest, streamVars
<1>5. CASE OpenStream
  BY <1>5 DEF OpenStream, Stream!streamVars
<1>6. CASE CancelStream
  BY <1>6 DEF CancelStream, Stream!Next, Stream!Fail
<1>7. CASE StreamLoaded
  BY <1>7 DEF StreamLoaded, Stream!streamVars
<1>8. CASE SendChunk
  BY <1>8 DEF SendChunk, Stream!Next, Stream!Produce
<1>9. CASE EndStream
  BY <1>9 DEF EndStream, Stream!Next, Stream!EndSource
<1>10. ASSUME NEW k \in Conn, HandleStreamRequest(k)
       PROVE  UNCHANGED Stream!streamVars
  <2>1. inbox["client"][k] # << >> /\ Head(inbox["client"][k]).type = "streamRequest"
    BY <1>10 DEF HandleStreamRequest, NextMessage
  <2>2. source = "idle"
    BY <2>1, ProxyFacts, HeadIsInBox DEF ProxyStreamOK
  <2> QED
    BY <1>10, <2>2 DEF HandleStreamRequest, Stream!streamVars
<1>11. ASSUME NEW k \in Conn, HandleStreamMessage(k)
       PROVE  Stream!Next \/ UNCHANGED Stream!streamVars
  <2> DEFINE t == Head(inbox["server"][k]).type
  <2>1. /\ inbox["server"][k] # << >> /\ t \in {"data", "finished", "error"}
        /\ received' = IF told = "none" /\ t = "data" THEN received + 1 ELSE received
        /\ told' = IF told = "none" /\ t # "data" THEN t ELSE told
        /\ UNCHANGED <<source, produced>>
    BY <1>11 DEF HandleStreamMessage, NextMessage
  <2>2. told = "none" => /\ t = "finished" => source = "ended" /\ received = produced
                         /\ t = "data" => received + 1 <= produced
    BY <2>1, StreamMessageTrue
  <2> HIDE DEF t
  <2>3. CASE told # "none"
    BY <2>1, <2>3 DEF Stream!streamVars
  <2>4. CASE told = "none" /\ t = "error"
    BY <2>1, <2>4 DEF Stream!Next, Stream!Fail
  <2>5. CASE told = "none" /\ t = "data"
    <3>1. received' \in received..produced
      BY <2>1, <2>2, <2>5, ProxyFacts
    <3> QED
      BY <2>1, <2>5, <3>1 DEF Stream!Next, Stream!Receive
  <2>6. CASE told = "none" /\ t = "finished"
    <3>1. received' \in received..produced /\ received' = produced /\ source = "ended"
      BY <2>1, <2>2, <2>6, ProxyFacts
    <3> QED
      BY <2>1, <2>6, <3>1 DEF Stream!Next, Stream!Receive
  <2> QED
    BY <2>1, <2>3, <2>4, <2>5, <2>6
<1>12. ASSUME NEW k \in Conn, HandleCancel(k)
       PROVE  Stream!Next \/ UNCHANGED Stream!streamVars
  BY <1>12 DEF HandleCancel, Stream!streamVars, Stream!Next, Stream!EndSource
<1> QED
  BY <1>0, <1>1, <1>2, <1>3, <1>4, <1>5, <1>6, <1>7, <1>8, <1>9, <1>10, <1>11, <1>12
     DEF Next, Streams, StreamMessages

(* A stream of the client through the proxy is an OrderedStream: the       *)
(* DataStreamy at the server gets the chunks in order, and it is told that *)
(* the stream is finished only if the client's stream was, after the last  *)
(* chunk, also when the reader cancels while the messages are on their way.*)
THEOREM ProxyImplementsStream == Spec => ProxiedStream
<1>1. Init => Stream!Init
  BY DEF Init, Stream!Init
<1>2. ProxyInv /\ [Next]_vars => [Stream!Next]_(Stream!streamVars)
  BY StreamStep
<1> QED
  BY <1>1, <1>2, ProxyInvariance, PTL DEF Spec, ProxiedStream, Stream!Spec

=============================================================================
