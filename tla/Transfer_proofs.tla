--------------------------- MODULE Transfer_proofs ---------------------------
(***************************************************************************)
(* The safety of what moves data between nodes: the data streams, for      *)
(* streams of any length, and the downloads of files, for any number of    *)
(* readers, files and providers.  The two components have no variable in   *)
(* common.                                                                 *)
(***************************************************************************)
EXTENDS DataStream, DownloadOptimizer, FunctionTheorems, FiniteSetTheorems,
        SequenceTheorems, WellFoundedInduction, TLAPS

-----------------------------------------------------------------------------
(***************************************************************************)
(* DataStream.                                                             *)
(***************************************************************************)

\* the chunks in s are numbered n, n + 1, ...
CountsFrom(s, n) == \A i \in 1..Len(s) : s[i] = n + i - 1

(* A chunk on its way was not received before, and a message of the end    *)
(* comes from a source that has ended, so that the count it carries stays  *)
(* the length of the stream.                                               *)
MessagesOK ==
  /\ \A k \in 0..MaxChunks : Chunk(k) \in net => k > last /\ k \notin waiting
  /\ End(produced) \in net => source = "ended"
  /\ endCount # Unknown => source = "ended"

(* What the consumer has got and what waits for him is, together, one run  *)
(* of chunks from the first on; all that came in sequence, while the       *)
(* stream is open.                                                         *)
OutputOK ==
  /\ CountsFrom(delivered, 0)
  /\ CountsFrom(pending, Len(delivered))
  /\ Len(delivered) + Len(pending) <= last + 1
  /\ state = "open" => Len(delivered) + Len(pending) = last + 1
  /\ subscribed => pending = << >>

(* Completion: told is the outcome, a cancelled stream is over, a finished *)
(* stream had all its chunks, and the consumer gets all of them or, if     *)
(* they were dropped before he had registered, none.                       *)
CompletionOK ==
  /\ cancelled \/ discarding => state # "open"
  /\ told # "none" => subscribed /\ told = state
  /\ state = "finished" => source = "ended" /\ last + 1 = produced
  /\ ~dropped /\ state = "finished" => Len(delivered) + Len(pending) = produced
  /\ dropped => state # "open" /\ delivered = << >> /\ pending = << >>
  /\ ~subscribed => delivered = << >>

(* The inductive invariant.                                                *)
StreamInv ==
  /\ StreamTypeOK
  /\ (last + 1) \notin waiting
  /\ MessagesOK
  /\ OutputOK
  /\ CompletionOK

-----------------------------------------------------------------------------
(* Sequences of chunks, and the messages.                                  *)

LEMMA CountsConcat ==
  ASSUME NEW s \in Seq(Nat), NEW t \in Seq(Nat), NEW n \in Nat,
         CountsFrom(s, n), CountsFrom(t, n + Len(s))
  PROVE  /\ s \o t \in Seq(Nat)
         /\ Len(s \o t) = Len(s) + Len(t)
         /\ CountsFrom(s \o t, n)
<1>1. /\ s \o t \in Seq(Nat) /\ Len(s \o t) = Len(s) + Len(t)
      /\ Len(s) \in Nat /\ Len(t) \in Nat
  BY ConcatProperties, LenProperties
<1>2. ASSUME NEW i \in 1..Len(s \o t)
      PROVE  (s \o t)[i] = n + i - 1
  <2>1. CASE i <= Len(s)
    <3>1. i \in 1..Len(s) /\ (s \o t)[i] = s[i]
      BY <2>1, <1>1, ConcatProperties
    <3> QED
      BY <3>1 DEF CountsFrom
  <2>2. CASE i > Len(s)
    <3>1. i - Len(s) \in 1..Len(t) /\ (s \o t)[i] = t[i - Len(s)]
      BY <2>2, <1>1, ConcatProperties
    <3>2. t[i - Len(s)] = (n + Len(s)) + (i - Len(s)) - 1
      BY <3>1 DEF CountsFrom
    <3> QED
      BY <1>1, <3>1, <3>2
  <2> QED
    BY <1>1, <2>1, <2>2
<1> QED
  BY <1>1, <1>2 DEF CountsFrom

(* A sequence that counts from 0 is the one NothingHeldBack speaks of.     *)
LEMMA CountsIsCounting ==
  ASSUME NEW s \in Seq(Nat), CountsFrom(s, 0)
  PROVE  s = Counting(Len(s))
<1>1. Len(s) \in Nat /\ s = [i \in 1..Len(s) |-> s[i]]
  BY LenProperties
<1> QED
  BY <1>1 DEF CountsFrom, Counting

LEMMA MessagesDiffer ==
  ASSUME NEW j, NEW k
  PROVE  /\ Chunk(j) = Chunk(k) => j = k
         /\ End(j) = End(k) => j = k
         /\ Chunk(j) # End(k)
         /\ Chunk(j) # Error
         /\ End(j) # Error
BY DEF Chunk, End, Error

(* What is on its way: chunks that were sent, and the end after the last.  *)
LEMMA OnItsWay ==
  ASSUME StreamTypeOK, NEW k
  PROVE  /\ Chunk(k) \in net => k \in 0..(produced - 1)
         /\ End(k) \in net => k = produced
<1>1. \A m \in net : \/ \E j \in 0..(produced - 1) : m = Chunk(j)
                     \/ m = End(produced)
                     \/ m = Error
  BY DEF StreamTypeOK
<1>2. ASSUME Chunk(k) \in net PROVE k \in 0..(produced - 1)
  BY <1>1, <1>2, MessagesDiffer
<1>3. ASSUME End(k) \in net PROVE k = produced
  BY <1>1, <1>3, MessagesDiffer
<1> QED
  BY <1>2, <1>3

(* The chunks that are in sequence: there is a last one, and it is where   *)
(* the definition of ReceiveChunk looks for it.                            *)
LEMMA SequenceEnds ==
  ASSUME NEW low \in Int, NEW high \in Int, low <= high,
         NEW have, have \subseteq (low + 1)..high
  PROVE  \E n \in low..(low + Cardinality(have)) :
           /\ n <= high
           /\ (low + 1)..n \subseteq have
           /\ (n + 1) \notin have
<1> DEFINE Gaps == {m \in Nat : (low + 1 + m) \notin have}
<1>1. high - low \in Gaps
  OBVIOUS
<1>2. PICK m \in Gaps : \A g \in Gaps : ~(<<g, m>> \in OpToRel(<, Nat))
  <2>1. Gaps \subseteq Nat /\ Gaps # {}
    BY <1>1
  <2> HIDE DEF Gaps
  <2> QED
    BY <2>1, WFMin, NatLessThanWellFounded
<1>3. m \in Nat /\ (low + 1 + m) \notin have
  OBVIOUS
<1>4. \A g \in 0..(m - 1) : (low + 1 + g) \in have
  <2> SUFFICES ASSUME NEW g \in 0..(m - 1), (low + 1 + g) \notin have
               PROVE  FALSE
    OBVIOUS
  <2>1. g \in Gaps /\ g < m /\ g \in Nat
    BY <1>3
  <2>2. <<g, m>> \in OpToRel(<, Nat)
    BY <2>1, <1>3 DEF OpToRel
  <2> QED
    BY <2>1, <2>2, <1>2
<1>5. (low + 1)..(low + m) \subseteq have
  <2> SUFFICES ASSUME NEW i \in (low + 1)..(low + m)
               PROVE  i \in have
    OBVIOUS
  <2>1. i - low - 1 \in 0..(m - 1) /\ i = low + 1 + (i - low - 1)
    BY <1>3
  <2> QED
    BY <2>1, <1>4
<1>6. low + m <= high
  <2>1. m <= high - low
    <3> SUFFICES ASSUME m > high - low
                 PROVE  FALSE
      BY <1>3
    <3>1. (high - low) \in 0..(m - 1)
      BY <1>3
    <3> QED
      BY <3>1, <1>4, <1>1
  <2> QED
    BY <2>1, <1>3
<1>7. m <= Cardinality(have) /\ Cardinality(have) \in Nat
  <2>1. IsFiniteSet((low + 1)..high)
    BY FS_Interval
  <2>2. IsFiniteSet(have)
    BY <2>1, FS_Subset
  <2>3. Cardinality((low + 1)..(low + m)) = m
    BY <1>3, FS_Interval
  <2> QED
    BY <2>2, <2>3, <1>5, FS_Subset, FS_CardinalityType
<1> QED
  <2>1. low + m \in low..(low + Cardinality(have)) /\ low + 1 + m = low + m + 1
    BY <1>3, <1>7
  <2> QED
    BY <2>1, <1>3, <1>5, <1>6

-----------------------------------------------------------------------------
(* The inductive invariant of a stream.                                    *)

LEMMA StreamInitially == ASSUME StreamInit PROVE StreamInv
<1>1. StreamTypeOK
  <2>1. 0 \in 0..MaxChunks /\ -1 \in -1..(0 - 1)
    BY StreamAssumption
  <2>2. /\ produced = 0 /\ source = "open" /\ net = {} /\ last = -1
        /\ waiting = {} /\ endCount = Unknown /\ cancelled = FALSE
        /\ state = "open" /\ pending = << >> /\ discarding = FALSE
        /\ subscribed = FALSE /\ delivered = << >> /\ told = "none"
        /\ dropped = FALSE
    BY DEF StreamInit
  <2>3. net \subseteq {Chunk(k) : k \in 0..(produced - 1)}
                        \cup {End(produced), Error}
    BY <2>2
  <2>4. waiting \subseteq (last + 1)..(produced - 1)
    BY <2>2
  <2>5. pending \in Seq(Nat) /\ delivered \in Seq(Nat)
    BY <2>2
  <2> QED
    BY <2>1, <2>2, <2>3, <2>4, <2>5 DEF StreamTypeOK
<1>2. MessagesOK /\ OutputOK /\ CompletionOK
  BY DEF StreamInit, MessagesOK, OutputOK, CompletionOK, CountsFrom, Unknown
<1> QED
  BY <1>1, <1>2 DEF StreamInv, StreamInit

(* The numbers of a stream.                                                *)
LEMMA StreamNumbers ==
  ASSUME StreamInv
  PROVE  /\ produced \in 0..MaxChunks /\ MaxChunks \in Nat
         /\ last \in Int /\ last \in -1..(produced - 1)
         /\ pending \in Seq(Nat) /\ delivered \in Seq(Nat)
         /\ Len(pending) \in Nat /\ Len(delivered) \in Nat
         /\ Unknown = -1
BY LenProperties, StreamAssumption DEF StreamInv, StreamTypeOK, Unknown

(* The chunks that are emitted continue what was emitted before.           *)
LEMMA EmitContinues ==
  ASSUME StreamInv, NEW final \in Int, last <= final,
         Emit(last + 1, final),
         UNCHANGED subscribed
  PROVE  /\ delivered' \in Seq(Nat) /\ pending' \in Seq(Nat)
         /\ CountsFrom(delivered', 0) /\ CountsFrom(pending', Len(delivered'))
         /\ subscribed => pending' = << >>
         /\ ~subscribed => delivered' = delivered
         /\ Len(delivered) <= Len(delivered')
         /\ Open => Len(delivered') + Len(pending') = final + 1
         /\ ~Open => UNCHANGED <<pending, delivered>>
<1> DEFINE new == [k \in 1..(final - (last + 1) + 1) |-> (last + 1) + k - 1]
<1>1. /\ new \in Seq(Nat) /\ Len(new) = final - last
      /\ CountsFrom(new, last + 1)
  <2>1. last + 1 \in Nat /\ final - last \in Nat /\ final - (last + 1) + 1 = final - last
    BY StreamNumbers
  <2>2. new = [k \in 1..(final - last) |-> last + k]
    BY <2>1, StreamNumbers
  <2>3. \A k \in 1..(final - last) : last + k \in Nat /\ last + k = (last + 1) + k - 1
    <3>1. last \in Int /\ last >= -1
      BY StreamNumbers
    <3> QED
      BY <2>1, <3>1
  <2> HIDE DEF new
  <2>4. new \in Seq(Nat) /\ Len(new) = final - last
    BY <2>1, <2>2, <2>3
  <2> QED
    BY <2>2, <2>3, <2>4 DEF CountsFrom
<1>2. /\ CountsFrom(delivered, 0) /\ CountsFrom(pending, Len(delivered))
      /\ subscribed => pending = << >>
      /\ state = "open" => Len(delivered) + Len(pending) = last + 1
  BY DEF StreamInv, OutputOK
<1>3. CASE ~Open
  BY <1>3, <1>2, StreamNumbers DEF Emit
<1>4. CASE Open /\ subscribed
  <2>1. delivered' = delivered \o new /\ pending' = pending
    BY <1>4 DEF Emit
  <2>2. Len(pending) = 0 /\ pending = << >> /\ 0 + Len(delivered) = last + 1
    BY <1>2, <1>4, StreamNumbers DEF Open
  <2> HIDE DEF new
  <2>3. /\ delivered \o new \in Seq(Nat)
        /\ Len(delivered \o new) = Len(delivered) + Len(new)
        /\ CountsFrom(delivered \o new, 0)
    BY <1>1, <1>2, <2>2, StreamNumbers, CountsConcat
  <2>4. CountsFrom(<< >>, Len(delivered'))
    BY DEF CountsFrom
  <2>5. Len(delivered') + Len(pending') = final + 1
    BY <1>1, <2>1, <2>2, <2>3, StreamNumbers
  <2>6. /\ delivered' \in Seq(Nat) /\ pending' \in Seq(Nat)
        /\ CountsFrom(delivered', 0) /\ CountsFrom(pending', Len(delivered'))
    BY <2>1, <2>2, <2>3, <2>4, StreamNumbers
  <2> QED
    BY <1>4, <2>1, <2>2, <2>5, <2>6
<1>5. CASE Open /\ ~subscribed
  <2>1. delivered' = delivered /\ pending' = pending \o new
    BY <1>5 DEF Emit
  <2>2. Len(delivered) + Len(pending) = last + 1
    BY <1>2, <1>5 DEF Open
  <2> HIDE DEF new
  <2>3. /\ pending \o new \in Seq(Nat)
        /\ Len(pending \o new) = Len(pending) + Len(new)
        /\ CountsFrom(pending \o new, Len(delivered))
    BY <1>1, <1>2, <2>2, StreamNumbers, CountsConcat
  <2>4. Len(delivered') + Len(pending') = final + 1
    <3>1. Len(delivered') = Len(delivered) /\ Len(pending') = Len(pending) + (final - last)
      BY <1>1, <2>1, <2>3
    <3>2. last \in Int /\ Len(pending) \in Nat /\ Len(delivered) \in Nat
      BY StreamNumbers
    <3> QED
      BY <2>2, <3>1, <3>2
  <2>5. /\ delivered' \in Seq(Nat) /\ pending' \in Seq(Nat)
        /\ CountsFrom(delivered', 0) /\ CountsFrom(pending', Len(delivered'))
    BY <1>2, <2>1, <2>3, StreamNumbers
  <2> QED
    BY <1>5, <2>1, <2>4, <2>5
<1> QED
  BY <1>3, <1>4, <1>5

(* What the receipt of a chunk does, with the last chunk that is in        *)
(* sequence now by name.                                                   *)
LEMMA ChunkReceived ==
  ASSUME StreamInv, NEW k, ReceiveChunk(k)
  PROVE  \E final \in last..(produced - 1) :
           /\ k \in (last + 1)..(produced - 1) /\ k \notin waiting
           /\ net' = net \ {Chunk(k)}
           /\ (last + 1)..final \subseteq waiting \cup {k}
           /\ (final + 1) \notin waiting \cup {k}
           /\ last' = final
           /\ waiting' = (waiting \cup {k}) \ ((last + 1)..final)
           /\ Emit(last + 1, final)
           /\ IF endCount # Unknown /\ final = endCount - 1 /\ ~cancelled
              THEN Complete("finished")
              ELSE UNCHANGED <<state, discarding, told>>
           /\ UNCHANGED <<produced, source, endCount, cancelled, subscribed, dropped>>
<1> DEFINE have == waiting \cup {k}
           Is(n) == (last + 1)..n \subseteq have /\ (n + 1) \notin have
           final == CHOOSE n \in last..(last + Cardinality(have)) : Is(n)
<1>1. k \in (last + 1)..(produced - 1) /\ k \notin waiting
  <2>1. Chunk(k) \in net
    BY DEF ReceiveChunk
  <2>2. k \in 0..(produced - 1)
    BY <2>1, OnItsWay DEF StreamInv
  <2>3. k \in 0..MaxChunks
    BY <2>2, StreamNumbers
  <2> QED
    BY <2>1, <2>2, <2>3, StreamNumbers DEF StreamInv, MessagesOK
<1>2. have \subseteq (last + 1)..(produced - 1)
  BY <1>1 DEF StreamInv, StreamTypeOK
<1>3. /\ final \in last..(last + Cardinality(have))
      /\ Is(final)
  <2>1. \E n \in last..(last + Cardinality(have)) : Is(n)
    <3>1. last \in Int /\ produced - 1 \in Int /\ last <= produced - 1
      BY StreamNumbers
    <3> HIDE DEF have
    <3>2. \E n \in last..(last + Cardinality(have)) :
             /\ n <= produced - 1
             /\ (last + 1)..n \subseteq have
             /\ (n + 1) \notin have
      BY <1>2, <3>1, SequenceEnds
    <3> QED
      BY <3>2
  <2> HIDE DEF Is, have
  <2> QED
    BY <2>1
<1>4. final \in last..(produced - 1)
  <2> HIDE DEF final
  <2>1. final \in Int /\ last <= final
    BY <1>3, StreamNumbers
  <2>2. final > last => final \in have
    <3>1. final > last => final \in (last + 1)..final
      BY <2>1, StreamNumbers
    <3> QED
      BY <1>3, <3>1
  <2>3. final > last => final \in (last + 1)..(produced - 1)
    BY <1>2, <2>2
  <2> QED
    BY <2>1, <2>3, StreamNumbers
<1>5. /\ net' = net \ {Chunk(k)}
      /\ last' = final
      /\ waiting' = have \ ((last + 1)..final)
      /\ Emit(last + 1, final)
      /\ IF endCount # Unknown /\ final = endCount - 1 /\ ~cancelled
         THEN Complete("finished")
         ELSE UNCHANGED <<state, discarding, told>>
      /\ UNCHANGED <<produced, source, endCount, cancelled, subscribed, dropped>>
  <2>1. /\ net' = net \ {Chunk(k)}
        /\ UNCHANGED <<produced, source, endCount, cancelled, subscribed, dropped>>
    BY DEF ReceiveChunk, sourceVars
  <2>2. last' = final
    BY Zenon DEF ReceiveChunk
  <2>3. waiting' = have \ ((last + 1)..final)
    BY Zenon DEF ReceiveChunk
  <2>4. Emit(last + 1, final)
    BY Zenon DEF ReceiveChunk
  <2>5. IF endCount # Unknown /\ final = endCount - 1 /\ ~cancelled
        THEN Complete("finished")
        ELSE UNCHANGED <<state, discarding, told>>
    BY Zenon DEF ReceiveChunk
  <2> QED
    BY <2>1, <2>2, <2>3, <2>4, <2>5
<1> HIDE DEF final
<1> QED
  BY <1>1, <1>3, <1>4, <1>5

(* Completion by the first outcome only.                                   *)
LEMMA CompletedOnce ==
  ASSUME StreamInv, NEW o \in {"finished", "error"}, Complete(o)
  PROVE  /\ state' \in {"open", "finished", "error"} /\ state' # "open"
         /\ discarding' \in BOOLEAN
         /\ state = "open" => state' = o
         /\ state # "open" => UNCHANGED <<state, told>>
         /\ told' \in {"none", "finished", "error"}
         /\ told' # "none" => subscribed /\ told' = state'
BY DEF Complete, StreamInv, StreamTypeOK, CompletionOK

LEMMA ReceiveChunkStep ==
  ASSUME StreamInv, NEW k, ReceiveChunk(k)
  PROVE  StreamInv'
<1>1. PICK final \in last..(produced - 1) :
        /\ k \in (last + 1)..(produced - 1) /\ k \notin waiting
        /\ net' = net \ {Chunk(k)}
        /\ (last + 1)..final \subseteq waiting \cup {k}
        /\ (final + 1) \notin waiting \cup {k}
        /\ last' = final
        /\ waiting' = (waiting \cup {k}) \ ((last + 1)..final)
        /\ Emit(last + 1, final)
        /\ IF endCount # Unknown /\ final = endCount - 1 /\ ~cancelled
           THEN Complete("finished")
           ELSE UNCHANGED <<state, discarding, told>>
        /\ UNCHANGED <<produced, source, endCount, cancelled, subscribed, dropped>>
  BY ChunkReceived
<1>2. final \in Int /\ last <= final /\ final < produced /\ final >= -1
  BY StreamNumbers
<1>3. /\ delivered' \in Seq(Nat) /\ pending' \in Seq(Nat)
      /\ CountsFrom(delivered', 0) /\ CountsFrom(pending', Len(delivered'))
      /\ subscribed => pending' = << >>
      /\ ~subscribed => delivered' = delivered
      /\ Open => Len(delivered') + Len(pending') = final + 1
      /\ ~Open => UNCHANGED <<pending, delivered>>
  BY <1>1, <1>2, EmitContinues
<1>4. /\ state' \in {"open", "finished", "error"}
      /\ discarding' \in BOOLEAN /\ (discarding' => state' # "open")
      /\ told' \in {"none", "finished", "error"}
      /\ told' # "none" => subscribed /\ told' = state'
      /\ state # "open" => state' = state
      /\ state = "open" => \/ state' = "open"
                           \/ /\ state' = "finished"
                              /\ endCount # Unknown /\ final = endCount - 1
  <2>1. CASE endCount # Unknown /\ final = endCount - 1 /\ ~cancelled
    BY <2>1, <1>1, CompletedOnce
  <2>2. CASE ~(endCount # Unknown /\ final = endCount - 1 /\ ~cancelled)
    BY <2>2, <1>1 DEF StreamInv, StreamTypeOK, CompletionOK
  <2> QED
    BY <2>1, <2>2
<1>5. StreamTypeOK'
  <2>1. net' \subseteq {Chunk(j) : j \in 0..(produced - 1)} \cup {End(produced), Error}
    BY <1>1 DEF StreamInv, StreamTypeOK
  <2>2. waiting' \subseteq (final + 1)..(produced - 1)
    <3>1. waiting \cup {k} \subseteq (last + 1)..(produced - 1)
      BY <1>1 DEF StreamInv, StreamTypeOK
    <3> QED
      BY <1>1, <1>2, <3>1, StreamNumbers
  <2>3. last' \in -1..(produced - 1)
    BY <1>1, <1>2, StreamNumbers
  <2> QED
    BY <1>1, <1>3, <1>4, <2>1, <2>2, <2>3 DEF StreamInv, StreamTypeOK
<1>6. (last' + 1) \notin waiting'
  BY <1>1
<1>7. MessagesOK'
  <2>1. ASSUME NEW j \in 0..MaxChunks, Chunk(j) \in net'
        PROVE  j > last' /\ j \notin waiting'
    <3>1. j # k /\ Chunk(j) \in net
      BY <1>1, <2>1
    <3>2. j > last /\ j \notin waiting
      BY <2>1, <3>1 DEF StreamInv, MessagesOK
    <3>3. j \notin waiting \cup {k} /\ j \notin waiting'
      BY <1>1, <3>1, <3>2
    <3>4. j \notin (last + 1)..final
      BY <1>1, <3>3
    <3>5. j > final
      BY <1>2, <3>2, <3>4, StreamNumbers
    <3> QED
      BY <1>1, <3>3, <3>5
  <2>2. End(produced) \in net => source = "ended"
    BY DEF StreamInv, MessagesOK
  <2> QED
    BY <1>1, <2>1, <2>2 DEF StreamInv, MessagesOK
<1>8. OutputOK'
  <2>1. state' = "open" => Open
    BY <1>4 DEF Open, StreamInv, CompletionOK
  <2>2. Len(delivered') + Len(pending') <= final + 1
    <3>1. CASE Open
      BY <3>1, <1>2, <1>3
    <3>2. CASE ~Open
      BY <3>2, <1>2, <1>3, StreamNumbers DEF StreamInv, OutputOK
    <3> QED
      BY <3>1, <3>2
  <2> QED
    BY <1>1, <1>3, <2>1, <2>2 DEF OutputOK
<1>9. CompletionOK'
  <2>1. state' = "finished" => source = "ended" /\ final + 1 = produced
    <3>1. CASE state = "open"
      BY <3>1, <1>2, <1>4 DEF StreamInv, MessagesOK, StreamTypeOK
    <3>2. CASE state # "open"
      BY <3>2, <1>2, <1>4, StreamNumbers DEF StreamInv, CompletionOK
    <3> QED
      BY <3>1, <3>2
  <2>2. ~dropped /\ state' = "finished" => Len(delivered') + Len(pending') = produced
    <3>1. CASE state = "open"
      <4>1. Open
        BY <3>1 DEF Open, StreamInv, CompletionOK
      <4> QED
        BY <4>1, <1>3, <2>1
    <3>2. CASE state # "open"
      BY <3>2, <1>3, <1>4 DEF Open, StreamInv, CompletionOK
    <3> QED
      BY <3>1, <3>2
  <2>3. /\ dropped => state' # "open" /\ delivered' = << >> /\ pending' = << >>
        /\ ~subscribed => delivered' = << >>
    BY <1>3, <1>4 DEF Open, StreamInv, CompletionOK
  <2> QED
    BY <1>1, <1>4, <2>1, <2>2, <2>3 DEF StreamInv, CompletionOK
<1> QED
  BY <1>5, <1>6, <1>7, <1>8, <1>9 DEF StreamInv

LEMMA ReceiveEndStep ==
  ASSUME StreamInv, NEW n, ReceiveEnd(n)
  PROVE  StreamInv'
<1>1. /\ End(n) \in net /\ net' = net \ {End(n)}
      /\ UNCHANGED <<produced, source, last, waiting, cancelled, pending,
                     delivered, subscribed, dropped>>
  BY DEF ReceiveEnd, sourceVars
<1>2. n = produced /\ source = "ended"
  BY <1>1, OnItsWay DEF StreamInv, MessagesOK
<1>3. CASE last >= n - 1 /\ UNCHANGED endCount /\ ~cancelled /\ Complete("finished")
  <2>1. last + 1 = produced
    BY <1>2, <1>3, StreamNumbers
  <2>2. /\ state' \in {"open", "finished", "error"} /\ state' # "open"
        /\ discarding' \in BOOLEAN
        /\ state # "open" => state' = state
        /\ told' \in {"none", "finished", "error"}
        /\ told' # "none" => subscribed /\ told' = state'
    BY <1>3, CompletedOnce
  <2> QED
    BY <1>1, <1>2, <1>3, <2>1, <2>2
    DEF StreamInv, StreamTypeOK, MessagesOK, OutputOK, CompletionOK
<1>4. CASE /\ \/ last >= n - 1 /\ UNCHANGED endCount
              \/ last < n - 1 /\ endCount' = n
           /\ UNCHANGED <<state, discarding, told>>
  <2>1. endCount' \in {Unknown, produced}
    BY <1>2, <1>4 DEF StreamInv, StreamTypeOK
  <2> QED
    BY <1>1, <1>2, <1>4, <2>1
    DEF StreamInv, StreamTypeOK, MessagesOK, OutputOK, CompletionOK
<1> QED
  BY <1>1, <1>3, <1>4 DEF ReceiveEnd

LEMMA ProducerErrorStep ==
  ASSUME StreamInv, ProducerError,
         net' \subseteq net
  PROVE  StreamInv'
<1>1. UNCHANGED <<produced, source, last, waiting, endCount, cancelled, pending,
                  delivered, subscribed, dropped>>
  BY DEF ProducerError, sourceVars, producerVars
<1>2. CASE UNCHANGED <<state, discarding, told>>
  BY <1>1, <1>2
  DEF StreamInv, StreamTypeOK, MessagesOK, OutputOK, CompletionOK
<1>3. CASE Complete("error")
  <2>1. /\ state' \in {"open", "finished", "error"} /\ state' # "open"
        /\ discarding' \in BOOLEAN
        /\ state = "open" => state' = "error"
        /\ state # "open" => state' = state
        /\ told' \in {"none", "finished", "error"}
        /\ told' # "none" => subscribed /\ told' = state'
    BY <1>3, CompletedOnce
  <2> QED
    BY <1>1, <2>1
    DEF StreamInv, StreamTypeOK, MessagesOK, OutputOK, CompletionOK
<1> QED
  BY <1>2, <1>3 DEF ProducerError

LEMMA SendStep ==
  ASSUME StreamInv, Send
  PROVE  StreamInv'
<1>1. /\ source = "open" /\ endCount = Unknown /\ End(produced) \notin net
      /\ state # "finished"
      /\ UNCHANGED <<last, waiting, endCount, cancelled, state, pending,
                     discarding, delivered, told, subscribed, dropped>>
  BY DEF Send, SendChunk, SendEnd, SendError, producerVars,
         outputVars, StreamInv, MessagesOK, CompletionOK
<1>2. \A m \in net : m = Error \/ \E k \in 0..(produced - 1) : m = Chunk(k)
  BY <1>1 DEF StreamInv, StreamTypeOK
<1>3. OutputOK' /\ (last + 1 \notin waiting)'
  BY <1>1 DEF StreamInv, OutputOK
<1>4. CASE SendChunk
  <2>1. /\ net' = net \cup {Chunk(produced)} /\ produced' = produced + 1
        /\ source' = source /\ produced < MaxChunks
    BY <1>4 DEF SendChunk
  <2>2. /\ produced' \in 0..MaxChunks /\ last \in -1..(produced' - 1)
        /\ 0..(produced - 1) \subseteq 0..(produced' - 1)
        /\ produced \in 0..(produced' - 1)
    BY <2>1, StreamNumbers
  <2>3. waiting \subseteq (last + 1)..(produced' - 1)
    BY <2>1, StreamNumbers DEF StreamInv, StreamTypeOK
  <2>4. net' \subseteq {Chunk(k) : k \in 0..(produced' - 1)}
                         \cup {End(produced'), Error}
    BY <1>2, <2>1, <2>2
  <2>5. StreamTypeOK'
    BY <1>1, <2>1, <2>2, <2>3, <2>4 DEF StreamInv, StreamTypeOK
  <2>6. produced > last /\ produced \notin waiting
    BY StreamNumbers DEF StreamInv, StreamTypeOK
  <2>7. End(produced') \notin net'
    BY <1>2, <2>1, MessagesDiffer
  <2>8. MessagesOK'
    BY <1>1, <2>1, <2>6, <2>7, MessagesDiffer DEF StreamInv, MessagesOK
  <2>9. CompletionOK'
    BY <1>1, <2>1 DEF StreamInv, CompletionOK
  <2> QED
    BY <1>3, <2>5, <2>8, <2>9 DEF StreamInv
<1>5. CASE SendEnd \/ SendError
  <2>1. /\ produced' = produced /\ source' \in {"ended", "failed"}
        /\ \/ net' = net \cup {End(produced)} /\ source' = "ended"
           \/ net' = net \cup {Error}
    BY <1>5 DEF SendEnd, SendError
  <2>2. StreamTypeOK'
    BY <1>1, <2>1 DEF StreamInv, StreamTypeOK
  <2>3. MessagesOK'
    BY <1>1, <2>1, MessagesDiffer DEF StreamInv, MessagesOK
  <2>4. CompletionOK'
    BY <1>1, <2>1 DEF StreamInv, CompletionOK
  <2> QED
    BY <1>3, <2>2, <2>3, <2>4 DEF StreamInv
<1> QED
  BY <1>4, <1>5 DEF Send

LEMMA ConsumerStep ==
  ASSUME StreamInv,
         Subscribe \/ Notify \/ Cancel \/ Discard
  PROVE  StreamInv'
<1>1. CASE Subscribe
  <2>1. /\ ~subscribed /\ subscribed' = TRUE
        /\ delivered' = delivered \o pending /\ pending' = << >>
        /\ UNCHANGED <<produced, source, net, last, waiting, endCount, cancelled,
                       state, discarding, told, dropped>>
    BY <1>1 DEF Subscribe, sourceVars, producerVars
  <2>2. /\ delivered' \in Seq(Nat) /\ CountsFrom(delivered', 0)
        /\ Len(delivered') = Len(delivered) + Len(pending)
    <3>1. CountsFrom(pending, 0 + Len(delivered)) /\ CountsFrom(delivered, 0)
      BY StreamNumbers DEF StreamInv, OutputOK
    <3> QED
      BY <2>1, <3>1, CountsConcat, StreamNumbers
  <2>3. /\ pending' \in Seq(Nat) /\ Len(pending') = 0
        /\ CountsFrom(pending', Len(delivered'))
    BY <2>1 DEF CountsFrom
  <2>4. Len(delivered') + Len(pending') = Len(delivered) + Len(pending)
    BY <2>2, <2>3, StreamNumbers
  <2>5. told = "none"
    BY <2>1 DEF StreamInv, CompletionOK
  <2> QED
    BY <2>1, <2>2, <2>3, <2>4, <2>5
    DEF StreamInv, StreamTypeOK, MessagesOK, OutputOK, CompletionOK
<1>2. CASE Notify
  BY <1>2 DEF Notify, sourceVars, producerVars,
    StreamInv, StreamTypeOK, MessagesOK, OutputOK, CompletionOK
<1>3. CASE Cancel
  <2>1. /\ state = "open" /\ cancelled' = TRUE /\ Complete("error")
        /\ UNCHANGED <<produced, source, net, last, waiting, endCount, pending,
                       delivered, subscribed, dropped>>
    BY <1>3 DEF Cancel, sourceVars
  <2>2. /\ state' = "error" /\ discarding' \in BOOLEAN
        /\ told' \in {"none", "finished", "error"}
        /\ told' # "none" => subscribed /\ told' = state'
    BY <2>1, CompletedOnce
  <2> QED
    BY <2>1, <2>2
    DEF StreamInv, StreamTypeOK, MessagesOK, OutputOK, CompletionOK
<1>4. CASE Discard
  <2>1. /\ discarding' = FALSE /\ pending' = << >>
        /\ dropped' = (dropped \/ pending # << >>)
        /\ UNCHANGED <<produced, source, net, last, waiting, endCount, cancelled,
                       state, delivered, told, subscribed>>
        /\ state # "open"
    BY <1>4 DEF Discard, sourceVars, producerVars, StreamInv, CompletionOK
  <2>2. /\ pending' \in Seq(Nat) /\ Len(pending') = 0
        /\ CountsFrom(pending', Len(delivered))
    BY <2>1 DEF CountsFrom
  <2>3. Len(delivered) + Len(pending') <= last + 1
    BY <2>2, StreamNumbers DEF StreamInv, OutputOK
  <2>4. /\ dropped' \in BOOLEAN
        /\ dropped' => delivered = << >>
        /\ ~dropped' => pending' = pending
    BY <2>1 DEF StreamInv, StreamTypeOK, OutputOK, CompletionOK
  <2>5. CompletionOK'
    BY <2>1, <2>4 DEF StreamInv, CompletionOK
  <2> QED
    BY <2>1, <2>2, <2>3, <2>4, <2>5, StreamNumbers
    DEF StreamInv, StreamTypeOK, MessagesOK, OutputOK
<1> QED
  BY <1>1, <1>2, <1>3, <1>4

LEMMA StreamStep ==
  ASSUME StreamInv, [StreamNext]_streamVars
  PROVE  StreamInv'
<1>1. CASE Send
  BY <1>1, SendStep
<1>2. CASE Lose
  <2>1. /\ net' \subseteq net
        /\ UNCHANGED <<produced, source, last, waiting, endCount, cancelled,
                       state, pending, discarding, delivered, told, subscribed,
                       dropped>>
    BY <1>2 DEF Lose, sourceVars, producerVars, outputVars
  <2> QED
    BY <2>1 DEF StreamInv, StreamTypeOK, MessagesOK, OutputOK, CompletionOK
<1>3. CASE Deliver
  <2>1. ASSUME ReceiveError PROVE StreamInv'
    BY <2>1, ProducerErrorStep DEF ReceiveError
  <2> QED
    BY <1>3, <2>1, ReceiveChunkStep, ReceiveEndStep DEF Deliver
<1>4. CASE StartFails
  BY <1>4, ProducerErrorStep DEF StartFails
<1>5. CASE Subscribe \/ Notify \/ Cancel \/ Discard
  BY <1>5, ConsumerStep
<1>6. CASE UNCHANGED streamVars
  BY <1>6 DEF streamVars, sourceVars, producerVars, outputVars,
    StreamInv, StreamTypeOK, MessagesOK, OutputOK, CompletionOK
<1> QED
  BY <1>1, <1>2, <1>3, <1>4, <1>5, <1>6 DEF StreamNext

(* Streams of any length stay in order, whatever happens to the messages   *)
(* (unorderedData, unorderedEnd of DataStreamy).                           *)
THEOREM StreamInvariance == StreamSpec => []StreamInv
<1>1. StreamInit => StreamInv
  BY StreamInitially
<1>2. StreamInv /\ [StreamNext]_streamVars => StreamInv'
  BY StreamStep
<1> QED
  BY <1>1, <1>2, PTL DEF StreamSpec

(* The consumer gets the chunks in order and each once, however late he    *)
(* registers, and no chunk waits whose turn it is.                         *)
THEOREM StreamHoldsNothingBack == StreamSpec => []NothingHeldBack
<1>1. StreamInv => NothingHeldBack
  <2> SUFFICES ASSUME StreamInv PROVE NothingHeldBack
    OBVIOUS
  <2>1. delivered = Counting(Len(delivered))
    BY StreamNumbers, CountsIsCounting DEF StreamInv, OutputOK
  <2>2. ASSUME state = "open"
        PROVE  delivered \o pending = Counting(last + 1)
    <3>1. Len(delivered) + Len(pending) = last + 1
      BY <2>2 DEF StreamInv, OutputOK
    <3>2. CountsFrom(delivered, 0) /\ CountsFrom(pending, 0 + Len(delivered))
      BY StreamNumbers DEF StreamInv, OutputOK
    <3>3. /\ delivered \o pending \in Seq(Nat)
          /\ Len(delivered \o pending) = last + 1
          /\ CountsFrom(delivered \o pending, 0)
      BY <3>1, <3>2, CountsConcat, StreamNumbers
    <3> QED
      BY <3>3, CountsIsCounting
  <2> QED
    BY <2>1, <2>2 DEF StreamInv, NothingHeldBack
<1> QED
  BY <1>1, StreamInvariance, PTL

-----------------------------------------------------------------------------
(* What the consumer sees, step by step.                                   *)

(* In a step, the consumer gets something only if he was not told of an    *)
(* end before, never more than was produced and nothing after the chunks   *)
(* were dropped, and what he is told then is true.                         *)
ConsumerSees ==
  \/ UNCHANGED <<delivered, told>>
  \/ /\ told = "none" /\ UNCHANGED <<produced, source, dropped>>
     /\ dropped => delivered' = delivered
     /\ Len(delivered') \in Len(delivered)..produced
     /\ \/ told' = "none"
        \/ told' = "error" /\ delivered' = delivered
        \/ /\ told' = "finished" /\ source = "ended"
           /\ ~dropped => Len(delivered') = produced

LEMMA StreamStepSeen ==
  ASSUME StreamInv, [StreamNext]_streamVars
  PROVE  ConsumerSees
<1> DEFINE Seen == /\ told # "none" => UNCHANGED <<delivered, told>>
                   /\ Len(delivered) <= Len(delivered')
                   /\ UNCHANGED <<produced, source, dropped>>
                   /\ told = "none" /\ told' = "error" => delivered' = delivered
<1>a. /\ told # "none" => subscribed /\ state # "open"
      /\ Len(delivered) \in Nat /\ Len(pending) \in Nat
      /\ \A s : s = delivered => Len(delivered) <= Len(s)
  <2>1. Len(delivered) \in Nat /\ Len(pending) \in Nat
    BY StreamNumbers
  <2>2. told # "none" => subscribed /\ state # "open"
    BY DEF StreamInv, CompletionOK, StreamTypeOK
  <2> QED
    BY <2>1, <2>2
<1>1. UNCHANGED <<delivered, told>> \/ Seen
  <2>1. CASE Send \/ Lose \/ Discard \/ UNCHANGED streamVars
    BY <2>1 DEF Send, SendChunk, SendEnd, SendError, Lose,
         Discard, streamVars, outputVars
  <2>2. ASSUME NEW k, ReceiveChunk(k) PROVE Seen
    <3>1. PICK final \in last..(produced - 1) :
            /\ Emit(last + 1, final)
            /\ Complete("finished") \/ UNCHANGED <<state, discarding, told>>
            /\ UNCHANGED <<produced, source, subscribed, dropped>>
      BY <2>2, ChunkReceived
    <3>2. /\ Len(delivered) <= Len(delivered')
          /\ ~Open => UNCHANGED delivered
      BY <3>1, StreamNumbers, EmitContinues
    <3>3. /\ state # "open" => UNCHANGED told
          /\ told = "none" => told' # "error"
      BY <3>1 DEF Complete
    <3> QED
      BY <1>a, <3>1, <3>2, <3>3 DEF Open
  <2>3. CASE (\E n \in 0..MaxChunks : ReceiveEnd(n)) \/ ReceiveError \/ StartFails
    <3>1. UNCHANGED <<delivered, produced, source, dropped>>
      BY <2>3 DEF ReceiveEnd, ReceiveError, StartFails, ProducerError,
           sourceVars
    <3>2. UNCHANGED told \/ Complete("finished") \/ Complete("error")
      BY <2>3 DEF ReceiveEnd, ReceiveError, StartFails, ProducerError
    <3>3. state # "open" => UNCHANGED told
      BY <3>2 DEF Complete
    <3> QED
      BY <1>a, <3>1, <3>3
  <2>4. CASE Subscribe
    <3>1. /\ ~subscribed /\ delivered' = delivered \o pending
          /\ UNCHANGED <<produced, source, told, dropped>>
      BY <2>4 DEF Subscribe, sourceVars
    <3>2. Len(delivered') = Len(delivered) + Len(pending)
      BY <3>1, StreamNumbers, ConcatProperties
    <3>3. Len(delivered) <= Len(delivered')
      BY <1>a, <3>2
    <3> QED
      BY <1>a, <3>1, <3>3
  <2>5. CASE Notify
    BY <1>a, <2>5 DEF Notify, sourceVars
  <2>6. CASE Cancel
    <3>1. /\ state = "open" /\ UNCHANGED <<delivered, produced, source, dropped>>
      BY <2>6 DEF Cancel, sourceVars
    <3> QED
      BY <1>a, <3>1
  <2> QED
    BY <2>1, <2>2, <2>3, <2>4, <2>5, <2>6 DEF StreamNext, Deliver
<1>2. ASSUME Seen, told = "none" PROVE ConsumerSees
  <2>1. StreamInv'
    BY StreamStep
  <2>2. /\ Len(delivered') \in Nat /\ Len(pending') \in Nat /\ last' \in Int
        /\ last' + 1 <= produced /\ produced \in Nat
        /\ Len(delivered') + Len(pending') <= last' + 1
        /\ told' \in {"none", "finished", "error"}
    <3>1. /\ produced' \in 0..MaxChunks /\ last' \in -1..(produced' - 1)
          /\ pending' \in Seq(Nat) /\ delivered' \in Seq(Nat)
          /\ told' \in {"none", "finished", "error"}
          /\ Len(delivered') + Len(pending') <= last' + 1
      BY <2>1 DEF StreamInv, OutputOK, StreamTypeOK
    <3>2. produced' = produced /\ produced \in Nat
      BY <1>2, StreamNumbers
    <3>3. last' \in Int /\ last' + 1 <= produced
      <4>1. \A m \in Nat : \A l \in -1..(m - 1) : l \in Int /\ l + 1 <= m
        OBVIOUS
      <4>2. last' \in -1..(produced - 1)
        BY <3>1, <3>2
      <4> HIDE DEF Seen
      <4> QED
        BY <3>2, <4>1, <4>2
    <3>4. Len(delivered') \in Nat /\ Len(pending') \in Nat
      BY <3>1, LenProperties
    <3> QED
      BY <3>1, <3>2, <3>3, <3>4
  <2>3. Len(delivered') \in Len(delivered)..produced
    <3>1. Len(delivered) <= Len(delivered')
      BY <1>2
    <3>2. Len(delivered') <= produced
      <4>1. \A a, b, m \in Nat : \A l \in Int :
              a + b <= l + 1 /\ l + 1 <= m => a <= m
        OBVIOUS
      <4> HIDE DEF Seen
      <4> QED
        BY <2>2, <4>1
    <3> QED
      BY <1>a, <2>2, <3>1, <3>2
  <2>4. ASSUME told' = "finished"
        PROVE  source = "ended" /\ (~dropped => Len(delivered') = produced)
    <3>1. /\ subscribed' /\ state' = "finished" /\ pending' = << >>
          /\ source' = "ended"
          /\ ~dropped' => Len(delivered') + Len(pending') = produced'
      BY <2>1, <2>4 DEF StreamInv, OutputOK, CompletionOK
    <3>2. Len(pending') = 0
      BY <3>1
    <3> QED
      BY <1>2, <2>2, <3>1, <3>2
  <2>5. dropped => delivered' = delivered
    BY <1>2, <2>1 DEF StreamInv, CompletionOK
  <2> QED
    BY <1>2, <2>2, <2>3, <2>4, <2>5 DEF ConsumerSees
<1> QED
  BY <1>1, <1>2 DEF ConsumerSees

(* The consumer is told once how the stream ended, and gets no chunk       *)
(* afterwards.                                                             *)
THEOREM StreamTellsOnce == StreamSpec => ToldOnce
<1>1. StreamInv /\ [StreamNext]_streamVars
        => [told # "none" => UNCHANGED <<told, delivered>>]_streamVars
  BY StreamStepSeen DEF ConsumerSees
<1> QED
  BY <1>1, StreamInvariance, PTL DEF StreamSpec, ToldOnce

(* A stream of any length is an OrderedStream, whatever messages are       *)
(* reordered or lost and whenever the consumer registers: the chunks come  *)
(* in order, and if he is told that it is finished he has got all of them, *)
(* or none, namely when they were dropped before he registered.            *)
THEOREM StreamIsOrdered == StreamSpec => ImplementsOrderedStream
<1>1. StreamInit => Abstract!Init
  BY DEF StreamInit, Abstract!Init
<1>2. StreamInv /\ [StreamNext]_streamVars
        => [Abstract!Next]_(Abstract!streamVars)
  <2> SUFFICES ASSUME StreamInv, [StreamNext]_streamVars
               PROVE  [Abstract!Next]_(Abstract!streamVars)
    OBVIOUS
  <2>1. CASE Send
    <3>1. CASE SendChunk
      BY <3>1 DEF SendChunk, outputVars, Abstract!Next, Abstract!Produce
    <3>2. CASE SendEnd \/ SendError
      BY <3>2 DEF SendEnd, SendError, outputVars, Abstract!Next,
           Abstract!EndSource
    <3> QED
      BY <2>1, <3>1, <3>2 DEF Send
  <2>2. CASE Discard
    <3>1. /\ UNCHANGED <<produced, source, delivered, told>>
          /\ dropped' = (dropped \/ pending # << >>)
      BY <2>2 DEF Discard, sourceVars
    <3>2. pending # << >> => told = "none" /\ Len(delivered) = 0
      BY DEF StreamInv, OutputOK, CompletionOK
    <3>3. CASE pending = << >>
      BY <3>1, <3>3 DEF StreamInv, StreamTypeOK, Abstract!streamVars
    <3>4. CASE pending # << >>
      BY <3>1, <3>2, <3>4 DEF Abstract!Next, Abstract!DropAll
    <3> QED
      BY <3>3, <3>4
  <2>3. CASE ~Send /\ ~Discard
    <3>1. UNCHANGED <<produced, source, dropped>>
      BY <2>3 DEF StreamNext, Lose, Deliver, ReceiveChunk, ReceiveEnd,
           ReceiveError, StartFails, ProducerError, Subscribe,
           Notify, Cancel, sourceVars, streamVars
    <3>2. ConsumerSees
      BY StreamStepSeen
    <3>3. CASE UNCHANGED <<delivered, told>>
      BY <3>1, <3>3 DEF Abstract!streamVars
    <3>4. CASE ~UNCHANGED <<delivered, told>> /\ told' = "error"
      BY <3>1, <3>2, <3>4 DEF ConsumerSees, Abstract!Next, Abstract!Fail
    <3>5. CASE ~UNCHANGED <<delivered, told>> /\ told' # "error"
      BY <3>1, <3>2, <3>5 DEF ConsumerSees, Abstract!Next, Abstract!Receive
    <3> QED
      BY <3>3, <3>4, <3>5
  <2> QED
    BY <2>1, <2>2, <2>3
<1> QED
  BY <1>1, <1>2, StreamInvariance, PTL
  DEF StreamSpec, ImplementsOrderedStream, Abstract!Spec

-----------------------------------------------------------------------------
(***************************************************************************)
(* DownloadOptimizer.                                                      *)
(***************************************************************************)

\* a job
JobRecord == [file : File \cup {None}, from : Provider \cup {None},
              retries : 0..NumRetries, state : JobState,
              asked : SUBSET Provider, findFinished : BOOLEAN,
              candidates : SUBSET Provider, somethingFound : BOOLEAN,
              downloader : Provider \cup {None},
              phase : {"none", "starting", "storing", "hung"}]

(* A task refers to a job that exists and is for the task's file, and so   *)
(* does the entry of a file in #jobs; a task that was not created has no   *)
(* job of its own.                                                         *)
JobsOK ==
  /\ \A t \in Task : task[t].state = "idle" => job[t].state = "none"
  /\ \A t \in Task : task[t].state # "idle" =>
       /\ task[t].file \in File
       /\ task[t].job \in Task
       /\ job[task[t].job].state # "none"
       /\ job[task[t].job].file = task[t].file
  /\ \A f \in File : jobs[f] # None =>
       job[jobs[f]].state # "none" /\ job[jobs[f]].file = f
  /\ \A j \in Task : job[j].state # "none" => job[j].file \in File
  /\ \A j \in Task : job[j].phase # "none" => job[j].state = "running"

(* A job that has finished has stored its file.                            *)
StoredOK ==
  /\ \A j \in Task : job[j].state = "finished" => job[j].file \in stored
  /\ FinishedMeansStored

(* #tasks holds only tasks that wait for the file; until an entry expires, *)
(* #jobs has an entry only for a file that somebody waits for.             *)
ServedOK ==
  /\ \A f \in File : \A t \in tasks[f] :
       task[t].state = "waiting" /\ task[t].file = f
  /\ expiries = Expiries => \A f \in File : jobs[f] # None => tasks[f] # {}
  /\ WaitingMeansServed

(* The entries of #jobs that run.                                          *)
SlotsOK ==
  /\ DownloadTypeOK
  /\ Cardinality(Active(jobs)) <= MaxActive

(* The inductive invariant.                                                *)
DownloadInv ==
  /\ SlotsOK
  /\ JobsOK
  /\ StoredOK
  /\ ServedOK


-----------------------------------------------------------------------------
(* What the operators of a job return.                                     *)

\* what a step of a job leaves of it
Runs(r0, r) ==
  /\ r \in JobRecord
  /\ r.file = r0.file
  /\ r.state \in {"running", "pausing", "finished", "error"}
  /\ (r.downloader = None) <=> (r.phase = "none")
  /\ r.phase # "none" => r.state = "running"

LEMMA DownloadConstants ==
  /\ NumTasks \in Nat /\ MaxActive \in Nat /\ NumRetries \in Nat
         /\ Failures \in Nat /\ Expiries \in Nat
         /\ Task = 1..NumTasks
         /\ None \notin Task /\ None \notin Provider
         /\ Named \subseteq Provider
         /\ NumRetries \in 0..NumRetries
BY DownloadAssumption DEF Task

LEMMA StartDownloaderRuns ==
  ASSUME NEW r0 \in JobRecord, r0.state = "running",
         NEW p \in Provider
  PROVE  Runs(r0, StartDownloader(r0, p))
BY DownloadConstants DEF Runs, StartDownloader, JobRecord

LEMMA ReturnErrorRuns ==
  ASSUME NEW r0 \in JobRecord, r0.downloader = None,
         r0.phase = "none"
  PROVE  Runs(r0, ReturnError(r0))
<1>1. CASE r0.retries = 0 \/ ~r0.somethingFound
  BY <1>1 DEF Runs, ReturnError, JobRecord, JobState
<1>2. CASE ~(r0.retries = 0 \/ ~r0.somethingFound)
  <2>1. r0.retries - 1 \in 0..NumRetries
    BY <1>2, DownloadConstants DEF JobRecord
  <2> QED
    BY <1>2, <2>1 DEF Runs, ReturnError, JobRecord, JobState
<1> QED
  BY <1>1, <1>2

LEMMA UpdateRuns ==
  ASSUME NEW r0 \in JobRecord, r0.state = "running",
         (r0.downloader = None) <=> (r0.phase = "none"),
         NEW r \in Update(r0)
  PROVE  /\ Runs(r0, r)
         /\ r.state # "finished"
         /\ r0.candidates # {} => r.state = "running"
<1>1. Runs(r0, r0)
  BY DEF Runs
<1>2. CASE r = r0
  BY <1>1, <1>2
<1>3. CASE \E p \in r0.candidates : r = StartDownloader(r0, p)
  <2>1. PICK p \in Provider : r = StartDownloader(r0, p)
    BY <1>3 DEF JobRecord
  <2>2. r.state = "running"
    BY <2>1 DEF StartDownloader, JobRecord
  <2> QED
    BY <2>1, <2>2, StartDownloaderRuns
<1>4. CASE r0.candidates = {} /\ r0.downloader = None /\ r = ReturnError(r0)
  <2>1. r.state # "finished"
    BY <1>4 DEF ReturnError, JobRecord
  <2> QED
    BY <1>4, <2>1, ReturnErrorRuns
<1> QED
  BY <1>2, <1>3, <1>4 DEF Update

LEMMA NextTryRuns ==
  ASSUME NEW r0 \in JobRecord, NEW r \in NextTry(r0)
  PROVE  Runs(r0, r) /\ r.state = "running"
<1> DEFINE fresh == [r0 EXCEPT !.state = "running", !.findFinished = FALSE,
                               !.somethingFound = FALSE, !.candidates = {},
                               !.downloader = None, !.phase = "none", !.asked = {}]
           named == [fresh EXCEPT !.candidates = {r0.from}, !.somethingFound = TRUE]
           search == [fresh EXCEPT !.asked = Provider]
<1>1. /\ fresh \in JobRecord /\ fresh.state = "running" /\ fresh.file = r0.file
      /\ fresh.downloader = None /\ fresh.phase = "none" /\ fresh.from = r0.from
  BY DEF JobRecord, JobState
<1>2. CASE r0.from # None
  <2>1. /\ named \in JobRecord /\ named.state = "running" /\ named.file = r0.file
        /\ named.downloader = None /\ named.phase = "none"
        /\ named.candidates # {}
    <3> HIDE DEF fresh
    <3>1. {r0.from} \in SUBSET Provider
      BY <1>2 DEF JobRecord
    <3> QED
      BY <1>1, <3>1 DEF JobRecord
  <2>2. r \in Update(named)
    BY <1>2 DEF NextTry
  <2> HIDE DEF named
  <2> QED
    BY <2>1, <2>2, UpdateRuns DEF Runs
<1>3. CASE r0.from = None
  <2>1. r = search
    BY <1>3 DEF NextTry
  <2> HIDE DEF fresh
  <2> QED
    BY <1>1, <2>1 DEF Runs, JobRecord
<1> QED
  BY <1>2, <1>3

-----------------------------------------------------------------------------
(* The type invariant in parts, and the slots.                             *)

\* DownloadTypeOK without the jobs
TablesTyped ==
  /\ task \in [Task -> [state : {"idle", "waiting", "finished", "error", "cancelled"},
                           file : File \cup {None}, job : Task \cup {None}]]
  /\ tasks \in [File -> SUBSET Task]
  /\ jobs \in [File -> Task \cup {None}]
  /\ scheduled \in BOOLEAN
  /\ stored \subseteq File
  /\ failures \in 0..Failures /\ expiries \in 0..Expiries

JobsTyped ==
  /\ job \in [Task -> JobRecord]
  /\ \A j \in Task : (job[j].downloader = None) <=> (job[j].phase = "none")

LEMMA DownloadTypes == DownloadTypeOK <=> TablesTyped /\ JobsTyped
BY DEF DownloadTypeOK, TablesTyped, JobsTyped, JobRecord

LEMMA DownloadTypesNext == DownloadTypeOK' <=> TablesTyped' /\ JobsTyped'
BY DEF DownloadTypeOK, TablesTyped, JobsTyped, JobRecord

(* The entries of #jobs are jobs for different files, so there are only    *)
(* as many as tasks.                                                       *)
LEMMA EntriesFinite ==
  ASSUME TablesTyped, JobsOK,
         NEW A, A \subseteq {f \in File : jobs[f] # None}
  PROVE  IsFiniteSet(A) /\ Cardinality(A) \in Nat
<1> DEFINE F == [f \in A |-> jobs[f]]
<1>1. F \in [A -> Task]
  BY DEF TablesTyped
<1>2. \A f, g \in A : F[f] = F[g] => f = g
  BY DEF JobsOK
<1> HIDE DEF F
<1>3. F \in Injection(A, Task)
  BY <1>1, <1>2, Fun_IsInj
<1>4. IsFiniteSet(Task)
  BY DownloadConstants, FS_Interval
<1> QED
  BY <1>3, <1>4, FS_Injection, FS_CardinalityType

LEMMA SlotsKept ==
  ASSUME DownloadInv, NEW B, B \subseteq Active(jobs)
  PROVE  Cardinality(B) <= MaxActive
<1>1. TablesTyped /\ JobsOK /\ Cardinality(Active(jobs)) <= MaxActive
  BY DownloadTypes DEF DownloadInv, SlotsOK
<1>2. Active(jobs) \subseteq {f \in File : jobs[f] # None}
  BY DEF Active
<1>3. /\ IsFiniteSet(Active(jobs)) /\ Cardinality(Active(jobs)) \in Nat
      /\ Cardinality(B) \in Nat
  BY <1>1, <1>2, EntriesFinite
<1>4. Cardinality(B) <= Cardinality(Active(jobs))
  BY <1>3, FS_Subset
<1> QED
  BY <1>1, <1>3, <1>4, DownloadConstants

-----------------------------------------------------------------------------
(* Tasks that end.                                                         *)

(* What _deleteTask leaves of the tables when the tasks U for file f end.  *)
LEMMA TasksDeleted ==
  ASSUME TablesTyped, ServedOK, NEW f \in File, NEW U \in SUBSET Task,
         \A u \in U : task[u].file = f,
         DeleteTasks(f, U)
  PROVE  /\ tasks' \in [File -> SUBSET Task]
         /\ jobs' \in [File -> Task \cup {None}]
         /\ scheduled' \in BOOLEAN
         /\ \A g \in File : tasks'[g] = tasks[g] \ U
         /\ \A g \in File : jobs'[g] = jobs[g] \/ (jobs'[g] = None /\ tasks[g] \subseteq U)
         /\ \A g \in File : jobs'[g] # None /\ tasks[g] # {} => tasks'[g] # {}
<1>1. tasks' = [tasks EXCEPT ![f] = @ \ U]
  BY DEF DeleteTasks
<1>2. tasks' \in [File -> SUBSET Task]
  BY <1>1 DEF TablesTyped
<1>3. \A g \in File : tasks'[g] = tasks[g] \ U
  BY <1>1 DEF TablesTyped, ServedOK
<1>4. CASE U \cap tasks[f] # {} /\ tasks[f] \subseteq U
  <2>1. jobs' = [jobs EXCEPT ![f] = None]
    BY <1>4 DEF DeleteTasks
  <2>2. /\ jobs' \in [File -> Task \cup {None}]
        /\ \A g \in File : g # f => jobs'[g] = jobs[g]
        /\ jobs'[f] = None
    BY <2>1 DEF TablesTyped
  <2>3. \A g \in File : g # f => tasks'[g] = tasks[g]
    BY <1>1 DEF TablesTyped
  <2> QED
    BY <1>2, <1>3, <1>4, <2>2, <2>3 DEF DeleteTasks, TablesTyped
<1>5. CASE ~(U \cap tasks[f] # {} /\ tasks[f] \subseteq U)
  <2>1. jobs' = jobs
    BY <1>5 DEF DeleteTasks
  <2>2. \A g \in File : g # f => tasks'[g] = tasks[g]
    BY <1>1 DEF TablesTyped
  <2>3. tasks[f] # {} => tasks'[f] # {}
    BY <1>3, <1>5
  <2> QED
    BY <1>2, <1>3, <2>1, <2>2, <2>3 DEF DeleteTasks, TablesTyped
<1> QED
  BY <1>4, <1>5

(* Job j goes on, or is over and all who wait for it are in U.             *)
JobGoesOn(j, U) ==
  /\ (job'[j].downloader = None) <=> (job'[j].phase = "none")
  /\ job'[j].phase # "none" => job'[j].state = "running"
  /\ job'[j].file = job[j].file
  /\ (job'[j].state = "none") <=> (job[j].state = "none")
  /\ job'[j].state \in {"running", "pausing"}
       => job[j].state \in {"running", "pausing"}
  /\ job'[j].state = "finished" => job'[j].file \in stored'
  /\ job'[j].state \in {"finished", "error"} =>
       \/ job[j].state \in {"finished", "error"}
       \/ \A t \in Task : task[t].state = "waiting" /\ task[t].job = j => t \in U

(* The tasks U for file f end in state s.                                  *)
EndTasks(f, U, s) ==
  /\ \A u \in U : task[u].state = "waiting" /\ task[u].file = f
  /\ task' = [t \in Task |-> IF t \in U THEN [task[t] EXCEPT !.state = s]
                                        ELSE task[t]]
  /\ \/ DeleteTasks(f, U)
     \/ U = {} /\ UNCHANGED <<tasks, jobs, scheduled>>
  /\ job' \in [Task -> JobRecord]
  /\ \A j \in Task : JobGoesOn(j, U)
  /\ s = "finished" /\ U # {} => f \in stored'
  /\ stored \subseteq stored' /\ stored' \subseteq File
  /\ failures' \in 0..Failures /\ expiries' = expiries

LEMMA TasksEnded ==
  ASSUME DownloadInv,
         NEW f \in File, NEW U \in SUBSET Task,
         NEW s \in {"finished", "error", "cancelled"},
         EndTasks(f, U, s)
  PROVE  DownloadInv'
<1> SUFFICES
      ASSUME
         \A u \in U : task[u].state = "waiting" /\ task[u].file = f,
         task' = [t \in Task |-> IF t \in U THEN [task[t] EXCEPT !.state = s]
                                            ELSE task[t]],
         \/ DeleteTasks(f, U)
         \/ U = {} /\ UNCHANGED <<tasks, jobs, scheduled>>,
         job' \in [Task -> JobRecord],
         \A j \in Task : JobGoesOn(j, U),
         s = "finished" /\ U # {} => f \in stored',
         stored \subseteq stored', stored' \subseteq File,
         failures' \in 0..Failures, expiries' = expiries
      PROVE  DownloadInv'
  BY DEF EndTasks
<1>1. TablesTyped /\ JobsTyped /\ JobsOK /\ StoredOK /\ ServedOK
  BY DownloadTypes DEF DownloadInv, SlotsOK
<1>2. /\ tasks' \in [File -> SUBSET Task]
      /\ jobs' \in [File -> Task \cup {None}]
      /\ scheduled' \in BOOLEAN
      /\ \A g \in File : tasks'[g] = tasks[g] \ U
      /\ \A g \in File : jobs'[g] = jobs[g] \/ (jobs'[g] = None /\ tasks[g] \subseteq U)
      /\ \A g \in File : jobs'[g] # None /\ tasks[g] # {} => tasks'[g] # {}
  <2>1. CASE DeleteTasks(f, U)
    BY <1>1, <2>1, TasksDeleted
  <2>2. CASE U = {} /\ UNCHANGED <<tasks, jobs, scheduled>>
    BY <1>1, <2>2 DEF TablesTyped
  <2> QED
    BY <2>1, <2>2
<1>3. \A t \in Task :
        /\ task'[t].file = task[t].file /\ task'[t].job = task[t].job
        /\ t \in U => task'[t].state = s /\ task[t].state = "waiting"
        /\ t \notin U => task'[t] = task[t]
        /\ task'[t].state = "idle" <=> task[t].state = "idle"
  BY <1>1 DEF TablesTyped
<1>4. task' \in [Task -> [state : {"idle", "waiting", "finished", "error", "cancelled"},
                             file : File \cup {None}, job : Task \cup {None}]]
  BY <1>1 DEF TablesTyped
<1>5. TablesTyped' /\ JobsTyped'
  BY <1>1, <1>2, <1>4 DEF TablesTyped, JobsTyped, JobGoesOn
<1>6. SlotsOK'
  <2>1. Active(jobs)' \subseteq Active(jobs)
    <3> SUFFICES ASSUME NEW g \in File, jobs'[g] # None,
                        job'[jobs'[g]].state \in {"running", "pausing"}
                 PROVE  jobs[g] # None /\ job[jobs[g]].state \in {"running", "pausing"}
      BY DEF Active, IsRunning
    <3>1. jobs'[g] = jobs[g] /\ jobs[g] \in Task
      BY <1>1, <1>2 DEF TablesTyped
    <3> QED
      BY <3>1 DEF JobGoesOn
  <2>2. (Cardinality(Active(jobs)) <= MaxActive)'
    BY <2>1, SlotsKept
  <2>3. DownloadTypeOK'
    BY <1>5, DownloadTypesNext
  <2> QED
    BY <2>2, <2>3 DEF SlotsOK
<1>7. JobsOK'
  <2>1. ASSUME NEW g \in File, jobs'[g] # None
        PROVE  job'[jobs'[g]].state # "none" /\ job'[jobs'[g]].file = g
    <3>1. jobs'[g] = jobs[g] /\ jobs[g] \in Task
      BY <1>1, <1>2, <2>1 DEF TablesTyped
    <3> QED
      BY <1>1, <2>1, <3>1 DEF JobsOK, JobGoesOn
  <2> QED
    BY <1>1, <1>3, <2>1 DEF JobsOK, JobGoesOn
<1>8. StoredOK'
  <2>1. ASSUME NEW t \in Task, task'[t].state = "finished"
        PROVE  task'[t].file \in stored'
    BY <1>1, <1>3, <2>1 DEF StoredOK, FinishedMeansStored
  <2> QED
    BY <2>1 DEF StoredOK, FinishedMeansStored, JobGoesOn
<1>9. ServedOK'
  <2>1. \A g \in File : \A t \in tasks'[g] : task'[t].state = "waiting" /\ task'[t].file = g
    <3> SUFFICES ASSUME NEW g \in File, NEW t \in tasks'[g]
                 PROVE  task'[t].state = "waiting" /\ task'[t].file = g
      OBVIOUS
    <3>1. t \in Task /\ t \in tasks[g] /\ t \notin U
      BY <1>1, <1>2 DEF TablesTyped
    <3> QED
      BY <1>1, <1>3, <3>1 DEF ServedOK
  <2>2. expiries' = Expiries => \A g \in File : jobs'[g] # None => tasks'[g] # {}
    BY <1>1, <1>2 DEF ServedOK
  <2>3. ASSUME NEW t \in Task, task'[t].state = "waiting", expiries' = Expiries
        PROVE  /\ job'[task'[t].job].state \notin {"finished", "error"}
               /\ jobs'[task'[t].file] = task'[t].job
               /\ t \in tasks'[task'[t].file]
    <3>1. t \notin U /\ task'[t] = task[t] /\ task[t].state = "waiting"
      BY <1>3, <2>3
    <3>2. task[t].file \in File /\ task[t].job \in Task
      BY <1>1, <3>1 DEF JobsOK
    <3>3. /\ job[task[t].job].state \notin {"finished", "error"}
          /\ jobs[task[t].file] = task[t].job
          /\ t \in tasks[task[t].file]
      BY <1>1, <2>3, <3>1 DEF ServedOK, WaitingMeansServed, IsComplete
    <3>4. job'[task[t].job].state \notin {"finished", "error"}
      BY <3>1, <3>2, <3>3 DEF JobGoesOn
    <3>5. jobs'[task[t].file] = jobs[task[t].file] /\ t \in tasks'[task[t].file]
      BY <1>2, <3>1, <3>2, <3>3
    <3> QED
      BY <3>1, <3>3, <3>4, <3>5
  <2> QED
    BY <2>1, <2>2, <2>3 DEF ServedOK, WaitingMeansServed, IsComplete
<1> QED
  BY <1>6, <1>7, <1>8, <1>9 DEF DownloadInv

-----------------------------------------------------------------------------
(* The inductive invariant of the downloads.                               *)

LEMMA DownloadInitially ==
  ASSUME Init PROVE DownloadInv
<1>1. NoJob \in JobRecord /\ NoJob.state = "none" /\ NoJob.phase = "none"
      /\ NoJob.downloader = None
  BY DownloadConstants DEF NoJob, JobRecord, JobState
<1>2. /\ Failures \in 0..Failures /\ Expiries \in 0..Expiries
      /\ 0 <= MaxActive
  BY DownloadConstants
<1>3. TablesTyped
  BY <1>2 DEF Init, TablesTyped
<1>4. JobsTyped /\ JobsOK
  BY <1>1 DEF Init, JobsTyped, JobsOK
<1>5. StoredOK /\ ServedOK
  BY <1>1 DEF Init, StoredOK, ServedOK, FinishedMeansStored, WaitingMeansServed
<1>6. Active(jobs) = {}
  BY DEF Init, Active
<1>7. Cardinality(Active(jobs)) <= MaxActive
  BY <1>2, <1>6, FS_EmptySet
<1> QED
  BY <1>3, <1>4, <1>5, <1>7, DownloadTypes DEF DownloadInv, SlotsOK

(* A step of a job that runs.                                              *)
LEMMA JobBecomes ==
  ASSUME DownloadInv, NEW j \in Task,
         job[j].state \in {"running", "pausing"},
         NEW r, Runs(job[j], r), Becomes(j, r),
         r.state = "finished" => r.file \in stored',
         stored \subseteq stored', stored' \subseteq File,
         failures' \in 0..Failures, expiries' = expiries
  PROVE  DownloadInv'
<1> DEFINE over == r.state \in {"finished", "error"}
           U == IF over THEN {t \in Task : task[t].job = j /\ task[t].state = "waiting"}
                ELSE {}
           s == IF over THEN r.state ELSE "error"
<1>1. TablesTyped /\ JobsTyped /\ JobsOK /\ StoredOK
  BY DownloadTypes DEF DownloadInv, SlotsOK
<1>2. job' = [job EXCEPT ![j] = r] /\ r \in JobRecord
  BY DEF Becomes, Runs
<1>3. /\ job' \in [Task -> JobRecord] /\ job'[j] = r
      /\ \A i \in Task : i # j => job'[i] = job[i]
  BY <1>1, <1>2 DEF JobsTyped
<1>4. r.file = job[j].file /\ r.state \in {"running", "pausing", "finished", "error"}
  BY DEF Runs
<1>5. s \in {"finished", "error", "cancelled"} /\ U \in SUBSET Task
  OBVIOUS
<1>6. /\ task' = [t \in Task |-> IF t \in U THEN [task[t] EXCEPT !.state = s]
                                           ELSE task[t]]
      /\ \/ DeleteTasks(r.file, U)
         \/ U = {} /\ UNCHANGED <<tasks, jobs, scheduled>>
  <2>1. CASE over
    BY <2>1 DEF Becomes
  <2>2. CASE ~over
    <3>1. U = {} /\ UNCHANGED <<task, tasks, jobs, scheduled>>
      BY <2>2 DEF Becomes
    <3>2. task = [t \in Task |-> task[t]]
      BY <1>1 DEF TablesTyped
    <3> QED
      BY <3>1, <3>2
  <2> QED
    BY <2>1, <2>2
<1>7. \A u \in U : task[u].state = "waiting" /\ task[u].file = r.file
  BY <1>1, <1>4 DEF JobsOK
<1>8. \A i \in Task : JobGoesOn(i, U)
  <2> SUFFICES ASSUME NEW i \in Task PROVE JobGoesOn(i, U)
    OBVIOUS
  <2>1. CASE i # j
    BY <1>1, <1>3, <2>1 DEF JobsTyped, JobsOK, StoredOK, JobGoesOn
  <2>2. CASE i = j
    <3>1. job'[i] = r
      BY <1>3, <2>2
    <3>2. over => \A t \in Task :
                    task[t].state = "waiting" /\ task[t].job = i => t \in U
      BY <2>2
    <3> QED
      BY <1>4, <2>2, <3>1, <3>2 DEF Runs, JobGoesOn
  <2> QED
    BY <2>1, <2>2
<1>9. s = "finished" /\ U # {} => r.file \in stored'
  OBVIOUS
<1>10. r.file \in File
  BY <1>1, <1>4 DEF JobsOK
<1>11. EndTasks(r.file, U, s)
  <2> HIDE DEF U, s, over
  <2> QED
    BY <1>3, <1>6, <1>7, <1>8, <1>9 DEF EndTasks
<1> HIDE DEF U, s, over
<1> QED
  BY <1>5, <1>10, <1>11, TasksEnded

(* Every action of a job is such a step.                                   *)
LEMMA JobActs ==
  ASSUME DownloadInv, NEW j \in Task,
         \/ JobStep(j) \/ JobTimer(j) \/ DownloaderFails(j) \/ DownloaderHangs(j)
         \/ \E p \in Provider : Found(j, p)
  PROVE  DownloadInv'
<1>1. TablesTyped /\ JobsTyped /\ JobsOK /\ StoredOK
  BY DownloadTypes DEF DownloadInv, SlotsOK
<1>2. /\ job[j] \in JobRecord
      /\ (job[j].downloader = None) <=> (job[j].phase = "none")
      /\ job[j].phase # "none" => job[j].state = "running"
      /\ job[j].state # "none" => job[j].file \in File
      /\ stored \subseteq File /\ failures \in 0..Failures
  BY <1>1 DEF JobsTyped, JobsOK, TablesTyped
<1> DEFINE q == WithoutDownloader(job[j])
           done == [q EXCEPT !.state = "finished"]
<1>3. /\ q \in JobRecord /\ q.file = job[j].file /\ q.state = job[j].state
      /\ q.downloader = None /\ q.phase = "none"
  BY <1>2 DEF WithoutDownloader, JobRecord
<1>4. Runs(job[j], done) /\ done.state = "finished"
  <2> HIDE DEF q
  <2> QED
    BY <1>3 DEF Runs, JobRecord, JobState
<1>5. CASE \E p \in Provider : Found(j, p)
  <2>1. PICK p \in Provider : Found(j, p)
    BY <1>5
  <2> DEFINE r0 == [job[j] EXCEPT !.asked = @ \ {p}, !.somethingFound = TRUE,
                                   !.candidates = @ \cup {p}]
  <2>2. /\ job[j].state = "running" /\ UNCHANGED <<stored, failures, expiries>>
    BY <2>1 DEF Found
  <2>3. PICK r \in Update(r0) : Becomes(j, r)
    BY <2>1 DEF Found
  <2>4. /\ r0 \in JobRecord /\ r0.state = "running" /\ r0.file = job[j].file
        /\ (r0.downloader = None) <=> (r0.phase = "none")
    BY <1>2, <2>2 DEF JobRecord
  <2> HIDE DEF r0
  <2>5. Runs(r0, r) /\ r.state # "finished"
    BY <2>4, UpdateRuns
  <2>6. Runs(job[j], r)
    BY <2>4, <2>5 DEF Runs
  <2> QED
    BY <1>2, <2>2, <2>3, <2>5, <2>6, JobBecomes
<1>6. CASE FindFinished(j)
  <2> DEFINE r0 == [job[j] EXCEPT !.findFinished = TRUE, !.asked = {}]
  <2>2. /\ job[j].state = "running" /\ UNCHANGED <<stored, failures, expiries>>
    BY <1>6 DEF FindFinished
  <2>3. PICK r \in Update(r0) : Becomes(j, r)
    BY <1>6 DEF FindFinished
  <2>4. /\ r0 \in JobRecord /\ r0.state = "running" /\ r0.file = job[j].file
        /\ (r0.downloader = None) <=> (r0.phase = "none")
    BY <1>2, <2>2 DEF JobRecord
  <2> HIDE DEF r0
  <2>5. Runs(r0, r) /\ r.state # "finished"
    BY <2>4, UpdateRuns
  <2>6. Runs(job[j], r)
    BY <2>4, <2>5 DEF Runs
  <2> QED
    BY <1>2, <2>2, <2>3, <2>5, <2>6, JobBecomes
<1>7. CASE JobTimer(j)
  <2>1. PICK p \in job[j].candidates : Becomes(j, StartDownloader(job[j], p))
    BY <1>7 DEF JobTimer
  <2>2. job[j].state = "running" /\ UNCHANGED <<stored, failures, expiries>>
    BY <1>7 DEF JobTimer
  <2>3. Runs(job[j], StartDownloader(job[j], p))
    BY <1>2, <2>2, StartDownloaderRuns DEF JobRecord
  <2>4. StartDownloader(job[j], p).state # "finished"
    BY <1>2, <2>2 DEF StartDownloader, JobRecord
  <2> QED
    BY <1>2, <2>1, <2>2, <2>3, <2>4, JobBecomes
<1>8. CASE Retry(j)
  <2>1. PICK r \in NextTry(job[j]) : Becomes(j, r)
    BY <1>8 DEF Retry
  <2>2. job[j].state = "pausing" /\ UNCHANGED <<stored, failures, expiries>>
    BY <1>8 DEF Retry
  <2>3. Runs(job[j], r) /\ r.state = "running"
    BY <1>2, NextTryRuns
  <2> QED
    BY <1>2, <2>1, <2>2, <2>3, JobBecomes
<1>9. CASE DownloaderDelivers(j)
  <2>1. job[j].state = "running" /\ UNCHANGED <<stored, failures, expiries>>
    BY <1>2, <1>9 DEF DownloaderDelivers
  <2>2. CASE job[j].file \in stored
    <3>1. Becomes(j, done)
      BY <1>9, <2>2 DEF DownloaderDelivers
    <3>2. done.file \in stored'
      BY <1>4, <2>1, <2>2 DEF Runs
    <3> HIDE DEF done
    <3> QED
      BY <1>2, <1>4, <2>1, <3>1, <3>2, JobBecomes
  <2>3. CASE job[j].file \notin stored
    <3> DEFINE r == [job[j] EXCEPT !.phase = "storing"]
    <3>1. Becomes(j, r) /\ job[j].phase = "starting"
      BY <1>9, <2>3 DEF DownloaderDelivers
    <3>2. Runs(job[j], r) /\ r.state = "running"
      BY <1>2, <2>1, <3>1 DEF Runs, JobRecord
    <3> HIDE DEF r
    <3> QED
      BY <1>2, <2>1, <3>1, <3>2, JobBecomes
  <2> QED
    BY <2>2, <2>3
<1>10. CASE DownloaderFails(j)
  <2>1. job[j].state = "running" /\ UNCHANGED <<stored, expiries>>
    BY <1>2, <1>10 DEF DownloaderFails
  <2>2. failures' \in 0..Failures
    BY <1>2, <1>10, DownloadConstants DEF DownloaderFails, Fail
  <2>3. PICK r \in Update(q) : Becomes(j, r)
    BY <1>10 DEF DownloaderFails
  <2> HIDE DEF q
  <2>4. Runs(q, r) /\ r.state # "finished"
    BY <1>3, <2>1, <2>3, UpdateRuns
  <2>5. Runs(job[j], r)
    BY <1>3, <2>4 DEF Runs
  <2> QED
    BY <1>2, <2>1, <2>2, <2>3, <2>4, <2>5, JobBecomes
<1>11. CASE FileStored(j)
  <2>1. /\ job[j].state = "running" /\ UNCHANGED <<failures, expiries>>
        /\ stored' = stored \cup {job[j].file} /\ Becomes(j, done)
    BY <1>2, <1>11 DEF FileStored
  <2>2. done.file \in stored' /\ stored' \subseteq File
    BY <1>2, <1>4, <2>1 DEF Runs
  <2> HIDE DEF done
  <2> QED
    BY <1>2, <1>4, <2>1, <2>2, JobBecomes
<1>12. CASE DownloaderHangs(j)
  <2> DEFINE r == [job[j] EXCEPT !.phase = "hung"]
  <2>1. /\ job[j].state = "running" /\ UNCHANGED <<stored, expiries>>
        /\ Becomes(j, r) /\ job[j].phase = "starting"
    BY <1>2, <1>12 DEF DownloaderHangs
  <2>2. failures' \in 0..Failures
    BY <1>2, <1>12, DownloadConstants DEF DownloaderHangs, Fail
  <2>3. Runs(job[j], r) /\ r.state = "running"
    BY <1>2, <2>1 DEF Runs, JobRecord
  <2> HIDE DEF r
  <2> QED
    BY <1>2, <2>1, <2>2, <2>3, JobBecomes
<1> QED
  BY <1>5, <1>6, <1>7, <1>8, <1>9, <1>10, <1>11, <1>12 DEF JobStep

(* A reader cancels, or hears late that the job was over.                  *)
LEMMA TaskLeaves ==
  ASSUME DownloadInv, NEW t \in Task,
         CancelTask(t) \/ ToldLate(t)
  PROVE  DownloadInv'
<1> DEFINE s == IF CancelTask(t) THEN "cancelled" ELSE job[task[t].job].state
<1>1. TablesTyped /\ JobsTyped /\ JobsOK /\ StoredOK
  BY DownloadTypes DEF DownloadInv, SlotsOK
<1>2. /\ task[t].state = "waiting"
      /\ task' = [task EXCEPT ![t].state = s]
      /\ DeleteTasks(task[t].file, {t})
      /\ UNCHANGED <<job, stored, failures, expiries>>
  BY DEF CancelTask, ToldLate
<1>3. task[t].file \in File /\ task[t].job \in Task
  BY <1>1, <1>2 DEF JobsOK
<1>4. s \in {"finished", "error", "cancelled"}
  BY DEF ToldLate, IsComplete
<1>5. s = "finished" => task[t].file \in stored'
  BY <1>1, <1>2, <1>3 DEF StoredOK, JobsOK
<1>6. task' = [u \in Task |-> IF u \in {t} THEN [task[u] EXCEPT !.state = s]
                                          ELSE task[u]]
  <2> HIDE DEF s
  <2> QED
    BY <1>1, <1>2 DEF TablesTyped
<1>7. \A i \in Task : JobGoesOn(i, {t})
  BY <1>1, <1>2 DEF JobsTyped, JobsOK, StoredOK, JobGoesOn
<1> HIDE DEF s
<1>8. EndTasks(task[t].file, {t}, s)
  BY <1>1, <1>2, <1>5, <1>6, <1>7 DEF EndTasks, TablesTyped, JobsTyped
<1>9. {t} \in SUBSET Task
  OBVIOUS
<1> QED
  BY <1>3, <1>4, <1>8, <1>9, TasksEnded

(* A reader comes: he joins the job in #jobs or gets one of his own.       *)
LEMMA TaskComes ==
  ASSUME DownloadInv, NEW t \in Task,
         NEW f \in File, NEW from \in Named \cup {None},
         CreateTask(t, f, from)
  PROVE  DownloadInv'
<1> DEFINE j == IF jobs[f] # None THEN jobs[f] ELSE t
           new == [NoJob EXCEPT !.file = f, !.from = from,
                                   !.retries = NumRetries, !.state = "waiting"]
<1>1. TablesTyped /\ JobsTyped /\ JobsOK /\ StoredOK /\ ServedOK
  BY DownloadTypes DEF DownloadInv, SlotsOK
<1>2. /\ task[t].state = "idle"
      /\ task' = [task EXCEPT ![t] = [state |-> "waiting", file |-> f, job |-> j]]
      /\ tasks' = [tasks EXCEPT ![f] = @ \cup {t}]
      /\ jobs' = [jobs EXCEPT ![f] = j]
      /\ job' = IF j = t THEN [job EXCEPT ![t] = new] ELSE job
      /\ scheduled' = TRUE
      /\ UNCHANGED <<stored, failures, expiries>>
  BY DEF CreateTask
<1>3. /\ new \in JobRecord /\ new.file = f /\ new.state = "waiting"
      /\ new.downloader = None /\ new.phase = "none"
  BY DownloadConstants DEF NoJob, JobRecord, JobState
<1> HIDE DEF new
<1>4. job[t].state = "none"
  BY <1>1, <1>2 DEF JobsOK
<1>5. j \in Task /\ j # None /\ (jobs[f] # None => j # t)
  BY <1>1, <1>4, DownloadConstants DEF TablesTyped, JobsOK
<1>6. /\ jobs[f] = None => j = t
      /\ jobs[f] # None => j = jobs[f]
  OBVIOUS
<1> HIDE DEF j
<1>7. /\ job' \in [Task -> JobRecord]
      /\ \A i \in Task : i # t => job'[i] = job[i]
      /\ j = t => job'[t] = new
      /\ j # t => job'[t] = job[t]
  BY <1>1, <1>2, <1>3 DEF JobsTyped
<1>8. \A i \in Task : job[i].state # "none" => job'[i] = job[i]
  BY <1>4, <1>7
<1>9. /\ job'[j].state # "none" /\ job'[j].file = f
      /\ job'[j].state \in {"running", "pausing"} => jobs[f] # None /\ job'[j] = job[j]
  BY <1>1, <1>3, <1>5, <1>6, <1>7 DEF JobsOK
<1>10. /\ task' \in [Task -> [state : {"idle", "waiting", "finished", "error", "cancelled"},
                                 file : File \cup {None}, job : Task \cup {None}]]
       /\ task'[t] = [state |-> "waiting", file |-> f, job |-> j]
       /\ \A u \in Task : u # t => task'[u] = task[u]
  BY <1>1, <1>2, <1>5 DEF TablesTyped
<1>11. /\ tasks' \in [File -> SUBSET Task]
       /\ tasks'[f] = tasks[f] \cup {t}
       /\ \A g \in File : g # f => tasks'[g] = tasks[g]
  BY <1>1, <1>2 DEF TablesTyped
<1>12. /\ jobs' \in [File -> Task \cup {None}]
       /\ jobs'[f] = j
       /\ \A g \in File : g # f => jobs'[g] = jobs[g]
  BY <1>1, <1>2, <1>5 DEF TablesTyped
<1>13. TablesTyped' /\ JobsTyped'
  <2>1. JobsTyped'
    BY <1>1, <1>3, <1>7 DEF JobsTyped
  <2>2. TablesTyped'
    BY <1>1, <1>2, <1>10, <1>11, <1>12 DEF TablesTyped
  <2> QED
    BY <2>1, <2>2
<1>14. SlotsOK'
  <2>1. Active(jobs)' \subseteq Active(jobs)
    <3> SUFFICES ASSUME NEW g \in File, jobs'[g] # None,
                        job'[jobs'[g]].state \in {"running", "pausing"}
                 PROVE  jobs[g] # None /\ job[jobs[g]].state \in {"running", "pausing"}
      BY DEF Active, IsRunning
    <3>1. CASE g = f
      BY <1>6, <1>9, <1>12, <3>1
    <3>2. CASE g # f
      <4>1. jobs'[g] = jobs[g] /\ jobs[g] \in Task /\ job[jobs[g]].state # "none"
        BY <1>1, <1>12, <3>2 DEF TablesTyped, JobsOK
      <4> QED
        BY <1>8, <4>1
    <3> QED
      BY <3>1, <3>2
  <2>2. (Cardinality(Active(jobs)) <= MaxActive)'
    BY <2>1, SlotsKept
  <2> QED
    BY <1>13, <2>2, DownloadTypesNext DEF SlotsOK
<1>15. JobsOK'
  <2>1. ASSUME NEW u \in Task, task'[u].state = "idle" PROVE job'[u].state = "none"
    <3>1. u # t
      BY <1>10, <2>1
    <3> QED
      BY <1>1, <1>7, <1>10, <2>1, <3>1 DEF JobsOK
  <2>2. ASSUME NEW u \in Task, task'[u].state # "idle"
        PROVE  /\ task'[u].file \in File
               /\ task'[u].job \in Task
               /\ job'[task'[u].job].state # "none"
               /\ job'[task'[u].job].file = task'[u].file
    <3>1. CASE u = t
      BY <1>5, <1>9, <1>10, <3>1
    <3>2. CASE u # t
      <4>1. /\ task[u].file \in File /\ task[u].job \in Task
            /\ job[task[u].job].state # "none"
            /\ job[task[u].job].file = task[u].file
            /\ task'[u] = task[u]
        BY <1>1, <1>10, <2>2, <3>2 DEF JobsOK
      <4> QED
        BY <1>8, <4>1
    <3> QED
      BY <3>1, <3>2
  <2>3. ASSUME NEW g \in File, jobs'[g] # None
        PROVE  job'[jobs'[g]].state # "none" /\ job'[jobs'[g]].file = g
    <3>1. CASE g = f
      BY <1>9, <1>12, <3>1
    <3>2. CASE g # f
      <4>1. /\ jobs'[g] = jobs[g] /\ jobs[g] \in Task
            /\ job[jobs[g]].state # "none" /\ job[jobs[g]].file = g
        BY <1>1, <1>12, <2>3, <3>2 DEF TablesTyped, JobsOK
      <4> QED
        BY <1>8, <4>1
    <3> QED
      BY <3>1, <3>2
  <2>4. ASSUME NEW i \in Task
        PROVE  /\ job'[i].state # "none" => job'[i].file \in File
               /\ job'[i].phase # "none" => job'[i].state = "running"
    BY <1>1, <1>3, <1>7 DEF JobsOK
  <2> QED
    BY <2>1, <2>2, <2>3, <2>4 DEF JobsOK
<1>16. StoredOK'
  <2>1. ASSUME NEW i \in Task, job'[i].state = "finished" PROVE job'[i].file \in stored'
    BY <1>1, <1>2, <1>3, <1>7, <2>1 DEF StoredOK
  <2>2. ASSUME NEW u \in Task, task'[u].state = "finished"
        PROVE  task'[u].file \in stored'
    BY <1>1, <1>2, <1>10, <2>2 DEF StoredOK, FinishedMeansStored
  <2> QED
    BY <2>1, <2>2 DEF StoredOK, FinishedMeansStored
<1>17. ServedOK'
  <2>1. ASSUME NEW g \in File, NEW u \in tasks'[g]
        PROVE  task'[u].state = "waiting" /\ task'[u].file = g
    <3>1. CASE u = t
      <4>1. g = f
        BY <1>1, <1>2, <1>11, <2>1, <3>1 DEF ServedOK
      <4> QED
        BY <1>10, <3>1, <4>1
    <3>2. CASE u # t
      <4>1. u \in tasks[g] /\ u \in Task
        BY <1>11, <2>1, <3>2
      <4> QED
        BY <1>1, <1>10, <3>2, <4>1 DEF ServedOK
    <3> QED
      BY <3>1, <3>2
  <2>2. expiries' = Expiries => \A g \in File : jobs'[g] # None => tasks'[g] # {}
    BY <1>1, <1>2, <1>11, <1>12 DEF ServedOK
  <2>3. ASSUME NEW u \in Task, task'[u].state = "waiting", expiries' = Expiries
        PROVE  /\ job'[task'[u].job].state \notin {"finished", "error"}
               /\ jobs'[task'[u].file] = task'[u].job
               /\ u \in tasks'[task'[u].file]
    <3>1. CASE u = t
      <4>1. job'[j].state \notin {"finished", "error"}
        <5>1. CASE j = t
          BY <1>3, <1>7, <5>1
        <5>2. CASE j # t
          <6>1. jobs[f] # None /\ j = jobs[f] /\ expiries = Expiries
            BY <1>2, <1>6, <2>3, <5>2
          <6>2. PICK v \in tasks[f] : TRUE
            BY <1>1, <6>1 DEF ServedOK
          <6>3. v \in Task /\ task[v].state = "waiting" /\ task[v].file = f
            BY <1>1 DEF ServedOK, TablesTyped
          <6>4. job[j].state \notin {"finished", "error"}
            BY <1>1, <6>1, <6>3 DEF ServedOK, WaitingMeansServed, IsComplete
          <6> QED
            BY <1>5, <1>7, <5>2, <6>4
        <5> QED
          BY <5>1, <5>2
      <4> QED
        BY <1>10, <1>11, <1>12, <3>1, <4>1
    <3>2. CASE u # t
      <4>1. task'[u] = task[u] /\ task[u].state = "waiting" /\ expiries = Expiries
        BY <1>2, <1>10, <2>3, <3>2
      <4>2. /\ task[u].file \in File /\ task[u].job \in Task
            /\ job[task[u].job].state # "none"
        BY <1>1, <4>1 DEF JobsOK
      <4>3. /\ job[task[u].job].state \notin {"finished", "error"}
            /\ jobs[task[u].file] = task[u].job
            /\ u \in tasks[task[u].file]
        BY <1>1, <4>1 DEF ServedOK, WaitingMeansServed, IsComplete
      <4>4. jobs'[task[u].file] = jobs[task[u].file]
        BY <1>6, <1>12, <4>2, <4>3, DownloadConstants
      <4>5. u \in tasks'[task[u].file]
        BY <1>11, <4>2, <4>3
      <4> QED
        BY <1>8, <4>1, <4>2, <4>3, <4>4, <4>5
    <3> QED
      BY <3>1, <3>2
  <2> QED
    BY <2>1, <2>2, <2>3 DEF ServedOK, WaitingMeansServed, IsComplete
<1> QED
  BY <1>14, <1>15, <1>16, <1>17 DEF DownloadInv

(* _update forgets the jobs that are over and starts no more than there    *)
(* are free slots.                                                         *)
LEMMA UpdateStarts ==
  ASSUME DownloadInv, ScheduledUpdate
  PROVE  \E S \in SUBSET File :
           /\ jobs' = [f \in File |-> IF jobs[f] # None /\ IsComplete(jobs[f])
                                      THEN None ELSE jobs[f]]
           /\ \A f \in S : jobs'[f] # None /\ job[jobs[f]].state = "waiting"
           /\ S = {} \/ Cardinality(S) <= MaxActive - Cardinality(Active(jobs'))
           /\ job' \in [Task -> JobRecord]
           /\ \A i \in Task :
                \/ job'[i] = job[i]
                \/ \E f \in S : i = jobs[f] /\ Runs(job[i], job'[i])
                                            /\ job'[i].state = "running"
           /\ scheduled' = FALSE
           /\ UNCHANGED <<task, tasks, stored, failures, expiries>>
<1> DEFINE left == [f \in File |-> IF jobs[f] # None /\ IsComplete(jobs[f])
                                   THEN None ELSE jobs[f]]
           ready == {f \in File : left[f] # None /\ job[left[f]].state = "waiting"}
           free == MaxActive - Cardinality(Active(left))
           J(S) == {left[f] : f \in S}
<1>1. /\ scheduled' = FALSE /\ jobs' = left
      /\ UNCHANGED <<task, tasks, stored, failures, expiries>>
  BY DEF ScheduledUpdate
<1>2. TablesTyped /\ JobsTyped
  BY DownloadTypes DEF DownloadInv, SlotsOK
<1>3. CASE UNCHANGED job
  <2> WITNESS {} \in SUBSET File
  <2>1. job' \in [Task -> JobRecord] /\ \A i \in Task : job'[i] = job[i]
    BY <1>2, <1>3 DEF JobsTyped
  <2> QED
    BY <1>1, <2>1
<1>4. CASE \E S \in SUBSET ready :
             /\ Cardinality(S) <= free
             /\ \E start \in [J(S) -> UNION {NextTry(job[j]) : j \in J(S)}] :
                  /\ \A j \in J(S) : start[j] \in NextTry(job[j])
                  /\ job' = [j \in Task |-> IF j \in J(S) THEN start[j] ELSE job[j]]
  <2>1. PICK S \in SUBSET ready :
             /\ Cardinality(S) <= free
             /\ \E start \in [J(S) -> UNION {NextTry(job[j]) : j \in J(S)}] :
                  /\ \A j \in J(S) : start[j] \in NextTry(job[j])
                  /\ job' = [j \in Task |-> IF j \in J(S) THEN start[j] ELSE job[j]]
    BY <1>4
  <2>2. PICK start \in [J(S) -> UNION {NextTry(job[j]) : j \in J(S)}] :
                  /\ \A j \in J(S) : start[j] \in NextTry(job[j])
                  /\ job' = [j \in Task |-> IF j \in J(S) THEN start[j] ELSE job[j]]
    BY <2>1
  <2>3. \A f \in S : /\ f \in File /\ left[f] # None /\ left[f] = jobs[f]
                     /\ job[jobs[f]].state = "waiting" /\ jobs[f] \in Task
    BY <1>2 DEF TablesTyped
  <2> HIDE DEF left, free
  <2>4. ASSUME NEW i \in Task
        PROVE  /\ job'[i] \in JobRecord
               /\ \/ job'[i] = job[i]
                  \/ \E f \in S : i = jobs[f] /\ Runs(job[i], job'[i])
                                              /\ job'[i].state = "running"
    <3>1. CASE i \in J(S)
      <4>1. PICK f \in S : i = left[f]
        BY <3>1
      <4>2. job'[i] \in NextTry(job[i]) /\ job[i] \in JobRecord
        BY <1>2, <2>2, <3>1 DEF JobsTyped
      <4>3. Runs(job[i], job'[i]) /\ job'[i].state = "running"
        BY <4>2, NextTryRuns
      <4> QED
        BY <2>3, <4>1, <4>3 DEF Runs
    <3>2. CASE i \notin J(S)
      BY <1>2, <2>2, <3>2 DEF JobsTyped
    <3> QED
      BY <3>1, <3>2
  <2>5. job' \in [Task -> JobRecord]
    <3>1. job' = [j \in Task |-> job'[j]]
      BY <2>2
    <3> QED
      BY <2>4, <3>1
  <2>6. Cardinality(S) <= MaxActive - Cardinality(Active(jobs'))
    BY <1>1, <2>1 DEF free
  <2>7. S \in SUBSET File /\ \A f \in S : jobs'[f] # None /\ job[jobs[f]].state = "waiting"
    BY <1>1, <2>3
  <2>8. jobs' = [f \in File |-> IF jobs[f] # None /\ IsComplete(jobs[f])
                                THEN None ELSE jobs[f]]
    BY <1>1 DEF left
  <2> QED
    BY <1>1, <2>4, <2>5, <2>6, <2>7, <2>8
<1>5. UNCHANGED job \/ (\E S \in SUBSET ready :
             /\ Cardinality(S) <= free
             /\ \E start \in [J(S) -> UNION {NextTry(job[j]) : j \in J(S)}] :
                  /\ \A j \in J(S) : start[j] \in NextTry(job[j])
                  /\ job' = [j \in Task |-> IF j \in J(S) THEN start[j] ELSE job[j]])
  BY DEF ScheduledUpdate
<1> QED
  BY <1>3, <1>4, <1>5

LEMMA UpdateStep ==
  ASSUME DownloadInv, ScheduledUpdate
  PROVE  DownloadInv'
<1>1. PICK S \in SUBSET File :
           /\ jobs' = [f \in File |-> IF jobs[f] # None /\ IsComplete(jobs[f])
                                      THEN None ELSE jobs[f]]
           /\ \A f \in S : jobs'[f] # None /\ job[jobs[f]].state = "waiting"
           /\ S = {} \/ Cardinality(S) <= MaxActive - Cardinality(Active(jobs'))
           /\ job' \in [Task -> JobRecord]
           /\ \A i \in Task :
                \/ job'[i] = job[i]
                \/ \E f \in S : i = jobs[f] /\ Runs(job[i], job'[i])
                                            /\ job'[i].state = "running"
           /\ scheduled' = FALSE
           /\ UNCHANGED <<task, tasks, stored, failures, expiries>>
  BY UpdateStarts
<1>2. TablesTyped /\ JobsTyped /\ JobsOK /\ StoredOK /\ ServedOK
  BY DownloadTypes DEF DownloadInv, SlotsOK
<1>3. /\ jobs' \in [File -> Task \cup {None}]
      /\ \A f \in File : jobs'[f] # None =>
           /\ jobs'[f] = jobs[f] /\ jobs[f] \in Task
           /\ job[jobs[f]].state \notin {"finished", "error"}
      /\ \A f \in File : jobs[f] # None /\ job[jobs[f]].state \notin {"finished", "error"}
           => jobs'[f] = jobs[f]
  BY <1>1, <1>2 DEF TablesTyped, IsComplete
<1>4. \A i \in Task :
        \/ job'[i] = job[i]
        \/ /\ job[i].state = "waiting" /\ Runs(job[i], job'[i])
           /\ job'[i].state = "running"
           /\ \E f \in S : i = jobs[f]
  BY <1>1
<1>5. \A i \in Task : /\ job'[i].file = job[i].file
                      /\ (job'[i].state = "none") <=> (job[i].state = "none")
  BY <1>4 DEF Runs
<1>6. TablesTyped' /\ JobsTyped'
  <2>1. TablesTyped'
    BY <1>1, <1>2, <1>3 DEF TablesTyped
  <2>2. JobsTyped'
    BY <1>1, <1>2, <1>4 DEF JobsTyped, Runs
  <2> QED
    BY <2>1, <2>2
<1>7. SlotsOK'
  <2> DEFINE A == Active(jobs')
  <2>1. A \subseteq Active(jobs)
    BY <1>3 DEF Active, IsRunning
  <2>2. Active(jobs)' \subseteq A \cup S
    <3> SUFFICES ASSUME NEW g \in File, jobs'[g] # None, g \notin S,
                        job'[jobs'[g]].state \in {"running", "pausing"}
                 PROVE  job[jobs'[g]].state \in {"running", "pausing"}
      BY DEF Active, IsRunning
    <3>1. /\ jobs'[g] = jobs[g] /\ jobs[g] \in Task /\ job[jobs[g]].file = g
          /\ jobs[g] # None
      BY <1>2, <1>3, DownloadConstants DEF JobsOK
    <3>2. ASSUME NEW f \in S, jobs[g] = jobs[f] PROVE FALSE
      <4>1. f \in File /\ jobs[f] # None
        BY <3>1, <3>2
      <4>2. job[jobs[f]].file = f
        BY <1>2, <4>1 DEF JobsOK
      <4> QED
        BY <3>1, <3>2, <4>2
    <3> QED
      BY <1>4, <3>1, <3>2
  <2>3. /\ A \subseteq {f \in File : jobs[f] # None}
        /\ S \subseteq {f \in File : jobs[f] # None}
    BY <1>1, <1>3, DownloadConstants DEF Active
  <2> HIDE DEF A
  <2>4. /\ IsFiniteSet(A) /\ IsFiniteSet(S) /\ IsFiniteSet(A \cup S)
        /\ Cardinality(A) \in Nat /\ Cardinality(S) \in Nat
        /\ Cardinality(A \cup S) \in Nat
    <3>1. A \cup S \subseteq {f \in File : jobs[f] # None}
      BY <2>3
    <3> QED
      BY <1>2, <2>3, <3>1, EntriesFinite
  <2>5. Cardinality(A) <= MaxActive
    BY <2>1, SlotsKept
  <2>6. Cardinality(A \cup S) <= MaxActive
    <3>1. CASE S = {}
      <4>1. A \cup S = A
        BY <3>1
      <4> QED
        BY <2>5, <4>1
    <3>2. CASE S # {}
      <4>1. Cardinality(S) <= MaxActive - Cardinality(A)
        BY <1>1, <3>2 DEF A
      <4>2. /\ Cardinality(A \cup S) = Cardinality(A) + Cardinality(S) - Cardinality(A \cap S)
            /\ Cardinality(A \cap S) \in Nat
        BY <2>4, FS_Union, FS_Intersection, FS_CardinalityType
      <4> QED
        BY <2>4, <4>1, <4>2, DownloadConstants
    <3> QED
      BY <3>1, <3>2
  <2>7. Cardinality(Active(jobs)') <= Cardinality(A \cup S)
    BY <2>2, <2>4, FS_Subset
  <2>8. (Cardinality(Active(jobs)) <= MaxActive)'
    <3>1. Cardinality(Active(jobs)') \in Nat
      BY <2>2, <2>4, FS_Subset, FS_CardinalityType
    <3> QED
      BY <2>4, <2>6, <2>7, <3>1, DownloadConstants
  <2> QED
    BY <1>6, <2>8, DownloadTypesNext DEF SlotsOK
<1>8. JobsOK'
  <2>1. \A t \in Task : task[t].state # "idle" =>
          /\ task[t].file \in File /\ task[t].job \in Task
          /\ job'[task[t].job].state # "none"
          /\ job'[task[t].job].file = task[t].file
    BY <1>2, <1>5 DEF JobsOK
  <2>2. \A f \in File : jobs'[f] # None =>
          job'[jobs'[f]].state # "none" /\ job'[jobs'[f]].file = f
    BY <1>2, <1>3, <1>5, DownloadConstants DEF JobsOK
  <2>3. \A i \in Task : job'[i].phase # "none" => job'[i].state = "running"
    BY <1>2, <1>4 DEF JobsOK
  <2> QED
    BY <1>1, <1>2, <1>5, <2>1, <2>2, <2>3 DEF JobsOK
<1>9. StoredOK'
  BY <1>1, <1>2, <1>4 DEF StoredOK, FinishedMeansStored
<1>10. ServedOK'
  <2>1. \A g \in File : \A u \in tasks'[g] : task'[u].state = "waiting" /\ task'[u].file = g
    BY <1>1, <1>2 DEF ServedOK
  <2>2. expiries' = Expiries => \A g \in File : jobs'[g] # None => tasks'[g] # {}
    BY <1>1, <1>2, <1>3, DownloadConstants DEF ServedOK
  <2>3. ASSUME NEW u \in Task, task'[u].state = "waiting", expiries' = Expiries
        PROVE  /\ job'[task'[u].job].state \notin {"finished", "error"}
               /\ jobs'[task'[u].file] = task'[u].job
               /\ u \in tasks'[task'[u].file]
    <3>1. task'[u] = task[u] /\ tasks' = tasks /\ expiries = Expiries
      BY <1>1, <2>3
    <3>2. task[u].file \in File /\ task[u].job \in Task
      BY <1>2, <2>3, <3>1 DEF JobsOK
    <3>3. /\ job[task[u].job].state \notin {"finished", "error"}
          /\ jobs[task[u].file] = task[u].job
          /\ u \in tasks[task[u].file]
      BY <1>2, <2>3, <3>1 DEF ServedOK, WaitingMeansServed, IsComplete
    <3>4. job'[task[u].job].state \notin {"finished", "error"}
      BY <1>4, <3>2, <3>3
    <3>5. jobs'[task[u].file] = jobs[task[u].file]
      BY <1>3, <3>2, <3>3, DownloadConstants
    <3> QED
      BY <3>1, <3>3, <3>4, <3>5
  <2> QED
    BY <2>1, <2>2, <2>3 DEF ServedOK, WaitingMeansServed, IsComplete
<1> QED
  BY <1>7, <1>8, <1>9, <1>10 DEF DownloadInv

(* An entry that expires is forgotten; nobody is served by it any more.    *)
LEMMA ExpireStep ==
  ASSUME DownloadInv, NEW f \in File, Expire(f)
  PROVE  DownloadInv'
<1>1. TablesTyped /\ JobsTyped /\ JobsOK /\ StoredOK /\ ServedOK
  BY DownloadTypes DEF DownloadInv, SlotsOK
<1>2. /\ expiries' = expiries - 1 /\ expiries > 0
      /\ UNCHANGED <<task, job, scheduled, stored, failures>>
      /\ \/ jobs' = [jobs EXCEPT ![f] = None] /\ UNCHANGED tasks
         \/ tasks' = [tasks EXCEPT ![f] = {}] /\ UNCHANGED jobs
  BY DEF Expire
<1>3. expiries' \in 0..Expiries /\ expiries' # Expiries
  BY <1>1, <1>2, DownloadConstants DEF TablesTyped
<1>4. /\ jobs' \in [File -> Task \cup {None}]
      /\ tasks' \in [File -> SUBSET Task]
      /\ \A g \in File : jobs'[g] # None => jobs'[g] = jobs[g]
      /\ \A g \in File : tasks'[g] \subseteq tasks[g]
  BY <1>1, <1>2 DEF TablesTyped
<1>5. TablesTyped' /\ JobsTyped'
  BY <1>1, <1>2, <1>3, <1>4 DEF TablesTyped, JobsTyped
<1>6. SlotsOK'
  <2>1. Active(jobs)' \subseteq Active(jobs)
    BY <1>2, <1>4 DEF Active, IsRunning
  <2>2. (Cardinality(Active(jobs)) <= MaxActive)'
    BY <2>1, SlotsKept
  <2> QED
    BY <1>5, <2>2, DownloadTypesNext DEF SlotsOK
<1>7. JobsOK' /\ StoredOK'
  BY <1>1, <1>2, <1>4 DEF JobsOK, StoredOK, FinishedMeansStored
<1>8. ServedOK'
  BY <1>1, <1>2, <1>3, <1>4 DEF ServedOK, WaitingMeansServed
<1> QED
  BY <1>6, <1>7, <1>8 DEF DownloadInv

LEMMA DownloadStep ==
  ASSUME DownloadInv, [Next]_vars
  PROVE  DownloadInv'
<1>1. CASE UNCHANGED vars
  BY <1>1 DEF vars, DownloadInv, SlotsOK, DownloadTypeOK, Active,
    IsRunning, JobsOK, StoredOK, ServedOK, FinishedMeansStored,
    WaitingMeansServed, IsComplete
<1>2. CASE Next
  BY <1>2, TaskComes, TaskLeaves, JobActs, UpdateStep, ExpireStep DEF Next
<1> QED
  BY <1>1, <1>2

(* The books of the DownloadOptimizer agree: tasks, jobs, slots and the    *)
(* storage, for any number of readers, files and providers.                *)
THEOREM DownloadInvariance == Spec => []DownloadInv
<1>1. Init => DownloadInv
  BY DownloadInitially
<1>2. DownloadInv /\ [Next]_vars => DownloadInv'
  BY DownloadStep
<1> QED
  BY <1>1, <1>2, PTL DEF Spec

(* No more than MaxActive of the entries of #jobs run, and no more of the  *)
(* downloads that somebody waits for, until an entry expires: while a task *)
(* waits its job is the entry for its file (DownloadOptimizer._update and  *)
(* _deleteTask).  Nothing bounds the downloads that nobody waits for.      *)
THEOREM DownloadsWithinSlots == Spec => []SlotsBound
<1>1. ASSUME DownloadInv PROVE SlotsBound
  <2>1. TablesTyped /\ JobsTyped /\ JobsOK /\ ServedOK /\ SlotsOK
    BY <1>1, DownloadTypes DEF DownloadInv, SlotsOK
  <2> DEFINE W == {j \in Task : IsRunning(j) /\ Wanted(j)}
  <2>2. ASSUME expiries = Expiries
        PROVE  Cardinality(W) <= MaxActive
    <3> DEFINE F == [j \in W |-> job[j].file]
    \* its file leads back to the job
    <3>1. ASSUME NEW j \in W
          PROVE  F[j] \in Active(jobs) /\ jobs[F[j]] = j
      <4>1. PICK t \in Task : task[t].job = j /\ task[t].state = "waiting"
        BY DEF Wanted
      <4>2. task[t].file \in File /\ job[j].file = task[t].file
        BY <2>1, <4>1 DEF JobsOK
      <4>3. jobs[job[j].file] = j
        BY <2>1, <2>2, <4>1, <4>2 DEF ServedOK, WaitingMeansServed
      <4>4. IsRunning(j) /\ j # None
        BY DownloadConstants
      <4> QED
        BY <4>2, <4>3, <4>4 DEF Active
    <3>2. F \in [W -> Active(jobs)]
      BY <3>1
    <3>3. \A i, j \in W : F[i] = F[j] => i = j
      BY <3>1
    <3> HIDE DEF F, W
    <3>4. F \in Injection(W, Active(jobs))
      BY <3>2, <3>3, Fun_IsInj
    <3>5. Active(jobs) \subseteq {f \in File : jobs[f] # None}
      BY DEF Active
    <3>6. IsFiniteSet(Active(jobs)) /\ Cardinality(Active(jobs)) \in Nat
      BY <2>1, <3>5, EntriesFinite
    <3>7. IsFiniteSet(W) /\ Cardinality(W) <= Cardinality(Active(jobs))
      BY <3>4, <3>6, FS_Injection
    <3>8. Cardinality(W) \in Nat /\ MaxActive \in Nat
      BY <3>7, FS_CardinalityType, DownloadConstants
    <3> QED
      BY <2>1, <3>6, <3>7, <3>8 DEF SlotsOK
  <2> QED
    BY <2>1, <2>2 DEF SlotsBound, SlotsOK
<1> QED
  BY <1>1, DownloadInvariance, PTL

(* A reader who hears that the download is finished finds the file.        *)
THEOREM FinishedDownloadsStored == Spec => []FinishedMeansStored
<1>1. DownloadInv => FinishedMeansStored
  BY DEF DownloadInv, StoredOK
<1> QED
  BY <1>1, DownloadInvariance, PTL

(* Nobody waits for a job that is forgotten, until an entry expires.       *)
THEOREM WaitingTasksServed == Spec => []WaitingMeansServed
<1>1. DownloadInv => WaitingMeansServed
  BY DEF DownloadInv, ServedOK
<1> QED
  BY <1>1, DownloadInvariance, PTL

=============================================================================
