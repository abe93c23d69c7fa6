----------------------------- MODULE DataStream -----------------------------
(***************************************************************************)
(* A data stream between two nodes: setOutgoingDataStream numbers the      *)
(* chunks of a source and sends each, and the end, as a message of its     *)
(* own; the messages arrive in any order or not at all; the producer side  *)
(* of a DataStreamy puts them in order again and hands them to a consumer, *)
(* who may register his callbacks early or late.                           *)
(*                                                                         *)
(* Chunk k (counted from 0) is represented by its number.  A consumer      *)
(* registers all his callbacks in one turn.                                *)
(***************************************************************************)
EXTENDS Integers, Sequences, FiniteSets

CONSTANTS
  MaxChunks,   \* the longest stream (bounds the model)
  Lossy        \* messages may get lost

ASSUME StreamAssumption ==
  /\ MaxChunks \in Nat
  /\ Lossy \in BOOLEAN

VARIABLES
  produced,     \* dataChunkIndex of setOutgoingDataStream
  source,       \* the stream that is sent: "open", "ended" or "failed"
  net,          \* messages on their way
  last,         \* #lastUnorderedDataIndex
  waiting,      \* the keys of #unorderedDataChunksByIndex
  endCount,     \* #unorderedEndNumDataChunks
  cancelled,    \* #cancelled of the producer
  state,        \* "open" until #completed; "finished" or "error" then
  pending,      \* #pendingDataChunks
  discarding,   \* the timer of _handle_complete is set
  subscribed,   \* the consumer has registered
  delivered,    \* the chunks the consumer has got
  told,         \* "none", or the callback that was called: "finished", "error"
  dropped       \* chunks were dropped that nobody had taken (history)

sourceVars   == <<produced, source>>
producerVars == <<last, waiting, endCount, cancelled>>
outputVars   == <<state, pending, discarding, delivered, told>>
streamVars == <<sourceVars, net, producerVars, outputVars, subscribed, dropped>>

Unknown == -1   \* null: the length of the stream

Chunk(k) == [type |-> "chunk", index |-> k]
End(n)   == [type |-> "end", index |-> n]
Error    == [type |-> "error", index |-> 0]

StreamInit ==
  /\ produced = 0
  /\ source = "open"
  /\ net = {}
  /\ last = -1
  /\ waiting = {}
  /\ endCount = Unknown
  /\ cancelled = FALSE
  /\ state = "open"
  /\ pending = << >>
  /\ discarding = FALSE
  /\ subscribed = FALSE
  /\ delivered = << >>
  /\ told = "none"
  /\ dropped = FALSE

-----------------------------------------------------------------------------
(* setOutgoingDataStream.                                                  *)

SendChunk ==
  /\ source = "open"
  /\ produced < MaxChunks
  /\ net' = net \cup {Chunk(produced)}
  /\ produced' = produced + 1
  /\ UNCHANGED <<source, producerVars, outputVars, subscribed, dropped>>

SendEnd ==
  /\ source = "open"
  /\ source' = "ended"
  /\ net' = net \cup {End(produced)}
  /\ UNCHANGED <<produced, producerVars, outputVars, subscribed, dropped>>

SendError ==
  /\ source = "open"
  /\ source' = "failed"
  /\ net' = net \cup {Error}
  /\ UNCHANGED <<produced, producerVars, outputVars, subscribed, dropped>>

Lose ==
  /\ Lossy
  /\ \E m \in net : net' = net \ {m}
  /\ UNCHANGED <<sourceVars, producerVars, outputVars, subscribed, dropped>>

-----------------------------------------------------------------------------
(* DataStreamy: _producer_data, _producer_end, _producer_error.            *)

Open == state = "open" /\ ~cancelled

\* the chunks first..final go to the consumer, or wait for one
Emit(first, final) ==
  LET new == [k \in 1..(final - first + 1) |-> first + k - 1]
  IN  IF ~Open
      THEN UNCHANGED <<pending, delivered>>
      ELSE IF subscribed
           THEN delivered' = delivered \o new /\ UNCHANGED pending
           ELSE pending' = pending \o new /\ UNCHANGED delivered

\* mutant of Complete: a stream may complete more than once
CompleteAgain(outcome) ==
  /\ state' = outcome
  /\ discarding' = (pending' # << >>)
  /\ told' = IF subscribed THEN outcome ELSE told

\* _handle_complete, and the callback of outcome
Complete(outcome) ==
  IF state = "open"
  THEN /\ state' = outcome
       /\ discarding' = (pending' # << >>)
       /\ told' = IF subscribed THEN outcome ELSE told
  ELSE UNCHANGED <<state, discarding, told>>

\* mutant of ReceiveChunk: at most one chunk is handed on ("if" for "while")
ReceiveChunkOnce(k) ==
  LET have  == waiting \cup {k}
      final == IF last + 1 \in have THEN last + 1 ELSE last
  IN  /\ Chunk(k) \in net
      /\ net' = net \ {Chunk(k)}
      /\ last' = final
      /\ waiting' = have \ {final}
      /\ Emit(last + 1, final)
      /\ IF endCount # Unknown /\ final = endCount - 1 /\ ~cancelled
         THEN Complete("finished")
         ELSE UNCHANGED <<state, discarding, told>>
      /\ UNCHANGED <<sourceVars, endCount, cancelled, subscribed, dropped>>

\* mutant of ReceiveChunk: the chunks handed on stay in the table
ReceiveChunkKeeps(k) ==
  LET have  == waiting \cup {k}
      final == CHOOSE n \in last..(last + Cardinality(have)) :
                 (last + 1)..n \subseteq have /\ (n + 1) \notin have
  IN  /\ Chunk(k) \in net
      /\ net' = net \ {Chunk(k)}
      /\ last' = final
      /\ waiting' = have
      /\ Emit(last + 1, final)
      /\ IF endCount # Unknown /\ final = endCount - 1 /\ ~cancelled
         THEN Complete("finished")
         ELSE UNCHANGED <<state, discarding, told>>
      /\ UNCHANGED <<sourceVars, endCount, cancelled, subscribed, dropped>>

\* unorderedData: all chunks that are in sequence now
ReceiveChunk(k) ==
  LET have  == waiting \cup {k}
      final == CHOOSE n \in last..(last + Cardinality(have)) :
                 (last + 1)..n \subseteq have /\ (n + 1) \notin have
  IN  /\ Chunk(k) \in net
      /\ net' = net \ {Chunk(k)}
      /\ last' = final
      /\ waiting' = have \ ((last + 1)..final)
      /\ Emit(last + 1, final)
      /\ IF endCount # Unknown /\ final = endCount - 1 /\ ~cancelled
         THEN Complete("finished")
         ELSE UNCHANGED <<state, discarding, told>>
      /\ UNCHANGED <<sourceVars, endCount, cancelled, subscribed, dropped>>

\* mutant of ReceiveEnd: the end is taken to come after all chunks
ReceiveEndAtOnce(n) ==
  /\ End(n) \in net
  /\ net' = net \ {End(n)}
  /\ UNCHANGED <<pending, endCount>>
  /\ IF cancelled THEN UNCHANGED <<state, discarding, told>>
                  ELSE Complete("finished")
  /\ UNCHANGED <<sourceVars, last, waiting, cancelled, delivered, subscribed, dropped>>

\* unorderedEnd: at once when all chunks are here, else later
ReceiveEnd(n) ==
  /\ End(n) \in net
  /\ net' = net \ {End(n)}
  /\ UNCHANGED pending
  /\ \/ /\ last >= n - 1
        /\ IF cancelled THEN UNCHANGED <<state, discarding, told>>
                        ELSE Complete("finished")
        /\ UNCHANGED endCount
     \/ /\ last < n - 1
        /\ endCount' = n
        /\ UNCHANGED <<state, discarding, told>>
  /\ UNCHANGED <<sourceVars, last, waiting, cancelled, delivered, subscribed, dropped>>

\* producer().error
ProducerError ==
  /\ UNCHANGED pending
  /\ IF cancelled THEN UNCHANGED <<state, discarding, told>>
                  ELSE Complete("error")
  /\ UNCHANGED <<sourceVars, producerVars, delivered, subscribed, dropped>>

ReceiveError ==
  /\ Error \in net
  /\ net' = net \ {Error}
  /\ ProducerError

\* the request that starts the stream fails or times out, which says nothing
\* of the stream itself
StartFails ==
  /\ Lossy
  /\ ~subscribed
  /\ ProducerError
  /\ UNCHANGED net

-----------------------------------------------------------------------------
(* The consumer.                                                           *)

\* onData, onFinished and onError: what is pending is handed over at once
Subscribe ==
  /\ ~subscribed
  /\ subscribed' = TRUE
  /\ delivered' = delivered \o pending
  /\ pending' = << >>
  /\ UNCHANGED <<sourceVars, net, producerVars, state, discarding, told, dropped>>

\* mutant of Notify: the callback of a stream that has ended is not called
NotifyNobody == FALSE /\ UNCHANGED streamVars

\* the callback of a stream that had ended before, in a turn of its own
Notify ==
  /\ subscribed
  /\ state # "open"
  /\ told = "none"
  /\ told' = state
  /\ UNCHANGED <<sourceVars, net, producerVars, state, pending, discarding,
                 delivered, subscribed, dropped>>

\* cancel: the consumer gets an error, now or when he registers
Cancel ==
  /\ state = "open"
  /\ cancelled' = TRUE
  /\ UNCHANGED pending
  /\ Complete("error")
  /\ UNCHANGED <<sourceVars, net, last, waiting, endCount, delivered,
                 subscribed, dropped>>

\* one second after completion the chunks nobody took are dropped
Discard ==
  /\ discarding
  /\ discarding' = FALSE
  /\ pending' = << >>
  /\ dropped' = (dropped \/ pending # << >>)
  /\ UNCHANGED <<sourceVars, net, producerVars, state, delivered, told,
                 subscribed>>

-----------------------------------------------------------------------------
Send == SendChunk \/ SendEnd \/ SendError

Deliver ==
  \/ \E n \in 0..MaxChunks : ReceiveChunk(n) \/ ReceiveEnd(n)
  \/ ReceiveError

StreamNext ==
  \/ Send
  \/ Lose
  \/ Deliver
  \/ StartFails
  \/ Subscribe
  \/ Notify
  \/ Cancel
  \/ Discard

StreamSpec == StreamInit /\ [][StreamNext]_streamVars

\* messages that are not lost arrive, timers fire, and the consumer registers
StreamFairSpec ==
  /\ StreamSpec
  /\ WF_streamVars(Deliver) /\ WF_streamVars(Subscribe) /\ WF_streamVars(Notify)

-----------------------------------------------------------------------------
(* Type invariant of the module.                                           *)
StreamTypeOK ==
  /\ produced \in 0..MaxChunks
  /\ source \in {"open", "ended", "failed"}
  /\ net \subseteq {Chunk(k) : k \in 0..(produced - 1)} \cup {End(produced), Error}
  /\ last \in -1..(produced - 1)
  /\ waiting \subseteq (last + 1)..(produced - 1)
  /\ endCount \in {Unknown, produced}
  /\ cancelled \in BOOLEAN
  /\ state \in {"open", "finished", "error"}
  /\ pending \in Seq(Nat)
  /\ discarding \in BOOLEAN
  /\ subscribed \in BOOLEAN
  /\ delivered \in Seq(Nat)
  /\ told \in {"none", "finished", "error"}
  /\ dropped \in BOOLEAN

Counting(n) == [k \in 1..n |-> k - 1]

(* The consumer gets the chunks in order, each once, whatever the order of *)
(* the messages and however late he registers; no chunk waits whose turn   *)
(* it is, and as long as the stream is open nothing that has come in       *)
(* sequence is missing from what the consumer has or will get.             *)
NothingHeldBack ==
  /\ StreamTypeOK
  /\ (last + 1) \notin waiting
  /\ delivered = Counting(Len(delivered))
  /\ state = "open" => delivered \o pending = Counting(last + 1)

(* The consumer is told once how the stream ended, and gets no chunk       *)
(* afterwards.                                                             *)
ToldOnce ==
  [][told # "none" => UNCHANGED <<told, delivered>>]_streamVars

\* a message that the end of the stream needs is neither here nor on its way
SomethingLost ==
  \/ \E k \in (last + 1)..(produced - 1) : k \notin waiting /\ Chunk(k) \notin net
  \/ source = "ended" /\ endCount = Unknown /\ End(produced) \notin net
  \/ source = "failed" /\ Error \notin net

(* The consumer of a stream whose source ends is told so in the end, unless *)
(* a chunk, or the message of the end, was lost: nobody sends it again     *)
(* (PublicUdpSocketServer.ts:196).                                         *)
StreamEnds == source # "open" ~> told # "none" \/ (state = "open" /\ SomethingLost)

Abstract == INSTANCE OrderedStream WITH received <- Len(delivered)

(* The stream implements OrderedStream: a consumer who is told that it is   *)
(* finished has got every chunk or, if he registered more than a second     *)
(* after the end, none at all, and never a part (_handle_complete).         *)
ImplementsOrderedStream == Abstract!Spec

=============================================================================
