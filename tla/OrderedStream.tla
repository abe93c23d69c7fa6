---------------------------- MODULE OrderedStream ---------------------------
(***************************************************************************)
(* What a data stream promises to the consumer at its end: the chunks of   *)
(* the producer, each once and in order, and the word that it is finished  *)
(* only after the last one.  A stream may fail at any time instead, and    *)
(* before the consumer has got anything it may lose all of its chunks: he  *)
(* gets none then, and may still be told that it is finished.              *)
(***************************************************************************)
EXTENDS Integers

VARIABLES
  produced,   \* how many chunks the producer has put in
  source,     \* "open", "ended" or "failed"
  received,   \* how many of them the consumer has got, in order
  told,       \* what the consumer was told last: "none", "finished", "error"
  dropped     \* nobody took the chunks in time

streamVars == <<produced, source, received, told, dropped>>

Init ==
  /\ produced = 0
  /\ source = "open"
  /\ received = 0
  /\ told = "none"
  /\ dropped = FALSE

Produce ==
  /\ source = "open"
  /\ produced' = produced + 1
  /\ UNCHANGED <<source, received, told, dropped>>

EndSource ==
  /\ source = "open"
  /\ source' \in {"ended", "failed"}
  /\ UNCHANGED <<produced, received, told, dropped>>

\* some chunks, and possibly the end with the last of them
Receive ==
  /\ told = "none"
  /\ received' \in IF dropped THEN {received} ELSE received..produced
  /\ told' = "none" \/ (told' = "finished" /\ source = "ended"
                                           /\ (dropped \/ received' = produced))
  /\ UNCHANGED <<produced, source, dropped>>

DropAll ==
  /\ told = "none"
  /\ received = 0
  /\ dropped' = TRUE
  /\ UNCHANGED <<produced, source, received, told>>

Fail ==
  /\ told = "none"
  /\ told' = "error"
  /\ UNCHANGED <<produced, source, received, dropped>>

Next == Produce \/ EndSource \/ Receive \/ DropAll \/ Fail

Spec == Init /\ [][Next]_streamVars

=============================================================================
