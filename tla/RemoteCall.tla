----------------------------- MODULE RemoteCall -----------------------------
(***************************************************************************)
(* What a request from one node to another promises: it is executed at     *)
(* most once, and whoever gets a response knows that it was.  A request    *)
(* that fails may have been executed, or may still be.                     *)
(***************************************************************************)
EXTENDS Integers

VARIABLES
  executed,   \* how often the remote node has executed the request
  outcome     \* for the caller: "idle", "waiting", "resolved" or "rejected"

callVars == <<executed, outcome>>

Init == executed = 0 /\ outcome = "idle"

Call == outcome = "idle" /\ outcome' = "waiting" /\ UNCHANGED executed

Execute ==
  /\ outcome # "idle" /\ executed = 0
  /\ executed' = 1
  /\ UNCHANGED outcome

Resolve ==
  /\ outcome = "waiting" /\ executed = 1
  /\ outcome' = "resolved"
  /\ UNCHANGED executed

Reject == outcome = "waiting" /\ outcome' = "rejected" /\ UNCHANGED executed

Next == Call \/ Execute \/ Resolve \/ Reject

Spec == Init /\ [][Next]_callVars

=============================================================================
