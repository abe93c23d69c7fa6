------------------------------ MODULE FileLoad ------------------------------
(***************************************************************************)
(* What loading a file promises: the reader is told one outcome, that the  *)
(* load has finished only when the file is in the local storage, and what  *)
(* is in the storage stays there.                                          *)
(***************************************************************************)
CONSTANT Reader

VARIABLES present,   \* the file is in the local storage
          told       \* what each reader has been told

vars == <<present, told>>

Outcome == {"finished", "error", "cancelled"}

Init == /\ present = FALSE
        /\ told = [r \in Reader |-> "nothing"]

\* anybody may store the file
Store == present' = TRUE /\ UNCHANGED told

Tell(r, outcome) ==
  /\ told[r] = "nothing"
  /\ outcome = "finished" => present
  /\ told' = [told EXCEPT ![r] = outcome]
  /\ UNCHANGED present

\* the reader's connection to the daemon breaks, and he may ask again
Restart == told' = [r \in Reader |-> "nothing"] /\ UNCHANGED present

Next ==
  \/ Store
  \/ \E r \in Reader, outcome \in Outcome : Tell(r, outcome)
  \/ Restart

Spec == Init /\ [][Next]_vars
=============================================================================
