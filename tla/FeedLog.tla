------------------------------ MODULE FeedLog -------------------------------
(***************************************************************************)
(* What a writeable subfeed promises to its callers: one log, to which     *)
(* every append adds its messages at most once, together and in order, and *)
(* an append that is acknowledged has added them.  An append that fails,   *)
(* or is lost in a restart, may or may not have added them.                *)
(***************************************************************************)
EXTENDS Integers, Sequences

CONSTANTS Process, MaxBatch

VARIABLES
  log,    \* the messages of the subfeed: the k-th of caller p is <<p, k>>
  call,   \* what each caller knows of its append
  size    \* how many messages it appends

logVars == <<log, call, size>>

Added(p) == \E k \in 1..Len(log) : log[k][1] = p

Init ==
  /\ log = << >>
  /\ call = [p \in Process |-> "idle"]
  /\ size = [p \in Process |-> 0]

Ask(p, n) ==
  /\ call[p] = "idle"
  /\ call' = [call EXCEPT ![p] = "open"]
  /\ size' = [size EXCEPT ![p] = n]
  /\ UNCHANGED log

Add(p) ==
  /\ call[p] = "open"
  /\ size[p] > 0
  /\ ~Added(p)
  /\ log' = log \o [k \in 1..size[p] |-> <<p, k>>]
  /\ UNCHANGED <<call, size>>

Acknowledge(p) ==
  /\ call[p] = "open"
  /\ size[p] = 0 \/ Added(p)
  /\ call' = [call EXCEPT ![p] = "acked"]
  /\ UNCHANGED <<log, size>>

\* several calls fail together when they share a Subfeed object or a restart
Fail ==
  \E lost \in SUBSET {p \in Process : call[p] = "open"} :
    /\ lost # {}
    /\ call' = [p \in Process |-> IF p \in lost THEN "failed" ELSE call[p]]
    /\ UNCHANGED <<log, size>>

Next ==
  \/ \E p \in Process : \/ \E n \in 0..MaxBatch : Ask(p, n)
                        \/ Add(p)
                        \/ Acknowledge(p)
  \/ Fail

Spec == Init /\ [][Next]_logVars

=============================================================================
