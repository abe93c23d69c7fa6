------------------------------ MODULE MCSubfeed -----------------------------
(* Instances of Subfeed: a few concurrent calls on one subfeed, with the   *)
(* faults of each run given by its budget.                                 *)
EXTENDS Subfeed, TLC

MCSig == Process \X (1..MaxBatch)
MCBatch == {}   \* the callers of this module build their own batches

Faults(c, d, k, e, x) ==
  [crash |-> c, dbError |-> d, keyError |-> k, evict |-> e, delete |-> x]

AllFaults    == Faults(1, 1, 1, 1, 1)
Recoverable  == Faults(1, 1, 0, 1, 0)
Symmetric == Permutations(Process) \cup Permutations(Instance)
               \cup Permutations(Watcher)
=============================================================================
