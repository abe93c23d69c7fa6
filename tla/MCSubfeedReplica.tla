-------------------------- MODULE MCSubfeedReplica --------------------------
(* Instances of SubfeedReplica: up to two messages of the writer, up to   *)
(* two Subfeed objects, faults by the budget of each run.                  *)
EXTENDS SubfeedReplica, TLC

MCSig == 1..MaxWritten
MCBatch == {}   \* the downloader builds its own batches

Faults(c, d, k, e, x) ==
  [crash |-> c, dbError |-> d, keyError |-> k, evict |-> e, delete |-> x]

AllFaults  == Faults(1, 1, 1, 1, 1)
KeptObject == Faults(1, 1, 0, 0, 0)

Symmetric == Permutations(Process) \cup Permutations(Instance)
=============================================================================
