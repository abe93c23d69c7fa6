--------------------------- MODULE Subfeed_proofs ----------------------------
(***************************************************************************)
(* The safety of a writeable subfeed with any number of appending calls,   *)
(* watchers, objects and faults.                                           *)
(***************************************************************************)
EXTENDS Subfeed, SubfeedStore_proofs

(* A call that was given an object by _loadSubfeed still has it; past the  *)
(* load, the object is initialised, so no failing initialisation takes it  *)
(* away.                                                                   *)
CallerOK ==
  /\ \A p \in Process : InProgress(p) => inst[p] \in Instance
  /\ \A p \in Process : pc[p] \in {"queued", "writing"} =>
       status[inst[p]] = "ready"
  /\ \A w \in Watcher : wpc[w] = "listening" =>
       inst[w] \in Instance /\ status[inst[w]] = "ready"

(* The queue of an object's mutex holds the calls that asked for it and    *)
(* have not returned, each once.                                           *)
MutexOK ==
  /\ \A i \in Instance : \A k \in 1..Len(mutex[i]) :
       /\ pc[mutex[i][k]] \in {"queued", "writing"}
       /\ inst[mutex[i][k]] = i
  /\ \A i \in Instance : \A j, k \in 1..Len(mutex[i]) :
       mutex[i][j] = mutex[i][k] => j = k

(* A write is in progress exactly for the calls that wait for one.         *)
WritesOK == \A p \in Process : pc[p] = "writing" <=> stage[p] # "none"

(* The inductive invariant.                                                *)
SubfeedInv ==
  /\ StoreInv
  /\ TypeOK
  /\ CallerOK
  /\ MutexOK
  /\ WritesOK
  /\ WritersHoldLock
  /\ NoLostWakeup

-----------------------------------------------------------------------------
(* Every step of the subfeed is a step of the store, or none.              *)

(* The messages an append signs are an array of signed messages.           *)
LEMMA SignedBatchType ==
  ASSUME TypeOK, NEW p \in Process, inst[p] \in Instance
  PROVE  SignedBatch(p) \in Seq(Message)
<1> DEFINE s == mem[inst[p]]
<1>1. s \in Seq(Message) /\ size[p] \in 0..MaxBatch /\ MaxBatch \in Nat
  BY SubfeedAssumption DEF TypeOK, StoreTypeOK
<1>2. LastSig(s) \in Sig \cup {NoSig}
  <2>1. CASE s = << >>
    BY <2>1 DEF LastSig
  <2>2. CASE s # << >>
    <3>1. Len(s) \in 1..Len(s)
      BY <1>1, <2>2, EmptySeq
    <3>2. s[Len(s)] \in Message
      BY <1>1, <3>1, ElementOfSeq
    <3> QED
      BY <2>2, <3>2 DEF LastSig, Message
  <2> QED
    BY <2>1, <2>2
<1> HIDE DEF s
<1>3. ASSUME NEW k \in 1..size[p]
      PROVE  [sig |-> <<p, k>>, num |-> Len(s) + k - 1,
              prev |-> IF k = 1 THEN LastSig(s) ELSE <<p, k - 1>>] \in Message
  <2>1. <<p, k>> \in Sig
    BY <1>1, SubfeedAssumption
  <2>2. Len(s) + k - 1 \in Nat
    BY <1>1
  <2>3. (IF k = 1 THEN LastSig(s) ELSE <<p, k - 1>>) \in Sig \cup {NoSig}
    <3>1. k # 1 => k - 1 \in 1..MaxBatch
      BY <1>1
    <3> QED
      BY <1>2, <3>1, SubfeedAssumption
  <2> QED
    BY <2>1, <2>2, <2>3 DEF Message
<1> QED
  BY <1>1, <1>3 DEF SignedBatch, s

LEMMA NextIsStoreStep ==
  ASSUME TypeOK, CallerOK, [Next]_vars
  PROVE  [StoreStep]_storeVars
<1>1. ASSUME NEW p \in Process, AppendCall(p)
      PROVE  [StoreStep]_storeVars
  <2>1. ASSUME NEW n \in 0..MaxBatch, BeginAppend(p, n)
        PROVE  [StoreStep]_storeVars
    BY <2>1 DEF BeginAppend, Load, StoreStep, LifeCycle
  <2>2. AcquireLock(p) \/ ReturnWithoutWrite(p) => UNCHANGED storeVars
    BY DEF AcquireLock, ReturnWithoutWrite
  <2>3. ASSUME SignAndSend(p)
        PROVE  StoreStep
    <3>1. inst[p] \in Instance /\ StartAppend(p, inst[p], SignedBatch(p))
      BY <2>3 DEF SignAndSend, CallerOK, InProgress
    <3> QED
      BY <3>1, SignedBatchType DEF StoreStep
  <2>4. WriteCommits(p) \/ WriteFails(p) \/ WriteReturns(p) => StoreStep
    BY DEF WriteCommits, WriteFails, WriteReturns, StoreStep
  <2> QED
    BY <1>1, <2>1, <2>2, <2>3, <2>4 DEF AppendCall
<1>2. ASSUME NEW w \in Watcher, WatchCall(w)
      PROVE  [StoreStep]_storeVars
  BY <1>2 DEF WatchCall, BeginWatch, FirstCheck, Listen, WatchTimesOut, Load,
              StoreStep, LifeCycle
<1>3. ASSUME NEW i \in Instance,
             Initialize(i) \/ LoadFails(i) \/ KeyFails(i) \/ NextTick(i)
               \/ ChangeRules(i)
      PROVE  [StoreStep]_storeVars
  BY <1>3 DEF Initialize, LoadFails, KeyFails, NextTick, ChangeRules,
              StoreStep, LifeCycle
<1>4. CASE EvictSubfeed \/ DeleteFeed \/ Restart
  BY <1>4 DEF EvictSubfeed, DeleteFeed, Restart, ChangeRules, StoreStep
<1> QED
  BY <1>1, <1>2, <1>3, <1>4 DEF Next, vars

-----------------------------------------------------------------------------
(* Types.                                                                  *)

(* The conjuncts of TypeOK that are not the store's.                       *)
CallTypeOK ==
  /\ pc \in [Process ->
       {"idle", "loading", "queued", "writing", "acked", "failed"}]
  /\ size \in [Process -> 0..MaxBatch]
  /\ inst \in [Caller -> Instance \cup {NoInstance}]
  /\ mutex \in [Instance -> Seq(Process)]
  /\ notify \in [Instance -> Nat]
  /\ announced \in Nat
  /\ wpc \in [Watcher -> {"idle", "checking", "waiting", "listening",
                          "answered", "timedOut", "failed"}]
  /\ wpos \in [Watcher -> 0..MaxBatch]

LEMMA TypeParts == TypeOK <=> StoreTypeOK /\ CallTypeOK
  BY DEF TypeOK, CallTypeOK

(* Loading gives the caller an object.                                     *)
LEMMA LoadType ==
  ASSUME TypeOK, NEW c \in Caller, Load(c)
  PROVE  /\ inst' \in [Caller -> Instance \cup {NoInstance}]
         /\ inst'[c] \in Instance
         /\ \A d \in Caller \ {c} : inst'[d] = inst[d]
         /\ UNCHANGED <<writeable, mem, appending, transfers>>
         /\ \A i \in Instance : status[i] = "ready" => status'[i] = "ready"
  BY DEF TypeOK, StoreTypeOK, Load, CreateInstance, storeVars, persistent,
         objects, transfers

(* What ReleaseLock leaves of the queue of an object.                      *)
LEMMA TailOfQueue ==
  ASSUME NEW q \in Seq(Process), q # << >>
  PROVE  /\ Tail(q) \in Seq(Process)
         /\ Len(Tail(q)) = Len(q) - 1
         /\ \A k \in 1..Len(Tail(q)) :
              k + 1 \in 1..Len(q) /\ Tail(q)[k] = q[k + 1]
         /\ Head(q) = q[1]
  OBVIOUS

(* An error of _loadSubfeed concerns an object that is not initialised and *)
(* the calls that wait for it.                                             *)
LEMMA LoadErrorFrame ==
  ASSUME TypeOK, NEW i \in Instance, LoadFails(i) \/ KeyFails(i)
  PROVE  /\ status[i] # "ready"
         /\ inst' \in [Caller -> Instance \cup {NoInstance}]
         /\ \A c \in Caller : inst[c] # i => inst'[c] = inst[c]
         /\ \A p \in Process : inst[p] # i => pc'[p] = pc[p]
         /\ \A p \in Process :
              pc'[p] = pc[p] \/ (pc'[p] = "failed" /\ pc[p] = "loading")
         /\ \A w \in Watcher : wpc'[w] = wpc[w] \/ wpc'[w] = "failed"
         /\ \A p \in Process : pc[p] = "loading" /\ pc'[p] = pc[p] =>
              inst'[p] = inst[p]
         /\ UNCHANGED <<size, mutex, notify, announced, wpos, transfers>>
         /\ \A j \in Instance : status[j] = "ready" =>
              status'[j] = "ready" /\ mem'[j] = mem[j]
<1>1. PICK lost \in SUBSET {c \in Caller : inst[c] = i} : LoadError(lost)
  BY DEF LoadFails, KeyFails
<1>2. /\ status[i] # "ready" /\ UNCHANGED transfers
      /\ \A j \in Instance : status[j] = "ready" =>
           status'[j] = "ready" /\ mem'[j] = mem[j]
  BY DEF LoadFails, KeyFails, InitializeFails, DropFailed, ReadKeyFails,
         TypeOK, StoreTypeOK
<1>3. /\ \A p \in Process : pc'[p] =
           IF p \in lost /\ pc[p] = "loading" THEN "failed" ELSE pc[p]
      /\ \A w \in Watcher : wpc'[w] =
           IF w \in lost /\ wpc[w] = "checking" THEN "failed" ELSE wpc[w]
      /\ inst' = [c \in Caller |-> IF c \in lost THEN NoInstance ELSE inst[c]]
      /\ UNCHANGED <<size, mutex, notify, announced, wpos>>
  BY <1>1 DEF LoadError
<1>4. inst' \in [Caller -> Instance \cup {NoInstance}]
  BY <1>3 DEF TypeOK
<1>5. \A p \in Process : p \in Caller /\ (p \notin lost => inst'[p] = inst[p])
  BY <1>3 DEF Caller
<1>6. \A p \in Process : inst[p] # i => p \notin lost
  BY <1>1
<1>7. \A c \in Caller : inst[c] # i => inst'[c] = inst[c]
  BY <1>1, <1>3
<1>8. \A p \in Process :
        /\ inst[p] # i => pc'[p] = pc[p]
        /\ pc'[p] = pc[p] \/ (pc'[p] = "failed" /\ pc[p] = "loading")
  BY <1>3, <1>6
<1>9. \A w \in Watcher : wpc'[w] = wpc[w] \/ wpc'[w] = "failed"
  BY <1>3
<1>10. ASSUME NEW p \in Process, pc[p] = "loading", pc'[p] = pc[p]
       PROVE  inst'[p] = inst[p]
  <2>1. p \notin lost
    BY <1>3, <1>10
  <2> QED
    BY <1>5, <2>1
<1> QED
  BY <1>2, <1>3, <1>4, <1>7, <1>8, <1>9, <1>10

LEMMA CallTypeInv ==
  ASSUME TypeOK, CallerOK, WritesOK, WritersHoldLock, [Next]_vars
  PROVE  CallTypeOK'
<1> USE DEF CallTypeOK
<1>0. CallTypeOK
  BY DEF TypeOK
<1>1. ASSUME NEW p \in Process, AppendCall(p)
      PROVE  CallTypeOK'
  <2>0. p \in Caller
    BY DEF Caller
  <2>1. ASSUME NEW n \in 0..MaxBatch, BeginAppend(p, n)
        PROVE  CallTypeOK'
    BY <1>0, <2>0, <2>1, LoadType DEF BeginAppend, watchVars
  <2>2. ASSUME AcquireLock(p)
        PROVE  CallTypeOK'
    <3>1. inst[p] \in Instance
      BY <2>2, <2>0, <1>0 DEF AcquireLock, IsLoaded
    <3>2. mutex' \in [Instance -> Seq(Process)]
      <4>1. mutex[inst[p]] \in Seq(Process)
        BY <3>1, <1>0
      <4>2. Append(mutex[inst[p]], p) \in Seq(Process)
        BY <4>1
      <4>3. \/ mutex' = mutex
            \/ mutex' = [mutex EXCEPT ![inst[p]] = Append(mutex[inst[p]], p)]
        BY <2>2 DEF AcquireLock
      <4> QED
        BY <3>1, <4>2, <4>3, <1>0
    <3> QED
      BY <2>2, <3>2, <1>0 DEF AcquireLock, watchVars
  <2>3. ASSUME SignAndSend(p) \/ WriteCommits(p)
        PROVE  CallTypeOK'
    BY <2>3, <1>0 DEF SignAndSend, WriteCommits, watchVars, subfeedVars,
                      callVars
  <2>4. ASSUME inst[p] \in Instance, HoldsLock(p), ReleaseLock(p)
        PROVE  mutex' \in [Instance -> Seq(Process)]
    <3>1. Tail(mutex[inst[p]]) \in Seq(Process)
      BY <2>4, <1>0, TailOfQueue DEF HoldsLock
    <3> QED
      BY <2>4, <3>1, <1>0 DEF ReleaseLock
  <2>5. ASSUME ReturnWithoutWrite(p)
        PROVE  CallTypeOK'
    <3>1. mutex' \in [Instance -> Seq(Process)]
      BY <2>4, <2>5 DEF ReturnWithoutWrite, CallerOK, InProgress
    <3> QED
      BY <2>5, <3>1, <1>0 DEF ReturnWithoutWrite, watchVars
  <2>6. ASSUME WriteFails(p) \/ WriteReturns(p)
        PROVE  CallTypeOK'
    <3>1. pc[p] = "writing" /\ HoldsLock(p) /\ inst[p] \in Instance
      BY <2>6 DEF WriteFails, WriteReturns, FailAppend, FinishAppend,
                  WritesOK, WritersHoldLock, CallerOK, InProgress
    <3>2. mutex' \in [Instance -> Seq(Process)]
      BY <2>4, <2>6, <3>1 DEF WriteFails, WriteReturns
    <3>3. notify' \in [Instance -> Nat]
      <4>1. notify[inst[p]] + 1 \in Nat
        BY <3>1, <1>0
      <4> QED
        BY <2>6, <4>1, <1>0 DEF WriteFails, WriteReturns
    <3>4. pc' \in [Process ->
            {"idle", "loading", "queued", "writing", "acked", "failed"}]
      BY <2>6, <1>0 DEF WriteFails, WriteReturns
    <3> QED
      BY <2>6, <3>2, <3>3, <3>4, <1>0 DEF WriteFails, WriteReturns, watchVars
  <2> QED
    BY <1>1, <2>1, <2>2, <2>3, <2>5, <2>6 DEF AppendCall
<1>2. ASSUME NEW w \in Watcher, WatchCall(w)
      PROVE  CallTypeOK'
  <2>0. w \in Caller
    BY DEF Caller
  <2> QED
    BY <1>0, <1>2, <2>0, LoadType
       DEF WatchCall, BeginWatch, FirstCheck, Listen, WatchTimesOut, callVars
<1>3. ASSUME NEW i \in Instance,
             Initialize(i) \/ LoadFails(i) \/ KeyFails(i)
      PROVE  CallTypeOK'
  BY <1>0, <1>3, LoadErrorFrame
     DEF Initialize, LoadFails, KeyFails, LoadError, subfeedVars, callVars,
         watchVars
<1>4. ASSUME NEW i \in Instance, NextTick(i)
      PROVE  CallTypeOK'
  <2>1. Len(mem[i]) \in Nat /\ notify[i] - 1 \in Nat
    BY <1>0, <1>4 DEF NextTick, TypeOK, StoreTypeOK
  <2> QED
    BY <1>0, <1>4, <2>1 DEF NextTick, callVars
<1>5. CASE \/ EvictSubfeed \/ DeleteFeed \/ UNCHANGED vars
          \/ \E i \in Instance : ChangeRules(i)
  BY <1>0, <1>5 DEF EvictSubfeed, ChangeRules, SetAccessRules, DeleteFeed,
                    vars, subfeedVars, callVars,
                    watchVars
<1>6. CASE Restart
  BY <1>0, <1>6, EmptySeq DEF Restart
<1> QED
  BY <1>1, <1>2, <1>3, <1>4, <1>5, <1>6 DEF Next

-----------------------------------------------------------------------------
(* Callers and their objects.                                              *)

(* Only a restart undoes an initialisation.                                *)
LEMMA ReadyStays ==
  ASSUME TypeOK, [Next]_vars, ~Restart,
         NEW i \in Instance, status[i] = "ready"
  PROVE  status'[i] = "ready"
<1>1. ASSUME NEW p \in Process, AppendCall(p)
      PROVE  status'[i] = "ready"
  <2>1. p \in Caller
    BY DEF Caller
  <2> QED
    BY <1>1, <2>1, LoadType
       DEF AppendCall, BeginAppend, AcquireLock, SignAndSend,
           ReturnWithoutWrite, WriteCommits, WriteFails, WriteReturns,
           StartAppend, CommitAppend, FailAppend, FinishAppend, storeVars,
           objects
<1>2. ASSUME NEW w \in Watcher, WatchCall(w)
      PROVE  status'[i] = "ready"
  <2>1. w \in Caller
    BY DEF Caller
  <2> QED
    BY <1>2, <2>1, LoadType
       DEF WatchCall, BeginWatch, FirstCheck, Listen, WatchTimesOut,
           storeVars, objects
<1>3. ASSUME NEW j \in Instance, Initialize(j)
      PROVE  status'[i] = "ready"
  BY <1>3 DEF Initialize, InitializeStep, ReadKey, CheckExists,
              ReadMessages, CheckWriteable, FinishEmpty, TypeOK, StoreTypeOK
<1>4. ASSUME NEW j \in Instance, LoadFails(j) \/ KeyFails(j)
      PROVE  status'[i] = "ready"
  BY <1>4, LoadErrorFrame
<1>5. ASSUME NEW j \in Instance, NextTick(j)
      PROVE  status'[i] = "ready"
  BY <1>5 DEF NextTick, storeVars, objects
<1>6. EvictSubfeed \/ DeleteFeed \/ UNCHANGED vars
        \/ (\E j \in Instance : ChangeRules(j)) => status'[i] = "ready"
  BY DEF EvictSubfeed, Evict, ChangeRules, SetAccessRules, DeleteFeed,
         DeleteRows, DeleteKey, vars,
         storeVars, objects
<1> QED
  BY <1>1, <1>2, <1>3, <1>4, <1>5, <1>6 DEF Next

LEMMA CallerInv ==
  ASSUME TypeOK, CallerOK, WritesOK, [Next]_vars
  PROVE  CallerOK'
<1> USE DEF InProgress
<1>0. CallTypeOK /\ Process \cap Watcher = {}
  BY SubfeedAssumption DEF TypeOK, CallTypeOK
<1>1. CASE Restart
  BY <1>1 DEF Restart, CallerOK, Watching
<1>2. CASE ~Restart
  <2>0. \A i \in Instance : status[i] = "ready" => status'[i] = "ready"
    BY <1>2, ReadyStays
  <2>1. ASSUME NEW p \in Process, AppendCall(p)
        PROVE  CallerOK'
    <3>0. p \in Caller
      BY DEF Caller
    <3>1. ASSUME NEW n \in 0..MaxBatch, BeginAppend(p, n)
          PROVE  CallerOK'
      <4>1. /\ inst'[p] \in Instance
            /\ \A d \in Caller \ {p} : inst'[d] = inst[d]
            /\ pc' = [pc EXCEPT ![p] = "loading"] /\ wpc' = wpc
        BY <3>0, <3>1, LoadType DEF BeginAppend, watchVars
      <4> QED
        BY <1>0, <2>0, <4>1 DEF CallerOK, CallTypeOK, Caller
    <3>2. ASSUME AcquireLock(p)
          PROVE  CallerOK'
      <4>1. inst[p] \in Instance /\ status[inst[p]] = "ready"
        BY <1>0, <3>0, <3>2 DEF AcquireLock, IsLoaded, CallTypeOK
      <4> QED
        BY <1>0, <2>0, <3>2, <4>1
           DEF AcquireLock, CallerOK, CallTypeOK, watchVars
    <3>3. ASSUME SignAndSend(p) \/ ReturnWithoutWrite(p)
                   \/ WriteCommits(p) \/ WriteFails(p) \/ WriteReturns(p)
          PROVE  CallerOK'
      <4>1. /\ inst' = inst /\ wpc' = wpc
            /\ \A q \in Process : \/ pc'[q] = pc[q]
                                  \/ pc'[q] \in {"acked", "failed"}
                                  \/ pc'[q] = "writing" /\ pc[q] = "queued"
        BY <1>0, <3>3
           DEF SignAndSend, ReturnWithoutWrite, WriteCommits, WriteFails,
               WriteReturns, CallTypeOK, watchVars, subfeedVars, callVars
      <4> QED
        BY <2>0, <4>1 DEF CallerOK
    <3> QED
      BY <2>1, <3>1, <3>2, <3>3 DEF AppendCall
  <2>2. ASSUME NEW w \in Watcher, WatchCall(w)
        PROVE  CallerOK'
    <3>0. w \in Caller /\ w \notin Process
      BY <1>0 DEF Caller
    <3>1. /\ pc' = pc
          /\ \A p \in Process : inst'[p] = inst[p]
      BY <2>2, <3>0, LoadType
         DEF WatchCall, BeginWatch, FirstCheck, Listen, WatchTimesOut,
             callVars, Caller
    <3>2. \A v \in Watcher \ {w} : wpc'[v] = wpc[v] /\ inst'[v] = inst[v]
      BY <1>0, <2>2, <3>0, LoadType
         DEF WatchCall, BeginWatch, FirstCheck, Listen, WatchTimesOut,
             Caller, CallTypeOK
    <3>3. wpc'[w] = "listening" =>
            inst'[w] \in Instance /\ status[inst'[w]] = "ready"
      BY <1>0, <2>2, <3>0
         DEF WatchCall, BeginWatch, FirstCheck, Listen, WatchTimesOut,
             IsLoaded, CallTypeOK
    <3> QED
      BY <2>0, <3>1, <3>2, <3>3 DEF CallerOK
  <2>3. ASSUME NEW i \in Instance, LoadFails(i) \/ KeyFails(i)
        PROVE  CallerOK'
    <3>1. \A p \in Process : pc'[p] \in {"queued", "writing"} =>
            pc[p] = pc'[p] /\ inst'[p] = inst[p]
      BY <2>3, LoadErrorFrame DEF CallerOK, Caller
    <3>2. \A p \in Process : pc'[p] = "loading" =>
            pc[p] = pc'[p] /\ inst'[p] = inst[p]
      BY <2>3, LoadErrorFrame
    <3>3. \A w \in Watcher : wpc'[w] = "listening" =>
            wpc[w] = "listening" /\ inst'[w] = inst[w]
      BY <2>3, LoadErrorFrame DEF CallerOK, Caller
    <3> QED
      BY <2>0, <3>1, <3>2, <3>3 DEF CallerOK
  <2>4. ASSUME NEW i \in Instance,
             Initialize(i) \/ NextTick(i) \/ ChangeRules(i)
        PROVE  CallerOK'
    BY <2>0, <2>4 DEF Initialize, NextTick, ChangeRules, subfeedVars,
                      callVars, watchVars,
                      CallerOK
  <2>5. CASE \/ EvictSubfeed \/ DeleteFeed \/ UNCHANGED vars
          \/ \E i \in Instance : ChangeRules(i)
    BY <2>0, <2>5 DEF EvictSubfeed, ChangeRules, SetAccessRules, DeleteFeed,
                      vars, subfeedVars, callVars,
                      watchVars, CallerOK
  <2> QED
    BY <1>2, <2>1, <2>2, <2>3, <2>4, <2>5 DEF Next
<1> QED
  BY <1>1, <1>2

-----------------------------------------------------------------------------
(* The mutex.                                                              *)

(* WritesOK and the part of WritersHoldLock about the object: every write  *)
(* of the store belongs to a call that waits for it.                       *)
LEMMA WritesInv ==
  ASSUME TypeOK, CallerOK, WritesOK, [Next]_vars
  PROVE  WritesOK'
<1>0. CallTypeOK /\ StoreTypeOK /\ Process \cap Watcher = {}
  BY SubfeedAssumption, TypeParts
<1>1. ASSUME NEW p \in Process, AppendCall(p)
      PROVE  WritesOK'
  <2>0. p \in Caller
    BY DEF Caller
  <2>1. ASSUME NEW n \in 0..MaxBatch, BeginAppend(p, n)
        PROVE  WritesOK'
    <3>1. stage' = stage /\ pc[p] = "idle" /\ pc' = [pc EXCEPT ![p] = "loading"]
      BY <2>0, <2>1, LoadType DEF BeginAppend, transfers
    <3> QED
      BY <1>0, <3>1 DEF WritesOK, CallTypeOK
  <2>2. ASSUME AcquireLock(p) \/ ReturnWithoutWrite(p)
        PROVE  WritesOK'
    BY <1>0, <2>2 DEF AcquireLock, ReturnWithoutWrite, storeVars, transfers,
                      WritesOK, CallTypeOK
  <2>3. ASSUME SignAndSend(p)
        PROVE  WritesOK'
    BY <1>0, <2>3 DEF SignAndSend, StartAppend, WritesOK, CallTypeOK,
                      StoreTypeOK
  <2>4. ASSUME WriteCommits(p)
        PROVE  WritesOK'
    BY <1>0, <2>4 DEF WriteCommits, CommitAppend, WritesOK, StoreTypeOK,
                      subfeedVars, callVars
  <2>5. ASSUME WriteFails(p) \/ WriteReturns(p)
        PROVE  WritesOK'
    BY <1>0, <2>5 DEF WriteFails, WriteReturns, FailAppend, FinishAppend,
                      EndTransfer, WritesOK, CallTypeOK, StoreTypeOK
  <2> QED
    BY <1>1, <2>1, <2>2, <2>3, <2>4, <2>5 DEF AppendCall
<1>2. ASSUME NEW w \in Watcher, WatchCall(w)
      PROVE  WritesOK'
  <2>1. w \in Caller
    BY DEF Caller
  <2>2. stage' = stage /\ pc' = pc
    BY <1>2, <2>1, LoadType
       DEF WatchCall, BeginWatch, FirstCheck, Listen, WatchTimesOut,
           callVars, transfers, storeVars
  <2> QED
    BY <2>2 DEF WritesOK
<1>3. ASSUME NEW i \in Instance, LoadFails(i) \/ KeyFails(i)
      PROVE  WritesOK'
  BY <1>3, LoadErrorFrame DEF transfers, WritesOK
<1>4. ASSUME NEW i \in Instance,
             Initialize(i) \/ NextTick(i) \/ ChangeRules(i)
      PROVE  WritesOK'
  BY <1>4 DEF Initialize, InitializeStep, ReadKey, CheckExists,
              ReadMessages, CheckWriteable, FinishEmpty, NextTick, ChangeRules,
              SetAccessRules, objects, storeVars,
              transfers, subfeedVars, callVars, WritesOK
<1>5. CASE \/ EvictSubfeed \/ DeleteFeed \/ UNCHANGED vars
          \/ \E i \in Instance : ChangeRules(i)
  BY <1>5 DEF EvictSubfeed, Evict, ChangeRules, SetAccessRules, DeleteFeed,
              DeleteRows, DeleteKey, vars,
              storeVars, transfers, subfeedVars, callVars, WritesOK
<1>6. CASE Restart
  BY <1>6 DEF Restart, Crash, InProgress, WritesOK
<1> QED
  BY <1>1, <1>2, <1>3, <1>4, <1>5, <1>6 DEF Next

(* Releasing the lock removes its holder and nobody else.                  *)
LEMMA ReleaseKeepsMutex ==
  ASSUME TypeOK, MutexOK, NEW p \in Process, inst[p] \in Instance,
         HoldsLock(p), ReleaseLock(p), inst' = inst,
         \A q \in Process \ {p} : pc'[q] = pc[q]
  PROVE  MutexOK'
<1> DEFINE i == inst[p]
<1>0. mutex \in [Instance -> Seq(Process)]
  BY DEF TypeOK
<1>1. /\ mutex[i] \in Seq(Process) /\ mutex[i] # << >>
      /\ mutex[i][1] = p /\ 1 \in 1..Len(mutex[i])
      /\ mutex'[i] = Tail(mutex[i])
      /\ \A j \in Instance \ {i} : mutex'[j] = mutex[j]
  <2>1. mutex[i] \in Seq(Process) /\ mutex[i] # << >>
    BY <1>0 DEF HoldsLock
  <2>2. 1 \in 1..Len(mutex[i])
    BY <2>1, EmptySeq
  <2> QED
    BY <1>0, <2>1, <2>2, TailOfQueue DEF HoldsLock, ReleaseLock
<1>2. \A k \in 1..Len(mutex'[i]) :
        k \in Nat /\ k + 1 \in 1..Len(mutex[i]) /\ k + 1 # 1
          /\ mutex'[i][k] = mutex[i][k + 1]
  BY <1>1, TailOfQueue
<1> i \in Instance
  OBVIOUS
<1> HIDE DEF i
<1>3. \A k \in 1..Len(mutex'[i]) :
        mutex'[i][k] \in Process \ {p}
  BY <1>1, <1>2 DEF MutexOK
<1>4. ASSUME NEW j \in Instance, NEW k \in 1..Len(mutex'[j])
      PROVE  /\ pc'[mutex'[j][k]] \in {"queued", "writing"}
             /\ inst'[mutex'[j][k]] = j
  <2>1. CASE j = i
    <3>1. mutex'[i][k] = mutex[i][k + 1] /\ k + 1 \in 1..Len(mutex[i])
      BY <1>2, <2>1
    <3>2. /\ pc[mutex[i][k + 1]] \in {"queued", "writing"}
          /\ inst[mutex[i][k + 1]] = i
      BY <3>1 DEF MutexOK
    <3> QED
      BY <1>3, <2>1, <3>1, <3>2
  <2>2. CASE j # i
    <3>1. mutex'[j] = mutex[j] /\ mutex[j][k] \in Process
      BY <1>0, <1>1, <2>2
    <3>2. inst[mutex[j][k]] = j /\ pc[mutex[j][k]] \in {"queued", "writing"}
      BY <3>1 DEF MutexOK
    <3>3. mutex[j][k] # p
      BY <2>2, <3>2 DEF i
    <3> QED
      BY <3>1, <3>2, <3>3
  <2> QED
    BY <2>1, <2>2
<1>5. ASSUME NEW j \in Instance, NEW k \in 1..Len(mutex'[j]),
             NEW l \in 1..Len(mutex'[j]), mutex'[j][k] = mutex'[j][l]
      PROVE  k = l
  <2>1. CASE j = i
    <3>1. /\ mutex[i][k + 1] = mutex[i][l + 1]
          /\ k + 1 \in 1..Len(mutex[i]) /\ l + 1 \in 1..Len(mutex[i])
          /\ k \in Nat /\ l \in Nat
      BY <1>2, <1>5, <2>1
    <3>2. k + 1 = l + 1
      BY <3>1 DEF MutexOK
    <3> QED
      BY <3>1, <3>2
  <2>2. CASE j # i
    BY <1>1, <1>5, <2>2 DEF MutexOK
  <2> QED
    BY <2>1, <2>2
<1> QED
  BY <1>4, <1>5 DEF MutexOK

(* Steps that leave the queues alone.                                      *)
LEMMA MutexKept ==
  ASSUME TypeOK, MutexOK, mutex' = mutex,
         \A q \in Process : pc[q] \in {"queued", "writing"} =>
           pc'[q] \in {"queued", "writing"} /\ inst'[q] = inst[q]
  PROVE  MutexOK'
<1>1. \A i \in Instance : \A k \in 1..Len(mutex[i]) : mutex[i][k] \in Process
  BY DEF TypeOK
<1> QED
  BY <1>1 DEF MutexOK

LEMMA MutexInv ==
  ASSUME TypeOK, CallerOK, WritesOK, MutexOK, WritersHoldLock, [Next]_vars
  PROVE  MutexOK'
<1>0. CallTypeOK /\ StoreTypeOK /\ Process \cap Watcher = {}
  BY SubfeedAssumption, TypeParts
<1>1. ASSUME NEW p \in Process, AppendCall(p)
      PROVE  MutexOK'
  <2>0. p \in Caller
    BY DEF Caller
  <2>1. ASSUME NEW n \in 0..MaxBatch, BeginAppend(p, n)
        PROVE  MutexOK'
    <3>1. /\ \A q \in Process \ {p} : inst'[q] = inst[q]
          /\ pc[p] = "idle" /\ pc' = [pc EXCEPT ![p] = "loading"]
          /\ mutex' = mutex
      BY <2>0, <2>1, LoadType DEF BeginAppend, Caller
    <3> QED
      BY <1>0, <3>1, MutexKept DEF CallTypeOK
  <2>2. ASSUME AcquireLock(p)
        PROVE  MutexOK'
    <3>1. CASE mutex' = mutex
      <4>1. \A q \in Process : pc[q] \in {"queued", "writing"} =>
              pc'[q] = pc[q] /\ inst'[q] = inst[q]
        BY <1>0, <2>2 DEF AcquireLock, CallTypeOK
      <4> QED
        BY <3>1, <4>1, MutexKept
    <3>2. CASE mutex' # mutex
      <4> DEFINE i == inst[p]
      <4>1. /\ i \in Instance
            /\ mutex' = [mutex EXCEPT ![i] = Append(mutex[i], p)]
            /\ pc[p] = "loading" /\ pc' = [pc EXCEPT ![p] = "queued"]
            /\ inst' = inst
        BY <1>0, <2>0, <2>2, <3>2 DEF AcquireLock, IsLoaded, CallTypeOK
      <4>2. mutex[i] \in Seq(Process)
        BY <1>0, <4>1 DEF CallTypeOK
      <4>3. /\ Len(mutex'[i]) = Len(mutex[i]) + 1
            /\ mutex'[i][Len(mutex[i]) + 1] = p
            /\ \A k \in 1..Len(mutex[i]) : mutex'[i][k] = mutex[i][k]
            /\ \A j \in Instance \ {i} : mutex'[j] = mutex[j]
            /\ Len(mutex[i]) \in Nat
        BY <1>0, <4>1, <4>2 DEF CallTypeOK
      <4>4. \A j \in Instance : \A k \in 1..Len(mutex[j]) :
              mutex[j][k] \in Process /\ mutex[j][k] # p
        <5> SUFFICES ASSUME NEW j \in Instance, NEW k \in 1..Len(mutex[j])
                     PROVE  mutex[j][k] \in Process /\ mutex[j][k] # p
          OBVIOUS
        <5>1. mutex[j][k] \in Process
          BY <1>0 DEF CallTypeOK
        <5>2. pc[mutex[j][k]] \in {"queued", "writing"}
          BY DEF MutexOK
        <5> QED
          BY <4>1, <5>1, <5>2
      <4> inst'[p] = i
        BY <4>1
      <4> HIDE DEF i
      <4>5. ASSUME NEW j \in Instance, NEW k \in 1..Len(mutex'[j])
            PROVE  /\ pc'[mutex'[j][k]] \in {"queued", "writing"}
                   /\ inst'[mutex'[j][k]] = j
        <5>1. CASE j = i /\ k = Len(mutex[i]) + 1
          BY <1>0, <4>1, <4>3, <5>1 DEF CallTypeOK
        <5>2. CASE ~(j = i /\ k = Len(mutex[i]) + 1)
          <6>1. k \in 1..Len(mutex[j]) /\ mutex'[j][k] = mutex[j][k]
            BY <4>3, <5>2
          <6>2. /\ pc[mutex[j][k]] \in {"queued", "writing"}
                /\ inst[mutex[j][k]] = j
            BY <6>1 DEF MutexOK
          <6> QED
            BY <1>0, <4>1, <4>4, <6>1, <6>2 DEF CallTypeOK
        <5> QED
          BY <5>1, <5>2
      <4>6. ASSUME NEW j \in Instance, NEW k \in 1..Len(mutex'[j]),
                   NEW l \in 1..Len(mutex'[j]), mutex'[j][k] = mutex'[j][l]
            PROVE  k = l
        <5>1. CASE j = i
          <6>1. k \in 1..Len(mutex[i]) \/ k = Len(mutex[i]) + 1
            BY <4>3, <5>1
          <6>2. l \in 1..Len(mutex[i]) \/ l = Len(mutex[i]) + 1
            BY <4>3, <5>1
          <6> QED
            BY <4>3, <4>4, <4>6, <5>1, <6>1, <6>2 DEF MutexOK
        <5>2. CASE j # i
          BY <4>3, <4>6, <5>2 DEF MutexOK
        <5> QED
          BY <5>1, <5>2
      <4> QED
        BY <4>5, <4>6 DEF MutexOK
    <3> QED
      BY <3>1, <3>2
  <2>3. ASSUME SignAndSend(p) \/ WriteCommits(p)
        PROVE  MutexOK'
    <3>1. /\ mutex' = mutex /\ inst' = inst
          /\ \A q \in Process : pc[q] \in {"queued", "writing"} =>
               pc'[q] \in {"queued", "writing"}
      BY <1>0, <2>3 DEF SignAndSend, WriteCommits, subfeedVars, callVars,
                        CallTypeOK
    <3> QED
      BY <3>1, MutexKept
  <2>4. ASSUME ReturnWithoutWrite(p) \/ WriteFails(p) \/ WriteReturns(p)
        PROVE  MutexOK'
    <3>1. HoldsLock(p) /\ inst[p] \in Instance
      BY <2>4 DEF ReturnWithoutWrite, WriteFails, WriteReturns, FailAppend,
                  FinishAppend, WritersHoldLock, CallerOK, InProgress
    <3>2. /\ ReleaseLock(p) /\ inst' = inst
          /\ \A q \in Process \ {p} : pc'[q] = pc[q]
      BY <1>0, <2>4 DEF ReturnWithoutWrite, WriteFails, WriteReturns,
                        CallTypeOK
    <3> QED
      BY <3>1, <3>2, ReleaseKeepsMutex
  <2> QED
    BY <1>1, <2>1, <2>2, <2>3, <2>4 DEF AppendCall
<1>2. ASSUME NEW w \in Watcher, WatchCall(w)
      PROVE  MutexOK'
  <2>1. w \in Caller /\ w \notin Process
    BY <1>0 DEF Caller
  <2>2. pc' = pc /\ mutex' = mutex /\ \A p \in Process : inst'[p] = inst[p]
    BY <1>2, <2>1, LoadType
       DEF WatchCall, BeginWatch, FirstCheck, Listen, WatchTimesOut,
           callVars, Caller
  <2> QED
    BY <2>2, MutexKept
<1>3. ASSUME NEW i \in Instance, LoadFails(i) \/ KeyFails(i)
      PROVE  MutexOK'
  <2>1. mutex' = mutex /\ \A q \in Process : pc[q] \in {"queued", "writing"} =>
          pc'[q] = pc[q] /\ inst'[q] = inst[q]
    BY <1>3, LoadErrorFrame DEF CallerOK, Caller
  <2> QED
    BY <2>1, MutexKept
<1>4. ASSUME NEW i \in Instance,
             Initialize(i) \/ NextTick(i) \/ ChangeRules(i)
      PROVE  MutexOK'
  <2>1. mutex' = mutex /\ pc' = pc /\ inst' = inst
    BY <1>4 DEF Initialize, NextTick, ChangeRules, subfeedVars, callVars
  <2> QED
    BY <2>1, MutexKept
<1>5. CASE \/ EvictSubfeed \/ DeleteFeed \/ UNCHANGED vars
          \/ \E i \in Instance : ChangeRules(i)
  <2>1. mutex' = mutex /\ pc' = pc /\ inst' = inst
    BY <1>5 DEF EvictSubfeed, ChangeRules, SetAccessRules, DeleteFeed, vars,
                subfeedVars, callVars
  <2> QED
    BY <2>1, MutexKept
<1>6. CASE Restart
  BY <1>6 DEF Restart, MutexOK
<1> QED
  BY <1>1, <1>2, <1>3, <1>4, <1>5, <1>6 DEF Next

-----------------------------------------------------------------------------
(* Writers and watchers.                                                   *)

LEMMA WritersInv ==
  ASSUME TypeOK, CallerOK, MutexOK, WritesOK, WritersHoldLock, [Next]_vars
  PROVE  WritersHoldLock'
<1>0. CallTypeOK /\ StoreTypeOK /\ Process \cap Watcher = {}
  BY SubfeedAssumption, TypeParts
<1>1. ASSUME \A q \in Process :
               stage'[q] # "none" =>
                 /\ stage[q] # "none" /\ target'[q] = target[q]
                 /\ pc'[q] = pc[q] /\ inst'[q] = inst[q],
             \A q \in Process :
               stage'[q] # "none" /\ HoldsLock(q) =>
                 /\ mutex'[inst[q]] # << >>
                 /\ Head(mutex'[inst[q]]) = Head(mutex[inst[q]])
      PROVE  WritersHoldLock'
  BY <1>1 DEF WritersHoldLock, HoldsLock
<1>2. ASSUME NEW p \in Process, AppendCall(p)
      PROVE  WritersHoldLock'
  <2>0. p \in Caller
    BY DEF Caller
  <2>1. ASSUME NEW n \in 0..MaxBatch, BeginAppend(p, n)
        PROVE  WritersHoldLock'
    <3>1. /\ \A q \in Process \ {p} : inst'[q] = inst[q]
          /\ pc[p] = "idle" /\ pc' = [pc EXCEPT ![p] = "loading"]
          /\ mutex' = mutex /\ UNCHANGED transfers
      BY <2>0, <2>1, LoadType DEF BeginAppend, Caller
    <3>2. \A q \in Process : stage'[q] # "none" => q # p
      BY <3>1 DEF transfers, WritesOK
    <3> QED
      BY <1>0, <1>1, <3>1, <3>2
         DEF CallTypeOK, transfers, WritersHoldLock, HoldsLock
  <2>2. ASSUME AcquireLock(p)
        PROVE  WritersHoldLock'
    <3>1. /\ UNCHANGED transfers /\ inst' = inst
          /\ inst[p] \in Instance
          /\ pc[p] = "loading" /\ \A q \in Process \ {p} : pc'[q] = pc[q]
          /\ \/ mutex' = mutex
             \/ mutex' = [mutex EXCEPT ![inst[p]] = Append(mutex[inst[p]], p)]
      BY <1>0, <2>0, <2>2
         DEF AcquireLock, IsLoaded, CallTypeOK, storeVars
    <3>2. \A q \in Process : stage'[q] # "none" => q # p
      BY <3>1 DEF transfers, WritesOK
    <3>3. ASSUME NEW q \in Process, stage'[q] # "none", HoldsLock(q)
          PROVE  /\ mutex'[inst[q]] # << >>
                 /\ Head(mutex'[inst[q]]) = Head(mutex[inst[q]])
      <4>1. inst[q] \in Instance
        BY <3>1, <3>3 DEF transfers, WritesOK, CallerOK, InProgress
      <4>2. mutex[inst[q]] \in Seq(Process) /\ mutex[inst[q]] # << >>
        BY <1>0, <3>3, <4>1 DEF CallTypeOK, HoldsLock
      <4>3. /\ Append(mutex[inst[q]], p) # << >>
            /\ Head(Append(mutex[inst[q]], p)) = Head(mutex[inst[q]])
        BY <4>2
      <4> QED
        BY <1>0, <3>1, <4>1, <4>2, <4>3 DEF CallTypeOK
    <3> QED
      BY <1>1, <3>1, <3>2, <3>3 DEF transfers
  <2>3. ASSUME SignAndSend(p)
        PROVE  WritersHoldLock'
    <3>1. /\ mutex' = mutex /\ inst' = inst /\ HoldsLock(p)
          /\ pc' = [pc EXCEPT ![p] = "writing"]
          /\ stage' = [stage EXCEPT ![p] = "sent"]
          /\ target' = [target EXCEPT ![p] = inst[p]]
      BY <2>3 DEF SignAndSend, StartAppend
    <3> QED
      BY <1>0, <3>1 DEF WritersHoldLock, HoldsLock, CallTypeOK, StoreTypeOK
  <2>4. ASSUME WriteCommits(p)
        PROVE  WritersHoldLock'
    <3>1. /\ mutex' = mutex /\ inst' = inst /\ pc' = pc /\ target' = target
          /\ stage[p] # "none"
          /\ stage' = [stage EXCEPT ![p] = "stored"]
      BY <2>4 DEF WriteCommits, CommitAppend, subfeedVars, callVars
    <3> QED
      BY <1>0, <1>1, <3>1 DEF StoreTypeOK, HoldsLock
  <2>5. ASSUME ReturnWithoutWrite(p) \/ WriteFails(p) \/ WriteReturns(p)
        PROVE  WritersHoldLock'
    <3>1. HoldsLock(p) /\ inst[p] \in Instance
      BY <2>5 DEF ReturnWithoutWrite, WriteFails, WriteReturns, FailAppend,
                  FinishAppend, WritersHoldLock, CallerOK, InProgress
    <3>2. /\ ReleaseLock(p) /\ inst' = inst
          /\ \A q \in Process \ {p} : pc'[q] = pc[q]
      BY <1>0, <2>5 DEF ReturnWithoutWrite, WriteFails, WriteReturns,
                        CallTypeOK
    <3>3. /\ stage'[p] = "none"
          /\ \A q \in Process \ {p} :
               stage'[q] = stage[q] /\ target'[q] = target[q]
      BY <1>0, <2>5, EndTransferType
         DEF ReturnWithoutWrite, WriteFails, WriteReturns, FailAppend,
             FinishAppend, storeVars, transfers, WritesOK
    <3>4. ASSUME NEW q \in Process, stage'[q] # "none"
          PROVE  /\ mutex'[inst[q]] = mutex[inst[q]]
                 /\ HoldsLock(q)
      <4>1. q # p /\ stage[q] # "none"
        BY <3>3, <3>4
      <4>2. HoldsLock(q) /\ inst[q] \in Instance
        BY <4>1 DEF WritersHoldLock, CallerOK, InProgress
      <4>3. inst[q] # inst[p]
        BY <3>1, <4>1, <4>2 DEF HoldsLock
      <4> QED
        BY <1>0, <3>1, <3>2, <4>2, <4>3 DEF ReleaseLock, CallTypeOK
    <3> QED
      BY <1>1, <3>2, <3>3, <3>4 DEF HoldsLock
  <2> QED
    BY <1>2, <2>1, <2>2, <2>3, <2>4, <2>5 DEF AppendCall
<1>3. ASSUME UNCHANGED <<stage, target, pc, mutex>>,
             \A q \in Process : pc[q] = "writing" => inst'[q] = inst[q]
      PROVE  WritersHoldLock'
  BY <1>1, <1>3 DEF WritersHoldLock, HoldsLock
<1>4. ASSUME NEW w \in Watcher, WatchCall(w)
      PROVE  WritersHoldLock'
  <2>1. w \in Caller /\ w \notin Process
    BY <1>0 DEF Caller
  <2>2. /\ UNCHANGED <<stage, target, pc, mutex>>
        /\ \A p \in Process : inst'[p] = inst[p]
    BY <1>4, <2>1, LoadType
       DEF WatchCall, BeginWatch, FirstCheck, Listen, WatchTimesOut,
           callVars, transfers, storeVars, Caller
  <2> QED
    BY <1>3, <2>2
<1>5. ASSUME NEW i \in Instance, LoadFails(i) \/ KeyFails(i)
      PROVE  WritersHoldLock'
  <2>1. \A q \in Process : stage[q] # "none" =>
          pc'[q] = pc[q] /\ inst'[q] = inst[q]
    BY <1>5, LoadErrorFrame DEF CallerOK, Caller, WritesOK
  <2>2. UNCHANGED <<stage, target, mutex>>
    BY <1>5, LoadErrorFrame DEF transfers
  <2> QED
    BY <1>1, <2>1, <2>2 DEF HoldsLock
<1>6. ASSUME NEW i \in Instance,
             Initialize(i) \/ NextTick(i) \/ ChangeRules(i)
      PROVE  WritersHoldLock'
  <2>1. UNCHANGED <<stage, target, pc, mutex, inst>>
    BY <1>6 DEF Initialize, InitializeStep, ReadKey, CheckExists,
                ReadMessages, CheckWriteable, FinishEmpty,
                NextTick, ChangeRules, SetAccessRules, storeVars, transfers,
                subfeedVars, callVars
  <2> QED
    BY <1>3, <2>1
<1>7. CASE \/ EvictSubfeed \/ DeleteFeed \/ UNCHANGED vars
          \/ \E i \in Instance : ChangeRules(i)
  <2>1. UNCHANGED <<stage, target, pc, mutex, inst>>
    BY <1>7 DEF EvictSubfeed, Evict, ChangeRules, SetAccessRules, DeleteFeed,
                DeleteRows, DeleteKey, vars,
                storeVars, transfers, subfeedVars, callVars
  <2> QED
    BY <1>3, <2>1
<1>8. CASE Restart
  BY <1>8 DEF Restart, Crash, WritersHoldLock
<1> QED
  BY <1>2, <1>4, <1>5, <1>6, <1>7, <1>8 DEF Next

(* Steps that give no listener of an initialised object any news.          *)
LEMMA WakeKept ==
  ASSUME TypeOK, CallerOK, NoLostWakeup, wpos' = wpos,
         \A w \in Watcher : wpc'[w] = "listening" =>
           wpc[w] = "listening" /\ inst'[w] = inst[w],
         \A i \in Instance : status[i] = "ready" =>
           mem'[i] = mem[i] /\ notify'[i] = notify[i]
  PROVE  NoLostWakeup'
  BY DEF CallerOK, NoLostWakeup, HasNews

LEMMA WakeInv ==
  ASSUME TypeOK, CallerOK, WritesOK, WritersHoldLock, NoLostWakeup, [Next]_vars
  PROVE  NoLostWakeup'
<1>0. CallTypeOK /\ StoreTypeOK /\ Process \cap Watcher = {}
  BY SubfeedAssumption, TypeParts
<1>1. ASSUME NEW p \in Process, AppendCall(p)
      PROVE  NoLostWakeup'
  <2>0. p \in Caller /\ p \notin Watcher
    BY <1>0 DEF Caller
  <2>1. ASSUME NEW n \in 0..MaxBatch, BeginAppend(p, n)
        PROVE  NoLostWakeup'
    <3>1. /\ \A w \in Watcher : inst'[w] = inst[w]
          /\ UNCHANGED <<wpc, wpos, mem, notify>>
      BY <2>0, <2>1, LoadType DEF BeginAppend, Caller, watchVars
    <3> QED
      BY <3>1, WakeKept
  <2>2. ASSUME AcquireLock(p) \/ SignAndSend(p) \/ ReturnWithoutWrite(p)
                 \/ WriteCommits(p) \/ WriteFails(p)
        PROVE  NoLostWakeup'
    <3>1. UNCHANGED <<wpc, wpos, inst, mem, notify>>
      BY <2>2 DEF AcquireLock, SignAndSend, StartAppend, ReturnWithoutWrite,
                  WriteCommits, CommitAppend, WriteFails, FailAppend,
                  storeVars, objects, subfeedVars, watchVars
    <3> QED
      BY <3>1, WakeKept
  <2>3. ASSUME WriteReturns(p)
        PROVE  NoLostWakeup'
    <3>1. /\ inst[p] \in Instance /\ target[p] = inst[p]
          /\ \A i \in Instance \ {inst[p]} :
               mem'[i] = mem[i] /\ notify'[i] = notify[i]
          /\ notify'[inst[p]] = notify[inst[p]] + 1
          /\ UNCHANGED <<wpc, wpos, inst>>
      BY <1>0, <2>3 DEF WriteReturns, FinishAppend, WritersHoldLock, CallerOK,
                        InProgress, CallTypeOK, StoreTypeOK, watchVars
    <3>2. notify[inst[p]] + 1 > 0
      BY <1>0, <3>1 DEF CallTypeOK
    <3> SUFFICES ASSUME NEW w \in Watcher, wpc[w] = "listening",
                        inst[w] # NoInstance, HasNews(w)'
                 PROVE  notify'[inst[w]] > 0
      BY <3>1 DEF NoLostWakeup
    <3>3. CASE inst[w] = inst[p]
      BY <3>1, <3>2, <3>3
    <3>4. CASE inst[w] # inst[p]
      <4>1. inst[w] \in Instance \ {inst[p]}
        BY <3>4 DEF CallerOK
      <4>2. HasNews(w)
        BY <3>1, <4>1 DEF HasNews
      <4> QED
        BY <3>1, <4>1, <4>2 DEF NoLostWakeup
    <3> QED
      BY <3>3, <3>4
  <2> QED
    BY <1>1, <2>1, <2>2, <2>3 DEF AppendCall
<1>2. ASSUME NEW w \in Watcher, WatchCall(w)
      PROVE  NoLostWakeup'
  <2>0. w \in Caller
    BY DEF Caller
  <2>1. CASE Listen(w)
    <3>1. UNCHANGED <<mem, notify, inst, wpos>>
      BY <2>1 DEF Listen, storeVars, objects
    <3>2. \A v \in Watcher \ {w} : wpc'[v] = wpc[v]
      BY <1>0, <2>1 DEF Listen, CallTypeOK
    <3>3. wpc'[w] = "listening" => ~HasNews(w)
      BY <1>0, <2>1 DEF Listen, CallTypeOK
    <3> QED
      BY <3>1, <3>2, <3>3 DEF NoLostWakeup, HasNews
  <2>2. CASE ~Listen(w)
    <3>1. /\ wpc'[w] # "listening"
          /\ \A v \in Watcher \ {w} : /\ wpc'[v] = wpc[v]
                                       /\ inst'[v] = inst[v]
                                       /\ wpos'[v] = wpos[v]
          /\ UNCHANGED <<mem, notify>>
      BY <1>0, <1>2, <2>0, <2>2, LoadType
         DEF WatchCall, BeginWatch, FirstCheck, WatchTimesOut, storeVars,
             objects, Caller, CallTypeOK
    <3> QED
      BY <3>1 DEF NoLostWakeup, HasNews
  <2> QED
    BY <2>1, <2>2
<1>3. ASSUME NEW i \in Instance, LoadFails(i) \/ KeyFails(i)
      PROVE  NoLostWakeup'
  <2>1. \A v \in Watcher : wpc'[v] = "listening" =>
          wpc[v] = "listening" /\ inst'[v] = inst[v]
    BY <1>3, LoadErrorFrame DEF CallerOK, Caller
  <2> QED
    BY <1>3, <2>1, LoadErrorFrame, WakeKept
<1>4. ASSUME NEW i \in Instance, Initialize(i)
      PROVE  NoLostWakeup'
  <2>1. UNCHANGED <<wpc, wpos, inst, notify>>
    BY <1>4 DEF Initialize, subfeedVars, watchVars
  <2>2. \A j \in Instance : status[j] = "ready" => mem'[j] = mem[j]
    BY <1>0, <1>4
       DEF Initialize, InitializeStep, ReadKey, CheckExists,
           ReadMessages, CheckWriteable, FinishEmpty, StoreTypeOK
  <2> QED
    BY <2>1, <2>2, WakeKept
<1>5. ASSUME NEW i \in Instance, NextTick(i)
      PROVE  NoLostWakeup'
  <2>1. /\ UNCHANGED <<mem, inst, wpos>>
        /\ \A j \in Instance \ {i} : notify'[j] = notify[j]
        /\ \A v \in Watcher : wpc'[v] = "listening" =>
             wpc[v] = "listening" /\ ~(inst[v] = i /\ HasNews(v))
    BY <1>0, <1>5 DEF NextTick, storeVars, objects, CallTypeOK, HasNews
  <2>2. \A v \in Watcher : wpc[v] = "listening" => inst[v] \in Instance
    BY DEF CallerOK
  <2> QED
    BY <2>1, <2>2 DEF NoLostWakeup, HasNews
<1>6. CASE \/ EvictSubfeed \/ DeleteFeed \/ UNCHANGED vars
          \/ \E i \in Instance : ChangeRules(i)
  <2>1. UNCHANGED <<wpc, wpos, inst, notify, mem>>
    BY <1>6 DEF EvictSubfeed, Evict, ChangeRules, SetAccessRules, DeleteFeed,
                DeleteRows, DeleteKey, vars,
                storeVars, objects, subfeedVars, watchVars
  <2> QED
    BY <2>1, WakeKept
<1>7. CASE Restart
  BY <1>7 DEF Restart, Watching, NoLostWakeup
<1> QED
  BY <1>1, <1>2, <1>3, <1>4, <1>5, <1>6, <1>7 DEF Next

-----------------------------------------------------------------------------
(* The theorems.                                                           *)

LEMMA SubfeedInit == Init => SubfeedInv
<1> SUFFICES ASSUME Init PROVE SubfeedInv
  OBVIOUS
<1>1. StoreInv
  BY StoreInitInv DEF Init
<1>2. CallTypeOK
  BY EmptySeq, SubfeedAssumption DEF Init, CallTypeOK
<1>3. TypeOK
  BY <1>1, <1>2, TypeParts DEF StoreInv
<1>4. CallerOK /\ MutexOK /\ WritesOK /\ WritersHoldLock /\ NoLostWakeup
  BY DEF Init, StoreInit, CallerOK, InProgress, MutexOK, WritesOK,
         WritersHoldLock, NoLostWakeup
<1> QED
  BY <1>1, <1>3, <1>4 DEF SubfeedInv

LEMMA SubfeedStep == SubfeedInv /\ [Next]_vars => SubfeedInv'
<1> SUFFICES ASSUME SubfeedInv, [Next]_vars PROVE SubfeedInv'
  OBVIOUS
<1> USE DEF SubfeedInv
<1>1. StoreInv'
  BY NextIsStoreStep, StoreStepInv
<1>2. TypeOK'
  <2>1. StoreTypeOK'
    BY <1>1 DEF StoreInv
  <2>2. CallTypeOK'
    BY CallTypeInv
  <2> QED
    BY <2>1, <2>2 DEF TypeOK, CallTypeOK
<1>3. CallerOK' /\ WritesOK'
  BY CallerInv, WritesInv
<1>4. MutexOK' /\ WritersHoldLock'
  BY MutexInv, WritersInv
<1>5. NoLostWakeup'
  BY WakeInv
<1> QED
  BY <1>1, <1>2, <1>3, <1>4, <1>5

(* The inductive invariant of the subfeed holds.                           *)
THEOREM SubfeedInvariance == Spec => []SubfeedInv
  BY SubfeedInit, SubfeedStep, PTL DEF Spec

(* Every variable of the subfeed keeps its type.                           *)
THEOREM SubfeedTypeCorrect == Spec => []TypeOK
<1>1. SubfeedInv => TypeOK
  BY DEF SubfeedInv
<1> QED
  BY SubfeedInvariance, <1>1, PTL

(* With real callers too, the table can be read back until the feed is     *)
(* deleted, whatever is evicted, fails or restarts.                        *)
THEOREM SubfeedReadable == Spec => []DatabaseReadable
<1>1. SubfeedInv => DatabaseReadable
  BY DEF SubfeedInv, StoreInv
<1> QED
  BY SubfeedInvariance, <1>1, PTL

(* Whoever writes to an object holds its mutex.                            *)
THEOREM SubfeedWritersHoldLock == Spec => []WritersHoldLock
<1>1. SubfeedInv => WritersHoldLock
  BY DEF SubfeedInv
<1> QED
  BY SubfeedInvariance, <1>1, PTL

(* A watcher that sleeps on news has a callback coming.                    *)
THEOREM SubfeedNoLostWakeup == Spec => []NoLostWakeup
<1>1. SubfeedInv => NoLostWakeup
  BY DEF SubfeedInv
<1> QED
  BY SubfeedInvariance, <1>1, PTL

-----------------------------------------------------------------------------
(* Memory and database.                                                    *)

(* The faults of the model are spent, never earned.                        *)
BudgetOK == \A f \in Fault : budget[f] <= Budget[f]

(* As long as nothing was evicted or deleted there is one object, the map  *)
(* holds it, and the feed is known to exist ...                            *)
OneObject ==
  Spared("evict") /\ Spared("delete") =>
    /\ feedRow
    /\ \A i \in Instance :
         status[i] # "unborn" => current = i /\ status[i] # "empty"

(* ... and it holds the whole table, but for the batch that is stored and  *)
(* not yet pushed.                                                         *)
WholeTable ==
  Spared("evict") /\ Spared("delete") =>
    /\ \A i \in Instance :
         status[i] \in {"loaded", "ready"}
             /\ (\A p \in Process : stage[p] = "stored" => target[p] # i)
           => Len(mem[i]) = Cardinality(DOMAIN db)
    /\ \A p \in Process : stage[p] = "stored" =>
         Len(mem[target[p]]) + Len(batch[p]) = Cardinality(DOMAIN db)

MatchInv == ~wiped /\ BudgetOK /\ OneObject /\ WholeTable

(* The rows: each is the k-th message of a call that has stored its batch, *)
(* and a call that waits for the push has rows.                            *)
RowsOK ==
  /\ \A q \in DOMAIN db : \E p \in Process :
       /\ db[q].sig[1] = p
       /\ stage[p] = "stored" \/ pc[p] \in {"acked", "failed"}
  /\ \A p \in Process : stage[p] = "stored" =>
       \E q \in DOMAIN db : db[q].sig[1] = p

(* A batch on its way is what its call was asked to append.                *)
BatchesOK ==
  \A p \in Process : stage[p] # "none" =>
    /\ Len(batch[p]) = size[p]
    /\ \A k \in 1..Len(batch[p]) : batch[p][k].sig = <<p, k>>

LogInv == ~wiped /\ RowsOK /\ BatchesOK

(* The positions of a table that can be read back.                         *)
LEMMA ReadableDomain ==
  ASSUME StoreInv, ~wiped
  PROVE  /\ Cardinality(DOMAIN db) \in Nat
         /\ DOMAIN db = 0..(Cardinality(DOMAIN db) - 1)
<1> DEFINE S == DOMAIN db
           n == Cardinality(S)
<1>1. /\ S \subseteq Nat /\ IsFiniteSet(S)
      /\ \A p \in S : 0..p \subseteq S
  BY DEF StoreInv, StoreTypeOK, DatabaseReadable, ReadableTable
<1> HIDE DEF S
<1>2. n \in Nat /\ \A k \in 1..n : (k - 1) \in S
  BY <1>1, GapFreeDomain
<1>3. 0..(n - 1) \subseteq S
  <2> HIDE DEF n
  <2> SUFFICES ASSUME NEW q \in 0..(n - 1) PROVE q \in S
    OBVIOUS
  <2>1. q + 1 \in 1..n /\ (q + 1) - 1 = q
    BY <1>2
  <2> QED
    BY <1>2, <2>1
<1>4. Cardinality(0..(n - 1)) = n
  BY <1>2, FS_Interval
<1>5. S = 0..(n - 1)
  BY <1>1, <1>3, <1>4, FS_Subset
<1> QED
  BY <1>2, <1>5 DEF S

(* Only an object that holds the whole table gets its batch past the       *)
(* primary key, and the rows of the batch then follow the old ones.        *)
LEMMA CommitExtends ==
  ASSUME StoreInv, ~wiped, NEW p \in Process, CommitAppend(p)
  PROVE  LET n == Cardinality(DOMAIN db)
             b == batch[p]
         IN  /\ n \in Nat /\ DOMAIN db = 0..(n - 1)
             /\ Len(mem[target[p]]) = n
             /\ Len(b) \in Nat /\ Len(b) > 0
             /\ DOMAIN db' = 0..(n + Len(b) - 1)
             /\ Cardinality(DOMAIN db') = n + Len(b)
             /\ \A q \in DOMAIN db : db'[q] = db[q]
             /\ \A k \in 1..Len(b) : db'[n + k - 1] = b[k]
<1> DEFINE n == Cardinality(DOMAIN db)
           b == batch[p]
           s == mem[target[p]]
<1>1. /\ stage[p] = "sent" /\ Positions(b) \cap DOMAIN db = {}
      /\ db' = Insert(db, b)
  BY DEF CommitAppend, Collides
<1>2. /\ s \in Seq(Message) /\ b \in Seq(Message) /\ b # << >>
      /\ Extends(s, b) /\ IsPrefixOfTable(s, db)
  BY <1>1 DEF StoreInv, StoreTypeOK, TransferOK, MemoryIsPrefix
<1>3. n \in Nat /\ DOMAIN db = 0..(n - 1)
  BY ReadableDomain
<1> HIDE DEF n, b, s
<1>4. Len(s) \in Nat /\ Len(b) \in Nat /\ Len(b) > 0
  BY <1>2
<1>5. \A k \in 1..Len(b) : b[k].num = Len(s) + k - 1
  BY <1>2 DEF Extends
<1>6. Positions(b) = Len(s)..(Len(s) + Len(b) - 1)
  <2>1. /\ DOMAIN db \subseteq Nat /\ IsFiniteSet(DOMAIN db)
        /\ \A q \in DOMAIN db : db[q] \in Message
    BY DEF StoreInv, StoreTypeOK
  <2> QED
    BY <1>2, <2>1, InsertAppends
<1>7. Len(s) = n
  <2>1. Len(s) <= n
    <3>1. CASE Len(s) = 0
      BY <1>3, <3>1
    <3>2. CASE Len(s) # 0
      <4>1. Len(s) \in 1..Len(s)
        BY <1>4, <3>2
      <4>2. Len(s) - 1 \in DOMAIN db
        BY <1>2, <4>1 DEF IsPrefixOfTable
      <4> QED
        BY <1>3, <1>4, <4>2
    <3> QED
      BY <3>1, <3>2
  <2>2. ~(Len(s) < n)
    <3>1. Len(s) \in Positions(b)
      BY <1>4, <1>6
    <3>2. Len(s) < n => Len(s) \in DOMAIN db
      BY <1>3, <1>4
    <3> QED
      BY <1>1, <3>1, <3>2
  <2> QED
    BY <1>3, <1>4, <2>1, <2>2
<1>8. DOMAIN db' = 0..(n + Len(b) - 1)
  <2>1. DOMAIN db' = DOMAIN db \cup Positions(b)
    BY <1>1 DEF Insert
  <2> QED
    BY <1>3, <1>4, <1>6, <1>7, <2>1
<1>9. Cardinality(DOMAIN db') = n + Len(b)
  <2>1. 0 \in Int /\ n + Len(b) - 1 \in Int /\ n + Len(b) > 0
    BY <1>3, <1>4
  <2>2. Cardinality(0..(n + Len(b) - 1)) = (n + Len(b) - 1) - 0 + 1
    BY <1>3, <1>4, <2>1, FS_Interval
  <2>3. (n + Len(b) - 1) - 0 + 1 = n + Len(b)
    BY <1>3, <1>4
  <2> QED
    BY <1>8, <2>2, <2>3
<1>10. \A q \in DOMAIN db : db'[q] = db[q]
  BY <1>1 DEF Insert
<1>11. ASSUME NEW k \in 1..Len(b) PROVE db'[n + k - 1] = b[k]
  <2>1. /\ n + k - 1 \in Positions(b) /\ n + k - 1 \notin DOMAIN db
        /\ (n + k - 1) - b[1].num + 1 = k
    BY <1>3, <1>4, <1>5, <1>6, <1>7
  <2> QED
    BY <1>1, <2>1 DEF Insert
<1> QED
  BY <1>3, <1>4, <1>7, <1>8, <1>9, <1>10, <1>11 DEF n, b, s

(* A fault that is spared after a step was spared before it.               *)
LEMMA BudgetStep ==
  ASSUME StoreInv, BudgetOK, [StoreStep]_storeVars
  PROVE  /\ BudgetOK'
         /\ \A f \in Fault : Spared(f)' => Spared(f)
         /\ Evict => ~Spared("evict")'
         /\ DeleteRows => ~Spared("delete")'
<1>1. budget' = budget \/ \E f \in Fault : Spend(f)
  <2>1. ASSUME NEW i \in Instance, LifeCycle(i)
        PROVE  budget' = budget \/ \E f \in Fault : Spend(f)
    BY <2>1 DEF LifeCycle, InitializeStep, CreateInstance, ReadKey,
                ReadKeyFails, CheckExists, ReadMessages, CheckWriteable,
                FinishEmpty, InitializeFails, Fault
  <2>2. ASSUME NEW p \in Process, NEW i \in Instance, NEW b \in Seq(Message),
               StartAppend(p, i, b)
        PROVE  budget' = budget
    BY <2>2 DEF StartAppend
  <2>3. ASSUME NEW p \in Process,
               CommitAppend(p) \/ FailAppend(p) \/ FinishAppend(p)
        PROVE  budget' = budget \/ Spend("dbError")
    BY <2>3 DEF CommitAppend, FailAppend, FinishAppend
  <2>4. (\E i \in Instance : SetAccessRules(i)) \/ DeleteKey
          \/ UNCHANGED storeVars => budget' = budget
    BY DEF SetAccessRules, DeleteKey, storeVars
  <2>5. Evict \/ DeleteRows \/ Crash => \E f \in Fault : Spend(f)
    BY DEF Evict, DeleteRows, Crash, Fault
  <2>6. "dbError" \in Fault
    BY DEF Fault
  <2> QED
    BY <2>1, <2>2, <2>3, <2>4, <2>5, <2>6 DEF StoreStep
<1>2. /\ budget \in [Fault -> Nat] /\ Budget \in [Fault -> Nat]
      /\ \A f \in Fault : budget[f] <= Budget[f]
  BY StoreAssumption DEF StoreInv, StoreTypeOK, BudgetOK
<1>3. ASSUME NEW f \in Fault, Spend(f)
      PROVE  /\ BudgetOK'
             /\ \A g \in Fault : Spared(g)' => Spared(g)
             /\ ~Spared(f)'
  <2>1. /\ budget[f] \in Nat /\ Budget[f] \in Nat /\ budget[f] > 0
        /\ budget[f] <= Budget[f] /\ budget'[f] = budget[f] - 1
        /\ \A g \in Fault \ {f} : budget'[g] = budget[g]
    BY <1>2, <1>3 DEF Spend
  <2>2. budget'[f] <= Budget[f] /\ budget'[f] # Budget[f]
    BY <2>1
  <2> QED
    BY <1>2, <2>1, <2>2 DEF BudgetOK, Spared
<1>4. ASSUME budget' = budget
      PROVE  BudgetOK' /\ \A f \in Fault : Spared(f)' => Spared(f)
  BY <1>4 DEF BudgetOK, Spared
<1>5. /\ "evict" \in Fault /\ "delete" \in Fault
      /\ Evict => Spend("evict")
      /\ DeleteRows => Spend("delete")
  BY DEF Fault, Evict, DeleteRows
<1> QED
  BY <1>1, <1>3, <1>4, <1>5

LEMMA OneObjectStep ==
  ASSUME StoreInv, BudgetOK, OneObject, ~ForeignKeys, [StoreStep]_storeVars
  PROVE  OneObject'
<1> SUFFICES ASSUME Spared("evict")', Spared("delete")'
             PROVE  /\ feedRow'
                    /\ \A i \in Instance : status'[i] # "unborn" =>
                         current' = i /\ status'[i] # "empty"
  BY DEF OneObject
<1>0. /\ Spared("evict") /\ Spared("delete") /\ ~Evict /\ ~DeleteRows
      /\ feedRow /\ StoreTypeOK
      /\ \A i \in Instance :
           status[i] # "unborn" => current = i /\ status[i] # "empty"
  BY BudgetStep DEF Fault, OneObject, StoreInv
<1>1. CASE feedRow' = feedRow /\ UNCHANGED <<current, status>>
  BY <1>0, <1>1
<1>2. ASSUME NEW i \in Instance, CreateInstance(i)
      PROVE  /\ feedRow'
             /\ \A j \in Instance : status'[j] # "unborn" =>
                  current' = j /\ status'[j] # "empty"
  <2>1. /\ current = NoInstance /\ current' = i /\ feedRow' = feedRow
        /\ status' = [status EXCEPT ![i] = "fresh"]
    BY <1>2 DEF CreateInstance, persistent
  <2>2. \A j \in Instance : status[j] = "unborn"
    BY <1>0, <2>1, StoreAssumption
  <2> QED
    BY <1>0, <2>1, <2>2 DEF StoreTypeOK
<1>3. ASSUME NEW i \in Instance, InitializeStep(i) \/ ReadKeyFails(i)
      PROVE  /\ feedRow'
             /\ \A j \in Instance : status'[j] # "unborn" =>
                  current' = j /\ status'[j] # "empty"
  <2>1. feedRow' = feedRow /\ current' = current
    BY <1>3 DEF InitializeStep, ReadKey, ReadKeyFails, CheckExists,
                ReadMessages, CheckWriteable, FinishEmpty, persistent
  <2>2. status[i] # "unborn"
    BY <1>3 DEF InitializeStep, ReadKey, ReadKeyFails, CheckExists,
                ReadMessages, CheckWriteable, FinishEmpty
  <2>3. status'[i] # "empty" /\ \A j \in Instance \ {i} : status'[j] = status[j]
    BY <1>0, <1>3 DEF InitializeStep, ReadKey, ReadKeyFails, CheckExists,
                ReadMessages, CheckWriteable, FinishEmpty, StoreTypeOK
  <2> QED
    BY <1>0, <2>1, <2>2, <2>3
<1>4. ASSUME NEW i \in Instance, InitializeFails(i)
      PROVE  /\ feedRow'
             /\ \A j \in Instance : status'[j] # "unborn" =>
                  current' = j /\ status'[j] # "empty"
  <2>1. /\ status[i] # "unborn" /\ feedRow' = feedRow
        /\ status' = [status EXCEPT ![i] = "unborn"]
    BY <1>4 DEF InitializeFails, DropFailed, persistent
  <2>2. \A j \in Instance \ {i} : status[j] = "unborn"
    BY <1>0, <2>1
  <2> QED
    BY <1>0, <2>1, <2>2 DEF StoreTypeOK
<1>5. ASSUME NEW i \in Instance, SetAccessRules(i)
      PROVE  feedRow' /\ UNCHANGED <<current, status>>
  BY <1>5 DEF SetAccessRules, objects
<1>6. ASSUME NEW p \in Process,
             CommitAppend(p) \/ FailAppend(p) \/ FinishAppend(p)
      PROVE  feedRow' /\ UNCHANGED <<current, status>>
  BY <1>0, <1>6 DEF CommitAppend, FailAppend, FinishAppend, objects,
                    persistent
<1>7. ASSUME NEW p \in Process, NEW i \in Instance, NEW b \in Seq(Message),
             StartAppend(p, i, b)
      PROVE  feedRow' = feedRow /\ UNCHANGED <<current, status>>
  BY <1>7 DEF StartAppend, persistent
<1>8. DeleteKey \/ UNCHANGED storeVars
        => feedRow' = feedRow /\ UNCHANGED <<current, status>>
  BY DEF DeleteKey, storeVars, persistent, objects
<1>9. Crash => feedRow' = feedRow /\ \A j \in Instance : status'[j] = "unborn"
  BY DEF Crash
<1> QED
  BY <1>0, <1>1, <1>2, <1>3, <1>4, <1>5, <1>6, <1>7, <1>8, <1>9
     DEF StoreStep, LifeCycle

LEMMA WholeTableStep ==
  ASSUME StoreInv, MatchInv, ~ForeignKeys, [StoreStep]_storeVars
  PROVE  WholeTable'
<1> DEFINE n == Cardinality(DOMAIN db)
<1> SUFFICES ASSUME Spared("evict")', Spared("delete")'
             PROVE  /\ \A i \in Instance :
                         status'[i] \in {"loaded", "ready"}
                             /\ (\A p \in Process :
                                   stage'[p] = "stored" => target'[p] # i)
                           => Len(mem'[i]) = Cardinality(DOMAIN db')
                    /\ \A p \in Process : stage'[p] = "stored" =>
                         Len(mem'[target'[p]]) + Len(batch'[p])
                           = Cardinality(DOMAIN db')
  BY DEF WholeTable
<1>0. /\ Spared("evict") /\ Spared("delete") /\ ~Evict /\ ~DeleteRows
      /\ StoreTypeOK /\ ~wiped
      /\ \A i \in Instance :
           status[i] # "unborn" => current = i /\ status[i] # "empty"
  BY BudgetStep DEF Fault, OneObject, StoreInv, MatchInv
<1>1. /\ \A i \in Instance :
           status[i] \in {"loaded", "ready"}
               /\ (\A p \in Process : stage[p] = "stored" => target[p] # i)
             => Len(mem[i]) = n
      /\ \A p \in Process : stage[p] = "stored" =>
           Len(mem[target[p]]) + Len(batch[p]) = n
  BY <1>0 DEF MatchInv, WholeTable
<1>2. \A p \in Process : stage[p] # "none" =>
        target[p] \in Instance /\ status[target[p]] = "ready"
          /\ current = target[p]
  BY <1>0 DEF StoreInv, TransferOK
<1> HIDE DEF n
<1>3. ASSUME db' = db, mem' = mem,
             \A p \in Process : stage'[p] = "stored" <=> stage[p] = "stored",
             \A p \in Process : stage[p] = "stored" =>
               target'[p] = target[p] /\ batch'[p] = batch[p],
             \A i \in Instance : status'[i] \in {"loaded", "ready"}
               => status[i] \in {"loaded", "ready"}
      PROVE  /\ \A i \in Instance :
                  status'[i] \in {"loaded", "ready"}
                      /\ (\A p \in Process :
                            stage'[p] = "stored" => target'[p] # i)
                    => Len(mem'[i]) = Cardinality(DOMAIN db')
             /\ \A p \in Process : stage'[p] = "stored" =>
                  Len(mem'[target'[p]]) + Len(batch'[p])
                    = Cardinality(DOMAIN db')
  BY <1>1, <1>3 DEF n
<1>4. ASSUME NEW i \in Instance,
             LifeCycle(i) /\ ~ReadMessages(i) /\ ~InitializeFails(i)
      PROVE  /\ db' = db /\ mem' = mem /\ UNCHANGED transfers
             /\ \A j \in Instance : status'[j] \in {"loaded", "ready"}
               => status[j] \in {"loaded", "ready"}
  <2>1. db' = db /\ mem' = mem /\ UNCHANGED transfers
    BY <1>4 DEF LifeCycle, InitializeStep, CreateInstance, ReadKey,
                ReadKeyFails, CheckExists, CheckWriteable, FinishEmpty,
                persistent
  <2>2. \A j \in Instance \ {i} : status'[j] = status[j]
    BY <1>0, <1>4 DEF LifeCycle, InitializeStep, CreateInstance, ReadKey,
       ReadKeyFails, CheckExists, CheckWriteable, FinishEmpty, StoreTypeOK
  <2>3. status'[i] \in {"loaded", "ready"} => status[i] \in {"loaded", "ready"}
    BY <1>0, <1>4 DEF LifeCycle, InitializeStep, CreateInstance, ReadKey,
       ReadKeyFails, CheckExists, CheckWriteable, FinishEmpty, StoreTypeOK
  <2> QED
    BY <2>1, <2>2, <2>3
<1>5. ASSUME NEW i \in Instance, ReadMessages(i)
      PROVE  /\ \A j \in Instance :
                  status'[j] \in {"loaded", "ready"}
                    => Len(mem'[j]) = Cardinality(DOMAIN db')
             /\ \A p \in Process : stage'[p] # "stored"
  <2>1. /\ status[i] = "reading" /\ db' = db /\ UNCHANGED transfers
        /\ mem' = [mem EXCEPT ![i] = [k \in 1..n |-> db[k - 1]]]
        /\ status' = [status EXCEPT ![i] = "loaded"]
    BY <1>5 DEF ReadMessages, persistent, n
  <2>2. \A p \in Process : stage'[p] # "stored"
    BY <1>0, <1>2, <2>1 DEF transfers
  <2>3. \A j \in Instance \ {i} : status'[j] = "unborn"
    BY <1>0, <2>1 DEF StoreTypeOK
  <2>4. n \in Nat
    BY <1>0, ReadableDomain DEF n
  <2>5. mem'[i] = [k \in 1..n |-> db[k - 1]]
    BY <1>0, <2>1 DEF StoreTypeOK
  <2>6. Len(mem'[i]) = n
    BY <2>4, <2>5
  <2> QED
    BY <2>1, <2>2, <2>3, <2>6 DEF n
<1>6. ASSUME NEW i \in Instance, InitializeFails(i)
      PROVE  /\ \A j \in Instance : status'[j] = "unborn"
             /\ \A p \in Process : stage'[p] # "stored"
  <2>1. /\ status[i] \notin {"unborn", "ready"} /\ UNCHANGED transfers
        /\ status' = [status EXCEPT ![i] = "unborn"]
    BY <1>6 DEF InitializeFails, DropFailed
  <2>2. \A j \in Instance \ {i} : status[j] = "unborn"
    BY <1>0, <2>1
  <2>3. \A j \in Instance : status'[j] = "unborn"
    BY <1>0, <2>1, <2>2 DEF StoreTypeOK
  <2>4. \A p \in Process : stage[p] = "none"
    <3>1. \A p \in Process : stage[p] # "none" => status[target[p]] = "ready"
            /\ target[p] \in Instance
      BY <1>2
    <3> QED
      BY <2>1, <2>2, <3>1
  <2> QED
    BY <2>1, <2>3, <2>4 DEF transfers
<1>7. ASSUME NEW i \in Instance, SetAccessRules(i)
      PROVE  db' = db /\ UNCHANGED <<mem, status, transfers>>
  BY <1>7 DEF SetAccessRules, Cascade, objects
<1>8. ASSUME NEW p \in Process, NEW i \in Instance, NEW b \in Seq(Message),
             StartAppend(p, i, b)
      PROVE  /\ db' = db /\ UNCHANGED <<mem, status>>
             /\ \A q \in Process : stage'[q] = "stored" <=> stage[q] = "stored"
             /\ \A q \in Process : stage[q] = "stored" =>
                  target'[q] = target[q] /\ batch'[q] = batch[q]
  BY <1>0, <1>8 DEF StartAppend, persistent, StoreTypeOK
<1>9. ASSUME NEW p \in Process, FailAppend(p)
      PROVE  /\ db' = db /\ UNCHANGED <<mem, status>>
             /\ \A q \in Process : stage'[q] = "stored" <=> stage[q] = "stored"
             /\ \A q \in Process : stage[q] = "stored" =>
                  target'[q] = target[q] /\ batch'[q] = batch[q]
  BY <1>0, <1>9 DEF FailAppend, EndTransfer, objects, StoreTypeOK
<1>10. ASSUME NEW p \in Process, CommitAppend(p)
       PROVE  /\ \A i \in Instance :
                   status'[i] \in {"loaded", "ready"}
                     => stage'[p] = "stored" /\ target'[p] = i
              /\ \A q \in Process : stage'[q] = "stored" =>
                   Len(mem'[target'[q]]) + Len(batch'[q])
                     = Cardinality(DOMAIN db')
  <2>1. /\ stage[p] = "sent" /\ stage' = [stage EXCEPT ![p] = "stored"]
        /\ UNCHANGED <<mem, status, target, batch>>
    BY <1>10 DEF CommitAppend, objects
  <2>2. /\ Len(mem[target[p]]) = n
        /\ Cardinality(DOMAIN db') = n + Len(batch[p])
    BY <1>0, <1>10, CommitExtends DEF n
  <2>3. stage'[p] = "stored" /\ \A q \in Process \ {p} : stage'[q] = stage[q]
    BY <1>0, <2>1 DEF StoreTypeOK
  <2>4. \A q \in Process \ {p} : stage[q] = "none"
    BY <1>2, <2>1 DEF StoreInv, AppendsExclude
  <2>5. \A i \in Instance : status[i] # "unborn" => target[p] = i
    BY <1>0, <1>2, <2>1
  <2> QED
    BY <2>1, <2>2, <2>3, <2>4, <2>5
<1>11. ASSUME NEW p \in Process, FinishAppend(p)
       PROVE  /\ \A i \in Instance :
                   status'[i] \in {"loaded", "ready"}
                     => Len(mem'[i]) = Cardinality(DOMAIN db')
              /\ \A q \in Process : stage'[q] # "stored"
  <2> DEFINE o == target[p]
  <2>1. /\ stage[p] = "stored" /\ EndTransfer(p) /\ status' = status
        /\ mem' = [mem EXCEPT ![o] = @ \o batch[p]] /\ db' = db
    BY <1>11 DEF FinishAppend, persistent
  <2>2. /\ o \in Instance
        /\ \A i \in Instance : status[i] # "unborn" => i = o
    BY <1>0, <1>2, <2>1
  <2>3. mem[o] \in Seq(Message) /\ batch[p] \in Seq(Message)
    BY <1>0, <2>2 DEF StoreTypeOK
  <2>4. Len(mem[o]) + Len(batch[p]) = n
    BY <1>1, <2>1
  <2>5. mem'[o] = mem[o] \o batch[p]
    BY <1>0, <2>1, <2>2 DEF StoreTypeOK
  <2>6. Len(mem'[o]) = n
    <3>1. \A u, v \in Seq(Message) : Len(u \o v) = Len(u) + Len(v)
      OBVIOUS
    <3> HIDE DEF o
    <3> QED
      BY <2>3, <2>4, <2>5, <3>1
  <2>7. stage'[p] = "none" /\ \A q \in Process \ {p} : stage'[q] = stage[q]
    BY <1>0, <2>1, EndTransferType
  <2>8. \A q \in Process \ {p} : stage[q] = "none"
    BY <1>2, <2>1 DEF StoreInv, AppendsExclude
  <2> QED
    BY <2>1, <2>2, <2>6, <2>7, <2>8 DEF n
<1>12. Crash => /\ \A i \in Instance : status'[i] = "unborn"
                /\ \A p \in Process : stage'[p] = "none"
  BY DEF Crash
<1>13. DeleteKey \/ UNCHANGED storeVars
         => db' = db /\ UNCHANGED <<mem, status, transfers>>
  BY DEF DeleteKey, storeVars, persistent, objects
<1>14. CASE db' = db /\ UNCHANGED <<mem, status, transfers>>
  BY <1>3, <1>14 DEF transfers
<1>15. ASSUME NEW i \in Instance, LifeCycle(i)
       PROVE  /\ \A j \in Instance :
                  status'[j] \in {"loaded", "ready"}
                      /\ (\A p \in Process :
                            stage'[p] = "stored" => target'[p] # j)
                    => Len(mem'[j]) = Cardinality(DOMAIN db')
             /\ \A p \in Process : stage'[p] = "stored" =>
                  Len(mem'[target'[p]]) + Len(batch'[p])
                    = Cardinality(DOMAIN db')
  <2>1. CASE ReadMessages(i)
    BY <1>5, <2>1
  <2>2. CASE InitializeFails(i)
    BY <1>6, <2>2
  <2>3. CASE ~ReadMessages(i) /\ ~InitializeFails(i)
    <3>1. /\ db' = db /\ mem' = mem
          /\ UNCHANGED <<stage, target, batch>>
          /\ \A j \in Instance : status'[j] \in {"loaded", "ready"}
               => status[j] \in {"loaded", "ready"}
      BY <1>4, <1>15, <2>3 DEF transfers
    <3> QED
      BY <1>3, <3>1
  <2> QED
    BY <2>1, <2>2, <2>3
<1>16. CASE \E p \in Process :
              \/ \E i \in Instance, b \in Seq(Message) : StartAppend(p, i, b)
              \/ CommitAppend(p)
              \/ FailAppend(p)
              \/ FinishAppend(p)
  <2>1. PICK p \in Process :
              \/ \E i \in Instance, b \in Seq(Message) : StartAppend(p, i, b)
              \/ CommitAppend(p)
              \/ FailAppend(p)
              \/ FinishAppend(p)
    BY <1>16
  <2>2. CASE \E i \in Instance, b \in Seq(Message) : StartAppend(p, i, b)
    BY <1>3, <1>8, <2>2
  <2>3. CASE CommitAppend(p)
    BY <1>10, <2>3
  <2>4. CASE FailAppend(p)
    BY <1>3, <1>9, <2>4
  <2>5. CASE FinishAppend(p)
    BY <1>11, <2>5
  <2> QED
    BY <2>1, <2>2, <2>3, <2>4, <2>5
<1>17. CASE Crash
  BY <1>12, <1>17
<1> QED
  BY <1>0, <1>7, <1>13, <1>14, <1>15, <1>16, <1>17 DEF StoreStep

LEMMA MatchStep ==
  ASSUME StoreInv, MatchInv, ~ForeignKeys, [StoreStep]_storeVars
  PROVE  MatchInv'
BY BudgetStep, OneObjectStep, WholeTableStep, StoreStepNoWipe DEF MatchInv

LEMMA MatchInit == Init => MatchInv
<1> SUFFICES ASSUME Init PROVE MatchInv
  OBVIOUS
<1>1. /\ feedRow /\ ~wiped /\ budget = Budget
      /\ \A i \in Instance : status[i] = "unborn"
      /\ \A p \in Process : stage[p] = "none"
  BY DEF Init, StoreInit
<1>2. BudgetOK
  BY <1>1, StoreAssumption DEF BudgetOK
<1> QED
  BY <1>1, <1>2 DEF MatchInv, OneObject, WholeTable

(* On connections that do not enforce foreign keys: memory and database    *)
(* agree whenever no write is under way, as long as the map has dropped no *)
(* object and the feed is not deleted, through failed loads, failed writes *)
(* and restarts.                                                           *)
THEOREM SubfeedMemoryMatches ==
  ASSUME ~ForeignKeys
  PROVE  Spec => []MemoryMatchesUnlessDropped
<1>1. Init => SubfeedInv /\ MatchInv
  BY SubfeedInit, MatchInit
<1>2. SubfeedInv /\ MatchInv /\ [Next]_vars => (SubfeedInv /\ MatchInv)'
  <2>1. SubfeedInv /\ MatchInv /\ [Next]_vars => MatchInv'
    BY NextIsStoreStep, MatchStep DEF SubfeedInv
  <2> QED
    BY <2>1, SubfeedStep
<1>3. SubfeedInv /\ MatchInv => MemoryMatchesUnlessDropped
  <2> SUFFICES ASSUME SubfeedInv, MatchInv, Spared("evict"), Spared("delete"),
                      current # NoInstance, status[current] = "ready",
                      \A p \in Process :
                        stage[p] = "stored" => target[p] # current
               PROVE  Len(mem[current]) = Cardinality(DOMAIN db)
    BY DEF MemoryMatchesUnlessDropped, MemoryMatchesDatabase
  <2>1. current \in Instance
    BY DEF SubfeedInv, StoreInv, StoreTypeOK
  <2> QED
    BY <2>1 DEF MatchInv, WholeTable
<1> QED
  BY <1>1, <1>2, <1>3, PTL DEF Spec

-----------------------------------------------------------------------------
(* The subfeed implements the log.                                         *)

(* The checks leave the whole signed batch.                                *)
LEMMA SignedBatchSent ==
  ASSUME SubfeedInv, NEW p \in Process, SignAndSend(p)
  PROVE  /\ batch' = [batch EXCEPT ![p] = SignedBatch(p)]
         /\ Len(SignedBatch(p)) = size[p]
         /\ \A k \in 1..Len(SignedBatch(p)) :
              SignedBatch(p)[k].sig = <<p, k>>
<1> DEFINE s == mem[inst[p]]
           b == SignedBatch(p)
<1>1. /\ inst[p] \in Instance /\ StartAppend(p, inst[p], b) /\ size[p] > 0
  BY DEF SignAndSend, SubfeedInv, CallerOK, InProgress
<1>2. s \in Seq(Message) /\ size[p] \in Nat
  BY <1>1, SubfeedAssumption DEF SubfeedInv, TypeOK, StoreTypeOK
<1>3. b = [k \in 1..size[p] |->
             [sig  |-> <<p, k>>,
              num  |-> Len(s) + k - 1,
              prev |-> IF k = 1 THEN LastSig(s) ELSE <<p, k - 1>>]]
  BY DEF SignedBatch
<1>4. batch' = [batch EXCEPT ![p] = Unseen(s, b)]
  BY <1>1 DEF StartAppend
<1> HIDE DEF s, b
<1>5. Len(s) \in Nat
  BY <1>2
<1>6. Len(b) = size[p] /\ \A k \in 1..Len(b) : b[k].sig = <<p, k>>
  BY <1>2, <1>3
<1>7. b[1].num = Len(s)
  <2>1. b[1].num = Len(s) + 1 - 1
    BY <1>1, <1>2, <1>3
  <2> QED
    BY <1>5, <2>1
<1>8. Unseen(s, b) = b
  BY <1>5, <1>7 DEF Unseen
<1> QED
  BY <1>4, <1>6, <1>8 DEF b

(* A transfer begins with a signed batch; afterwards it only goes on or    *)
(* ends.                                                                   *)
LEMMA TransfersStep ==
  ASSUME SubfeedInv, [Next]_vars
  PROVE  \A q \in Process : stage'[q] # "none" =>
           \/ /\ stage[q] # "none" /\ batch'[q] = batch[q]
              /\ stage'[q] = stage[q] \/ CommitAppend(q)
           \/ SignAndSend(q) /\ stage'[q] = "sent"
<1>0. StoreTypeOK
  BY DEF SubfeedInv, StoreInv
<1>1. CASE UNCHANGED transfers
  BY <1>1 DEF transfers
<1>2. ASSUME NEW p \in Process, AppendCall(p)
      PROVE  \/ UNCHANGED transfers
             \/ SignAndSend(p) \/ WriteCommits(p) \/ WriteFails(p)
             \/ WriteReturns(p)
  BY <1>2 DEF AppendCall, BeginAppend, Load, CreateInstance, AcquireLock,
              ReturnWithoutWrite, storeVars, transfers
<1>3. ASSUME NEW p \in Process,
             WriteCommits(p) \/ WriteFails(p) \/ WriteReturns(p)
      PROVE  \A q \in Process : stage'[q] # "none" =>
               /\ stage[q] # "none" /\ batch'[q] = batch[q]
               /\ stage'[q] = stage[q] \/ CommitAppend(q)
  <2>1. CASE WriteCommits(p)
    <3>1. /\ CommitAppend(p) /\ stage[p] = "sent" /\ batch' = batch
          /\ stage' = [stage EXCEPT ![p] = "stored"]
      BY <2>1 DEF WriteCommits, CommitAppend
    <3>2. \A q \in Process \ {p} : stage'[q] = stage[q]
      BY <1>0, <3>1 DEF StoreTypeOK
    <3> QED
      BY <3>1, <3>2
  <2>2. CASE WriteFails(p) \/ WriteReturns(p)
    <3>1. EndTransfer(p)
      BY <2>2 DEF WriteFails, WriteReturns, FailAppend, FinishAppend
    <3> QED
      BY <1>0, <3>1, EndTransferType
  <2> QED
    BY <1>3, <2>1, <2>2
<1>4. ASSUME NEW p \in Process, SignAndSend(p)
      PROVE  \A q \in Process \ {p} :
               stage'[q] = stage[q] /\ batch'[q] = batch[q]
  BY <1>0, <1>4 DEF SignAndSend, StartAppend, StoreTypeOK
<1>5. ASSUME NEW p \in Process, SignAndSend(p)
      PROVE  stage'[p] = "sent"
  BY <1>0, <1>5 DEF SignAndSend, StartAppend, StoreTypeOK
<1>6. ASSUME NEW w \in Watcher, WatchCall(w)
      PROVE  UNCHANGED transfers
  BY <1>6 DEF WatchCall, BeginWatch, FirstCheck, Listen, WatchTimesOut, Load,
              CreateInstance, storeVars, transfers
<1>7. ASSUME NEW i \in Instance,
             Initialize(i) \/ LoadFails(i) \/ KeyFails(i) \/ NextTick(i)
               \/ ChangeRules(i)
      PROVE  UNCHANGED transfers
  BY <1>7 DEF Initialize, LoadFails, KeyFails, NextTick, ChangeRules,
       InitializeStep, ReadKey, ReadKeyFails, CheckExists, ReadMessages,
       CheckWriteable, FinishEmpty, InitializeFails, DropFailed,
       SetAccessRules, storeVars, transfers
<1>8. EvictSubfeed \/ DeleteFeed \/ UNCHANGED vars => UNCHANGED transfers
  BY DEF EvictSubfeed, DeleteFeed, Evict, DeleteRows, DeleteKey, vars,
         storeVars
<1>9. Restart => \A q \in Process : stage'[q] = "none"
  BY DEF Restart, Crash
<1>10. ASSUME NEW p \in Process, AppendCall(p)
       PROVE  \A q \in Process : stage'[q] # "none" =>
           \/ /\ stage[q] # "none" /\ batch'[q] = batch[q]
              /\ stage'[q] = stage[q] \/ CommitAppend(q)
           \/ SignAndSend(q) /\ stage'[q] = "sent"
  <2>1. CASE SignAndSend(p)
    BY <1>4, <1>5, <2>1
  <2>2. CASE ~SignAndSend(p)
    BY <1>1, <1>2, <1>3, <1>10, <2>2
  <2> QED
    BY <2>1, <2>2
<1> QED
  BY <1>1, <1>6, <1>7, <1>8, <1>9, <1>10 DEF Next

LEMMA BatchesStep ==
  ASSUME SubfeedInv, BatchesOK, [Next]_vars
  PROVE  BatchesOK'
<1>0. SubfeedInv' /\ StoreTypeOK
  BY SubfeedStep DEF SubfeedInv, StoreInv
<1> SUFFICES ASSUME NEW q \in Process, stage'[q] # "none"
             PROVE  /\ Len(batch'[q]) = size'[q]
                    /\ \A k \in 1..Len(batch'[q]) : batch'[q][k].sig = <<q, k>>
  BY DEF BatchesOK
<1>1. CASE stage[q] # "none" /\ batch'[q] = batch[q]
  <2>1. pc[q] = "writing"
    BY <1>1 DEF SubfeedInv, WritesOK
  <2>2. size'[q] = size[q]
    <3>1. ASSUME NEW p \in Process, NEW n \in 0..MaxBatch, BeginAppend(p, n)
          PROVE  size'[q] = size[q]
      BY <2>1, <3>1 DEF BeginAppend, SubfeedInv, TypeOK
    <3>2. ASSUME NEW p \in Process, AppendCall(p),
                 ~\E n \in 0..MaxBatch : BeginAppend(p, n)
          PROVE  size' = size
      BY <3>2 DEF AppendCall, AcquireLock, SignAndSend, ReturnWithoutWrite,
                  WriteCommits, WriteFails, WriteReturns, subfeedVars, callVars
    <3>3. (\E w \in Watcher : WatchCall(w)) => size' = size
      BY DEF WatchCall, BeginWatch, FirstCheck, Listen, WatchTimesOut,
             callVars
    <3>4. ASSUME NEW i \in Instance,
                 Initialize(i) \/ LoadFails(i) \/ KeyFails(i) \/ NextTick(i)
                   \/ ChangeRules(i)
          PROVE  size' = size
      BY <3>4 DEF Initialize, LoadFails, KeyFails, LoadError, NextTick,
                  ChangeRules, subfeedVars, callVars
    <3>5. EvictSubfeed \/ DeleteFeed \/ Restart \/ UNCHANGED vars
            => size' = size
      BY DEF EvictSubfeed, DeleteFeed, Restart, vars, subfeedVars, callVars
    <3> QED
      BY <3>1, <3>2, <3>3, <3>4, <3>5 DEF Next
  <2> QED
    BY <1>1, <2>2 DEF BatchesOK
<1>2. CASE SignAndSend(q)
  <2>1. /\ batch' = [batch EXCEPT ![q] = SignedBatch(q)]
        /\ Len(SignedBatch(q)) = size[q]
        /\ \A k \in 1..Len(SignedBatch(q)) : SignedBatch(q)[k].sig = <<q, k>>
    BY <1>2, SignedBatchSent
  <2>2. batch'[q] = SignedBatch(q) /\ size' = size
    BY <1>0, <1>2, <2>1 DEF StoreTypeOK, SignAndSend
  <2> QED
    BY <2>1, <2>2
<1> QED
  BY <1>1, <1>2, TransfersStep

(* What has ended stays so, and what is stored ends.                       *)
LEMMA EndedStays ==
  ASSUME SubfeedInv, [Next]_vars, NEW q \in Process
  PROVE  /\ pc[q] \in {"acked", "failed"} => pc'[q] = pc[q]
         /\ stage[q] = "stored" =>
              stage'[q] = "stored" \/ pc'[q] \in {"acked", "failed"}
<1>0. /\ pc \in [Process ->
           {"idle", "loading", "queued", "writing", "acked", "failed"}]
      /\ StoreTypeOK /\ (pc[q] = "writing" <=> stage[q] # "none")
      /\ (pc'[q] = "writing" <=> stage'[q] # "none")
  BY SubfeedStep DEF SubfeedInv, StoreInv, TypeOK, WritesOK
<1>1. ASSUME NEW p \in Process, AppendCall(p)
      PROVE  /\ pc[q] \in {"acked", "failed"} => pc'[q] = pc[q]
             /\ pc[q] = "writing" =>
                  pc'[q] \in {"writing", "acked", "failed"}
  <2>1. ASSUME NEW n \in 0..MaxBatch, BeginAppend(p, n)
        PROVE  pc[q] \in {"writing", "acked", "failed"} => pc'[q] = pc[q]
    BY <1>0, <2>1 DEF BeginAppend
  <2>2. AcquireLock(p) =>
          (pc[q] \in {"writing", "acked", "failed"} => pc'[q] = pc[q])
    BY <1>0 DEF AcquireLock
  <2>3. SignAndSend(p) \/ ReturnWithoutWrite(p) =>
          (pc[q] \in {"writing", "acked", "failed"} => pc'[q] = pc[q])
    BY <1>0 DEF SignAndSend, ReturnWithoutWrite
  <2>4. WriteCommits(p) => pc' = pc
    BY DEF WriteCommits, subfeedVars, callVars
  <2>5. ASSUME WriteFails(p) \/ WriteReturns(p)
        PROVE  /\ pc[q] \in {"acked", "failed"} => pc'[q] = pc[q]
               /\ pc[q] = "writing" =>
                    pc'[q] \in {"writing", "acked", "failed"}
    <3>1. stage[p] # "none"
      BY <2>5 DEF WriteFails, WriteReturns, FailAppend, FinishAppend
    <3>2. pc[p] = "writing"
      BY <3>1 DEF SubfeedInv, WritesOK
    <3> QED
      BY <1>0, <2>5, <3>2 DEF WriteFails, WriteReturns
  <2> QED
    BY <1>1, <2>1, <2>2, <2>3, <2>4, <2>5 DEF AppendCall
<1>2. (\E w \in Watcher : WatchCall(w)) => pc' = pc
  BY DEF WatchCall, BeginWatch, FirstCheck, Listen, WatchTimesOut, callVars
<1>3. ASSUME NEW i \in Instance,
             Initialize(i) \/ LoadFails(i) \/ KeyFails(i) \/ NextTick(i)
               \/ ChangeRules(i)
      PROVE  pc[q] # "loading" => pc'[q] = pc[q]
  BY <1>3 DEF Initialize, LoadFails, KeyFails, LoadError, NextTick,
              ChangeRules, subfeedVars, callVars
<1>4. EvictSubfeed \/ DeleteFeed \/ UNCHANGED vars => pc' = pc
  BY DEF EvictSubfeed, DeleteFeed, vars, subfeedVars, callVars
<1>5. Restart => pc'[q] = IF InProgress(q) THEN "failed" ELSE pc[q]
  BY DEF Restart
<1>6. /\ pc[q] \in {"acked", "failed"} => pc'[q] = pc[q]
      /\ pc[q] = "writing" => pc'[q] \in {"writing", "acked", "failed"}
  BY <1>1, <1>2, <1>3, <1>4, <1>5 DEF Next, InProgress
<1>7. stage[q] = "stored" => stage'[q] # "sent"
  <2>1. SignAndSend(q) => stage[q] = "none"
    BY DEF SignAndSend, StartAppend
  <2> QED
    BY <1>0, <2>1, TransfersStep DEF CommitAppend
<1>8. stage'[q] \in {"none", "sent", "stored"}
  BY SubfeedStep DEF SubfeedInv, StoreInv, StoreTypeOK
<1> QED
  BY <1>0, <1>6, <1>7, <1>8

(* The table changes by commits only, as long as nothing cascades.         *)
LEMMA RowsChange ==
  ASSUME SubfeedInv, ~ForeignKeys, [Next]_vars
  PROVE  db' = db \/ \E p \in Process : WriteCommits(p)
<1>1. ASSUME NEW p \in Process, AppendCall(p), ~WriteCommits(p)
      PROVE  db' = db
  BY <1>1 DEF AppendCall, BeginAppend, Load, CreateInstance, AcquireLock,
              SignAndSend, StartAppend, ReturnWithoutWrite, WriteFails,
              FailAppend, WriteReturns, FinishAppend, storeVars, persistent
<1>2. ASSUME NEW w \in Watcher, WatchCall(w)
      PROVE  db' = db
  BY <1>2 DEF WatchCall, BeginWatch, FirstCheck, Listen, WatchTimesOut, Load,
              CreateInstance, storeVars, persistent
<1>3. ASSUME NEW i \in Instance,
             Initialize(i) \/ LoadFails(i) \/ KeyFails(i) \/ NextTick(i)
               \/ ChangeRules(i)
      PROVE  db' = db
  BY <1>3 DEF Initialize, LoadFails, KeyFails, NextTick, ChangeRules,
       InitializeStep, ReadKey, ReadKeyFails, CheckExists, ReadMessages,
       CheckWriteable, FinishEmpty, InitializeFails, DropFailed,
       SetAccessRules, Cascade, storeVars, persistent
<1>4. EvictSubfeed \/ DeleteFeed \/ Restart \/ UNCHANGED vars => db' = db
  BY DEF EvictSubfeed, DeleteFeed, Restart, Evict, DeleteRows, DeleteKey,
         Crash, Cascade, vars, storeVars, persistent
<1> QED
  BY <1>1, <1>2, <1>3, <1>4 DEF Next

LEMMA RowsStep ==
  ASSUME SubfeedInv, LogInv, ~ForeignKeys, [Next]_vars
  PROVE  RowsOK'
<1> DEFINE n == Cardinality(DOMAIN db)
<1>0. /\ StoreInv /\ ~wiped /\ RowsOK /\ BatchesOK /\ StoreTypeOK
  BY DEF SubfeedInv, StoreInv, LogInv
<1>1. ASSUME NEW p \in Process, CommitAppend(p)
      PROVE  /\ n \in Nat /\ DOMAIN db = 0..(n - 1)
             /\ Len(batch[p]) \in Nat /\ Len(batch[p]) > 0
             /\ DOMAIN db' = 0..(n + Len(batch[p]) - 1)
             /\ \A q \in DOMAIN db : db'[q] = db[q]
             /\ \A k \in 1..Len(batch[p]) :
                  db'[n + k - 1] = batch[p][k] /\ batch[p][k].sig = <<p, k>>
             /\ stage'[p] = "stored"
  <2>1. stage[p] = "sent" /\ stage' = [stage EXCEPT ![p] = "stored"]
    BY <1>1 DEF CommitAppend
  <2>2. stage'[p] = "stored"
    BY <1>0, <2>1 DEF StoreTypeOK
  <2>3. \A k \in 1..Len(batch[p]) : batch[p][k].sig = <<p, k>>
    BY <1>0, <2>1 DEF BatchesOK
  <2> QED
    BY <1>0, <1>1, <2>2, <2>3, CommitExtends
<1> HIDE DEF n
<1>2. ASSUME NEW q \in DOMAIN db
      PROVE  \E p \in Process :
               /\ db[q].sig[1] = p
               /\ stage'[p] = "stored" \/ pc'[p] \in {"acked", "failed"}
  <2>1. PICK p \in Process :
          /\ db[q].sig[1] = p
          /\ stage[p] = "stored" \/ pc[p] \in {"acked", "failed"}
    BY <1>0 DEF RowsOK
  <2>2. stage'[p] = "stored" \/ pc'[p] \in {"acked", "failed"}
    BY <2>1, EndedStays
  <2> QED
    BY <2>1, <2>2
<1>3. \A q \in DOMAIN db' : \E p \in Process :
        /\ db'[q].sig[1] = p
        /\ stage'[p] = "stored" \/ pc'[p] \in {"acked", "failed"}
  <2>1. CASE db' = db
    BY <1>2, <2>1
  <2>2. CASE \E p \in Process : WriteCommits(p)
    <3>1. PICK p \in Process : CommitAppend(p)
      BY <2>2 DEF WriteCommits
    <3> SUFFICES ASSUME NEW q \in DOMAIN db'
                 PROVE  \E r \in Process :
                          /\ db'[q].sig[1] = r
                          /\ \/ stage'[r] = "stored"
                             \/ pc'[r] \in {"acked", "failed"}
      OBVIOUS
    <3>2. CASE q \in DOMAIN db
      <4>1. db'[q] = db[q]
        BY <1>1, <3>1, <3>2
      <4> QED
        BY <1>2, <3>2, <4>1
    <3>3. CASE q \notin DOMAIN db
      <4>1. PICK k \in 1..Len(batch[p]) : q = n + k - 1
        <5>1. q - n + 1 \in 1..Len(batch[p]) /\ q = n + (q - n + 1) - 1
          BY <1>1, <3>1, <3>3
        <5> QED
          BY <5>1
      <4>2. db'[q].sig = <<p, k>>
        BY <1>1, <3>1, <4>1
      <4>3. db'[q].sig[1] = p /\ stage'[p] = "stored"
        BY <1>1, <3>1, <4>2
      <4> QED
        BY <4>3
    <3> QED
      BY <3>2, <3>3
  <2> QED
    BY <2>1, <2>2, RowsChange
<1>4. ASSUME NEW q \in Process, stage'[q] = "stored"
      PROVE  \E r \in DOMAIN db' : db'[r].sig[1] = q
  <2>1. CASE CommitAppend(q)
    <3>1. 1 \in 1..Len(batch[q]) /\ n + 1 - 1 = n /\ n \in DOMAIN db'
      BY <1>1, <2>1
    <3>2. db'[n].sig = <<q, 1>>
      BY <1>1, <2>1, <3>1
    <3>3. db'[n].sig[1] = q
      BY <3>2
    <3> QED
      BY <3>1, <3>3
  <2>2. CASE ~CommitAppend(q)
    <3>1. stage[q] = "stored"
      BY <1>4, <2>2, TransfersStep
    <3>2. PICK r \in DOMAIN db : db[r].sig[1] = q
      BY <1>0, <3>1 DEF RowsOK
    <3>3. r \in DOMAIN db' /\ db'[r] = db[r]
      <4>1. [StoreStep]_storeVars
        BY NextIsStoreStep DEF SubfeedInv
      <4>2. ~wiped'
        BY <1>0, <4>1, StoreStepNoWipe
      <4> QED
        BY <1>0, <4>1, <4>2, StoreStepKeepsRows
    <3> QED
      BY <3>2, <3>3
  <2> QED
    BY <2>1, <2>2
<1> QED
  BY <1>3, <1>4 DEF RowsOK

LEMMA LogStep ==
  ASSUME SubfeedInv, LogInv, ~ForeignKeys, [Next]_vars
  PROVE  LogInv'
<1>1. ~wiped'
  BY NextIsStoreStep, StoreStepNoWipe DEF SubfeedInv, LogInv
<1> QED
  BY <1>1, RowsStep, BatchesStep DEF LogInv

LEMMA LogInit == Init => LogInv
<1> SUFFICES ASSUME Init PROVE LogInv
  OBVIOUS
<1>1. DOMAIN db = {} /\ ~wiped /\ \A p \in Process : stage[p] = "none"
  BY DEF Init, StoreInit
<1> QED
  BY <1>1 DEF LogInv, RowsOK, BatchesOK

(* The log and the calls as FeedLog sees them.                             *)
Log == [k \in 1..Cardinality(DOMAIN db) |-> db[k - 1].sig]

Call == [p \in Process |-> CallState(p)]

LEMMA AbstractInit == Init => Abstract!Init
<1> SUFFICES ASSUME Init PROVE Abstract!Init
  OBVIOUS
<1>1. Cardinality(DOMAIN db) = 0
  <2>1. DOMAIN db = {}
    BY DEF Init, StoreInit
  <2> QED
    BY <2>1, FS_EmptySet
<1>2. Log = << >>
  BY <1>1 DEF Log
<1>3. Call = [p \in Process |-> "idle"]
  BY DEF Init, Call, CallState, InProgress
<1> QED
  BY <1>2, <1>3 DEF Init, Abstract!Init, Log, Call

(* Steps of the calls that leave the table alone.                          *)
LEMMA AbstractStutter ==
  ASSUME db' = db, size' = size,
         \A p \in Process : CallState(p)' = CallState(p)
  PROVE  UNCHANGED Abstract!logVars
<1>1. Call' = Call
  BY DEF Call
<1> QED
  BY <1>1 DEF Abstract!logVars, Call

LEMMA AbstractFail ==
  ASSUME db' = db, size' = size,
         \A p \in Process :
           pc'[p] = pc[p] \/ (InProgress(p) /\ pc'[p] = "failed")
  PROVE  [Abstract!Next]_(Abstract!logVars)
<1> DEFINE lost == {p \in Process : InProgress(p) /\ pc'[p] = "failed"}
<1>1. \A p \in Process : CallState(p)' =
        IF p \in lost THEN "failed" ELSE CallState(p)
  <2> SUFFICES ASSUME NEW p \in Process
               PROVE  CallState(p)' =
                        IF p \in lost THEN "failed" ELSE CallState(p)
    OBVIOUS
  <2>1. CASE p \in lost
    BY <2>1 DEF CallState, InProgress
  <2>2. CASE p \notin lost
    BY <2>2 DEF CallState, InProgress
  <2> QED
    BY <2>1, <2>2
<1>2. CASE lost = {}
  <2>1. \A p \in Process : CallState(p)' = CallState(p)
    BY <1>1, <1>2
  <2> QED
    BY <2>1, AbstractStutter
<1>3. CASE lost # {}
  <2>1. lost \in SUBSET {p \in Process : Call[p] = "open"}
    BY DEF Call, CallState
  <2>2. Call' = [p \in Process |-> IF p \in lost THEN "failed" ELSE Call[p]]
    BY <1>1 DEF Call
  <2> HIDE DEF lost
  <2>3. Abstract!Fail
    BY <1>3, <2>1, <2>2 DEF Abstract!Fail, Call
  <2> QED
    BY <2>3 DEF Abstract!Next
<1> QED
  BY <1>2, <1>3

LEMMA AbstractAcknowledge ==
  ASSUME SubfeedInv, NEW p \in Process, db' = db, size' = size, InProgress(p),
         pc' = [pc EXCEPT ![p] = "acked"],
         size[p] = 0 \/ \E q \in DOMAIN db : db[q].sig[1] = p, ~wiped
  PROVE  Abstract!Next
<1>1. Call[p] = "open"
  BY DEF Call, CallState
<1>2. Call' = [Call EXCEPT ![p] = "acked"]
  <2>1. pc'[p] = "acked" /\ \A q \in Process \ {p} : pc'[q] = pc[q]
    BY DEF SubfeedInv, TypeOK
  <2>2. \A q \in Process : CallState(q)' =
          IF q = p THEN "acked" ELSE CallState(q)
    BY <2>1 DEF CallState, InProgress
  <2> QED
    BY <2>2 DEF Call
<1>3. size[p] = 0 \/ Abstract!Added(p)
  <2> SUFFICES ASSUME NEW q \in DOMAIN db, db[q].sig[1] = p
               PROVE  Abstract!Added(p)
    OBVIOUS
  <2> DEFINE n == Cardinality(DOMAIN db)
  <2>1. n \in Nat /\ q \in 0..(n - 1)
    BY ReadableDomain DEF SubfeedInv
  <2> HIDE DEF n
  <2>2. q + 1 \in 1..n /\ (q + 1) - 1 = q
    BY <2>1
  <2>3. Log = [k \in 1..n |-> db[k - 1].sig]
    BY DEF Log, n
  <2>4. Len(Log) = n
    BY <2>1, <2>3
  <2>5. Log[q + 1] = db[q].sig
    BY <2>2, <2>3
  <2>6. \E k \in 1..Len(Log) : Log[k][1] = p
    BY <2>2, <2>4, <2>5
  <2> QED
    BY <2>6 DEF Abstract!Added, Log
<1>4. Abstract!Acknowledge(p)
  BY <1>1, <1>2, <1>3 DEF Abstract!Acknowledge, Call
<1> QED
  BY <1>4 DEF Abstract!Next

LEMMA AbstractAdd ==
  ASSUME SubfeedInv, LogInv, NEW p \in Process, WriteCommits(p)
  PROVE  Abstract!Next
<1> DEFINE n == Cardinality(DOMAIN db)
           b == batch[p]
           m == size[p]
<1>1. /\ CommitAppend(p) /\ stage[p] = "sent"
      /\ UNCHANGED <<pc, size>>
  BY DEF WriteCommits, CommitAppend, subfeedVars, callVars
<1>2. pc[p] = "writing"
  BY <1>1 DEF SubfeedInv, WritesOK
<1>3. /\ n \in Nat /\ DOMAIN db = 0..(n - 1)
      /\ Len(b) \in Nat /\ Len(b) > 0 /\ Len(b) = m
      /\ Cardinality(DOMAIN db') = n + m
      /\ \A q \in DOMAIN db : db'[q] = db[q]
      /\ \A k \in 1..m : db'[n + k - 1] = b[k] /\ b[k].sig = <<p, k>>
  <2>1. Len(b) = m /\ \A k \in 1..Len(b) : b[k].sig = <<p, k>>
    BY <1>1 DEF LogInv, BatchesOK
  <2> QED
    BY <1>1, <2>1, CommitExtends DEF SubfeedInv, LogInv
<1> HIDE DEF n, b, m
<1>4. Log = [k \in 1..n |-> db[k - 1].sig]
  BY DEF Log, n
<1>5. Log' = [k \in 1..(n + m) |-> db'[k - 1].sig]
  BY <1>3 DEF Log
<1>6. Log' = Log \o [k \in 1..m |-> <<p, k>>]
  <2> DEFINE new == [k \in 1..m |-> <<p, k>>]
             S == {db'[k - 1].sig : k \in 1..(n + m)}
  <2>1. \A k \in 1..n : db[k - 1].sig = db'[k - 1].sig /\ k \in 1..(n + m)
    BY <1>3
  <2>2. ASSUME NEW k \in 1..m
        PROVE  <<p, k>> = db'[(n + k) - 1].sig /\ n + k \in 1..(n + m)
    <3>1. n + k \in 1..(n + m) /\ (n + k) - 1 = n + k - 1
      BY <1>3
    <3> QED
      BY <1>3, <3>1
  <2>3. /\ \A k \in 1..n : db[k - 1].sig \in S
        /\ \A k \in 1..m : <<p, k>> \in S
        /\ \A k \in 1..(n + m) : db'[k - 1].sig \in S
    <3>1. \A k \in 1..(n + m) : db'[k - 1].sig \in S
      OBVIOUS
    <3> HIDE DEF S
    <3> QED
      BY <2>1, <2>2, <3>1
  <2> HIDE DEF S
  <2>4. Log \in Seq(S) /\ Len(Log) = n
    BY <1>3, <1>4, <2>3
  <2>5. new \in Seq(S) /\ Len(new) = m
    BY <1>3, <2>3
  <2>6. Log' \in Seq(S) /\ Len(Log') = n + m
    <3> DEFINE r == n + m
    <3>1. r \in Nat /\ Log' = [k \in 1..r |-> db'[k - 1].sig]
            /\ \A k \in 1..r : db'[k - 1].sig \in S
      BY <1>3, <1>5, <2>3
    <3> HIDE DEF r
    <3>2. Log' \in Seq(S) /\ Len(Log') = r
      BY <3>1
    <3> QED
      BY <3>2 DEF r
  <2>7. ASSUME NEW k \in 1..(n + m)
        PROVE  Log'[k] = IF k <= n THEN Log[k] ELSE new[k - n]
    <3>1. Log'[k] = db'[k - 1].sig
      BY <1>5
    <3>2. CASE k <= n
      <4>1. k \in 1..n
        BY <1>3, <3>2
      <4> QED
        BY <1>4, <2>1, <3>1, <3>2, <4>1
    <3>3. CASE ~(k <= n)
      <4>1. k - n \in 1..m /\ n + (k - n) = k
        BY <1>3, <3>3
      <4>2. new[k - n] = <<p, k - n>>
        BY <4>1
      <4> HIDE DEF new
      <4> QED
        BY <2>2, <3>1, <3>3, <4>1, <4>2
    <3> QED
      BY <3>2, <3>3
  <2> HIDE DEF new
  <2>8. Log \o new \in Seq(S) /\ Len(Log \o new) = n + m
    BY <2>4, <2>5, ConcatProperties
  <2>9. \A k \in 1..(n + m) : (Log \o new)[k] =
          IF k <= n THEN Log[k] ELSE new[k - n]
    BY <2>4, <2>5, ConcatProperties
  <2>10. Log' = Log \o new
    BY <2>6, <2>7, <2>8, <2>9, SeqEqual
  <2> QED
    BY <2>10 DEF new
<1>7. Call' = Call /\ Call[p] = "open" /\ size' = size /\ size[p] > 0
  BY <1>1, <1>2, <1>3 DEF Call, CallState, InProgress, m
<1>8. ~Abstract!Added(p)
  <2> SUFFICES ASSUME NEW k \in 1..Len(Log), Log[k][1] = p
               PROVE  FALSE
    BY DEF Abstract!Added, Log
  <2>1. k \in 1..n /\ k - 1 \in DOMAIN db
    BY <1>3, <1>4
  <2>2. db[k - 1].sig[1] = p
    BY <1>4, <2>1
  <2>3. \E r \in Process :
          /\ db[k - 1].sig[1] = r
          /\ stage[r] = "stored" \/ pc[r] \in {"acked", "failed"}
    BY <2>1 DEF LogInv, RowsOK
  <2> QED
    BY <1>1, <1>2, <2>2, <2>3
<1>9. Abstract!Add(p)
  BY <1>6, <1>7, <1>8 DEF Abstract!Add, Log, Call, m
<1> QED
  BY <1>9 DEF Abstract!Next

LEMMA AbstractAsk ==
  ASSUME SubfeedInv, NEW p \in Process, NEW n \in 0..MaxBatch,
         BeginAppend(p, n)
  PROVE  Abstract!Next
<1>1. /\ pc[p] = "idle" /\ pc' = [pc EXCEPT ![p] = "loading"]
      /\ size' = [size EXCEPT ![p] = n]
      /\ db' = db
  BY DEF BeginAppend, Load, CreateInstance, storeVars, persistent
<1>2. Call[p] = "idle"
  BY <1>1 DEF Call, CallState, InProgress
<1>3. Call' = [Call EXCEPT ![p] = "open"]
  <2>1. pc'[p] = "loading" /\ \A q \in Process \ {p} : pc'[q] = pc[q]
    BY <1>1 DEF SubfeedInv, TypeOK
  <2>2. \A q \in Process : CallState(q)' =
          IF q = p THEN "open" ELSE CallState(q)
    BY <2>1 DEF CallState, InProgress
  <2> QED
    BY <2>2 DEF Call
<1>4. Abstract!Ask(p, n)
  BY <1>1, <1>2, <1>3 DEF Abstract!Ask, Call
<1> QED
  BY <1>4 DEF Abstract!Next

LEMMA AbstractStep ==
  ASSUME SubfeedInv, LogInv, ~ForeignKeys, [Next]_vars
  PROVE  [Abstract!Next]_(Abstract!logVars)
<1>0. /\ pc \in [Process ->
           {"idle", "loading", "queued", "writing", "acked", "failed"}]
      /\ RowsOK /\ ~wiped
  BY DEF SubfeedInv, TypeOK, LogInv
<1>1. ASSUME NEW p \in Process, AppendCall(p)
      PROVE  [Abstract!Next]_(Abstract!logVars)
  <2>1. CASE \E n \in 0..MaxBatch : BeginAppend(p, n)
    BY <2>1, AbstractAsk
  <2>2. CASE AcquireLock(p)
    <3>1. /\ db' = db /\ size' = size /\ pc[p] = "loading"
          /\ \/ pc' = [pc EXCEPT ![p] = "queued"]
             \/ pc' = [pc EXCEPT ![p] = "failed"]
      BY <2>2 DEF AcquireLock, storeVars, persistent
    <3>2. CASE pc' = [pc EXCEPT ![p] = "queued"]
      <4>1. \A q \in Process : CallState(q)' = CallState(q)
        BY <1>0, <3>1, <3>2 DEF CallState, InProgress
      <4> QED
        BY <3>1, <4>1, AbstractStutter
    <3>3. CASE pc' = [pc EXCEPT ![p] = "failed"]
      BY <1>0, <3>1, <3>3, AbstractFail DEF InProgress
    <3> QED
      BY <3>1, <3>2, <3>3
  <2>3. CASE SignAndSend(p)
    <3>1. /\ db' = db /\ size' = size /\ pc[p] = "queued"
          /\ pc' = [pc EXCEPT ![p] = "writing"]
      BY <2>3 DEF SignAndSend, StartAppend, persistent
    <3>2. \A q \in Process : CallState(q)' = CallState(q)
      BY <1>0, <3>1 DEF CallState, InProgress
    <3> QED
      BY <3>1, <3>2, AbstractStutter
  <2>4. CASE ReturnWithoutWrite(p)
    <3>1. /\ db' = db /\ size' = size /\ InProgress(p)
          /\ \/ size[p] = 0 /\ pc' = [pc EXCEPT ![p] = "acked"]
             \/ pc' = [pc EXCEPT ![p] = "failed"]
      BY <2>4 DEF ReturnWithoutWrite, storeVars, persistent, InProgress
    <3>2. CASE size[p] = 0 /\ pc' = [pc EXCEPT ![p] = "acked"]
      BY <1>0, <3>1, <3>2, AbstractAcknowledge
    <3>3. CASE pc' = [pc EXCEPT ![p] = "failed"]
      BY <1>0, <3>1, <3>3, AbstractFail
    <3> QED
      BY <3>1, <3>2, <3>3
  <2>5. CASE WriteCommits(p)
    BY <2>5, AbstractAdd
  <2>6. CASE WriteFails(p)
    <3>1. /\ db' = db /\ size' = size /\ stage[p] # "none"
          /\ pc' = [pc EXCEPT ![p] = "failed"]
      BY <2>6 DEF WriteFails, FailAppend
    <3>2. InProgress(p)
      BY <3>1 DEF SubfeedInv, WritesOK, InProgress
    <3> QED
      BY <1>0, <3>1, <3>2, AbstractFail
  <2>7. CASE WriteReturns(p)
    <3>1. /\ db' = db /\ size' = size /\ stage[p] = "stored"
          /\ pc' = [pc EXCEPT ![p] = "acked"]
      BY <2>7 DEF WriteReturns, FinishAppend, persistent
    <3>2. InProgress(p)
      BY <3>1 DEF SubfeedInv, WritesOK, InProgress
    <3>3. \E q \in DOMAIN db : db[q].sig[1] = p
      BY <1>0, <3>1 DEF RowsOK
    <3> QED
      BY <1>0, <3>1, <3>2, <3>3, AbstractAcknowledge
  <2> QED
    BY <1>1, <2>1, <2>2, <2>3, <2>4, <2>5, <2>6, <2>7 DEF AppendCall
<1>2. CASE ~\E p \in Process : AppendCall(p)
  <2>1. db' = db
    BY <1>2, RowsChange DEF AppendCall
  <2>2. size' = size
    <3>1. (\E w \in Watcher : WatchCall(w)) => size' = size
      BY DEF WatchCall, BeginWatch, FirstCheck, Listen, WatchTimesOut,
             callVars
    <3>2. ASSUME NEW i \in Instance,
                 Initialize(i) \/ LoadFails(i) \/ KeyFails(i) \/ NextTick(i)
                   \/ ChangeRules(i)
          PROVE  size' = size
      BY <3>2 DEF Initialize, LoadFails, KeyFails, LoadError, NextTick,
                  ChangeRules, subfeedVars, callVars
    <3>3. EvictSubfeed \/ DeleteFeed \/ Restart \/ UNCHANGED vars
            => size' = size
      BY DEF EvictSubfeed, DeleteFeed, Restart, vars, subfeedVars, callVars
    <3> QED
      BY <1>2, <3>1, <3>2, <3>3 DEF Next
  <2>3. \A p \in Process :
          pc'[p] = pc[p] \/ (InProgress(p) /\ pc'[p] = "failed")
    <3>1. (\E w \in Watcher : WatchCall(w)) => pc' = pc
      BY DEF WatchCall, BeginWatch, FirstCheck, Listen, WatchTimesOut,
             callVars
    <3>2. ASSUME NEW i \in Instance,
                 Initialize(i) \/ LoadFails(i) \/ KeyFails(i) \/ NextTick(i)
                   \/ ChangeRules(i)
          PROVE  \A p \in Process : \/ pc'[p] = pc[p]
                                    \/ InProgress(p) /\ pc'[p] = "failed"
      BY <3>2 DEF Initialize, LoadFails, KeyFails, LoadError, NextTick,
                  ChangeRules, InProgress, subfeedVars, callVars
    <3>3. EvictSubfeed \/ DeleteFeed \/ UNCHANGED vars => pc' = pc
      BY DEF EvictSubfeed, DeleteFeed, vars, subfeedVars, callVars
    <3>4. Restart => \A p \in Process : \/ pc'[p] = pc[p]
                                        \/ InProgress(p) /\ pc'[p] = "failed"
      BY DEF Restart
    <3> QED
      BY <1>2, <3>1, <3>2, <3>3, <3>4 DEF Next
  <2> QED
    BY <2>1, <2>2, <2>3, AbstractFail
<1> QED
  BY <1>1, <1>2

(* Where foreign keys are not enforced the subfeed is the log FeedLog      *)
(* promises: every append adds its messages at most once, together and in  *)
(* order, and an acknowledged append has added them.                       *)
THEOREM SubfeedImplementsFeedLog ==
  ASSUME ~ForeignKeys
  PROVE  Spec => ImplementsFeedLog
<1>1. Init => SubfeedInv /\ LogInv /\ Abstract!Init
  BY SubfeedInit, LogInit, AbstractInit
<1>2. SubfeedInv /\ LogInv /\ [Next]_vars => (SubfeedInv /\ LogInv)'
  BY SubfeedStep, LogStep
<1>3. SubfeedInv /\ LogInv /\ [Next]_vars => [Abstract!Next]_(Abstract!logVars)
  BY AbstractStep
<1> QED
  BY <1>1, <1>2, <1>3, PTL DEF Spec, ImplementsFeedLog, Abstract!Spec

=============================================================================
