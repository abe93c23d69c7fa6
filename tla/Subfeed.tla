------------------------------ MODULE Subfeed -------------------------------
(***************************************************************************)
(* A writeable subfeed on the node that owns the feed: FeedManager loads   *)
(* the Subfeed object, clients append under its mutex, and watchers wait   *)
(* for new messages.                                                       *)
(*                                                                         *)
(* A process is one call of FeedManager.appendMessages, a watcher one call *)
(* of FeedManager.watchForNewMessages with a single watch.  Every action   *)
(* runs from one await to the next, as the event loop does.                *)
(***************************************************************************)
EXTENDS SubfeedStore

CONSTANTS
  Watcher,    \* the calls of watchForNewMessages
  MaxBatch    \* the largest number of messages in one call (bounds the model)

Caller == Process \cup Watcher

ASSUME SubfeedAssumption ==
  /\ MaxBatch \in Nat
  /\ Process \X (1..MaxBatch) \subseteq Sig
  /\ Process \cap Watcher = {}

VARIABLES
  pc,         \* progress of each append
  size,       \* the number of messages it appends
  inst,       \* the Subfeed object that each caller was given
  mutex,      \* Subfeed.#mutex: the holder, then the queue
  notify,     \* nextTick callbacks of appendSignedMessages not run yet
  announced,  \* the last count handed to the incoming subscriptions
  wpc,        \* progress of each watch
  wpos        \* the position it watches from

callVars  == <<pc, size>>
watchVars == <<wpc, wpos>>
subfeedVars == <<callVars, inst, mutex, notify, announced, watchVars>>
vars == <<storeVars, subfeedVars>>

Init ==
  /\ StoreInit
  /\ key = TRUE
  /\ pc = [p \in Process |-> "idle"]
  /\ size = [p \in Process |-> 0]
  /\ inst = [c \in Caller |-> NoInstance]
  /\ mutex = [i \in Instance |-> << >>]
  /\ notify = [i \in Instance |-> 0]
  /\ announced = 0
  /\ wpc = [w \in Watcher |-> "idle"]
  /\ wpos = [w \in Watcher |-> 0]

-----------------------------------------------------------------------------
(* FeedManager._loadSubfeed.                                               *)

\* the object in the map, or a new one; the caller then waits until it is
\* initialised
Load(c) ==
  \/ /\ current # NoInstance
     /\ inst' = [inst EXCEPT ![c] = current]
     /\ UNCHANGED storeVars
  \/ \E i \in Instance :
       /\ CreateInstance(i)
       /\ inst' = [inst EXCEPT ![c] = i]

IsLoaded(c) == inst[c] # NoInstance /\ status[inst[c]] = "ready"

\* one step of Subfeed.initialize
Initialize(i) ==
  /\ InitializeStep(i)
  /\ UNCHANGED subfeedVars

\* the calls in lost get an error from _loadSubfeed.  The second load of a
\* watch has no handler: that watch is left to its timer
LoadError(lost) ==
  /\ pc' = [p \in Process |->
              IF p \in lost /\ pc[p] = "loading" THEN "failed" ELSE pc[p]]
  /\ wpc' = [w \in Watcher |->
               IF w \in lost /\ wpc[w] = "checking" THEN "failed" ELSE wpc[w]]
  /\ inst' = [c \in Caller |-> IF c \in lost THEN NoInstance ELSE inst[c]]
  /\ UNCHANGED <<size, mutex, notify, announced, wpos>>

\* initialize fails: so do the call that made the object and all that wait
LoadFails(i) ==
  /\ InitializeFails(i)
  /\ LoadError({c \in Caller : inst[c] = i})

\* the private key cannot be read: only the call that made the object (the
\* model does not record which of its callers that was) learns of it
KeyFails(i) ==
  /\ ReadKeyFails(i)
  /\ \E c \in Caller : inst[c] = i /\ LoadError({c})

-----------------------------------------------------------------------------
(* FeedManager.appendMessages.                                             *)

BeginAppend(p, n) ==
  /\ pc[p] = "idle"
  /\ Load(p)
  /\ pc' = [pc EXCEPT ![p] = "loading"]
  /\ size' = [size EXCEPT ![p] = n]
  /\ UNCHANGED <<mutex, notify, announced, watchVars>>

\* isWriteable, then acquireLock: at once when free, else first come first
\* served
AcquireLock(p) ==
  /\ pc[p] = "loading"
  /\ IsLoaded(p)
  /\ IF writeable[inst[p]]
     THEN /\ mutex' = [mutex EXCEPT ![inst[p]] = Append(@, p)]
          /\ pc' = [pc EXCEPT ![p] = "queued"]
     ELSE /\ pc' = [pc EXCEPT ![p] = "failed"]
          /\ UNCHANGED mutex
  /\ UNCHANGED <<storeVars, size, inst, notify, announced, watchVars>>

HoldsLock(p) == mutex[inst[p]] # << >> /\ Head(mutex[inst[p]]) = p

ReleaseLock(p) == mutex' = [mutex EXCEPT ![inst[p]] = Tail(@)]

\* the messages of p, chained to the list in memory and to each other
SignedBatch(p) ==
  LET s == mem[inst[p]]
  IN  [k \in 1..size[p] |->
         [sig  |-> <<p, k>>,
          num  |-> Len(s) + k - 1,
          prev |-> IF k = 1 THEN LastSig(s) ELSE <<p, k - 1>>]]

\* mutant of SignAndSend: the write is not awaited before the lock is released
SignAndRelease(p) ==
  /\ pc[p] = "queued"
  /\ HoldsLock(p)
  /\ size[p] > 0
  /\ StartAppend(p, inst[p], SignedBatch(p))
  /\ ReleaseLock(p)
  /\ pc' = [pc EXCEPT ![p] = "writing"]
  /\ UNCHANGED <<size, inst, notify, announced, watchVars>>

\* Subfeed.appendMessages with the lock held, up to the database call
SignAndSend(p) ==
  /\ pc[p] = "queued"
  /\ HoldsLock(p)
  /\ size[p] > 0
  /\ StartAppend(p, inst[p], SignedBatch(p))
  /\ pc' = [pc EXCEPT ![p] = "writing"]
  /\ UNCHANGED <<size, inst, mutex, notify, announced, watchVars>>

\* nothing to append, or 'Cannot append messages while messages are being
\* appended'
ReturnWithoutWrite(p) ==
  /\ pc[p] = "queued"
  /\ HoldsLock(p)
  /\ \/ size[p] = 0 /\ pc' = [pc EXCEPT ![p] = "acked"]
     \/ /\ size[p] > 0
        /\ appending[inst[p]]
        /\ pc' = [pc EXCEPT ![p] = "failed"]
  /\ ReleaseLock(p)
  /\ UNCHANGED <<storeVars, size, inst, notify, announced, watchVars>>

WriteCommits(p) ==
  /\ CommitAppend(p)
  /\ UNCHANGED subfeedVars

\* mutant of WriteFails: the lock is released only when the write succeeds
WriteFailsHoldingLock(p) ==
  /\ FailAppend(p)
  /\ pc' = [pc EXCEPT ![p] = "failed"]
  /\ UNCHANGED <<size, inst, mutex, notify, announced, watchVars>>

\* mutant of WriteFails: the error is swallowed
WriteFailsSilently(p) ==
  /\ FailAppend(p)
  /\ pc' = [pc EXCEPT ![p] = "acked"]
  /\ ReleaseLock(p)
  /\ UNCHANGED <<size, inst, notify, announced, watchVars>>

\* the error passes through finally, which releases the lock
WriteFails(p) ==
  /\ FailAppend(p)
  /\ pc' = [pc EXCEPT ![p] = "failed"]
  /\ ReleaseLock(p)
  /\ UNCHANGED <<size, inst, notify, announced, watchVars>>

\* mutant of WriteReturns: onMessagesAdded is not called
WriteReturnsQuietly(p) ==
  /\ FinishAppend(p)
  /\ pc' = [pc EXCEPT ![p] = "acked"]
  /\ ReleaseLock(p)
  /\ UNCHANGED <<size, inst, notify, announced, watchVars>>

WriteReturns(p) ==
  /\ FinishAppend(p)
  /\ pc' = [pc EXCEPT ![p] = "acked"]
  /\ ReleaseLock(p)
  /\ notify' = [notify EXCEPT ![inst[p]] = @ + 1]
  /\ UNCHANGED <<size, inst, announced, watchVars>>

\* the listeners of the object look again; the incoming subscriptions are
\* told the new count
NextTick(i) ==
  /\ notify[i] > 0
  /\ notify' = [notify EXCEPT ![i] = @ - 1]
  /\ wpc' = [w \in Watcher |->
               IF wpc[w] = "listening" /\ inst[w] = i /\ wpos[w] < Len(mem[i])
               THEN "answered" ELSE wpc[w]]
  /\ announced' = Len(mem[i])
  /\ UNCHANGED <<storeVars, callVars, inst, mutex, wpos>>

-----------------------------------------------------------------------------
(* FeedManager.watchForNewMessages and Subfeed.waitForSignedMessages.      *)

BeginWatch(w, pos) ==
  /\ wpc[w] = "idle"
  /\ Load(w)
  /\ wpc' = [wpc EXCEPT ![w] = "checking"]
  /\ wpos' = [wpos EXCEPT ![w] = pos]
  /\ UNCHANGED <<callVars, mutex, notify, announced>>

HasNews(w) == wpos[w] < Len(mem[inst[w]])

\* first for messages that are here already; if there are none the watch
\* ends (waitMsec is 0), or loads again and waits
FirstCheck(w) ==
  /\ wpc[w] = "checking"
  /\ IsLoaded(w)
  /\ \/ /\ wpc' = [wpc EXCEPT ![w] = IF HasNews(w) THEN "answered"
                                                   ELSE "timedOut"]
        /\ UNCHANGED <<storeVars, inst>>
     \/ /\ ~HasNews(w)
        /\ wpc' = [wpc EXCEPT ![w] = "waiting"]
        /\ Load(w)
  /\ UNCHANGED <<callVars, mutex, notify, announced, wpos>>

\* mutant of Listen: the listener is registered without a second look
ListenAtOnce(w) ==
  /\ wpc[w] = "waiting"
  /\ IsLoaded(w)
  /\ wpc' = [wpc EXCEPT ![w] = "listening"]
  /\ UNCHANGED <<storeVars, callVars, inst, mutex, notify, announced, wpos>>

\* waitForSignedMessages: check, and register the listener in the same turn
Listen(w) ==
  /\ wpc[w] = "waiting"
  /\ IsLoaded(w)
  /\ wpc' = [wpc EXCEPT ![w] = IF HasNews(w) THEN "answered" ELSE "listening"]
  /\ UNCHANGED <<storeVars, callVars, inst, mutex, notify, announced, wpos>>

\* the timer of the watch, set before the second load
WatchTimesOut(w) ==
  /\ wpc[w] \in {"waiting", "listening"}
  /\ wpc' = [wpc EXCEPT ![w] = "timedOut"]
  /\ UNCHANGED <<storeVars, callVars, inst, mutex, notify, announced, wpos>>

-----------------------------------------------------------------------------
(* The rest of the daemon.                                                 *)

EvictSubfeed == Evict /\ UNCHANGED subfeedVars

DeleteFeed == (DeleteRows \/ DeleteKey) /\ UNCHANGED subfeedVars

\* FeedManager.setAccessRules, which takes the mutex of the object too
ChangeRules(i) ==
  /\ \A p \in Process : stage[p] # "none" => target[p] # i
  /\ SetAccessRules(i)
  /\ UNCHANGED subfeedVars

InProgress(p) == pc[p] \in {"loading", "queued", "writing"}

Watching(w) == wpc[w] \in {"checking", "waiting", "listening"}

Restart ==
  /\ Crash
  /\ pc' = [p \in Process |-> IF InProgress(p) THEN "failed" ELSE pc[p]]
  /\ wpc' = [w \in Watcher |-> IF Watching(w) THEN "failed" ELSE wpc[w]]
  /\ inst' = [c \in Caller |-> NoInstance]
  /\ mutex' = [i \in Instance |-> << >>]
  /\ notify' = [i \in Instance |-> 0]
  /\ UNCHANGED <<size, announced, wpos>>

AppendCall(p) ==
  \/ \E n \in 0..MaxBatch : BeginAppend(p, n)
  \/ AcquireLock(p)
  \/ SignAndSend(p)
  \/ ReturnWithoutWrite(p)
  \/ WriteCommits(p)
  \/ WriteFails(p)
  \/ WriteReturns(p)

WatchCall(w) ==
  \/ \E pos \in 0..MaxBatch : BeginWatch(w, pos)
  \/ FirstCheck(w)
  \/ Listen(w)
  \/ WatchTimesOut(w)

Next ==
  \/ \E p \in Process : AppendCall(p)
  \/ \E w \in Watcher : WatchCall(w)
  \/ \E i \in Instance :
       Initialize(i) \/ LoadFails(i) \/ KeyFails(i) \/ NextTick(i)
         \/ ChangeRules(i)
  \/ EvictSubfeed
  \/ DeleteFeed
  \/ Restart

Spec == Init /\ [][Next]_vars

\* The event loop runs every resumed call, the database answers or throws,
\* queued callbacks and timers fire.  Clients need not call, faults need not
\* happen.
Fairness ==
  /\ \A p \in Process :
       /\ WF_vars(AcquireLock(p))
       /\ WF_vars(SignAndSend(p) \/ ReturnWithoutWrite(p))
       /\ WF_vars(WriteCommits(p) \/ WriteFails(p))
       /\ WF_vars(WriteReturns(p))
  /\ \A w \in Watcher :
       /\ WF_vars(FirstCheck(w))
       /\ WF_vars(Listen(w))
       /\ WF_vars(WatchTimesOut(w))
  /\ \A i \in Instance :
       /\ WF_vars(Initialize(i))
       /\ WF_vars(LoadFails(i))
       /\ WF_vars(NextTick(i))

FairSpec == Spec /\ Fairness

-----------------------------------------------------------------------------
(* Type invariant of the module.                                           *)
TypeOK ==
  /\ StoreTypeOK
  /\ pc \in [Process ->
       {"idle", "loading", "queued", "writing", "acked", "failed"}]
  /\ size \in [Process -> 0..MaxBatch]
  /\ inst \in [Caller -> Instance \cup {NoInstance}]
  /\ mutex \in [Instance -> Seq(Process)]
  /\ notify \in [Instance -> Nat]
  /\ announced \in Nat
  /\ wpc \in [Watcher -> {"idle", "checking", "waiting", "listening",
                          "answered", "timedOut", "failed"}]
  /\ wpos \in [Watcher -> 0..MaxBatch]

(* Whoever writes to an object holds its mutex, from before the messages   *)
(* are signed until they are in memory: no two clients sign messages with  *)
(* the same number on one object.                                          *)
WritersHoldLock ==
  \A p \in Process : stage[p] # "none" =>
    pc[p] = "writing" /\ target[p] = inst[p] /\ HoldsLock(p)

(* No wake-up is lost: a watcher that sleeps although its object has news  *)
(* has a callback coming that will look.                                   *)
NoLostWakeup ==
  \A w \in Watcher :
    wpc[w] = "listening" /\ inst[w] # NoInstance /\ HasNews(w)
      => notify[inst[w]] > 0

(* "we use this interface to ensure consistency between the in-memory      *)
(* signed messages and the in-database signed messages"                    *)
(* (FeedManager.ts:311): the initialised object in the map holds all that  *)
(* is in the database, except while it waits for its own write.            *)
MemoryMatchesDatabase ==
  current # NoInstance /\ status[current] = "ready"
      /\ (\A p \in Process : stage[p] = "stored" => target[p] # current)
    => Len(mem[current]) = Cardinality(DOMAIN db)

(* The same, as long as the map has not dropped an object in use and the   *)
(* feed is not deleted: failed writes, failed loads and restarts leave     *)
(* memory and database in agreement.                                       *)
MemoryMatchesUnlessDropped ==
  Spared("evict") /\ Spared("delete") => MemoryMatchesDatabase

(* Every append call ends, acknowledged or with an error, and every watch  *)
(* ends.                                                                   *)
CallsComplete ==
  /\ \A p \in Process : InProgress(p) ~> ~InProgress(p)
  /\ \A w \in Watcher : Watching(w) ~> ~Watching(w)

(* Every committed message is announced to the subscribers, unless the     *)
(* daemon restarts in between, or an object that was dropped while in use  *)
(* announces its own, smaller count last.                                  *)
MessagesAnnounced ==
  announced < Cardinality(DOMAIN db)
    ~> \/ announced >= Cardinality(DOMAIN db)
       \/ ~Spared("crash")
       \/ ~Spared("evict")

-----------------------------------------------------------------------------
(* The subfeed implements the log of FeedLog: the log is the table in the  *)
(* order of its positions.                                                 *)
CallState(p) ==
  IF InProgress(p) THEN "open" ELSE pc[p]

Abstract == INSTANCE FeedLog WITH
  log  <- [k \in 1..Cardinality(DOMAIN db) |-> db[k - 1].sig],
  call <- [p \in Process |-> CallState(p)],
  size <- size

ImplementsFeedLog == Abstract!Spec

=============================================================================
