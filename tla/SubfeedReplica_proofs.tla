----------------------- MODULE SubfeedReplica_proofs ------------------------
(***************************************************************************)
(* The safety of a replicated subfeed for any length of the writer's log,  *)
(* any number of download loops and objects, and any faults.               *)
(***************************************************************************)
EXTENDS SubfeedReplica, SubfeedStore_proofs

(* What is true of the loops: a loop in progress has the object it fills   *)
(* to itself, and while it waits for messages that object stands still.    *)
LoopsOK ==
  \A p \in Process :
    /\ loop[p] = "appending" <=> stage[p] # "none"
    /\ loop[p] # "idle" =>
         /\ object[p] \in Instance
         /\ status[object[p]] = "ready"
         /\ active[object[p]]
    /\ loop[p] = "appending" => target[p] = object[p]
    /\ loop[p] = "asked" =>
         /\ Len(mem[object[p]]) = from[p]
         /\ from[p] < upto[p]
         /\ ~appending[object[p]]

LoopsExclude ==
  \A p, q \in Process :
    p # q /\ loop[p] # "idle" /\ loop[q] # "idle" => object[p] # object[q]

(* What is true of the downloaders: only an initialised object has heard   *)
(* of remote messages, and one that is appended to, or whose write has     *)
(* failed, counts as downloading.                                          *)
DownloadersOK ==
  \A i \in Instance :
    /\ active[i] => status[i] = "ready"
    /\ appending[i] => active[i]
    /\ status[i] # "ready" => remoteCount[i] = 0

DownloadInv == LoopsOK /\ LoopsExclude /\ DownloadersOK /\ RestingMeansCaughtUp

(* All that this node holds, on disk, in memory and on the way between the *)
(* two, are messages of the writer.                                        *)
TableCopies ==
  \A q \in DOMAIN db : q < written /\ db[q] = RemoteMessage(q + 1)

MemoryCopies ==
  \A i \in Instance :
    /\ Len(mem[i]) <= written
    /\ \A k \in 1..Len(mem[i]) : mem[i][k] = RemoteMessage(k)

BatchCopies ==
  \A p \in Process : stage[p] # "none" =>
    \A k \in 1..Len(batch[p]) :
      /\ batch[p][k].num < written
      /\ batch[p][k] = RemoteMessage(batch[p][k].num + 1)

CopiesInv == TableCopies /\ MemoryCopies /\ BatchCopies

(* The inductive invariant.                                                *)
ReplicaInv ==
  /\ StoreInv
  /\ ReplicaTypeOK
  /\ CopiesInv
  /\ DownloadInv

-----------------------------------------------------------------------------
(* Messages of the writer.                                                 *)

(* A message of the writer is a signed message.                            *)
LEMMA RemoteMessageType ==
  ASSUME NEW k \in 1..MaxWritten
  PROVE  RemoteMessage(k) \in Message
<1>1. k \in Nat /\ k - 1 \in Nat /\ (k # 1 => k - 1 \in 1..MaxWritten)
  BY ReplicaAssumption
<1> QED
  BY <1>1, ReplicaAssumption DEF RemoteMessage, Message

LEMMA RemoteMessageFields ==
  ASSUME NEW k
  PROVE  /\ RemoteMessage(k).sig = k
         /\ RemoteMessage(k).num = k - 1
         /\ RemoteMessage(k).prev = IF k = 1 THEN NoSig ELSE k - 1
BY DEF RemoteMessage

(* The bounds on what the counts may be.                                   *)
LEMMA WrittenType ==
  ASSUME ReplicaTypeOK
  PROVE  written \in Nat /\ written <= MaxWritten /\ MaxWritten \in Nat
BY ReplicaAssumption DEF ReplicaTypeOK

(* What a download brings continues the list in memory with messages of    *)
(* the writer, all of which are new to it.                                 *)
LEMMA DownloadedFacts ==
  ASSUME ReplicaInv, NEW p \in Process, loop[p] = "asked"
  PROVE  LET s == mem[object[p]]
             d == Downloaded(p)
         IN  /\ d \in Seq(Message)
             /\ d # << >>
             /\ Unseen(s, d) = d
             /\ Extends(s, d)
             /\ d[1].num = Len(s)
             /\ \A k \in 1..Len(d) :
                  /\ d[k].num < written
                  /\ d[k] = RemoteMessage(d[k].num + 1)
<1> DEFINE s == mem[object[p]]
           d == Downloaded(p)
<1>1. /\ object[p] \in Instance /\ s \in Seq(Message)
      /\ Len(s) = from[p] /\ from[p] < upto[p] /\ upto[p] \in 0..written
      /\ \A k \in 1..Len(s) : s[k] = RemoteMessage(k)
  BY DEF ReplicaInv, DownloadInv, LoopsOK, StoreInv, StoreTypeOK,
         ReplicaTypeOK, CopiesInv, MemoryCopies
<1>2. d = [k \in 1..(upto[p] - Len(s)) |-> RemoteMessage(Len(s) + k)]
  BY DEF Downloaded
<1> HIDE DEF s, d
<1>3. /\ written \in Nat /\ written <= MaxWritten /\ MaxWritten \in Nat
      /\ Len(s) \in Nat /\ upto[p] \in Nat /\ upto[p] <= written
      /\ Len(s) < upto[p]
  BY <1>1, WrittenType DEF ReplicaInv
<1>4. d \in Seq(Message) /\ Len(d) = upto[p] - Len(s) /\ Len(d) > 0
  <2>1. \A k \in 1..(upto[p] - Len(s)) : RemoteMessage(Len(s) + k) \in Message
    <3> TAKE k \in 1..(upto[p] - Len(s))
    <3>1. Len(s) + k \in 1..MaxWritten
      BY <1>3
    <3> QED
      BY <3>1, RemoteMessageType
  <2> QED
    BY <1>2, <1>3, <2>1
<1>5. ASSUME NEW k \in 1..Len(d)
      PROVE  /\ d[k] = RemoteMessage(Len(s) + k)
             /\ d[k].num = Len(s) + k - 1
             /\ d[k].sig = Len(s) + k
             /\ d[k].prev = IF Len(s) + k = 1 THEN NoSig ELSE Len(s) + k - 1
  <2>1. k \in 1..(upto[p] - Len(s))
    BY <1>4
  <2>2. d[k] = RemoteMessage(Len(s) + k)
    BY <1>2, <2>1
  <2> QED
    BY <2>2, RemoteMessageFields
<1>6. d[1].num = Len(s)
  <2>1. 1 \in 1..Len(d)
    BY <1>3, <1>4
  <2> QED
    BY <1>3, <1>5, <2>1
<1>7. Extends(s, d)
  <2> SUFFICES ASSUME NEW k \in 1..Len(d)
               PROVE  /\ d[k].num = Len(s) + k - 1
                      /\ d[k].prev = IF k = 1 THEN LastSig(s) ELSE d[k - 1].sig
    BY DEF Extends
  <2>1. CASE k = 1 /\ s = << >>
    <3>1. Len(s) = 0
      BY <2>1
    <3> QED
      BY <1>5, <2>1, <3>1 DEF LastSig
  <2>2. CASE k = 1 /\ s # << >>
    <3>1. Len(s) \in 1..Len(s)
      BY <1>1, <1>3, <2>2, EmptySeq
    <3>2. s[Len(s)].sig = Len(s)
      BY <1>1, <3>1, RemoteMessageFields
    <3>3. LastSig(s) = Len(s)
      BY <2>2, <3>2 DEF LastSig
    <3>4. Len(s) + k # 1 /\ Len(s) + k - 1 = Len(s)
      BY <1>3, <2>2, <3>1
    <3> QED
      BY <1>5, <2>2, <3>3, <3>4
  <2>3. CASE k # 1
    <3>1. k - 1 \in 1..Len(d) /\ Len(s) + k # 1
            /\ Len(s) + (k - 1) = Len(s) + k - 1
      BY <1>3, <1>4, <2>3
    <3>2. d[k - 1].sig = Len(s) + (k - 1)
      BY <1>5, <3>1
    <3> QED
      BY <1>5, <2>3, <3>1, <3>2
  <2> QED
    BY <2>1, <2>2, <2>3
<1>8. Unseen(s, d) = d
  BY <1>3, <1>6 DEF Unseen
<1>9. ASSUME NEW k \in 1..Len(d)
      PROVE  d[k].num < written /\ d[k] = RemoteMessage(d[k].num + 1)
  <2>1. d[k].num = Len(s) + k - 1 /\ d[k] = RemoteMessage(Len(s) + k)
    BY <1>5
  <2>2. Len(s) + k - 1 < written /\ (Len(s) + k - 1) + 1 = Len(s) + k
    BY <1>3, <1>4
  <2> QED
    BY <2>1, <2>2
<1>10. d # << >>
  BY <1>4
<1> QED
  BY <1>4, <1>6, <1>7, <1>8, <1>9, <1>10 DEF s, d

(* The append of what was downloaded passes every check of                 *)
(* appendSignedMessages.                                                   *)
LEMMA DownloadAccepted ==
  ASSUME ReplicaInv, NEW p \in Process, loop[p] = "asked"
  PROVE  /\ status[object[p]] = "ready"
         /\ stage[p] = "none"
         /\ Unseen(mem[object[p]], Downloaded(p)) # << >>
         /\ Accepts(object[p], Unseen(mem[object[p]], Downloaded(p)))
<1> DEFINE s == mem[object[p]]
           d == Downloaded(p)
<1>1. /\ object[p] \in Instance /\ s \in Seq(Message)
      /\ ~appending[object[p]] /\ status[object[p]] = "ready"
      /\ stage[p] = "none"
      /\ Len(s) <= written
      /\ \A k \in 1..Len(s) : s[k] = RemoteMessage(k)
  BY DEF ReplicaInv, DownloadInv, LoopsOK, StoreInv, StoreTypeOK,
         ReplicaTypeOK, CopiesInv, MemoryCopies
<1>2. /\ d # << >> /\ Unseen(s, d) = d /\ Extends(s, d)
      /\ d[1].num = Len(s)
  BY DownloadedFacts
<1> HIDE DEF s, d
<1>3. d[1].num = IF s = << >> THEN 0 ELSE s[Len(s)].num + 1
  <2>1. CASE s = << >>
    BY <1>2, <2>1
  <2>2. CASE s # << >>
    <3>1. Len(s) \in 1..Len(s)
      BY <1>1, <2>2, EmptySeq
    <3>2. s[Len(s)].num + 1 = Len(s)
      <4>1. s[Len(s)].num = Len(s) - 1
        BY <1>1, <3>1, RemoteMessageFields
      <4> QED
        BY <1>1, <4>1
    <3> QED
      BY <1>2, <2>2, <3>2
  <2> QED
    BY <2>1, <2>2
<1>4. Accepts(object[p], d)
  BY <1>1, <1>2, <1>3 DEF Accepts, s
<1> QED
  BY <1>1, <1>2, <1>4 DEF s, d

-----------------------------------------------------------------------------
(* Every step of the replica is a step of the store, or none.              *)
LEMMA ReplicaStepIsStoreStep ==
  ASSUME ReplicaInv, [Next]_vars
  PROVE  [StoreStep]_storeVars
<1>1. CASE Network
  BY <1>1 DEF Network, WriterAppends, Renew, HandleSubscribe, Unsubscribe,
              LoseRequest
<1>2. ASSUME NEW n \in 0..MaxWritten, ReceiveReport(n)
      PROVE  [StoreStep]_storeVars
  BY <1>2 DEF ReceiveReport, StoreStep, LifeCycle
<1>3. ASSUME NEW i \in Instance, ObjectStep(i)
      PROVE  [StoreStep]_storeVars
  BY <1>3 DEF ObjectStep, Initialize, LoadFails, KeyFails, HandleReport,
              StoreStep, LifeCycle
<1>4. ASSUME NEW p \in Process, DownloadStep(p)
      PROVE  [StoreStep]_storeVars
  <2>1. ASSUME DownloadArrives(p)
        PROVE  StoreStep
    <3>1. loop[p] = "asked" /\ StartAppend(p, object[p], Downloaded(p))
      BY <2>1 DEF DownloadArrives
    <3>2. object[p] \in Instance
      BY <3>1 DEF ReplicaInv, DownloadInv, LoopsOK
    <3>3. Downloaded(p) \in Seq(Message)
      BY <3>1, DownloadedFacts
    <3> QED
      BY <3>1, <3>2, <3>3 DEF StoreStep
  <2>2. DownloadFails(p) \/ DownloadHangs(p) => UNCHANGED storeVars
    BY DEF DownloadFails, DownloadHangs
  <2>3. WriteCommits(p) \/ WriteFails(p) \/ WriteReturns(p) => StoreStep
    BY DEF WriteCommits, WriteFails, WriteReturns, StoreStep
  <2> QED
    BY <1>4, <2>1, <2>2, <2>3 DEF DownloadStep
<1>5. CASE EvictSubfeed \/ DeleteFeed \/ Restart
  BY <1>5 DEF EvictSubfeed, DeleteFeed, Restart, StoreStep
<1> QED
  BY <1>1, <1>2, <1>3, <1>4, <1>5 DEF Next, vars


-----------------------------------------------------------------------------
(* The copies.                                                             *)

LEMMA ReplicaInitInv == Init => ReplicaInv
<1> SUFFICES ASSUME Init PROVE ReplicaInv
  OBVIOUS
<1>1. StoreInv
  BY StoreInitInv DEF Init
<1>2. ReplicaTypeOK
  <2>1. StoreTypeOK
    BY <1>1 DEF StoreInv
  <2>2. written \in 0..MaxWritten /\ losses \in 0..Losses
    BY ReplicaAssumption DEF Init
  <2>3. 0 \in 0..written /\ reports \subseteq 0..written
          /\ handling \subseteq (0..written) \X Instance
    BY DEF Init
  <2>4. /\ remoteCount \in [Instance -> 0..written]
        /\ from \in [Process -> 0..written]
        /\ upto \in [Process -> 0..written]
    BY <2>3 DEF Init
  <2>5. /\ active \in [Instance -> BOOLEAN]
        /\ gaveUp \in [Instance -> BOOLEAN]
        /\ loop \in [Process -> {"idle", "asked", "hung", "appending"}]
        /\ object \in [Process -> Instance \cup {NoInstance}]
        /\ asking \in BOOLEAN /\ subscribed \in BOOLEAN
    BY DEF Init
  <2> QED
    BY <2>1, <2>2, <2>3, <2>4, <2>5 DEF ReplicaTypeOK
<1>3. CopiesInv
  <2>1. DOMAIN db = {} /\ (\A i \in Instance : mem[i] = << >>)
          /\ (\A p \in Process : stage[p] = "none")
    BY DEF Init, StoreInit
  <2>2. written = 0 /\ Len(<< >>) = 0
    BY DEF Init
  <2> QED
    BY <2>1, <2>2 DEF CopiesInv, TableCopies, MemoryCopies, BatchCopies
<1>4. DownloadInv
  <2>1. LoopsOK /\ LoopsExclude
    BY DEF Init, StoreInit, LoopsOK, LoopsExclude
  <2>2. DownloadersOK /\ RestingMeansCaughtUp
    BY DEF Init, StoreInit, DownloadersOK, RestingMeansCaughtUp
  <2> QED
    BY <2>1, <2>2 DEF DownloadInv
<1> QED
  BY <1>1, <1>2, <1>3, <1>4 DEF ReplicaInv

(* The log of the writer only grows.                                       *)
LEMMA WrittenGrows ==
  ASSUME ReplicaInv, [Next]_vars
  PROVE  written' \in Nat /\ written' <= MaxWritten /\ written <= written'
<1>0. written \in Nat /\ written <= MaxWritten /\ MaxWritten \in Nat
  BY WrittenType DEF ReplicaInv
<1>1. CASE Network
  BY <1>0, <1>1 DEF Network, WriterAppends, Renew, HandleSubscribe,
                    Unsubscribe, LoseRequest
<1>2. CASE ~Network
  <2>1. written' = written
    <3>1. ASSUME NEW n \in 0..MaxWritten, ReceiveReport(n)
          PROVE  written' = written
      BY <3>1 DEF ReceiveReport
    <3>2. ASSUME NEW i \in Instance, ObjectStep(i)
          PROVE  written' = written
      BY <3>2 DEF ObjectStep, Initialize, LoadFails, KeyFails, HandleReport,
                  replicaVars, writerVars
    <3>3. ASSUME NEW p \in Process, DownloadStep(p)
          PROVE  written' = written
      BY <3>3 DEF DownloadStep, DownloadArrives, DownloadFails, DownloadHangs,
                  WriteCommits, WriteFails, WriteReturns, replicaVars,
                  writerVars
    <3>4. EvictSubfeed \/ DeleteFeed \/ Restart \/ UNCHANGED vars
            => written' = written
      BY DEF EvictSubfeed, DeleteFeed, Restart, vars, replicaVars, writerVars
    <3> QED
      BY <1>2, <3>1, <3>2, <3>3, <3>4 DEF Next
  <2> QED
    BY <1>0, <2>1
<1> QED
  BY <1>1, <1>2

(* A batch on its way is numbered on from the object it goes to.           *)
LEMMA BatchNumbers ==
  ASSUME ReplicaInv, NEW p \in Process, stage[p] # "none"
  PROVE  LET s == mem[target[p]]
             b == batch[p]
         IN  /\ target[p] \in Instance
             /\ s \in Seq(Message) /\ b \in Seq(Message)
             /\ Len(s) \in Nat /\ Len(b) \in Nat /\ Len(b) > 0
             /\ \A k \in 1..Len(b) :
                  /\ b[k].num = Len(s) + k - 1
                  /\ b[k] = RemoteMessage(Len(s) + k)
                  /\ Len(s) + k <= written
<1> DEFINE s == mem[target[p]]
           b == batch[p]
<1>1. /\ target[p] \in Instance /\ s \in Seq(Message) /\ b \in Seq(Message)
      /\ b # << >> /\ Extends(s, b)
  BY DEF ReplicaInv, StoreInv, StoreTypeOK, TransferOK
<1>2. \A k \in 1..Len(b) :
        b[k].num < written /\ b[k] = RemoteMessage(b[k].num + 1)
  BY DEF ReplicaInv, CopiesInv, BatchCopies
<1>3. written \in Nat
  BY WrittenType DEF ReplicaInv
<1> HIDE DEF s, b
<1>4. Len(s) \in Nat /\ Len(b) \in Nat /\ Len(b) > 0
  BY <1>1
<1>5. ASSUME NEW k \in 1..Len(b)
      PROVE  /\ b[k].num = Len(s) + k - 1
             /\ b[k] = RemoteMessage(Len(s) + k)
             /\ Len(s) + k <= written
  <2>1. b[k].num = Len(s) + k - 1
    BY <1>1 DEF Extends
  <2>2. b[k].num + 1 = Len(s) + k /\ Len(s) + k <= written
    BY <1>2, <1>3, <1>4, <2>1
  <2> QED
    BY <1>2, <2>1, <2>2
<1> QED
  BY <1>1, <1>4, <1>5 DEF s, b

LEMMA TableCopiesStep ==
  ASSUME ReplicaInv, [Next]_vars
  PROVE  TableCopies'
<1>0. /\ [StoreStep]_storeVars /\ written \in Nat /\ written' \in Nat
      /\ written <= written'
  BY ReplicaStepIsStoreStep, WrittenGrows, WrittenType DEF ReplicaInv
<1>1. TableCopies /\ StoreTypeOK
  BY DEF ReplicaInv, CopiesInv, StoreInv
<1>2. CASE db' = db
  BY <1>0, <1>1, <1>2 DEF TableCopies, StoreTypeOK
<1>3. CASE DOMAIN db' = {}
  BY <1>3 DEF TableCopies
<1>4. ASSUME NEW p \in Process, CommitAppend(p)
      PROVE  TableCopies'
  <2> DEFINE s == mem[target[p]]
             b == batch[p]
  <2>1. stage[p] = "sent" /\ db' = Insert(db, b)
    BY <1>4 DEF CommitAppend
  <2>2. /\ Len(s) \in Nat /\ Len(b) \in Nat /\ Len(b) > 0
        /\ \A k \in 1..Len(b) :
             /\ b[k].num = Len(s) + k - 1
             /\ b[k] = RemoteMessage(Len(s) + k)
             /\ Len(s) + k <= written
    BY <2>1, BatchNumbers
  <2> HIDE DEF s, b
  <2>3. b[1].num = Len(s)
    BY <2>2
  <2> SUFFICES ASSUME NEW q \in DOMAIN db'
               PROVE  q < written' /\ db'[q] = RemoteMessage(q + 1)
    BY DEF TableCopies
  <2>4. CASE q \in DOMAIN db
    <3>1. db'[q] = db[q]
      BY <2>1, <2>4 DEF Insert
    <3> QED
      BY <1>0, <1>1, <2>4, <3>1 DEF TableCopies, StoreTypeOK
  <2>5. CASE q \notin DOMAIN db
    <3>1. q \in Positions(b) /\ db'[q] = b[q - b[1].num + 1]
      BY <2>1, <2>5 DEF Insert
    <3>2. PICK k \in 1..Len(b) : q = b[k].num
      BY <3>1 DEF Positions
    <3>3. q = Len(s) + k - 1 /\ q - b[1].num + 1 = k
      BY <2>2, <2>3, <3>2
    <3>4. q + 1 = Len(s) + k /\ q < written'
      BY <1>0, <2>2, <3>2, <3>3
    <3> QED
      BY <2>2, <3>1, <3>2, <3>3, <3>4
  <2> QED
    BY <2>4, <2>5
<1>5. Cascade => db' = db \/ DOMAIN db' = {}
  BY DEF Cascade
<1>6. ASSUME NEW i \in Instance, LifeCycle(i) PROVE db' = db
  BY <1>6 DEF LifeCycle, InitializeStep, CreateInstance, ReadKey,
              ReadKeyFails, CheckExists, ReadMessages, CheckWriteable,
              FinishEmpty, InitializeFails, DropFailed, persistent
<1>7. ASSUME NEW p \in Process, NEW i \in Instance, NEW b \in Seq(Message),
             StartAppend(p, i, b)
      PROVE  db' = db
  BY <1>7 DEF StartAppend, persistent
<1>8. ASSUME NEW p \in Process, FailAppend(p) \/ FinishAppend(p)
      PROVE  db' = db
  BY <1>8 DEF FailAppend, FinishAppend, persistent
<1>9. Evict \/ DeleteKey \/ Crash \/ UNCHANGED storeVars => db' = db
  BY DEF Evict, DeleteKey, Crash, storeVars, persistent
<1>10. DeleteRows \/ (\E i \in Instance : SetAccessRules(i)) => Cascade
  BY DEF DeleteRows, SetAccessRules
<1> QED
  BY <1>0, <1>2, <1>3, <1>4, <1>5, <1>6, <1>7, <1>8, <1>9, <1>10
     DEF StoreStep

LEMMA MemoryCopiesStep ==
  ASSUME ReplicaInv, [Next]_vars
  PROVE  MemoryCopies'
<1>0. /\ [StoreStep]_storeVars /\ written \in Nat /\ written' \in Nat
      /\ written <= written'
  BY ReplicaStepIsStoreStep, WrittenGrows, WrittenType DEF ReplicaInv
<1>1. MemoryCopies /\ StoreTypeOK
  BY DEF ReplicaInv, CopiesInv, StoreInv
<1>2. ASSUME NEW i \in Instance, mem'[i] = mem[i] \/ mem'[i] = << >>
      PROVE  /\ Len(mem'[i]) <= written'
             /\ \A k \in 1..Len(mem'[i]) : mem'[i][k] = RemoteMessage(k)
  <2>1. Len(mem[i]) \in Nat /\ Len(mem[i]) <= written
    BY <1>1 DEF MemoryCopies, StoreTypeOK
  <2>2. CASE mem'[i] = << >>
    BY <1>0, <2>2
  <2>3. CASE mem'[i] = mem[i]
    BY <1>0, <1>1, <2>1, <2>3 DEF MemoryCopies
  <2> QED
    BY <1>2, <2>2, <2>3
<1>3. CASE \A i \in Instance : mem'[i] = mem[i] \/ mem'[i] = << >>
  BY <1>2, <1>3 DEF MemoryCopies
<1>4. ASSUME NEW i \in Instance, ReadMessages(i)
      PROVE  MemoryCopies'
  <2> DEFINE n == Cardinality(DOMAIN db)
             s == [k \in 1..n |-> db[k - 1]]
  <2>1. ReadableTable(db) /\ mem' = [mem EXCEPT ![i] = s]
    BY <1>4 DEF ReadMessages
  <2>2. n \in Nat /\ \A k \in 1..n : (k - 1) \in DOMAIN db
    BY <1>1, <2>1, GapFreeDomain DEF StoreTypeOK, ReadableTable
  <2>3. mem'[i] = s /\ \A j \in Instance \ {i} : mem'[j] = mem[j]
    BY <1>1, <2>1 DEF StoreTypeOK
  <2>4. Len(s) = n /\ \A k \in 1..n : s[k] = db[k - 1]
    BY <2>2
  <2> HIDE DEF n, s
  <2>5. ASSUME NEW k \in 1..n
        PROVE  s[k] = RemoteMessage(k) /\ k <= written
    <3>1. (k - 1) \in DOMAIN db /\ (k - 1) + 1 = k
      BY <2>2
    <3>2. k - 1 < written /\ db[k - 1] = RemoteMessage((k - 1) + 1)
      BY <3>1 DEF ReplicaInv, CopiesInv, TableCopies
    <3> QED
      BY <1>0, <2>2, <2>4, <3>1, <3>2
  <2>6. n <= written'
    <3>1. CASE n = 0
      BY <1>0, <3>1
    <3>2. CASE n # 0
      <4>1. n \in 1..n
        BY <2>2, <3>2
      <4> QED
        BY <1>0, <2>2, <2>5, <4>1
    <3> QED
      BY <3>1, <3>2
  <2> QED
    BY <1>2, <2>3, <2>4, <2>5, <2>6 DEF MemoryCopies
<1>5. ASSUME NEW p \in Process, FinishAppend(p)
      PROVE  MemoryCopies'
  <2> DEFINE i == target[p]
             s == mem[i]
             b == batch[p]
  <2>1. stage[p] = "stored" /\ mem' = [mem EXCEPT ![i] = s \o b]
    BY <1>5 DEF FinishAppend
  <2>2. /\ i \in Instance /\ s \in Seq(Message) /\ b \in Seq(Message)
        /\ Len(s) \in Nat /\ Len(b) \in Nat /\ Len(b) > 0
        /\ \A k \in 1..Len(b) :
             b[k] = RemoteMessage(Len(s) + k) /\ Len(s) + k <= written
    BY <2>1, BatchNumbers
  <2>3. mem'[i] = s \o b /\ \A j \in Instance \ {i} : mem'[j] = mem[j]
    BY <1>1, <2>1, <2>2 DEF StoreTypeOK
  <2>4. \A k \in 1..Len(s) : s[k] = RemoteMessage(k)
    BY <1>1, <2>2 DEF MemoryCopies
  <2> HIDE DEF i, s, b
  <2>5. Len(s \o b) = Len(s) + Len(b) /\ Len(s \o b) <= written'
    BY <1>0, <2>2
  <2>6. ASSUME NEW k \in 1..Len(s \o b)
        PROVE  (s \o b)[k] = RemoteMessage(k)
    <3>1. CASE k <= Len(s)
      <4>1. (s \o b)[k] = s[k] /\ k \in 1..Len(s)
        BY <2>2, <2>5, <3>1
      <4> QED
        BY <2>4, <4>1
    <3>2. CASE k > Len(s)
      <4>1. /\ (s \o b)[k] = b[k - Len(s)]
            /\ k - Len(s) \in 1..Len(b)
            /\ Len(s) + (k - Len(s)) = k
        BY <2>2, <2>5, <3>2
      <4> QED
        BY <2>2, <4>1
    <3> QED
      BY <2>2, <3>1, <3>2
  <2> QED
    BY <1>2, <2>3, <2>5, <2>6 DEF MemoryCopies
<1>6. ASSUME NEW i \in Instance, LifeCycle(i), ~ReadMessages(i)
      PROVE  \A j \in Instance : mem'[j] = mem[j] \/ mem'[j] = << >>
  BY <1>1, <1>6 DEF LifeCycle, InitializeStep, CreateInstance, ReadKey,
              ReadKeyFails, CheckExists, CheckWriteable, FinishEmpty,
              InitializeFails, DropFailed, StoreTypeOK
<1>7. ASSUME NEW p \in Process, NEW i \in Instance, NEW b \in Seq(Message),
             StartAppend(p, i, b)
      PROVE  mem' = mem
  BY <1>7 DEF StartAppend
<1>8. ASSUME NEW p \in Process, CommitAppend(p) \/ FailAppend(p)
      PROVE  mem' = mem
  BY <1>8 DEF CommitAppend, FailAppend, objects
<1>9. Evict \/ DeleteRows \/ DeleteKey \/ UNCHANGED storeVars
        \/ (\E i \in Instance : SetAccessRules(i)) => mem' = mem
  BY DEF Evict, DeleteRows, DeleteKey, SetAccessRules, storeVars, objects
<1>10. Crash => \A j \in Instance : mem'[j] = << >>
  BY DEF Crash
<1> QED
  BY <1>0, <1>3, <1>4, <1>5, <1>6, <1>7, <1>8, <1>9, <1>10 DEF StoreStep

LEMMA BatchCopiesStep ==
  ASSUME ReplicaInv, [Next]_vars
  PROVE  BatchCopies'
<1>0. /\ [StoreStep]_storeVars /\ written \in Nat /\ written' \in Nat
      /\ written <= written'
  BY ReplicaStepIsStoreStep, WrittenGrows, WrittenType DEF ReplicaInv
<1>1. StoreTypeOK /\ StoreTypeOK'
  BY <1>0, StoreStepInv DEF ReplicaInv, StoreInv
<1>2. ASSUME \A q \in Process : stage'[q] # "none" =>
               /\ batch'[q] \in Seq(Message)
               /\ \A k \in 1..Len(batch'[q]) :
                    /\ batch'[q][k].num < written
                    /\ batch'[q][k] = RemoteMessage(batch'[q][k].num + 1)
      PROVE  BatchCopies'
  <2> SUFFICES ASSUME NEW q \in Process, stage'[q] # "none",
                      NEW k \in 1..Len(batch'[q])
               PROVE  /\ batch'[q][k].num < written'
                      /\ batch'[q][k] = RemoteMessage(batch'[q][k].num + 1)
    BY DEF BatchCopies
  <2>1. batch'[q][k] \in Message /\ batch'[q][k].num < written
    BY <1>2
  <2>2. batch'[q][k].num \in Nat
    BY <2>1 DEF Message
  <2> QED
    BY <1>0, <1>2, <2>1, <2>2
<1>3. ASSUME NEW q \in Process, stage'[q] # "none", stage[q] # "none",
             batch'[q] = batch[q]
      PROVE  /\ batch'[q] \in Seq(Message)
             /\ \A k \in 1..Len(batch'[q]) :
                  /\ batch'[q][k].num < written
                  /\ batch'[q][k] = RemoteMessage(batch'[q][k].num + 1)
  BY <1>1, <1>3 DEF ReplicaInv, CopiesInv, BatchCopies, StoreTypeOK
<1>4. CASE \A q \in Process : stage'[q] # "none" =>
             stage[q] # "none" /\ batch'[q] = batch[q]
  BY <1>2, <1>3, <1>4
<1>5. ASSUME NEW p \in Process, DownloadArrives(p)
      PROVE  BatchCopies'
  <2>1. loop[p] = "asked" /\ StartAppend(p, object[p], Downloaded(p))
    BY <1>5 DEF DownloadArrives
  <2>2. /\ Downloaded(p) \in Seq(Message)
        /\ Unseen(mem[object[p]], Downloaded(p)) = Downloaded(p)
        /\ \A k \in 1..Len(Downloaded(p)) :
             /\ Downloaded(p)[k].num < written
             /\ Downloaded(p)[k] = RemoteMessage(Downloaded(p)[k].num + 1)
    BY <2>1, DownloadedFacts
  <2>3. /\ stage' = [stage EXCEPT ![p] = "sent"]
        /\ batch' = [batch EXCEPT ![p] = Downloaded(p)]
    BY <2>1, <2>2 DEF StartAppend
  <2>4. batch'[p] = Downloaded(p)
    BY <1>1, <2>3 DEF StoreTypeOK
  <2>5. \A q \in Process \ {p} : stage'[q] = stage[q] /\ batch'[q] = batch[q]
    BY <1>1, <2>3 DEF StoreTypeOK
  <2> QED
    BY <1>2, <1>3, <2>2, <2>4, <2>5
<1>6. ASSUME NEW p \in Process,
             CommitAppend(p) \/ FailAppend(p) \/ FinishAppend(p)
      PROVE  \A q \in Process : stage'[q] # "none" =>
               stage[q] # "none" /\ batch'[q] = batch[q]
  BY <1>1, <1>6 DEF CommitAppend, FailAppend, FinishAppend, EndTransfer,
                    StoreTypeOK
<1>7. ASSUME Crash
      PROVE  \A q \in Process : stage'[q] # "none" =>
               stage[q] # "none" /\ batch'[q] = batch[q]
  BY <1>7 DEF Crash
<1>8. CASE UNCHANGED transfers
  BY <1>4, <1>8 DEF transfers
<1>9. CASE Network \/ \E n \in 0..MaxWritten : ReceiveReport(n)
  <2>1. UNCHANGED transfers
    BY <1>9 DEF Network, WriterAppends, Renew, HandleSubscribe, Unsubscribe,
                LoseRequest, ReceiveReport, CreateInstance, storeVars,
                transfers
  <2> QED
    BY <1>8, <2>1
<1>10. ASSUME NEW i \in Instance, ObjectStep(i)
       PROVE  UNCHANGED transfers
  BY <1>10 DEF ObjectStep, Initialize, LoadFails, KeyFails, HandleReport,
               InitializeStep, ReadKey, ReadKeyFails, CheckExists,
               ReadMessages, CheckWriteable, FinishEmpty, InitializeFails,
               DropFailed, storeVars, transfers
<1>11. ASSUME NEW p \in Process, DownloadStep(p)
       PROVE  BatchCopies'
  <2>1. DownloadFails(p) \/ DownloadHangs(p) => UNCHANGED transfers
    BY DEF DownloadFails, DownloadHangs, storeVars
  <2>2. WriteCommits(p) \/ WriteFails(p) \/ WriteReturns(p)
          => CommitAppend(p) \/ FailAppend(p) \/ FinishAppend(p)
    BY DEF WriteCommits, WriteFails, WriteReturns
  <2> QED
    BY <1>4, <1>5, <1>6, <1>8, <1>11, <2>1, <2>2 DEF DownloadStep
<1>12. EvictSubfeed \/ DeleteFeed \/ UNCHANGED vars => UNCHANGED transfers
  BY DEF EvictSubfeed, DeleteFeed, Evict, DeleteRows, DeleteKey, vars,
         storeVars
<1>13. Restart => Crash
  BY DEF Restart
<1> QED
  BY <1>4, <1>7, <1>8, <1>9, <1>10, <1>11, <1>12, <1>13 DEF Next

LEMMA CopiesStep ==
  ASSUME ReplicaInv, [Next]_vars
  PROVE  CopiesInv'
BY TableCopiesStep, MemoryCopiesStep, BatchCopiesStep DEF CopiesInv

-----------------------------------------------------------------------------
(* The types.                                                              *)

(* What the top of the loop writes has its type.                           *)
LEMMA TopType ==
  ASSUME ReplicaTypeOK, NEW p \in Process, NEW i \in Instance,
         NEW n \in 0..written, NEW count \in 0..written, Top(p, i, n, count)
  PROVE  /\ loop' \in [Process -> {"idle", "asked", "hung", "appending"}]
         /\ object' \in [Process -> Instance \cup {NoInstance}]
         /\ from' \in [Process -> 0..written]
         /\ upto' \in [Process -> 0..written]
         /\ active' \in [Instance -> BOOLEAN]
<1>1. written \in Nat /\ 0 \in 0..written
  BY WrittenType
<1>2. (n < count) \in BOOLEAN
  OBVIOUS
<1>3. active' \in [Instance -> BOOLEAN]
  BY <1>2 DEF Top, ReplicaTypeOK
<1>4. /\ loop' \in [Process -> {"idle", "asked", "hung", "appending"}]
      /\ object' \in [Process -> Instance \cup {NoInstance}]
  BY DEF Top, ReplicaTypeOK
<1>5. /\ from' \in [Process -> 0..written]
      /\ upto' \in [Process -> 0..written]
  BY <1>1 DEF Top, ReplicaTypeOK
<1> QED
  BY <1>3, <1>4, <1>5

LEMMA LeaveType ==
  ASSUME ReplicaTypeOK, NEW p \in Process, Leave(p)
  PROVE  /\ loop' \in [Process -> {"idle", "asked", "hung", "appending"}]
         /\ object' \in [Process -> Instance \cup {NoInstance}]
         /\ from' \in [Process -> 0..written]
         /\ upto' \in [Process -> 0..written]
<1>1. written \in Nat /\ 0 \in 0..written
  BY WrittenType
<1> QED
  BY <1>1 DEF Leave, ReplicaTypeOK

LEMMA ReplicaTypeStep ==
  ASSUME ReplicaInv, [Next]_vars
  PROVE  ReplicaTypeOK'
<1>0. StoreTypeOK /\ ReplicaTypeOK
  BY DEF ReplicaInv, StoreInv
<1>1. StoreTypeOK'
  BY ReplicaStepIsStoreStep, StoreStepInv DEF ReplicaInv, StoreInv
<1>2. written \in Nat /\ written <= MaxWritten /\ MaxWritten \in Nat
  BY <1>0, WrittenType
<1>3. losses \in Nat /\ losses <= Losses /\ Losses \in Nat
  BY <1>0, ReplicaAssumption DEF ReplicaTypeOK
<1>4. \A i \in Instance : Len(mem[i]) \in 0..written
  BY <1>0, <1>2 DEF ReplicaInv, CopiesInv, MemoryCopies, StoreTypeOK
<1>5. CASE WriterAppends
  <2>1. /\ written' = written + 1 /\ written' \in 0..MaxWritten
        /\ 0..written \subseteq 0..written' /\ written + 1 \in 0..written'
    BY <1>2, <1>5 DEF WriterAppends
  <2>2. reports' \subseteq 0..written'
    BY <1>0, <1>5, <2>1 DEF WriterAppends, ReplicaTypeOK
  <2>3. UNCHANGED <<asking, subscribed, handling, downloadVars, losses>>
    BY <1>5 DEF WriterAppends
  <2>4. handling' \subseteq (0..written') \X Instance
    BY <1>0, <2>1, <2>3 DEF ReplicaTypeOK
  <2>5. /\ remoteCount' \in [Instance -> 0..written']
        /\ from' \in [Process -> 0..written']
        /\ upto' \in [Process -> 0..written']
    <3>1. 0..written \subseteq 0..written'
      BY <2>1
    <3> QED
      BY <1>0, <2>3, <3>1 DEF ReplicaTypeOK, downloadVars
  <2> QED
    BY <1>0, <1>1, <2>1, <2>2, <2>3, <2>4, <2>5
       DEF ReplicaTypeOK, downloadVars
<1>6. CASE Renew \/ HandleSubscribe \/ Unsubscribe
  <2>1. written \in 0..written
    BY <1>2
  <2> QED
    BY <1>0, <1>1, <1>6, <2>1 DEF Renew, HandleSubscribe, Unsubscribe,
       downloadVars, ReplicaTypeOK
<1>7. CASE LoseRequest
  <2>1. losses' \in 0..Losses
    BY <1>3, <1>7 DEF LoseRequest, Lose
  <2> QED
    BY <1>0, <1>1, <1>7, <2>1 DEF LoseRequest, downloadVars, ReplicaTypeOK
<1>8. ASSUME NEW n \in 0..MaxWritten, ReceiveReport(n)
      PROVE  ReplicaTypeOK'
  <2>1. n \in 0..written /\ reports' \subseteq reports
    BY <1>0, <1>8 DEF ReceiveReport, ReplicaTypeOK
  <2>2. /\ UNCHANGED <<written, asking, subscribed, losses>>
        /\ UNCHANGED downloadVars
    BY <1>8 DEF ReceiveReport
  <2>3. PICK i \in Instance : handling' = handling \cup {<<n, i>>}
    BY <1>0, <1>8 DEF ReceiveReport, StoreTypeOK
  <2>4. handling' \subseteq (0..written) \X Instance
    BY <1>0, <2>1, <2>3 DEF ReplicaTypeOK
  <2> QED
    BY <1>0, <1>1, <2>1, <2>2, <2>4 DEF ReplicaTypeOK, downloadVars
<1>9. ASSUME NEW i \in Instance, Initialize(i) \/ LoadFails(i) \/ KeyFails(i)
      PROVE  ReplicaTypeOK'
  <2>1. handling' \subseteq handling
    BY <1>9 DEF Initialize, LoadFails, KeyFails, replicaVars
  <2>2. UNCHANGED <<writerVars, downloadVars, losses>>
    BY <1>9 DEF Initialize, LoadFails, KeyFails, replicaVars
  <2> QED
    BY <1>0, <1>1, <2>1, <2>2 DEF ReplicaTypeOK, writerVars, downloadVars
<1>10. ASSUME NEW i \in Instance, NEW n \in 0..MaxWritten, HandleReport(n, i)
       PROVE  ReplicaTypeOK'
  <2>1. n \in 0..written /\ handling' \subseteq handling
    BY <1>0, <1>10 DEF HandleReport, ReplicaTypeOK
  <2>2. remoteCount' \in [Instance -> 0..written]
    BY <1>0, <1>10, <2>1 DEF HandleReport, ReplicaTypeOK
  <2>3. UNCHANGED <<writerVars, losses>>
    BY <1>10 DEF HandleReport
  <2>4. CASE Len(mem[i]) < n /\ ~active[i]
    <3>1. PICK p \in Process : Top(p, i, Len(mem[i]), n)
      BY <1>10, <2>4 DEF HandleReport
    <3>2. /\ loop' \in [Process -> {"idle", "asked", "hung", "appending"}]
          /\ object' \in [Process -> Instance \cup {NoInstance}]
          /\ from' \in [Process -> 0..written]
          /\ upto' \in [Process -> 0..written]
          /\ active' \in [Instance -> BOOLEAN]
      BY <1>0, <1>4, <2>1, <3>1, TopType
    <3>3. gaveUp' \in [Instance -> BOOLEAN]
      BY <1>0, <1>10, <2>4 DEF HandleReport, ReplicaTypeOK
    <3> QED
      BY <1>0, <1>1, <2>1, <2>2, <2>3, <3>2, <3>3
         DEF ReplicaTypeOK, writerVars
  <2>5. CASE ~(Len(mem[i]) < n /\ ~active[i])
    <3>1. UNCHANGED <<active, gaveUp, loop, object, from, upto>>
      BY <1>10, <2>5 DEF HandleReport
    <3> QED
      BY <1>0, <1>1, <2>1, <2>2, <2>3, <3>1 DEF ReplicaTypeOK, writerVars
  <2> QED
    BY <2>4, <2>5
<1>11. ASSUME NEW p \in Process, DownloadArrives(p)
       PROVE  ReplicaTypeOK'
  BY <1>0, <1>1, <1>11 DEF DownloadArrives, writerVars, ReplicaTypeOK
<1>12. ASSUME NEW p \in Process, DownloadFails(p)
       PROVE  ReplicaTypeOK'
  <2>1. losses' \in 0..Losses
    BY <1>3, <1>12 DEF DownloadFails, Lose
  <2>2. /\ loop' \in [Process -> {"idle", "asked", "hung", "appending"}]
        /\ object' \in [Process -> Instance \cup {NoInstance}]
        /\ from' \in [Process -> 0..written]
        /\ upto' \in [Process -> 0..written]
    BY <1>0, <1>12, LeaveType DEF DownloadFails
  <2>3. active' \in [Instance -> BOOLEAN] /\ gaveUp' \in [Instance -> BOOLEAN]
    BY <1>0, <1>12 DEF DownloadFails, ReplicaTypeOK
  <2>4. UNCHANGED <<writerVars, handling, remoteCount>>
    BY <1>12 DEF DownloadFails
  <2> QED
    BY <1>0, <1>1, <2>1, <2>2, <2>3, <2>4 DEF ReplicaTypeOK, writerVars
<1>13. ASSUME NEW p \in Process, WriteFails(p)
       PROVE  ReplicaTypeOK'
  <2>1. /\ loop' \in [Process -> {"idle", "asked", "hung", "appending"}]
        /\ object' \in [Process -> Instance \cup {NoInstance}]
        /\ from' \in [Process -> 0..written]
        /\ upto' \in [Process -> 0..written]
    BY <1>0, <1>13, LeaveType DEF WriteFails
  <2>2. gaveUp' \in [Instance -> BOOLEAN]
    BY <1>0, <1>13 DEF WriteFails, ReplicaTypeOK
  <2>3. UNCHANGED <<writerVars, handling, remoteCount, active, losses>>
    BY <1>13 DEF WriteFails
  <2> QED
    BY <1>0, <1>1, <2>1, <2>2, <2>3 DEF ReplicaTypeOK, writerVars
<1>14. ASSUME NEW p \in Process, WriteReturns(p)
       PROVE  ReplicaTypeOK'
  <2> DEFINE n == Len(mem[object[p]]) + Len(batch[p])
             count == remoteCount[object[p]]
  <2>1. stage[p] = "stored" /\ Top(p, object[p], n, count)
    BY <1>14 DEF WriteReturns, FinishAppend
  <2>2. loop[p] = "appending" /\ target[p] = object[p]
    BY <2>1 DEF ReplicaInv, DownloadInv, LoopsOK
  <2>3. /\ target[p] \in Instance
        /\ Len(mem[target[p]]) \in Nat /\ Len(batch[p]) \in Nat
        /\ Len(batch[p]) > 0
        /\ \A k \in 1..Len(batch[p]) : Len(mem[target[p]]) + k <= written
    BY <2>1, BatchNumbers
  <2>4. n \in 0..written /\ object[p] \in Instance
    <3>1. Len(batch[p]) \in 1..Len(batch[p])
      BY <2>3
    <3>2. Len(mem[target[p]]) + Len(batch[p]) <= written
      BY <2>3, <3>1
    <3>3. n = Len(mem[target[p]]) + Len(batch[p])
      BY <2>2
    <3>4. object[p] \in Instance
      BY <2>2, <2>3
    <3>5. \A x, y \in Nat : x + y <= written => x + y \in 0..written
      BY <1>2
    <3>6. n \in 0..written
      <4> HIDE DEF n
      <4> QED
        BY <2>3, <3>2, <3>3, <3>5
    <3> QED
      BY <3>4, <3>6
  <2>5. count \in 0..written
    BY <1>0, <2>4 DEF ReplicaTypeOK
  <2> HIDE DEF n, count
  <2>6. /\ loop' \in [Process -> {"idle", "asked", "hung", "appending"}]
        /\ object' \in [Process -> Instance \cup {NoInstance}]
        /\ from' \in [Process -> 0..written]
        /\ upto' \in [Process -> 0..written]
        /\ active' \in [Instance -> BOOLEAN]
    BY <1>0, <2>1, <2>4, <2>5, TopType
  <2>7. UNCHANGED <<writerVars, handling, remoteCount, gaveUp, losses>>
    BY <1>14 DEF WriteReturns
  <2> QED
    BY <1>0, <1>1, <2>6, <2>7 DEF ReplicaTypeOK, writerVars
<1>15. CASE Restart
  <2>1. 0 \in 0..written
    BY <1>2
  <2>2. /\ remoteCount' \in [Instance -> 0..written]
        /\ from' \in [Process -> 0..written]
        /\ upto' \in [Process -> 0..written]
    BY <1>15, <2>1 DEF Restart
  <2>3. /\ active' \in [Instance -> BOOLEAN]
        /\ gaveUp' \in [Instance -> BOOLEAN]
        /\ loop' \in [Process -> {"idle", "asked", "hung", "appending"}]
        /\ object' \in [Process -> Instance \cup {NoInstance}]
        /\ handling' = {}
        /\ UNCHANGED <<writerVars, losses>>
    BY <1>15 DEF Restart
  <2> QED
    BY <1>0, <1>1, <2>2, <2>3 DEF ReplicaTypeOK, writerVars
<1>16. CASE EvictSubfeed \/ DeleteFeed \/ UNCHANGED vars
              \/ \E p \in Process : WriteCommits(p)
  <2>1. UNCHANGED replicaVars
    BY <1>16 DEF EvictSubfeed, DeleteFeed, WriteCommits, vars
  <2> QED
    BY <1>0, <1>1, <2>1 DEF ReplicaTypeOK, replicaVars, writerVars,
                            downloadVars
<1>17. ASSUME NEW p \in Process, DownloadHangs(p)
       PROVE  ReplicaTypeOK'
  <2>1. losses' \in 0..Losses
    BY <1>3, <1>17 DEF DownloadHangs, Lose
  <2>2. loop' \in [Process -> {"idle", "asked", "hung", "appending"}]
    BY <1>0, <1>17 DEF DownloadHangs, ReplicaTypeOK
  <2>3. UNCHANGED <<writerVars, handling, remoteCount, active, gaveUp, object,
                    from, upto>>
    BY <1>17 DEF DownloadHangs
  <2> QED
    BY <1>0, <1>1, <2>1, <2>2, <2>3 DEF ReplicaTypeOK, writerVars
<1> QED
  BY <1>5, <1>6, <1>7, <1>8, <1>9, <1>10, <1>11, <1>12, <1>13, <1>14, <1>15,
     <1>16, <1>17 DEF Next, Network, ObjectStep, DownloadStep

-----------------------------------------------------------------------------
(* The loops and the downloaders.                                          *)

(* Steps that leave the downloaders and their loops alone, and the         *)
(* initialised objects too: they may only add another one.                 *)
LEMMA QuietDownload ==
  ASSUME ReplicaInv, StoreTypeOK', UNCHANGED downloadVars,
         target' = target, appending' = appending,
         \A q \in Process : stage'[q] = "none" <=> stage[q] = "none",
         \A i \in Instance : status[i] = "ready" =>
           status'[i] = "ready" /\ mem'[i] = mem[i]
  PROVE  DownloadInv'
<1>0. /\ LoopsOK /\ LoopsExclude /\ DownloadersOK /\ RestingMeansCaughtUp
      /\ UNCHANGED <<remoteCount, active, gaveUp, loop, object, from, upto>>
  BY DEF ReplicaInv, DownloadInv, downloadVars
<1>1. LoopsOK'
  BY <1>0 DEF LoopsOK
<1>2. LoopsExclude'
  BY <1>0 DEF LoopsExclude
<1>3. DownloadersOK'
  BY <1>0 DEF DownloadersOK
<1>4. RestingMeansCaughtUp'
  <2> SUFFICES ASSUME NEW i \in Instance,
                      status'[i] = "ready" /\ ~active[i] /\ ~gaveUp[i]
               PROVE  Len(mem'[i]) >= remoteCount[i]
    BY <1>0 DEF RestingMeansCaughtUp
  <2>1. CASE status[i] = "ready"
    BY <1>0, <2>1 DEF RestingMeansCaughtUp
  <2>2. CASE status[i] # "ready"
    <3>1. remoteCount[i] = 0 /\ Len(mem'[i]) \in Nat
      BY <1>0, <2>2 DEF DownloadersOK, StoreTypeOK
    <3> QED
      BY <3>1
  <2> QED
    BY <2>1, <2>2
<1> QED
  BY <1>1, <1>2, <1>3, <1>4 DEF DownloadInv

(* A report is handled: a loop is started if one is needed and none runs.  *)
LEMMA HandleReportDownload ==
  ASSUME ReplicaInv, NEW i \in Instance, NEW n \in 0..MaxWritten,
         HandleReport(n, i)
  PROVE  DownloadInv'
<1>0. LoopsOK /\ LoopsExclude /\ DownloadersOK /\ RestingMeansCaughtUp
        /\ ReplicaTypeOK /\ StoreTypeOK
  BY DEF ReplicaInv, DownloadInv, StoreInv
<1>1. /\ status[i] = "ready"
      /\ remoteCount' = [remoteCount EXCEPT ![i] = n]
      /\ UNCHANGED <<status, mem, appending, stage, target>>
  BY DEF HandleReport, storeVars, objects, transfers
<1>2. /\ remoteCount'[i] = n
      /\ \A j \in Instance \ {i} : remoteCount'[j] = remoteCount[j]
      /\ Len(mem[i]) \in Nat /\ n \in Nat
  BY <1>0, <1>1, WrittenType DEF ReplicaTypeOK, StoreTypeOK
<1>3. DownloadersOK' <=>
        \A j \in Instance :
          /\ active'[j] => status[j] = "ready"
          /\ appending[j] => active'[j]
          /\ status[j] # "ready" => remoteCount'[j] = 0
  BY <1>1 DEF DownloadersOK
<1>4. CASE Len(mem[i]) < n /\ ~active[i]
  <2>1. PICK p \in Process : loop[p] = "idle" /\ Top(p, i, Len(mem[i]), n)
    BY <1>4 DEF HandleReport
  <2>2. /\ loop' = [loop EXCEPT ![p] = "asked"]
        /\ object' = [object EXCEPT ![p] = i]
        /\ from' = [from EXCEPT ![p] = Len(mem[i])]
        /\ upto' = [upto EXCEPT ![p] = n]
        /\ active' = [active EXCEPT ![i] = TRUE]
    BY <1>4, <2>1 DEF Top
  <2>3. /\ loop'[p] = "asked" /\ object'[p] = i
        /\ from'[p] = Len(mem[i]) /\ upto'[p] = n
        /\ \A q \in Process \ {p} :
             /\ loop'[q] = loop[q] /\ object'[q] = object[q]
             /\ from'[q] = from[q] /\ upto'[q] = upto[q]
    BY <1>0, <2>2 DEF ReplicaTypeOK
  <2>4. active'[i] /\ \A j \in Instance \ {i} : active'[j] = active[j]
    BY <1>0, <2>2 DEF ReplicaTypeOK
  <2>5. ~appending[i] /\ stage[p] = "none"
    BY <1>0, <1>4, <2>1 DEF DownloadersOK, LoopsOK
  <2>6. \A q \in Process : loop[q] # "idle" => object[q] # i
    BY <1>0, <1>4 DEF LoopsOK
  <2>7. LoopsOK'
    <3> SUFFICES ASSUME NEW q \in Process
                 PROVE  /\ loop'[q] = "appending" <=> stage[q] # "none"
                        /\ loop'[q] # "idle" =>
                             /\ object'[q] \in Instance
                             /\ status[object'[q]] = "ready"
                             /\ active'[object'[q]]
                        /\ loop'[q] = "appending" => target[q] = object'[q]
                        /\ loop'[q] = "asked" =>
                             /\ Len(mem[object'[q]]) = from'[q]
                             /\ from'[q] < upto'[q]
                             /\ ~appending[object'[q]]
      BY <1>1 DEF LoopsOK
    <3>1. CASE q = p
      BY <1>1, <1>4, <2>3, <2>4, <2>5, <3>1
    <3>2. CASE q # p
      BY <1>0, <2>3, <2>4, <2>6, <3>2 DEF LoopsOK
    <3> QED
      BY <3>1, <3>2
  <2>8. LoopsExclude'
    BY <1>0, <2>3, <2>6 DEF LoopsExclude
  <2>9. DownloadersOK'
    BY <1>0, <1>1, <1>2, <1>3, <2>4 DEF DownloadersOK
  <2>10. RestingMeansCaughtUp'
    <3>1. gaveUp' = [gaveUp EXCEPT ![i] = FALSE]
      BY <1>4 DEF HandleReport
    <3>2. \A j \in Instance \ {i} : gaveUp'[j] = gaveUp[j]
      BY <1>0, <3>1 DEF ReplicaTypeOK
    <3> QED
      BY <1>0, <1>1, <1>2, <2>4, <3>2 DEF RestingMeansCaughtUp
  <2> QED
    BY <2>7, <2>8, <2>9, <2>10 DEF DownloadInv
<1>5. CASE ~(Len(mem[i]) < n /\ ~active[i])
  <2>1. UNCHANGED <<active, gaveUp, loop, object, from, upto>>
    BY <1>5 DEF HandleReport
  <2>2. LoopsOK' /\ LoopsExclude'
    BY <1>0, <1>1, <2>1 DEF LoopsOK, LoopsExclude
  <2>3. DownloadersOK'
    BY <1>0, <1>1, <1>2, <1>3, <2>1 DEF DownloadersOK
  <2>4. RestingMeansCaughtUp'
    BY <1>0, <1>1, <1>2, <1>5, <2>1 DEF RestingMeansCaughtUp
  <2> QED
    BY <2>2, <2>3, <2>4 DEF DownloadInv
<1> QED
  BY <1>4, <1>5

(* What a loop in progress says of the other loops.                        *)
LEMMA OtherLoops ==
  ASSUME ReplicaInv, NEW p \in Process, loop[p] # "idle"
  PROVE  /\ object[p] \in Instance
         /\ status[object[p]] = "ready"
         /\ active[object[p]]
         /\ \A q \in Process \ {p} :
              loop[q] # "idle" => object[q] # object[p]
BY DEF ReplicaInv, DownloadInv, LoopsOK, LoopsExclude

LEMMA DownloadArrivesDownload ==
  ASSUME ReplicaInv, NEW p \in Process, DownloadArrives(p)
  PROVE  DownloadInv'
<1> DEFINE o == object[p]
<1>0. LoopsOK /\ LoopsExclude /\ DownloadersOK /\ RestingMeansCaughtUp
        /\ ReplicaTypeOK /\ StoreTypeOK
  BY DEF ReplicaInv, DownloadInv, StoreInv
<1>1. /\ loop[p] = "asked"
      /\ loop' = [loop EXCEPT ![p] = "appending"]
      /\ appending' = [appending EXCEPT ![o] = TRUE]
      /\ stage' = [stage EXCEPT ![p] = "sent"]
      /\ target' = [target EXCEPT ![p] = o]
      /\ UNCHANGED <<status, mem, remoteCount, active, gaveUp, object, from,
                     upto>>
  BY DEF DownloadArrives, StartAppend
<1>2. /\ o \in Instance /\ status[o] = "ready" /\ active[o]
      /\ \A q \in Process \ {p} : loop[q] # "idle" => object[q] # o
  BY <1>1, OtherLoops
<1> HIDE DEF o
<1>3. /\ loop'[p] = "appending" /\ stage'[p] = "sent" /\ target'[p] = o
      /\ \A q \in Process \ {p} :
           /\ loop'[q] = loop[q] /\ stage'[q] = stage[q]
           /\ target'[q] = target[q]
  BY <1>0, <1>1 DEF ReplicaTypeOK, StoreTypeOK
<1>4. \A j \in Instance \ {o} : appending'[j] = appending[j]
  BY <1>0, <1>1 DEF StoreTypeOK
<1>5. LoopsOK'
  <2> SUFFICES ASSUME NEW q \in Process
               PROVE  /\ loop'[q] = "appending" <=> stage'[q] # "none"
                      /\ loop'[q] # "idle" =>
                           /\ object[q] \in Instance
                           /\ status[object[q]] = "ready"
                           /\ active[object[q]]
                      /\ loop'[q] = "appending" => target'[q] = object[q]
                      /\ loop'[q] = "asked" =>
                           /\ Len(mem[object[q]]) = from[q]
                           /\ from[q] < upto[q]
                           /\ ~appending'[object[q]]
    BY <1>1 DEF LoopsOK
  <2>1. CASE q = p
    BY <1>2, <1>3, <2>1 DEF o
  <2>2. CASE q # p
    BY <1>0, <1>2, <1>3, <1>4, <2>2 DEF LoopsOK
  <2> QED
    BY <2>1, <2>2
<1>6. LoopsExclude'
  BY <1>0, <1>1, <1>2, <1>3 DEF LoopsExclude, o
<1>7. DownloadersOK' /\ RestingMeansCaughtUp'
  BY <1>0, <1>1, <1>2, <1>4 DEF DownloadersOK, RestingMeansCaughtUp
<1> QED
  BY <1>5, <1>6, <1>7 DEF DownloadInv

(* A loop that ends in an error.                                           *)
LEMMA LoopEndsDownload ==
  ASSUME ReplicaInv, NEW p \in Process, loop[p] # "idle", Leave(p),
         gaveUp' = [gaveUp EXCEPT ![object[p]] = TRUE],
         UNCHANGED <<status, mem, appending, remoteCount>>,
         stage'[p] = "none",
         \A q \in Process \ {p} :
           stage'[q] = stage[q] /\ target'[q] = target[q],
         \A i \in Instance \ {object[p]} : active'[i] = active[i],
         appending[object[p]] => active'[object[p]]
  PROVE  DownloadInv'
<1> DEFINE o == object[p]
<1>0. LoopsOK /\ LoopsExclude /\ DownloadersOK /\ RestingMeansCaughtUp
        /\ ReplicaTypeOK /\ StoreTypeOK
  BY DEF ReplicaInv, DownloadInv, StoreInv
<1>2. /\ o \in Instance /\ status[o] = "ready" /\ active[o]
      /\ \A q \in Process \ {p} : loop[q] # "idle" => object[q] # o
  BY OtherLoops
<1>3. /\ loop'[p] = "idle"
      /\ \A q \in Process \ {p} :
           /\ loop'[q] = loop[q] /\ object'[q] = object[q]
           /\ from'[q] = from[q] /\ upto'[q] = upto[q]
  BY <1>0 DEF Leave, ReplicaTypeOK
<1>4. gaveUp'[o] /\ \A j \in Instance \ {o} : gaveUp'[j] = gaveUp[j]
  BY <1>0, <1>2 DEF ReplicaTypeOK
<1>5. LoopsOK'
  <2> SUFFICES ASSUME NEW q \in Process
               PROVE  /\ loop'[q] = "appending" <=> stage'[q] # "none"
                      /\ loop'[q] # "idle" =>
                           /\ object'[q] \in Instance
                           /\ status[object'[q]] = "ready"
                           /\ active'[object'[q]]
                      /\ loop'[q] = "appending" => target'[q] = object'[q]
                      /\ loop'[q] = "asked" =>
                           /\ Len(mem[object'[q]]) = from'[q]
                           /\ from'[q] < upto'[q]
                           /\ ~appending[object'[q]]
    BY DEF LoopsOK
  <2>1. CASE q = p
    BY <1>3, <2>1
  <2>2. CASE q # p
    BY <1>0, <1>2, <1>3, <2>2 DEF LoopsOK
  <2> QED
    BY <2>1, <2>2
<1>6. LoopsExclude'
  BY <1>0, <1>3 DEF LoopsExclude
<1>7. DownloadersOK'
  BY <1>0, <1>2 DEF DownloadersOK
<1>8. RestingMeansCaughtUp'
  BY <1>0, <1>4 DEF RestingMeansCaughtUp
<1> QED
  BY <1>5, <1>6, <1>7, <1>8 DEF DownloadInv

LEMMA DownloadFailsDownload ==
  ASSUME ReplicaInv, NEW p \in Process, DownloadFails(p)
  PROVE  DownloadInv'
<1>1. /\ loop[p] = "asked" /\ Leave(p)
      /\ gaveUp' = [gaveUp EXCEPT ![object[p]] = TRUE]
      /\ active' = [active EXCEPT ![object[p]] = FALSE]
      /\ UNCHANGED <<status, mem, appending, remoteCount, stage, target>>
  BY DEF DownloadFails, storeVars, objects, transfers
<1>2. stage[p] = "none" /\ ~appending[object[p]]
  BY <1>1 DEF ReplicaInv, DownloadInv, LoopsOK
<1>3. \A i \in Instance \ {object[p]} : active'[i] = active[i]
  BY <1>1 DEF ReplicaInv, ReplicaTypeOK
<1> QED
  BY <1>1, <1>2, <1>3, LoopEndsDownload

(* A download that hangs keeps the object to itself.                       *)
LEMMA DownloadHangsDownload ==
  ASSUME ReplicaInv, NEW p \in Process, DownloadHangs(p)
  PROVE  DownloadInv'
<1>0. LoopsOK /\ LoopsExclude /\ DownloadersOK /\ RestingMeansCaughtUp
        /\ ReplicaTypeOK
  BY DEF ReplicaInv, DownloadInv
<1>1. /\ loop[p] = "asked" /\ loop' = [loop EXCEPT ![p] = "hung"]
      /\ UNCHANGED <<status, mem, appending, stage, target, remoteCount,
                     active, gaveUp, object, from, upto>>
  BY DEF DownloadHangs, storeVars, objects, transfers
<1>2. /\ loop'[p] = "hung"
      /\ \A q \in Process \ {p} : loop'[q] = loop[q]
  BY <1>0, <1>1 DEF ReplicaTypeOK
<1>3. LoopsOK' /\ LoopsExclude'
  BY <1>0, <1>1, <1>2 DEF LoopsOK, LoopsExclude
<1>4. DownloadersOK' /\ RestingMeansCaughtUp'
  BY <1>0, <1>1 DEF DownloadersOK, RestingMeansCaughtUp
<1> QED
  BY <1>3, <1>4 DEF DownloadInv

LEMMA WriteFailsDownload ==
  ASSUME ReplicaInv, NEW p \in Process, WriteFails(p)
  PROVE  DownloadInv'
<1>1. /\ stage[p] = "sent" /\ Leave(p) /\ EndTransfer(p)
      /\ gaveUp' = [gaveUp EXCEPT ![object[p]] = TRUE]
      /\ UNCHANGED <<status, mem, appending, remoteCount, active>>
  BY DEF WriteFails, FailAppend, objects
<1>2. loop[p] = "appending"
  BY <1>1 DEF ReplicaInv, DownloadInv, LoopsOK
<1>3. /\ stage'[p] = "none"
      /\ \A q \in Process \ {p} :
           stage'[q] = stage[q] /\ target'[q] = target[q]
  BY <1>1, EndTransferType DEF ReplicaInv, StoreInv
<1>4. active[object[p]]
  BY <1>2, OtherLoops
<1> QED
  BY <1>1, <1>2, <1>3, <1>4, LoopEndsDownload

(* The write has returned: the loop goes on if more was reported since.    *)
LEMMA WriteReturnsDownload ==
  ASSUME ReplicaInv, NEW p \in Process, WriteReturns(p)
  PROVE  DownloadInv'
<1> DEFINE o == object[p]
           n == Len(mem[o]) + Len(batch[p])
           count == remoteCount[o]
<1>0. LoopsOK /\ LoopsExclude /\ DownloadersOK /\ RestingMeansCaughtUp
        /\ ReplicaTypeOK /\ StoreTypeOK
  BY DEF ReplicaInv, DownloadInv, StoreInv
<1>1. /\ stage[p] = "stored" /\ EndTransfer(p) /\ Top(p, o, n, count)
      /\ mem' = [mem EXCEPT ![target[p]] = @ \o batch[p]]
      /\ appending' = [appending EXCEPT ![target[p]] = FALSE]
      /\ UNCHANGED <<status, remoteCount, gaveUp>>
  BY DEF WriteReturns, FinishAppend
<1>2. loop[p] = "appending" /\ target[p] = o
  BY <1>0, <1>1 DEF LoopsOK
<1>3. /\ o \in Instance /\ status[o] = "ready" /\ active[o]
      /\ \A q \in Process \ {p} : loop[q] # "idle" => object[q] # o
  BY <1>2, OtherLoops
<1>4. /\ stage'[p] = "none"
      /\ \A q \in Process \ {p} :
           stage'[q] = stage[q] /\ target'[q] = target[q]
  BY <1>0, <1>1, EndTransferType
<1>5. Len(mem'[o]) = n /\ n \in Nat /\ count \in Nat
  <2>1. mem[o] \in Seq(Message) /\ batch[p] \in Seq(Message)
    BY <1>0, <1>3 DEF StoreTypeOK
  <2>2. mem'[o] = mem[o] \o batch[p]
    BY <1>0, <1>1, <1>2, <1>3 DEF StoreTypeOK
  <2>3. count \in Nat
    BY <1>0, <1>3, WrittenType DEF ReplicaTypeOK
  <2>4. \A u, v \in Seq(Message) :
          Len(u \o v) = Len(u) + Len(v) /\ Len(u) + Len(v) \in Nat
    OBVIOUS
  <2> QED
    BY <2>1, <2>2, <2>3, <2>4
<1> HIDE DEF n, count
<1>6. /\ ~appending'[o]
      /\ \A j \in Instance \ {o} :
           mem'[j] = mem[j] /\ appending'[j] = appending[j]
  BY <1>0, <1>1, <1>2, <1>3 DEF StoreTypeOK
<1>7. /\ loop'[p] = IF n < count THEN "asked" ELSE "idle"
      /\ n < count => object'[p] = o /\ from'[p] = n /\ upto'[p] = count
      /\ \A q \in Process \ {p} :
           /\ loop'[q] = loop[q] /\ object'[q] = object[q]
           /\ from'[q] = from[q] /\ upto'[q] = upto[q]
  BY <1>0, <1>1 DEF Top, ReplicaTypeOK
<1>8. /\ n < count <=> active'[o]
      /\ \A j \in Instance \ {o} : active'[j] = active[j]
  BY <1>0, <1>1, <1>3 DEF Top, ReplicaTypeOK
<1> HIDE DEF o
<1>9. LoopsOK'
  <2> SUFFICES ASSUME NEW q \in Process
               PROVE  /\ loop'[q] = "appending" <=> stage'[q] # "none"
                      /\ loop'[q] # "idle" =>
                           /\ object'[q] \in Instance
                           /\ status[object'[q]] = "ready"
                           /\ active'[object'[q]]
                      /\ loop'[q] = "appending" => target'[q] = object'[q]
                      /\ loop'[q] = "asked" =>
                           /\ Len(mem'[object'[q]]) = from'[q]
                           /\ from'[q] < upto'[q]
                           /\ ~appending'[object'[q]]
    BY <1>1 DEF LoopsOK
  <2>1. CASE q = p
    BY <1>3, <1>4, <1>5, <1>6, <1>7, <1>8, <2>1
  <2>2. CASE q # p
    BY <1>0, <1>3, <1>4, <1>6, <1>7, <1>8, <2>2 DEF LoopsOK
  <2> QED
    BY <2>1, <2>2
<1>10. LoopsExclude'
  BY <1>0, <1>3, <1>7 DEF LoopsExclude
<1>11. DownloadersOK'
  <2> SUFFICES ASSUME NEW j \in Instance
               PROVE  /\ active'[j] => status[j] = "ready"
                      /\ appending'[j] => active'[j]
                      /\ status[j] # "ready" => remoteCount[j] = 0
    BY <1>1 DEF DownloadersOK
  <2> QED
    BY <1>0, <1>3, <1>6, <1>8 DEF DownloadersOK
<1>12. RestingMeansCaughtUp'
  <2> SUFFICES ASSUME NEW j \in Instance,
                      status[j] = "ready" /\ ~active'[j] /\ ~gaveUp[j]
               PROVE  Len(mem'[j]) >= remoteCount[j]
    BY <1>1 DEF RestingMeansCaughtUp
  <2>1. CASE j = o
    BY <1>5, <1>8, <2>1 DEF count
  <2>2. CASE j # o
    BY <1>0, <1>6, <1>8, <2>2 DEF RestingMeansCaughtUp
  <2> QED
    BY <2>1, <2>2
<1> QED
  BY <1>9, <1>10, <1>11, <1>12 DEF DownloadInv

LEMMA RestartDownload ==
  ASSUME Restart
  PROVE  DownloadInv'
<1>1. /\ \A p \in Process : loop'[p] = "idle" /\ stage'[p] = "none"
      /\ \A i \in Instance :
           /\ status'[i] = "unborn" /\ ~active'[i] /\ ~appending'[i]
           /\ remoteCount'[i] = 0
  BY DEF Restart, Crash
<1> QED
  BY <1>1 DEF DownloadInv, LoopsOK, LoopsExclude, DownloadersOK,
              RestingMeansCaughtUp

LEMMA DownloadStepKept ==
  ASSUME ReplicaInv, [Next]_vars
  PROVE  DownloadInv'
<1>0. StoreTypeOK /\ StoreTypeOK'
  BY ReplicaStepIsStoreStep, StoreStepInv DEF ReplicaInv, StoreInv
<1>1. CASE /\ UNCHANGED downloadVars
           /\ UNCHANGED <<stage, target, appending, mem>>
           /\ \A i \in Instance : status[i] = "ready" => status'[i] = "ready"
  BY <1>0, <1>1, QuietDownload
<1>2. CASE Network \/ EvictSubfeed \/ DeleteFeed \/ UNCHANGED vars
  <2>1. UNCHANGED downloadVars
    BY <1>2 DEF Network, WriterAppends, Renew, HandleSubscribe, Unsubscribe,
                LoseRequest, EvictSubfeed, DeleteFeed, vars, replicaVars
  <2>2. UNCHANGED <<stage, target, appending, mem, status>>
    BY <1>2 DEF Network, WriterAppends, Renew, HandleSubscribe, Unsubscribe,
                LoseRequest, EvictSubfeed, DeleteFeed, Evict, DeleteRows,
                DeleteKey, vars, storeVars, objects, transfers
  <2> QED
    BY <1>1, <2>1, <2>2
<1>3. ASSUME NEW n \in 0..MaxWritten, ReceiveReport(n)
      PROVE  DownloadInv'
  <2>1. UNCHANGED downloadVars
    BY <1>3 DEF ReceiveReport
  <2>2. UNCHANGED <<stage, target, appending, mem>>
    BY <1>3 DEF ReceiveReport, CreateInstance, storeVars, objects, transfers
  <2>3. \A i \in Instance : status[i] = "ready" => status'[i] = "ready"
    BY <1>0, <1>3 DEF ReceiveReport, CreateInstance, storeVars, objects,
                      StoreTypeOK
  <2> QED
    BY <1>1, <2>1, <2>2, <2>3
<1>4. ASSUME NEW i \in Instance, Initialize(i) \/ LoadFails(i) \/ KeyFails(i)
      PROVE  DownloadInv'
  <2>1. UNCHANGED downloadVars
    BY <1>4 DEF Initialize, LoadFails, KeyFails, replicaVars
  <2>2. UNCHANGED <<stage, target, appending>>
    BY <1>4 DEF Initialize, LoadFails, KeyFails, InitializeStep, ReadKey,
       ReadKeyFails, CheckExists, ReadMessages, CheckWriteable, FinishEmpty,
       InitializeFails, DropFailed, objects, transfers
  <2>3. /\ status[i] # "ready"
        /\ \A j \in Instance \ {i} :
             status'[j] = status[j] /\ mem'[j] = mem[j]
    BY <1>0, <1>4 DEF Initialize, LoadFails, KeyFails, InitializeStep,
       ReadKey, ReadKeyFails, CheckExists, ReadMessages, CheckWriteable,
       FinishEmpty, InitializeFails, DropFailed, StoreTypeOK
  <2> QED
    BY <1>0, <2>1, <2>2, <2>3, QuietDownload
<1>5. ASSUME NEW p \in Process, WriteCommits(p)
      PROVE  DownloadInv'
  <2>1. /\ stage[p] = "sent" /\ stage' = [stage EXCEPT ![p] = "stored"]
        /\ UNCHANGED <<target, appending, mem, status>>
        /\ UNCHANGED downloadVars
    BY <1>5 DEF WriteCommits, CommitAppend, objects, replicaVars
  <2>2. \A q \in Process : stage'[q] = "none" <=> stage[q] = "none"
    BY <1>0, <2>1 DEF StoreTypeOK
  <2> QED
    BY <1>0, <2>1, <2>2, QuietDownload
<1> QED
  BY <1>2, <1>3, <1>4, <1>5, HandleReportDownload, DownloadArrivesDownload,
     DownloadFailsDownload, DownloadHangsDownload, WriteFailsDownload, WriteReturnsDownload,
     RestartDownload DEF Next, ObjectStep, DownloadStep

LEMMA ReplicaStepInv == ReplicaInv /\ [Next]_vars => ReplicaInv'
BY ReplicaStepIsStoreStep, StoreStepInv, ReplicaTypeStep, CopiesStep,
   DownloadStepKept DEF ReplicaInv

-----------------------------------------------------------------------------
(* The theorems.                                                           *)

(* The inductive invariant holds.                                          *)
THEOREM ReplicaInvariance == Spec => []ReplicaInv
BY ReplicaInitInv, ReplicaStepInv, PTL DEF Spec

(* The rows of this node are a prefix of the writer's log, whatever is     *)
(* lost, repeated, overtaken, evicted or restarted.                        *)
THEOREM ReplicaCopyOfWriter == Spec => []CopyOfWriter
<1>1. ReplicaInv => CopyOfWriter
  BY DEF ReplicaInv, CopiesInv, TableCopies, CopyOfWriter
<1> QED
  BY ReplicaInvariance, <1>1, PTL

(* While messages are fetched for an object nothing is appended to it: the *)
(* number of local messages does not change meanwhile.                     *)
THEOREM ReplicaLocalCountStable == Spec => []LocalCountStable
<1>1. ReplicaInv => LocalCountStable
  BY DEF ReplicaInv, DownloadInv, LoopsOK, LocalCountStable
<1> QED
  BY ReplicaInvariance, <1>1, PTL

(* So whatever is downloaded passes every check of appendSignedMessages:   *)
(* the chain, the numbers and #appending.                                  *)
THEOREM ReplicaDownloadsAccepted ==
  Spec => [](\A p \in Process : loop[p] = "asked" =>
               Accepts(object[p], Unseen(mem[object[p]], Downloaded(p))))
<1>1. ReplicaInv => \A p \in Process : loop[p] = "asked" =>
        Accepts(object[p], Unseen(mem[object[p]], Downloaded(p)))
  BY DownloadAccepted
<1> QED
  BY ReplicaInvariance, <1>1, PTL

(* A downloader that rests without an error has all it was told of.        *)
THEOREM ReplicaRestingMeansCaughtUp == Spec => []RestingMeansCaughtUp
<1>1. ReplicaInv => RestingMeansCaughtUp
  BY DEF ReplicaInv, DownloadInv
<1> QED
  BY ReplicaInvariance, <1>1, PTL

(* The table and the objects of the replica keep the promises of the       *)
(* store: no gap, no fork between memory and disk.                         *)
THEOREM ReplicaKeepsStore == Spec => [](DatabaseReadable /\ MemoryIsPrefix)
<1>1. ReplicaInv => DatabaseReadable /\ MemoryIsPrefix
  BY DEF ReplicaInv, StoreInv
<1> QED
  BY ReplicaInvariance, <1>1, PTL

(* What each Subfeed object shows its readers is a prefix of the writer's  *)
(* log too, also after a cascade has emptied the table under it.           *)
THEOREM ReplicaShowsWriter ==
  Spec => [](\A i \in Instance :
               /\ Len(mem[i]) <= written
               /\ \A k \in 1..Len(mem[i]) : mem[i][k] = RemoteMessage(k))
<1>1. ReplicaInv => \A i \in Instance :
        /\ Len(mem[i]) <= written
        /\ \A k \in 1..Len(mem[i]) : mem[i][k] = RemoteMessage(k)
  BY DEF ReplicaInv, CopiesInv, MemoryCopies
<1> QED
  BY ReplicaInvariance, <1>1, PTL

=============================================================================
