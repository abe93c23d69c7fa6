------------------------ MODULE SubfeedStore_proofs -------------------------
(***************************************************************************)
(* The safety of the store for every number of processes, objects, faults  *)
(* and messages.                                                           *)
(***************************************************************************)
EXTENDS SubfeedStore, FiniteSetTheorems, SequenceTheorems, TLAPS

(* What is true of every append in progress, whatever happened to the      *)
(* table: its object is initialised, refuses other appends, and still has  *)
(* exactly the messages against which the batch was checked.               *)
TransferOK ==
  \A p \in Process : stage[p] # "none" =>
    /\ target[p] \in Instance
    /\ status[target[p]] = "ready"
    /\ appending[target[p]]
    /\ batch[p] # << >>
    /\ Extends(mem[target[p]], batch[p])

(* The inductive invariant.                                                *)
StoreInv ==
  /\ StoreTypeOK
  /\ TransferOK
  /\ AppendsExclude
  /\ DatabaseReadable
  /\ MemoryIsPrefix
  /\ PushesContinue

(* A step of the store whose callers may hand over any array of messages:  *)
(* the modules that extend SubfeedStore with callers of their own take     *)
(* only such steps.                                                        *)
StoreStep ==
  \/ \E i \in Instance : LifeCycle(i) \/ SetAccessRules(i)
  \/ \E p \in Process :
       \/ \E i \in Instance, b \in Seq(Message) : StartAppend(p, i, b)
       \/ CommitAppend(p)
       \/ FailAppend(p)
       \/ FinishAppend(p)
  \/ Evict
  \/ DeleteRows
  \/ DeleteKey
  \/ Crash

-----------------------------------------------------------------------------
(* The table as an array.                                                  *)

(* A table without gaps holds the positions 0 .. n - 1, n its size.        *)
LEMMA GapFreeDomain ==
  ASSUME NEW S, S \subseteq Nat, IsFiniteSet(S), \A p \in S : 0..p \subseteq S
  PROVE  /\ Cardinality(S) \in Nat
         /\ \A k \in 1..Cardinality(S) : (k - 1) \in S
<1>1. Cardinality(S) \in Nat
  BY FS_CardinalityType
<1>2. ASSUME NEW k \in 1..Cardinality(S), (k - 1) \notin S
      PROVE  FALSE
  <2>1. k \in Nat /\ k > 0 /\ k <= Cardinality(S)
    BY <1>1, <1>2
  <2>2. S \subseteq 0..(k - 2)
    <3> SUFFICES ASSUME NEW p \in S PROVE p \in 0..(k - 2)
      OBVIOUS
    <3>1. p \in Nat /\ 0..p \subseteq S
      OBVIOUS
    <3>2. CASE p >= k - 1
      BY <1>2, <2>1, <3>1, <3>2
    <3> QED
      BY <2>1, <3>1, <3>2
  <2>3. IsFiniteSet(0..(k - 2)) /\ Cardinality(0..(k - 2)) = k - 1
    BY <2>1, FS_Interval
  <2>4. Cardinality(S) <= k - 1
    BY <2>2, <2>3, FS_Subset
  <2> QED
    BY <1>1, <2>1, <2>4
<1> QED
  BY <1>1, <1>2

(* What initializeFromLocal keeps is a prefix of the table it reads.       *)
LEMMA ReadBackIsPrefix ==
  ASSUME NEW table, DOMAIN table \subseteq Nat, IsFiniteSet(DOMAIN table),
         \A p \in DOMAIN table : table[p] \in Message,
         ReadableTable(table)
  PROVE  LET s == [k \in 1..Cardinality(DOMAIN table) |-> table[k - 1]]
         IN  s \in Seq(Message) /\ IsPrefixOfTable(s, table)
<1> DEFINE n == Cardinality(DOMAIN table)
           s == [k \in 1..n |-> table[k - 1]]
<1>1. n \in Nat /\ \A k \in 1..n : (k - 1) \in DOMAIN table
  BY GapFreeDomain DEF ReadableTable
<1>2. s \in Seq(Message) /\ Len(s) = n
  BY <1>1
<1>3. IsPrefixOfTable(s, table)
  BY <1>1, <1>2 DEF IsPrefixOfTable
<1> QED
  BY <1>2, <1>3

(* Inserting a batch that continues a prefix of the table, none of whose   *)
(* positions is taken, appends it: the prefix was the whole table.         *)
LEMMA InsertAppends ==
  ASSUME NEW table, DOMAIN table \subseteq Nat, IsFiniteSet(DOMAIN table),
         \A p \in DOMAIN table : table[p] \in Message,
         NEW s \in Seq(Message), NEW b \in Seq(Message), b # << >>,
         Extends(s, b)
  PROVE  LET new == Insert(table, b)
         IN  /\ Positions(b) = Len(s)..(Len(s) + Len(b) - 1)
             /\ DOMAIN new \subseteq Nat
             /\ IsFiniteSet(DOMAIN new)
             /\ \A p \in DOMAIN new : new[p] \in Message
             /\ \A p \in DOMAIN table : p \in DOMAIN new /\ new[p] = table[p]
             /\ ReadableTable(table) /\ IsPrefixOfTable(s, table)
                  /\ Positions(b) \cap DOMAIN table = {}
                => ReadableTable(new) /\ IsPrefixOfTable(s \o b, new)
<1> DEFINE new == Insert(table, b)
<1>0. new = [q \in DOMAIN table \cup Positions(b) |->
               IF q \in DOMAIN table THEN table[q] ELSE b[q - b[1].num + 1]]
  BY DEF Insert
<1> HIDE DEF new
<1>1. Len(s) \in Nat /\ Len(b) \in Nat /\ Len(b) > 0
  OBVIOUS
<1>2. \A k \in 1..Len(b) : b[k].num = Len(s) + k - 1
  BY DEF Extends
<1>3. b[1].num = Len(s)
  BY <1>1, <1>2
<1>4. Positions(b) = Len(s)..(Len(s) + Len(b) - 1)
  <2>1. ASSUME NEW q \in Len(s)..(Len(s) + Len(b) - 1)
        PROVE  q \in Positions(b)
    <3>1. q - Len(s) + 1 \in 1..Len(b) /\ b[q - Len(s) + 1].num = q
      BY <1>1, <1>2
    <3> QED
      BY <3>1 DEF Positions
  <2>2. ASSUME NEW q \in Positions(b)
        PROVE  q \in Len(s)..(Len(s) + Len(b) - 1)
    <3>1. PICK k \in 1..Len(b) : q = b[k].num
      BY DEF Positions
    <3> QED
      BY <3>1, <1>1, <1>2
  <2> QED
    BY <2>1, <2>2
<1>5. DOMAIN new = DOMAIN table \cup Positions(b)
  BY <1>0
<1>6. DOMAIN new \subseteq Nat
  BY <1>1, <1>4, <1>5
<1>7. IsFiniteSet(DOMAIN new)
  <2>1. IsFiniteSet(Positions(b))
    BY <1>1, <1>4, FS_Interval
  <2> QED
    BY <1>5, <2>1, FS_Union
<1>8. \A p \in DOMAIN table : p \in DOMAIN new /\ new[p] = table[p]
  BY <1>0
<1>9. \A q \in Positions(b) : q - Len(s) + 1 \in 1..Len(b)
  BY <1>1, <1>4
<1>10. \A p \in DOMAIN new : new[p] \in Message
  <2> SUFFICES ASSUME NEW p \in DOMAIN new, p \notin DOMAIN table
               PROVE  new[p] \in Message
    BY <1>8
  <2>1. p \in Positions(b) /\ new[p] = b[p - Len(s) + 1]
    BY <1>0, <1>3, <1>5
  <2> QED
    BY <2>1, <1>9
<1>11. ASSUME ReadableTable(table), IsPrefixOfTable(s, table),
              Positions(b) \cap DOMAIN table = {}
       PROVE  ReadableTable(new) /\ IsPrefixOfTable(s \o b, new)
  <2>1. \A p \in DOMAIN table : p < Len(s)
    <3> SUFFICES ASSUME NEW p \in DOMAIN table, p >= Len(s) PROVE FALSE
      BY <1>1
    <3>1. 0..p \subseteq DOMAIN table
      BY <1>11 DEF ReadableTable
    <3>2. Len(s) \in DOMAIN table /\ Len(s) \in Positions(b)
      BY <1>1, <1>4, <3>1
    <3> QED
      BY <1>11, <3>2
  <2>2. \A q \in 0..(Len(s) - 1) :
          q \in DOMAIN table /\ table[q] = s[q + 1]
    <3> SUFFICES ASSUME NEW q \in 0..(Len(s) - 1)
                 PROVE  q \in DOMAIN table /\ table[q] = s[q + 1]
      OBVIOUS
    <3>1. q + 1 \in 1..Len(s) /\ (q + 1) - 1 = q
      BY <1>1
    <3> QED
      BY <1>11, <3>1 DEF IsPrefixOfTable
  <2>3. \A q \in Positions(b) : new[q] = b[q - Len(s) + 1]
    BY <1>0, <1>3, <1>5, <1>11
  <2>4. DOMAIN new = 0..(Len(s) + Len(b) - 1)
    BY <1>1, <1>4, <1>5, <2>1, <2>2
  <2>5. ReadableTable(new)
    <3> SUFFICES ASSUME NEW p \in DOMAIN new
                 PROVE  /\ new[p].num = p
                        /\ 0..p \subseteq DOMAIN new
                        /\ new[p].prev =
                             IF p = 0 THEN NoSig ELSE new[p - 1].sig
      BY DEF ReadableTable
    <3>1. 0..p \subseteq DOMAIN new
      BY <1>1, <2>4
    <3>2. CASE p \in DOMAIN table
      <4>1. new[p] = table[p] /\ p \in Nat /\ 0..p \subseteq DOMAIN table
        BY <1>8, <3>2, <1>11 DEF ReadableTable
      <4>2. p # 0 => new[p - 1] = table[p - 1]
        BY <1>8, <4>1
      <4> QED
        BY <3>1, <3>2, <4>1, <4>2, <1>11 DEF ReadableTable
    <3>3. CASE p \in Positions(b)
      <4> DEFINE k == p - Len(s) + 1
      <4>1. k \in 1..Len(b) /\ new[p] = b[k] /\ p = Len(s) + k - 1
        <5>1. p \in Nat /\ k \in 1..Len(b)
          BY <1>6, <1>9, <3>3
        <5>2. new[p] = b[k]
          BY <2>3, <3>3
        <5> QED
          BY <1>1, <5>1, <5>2
      <4>2. /\ b[k].num = p
            /\ b[k].prev = IF k = 1 THEN LastSig(s) ELSE b[k - 1].sig
        BY <4>1 DEF Extends
      <4>3. CASE k = 1
        <5>1. p = Len(s)
          BY <1>1, <4>1, <4>3
        <5>2. CASE p = 0
          <6>1. s = << >>
            BY <5>1, <5>2, EmptySeq
          <6> QED
            BY <3>1, <4>1, <4>2, <4>3, <5>2, <6>1 DEF LastSig
        <5>3. CASE p # 0
          <6>1. s # << >> /\ p - 1 \in 0..(Len(s) - 1)
            BY <1>1, <5>1, <5>3
          <6>2. new[p - 1] = s[Len(s)]
            BY <1>1, <1>8, <2>2, <5>1, <6>1
          <6> QED
            BY <3>1, <4>1, <4>2, <4>3, <5>3, <6>1, <6>2 DEF LastSig
        <5> QED
          BY <5>2, <5>3
      <4>4. CASE k # 1
        <5>0. k \in 2..Len(b) /\ p = Len(s) + k - 1 /\ p \in Nat
          BY <1>1, <1>6, <4>1, <4>4
        <5>1. p - 1 \in Positions(b) /\ (p - 1) - Len(s) + 1 = k - 1 /\ p # 0
          <6> HIDE DEF k
          <6> QED
            BY <1>1, <1>4, <5>0
        <5>2. new[p - 1] = b[k - 1]
          BY <2>3, <5>1
        <5> QED
          BY <3>1, <4>1, <4>2, <4>4, <5>1, <5>2
      <4> QED
        BY <4>3, <4>4
    <3> QED
      BY <3>2, <3>3, <1>5
  <2>6. IsPrefixOfTable(s \o b, new)
    <3> SUFFICES ASSUME NEW k \in 1..Len(s \o b)
                 PROVE  (k - 1) \in DOMAIN new /\ new[k - 1] = (s \o b)[k]
      BY DEF IsPrefixOfTable
    <3>1. k \in 1..(Len(s) + Len(b))
      OBVIOUS
    <3>2. CASE k <= Len(s)
      <4>1. (s \o b)[k] = s[k] /\ k - 1 \in 0..(Len(s) - 1) /\ (k - 1) + 1 = k
        BY <1>1, <3>1, <3>2
      <4> QED
        BY <1>8, <2>2, <4>1
    <3>3. CASE k > Len(s)
      <4>1. /\ (s \o b)[k] = b[k - Len(s)]
            /\ k - 1 \in Positions(b)
            /\ (k - 1) - Len(s) + 1 = k - Len(s)
        BY <1>1, <1>4, <3>1, <3>3
      <4> QED
        BY <1>5, <2>3, <4>1
    <3> QED
      BY <1>1, <3>1, <3>2, <3>3
  <2> QED
    BY <2>5, <2>6
<1> QED
  BY <1>4, <1>6, <1>7, <1>8, <1>10, <1>11 DEF new

-----------------------------------------------------------------------------
(* The invariant.                                                          *)

(* What the caller hands over minus what is known is again an array.       *)
LEMMA UnseenType ==
  ASSUME NEW s \in Seq(Message), NEW b \in Seq(Message)
  PROVE  Unseen(s, b) \in Seq(Message)
<1>1. CASE b # << >> /\ b[1].num < Len(s)
  <2>1. b[1].num \in Nat
    <3>1. Len(b) \in Nat \ {0}
      BY <1>1, EmptySeq
    <3>2. b[1] \in Message
      BY <3>1, ElementOfSeq
    <3> QED
      BY <3>2 DEF Message
  <2>2. \A k \in (Len(s) - b[1].num + 1)..Len(b) : b[k] \in Message
    BY <1>1, <2>1
  <2>3. SubSeq(b, Len(s) - b[1].num + 1, Len(b)) \in Seq(Message)
    BY <2>1, <2>2, SubSeqProperties
  <2> QED
    BY <1>1, <2>3 DEF Unseen
<1>2. CASE ~(b # << >> /\ b[1].num < Len(s))
  BY <1>2 DEF Unseen
<1> QED
  BY <1>1, <1>2

LEMMA StoreInitInv == StoreInit => StoreInv
<1> SUFFICES ASSUME StoreInit PROVE StoreInv
  OBVIOUS
<1>1. DOMAIN db = {} /\ IsFiniteSet({})
  BY FS_EmptySet DEF StoreInit
<1>2. StoreTypeOK
  <2>1. /\ DOMAIN db \subseteq Nat /\ IsFiniteSet(DOMAIN db)
        /\ \A p \in DOMAIN db : db[p] \in Message
    BY <1>1
  <2>2. /\ mem \in [Instance -> Seq(Message)]
        /\ batch \in [Process -> Seq(Message)]
    BY EmptySeq DEF StoreInit
  <2>3. budget \in [Fault -> Nat]
    BY StoreAssumption DEF StoreInit
  <2> QED
    BY <2>1, <2>2, <2>3 DEF StoreInit, StoreTypeOK, Statuses
<1>3. TransferOK /\ AppendsExclude /\ PushesContinue
  BY DEF StoreInit, TransferOK, AppendsExclude, PushesContinue
<1>4. DatabaseReadable
  BY <1>1 DEF DatabaseReadable, ReadableTable
<1>5. MemoryIsPrefix
  <2> SUFFICES ASSUME NEW i \in Instance PROVE IsPrefixOfTable(mem[i], db)
    BY DEF MemoryIsPrefix
  <2>1. mem[i] = << >> /\ Len(<< >>) = 0
    BY DEF StoreInit
  <2> QED
    BY <2>1 DEF IsPrefixOfTable
<1> QED
  BY <1>2, <1>3, <1>4, <1>5 DEF StoreInv

(* Steps that leave the table, memory and the appends alone.               *)
LEMMA QuietStep ==
  ASSUME StoreInv, StoreTypeOK',
         UNCHANGED <<db, wiped, mem, transfers>>,
         \A i \in Instance : appending[i] => appending'[i],
         \A i \in Instance : status[i] = "ready" => status'[i] = "ready"
  PROVE  StoreInv'
<1>1. TransferOK'
  BY DEF StoreInv, TransferOK, transfers
<1>2. AppendsExclude' /\ PushesContinue'
  BY DEF StoreInv, AppendsExclude, PushesContinue, transfers
<1>3. DatabaseReadable' /\ MemoryIsPrefix'
  BY DEF StoreInv, DatabaseReadable, MemoryIsPrefix
<1> QED
  BY <1>1, <1>2, <1>3 DEF StoreInv

LEMMA BudgetType ==
  ASSUME StoreTypeOK, NEW f \in Fault, Spend(f)
  PROVE  budget' \in [Fault -> Nat]
<1>1. budget[f] \in Nat /\ budget[f] - 1 \in Nat
  BY DEF StoreTypeOK, Spend
<1> QED
  BY <1>1 DEF StoreTypeOK, Spend

LEMMA LifeCycleInv ==
  ASSUME StoreInv, NEW i \in Instance, LifeCycle(i)
  PROVE  StoreInv'
<1> USE DEF persistent, objects, transfers
<1>1. ASSUME CreateInstance(i) \/ ReadKey(i) \/ ReadKeyFails(i)
               \/ CheckExists(i) \/ CheckWriteable(i) \/ FinishEmpty(i)
      PROVE  StoreInv'
  <2>1. status' \in [Instance -> Statuses]
    BY <1>1 DEF StoreInv, StoreTypeOK, Statuses, CreateInstance, ReadKey,
                ReadKeyFails, CheckExists, CheckWriteable, FinishEmpty
  <2>3. budget' \in [Fault -> Nat]
    BY <1>1, BudgetType DEF Fault, StoreInv, CreateInstance, ReadKey,
                            ReadKeyFails,
                CheckExists, CheckWriteable, FinishEmpty, StoreTypeOK
  <2>4. writeable' \in [Instance -> BOOLEAN]
    BY <1>1 DEF StoreInv, StoreTypeOK, CreateInstance, ReadKey,
                ReadKeyFails, CheckExists, CheckWriteable, FinishEmpty
  <2>5. StoreTypeOK'
    BY <1>1, <2>1, <2>3, <2>4 DEF StoreInv, StoreTypeOK, CreateInstance,
                ReadKey, ReadKeyFails, CheckExists, CheckWriteable,
                FinishEmpty
  <2>2. /\ UNCHANGED <<db, wiped, mem, transfers>>
        /\ \A j \in Instance : appending[j] => appending'[j]
        /\ \A j \in Instance : status[j] = "ready" => status'[j] = "ready"
    BY <1>1 DEF StoreInv, StoreTypeOK, CreateInstance, ReadKey,
                ReadKeyFails, CheckExists, CheckWriteable, FinishEmpty
  <2> QED
    BY <2>2, <2>5, QuietStep
<1>2. ASSUME status[i] # "ready", status'[i] # "ready",
             UNCHANGED <<db, wiped, transfers>>, StoreTypeOK',
             appending' = appending,
             \A j \in Instance \ {i} :
               mem'[j] = mem[j] /\ status'[j] = status[j],
             ~wiped => IsPrefixOfTable(mem'[i], db)
      PROVE  StoreInv'
  <2>1. \A p \in Process : stage[p] # "none" => target[p] # i
    BY <1>2 DEF StoreInv, TransferOK
  <2>2. TransferOK'
    BY <1>2, <2>1 DEF StoreInv, TransferOK
  <2>3. AppendsExclude'
    BY <1>2 DEF StoreInv, AppendsExclude
  <2>4. PushesContinue'
    BY <1>2, <2>1 DEF StoreInv, PushesContinue, TransferOK
  <2>5. DatabaseReadable' /\ MemoryIsPrefix'
    BY <1>2 DEF StoreInv, DatabaseReadable, MemoryIsPrefix
  <2> QED
    BY <1>2, <2>2, <2>3, <2>4, <2>5 DEF StoreInv
<1>3. ASSUME ReadMessages(i)
      PROVE  StoreInv'
  <2> DEFINE s == [k \in 1..Cardinality(DOMAIN db) |-> db[k - 1]]
  <2>1. s \in Seq(Message) /\ IsPrefixOfTable(s, db)
    BY <1>3, ReadBackIsPrefix DEF ReadMessages, StoreInv, StoreTypeOK
  <2>2. mem' = [mem EXCEPT ![i] = s]
    BY <1>3 DEF ReadMessages
  <2> HIDE DEF s
  <2>3. mem' \in [Instance -> Seq(Message)]
    BY <2>1, <2>2 DEF StoreInv, StoreTypeOK
  <2>4. StoreTypeOK'
    BY <1>3, <2>3 DEF ReadMessages, StoreInv, StoreTypeOK, Statuses
  <2> QED
    BY <1>2, <1>3, <2>1, <2>2, <2>4 DEF ReadMessages, StoreInv, StoreTypeOK
<1>4. ASSUME InitializeFails(i)
      PROVE  StoreInv'
  <2>1. status[i] # "ready" /\ DropFailed(i)
    BY <1>4 DEF InitializeFails
  <2>2. StoreTypeOK'
    <3>1. budget' \in [Fault -> Nat]
      BY <1>4, BudgetType DEF Fault, InitializeFails, StoreInv, StoreTypeOK
    <3>2. mem' \in [Instance -> Seq(Message)]
      BY <2>1, EmptySeq DEF DropFailed, StoreInv, StoreTypeOK
    <3> QED
      BY <2>1, <3>1, <3>2 DEF DropFailed, StoreInv, StoreTypeOK, Statuses
  <2>3. mem'[i] = << >> /\ IsPrefixOfTable(<< >>, db)
    BY <2>1 DEF DropFailed, StoreInv, StoreTypeOK, IsPrefixOfTable
  <2> QED
    BY <1>2, <2>1, <2>2, <2>3 DEF DropFailed, StoreInv, StoreTypeOK
<1> QED
  BY <1>1, <1>3, <1>4 DEF LifeCycle, InitializeStep

LEMMA StartAppendInv ==
  ASSUME StoreInv, NEW p \in Process, NEW i \in Instance,
         NEW b \in Seq(Message), StartAppend(p, i, b)
  PROVE  StoreInv'
<1> DEFINE new == Unseen(mem[i], b)
<1> USE DEF persistent, objects, transfers
<1>1. new \in Seq(Message)
  BY UnseenType DEF StoreInv, StoreTypeOK
<1>2. /\ status[i] = "ready" /\ stage[p] = "none"
      /\ new # << >> /\ Extends(mem[i], new) /\ ~appending[i]
      /\ appending' = [appending EXCEPT ![i] = TRUE]
      /\ stage' = [stage EXCEPT ![p] = "sent"]
      /\ target' = [target EXCEPT ![p] = i]
      /\ batch' = [batch EXCEPT ![p] = new]
      /\ UNCHANGED <<persistent, current, status, writeable, mem, budget>>
  BY DEF StartAppend, Accepts
<1> HIDE DEF new
<1>3. StoreTypeOK'
  BY <1>1, <1>2 DEF StoreInv, StoreTypeOK
<1>4. \A q \in Process : stage[q] # "none" => target[q] # i
  BY <1>2 DEF StoreInv, TransferOK
<1>5. TransferOK'
  BY <1>2, <1>3, <1>4 DEF StoreInv, TransferOK, StoreTypeOK
<1>6. AppendsExclude'
  BY <1>2, <1>3, <1>4 DEF StoreInv, AppendsExclude, StoreTypeOK
<1>7. PushesContinue'
  BY <1>2 DEF StoreInv, PushesContinue, StoreTypeOK
<1>8. DatabaseReadable' /\ MemoryIsPrefix'
  BY <1>2 DEF StoreInv, DatabaseReadable, MemoryIsPrefix
<1> QED
  BY <1>3, <1>5, <1>6, <1>7, <1>8 DEF StoreInv

LEMMA CommitAppendInv ==
  ASSUME StoreInv, NEW p \in Process, CommitAppend(p)
  PROVE  StoreInv'
<1> DEFINE b == batch[p]
           s == mem[target[p]]
           new == Insert(db, b)
<1> USE DEF objects
<1>1. /\ stage[p] = "sent" /\ Positions(b) \cap DOMAIN db = {}
      /\ db' = Insert(db, b)
      /\ feedRow' = TRUE
      /\ stage' = [stage EXCEPT ![p] = "stored"]
      /\ UNCHANGED <<key, wiped, deletion, objects, target, batch, budget>>
  BY DEF CommitAppend, Collides
<1>2. /\ s \in Seq(Message) /\ b \in Seq(Message) /\ b # << >>
      /\ Extends(s, b)
  BY <1>1 DEF StoreInv, StoreTypeOK, TransferOK
<1>3. /\ DOMAIN new \subseteq Nat
      /\ IsFiniteSet(DOMAIN new)
      /\ \A q \in DOMAIN new : new[q] \in Message
      /\ \A q \in DOMAIN db : q \in DOMAIN new /\ new[q] = db[q]
      /\ ReadableTable(db) /\ IsPrefixOfTable(s, db)
           => ReadableTable(new) /\ IsPrefixOfTable(s \o b, new)
  <2>1. /\ DOMAIN db \subseteq Nat /\ IsFiniteSet(DOMAIN db)
        /\ \A q \in DOMAIN db : db[q] \in Message
    BY DEF StoreInv, StoreTypeOK
  <2> HIDE DEF b, s
  <2> QED
    BY <1>1, <1>2, <2>1, InsertAppends
<1> HIDE DEF new
<1>4. StoreTypeOK'
  <2>1. db' = new
    BY <1>1 DEF new
  <2> QED
    BY <1>1, <1>3, <2>1 DEF StoreInv, StoreTypeOK
<1>5. TransferOK'
  BY <1>1 DEF StoreInv, TransferOK, StoreTypeOK
<1>6. AppendsExclude'
  BY <1>1 DEF StoreInv, AppendsExclude, StoreTypeOK
<1>7. \A u : IsPrefixOfTable(u, db) => IsPrefixOfTable(u, new)
  BY <1>3 DEF IsPrefixOfTable
<1>8. CASE ~wiped
  <2>0. db' = new
    BY <1>1 DEF new
  <2>1. ReadableTable(new) /\ IsPrefixOfTable(s \o b, new)
    BY <1>1, <1>2, <1>3, <1>8
       DEF StoreInv, DatabaseReadable, MemoryIsPrefix, TransferOK
  <2>2. DatabaseReadable' /\ MemoryIsPrefix'
    BY <1>1, <1>7, <1>8, <2>0, <2>1
       DEF StoreInv, DatabaseReadable, MemoryIsPrefix
  <2>3. PushesContinue'
    <3> SUFFICES ASSUME NEW q \in Process, stage'[q] = "stored"
                 PROVE  IsPrefixOfTable(mem[target[q]] \o batch[q], new)
      BY <1>1, <2>0 DEF PushesContinue
    <3>1. CASE q = p
      BY <2>1, <3>1
    <3>2. CASE q # p
      BY <1>1, <1>7, <1>8, <3>2 DEF StoreInv, PushesContinue, StoreTypeOK
    <3> QED
      BY <3>1, <3>2
  <2> QED
    BY <1>4, <1>5, <1>6, <2>2, <2>3 DEF StoreInv
<1>9. CASE wiped
  BY <1>1, <1>4, <1>5, <1>6, <1>9
     DEF StoreInv, DatabaseReadable, MemoryIsPrefix, PushesContinue
<1> QED
  BY <1>8, <1>9

LEMMA EndTransferType ==
  ASSUME StoreTypeOK, NEW p \in Process, EndTransfer(p)
  PROVE  /\ stage' \in [Process -> {"none", "sent", "stored"}]
         /\ target' \in [Process -> Instance \cup {NoInstance}]
         /\ batch' \in [Process -> Seq(Message)]
         /\ stage'[p] = "none"
         /\ \A q \in Process \ {p} : /\ stage'[q] = stage[q]
                                      /\ target'[q] = target[q]
                                      /\ batch'[q] = batch[q]
BY EmptySeq DEF EndTransfer, StoreTypeOK

LEMMA FailAppendInv ==
  ASSUME StoreInv, NEW p \in Process, FailAppend(p)
  PROVE  StoreInv'
<1> USE DEF persistent, objects
<1>1. /\ EndTransfer(p)
      /\ UNCHANGED <<key, db, wiped, deletion, objects>>
      /\ feedRow' \in BOOLEAN
      /\ budget' \in [Fault -> Nat]
  <2>1. budget' = budget \/ Spend("dbError")
    BY DEF FailAppend
  <2>2. budget' \in [Fault -> Nat]
    BY <2>1, BudgetType DEF Fault, StoreInv, StoreTypeOK
  <2>3. feedRow' \in {feedRow, TRUE} /\ feedRow \in BOOLEAN
    BY DEF FailAppend, StoreInv, StoreTypeOK
  <2>4. EndTransfer(p) /\ UNCHANGED <<key, db, wiped, deletion, objects>>
    BY DEF FailAppend
  <2> QED
    BY <2>2, <2>3, <2>4
<1>2. /\ stage' \in [Process -> {"none", "sent", "stored"}]
      /\ target' \in [Process -> Instance \cup {NoInstance}]
      /\ batch' \in [Process -> Seq(Message)]
      /\ stage'[p] = "none"
      /\ \A q \in Process \ {p} : /\ stage'[q] = stage[q]
                                   /\ target'[q] = target[q]
                                   /\ batch'[q] = batch[q]
  BY <1>1, EndTransferType DEF StoreInv
<1>3. StoreTypeOK'
  BY <1>1, <1>2 DEF StoreInv, StoreTypeOK
<1>4. TransferOK'
  BY <1>1, <1>2 DEF StoreInv, TransferOK
<1>5. AppendsExclude'
  BY <1>2 DEF StoreInv, AppendsExclude
<1>6. PushesContinue'
  BY <1>1, <1>2 DEF StoreInv, PushesContinue
<1>7. DatabaseReadable' /\ MemoryIsPrefix'
  BY <1>1 DEF StoreInv, DatabaseReadable, MemoryIsPrefix
<1> QED
  BY <1>3, <1>4, <1>5, <1>6, <1>7 DEF StoreInv

LEMMA FinishAppendInv ==
  ASSUME StoreInv, NEW p \in Process, FinishAppend(p)
  PROVE  StoreInv'
<1> DEFINE i == target[p]
<1> USE DEF persistent
<1>1. /\ stage[p] = "stored"
      /\ mem' = [mem EXCEPT ![i] = @ \o batch[p]]
      /\ appending' = [appending EXCEPT ![i] = FALSE]
      /\ EndTransfer(p)
      /\ UNCHANGED <<persistent, current, status, writeable, budget>>
  BY DEF FinishAppend
<1>2. /\ stage' \in [Process -> {"none", "sent", "stored"}]
      /\ target' \in [Process -> Instance \cup {NoInstance}]
      /\ batch' \in [Process -> Seq(Message)]
      /\ stage'[p] = "none"
      /\ \A q \in Process \ {p} : /\ stage'[q] = stage[q]
                                   /\ target'[q] = target[q]
                                   /\ batch'[q] = batch[q]
  BY <1>1, EndTransferType DEF StoreInv
<1>3. i \in Instance
  BY <1>1 DEF StoreInv, TransferOK
<1>4. StoreTypeOK'
  <2>1. mem[i] \o batch[p] \in Seq(Message)
    BY <1>3 DEF StoreInv, StoreTypeOK
  <2> QED
    BY <1>1, <1>2, <2>1 DEF StoreInv, StoreTypeOK
<1>5. \A q \in Process \ {p} : stage'[q] # "none" => target[q] # i
  BY <1>1, <1>2 DEF StoreInv, AppendsExclude
<1>6. TransferOK'
  <2> SUFFICES ASSUME NEW q \in Process, stage'[q] # "none"
               PROVE  /\ target'[q] \in Instance
                      /\ status'[target'[q]] = "ready"
                      /\ appending'[target'[q]]
                      /\ batch'[q] # << >>
                      /\ Extends(mem'[target'[q]], batch'[q])
    BY DEF TransferOK
  <2>1. q # p /\ stage[q] = stage'[q]
    BY <1>2
  <2>2. target'[q] = target[q] /\ batch'[q] = batch[q] /\ target[q] # i
    BY <1>2, <1>5, <2>1
  <2>3. target[q] \in Instance
    BY <2>1 DEF StoreInv, TransferOK
  <2>4. /\ mem'[target[q]] = mem[target[q]]
        /\ appending'[target[q]] = appending[target[q]]
    BY <1>1, <2>2, <2>3 DEF StoreInv, StoreTypeOK
  <2> QED
    BY <1>1, <2>1, <2>2, <2>3, <2>4 DEF StoreInv, TransferOK
<1>7. AppendsExclude'
  BY <1>2 DEF StoreInv, AppendsExclude
<1>8. PushesContinue'
  <2> SUFFICES ASSUME ~wiped, NEW q \in Process,
                      stage'[q] = "stored"
               PROVE  IsPrefixOfTable(mem'[target'[q]] \o batch'[q], db)
    BY <1>1 DEF PushesContinue
  <2>1. q # p /\ stage[q] = "stored"
    BY <1>2
  <2>2. target'[q] = target[q] /\ batch'[q] = batch[q] /\ target[q] # i
    BY <1>2, <1>5, <2>1
  <2>3. target[q] \in Instance
    BY <2>1 DEF StoreInv, TransferOK
  <2>4. mem'[target[q]] = mem[target[q]]
    BY <1>1, <2>2, <2>3 DEF StoreInv, StoreTypeOK
  <2> QED
    BY <2>1, <2>2, <2>4 DEF StoreInv, PushesContinue
<1>9. DatabaseReadable' /\ MemoryIsPrefix'
  <2>1. ~wiped => IsPrefixOfTable(mem[i] \o batch[p], db)
    BY <1>1 DEF StoreInv, PushesContinue
  <2> QED
    BY <1>1, <2>1
       DEF StoreInv, DatabaseReadable, MemoryIsPrefix, StoreTypeOK
<1> QED
  BY <1>4, <1>6, <1>7, <1>8, <1>9 DEF StoreInv

LEMMA CrashInv ==
  ASSUME StoreInv, Crash
  PROVE  StoreInv'
<1>1. StoreTypeOK'
  <2>1. budget' \in [Fault -> Nat]
    BY BudgetType DEF Crash, Fault, StoreInv
  <2>2. /\ mem' \in [Instance -> Seq(Message)]
        /\ batch' \in [Process -> Seq(Message)]
    BY EmptySeq DEF Crash
  <2>3. /\ status' \in [Instance -> Statuses]
        /\ writeable' \in [Instance -> BOOLEAN]
        /\ appending' \in [Instance -> BOOLEAN]
        /\ stage' \in [Process -> {"none", "sent", "stored"}]
        /\ target' \in [Process -> Instance \cup {NoInstance}]
        /\ current' \in Instance \cup {NoInstance}
    BY DEF Crash, Statuses
  <2>4. deletion' \in {"none", "running", "over"} /\ wiped' \in BOOLEAN
    BY DEF Crash, StoreInv, StoreTypeOK
  <2> QED
    BY <2>1, <2>2, <2>3, <2>4 DEF Crash, StoreInv, StoreTypeOK
<1>2. TransferOK' /\ AppendsExclude' /\ PushesContinue'
  BY DEF Crash, TransferOK, AppendsExclude, PushesContinue
<1>3. \A j \in Instance : mem'[j] = << >>
  BY DEF Crash
<1>4. IsPrefixOfTable(<< >>, db)
  BY DEF IsPrefixOfTable
<1>5. ~wiped' => ~wiped /\ db' = db
  BY DEF Crash
<1>6. DatabaseReadable' /\ MemoryIsPrefix'
  BY <1>3, <1>4, <1>5 DEF StoreInv, DatabaseReadable, MemoryIsPrefix
<1> QED
  BY <1>1, <1>2, <1>6 DEF StoreInv

(* A cascade may empty the table; unless it is known to have removed      *)
(* messages, the table was empty before or no cascade took place.          *)
LEMMA CascadeFacts ==
  ASSUME StoreTypeOK, Cascade
  PROVE  /\ DOMAIN db' \subseteq Nat
         /\ IsFiniteSet(DOMAIN db')
         /\ \A p \in DOMAIN db' : db'[p] \in Message
         /\ wiped' \in BOOLEAN
         /\ ~wiped' => ~wiped
         /\ ~wiped' => db' = db \/ (DOMAIN db = {} /\ DOMAIN db' = {})
         /\ ~ForeignKeys => db' = db /\ wiped' = wiped
<1>1. CASE ForeignKeys
  <2>1. DOMAIN db' = {} /\ IsFiniteSet({})
    BY <1>1, FS_EmptySet DEF Cascade
  <2> QED
    BY <1>1, <2>1 DEF Cascade, StoreTypeOK
<1>2. CASE ~ForeignKeys
  BY <1>2 DEF Cascade, StoreTypeOK
<1> QED
  BY <1>1, <1>2

LEMMA RemoveRowsInv ==
  ASSUME StoreInv, DeleteRows \/ \E i \in Instance : SetAccessRules(i)
  PROVE  StoreInv'
<1> USE DEF objects, transfers
<1>1. Cascade /\ feedRow' \in BOOLEAN /\ UNCHANGED <<key, objects, transfers>>
  BY DEF DeleteRows, SetAccessRules
<1>2. budget' \in [Fault -> Nat] /\ deletion' \in {"none", "running", "over"}
  BY BudgetType DEF DeleteRows, SetAccessRules, Fault, StoreInv, StoreTypeOK
<1>3. StoreTypeOK'
  BY <1>1, <1>2, CascadeFacts DEF StoreInv, StoreTypeOK
<1>4. TransferOK' /\ AppendsExclude'
  BY <1>1 DEF StoreInv, TransferOK, AppendsExclude
<1>5. CASE wiped'
  BY <1>3, <1>4, <1>5
     DEF StoreInv, DatabaseReadable, MemoryIsPrefix, PushesContinue
<1>6. CASE ~wiped'
  <2>1. ~wiped /\ (db' = db \/ (DOMAIN db = {} /\ DOMAIN db' = {}))
    BY <1>1, <1>6, CascadeFacts DEF StoreInv
  <2>2. \A s : IsPrefixOfTable(s, db) => IsPrefixOfTable(s, db')
    BY <2>1 DEF IsPrefixOfTable
  <2>3. ReadableTable(db) => ReadableTable(db')
    BY <2>1 DEF ReadableTable
  <2> QED
    BY <1>1, <1>3, <1>4, <2>1, <2>2, <2>3
       DEF StoreInv, DatabaseReadable, MemoryIsPrefix, PushesContinue
<1> QED
  BY <1>5, <1>6

LEMMA DeleteKeyInv ==
  ASSUME StoreInv, DeleteKey
  PROVE  StoreInv'
<1> USE DEF objects, transfers
<1>1. StoreTypeOK'
  BY DEF DeleteKey, StoreInv, StoreTypeOK
<1> QED
  BY <1>1, QuietStep DEF DeleteKey

LEMMA EvictInv ==
  ASSUME StoreInv, Evict
  PROVE  StoreInv'
<1> USE DEF persistent, transfers
<1>1. StoreTypeOK'
  BY DEF Evict, Spend, Fault, StoreInv, StoreTypeOK
<1> QED
  BY <1>1, QuietStep DEF Evict

LEMMA StoreStepInv ==
  ASSUME StoreInv, [StoreStep]_storeVars
  PROVE  StoreInv'
<1>1. ASSUME NEW i \in Instance, LifeCycle(i) PROVE StoreInv'
  BY <1>1, LifeCycleInv
<1>2. ASSUME NEW p \in Process, NEW i \in Instance, NEW b \in Seq(Message),
             StartAppend(p, i, b)
      PROVE  StoreInv'
  BY <1>2, StartAppendInv
<1>3. ASSUME NEW p \in Process,
             CommitAppend(p) \/ FailAppend(p) \/ FinishAppend(p)
      PROVE  StoreInv'
  BY <1>3, CommitAppendInv, FailAppendInv, FinishAppendInv
<1>4. CASE Evict \/ DeleteKey \/ Crash
  BY <1>4, EvictInv, DeleteKeyInv, CrashInv
<1>6. CASE DeleteRows \/ \E i \in Instance : SetAccessRules(i)
  BY <1>6, RemoveRowsInv
<1>5. CASE UNCHANGED storeVars
  <2>1. StoreTypeOK'
    BY <1>5 DEF storeVars, persistent, objects, transfers, StoreInv,
                StoreTypeOK
  <2> QED
    BY <1>5, <2>1, QuietStep DEF storeVars, persistent, objects, transfers
<1> QED
  BY <1>1, <1>2, <1>3, <1>4, <1>5, <1>6 DEF StoreStep

(* The store taken alone is one such system.                               *)
LEMMA StoreNextIsStep == StoreNext => StoreStep
  BY StoreAssumption DEF StoreNext, StoreStep, AppendStep

(* A committed message keeps its position in every step but a cascade.     *)
LEMMA StoreStepKeepsRows ==
  ASSUME StoreInv, [StoreStep]_storeVars, ~wiped'
  PROVE  \A q \in DOMAIN db : q \in DOMAIN db' /\ db'[q] = db[q]
<1>1. ASSUME NEW i \in Instance, LifeCycle(i) PROVE db' = db
  BY <1>1 DEF LifeCycle, InitializeStep, CreateInstance, ReadKey,
              ReadKeyFails, CheckExists, ReadMessages, CheckWriteable,
              FinishEmpty, InitializeFails, DropFailed, persistent
<1>2. ASSUME NEW p \in Process, NEW i \in Instance, NEW b \in Seq(Message),
             StartAppend(p, i, b)
      PROVE  db' = db
  BY <1>2 DEF StartAppend, persistent
<1>3. ASSUME NEW p \in Process, FailAppend(p) \/ FinishAppend(p)
      PROVE  db' = db
  BY <1>3 DEF FailAppend, FinishAppend, persistent
<1>4. Evict \/ DeleteKey \/ Crash \/ UNCHANGED storeVars => db' = db
  BY DEF Evict, DeleteKey, Crash, storeVars, persistent
<1>5. ASSUME DeleteRows \/ \E i \in Instance : SetAccessRules(i)
      PROVE  \A q \in DOMAIN db : q \in DOMAIN db' /\ db'[q] = db[q]
  <2>1. Cascade
    BY <1>5 DEF DeleteRows, SetAccessRules
  <2> QED
    BY <2>1, CascadeFacts DEF StoreInv
<1>6. ASSUME NEW p \in Process, CommitAppend(p)
      PROVE  \A q \in DOMAIN db : q \in DOMAIN db' /\ db'[q] = db[q]
  BY <1>6 DEF CommitAppend, Insert
<1> QED
  BY <1>1, <1>2, <1>3, <1>4, <1>5, <1>6 DEF StoreStep

(* Where foreign keys are not enforced nothing is ever wiped.              *)
LEMMA StoreStepNoWipe ==
  ASSUME StoreInv, [StoreStep]_storeVars, ~ForeignKeys, ~wiped
  PROVE  ~wiped'
<1>1. ASSUME NEW i \in Instance, LifeCycle(i) PROVE wiped' = wiped
  BY <1>1 DEF LifeCycle, InitializeStep, CreateInstance, ReadKey,
              ReadKeyFails, CheckExists, ReadMessages, CheckWriteable,
              FinishEmpty, InitializeFails, DropFailed, persistent
<1>2. ASSUME NEW p \in Process, NEW i \in Instance, NEW b \in Seq(Message),
             StartAppend(p, i, b)
      PROVE  wiped' = wiped
  BY <1>2 DEF StartAppend, persistent
<1>3. ASSUME NEW p \in Process,
             CommitAppend(p) \/ FailAppend(p) \/ FinishAppend(p)
      PROVE  wiped' = wiped
  BY <1>3 DEF CommitAppend, FailAppend, FinishAppend, persistent
<1>4. Evict \/ DeleteKey \/ Crash \/ UNCHANGED storeVars => wiped' = wiped
  BY DEF Evict, DeleteKey, Crash, storeVars, persistent
<1>5. DeleteRows \/ (\E i \in Instance : SetAccessRules(i)) => wiped' = wiped
  BY CascadeFacts DEF DeleteRows, SetAccessRules, StoreInv
<1> QED
  BY <1>1, <1>2, <1>3, <1>4, <1>5 DEF StoreStep

-----------------------------------------------------------------------------
(* The theorems.                                                           *)

(* The inductive invariant holds.                                          *)
THEOREM StoreInvariance == StoreSpec => []StoreInv
<1>1. StoreInv /\ [StoreNext]_storeVars => StoreInv'
  BY StoreNextIsStep, StoreStepInv
<1> QED
  BY StoreInitInv, <1>1, PTL DEF StoreSpec

(* Every variable of the store keeps its type.                             *)
THEOREM StoreTypeCorrect == StoreSpec => []StoreTypeOK
<1>1. StoreInv => StoreTypeOK
  BY DEF StoreInv
<1> QED
  BY StoreInvariance, <1>1, PTL

(* Unless a cascade removed rows, initializeFromLocal always finds a table *)
(* without gaps whose chain verifies.                                      *)
THEOREM StoreReadable == StoreSpec => []DatabaseReadable
<1>1. StoreInv => DatabaseReadable
  BY DEF StoreInv
<1> QED
  BY StoreInvariance, <1>1, PTL

(* On connections that do not enforce foreign keys, SQLite's default, that *)
(* is so without exception.                                                *)
THEOREM StoreAlwaysReadable ==
  ASSUME ~ForeignKeys
  PROVE  StoreSpec => []ReadableTable(db)
<1>1. StoreInit => StoreInv /\ ~wiped
  BY StoreInitInv DEF StoreInit
<1>2. StoreInv /\ ~wiped /\ [StoreNext]_storeVars => (StoreInv /\ ~wiped)'
  BY StoreNextIsStep, StoreStepInv, StoreStepNoWipe
<1>3. StoreInv /\ ~wiped => ReadableTable(db)
  BY DEF StoreInv, DatabaseReadable
<1> QED
  BY <1>1, <1>2, <1>3, PTL DEF StoreSpec

(* The in-memory list of every Subfeed object is a prefix of the table.    *)
THEOREM StoreMemoryIsPrefix == StoreSpec => []MemoryIsPrefix
<1>1. StoreInv => MemoryIsPrefix
  BY DEF StoreInv
<1> QED
  BY StoreInvariance, <1>1, PTL

(* Appends to one object exclude each other from check to push.            *)
THEOREM StoreAppendsExclude == StoreSpec => []AppendsExclude
<1>1. StoreInv => AppendsExclude
  BY DEF StoreInv
<1> QED
  BY StoreInvariance, <1>1, PTL

(* A push continues the list it is pushed to, in memory and in the table.  *)
THEOREM StorePushesContinue == StoreSpec => []PushesContinue
<1>1. StoreInv => PushesContinue
  BY DEF StoreInv
<1> QED
  BY StoreInvariance, <1>1, PTL

(* Committed messages keep their positions.                                *)
THEOREM StoreTableOnlyGrows == StoreSpec => TableOnlyGrows
<1>1. StoreInv /\ [StoreNext]_storeVars =>
        [~wiped' =>
           \A q \in DOMAIN db : q \in DOMAIN db' /\ db'[q] = db[q]]_db
  BY StoreNextIsStep, StoreStepKeepsRows
<1> QED
  BY StoreInvariance, <1>1, PTL DEF StoreSpec, TableOnlyGrows

=============================================================================
