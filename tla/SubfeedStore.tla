---------------------------- MODULE SubfeedStore ----------------------------
(***************************************************************************)
(* One subfeed of one node: the rows of the feeds database, the Subfeed    *)
(* objects that cache them in memory, and the two-phase append (database   *)
(* first, memory afterwards) by which signed messages get into both.       *)
(*                                                                         *)
(* The module knows nothing of who appends: Subfeed.tla (a writeable feed, *)
(* messages signed here) and SubfeedReplica.tla (messages downloaded from  *)
(* the writer) extend it with their callers.  Taken alone it is driven by  *)
(* callers that may hand over any batch of Batch at any time.              *)
(*                                                                         *)
(* Every access to the database is one action: LocalFeedsDatabase holds    *)
(* its lock from open to close and writes in one transaction.  The schema  *)
(* cascades from feeds to subfeeds to messages, but PRAGMA foreign_keys    *)
(* is issued on the connection that creates the tables and every later     *)
(* call opens its own; whether those enforce foreign keys is the default   *)
(* of the SQLite build (off, unless it was compiled otherwise).            *)
(***************************************************************************)
EXTENDS Integers, Sequences, FiniteSets

CONSTANTS
  Process,     \* the asynchronous calls that may append
  Instance,    \* Subfeed objects the process creates in its lifetime
  Sig,         \* signatures that verify under the key of the feed
  NoSig,       \* previousSignature of the first message
  NoInstance,  \* no object in the map / no object used
  ForeignKeys, \* whether connections enforce foreign keys by default
  Batch,       \* arrays of signed messages a caller may hand over
  Budget       \* how often each fault may happen (bounds the model)

Message == [sig : Sig, num : Nat, prev : Sig \cup {NoSig}]

Fault == {"crash", "dbError", "keyError", "evict", "delete"}

ASSUME StoreAssumption ==
  /\ NoSig \notin Sig
  /\ NoInstance \notin Instance
  /\ ForeignKeys \in BOOLEAN
  /\ Batch \subseteq Seq(Message)
  /\ Budget \in [Fault -> Nat]

VARIABLES
  key,        \* the private key of the feed is in the feeds config
  feedRow,    \* the feeds table has a row for the feed
  db,         \* the subfeedMessages table: position -> signed message
  wiped,      \* a cascade has removed messages (history)
  deletion,   \* progress of a deleteFeed: "none", "running", "over"
  current,    \* FeedManager.#subfeeds: the object the map holds
  status,     \* how far the initialisation of each object has come
  writeable,  \* Subfeed.#isWriteable
  mem,        \* LocalSubfeedSignedMessagesManager.#signedMessages
  appending,  \* LocalSubfeedSignedMessagesManager.#appending
  stage,      \* how far the append of each process has come
  target,     \* the object it appends to
  batch,      \* the messages it appends
  budget      \* the faults that may still happen

persistent == <<key, feedRow, db, wiped, deletion>>
objects    == <<current, status, writeable, mem, appending>>
transfers  == <<stage, target, batch>>
storeVars  == <<persistent, objects, transfers, budget>>

Statuses == {"unborn", "fresh", "stuck", "keyed", "reading", "loaded",
             "empty", "ready"}

-----------------------------------------------------------------------------
(* Signed messages.  Positions count from 0 in the database, as in the     *)
(* code; arrays are sequences, so element k of an array has number k - 1.  *)

LastSig(s) == IF s = << >> THEN NoSig ELSE s[Len(s)].sig

\* b continues the chain of signatures and numbers that s ends with
Extends(s, b) ==
  \A k \in 1..Len(b) :
    /\ b[k].num = Len(s) + k - 1
    /\ b[k].prev = IF k = 1 THEN LastSig(s) ELSE b[k - 1].sig

\* the part of b that is not in s already, going by the first number
Unseen(s, b) ==
  IF b # << >> /\ b[1].num < Len(s)
  THEN SubSeq(b, Len(s) - b[1].num + 1, Len(b))
  ELSE b

\* s holds what the table holds at positions 0, 1, ... Len(s) - 1
IsPrefixOfTable(s, table) ==
  \A k \in 1..Len(s) : (k - 1) \in DOMAIN table /\ table[k - 1] = s[k]

\* the table can be read back: no gaps, and the chain verifies
ReadableTable(table) ==
  \A p \in DOMAIN table :
    /\ table[p].num = p
    /\ 0..p \subseteq DOMAIN table
    /\ table[p].prev = IF p = 0 THEN NoSig ELSE table[p - 1].sig

-----------------------------------------------------------------------------
StoreInit ==
  /\ \/ key = TRUE  /\ feedRow = TRUE     \* createFeed has returned
     \/ key = FALSE /\ feedRow = FALSE    \* a feed of another node
  /\ db = [p \in {} |-> NoSig]
  /\ wiped = FALSE
  /\ deletion = "none"
  /\ current = NoInstance
  /\ status = [i \in Instance |-> "unborn"]
  /\ writeable = [i \in Instance |-> FALSE]
  /\ mem = [i \in Instance |-> << >>]
  /\ appending = [i \in Instance |-> FALSE]
  /\ stage = [p \in Process |-> "none"]
  /\ target = [p \in Process |-> NoInstance]
  /\ batch = [p \in Process |-> << >>]
  /\ budget = Budget

Spend(f) == budget[f] > 0 /\ budget' = [budget EXCEPT ![f] = @ - 1]

-----------------------------------------------------------------------------
(* FeedManager._loadSubfeed and Subfeed.initialize.                        *)

\* the map has no entry: construct the object and put it there first
CreateInstance(i) ==
  /\ current = NoInstance
  /\ status[i] = "unborn"
  /\ current' = i
  /\ status' = [status EXCEPT ![i] = "fresh"]
  /\ UNCHANGED <<persistent, writeable, mem, appending, transfers, budget>>

\* getPrivateKeyForFeed answers; initialize(privateKey) starts
ReadKey(i) ==
  /\ status[i] = "fresh"
  /\ status' = [status EXCEPT ![i] = "keyed"]
  /\ UNCHANGED <<persistent, current, writeable, mem, appending, transfers,
                 budget>>

\* getPrivateKeyForFeed throws, outside the try block: the object stays in
\* the map and is never initialised
ReadKeyFails(i) ==
  /\ status[i] = "fresh"
  /\ Spend("keyError")
  /\ status' = [status EXCEPT ![i] = "stuck"]
  /\ UNCHANGED <<persistent, current, writeable, mem, appending, transfers>>

\* feedExistsLocally answers
CheckExists(i) ==
  /\ status[i] = "keyed"
  /\ status' = [status EXCEPT ![i] = IF feedRow THEN "reading" ELSE "empty"]
  /\ UNCHANGED <<persistent, current, writeable, mem, appending, transfers,
                 budget>>

\* mutant of ReadMessages: the last row is not read
ReadMessagesButLast(i) ==
  /\ status[i] = "reading"
  /\ ReadableTable(db)
  /\ mem' = [mem EXCEPT ![i] =
               [k \in 1..(Cardinality(DOMAIN db) - 1) |-> db[k - 1]]]
  /\ status' = [status EXCEPT ![i] = "loaded"]
  /\ UNCHANGED <<persistent, current, writeable, appending, transfers, budget>>

\* initializeFromLocal: all rows in order, verified before they are kept
ReadMessages(i) ==
  /\ status[i] = "reading"
  /\ ReadableTable(db)
  /\ mem' = [mem EXCEPT ![i] =
               [k \in 1..Cardinality(DOMAIN db) |-> db[k - 1]]]
  /\ status' = [status EXCEPT ![i] = "loaded"]
  /\ UNCHANGED <<persistent, current, writeable, appending, transfers, budget>>

\* hasWriteableFeed answers (and the access rules are read)
CheckWriteable(i) ==
  /\ status[i] = "loaded"
  /\ writeable' = [writeable EXCEPT ![i] = key /\ feedRow]
  /\ status' = [status EXCEPT ![i] = "ready"]
  /\ UNCHANGED <<persistent, current, mem, appending, transfers, budget>>

\* the feed is not in the database: the list starts empty.  The rows are
\* read all the same, but the assert on them only prints
FinishEmpty(i) ==
  /\ status[i] = "empty"
  /\ status' = [status EXCEPT ![i] = "ready"]
  /\ UNCHANGED <<persistent, current, writeable, mem, appending, transfers,
                 budget>>

\* the object is forgotten, with whatever the map holds under this key
DropFailed(i) ==
  /\ status' = [status EXCEPT ![i] = "unborn"]
  /\ mem' = [mem EXCEPT ![i] = << >>]
  /\ current' = NoInstance
  /\ UNCHANGED <<persistent, writeable, appending, transfers>>

\* initialize throws: the rows do not verify, or a database call fails
InitializeFails(i) ==
  \/ /\ status[i] = "reading"
     /\ ~ReadableTable(db)
     /\ DropFailed(i)
     /\ UNCHANGED budget
  \/ /\ status[i] \in {"keyed", "reading", "loaded", "empty"}
     /\ Spend("dbError")
     /\ DropFailed(i)

InitializeStep(i) ==
  ReadKey(i) \/ CheckExists(i) \/ ReadMessages(i) \/ CheckWriteable(i)
    \/ FinishEmpty(i)

\* GarbageMap drops the entry by age; calls in progress keep the object
Evict ==
  /\ current # NoInstance
  /\ \E i \in Instance : status[i] = "unborn"
  /\ Spend("evict")
  /\ current' = NoInstance
  /\ UNCHANGED <<persistent, status, writeable, mem, appending, transfers>>

-----------------------------------------------------------------------------
(* Subfeed.appendSignedMessages and the manager below it.                  *)

\* the checks that precede the first await
Accepts(i, new) ==
  /\ Extends(mem[i], new)
  /\ new[1].num = IF mem[i] = << >> THEN 0 ELSE mem[i][Len(mem[i])].num + 1
  /\ ~appending[i]

\* up to the call of the database: new is b without what is known already
StartAppend(p, i, b) ==
  LET new == Unseen(mem[i], b)
  IN  /\ status[i] = "ready"
      /\ stage[p] = "none"
      /\ new # << >>
      /\ Accepts(i, new)
      /\ appending' = [appending EXCEPT ![i] = TRUE]
      /\ stage' = [stage EXCEPT ![p] = "sent"]
      /\ target' = [target EXCEPT ![p] = i]
      /\ batch' = [batch EXCEPT ![p] = new]
      /\ UNCHANGED <<persistent, current, status, writeable, mem, budget>>

Positions(b) == {b[k].num : k \in 1..Len(b)}

\* mutant of Insert: rows are written one position too low
InsertShifted(table, b) ==
  [q \in DOMAIN table \cup {n - 1 : n \in Positions(b)} |->
     IF q \in DOMAIN table THEN table[q] ELSE b[q - b[1].num + 2]]

\* the rows of b added to those of the table, each at its own number
Insert(table, b) ==
  [q \in DOMAIN table \cup Positions(b) |->
     IF q \in DOMAIN table THEN table[q] ELSE b[q - b[1].num + 1]]

\* mutant of Collides: rows that are there already are left out of the insert
CollidesNever(b) == FALSE

\* the primary key (feedId, subfeedHash, position) rejects the transaction
Collides(b) == Positions(b) \cap DOMAIN db # {}

\* appendSignedMessagesToSubfeed commits; the feed row is made if missing
CommitAppend(p) ==
  LET b == batch[p]
  IN  /\ stage[p] = "sent"
      /\ ~Collides(b)
      /\ db' = Insert(db, b)
      /\ feedRow' = TRUE
      /\ stage' = [stage EXCEPT ![p] = "stored"]
      /\ UNCHANGED <<key, wiped, deletion, objects, target, batch, budget>>

EndTransfer(p) ==
  /\ stage' = [stage EXCEPT ![p] = "none"]
  /\ target' = [target EXCEPT ![p] = NoInstance]
  /\ batch' = [batch EXCEPT ![p] = << >>]

\* the write throws, and #appending of the object stays set.  The feed row
\* is made before the transaction begins, and stays
FailAppend(p) ==
  /\ stage[p] = "sent"
  /\ \/ /\ Collides(batch[p])
        /\ feedRow' = TRUE
        /\ UNCHANGED budget
     \/ /\ Spend("dbError")
        /\ feedRow' \in {feedRow, TRUE}
  /\ EndTransfer(p)
  /\ UNCHANGED <<key, db, wiped, deletion, objects>>

\* after the await: the messages become visible in memory
FinishAppend(p) ==
  /\ stage[p] = "stored"
  /\ mem' = [mem EXCEPT ![target[p]] = @ \o batch[p]]
  /\ appending' = [appending EXCEPT ![target[p]] = FALSE]
  /\ EndTransfer(p)
  /\ UNCHANGED <<persistent, current, status, writeable, budget>>

-----------------------------------------------------------------------------
(* Removal of rows, and restart of the daemon.                             *)

\* the messages below a row that goes, when foreign keys are enforced
Cascade ==
  IF ForeignKeys
  THEN /\ db' = [p \in {} |-> NoSig]
       /\ wiped' = (wiped \/ DOMAIN db # {})
  ELSE UNCHANGED <<db, wiped>>

\* setSubfeedAccessRules: INSERT OR REPLACE takes the old row of the subfeed
\* out before it puts the new one in
SetAccessRules(i) ==
  /\ status[i] = "ready"
  /\ writeable[i]
  /\ feedRow' = TRUE
  /\ Cascade
  /\ UNCHANGED <<key, deletion, objects, transfers, budget>>

\* deleteFeed: first the feed row ...
DeleteRows ==
  /\ deletion = "none"
  /\ Spend("delete")
  /\ feedRow' = FALSE
  /\ Cascade
  /\ deletion' = "running"
  /\ UNCHANGED <<key, objects, transfers>>

\* ... then the config; the object in memory is not touched
DeleteKey ==
  /\ deletion = "running"
  /\ key' = FALSE
  /\ deletion' = "over"
  /\ UNCHANGED <<feedRow, db, wiped, objects, transfers, budget>>

\* the daemon stops and starts again: only the database and the config stay
Crash ==
  /\ Spend("crash")
  /\ deletion' = IF deletion = "running" THEN "over" ELSE deletion
  /\ current' = NoInstance
  /\ status' = [i \in Instance |-> "unborn"]
  /\ writeable' = [i \in Instance |-> FALSE]
  /\ mem' = [i \in Instance |-> << >>]
  /\ appending' = [i \in Instance |-> FALSE]
  /\ stage' = [p \in Process |-> "none"]
  /\ target' = [p \in Process |-> NoInstance]
  /\ batch' = [p \in Process |-> << >>]
  /\ UNCHANGED <<key, feedRow, db, wiped>>

-----------------------------------------------------------------------------
LifeCycle(i) ==
  \/ CreateInstance(i)
  \/ InitializeStep(i)
  \/ ReadKeyFails(i)
  \/ InitializeFails(i)

AppendStep(p) ==
  \/ \E i \in Instance, b \in Batch : StartAppend(p, i, b)
  \/ CommitAppend(p)
  \/ FailAppend(p)
  \/ FinishAppend(p)

StoreNext ==
  \/ \E i \in Instance : LifeCycle(i) \/ SetAccessRules(i)
  \/ \E p \in Process : AppendStep(p)
  \/ Evict
  \/ DeleteRows
  \/ DeleteKey
  \/ Crash

StoreSpec == StoreInit /\ [][StoreNext]_storeVars

-----------------------------------------------------------------------------
\* the fault f has not happened so far
Spared(f) == budget[f] = Budget[f]

(* Type invariant of the store.                                            *)
StoreTypeOK ==
  /\ key \in BOOLEAN
  /\ feedRow \in BOOLEAN
  /\ DOMAIN db \subseteq Nat
  /\ IsFiniteSet(DOMAIN db)
  /\ \A p \in DOMAIN db : db[p] \in Message
  /\ wiped \in BOOLEAN
  /\ deletion \in {"none", "running", "over"}
  /\ current \in Instance \cup {NoInstance}
  /\ status \in [Instance -> Statuses]
  /\ writeable \in [Instance -> BOOLEAN]
  /\ mem \in [Instance -> Seq(Message)]
  /\ appending \in [Instance -> BOOLEAN]
  /\ stage \in [Process -> {"none", "sent", "stored"}]
  /\ target \in [Process -> Instance \cup {NoInstance}]
  /\ batch \in [Process -> Seq(Message)]
  /\ budget \in [Fault -> Nat]

(* The table can always be read back by a later initializeFromLocal: the   *)
(* positions have no gap and every message carries the signature of the    *)
(* one before it, whatever callers, objects and failures were involved.    *)
(* (Here and below: unless a cascade took rows from under the objects.)    *)
DatabaseReadable == ~wiped => ReadableTable(db)

(* An initialised object never shows a message the database does not hold  *)
(* at that position: memory may lag behind the table, it cannot fork from  *)
(* it, also when several objects of the same subfeed are alive.            *)
MemoryIsPrefix ==
  ~wiped =>
    \A i \in Instance : IsPrefixOfTable(mem[i], db)

(* Between the commit and the push into memory the object is still exactly *)
(* as long as when the batch was checked, so the push neither repeats nor  *)
(* skips a message.                                                        *)
PushesContinue ==
  ~wiped =>
    \A p \in Process : stage[p] = "stored" =>
      IsPrefixOfTable(mem[target[p]] \o batch[p], db)

(* At most one append of an object is between the check of its batch and   *)
(* the push into memory, so the batch checked against memory is still the  *)
(* continuation of memory when it is pushed.                               *)
AppendsExclude ==
  \A p, q \in Process :
    p # q /\ stage[p] # "none" /\ stage[q] # "none" => target[p] # target[q]

(* The table only grows: a committed message keeps its position and its    *)
(* contents through evictions, restarts and failed writes.                 *)
TableOnlyGrows ==
  [][~wiped' =>
       \A q \in DOMAIN db : q \in DOMAIN db' /\ db'[q] = db[q]]_db

=============================================================================
