--------------------------- MODULE SubfeedReplica ---------------------------
(***************************************************************************)
(* A subfeed of another node: the writer announces how many messages it    *)
(* has, RemoteSubfeedMessageDownloader fetches what is missing and appends *)
(* it to the local store.                                                  *)
(*                                                                         *)
(* The writer is reduced to the length of its log, which only grows (what  *)
(* Subfeed shows of it).  A process is one run of the download loop of     *)
(* some Subfeed object.  Announcements and answers to subscriptions carry  *)
(* a count, travel as requests of their own, and may arrive late, in any   *)
(* order, or not at all.                                                   *)
(***************************************************************************)
EXTENDS SubfeedStore

CONSTANTS
  MaxWritten,   \* the longest log of the writer (bounds the model)
  Losses        \* how many requests or downloads may fail, or downloads hang
                \* (bounds the model)

ASSUME ReplicaAssumption ==
  /\ MaxWritten \in Nat
  /\ Losses \in Nat
  /\ 1..MaxWritten \subseteq Sig

VARIABLES
  written,      \* how many messages the writer has
  asking,       \* a subscribeToSubfeed request is on its way
  subscribed,   \* the writer has an IncomingSubfeedSubscription
  reports,      \* the counts on their way to this node
  handling,     \* reports waiting for _loadSubfeed: <<count, object>>
  remoteCount,  \* #numRemoteMessages of the downloader of each object
  active,       \* #activeDownload
  gaveUp,       \* its last loop ended in an error (history)
  loop,         \* progress of each run of the loop
  object,       \* the Subfeed object it fills
  from,         \* the position it asked for
  upto,         \* the count up to which it asked
  losses        \* the losses that may still happen

writerVars   == <<written, asking, subscribed, reports>>
downloadVars == <<remoteCount, active, gaveUp, loop, object, from, upto>>
replicaVars  == <<writerVars, handling, downloadVars, losses>>
vars == <<storeVars, replicaVars>>

\* the k-th message of the writer
RemoteMessage(k) ==
  [sig |-> k, num |-> k - 1, prev |-> IF k = 1 THEN NoSig ELSE k - 1]

Init ==
  /\ StoreInit
  /\ key = FALSE
  /\ written = 0
  /\ asking = FALSE
  /\ subscribed = FALSE
  /\ reports = {}
  /\ handling = {}
  /\ remoteCount = [i \in Instance |-> 0]
  /\ active = [i \in Instance |-> FALSE]
  /\ gaveUp = [i \in Instance |-> FALSE]
  /\ loop = [p \in Process |-> "idle"]
  /\ object = [p \in Process |-> NoInstance]
  /\ from = [p \in Process |-> 0]
  /\ upto = [p \in Process |-> 0]
  /\ losses = Losses

Lose == losses > 0 /\ losses' = losses - 1

-----------------------------------------------------------------------------
(* The writer, and the network between the nodes.                          *)

\* a message is appended, and announced to the subscriber
WriterAppends ==
  /\ written < MaxWritten
  /\ written' = written + 1
  /\ reports' = IF subscribed THEN reports \cup {written + 1} ELSE reports
  /\ UNCHANGED <<storeVars, asking, subscribed, handling, downloadVars, losses>>

\* a watch of this node subscribes, unless it did so lately
Renew ==
  /\ ~asking
  /\ asking' = TRUE
  /\ UNCHANGED <<storeVars, written, subscribed, reports, handling,
                 downloadVars, losses>>

\* mutant of HandleSubscribe: the answer carries no count
HandleSubscribeSilently ==
  /\ asking
  /\ asking' = FALSE
  /\ subscribed' = TRUE
  /\ UNCHANGED <<storeVars, written, reports, handling, downloadVars, losses>>

\* the writer remembers the subscriber and answers with its count
HandleSubscribe ==
  /\ asking
  /\ asking' = FALSE
  /\ subscribed' = TRUE
  /\ reports' = reports \cup {written}
  /\ UNCHANGED <<storeVars, written, handling, downloadVars, losses>>

\* nobody renewed the subscription for a minute
Unsubscribe ==
  /\ subscribed
  /\ subscribed' = FALSE
  /\ UNCHANGED <<storeVars, written, asking, reports, handling, downloadVars,
                 losses>>

LoseRequest ==
  /\ Lose
  /\ \/ asking /\ asking' = FALSE /\ UNCHANGED reports
     \/ \E n \in reports : reports' = reports \ {n} /\ UNCHANGED asking
  /\ UNCHANGED <<storeVars, written, subscribed, handling, downloadVars>>

-----------------------------------------------------------------------------
(* FeedManager.reportNumRemoteMessages and _loadSubfeed.                   *)

ReceiveReport(n) ==
  /\ n \in reports
  /\ reports' = reports \ {n}
  /\ \/ /\ current # NoInstance
        /\ handling' = handling \cup {<<n, current>>}
        /\ UNCHANGED storeVars
     \/ \E i \in Instance :
          /\ CreateInstance(i)
          /\ handling' = handling \cup {<<n, i>>}
  /\ UNCHANGED <<written, asking, subscribed, downloadVars, losses>>

Initialize(i) ==
  /\ InitializeStep(i)
  /\ UNCHANGED replicaVars

\* the reports that wait for the object get the error
LoadFails(i) ==
  /\ InitializeFails(i)
  /\ handling' = {h \in handling : h[2] # i}
  /\ UNCHANGED <<writerVars, downloadVars, losses>>

\* the object is never initialised: one report gets the error, the others
\* wait
KeyFails(i) ==
  /\ ReadKeyFails(i)
  /\ \E h \in handling : h[2] = i /\ handling' = handling \ {h}
  /\ UNCHANGED <<writerVars, downloadVars, losses>>

-----------------------------------------------------------------------------
(* RemoteSubfeedMessageDownloader.                                         *)

\* the top of the loop: ask for what is missing of the n local messages, or
\* leave the loop
Top(p, i, n, count) ==
  LET missing == n < count
  IN  /\ loop' = [loop EXCEPT ![p] = IF missing THEN "asked" ELSE "idle"]
      /\ object' = [object EXCEPT ![p] = IF missing THEN i ELSE NoInstance]
      /\ from' = [from EXCEPT ![p] = IF missing THEN n ELSE 0]
      /\ upto' = [upto EXCEPT ![p] = IF missing THEN count ELSE 0]
      /\ active' = [active EXCEPT ![i] = missing]

Leave(p) ==
  /\ loop' = [loop EXCEPT ![p] = "idle"]
  /\ object' = [object EXCEPT ![p] = NoInstance]
  /\ from' = [from EXCEPT ![p] = 0]
  /\ upto' = [upto EXCEPT ![p] = 0]

\* mutant of HandleReport: a loop is started although one is running
HandleReportAnyway(n, i) ==
  /\ <<n, i>> \in handling
  /\ status[i] = "ready"
  /\ handling' = handling \ {<<n, i>>}
  /\ remoteCount' = [remoteCount EXCEPT ![i] = n]
  /\ IF Len(mem[i]) < n
     THEN /\ \E p \in Process : loop[p] = "idle" /\ Top(p, i, Len(mem[i]), n)
          /\ gaveUp' = [gaveUp EXCEPT ![i] = FALSE]
     ELSE UNCHANGED <<active, gaveUp, loop, object, from, upto>>
  /\ UNCHANGED <<storeVars, writerVars, losses>>

\* reportNumRemoteMessages: the last report counts, also when it is older
HandleReport(n, i) ==
  /\ <<n, i>> \in handling
  /\ status[i] = "ready"
  /\ handling' = handling \ {<<n, i>>}
  /\ remoteCount' = [remoteCount EXCEPT ![i] = n]
  /\ IF Len(mem[i]) < n /\ ~active[i]
     THEN /\ \E p \in Process : loop[p] = "idle" /\ Top(p, i, Len(mem[i]), n)
          /\ gaveUp' = [gaveUp EXCEPT ![i] = FALSE]
     ELSE UNCHANGED <<active, gaveUp, loop, object, from, upto>>
  /\ UNCHANGED <<storeVars, writerVars, losses>>

\* what the writer sends, without what has been appended meanwhile
Downloaded(p) ==
  [k \in 1..(upto[p] - Len(mem[object[p]])) |->
     RemoteMessage(Len(mem[object[p]]) + k)]

\* the messages arrive, and are appended.  The checks of the append cannot
\* refuse them (LocalCountStable): no action stands for that
DownloadArrives(p) ==
  /\ loop[p] = "asked"
  /\ StartAppend(p, object[p], Downloaded(p))
  /\ loop' = [loop EXCEPT ![p] = "appending"]
  /\ UNCHANGED <<writerVars, handling, remoteCount, active, gaveUp, object,
                 from, upto, losses>>

\* an error, no answer to the request, or too few messages: the loop ends until
\* the next report
DownloadFails(p) ==
  /\ loop[p] = "asked"
  /\ Lose
  /\ gaveUp' = [gaveUp EXCEPT ![object[p]] = TRUE]
  /\ active' = [active EXCEPT ![object[p]] = FALSE]
  /\ Leave(p)
  /\ UNCHANGED <<storeVars, writerVars, handling, remoteCount>>

\* the end of the stream of messages is never heard of, a message of it being
\* lost or the proxy connection closed.  There is no timeout: the loop waits for
\* ever and #activeDownload stays set
DownloadHangs(p) ==
  /\ loop[p] = "asked"
  /\ Lose
  /\ loop' = [loop EXCEPT ![p] = "hung"]
  /\ UNCHANGED <<storeVars, writerVars, handling, remoteCount, active, gaveUp,
                 object, from, upto>>

WriteCommits(p) ==
  /\ CommitAppend(p)
  /\ UNCHANGED replicaVars

\* the error leaves the loop, and #activeDownload stays set
WriteFails(p) ==
  /\ FailAppend(p)
  /\ gaveUp' = [gaveUp EXCEPT ![object[p]] = TRUE]
  /\ Leave(p)
  /\ UNCHANGED <<writerVars, handling, remoteCount, active, losses>>

\* mutant of WriteReturns: the loop does not look for newer reports
WriteReturnsOnce(p) ==
  /\ FinishAppend(p)
  /\ active' = [active EXCEPT ![object[p]] = FALSE]
  /\ Leave(p)
  /\ UNCHANGED <<writerVars, handling, remoteCount, gaveUp, losses>>

WriteReturns(p) ==
  /\ FinishAppend(p)
  /\ Top(p, object[p], Len(mem[object[p]]) + Len(batch[p]),
         remoteCount[object[p]])
  /\ UNCHANGED <<writerVars, handling, remoteCount, gaveUp, losses>>

-----------------------------------------------------------------------------
(* The rest of the daemon.                                                 *)

EvictSubfeed == Evict /\ UNCHANGED replicaVars

DeleteFeed == (DeleteRows \/ DeleteKey) /\ UNCHANGED replicaVars

Restart ==
  /\ Crash
  /\ handling' = {}
  /\ remoteCount' = [i \in Instance |-> 0]
  /\ active' = [i \in Instance |-> FALSE]
  /\ gaveUp' = [i \in Instance |-> FALSE]
  /\ loop' = [p \in Process |-> "idle"]
  /\ object' = [p \in Process |-> NoInstance]
  /\ from' = [p \in Process |-> 0]
  /\ upto' = [p \in Process |-> 0]
  /\ UNCHANGED <<writerVars, losses>>

Network ==
  \/ WriterAppends
  \/ Renew
  \/ HandleSubscribe
  \/ Unsubscribe
  \/ LoseRequest

DownloadStep(p) ==
  \/ DownloadArrives(p)
  \/ DownloadFails(p)
  \/ DownloadHangs(p)
  \/ WriteCommits(p)
  \/ WriteFails(p)
  \/ WriteReturns(p)

ObjectStep(i) ==
  \/ Initialize(i)
  \/ LoadFails(i)
  \/ KeyFails(i)
  \/ \E n \in 0..MaxWritten : HandleReport(n, i)

Next ==
  \/ Network
  \/ \E n \in 0..MaxWritten : ReceiveReport(n)
  \/ \E i \in Instance : ObjectStep(i)
  \/ \E p \in Process : DownloadStep(p)
  \/ EvictSubfeed
  \/ DeleteFeed
  \/ Restart

Spec == Init /\ [][Next]_vars

\* requests arrive unless they are lost, downloads end unless they hang
\* (DownloadHangs), the event loop runs what is ready, and the client of this
\* node goes on watching, which renews the subscription
Fairness ==
  /\ WF_vars(Renew)
  /\ WF_vars(HandleSubscribe)
  /\ \A n \in 0..MaxWritten :
       /\ WF_vars(ReceiveReport(n))
       /\ \A i \in Instance : WF_vars(HandleReport(n, i))
  /\ \A i \in Instance :
       /\ WF_vars(Initialize(i))
       /\ WF_vars(LoadFails(i))
  /\ \A p \in Process :
       /\ WF_vars(DownloadArrives(p))
       /\ WF_vars(WriteCommits(p) \/ WriteFails(p))
       /\ WF_vars(WriteReturns(p))

FairSpec == Spec /\ Fairness

-----------------------------------------------------------------------------
(* Type invariant of the module.                                           *)
ReplicaTypeOK ==
  /\ StoreTypeOK
  /\ written \in 0..MaxWritten
  /\ asking \in BOOLEAN
  /\ subscribed \in BOOLEAN
  /\ reports \subseteq 0..written
  /\ handling \subseteq (0..written) \X Instance
  /\ remoteCount \in [Instance -> 0..written]
  /\ active \in [Instance -> BOOLEAN]
  /\ gaveUp \in [Instance -> BOOLEAN]
  /\ loop \in [Process -> {"idle", "asked", "hung", "appending"}]
  /\ object \in [Process -> Instance \cup {NoInstance}]
  /\ from \in [Process -> 0..written]
  /\ upto \in [Process -> 0..written]
  /\ losses \in 0..Losses

(* The rows of this node are messages of the writer, each at its place,    *)
(* and never more than the writer has: the copy is a prefix of the log,    *)
(* whatever is lost, repeated, evicted or restarted in between.  (The type *)
(* invariant comes first.)                                                 *)
CopyOfWriter ==
  /\ ReplicaTypeOK
  /\ \A q \in DOMAIN db : q < written /\ db[q] = RemoteMessage(q + 1)

(* "maybe somehow the number of local messages has changed (shouldn't      *)
(* happen though)" (RemoteSubfeedMessageDownloader.ts:43): while messages  *)
(* are being downloaded for an object nothing is appended to it, so that   *)
(* appendSignedMessages accepts them all when they come.                   *)
LocalCountStable ==
  \A p \in Process : loop[p] = "asked" =>
    /\ Len(mem[object[p]]) = from[p]
    /\ ~appending[object[p]]

(* A downloader that rests has all it was told of: a report that arrives   *)
(* during a download is not forgotten.  (gaveUp: the last loop failed, and *)
(* nobody has reported since.)                                             *)
RestingMeansCaughtUp ==
  \A i \in Instance :
    status[i] = "ready" /\ ~active[i] /\ ~gaveUp[i]
      => Len(mem[i]) >= remoteCount[i]

(* The object downloads nothing any more: the stream of its download does  *)
(* not end, or the messages that came could not be stored.                 *)
Stuck(i) == \/ \E p \in Process : object[p] = i /\ loop[p] = "hung"
            \/ active[i] /\ gaveUp[i]

(* While the client watches, every message of the writer gets here in the  *)
(* end, although requests and downloads fail, reports overtake each other, *)
(* and through a restart of this node; unless the object is stuck for      *)
(* good, which only a restart (or an eviction) repairs, as no download has *)
(* a timeout and no error of an append is caught in the loop.              *)
CatchesUp ==
  <>[](\A i \in Instance : ~Stuck(i))
    => \A n \in 1..MaxWritten : written >= n ~> Cardinality(DOMAIN db) >= n

=============================================================================
