# Verification of the kachery-p2p daemon

TLA+ modules of the kachery-p2p daemon (`src/daemon/src`), the TLC
configurations that check small instances of them, and TLAPS proofs that hold
for every instance. `PROJECT.json` lists the components, the runs, the lines of
code behind each definition, the hazards and the theorems.

Paths below are relative to `src/daemon/src` unless they begin with `src/`.

## 1. The system

A daemon is one Node.js process. Its concurrency is that of the event loop:
code between two `await`s is atomic, and everything else interleaves. Nodes
talk by requests over http, websockets or udp. Every node keeps files (by their
hash) and *feeds*: append-only logs, divided into *subfeeds*, whose messages are
signed and chained by the holder of the feed's private key (the *writer*) and
may be copied by any node.

| Component | State | Operations | Talks to | Hard behaviour |
|---|---|---|---|---|
| `external/real/LocalFeedsDatabase.ts` | tables of feeds, subfeeds and messages; one lock | addFeed, deleteFeed, append, read, access rules | `LocalFeedManager` | transactions that fail, cascades that depend on the connection, restarts |
| `feeds/LocalSubfeedSignedMessagesManager.ts` | the messages in memory, `#appending` | initialize, append | database, `Subfeed` | two-phase append: database, then memory |
| `feeds/Subfeed.ts` | one object per subfeed in use: mutex, listeners, writeable or not | initialize, append (signed here or elsewhere), wait | `FeedManager`, downloader | objects dropped while in use, lost wake-ups |
| `feeds/FeedManager.ts` | the map of `Subfeed` objects | create, delete, append, watch, access rules | all of the above | concurrent loads, failed loads, deletion under use |
| `feeds/*SubscriptionManager.ts`, `RemoteSubfeedMessageDownloader.ts`, `RemoteFeedManager.ts` | subscriptions on both sides, the writer's count, the download loop | subscribe, renew, report, download | other nodes | lost and overtaking reports, reports during a download |
| `common/DataStreamy.ts` | chunks and the end of one stream | produce (ordered or not), consume, cancel | all transfers | chunks and the end out of order, late consumers |
| `udp/UdpCongestionManager.ts` | queue, trial counters, rate, latency | send, confirm, time out | `UdpPacketSender` | outcomes after the trial they belong to |
| `udp/*`, `services/PublicUdpSocketServer.ts` | packets sent and seen, parts of messages | request, response, stream messages | other nodes | loss, duplication, reordering, fallback |
| `downloadOptimizer/*`, `loadFile.ts` | jobs, tasks, provider nodes; chunks of a file | download, retry, cancel, concatenate | streams, storage | slots kept for ever, errors lost |
| `external/real/kacheryStorage/*` | files by hash | store, link, concatenate, read | disk | equal content stored at once, a rename before the last write, restarts |
| `mutables/*` | key-value table and a cache | get, set, delete | database | cache and table updated in two steps |
| `proxyConnections/*` | requests and streams over one websocket | request, stream, cancel, close | other nodes | answers after the timeout, closing in between |
| `RemoteNode*.ts`, `methodOptimizers/*` | information about other nodes and its age, online flags, health of methods | choose a way, send to all, prune | all requests | late outcomes overwrite newer ones, old information passed on |
| `services/*`, `nodeToNodeRequestHandlers/*` | little | periodic probes, announcements and questions, API, dispatch | everything | rounds that leave out who is offline |

What makes them correct:

* **Feeds.** The table can always be read back; what an object shows is in the
  table; no message that was acknowledged is lost and none is added twice;
  every call ends; no watcher sleeps although there is news; committed messages
  are announced.
* **Replication.** The copy is a prefix of the writer's log, and reaches it in
  the end.
* **Streams.** All chunks, in order, once, before the word "finished"; one
  outcome.
* **Udp.** The counters agree with the packets, the queue never gets stuck; a
  request is executed at most once and answered only if it was.
* **Downloads and storage.** A reader hears one outcome, "finished" only when the
  file is stored; slots are kept and given back; what is put in place is complete,
  is what its name says and is never replaced.
* **Proxies.** Two nodes use one live connection and find a new one when it
  breaks; requests and streams over it keep what `RemoteCall` and `OrderedStream`
  promise.
* **Remote nodes.** Information about a node is never replaced by an older one, a
  node that can be reached is found again, and one that has gone is forgotten.

## 2. Modules

| Module | Models | State and actions in the code |
|---|---|---|
| `SubfeedStore` | one subfeed of one node: rows, `Subfeed` objects, initialisation, append, eviction, deletion, restart | `db` is the table; `mem` and `appending` are `#signedMessages` and `#appending` of each object; `current` is the entry of `FeedManager.#subfeeds`. One action per database call, as the database lock is held from open to close |
| `Subfeed` | `FeedManager` and the callers of a writeable feed; extends `SubfeedStore` | `pc`: appendMessages between its awaits; `mutex`: `#mutex` with its queue; `notify`: the `nextTick` callbacks; `wpc`: watchForNewMessages |
| `FeedLog` | what a writeable subfeed promises: an atomic log | implemented by `Subfeed`: the log is the table in order |
| `SubfeedReplica` | a copy of a subfeed of another node; extends `SubfeedStore` | `reports`: requests that carry a count; `loop`: `_startDownload` between its awaits; `active`: `#activeDownload`. The writer is its length |
| `DataStream` | sender of a stream, network, `DataStreamy`, consumer | `last`, `waiting`, `endCount`: the fields of unordered data; `pending`, `discarding`: the chunks that wait for a consumer and the timer that drops them; `dropped` remembers that it did |
| `OrderedStream` | what a stream promises: all chunks in order before the word that it is finished, or none of them (`DropAll`) | implemented by `DataStream` and by the stream in `ProxyConnection` |
| `UdpCongestionManager` | one congestion manager and its packets | `trial`: `#currentTrialData`; `HandleNextPackets` is the loop of `_handleNextPacket` that ends every handler |
| `UdpRequest` | a request and its response over udp with the fallback | `out`: the progress of each packet at its sender; `seen`, `parts`: the receiver; `client`: the caller |
| `RemoteCall` | what a request promises: at most once | implemented by `UdpRequest` and by the request in `ProxyConnection` |
| `ProxyConnection` | a node, its proxy and the websockets between them: handshake, registration, retries, a request either way, a stream with cancellation | `link`, `inbox`: a websocket and its messages; `end`: `#initialized` and `#closed` of the two `ProxyWebsocketConnection`s; `registered`: the entries in `KacheryP2PNode`; `failedLately`: `ProxyClientManager`'s pause; `online`: what `ProxyClientService` asks of the `RemoteNode` before it tries |
| `DownloadOptimizer` | tasks, jobs, slots, search, downloaders, retries and timers | `jobs`, `tasks`: the maps; `job`: the fields of each `DownloadOptimizerJob`, forgotten or not; `scheduled`: `#updateScheduled` |
| `KacheryStorage` | the directory of files and the calls that put files there | `dest`: what is at the path of a file; `call`: a call between its awaits with its temporary file |
| `LoadFile` | readers that load a file of several chunks; extends `KacheryStorage` | `load`: where `loadFileWithManifest` is, and what its stream has told |
| `FileLoad` | what loading a file promises | implemented by `LoadFile` |
| `RemoteNodes` | `RemoteNodeManager` and the `RemoteNode`s of one node, the rounds of `BootstrapService`, `AnnounceService` and `DiscoverService`, the handlers of announce, getChannelInfo and checkAlive, the choice of the method | `remote`: information, its age and the online flag; `requests`: sent and waiting requests, with the answers that are on their way; `told`: what the other nodes know |
| `MC*` | instances for TLC (the other modules are instantiated by their `.cfg`) | |
| `*_proofs` | theorems and proofs, of one component each but for `Udp_proofs` (congestion and requests) and `Transfer_proofs` (streams and downloads) | the modules they extend; to be extended together, `UdpCongestionManager` and `DataStream` name what every specification has with a prefix (`CongestionSpec`, `StreamSpec`) |

How they fit together. `LoadFile` composes the storage with its callers: the
readers and the clients that store files. Its fetching step is what
`DownloadOptimizer` does (data arrive and are stored, an error comes, or nothing
ever does); the transfer
inside a download is the promise of `OrderedStream`, which is shown for streams
over udp and over proxies; both rest on requests that are `RemoteCall`s, whose
method `RemoteNodes` chooses. `SubfeedReplica` and `Subfeed` share `SubfeedStore`.
The modules are checked one by one and not as one system.

Operators whose comment begins with "mutant of" are wrong variants of the
operator that follows: each property is known to fail when one of them takes
the place of the right one. They are used by nothing.

### Abstractions

* A signature is a model value (`Sig`): messages signed by the key of the feed.
  Contents, access rules and timestamps of messages are left out.
* Messages are numbered from 0 in tables, as in the code; arrays are sequences
  and begin with 1.
* Whether foreign keys are enforced on the connection that deletes a feed
  depends on the SQLite build, as the code sets the pragma only on the
  connection that creates the tables. The runs have `ForeignKeys = FALSE`; the
  proofs about the store cover both values.
* The console.assert of `feeds/Subfeed.ts:75` prints and goes on.
* Faults of the feeds (restart, failed database call, unreadable key, eviction,
  deletion) happen at any time, as often as `Budget` says; those of the storage
  as often as `MaxFaults`, transfers fail or hang as often as `Failures` (lost
  requests and downloads of a replica: `Losses`), entries
  that are too old for their `GarbageMap` as often as `Expiries`, connections
  break as often as `Breaks`.
* A packet counts as one unit of size; the rates of the congestion manager are
  levels a factor of 1.2 apart; the new estimate of the latency is any value
  within its bounds; time passes in ticks and due timers fire before the next.
* Datagrams are a set: each may arrive any number of times, in any order, or
  never. The congestion manager is any order of sending in `UdpRequest`.
* The expiry of the maps of seen packets and parts (minutes) is not modelled in
  `UdpRequest`, where a request lasts seconds.
* Of a file we keep whether its content is what its name says, a part of that, or
  something else. `storeFile` does not compare, so that wrong content from another
  node can be put in place of a chunk; the concatenation compares.
* Transfers in `SubfeedReplica`, `DownloadOptimizer` and `LoadFile` are one step:
  they succeed, fail or never end. The last is what a lost message of a stream
  (`StreamEnds`) and a closed proxy connection (`ProxyStreamEnds`) lead to, as
  nobody who reads a `DataStreamy` has a timeout. These steps (`DownloadHangs`,
  `DownloaderHangs`, `FetchHangs`) count as faults, and no fairness is assumed that
  would make a transfer end once it hangs. Which of several
  providers is the fastest is a choice.
* The proxy is taken to be online as requests of the client succeed and fail:
  those over the connection are modelled, those on other ways (http, udp), and the
  address of the proxy that comes and expires, are `OtherRequest`, at any time.
* A websocket keeps the order of its messages; when it closes, each side hears
  of it on its own and the messages on their way are lost or not. A signature of
  the first message is good or bad.
* In `RemoteNodes` time is the age of information in units of which a lifetime has
  a few. Requests last much shorter than a unit (`Tick` waits for them), requests
  of one kind to one node in one state are one, and one response with information
  is on its way at a time, all of whose nodes are taken in one step. There is one
  channel. The bootstrap nodes can be reached by http and, where this node has it
  too, by udp.

## 3. Runs

| Run | Question | Bounds | States |
|---|---|---|---|
| `subfeed_safety` | is a subfeed the log `FeedLog`, and can its table always be read back? do writers hold the lock, does memory agree with the table? | 3 appends of 0 to 2 messages, 2 objects, each fault once | 568 000 |
| `subfeed_live` | do all calls end, is no wake-up lost, are committed messages announced? | 2 appends, 1 watch, 2 objects; restart, database error, eviction | 186 000 |
| `replica_safety` | is the copy a prefix of the writer's log, is nothing appended under a download? | 1 message, 2 loops, 2 objects; a loss and each fault once | 1 909 000 |
| `replica_live` | does the copy catch up, is no report forgotten? | 2 messages, 2 loops; a loss, a restart, a database error | 168 000 |
| `stream` | order, completeness, one outcome, an end; is a stream an `OrderedStream`? | up to 4 chunks, any loss, a consumer at any time | 10 700 |
| `udp_congestion` | are the counters exact, is the window kept across trials, does every packet get an outcome? | 4 packets, windows of 1 or 2, trials of 4 ticks | 143 000 |
| `udp_request` | at most once, nothing lost in silence; is a request a `RemoteCall`? | request and response of 2 packets each, any loss, fallback may fail | 130 000 |
| `proxy` | do both sides use one connection and find the next one? are requests and streams over it `RemoteCall`s and `OrderedStream`s? | 2 connections at a time, 1 failure, a request from either side, up to 2 chunks, a proxy taken to be online or not | 367 000 |
| `download` | are slots kept, is "finished" true, is nobody forgotten, do tasks end? | 2 tasks, 2 files, 2 providers, 1 slot, 1 retry, 1 transfer that fails or hangs, 1 expiry | 334 000 |
| `load` | are files in place whole and never replaced? are the chunks there to concatenate? is a load a `FileLoad`, and does it end? | 2 chunks, 1 reader, 1 client, 3 faults or restarts | 53 000 |
| `load_cut` | is a file in place whole when nobody writes it? It is not: section 4 | 1 chunk, 1 fault | |
| `nodes` | is information never replaced by an older one, are nodes found and forgotten? | 1 bootstrap node, 1 peer with udp or no address, lifetime 1, 1 request when a service sends one | 51 000 |

Some properties excuse a fault, in their own words. `Spared(f)` says that the
fault `f` has not happened so far. The others name the cases in which the code
really waits for ever, and each of these happens in the run:

* `CatchesUp` and `Stuck(i)`: a download of object `i` hangs, or the messages it
  brought could not be stored, which leaves `#activeDownload` set. The property is
  about the behaviours in which no object stays stuck from some time on; a restart
  or an eviction repairs it.
* `TasksEnd` and `Blocked(t)`: a job that waits for its named node (`StuckJob`) or
  whose transfer hangs is the job of task `t` or holds a slot; and `expiries`.
* `LoadEnds`, `failed` and `"hung"`: the concatenation failed, or the download of a
  chunk or of the manifest never ends.
* `ProxyStreamEnds`: the connection of the stream has closed or the client could not
  open the file. `StreamEnds`: a message of the stream was lost.
* `Reconnects`: the client does not go on taking the proxy to be online.

`SlotsBound` counts what the code counts, the running entries of `#jobs`, and also
the downloads somebody waits for, until an entry expires. It does not bound the
downloads that go on after all their readers have cancelled (section 4).

Why the bounds are enough. Two objects are what a stale object needs: one that
is in the map and one that was dropped; a third repeats the second. Two appends
are the fewest that can fork or overtake, three are used where the order of the
lock's queue matters. Batches of two messages tell a batch from a message and
chain inside it. Up to four chunks let two gaps be open at once. Four packets
fill the two windows of two that the reset of a trial allows at most. Two
packets per message make a message incomplete in either part. Two tasks share a
job or compete for the one slot, and two providers let one fail or be named while
the other delivers. Two chunks tell the last chunk from one before it; a reader
and a client store one file at once, by different operations; and three faults
let a load fail, restart and fail otherwise. Two connections let the old one
close while the new one is tried; a slot that is over is used again, so that the
number of connections in sequence is not bounded. One bootstrap node and one
peer make every way of a request that the code knows (http, udp, over the proxy,
none); the age in `nodes` is fresh, old or expired. The proofs below hold for any
number of all these.

Deadlock is checked in `replica_live` and `nodes`: elsewhere the system may
really rest, for example when all its callers have ended (each configuration
says so).

### Fairness

* `subfeed_live`: the event loop runs every call that can go on, the database
  answers or throws, queued callbacks and timers fire. Weak fairness of each of
  these steps is what Node.js gives. Clients need not call, and faults need not
  happen. The fault "key cannot be read" is excluded: the code then waits for
  ever (hazard at `feeds/FeedManager.ts:293`).
* `replica_live`: in addition, requests arrive unless they are lost, a download that
  does not hang ends, and a client of the reading node goes on watching, so that
  `Renew` happens again and again. Without it the code promises nothing: a
  subscription is renewed by watches only, and a lost report is not repeated.
* `stream`: messages that are not lost arrive, the timers that notify a late
  consumer and drop what nobody took fire, and the consumer registers, sooner or
  later.
* `udp_congestion`: time passes and the timers of packets fire. Nothing else is
  needed: a confirmation need not come.
* `udp_request`: timers fire, a fallback request is answered or fails, and
  `sendPackets` goes on when a packet it waits for is settled; no datagram need
  arrive.
* `proxy`: `ProxyClientService` keeps trying, each side reads the messages of an
  open websocket and hears of its closing, timers fire, and the client's stream
  goes on once it is open. Connections need not break and nobody need cancel.
  Nothing makes the client take its proxy to be online, and the loop leaves it out
  while it does not: that it does so from some time on is a condition of
  `Reconnects`.
* `download`: the scheduled update runs, a running job searches, its timers fire,
  and a transfer that does not hang ends and is stored. Readers need not come or
  cancel.
* `load`: a load goes on: data arrive unless the download hangs, writes, renames and
  the concatenation end or fail; so do the calls of clients.
* `nodes`: the loops of the services, the timers, the clock and the requests go
  on, and the other nodes announce themselves to the bootstrap nodes. Strong
  fairness is used for what competes with other rounds or with the network going
  up and down: each round visits a node again and again, and a request that finds
  its way open again and again is answered. The network itself is not fair.

## 4. Where code and documentation differ

* `load_cut` (`external/real/kacheryStorage/KacheryStorageManager.ts:138`):
  `storeFileFromStream` renames the temporary file when the incoming stream ends,
  while the write stream may still hold data. After a restart at that moment a
  part of the file keeps the name of the whole, and the comment at line 132 ("we
  already have the file and we are good") makes every later call take it.

Seen while modelling, and part of the models or of the words of a property, but
not the subject of a run:

* A `Subfeed` object is dropped from its map by age while a call still uses it;
  the object that replaces it misses what the first one writes, and its next
  append fails (`feeds/FeedManager.ts:275`; the comment at line 311 calls the
  agreement of memory and database crucial). `MemoryMatchesUnlessDropped` excuses
  it.
* A consumer that registers more than a second after the end is told "finished"
  and gets no data (`common/DataStreamy.ts:205`). Consumers of streams over udp
  register only after the answer to startStreamViaUdp (`RemoteNode.ts:388`) and may
  be as late. `OrderedStream` allows it (`DropAll`): all of the chunks or none.
* No reader of a stream has a timeout, so that a lost message of it or a closed
  proxy connection is waited for without end: by the loop of
  `feeds/RemoteSubfeedMessageDownloader.ts:72` (`#activeDownload` stays set), by the
  job of `downloadOptimizer/createDownloader.ts:69` and all its tasks (its slot is
  not given back until they cancel), and by the reader of the file (`loadFile.ts:190`).
* If the append of downloaded messages fails, `#activeDownload` stays set as well
  (`feeds/RemoteSubfeedMessageDownloader.ts:45`): `Stuck`.
* The rate goes down although nothing was lost, because what is still on its way
  at the end of a trial counts as lost (`udp/UdpCongestionManager.ts:251`), and up
  to two windows of packets are then unconfirmed (line 132); `InFlightBound`
  states the exact bound.
* Cancelling a download ends the stream of the reader only
  (`downloadOptimizer/DownloadOptimizerJob.ts:31`, against the comment at
  `loadFile.ts:208`). When the last reader of a job has cancelled, the job leaves
  `#jobs` and its slot is free (`downloadOptimizer/DownloadOptimizer.ts:112`), but
  its download goes on to the end, uncounted: more than the maximum may be under
  way, and a new reader of the file starts another.
* When the node that the caller names cannot deliver, the search never finishes
  (`downloadOptimizer/DownloadOptimizer.ts:57`): `StuckJob`.
* The reader of a file is not told when the concatenation of its chunks fails
  (`loadFile.ts:174`): `failed` in `LoadEnds`. A call of `storeFileFromStream`
  whose rename or check throws never settles (`hung`).
* The reader of a stream over a proxy is not told when the connection closes or
  the client cannot open the file (`proxyConnections/ProxyWebsocketConnection.ts:446`):
  excused in `ProxyStreamEnds`.
* A proxy is left out of the rounds of `services/ProxyClientService.ts:52` in the
  same way: a request that fails over a broken connection sets it offline
  (`RemoteNode.ts:430`), and the connection is not tried again before another
  request to it succeeds. `Reconnects` names the condition.
* A bootstrap node to which one request has failed is left out of the rounds
  until another request to it succeeds, and its probes do not change that
  (`services/AnnounceService.ts:99`); if no client of the node searches for
  anything it stays so. `PeersFound` assumes that the bootstrap node is online.
* With enforced foreign keys, an append through the object that survives
  `deleteFeed` starts the table with a number above 0, which
  `external/real/LocalFeedsDatabase.ts:175` says should never happen; without
  them the messages of a deleted feed stay, against `feeds/Subfeed.ts:75` and the
  test `src/daemon/tests/feedsDatabase/feedsDatabase-tests.ts:95`. In a given
  build one of the two holds, never both. (`wiped` marks the first in the model.)
* A subfeed object that was dropped while in use may announce its own, smaller
  count after a newer one (`MessagesAnnounced` excuses it).
* `appendSignedMessages` cannot refuse what the downloader hands it
  (`LocalCountStable`), so the comment at
  `feeds/RemoteSubfeedMessageDownloader.ts:43` is right.

## 5. Proofs

TLAPS checks these for every value of the constants that the named assumptions
of the modules allow: any number of callers, objects, packets, messages, chunks, readers
and nodes, any budget of faults.

**`SubfeedStore_proofs`.** `StoreInv` joins types with four facts: the table has
no gaps and its chain verifies (unless a cascade emptied it); the list of every
object is a prefix of the table; a batch on its way extends the list of its
object; at most one batch is on its way per object, and `appending` says so.
None of the conjuncts is inductive alone: that the table stays readable needs
that a batch extends a list that is a prefix, that the list stays a prefix needs
that the batch went to the table first, and both need that no second batch can
be accepted in between. `StoreTypeCorrect`, `StoreReadable`,
`StoreMemoryIsPrefix`, `StoreAppendsExclude`, `StorePushesContinue` and
`StoreTableOnlyGrows` follow, and `StoreAlwaysReadable` says that without
enforced foreign keys the table is readable with no exception.

**`Subfeed_proofs`.** Every step of `Subfeed` is a step of the store, so the
store's facts carry over (`SubfeedTypeCorrect`, `SubfeedReadable`). For
`SubfeedWritersHoldLock` the invariant says in addition that the queue of the
mutex holds exactly the calls that wait for it or write, each once, on the
object each was given; for `SubfeedNoLostWakeup` that a listening watch has
looked at the list after the last push or a callback is still to come.

Two more theorems assume that connections do not enforce foreign keys. Where they
do, neither holds: `setSubfeedAccessRules` replaces the row of the subfeed, and
the messages below the old row go with it. `SubfeedMemoryMatches` follows the one object
that exists while nothing was evicted or deleted (`OneObject`): the table is what
it holds plus the batch that is stored and not yet pushed (`WholeTable`); a
commit through an object that holds less collides with the primary key
(`CommitExtends`). `SubfeedImplementsFeedLog` takes the table as the log. `LogInv`
says whose each row is (`RowsOK`) and that a batch on its way is what its call was
asked to append (`BatchesOK`); a call that failed may have added its messages, one
that returned has.

**`SubfeedReplica_proofs`.** A step of the replica is a step of the store, so
`ReplicaInv` contains `StoreInv`. `CopiesInv`: what is in the table, in the lists
and on the way between the two are messages of the writer, each in its place.
`DownloadInv`: at most one loop runs per object, it alone appends to it, and the
count it began with is still the length of the list. That gives
`ReplicaCopyOfWriter`, `ReplicaShowsWriter` (the same for what readers see) and
`ReplicaLocalCountStable`, and from the two together `ReplicaDownloadsAccepted`:
what a loop has downloaded passes every check of `appendSignedMessages`.
`ReplicaRestingMeansCaughtUp` says that a loop does not stop without an error
while its object was told of more; `ReplicaKeepsStore` is the store's part. They hold with and without
foreign keys.

**`Udp_proofs`.** `CongestionInv`: the counters of the trial count its packets in
flight; the packets of the trial before fit in a window and their timers fire
before this trial ends, which needs that a timeout is no longer than a trial
(`CongestionAssumption`: 5 roundtrips of at most one second against 5 seconds);
the queue and the states of the packets agree; and packets wait only while the
window is full. `CounterIsExact`, `QueueNeverStuck`, `ForgottenAtMostOnce` and
`InFlightBounded` follow.
`RequestInv`: a message is either collected (its seen packets are its parts, and
one is missing) or handled once (all seen, no parts left); whatever confirms a
packet tells that it was seen; nothing of a message is under way before it is
sent, and a response is sent only after the request was handled. The last part
is what makes a response prove the execution. `MessageHandledOnce`,
`SentIsHandled` and the refinement `RequestImplementsCall` follow.

**`Transfer_proofs`.** `StreamInv`: the chunks that were delivered and those that
wait for a consumer are one run 0, 1, 2, ..., up to `last` while the stream is
open, unless the timer has dropped them; chunk `last + 1` is never among those that
came too early; a stream that is finished had all chunks of its producer; chunks are
dropped all together and only before the consumer has got any. `StreamHoldsNothingBack`,
`StreamTellsOnce` and the refinement `StreamIsOrdered` follow, for a consumer who
registers at any time: he is told "finished" with all chunks or with none.
The invariant of the downloads, `DownloadInv`, keeps the two maps and the jobs
together: a task names a job of its file, as does the entry in `#jobs`
(`JobsOK`); a job that has finished has stored its file (`StoredOK`); `#tasks`
holds those who wait (`ServedOK`). `DownloadsWithinSlots` needs of `_update` only
that it counts before it starts each job (a bound on the entries of `#jobs`), and of
the rest that a task which waits has its job in `#jobs` until an entry expires, so
that the bound is one on the downloads somebody waits for; `FinishedDownloadsStored` that an
answer is for the task's own file, and `WaitingTasksServed` holds until an entry
expires, as the words of the property say.

**`ProxyConnection_proofs`.** `ProxyInv` counts messages by kind in the queue of
each websocket (`InBox`). `ConnectionOK` follows the life of a connection at both
sides; its point is that a client which was answered has a server which uses the
connection or has closed it, which gives `ProxyOneConnection` although each side
decides alone. `CallOK`: a request on its way has not been executed, a response
on its way means that it was; `ProxyImplementsCall` follows. `ProxyStreamOK`: what
was received and what is on its way make up what was produced, as long as the
connection is open or the word that the stream is finished is on its way, and no
data comes after that word (`FinishedLast`). The chunks on their way when a
connection closes are lost, and the end with them, so that `ProxyImplementsStream`
needs no assumption.

**`LoadFile_proofs`.** Every step changes a file in place in one of two ways: it
appears, or a part becomes the whole (`DestChange`). That gives `FilesPutWhole` and
`InPlaceStays`. For the rest `LoadInv` keeps what each reader has seen: every chunk
before his current one is there or the whole file is, and his call belongs to his
place in the load. That a chunk which was there once is still there when the last
one has been loaded, although `loadFile` never looks again, is `ChunksAreThere`;
that a concatenation which returns has left the file there, also when another
caller was faster, gives the refinement `LoadImplementsFileLoad`.

**`RemoteNodes_proofs`.** `NodesInv` joins the types with the fact that a request
which has been sent and may still have an effect belongs to a node that is known:
without it a late outcome could set the online flag of a node that was pruned.
`NodesTyped` and `InfoStaysFresh` follow, the latter from what each step does to
the view (`Younger`, or everything grows old together).

Some theorems about the store state properties that no run repeats, because
`Subfeed` and `SubfeedReplica`, which the runs check, contain the store.

Only model-checked: the liveness properties (`CallsComplete`, `MessagesAnnounced`,
`CatchesUp`, `StreamEnds`, `EveryPacketAnswered`, `DeliveredOrRejected`,
`Reconnects`, `ProxyStreamEnds`, `TasksEnd`, `LoadEnds`, `PeersFound`,
`GoneForgotten`), for which the prover has no rule of fair scheduling. Every
invariant, action property and refinement that a passing run checks has a theorem.
The theorems cover the mathematics of the models; that the models are those of
the code rests on the lines that `PROJECT.json` names.

## 6. Not modelled

* `mutables/*`: a database table and a cache that is written after it. Every
  access is a short call under the database lock; nothing in the repository says
  what a concurrent read may see (hazard at `mutables/MutableManager.ts:23`).
* The lock of the databases and the creation of tables
  (`external/real/LocalFeedsDatabase.ts:92`), feed names and the migration of old
  configurations (`external/real/LocalFeedManager.ts`), the database of old feeds.
* Several holders of one feed, the cached search for a feed, submitMessage.
* Progress reports and pipes of streams, files without a manifest (a download
  alone), `.link` files, which the daemon writes and never reads.
* Several channels, their configuration and who is authorized in them; several
  proxies of one node; the measured health of methods.
* `MirrorService`, `MulticastService`, `ConfigUpdateService`, `ClientAuthService`,
  `DisplayStateService`: loops over files and sockets without shared state.
* The HTTP servers, validation of formats, cryptography, statistics, the Python
  client, mocks and tests: they compute or forward, and keep no state that other
  components rely on.

## 7. Plan

1. Proofs: that acknowledged messages stay in the table with the number they were
   given, across restarts; that a downloaded copy is never behind what its readers
   were shown; of `RemoteNodes`, that the online flag comes from the newest outcome;
   the safety half of the liveness properties (what a step that brings a call nearer
   to its end may not undo).
2. Models: the database lock with the mutables as a register per key, creation
   and deletion of feeds, several holders of a feed, two channels in
   `RemoteNodes`.
