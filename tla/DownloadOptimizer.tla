-------------------------- MODULE DownloadOptimizer --------------------------
(***************************************************************************)
(* Downloads of files from other nodes.  Readers create tasks; the tasks   *)
(* for one file share a job; at most MaxActive jobs run; a job searches    *)
(* for providers and tries them one after the other until one of them has  *)
(* delivered the file, and the file is stored.                             *)
(*                                                                         *)
(* A job has the name of the task that created it.  Transfer of the data   *)
(* is one step that succeeds, fails or never ends (streams are modelled in *)
(* DataStream, UdpRequest and ProxyConnection).                            *)
(***************************************************************************)
EXTENDS Integers, FiniteSets

CONSTANTS
  NumTasks,    \* how many tasks are created (bounds the model)
  File, Provider,
  Named,       \* the providers a reader may name (fromNode)
  None,        \* null
  MaxActive,   \* #maxNumSimultaneousFileDownloads
  NumRetries,  \* how often a job searches again
  Failures,    \* how often a transfer may fail or hang (bounds the model)
  Expiries     \* how often an entry gets too old for its map (bounds the model)

Task == 1..NumTasks

ASSUME DownloadAssumption ==
  /\ NumTasks \in Nat
  /\ None \notin Task \cup Provider
  /\ Named \subseteq Provider
  /\ MaxActive \in Nat \ {0} /\ NumRetries \in Nat
  /\ Failures \in Nat /\ Expiries \in Nat

VARIABLES
  task,       \* the state of each task's progressStream, its file and its job
  tasks,      \* #tasks
  jobs,       \* #jobs
  job,        \* every job, also those that #jobs has forgotten
  scheduled,  \* #updateScheduled
  stored,     \* the files in the local storage
  failures, expiries

vars == <<task, tasks, jobs, job, scheduled, stored, failures, expiries>>

\* a job that does not exist
NoJob == [file |-> None, from |-> None, retries |-> 0, state |-> "none",
          asked |-> {}, findFinished |-> FALSE, candidates |-> {},
          somethingFound |-> FALSE, downloader |-> None, phase |-> "none"]

\* a job exists, it runs, it is complete
JobState == {"none", "waiting", "running", "pausing", "finished", "error"}
IsRunning(j)  == job[j].state \in {"running", "pausing"}
IsComplete(j) == job[j].state \in {"finished", "error"}

DownloadTypeOK ==
  /\ task \in [Task -> [state : {"idle", "waiting", "finished", "error", "cancelled"},
                        file : File \cup {None}, job : Task \cup {None}]]
  /\ tasks \in [File -> SUBSET Task]
  /\ jobs \in [File -> Task \cup {None}]
  /\ job \in [Task -> [file : File \cup {None}, from : Provider \cup {None},
                       retries : 0..NumRetries, state : JobState,
                       asked : SUBSET Provider, findFinished : BOOLEAN,
                       candidates : SUBSET Provider, somethingFound : BOOLEAN,
                       downloader : Provider \cup {None},
                       phase : {"none", "starting", "storing", "hung"}]]
  /\ scheduled \in BOOLEAN
  /\ stored \subseteq File
  /\ failures \in 0..Failures /\ expiries \in 0..Expiries
  /\ \A j \in Task : (job[j].downloader = None) <=> (job[j].phase = "none")

Init ==
  /\ task = [t \in Task |-> [state |-> "idle", file |-> None, job |-> None]]
  /\ tasks = [f \in File |-> {}]
  /\ jobs = [f \in File |-> None]
  /\ job = [t \in Task |-> NoJob]
  /\ scheduled = FALSE
  /\ stored = {}
  /\ failures = Failures /\ expiries = Expiries

-----------------------------------------------------------------------------
(* DownloadOptimizerJob.                                                   *)

\* returnError: fail, or search again after two seconds
ReturnError(r) ==
  IF r.retries = 0 \/ ~r.somethingFound
  THEN [r EXCEPT !.state = "error"]
  ELSE [r EXCEPT !.state = "pausing", !.retries = @ - 1]

\* mutant of StartDownloader: created and not started
CreateDownloader(r, p) == [r EXCEPT !.candidates = @ \ {p}, !.downloader = p]

StartDownloader(r, p) ==
  [r EXCEPT !.candidates = @ \ {p}, !.downloader = p, !.phase = "starting"]

\* mutant of Update: a failed provider leaves the job as it is
StayIdle(r) ==
  IF r.downloader # None \/ r.candidates = {} THEN {r}
  ELSE {StartDownloader(r, p) : p \in r.candidates}

\* update: what may become of the job; while the search goes on it may wait
\* for a better provider, and come back (JobTimer)
Update(r) ==
  IF r.downloader # None THEN {r}
  ELSE IF r.candidates = {}
       THEN {IF r.findFinished THEN ReturnError(r) ELSE r}
       ELSE {StartDownloader(r, p) : p \in r.candidates}
              \cup IF r.findFinished THEN {} ELSE {r}

\* nextTry, with findProviders: a named node is found at once, and the search
\* for it is never finished; otherwise all nodes are asked
NextTry(r) ==
  LET fresh == [r EXCEPT !.state = "running", !.findFinished = FALSE,
                         !.somethingFound = FALSE, !.candidates = {},
                         !.downloader = None, !.phase = "none", !.asked = {}]
  IN  IF r.from # None
      THEN Update([fresh EXCEPT !.candidates = {r.from}, !.somethingFound = TRUE])
      ELSE {[fresh EXCEPT !.asked = Provider]}

\* mutant of DeleteTasks: the job goes with any of its tasks
DeleteTaskAndJob(f, T) ==
  /\ tasks' = [tasks EXCEPT ![f] = @ \ T]
  /\ jobs' = IF T \cap tasks[f] = {} THEN jobs ELSE [jobs EXCEPT ![f] = None]
  /\ scheduled' = (scheduled \/ T \cap tasks[f] # {})

\* _deleteTask, for tasks of one file; cancel() of the job finds no downloader
\* in its field #currentDownloader, which nothing sets, and does nothing
DeleteTasks(f, T) ==
  /\ tasks' = [tasks EXCEPT ![f] = @ \ T]
  /\ jobs' = IF T \cap tasks[f] # {} /\ tasks[f] \subseteq T
             THEN [jobs EXCEPT ![f] = None] ELSE jobs
  /\ scheduled' = (scheduled \/ T \cap tasks[f] # {})

\* a step of job j; if that ends it, the tasks that listen to it are told
Becomes(j, r) ==
  /\ job' = [job EXCEPT ![j] = r]
  /\ IF r.state \in {"finished", "error"}
     THEN LET T == {t \in Task : task[t].job = j /\ task[t].state = "waiting"}
          IN  /\ task' = [t \in Task |-> IF t \in T
                            THEN [task[t] EXCEPT !.state = r.state] ELSE task[t]]
              /\ DeleteTasks(r.file, T)
     ELSE UNCHANGED <<task, tasks, jobs, scheduled>>

Fail == failures > 0 /\ failures' = failures - 1

\* a provider answers that it has the file
Found(j, p) ==
  /\ job[j].state = "running"
  /\ p \in job[j].asked
  /\ \E r \in Update([job[j] EXCEPT !.asked = @ \ {p}, !.somethingFound = TRUE,
                                     !.candidates = @ \cup {p}]) : Becomes(j, r)
  /\ UNCHANGED <<stored, failures, expiries>>

\* the others do not have it, or do not answer in time
FindFinished(j) ==
  /\ job[j].state = "running"
  /\ job[j].from = None
  /\ ~job[j].findFinished
  /\ \E r \in Update([job[j] EXCEPT !.findFinished = TRUE, !.asked = {}]) :
       Becomes(j, r)
  /\ UNCHANGED <<stored, failures, expiries>>

\* the timer of update
JobTimer(j) ==
  /\ job[j].state = "running"
  /\ job[j].downloader = None
  /\ \E p \in job[j].candidates : Becomes(j, StartDownloader(job[j], p))
  /\ UNCHANGED <<stored, failures, expiries>>

\* the timer of returnError
Retry(j) ==
  /\ job[j].state = "pausing"
  /\ \E q \in NextTry(job[j]) : Becomes(j, q)
  /\ UNCHANGED <<stored, failures, expiries>>

-----------------------------------------------------------------------------
(* createDownloader.                                                       *)

WithoutDownloader(r) == [r EXCEPT !.downloader = None, !.phase = "none"]

\* the file is here already; or the provider grants the stream and sends it
DownloaderDelivers(j) ==
  /\ job[j].phase = "starting"
  /\ IF job[j].file \in stored
     THEN Becomes(j, [WithoutDownloader(job[j]) EXCEPT !.state = "finished"])
     ELSE Becomes(j, [job[j] EXCEPT !.phase = "storing"])
  /\ UNCHANGED <<stored, failures, expiries>>

\* the end of the stream is never heard of: a message of it was lost, or the
\* proxy connection has closed.  There is no timeout
DownloaderHangs(j) ==
  /\ job[j].phase = "starting"
  /\ job[j].file \notin stored
  /\ Fail
  /\ Becomes(j, [job[j] EXCEPT !.phase = "hung"])
  /\ UNCHANGED <<stored, expiries>>

\* the provider no longer has the file or cannot be reached, the stream fails,
\* or the file cannot be stored
DownloaderFails(j) ==
  /\ job[j].phase \in {"starting", "storing"}
  /\ Fail
  /\ \E q \in Update(WithoutDownloader(job[j])) : Becomes(j, q)
  /\ UNCHANGED <<stored, expiries>>

\* mutant of FileStored: the job does not wait for storeFile
FinishedBeforeStored(j) ==
  /\ job[j].phase = "storing"
  /\ Becomes(j, [WithoutDownloader(job[j]) EXCEPT !.state = "finished"])
  /\ UNCHANGED <<stored, failures, expiries>>

FileStored(j) ==
  /\ job[j].phase = "storing"
  /\ stored' = stored \cup {job[j].file}
  /\ Becomes(j, [WithoutDownloader(job[j]) EXCEPT !.state = "finished"])
  /\ UNCHANGED <<failures, expiries>>

-----------------------------------------------------------------------------
(* DownloadOptimizer.                                                      *)

\* the task joins the job for its file, whatever node that one was to use, or
\* gets one of its own.  waitForReady does not wait: no job is ever
\* isDownloading, by the same field
CreateTask(t, f, from) ==
  LET j == IF jobs[f] # None THEN jobs[f] ELSE t
  IN  /\ task[t].state = "idle"
      /\ \A u \in 1..(t - 1) : task[u].state # "idle"   \* numbered as they come
      /\ jobs[f] # None => from = None   \* only one value of a parameter not used
      /\ task' = [task EXCEPT ![t] = [state |-> "waiting", file |-> f, job |-> j]]
      /\ tasks' = [tasks EXCEPT ![f] = @ \cup {t}]
      /\ jobs' = [jobs EXCEPT ![f] = j]
      /\ job' = IF j = t
                THEN [job EXCEPT ![t] = [NoJob EXCEPT !.file = f, !.from = from,
                                           !.retries = NumRetries, !.state = "waiting"]]
                ELSE job
      /\ scheduled' = TRUE
      /\ UNCHANGED <<stored, failures, expiries>>

\* the task has joined a job that is complete (and still in #jobs): DataStreamy
\* calls onFinished or onError from a timer
ToldLate(t) ==
  /\ task[t].state = "waiting"
  /\ IsComplete(task[t].job)
  /\ task' = [task EXCEPT ![t].state = job[task[t].job].state]
  /\ DeleteTasks(task[t].file, {t})
  /\ UNCHANGED <<job, stored, failures, expiries>>

\* the reader cancels: onCancelled of the progressStream
CancelTask(t) ==
  /\ task[t].state = "waiting"
  /\ task' = [task EXCEPT ![t].state = "cancelled"]
  /\ DeleteTasks(task[t].file, {t})
  /\ UNCHANGED <<job, stored, failures, expiries>>

Active(map) == {f \in File : map[f] # None /\ IsRunning(map[f])}

\* mutant of ScheduledUpdate: one job too many
UpdateOneMore ==
  /\ scheduled
  /\ scheduled' = FALSE
  /\ \E f \in File :
       /\ jobs[f] # None /\ job[jobs[f]].state = "waiting"
       /\ Cardinality(Active(jobs)) <= MaxActive
       /\ \E r \in NextTry(job[jobs[f]]) : job' = [job EXCEPT ![jobs[f]] = r]
  /\ UNCHANGED <<task, tasks, jobs, stored, failures, expiries>>

\* _update: forgets complete jobs, starts as many as there are free slots
ScheduledUpdate ==
  LET left  == [f \in File |-> IF jobs[f] # None /\ IsComplete(jobs[f])
                               THEN None ELSE jobs[f]]
      ready == {f \in File : left[f] # None /\ job[left[f]].state = "waiting"}
      free  == MaxActive - Cardinality(Active(left))
      \* the files whose jobs start
      Starts(S) == /\ Cardinality(S) <= free
                   /\ S = ready \/ Cardinality(S) = free
      J(S) == {left[f] : f \in S}
  IN  /\ scheduled
      /\ scheduled' = FALSE
      /\ jobs' = left
      /\ IF free <= 0 THEN UNCHANGED job
         ELSE \E S \in {X \in SUBSET ready : Starts(X)} :
                \E start \in [J(S) -> UNION {NextTry(job[j]) : j \in J(S)}] :
                  /\ \A j \in J(S) : start[j] \in NextTry(job[j])
                  /\ job' = [j \in Task |-> IF j \in J(S) THEN start[j] ELSE job[j]]
      /\ UNCHANGED <<task, tasks, stored, failures, expiries>>

\* an hour has gone by since the entry was made: GarbageMap drops it
Expire(f) ==
  /\ expiries > 0
  /\ expiries' = expiries - 1
  /\ \/ jobs[f] # None /\ jobs' = [jobs EXCEPT ![f] = None] /\ UNCHANGED tasks
     \/ tasks[f] # {} /\ tasks' = [tasks EXCEPT ![f] = {}] /\ UNCHANGED jobs
  /\ UNCHANGED <<task, job, scheduled, stored, failures>>

-----------------------------------------------------------------------------
\* what a job does by itself
JobStep(j) ==
  \/ FindFinished(j) \/ Retry(j)
  \/ DownloaderDelivers(j) \/ FileStored(j)

Next ==
  \/ \E t \in Task : \/ \E f \in File, from \in Named \cup {None} :
                          CreateTask(t, f, from)
                     \/ CancelTask(t)
                     \/ ToldLate(t)
  \/ \E j \in Task : \/ JobStep(j) \/ JobTimer(j)
                     \/ DownloaderFails(j) \/ DownloaderHangs(j)
                     \/ \E p \in Provider : Found(j, p)
  \/ ScheduledUpdate
  \/ \E f \in File : Expire(f)

Spec == Init /\ [][Next]_vars

(* Timers fire, every search ends by its timeout, writes to the disk end,  *)
(* and so do transfers, but for those that hang (DownloaderHangs).         *)
Fairness ==
  /\ WF_vars(ScheduledUpdate)
  /\ \A t \in Task : /\ WF_vars(JobStep(t)) /\ WF_vars(JobTimer(t))
                     /\ WF_vars(ToldLate(t))

FairSpec == Spec /\ Fairness

-----------------------------------------------------------------------------
(* Properties.                                                             *)

\* somebody waits for job j
Wanted(j) == \E t \in Task : task[t].job = j /\ task[t].state = "waiting"

\* No more than MaxActive of the entries of #jobs run, and no more of the
\* downloads that somebody waits for, until an entry expires.  (A download whose
\* readers have all cancelled goes on, forgotten by #jobs, and another starts in
\* its slot.  The type invariant comes first.)
SlotsBound ==
  /\ DownloadTypeOK
  /\ Cardinality(Active(jobs)) <= MaxActive
  /\ expiries = Expiries =>
       Cardinality({j \in Task : IsRunning(j) /\ Wanted(j)}) <= MaxActive

\* A reader who hears that the download is finished finds the file in the
\* local storage, also if he joined a download that another reader began, and
\* if that reader has gone.
FinishedMeansStored ==
  \A t \in Task : task[t].state = "finished" => task[t].file \in stored

\* Nobody waits for a job that is forgotten: until an entry expires, the job of
\* a waiting task is not over, and is the one in #jobs for his file.
WaitingMeansServed ==
  \A t \in Task : task[t].state = "waiting" /\ expiries = Expiries =>
    /\ ~IsComplete(task[t].job)
    /\ jobs[task[t].file] = task[t].job
    /\ t \in tasks[task[t].file]

\* A job that was to use a named node and cannot: its search never finishes,
\* so that it neither fails nor gives its slot back (findProviders).
StuckJob(j) == /\ job[j].state = "running" /\ job[j].from # None
               /\ job[j].downloader = None /\ job[j].candidates = {}

\* One of these, or a job whose transfer hangs, is the task's own or has a slot.
Blocked(t) ==
  \E j \in Task : /\ StuckJob(j) \/ job[j].phase = "hung"
                 /\ (j = task[t].job \/ \E f \in File : jobs[f] = j)

\* Every task ends: it is finished, fails or is cancelled.  Three things may
\* prevent that: a job that waits for ever for its named node, a transfer whose
\* end is never heard of (both for their own tasks, and for the others for as
\* long as they have a slot), and an entry that was dropped from #jobs before
\* its job had a slot.
TasksEnd ==
  \A t \in Task :
    <>[]~Blocked(t) =>
      (task[t].state = "waiting" ~> task[t].state # "waiting" \/ expiries # Expiries)

=============================================================================
