----------------------------- MODULE JobManager -----------------------------
(***************************************************************************)
(* CJobManager and its CJobWorker threads (xbmc/utils/JobManager.cpp): job *)
(* objects are handed over by any thread with AddJob, queued by priority,  *)
(* run by a pool of worker threads that grows on demand and shrinks after  *)
(* 30 idle seconds, and may be cancelled at any time.                      *)
(*                                                                         *)
(* Every critical section on m_section is one action; what a thread does   *)
(* between two of them (DoWork, the callback, waiting on m_jobEvent) is    *)
(* where pc stops.  m_jobEvent is an auto-reset CEvent: its signaled flag  *)
(* is cleared by the last waiter to leave (CEvent::prepReturn).            *)
(***************************************************************************)
EXTENDS Integers, Sequences, FiniteSets

CONSTANTS
  Job,             \* job objects; each is handed to the manager at most once
  Worker,          \* identities available to CJobWorker threads
  Callback,        \* IJobCallback objects
  NULL,            \* the null pointer (no job, no callback)
  ClientPriority,  \* the priorities callers use
  MaxWorkers,      \* max_workers: 5 in the source
  IdModulus        \* 2^32 in the source: m_jobCounter is an unsigned int

LOW_PAUSABLE == 0
LOW          == 1
NORMAL       == 2
HIGH         == 3
DEDICATED    == 4
Priority     == LOW_PAUSABLE .. DEDICATED

ASSUME JobAssumption ==
  /\ IsFiniteSet(Job)
  /\ NULL \notin Job /\ NULL \notin Callback
ASSUME ParameterAssumption ==
  /\ ClientPriority \subseteq Priority
  /\ MaxWorkers \in HIGH + 1 .. 10000   \* GetMaxWorkers grows with the priority
  /\ IdModulus \in Nat /\ IdModulus > 1

VARIABLES
  m_jobQueue,    \* m_jobQueue[p]: the jobs of priority p, oldest first
  m_processing,  \* the jobs handed to a worker and not erased yet
  item,          \* item[j]: the CWorkItem that holds job j
  m_jobCounter, m_pauseJobs, m_running,
  m_workers,     \* the workers the manager knows of
  signaled,      \* m_jobEvent.signaled
  waiters,       \* the workers counted by m_jobEvent.numWaits
  pc,            \* where each worker thread is
  job,           \* the job each worker holds
  cb,            \* the callback in the worker's local copy of the work item
  heap,          \* whether a job object exists
  canceller      \* the thread inside CancelJobs(), if any

VARIABLES        \* history, read by the properties only
  notified,      \* how often OnJobComplete() was called for a job
  cancelled,     \* whether, and when, a job was cancelled
  told           \* jobs whose ShouldCancel() returned true

queueVars  == <<m_jobQueue, m_processing, item, m_jobCounter>>
flagVars   == <<m_pauseJobs, m_running, canceller>>
eventVars  == <<signaled, waiters>>
threadVars == <<pc, job, cb>>
histVars   == <<notified, cancelled, told>>
vars == <<queueVars, flagVars, m_workers, eventVars, threadVars, heap, histVars>>

NoItem == [id |-> 0, callback |-> NULL, priority |-> LOW_PAUSABLE]
Item   == [id : 0 .. IdModulus - 1, callback : Callback \cup {NULL},
           priority : Priority]

(* A worker thread: not created, about to take m_section in GetNextJob,    *)
(* between Leave() and WaitMSec(), asleep, awake after the timeout, in     *)
(* DoWork, in OnJobProgress of its client, past the copy of the work item  *)
(* in OnJobComplete, past the callback, and past RemoveWorker.             *)
WorkerStates == {"none", "next", "leave", "waiting", "timedout", "run",
                 "progress", "callback", "erase", "exit"}
Busy == {"run", "progress", "callback", "erase"}

Queued(j) == \E p \in Priority : \E i \in DOMAIN m_jobQueue[p] : m_jobQueue[p][i] = j

TypeOK ==
  /\ m_jobQueue \in [Priority -> Seq(Job)]
  /\ m_processing \subseteq Job
  /\ item \in [Job -> Item]
  /\ m_jobCounter \in 0 .. IdModulus - 1
  /\ m_pauseJobs \in BOOLEAN /\ m_running \in BOOLEAN
  /\ m_workers \subseteq Worker
  /\ signaled \in BOOLEAN /\ waiters \subseteq Worker
  /\ pc \in [Worker -> WorkerStates]
  /\ job \in [Worker -> Job \cup {NULL}]
  /\ cb \in [Worker -> Callback \cup {NULL}]
  /\ heap \in [Job -> {"unborn", "live", "deleted"}]
  /\ canceller \in {"idle", "flushing"}
  /\ notified \in [Job -> Nat]
  /\ cancelled \in [Job -> {"no", "before", "after"}]
  /\ told \subseteq Job

Init ==
  /\ m_jobQueue = [p \in Priority |-> <<>>]
  /\ m_processing = {}
  /\ item = [j \in Job |-> NoItem]
  /\ m_jobCounter = 0
  /\ m_pauseJobs = FALSE /\ m_running = TRUE
  /\ m_workers = {}
  /\ signaled = FALSE /\ waiters = {}
  /\ pc = [w \in Worker |-> "none"]
  /\ job = [w \in Worker |-> NULL]
  /\ cb = [w \in Worker |-> NULL]
  /\ heap = [j \in Job |-> "unborn"]
  /\ canceller = "idle"
  /\ notified = [j \in Job |-> 0]
  /\ cancelled = [j \in Job |-> "no"]
  /\ told = {}

-----------------------------------------------------------------------------
(* Helpers                                                                 *)

(* Plausible bug: an off-by-one in the thread limit.                       *)
GetMaxWorkers_OneMore(p) == IF p = DEDICATED THEN 10000 ELSE MaxWorkers - (HIGH - p) + 1

(* How many threads may be at work for a job of priority p to start.       *)
GetMaxWorkers(p) == IF p = DEDICATED THEN 10000 ELSE MaxWorkers - (HIGH - p)

(* ++m_jobCounter in unsigned arithmetic, with 0 skipped.                  *)
NextId(c) == IF (c + 1) % IdModulus = 0 THEN 1 ELSE (c + 1) % IdModulus

(* A job of priority p may run now.                                        *)
Eligible(p) ==
  /\ ~(p = LOW_PAUSABLE /\ m_pauseJobs)
  /\ m_jobQueue[p] # <<>>
  /\ Cardinality(m_processing) < GetMaxWorkers(p)

CanPop == \E p \in Priority : Eligible(p)

(* PopJob takes its job from the queue of priority p.                      *)
PopsFrom(p) == Eligible(p) /\ \A q \in Priority : q > p => ~Eligible(q)

(* Plausible bug: an off-by-one in the comparison of StartWorkers.         *)
HasSleepers_OrEqual == Cardinality(m_processing) <= Cardinality(m_workers)

(* StartWorkers: "do we have any sleeping threads?"                        *)
HasSleepers == Cardinality(m_processing) < Cardinality(m_workers)

(* Make sure someone comes for a job of priority p: nothing while the      *)
(* threads of that priority are all taken, else wake the sleepers if any   *)
(* worker is not processing, else start a thread.  pcs is pc, or what the  *)
(* calling thread has already made of it.                                  *)
StartWorkers(p, pcs) ==
  LET busy == Cardinality(m_processing)
  IN  \/ /\ busy >= GetMaxWorkers(p)
         /\ pc' = pcs
         /\ UNCHANGED <<m_workers, signaled>>
      \/ /\ busy < GetMaxWorkers(p)
         /\ HasSleepers
         /\ signaled' = TRUE
         /\ pc' = pcs
         /\ UNCHANGED m_workers
      \/ /\ busy < GetMaxWorkers(p)
         /\ ~HasSleepers
         /\ \E w \in Worker :
              /\ pcs[w] = "none"
              /\ pc' = [pcs EXCEPT ![w] = "next"]
              /\ m_workers' = m_workers \cup {w}
         /\ UNCHANGED signaled

(* The body of AddJob while m_running.                                     *)
Enqueue(j, c, p, pcs) ==
  /\ m_jobCounter' = NextId(m_jobCounter)
  /\ item' = [item EXCEPT ![j] = [id |-> NextId(m_jobCounter), callback |-> c,
                                  priority |-> p]]
  /\ m_jobQueue' = [m_jobQueue EXCEPT ![p] = Append(@, j)]
  /\ StartWorkers(p, pcs)
  /\ UNCHANGED <<m_processing, waiters>>

-----------------------------------------------------------------------------
(* Operations of the clients, from any thread                              *)

(* AddJob: refused, and neither kept nor freed, once CancelJobs() ran.     *)
AddJob(j, c, p) ==
  /\ heap[j] = "unborn"
  /\ heap' = [heap EXCEPT ![j] = "live"]
  /\ \/ m_running /\ Enqueue(j, c, p, pc)
     \/ ~m_running /\ UNCHANGED <<queueVars, m_workers, eventVars, pc>>
  /\ UNCHANGED <<flagVars, job, cb, histVars>>

(* The first queue entry with this id, in ascending order of priority.     *)
FirstQueued(id, p, i) ==
  LET Match(q, k) == item[m_jobQueue[q][k]].id = id
  IN  /\ Match(p, i)
      /\ \A k \in DOMAIN m_jobQueue[p] : k < i => ~Match(p, k)
      /\ \A q \in Priority : q < p => \A k \in DOMAIN m_jobQueue[q] : ~Match(q, k)

(* Plausible bug: the entry after the one that was found goes.             *)
Drop_Next(s, i) == SubSeq(s, 1, i) \o SubSeq(s, i + 2, Len(s))

Drop(s, i) == SubSeq(s, 1, i - 1) \o SubSeq(s, i + 1, Len(s))

(* A job a worker already copied out of m_processing is cancelled too late *)
(* for its callback.                                                       *)
CancelMark(j) ==
  IF \E w \in Worker : job[w] = j /\ pc[w] \in {"callback", "erase"}
  THEN "after" ELSE "before"

(* CancelJob(id), the job still queued: it is deleted.                     *)
CancelQueued(id) ==
  /\ \E p \in Priority : \E i \in DOMAIN m_jobQueue[p] :
       LET j == m_jobQueue[p][i]
       IN  /\ FirstQueued(id, p, i)
           /\ m_jobQueue' = [m_jobQueue EXCEPT ![p] = Drop(@, i)]
           /\ item' = [item EXCEPT ![j] = NoItem]
           /\ heap' = [heap EXCEPT ![j] = "deleted"]
           /\ cancelled' = [cancelled EXCEPT ![j] = "before"]
  /\ UNCHANGED <<m_processing, m_jobCounter, flagVars, m_workers, eventVars,
                 threadVars, notified, told>>

(* Plausible bugs: the job is freed under the worker; the callback stays.  *)
CancelRunning_Frees(id) ==
  /\ \A j \in Job : Queued(j) => item[j].id # id
  /\ \E j \in m_processing :
       /\ item[j].id = id
       /\ item' = [item EXCEPT ![j].callback = NULL]
       /\ heap' = [heap EXCEPT ![j] = "deleted"]
       /\ cancelled' = [cancelled EXCEPT ![j] = IF @ = "no" THEN CancelMark(j) ELSE @]
  /\ UNCHANGED <<m_jobQueue, m_processing, m_jobCounter, flagVars, m_workers,
                 eventVars, threadVars, notified, told>>
CancelRunning_KeepsCallback(id) ==
  /\ \A j \in Job : Queued(j) => item[j].id # id
  /\ \E j \in m_processing :
       /\ item[j].id = id
       /\ cancelled' = [cancelled EXCEPT ![j] = IF @ = "no" THEN CancelMark(j) ELSE @]
  /\ UNCHANGED <<queueVars, flagVars, m_workers, eventVars, threadVars, heap,
                 notified, told>>

(* CancelJob(id), the job with a worker: only its callback can be removed. *)
CancelRunning(id) ==
  /\ \A j \in Job : Queued(j) => item[j].id # id
  /\ \E j \in m_processing :
       /\ item[j].id = id
       /\ item' = [item EXCEPT ![j].callback = NULL]
       /\ cancelled' = [cancelled EXCEPT
                          ![j] = IF @ = "no" THEN CancelMark(j) ELSE @]
  /\ UNCHANGED <<m_jobQueue, m_processing, m_jobCounter, flagVars, m_workers,
                 eventVars, threadVars, heap, notified, told>>

CancelJob(id) == CancelQueued(id) \/ CancelRunning(id)

PauseJobs ==
  /\ m_pauseJobs' = TRUE
  /\ UNCHANGED <<queueVars, m_running, canceller, m_workers, eventVars,
                 threadVars, heap, histVars>>

UnPauseJobs ==
  /\ m_pauseJobs' = FALSE
  /\ UNCHANGED <<queueVars, m_running, canceller, m_workers, eventVars,
                 threadVars, heap, histVars>>

(* CancelJobs(), first part: stop, free every queued job, silence the rest. *)
CancelJobsBegin ==
  /\ canceller = "idle"
  /\ canceller' = "flushing"
  /\ m_running' = FALSE
  /\ m_jobQueue' = [p \in Priority |-> <<>>]
  /\ item' = [j \in Job |-> IF j \in m_processing
                            THEN [item[j] EXCEPT !.callback = NULL] ELSE NoItem]
  /\ heap' = [j \in Job |-> IF Queued(j) THEN "deleted" ELSE heap[j]]
  /\ cancelled' = [j \in Job |->
       IF cancelled[j] = "no" /\ (Queued(j) \/ j \in m_processing)
       THEN CancelMark(j) ELSE cancelled[j]]
  /\ UNCHANGED <<m_processing, m_jobCounter, m_pauseJobs, m_workers, eventVars,
                 threadVars, notified, told>>

(* ... second part: signal, yield and look again until no worker is left.  *)
CancelJobsSignal ==
  /\ canceller = "flushing" /\ m_workers # {}
  /\ signaled' = TRUE
  /\ UNCHANGED <<queueVars, flagVars, m_workers, waiters, threadVars, heap, histVars>>

(* Plausible bug: it does not wait for the workers.                        *)
CancelJobsReturn_AtOnce ==
  /\ canceller = "flushing"
  /\ canceller' = "idle"
  /\ UNCHANGED <<queueVars, m_pauseJobs, m_running, m_workers, eventVars,
                 threadVars, heap, histVars>>

CancelJobsReturn ==
  /\ canceller = "flushing" /\ m_workers = {}
  /\ canceller' = "idle"
  /\ UNCHANGED <<queueVars, m_pauseJobs, m_running, m_workers, eventVars,
                 threadVars, heap, histVars>>

(* Restart() throws unless CancelJobs() was called; it is called after     *)
(* CancelJobs() has returned.                                              *)
Restart ==
  /\ ~m_running /\ canceller = "idle"
  /\ m_running' = TRUE
  /\ UNCHANGED <<queueVars, m_pauseJobs, canceller, m_workers, eventVars,
                 threadVars, heap, histVars>>

-----------------------------------------------------------------------------
(* The worker thread                                                       *)

(* GetNextJob gets a job from PopJob: the oldest of the highest priority   *)
(* that may run now.  The last look after a timeout, or when the manager   *)
(* stopped, is the same PopJob.                                            *)
TakeJob(w) ==
  /\ pc[w] \in {"next", "timedout"}
  /\ \E p \in Priority :
       /\ PopsFrom(p)
       /\ m_jobQueue' = [m_jobQueue EXCEPT ![p] = Tail(@)]
       /\ m_processing' = m_processing \cup {Head(m_jobQueue[p])}
       /\ job' = [job EXCEPT ![w] = Head(m_jobQueue[p])]
  /\ pc' = [pc EXCEPT ![w] = "run"]
  /\ UNCHANGED <<item, m_jobCounter, flagVars, m_workers, eventVars, cb, heap, histVars>>

(* Plausible bug: the loop does not look at m_running again.               *)
LeaveLock_Always(w) ==
  /\ pc[w] = "next" /\ ~CanPop
  /\ pc' = [pc EXCEPT ![w] = "leave"]
  /\ UNCHANGED <<queueVars, flagVars, m_workers, eventVars, job, cb, heap, histVars>>

(* Nothing to take: GetNextJob leaves the lock to wait for the event.      *)
LeaveLock(w) ==
  /\ pc[w] = "next" /\ m_running /\ ~CanPop
  /\ pc' = [pc EXCEPT ![w] = "leave"]
  /\ UNCHANGED <<queueVars, flagVars, m_workers, eventVars, job, cb, heap, histVars>>

(* WaitMSec(30000): returns at once if the event is signaled.              *)
WaitForEvent(w) ==
  /\ pc[w] = "leave"
  /\ IF signaled
     THEN /\ pc' = [pc EXCEPT ![w] = "next"]
          /\ signaled' = (waiters # {})
          /\ UNCHANGED waiters
     ELSE /\ pc' = [pc EXCEPT ![w] = "waiting"]
          /\ waiters' = waiters \cup {w}
          /\ UNCHANGED signaled
  /\ UNCHANGED <<queueVars, flagVars, m_workers, job, cb, heap, histVars>>

(* A sleeper returns true and looks again; the last one resets the event.  *)
WakeUp(w) ==
  /\ pc[w] = "waiting" /\ signaled
  /\ pc' = [pc EXCEPT ![w] = "next"]
  /\ waiters' = waiters \ {w}
  /\ signaled' = (waiters # {w})
  /\ UNCHANGED <<queueVars, flagVars, m_workers, job, cb, heap, histVars>>

(* ... or returns false after 30 seconds.                                  *)
TimeOut(w) ==
  /\ pc[w] = "waiting" /\ ~signaled
  /\ pc' = [pc EXCEPT ![w] = "timedout"]
  /\ waiters' = waiters \ {w}
  /\ UNCHANGED <<queueVars, flagVars, m_workers, signaled, job, cb, heap, histVars>>

(* Plausible bug: no last look after the timeout.                          *)
Retire_Blindly(w) ==
  /\ \/ pc[w] = "timedout"
     \/ pc[w] = "next" /\ ~m_running
  /\ pc' = [pc EXCEPT ![w] = "exit"]
  /\ m_workers' = m_workers \ {w}
  /\ UNCHANGED <<queueVars, flagVars, eventVars, job, cb, heap, histVars>>

(* No job on the last look: RemoveWorker, and the thread function returns. *)
Retire(w) ==
  /\ \/ pc[w] = "timedout"
     \/ pc[w] = "next" /\ ~m_running
  /\ ~CanPop
  /\ pc' = [pc EXCEPT ![w] = "exit"]
  /\ m_workers' = m_workers \ {w}
  /\ UNCHANGED <<queueVars, flagVars, eventVars, job, cb, heap, histVars>>

(* The thread deletes itself: ~CJobWorker calls RemoveWorker once more.    *)
ExitThread(w) ==
  /\ pc[w] = "exit"
  /\ pc' = [pc EXCEPT ![w] = "none"]
  /\ m_workers' = m_workers \ {w}
  /\ UNCHANGED <<queueVars, flagVars, eventVars, job, cb, heap, histVars>>

(* DoWork calls ShouldCancel: OnJobProgress copies the work item; without  *)
(* a callback the answer is true, ...                                      *)
CheckCancel(w) ==
  /\ pc[w] = "run"
  /\ IF item[job[w]].callback = NULL
     THEN /\ told' = told \cup {job[w]}
          /\ UNCHANGED <<pc, cb>>
     ELSE /\ pc' = [pc EXCEPT ![w] = "progress"]
          /\ cb' = [cb EXCEPT ![w] = item[job[w]].callback]
          /\ UNCHANGED told
  /\ UNCHANGED <<queueVars, flagVars, m_workers, eventVars, job, heap, notified, cancelled>>

(* ... else the client's OnJobProgress is called, unlocked, and it is false. *)
ProgressDone(w) ==
  /\ pc[w] = "progress"
  /\ pc' = [pc EXCEPT ![w] = "run"]
  /\ cb' = [cb EXCEPT ![w] = NULL]
  /\ UNCHANGED <<queueVars, flagVars, m_workers, eventVars, job, heap, histVars>>

(* DoWork returned (or threw): OnJobComplete copies the work item.         *)
JobDone(w) ==
  /\ pc[w] = "run"
  /\ pc' = [pc EXCEPT ![w] = "callback"]
  /\ cb' = [cb EXCEPT ![w] = item[job[w]].callback]
  /\ UNCHANGED <<queueVars, flagVars, m_workers, eventVars, job, heap, histVars>>

(* The callback of that copy, called without the lock.                     *)
NotifyClient(w) ==
  /\ pc[w] = "callback"
  /\ pc' = [pc EXCEPT ![w] = "erase"]
  /\ notified' = IF cb[w] # NULL THEN [notified EXCEPT ![job[w]] = @ + 1] ELSE notified
  /\ UNCHANGED <<queueVars, flagVars, m_workers, eventVars, job, cb, heap, cancelled, told>>

(* Back under the lock: erase the entry, then free the job.                *)
EraseJob(w) ==
  /\ pc[w] = "erase"
  /\ m_processing' = m_processing \ {job[w]}
  /\ item' = [item EXCEPT ![job[w]] = NoItem]
  /\ heap' = [heap EXCEPT ![job[w]] = "deleted"]
  /\ pc' = [pc EXCEPT ![w] = "next"]
  /\ job' = [job EXCEPT ![w] = NULL]
  /\ cb' = [cb EXCEPT ![w] = NULL]
  /\ UNCHANGED <<m_jobQueue, m_jobCounter, flagVars, m_workers, eventVars, histVars>>

-----------------------------------------------------------------------------
WorkerStep(w) ==
  \/ TakeJob(w) \/ LeaveLock(w) \/ WaitForEvent(w) \/ WakeUp(w) \/ TimeOut(w)
  \/ Retire(w) \/ ExitThread(w)
  \/ ProgressDone(w) \/ JobDone(w) \/ NotifyClient(w) \/ EraseJob(w)

ClientStep ==
  \/ \E j \in Job, c \in Callback \cup {NULL}, p \in ClientPriority : AddJob(j, c, p)
  \/ \E id \in 1 .. IdModulus - 1 : CancelJob(id)
  \/ PauseJobs \/ UnPauseJobs
  \/ CancelJobsBegin \/ CancelJobsSignal \/ CancelJobsReturn \/ Restart

Next ==
  \/ ClientStep
  \/ \E w \in Worker : WorkerStep(w) \/ CheckCancel(w)

Spec == Init /\ [][Next]_vars

(* Threads are scheduled: a worker that can go on does, an idle wait times *)
(* out, a callback returns, and a job that keeps coming back to DoWork     *)
(* from its progress calls returns from it in the end.  CancelJobs() loops *)
(* without waiting for anyone.  Clients owe nothing.                       *)
Fairness ==
  /\ \A w \in Worker : WF_vars(WorkerStep(w)) /\ SF_vars(JobDone(w))
  /\ WF_vars(CancelJobsSignal) /\ WF_vars(CancelJobsReturn)

FairSpec == Spec /\ Fairness
=============================================================================
