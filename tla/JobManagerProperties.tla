------------------------ MODULE JobManagerProperties ------------------------
(***************************************************************************)
(* What CJobManager is expected to guarantee, whatever the clients do.     *)
(***************************************************************************)
EXTENDS JobManager

(* The work a worker holds and the work the manager lists are the same:    *)
(* each job in m_processing is with exactly one worker, one the manager    *)
(* still knows, and each busy worker's job is listed.  Were it not so,     *)
(* m_processing.size(), which every scheduling decision reads, would lie.  *)
ProcessingMatchesWorkers ==
  /\ \A w \in Worker : pc[w] \in Busy => /\ job[w] \in m_processing
                                         /\ w \in m_workers
  /\ \A j \in m_processing : \E w \in Worker : pc[w] \in Busy /\ job[w] = j
  /\ \A v, w \in Worker : pc[v] \in Busy /\ pc[w] \in Busy /\ job[v] = job[w] => v = w

(* No job object is used after it was deleted: not by a queue, not by      *)
(* m_processing, not by a worker that is running or reporting it.          *)
NoUseAfterDelete ==
  \A j \in Job : heap[j] # "live" =>
    /\ ~Queued(j)
    /\ j \notin m_processing
    /\ \A w \in Worker : job[w] # j

(* JobManager.h: "Lower priority jobs are executed only if there are       *)
(* sufficient spare worker threads free to allow for higher priority jobs  *)
(* that may arise": the jobs of priority p or lower leave a thread for     *)
(* each priority above p, whatever mix of priorities ran before.           *)
ThreadsReservedForHigher ==
  \A p \in Priority \ {DEDICATED} :
    Cardinality({j \in m_processing : item[j].priority <= p}) <= MaxWorkers - (HIGH - p)

(* A queued job that pausing cannot hold back always has a worker thread   *)
(* that will come for it, even across timeouts, retirements and            *)
(* cancellations that race with AddJob.                                    *)
QueuedJobHasWorker ==
  (\E p \in Priority : p > LOW_PAUSABLE /\ m_jobQueue[p] # <<>>) => m_workers # {}

(* JobManager.h on CancelJobs(): it is to be called "prior to destroying   *)
(* any objects that may be being used as callbacks".  So once it returned, *)
(* and until Restart(), no thread is in a callback or can get into one.    *)
QuietAfterCancelJobs ==
  ~m_running /\ canceller = "idle" =>
    /\ m_workers = {} /\ m_processing = {}
    /\ \A j \in Job : ~Queued(j)
    /\ \A w \in Worker : pc[w] \in {"none", "exit"} /\ cb[w] = NULL

(* A job cancelled before its DoWork returned is never reported: removing  *)
(* the callback under the lock beats the copy OnJobComplete takes.         *)
EarlyCancelIsSilent ==
  \A j \in Job : cancelled[j] = "before" => notified[j] = 0

(* A job whose ShouldCancel() answered true, and that returned half done,  *)
(* is never reported to its client as complete: the callback that was gone *)
(* then cannot come back.                                                  *)
ToldJobsAreSilent == \A j \in told : notified[j] = 0

(* The id AddJob hands out is never 0, which means "not accepted", even    *)
(* when the unsigned counter wraps around.                                 *)
AcceptedIdIsNotZero ==
  \A j \in Job : Queued(j) \/ j \in m_processing => item[j].id # 0

(* Dispatch order: a job starts only when nothing of a higher priority is  *)
(* queued, as the oldest of its priority, and never from the pausable      *)
(* queue while jobs are paused.                                            *)
Starts(j) == j \notin m_processing /\ j \in m_processing'
DispatchOrder ==
  [][\A j \in Job : Starts(j) =>
       \E p \in Priority :
         /\ m_jobQueue[p] # <<>> /\ Head(m_jobQueue[p]) = j
         /\ \A q \in Priority : q > p =>
              m_jobQueue[q] = <<>>
         /\ m_pauseJobs => p # LOW_PAUSABLE]_vars

(* Every job that is accepted and cannot be paused ends: it is run and     *)
(* freed, or cancelled and freed; no wakeup that gets lost between the     *)
(* queue and the event can leave it behind for good.                       *)
AcceptedJobsEnd ==
  \A j \in Job :
    (heap[j] = "live" /\ Queued(j) /\ item[j].priority > LOW_PAUSABLE)
      ~> (heap[j] = "deleted")

(* CancelJobs() returns: the workers, however they were waiting, all see   *)
(* that the manager stopped.                                               *)
CancelJobsTerminates == (canceller = "flushing") ~> (canceller = "idle")

(* The stage each job has reached, as its client sees it.                  *)
StageOf(j) ==
  CASE heap[j] = "unborn"  -> "new"
    [] heap[j] = "deleted" -> "destroyed"
    [] heap[j] = "live" /\ Queued(j) -> "queued"
    [] heap[j] = "live" /\ j \in m_processing /\ notified[j] = 0 -> "running"
    [] heap[j] = "live" /\ j \in m_processing /\ notified[j] # 0 -> "reported"
    [] OTHER -> "refused"

(* The manager implements the life cycle promised for a job.               *)
Lifecycle == INSTANCE JobLifecycle WITH stage <- [j \in Job |-> StageOf(j)]
JobsFollowLifecycle == Lifecycle!Spec

-----------------------------------------------------------------------------
(* A statement of the documentation that the code does not keep.           *)

(* JobManager.h: UnPauseJobs() "Resumes queueing of (previously paused)    *)
(* jobs with priority PRIORITY_LOW_PAUSABLE".                              *)
UnpausedJobsResume ==
  \A j \in Job :
    (Queued(j) /\ item[j].priority = LOW_PAUSABLE /\ ~m_pauseJobs)
      ~> (~Queued(j) \/ m_pauseJobs)
=============================================================================
