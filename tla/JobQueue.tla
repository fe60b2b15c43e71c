------------------------------ MODULE JobQueue ------------------------------
(***************************************************************************)
(* CJobQueue (xbmc/utils/JobManager.cpp) on top of the job manager: a      *)
(* queue of distinct jobs that lets JobsAtOnce of them into CJobManager at *)
(* a time, with itself as their callback, and passes the next one on when  *)
(* a worker reports one.                                                   *)
(*                                                                         *)
(* The queue's own m_section (q_ here: both classes use the names          *)
(* m_jobQueue and m_processing) is taken before the manager's.  AddJob,    *)
(* CancelJob and OnJobComplete enter the manager at most once while they   *)
(* hold it, so each is one action; CancelJobs enters it once per entry,    *)
(* and the manager's threads run in between.                               *)
(***************************************************************************)
EXTENDS JobManagerProperties, SequencesExt

CONSTANTS
  Queue,          \* the CJobQueue object, as the IJobCallback it is
  Key,            \* what CJob::operator== compares
  JobsAtOnce,     \* m_jobsAtOnce
  QueuePriority,  \* m_priority
  ClientOps       \* what else clients do: "cancel", "pause", "shutdown"

ASSUME QueueAssumption ==
  /\ Queue \in Callback
  /\ JobsAtOnce \in Nat \ {0}
  /\ QueuePriority \in Priority
  /\ ClientOps \subseteq {"cancel", "pause", "shutdown"}

VARIABLES
  q_jobQueue,    \* the jobs kept back; the next one is at the end
  q_processing,  \* the entries [job, id] passed on to the manager
  q_lock,        \* held by a thread inside CancelJobs
  m_lifo,        \* fixed by the constructor
  key            \* what operator== sees of each job

VARIABLES        \* history
  added,         \* the jobs AddJob accepted, in order
  reported,      \* the jobs OnJobComplete was called for, in order
  dropped,       \* the jobs CancelJob or CancelJobs took out of the queue
  refused        \* the jobs a stopped manager would not take

qVars == <<q_jobQueue, q_processing, q_lock>>
qHist == <<added, reported, dropped, refused>>
qvars == <<vars, qVars, m_lifo, key, qHist>>

QInit ==
  /\ Init
  /\ q_jobQueue = <<>> /\ q_processing = <<>> /\ q_lock = FALSE
  /\ m_lifo \in BOOLEAN
  /\ key = [j \in Job |-> NULL]
  /\ added = <<>> /\ reported = <<>> /\ dropped = {} /\ refused = {}

-----------------------------------------------------------------------------
Entries    == ToSet(q_processing)
InQueue(j) == j \in ToSet(q_jobQueue)

(* The jobs AddJob compares the new one with.                              *)
Listed == ToSet(q_jobQueue) \cup {e.job : e \in Entries}

(* What operator== may answer for a listed job and a job of this key: an   *)
(* entry can be left with a pointer to a job CJobManager::CancelJobs()     *)
(* deleted, and reads freed memory then.                                   *)
Equal(j, k) == IF heap[j] = "deleted" THEN BOOLEAN ELSE {key[j] = k}

(* find() may stop at entry i of q_processing, or find nothing there.      *)
MayFind(k, i) ==
  /\ TRUE \in Equal(q_processing[i].job, k)
  /\ \A n \in 1 .. i - 1 : FALSE \in Equal(q_processing[n].job, k)
MayMiss(k) == \A e \in Entries : FALSE \in Equal(e.job, k)

HasRoom_OneMore(procs) == Len(procs) <= JobsAtOnce   \* plausible bug

HasRoom(procs) == Len(procs) < JobsAtOnce
Inserted(j) == IF m_lifo THEN Append(q_jobQueue, j) ELSE <<j>> \o q_jobQueue

(* QueueNextJob, from what the caller made of the two lists and of pc.  A  *)
(* stopped manager returns id 0, and the entry is filed all the same.      *)
QueueNextJob(jobs, procs, pcs) ==
  IF jobs # <<>> /\ HasRoom(procs)
  THEN /\ q_jobQueue' = Front(jobs)
       /\ \/ /\ m_running
             /\ q_processing' = Append(procs, [job |-> Last(jobs), id |-> NextId(m_jobCounter)])
             /\ Enqueue(Last(jobs), Queue, QueuePriority, pcs)
             /\ UNCHANGED refused
          \/ /\ ~m_running
             /\ q_processing' = Append(procs, [job |-> Last(jobs), id |-> 0])
             /\ refused' = refused \cup {Last(jobs)}
             /\ pc' = pcs
             /\ UNCHANGED <<queueVars, m_workers, eventVars>>
  ELSE /\ q_jobQueue' = jobs /\ q_processing' = procs
       /\ pc' = pcs
       /\ UNCHANGED <<queueVars, m_workers, eventVars, refused>>

(* AddJob: a job equal to one the queue has is deleted instead.            *)
AddToQueue(j, k) ==
  /\ ~q_lock /\ heap[j] = "unborn"
  /\ key' = [key EXCEPT ![j] = k]
  /\ \/ /\ \E i \in Listed : TRUE \in Equal(i, k)
        /\ heap' = [heap EXCEPT ![j] = "deleted"]
        /\ UNCHANGED <<queueVars, m_workers, eventVars, pc, q_jobQueue, q_processing, added, refused>>
     \/ /\ \A i \in Listed : FALSE \in Equal(i, k)
        /\ heap' = [heap EXCEPT ![j] = "live"]
        /\ QueueNextJob(Inserted(j), q_processing, pc)
        /\ added' = Append(added, j)
  /\ UNCHANGED <<flagVars, job, cb, histVars, q_lock, m_lifo, reported, dropped>>

(* The manager's CancelJob, which does nothing for an id it does not know. *)
ManagerCancel(id) ==
  \/ CancelJob(id)
  \/ /\ \A j \in Job : Queued(j) \/ j \in m_processing => item[j].id # id
     /\ UNCHANGED vars

(* Plausible bug: the entry is not erased.                                 *)
CancelPassedOn_KeepsEntry(k) ==
  /\ ~q_lock
  /\ \E i \in DOMAIN q_processing :
       /\ MayFind(k, i)
       /\ ManagerCancel(q_processing[i].id)
       /\ dropped' = dropped \cup {q_processing[i].job}
  /\ UNCHANGED <<qVars, m_lifo, key, added, reported, refused>>

(* CancelJob(job) for a job with this key: the first equal entry with the  *)
(* manager, ...                                                            *)
CancelPassedOn(k) ==
  /\ ~q_lock
  /\ \E i \in DOMAIN q_processing :
       /\ MayFind(k, i)
       /\ ManagerCancel(q_processing[i].id)
       /\ q_processing' = RemoveAt(q_processing, i)
       /\ dropped' = dropped \cup {q_processing[i].job}
  /\ UNCHANGED <<q_jobQueue, q_lock, m_lifo, key, added, reported, refused>>

(* ... else the first one still kept back, which is freed.                 *)
CancelKeptBack(k) ==
  /\ ~q_lock
  /\ MayMiss(k)
  /\ \E i \in DOMAIN q_jobQueue :
       /\ key[q_jobQueue[i]] = k
       /\ \A n \in 1 .. i - 1 : key[q_jobQueue[n]] # k
       /\ heap' = [heap EXCEPT ![q_jobQueue[i]] = "deleted"]
       /\ q_jobQueue' = RemoveAt(q_jobQueue, i)
       /\ dropped' = dropped \cup {q_jobQueue[i]}
  /\ UNCHANGED <<queueVars, flagVars, m_workers, eventVars, threadVars, histVars,
                 q_processing, q_lock, m_lifo, key, added, reported, refused>>

(* CancelJobs (and the destructor): cancel the entries one by one, ...     *)
QueueCancelBegin ==
  /\ ~q_lock /\ q_lock' = TRUE
  /\ UNCHANGED <<vars, q_jobQueue, q_processing, m_lifo, key, qHist>>

QueueCancelEntry ==
  /\ q_lock
  /\ \E e \in Entries :
       /\ e.job \notin dropped
       /\ ManagerCancel(e.id)
       /\ dropped' = dropped \cup {e.job}
  /\ UNCHANGED <<qVars, m_lifo, key, added, reported, refused>>

(* Plausible bug: the lists are cleared without freeing anything.          *)
QueueCancelEnd_Leaks ==
  /\ q_lock /\ \A e \in Entries : e.job \in dropped
  /\ dropped' = dropped \cup ToSet(q_jobQueue)
  /\ q_jobQueue' = <<>> /\ q_processing' = <<>> /\ q_lock' = FALSE
  /\ UNCHANGED <<vars, m_lifo, key, added, reported, refused>>

(* ... then free the jobs kept back and clear both lists.                  *)
QueueCancelEnd ==
  /\ q_lock /\ \A e \in Entries : e.job \in dropped
  /\ heap' = [j \in Job |-> IF InQueue(j) THEN "deleted" ELSE heap[j]]
  /\ dropped' = dropped \cup ToSet(q_jobQueue)
  /\ q_jobQueue' = <<>> /\ q_processing' = <<>> /\ q_lock' = FALSE
  /\ UNCHANGED <<queueVars, flagVars, m_workers, eventVars, threadVars, histVars,
                 m_lifo, key, added, reported, refused>>

(* OnJobComplete, called by a worker that holds the queue in its copy of   *)
(* the work item: the first entry with an equal job goes, and the next job *)
(* is passed on.                                                           *)
Erasures_None(k) == {q_processing}   \* plausible bug: nothing is erased

Erasures(k) ==
  {RemoveAt(q_processing, i) : i \in {n \in DOMAIN q_processing : MayFind(k, n)}}
    \cup (IF MayMiss(k) THEN {q_processing} ELSE {})

OnJobComplete(w) ==
  /\ ~q_lock
  /\ pc[w] = "callback" /\ cb[w] = Queue
  /\ notified' = [notified EXCEPT ![job[w]] = @ + 1]
  /\ reported' = Append(reported, job[w])
  /\ \E procs \in Erasures(key[job[w]]) :
       QueueNextJob(q_jobQueue, procs, [pc EXCEPT ![w] = "erase"])
  /\ UNCHANGED <<flagVars, job, cb, heap, cancelled, told, q_lock, m_lifo, key,
                 added, dropped>>

-----------------------------------------------------------------------------
ThreadStep(w) ==
  \/ OnJobComplete(w)
  \/ /\ \/ TakeJob(w) \/ LeaveLock(w) \/ WaitForEvent(w) \/ WakeUp(w) \/ TimeOut(w)
        \/ Retire(w) \/ ExitThread(w) \/ ProgressDone(w) \/ JobDone(w) \/ EraseJob(w)
        \/ cb[w] # Queue /\ NotifyClient(w)
     /\ UNCHANGED <<qVars, m_lifo, key, qHist>>

QNext ==
  \/ \E j \in Job, k \in Key : AddToQueue(j, k)
  \/ /\ "cancel" \in ClientOps
     /\ \/ \E k \in Key : CancelPassedOn(k) \/ CancelKeptBack(k)
        \/ QueueCancelBegin
  \/ QueueCancelEntry \/ QueueCancelEnd
  \/ /\ \/ "pause" \in ClientOps /\ (PauseJobs \/ UnPauseJobs)
        \/ "shutdown" \in ClientOps
             /\ (CancelJobsBegin \/ CancelJobsSignal \/ CancelJobsReturn \/ Restart)
        \/ \E w \in Worker : CheckCancel(w)
     /\ UNCHANGED <<qVars, m_lifo, key, qHist>>
  \/ \E w \in Worker : ThreadStep(w)

QSpec == QInit /\ [][QNext]_qvars

(* As in JobManager: threads run on, and DoWork returns.                   *)
QFairness ==
  /\ \A w \in Worker :
       WF_qvars(ThreadStep(w)) /\ SF_qvars(JobDone(w) /\ UNCHANGED <<qVars, m_lifo, key, qHist>>)
  /\ WF_qvars(QueueCancelEntry) /\ WF_qvars(QueueCancelEnd)

QFairSpec == QSpec /\ QFairness

-----------------------------------------------------------------------------
(* Each job kept back is passed on, or cancelled, in the end.              *)
QueuedInTurn == \A j \in Job : InQueue(j) ~> ~InQueue(j)

(* The pointers the queue keeps (operator== follows them) are to jobs that *)
(* exist; an entry's job is still queued or listed in the manager, with    *)
(* the entry's id: unless the manager had stopped, and refused the job or  *)
(* cancelled it behind the queue's back.                                   *)
EntriesAreLive ==
  /\ \A j \in Job : InQueue(j) => heap[j] = "live" /\ ~Queued(j) /\ j \notin m_processing
  /\ q_lock \/ \A e \in Entries :
       \/ e.job \in refused
       \/ cancelled[e.job] # "no" /\ e.job \notin dropped
       \/ /\ heap[e.job] = "live"
          /\ Queued(e.job) \/ e.job \in m_processing
          /\ item[e.job].id = e.id

(* JobManager.h on AddJob: "On completion of the job (or destruction of    *)
(* the job queue) the CJob object will be destroyed": a job that exists    *)
(* belongs to the queue or to the manager, which will free it, unless the  *)
(* manager refused it.                                                     *)
NoOrphans ==
  \A j \in Job : heap[j] = "live" =>
    \/ InQueue(j) \/ \E e \in Entries : e.job = j
    \/ Queued(j) \/ j \in m_processing
    \/ j \in refused
=============================================================================
