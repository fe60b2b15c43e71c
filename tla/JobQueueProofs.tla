--------------------------- MODULE JobQueueProofs ---------------------------
(***************************************************************************)
(* Proofs about the two classes of xbmc/utils/JobManager.cpp: CJobManager, *)
(* and CJobQueue on top of it.                                             *)
(*                                                                         *)
(* 1. The manager, for any number of jobs and of threads, any priorities,  *)
(*    any max_workers and any width of the id counter.  One inductive      *)
(*    invariant, IInv, carries all of it but the order of dispatch, which  *)
(*    is a fact about steps and follows from it.  None of the safety       *)
(*    properties is inductive alone: that an early cancellation is silent  *)
(*    rests on which thread holds which job (ThreadInv) and on the queues  *)
(*    holding none but live jobs, each once (QueueInv).  Two more results  *)
(*    rest on it: a queued job never is without a thread, and the manager  *)
(*    implements the life cycle it promises for each job.                  *)
(*                                                                         *)
(* 2. The queue, for any number of jobs, keys and threads: nothing that it *)
(*    keeps back is freed or passed on twice, no job is left without an    *)
(*    owner; the entries of a queue that passes on one job at a time are   *)
(*    live, and if it is first in first out and nobody cancels, it passes  *)
(*    its jobs on in the order they were added.                            *)
(***************************************************************************)
EXTENDS JobQueue, FiniteSetTheorems, SequenceTheorems, TLAPS

-----------------------------------------------------------------------------
(* 1. The manager                                                          *)

(* The inductive invariant.                                                *)

(* A thread is known to the manager from its creation to its last look for *)
(* a job, and holds a job, its own, exactly while it is busy with it.      *)
ThreadInv ==
  /\ \A w \in Worker : w \in m_workers <=> pc[w] \notin {"none", "exit"}
  /\ \A w \in Worker : pc[w] \in Busy => job[w] \in m_processing
  /\ \A w \in Worker : pc[w] \notin Busy => job[w] = NULL /\ cb[w] = NULL
  /\ \A v, w \in Worker : pc[v] \in Busy /\ pc[w] \in Busy /\ job[v] = job[w] => v = w
  /\ \A j \in m_processing : \E w \in Worker : pc[w] \in Busy /\ job[w] = j

(* A job is in at most one place of one queue, filed under its priority.   *)
QueueInv ==
  /\ \A p, q \in Priority :
       \A i \in DOMAIN m_jobQueue[p], k \in DOMAIN m_jobQueue[q] :
         m_jobQueue[p][i] = m_jobQueue[q][k] => p = q /\ i = k
  /\ \A p \in Priority : \A i \in DOMAIN m_jobQueue[p] :
       /\ m_jobQueue[p][i] \notin m_processing
       /\ heap[m_jobQueue[p][i]] = "live"
       /\ item[m_jobQueue[p][i]].priority = p
       /\ item[m_jobQueue[p][i]].id # 0
  /\ \A j \in m_processing : heap[j] = "live" /\ item[j].id # 0

(* A manager that stopped has no queued job, and once CancelJobs() is over *)
(* no thread.                                                              *)
StopInv ==
  /\ ~m_running => \A p \in Priority : m_jobQueue[p] = <<>>
  /\ canceller = "flushing" => ~m_running
  /\ ~m_running /\ canceller = "idle" => m_workers = {}

(* What keeps a cancelled job silent: no thread can pick its callback up.  *)
SilenceInv ==
  /\ \A j \in Job : Queued(j) => cancelled[j] = "no" /\ notified[j] = 0
  /\ \A j \in Job : heap[j] = "unborn" => cancelled[j] = "no" /\ notified[j] = 0
  /\ \A w \in Worker : pc[w] \in {"run", "progress", "callback"} => notified[job[w]] = 0
  /\ \A j \in Job : cancelled[j] = "before" => notified[j] = 0
  /\ \A j \in m_processing : cancelled[j] = "before" => item[j].callback = NULL
  /\ \A w \in Worker : pc[w] = "callback" /\ cancelled[job[w]] = "before" => cb[w] = NULL

(* What keeps a job that was told to stop silent.                          *)
ToldInv ==
  /\ \A j \in told : ~Queued(j) /\ heap[j] # "unborn" /\ notified[j] = 0
  /\ \A j \in told : j \in m_processing => item[j].callback = NULL
  /\ \A w \in Worker : pc[w] = "callback" /\ job[w] \in told => cb[w] = NULL

(* The jobs of a priority and below keep to the limit of that priority.    *)
LimitsHold ==
  \A p \in Priority \ {DEDICATED} :
    Cardinality({j \in m_processing : item[j].priority <= p}) <= GetMaxWorkers(p)

IInv ==
  /\ TypeOK /\ ThreadInv /\ QueueInv /\ StopInv
  /\ LimitsHold /\ SilenceInv /\ ToldInv

-----------------------------------------------------------------------------
(* The operators the manager is built from.                                *)

(* The ids it hands out are never 0, whatever the counter was.             *)
LEMMA NextIdType ==
  ASSUME NEW c \in 0 .. IdModulus - 1
  PROVE  NextId(c) \in 1 .. IdModulus - 1
<1>1. CASE c + 1 < IdModulus
  <2>1. (c + 1) % IdModulus = c + 1
    BY <1>1, ParameterAssumption, SMT
  <2> QED BY <2>1, <1>1, ParameterAssumption, SMT DEF NextId
<1>2. CASE c + 1 = IdModulus
  <2>1. (c + 1) % IdModulus = 0
    BY <1>2, ParameterAssumption, SMT
  <2> QED BY <2>1, <1>2, ParameterAssumption, SMT DEF NextId
<1> QED BY <1>1, <1>2, ParameterAssumption, SMT

(* Erasing an entry keeps the others, those after it one place earlier.    *)
LEMMA DropProperties ==
  ASSUME NEW S, NEW s \in Seq(S), NEW i \in DOMAIN s
  PROVE  /\ Drop(s, i) \in Seq(S)
         /\ Len(Drop(s, i)) = Len(s) - 1
         /\ DOMAIN Drop(s, i) = 1 .. Len(s) - 1
         /\ \A k \in 1 .. Len(s) - 1 :
              Drop(s, i)[k] = IF k < i THEN s[k] ELSE s[k + 1]
<1> DEFINE n == Len(s)
           a == SubSeq(s, 1, i - 1)
           b == SubSeq(s, i + 1, Len(s))
<1>0. n \in Nat /\ i \in 1 .. n
  BY SMT
<1>1. /\ a \in Seq(S)
      /\ Len(a) = i - 1
      /\ \A k \in 1 .. i - 1 : a[k] = s[k]
  BY SMT
<1>2. /\ b \in Seq(S)
      /\ Len(b) = n - i
      /\ \A k \in 1 .. n - i : b[k] = s[k + i]
  BY SMT
<1>3. Drop(s, i) = a \o b
  BY DEF Drop
<1> HIDE DEF a, b, n
<1>4. /\ a \o b \in Seq(S)
      /\ Len(a \o b) = Len(a) + Len(b)
      /\ \A k \in 1 .. Len(a) + Len(b) :
           (a \o b)[k] = IF k <= Len(a) THEN a[k] ELSE b[k - Len(a)]
  BY <1>1, <1>2, ConcatProperties
<1>5. Len(a \o b) = n - 1
  BY <1>0, <1>1, <1>2, <1>4, SMT
<1>6. DOMAIN (a \o b) = 1 .. n - 1
  BY <1>4, <1>5, SMT
<1>7. ASSUME NEW k \in 1 .. n - 1
      PROVE  (a \o b)[k] = IF k < i THEN s[k] ELSE s[k + 1]
  <2>1. (a \o b)[k] = IF k <= i - 1 THEN a[k] ELSE b[k - (i - 1)]
    <3>1. k \in 1 .. Len(a) + Len(b)
      BY <1>0, <1>1, <1>2, SMT
    <3> QED BY <3>1, <1>4, <1>1
  <2>2. CASE k < i
    BY <2>1, <2>2, <1>0, <1>1, SMT
  <2>3. CASE ~(k < i)
    <3>1. k - (i - 1) \in 1 .. n - i /\ k - (i - 1) + i = k + 1 /\ ~(k <= i - 1)
      BY <2>3, <1>0, SMT
    <3>2. b[k - (i - 1)] = s[k - (i - 1) + i]
      BY <3>1, <1>2
    <3> QED BY <2>1, <2>3, <3>1, <3>2
  <2> QED BY <2>2, <2>3
<1> QED BY <1>3, <1>4, <1>5, <1>6, <1>7 DEF n

(* What PopJob reads and leaves of a queue that is not empty.              *)
LEMMA HeadTail ==
  ASSUME NEW S, NEW s \in Seq(S), s # <<>>
  PROVE  /\ Head(s) = s[1] /\ Head(s) \in S /\ 1 \in DOMAIN s
         /\ Tail(s) \in Seq(S) /\ DOMAIN Tail(s) = 1 .. Len(s) - 1
         /\ \A k \in DOMAIN Tail(s) : Tail(s)[k] = s[k + 1] /\ k + 1 \in DOMAIN s
<1>1. Len(s) \in Nat /\ Len(s) # 0 /\ DOMAIN s = 1 .. Len(s)
  BY EmptySeq, SMT
<1> QED BY <1>1, SMT

-----------------------------------------------------------------------------
(* Type correctness                                                        *)
(* The work item of a job nobody holds is a work item.                     *)
LEMMA NoItemType == NoItem \in Item
<1>1. 0 \in 0 .. IdModulus - 1 /\ LOW_PAUSABLE \in Priority
  BY ParameterAssumption, SMT DEF Priority, LOW_PAUSABLE, DEDICATED
<1> QED BY <1>1 DEF NoItem, Item

(* The manager starts well typed.                                          *)
LEMMA InitTypeOK == Init => TypeOK
<1> SUFFICES ASSUME Init PROVE TypeOK
  OBVIOUS
<1>1. /\ m_jobQueue \in [Priority -> Seq(Job)]
      /\ m_jobCounter \in 0 .. IdModulus - 1
      /\ notified \in [Job -> Nat]
  BY ParameterAssumption, SMT DEF Init
<1>2. item \in [Job -> Item]
  BY NoItemType DEF Init
<1> QED BY <1>1, <1>2 DEF Init, TypeOK, WorkerStates

(* StartWorkers keeps the types of what it writes.                         *)
LEMMA StartWorkersType ==
  ASSUME TypeOK, NEW p \in Priority,
         NEW pcs \in [Worker -> WorkerStates], StartWorkers(p, pcs)
  PROVE  /\ pc' \in [Worker -> WorkerStates]
         /\ m_workers' \subseteq Worker
         /\ signaled' \in BOOLEAN
  BY DEF TypeOK, StartWorkers, WorkerStates

(* AddJob keeps every type, and its id within the counter's width.         *)
LEMMA AddJobType ==
  ASSUME TypeOK, NEW j \in Job, NEW c \in Callback \cup {NULL},
         NEW p \in ClientPriority, AddJob(j, c, p)
  PROVE  TypeOK'
<1> USE DEF TypeOK
<1>1. p \in Priority
  BY ParameterAssumption
<1>2. heap' \in [Job -> {"unborn", "live", "deleted"}]
  BY DEF AddJob
<1>3. CASE m_running /\ Enqueue(j, c, p, pc)
  <2>1. NextId(m_jobCounter) \in 0 .. IdModulus - 1
    BY NextIdType, ParameterAssumption, SMT
  <2>2. m_jobCounter' \in 0 .. IdModulus - 1 /\ item' \in [Job -> Item]
    BY <1>1, <1>3, <2>1 DEF Enqueue, Item
  <2>3. m_jobQueue' \in [Priority -> Seq(Job)]
    BY <1>1, <1>3 DEF Enqueue
  <2>4. pc' \in [Worker -> WorkerStates] /\ m_workers' \subseteq Worker
        /\ signaled' \in BOOLEAN
    BY <1>1, <1>3, StartWorkersType DEF Enqueue
  <2> QED BY <1>2, <1>3, <2>2, <2>3, <2>4 DEF AddJob, Enqueue, flagVars, histVars
<1>4. CASE ~m_running /\ UNCHANGED <<queueVars, m_workers, eventVars, pc>>
  BY <1>2, <1>4 DEF AddJob, queueVars, eventVars, flagVars, histVars
<1> QED BY <1>3, <1>4 DEF AddJob

(* CancelJob keeps every type, whether the job was queued or running.      *)
LEMMA CancelJobType ==
  ASSUME TypeOK, NEW id, CancelJob(id)
  PROVE  TypeOK'
<1> USE DEF TypeOK, flagVars, eventVars, threadVars
<1>1. CASE CancelQueued(id)
  <2>0. PICK p \in Priority : \E i \in DOMAIN m_jobQueue[p] :
          /\ m_jobQueue' = [m_jobQueue EXCEPT ![p] = Drop(@, i)]
          /\ item' = [item EXCEPT ![m_jobQueue[p][i]] = NoItem]
          /\ heap' = [heap EXCEPT ![m_jobQueue[p][i]] = "deleted"]
          /\ cancelled' = [cancelled EXCEPT ![m_jobQueue[p][i]] = "before"]
    BY <1>1 DEF CancelQueued
  <2>1. PICK i \in DOMAIN m_jobQueue[p] :
          /\ m_jobQueue' = [m_jobQueue EXCEPT ![p] = Drop(@, i)]
          /\ item' = [item EXCEPT ![m_jobQueue[p][i]] = NoItem]
          /\ heap' = [heap EXCEPT ![m_jobQueue[p][i]] = "deleted"]
          /\ cancelled' = [cancelled EXCEPT ![m_jobQueue[p][i]] = "before"]
    BY <2>0
  <2>2. m_jobQueue' \in [Priority -> Seq(Job)]
    <3>1. Drop(m_jobQueue[p], i) \in Seq(Job)
      BY DropProperties
    <3> QED BY <2>1, <3>1
  <2> QED BY <1>1, <2>1, <2>2, NoItemType DEF CancelQueued
<1>2. CASE CancelRunning(id)
  <2>1. PICK j \in m_processing :
          /\ item' = [item EXCEPT ![j].callback = NULL]
          /\ cancelled' = [cancelled EXCEPT ![j] = IF @ = "no" THEN CancelMark(j) ELSE @]
    BY <1>2 DEF CancelRunning
  <2>2. item' \in [Job -> Item]
    BY <2>1 DEF Item
  <2>3. cancelled' \in [Job -> {"no", "before", "after"}]
    BY <2>1 DEF CancelMark
  <2> QED BY <1>2, <2>2, <2>3 DEF CancelRunning
<1> QED BY <1>1, <1>2 DEF CancelJob

(* Every operation of the clients keeps every type.                        *)
LEMMA ClientType ==
  ASSUME TypeOK, ClientStep
  PROVE  TypeOK'
<1> USE DEF TypeOK, queueVars, flagVars, eventVars, threadVars, histVars
<1>1. CASE \E j \in Job, c \in Callback \cup {NULL}, p \in ClientPriority : AddJob(j, c, p)
  BY <1>1, AddJobType
<1>2. CASE \E id \in 1 .. IdModulus - 1 : CancelJob(id)
  BY <1>2, CancelJobType
<1>3. CASE PauseJobs \/ UnPauseJobs
  BY <1>3 DEF PauseJobs, UnPauseJobs
<1>4. CASE CancelJobsBegin
  <2>1. item' \in [Job -> Item]
    <3>1. \A r \in Item : [r EXCEPT !.callback = NULL] \in Item
      BY DEF Item
    <3>2. item' = [j \in Job |-> IF j \in m_processing
                                 THEN [item[j] EXCEPT !.callback = NULL] ELSE NoItem]
      BY <1>4 DEF CancelJobsBegin
    <3>3. \A j \in Job : item[j] \in Item
      OBVIOUS
    <3> HIDE DEF TypeOK
    <3> QED BY <3>1, <3>2, <3>3, NoItemType
  <2>2. cancelled' \in [Job -> {"no", "before", "after"}]
    BY <1>4 DEF CancelJobsBegin, CancelMark
  <2>3. heap' \in [Job -> {"unborn", "live", "deleted"}]
    BY <1>4 DEF CancelJobsBegin
  <2>4. m_jobQueue' \in [Priority -> Seq(Job)]
    BY <1>4 DEF CancelJobsBegin
  <2>5. /\ m_processing' = m_processing /\ m_jobCounter' = m_jobCounter
        /\ m_pauseJobs' = m_pauseJobs /\ m_running' = FALSE
        /\ m_workers' = m_workers /\ UNCHANGED <<eventVars, threadVars, notified, told>>
        /\ canceller' = "flushing"
    BY <1>4 DEF CancelJobsBegin
  <2> QED BY <2>1, <2>2, <2>3, <2>4, <2>5
<1>5. CASE CancelJobsSignal \/ CancelJobsReturn \/ Restart
  BY <1>5 DEF CancelJobsSignal, CancelJobsReturn, Restart
<1> QED BY <1>1, <1>2, <1>3, <1>4, <1>5 DEF ClientStep

(* Every step of a worker keeps every type.                                *)
LEMMA WorkerType ==
  ASSUME TypeOK, ThreadInv, NEW w \in Worker, WorkerStep(w) \/ CheckCancel(w)
  PROVE  TypeOK'
<1> USE DEF TypeOK, WorkerStates, queueVars, flagVars, eventVars, threadVars, histVars
<1>1. CASE TakeJob(w)
  <2>1. PICK p \in Priority :
          /\ m_jobQueue[p] # <<>>
          /\ m_jobQueue' = [m_jobQueue EXCEPT ![p] = Tail(@)]
          /\ m_processing' = m_processing \cup {Head(m_jobQueue[p])}
          /\ job' = [job EXCEPT ![w] = Head(m_jobQueue[p])]
    BY <1>1 DEF TakeJob, PopsFrom, Eligible
  <2>2. Head(m_jobQueue[p]) \in Job /\ Tail(m_jobQueue[p]) \in Seq(Job)
    BY <2>1, SMT
  <2> QED BY <1>1, <2>1, <2>2 DEF TakeJob
<1>2. CASE LeaveLock(w) \/ Retire(w) \/ ExitThread(w)
  BY <1>2 DEF LeaveLock, Retire, ExitThread
<1>3. CASE WaitForEvent(w)
  BY <1>3 DEF WaitForEvent
<1>4. CASE WakeUp(w) \/ TimeOut(w)
  BY <1>4 DEF WakeUp, TimeOut
<1>5. CASE ProgressDone(w)
  BY <1>5 DEF ProgressDone
<1>0. pc[w] \in Busy => job[w] \in Job
  BY DEF ThreadInv
<1>6. CASE NotifyClient(w)
  BY <1>0, <1>6 DEF NotifyClient, Busy
<1>7. CASE JobDone(w) \/ CheckCancel(w)
  <2>1. job[w] \in Job /\ item[job[w]] \in Item
    BY <1>0, <1>7 DEF JobDone, CheckCancel, Busy
  <2>2. item[job[w]].callback \in Callback \cup {NULL}
    BY <2>1 DEF Item
  <2>3. CASE JobDone(w)
    BY <2>2, <2>3 DEF JobDone
  <2>4. CASE CheckCancel(w)
    BY <2>1, <2>2, <2>4 DEF CheckCancel
  <2> QED BY <1>7, <2>3, <2>4
<1>8. CASE EraseJob(w)
  BY <1>0, <1>8, NoItemType DEF EraseJob, Busy
<1> QED BY <1>1, <1>2, <1>3, <1>4, <1>5, <1>6, <1>7, <1>8 DEF WorkerStep
-----------------------------------------------------------------------------
(* Every step preserves ThreadInv.                                         *)
(* StartWorkers starts one thread that did not exist, or none.             *)
LEMMA StartWorkersThreads ==
  ASSUME TypeOK, ThreadInv, NEW p \in Priority, StartWorkers(p, pc)
  PROVE  \/ pc' = pc /\ m_workers' = m_workers
         \/ \E w \in Worker : /\ pc[w] = "none"
                              /\ pc' = [pc EXCEPT ![w] = "next"]
                              /\ m_workers' = m_workers \cup {w}
  BY DEF StartWorkers

(* No operation of the clients disturbs the work of the threads.           *)
LEMMA ThreadInvClient ==
  ASSUME TypeOK, ThreadInv, ClientStep
  PROVE  ThreadInv'
<1> USE DEF queueVars, flagVars, eventVars, threadVars, histVars
<1>1. CASE UNCHANGED <<pc, m_workers, m_processing, job, cb>>
  BY <1>1 DEF ThreadInv
<1>2. CASE \E j \in Job, c \in Callback \cup {NULL}, p \in ClientPriority : AddJob(j, c, p)
  <2>1. PICK j \in Job, c \in Callback \cup {NULL}, p \in ClientPriority : AddJob(j, c, p)
    BY <1>2
  <2>2. CASE ~m_running
    BY <1>1, <2>1, <2>2 DEF AddJob
  <2>3. CASE m_running
    <3>1. /\ StartWorkers(p, pc) /\ p \in Priority
          /\ UNCHANGED <<m_processing, job, cb>>
      BY <2>1, <2>3, ParameterAssumption DEF AddJob, Enqueue
    <3>2. CASE pc' = pc /\ m_workers' = m_workers
      BY <1>1, <3>1, <3>2
    <3>3. CASE \E w \in Worker : /\ pc[w] = "none"
                                 /\ pc' = [pc EXCEPT ![w] = "next"]
                                 /\ m_workers' = m_workers \cup {w}
      <4>1. PICK w \in Worker : /\ pc[w] = "none"
                                /\ pc' = [pc EXCEPT ![w] = "next"]
                                /\ m_workers' = m_workers \cup {w}
        BY <3>3
      <4>2. \A v \in Worker : pc'[v] = IF v = w THEN "next" ELSE pc[v]
        BY <4>1 DEF TypeOK
      <4>4. \A v \in Worker : pc'[v] \in Busy <=> pc[v] \in Busy
        BY <4>1, <4>2 DEF Busy
      <4>3. \A v \in Worker : v \in m_workers' <=> pc'[v] \notin {"none", "exit"}
        BY <4>1, <4>2 DEF ThreadInv
      <4> QED BY <3>1, <4>4, <4>3 DEF ThreadInv
    <3> QED BY <3>1, <3>2, <3>3, StartWorkersThreads
  <2> QED BY <2>2, <2>3
<1>3. CASE \E id \in 1 .. IdModulus - 1 : CancelJob(id)
  BY <1>1, <1>3 DEF CancelJob, CancelQueued, CancelRunning
<1>4. CASE PauseJobs \/ UnPauseJobs \/ Restart
  BY <1>1, <1>4 DEF PauseJobs, UnPauseJobs, Restart
<1>5. CASE CancelJobsBegin \/ CancelJobsSignal \/ CancelJobsReturn
  BY <1>1, <1>5 DEF CancelJobsBegin, CancelJobsSignal, CancelJobsReturn
<1> QED BY <1>2, <1>3, <1>4, <1>5 DEF ClientStep

(* A worker that takes, ends or erases a job leaves the lists and the      *)
(* threads in agreement.                                                   *)
LEMMA ThreadInvWorker ==
  ASSUME TypeOK, ThreadInv, QueueInv, NEW w \in Worker, WorkerStep(w) \/ CheckCancel(w)
  PROVE  ThreadInv'
<1> USE DEF queueVars, flagVars, eventVars, threadVars, histVars, Busy
<1>0. pc \in [Worker -> WorkerStates] /\ job \in [Worker -> Job \cup {NULL}]
      /\ cb \in [Worker -> Callback \cup {NULL}]
  BY DEF TypeOK
<1>1. CASE TakeJob(w)
  <2>1. PICK p \in Priority :
          /\ m_jobQueue[p] # <<>>
          /\ m_processing' = m_processing \cup {Head(m_jobQueue[p])}
          /\ job' = [job EXCEPT ![w] = Head(m_jobQueue[p])]
    BY <1>1 DEF TakeJob, PopsFrom, Eligible
  <2>2. PICK j \in Job : j = Head(m_jobQueue[p]) /\ j \notin m_processing
    <3>1. m_jobQueue[p] \in Seq(Job)
      BY DEF TypeOK
    <3>2. /\ 1 \in DOMAIN m_jobQueue[p] /\ Head(m_jobQueue[p]) = m_jobQueue[p][1]
          /\ Head(m_jobQueue[p]) \in Job
      BY <2>1, <3>1, HeadTail
    <3> QED BY <3>2 DEF QueueInv
  <2>3. /\ pc[w] \in {"next", "timedout"} /\ pc' = [pc EXCEPT ![w] = "run"]
        /\ m_processing' = m_processing \cup {j} /\ job' = [job EXCEPT ![w] = j]
        /\ UNCHANGED <<m_workers, cb>>
    BY <1>1, <2>1, <2>2 DEF TakeJob
  <2> QED BY <1>0, <2>2, <2>3 DEF ThreadInv
<1>2. CASE LeaveLock(w) \/ WaitForEvent(w) \/ WakeUp(w) \/ TimeOut(w)
  BY <1>0, <1>2 DEF ThreadInv, LeaveLock, WaitForEvent, WakeUp, TimeOut
<1>3. CASE Retire(w) \/ ExitThread(w)
  BY <1>0, <1>3 DEF ThreadInv, Retire, ExitThread
<1>4. CASE ProgressDone(w) \/ JobDone(w) \/ NotifyClient(w) \/ CheckCancel(w)
  BY <1>0, <1>4 DEF ThreadInv, ProgressDone, JobDone, NotifyClient, CheckCancel
<1>5. CASE EraseJob(w)
  BY <1>0, <1>5 DEF ThreadInv, EraseJob
<1> QED BY <1>1, <1>2, <1>3, <1>4, <1>5 DEF WorkerStep
-----------------------------------------------------------------------------
(* Every step preserves QueueInv.                                          *)
(* The elements of a queue that got one more.                              *)
LEMMA AppendElements ==
  ASSUME NEW S, NEW s \in Seq(S), NEW e \in S
  PROVE  /\ DOMAIN s = 1 .. Len(s) /\ Len(s) \in Nat
         /\ DOMAIN Append(s, e) = 1 .. Len(s) + 1
         /\ \A k \in DOMAIN Append(s, e) :
              Append(s, e)[k] = IF k \in DOMAIN s THEN s[k] ELSE e
         /\ \A i, k \in DOMAIN Append(s, e) : i \notin DOMAIN s /\ k \notin DOMAIN s => i = k
  BY AppendProperties, SMT

(* AddJob files a new job, once, under its own priority.                   *)
LEMMA QueueInvAdd ==
  ASSUME TypeOK, QueueInv, NEW j \in Job, NEW c \in Callback \cup {NULL},
         NEW p \in ClientPriority, AddJob(j, c, p)
  PROVE  QueueInv'
<1>0. p \in Priority /\ m_jobQueue[p] \in Seq(Job) /\ item \in [Job -> Item]
      /\ heap \in [Job -> {"unborn", "live", "deleted"}]
      /\ m_jobQueue \in [Priority -> Seq(Job)] /\ m_processing \subseteq Job
      /\ m_jobCounter \in 0 .. IdModulus - 1
  BY ParameterAssumption DEF TypeOK
<1>1. heap[j] = "unborn" /\ heap' = [heap EXCEPT ![j] = "live"]
  BY DEF AddJob
<1>2. \A q \in Priority : \A i \in DOMAIN m_jobQueue[q] :
        m_jobQueue[q][i] \in Job /\ m_jobQueue[q][i] # j
  <2>1. \A q \in Priority : \A i \in DOMAIN m_jobQueue[q] : m_jobQueue[q][i] \in Job
    BY <1>0, ElementOfSeq
  <2> QED BY <1>1, <2>1 DEF QueueInv
<1>3. j \notin m_processing
  BY <1>1 DEF QueueInv
<1>4. CASE m_running
  <2> DEFINE s == m_jobQueue[p]
             n == Append(s, j)
  <2>1. /\ m_jobQueue' = [m_jobQueue EXCEPT ![p] = n]
        /\ item' = [item EXCEPT ![j] = [id |-> NextId(m_jobCounter), callback |-> c,
                                        priority |-> p]]
        /\ m_processing' = m_processing
    BY <1>4 DEF AddJob, Enqueue
  <2>2. NextId(m_jobCounter) # 0
    BY <1>0, NextIdType, ParameterAssumption, SMT
  <2>3. /\ \A k \in DOMAIN n : n[k] = IF k \in DOMAIN s THEN s[k] ELSE j
        /\ \A i, k \in DOMAIN n : i \notin DOMAIN s /\ k \notin DOMAIN s => i = k
    BY <1>0, AppendElements
  <2>4. \A q \in Priority : m_jobQueue'[q] = IF q = p THEN n ELSE m_jobQueue[q]
    BY <1>0, <2>1
  <2> HIDE DEF n
  <2>5. \A q \in Priority : \A i \in DOMAIN m_jobQueue'[q] :
          \/ i \in DOMAIN m_jobQueue[q] /\ m_jobQueue'[q][i] = m_jobQueue[q][i]
          \/ q = p /\ i \notin DOMAIN m_jobQueue[q] /\ m_jobQueue'[q][i] = j
    BY <2>3, <2>4
  <2>6. \A q, r \in Priority :
          \A i \in DOMAIN m_jobQueue'[q], k \in DOMAIN m_jobQueue'[r] :
            m_jobQueue'[q][i] = m_jobQueue'[r][k] => q = r /\ i = k
    BY <1>2, <2>3, <2>4, <2>5 DEF QueueInv
  <2>7. \A i \in Job : /\ i # j => item'[i] = item[i] /\ heap'[i] = heap[i]
                       /\ i = j => /\ item'[i].id # 0 /\ item'[i].priority = p
                                   /\ heap'[i] = "live"
    BY <1>0, <1>1, <2>1, <2>2
  <2>8. \A q \in Priority : \A i \in DOMAIN m_jobQueue'[q] :
          /\ m_jobQueue'[q][i] \notin m_processing'
          /\ heap'[m_jobQueue'[q][i]] = "live"
          /\ item'[m_jobQueue'[q][i]].priority = q
          /\ item'[m_jobQueue'[q][i]].id # 0
    BY <1>2, <1>3, <2>1, <2>5, <2>7 DEF QueueInv
  <2>9. \A i \in m_processing' : heap'[i] = "live" /\ item'[i].id # 0
    BY <1>0, <1>3, <2>1, <2>7 DEF QueueInv
  <2> QED BY <2>6, <2>8, <2>9 DEF QueueInv
<1>5. CASE ~m_running
  <2>1. UNCHANGED <<m_jobQueue, m_processing, item>>
    BY <1>5 DEF AddJob, queueVars
  <2>2. \A i \in Job : i # j => heap'[i] = heap[i]
    BY <1>0, <1>1
  <2> QED BY <1>0, <1>2, <1>3, <2>1, <2>2 DEF QueueInv
<1> QED BY <1>4, <1>5

(* CancelJob takes the one place of the job away, or no place at all.      *)
LEMMA QueueInvCancel ==
  ASSUME TypeOK, QueueInv, NEW id, CancelJob(id)
  PROVE  QueueInv'
<1>0. item \in [Job -> Item] /\ m_processing \subseteq Job
      /\ heap \in [Job -> {"unborn", "live", "deleted"}]
      /\ m_jobQueue \in [Priority -> Seq(Job)]
  BY DEF TypeOK
<1>1. CASE CancelQueued(id)
  <2>1. PICK p \in Priority : \E i \in DOMAIN m_jobQueue[p] :
          /\ m_jobQueue' = [m_jobQueue EXCEPT ![p] = Drop(@, i)]
          /\ item' = [item EXCEPT ![m_jobQueue[p][i]] = NoItem]
          /\ heap' = [heap EXCEPT ![m_jobQueue[p][i]] = "deleted"]
    BY <1>1 DEF CancelQueued
  <2>2. PICK i \in DOMAIN m_jobQueue[p] :
          /\ m_jobQueue' = [m_jobQueue EXCEPT ![p] = Drop(@, i)]
          /\ item' = [item EXCEPT ![m_jobQueue[p][i]] = NoItem]
          /\ heap' = [heap EXCEPT ![m_jobQueue[p][i]] = "deleted"]
    BY <2>1
  <2> DEFINE s == m_jobQueue[p]
             j == s[i]
             At(k) == IF k < i THEN k ELSE k + 1
  <2>3. s \in Seq(Job) /\ j \in Job /\ j \notin m_processing /\ i \in 1 .. Len(s)
        /\ Len(s) \in Nat /\ DOMAIN s = 1 .. Len(s) /\ m_processing' = m_processing
    BY <1>0, <1>1, <2>2, ElementOfSeq, LenProperties DEF QueueInv, CancelQueued
  <2>4. DOMAIN Drop(s, i) = 1 .. Len(s) - 1
        /\ \A k \in DOMAIN Drop(s, i) : Drop(s, i)[k] = IF k < i THEN s[k] ELSE s[k + 1]
    BY <2>3, DropProperties
  <2>5. \A k \in DOMAIN Drop(s, i) :
          At(k) \in DOMAIN s /\ At(k) # i /\ Drop(s, i)[k] = s[At(k)]
    BY <2>3, <2>4, SMT
  <2>6. \A k, m \in DOMAIN Drop(s, i) : At(k) = At(m) => k = m
    BY <2>3, <2>4, SMT
  <2>7. \A q \in Priority : m_jobQueue'[q] = IF q = p THEN Drop(s, i) ELSE m_jobQueue[q]
    BY <1>0, <2>2
  <2> DEFINE Old(q, k) == IF q = p THEN At(k) ELSE k
  <2> HIDE DEF At
  <2>8. \A q \in Priority : \A k \in DOMAIN m_jobQueue'[q] :
          /\ Old(q, k) \in DOMAIN m_jobQueue[q]
          /\ m_jobQueue'[q][k] = m_jobQueue[q][Old(q, k)]
          /\ m_jobQueue'[q][k] # j
          /\ m_jobQueue'[q][k] \in Job
    <3>1. \A q \in Priority : \A k \in DOMAIN m_jobQueue[q] : m_jobQueue[q][k] \in Job
      BY <1>0, ElementOfSeq
    <3> QED BY <2>3, <2>5, <2>7, <3>1 DEF QueueInv
  <2>9. \A q \in Priority : \A k, m \in DOMAIN m_jobQueue'[q] : Old(q, k) = Old(q, m) => k = m
    BY <2>6, <2>7
  <2> HIDE DEF Old
  <2>10. \A q, r \in Priority :
           \A k \in DOMAIN m_jobQueue'[q], m \in DOMAIN m_jobQueue'[r] :
             m_jobQueue'[q][k] = m_jobQueue'[r][m] => q = r /\ k = m
    BY <2>8, <2>9 DEF QueueInv
  <2>11. \A k \in Job : k # j => item'[k] = item[k] /\ heap'[k] = heap[k]
    BY <1>0, <2>2
  <2>12. \A q \in Priority : \A k \in DOMAIN m_jobQueue'[q] :
           /\ m_jobQueue'[q][k] \notin m_processing'
           /\ heap'[m_jobQueue'[q][k]] = "live"
           /\ item'[m_jobQueue'[q][k]].priority = q
           /\ item'[m_jobQueue'[q][k]].id # 0
    BY <2>3, <2>8, <2>11 DEF QueueInv
  <2>13. \A k \in m_processing' : heap'[k] = "live" /\ item'[k].id # 0
    BY <1>0, <2>3, <2>11 DEF QueueInv
  <2> QED BY <2>10, <2>12, <2>13 DEF QueueInv
<1>2. CASE CancelRunning(id)
  <2>1. PICK j \in m_processing : item' = [item EXCEPT ![j].callback = NULL]
    BY <1>2 DEF CancelRunning
  <2>2. UNCHANGED <<m_jobQueue, m_processing, heap>>
    BY <1>2 DEF CancelRunning
  <2>3. \A k \in Job : item'[k].id = item[k].id /\ item'[k].priority = item[k].priority
    BY <1>0, <2>1 DEF Item
  <2>4. \A q \in Priority : \A k \in DOMAIN m_jobQueue[q] : m_jobQueue[q][k] \in Job
    BY <1>0, ElementOfSeq
  <2> QED BY <1>0, <2>2, <2>3, <2>4 DEF QueueInv
<1> QED BY <1>1, <1>2 DEF CancelJob

(* Every operation of the clients keeps the queues in order.               *)
LEMMA QueueInvClient ==
  ASSUME TypeOK, QueueInv, ClientStep
  PROVE  QueueInv'
<1> USE DEF queueVars, flagVars, eventVars, threadVars, histVars
<1>1. CASE UNCHANGED <<m_jobQueue, m_processing, item, heap>>
  BY <1>1 DEF QueueInv
<1>2. CASE \E j \in Job, c \in Callback \cup {NULL}, p \in ClientPriority : AddJob(j, c, p)
  BY <1>2, QueueInvAdd
<1>3. CASE \E id \in 1 .. IdModulus - 1 : CancelJob(id)
  BY <1>3, QueueInvCancel
<1>4. CASE PauseJobs \/ UnPauseJobs \/ CancelJobsSignal \/ CancelJobsReturn \/ Restart
  BY <1>1, <1>4 DEF PauseJobs, UnPauseJobs, CancelJobsSignal, CancelJobsReturn, Restart
<1>5. CASE CancelJobsBegin
  <2>1. /\ \A p \in Priority : m_jobQueue'[p] = <<>>
        /\ m_processing' = m_processing
    BY <1>5 DEF CancelJobsBegin
  <2>2. \A j \in m_processing : ~Queued(j) /\ j \in Job
    BY DEF QueueInv, Queued, TypeOK
  <2>3. \A j \in m_processing : heap'[j] = heap[j] /\ item'[j].id = item[j].id
    <3>1. \A j \in Job : item[j] \in Item
      BY DEF TypeOK
    <3> QED BY <1>5, <2>2, <3>1 DEF CancelJobsBegin, Item
  <2>4. \A p \in Priority : DOMAIN m_jobQueue'[p] = {}
    BY <2>1
  <2> QED BY <2>1, <2>3, <2>4 DEF QueueInv
<1> QED BY <1>2, <1>3, <1>4, <1>5 DEF ClientStep

(* A worker moves a job from its queue to m_processing, and out of there.  *)
LEMMA QueueInvWorker ==
  ASSUME TypeOK, ThreadInv, QueueInv, NEW w \in Worker, WorkerStep(w) \/ CheckCancel(w)
  PROVE  QueueInv'
<1> USE DEF queueVars, flagVars, eventVars, threadVars, histVars
<1>0. /\ item \in [Job -> Item] /\ m_processing \subseteq Job
      /\ heap \in [Job -> {"unborn", "live", "deleted"}]
      /\ m_jobQueue \in [Priority -> Seq(Job)]
      /\ \A q \in Priority : \A k \in DOMAIN m_jobQueue[q] : m_jobQueue[q][k] \in Job
  BY ElementOfSeq DEF TypeOK
<1>1. CASE UNCHANGED <<m_jobQueue, m_processing, item, heap>>
  BY <1>1 DEF QueueInv
<1>2. CASE TakeJob(w)
  <2>1. PICK p \in Priority :
          /\ m_jobQueue[p] # <<>>
          /\ m_jobQueue' = [m_jobQueue EXCEPT ![p] = Tail(@)]
          /\ m_processing' = m_processing \cup {Head(m_jobQueue[p])}
    BY <1>2 DEF TakeJob, PopsFrom, Eligible
  <2>2. UNCHANGED <<item, heap>>
    BY <1>2 DEF TakeJob
  <2> DEFINE s == m_jobQueue[p]
             Old(q, k) == IF q = p THEN k + 1 ELSE k
  <2>3. /\ s[1] = Head(s) /\ s[1] \in Job /\ 1 \in DOMAIN s
        /\ DOMAIN Tail(s) = 1 .. Len(s) - 1 /\ Len(s) \in Nat /\ DOMAIN s = 1 .. Len(s)
        /\ \A k \in DOMAIN Tail(s) : Tail(s)[k] = s[k + 1] /\ k + 1 \in DOMAIN s
    BY <1>0, <2>1, HeadTail, LenProperties
  <2>4. \A k \in DOMAIN Tail(s) : k + 1 # 1
    BY <2>3, SMT
  <2>5. \A k, m \in DOMAIN Tail(s) : k + 1 = m + 1 => k = m
    BY <2>3, SMT
  <2>6. \A q \in Priority : m_jobQueue'[q] = IF q = p THEN Tail(s) ELSE m_jobQueue[q]
    BY <1>0, <2>1
  <2>7. \A q \in Priority : \A k \in DOMAIN m_jobQueue'[q] :
          /\ Old(q, k) \in DOMAIN m_jobQueue[q]
          /\ m_jobQueue'[q][k] = m_jobQueue[q][Old(q, k)]
          /\ m_jobQueue'[q][k] # s[1]
    <3> SUFFICES ASSUME NEW q \in Priority, NEW k \in DOMAIN m_jobQueue'[q]
                 PROVE  /\ Old(q, k) \in DOMAIN m_jobQueue[q]
                        /\ m_jobQueue'[q][k] = m_jobQueue[q][Old(q, k)]
                        /\ m_jobQueue'[q][k] # s[1]
      OBVIOUS
    <3>1. CASE q = p
      <4>1. k \in DOMAIN Tail(s) /\ m_jobQueue'[q][k] = Tail(s)[k]
        BY <2>6, <3>1
      <4>2. k + 1 \in DOMAIN s /\ k + 1 # 1 /\ Tail(s)[k] = s[k + 1]
        BY <2>3, <2>4, <4>1
      <4>3. s[k + 1] # s[1]
        BY <2>3, <4>2 DEF QueueInv
      <4> QED BY <3>1, <4>1, <4>2, <4>3
    <3>2. CASE q # p
      BY <2>3, <2>6, <3>2 DEF QueueInv
    <3> QED BY <3>1, <3>2
  <2>8. \A q \in Priority : \A k, m \in DOMAIN m_jobQueue'[q] : Old(q, k) = Old(q, m) => k = m
    BY <2>5, <2>6
  <2> HIDE DEF Old
  <2>9. \A q, r \in Priority :
          \A k \in DOMAIN m_jobQueue'[q], m \in DOMAIN m_jobQueue'[r] :
            m_jobQueue'[q][k] = m_jobQueue'[r][m] => q = r /\ k = m
    BY <2>7, <2>8 DEF QueueInv
  <2>10. \A q \in Priority : \A k \in DOMAIN m_jobQueue'[q] :
           /\ m_jobQueue'[q][k] \notin m_processing'
           /\ heap'[m_jobQueue'[q][k]] = "live"
           /\ item'[m_jobQueue'[q][k]].priority = q
           /\ item'[m_jobQueue'[q][k]].id # 0
    BY <2>1, <2>2, <2>3, <2>7 DEF QueueInv
  <2>11. \A k \in m_processing' : heap'[k] = "live" /\ item'[k].id # 0
    BY <2>1, <2>2, <2>3 DEF QueueInv
  <2> QED BY <2>9, <2>10, <2>11 DEF QueueInv
<1>3. CASE EraseJob(w)
  <2>1. job[w] \in m_processing
    BY <1>3 DEF EraseJob, ThreadInv, Busy
  <2>2. /\ \A k \in Job : k # job[w] => item'[k] = item[k] /\ heap'[k] = heap[k]
        /\ m_processing' = m_processing \ {job[w]} /\ m_jobQueue' = m_jobQueue
    BY <1>0, <1>3 DEF EraseJob
  <2>3. \A q \in Priority : \A k \in DOMAIN m_jobQueue[q] : m_jobQueue[q][k] # job[w]
    BY <2>1 DEF QueueInv
  <2> QED BY <1>0, <2>2, <2>3 DEF QueueInv
<1>4. CASE LeaveLock(w) \/ WaitForEvent(w) \/ WakeUp(w) \/ TimeOut(w) \/ Retire(w) \/ ExitThread(w)
  BY <1>1, <1>4 DEF LeaveLock, WaitForEvent, WakeUp, TimeOut, Retire, ExitThread
<1>5. CASE ProgressDone(w) \/ JobDone(w) \/ NotifyClient(w) \/ CheckCancel(w)
  BY <1>1, <1>5 DEF ProgressDone, JobDone, NotifyClient, CheckCancel
<1> QED BY <1>2, <1>3, <1>4, <1>5 DEF WorkerStep

-----------------------------------------------------------------------------
(* Every step preserves StopInv.                                           *)
(* A stopped manager gets no job, and CancelJobs() returns with no thread. *)
LEMMA StopInvStep ==
  ASSUME TypeOK, StopInv, Next
  PROVE  StopInv'
<1> USE DEF queueVars, flagVars, eventVars, threadVars, histVars
<1>0. m_jobQueue \in [Priority -> Seq(Job)] /\ canceller \in {"idle", "flushing"}
  BY DEF TypeOK
<1>1. CASE UNCHANGED <<m_jobQueue, m_running, canceller, m_workers>>
  BY <1>1 DEF StopInv
<1>2. ASSUME NEW j \in Job, NEW c \in Callback \cup {NULL}, NEW p \in ClientPriority,
             AddJob(j, c, p)
      PROVE  StopInv'
  <2>1. CASE m_running
    <3>1. m_running' = m_running /\ canceller' = canceller
      BY <1>2, <2>1 DEF AddJob
    <3> QED BY <2>1, <3>1 DEF StopInv
  <2>2. CASE ~m_running
    BY <1>1, <1>2, <2>2 DEF AddJob
  <2> QED BY <2>1, <2>2
<1>3. ASSUME NEW id, CancelJob(id)
      PROVE  StopInv'
  <2>1. CASE CancelQueued(id)
    <3>1. m_running
      BY <2>1 DEF CancelQueued, StopInv
    <3> QED BY <2>1, <3>1 DEF CancelQueued, StopInv
  <2>2. CASE CancelRunning(id)
    BY <1>1, <2>2 DEF CancelRunning
  <2> QED BY <1>3, <2>1, <2>2 DEF CancelJob
<1>4. CASE PauseJobs \/ UnPauseJobs \/ CancelJobsSignal
  BY <1>1, <1>4 DEF PauseJobs, UnPauseJobs, CancelJobsSignal
<1>5. CASE CancelJobsBegin \/ CancelJobsReturn \/ Restart
  BY <1>0, <1>5 DEF CancelJobsBegin, CancelJobsReturn, Restart, StopInv
<1>6. ASSUME NEW w \in Worker, WorkerStep(w) \/ CheckCancel(w)
      PROVE  StopInv'
  <2>1. CASE TakeJob(w)
    <3>1. m_running /\ UNCHANGED <<m_running, canceller, m_workers>>
      BY <2>1 DEF TakeJob, PopsFrom, Eligible, StopInv
    <3> QED BY <3>1 DEF StopInv
  <2>2. CASE Retire(w) \/ ExitThread(w)
    <3>1. m_workers' = m_workers \ {w} /\ UNCHANGED <<m_jobQueue, m_running, canceller>>
      BY <2>2 DEF Retire, ExitThread
    <3>2. m_workers = {} => m_workers' = {}
      BY <3>1
    <3> QED BY <3>1, <3>2 DEF StopInv
  <2>3. CASE LeaveLock(w) \/ WaitForEvent(w) \/ WakeUp(w) \/ TimeOut(w) \/ EraseJob(w)
    BY <1>1, <2>3 DEF LeaveLock, WaitForEvent, WakeUp, TimeOut, EraseJob
  <2>4. CASE ProgressDone(w) \/ JobDone(w) \/ NotifyClient(w) \/ CheckCancel(w)
    BY <1>1, <2>4 DEF ProgressDone, JobDone, NotifyClient, CheckCancel
  <2> QED BY <1>6, <2>1, <2>2, <2>3, <2>4 DEF WorkerStep
<1> QED BY <1>2, <1>3, <1>4, <1>5, <1>6 DEF Next, ClientStep
-----------------------------------------------------------------------------
(* Every step preserves the reservation of threads.                        *)
(* GetMaxWorkers grows with the priority.                                  *)
LEMMA LimitsGrow ==
  ASSUME NEW p \in Priority, NEW q \in Priority, p <= q
  PROVE  GetMaxWorkers(p) \in Nat /\ GetMaxWorkers(p) <= GetMaxWorkers(q)
  BY ParameterAssumption, SMT DEF GetMaxWorkers, Priority, LOW_PAUSABLE, HIGH, DEDICATED

(* A step that only takes jobs out of m_processing takes no thread.        *)
LEMMA ReservedWhenShrinking ==
  ASSUME TypeOK, LimitsHold, m_processing' \subseteq m_processing,
         \A j \in m_processing' : item'[j].priority = item[j].priority
  PROVE  LimitsHold'
<1> SUFFICES ASSUME NEW p \in Priority \ {DEDICATED}
             PROVE  Cardinality({j \in m_processing' : item'[j].priority <= p})
                      <= GetMaxWorkers(p)
  BY DEF LimitsHold
<1> DEFINE S == {j \in m_processing : item[j].priority <= p}
           T == {j \in m_processing' : item'[j].priority <= p}
<1>1. T \subseteq S
  OBVIOUS
<1>2. IsFiniteSet(S)
  BY JobAssumption, FS_Subset DEF TypeOK
<1>3. Cardinality(T) <= Cardinality(S) /\ Cardinality(S) \in Nat /\ Cardinality(T) \in Nat
  BY <1>1, <1>2, FS_Subset, FS_CardinalityType
<1>4. Cardinality(S) <= GetMaxWorkers(p)
  BY DEF LimitsHold
<1>5. GetMaxWorkers(p) \in Nat
  BY LimitsGrow, SMT DEF Priority, LOW_PAUSABLE, DEDICATED
<1> HIDE DEF S, T
<1>6. Cardinality(T) <= GetMaxWorkers(p)
  BY <1>3, <1>4, <1>5, SMT
<1> QED BY <1>6 DEF T

(* Taking a job respects the limits of its own and of every other          *)
(* priority.                                                               *)
LEMMA ReservedWhenTaking ==
  ASSUME TypeOK, QueueInv, LimitsHold, NEW w \in Worker, TakeJob(w)
  PROVE  LimitsHold'
<1>1. PICK q \in Priority :
        /\ m_jobQueue[q] # <<>>
        /\ Cardinality(m_processing) < GetMaxWorkers(q)
        /\ m_processing' = m_processing \cup {Head(m_jobQueue[q])}
  BY DEF TakeJob, PopsFrom, Eligible
<1>2. PICK k \in Job : k = Head(m_jobQueue[q]) /\ item[k].priority = q /\ k \notin m_processing
  <2>1. /\ m_jobQueue[q] \in Seq(Job) /\ Head(m_jobQueue[q]) \in Job
        /\ 1 \in DOMAIN m_jobQueue[q] /\ Head(m_jobQueue[q]) = m_jobQueue[q][1]
    BY <1>1, HeadTail DEF TypeOK
  <2> QED BY <2>1 DEF QueueInv
<1>3. m_processing' = m_processing \cup {k} /\ item' = item
  BY <1>1, <1>2 DEF TakeJob
<1>4. IsFiniteSet(m_processing) /\ Cardinality(m_processing) \in Nat
  BY JobAssumption, FS_Subset, FS_CardinalityType DEF TypeOK
<1>5. IsFiniteSet(m_processing') /\ Cardinality(m_processing') = Cardinality(m_processing) + 1
  BY <1>2, <1>3, <1>4, FS_AddElement
<1> SUFFICES ASSUME NEW p \in Priority \ {DEDICATED}
             PROVE  Cardinality({j \in m_processing' : item'[j].priority <= p})
                      <= GetMaxWorkers(p)
  BY DEF LimitsHold
<1> DEFINE S == {j \in m_processing : item[j].priority <= p}
           T == {j \in m_processing' : item'[j].priority <= p}
<1>6. GetMaxWorkers(p) \in Nat /\ GetMaxWorkers(q) \in Nat
  BY LimitsGrow, SMT DEF Priority, LOW_PAUSABLE, DEDICATED
<1>7. CASE q <= p
  <2>1. T \subseteq m_processing'
    OBVIOUS
  <2>2. Cardinality(T) <= Cardinality(m_processing') /\ Cardinality(T) \in Nat
    BY <1>5, <2>1, FS_Subset, FS_CardinalityType
  <2>3. GetMaxWorkers(q) <= GetMaxWorkers(p)
    BY <1>7, LimitsGrow
  <2> HIDE DEF T
  <2>4. Cardinality(T) <= GetMaxWorkers(p)
    BY <1>1, <1>4, <1>5, <1>6, <2>2, <2>3, SMT
  <2> QED BY <2>4 DEF T
<1>8. CASE ~(q <= p)
  <2>1. T = S
    BY <1>2, <1>3, <1>8
  <2>2. Cardinality(S) <= GetMaxWorkers(p)
    BY DEF LimitsHold
  <2> QED BY <2>1, <2>2
<1> QED BY <1>7, <1>8

(* No step takes a thread that is kept for a higher priority.              *)
LEMMA ReservedStep ==
  ASSUME TypeOK, ThreadInv, QueueInv, LimitsHold, Next
  PROVE  LimitsHold'
<1> USE DEF queueVars, flagVars, eventVars, threadVars, histVars
<1>0. item \in [Job -> Item] /\ m_processing \subseteq Job
  BY DEF TypeOK
<1>1. CASE UNCHANGED <<m_processing, item>>
  BY <1>1, ReservedWhenShrinking
<1>2. ASSUME NEW j \in Job, NEW c \in Callback \cup {NULL}, NEW p \in ClientPriority,
             AddJob(j, c, p)
      PROVE  LimitsHold'
  <2>1. CASE m_running
    <3>1. m_processing' = m_processing /\ j \notin m_processing
          /\ \A i \in Job : i # j => item'[i] = item[i]
      BY <1>0, <1>2, <2>1 DEF AddJob, Enqueue, QueueInv
    <3> QED BY <1>0, <3>1, ReservedWhenShrinking
  <2>2. CASE ~m_running
    BY <1>1, <1>2, <2>2 DEF AddJob
  <2> QED BY <2>1, <2>2
<1>3. ASSUME NEW id, CancelJob(id)
      PROVE  LimitsHold'
  <2>1. CASE CancelQueued(id)
    <3>1. PICK p \in Priority : \E i \in DOMAIN m_jobQueue[p] :
            item' = [item EXCEPT ![m_jobQueue[p][i]] = NoItem]
      BY <2>1 DEF CancelQueued
    <3>2. PICK i \in DOMAIN m_jobQueue[p] : item' = [item EXCEPT ![m_jobQueue[p][i]] = NoItem]
      BY <3>1
    <3>3. m_jobQueue[p][i] \notin m_processing /\ m_processing' = m_processing
      BY <2>1 DEF CancelQueued, QueueInv
    <3> QED BY <1>0, <3>2, <3>3, ReservedWhenShrinking
  <2>2. CASE CancelRunning(id)
    <3>1. m_processing' = m_processing
          /\ \A i \in Job : item'[i].priority = item[i].priority
      BY <1>0, <2>2 DEF CancelRunning, Item
    <3> QED BY <1>0, <3>1, ReservedWhenShrinking
  <2> QED BY <1>3, <2>1, <2>2 DEF CancelJob
<1>4. CASE PauseJobs \/ UnPauseJobs \/ CancelJobsSignal \/ CancelJobsReturn \/ Restart
  BY <1>1, <1>4 DEF PauseJobs, UnPauseJobs, CancelJobsSignal, CancelJobsReturn, Restart
<1>5. CASE CancelJobsBegin
  <2>1. m_processing' = m_processing
        /\ \A i \in m_processing : item'[i].priority = item[i].priority
    BY <1>0, <1>5 DEF CancelJobsBegin, Item
  <2> QED BY <1>0, <2>1, ReservedWhenShrinking
<1>6. ASSUME NEW w \in Worker, WorkerStep(w) \/ CheckCancel(w)
      PROVE  LimitsHold'
  <2>1. CASE TakeJob(w)
    BY <2>1, ReservedWhenTaking
  <2>2. CASE EraseJob(w)
    <3>1. m_processing' = m_processing \ {job[w]}
          /\ \A i \in Job : i # job[w] => item'[i] = item[i]
      BY <1>0, <2>2 DEF EraseJob
    <3> QED BY <1>0, <3>1, ReservedWhenShrinking
  <2>3. CASE LeaveLock(w) \/ WaitForEvent(w) \/ WakeUp(w) \/ TimeOut(w) \/ Retire(w) \/ ExitThread(w)
    BY <1>1, <2>3 DEF LeaveLock, WaitForEvent, WakeUp, TimeOut, Retire, ExitThread
  <2>4. CASE ProgressDone(w) \/ JobDone(w) \/ NotifyClient(w) \/ CheckCancel(w)
    BY <1>1, <2>4 DEF ProgressDone, JobDone, NotifyClient, CheckCancel
  <2> QED BY <1>6, <2>1, <2>2, <2>3, <2>4 DEF WorkerStep
<1> QED BY <1>2, <1>3, <1>4, <1>5, <1>6 DEF Next, ClientStep
-----------------------------------------------------------------------------
(* Which jobs are queued after a step.                                     *)
(* AddJob queues its own job only.                                         *)
LEMMA QueuedAfterAdd ==
  ASSUME TypeOK, NEW j \in Job, NEW c, NEW p \in ClientPriority, AddJob(j, c, p),
         NEW i \in Job, Queued(i)'
  PROVE  Queued(i) \/ i = j
<1>0. p \in Priority /\ m_jobQueue \in [Priority -> Seq(Job)]
  BY ParameterAssumption DEF TypeOK
<1>1. CASE m_running
  <2>1. \A q \in Priority :
          m_jobQueue'[q] = IF q = p THEN Append(m_jobQueue[p], j) ELSE m_jobQueue[q]
    BY <1>0, <1>1 DEF AddJob, Enqueue
  <2>2. \A k \in DOMAIN Append(m_jobQueue[p], j) :
          Append(m_jobQueue[p], j)[k] = IF k \in DOMAIN m_jobQueue[p] THEN m_jobQueue[p][k] ELSE j
    BY <1>0, AppendElements
  <2> QED BY <2>1, <2>2 DEF Queued
<1>2. CASE ~m_running
  BY <1>2 DEF AddJob, queueVars, Queued
<1> QED BY <1>1, <1>2

(* CancelJob queues nothing.                                               *)
LEMMA QueuedAfterCancel ==
  ASSUME TypeOK, NEW id, CancelQueued(id), NEW i \in Job, Queued(i)'
  PROVE  Queued(i)
<1>0. m_jobQueue \in [Priority -> Seq(Job)]
  BY DEF TypeOK
<1>1. PICK p \in Priority : \E k \in DOMAIN m_jobQueue[p] :
        m_jobQueue' = [m_jobQueue EXCEPT ![p] = Drop(@, k)]
  BY DEF CancelQueued
<1>2. PICK k \in DOMAIN m_jobQueue[p] : m_jobQueue' = [m_jobQueue EXCEPT ![p] = Drop(@, k)]
  BY <1>1
<1> DEFINE s == m_jobQueue[p]
<1>3. \A q \in Priority : m_jobQueue'[q] = IF q = p THEN Drop(s, k) ELSE m_jobQueue[q]
  BY <1>0, <1>2
<1>4. \A m \in DOMAIN Drop(s, k) : \E n \in DOMAIN s : Drop(s, k)[m] = s[n]
  <2>1. /\ DOMAIN Drop(s, k) = 1 .. Len(s) - 1
        /\ \A m \in 1 .. Len(s) - 1 : Drop(s, k)[m] = IF m < k THEN s[m] ELSE s[m + 1]
    BY <1>0, DropProperties
  <2>2. \A m \in 1 .. Len(s) - 1 : m \in DOMAIN s /\ m + 1 \in DOMAIN s
    BY <1>0, LenProperties, SMT
  <2> QED BY <2>1, <2>2
<1> HIDE DEF s
<1> QED BY <1>3, <1>4 DEF Queued, s

(* A worker that takes a job queues nothing.                               *)
LEMMA QueuedAfterTake ==
  ASSUME TypeOK, NEW w \in Worker, TakeJob(w), NEW i \in Job, Queued(i)'
  PROVE  Queued(i)
<1>0. m_jobQueue \in [Priority -> Seq(Job)]
  BY DEF TypeOK
<1>1. PICK p \in Priority :
        m_jobQueue[p] # <<>> /\ m_jobQueue' = [m_jobQueue EXCEPT ![p] = Tail(@)]
  BY DEF TakeJob, PopsFrom, Eligible
<1>2. \A q \in Priority : m_jobQueue'[q] = IF q = p THEN Tail(m_jobQueue[p]) ELSE m_jobQueue[q]
  BY <1>0, <1>1
<1>3. \A k \in DOMAIN Tail(m_jobQueue[p]) :
        Tail(m_jobQueue[p])[k] = m_jobQueue[p][k + 1] /\ k + 1 \in DOMAIN m_jobQueue[p]
  BY <1>0, <1>1, HeadTail
<1> QED BY <1>2, <1>3 DEF Queued

(* A job that is queued exists, and no thread holds it.                    *)
LEMMA QueuedJobs ==
  ASSUME TypeOK, ThreadInv, QueueInv, NEW j \in Job, Queued(j)
  PROVE  /\ heap[j] = "live" /\ j \notin m_processing /\ item[j].id # 0
         /\ \A w \in Worker : job[w] # j
  BY JobAssumption DEF Queued, QueueInv, ThreadInv

-----------------------------------------------------------------------------
(* Every step preserves SilenceInv.                                        *)
(* A step that changes nothing of interest keeps SilenceInv.               *)
LEMMA SilenceUnchanged ==
  ASSUME SilenceInv,
         UNCHANGED <<m_jobQueue, m_processing, item, heap, pc, job, cb, notified, cancelled>>
  PROVE  SilenceInv'
  BY DEF SilenceInv, Queued

(* A new job has neither been cancelled nor reported.                      *)
LEMMA SilenceAdd ==
  ASSUME TypeOK, ThreadInv, QueueInv, SilenceInv,
         NEW j \in Job, NEW c, NEW p \in ClientPriority, AddJob(j, c, p)
  PROVE  SilenceInv'
<1>0. /\ item \in [Job -> Item] /\ m_processing \subseteq Job
      /\ heap \in [Job -> {"unborn", "live", "deleted"}]
      /\ pc \in [Worker -> WorkerStates]
  BY DEF TypeOK
<1>1. /\ heap[j] = "unborn" /\ heap' = [heap EXCEPT ![j] = "live"]
      /\ UNCHANGED <<job, cb, notified, cancelled>>
  BY DEF AddJob, histVars
<1>2. m_processing' = m_processing /\ \A i \in Job : i # j => item'[i] = item[i]
  BY <1>0 DEF AddJob, Enqueue, queueVars
<1>3. j \notin m_processing
  BY <1>1 DEF QueueInv
<1>4. \A w \in Worker : pc'[w] \in {"run", "progress", "callback"} => pc'[w] = pc[w]
  <2>1. p \in Priority
    BY ParameterAssumption
  <2>2. pc' = pc \/ \E w \in Worker : pc' = [pc EXCEPT ![w] = "next"]
    BY <2>1, StartWorkersThreads DEF AddJob, Enqueue
  <2> QED BY <1>0, <2>2
<1>5. \A i \in Job : Queued(i)' => cancelled[i] = "no" /\ notified[i] = 0
  BY <1>1, QueuedAfterAdd DEF SilenceInv
<1>6. \A i \in Job : heap'[i] = "unborn" => heap[i] = "unborn"
  BY <1>0, <1>1
<1> QED BY <1>0, <1>1, <1>2, <1>3, <1>4, <1>5, <1>6 DEF SilenceInv

(* A queued job that is cancelled was not reported, and will not be.       *)
LEMMA SilenceCancelQueued ==
  ASSUME TypeOK, ThreadInv, QueueInv, SilenceInv, NEW id, CancelQueued(id)
  PROVE  SilenceInv'
<1>0. /\ item \in [Job -> Item] /\ m_processing \subseteq Job
      /\ heap \in [Job -> {"unborn", "live", "deleted"}]
      /\ cancelled \in [Job -> {"no", "before", "after"}]
      /\ m_jobQueue \in [Priority -> Seq(Job)]
  BY DEF TypeOK
<1>1. PICK p \in Priority : \E i \in DOMAIN m_jobQueue[p] :
        /\ item' = [item EXCEPT ![m_jobQueue[p][i]] = NoItem]
        /\ heap' = [heap EXCEPT ![m_jobQueue[p][i]] = "deleted"]
        /\ cancelled' = [cancelled EXCEPT ![m_jobQueue[p][i]] = "before"]
  BY DEF CancelQueued
<1>2. PICK j \in Job :
        /\ Queued(j)
        /\ item' = [item EXCEPT ![j] = NoItem]
        /\ heap' = [heap EXCEPT ![j] = "deleted"]
        /\ cancelled' = [cancelled EXCEPT ![j] = "before"]
  <2>1. PICK i \in DOMAIN m_jobQueue[p] :
          /\ item' = [item EXCEPT ![m_jobQueue[p][i]] = NoItem]
          /\ heap' = [heap EXCEPT ![m_jobQueue[p][i]] = "deleted"]
          /\ cancelled' = [cancelled EXCEPT ![m_jobQueue[p][i]] = "before"]
    BY <1>1
  <2>2. m_jobQueue[p][i] \in Job /\ Queued(m_jobQueue[p][i])
    BY <1>0, ElementOfSeq DEF Queued
  <2> QED BY <2>1, <2>2
<1>3. UNCHANGED <<m_processing, pc, job, cb, notified>>
  BY DEF CancelQueued, threadVars
<1>4. notified[j] = 0 /\ j \notin m_processing /\ \A w \in Worker : job[w] # j
  BY <1>2, QueuedJobs DEF SilenceInv
<1>5. \A i \in Job : Queued(i)' => Queued(i) /\ i # j
  <2>1. CancelJob(id)
    BY DEF CancelJob
  <2>2. QueueInv'
    BY <2>1, QueueInvCancel
  <2>3. heap'[j] # "live"
    BY <1>0, <1>2
  <2>4. \A i \in Job : Queued(i)' => heap'[i] = "live"
    BY <2>2 DEF QueueInv, Queued
  <2> QED BY <2>3, <2>4, QueuedAfterCancel
<1>6. \A i \in Job : i # j => /\ item'[i] = item[i] /\ heap'[i] = heap[i]
                              /\ cancelled'[i] = cancelled[i]
  BY <1>0, <1>2
<1>7. heap'[j] # "unborn"
  BY <1>0, <1>2
<1>8. \A w \in Worker : pc[w] \in Busy => job[w] \in Job
  BY <1>0 DEF ThreadInv
<1> QED BY <1>0, <1>3, <1>4, <1>5, <1>6, <1>7, <1>8 DEF SilenceInv, Busy

(* A job cancelled in time was not reported and is past no copy.           *)
LEMMA MarkedBefore ==
  ASSUME TypeOK, ThreadInv, SilenceInv, NEW j \in m_processing, CancelMark(j) = "before"
  PROVE  /\ notified[j] = 0
         /\ \A w \in Worker : job[w] = j => pc[w] # "callback"
<1>1. \A w \in Worker : job[w] = j => pc[w] \notin {"callback", "erase"}
  BY DEF CancelMark
<1>2. PICK w \in Worker : pc[w] \in Busy /\ job[w] = j
  BY DEF ThreadInv
<1>3. pc[w] \in {"run", "progress"}
  BY <1>1, <1>2 DEF Busy
<1> QED BY <1>1, <1>2, <1>3 DEF SilenceInv

(* A running job that is cancelled in time loses its callback.             *)
LEMMA SilenceCancelRunning ==
  ASSUME TypeOK, ThreadInv, QueueInv, SilenceInv, NEW id, CancelRunning(id)
  PROVE  SilenceInv'
<1>0. /\ item \in [Job -> Item] /\ m_processing \subseteq Job
      /\ cancelled \in [Job -> {"no", "before", "after"}]
  BY DEF TypeOK
<1>1. PICK j \in m_processing :
        /\ item' = [item EXCEPT ![j].callback = NULL]
        /\ cancelled' = [cancelled EXCEPT ![j] = IF @ = "no" THEN CancelMark(j) ELSE @]
  BY DEF CancelRunning
<1>2. UNCHANGED <<m_jobQueue, m_processing, heap, pc, job, cb, notified>>
  BY DEF CancelRunning, threadVars
<1>3. item'[j].callback = NULL /\ \A i \in Job : i # j => item'[i] = item[i]
  BY <1>0, <1>1 DEF Item
<1>4. /\ \A i \in Job : i # j => cancelled'[i] = cancelled[i]
      /\ cancelled'[j] = "before" =>
           cancelled[j] = "before" \/ CancelMark(j) = "before"
  BY <1>0, <1>1
<1>5. \A i \in Job : Queued(i)' => Queued(i) /\ i # j
  BY <1>2, QueuedJobs DEF Queued
<1>6. heap[j] # "unborn"
  BY DEF QueueInv
<1>7. ASSUME cancelled'[j] = "before"
      PROVE  notified[j] = 0 /\ \A w \in Worker : pc[w] = "callback" /\ job[w] = j => cb[w] = NULL
  <2>1. CASE cancelled[j] = "before"
    BY <1>0, <2>1 DEF SilenceInv
  <2>2. CASE CancelMark(j) = "before"
    BY <2>2, MarkedBefore
  <2> QED BY <1>4, <1>7, <2>1, <2>2
<1>8. \A w \in Worker : pc[w] \in Busy => job[w] \in Job
  BY <1>0 DEF ThreadInv
<1> QED BY <1>0, <1>2, <1>3, <1>4, <1>5, <1>6, <1>7, <1>8 DEF SilenceInv, Busy

(* CancelJobs() silences the queued and the running jobs alike.            *)
LEMMA SilenceCancelAll ==
  ASSUME TypeOK, ThreadInv, QueueInv, SilenceInv, CancelJobsBegin
  PROVE  SilenceInv'
<1>0. /\ item \in [Job -> Item] /\ m_processing \subseteq Job
  BY DEF TypeOK
<1>1. UNCHANGED <<m_processing, pc, job, cb, notified>>
  BY DEF CancelJobsBegin, threadVars
<1>2. \A i \in Job : ~Queued(i)'
  BY DEF CancelJobsBegin, Queued
<1>3. \A i \in m_processing : item'[i].callback = NULL
  BY <1>0 DEF CancelJobsBegin, Item
<1>4. \A i \in Job :
        cancelled'[i] = IF cancelled[i] = "no" /\ (Queued(i) \/ i \in m_processing)
                        THEN CancelMark(i) ELSE cancelled[i]
  BY DEF CancelJobsBegin
<1>5. \A i \in Job : heap'[i] = "unborn" => /\ heap[i] = "unborn"
                                            /\ ~Queued(i) /\ i \notin m_processing
  BY QueuedJobs DEF CancelJobsBegin, QueueInv
<1>6. ASSUME NEW i \in Job, cancelled'[i] = "before"
      PROVE  notified[i] = 0 /\ \A w \in Worker : pc[w] = "callback" /\ job[w] = i => cb[w] = NULL
  <2>1. CASE cancelled[i] = "before"
    BY <2>1 DEF SilenceInv
  <2>2. CASE cancelled[i] # "before" /\ Queued(i)
    BY <2>2, QueuedJobs DEF SilenceInv
  <2>3. CASE cancelled[i] # "before" /\ ~Queued(i)
    <3>1. i \in m_processing /\ CancelMark(i) = "before"
      BY <1>4, <1>6, <2>3
    <3> QED BY <3>1, MarkedBefore
  <2> QED BY <2>1, <2>2, <2>3
<1>7. \A w \in Worker : pc[w] \in Busy => job[w] \in Job
  BY <1>0 DEF ThreadInv
<1>8. \A i \in Job : heap'[i] = "unborn" => cancelled'[i] = "no" /\ notified'[i] = 0
  BY <1>1, <1>4, <1>5 DEF SilenceInv
<1> QED BY <1>1, <1>2, <1>3, <1>6, <1>7, <1>8 DEF SilenceInv, Busy

(* A worker copies the callback of its job, which is gone if the job was   *)
(* cancelled in time.                                                      *)
LEMMA SilenceWorker ==
  ASSUME TypeOK, ThreadInv, QueueInv, SilenceInv,
         NEW w \in Worker, WorkerStep(w) \/ CheckCancel(w)
  PROVE  SilenceInv'
<1> USE DEF queueVars, flagVars, eventVars, threadVars, histVars
<1>0. /\ item \in [Job -> Item] /\ m_processing \subseteq Job
      /\ heap \in [Job -> {"unborn", "live", "deleted"}]
      /\ pc \in [Worker -> WorkerStates]
      /\ job \in [Worker -> Job \cup {NULL}]
      /\ cb \in [Worker -> Callback \cup {NULL}]
      /\ notified \in [Job -> Nat]
  BY DEF TypeOK
<1>1. \A v \in Worker : pc[v] \in Busy => job[v] \in m_processing /\ job[v] \in Job
  BY <1>0 DEF ThreadInv
<1>2. CASE TakeJob(w)
  <2>1. PICK p \in Priority :
          /\ m_jobQueue[p] # <<>>
          /\ m_processing' = m_processing \cup {Head(m_jobQueue[p])}
          /\ job' = [job EXCEPT ![w] = Head(m_jobQueue[p])]
    BY <1>2 DEF TakeJob, PopsFrom, Eligible
  <2>2. PICK j \in Job : j = Head(m_jobQueue[p]) /\ Queued(j)
    <3>1. m_jobQueue[p] \in Seq(Job)
      BY DEF TypeOK
    <3> QED BY <2>1, <3>1, HeadTail DEF Queued
  <2>3. cancelled[j] = "no" /\ notified[j] = 0
    BY <2>2 DEF SilenceInv
  <2>4. /\ pc' = [pc EXCEPT ![w] = "run"] /\ job' = [job EXCEPT ![w] = j]
        /\ m_processing' = m_processing \cup {j}
        /\ UNCHANGED <<item, cb, heap, notified, cancelled>>
    BY <1>2, <2>1, <2>2 DEF TakeJob
  <2>5. \A i \in Job : Queued(i)' => Queued(i)
    BY <1>2, QueuedAfterTake
  <2>6. \A v \in Worker : /\ pc'[v] = IF v = w THEN "run" ELSE pc[v]
                          /\ job'[v] = IF v = w THEN j ELSE job[v]
    BY <1>0, <2>4
  <2> QED BY <2>3, <2>4, <2>5, <2>6 DEF SilenceInv
<1>3. CASE LeaveLock(w) \/ WaitForEvent(w) \/ WakeUp(w) \/ TimeOut(w) \/ Retire(w) \/ ExitThread(w)
  <2>1. /\ UNCHANGED <<m_jobQueue, m_processing, item, heap, job, cb, notified, cancelled>>
        /\ \E s \in {"none", "next", "leave", "waiting", "timedout", "exit"} :
             pc' = [pc EXCEPT ![w] = s]
    BY <1>3 DEF LeaveLock, WaitForEvent, WakeUp, TimeOut, Retire, ExitThread
  <2>2. \A v \in Worker : pc'[v] \in {"run", "progress", "callback"} => pc'[v] = pc[v]
    BY <1>0, <2>1
  <2> QED BY <2>1, <2>2 DEF SilenceInv, Queued
<1>4. CASE CheckCancel(w) \/ ProgressDone(w)
  <2>1. /\ pc[w] \in {"run", "progress"}
        /\ UNCHANGED <<m_jobQueue, m_processing, item, heap, job, notified, cancelled>>
        /\ \/ pc' = pc /\ cb' = cb
           \/ /\ \E s \in {"run", "progress"} : pc' = [pc EXCEPT ![w] = s]
              /\ \A v \in Worker : v # w => cb'[v] = cb[v]
    BY <1>0, <1>4 DEF CheckCancel, ProgressDone
  <2>2. \A v \in Worker :
          /\ pc'[v] \in {"run", "progress", "callback"} =>
               pc[v] \in {"run", "progress", "callback"}
          /\ pc'[v] = "callback" => pc[v] = "callback" /\ cb'[v] = cb[v]
    BY <1>0, <2>1
  <2> QED BY <2>1, <2>2 DEF SilenceInv, Queued
<1>5. CASE JobDone(w)
  <2>1. /\ pc[w] = "run" /\ pc' = [pc EXCEPT ![w] = "callback"]
        /\ cb' = [cb EXCEPT ![w] = item[job[w]].callback]
        /\ UNCHANGED <<m_jobQueue, m_processing, item, heap, job, notified, cancelled>>
    BY <1>5 DEF JobDone
  <2>2. cancelled[job[w]] = "before" => item[job[w]].callback = NULL
    BY <1>1, <2>1 DEF SilenceInv, Busy
  <2>3. \A v \in Worker : /\ pc'[v] = IF v = w THEN "callback" ELSE pc[v]
                          /\ cb'[v] = IF v = w THEN item[job[w]].callback ELSE cb[v]
    BY <1>0, <2>1
  <2>4. notified[job[w]] = 0
    BY <2>1 DEF SilenceInv
  <2> QED BY <2>1, <2>2, <2>3, <2>4 DEF SilenceInv, Queued
<1>6. CASE NotifyClient(w)
  <2>1. /\ pc[w] = "callback" /\ pc' = [pc EXCEPT ![w] = "erase"]
        /\ UNCHANGED <<m_jobQueue, m_processing, item, heap, job, cb, cancelled>>
    BY <1>6 DEF NotifyClient
  <2>2. job[w] \in Job /\ job[w] \in m_processing
    BY <1>1, <2>1 DEF Busy
  <2>3. \A i \in Job : notified'[i] # notified[i] => i = job[w] /\ cb[w] # NULL
    BY <1>0, <1>6, <2>2 DEF NotifyClient
  <2>4. ~Queued(job[w]) /\ heap[job[w]] = "live"
    BY <2>2, QueuedJobs DEF QueueInv
  <2>5. \A v \in Worker : /\ pc'[v] = IF v = w THEN "erase" ELSE pc[v]
                          /\ pc[v] \in Busy /\ v # w => job[v] # job[w]
    BY <1>0, <2>1 DEF ThreadInv, Busy
  <2>6. \A v \in Worker :
          pc'[v] \in {"run", "progress", "callback"} => notified'[job[v]] = 0
    BY <1>1, <2>3, <2>5 DEF SilenceInv, Busy
  <2>7. \A i \in Job : cancelled[i] = "before" => notified'[i] = 0
    BY <2>1, <2>3 DEF SilenceInv
  <2> QED BY <2>1, <2>3, <2>4, <2>5, <2>6, <2>7 DEF SilenceInv, Queued
<1>7. CASE EraseJob(w)
  <2>1. /\ pc[w] = "erase" /\ pc' = [pc EXCEPT ![w] = "next"]
        /\ job' = [job EXCEPT ![w] = NULL] /\ cb' = [cb EXCEPT ![w] = NULL]
        /\ m_processing' = m_processing \ {job[w]}
        /\ item' = [item EXCEPT ![job[w]] = NoItem]
        /\ heap' = [heap EXCEPT ![job[w]] = "deleted"]
        /\ UNCHANGED <<m_jobQueue, notified, cancelled>>
    BY <1>7 DEF EraseJob
  <2>2. \A v \in Worker : v # w => pc'[v] = pc[v] /\ job'[v] = job[v] /\ cb'[v] = cb[v]
    BY <1>0, <2>1
  <2>3. pc'[w] = "next"
    BY <1>0, <2>1
  <2>4. \A i \in Job : /\ i # job[w] => item'[i] = item[i]
                       /\ heap'[i] = "unborn" => heap[i] = "unborn"
    BY <1>0, <2>1
  <2> QED BY <1>0, <2>1, <2>2, <2>3, <2>4 DEF SilenceInv, Queued
<1> QED BY <1>2, <1>3, <1>4, <1>5, <1>6, <1>7 DEF WorkerStep

-----------------------------------------------------------------------------
(* Every step preserves ToldInv.                                           *)

(* A step that leaves the work of the threads and the callbacks alone, and *)
(* queues none but new jobs, keeps the told jobs silent.                   *)
LEMMA ToldUndisturbed ==
  ASSUME TypeOK, ThreadInv, ToldInv,
         UNCHANGED <<m_processing, job, cb, notified, told>>,
         \A i \in Job : Queued(i)' => Queued(i) \/ heap[i] = "unborn",
         \A i \in Job : heap'[i] = "unborn" => heap[i] = "unborn",
         \A i \in m_processing : item'[i].callback \in {NULL, item[i].callback},
         \A w \in Worker : pc'[w] = "callback" => pc[w] = "callback"
  PROVE  ToldInv'
  BY DEF ToldInv, TypeOK

(* No operation of the clients can make a told job speak.                  *)
LEMMA ToldClient ==
  ASSUME TypeOK, ThreadInv, QueueInv, ToldInv, ClientStep
  PROVE  ToldInv'
<1> USE DEF queueVars, flagVars, eventVars, threadVars, histVars
<1>0. /\ item \in [Job -> Item] /\ m_processing \subseteq Job
      /\ heap \in [Job -> {"unborn", "live", "deleted"}]
      /\ pc \in [Worker -> WorkerStates]
      /\ \A i \in m_processing : heap[i] = "live"
  BY DEF TypeOK, QueueInv
<1>1. CASE \E j \in Job, c \in Callback \cup {NULL}, p \in ClientPriority : AddJob(j, c, p)
  <2>1. PICK j \in Job, c \in Callback \cup {NULL}, p \in ClientPriority : AddJob(j, c, p)
    BY <1>1
  <2>2. /\ heap[j] = "unborn" /\ heap' = [heap EXCEPT ![j] = "live"]
        /\ UNCHANGED <<m_processing, job, cb, notified, told>>
    BY <2>1 DEF AddJob, Enqueue
  <2>3. \A i \in m_processing : item'[i] = item[i]
    BY <1>0, <2>1, <2>2 DEF AddJob, Enqueue
  <2>4. \A w \in Worker : pc'[w] = "callback" => pc[w] = "callback"
    <3>1. p \in Priority
      BY ParameterAssumption
    <3>2. pc' = pc \/ \E w \in Worker : pc' = [pc EXCEPT ![w] = "next"]
      BY <2>1, <3>1, StartWorkersThreads DEF AddJob, Enqueue
    <3> QED BY <1>0, <3>2
  <2>5. \A i \in Job : Queued(i)' => Queued(i) \/ heap[i] = "unborn"
    BY <2>1, <2>2, QueuedAfterAdd
  <2>6. \A i \in Job : heap'[i] = "unborn" => heap[i] = "unborn"
    BY <1>0, <2>2
  <2> QED BY <2>2, <2>3, <2>4, <2>5, <2>6, ToldUndisturbed
<1>2. CASE \E id \in 1 .. IdModulus - 1 : CancelQueued(id)
  <2>1. PICK id : CancelQueued(id)
    BY <1>2
  <2>2. UNCHANGED <<m_processing, pc, job, cb, notified, told>>
    BY <2>1 DEF CancelQueued
  <2>3. PICK j \in Job : /\ j \notin m_processing
                         /\ item' = [item EXCEPT ![j] = NoItem]
                         /\ heap' = [heap EXCEPT ![j] = "deleted"]
    <3>1. PICK p \in Priority : \E i \in DOMAIN m_jobQueue[p] :
            /\ item' = [item EXCEPT ![m_jobQueue[p][i]] = NoItem]
            /\ heap' = [heap EXCEPT ![m_jobQueue[p][i]] = "deleted"]
      BY <2>1 DEF CancelQueued
    <3>2. PICK i \in DOMAIN m_jobQueue[p] :
            /\ item' = [item EXCEPT ![m_jobQueue[p][i]] = NoItem]
            /\ heap' = [heap EXCEPT ![m_jobQueue[p][i]] = "deleted"]
      BY <3>1
    <3>3. m_jobQueue[p][i] \in Job /\ m_jobQueue[p][i] \notin m_processing
      BY ElementOfSeq DEF TypeOK, QueueInv
    <3> QED BY <3>2, <3>3
  <2>4. /\ \A i \in Job : heap'[i] = "unborn" => heap[i] = "unborn"
        /\ \A i \in m_processing : item'[i] = item[i]
    BY <1>0, <2>3
  <2>5. \A i \in Job : Queued(i)' => Queued(i)
    BY <2>1, QueuedAfterCancel
  <2> QED BY <2>2, <2>4, <2>5, ToldUndisturbed
<1>3. CASE \E id \in 1 .. IdModulus - 1 : CancelRunning(id)
  <2>1. PICK j \in m_processing : item' = [item EXCEPT ![j].callback = NULL]
    BY <1>3 DEF CancelRunning
  <2>2. UNCHANGED <<m_jobQueue, m_processing, heap, pc, job, cb, notified, told>>
    BY <1>3 DEF CancelRunning
  <2>3. \A i \in m_processing : item'[i].callback \in {NULL, item[i].callback}
    BY <1>0, <2>1 DEF Item
  <2>4. \A i \in Job : Queued(i)' => Queued(i)
    BY <2>2 DEF Queued
  <2> QED BY <2>2, <2>3, <2>4, ToldUndisturbed
<1>4. CASE PauseJobs \/ UnPauseJobs \/ CancelJobsSignal \/ CancelJobsReturn \/ Restart
  <2>1. UNCHANGED <<m_jobQueue, m_processing, item, heap, pc, job, cb, notified, told>>
    BY <1>4 DEF PauseJobs, UnPauseJobs, CancelJobsSignal, CancelJobsReturn, Restart
  <2> QED BY <2>1 DEF ToldInv, Queued
<1>5. CASE CancelJobsBegin
  <2>1. UNCHANGED <<m_processing, pc, job, cb, notified, told>>
    BY <1>5 DEF CancelJobsBegin
  <2>2. \A i \in Job : ~Queued(i)'
    BY <1>5 DEF CancelJobsBegin, Queued
  <2>3. \A i \in Job : heap'[i] = "unborn" => heap[i] = "unborn"
    BY <1>5 DEF CancelJobsBegin
  <2>4. \A i \in m_processing : item'[i].callback = NULL
    BY <1>0, <1>5 DEF CancelJobsBegin, Item
  <2> QED BY <2>1, <2>2, <2>3, <2>4, ToldUndisturbed
<1> QED BY <1>1, <1>2, <1>3, <1>4, <1>5 DEF ClientStep, CancelJob

(* Neither can a worker, which copies the callback that is gone.           *)
LEMMA ToldWorker ==
  ASSUME TypeOK, ThreadInv, QueueInv, ToldInv, SilenceInv,
         NEW w \in Worker, WorkerStep(w) \/ CheckCancel(w)
  PROVE  ToldInv'
<1> USE DEF queueVars, flagVars, eventVars, threadVars, histVars
<1>0. /\ item \in [Job -> Item] /\ m_processing \subseteq Job /\ told \subseteq Job
      /\ heap \in [Job -> {"unborn", "live", "deleted"}]
      /\ pc \in [Worker -> WorkerStates]
      /\ job \in [Worker -> Job \cup {NULL}]
      /\ cb \in [Worker -> Callback \cup {NULL}]
      /\ notified \in [Job -> Nat]
  BY DEF TypeOK
<1>1. \A v \in Worker : pc[v] \in Busy => job[v] \in m_processing /\ job[v] \in Job
  BY <1>0 DEF ThreadInv
<1>2. CASE TakeJob(w)
  <2>1. PICK p \in Priority :
          /\ m_jobQueue[p] # <<>>
          /\ m_processing' = m_processing \cup {Head(m_jobQueue[p])}
          /\ job' = [job EXCEPT ![w] = Head(m_jobQueue[p])]
    BY <1>2 DEF TakeJob, PopsFrom, Eligible
  <2>2. PICK j \in Job : j = Head(m_jobQueue[p]) /\ Queued(j)
    <3>1. m_jobQueue[p] \in Seq(Job)
      BY DEF TypeOK
    <3> QED BY <2>1, <3>1, HeadTail DEF Queued
  <2>3. j \notin told
    BY <2>2 DEF ToldInv
  <2>4. /\ pc' = [pc EXCEPT ![w] = "run"] /\ job' = [job EXCEPT ![w] = j]
        /\ m_processing' = m_processing \cup {j}
        /\ UNCHANGED <<item, cb, heap, notified, told>>
    BY <1>2, <2>1, <2>2 DEF TakeJob
  <2>5. \A i \in Job : Queued(i)' => Queued(i)
    BY <1>2, QueuedAfterTake
  <2>6. \A v \in Worker : pc'[v] = "callback" => pc[v] = "callback" /\ job'[v] = job[v]
    BY <1>0, <2>4
  <2> QED BY <1>0, <2>3, <2>4, <2>5, <2>6 DEF ToldInv
<1>3. CASE LeaveLock(w) \/ WaitForEvent(w) \/ WakeUp(w) \/ TimeOut(w) \/ Retire(w) \/ ExitThread(w)
  <2>1. /\ UNCHANGED <<m_jobQueue, m_processing, item, heap, job, cb, notified, told>>
        /\ \E s \in {"none", "next", "leave", "waiting", "timedout", "exit"} :
             pc' = [pc EXCEPT ![w] = s]
    BY <1>3 DEF LeaveLock, WaitForEvent, WakeUp, TimeOut, Retire, ExitThread
  <2>2. \A v \in Worker : pc'[v] = "callback" => pc[v] = "callback"
    BY <1>0, <2>1
  <2> QED BY <2>1, <2>2 DEF ToldInv, Queued
<1>4. CASE CheckCancel(w)
  <2>1. /\ pc[w] = "run"
        /\ UNCHANGED <<m_jobQueue, m_processing, item, heap, job, notified>>
        /\ \/ /\ item[job[w]].callback = NULL /\ told' = told \cup {job[w]}
              /\ pc' = pc /\ cb' = cb
           \/ /\ told' = told /\ pc' = [pc EXCEPT ![w] = "progress"]
              /\ \A v \in Worker : v # w => cb'[v] = cb[v]
    BY <1>0, <1>4 DEF CheckCancel
  <2>2. /\ job[w] \in m_processing /\ job[w] \in Job
        /\ notified[job[w]] = 0 /\ heap[job[w]] = "live" /\ ~Queued(job[w])
    BY <1>1, <2>1, QueuedJobs DEF Busy, SilenceInv, QueueInv
  <2>3. \A v \in Worker : pc[v] = "callback" => job[v] # job[w]
    BY <2>1 DEF ThreadInv, Busy
  <2>4. \A v \in Worker : pc'[v] = "callback" => pc[v] = "callback" /\ cb'[v] = cb[v]
    BY <1>0, <2>1
  <2> QED BY <2>1, <2>2, <2>3, <2>4 DEF ToldInv, Queued
<1>5. CASE ProgressDone(w)
  <2>1. /\ UNCHANGED <<m_jobQueue, m_processing, item, heap, job, notified, told>>
        /\ \A v \in Worker : pc'[v] = "callback" => pc[v] = "callback" /\ cb'[v] = cb[v]
    BY <1>0, <1>5 DEF ProgressDone
  <2> QED BY <2>1 DEF ToldInv, Queued
<1>6. CASE JobDone(w)
  <2>1. /\ pc[w] = "run"
        /\ UNCHANGED <<m_jobQueue, m_processing, item, heap, job, notified, told>>
    BY <1>6 DEF JobDone
  <2>2. job[w] \in told => item[job[w]].callback = NULL
    BY <1>1, <2>1 DEF ToldInv, Busy
  <2>3. \A v \in Worker : /\ pc'[v] = "callback" => v = w \/ pc[v] = "callback"
                          /\ cb'[v] = IF v = w THEN item[job[w]].callback ELSE cb[v]
    BY <1>0, <1>6 DEF JobDone
  <2> QED BY <2>1, <2>2, <2>3 DEF ToldInv, Queued
<1>7. CASE NotifyClient(w)
  <2>1. /\ pc[w] = "callback" /\ pc' = [pc EXCEPT ![w] = "erase"]
        /\ UNCHANGED <<m_jobQueue, m_processing, item, heap, job, cb, told>>
    BY <1>7 DEF NotifyClient
  <2>2. \A i \in Job : notified'[i] # notified[i] => i = job[w] /\ cb[w] # NULL
    BY <1>0, <1>1, <1>7, <2>1 DEF NotifyClient, Busy
  <2>3. \A i \in told : notified'[i] = 0
    BY <1>0, <2>1, <2>2 DEF ToldInv
  <2>4. \A v \in Worker : pc'[v] = "callback" => pc[v] = "callback"
    BY <1>0, <2>1
  <2> QED BY <2>1, <2>3, <2>4 DEF ToldInv, Queued
<1>8. CASE EraseJob(w)
  <2>1. /\ pc[w] = "erase" /\ pc' = [pc EXCEPT ![w] = "next"]
        /\ job' = [job EXCEPT ![w] = NULL] /\ cb' = [cb EXCEPT ![w] = NULL]
        /\ m_processing' = m_processing \ {job[w]}
        /\ item' = [item EXCEPT ![job[w]] = NoItem]
        /\ heap' = [heap EXCEPT ![job[w]] = "deleted"]
        /\ UNCHANGED <<m_jobQueue, notified, told>>
    BY <1>8 DEF EraseJob
  <2>2. \A v \in Worker :
          pc'[v] = "callback" => pc[v] = "callback" /\ job'[v] = job[v] /\ cb'[v] = cb[v]
    BY <1>0, <2>1
  <2>3. \A i \in Job : /\ i # job[w] => item'[i] = item[i]
                       /\ heap'[i] = "unborn" => heap[i] = "unborn"
    BY <1>0, <2>1
  <2> QED BY <1>0, <2>1, <2>2, <2>3 DEF ToldInv, Queued
<1> QED BY <1>2, <1>3, <1>4, <1>5, <1>6, <1>7, <1>8 DEF WorkerStep

-----------------------------------------------------------------------------
(* The theorems                                                            *)
(* The inductive invariant holds initially ...                             *)
LEMMA InitIInv == Init => IInv
<1> SUFFICES ASSUME Init PROVE IInv
  OBVIOUS
<1>1. TypeOK
  BY InitTypeOK
<1>2. ThreadInv /\ StopInv
  BY DEF Init, ThreadInv, StopInv, Busy
<1>3. \A p \in Priority : DOMAIN m_jobQueue[p] = {}
  BY DEF Init
<1>4. QueueInv /\ SilenceInv /\ ToldInv
  BY <1>3 DEF Init, QueueInv, SilenceInv, ToldInv, Queued
<1>5. LimitsHold
  <2> SUFFICES ASSUME NEW p \in Priority \ {DEDICATED}
               PROVE  Cardinality({j \in m_processing : item[j].priority <= p})
                        <= GetMaxWorkers(p)
    BY DEF LimitsHold
  <2>1. {j \in m_processing : item[j].priority <= p} = {}
    BY DEF Init
  <2>2. GetMaxWorkers(p) \in Nat
    BY LimitsGrow, SMT DEF Priority, LOW_PAUSABLE, DEDICATED
  <2> QED BY <2>1, <2>2, FS_EmptySet, SMT
<1> QED BY <1>1, <1>2, <1>4, <1>5 DEF IInv

(* ... and every step preserves it.                                        *)
LEMMA StepIInv == IInv /\ [Next]_vars => IInv'
<1> SUFFICES ASSUME IInv, [Next]_vars PROVE IInv'
  OBVIOUS
<1> USE DEF IInv
<1>1. CASE Next
  <2>1. CASE ClientStep
    <3>1. TypeOK' /\ ThreadInv' /\ QueueInv'
      BY <2>1, ClientType, ThreadInvClient, QueueInvClient
    <3>2. SilenceInv'
      <4> USE DEF queueVars, flagVars, eventVars, threadVars, histVars
      <4>1. CASE \E j \in Job, c \in Callback \cup {NULL}, p \in ClientPriority : AddJob(j, c, p)
        BY <4>1, SilenceAdd
      <4>2. CASE \E id \in 1 .. IdModulus - 1 : CancelJob(id)
        BY <4>2, SilenceCancelQueued, SilenceCancelRunning DEF CancelJob
      <4>3. CASE PauseJobs \/ UnPauseJobs \/ CancelJobsSignal \/ CancelJobsReturn \/ Restart
        BY <4>3, SilenceUnchanged
        DEF PauseJobs, UnPauseJobs, CancelJobsSignal, CancelJobsReturn, Restart
      <4>4. CASE CancelJobsBegin
        BY <4>4, SilenceCancelAll
      <4> QED BY <2>1, <4>1, <4>2, <4>3, <4>4 DEF ClientStep
    <3>3. StopInv' /\ LimitsHold'
      BY <1>1, StopInvStep, ReservedStep
    <3>4. ToldInv'
      BY <2>1, ToldClient
    <3> QED BY <3>1, <3>2, <3>3, <3>4
  <2>2. CASE \E w \in Worker : WorkerStep(w) \/ CheckCancel(w)
    <3>1. TypeOK' /\ ThreadInv' /\ QueueInv' /\ SilenceInv' /\ ToldInv'
      BY <2>2, WorkerType, ThreadInvWorker, QueueInvWorker, SilenceWorker, ToldWorker
    <3>2. StopInv' /\ LimitsHold'
      BY <1>1, StopInvStep, ReservedStep
    <3> QED BY <3>1, <3>2
  <2> QED BY <1>1, <2>1, <2>2 DEF Next
<1>2. CASE UNCHANGED vars
  <2> USE <1>2 DEF vars, queueVars, flagVars, eventVars, threadVars, histVars
  <2>1. TypeOK'
    BY DEF TypeOK
  <2>2. ThreadInv'
    BY DEF ThreadInv
  <2>3. QueueInv' /\ StopInv'
    BY DEF QueueInv, StopInv
  <2>4. SilenceInv'
    BY SilenceUnchanged
  <2>5. LimitsHold'
    BY DEF LimitsHold
  <2>6. ToldInv'
    BY DEF ToldInv, Queued
  <2> QED BY <2>1, <2>2, <2>3, <2>4, <2>5, <2>6
<1> QED BY <1>1, <1>2

(* The inductive invariant holds in every behaviour of the manager.        *)
THEOREM Invariance == Spec => []IInv
<1> QED BY InitIInv, StepIInv, PTL DEF Spec

(* Every variable keeps its type, the id counter within its width.         *)
THEOREM TypeCorrect == Spec => []TypeOK
<1>1. IInv => TypeOK
  BY DEF IInv
<1> QED BY <1>1, Invariance, PTL

(* For any number of jobs, threads and mix of priorities: the jobs of a    *)
(* priority and below never take the threads kept for the ones above.      *)
THEOREM ReservationHolds == Spec => []ThreadsReservedForHigher
<1>1. IInv => ThreadsReservedForHigher
  BY DEF IInv, LimitsHold, ThreadsReservedForHigher, GetMaxWorkers
<1> QED BY <1>1, Invariance, PTL

(* Each job in m_processing is with exactly one worker the manager knows.  *)
THEOREM ProcessingIsExact == Spec => []ProcessingMatchesWorkers
<1>1. IInv => ProcessingMatchesWorkers
  BY DEF IInv, ThreadInv, ProcessingMatchesWorkers, Busy
<1> QED BY <1>1, Invariance, PTL

(* No queue, no list and no thread refers to a job that was deleted.       *)
THEOREM MemorySafe == Spec => []NoUseAfterDelete
<1>1. IInv => NoUseAfterDelete
  <2> SUFFICES ASSUME IInv, NEW j \in Job, heap[j] # "live"
               PROVE  ~Queued(j) /\ j \notin m_processing /\ \A w \in Worker : job[w] # j
    BY DEF NoUseAfterDelete
  <2>1. ~Queued(j)
    BY QueuedJobs DEF IInv
  <2>2. j \notin m_processing
    BY DEF IInv, QueueInv
  <2>3. ASSUME NEW w \in Worker PROVE job[w] # j
    BY <2>2, JobAssumption DEF IInv, ThreadInv
  <2> QED BY <2>1, <2>2, <2>3
<1> QED BY <1>1, Invariance, PTL

(* A job cancelled before its DoWork returned is never reported.           *)
THEOREM CancellingSilences == Spec => []EarlyCancelIsSilent
<1>1. IInv => EarlyCancelIsSilent
  BY DEF IInv, SilenceInv, EarlyCancelIsSilent
<1> QED BY <1>1, Invariance, PTL

(* A job that was told to stop is never reported.                          *)
THEOREM ToldStaySilent == Spec => []ToldJobsAreSilent
<1>1. IInv => ToldJobsAreSilent
  BY DEF IInv, ToldInv, ToldJobsAreSilent
<1> QED BY <1>1, Invariance, PTL

(* After CancelJobs() returned, no thread is in a callback or can reach    *)
(* one, however many threads there were.                                   *)
THEOREM CancelJobsQuiets == Spec => []QuietAfterCancelJobs
<1>1. IInv => QuietAfterCancelJobs
  <2> SUFFICES ASSUME IInv, ~m_running, canceller = "idle"
               PROVE  /\ m_workers = {} /\ m_processing = {}
                      /\ \A j \in Job : ~Queued(j)
                      /\ \A w \in Worker : pc[w] \in {"none", "exit"} /\ cb[w] = NULL
    BY DEF QuietAfterCancelJobs
  <2>1. m_workers = {} /\ \A j \in Job : ~Queued(j)
    BY DEF IInv, StopInv, Queued
  <2>2. \A w \in Worker : pc[w] \in {"none", "exit"}
    BY <2>1 DEF IInv, ThreadInv
  <2>3. \A w \in Worker : cb[w] = NULL /\ pc[w] \notin Busy
    BY <2>2 DEF IInv, ThreadInv, Busy
  <2>4. m_processing = {}
    BY <2>3 DEF IInv, ThreadInv
  <2> QED BY <2>1, <2>2, <2>3, <2>4
<1> QED BY <1>1, Invariance, PTL

(* Whatever the counter's width, a job is never filed under the id 0.      *)
THEOREM IdsAreNotZero == Spec => []AcceptedIdIsNotZero
<1>1. IInv => AcceptedIdIsNotZero
  BY QueuedJobs DEF IInv, QueueInv, AcceptedIdIsNotZero
<1> QED BY <1>1, Invariance, PTL
-----------------------------------------------------------------------------
(* The order in which jobs start.                                          *)
(* The job a step starts is the head of the highest queue that has any.    *)
LEMMA DispatchStep ==
  ASSUME IInv, [Next]_vars, NEW j \in Job, Starts(j)
  PROVE  \E p \in Priority :
           /\ m_jobQueue[p] # <<>> /\ Head(m_jobQueue[p]) = j
           /\ \A q \in Priority : q > p => m_jobQueue[q] = <<>>
           /\ m_pauseJobs => p # LOW_PAUSABLE
<1> USE DEF queueVars, flagVars, eventVars, threadVars, histVars
<1>1. ~(m_processing' \subseteq m_processing)
  BY DEF Starts
<1>2. PICK w \in Worker : TakeJob(w)
  <2>1. ~UNCHANGED vars
    BY <1>1 DEF vars
  <2>2. ~ClientStep
    BY <1>1 DEF ClientStep, AddJob, Enqueue, CancelJob, CancelQueued, CancelRunning,
       PauseJobs, UnPauseJobs, CancelJobsBegin, CancelJobsSignal, CancelJobsReturn, Restart
  <2>3. PICK w \in Worker : WorkerStep(w) \/ CheckCancel(w)
    BY <2>1, <2>2 DEF Next
  <2>4. TakeJob(w)
    BY <1>1, <2>3 DEF WorkerStep, LeaveLock, WaitForEvent, WakeUp, TimeOut, Retire, ExitThread,
       ProgressDone, JobDone, NotifyClient, EraseJob, CheckCancel
  <2> QED BY <2>4
<1>3. PICK p \in Priority :
        /\ PopsFrom(p)
        /\ m_processing' = m_processing \cup {Head(m_jobQueue[p])}
  BY <1>2 DEF TakeJob
<1>4. m_jobQueue[p] # <<>> /\ Head(m_jobQueue[p]) = j /\ (m_pauseJobs => p # LOW_PAUSABLE)
  BY <1>3 DEF PopsFrom, Eligible, Starts
<1>5. Cardinality(m_processing) \in Nat
  BY JobAssumption, FS_Subset, FS_CardinalityType DEF IInv, TypeOK
<1>6. ASSUME NEW q \in Priority, q > p PROVE m_jobQueue[q] = <<>>
  <2>1. q # LOW_PAUSABLE /\ p <= q
    BY <1>6, SMT DEF Priority, LOW_PAUSABLE, DEDICATED
  <2>2. Cardinality(m_processing) < GetMaxWorkers(p) /\ ~Eligible(q)
    BY <1>3, <1>6 DEF PopsFrom, Eligible
  <2>3. GetMaxWorkers(p) \in Nat /\ GetMaxWorkers(q) \in Nat
        /\ GetMaxWorkers(p) <= GetMaxWorkers(q)
    BY <2>1, LimitsGrow, SMT DEF Priority, LOW_PAUSABLE, DEDICATED
  <2>4. Cardinality(m_processing) < GetMaxWorkers(q)
    BY <1>5, <2>2, <2>3, SMT
  <2> QED BY <2>1, <2>2, <2>4 DEF Eligible
<1> QED BY <1>4, <1>6

(* A job starts only as the oldest of the highest priority that has any,   *)
(* and never from the pausable queue during a pause.                       *)
THEOREM DispatchIsOrdered == Spec => DispatchOrder
<1>1. IInv /\ [Next]_vars =>
        [\A j \in Job : Starts(j) =>
           \E p \in Priority :
             /\ m_jobQueue[p] # <<>> /\ Head(m_jobQueue[p]) = j
             /\ \A q \in Priority : q > p => m_jobQueue[q] = <<>>
             /\ m_pauseJobs => p # LOW_PAUSABLE]_vars
  BY DispatchStep
<1> QED BY <1>1, Invariance, PTL DEF Spec, DispatchOrder

-----------------------------------------------------------------------------
(* No queued job without a worker.                                         *)

(* Every priority has a thread it may use.                                 *)
LEMMA LimitsArePositive ==
  ASSUME NEW p \in Priority
  PROVE  GetMaxWorkers(p) \in Nat /\ GetMaxWorkers(p) > 0
<1>1. p \in 0 .. 4 /\ MaxWorkers \in Int /\ MaxWorkers >= 4
  BY ParameterAssumption, SMT DEF Priority, LOW_PAUSABLE, HIGH, DEDICATED
<1>2. CASE p = 4
  BY <1>2, SMT DEF GetMaxWorkers, DEDICATED
<1>3. CASE p # 4
  <2>1. GetMaxWorkers(p) = MaxWorkers - (3 - p)
    BY <1>3, SMT DEF GetMaxWorkers, DEDICATED, HIGH
  <2> QED BY <1>1, <1>3, <2>1, SMT
<1> QED BY <1>2, <1>3

(* A job in m_processing is with a worker the manager knows.               *)
LEMMA ProcessingHasWorker ==
  ASSUME ThreadInv, m_processing # {}
  PROVE  m_workers # {}
  BY DEF ThreadInv, Busy

(* A step that neither fills an empty queue nor takes a worker away.       *)
LEMMA HasWorkerRemains ==
  ASSUME QueuedJobHasWorker, m_workers \subseteq m_workers',
         \A p \in Priority : m_jobQueue[p] = <<>> => m_jobQueue'[p] = <<>>
  PROVE  QueuedJobHasWorker'
  BY DEF QueuedJobHasWorker

(* AddJob leaves no job behind without a worker: when the threads of its   *)
(* priority are taken they will come for it, and when it counts on a       *)
(* sleeper there is one.                                                   *)
LEMMA HasWorkerAdd ==
  ASSUME TypeOK, ThreadInv, QueuedJobHasWorker, NEW j \in Job,
         NEW c \in Callback \cup {NULL}, NEW p \in ClientPriority, AddJob(j, c, p)
  PROVE  QueuedJobHasWorker'
<1>0. p \in Priority
  BY ParameterAssumption
<1>1. CASE m_running
  <2>1. StartWorkers(p, pc)
    BY <1>1 DEF AddJob, Enqueue
  <2>2. Cardinality(m_processing) \in Nat
    BY JobAssumption, FS_Subset, FS_CardinalityType DEF TypeOK
  <2>3. CASE Cardinality(m_processing) >= GetMaxWorkers(p)
    <3>1. Cardinality(m_processing) # 0
      BY <1>0, <2>2, <2>3, LimitsArePositive, SMT
    <3>2. m_processing # {}
      BY <3>1, FS_EmptySet
    <3>3. m_workers' = m_workers
      BY <1>0, <2>1, <2>2, <2>3, LimitsArePositive, SMT DEF StartWorkers
    <3> QED BY <3>2, <3>3, ProcessingHasWorker DEF QueuedJobHasWorker
  <2>4. CASE m_workers' = m_workers /\ HasSleepers
    <3>1. Cardinality(m_workers) # 0
      BY <2>2, <2>4, FS_EmptySet, SMT DEF HasSleepers
    <3> QED BY <3>1, <2>4, FS_EmptySet DEF QueuedJobHasWorker
  <2>5. CASE \E w \in Worker : m_workers' = m_workers \cup {w}
    BY <2>5 DEF QueuedJobHasWorker
  <2> QED BY <2>1, <2>3, <2>4, <2>5 DEF StartWorkers
<1>2. CASE ~m_running
  BY <1>2, HasWorkerRemains DEF AddJob, queueVars
<1> QED BY <1>1, <1>2

(* A worker that retires leaves another one, or nothing that may run.      *)
LEMMA HasWorkerRetire ==
  ASSUME TypeOK, ThreadInv, QueuedJobHasWorker, NEW w \in Worker, Retire(w)
  PROVE  QueuedJobHasWorker'
<1>1. m_workers' = m_workers \ {w} /\ m_jobQueue' = m_jobQueue /\ pc[w] \notin Busy /\ ~CanPop
  BY DEF Retire, queueVars, Busy
<1>2. CASE m_processing = {}
  <2>1. Cardinality(m_processing) = 0
    BY <1>2, FS_EmptySet
  <2>2. ASSUME NEW p \in Priority, p > LOW_PAUSABLE PROVE m_jobQueue[p] = <<>>
    <3>1. ~Eligible(p) /\ p # LOW_PAUSABLE
      BY <1>1, <2>2, SMT DEF CanPop, LOW_PAUSABLE, Priority, DEDICATED
    <3>2. Cardinality(m_processing) < GetMaxWorkers(p)
      BY <2>1, LimitsArePositive, SMT
    <3> QED BY <3>1, <3>2 DEF Eligible
  <2> QED BY <1>1, <2>2 DEF QueuedJobHasWorker
<1>3. CASE m_processing # {}
  <2>1. PICK v \in Worker : pc[v] \in Busy
    BY <1>3 DEF ThreadInv
  <2>2. v \in m_workers /\ v # w
    BY <1>1, <2>1 DEF ThreadInv, Busy
  <2> QED BY <1>1, <2>2 DEF QueuedJobHasWorker
<1> QED BY <1>2, <1>3

(* No step leaves a queued job without a worker.                           *)
LEMMA HasWorkerStep ==
  ASSUME IInv, QueuedJobHasWorker, [Next]_vars
  PROVE  QueuedJobHasWorker'
<1> USE DEF queueVars, flagVars, eventVars, threadVars, histVars
<1>0. TypeOK /\ ThreadInv /\ m_jobQueue \in [Priority -> Seq(Job)]
  BY DEF IInv, TypeOK
<1>1. CASE UNCHANGED <<m_jobQueue, m_workers>>
  BY <1>1, HasWorkerRemains
<1>2. CASE \E j \in Job, c \in Callback \cup {NULL}, p \in ClientPriority : AddJob(j, c, p)
  BY <1>0, <1>2, HasWorkerAdd
<1>3. ASSUME NEW id, CancelQueued(id) PROVE QueuedJobHasWorker'
  <2>1. PICK p \in Priority : \E i \in DOMAIN m_jobQueue[p] :
          m_jobQueue' = [m_jobQueue EXCEPT ![p] = Drop(@, i)]
    BY <1>3 DEF CancelQueued
  <2>2. m_jobQueue[p] # <<>> /\ m_workers' = m_workers
    BY <1>0, <1>3, <2>1, EmptySeq DEF CancelQueued
  <2> QED BY <1>0, <2>1, <2>2, HasWorkerRemains
<1>4. CASE CancelJobsBegin
  BY <1>4, HasWorkerRemains DEF CancelJobsBegin
<1>5. ASSUME NEW w \in Worker, TakeJob(w) PROVE QueuedJobHasWorker'
  <2>1. PICK p \in Priority :
          m_jobQueue[p] # <<>> /\ m_jobQueue' = [m_jobQueue EXCEPT ![p] = Tail(@)]
    BY <1>5 DEF TakeJob, PopsFrom, Eligible
  <2> QED BY <1>0, <1>5, <2>1, HasWorkerRemains DEF TakeJob
<1>6. ASSUME NEW w \in Worker, Retire(w) PROVE QueuedJobHasWorker'
  BY <1>0, <1>6, HasWorkerRetire
<1>7. ASSUME NEW w \in Worker, ExitThread(w) PROVE QueuedJobHasWorker'
  BY <1>0, <1>7, HasWorkerRemains DEF ExitThread, ThreadInv
<1>8. CASE ClientStep
  BY <1>1, <1>2, <1>3, <1>4, <1>8 DEF ClientStep, CancelJob, CancelRunning, PauseJobs,
     UnPauseJobs, CancelJobsSignal, CancelJobsReturn, Restart
<1>9. ASSUME NEW w \in Worker, WorkerStep(w) \/ CheckCancel(w) PROVE QueuedJobHasWorker'
  BY <1>1, <1>5, <1>6, <1>7, <1>9 DEF WorkerStep, LeaveLock, WaitForEvent, WakeUp, TimeOut,
     ProgressDone, JobDone, NotifyClient, EraseJob, CheckCancel
<1>10. CASE UNCHANGED vars
  BY <1>1, <1>10 DEF vars
<1> QED BY <1>8, <1>9, <1>10 DEF Next

(* For any number of threads: a queued job that pausing cannot hold back   *)
(* has a worker, across timeouts and retirements that race with AddJob.    *)
THEOREM QueuedJobsHaveWorkers == Spec => []QueuedJobHasWorker
<1>1. Init => QueuedJobHasWorker
  BY DEF Init, QueuedJobHasWorker
<1>2. IInv /\ QueuedJobHasWorker /\ [Next]_vars => QueuedJobHasWorker'
  BY HasWorkerStep
<1> QED BY <1>1, <1>2, Invariance, PTL DEF Spec

-----------------------------------------------------------------------------
(* The manager implements the life cycle.                                  *)

(* What StageOf makes of each combination of the manager's variables.      *)
StageTable(j) ==
  /\ heap[j] = "unborn" => StageOf(j) = "new"
  /\ heap[j] = "deleted" => StageOf(j) = "destroyed"
  /\ heap[j] = "live" /\ Queued(j) /\ j \notin m_processing => StageOf(j) = "queued"
  /\ heap[j] = "live" /\ ~Queued(j) =>
       /\ j \in m_processing /\ notified[j] = 0 => StageOf(j) = "running"
       /\ j \in m_processing /\ notified[j] # 0 => StageOf(j) = "reported"
       /\ j \notin m_processing => StageOf(j) = "refused"

(* The table holds before every step ...                                   *)
LEMMA StageBefore == ASSUME NEW j PROVE StageTable(j)
<1>1. ASSUME heap[j] = "unborn" PROVE StageOf(j) = "new"
  BY <1>1, SMT DEF StageOf
<1>2. ASSUME heap[j] = "deleted" PROVE StageOf(j) = "destroyed"
  BY <1>2, SMT DEF StageOf
<1>3. ASSUME heap[j] = "live", Queued(j), j \notin m_processing PROVE StageOf(j) = "queued"
  BY <1>3, SMT DEF StageOf
<1>4. ASSUME heap[j] = "live", ~Queued(j), j \in m_processing, notified[j] = 0
      PROVE  StageOf(j) = "running"
  BY <1>4, SMT DEF StageOf
<1>5. ASSUME heap[j] = "live", ~Queued(j), j \in m_processing, notified[j] # 0
      PROVE  StageOf(j) = "reported"
  BY <1>5, SMT DEF StageOf
<1>6. ASSUME heap[j] = "live", ~Queued(j), j \notin m_processing
      PROVE  StageOf(j) = "refused"
  BY <1>6, SMT DEF StageOf
<1> QED BY <1>1, <1>2, <1>3, <1>4, <1>5, <1>6 DEF StageTable

(* ... and after it.                                                       *)
LEMMA StageAfter == ASSUME NEW j PROVE StageTable(j)'
<1>1. ASSUME heap'[j] = "unborn" PROVE StageOf(j)' = "new"
  BY <1>1, SMT DEF StageOf
<1>2. ASSUME heap'[j] = "deleted" PROVE StageOf(j)' = "destroyed"
  BY <1>2, SMT DEF StageOf
<1>3. ASSUME heap'[j] = "live", Queued(j)', j \notin m_processing' PROVE StageOf(j)' = "queued"
  BY <1>3, SMT DEF StageOf
<1>4. ASSUME heap'[j] = "live", ~Queued(j)', j \in m_processing', notified'[j] = 0
      PROVE  StageOf(j)' = "running"
  BY <1>4, SMT DEF StageOf
<1>5. ASSUME heap'[j] = "live", ~Queued(j)', j \in m_processing', notified'[j] # 0
      PROVE  StageOf(j)' = "reported"
  BY <1>5, SMT DEF StageOf
<1>6. ASSUME heap'[j] = "live", ~Queued(j)', j \notin m_processing'
      PROVE  StageOf(j)' = "refused"
  BY <1>6, SMT DEF StageOf
<1> QED BY <1>1, <1>2, <1>3, <1>4, <1>5, <1>6 DEF StageTable

(* A job whose place and reports do not change stays at its stage.         *)
LEMMA SameStage ==
  ASSUME NEW j, heap'[j] = heap[j], Queued(j)' <=> Queued(j),
         (j \in m_processing') <=> (j \in m_processing),
         (notified'[j] = 0) <=> (notified[j] = 0)
  PROVE  StageOf(j)' = StageOf(j)
  BY SMT DEF StageOf

(* AddJob keeps every queued job queued.                                   *)
LEMMA QueuedStaysAdd ==
  ASSUME TypeOK, NEW j \in Job, NEW c, NEW p \in ClientPriority, AddJob(j, c, p), m_running
  PROVE  Queued(j)' /\ \A i \in Job : Queued(i) => Queued(i)'
<1>0. p \in Priority /\ m_jobQueue \in [Priority -> Seq(Job)]
  BY ParameterAssumption DEF TypeOK
<1>1. \A q \in Priority :
        m_jobQueue'[q] = IF q = p THEN Append(m_jobQueue[p], j) ELSE m_jobQueue[q]
  BY <1>0 DEF AddJob, Enqueue
<1> DEFINE s == m_jobQueue[p]
<1>2. /\ DOMAIN s = 1 .. Len(s) /\ Len(s) \in Nat
      /\ DOMAIN Append(s, j) = 1 .. Len(s) + 1
      /\ \A k \in DOMAIN Append(s, j) : Append(s, j)[k] = IF k \in DOMAIN s THEN s[k] ELSE j
  BY <1>0, AppendElements
<1> HIDE DEF s
<1>3. /\ Len(s) + 1 \in DOMAIN Append(s, j) /\ Append(s, j)[Len(s) + 1] = j
      /\ \A k \in DOMAIN s : k \in DOMAIN Append(s, j) /\ Append(s, j)[k] = s[k]
  BY <1>2, SMT
<1> QED BY <1>0, <1>1, <1>3 DEF Queued, s

(* CancelJob keeps every queued job queued but its own.                    *)
LEMMA QueuedStaysCancel ==
  ASSUME TypeOK, NEW p \in Priority, NEW k \in DOMAIN m_jobQueue[p],
         m_jobQueue' = [m_jobQueue EXCEPT ![p] = Drop(@, k)],
         NEW i \in Job, Queued(i), i # m_jobQueue[p][k]
  PROVE  Queued(i)'
<1>0. m_jobQueue \in [Priority -> Seq(Job)]
  BY DEF TypeOK
<1> DEFINE s == m_jobQueue[p]
<1>1. \A q \in Priority : m_jobQueue'[q] = IF q = p THEN Drop(s, k) ELSE m_jobQueue[q]
  BY <1>0
<1>2. \A n \in DOMAIN s : n # k => \E m \in DOMAIN Drop(s, k) : Drop(s, k)[m] = s[n]
  <2>1. /\ DOMAIN Drop(s, k) = 1 .. Len(s) - 1
        /\ \A m \in 1 .. Len(s) - 1 : Drop(s, k)[m] = IF m < k THEN s[m] ELSE s[m + 1]
    BY <1>0, DropProperties
  <2>2. k \in 1 .. Len(s) /\ Len(s) \in Nat /\ DOMAIN s = 1 .. Len(s)
    BY <1>0, LenProperties, SMT
  <2> HIDE DEF s
  <2>3. ASSUME NEW n \in 1 .. Len(s), n < k
        PROVE  n \in 1 .. Len(s) - 1 /\ Drop(s, k)[n] = s[n]
    BY <2>1, <2>2, <2>3, SMT
  <2>4. ASSUME NEW n \in 1 .. Len(s), n > k
        PROVE  n - 1 \in 1 .. Len(s) - 1 /\ Drop(s, k)[n - 1] = s[n]
    <3>1. n - 1 \in 1 .. Len(s) - 1 /\ ~(n - 1 < k) /\ (n - 1) + 1 = n
      BY <2>2, <2>4, SMT
    <3> QED BY <2>1, <3>1
  <2>5. \A n \in 1 .. Len(s) : n # k => n < k \/ n > k
    BY <2>2, SMT
  <2> QED BY <2>1, <2>2, <2>3, <2>4, <2>5
<1> HIDE DEF s
<1> QED BY <1>1, <1>2 DEF Queued, s

(* A worker keeps every queued job queued but the one it takes.            *)
LEMMA QueuedStaysTake ==
  ASSUME TypeOK, NEW p \in Priority, m_jobQueue[p] # <<>>,
         m_jobQueue' = [m_jobQueue EXCEPT ![p] = Tail(@)],
         NEW i \in Job, Queued(i), i # Head(m_jobQueue[p])
  PROVE  Queued(i)'
<1>0. m_jobQueue \in [Priority -> Seq(Job)]
  BY DEF TypeOK
<1> DEFINE s == m_jobQueue[p]
<1>1. \A q \in Priority : m_jobQueue'[q] = IF q = p THEN Tail(s) ELSE m_jobQueue[q]
  BY <1>0
<1>2. /\ Head(s) = s[1] /\ DOMAIN Tail(s) = 1 .. Len(s) - 1
      /\ \A k \in DOMAIN Tail(s) : Tail(s)[k] = s[k + 1]
  BY <1>0, HeadTail
<1>3. Len(s) \in Nat /\ DOMAIN s = 1 .. Len(s)
  BY <1>0, LenProperties, SMT
<1> HIDE DEF s
<1>4. ASSUME NEW n \in DOMAIN s, n # 1 PROVE n - 1 \in DOMAIN Tail(s) /\ Tail(s)[n - 1] = s[n]
  <2>1. n - 1 \in 1 .. Len(s) - 1 /\ (n - 1) + 1 = n
    BY <1>3, <1>4, SMT
  <2> QED BY <1>2, <2>1
<1>5. PICK q \in Priority : \E n \in DOMAIN m_jobQueue[q] : m_jobQueue[q][n] = i
  BY DEF Queued
<1>6. CASE q = p
  <2>1. PICK n \in DOMAIN s : s[n] = i
    BY <1>5, <1>6 DEF s
  <2>2. n # 1
    BY <1>2, <2>1 DEF s
  <2>3. n - 1 \in DOMAIN Tail(s) /\ Tail(s)[n - 1] = i
    BY <1>4, <2>1, <2>2
  <2>4. m_jobQueue'[p] = Tail(s)
    BY <1>1
  <2> QED BY <2>3, <2>4 DEF Queued
<1>7. CASE q # p
  BY <1>1, <1>5, <1>7 DEF Queued
<1> QED BY <1>6, <1>7

(* One job moves along the life cycle, and the others stay.                *)
LEMMA OneJobMoves ==
  ASSUME NEW j \in Job, \A i \in Job : i # j => StageOf(i)' = StageOf(i),
         \/ StageOf(j) = "new" /\ StageOf(j)' \in {"queued", "refused"}
         \/ StageOf(j) = "queued" /\ StageOf(j)' = "running"
         \/ StageOf(j) = "running" /\ StageOf(j)' = "reported"
         \/ StageOf(j) \in {"running", "reported"} /\ StageOf(j)' = "destroyed"
  PROVE  Lifecycle!Next
<1> DEFINE stage == [i \in Job |-> StageOf(i)]
<1>1. stage' = [stage EXCEPT ![j] = StageOf(j)'] /\ stage[j] = StageOf(j)
  OBVIOUS
<1>2. Lifecycle!Submit(j) \/ Lifecycle!Start(j) \/ Lifecycle!Report(j) \/ Lifecycle!Finish(j)
  BY <1>1 DEF Lifecycle!Submit, Lifecycle!Start, Lifecycle!Report, Lifecycle!Finish
<1> QED BY <1>2 DEF Lifecycle!Next

(* Queued jobs are destroyed, and the others stay.                         *)
LEMMA JobsDiscarded ==
  ASSUME NEW S \in SUBSET Job, \A i \in Job \ S : StageOf(i)' = StageOf(i),
         \A i \in S : StageOf(i) = "queued" /\ StageOf(i)' = "destroyed"
  PROVE  Lifecycle!Next
<1> DEFINE stage == [i \in Job |-> StageOf(i)]
<1>1. stage' = [i \in Job |-> IF i \in S THEN "destroyed" ELSE stage[i]]
  OBVIOUS
<1>2. \A i \in S : stage[i] = "queued"
  OBVIOUS
<1>3. Lifecycle!Discard(S)
  BY <1>1, <1>2 DEF Lifecycle!Discard
<1> QED BY <1>3 DEF Lifecycle!Next

(* AddJob takes a new job over, or turns it down.                          *)
LEMMA LifecycleAdd ==
  ASSUME IInv, IInv', NEW j \in Job, NEW c \in Callback \cup {NULL},
         NEW p \in ClientPriority, AddJob(j, c, p)
  PROVE  Lifecycle!Next
<1>0. TypeOK /\ ThreadInv /\ QueueInv /\ heap \in [Job -> {"unborn", "live", "deleted"}]
  BY DEF IInv, TypeOK
<1>1. heap[j] = "unborn" /\ heap' = [heap EXCEPT ![j] = "live"]
      /\ UNCHANGED <<m_processing, notified>>
  BY DEF AddJob, Enqueue, queueVars, histVars
<1>2. ~Queued(j) /\ j \notin m_processing /\ StageOf(j) = "new"
  BY <1>0, <1>1, QueuedJobs, StageBefore DEF StageTable, QueueInv
<1>3. \A i \in Job : i # j => (Queued(i)' <=> Queued(i))
  <2>1. CASE m_running
    BY <1>0, <2>1, QueuedAfterAdd, QueuedStaysAdd
  <2>2. CASE ~m_running
    BY <2>2 DEF AddJob, queueVars, Queued
  <2> QED BY <2>1, <2>2
<1>4. \A i \in Job : i # j => StageOf(i)' = StageOf(i)
  BY <1>0, <1>1, <1>3, SameStage
<1>5. StageOf(j)' \in {"queued", "refused"}
  BY <1>0, <1>1, <1>2, StageAfter DEF StageTable
<1> QED BY <1>2, <1>4, <1>5, OneJobMoves

(* CancelJob discards the queued job it finds.                             *)
LEMMA LifecycleCancel ==
  ASSUME IInv, IInv', NEW id, CancelQueued(id)
  PROVE  Lifecycle!Next
<1>0. /\ TypeOK /\ ThreadInv /\ QueueInv
      /\ heap \in [Job -> {"unborn", "live", "deleted"}]
      /\ m_jobQueue \in [Priority -> Seq(Job)]
  BY DEF IInv, TypeOK
<1>1. \E p \in Priority : \E k \in DOMAIN m_jobQueue[p] :
        /\ m_jobQueue' = [m_jobQueue EXCEPT ![p] = Drop(@, k)]
        /\ heap' = [heap EXCEPT ![m_jobQueue[p][k]] = "deleted"]
  BY DEF CancelQueued
<1> PICK p \in Priority : \E k \in DOMAIN m_jobQueue[p] :
        /\ m_jobQueue' = [m_jobQueue EXCEPT ![p] = Drop(@, k)]
        /\ heap' = [heap EXCEPT ![m_jobQueue[p][k]] = "deleted"]
  BY <1>1
<1>1a. PICK k \in DOMAIN m_jobQueue[p] :
        /\ m_jobQueue' = [m_jobQueue EXCEPT ![p] = Drop(@, k)]
        /\ heap' = [heap EXCEPT ![m_jobQueue[p][k]] = "deleted"]
  OBVIOUS
<1>1b. PICK j \in Job : j = m_jobQueue[p][k]
  BY <1>0, ElementOfSeq
<1>2. j \in Job /\ Queued(j)
  BY <1>1b DEF Queued
<1>3. UNCHANGED <<m_processing, notified>>
  BY DEF CancelQueued
<1>4. \A i \in Job : i # j => (Queued(i)' <=> Queued(i)) /\ heap'[i] = heap[i]
  BY <1>0, <1>1a, <1>1b, QueuedAfterCancel, QueuedStaysCancel
<1>5. heap'[j] = "deleted" /\ heap[j] = "live" /\ j \notin m_processing
  BY <1>0, <1>1a, <1>1b, <1>2, QueuedJobs
<1>6. \A i \in Job \ {j} : StageOf(i)' = StageOf(i)
  BY <1>3, <1>4, SameStage
<1>7. StageOf(j) = "queued" /\ StageOf(j)' = "destroyed"
  BY <1>2, <1>5, StageBefore, StageAfter DEF StageTable
<1>8. {j} \in SUBSET Job
  BY <1>2
<1>9. \A i \in {j} : StageOf(i) = "queued" /\ StageOf(i)' = "destroyed"
  BY <1>7
<1> QED BY <1>6, <1>8, <1>9, JobsDiscarded

(* CancelJobs() discards every queued job.                                 *)
LEMMA LifecycleCancelAll ==
  ASSUME IInv, IInv', CancelJobsBegin
  PROVE  Lifecycle!Next
<1> DEFINE S == {j \in Job : Queued(j)}
<1>0. TypeOK /\ ThreadInv /\ QueueInv
  BY DEF IInv
<1>1. /\ UNCHANGED <<m_processing, notified>>
      /\ \A i \in Job : ~Queued(i)'
      /\ \A i \in Job : heap'[i] = IF Queued(i) THEN "deleted" ELSE heap[i]
  BY DEF CancelJobsBegin, Queued
<1>2. \A i \in Job \ S : StageOf(i)' = StageOf(i)
  BY <1>1, SameStage
<1>3. \A i \in S : StageOf(i) = "queued" /\ StageOf(i)' = "destroyed"
  BY <1>0, <1>1, QueuedJobs, StageBefore, StageAfter DEF StageTable
<1> QED BY <1>2, <1>3, JobsDiscarded

(* A worker starts a queued job.                                           *)
LEMMA LifecycleTake ==
  ASSUME IInv, IInv', NEW w \in Worker, TakeJob(w)
  PROVE  Lifecycle!Next
<1>0. /\ TypeOK /\ ThreadInv /\ QueueInv /\ QueueInv' /\ SilenceInv
      /\ m_jobQueue \in [Priority -> Seq(Job)]
  BY DEF IInv, TypeOK
<1>1. PICK p \in Priority :
        /\ m_jobQueue[p] # <<>>
        /\ m_jobQueue' = [m_jobQueue EXCEPT ![p] = Tail(@)]
        /\ m_processing' = m_processing \cup {Head(m_jobQueue[p])}
  BY DEF TakeJob, PopsFrom, Eligible
<1>1a. PICK j \in Job : j = Head(m_jobQueue[p])
  BY <1>0, <1>1, HeadTail
<1>2. j \in Job /\ Queued(j)
  BY <1>0, <1>1, <1>1a, HeadTail DEF Queued
<1>3. UNCHANGED <<heap, notified>>
  BY DEF TakeJob, histVars
<1>4. \A i \in Job : i # j => (Queued(i)' <=> Queued(i))
  BY <1>0, <1>1, <1>1a, QueuedAfterTake, QueuedStaysTake
<1>5. heap[j] = "live" /\ j \notin m_processing /\ notified[j] = 0
  BY <1>0, <1>2, QueuedJobs DEF SilenceInv
<1>6. j \in m_processing' /\ \A i \in Job : i # j => ((i \in m_processing') <=> (i \in m_processing))
  BY <1>1, <1>1a
<1>7. ~Queued(j)'
  BY <1>0, <1>6 DEF Queued, QueueInv
<1>8. \A i \in Job : i # j => StageOf(i)' = StageOf(i)
  BY <1>3, <1>4, <1>6, SameStage
<1>9. StageOf(j) = "queued" /\ StageOf(j)' = "running"
  BY <1>2, <1>3, <1>5, <1>6, <1>7, StageBefore, StageAfter DEF StageTable
<1> QED BY <1>2, <1>8, <1>9, OneJobMoves

(* A worker calls the callback of the job it ran, once, if there is one.   *)
LEMMA LifecycleNotify ==
  ASSUME IInv, NEW w \in Worker, NotifyClient(w)
  PROVE  Lifecycle!Next \/ \A i \in Job : StageOf(i)' = StageOf(i)
<1>0. /\ TypeOK /\ ThreadInv /\ QueueInv /\ SilenceInv
      /\ notified \in [Job -> Nat] /\ m_processing \subseteq Job
  BY DEF IInv, TypeOK
<1>j. PICK j \in Job : j = job[w]
  BY <1>0 DEF NotifyClient, ThreadInv, QueueInv, Busy
<1>1. j \in m_processing /\ heap[j] = "live" /\ notified[j] = 0
  BY <1>0, <1>j DEF NotifyClient, ThreadInv, QueueInv, SilenceInv, Busy
<1>2. UNCHANGED <<m_jobQueue, m_processing, heap>>
  BY DEF NotifyClient, queueVars
<1>3. \A i \in Job : Queued(i)' <=> Queued(i)
  BY <1>2 DEF Queued
<1>4. CASE cb[w] = NULL
  <2>1. notified' = notified
    BY <1>4 DEF NotifyClient
  <2> QED BY <1>2, <1>3, <2>1, SameStage
<1>5. CASE cb[w] # NULL
  <2>1. notified' = [notified EXCEPT ![j] = @ + 1]
    BY <1>j, <1>5 DEF NotifyClient
  <2>2. notified'[j] = 1 /\ \A i \in Job : i # j => notified'[i] = notified[i]
    BY <1>0, <1>1, <2>1
  <2>3. j \in Job /\ ~Queued(j) /\ ~Queued(j)'
    BY <1>0, <1>1, <1>3, QueuedJobs
  <2>4. \A i \in Job : i # j => StageOf(i)' = StageOf(i)
    BY <1>2, <1>3, <2>2, SameStage
  <2>5. StageOf(j) = "running"
    BY <1>1, <2>3, StageBefore DEF StageTable
  <2>6. StageOf(j)' = "reported"
    <3>1. heap'[j] = "live" /\ j \in m_processing' /\ notified'[j] # 0
      BY <1>1, <1>2, <2>2
    <3> QED BY <2>3, <3>1, StageAfter DEF StageTable
  <2> QED BY <2>3, <2>4, <2>5, <2>6, OneJobMoves
<1> QED BY <1>4, <1>5

(* A worker destroys the job it ran.                                       *)
LEMMA LifecycleErase ==
  ASSUME IInv, NEW w \in Worker, EraseJob(w)
  PROVE  Lifecycle!Next
<1>0. /\ TypeOK /\ ThreadInv /\ QueueInv /\ m_processing \subseteq Job
      /\ heap \in [Job -> {"unborn", "live", "deleted"}]
  BY DEF IInv, TypeOK
<1>j. PICK j \in Job : j = job[w]
  BY <1>0 DEF EraseJob, ThreadInv, QueueInv, Busy
<1>1. j \in m_processing /\ heap[j] = "live" /\ j \in Job
  BY <1>0, <1>j DEF EraseJob, ThreadInv, QueueInv, Busy
<1>2. /\ UNCHANGED <<m_jobQueue, notified>>
      /\ heap' = [heap EXCEPT ![j] = "deleted"]
      /\ m_processing' = m_processing \ {j}
  BY <1>j DEF EraseJob, histVars
<1>3. \A i \in Job : Queued(i)' <=> Queued(i)
  BY <1>2 DEF Queued
<1>4. ~Queued(j)
  BY <1>0, <1>1, QueuedJobs
<1>5. heap'[j] = "deleted" /\ \A i \in Job : i # j => heap'[i] = heap[i]
  BY <1>0, <1>1, <1>2
<1>6. \A i \in Job : i # j => StageOf(i)' = StageOf(i)
  BY <1>2, <1>3, <1>5, SameStage
<1>7. StageOf(j) \in {"running", "reported"}
  BY <1>1, <1>4, StageBefore DEF StageTable
<1>8. StageOf(j)' = "destroyed"
  BY <1>5, StageAfter DEF StageTable
<1> QED BY <1>1, <1>6, <1>7, <1>8, OneJobMoves

(* Every step of the manager is a step of the life cycle or a stutter.     *)
LEMMA LifecycleStep ==
  ASSUME IInv, IInv', [Next]_vars
  PROVE  Lifecycle!Next \/ \A i \in Job : StageOf(i)' = StageOf(i)
<1> USE DEF queueVars, flagVars, eventVars, threadVars, histVars
<1>1. CASE UNCHANGED <<m_jobQueue, m_processing, heap, notified>>
  <2>1. \A i \in Job : Queued(i)' <=> Queued(i)
    BY <1>1 DEF Queued
  <2> QED BY <1>1, <2>1, SameStage
<1>2. CASE ClientStep
  <2>1. CASE \E j \in Job, c \in Callback \cup {NULL}, p \in ClientPriority : AddJob(j, c, p)
    BY <2>1, LifecycleAdd
  <2>2. CASE \E id \in 1 .. IdModulus - 1 : CancelQueued(id)
    BY <2>2, LifecycleCancel
  <2>3. CASE CancelJobsBegin
    BY <2>3, LifecycleCancelAll
  <2> QED BY <1>1, <1>2, <2>1, <2>2, <2>3
      DEF ClientStep, CancelJob, CancelRunning, PauseJobs, UnPauseJobs,
          CancelJobsSignal, CancelJobsReturn, Restart
<1>3. ASSUME NEW w \in Worker, WorkerStep(w) \/ CheckCancel(w)
      PROVE  Lifecycle!Next \/ \A i \in Job : StageOf(i)' = StageOf(i)
  <2>1. CASE TakeJob(w)
    BY <2>1, LifecycleTake
  <2>2. CASE NotifyClient(w)
    BY <2>2, LifecycleNotify
  <2>3. CASE EraseJob(w)
    BY <2>3, LifecycleErase
  <2>4. CASE LeaveLock(w) \/ WaitForEvent(w) \/ WakeUp(w) \/ TimeOut(w) \/ Retire(w)
             \/ ExitThread(w) \/ ProgressDone(w) \/ JobDone(w) \/ CheckCancel(w)
    BY <1>1, <2>4 DEF LeaveLock, WaitForEvent, WakeUp, TimeOut, Retire, ExitThread,
       ProgressDone, JobDone, CheckCancel
  <2> QED BY <1>3, <2>1, <2>2, <2>3, <2>4 DEF WorkerStep
<1>4. CASE UNCHANGED vars
  BY <1>1, <1>4 DEF vars
<1> QED BY <1>2, <1>3, <1>4 DEF Next

(* For any number of jobs and threads, each job goes through the stages    *)
(* its client is promised, in their order, each at most once, and its      *)
(* callback is called only between its start and its destruction.          *)
THEOREM LifecycleImplemented == Spec => JobsFollowLifecycle
<1>1. Init => Lifecycle!Init
  <2> SUFFICES ASSUME Init PROVE Lifecycle!Init
    OBVIOUS
  <2>1. \A j \in Job : StageOf(j) = "new"
    BY StageBefore DEF Init, StageTable
  <2> QED BY <2>1 DEF Lifecycle!Init
<1>2. IInv /\ IInv' /\ [Next]_vars => [Lifecycle!Next]_([j \in Job |-> StageOf(j)])
  <2> SUFFICES ASSUME IInv, IInv', [Next]_vars
               PROVE  Lifecycle!Next \/ UNCHANGED [j \in Job |-> StageOf(j)]
    OBVIOUS
  <2>1. CASE \A i \in Job : StageOf(i)' = StageOf(i)
    BY <2>1
  <2> QED BY <2>1, LifecycleStep
<1> QED BY <1>1, <1>2, Invariance, PTL DEF Spec, JobsFollowLifecycle, Lifecycle!Spec

-----------------------------------------------------------------------------
(* 2. The queue: the inductive invariant                                   *)

(* The manager has the job, queued or with a worker.                       *)
Managed(j) == Queued(j) \/ j \in m_processing

Entry == [job : Job, id : 0 .. IdModulus - 1]

QTypes ==
  /\ q_jobQueue \in Seq(Job) /\ q_processing \in Seq(Entry)
  /\ q_lock \in BOOLEAN
  /\ dropped \subseteq Job /\ refused \subseteq Job

(* The list has its elements once.                                         *)
Distinct(seq) == \A i, k \in 1 .. Len(seq) : seq[i] = seq[k] => i = k

(* A job kept back is the queue's alone.                                   *)
KeptBack ==
  /\ Distinct(q_jobQueue)
  /\ \A j \in ToSet(q_jobQueue) :
       /\ heap[j] = "live" /\ ~Managed(j) /\ j \notin dropped
       /\ \A e \in Entries : e.job # j

(* The queue does not know a job before it is added.                       *)
KnowsOwn ==
  /\ \A j \in dropped : heap[j] # "unborn"
  /\ \A e \in Entries : heap[e.job] # "unborn"

(* Every job has an owner, but those that were refused.                    *)
Owned == \A j \in Job : heap[j] = "live" => InQueue(j) \/ Managed(j) \/ j \in refused

ManagerInv == TypeOK /\ ThreadInv /\ QueueInv
QueueOwns  == ManagerInv /\ QTypes /\ KeptBack /\ KnowsOwn /\ Owned

-----------------------------------------------------------------------------
(* The operators the queue is built from                                   *)

(* A list's set, by its positions.                                         *)
LEMMA ByPosition ==
  ASSUME NEW S, NEW seq \in Seq(S)
  PROVE  /\ Len(seq) \in Nat /\ DOMAIN seq = 1 .. Len(seq)
         /\ \A i \in 1 .. Len(seq) : seq[i] \in ToSet(seq) /\ seq[i] \in S
         /\ \A x : x \in ToSet(seq) <=> \E i \in 1 .. Len(seq) : seq[i] = x
BY LenProperties DEF ToSet

(* One more at the end of a list.                                          *)
LEMMA Appended ==
  ASSUME NEW S, NEW seq \in Seq(S), NEW e \in S
  PROVE  /\ Append(seq, e) \in Seq(S) /\ Len(Append(seq, e)) = Len(seq) + 1
         /\ \A i \in 1 .. Len(seq) : Append(seq, e)[i] = seq[i]
         /\ Append(seq, e)[Len(seq) + 1] = e
         /\ ToSet(Append(seq, e)) = ToSet(seq) \cup {e}
         /\ Distinct(seq) /\ e \notin ToSet(seq) => Distinct(Append(seq, e))
<1> DEFINE n == Len(seq)
           t == Append(seq, e)
<1>1. /\ t \in Seq(S) /\ Len(t) = n + 1 /\ n \in Nat /\ t[n + 1] = e
      /\ \A i \in 1 .. n : t[i] = seq[i]
  BY AppendProperties, LenProperties
<1> HIDE DEF t
<1>2. /\ n + 1 \in 1 .. n + 1
      /\ \A i \in 1 .. n + 1 : i \in 1 .. n \/ i = n + 1
      /\ \A i \in 1 .. n : i \in 1 .. n + 1
  BY <1>1
<1>3. \A x : x \in ToSet(t) <=> x \in ToSet(seq) \/ x = e
  BY <1>1, <1>2, ByPosition
<1>4. ToSet(t) = ToSet(seq) \cup {e}
  BY <1>3
<1>5. ASSUME Distinct(seq), e \notin ToSet(seq) PROVE Distinct(t)
  <2>1. \A i \in 1 .. n : t[i] # e
    BY <1>1, <1>5, ByPosition
  <2> QED BY <1>1, <1>2, <1>5, <2>1 DEF Distinct
<1> QED BY <1>1, <1>4, <1>5 DEF t

(* One more at the beginning of a list.                                    *)
LEMMA Prepended ==
  ASSUME NEW S, NEW seq \in Seq(S), NEW e \in S
  PROVE  /\ <<e>> \o seq \in Seq(S) /\ Len(<<e>> \o seq) = Len(seq) + 1
         /\ (<<e>> \o seq)[1] = e
         /\ \A i \in 1 .. Len(seq) : (<<e>> \o seq)[i + 1] = seq[i]
         /\ ToSet(<<e>> \o seq) = ToSet(seq) \cup {e}
         /\ Distinct(seq) /\ e \notin ToSet(seq) => Distinct(<<e>> \o seq)
<1> DEFINE n == Len(seq)
           t == <<e>> \o seq
<1>1. /\ <<e>> \in Seq(S) /\ Len(<<e>>) = 1 /\ <<e>>[1] = e /\ n \in Nat
  BY LenProperties
<1>2. /\ t \in Seq(S) /\ Len(t) = 1 + n
      /\ \A k \in 1 .. 1 + n : t[k] = IF k <= 1 THEN <<e>>[k] ELSE seq[k - 1]
  BY <1>1, ConcatProperties
<1> HIDE DEF t
<1>3. /\ 1 \in 1 .. 1 + n
      /\ \A i \in 1 .. n : i + 1 \in 1 .. 1 + n /\ ~(i + 1 <= 1) /\ (i + 1) - 1 = i
      /\ \A k \in 1 .. 1 + n : k = 1 \/ (k - 1 \in 1 .. n /\ (k - 1) + 1 = k)
  BY <1>1
<1>4. t[1] = e /\ \A i \in 1 .. n : t[i + 1] = seq[i]
  BY <1>1, <1>2, <1>3
<1>5. \A x : x \in ToSet(t) <=> x \in ToSet(seq) \/ x = e
  <2>1. ASSUME NEW x \in ToSet(t) PROVE x \in ToSet(seq) \/ x = e
    <3>1. PICK k \in 1 .. 1 + n : t[k] = x
      BY <1>2, ByPosition
    <3>2. k = 1 \/ (k - 1 \in 1 .. n /\ t[k] = seq[k - 1])
      BY <1>2, <1>3
    <3> QED BY <1>4, <3>1, <3>2, ByPosition
  <2>2. \A x : x \in ToSet(seq) => x \in ToSet(t)
    BY <1>2, <1>3, <1>4, ByPosition
  <2>3. e \in ToSet(t)
    BY <1>2, <1>3, <1>4, ByPosition
  <2> QED BY <2>1, <2>2, <2>3
<1>6. ToSet(t) = ToSet(seq) \cup {e}
  BY <1>5
<1>7. ASSUME Distinct(seq), e \notin ToSet(seq) PROVE Distinct(t)
  <2> SUFFICES ASSUME NEW i \in 1 .. 1 + n, NEW k \in 1 .. 1 + n, t[i] = t[k]
               PROVE  i = k
    BY <1>2 DEF Distinct
  <2>1. \A m \in 1 .. 1 + n : m # 1 => m - 1 \in 1 .. n /\ t[m] = seq[m - 1] /\ t[m] # e
    BY <1>3, <1>4, <1>7, ByPosition
  <2>2. CASE i = 1 \/ k = 1
    BY <1>4, <2>1, <2>2
  <2>3. CASE i # 1 /\ k # 1
    <3>1. i - 1 = k - 1
      BY <1>7, <2>1, <2>3 DEF Distinct
    <3> QED BY <3>1
  <2> QED BY <2>2, <2>3
<1> QED BY <1>2, <1>4, <1>6, <1>7 DEF t

(* A list without its last.                                                *)
LEMMA FrontAndLast ==
  ASSUME NEW S, NEW seq \in Seq(S), seq # <<>>
  PROVE  /\ Front(seq) \in Seq(S) /\ Len(Front(seq)) = Len(seq) - 1 /\ Len(seq) \in Nat \ {0}
         /\ \A i \in 1 .. Len(seq) - 1 : Front(seq)[i] = seq[i]
         /\ Last(seq) = seq[Len(seq)] /\ Last(seq) \in ToSet(seq) /\ Last(seq) \in S
         /\ Distinct(seq) => /\ Distinct(Front(seq))
                             /\ ToSet(Front(seq)) = ToSet(seq) \ {Last(seq)}
<1> DEFINE n == Len(seq)
           t == Front(seq)
<1>1. n \in Nat \ {0} /\ Last(seq) = seq[n]
  BY EmptySeq, LenProperties DEF Last
<1>2. t \in Seq(S) /\ Len(t) = n - 1 /\ \A i \in 1 .. n - 1 : t[i] = seq[i]
  BY <1>1, SMT DEF Front
<1> HIDE DEF t
<1>3. /\ n \in 1 .. n
      /\ \A i \in 1 .. n - 1 : i \in 1 .. n /\ i # n
      /\ \A i \in 1 .. n : i = n \/ i \in 1 .. n - 1
  BY <1>1
<1>4. Last(seq) \in ToSet(seq) /\ Last(seq) \in S
  BY <1>1, <1>3, ByPosition
<1>5. ASSUME Distinct(seq) PROVE Distinct(t) /\ ToSet(t) = ToSet(seq) \ {Last(seq)}
  <2>1. Distinct(t)
    BY <1>2, <1>3, <1>5 DEF Distinct
  <2>2. ASSUME NEW x \in ToSet(t) PROVE x \in ToSet(seq) /\ x # seq[n]
    <3>1. PICK k \in 1 .. n - 1 : t[k] = x
      BY <1>2, ByPosition
    <3>2. k \in 1 .. n /\ k # n /\ seq[k] = x
      BY <1>2, <1>3, <3>1
    <3> QED BY <1>3, <1>5, <3>2, ByPosition DEF Distinct
  <2>3. \A x : x \in ToSet(seq) /\ x # seq[n] => x \in ToSet(t)
    BY <1>2, <1>3, ByPosition
  <2>4. ToSet(t) = ToSet(seq) \ {seq[n]}
    BY <2>2, <2>3
  <2> QED BY <1>1, <2>1, <2>4
<1> QED BY <1>1, <1>2, <1>4, <1>5 DEF t

(* A list without one of its elements.                                     *)
LEMMA RemovedAt ==
  ASSUME NEW S, NEW seq \in Seq(S), NEW i \in 1 .. Len(seq)
  PROVE  /\ RemoveAt(seq, i) \in Seq(S) /\ Len(RemoveAt(seq, i)) = Len(seq) - 1
         /\ ToSet(RemoveAt(seq, i)) \subseteq ToSet(seq)
         /\ Distinct(seq) => /\ Distinct(RemoveAt(seq, i))
                             /\ ToSet(RemoveAt(seq, i)) = ToSet(seq) \ {seq[i]}
<1> DEFINE n == Len(seq)
           t == RemoveAt(seq, i)
           At(k) == IF k < i THEN k ELSE k + 1
<1>1. /\ t \in Seq(S) /\ Len(t) = n - 1 /\ n \in Nat
      /\ \A k \in 1 .. n - 1 : t[k] = IF k < i THEN seq[k] ELSE seq[k + 1]
  BY DropProperties, LenProperties DEF RemoveAt, Drop
<1> HIDE DEF t
<1>2. \A k \in 1 .. n - 1 : At(k) \in 1 .. n /\ At(k) # i /\ t[k] = seq[At(k)]
  BY <1>1
<1>3. \A k, m \in 1 .. n - 1 : At(k) = At(m) => k = m
  BY <1>1
<1>4. \A k \in 1 .. n : k # i => \E m \in 1 .. n - 1 : At(m) = k
  <2> SUFFICES ASSUME NEW k \in 1 .. n, k # i PROVE \E m \in 1 .. n - 1 : At(m) = k
    OBVIOUS
  <2>1. CASE k < i
    BY <1>1, <2>1
  <2>2. CASE k > i
    <3>1. k - 1 \in 1 .. n - 1 /\ At(k - 1) = k
      BY <1>1, <2>2
    <3> QED BY <3>1
  <2> QED BY <1>1, <2>1, <2>2
<1> HIDE DEF At
<1>5. ToSet(t) \subseteq ToSet(seq)
  <2>1. \A x : x \in ToSet(t) => x \in ToSet(seq)
    BY <1>1, <1>2, ByPosition
  <2> QED BY <2>1
<1>6. ASSUME Distinct(seq) PROVE Distinct(t) /\ ToSet(t) = ToSet(seq) \ {seq[i]}
  <2>1. Distinct(t)
    BY <1>1, <1>2, <1>3, <1>6 DEF Distinct
  <2>2. \A x : x \in ToSet(t) => x # seq[i]
    BY <1>1, <1>2, <1>6, ByPosition DEF Distinct
  <2>3. ASSUME NEW x \in ToSet(seq), x # seq[i] PROVE x \in ToSet(t)
    <3>1. PICK k \in 1 .. n : seq[k] = x
      BY ByPosition
    <3>2. PICK m \in 1 .. n - 1 : At(m) = k
      BY <1>4, <2>3, <3>1
    <3>3. t[m] = x
      BY <1>2, <3>1, <3>2
    <3> QED BY <1>1, <3>3, ByPosition
  <2>4. ToSet(t) = ToSet(seq) \ {seq[i]}
    BY <1>5, <2>2, <2>3
  <2> QED BY <2>1, <2>4
<1> QED BY <1>1, <1>5, <1>6 DEF t

-----------------------------------------------------------------------------
(* The manager under the queue                                             *)

(* What the manager does while no client adds or cancels a job: what a     *)
(* worker does but for calling the queue, and what pauses, stops and       *)
(* restarts it.                                                            *)
ManagerRuns ==
  \/ \E w \in Worker : /\ WorkerStep(w) \/ CheckCancel(w)
                       /\ ~(pc[w] = "callback" /\ cb[w] = Queue)
  \/ PauseJobs \/ UnPauseJobs
  \/ CancelJobsBegin \/ CancelJobsSignal \/ CancelJobsReturn \/ Restart

(* It deals with the jobs it has, and with no others.                      *)
HandlesOwn ==
  \A j \in Job :
    /\ ~Managed(j) => ~Managed(j)' /\ heap'[j] = heap[j]
    /\ Managed(j) => heap'[j] = "deleted" \/ (heap'[j] = heap[j] /\ Managed(j)')

(* The jobs it has are live.                                               *)
LEMMA ManagedIsLive ==
  ASSUME ManagerInv, NEW j \in Job, Managed(j)
  PROVE  heap[j] = "live"
BY QueuedJobs DEF ManagerInv, Managed, QueueInv

(* Its own steps keep its invariant.                                       *)
LEMMA RunsKeepManager ==
  ASSUME ManagerInv, ManagerRuns
  PROVE  ManagerInv'
<1>1. CASE \E w \in Worker : WorkerStep(w) \/ CheckCancel(w)
  BY <1>1, WorkerType, ThreadInvWorker, QueueInvWorker DEF ManagerInv
<1>2. CASE \/ PauseJobs \/ UnPauseJobs
           \/ CancelJobsBegin \/ CancelJobsSignal \/ CancelJobsReturn \/ Restart
  <2>1. ClientStep
    BY <1>2 DEF ClientStep
  <2> QED BY <2>1, ClientType, ThreadInvClient, QueueInvClient DEF ManagerInv
<1> QED BY <1>1, <1>2 DEF ManagerRuns

(* A worker that takes a job leaves it with the manager.                   *)
LEMMA TakeHandles ==
  ASSUME ManagerInv, NEW w \in Worker, TakeJob(w)
  PROVE  heap' = heap /\ \A j \in Job : Managed(j)' <=> Managed(j)
<1>0. TypeOK /\ m_jobQueue \in [Priority -> Seq(Job)]
  BY DEF ManagerInv, TypeOK
<1>1. PICK p \in Priority :
        /\ m_jobQueue[p] # <<>>
        /\ m_jobQueue' = [m_jobQueue EXCEPT ![p] = Tail(@)]
        /\ m_processing' = m_processing \cup {Head(m_jobQueue[p])}
  BY DEF TakeJob, PopsFrom, Eligible
<1>2. PICK i \in Job : i = Head(m_jobQueue[p]) /\ Queued(i)
  BY <1>0, <1>1, HeadTail DEF Queued
<1>3. \A j \in Job : Queued(j)' => Queued(j)
  BY <1>0, QueuedAfterTake
<1>4. \A j \in Job : Queued(j) /\ j # i => Queued(j)'
  BY <1>0, <1>1, <1>2, QueuedStaysTake
<1> QED BY <1>1, <1>2, <1>3, <1>4 DEF Managed, TakeJob

(* The manager's own steps deal with its own jobs.                         *)
LEMMA RunsHandleOwn ==
  ASSUME ManagerInv, ManagerRuns
  PROVE  HandlesOwn
<1> USE DEF queueVars, flagVars, eventVars, threadVars, histVars
<1>1. CASE UNCHANGED <<m_jobQueue, m_processing, heap>>
  BY <1>1 DEF HandlesOwn, Managed, Queued
<1>2. CASE PauseJobs \/ UnPauseJobs \/ CancelJobsSignal \/ CancelJobsReturn \/ Restart
  BY <1>1, <1>2 DEF PauseJobs, UnPauseJobs, CancelJobsSignal, CancelJobsReturn, Restart
<1>3. CASE CancelJobsBegin
  <2>1. /\ \A j \in Job : ~Queued(j)'
        /\ m_processing' = m_processing
        /\ \A j \in Job : heap'[j] = IF Queued(j) THEN "deleted" ELSE heap[j]
    BY <1>3 DEF CancelJobsBegin, Queued
  <2> QED BY <2>1 DEF HandlesOwn, Managed
<1>4. ASSUME NEW w \in Worker, WorkerStep(w) \/ CheckCancel(w)
      PROVE  HandlesOwn
  <2>1. CASE TakeJob(w)
    BY <2>1, TakeHandles DEF HandlesOwn
  <2>2. CASE EraseJob(w)
    <3>1. /\ job[w] \in m_processing /\ m_processing \subseteq Job
          /\ heap \in [Job -> {"unborn", "live", "deleted"}]
      BY <2>2 DEF ManagerInv, ThreadInv, TypeOK, EraseJob, Busy
    <3>2. /\ m_processing' = m_processing \ {job[w]} /\ m_jobQueue' = m_jobQueue
          /\ heap' = [heap EXCEPT ![job[w]] = "deleted"]
      BY <2>2 DEF EraseJob
    <3>3. \A j \in Job : heap'[j] = IF j = job[w] THEN "deleted" ELSE heap[j]
      BY <3>1, <3>2
    <3> QED BY <3>1, <3>2, <3>3 DEF HandlesOwn, Managed, Queued
  <2>3. CASE \/ LeaveLock(w) \/ WaitForEvent(w) \/ WakeUp(w) \/ TimeOut(w)
             \/ Retire(w) \/ ExitThread(w)
    BY <1>1, <2>3 DEF LeaveLock, WaitForEvent, WakeUp, TimeOut, Retire, ExitThread
  <2>4. CASE ProgressDone(w) \/ JobDone(w) \/ NotifyClient(w) \/ CheckCancel(w)
    BY <1>1, <2>4 DEF ProgressDone, JobDone, NotifyClient, CheckCancel
  <2> QED BY <1>4, <2>1, <2>2, <2>3, <2>4 DEF WorkerStep
<1> QED BY <1>2, <1>3, <1>4 DEF ManagerRuns

(* So does a cancellation.                                                 *)
LEMMA CancelHandlesOwn ==
  ASSUME ManagerInv, NEW id, CancelJob(id)
  PROVE  ManagerInv' /\ HandlesOwn
<1>0. /\ TypeOK /\ m_jobQueue \in [Priority -> Seq(Job)]
      /\ heap \in [Job -> {"unborn", "live", "deleted"}]
  BY DEF ManagerInv, TypeOK
<1>1. ManagerInv'
  <2>1. UNCHANGED <<pc, m_workers, m_processing, job, cb>>
    BY DEF CancelJob, CancelQueued, CancelRunning, threadVars
  <2>2. ThreadInv'
    BY <2>1 DEF ManagerInv, ThreadInv
  <2> QED BY <2>2, CancelJobType, QueueInvCancel DEF ManagerInv
<1>2. CASE CancelQueued(id)
  <2>1. PICK p \in Priority : \E k \in DOMAIN m_jobQueue[p] :
          /\ m_jobQueue' = [m_jobQueue EXCEPT ![p] = Drop(@, k)]
          /\ heap' = [heap EXCEPT ![m_jobQueue[p][k]] = "deleted"]
    BY <1>2 DEF CancelQueued
  <2>2. PICK k \in DOMAIN m_jobQueue[p] :
          /\ m_jobQueue' = [m_jobQueue EXCEPT ![p] = Drop(@, k)]
          /\ heap' = [heap EXCEPT ![m_jobQueue[p][k]] = "deleted"]
    BY <2>1
  <2>3. PICK i \in Job : i = m_jobQueue[p][k] /\ Queued(i)
    BY <1>0, ElementOfSeq DEF Queued
  <2>4. m_processing' = m_processing
    BY <1>2 DEF CancelQueued
  <2>5. \A j \in Job : Queued(j)' => Queued(j)
    BY <1>0, <1>2, QueuedAfterCancel
  <2>6. \A j \in Job : Queued(j) /\ j # i => Queued(j)'
    BY <1>0, <2>2, <2>3, QueuedStaysCancel
  <2>7. \A j \in Job : heap'[j] = IF j = i THEN "deleted" ELSE heap[j]
    BY <1>0, <2>2, <2>3
  <2> QED BY <1>1, <2>3, <2>4, <2>5, <2>6, <2>7 DEF HandlesOwn, Managed
<1>3. CASE CancelRunning(id)
  <2>1. UNCHANGED <<m_jobQueue, m_processing, heap>>
    BY <1>3 DEF CancelRunning
  <2> QED BY <1>1, <2>1 DEF HandlesOwn, Managed, Queued
<1> QED BY <1>2, <1>3 DEF CancelJob

(* ... whether it finds the job or not.                                    *)
LEMMA ManagerCancelHandlesOwn ==
  ASSUME ManagerInv, NEW id, ManagerCancel(id)
  PROVE  ManagerInv' /\ HandlesOwn
<1>1. CASE UNCHANGED vars
  <2>1. UNCHANGED <<m_jobQueue, m_processing, item, m_jobCounter, m_pauseJobs, m_running,
                    canceller, m_workers, signaled, waiters, pc, job, cb, heap,
                    notified, cancelled, told>>
    BY <1>1 DEF vars, queueVars, flagVars, eventVars, threadVars, histVars
  <2>2. ManagerInv'
    BY <2>1 DEF ManagerInv, TypeOK, ThreadInv, QueueInv
  <2> QED BY <2>1, <2>2 DEF HandlesOwn, Managed, Queued
<1> QED BY <1>1, CancelHandlesOwn DEF ManagerCancel

(* A thread of another state that is as busy as before, and as well known. *)
SameWork(pcs) ==
  /\ pcs \in [Worker -> WorkerStates]
  /\ \A w \in Worker : /\ pcs[w] \in Busy <=> pc[w] \in Busy
                       /\ pcs[w] \in {"none", "exit"} <=> pc[w] \in {"none", "exit"}

(* What the queue does between its calls of the manager: jobs are made,    *)
(* freed and reported, but none the manager has.                           *)
Aside ==
  /\ heap' \in [Job -> {"unborn", "live", "deleted"}]
  /\ \A j \in Job : Managed(j) => heap'[j] = "live"
  /\ notified' \in [Job -> Nat]
  /\ UNCHANGED <<flagVars, job, cb, cancelled, told>>

(* It leaves the manager alone, ...                                        *)
LEMMA AsideKeepsManager ==
  ASSUME ManagerInv, Aside, NEW pcs, SameWork(pcs), pc' = pcs,
         UNCHANGED <<queueVars, m_workers, eventVars>>
  PROVE  ManagerInv' /\ \A j \in Job : Managed(j)' <=> Managed(j)
<1>0. UNCHANGED <<m_jobQueue, m_processing, item, m_jobCounter, m_pauseJobs, m_running,
                  canceller, m_workers, signaled, waiters, job, cb, cancelled, told>>
  BY DEF Aside, queueVars, flagVars, eventVars
<1>1. TypeOK'
  BY <1>0 DEF ManagerInv, TypeOK, Aside, SameWork
<1>2. ThreadInv'
  BY <1>0 DEF ManagerInv, ThreadInv, SameWork
<1>3. /\ \A p \in Priority : \A i \in DOMAIN m_jobQueue[p] : Managed(m_jobQueue[p][i])
      /\ \A j \in m_processing : Managed(j)
  BY DEF Managed, Queued
<1>4. /\ \A p \in Priority : \A i \in DOMAIN m_jobQueue[p] : m_jobQueue[p][i] \in Job
      /\ m_processing \subseteq Job
  BY ElementOfSeq DEF ManagerInv, TypeOK
<1>5. QueueInv'
  BY <1>0, <1>3, <1>4 DEF ManagerInv, QueueInv, Aside
<1> QED BY <1>0, <1>1, <1>2, <1>5 DEF ManagerInv, Managed, Queued

(* ... and the manager takes over a job that it does not have.             *)
LEMMA SubmitKeepsManager ==
  ASSUME ManagerInv, Aside, NEW pcs, SameWork(pcs), NEW j \in Job, ~Managed(j),
         heap'[j] = "live", Enqueue(j, Queue, QueuePriority, pcs)
  PROVE  /\ ManagerInv'
         /\ \A i \in Job : Managed(i)' <=> Managed(i) \/ i = j
         /\ Queued(j)' /\ m_processing' = m_processing
         /\ item'[j].id = NextId(m_jobCounter) /\ item'[j].callback = Queue
         /\ \A i \in Job : i # j => item'[i] = item[i]
<1> DEFINE p == QueuePriority
           s == m_jobQueue[p]
           n == Append(s, j)
<1>0. /\ p \in Priority /\ Queue \in Callback
      /\ m_jobQueue \in [Priority -> Seq(Job)] /\ s \in Seq(Job)
      /\ item \in [Job -> Item] /\ m_processing \subseteq Job
      /\ m_jobCounter \in 0 .. IdModulus - 1
      /\ \A q \in Priority : \A i \in DOMAIN m_jobQueue[q] : m_jobQueue[q][i] \in Job
  BY QueueAssumption, ElementOfSeq DEF ManagerInv, TypeOK, QueueAssumption
<1>1. /\ m_jobQueue' = [m_jobQueue EXCEPT ![p] = n]
      /\ item' = [item EXCEPT ![j] = [id |-> NextId(m_jobCounter), callback |-> Queue,
                                      priority |-> p]]
      /\ m_jobCounter' = NextId(m_jobCounter)
      /\ StartWorkers(p, pcs)
      /\ UNCHANGED <<m_processing, waiters>>
  BY DEF Enqueue
<1>2. UNCHANGED <<m_pauseJobs, m_running, canceller, job, cb, cancelled, told>>
  BY DEF Aside, flagVars
<1>3. NextId(m_jobCounter) \in 0 .. IdModulus - 1 /\ NextId(m_jobCounter) # 0
  BY <1>0, NextIdType, ParameterAssumption, SMT
<1>4. /\ \A k \in DOMAIN n : n[k] = IF k \in DOMAIN s THEN s[k] ELSE j
      /\ \A i, k \in DOMAIN n : i \notin DOMAIN s /\ k \notin DOMAIN s => i = k
      /\ \A k \in DOMAIN s : k \in DOMAIN n
      /\ Len(s) + 1 \in DOMAIN n /\ Len(s) + 1 \notin DOMAIN s
      /\ n \in Seq(Job)
  BY <1>0, AppendElements
<1>5. \A q \in Priority : m_jobQueue'[q] = IF q = p THEN n ELSE m_jobQueue[q]
  BY <1>0, <1>1
<1>6. m_jobQueue' \in [Priority -> Seq(Job)]
  BY <1>0, <1>1, <1>4
<1> HIDE DEF n, s
<1>7. TypeOK'
  <2>1. item' \in [Job -> Item]
    BY <1>0, <1>1, <1>3 DEF Item
  <2>2. pc' \in [Worker -> WorkerStates] /\ m_workers' \subseteq Worker /\ signaled' \in BOOLEAN
    BY <1>0, <1>1, StartWorkersType DEF ManagerInv, SameWork
  <2> QED BY <1>1, <1>2, <1>3, <1>6, <2>1, <2>2 DEF ManagerInv, TypeOK, Aside
<1>8. ThreadInv'
  <2>1. CASE pc' = pcs /\ m_workers' = m_workers
    BY <1>1, <1>2, <2>1 DEF ManagerInv, ThreadInv, SameWork
  <2>2. CASE \E w \in Worker : /\ pcs[w] = "none"
                               /\ pc' = [pcs EXCEPT ![w] = "next"]
                               /\ m_workers' = m_workers \cup {w}
    <3>1. PICK w \in Worker : /\ pcs[w] = "none"
                              /\ pc' = [pcs EXCEPT ![w] = "next"]
                              /\ m_workers' = m_workers \cup {w}
      BY <2>2
    <3>2. \A v \in Worker : pc'[v] = IF v = w THEN "next" ELSE pcs[v]
      BY <3>1 DEF SameWork
    <3>3. \A v \in Worker : pc'[v] \in Busy <=> pc[v] \in Busy
      BY <3>1, <3>2 DEF SameWork, Busy
    <3>4. \A v \in Worker : v \in m_workers' <=> pc'[v] \notin {"none", "exit"}
      BY <3>1, <3>2 DEF ManagerInv, ThreadInv, SameWork
    <3> QED BY <1>1, <1>2, <3>3, <3>4 DEF ManagerInv, ThreadInv
  <2> QED BY <1>1, <2>1, <2>2 DEF StartWorkers
<1>9. \A q \in Priority : \A i \in DOMAIN m_jobQueue'[q] :
        \/ i \in DOMAIN m_jobQueue[q] /\ m_jobQueue'[q][i] = m_jobQueue[q][i]
        \/ q = p /\ i \notin DOMAIN m_jobQueue[q] /\ m_jobQueue'[q][i] = j
  BY <1>4, <1>5 DEF s
<1>10. \A i \in Job : i # j => item'[i] = item[i]
  BY <1>0, <1>1
<1>11. item'[j].id = NextId(m_jobCounter) /\ item'[j].callback = Queue /\ item'[j].priority = p
  BY <1>0, <1>1
<1>12. j \notin m_processing /\ \A q \in Priority : \A i \in DOMAIN m_jobQueue[q] : m_jobQueue[q][i] # j
  BY DEF Managed, Queued
<1>13. QueueInv'
  <2>1. \A q, r \in Priority :
          \A i \in DOMAIN m_jobQueue'[q], k \in DOMAIN m_jobQueue'[r] :
            m_jobQueue'[q][i] = m_jobQueue'[r][k] => q = r /\ i = k
    BY <1>4, <1>5, <1>9, <1>12 DEF ManagerInv, QueueInv, s
  <2>2. \A q \in Priority : \A i \in DOMAIN m_jobQueue[q] :
          heap'[m_jobQueue[q][i]] = "live"
    BY <1>0 DEF Aside, Managed, Queued
  <2>3. \A q \in Priority : \A i \in DOMAIN m_jobQueue'[q] :
          /\ m_jobQueue'[q][i] \notin m_processing'
          /\ heap'[m_jobQueue'[q][i]] = "live"
          /\ item'[m_jobQueue'[q][i]].priority = q
          /\ item'[m_jobQueue'[q][i]].id # 0
    BY <1>0, <1>1, <1>3, <1>9, <1>10, <1>11, <1>12, <2>2 DEF ManagerInv, QueueInv
  <2>4. \A i \in m_processing' : heap'[i] = "live" /\ item'[i].id # 0
    BY <1>0, <1>1, <1>10, <1>12 DEF ManagerInv, QueueInv, Aside, Managed
  <2> QED BY <2>1, <2>3, <2>4 DEF QueueInv
<1>14. Queued(j)' /\ \A i \in Job : Queued(i)' <=> Queued(i) \/ i = j
  <2>1. Queued(j)'
    BY <1>0, <1>4, <1>5 DEF Queued
  <2>2. \A i \in Job : Queued(i) => Queued(i)'
    <3>1. \A q \in Priority : \A k \in DOMAIN m_jobQueue[q] :
            k \in DOMAIN m_jobQueue'[q] /\ m_jobQueue'[q][k] = m_jobQueue[q][k]
      BY <1>4, <1>5 DEF s
    <3> QED BY <3>1 DEF Queued
  <2>3. \A i \in Job : Queued(i)' => Queued(i) \/ i = j
    BY <1>9 DEF Queued
  <2> QED BY <2>1, <2>2, <2>3
<1> QED BY <1>1, <1>7, <1>8, <1>10, <1>11, <1>13, <1>14 DEF ManagerInv, Managed

-----------------------------------------------------------------------------
(* The queue's steps                                                       *)

(* QueueNextJob keeps the manager's invariant, and either leaves the two   *)
(* lists as the caller made them, or moves the last of the jobs kept back  *)
(* on to the manager, or tries in vain.                                    *)
Leaves(jobs, procs) ==
  /\ q_jobQueue' = jobs /\ q_processing' = procs
  /\ jobs = <<>> \/ ~HasRoom(procs)
  /\ refused' = refused /\ UNCHANGED item /\ UNCHANGED m_jobCounter
  /\ \A i \in Job : Managed(i)' <=> Managed(i)

PassesOn(jobs, procs) ==
  /\ jobs # <<>> /\ HasRoom(procs) /\ m_running
  /\ q_jobQueue' = Front(jobs)
  /\ q_processing' = Append(procs, [job |-> Last(jobs), id |-> NextId(m_jobCounter)])
  /\ item'[Last(jobs)].id = NextId(m_jobCounter) /\ item'[Last(jobs)].callback = Queue
  /\ Queued(Last(jobs))' /\ m_processing' = m_processing
  /\ m_jobCounter' = NextId(m_jobCounter)
  /\ \A i \in Job : i # Last(jobs) => item'[i] = item[i]
  /\ \A i \in Job : Managed(i)' <=> Managed(i) \/ i = Last(jobs)
  /\ refused' = refused

TriesInVain(jobs, procs) ==
  /\ jobs # <<>> /\ HasRoom(procs) /\ ~m_running
  /\ q_jobQueue' = Front(jobs)
  /\ q_processing' = Append(procs, [job |-> Last(jobs), id |-> 0])
  /\ refused' = refused \cup {Last(jobs)} /\ UNCHANGED item /\ UNCHANGED m_jobCounter
  /\ \A i \in Job : Managed(i)' <=> Managed(i)

LEMMA QueueNextJobKeeps ==
  ASSUME ManagerInv, Aside, NEW jobs \in Seq(Job), NEW procs, NEW pcs, SameWork(pcs),
         \A j \in ToSet(jobs) : ~Managed(j) /\ heap'[j] = "live",
         QueueNextJob(jobs, procs, pcs)
  PROVE  /\ ManagerInv'
         /\ Leaves(jobs, procs) \/ PassesOn(jobs, procs) \/ TriesInVain(jobs, procs)
<1>1. CASE ~(jobs # <<>> /\ HasRoom(procs))
  <2>1. /\ q_jobQueue' = jobs /\ q_processing' = procs /\ pc' = pcs
        /\ UNCHANGED <<queueVars, m_workers, eventVars, refused>>
    BY <1>1 DEF QueueNextJob
  <2>2. ManagerInv' /\ \A j \in Job : Managed(j)' <=> Managed(j)
    BY <2>1, AsideKeepsManager
  <2> QED BY <1>1, <2>1, <2>2 DEF Leaves, queueVars
<1>2. CASE jobs # <<>> /\ HasRoom(procs)
  <2>0. /\ Last(jobs) \in Job /\ ~Managed(Last(jobs)) /\ heap'[Last(jobs)] = "live"
        /\ q_jobQueue' = Front(jobs)
    BY <1>2, FrontAndLast DEF QueueNextJob
  <2>1. CASE m_running
    <3>1. /\ q_processing' = Append(procs, [job |-> Last(jobs), id |-> NextId(m_jobCounter)])
          /\ Enqueue(Last(jobs), Queue, QueuePriority, pcs)
          /\ refused' = refused
      BY <1>2, <2>1 DEF QueueNextJob
    <3>2. /\ ManagerInv'
          /\ \A i \in Job : Managed(i)' <=> Managed(i) \/ i = Last(jobs)
          /\ Queued(Last(jobs))' /\ m_processing' = m_processing
          /\ item'[Last(jobs)].id = NextId(m_jobCounter) /\ item'[Last(jobs)].callback = Queue
          /\ \A i \in Job : i # Last(jobs) => item'[i] = item[i]
      BY <2>0, <3>1, SubmitKeepsManager
    <3>3. m_jobCounter' = NextId(m_jobCounter)
      BY <3>1 DEF Enqueue
    <3> QED BY <1>2, <2>0, <2>1, <3>1, <3>2, <3>3 DEF PassesOn
  <2>2. CASE ~m_running
    <3>1. /\ q_processing' = Append(procs, [job |-> Last(jobs), id |-> 0])
          /\ refused' = refused \cup {Last(jobs)} /\ pc' = pcs
          /\ UNCHANGED <<queueVars, m_workers, eventVars>>
      BY <1>2, <2>2 DEF QueueNextJob
    <3>2. ManagerInv' /\ \A j \in Job : Managed(j)' <=> Managed(j)
      BY <3>1, AsideKeepsManager
    <3> QED BY <1>2, <2>0, <2>2, <3>1, <3>2 DEF TriesInVain, queueVars
  <2> QED BY <2>1, <2>2
<1> QED BY <1>1, <1>2

(* ... and what the queue owns stays its own, whatever the caller made of  *)
(* the lists: jobs that are live, in no other hands, and each listed once. *)
Owns(jobs, procs) ==
  /\ jobs \in Seq(Job) /\ procs \in Seq(Entry)
  /\ Distinct(jobs)
  /\ \A j \in ToSet(jobs) : /\ ~Managed(j) /\ heap'[j] = "live" /\ j \notin dropped'
                            /\ \A e \in ToSet(procs) : e.job # j
  /\ \A e \in ToSet(procs) : heap'[e.job] # "unborn"
  /\ \A j \in dropped' : heap'[j] # "unborn"
  /\ \A j \in Job : heap'[j] = "live" => j \in ToSet(jobs) \/ Managed(j) \/ j \in refused
  /\ q_lock' \in BOOLEAN /\ dropped' \subseteq Job /\ refused \subseteq Job

(* QueueNextJob keeps the invariant.                                       *)
LEMMA QueueNextJobOwns ==
  ASSUME ManagerInv, Aside, NEW jobs, NEW procs, NEW pcs, SameWork(pcs),
         Owns(jobs, procs), QueueNextJob(jobs, procs, pcs)
  PROVE  QueueOwns'
<1>1. /\ jobs \in Seq(Job) /\ procs \in Seq(Entry)
      /\ \A j \in ToSet(jobs) : ~Managed(j) /\ heap'[j] = "live"
  BY DEF Owns
<1>2. /\ ManagerInv'
      /\ Leaves(jobs, procs) \/ PassesOn(jobs, procs) \/ TriesInVain(jobs, procs)
  BY <1>1, QueueNextJobKeeps
<1>3. CASE Leaves(jobs, procs)
  <2>1. q_jobQueue' = jobs /\ q_processing' = procs /\ refused' = refused
        /\ \A i \in Job : Managed(i)' <=> Managed(i)
    BY <1>3 DEF Leaves
  <2>2. \A j \in ToSet(jobs) : j \in Job
    BY <1>1, ByPosition
  <2>3. QTypes'
    BY <2>1 DEF QTypes, Owns
  <2>4. KeptBack'
    BY <2>1, <2>2 DEF KeptBack, Owns, Entries
  <2>5. KnowsOwn' /\ Owned'
    BY <2>1 DEF KnowsOwn, Owned, Owns, Entries, InQueue
  <2> QED BY <1>2, <2>3, <2>4, <2>5 DEF QueueOwns
<1>4. CASE PassesOn(jobs, procs) \/ TriesInVain(jobs, procs)
  <2>0. jobs # <<>>
    BY <1>4 DEF PassesOn, TriesInVain
  <2>1. /\ Front(jobs) \in Seq(Job) /\ Last(jobs) \in Job /\ Last(jobs) \in ToSet(jobs)
        /\ Distinct(Front(jobs)) /\ ToSet(Front(jobs)) = ToSet(jobs) \ {Last(jobs)}
    BY <1>1, <2>0, FrontAndLast DEF Owns
  <2>2. PICK id \in 0 .. IdModulus - 1 :
          /\ q_jobQueue' = Front(jobs)
          /\ q_processing' = Append(procs, [job |-> Last(jobs), id |-> id])
    <3>1. m_jobCounter \in 0 .. IdModulus - 1 /\ 0 \in 0 .. IdModulus - 1
      BY ParameterAssumption DEF ManagerInv, TypeOK
    <3>2. NextId(m_jobCounter) \in 0 .. IdModulus - 1
      BY <3>1, NextIdType, ParameterAssumption, SMT
    <3> QED BY <1>4, <3>1, <3>2 DEF PassesOn, TriesInVain
  <2>3. [job |-> Last(jobs), id |-> id] \in Entry
    BY <2>1 DEF Entry
  <2>4. /\ q_processing' \in Seq(Entry)
        /\ Entries' = ToSet(procs) \cup {[job |-> Last(jobs), id |-> id]}
    BY <1>1, <2>2, <2>3, Appended DEF Entries
  <2>5. \A e \in Entries' : e \in ToSet(procs) \/ e.job = Last(jobs)
    BY <2>4
  <2>6. /\ refused' \subseteq Job /\ refused \subseteq refused'
        /\ \A i \in Job : i # Last(jobs) => (Managed(i)' <=> Managed(i))
        /\ \A i \in Job : Managed(i) => Managed(i)'
        /\ Managed(Last(jobs))' \/ Last(jobs) \in refused'
    BY <1>4, <2>1 DEF PassesOn, TriesInVain, Owns, Managed
  <2>7. QTypes'
    BY <2>1, <2>2, <2>4, <2>6 DEF QTypes, Owns
  <2>8. \A j \in ToSet(jobs) : j \in Job
    BY <1>1, ByPosition
  <2>9. KeptBack'
    BY <2>1, <2>2, <2>5, <2>6, <2>8 DEF KeptBack, Owns
  <2>10. KnowsOwn'
    BY <2>1, <2>5 DEF KnowsOwn, Owns
  <2>11. Owned'
    BY <2>1, <2>2, <2>6 DEF Owned, Owns, InQueue
  <2> QED BY <1>2, <2>7, <2>9, <2>10, <2>11 DEF QueueOwns
<1> QED BY <1>2, <1>3, <1>4

(* What the two lists hold.                                                *)
LEMMA ListedAreJobs ==
  ASSUME QTypes
  PROVE  /\ \A j \in ToSet(q_jobQueue) : j \in Job
         /\ \A e \in Entries : e \in Entry /\ e.job \in Job
<1>1. \A j \in ToSet(q_jobQueue) : j \in Job
  BY ByPosition DEF QTypes
<1>2. \A e \in Entries : e \in Entry
  BY ByPosition DEF Entries, QTypes
<1> QED BY <1>1, <1>2 DEF Entry

(* The list with a new job in it is the queue's own; the manager's jobs    *)
(* and threads are what they were.                                         *)
LEMMA AddedIsOwned ==
  ASSUME QueueOwns, NEW j \in Job, NEW k \in Key, AddToQueue(j, k),
         heap' = [heap EXCEPT ![j] = "live"]
  PROVE  Owns(Inserted(j), q_processing) /\ Aside /\ SameWork(pc)
<1>0. /\ ManagerInv /\ QTypes /\ KeptBack /\ KnowsOwn /\ Owned
      /\ heap \in [Job -> {"unborn", "live", "deleted"}] /\ q_jobQueue \in Seq(Job)
      /\ notified \in [Job -> Nat] /\ pc \in [Worker -> WorkerStates]
  BY DEF QueueOwns, ManagerInv, TypeOK, QTypes
<1>1. heap[j] = "unborn" /\ ~Managed(j)
  BY <1>0, ManagedIsLive DEF AddToQueue
<1>2. \A i \in Job : heap'[i] = IF i = j THEN "live" ELSE heap[i]
  BY <1>0
<1>3. /\ \A i \in ToSet(q_jobQueue) : i \in Job /\ i # j
      /\ \A e \in Entries : e.job \in Job /\ e.job # j
      /\ j \notin dropped
  <2>1. /\ \A i \in ToSet(q_jobQueue) : i \in Job
        /\ \A e \in Entries : e.job \in Job
    BY <1>0, ListedAreJobs
  <2> QED BY <1>0, <1>1, <2>1 DEF KeptBack, KnowsOwn
<1>4. /\ Inserted(j) \in Seq(Job) /\ Distinct(Inserted(j))
      /\ ToSet(Inserted(j)) = ToSet(q_jobQueue) \cup {j}
  <2>1. Distinct(q_jobQueue) /\ j \notin ToSet(q_jobQueue)
    BY <1>0, <1>3 DEF KeptBack
  <2> QED BY <1>0, <2>1, Appended, Prepended DEF Inserted
<1>5. /\ q_processing \in Seq(Entry) /\ q_lock' \in BOOLEAN /\ dropped' = dropped
      /\ dropped \subseteq Job /\ refused \subseteq Job
  BY <1>0 DEF QTypes, AddToQueue
<1>6. \A i \in ToSet(Inserted(j)) :
        /\ ~Managed(i) /\ heap'[i] = "live" /\ i \notin dropped'
        /\ \A e \in ToSet(q_processing) : e.job # i
  BY <1>0, <1>1, <1>2, <1>3, <1>4, <1>5 DEF KeptBack, Entries
<1>7. /\ \A e \in ToSet(q_processing) : heap'[e.job] # "unborn"
      /\ \A i \in dropped' : heap'[i] # "unborn"
  BY <1>0, <1>2, <1>3, <1>5 DEF KnowsOwn, Entries
<1>8. \A i \in Job : heap'[i] = "live" =>
        i \in ToSet(Inserted(j)) \/ Managed(i) \/ i \in refused
  BY <1>0, <1>2, <1>4 DEF Owned, InQueue
<1>9. Aside /\ SameWork(pc)
  <2>1. UNCHANGED <<flagVars, job, cb, cancelled, told, notified>>
    BY DEF AddToQueue, histVars
  <2>2. \A i \in Job : Managed(i) => heap[i] = "live" /\ i # j
    BY <1>0, <1>1, ManagedIsLive
  <2> QED BY <1>0, <1>2, <2>1, <2>2 DEF Aside, SameWork
<1> QED BY <1>4, <1>5, <1>6, <1>7, <1>8, <1>9 DEF Owns

(* A new job is kept back, passed on, or freed at once.                    *)
LEMMA OwnsAdd ==
  ASSUME QueueOwns, NEW j \in Job, NEW k \in Key, AddToQueue(j, k)
  PROVE  QueueOwns'
<1>0. /\ ManagerInv /\ QTypes /\ KeptBack /\ KnowsOwn /\ Owned
      /\ heap \in [Job -> {"unborn", "live", "deleted"}]
      /\ notified \in [Job -> Nat] /\ pc \in [Worker -> WorkerStates]
      /\ q_jobQueue \in Seq(Job)
  BY DEF QueueOwns, ManagerInv, TypeOK, QTypes
<1>1. heap[j] = "unborn" /\ ~Managed(j)
  BY <1>0, ManagedIsLive DEF AddToQueue
<1>2. UNCHANGED <<flagVars, job, cb, cancelled, told, notified, q_lock, dropped>>
  BY DEF AddToQueue, histVars
<1>3. SameWork(pc)
  BY <1>0 DEF SameWork
<1>4. \A i \in Job : Managed(i) => heap[i] = "live" /\ i # j
  BY <1>0, <1>1, ManagedIsLive
<1>5. /\ \A i \in ToSet(q_jobQueue) : i \in Job /\ i # j
      /\ \A e \in Entries : e \in Entry /\ e.job # j
      /\ j \notin dropped
  <2>1. \A i \in ToSet(q_jobQueue) : i \in Job
    BY <1>0, ByPosition
  <2>2. \A e \in Entries : e \in Entry
    BY <1>0, ByPosition DEF Entries, QTypes
  <2> QED BY <1>0, <1>1, <2>1, <2>2 DEF KeptBack, KnowsOwn
<1>6. CASE /\ heap' = [heap EXCEPT ![j] = "deleted"]
           /\ UNCHANGED <<queueVars, m_workers, eventVars, pc, q_jobQueue, q_processing, refused>>
  <2>1. \A i \in Job : heap'[i] = IF i = j THEN "deleted" ELSE heap[i]
    BY <1>0, <1>6
  <2>2. Aside
    BY <1>0, <1>2, <1>4, <1>6, <2>1 DEF Aside
  <2>3. ManagerInv' /\ \A i \in Job : Managed(i)' <=> Managed(i)
    BY <1>0, <1>3, <1>6, <2>2, AsideKeepsManager
  <2>4. KeptBack'
    BY <1>0, <1>2, <1>5, <1>6, <2>1, <2>3 DEF KeptBack, Entries
  <2>5. KnowsOwn'
    <3>1. \A e \in Entries : e.job \in Job
      BY <1>5 DEF Entry
    <3>2. dropped \subseteq Job
      BY <1>0 DEF QTypes
    <3> QED BY <1>0, <1>2, <1>6, <2>1, <3>1, <3>2 DEF KnowsOwn, Entries
  <2>6. Owned'
    BY <1>0, <1>6, <2>1, <2>3 DEF Owned, InQueue
  <2> QED BY <1>0, <1>2, <1>6, <2>3, <2>4, <2>5, <2>6 DEF QueueOwns, QTypes
<1>7. CASE /\ heap' = [heap EXCEPT ![j] = "live"]
           /\ QueueNextJob(Inserted(j), q_processing, pc)
  BY <1>0, <1>7, AddedIsOwned, QueueNextJobOwns
<1> QED BY <1>6, <1>7 DEF AddToQueue

(* The report of a job takes at most an entry away, and passes the next    *)
(* job on.                                                                 *)
LEMMA ErasuresType ==
  ASSUME QTypes, NEW k, NEW procs \in Erasures(k)
  PROVE  procs \in Seq(Entry) /\ ToSet(procs) \subseteq Entries
<1>0. q_processing \in Seq(Entry) /\ DOMAIN q_processing = 1 .. Len(q_processing)
  BY ByPosition DEF QTypes
<1>1. procs = q_processing \/ \E i \in 1 .. Len(q_processing) : procs = RemoveAt(q_processing, i)
  BY <1>0 DEF Erasures
<1> QED BY <1>0, <1>1, RemovedAt DEF Entries

(* A report is about a job the worker has, and moves none.                 *)
LEMMA ReportIsAside ==
  ASSUME ManagerInv, NEW w \in Worker, OnJobComplete(w)
  PROVE  /\ Aside /\ SameWork([pc EXCEPT ![w] = "erase"]) /\ heap' = heap
         /\ job[w] \in m_processing /\ job[w] \in Job
<1>0. /\ pc \in [Worker -> WorkerStates] /\ m_processing \subseteq Job
      /\ notified \in [Job -> Nat] /\ heap \in [Job -> {"unborn", "live", "deleted"}]
  BY DEF ManagerInv, TypeOK
<1>1. pc[w] = "callback" /\ job[w] \in m_processing
  BY DEF OnJobComplete, ManagerInv, ThreadInv, Busy
<1>2. /\ notified' = [notified EXCEPT ![job[w]] = @ + 1] /\ heap' = heap
      /\ UNCHANGED <<flagVars, job, cb, cancelled, told>>
  BY DEF OnJobComplete
<1>3. notified' \in [Job -> Nat]
  BY <1>0, <1>1, <1>2
<1>4. Aside
  BY <1>0, <1>2, <1>3, ManagedIsLive DEF Aside
<1>5. SameWork([pc EXCEPT ![w] = "erase"])
  BY <1>0, <1>1 DEF SameWork, WorkerStates, Busy
<1> QED BY <1>0, <1>1, <1>2, <1>4, <1>5

(* A reported job's entry goes and the next job is passed on.              *)
LEMMA OwnsComplete ==
  ASSUME QueueOwns, NEW w \in Worker, OnJobComplete(w)
  PROVE  QueueOwns'
<1>0. ManagerInv /\ QTypes /\ KeptBack /\ KnowsOwn /\ Owned /\ q_jobQueue \in Seq(Job)
  BY DEF QueueOwns, QTypes
<1>1. PICK procs \in Erasures(key[job[w]]) :
        QueueNextJob(q_jobQueue, procs, [pc EXCEPT ![w] = "erase"])
  BY DEF OnJobComplete
<1>2. procs \in Seq(Entry) /\ ToSet(procs) \subseteq Entries
  BY <1>0, ErasuresType
<1>3. heap' = heap /\ UNCHANGED <<q_lock, dropped>>
  BY DEF OnJobComplete
<1>4. Owns(q_jobQueue, procs)
  BY <1>0, <1>2, <1>3 DEF Owns, QTypes, KeptBack, KnowsOwn, Owned, InQueue
<1> QED BY <1>0, <1>1, <1>4, ReportIsAside, QueueNextJobOwns

(* While the manager deals with its own jobs, what the queue owns stays    *)
(* its own.                                                                *)
LEMMA OwnsHandled ==
  ASSUME QueueOwns, ManagerInv', HandlesOwn,
         q_jobQueue' = q_jobQueue, q_processing' \in Seq(Entry), Entries' \subseteq Entries,
         q_lock' \in BOOLEAN, refused' = refused,
         dropped' \subseteq dropped \cup {e.job : e \in Entries}
  PROVE  QueueOwns'
<1>0. QTypes /\ KeptBack /\ KnowsOwn /\ Owned
  BY DEF QueueOwns
<1>1. \A e \in Entries : e.job \in Job
  BY <1>0, ListedAreJobs
<1>2. \A j \in ToSet(q_jobQueue) : j \in Job
  BY <1>0, ListedAreJobs
<1>3. dropped' \subseteq Job
  BY <1>0, <1>1 DEF QTypes
<1>4. QTypes'
  BY <1>0, <1>3 DEF QTypes
<1>5. KeptBack'
  BY <1>0, <1>2 DEF KeptBack, HandlesOwn
<1>6. \A j \in Job : heap[j] # "unborn" => heap'[j] # "unborn"
  BY DEF HandlesOwn
<1>7. KnowsOwn'
  BY <1>0, <1>1, <1>3, <1>6 DEF KnowsOwn, QTypes
<1>8. Owned'
  BY <1>0 DEF Owned, HandlesOwn, InQueue
<1> QED BY <1>4, <1>5, <1>7, <1>8 DEF QueueOwns

(* The manager's own steps keep it.                                        *)
LEMMA OwnsRuns ==
  ASSUME QueueOwns, ManagerRuns, UNCHANGED <<qVars, qHist>>
  PROVE  QueueOwns'
<1>1. ManagerInv /\ QTypes
  BY DEF QueueOwns
<1>2. UNCHANGED <<q_jobQueue, q_processing, q_lock, dropped, refused>>
  BY DEF qVars, qHist
<1> QED BY <1>1, <1>2, RunsKeepManager, RunsHandleOwn, OwnsHandled DEF QTypes, Entries

(* CancelJob of a job passed on keeps it,                                  *)
LEMMA OwnsCancelPassedOn ==
  ASSUME QueueOwns, NEW k, CancelPassedOn(k)
  PROVE  QueueOwns'
<1>0. /\ ManagerInv /\ QTypes /\ q_processing \in Seq(Entry)
      /\ DOMAIN q_processing = 1 .. Len(q_processing)
  BY ByPosition DEF QueueOwns, QTypes
<1>1. PICK i \in 1 .. Len(q_processing) :
        /\ ManagerCancel(q_processing[i].id)
        /\ q_processing' = RemoveAt(q_processing, i)
        /\ dropped' = dropped \cup {q_processing[i].job}
  BY <1>0 DEF CancelPassedOn
<1>2. q_processing[i] \in Entries
  BY <1>0, ByPosition DEF Entries
<1>3. q_processing' \in Seq(Entry) /\ Entries' \subseteq Entries
  BY <1>0, <1>1, RemovedAt DEF Entries
<1>4. UNCHANGED <<q_jobQueue, q_lock, refused>>
  BY DEF CancelPassedOn
<1>5. ManagerInv' /\ HandlesOwn
  BY <1>0, <1>1, ManagerCancelHandlesOwn
<1> QED BY <1>0, <1>1, <1>2, <1>3, <1>4, <1>5, OwnsHandled DEF QTypes

(* and so does CancelJobs, entry by entry,                                 *)
LEMMA OwnsCancelEntry ==
  ASSUME QueueOwns, QueueCancelEntry
  PROVE  QueueOwns'
<1>0. ManagerInv /\ QTypes
  BY DEF QueueOwns
<1>1. PICK e \in Entries : ManagerCancel(e.id) /\ dropped' = dropped \cup {e.job}
  BY DEF QueueCancelEntry
<1>2. UNCHANGED <<q_jobQueue, q_processing, q_lock, refused>>
  BY DEF QueueCancelEntry, qVars
<1>3. ManagerInv' /\ HandlesOwn
  BY <1>0, <1>1, ManagerCancelHandlesOwn
<1> QED BY <1>0, <1>1, <1>2, <1>3, OwnsHandled DEF QTypes, Entries

(* when it begins.                                                         *)
LEMMA OwnsCancelBegin ==
  ASSUME QueueOwns, QueueCancelBegin
  PROVE  QueueOwns'
<1>1. UNCHANGED <<m_jobQueue, m_processing, item, m_jobCounter, m_pauseJobs, m_running,
                  canceller, m_workers, signaled, waiters, pc, job, cb, heap,
                  notified, cancelled, told>>
  BY DEF QueueCancelBegin, vars, queueVars, flagVars, eventVars, threadVars, histVars
<1>2. q_lock' = TRUE /\ UNCHANGED <<q_jobQueue, q_processing, dropped, refused>>
  BY DEF QueueCancelBegin, qHist
<1>3. ManagerInv' /\ HandlesOwn
  BY <1>1 DEF QueueOwns, ManagerInv, TypeOK, ThreadInv, QueueInv, HandlesOwn, Managed, Queued
<1> QED BY <1>2, <1>3, OwnsHandled DEF QueueOwns, QTypes, Entries

(* The queue frees jobs it kept back, and no others.                       *)
LEMMA OwnsFree ==
  ASSUME QueueOwns, NEW freed \in SUBSET ToSet(q_jobQueue),
         heap' = [j \in Job |-> IF j \in freed THEN "deleted" ELSE heap[j]],
         UNCHANGED <<queueVars, flagVars, m_workers, eventVars, threadVars, histVars>>,
         q_jobQueue' \in Seq(Job), Distinct(q_jobQueue'),
         ToSet(q_jobQueue') = ToSet(q_jobQueue) \ freed,
         q_processing' \in Seq(Entry), Entries' \subseteq Entries,
         q_lock' \in BOOLEAN, refused' = refused, dropped' = dropped \cup freed
  PROVE  QueueOwns'
<1>0. /\ ManagerInv /\ QTypes /\ KeptBack /\ KnowsOwn /\ Owned
      /\ heap \in [Job -> {"unborn", "live", "deleted"}]
      /\ notified \in [Job -> Nat] /\ pc \in [Worker -> WorkerStates]
  BY DEF QueueOwns, ManagerInv, TypeOK
<1>1. \A j \in ToSet(q_jobQueue) : j \in Job
  BY <1>0, ListedAreJobs
<1>2. \A e \in Entries : e.job \in Job /\ e.job \notin freed
  <2>1. \A e \in Entries : e.job \in Job
    BY <1>0, ListedAreJobs
  <2> QED BY <1>0, <2>1 DEF KeptBack
<1>3. Aside /\ SameWork(pc)
  <2>1. \A j \in Job : Managed(j) => j \notin freed /\ heap[j] = "live"
    BY <1>0, ManagedIsLive DEF KeptBack
  <2> QED BY <1>0, <2>1 DEF Aside, SameWork, threadVars, histVars
<1>4. ManagerInv' /\ \A j \in Job : Managed(j)' <=> Managed(j)
  BY <1>0, <1>3, AsideKeepsManager DEF threadVars
<1>5. QTypes' /\ dropped' \subseteq Job
  BY <1>0, <1>1 DEF QTypes
<1>6. KeptBack'
  BY <1>0, <1>1, <1>4 DEF KeptBack
<1>7. KnowsOwn'
  BY <1>0, <1>1, <1>2, <1>5 DEF KnowsOwn, QTypes
<1>8. Owned'
  BY <1>0, <1>4 DEF Owned, InQueue
<1> QED BY <1>4, <1>5, <1>6, <1>7, <1>8 DEF QueueOwns

(* CancelJob of a job kept back frees that one,                            *)
LEMMA OwnsCancelKeptBack ==
  ASSUME QueueOwns, NEW k, CancelKeptBack(k)
  PROVE  QueueOwns'
<1>0. /\ QTypes /\ Distinct(q_jobQueue) /\ q_jobQueue \in Seq(Job)
      /\ DOMAIN q_jobQueue = 1 .. Len(q_jobQueue)
      /\ heap \in [Job -> {"unborn", "live", "deleted"}]
  BY ByPosition DEF QueueOwns, QTypes, KeptBack, ManagerInv, TypeOK
<1>1. PICK i \in 1 .. Len(q_jobQueue) :
        /\ heap' = [heap EXCEPT ![q_jobQueue[i]] = "deleted"]
        /\ q_jobQueue' = RemoveAt(q_jobQueue, i)
        /\ dropped' = dropped \cup {q_jobQueue[i]}
  BY <1>0 DEF CancelKeptBack
<1>2. {q_jobQueue[i]} \in SUBSET ToSet(q_jobQueue)
  BY <1>0, ByPosition
<1>3. heap' = [j \in Job |-> IF j \in {q_jobQueue[i]} THEN "deleted" ELSE heap[j]]
  BY <1>0, <1>1
<1>4. /\ q_jobQueue' \in Seq(Job) /\ Distinct(q_jobQueue')
      /\ ToSet(q_jobQueue') = ToSet(q_jobQueue) \ {q_jobQueue[i]}
  BY <1>0, <1>1, RemovedAt
<1>5. /\ UNCHANGED <<queueVars, flagVars, m_workers, eventVars, threadVars, histVars>>
      /\ UNCHANGED <<q_processing, q_lock, refused>>
  BY DEF CancelKeptBack
<1> QED BY <1>0, <1>1, <1>2, <1>3, <1>4, <1>5, OwnsFree DEF QTypes, Entries

(* CancelJobs frees them all.                                              *)
LEMMA OwnsCancelEnd ==
  ASSUME QueueOwns, QueueCancelEnd
  PROVE  QueueOwns'
<1>1. /\ heap' = [j \in Job |-> IF j \in ToSet(q_jobQueue) THEN "deleted" ELSE heap[j]]
      /\ dropped' = dropped \cup ToSet(q_jobQueue)
      /\ q_jobQueue' = <<>> /\ q_processing' = <<>> /\ q_lock' = FALSE /\ refused' = refused
      /\ UNCHANGED <<queueVars, flagVars, m_workers, eventVars, threadVars, histVars>>
  BY DEF QueueCancelEnd, InQueue
<1>2. /\ <<>> \in Seq(Job) /\ <<>> \in Seq(Entry) /\ ToSet(<<>>) = {}
      /\ Distinct(<<>>)
  BY EmptySeq DEF ToSet, Distinct
<1>3. /\ q_jobQueue' \in Seq(Job) /\ Distinct(q_jobQueue')
      /\ ToSet(q_jobQueue') = ToSet(q_jobQueue) \ ToSet(q_jobQueue)
      /\ q_processing' \in Seq(Entry) /\ Entries' \subseteq Entries
  BY <1>1, <1>2 DEF Entries
<1> QED BY <1>1, <1>3, OwnsFree

(* At first there is nothing.                                              *)
LEMMA OwnsInit == QInit => QueueOwns
<1> SUFFICES ASSUME QInit PROVE QueueOwns
  OBVIOUS
<1>1. Init /\ q_jobQueue = <<>> /\ q_processing = <<>> /\ q_lock = FALSE
      /\ dropped = {} /\ refused = {}
  BY DEF QInit
<1>2. ManagerInv
  BY <1>1, InitIInv DEF IInv, ManagerInv
<1>3. <<>> \in Seq(Job) /\ <<>> \in Seq(Entry) /\ ToSet(<<>>) = {} /\ Distinct(<<>>)
  BY EmptySeq DEF ToSet, Distinct
<1>4. \A j \in Job : heap[j] = "unborn"
  BY <1>1 DEF Init
<1>5. QTypes /\ KeptBack /\ KnowsOwn /\ Owned
  BY <1>1, <1>3, <1>4 DEF QTypes, KeptBack, KnowsOwn, Owned, Entries
<1> QED BY <1>2, <1>5 DEF QueueOwns

(* The steps of a queue, and of the manager under it, whoever uses it.     *)
QueueMoves ==
  \/ \E j \in Job, k \in Key : AddToQueue(j, k)
  \/ \E k : CancelPassedOn(k) \/ CancelKeptBack(k)
  \/ QueueCancelBegin \/ QueueCancelEntry \/ QueueCancelEnd
  \/ \E w \in Worker : OnJobComplete(w)
  \/ ManagerRuns /\ UNCHANGED <<qVars, m_lifo, key, qHist>>

LEMMA QueueSteps ==
  ASSUME QNext
  PROVE  QueueMoves
<1>1. ASSUME NEW w \in Worker, ThreadStep(w)
      PROVE  OnJobComplete(w) \/ (ManagerRuns /\ UNCHANGED <<qVars, m_lifo, key, qHist>>)
  <2>1. CASE OnJobComplete(w)
    BY <2>1
  <2>2. CASE NotifyClient(w) /\ cb[w] # Queue /\ UNCHANGED <<qVars, m_lifo, key, qHist>>
    BY <2>2 DEF ManagerRuns, WorkerStep
  <2>3. CASE /\ \/ TakeJob(w) \/ LeaveLock(w) \/ WaitForEvent(w) \/ WakeUp(w) \/ TimeOut(w)
                \/ Retire(w) \/ ExitThread(w) \/ ProgressDone(w) \/ JobDone(w) \/ EraseJob(w)
             /\ UNCHANGED <<qVars, m_lifo, key, qHist>>
    <3>1. pc[w] # "callback"
      BY <2>3 DEF TakeJob, LeaveLock, WaitForEvent, WakeUp, TimeOut, Retire, ExitThread,
                  ProgressDone, JobDone, EraseJob
    <3> QED BY <2>3, <3>1 DEF ManagerRuns, WorkerStep
  <2> QED BY <1>1, <2>1, <2>2, <2>3 DEF ThreadStep
<1>2. ASSUME NEW w \in Worker, CheckCancel(w)
      PROVE  ManagerRuns
  BY <1>2 DEF ManagerRuns, CheckCancel
<1> QED BY <1>1, <1>2 DEF QNext, ManagerRuns, QueueMoves

(* Every step keeps the queue's own.                                       *)
LEMMA OwnsStep == QueueOwns /\ [QueueMoves]_qvars => QueueOwns'
<1> SUFFICES ASSUME QueueOwns, [QueueMoves]_qvars PROVE QueueOwns'
  OBVIOUS
<1>1. CASE QueueMoves
  BY <1>1, OwnsAdd, OwnsCancelPassedOn, OwnsCancelKeptBack, OwnsCancelBegin,
     OwnsCancelEntry, OwnsCancelEnd, OwnsComplete, OwnsRuns DEF QueueMoves
<1>2. CASE UNCHANGED qvars
  <2>1. UNCHANGED <<m_jobQueue, m_processing, item, m_jobCounter, m_pauseJobs, m_running,
                    canceller, m_workers, signaled, waiters, pc, job, cb, heap,
                    notified, cancelled, told>>
    BY <1>2 DEF qvars, vars, queueVars, flagVars, eventVars, threadVars, histVars
  <2>2. UNCHANGED <<q_jobQueue, q_processing, q_lock, dropped, refused>>
    BY <1>2 DEF qvars, qVars, qHist
  <2>3. ManagerInv' /\ HandlesOwn
    BY <2>1 DEF QueueOwns, ManagerInv, TypeOK, ThreadInv, QueueInv, HandlesOwn, Managed, Queued
  <2> QED BY <2>2, <2>3, OwnsHandled DEF QueueOwns, QTypes, Entries
<1> QED BY <1>1, <1>2

-----------------------------------------------------------------------------
(* Who owns a job, for any number of jobs at once                          *)

(* The lists of the queue and of the manager agree in every state: a job   *)
(* kept back is live, in no other hands, and was not cancelled.            *)
THEOREM QueueOwnership == QSpec => []QueueOwns
<1>1. QInit => QueueOwns
  BY OwnsInit
<1>2. QueueOwns /\ [QNext]_qvars => QueueOwns'
  BY QueueSteps, OwnsStep
<1> QED BY <1>1, <1>2, PTL DEF QSpec

(* Whose invariant it is has no job without an owner, and none that was    *)
(* freed in use.                                                           *)
LEMMA OwnersOrphanNone == QueueOwns => NoOrphans
BY DEF QueueOwns, Owned, NoOrphans, Managed

LEMMA OwnersUseNoFreedJob == QueueOwns => NoUseAfterDelete
<1> SUFFICES ASSUME QueueOwns, NEW j \in Job, heap[j] # "live"
             PROVE  ~Queued(j) /\ j \notin m_processing /\ \A w \in Worker : job[w] # j
  BY DEF NoUseAfterDelete
<1>1. ManagerInv /\ ~Managed(j)
  BY ManagedIsLive DEF QueueOwns
<1>2. \A w \in Worker : job[w] = j => pc[w] \in Busy
  BY <1>1, JobAssumption DEF ManagerInv, ThreadInv
<1> QED BY <1>1, <1>2 DEF Managed, ManagerInv, ThreadInv

(* No job is leaked but those a stopped manager refused: every other one   *)
(* that exists is kept back, queued or with a worker, and will be freed.   *)
THEOREM NoneIsOrphaned == QSpec => []NoOrphans
BY OwnersOrphanNone, QueueOwnership, PTL

(* Under a queue, too, the manager uses no job that was freed.             *)
THEOREM MemorySafeUnderQueue == QSpec => []NoUseAfterDelete
BY OwnersUseNoFreedJob, QueueOwnership, PTL

-----------------------------------------------------------------------------
(* The entries of a queue that passes on one job at a time                 *)

(* The manager has the entry's job, under the entry's id, and will report  *)
(* it to the queue.                                                        *)
InHand(e) ==
  /\ Managed(e.job)
  /\ item[e.job].id = e.id /\ item[e.job].callback = Queue
  /\ \A w \in Worker : job[w] = e.job =>
       pc[w] # "erase" /\ (pc[w] = "callback" => cb[w] = Queue)

(* An entry stays only as long as its job is in hand, unless the manager   *)
(* stopped before or after it was passed on, or CancelJobs is under way.   *)
EntryInv ==
  /\ Len(q_processing) <= 1
  /\ \A e \in Entries :
       /\ q_lock \/ e.job \notin dropped
       /\ e.job \in dropped \/ e.job \in refused \/ cancelled[e.job] # "no" \/ InHand(e)

OneEntry == JobsAtOnce = 1 /\ QueueOwns /\ EntryInv

(* A list of one entry at most.                                            *)
LEMMA OneAtMost ==
  ASSUME NEW procs \in Seq(Entry), Len(procs) <= 1
  PROVE  /\ \A e, f \in ToSet(procs) : e = f
         /\ Len(procs) < 1 => procs = <<>> /\ ToSet(procs) = {}
         /\ \A i \in 1 .. Len(procs) : i = 1 /\ Len(procs) = 1
<1>1. PICK n \in Nat : n = Len(procs) /\ n <= 1
  BY LenProperties
<1>2. \A i \in 1 .. Len(procs) : i = 1 /\ Len(procs) = 1
  <2>1. \A i \in 1 .. n : i = 1 /\ n = 1
    BY <1>1
  <2> QED BY <1>1, <2>1
<1>3. \A e, f \in ToSet(procs) : e = f
  BY <1>2, ByPosition
<1>4. Len(procs) < 1 => Len(procs) = 0
  BY <1>1
<1>5. procs = <<>> => ToSet(procs) = {}
  BY EmptySeq DEF ToSet
<1> QED BY <1>2, <1>3, <1>4, <1>5, EmptySeq

(* A job with the manager stays in hand until the manager reports it to    *)
(* the queue, or is stopped.                                               *)
LEMMA InHandRuns ==
  ASSUME ManagerInv, ManagerRuns, NEW e \in Entry, InHand(e)
  PROVE  InHand(e)' \/ cancelled'[e.job] # "no"
<1> USE DEF queueVars, flagVars, eventVars, threadVars, histVars
<1>0. /\ e.job \in Job /\ m_processing \subseteq Job
      /\ pc \in [Worker -> WorkerStates] /\ job \in [Worker -> Job \cup {NULL}]
      /\ cb \in [Worker -> Callback \cup {NULL}] /\ item \in [Job -> Item]
      /\ cancelled \in [Job -> {"no", "before", "after"}]
  BY DEF ManagerInv, TypeOK, Entry
<1>1. CASE UNCHANGED <<m_jobQueue, m_processing, item, pc, job, cb>>
  BY <1>1 DEF InHand, Managed, Queued
<1>2. CASE PauseJobs \/ UnPauseJobs \/ CancelJobsSignal \/ CancelJobsReturn \/ Restart
  BY <1>1, <1>2 DEF PauseJobs, UnPauseJobs, CancelJobsSignal, CancelJobsReturn, Restart
<1>3. CASE CancelJobsBegin
  <2>1. cancelled'[e.job] = IF cancelled[e.job] = "no" /\ Managed(e.job)
                            THEN CancelMark(e.job) ELSE cancelled[e.job]
    BY <1>0, <1>3 DEF CancelJobsBegin, Managed
  <2> QED BY <2>1 DEF InHand, CancelMark
<1>4. ASSUME NEW w \in Worker, WorkerStep(w) \/ CheckCancel(w),
             ~(pc[w] = "callback" /\ cb[w] = Queue)
      PROVE  InHand(e)'
  <2>1. CASE TakeJob(w)
    <3>1. Managed(e.job)'
      BY <1>0, <2>1, TakeHandles DEF InHand
    <3>2. /\ pc' = [pc EXCEPT ![w] = "run"] /\ item' = item /\ cb' = cb
          /\ \E i : job' = [job EXCEPT ![w] = i]
      BY <2>1 DEF TakeJob
    <3> QED BY <1>0, <3>1, <3>2 DEF InHand
  <2>2. CASE EraseJob(w)
    <3>1. job[w] # e.job /\ job[w] \in Job
      BY <1>0, <2>2 DEF EraseJob, InHand, ManagerInv, ThreadInv, Busy
    <3>2. /\ m_processing' = m_processing \ {job[w]} /\ m_jobQueue' = m_jobQueue
          /\ item' = [item EXCEPT ![job[w]] = NoItem]
          /\ pc' = [pc EXCEPT ![w] = "next"] /\ job' = [job EXCEPT ![w] = NULL]
          /\ cb' = [cb EXCEPT ![w] = NULL]
      BY <2>2 DEF EraseJob
    <3>3. Managed(e.job)' /\ item'[e.job] = item[e.job]
      BY <1>0, <3>1, <3>2 DEF InHand, Managed, Queued
    <3>4. \A v \in Worker : job'[v] = e.job => pc'[v] = pc[v] /\ cb'[v] = cb[v] /\ job[v] = e.job
      BY <1>0, <3>2, JobAssumption
    <3> QED BY <3>3, <3>4 DEF InHand
  <2>3. CASE \/ LeaveLock(w) \/ WaitForEvent(w) \/ WakeUp(w) \/ TimeOut(w)
             \/ Retire(w) \/ ExitThread(w)
    <3>1. /\ UNCHANGED <<m_jobQueue, m_processing, item, job, cb>>
          /\ \E s \in WorkerStates \ {"callback", "erase"} : pc' = [pc EXCEPT ![w] = s]
      BY <2>3 DEF LeaveLock, WaitForEvent, WakeUp, TimeOut, Retire, ExitThread, WorkerStates
    <3> QED BY <1>0, <3>1 DEF InHand, Managed, Queued
  <2>4. CASE ProgressDone(w) \/ CheckCancel(w)
    <3>1. UNCHANGED <<m_jobQueue, m_processing, item, job>>
      BY <2>4 DEF ProgressDone, CheckCancel
    <3>2. /\ \A v \in Worker : v # w => pc'[v] = pc[v] /\ cb'[v] = cb[v]
          /\ pc'[w] \notin {"callback", "erase"}
      BY <1>0, <2>4 DEF ProgressDone, CheckCancel
    <3> QED BY <3>1, <3>2 DEF InHand, Managed, Queued
  <2>5. CASE JobDone(w)
    <3>1. UNCHANGED <<m_jobQueue, m_processing, item, job>>
      BY <2>5 DEF JobDone
    <3>2. /\ \A v \in Worker : v # w => pc'[v] = pc[v] /\ cb'[v] = cb[v]
          /\ pc'[w] = "callback" /\ cb'[w] = item[job[w]].callback
      BY <1>0, <2>5 DEF JobDone
    <3> QED BY <3>1, <3>2 DEF InHand, Managed, Queued
  <2>6. CASE NotifyClient(w)
    <3>1. UNCHANGED <<m_jobQueue, m_processing, item, job, cb>>
      BY <2>6 DEF NotifyClient
    <3>2. \A v \in Worker : v # w => pc'[v] = pc[v]
      BY <1>0, <2>6 DEF NotifyClient
    <3>3. job[w] # e.job
      BY <1>4, <2>6 DEF NotifyClient, InHand
    <3> QED BY <3>1, <3>2, <3>3 DEF InHand, Managed, Queued
  <2> QED BY <1>4, <2>1, <2>2, <2>3, <2>4, <2>5, <2>6 DEF WorkerStep
<1> QED BY <1>2, <1>3, <1>4 DEF ManagerRuns

(* A cancelled job stays cancelled.                                        *)
LEMMA CancelledRuns ==
  ASSUME ManagerInv, ManagerRuns, NEW j \in Job, cancelled[j] # "no"
  PROVE  cancelled'[j] # "no"
<1> USE DEF queueVars, flagVars, eventVars, threadVars, histVars
<1>1. CASE \E w \in Worker : WorkerStep(w) \/ CheckCancel(w)
  BY <1>1 DEF WorkerStep, TakeJob, LeaveLock, WaitForEvent, WakeUp, TimeOut, Retire, ExitThread,
     ProgressDone, JobDone, NotifyClient, EraseJob, CheckCancel
<1>2. CASE PauseJobs \/ UnPauseJobs \/ CancelJobsSignal \/ CancelJobsReturn \/ Restart
  BY <1>2 DEF PauseJobs, UnPauseJobs, CancelJobsSignal, CancelJobsReturn, Restart
<1>3. CASE CancelJobsBegin
  BY <1>3 DEF CancelJobsBegin
<1> QED BY <1>1, <1>2, <1>3 DEF ManagerRuns

(* A step that leaves the entries, or adds none to the jobs dropped.       *)
LEMMA EntriesFrame ==
  ASSUME EntryInv, q_processing' = q_processing, refused' = refused, q_lock => q_lock',
         \A e \in Entries :
           /\ e.job \in dropped' <=> e.job \in dropped
           /\ cancelled[e.job] # "no" => cancelled'[e.job] # "no"
           /\ InHand(e) => InHand(e)' \/ cancelled'[e.job] # "no"
  PROVE  EntryInv'
<1>1. Entries' = Entries
  BY DEF Entries
<1> QED BY <1>1 DEF EntryInv

(* The manager's own steps keep what is true of the entries.               *)
LEMMA EntriesRun ==
  ASSUME OneEntry, ManagerRuns, UNCHANGED <<qVars, qHist>>
  PROVE  EntryInv'
<1>1. UNCHANGED <<q_processing, q_lock, dropped, refused>> /\ ManagerInv /\ EntryInv /\ QTypes
  BY DEF qVars, qHist, OneEntry, QueueOwns
<1>2. \A e \in Entries : e \in Entry /\ e.job \in Job
  BY <1>1, ListedAreJobs
<1> QED BY <1>1, <1>2, InHandRuns, CancelledRuns, EntriesFrame

(* No entry is left where there is none.                                   *)
LEMMA NoEntries ==
  ASSUME q_processing' \in Seq(Entry), Len(q_processing') < 1
  PROVE  EntryInv'
<1>1. Entries' = {}
  BY OneAtMost DEF Entries
<1> QED BY <1>1 DEF EntryInv

(* The threads QueueNextJob is called from go on as the caller says.       *)
LEMMA QueueNextJobThreads ==
  ASSUME NEW jobs, NEW procs, NEW pcs, SameWork(pcs), QueueNextJob(jobs, procs, pcs)
  PROVE  \A w \in Worker : pc'[w] = pcs[w] \/ pc'[w] = "next"
<1>1. CASE pc' = pcs
  BY <1>1
<1>2. CASE StartWorkers(QueuePriority, pcs)
  BY <1>2 DEF StartWorkers, SameWork
<1> QED BY <1>1, <1>2 DEF QueueNextJob, Enqueue

(* What QueueNextJob makes of the entries the caller left: it adds one of  *)
(* a job that nobody has, and only if there is none.                       *)
LEMMA QueueNextJobEntries ==
  ASSUME OneEntry, Aside, NEW jobs, NEW procs, NEW pcs, SameWork(pcs),
         Owns(jobs, procs), QueueNextJob(jobs, procs, pcs), q_lock' = q_lock,
         Len(procs) <= 1,
         \A e \in ToSet(procs) :
           /\ e \in Entries
           /\ e.job \in dropped' <=> e.job \in dropped
           /\ InHand(e) => \A w \in Worker : job[w] = e.job => pcs[w] = pc[w]
  PROVE  EntryInv'
<1>0. /\ ManagerInv /\ EntryInv /\ JobsAtOnce = 1 /\ QTypes
      /\ jobs \in Seq(Job) /\ procs \in Seq(Entry)
      /\ \A j \in ToSet(jobs) : ~Managed(j) /\ heap'[j] = "live" /\ j \notin dropped'
  BY DEF OneEntry, QueueOwns, Owns
<1>1. Leaves(jobs, procs) \/ PassesOn(jobs, procs) \/ TriesInVain(jobs, procs)
  BY <1>0, QueueNextJobKeeps
<1>2. \A w \in Worker : pc'[w] = pcs[w] \/ pc'[w] = "next"
  BY QueueNextJobThreads
<1>3. UNCHANGED <<job, cb, cancelled>>
  BY DEF Aside
<1>4. CASE Leaves(jobs, procs)
  <2>1. /\ q_processing' = procs /\ refused' = refused /\ item' = item
        /\ \A i \in Job : Managed(i)' <=> Managed(i)
    BY <1>4 DEF Leaves
  <2>2. \A e \in ToSet(procs) : e.job \in Job
    BY <1>0, ListedAreJobs
  <2>3. \A e \in ToSet(procs) : InHand(e) => InHand(e)'
    BY <1>2, <1>3, <2>1, <2>2 DEF InHand
  <2>4. Entries' = ToSet(procs)
    BY <2>1 DEF Entries
  <2> QED BY <1>0, <1>3, <2>1, <2>3, <2>4 DEF EntryInv
<1>5. CASE PassesOn(jobs, procs) \/ TriesInVain(jobs, procs)
  <2>1. procs = <<>> /\ ToSet(procs) = {}
    BY <1>0, <1>5, OneAtMost DEF PassesOn, TriesInVain, HasRoom
  <2>2. PICK j \in Job : j = Last(jobs) /\ j \in ToSet(jobs)
    BY <1>0, <1>5, FrontAndLast DEF PassesOn, TriesInVain
  <2>3. PICK id \in 0 .. IdModulus - 1 :
          /\ q_processing' = Append(procs, [job |-> j, id |-> id])
          /\ PassesOn(jobs, procs) => id = NextId(m_jobCounter)
    <3>1. m_jobCounter \in 0 .. IdModulus - 1 /\ 0 \in 0 .. IdModulus - 1
      BY <1>0, ParameterAssumption DEF ManagerInv, TypeOK
    <3>2. NextId(m_jobCounter) \in 0 .. IdModulus - 1
      BY <3>1, NextIdType, ParameterAssumption, SMT
    <3>3. CASE PassesOn(jobs, procs)
      BY <2>2, <3>2, <3>3 DEF PassesOn
    <3>4. CASE TriesInVain(jobs, procs) /\ ~PassesOn(jobs, procs)
      BY <2>2, <3>1, <3>4 DEF TriesInVain
    <3> QED BY <1>5, <3>3, <3>4
  <2>4. PICK f \in Entry : f = [job |-> j, id |-> id]
    BY DEF Entry
  <2>5. Entries' = {f} /\ Len(q_processing') = 1
    <3>1. /\ ToSet(q_processing') = ToSet(procs) \cup {f}
          /\ Len(q_processing') = Len(procs) + 1
      BY <1>0, <2>3, <2>4, Appended
    <3> QED BY <2>1, <3>1, EmptySeq DEF Entries
  <2>6. f.job = j /\ f.id = id /\ j \notin dropped' /\ ~Managed(j)
    BY <1>0, <2>2, <2>4
  <2>7. CASE TriesInVain(jobs, procs)
    <3>1. j \in refused'
      BY <2>2, <2>7 DEF TriesInVain
    <3> QED BY <2>5, <2>6, <3>1 DEF EntryInv
  <2>8. CASE PassesOn(jobs, procs)
    <3>1. Managed(j)' /\ item'[j].id = id /\ item'[j].callback = Queue
      BY <2>2, <2>3, <2>8 DEF PassesOn, Managed
    <3>2. \A w \in Worker : job[w] # j
      BY <1>0, <2>6, JobAssumption DEF ManagerInv, ThreadInv, Managed
    <3>3. InHand(f)'
      BY <1>3, <2>6, <3>1, <3>2 DEF InHand
    <3> QED BY <2>5, <2>6, <3>3 DEF EntryInv
  <2> QED BY <1>5, <2>7, <2>8
<1> QED BY <1>1, <1>4, <1>5

(* A new job becomes the entry if there is none, and is no entry's before. *)
LEMMA EntriesAdd ==
  ASSUME OneEntry, NEW j \in Job, NEW k \in Key, AddToQueue(j, k)
  PROVE  EntryInv'
<1>0. /\ ManagerInv /\ QTypes /\ KnowsOwn /\ EntryInv /\ QueueOwns
  BY DEF OneEntry, QueueOwns
<1>2. UNCHANGED <<flagVars, job, cb, cancelled, told, notified, q_lock, dropped>>
  BY DEF AddToQueue, histVars
<1>5. CASE UNCHANGED <<queueVars, m_workers, eventVars, pc, q_jobQueue, q_processing, refused>>
  <2>1. \A e \in Entries : InHand(e)' <=> InHand(e)
    BY <1>2, <1>5 DEF InHand, Managed, Queued, queueVars
  <2> QED BY <1>0, <1>2, <1>5, <2>1, EntriesFrame
<1>6. CASE /\ heap' = [heap EXCEPT ![j] = "live"]
           /\ QueueNextJob(Inserted(j), q_processing, pc)
  <2>1. Owns(Inserted(j), q_processing) /\ Aside /\ SameWork(pc)
    BY <1>0, <1>6, AddedIsOwned
  <2> QED BY <1>0, <1>2, <1>6, <2>1, QueueNextJobEntries DEF EntryInv, Entries
<1> QED BY <1>5, <1>6 DEF AddToQueue

(* A report takes away the entry of the job reported: it is live, so that  *)
(* find() cannot miss it.                                                  *)
LEMMA EntriesComplete ==
  ASSUME OneEntry, NEW w \in Worker, OnJobComplete(w)
  PROVE  EntryInv'
<1>0. /\ ManagerInv /\ QTypes /\ KeptBack /\ KnowsOwn /\ Owned /\ EntryInv
      /\ q_processing \in Seq(Entry) /\ Len(q_processing) <= 1
      /\ pc \in [Worker -> WorkerStates]
  BY DEF OneEntry, QueueOwns, QTypes, EntryInv, ManagerInv, TypeOK
<1>1. PICK procs \in Erasures(key[job[w]]) :
        QueueNextJob(q_jobQueue, procs, [pc EXCEPT ![w] = "erase"])
  BY DEF OnJobComplete
<1>2. procs \in Seq(Entry) /\ ToSet(procs) \subseteq Entries
  BY <1>0, <1>1, ErasuresType
<1>3. heap' = heap /\ UNCHANGED <<q_lock, dropped>>
  BY DEF OnJobComplete
<1>4. Owns(q_jobQueue, procs)
  BY <1>0, <1>2, <1>3 DEF Owns, QTypes, KeptBack, KnowsOwn, Owned, InQueue
<1>5. /\ Aside /\ SameWork([pc EXCEPT ![w] = "erase"])
      /\ job[w] \in Job /\ heap[job[w]] = "live"
  BY <1>0, ReportIsAside, ManagedIsLive DEF Managed
<1>6. CASE \E i \in 1 .. Len(q_processing) : procs = RemoveAt(q_processing, i)
  <2>1. PICK n \in Nat : n = Len(procs)
    BY <1>2, LenProperties
  <2>2. Len(procs) <= 1 /\ Len(procs) < 1
    <3>1. PICK i \in 1 .. Len(q_processing) : procs = RemoveAt(q_processing, i)
      BY <1>6
    <3>2. Len(q_processing) = 1 /\ Len(procs) = Len(q_processing) - 1
      BY <1>0, <3>1, OneAtMost, RemovedAt
    <3> QED BY <3>2
  <2>3. ToSet(procs) = {}
    BY <1>2, <2>2, OneAtMost
  <2> QED BY <1>1, <1>3, <1>4, <1>5, <2>2, <2>3, QueueNextJobEntries
<1>7. CASE procs = q_processing /\ MayMiss(key[job[w]])
  <2>1. \A e \in Entries : e.job # job[w]
    BY <1>5, <1>7 DEF MayMiss, Equal
  <2>2. \A e \in Entries : \A v \in Worker :
          job[v] = e.job => [pc EXCEPT ![w] = "erase"][v] = pc[v]
    BY <1>0, <2>1
  <2> QED BY <1>0, <1>1, <1>3, <1>4, <1>5, <1>7, <2>2, QueueNextJobEntries DEF Entries
<1>8. DOMAIN q_processing = 1 .. Len(q_processing)
  BY <1>0, ByPosition
<1> QED BY <1>1, <1>6, <1>7, <1>8 DEF Erasures

(* CancelJob takes the only entry away, or one of the jobs kept back.      *)
LEMMA EntriesCancel ==
  ASSUME OneEntry, NEW k, CancelPassedOn(k) \/ CancelKeptBack(k)
  PROVE  EntryInv'
<1>0. /\ ManagerInv /\ QTypes /\ KeptBack /\ EntryInv
      /\ q_processing \in Seq(Entry) /\ Len(q_processing) <= 1
      /\ DOMAIN q_processing = 1 .. Len(q_processing)
  BY ByPosition DEF OneEntry, QueueOwns, QTypes, EntryInv
<1>1. CASE CancelPassedOn(k)
  <2>1. PICK i \in 1 .. Len(q_processing) : q_processing' = RemoveAt(q_processing, i)
    BY <1>0, <1>1 DEF CancelPassedOn
  <2>2. Len(q_processing) = 1
    BY <1>0, <2>1, OneAtMost
  <2>3. /\ RemoveAt(q_processing, i) \in Seq(Entry)
        /\ Len(RemoveAt(q_processing, i)) = Len(q_processing) - 1
    BY <1>0, <2>1, RemovedAt
  <2>4. Len(q_processing') < 1 /\ q_processing' \in Seq(Entry)
    BY <2>1, <2>2, <2>3
  <2> QED BY <2>4, NoEntries
<1>2. CASE CancelKeptBack(k)
  <2>1. UNCHANGED <<m_jobQueue, m_processing, item, pc, job, cb, cancelled,
                    q_processing, q_lock, refused>>
    BY <1>2 DEF CancelKeptBack, queueVars, threadVars, histVars
  <2>2. PICK i \in DOMAIN q_jobQueue : dropped' = dropped \cup {q_jobQueue[i]}
    BY <1>2 DEF CancelKeptBack
  <2>3. q_jobQueue[i] \in ToSet(q_jobQueue)
    BY <2>2 DEF ToSet
  <2>4. \A e \in Entries : e.job \in dropped' <=> e.job \in dropped
    BY <1>0, <2>2, <2>3 DEF KeptBack
  <2>5. \A e \in Entries : InHand(e)' <=> InHand(e)
    BY <2>1 DEF InHand, Managed, Queued
  <2> QED BY <1>0, <2>1, <2>4, <2>5, EntriesFrame
<1> QED BY <1>1, <1>2

(* CancelJobs locks the queue, drops the entry and clears the list.        *)
LEMMA EntriesCancelAll ==
  ASSUME OneEntry, QueueCancelBegin \/ QueueCancelEntry \/ QueueCancelEnd
  PROVE  EntryInv'
<1>0. EntryInv /\ q_processing \in Seq(Entry) /\ Len(q_processing) <= 1
  BY DEF OneEntry, QueueOwns, QTypes, EntryInv
<1>1. CASE QueueCancelBegin
  <2>1. UNCHANGED <<m_jobQueue, m_processing, item, pc, job, cb, cancelled,
                    q_processing, dropped, refused>> /\ q_lock'
    BY <1>1 DEF QueueCancelBegin, vars, queueVars, threadVars, histVars, qHist
  <2>2. \A e \in Entries : InHand(e)' <=> InHand(e)
    BY <2>1 DEF InHand, Managed, Queued
  <2> QED BY <1>0, <2>1, <2>2, EntriesFrame
<1>2. CASE QueueCancelEntry
  <2>1. PICK f \in Entries : dropped' = dropped \cup {f.job}
    BY <1>2 DEF QueueCancelEntry
  <2>2. q_lock' /\ q_processing' = q_processing
    BY <1>2 DEF QueueCancelEntry, qVars
  <2>3. \A e \in Entries : e = f
    BY <1>0, <2>1, OneAtMost DEF Entries
  <2>4. Entries' = Entries /\ Len(q_processing') <= 1
    BY <1>0, <2>2 DEF Entries
  <2> QED BY <2>1, <2>2, <2>3, <2>4 DEF EntryInv
<1>3. CASE QueueCancelEnd
  <2>1. q_processing' = <<>>
    BY <1>3 DEF QueueCancelEnd
  <2>2. q_processing' \in Seq(Entry) /\ Len(q_processing') < 1
    BY <2>1, EmptySeq
  <2> QED BY <2>2, NoEntries
<1> QED BY <1>1, <1>2, <1>3

(* Every step keeps what is true of the entries.                           *)
LEMMA EntriesStep == OneEntry /\ [QueueMoves]_qvars => EntryInv'
<1> SUFFICES ASSUME OneEntry, [QueueMoves]_qvars PROVE EntryInv'
  OBVIOUS
<1>1. CASE QueueMoves
  BY <1>1, EntriesAdd, EntriesCancel, EntriesCancelAll, EntriesComplete, EntriesRun DEF QueueMoves
<1>2. CASE UNCHANGED qvars
  <2>1. UNCHANGED <<m_jobQueue, m_processing, item, pc, job, cb, cancelled,
                    q_processing, q_lock, dropped, refused>>
    BY <1>2 DEF qvars, vars, queueVars, threadVars, histVars, qVars, qHist
  <2>2. \A e \in Entries : InHand(e)' <=> InHand(e)
    BY <2>1 DEF InHand, Managed, Queued
  <2> QED BY <2>1, <2>2, EntriesFrame DEF OneEntry
<1> QED BY <1>1, <1>2

(* At first there is no entry.                                             *)
LEMMA EntriesInit == QInit => EntryInv
<1> SUFFICES ASSUME QInit PROVE EntryInv
  OBVIOUS
<1>1. q_processing = <<>>
  BY DEF QInit
<1>2. ToSet(<<>>) = {} /\ Len(<<>>) <= 1
  BY EmptySeq DEF ToSet
<1> QED BY <1>1, <1>2 DEF EntryInv, Entries

(* What a queue of one job at a time keeps.                                *)
LEMMA OneEntryInvariant ==
  ASSUME JobsAtOnce = 1
  PROVE  QSpec => [](QueueOwns /\ EntryInv)
<1>1. QInit => QueueOwns /\ EntryInv
  BY OwnsInit, EntriesInit
<1>2. (QueueOwns /\ EntryInv) /\ [QNext]_qvars => (QueueOwns /\ EntryInv)'
  BY QueueSteps, OwnsStep, EntriesStep DEF OneEntry
<1> QED BY <1>1, <1>2, PTL DEF QSpec

(* The pointers a queue of one job at a time keeps are to jobs that exist: *)
(* those kept back are the queue's alone, the entry's job is with the      *)
(* manager under the entry's id, unless a stopping manager took it away.   *)
THEOREM EntriesStayLive ==
  ASSUME JobsAtOnce = 1
  PROVE  QSpec => []EntriesAreLive
<1>1. QueueOwns /\ EntryInv => EntriesAreLive
  <2> SUFFICES ASSUME QueueOwns, EntryInv PROVE EntriesAreLive
    OBVIOUS
  <2>1. ManagerInv /\ QTypes /\ KeptBack
    BY DEF QueueOwns
  <2>2. \A e \in Entries : e.job \in Job /\ (InHand(e) => heap[e.job] = "live")
    BY <2>1, ListedAreJobs, ManagedIsLive DEF InHand
  <2>3. \A j \in Job : InQueue(j) => heap[j] = "live" /\ ~Queued(j) /\ j \notin m_processing
    BY <2>1 DEF KeptBack, InQueue, Managed
  <2>4. ASSUME ~q_lock, NEW e \in Entries,
               e.job \notin refused, cancelled[e.job] = "no" \/ e.job \in dropped
        PROVE  InHand(e)
    BY <2>4 DEF EntryInv
  <2> QED BY <2>2, <2>3, <2>4 DEF EntriesAreLive, InHand, Managed
<1> QED BY <1>1, OneEntryInvariant, PTL

-----------------------------------------------------------------------------
(* The order of a queue that takes the first job first                     *)

(* The jobs added so far: those reported, the entry's, and those kept back *)
(* from their end on.                                                      *)
InSequence(rep, procs, jobs, all) ==
  /\ Len(all) = Len(rep) + Len(procs) + Len(jobs)
  /\ \A i \in 1 .. Len(rep) : all[i] = rep[i]
  /\ \A i \in 1 .. Len(procs) : all[Len(rep) + i] = procs[i].job
  /\ \A i \in 1 .. Len(jobs) : all[Len(rep) + Len(procs) + i] = jobs[Len(jobs) + 1 - i]

(* Whatever the manager has and did not report yet is an entry's job.      *)
Unreported == {"run", "progress", "callback"}
Announced ==
  /\ \A j \in Job : Queued(j) => \E e \in Entries : e.job = j
  /\ \A w \in Worker : pc[w] \in Unreported => \E e \in Entries : e.job = job[w]

(* Nobody cancels a job of this queue, or stops the manager.               *)
Undisturbed ==
  /\ ~m_lifo /\ m_running /\ ~q_lock
  /\ dropped = {} /\ refused = {} /\ \A j \in Job : cancelled[j] = "no"

FifoInv ==
  /\ Undisturbed
  /\ added \in Seq(Job) /\ reported \in Seq(Job)
  /\ InSequence(reported, q_processing, q_jobQueue, added)
  /\ Announced

InOrderInv == QueueOwns /\ EntryInv /\ FifoInv

(* What happens to such a queue.                                           *)
Delivers ==
  \/ \E j \in Job, k \in Key : AddToQueue(j, k)
  \/ \E w \in Worker : ThreadStep(w)
  \/ UNCHANGED qvars

(* A prefix, by its positions.                                             *)
LEMMA PrefixByPosition ==
  ASSUME NEW S, NEW s \in Seq(S), NEW t \in Seq(S),
         Len(s) <= Len(t), \A i \in 1 .. Len(s) : s[i] = t[i]
  PROVE  IsPrefix(s, t)
<1>1. PICK m \in Nat, n \in Nat : m = Len(s) /\ n = Len(t) /\ m <= n
  BY LenProperties
<1>2. SubSeq(s, 1, Len(s)) = SubSeq(t, 1, Len(s))
  <2>1. /\ SubSeq(s, 1, m) = [i \in 1 .. m |-> s[i]]
        /\ SubSeq(t, 1, m) = [i \in 1 .. m |-> t[i]]
    BY <1>1, SMT
  <2> QED BY <1>1, <2>1
<1> QED BY <1>2 DEF IsPrefix

(* One more job is added in front of those kept back.                      *)
LEMMA SequenceAdd ==
  ASSUME NEW rep \in Seq(Job), NEW procs \in Seq(Entry), NEW jobs \in Seq(Job),
         NEW all \in Seq(Job), NEW j \in Job, InSequence(rep, procs, jobs, all)
  PROVE  InSequence(rep, procs, <<j>> \o jobs, Append(all, j))
<1>1. PICK r \in Nat, p \in Nat, n \in Nat : r = Len(rep) /\ p = Len(procs) /\ n = Len(jobs)
  BY LenProperties
<1>2. PICK front : front = <<j>> \o jobs
  OBVIOUS
<1>3. PICK longer : longer = Append(all, j)
  OBVIOUS
<1>4. /\ Len(all) = r + p + n
      /\ \A i \in 1 .. r : all[i] = rep[i]
      /\ \A i \in 1 .. p : all[r + i] = procs[i].job
      /\ \A i \in 1 .. n : all[r + p + i] = jobs[n + 1 - i]
  BY <1>1 DEF InSequence
<1>5. /\ Len(front) = n + 1 /\ front[1] = j
      /\ \A i \in 1 .. n : front[i + 1] = jobs[i]
  BY <1>1, <1>2, Prepended
<1>6. /\ Len(longer) = r + p + n + 1 /\ longer[r + p + n + 1] = j
      /\ \A i \in 1 .. r + p + n : longer[i] = all[i]
  BY <1>1, <1>3, <1>4, Appended
<1>7. /\ \A i \in 1 .. r : i \in 1 .. r + p + n
      /\ \A i \in 1 .. p : r + i \in 1 .. r + p + n
      /\ \A i \in 1 .. n : r + p + i \in 1 .. r + p + n
      /\ r + p + (n + 1) = r + p + n + 1
  BY <1>1
<1>8. \A i \in 1 .. n + 1 : longer[r + p + i] = front[(n + 1) + 1 - i]
  <2> SUFFICES ASSUME NEW i \in 1 .. n + 1 PROVE longer[r + p + i] = front[(n + 1) + 1 - i]
    OBVIOUS
  <2>1. CASE i = n + 1
    <3>1. (n + 1) + 1 - i = 1
      BY <1>1, <2>1
    <3> QED BY <1>5, <1>6, <1>7, <2>1, <3>1
  <2>2. CASE i # n + 1
    <3>1. i \in 1 .. n /\ n + 1 - i \in 1 .. n /\ (n + 1) + 1 - i = (n + 1 - i) + 1
      BY <1>1, <2>2
    <3> QED BY <1>4, <1>5, <1>6, <1>7, <3>1
  <2> QED BY <2>1, <2>2
<1>9. /\ \A i \in 1 .. r : longer[i] = rep[i]
      /\ \A i \in 1 .. p : longer[r + i] = procs[i].job
  BY <1>4, <1>6, <1>7
<1> QED BY <1>1, <1>2, <1>3, <1>5, <1>6, <1>7, <1>8, <1>9 DEF InSequence

(* The entry's job is reported.                                            *)
LEMMA SequenceReport ==
  ASSUME NEW rep \in Seq(Job), NEW procs \in Seq(Entry), NEW jobs \in Seq(Job),
         NEW all \in Seq(Job), Len(procs) = 1, InSequence(rep, procs, jobs, all)
  PROVE  InSequence(Append(rep, procs[1].job), <<>>, jobs, all)
<1>1. PICK r \in Nat, n \in Nat : r = Len(rep) /\ n = Len(jobs)
  BY LenProperties
<1>2. 1 \in 1 .. Len(procs) /\ procs[1].job \in Job
  <2>1. 1 \in 1 .. Len(procs)
    OBVIOUS
  <2>2. procs[1] \in Entry
    BY <2>1, ByPosition
  <2> QED BY <2>1, <2>2 DEF Entry
<1>3. PICK longer : longer = Append(rep, procs[1].job)
  OBVIOUS
<1>4. /\ Len(all) = r + 1 + n
      /\ \A i \in 1 .. r : all[i] = rep[i]
      /\ all[r + 1] = procs[1].job
      /\ \A i \in 1 .. n : all[r + 1 + i] = jobs[n + 1 - i]
  BY <1>1, <1>2 DEF InSequence
<1>5. /\ Len(longer) = r + 1 /\ longer[r + 1] = procs[1].job
      /\ \A i \in 1 .. r : longer[i] = rep[i]
  BY <1>1, <1>2, <1>3, Appended
<1>6. \A i \in 1 .. r + 1 : all[i] = longer[i]
  <2>1. \A i \in 1 .. r + 1 : i \in 1 .. r \/ i = r + 1
    BY <1>1
  <2> QED BY <1>4, <1>5, <2>1
<1>7. /\ Len(<<>>) = 0 /\ \A i \in 1 .. 0 : FALSE
      /\ (r + 1) + 0 + n = r + 1 + n /\ \A i \in 1 .. n : (r + 1) + 0 + i = r + 1 + i
  BY <1>1, EmptySeq
<1> QED BY <1>1, <1>3, <1>4, <1>5, <1>6, <1>7 DEF InSequence

(* The last of the jobs kept back becomes the entry's.                     *)
LEMMA SequencePass ==
  ASSUME NEW rep \in Seq(Job), NEW jobs \in Seq(Job), NEW all \in Seq(Job), NEW e \in Entry,
         jobs # <<>>, e.job = Last(jobs), InSequence(rep, <<>>, jobs, all)
  PROVE  InSequence(rep, Append(<<>>, e), Front(jobs), all)
<1>1. PICK r \in Nat, n \in Nat : r = Len(rep) /\ n = Len(jobs)
  BY LenProperties
<1>2. PICK one : one = Append(<<>>, e)
  OBVIOUS
<1>3. PICK front : front = Front(jobs)
  OBVIOUS
<1>4. /\ n > 0 /\ jobs[n] = e.job /\ Len(front) = n - 1
      /\ \A i \in 1 .. n - 1 : front[i] = jobs[i]
  <2>1. /\ Len(jobs) \in Nat \ {0} /\ Last(jobs) = jobs[Len(jobs)]
        /\ Len(Front(jobs)) = Len(jobs) - 1
        /\ \A i \in 1 .. Len(jobs) - 1 : Front(jobs)[i] = jobs[i]
    BY FrontAndLast
  <2> QED BY <1>1, <1>3, <2>1
<1>5. Len(one) = 1 /\ one[1] = e
  BY <1>2
<1>6. /\ Len(<<>>) = 0 /\ r + 0 + n = r + 1 + (n - 1)
      /\ r + 0 + 1 = r + 1 /\ 1 \in 1 .. n /\ n + 1 - 1 = n
  BY <1>1, <1>4, EmptySeq
<1>7. /\ Len(all) = r + 0 + n
      /\ \A i \in 1 .. r : all[i] = rep[i]
      /\ \A i \in 1 .. n : all[r + 0 + i] = jobs[n + 1 - i]
  BY <1>1, <1>6 DEF InSequence
<1>8. all[r + 1] = e.job
  BY <1>4, <1>6, <1>7
<1>9. \A i \in 1 .. n - 1 : all[r + 1 + i] = front[(n - 1) + 1 - i]
  <2> SUFFICES ASSUME NEW i \in 1 .. n - 1 PROVE all[r + 1 + i] = front[(n - 1) + 1 - i]
    OBVIOUS
  <2>1. /\ i + 1 \in 1 .. n /\ r + 0 + (i + 1) = r + 1 + i
        /\ n + 1 - (i + 1) = (n - 1) + 1 - i /\ (n - 1) + 1 - i \in 1 .. n - 1
    BY <1>1
  <2> QED BY <1>4, <1>7, <2>1
<1>10. \A i \in 1 .. 1 : all[r + i] = one[i].job
  <2>1. \A i \in 1 .. 1 : i = 1
    OBVIOUS
  <2> QED BY <1>5, <1>8, <2>1
<1> QED BY <1>1, <1>2, <1>3, <1>4, <1>5, <1>6, <1>7, <1>9, <1>10 DEF InSequence

(* QueueNextJob passes on the job whose turn it is.                        *)
LEMMA QueueNextJobInOrder ==
  ASSUME ManagerInv, JobsAtOnce = 1, m_running, Aside,
         NEW jobs, NEW procs, NEW pcs, SameWork(pcs), Owns(jobs, procs), Len(procs) <= 1,
         QueueNextJob(jobs, procs, pcs),
         NEW rep \in Seq(Job), NEW all \in Seq(Job), InSequence(rep, procs, jobs, all),
         \A j \in Job : Queued(j) => \E e \in ToSet(procs) : e.job = j,
         \A w \in Worker : pcs[w] \in Unreported => \E e \in ToSet(procs) : e.job = job[w]
  PROVE  /\ refused' = refused /\ Announced'
         /\ InSequence(rep, q_processing', q_jobQueue', all)
<1>0. /\ jobs \in Seq(Job) /\ procs \in Seq(Entry)
      /\ \A j \in ToSet(jobs) : ~Managed(j) /\ heap'[j] = "live"
  BY DEF Owns
<1>1. ManagerInv' /\ (Leaves(jobs, procs) \/ PassesOn(jobs, procs))
  BY <1>0, QueueNextJobKeeps DEF TriesInVain
<1>2. job' = job /\ \A w \in Worker : pc'[w] = pcs[w] \/ pc'[w] = "next"
  BY QueueNextJobThreads DEF Aside
<1>3. \A w \in Worker : pc'[w] \in Unreported => \E e \in ToSet(procs) : e.job = job'[w]
  BY <1>2 DEF Unreported
<1>4. CASE Leaves(jobs, procs)
  <2>1. q_processing' = procs /\ q_jobQueue' = jobs /\ refused' = refused
    BY <1>4 DEF Leaves
  <2>2. UNCHANGED queueVars
    BY <1>4 DEF QueueNextJob, Leaves
  <2>3. \A j \in Job : Queued(j)' <=> Queued(j)
    BY <2>2 DEF Queued, queueVars
  <2> QED BY <1>3, <2>1, <2>3 DEF Announced, Entries
<1>5. CASE PassesOn(jobs, procs)
  <2>1. procs = <<>> /\ ToSet(procs) = {}
    BY <1>0, <1>5, OneAtMost DEF PassesOn, HasRoom
  <2>2. PICK j \in Job : j = Last(jobs)
    BY <1>0, <1>5, FrontAndLast DEF PassesOn
  <2>3. PICK e \in Entry : e = [job |-> j, id |-> NextId(m_jobCounter)]
    <3>1. NextId(m_jobCounter) \in 0 .. IdModulus - 1
      BY NextIdType, ParameterAssumption DEF ManagerInv, TypeOK
    <3> QED BY <3>1 DEF Entry
  <2>4. /\ q_processing' = Append(procs, e) /\ q_jobQueue' = Front(jobs) /\ refused' = refused
        /\ jobs # <<>> /\ m_processing' = m_processing
        /\ \A i \in Job : Managed(i)' <=> Managed(i) \/ i = j
    BY <1>5, <2>2, <2>3 DEF PassesOn
  <2>5. e \in Entries' /\ e.job = j
    BY <1>0, <2>3, <2>4, Appended DEF Entries
  <2>6. ASSUME NEW i \in Job, Queued(i)'
        PROVE  i = j
    <3>1. i \notin m_processing' /\ Managed(i)'
      BY <1>1, <2>6 DEF ManagerInv, QueueInv, Queued, Managed
    <3> QED BY <2>1, <2>4, <3>1 DEF Managed
  <2>7. Announced'
    BY <1>3, <2>1, <2>5, <2>6 DEF Announced
  <2>8. InSequence(rep, Append(<<>>, e), Front(jobs), all)
    BY <1>0, <2>1, <2>2, <2>3, <2>4, SequencePass
  <2> QED BY <2>1, <2>4, <2>7, <2>8
<1> QED BY <1>1, <1>4, <1>5

(* The report of an entry's job takes that entry away.                     *)
LEMMA ReportErases ==
  ASSUME OneEntry, NEW w \in Worker, OnJobComplete(w), NEW e \in Entries, e.job = job[w],
         NEW procs \in Erasures(key[job[w]])
  PROVE  procs = <<>> /\ Len(q_processing) = 1 /\ q_processing[1] = e
<1>0. /\ ManagerInv /\ QTypes /\ q_processing \in Seq(Entry) /\ Len(q_processing) <= 1
      /\ DOMAIN q_processing = 1 .. Len(q_processing)
  BY ByPosition DEF OneEntry, QueueOwns, QTypes, EntryInv
<1>1. heap[e.job] = "live"
  BY <1>0, ReportIsAside, ManagedIsLive DEF Managed
<1>2. ~MayMiss(key[job[w]])
  BY <1>1 DEF MayMiss, Equal
<1>3. PICK i \in 1 .. Len(q_processing) : procs = RemoveAt(q_processing, i)
  BY <1>0, <1>2 DEF Erasures
<1>4. Len(q_processing) = 1
  BY <1>0, <1>3, OneAtMost
<1>5. procs \in Seq(Entry) /\ Len(procs) = Len(q_processing) - 1
  BY <1>0, <1>3, RemovedAt
<1>6. procs = <<>>
  <2>1. Len(procs) < 1 /\ Len(procs) <= 1
    BY <1>4, <1>5
  <2> QED BY <1>5, <2>1, OneAtMost
<1>7. q_processing[1] = e
  <2>1. 1 \in 1 .. Len(q_processing)
    BY <1>4
  <2> QED BY <1>0, <2>1, ByPosition, OneAtMost DEF Entries
<1> QED BY <1>4, <1>6, <1>7

(* A new job is the last in order.                                         *)
LEMMA InOrderAdd ==
  ASSUME JobsAtOnce = 1, InOrderInv, NEW j \in Job, NEW k \in Key, AddToQueue(j, k)
  PROVE  FifoInv'
<1>0. /\ ManagerInv /\ QTypes /\ QueueOwns /\ EntryInv /\ Undisturbed /\ Announced
      /\ added \in Seq(Job) /\ reported \in Seq(Job)
      /\ InSequence(reported, q_processing, q_jobQueue, added)
      /\ q_processing \in Seq(Entry) /\ q_jobQueue \in Seq(Job)
  BY DEF InOrderInv, QueueOwns, FifoInv, QTypes
<1>1. UNCHANGED <<m_running, job, cancelled, q_lock, m_lifo, reported, dropped>>
  BY DEF AddToQueue, histVars, flagVars
<1>2. CASE UNCHANGED <<queueVars, pc, q_jobQueue, q_processing, added, refused>>
  <2>1. \A i \in Job : Queued(i)' <=> Queued(i)
    BY <1>2 DEF Queued, queueVars
  <2>2. Announced'
    BY <1>0, <1>1, <1>2, <2>1 DEF Announced, Entries
  <2> QED BY <1>0, <1>1, <1>2, <2>2 DEF FifoInv, Undisturbed
<1>3. CASE /\ heap' = [heap EXCEPT ![j] = "live"] /\ added' = Append(added, j)
           /\ QueueNextJob(Inserted(j), q_processing, pc)
  <2>1. Owns(Inserted(j), q_processing) /\ Aside /\ SameWork(pc)
    BY <1>0, <1>3, AddedIsOwned
  <2>2. Inserted(j) = <<j>> \o q_jobQueue
    BY <1>0 DEF Inserted, Undisturbed
  <2>3. PICK all : all = Append(added, j)
    OBVIOUS
  <2>4. all \in Seq(Job) /\ InSequence(reported, q_processing, Inserted(j), all)
    BY <1>0, <2>2, <2>3, SequenceAdd
  <2>5. /\ refused' = refused /\ Announced'
        /\ InSequence(reported, q_processing', q_jobQueue', all)
    <3>1. m_running /\ Len(q_processing) <= 1
      BY <1>0 DEF EntryInv, Undisturbed
    <3>2. /\ \A i \in Job : Queued(i) => \E e \in ToSet(q_processing) : e.job = i
          /\ \A w \in Worker :
               pc[w] \in Unreported => \E e \in ToSet(q_processing) : e.job = job[w]
      BY <1>0 DEF Announced, Entries
    <3> QED BY <1>0, <1>3, <2>1, <2>4, <3>1, <3>2, QueueNextJobInOrder
  <2> QED BY <1>0, <1>1, <1>3, <2>3, <2>4, <2>5 DEF FifoInv, Undisturbed
<1> QED BY <1>2, <1>3 DEF AddToQueue

(* The report is that of the entry's job, and nobody else has it.          *)
LEMMA InOrderComplete ==
  ASSUME JobsAtOnce = 1, InOrderInv, NEW w \in Worker, OnJobComplete(w)
  PROVE  FifoInv'
<1>0. /\ ManagerInv /\ QTypes /\ QueueOwns /\ EntryInv /\ Undisturbed /\ Announced /\ OneEntry
      /\ added \in Seq(Job) /\ reported \in Seq(Job)
      /\ InSequence(reported, q_processing, q_jobQueue, added)
      /\ q_processing \in Seq(Entry) /\ q_jobQueue \in Seq(Job)
      /\ pc \in [Worker -> WorkerStates]
  BY DEF InOrderInv, QueueOwns, FifoInv, QTypes, OneEntry, ManagerInv, TypeOK
<1>1. /\ UNCHANGED <<m_running, job, cancelled, q_lock, m_lifo, added, dropped, heap>>
      /\ reported' = Append(reported, job[w]) /\ pc[w] = "callback"
  BY DEF OnJobComplete, flagVars
<1>2. PICK procs \in Erasures(key[job[w]]) :
        QueueNextJob(q_jobQueue, procs, [pc EXCEPT ![w] = "erase"])
  BY DEF OnJobComplete
<1>3. PICK e \in Entries : e.job = job[w]
  BY <1>0, <1>1 DEF Announced, Unreported
<1>4. procs = <<>> /\ Len(q_processing) = 1 /\ q_processing[1] = e
  BY <1>0, <1>2, <1>3, ReportErases
<1>5. /\ Aside /\ SameWork([pc EXCEPT ![w] = "erase"])
      /\ job[w] \in m_processing /\ job[w] \in Job
  BY <1>0, ReportIsAside
<1>6. Owns(q_jobQueue, procs)
  <2>1. procs \in Seq(Entry) /\ ToSet(procs) \subseteq Entries
    BY <1>0, <1>2, ErasuresType
  <2> QED BY <1>0, <1>1, <2>1
          DEF QueueOwns, Owns, QTypes, KeptBack, KnowsOwn, Owned, InQueue
<1>7. PICK rep : rep = Append(reported, job[w])
  OBVIOUS
<1>8. rep \in Seq(Job) /\ InSequence(rep, procs, q_jobQueue, added)
  BY <1>0, <1>3, <1>4, <1>5, <1>7, SequenceReport
<1>9. \A j \in Job : ~Queued(j)
  <2> SUFFICES ASSUME NEW j \in Job, Queued(j) PROVE FALSE
    OBVIOUS
  <2>1. PICK f \in Entries : f.job = j
    BY <1>0 DEF Announced
  <2>2. f = e
    BY <1>0, <2>1, OneAtMost DEF EntryInv, Entries
  <2>3. j \notin m_processing
    BY <1>0, QueuedJobs DEF ManagerInv
  <2> QED BY <1>3, <1>5, <2>1, <2>2, <2>3
<1>10. \A v \in Worker : [pc EXCEPT ![w] = "erase"][v] \notin Unreported
  <2> SUFFICES ASSUME NEW v \in Worker, v # w, pc[v] \in Unreported PROVE FALSE
    BY <1>0 DEF Unreported
  <2>1. PICK f \in Entries : f.job = job[v]
    BY <1>0 DEF Announced
  <2>2. f = e
    BY <1>0, <2>1, OneAtMost DEF EntryInv, Entries
  <2> QED BY <1>0, <1>1, <1>3, <2>1, <2>2 DEF ManagerInv, ThreadInv, Busy, Unreported
<1>11. Len(procs) <= 1
  BY <1>4, EmptySeq
<1>12. /\ refused' = refused /\ Announced'
       /\ InSequence(rep, q_processing', q_jobQueue', added)
  BY <1>0, <1>2, <1>5, <1>6, <1>8, <1>9, <1>10, <1>11, QueueNextJobInOrder DEF Undisturbed
<1> QED BY <1>0, <1>1, <1>7, <1>8, <1>12 DEF FifoInv, Undisturbed

(* Whoever takes a job takes an announced one.                             *)
LEMMA InOrderWorker ==
  ASSUME InOrderInv, NEW w \in Worker, WorkerStep(w), UNCHANGED <<qVars, m_lifo, qHist>>
  PROVE  FifoInv'
<1>0. /\ ManagerInv /\ TypeOK /\ Undisturbed /\ Announced
      /\ pc \in [Worker -> WorkerStates] /\ job \in [Worker -> Job \cup {NULL}]
      /\ m_jobQueue \in [Priority -> Seq(Job)]
      /\ UNCHANGED <<q_jobQueue, q_processing, q_lock, m_lifo, added, reported, dropped, refused>>
  BY DEF InOrderInv, QueueOwns, FifoInv, ManagerInv, TypeOK, qVars, qHist
<1>1. m_running' = m_running /\ cancelled' = cancelled
  BY DEF WorkerStep, TakeJob, LeaveLock, WaitForEvent, WakeUp, TimeOut, Retire, ExitThread,
     ProgressDone, JobDone, NotifyClient, EraseJob, flagVars, histVars
<1>2. ASSUME TakeJob(w) PROVE Announced'
  <2>1. PICK p \in Priority :
          m_jobQueue[p] # <<>> /\ job' = [job EXCEPT ![w] = Head(m_jobQueue[p])]
    BY <1>2 DEF TakeJob, PopsFrom, Eligible
  <2>2. PICK i \in Job : i = Head(m_jobQueue[p]) /\ Queued(i)
    BY <1>0, <2>1, HeadTail DEF Queued
  <2>3. pc' = [pc EXCEPT ![w] = "run"] /\ \A j \in Job : Queued(j)' => Queued(j)
    BY <1>0, <1>2, QueuedAfterTake DEF TakeJob
  <2>4. \A v \in Worker : v # w => pc'[v] = pc[v] /\ job'[v] = job[v]
    BY <1>0, <2>1, <2>3
  <2>5. job'[w] = i
    BY <1>0, <2>1, <2>2
  <2> QED BY <1>0, <2>2, <2>3, <2>4, <2>5 DEF Announced, Entries
<1>3. ASSUME ~TakeJob(w) PROVE Announced'
  <2>1. m_jobQueue' = m_jobQueue /\ \A v \in Worker : v # w => pc'[v] = pc[v] /\ job'[v] = job[v]
    BY <1>0, <1>3 DEF WorkerStep, LeaveLock, WaitForEvent, WakeUp, TimeOut, Retire, ExitThread,
       ProgressDone, JobDone, NotifyClient, EraseJob, queueVars
  <2>2. pc'[w] \notin Unreported \/ (pc[w] \in Unreported /\ job' = job)
    BY <1>0, <1>3 DEF WorkerStep, LeaveLock, WaitForEvent, WakeUp, TimeOut, Retire, ExitThread,
       ProgressDone, JobDone, NotifyClient, EraseJob, Unreported
  <2>3. \A j \in Job : Queued(j)' <=> Queued(j)
    BY <2>1 DEF Queued
  <2> QED BY <1>0, <2>1, <2>2, <2>3 DEF Announced, Entries
<1>4. Announced'
  BY <1>2, <1>3
<1> QED BY <1>0, <1>1, <1>4 DEF InOrderInv, FifoInv, Undisturbed

(* Whatever happens to a queue that nobody disturbs keeps its order.       *)
LEMMA InOrderStep ==
  ASSUME JobsAtOnce = 1, InOrderInv, Delivers
  PROVE  InOrderInv'
<1>1. [QNext]_qvars
  BY DEF Delivers, QNext
<1>2. QueueOwns' /\ EntryInv'
  BY <1>1, QueueSteps, OwnsStep, EntriesStep DEF InOrderInv, OneEntry
<1>3. ASSUME NEW w \in Worker, ThreadStep(w) PROVE FifoInv'
  <2>1. CASE OnJobComplete(w)
    BY <2>1, InOrderComplete
  <2>2. CASE ~OnJobComplete(w)
    <3>1. WorkerStep(w) /\ UNCHANGED <<qVars, m_lifo, qHist>>
      BY <1>3, <2>2 DEF ThreadStep, WorkerStep
    <3> QED BY <3>1, InOrderWorker
  <2> QED BY <2>1, <2>2
<1>4. ASSUME UNCHANGED qvars PROVE FifoInv'
  <2>1. /\ UNCHANGED <<m_jobQueue, m_running, pc, job, cancelled>>
        /\ UNCHANGED <<q_jobQueue, q_processing, q_lock, m_lifo, added, reported, dropped, refused>>
    BY <1>4 DEF qvars, vars, queueVars, flagVars, threadVars, histVars, qVars, qHist
  <2>2. Announced'
    BY <2>1 DEF InOrderInv, FifoInv, Announced, Queued, Entries
  <2> QED BY <2>1, <2>2 DEF InOrderInv, FifoInv, Undisturbed
<1>5. FifoInv'
  BY <1>3, <1>4, InOrderAdd DEF Delivers
<1> QED BY <1>2, <1>5 DEF InOrderInv
=============================================================================
