------------------------- MODULE TextureCacheProofs -------------------------
(***************************************************************************)
(* Proofs that no two threads cache an image at once, and that a URL that  *)
(* stays listed has somebody at it, for any number of jobs, images, worker *)
(* threads and callers of CacheImage().                                    *)
(***************************************************************************)
EXTENDS TextureCache, JobQueueProofs

-----------------------------------------------------------------------------
(* The inductive invariant                                                 *)

(* A job the queue still waits to pass on, or to be given; and one that a  *)
(* worker has taken, or that is gone.                                      *)
Waits(j) == heap[j] = "unborn" \/ InQueue(j)
Begun(j) == ~Waits(j) /\ ~Queued(j)

CacheTypes ==
  /\ key \in [Job -> Key \cup {NULL}]
  /\ work \in [Worker -> {"first", "refuse", "second", "cache", "complete"}]
  /\ tpc \in [Caller -> {"idle", "waiting", "caching"}]
  /\ url \in [Caller -> Key \cup {NULL}]
  /\ reported \in Seq(Job) /\ claimed \subseteq Job

(* No two jobs the manager has got the same id: each new one is larger,    *)
(* for a job passed on is not kept back any more.                          *)
Passed == {j \in Job : ~Waits(j)}
IdsInv ==
  /\ m_jobCounter <= Cardinality(Passed)
  /\ \A j \in Job : Managed(j) => item[j].id <= m_jobCounter
  /\ \A i, j \in Job : Managed(i) /\ Managed(j) /\ item[i].id = item[j].id => i = j
  /\ \A e \in Entries : Managed(e.job) => item[e.job].id = e.id

(* A job is reported once, by a worker past its callback then.             *)
ReportedInv ==
  \A j \in ToSet(reported) : Begun(j) /\ \A w \in Worker : job[w] = j => pc[w] = "erase"

(* A job that was taken off the queue, or told to stop, has no callback.   *)
SilentInv ==
  /\ \A j \in dropped : Managed(j) => item[j].callback = NULL
  /\ \A j \in told : Begun(j) /\ (Managed(j) => item[j].callback = NULL)

(* The queue knows the jobs the manager will report, unless it cancelled   *)
(* them, or took a late report for that of an equal job.                   *)
KnownInv ==
  \A j \in Job : Managed(j) /\ j \notin ToSet(reported) =>
    (\E e \in Entries : e.job = j) \/ j \in dropped \/ ReportedLate(key[j])

(* Where DoWork is, and where its thread.                                  *)
PlaceInv ==
  \A w \in Worker :
    /\ pc[w] \notin Busy => work[w] = "first"
    /\ work[w] = "refuse" => pc[w] = "progress"
    /\ work[w] = "complete" => pc[w] \in {"callback", "erase"}

(* A job that was told to stop has no callback left to report it.          *)
WorkInv ==
  /\ PlaceInv
  /\ \A w \in Worker : pc[w] = "callback" /\ cb[w] # NULL => work[w] \in {"cache", "complete"}

(* A thread with a job that has listed its URL is past its first look.     *)
ClaimedInv ==
  \A j \in claimed :
    Begun(j) /\ \A w \in Worker : job[w] = j => work[w] \notin {"first", "refuse"}

(* Who gets as far as to cache an image has listed it: whoever found it    *)
(* listed was cancelled before its second look.                            *)
ClaimInv ==
  /\ ClaimedInv
  /\ \A w \in Worker : pc[w] \in Busy /\ job[w] \notin claimed =>
       \/ ReportedLate(Url(w))
       \/ /\ work[w] # "cache"
          /\ work[w] = "second" /\ pc[w] \in {"run", "progress"} => item[job[w]].callback = NULL

(* The threads that are at an image they have listed.                      *)
Holds(w) ==
  pc[w] \in {"run", "progress", "callback"} /\ work[w] \in {"second", "cache"} /\ job[w] \in claimed
JobsAt(u)    == {w \in Worker : Holds(w) /\ Url(w) = u}
CallersAt(u) == {c \in Caller : tpc[c] = "caching" /\ url[c] = u}

(* There is one of them at most, and the image is listed meanwhile.        *)
HeldOnce(u) ==
  /\ JobsAt(u) \cup CallersAt(u) # {} => u \in m_processinglist
  /\ \A v, w \in JobsAt(u) : v = w
  /\ \A c, d \in CallersAt(u) : c = d
  /\ JobsAt(u) = {} \/ CallersAt(u) = {}
HoldInv == \A u \in Key : ReportedLate(u) \/ HeldOnce(u)

OneQueue == JobsAtOnce = 1 /\ QueueOwns /\ EntryInv /\ IdsInv

-----------------------------------------------------------------------------
(* Jobs move on, from the queue to the manager to a worker, and never back *)

(* A job with the manager keeps its id, and once silenced has no callback. *)
SameItem(j) ==
  item'[j].id = item[j].id /\ (item[j].callback = NULL => item'[j].callback = NULL)

(* What the manager makes of the jobs it has ...                           *)
HandsOver ==
  /\ m_jobCounter' = m_jobCounter
  /\ \A j \in Job : Queued(j)' => Queued(j)
  /\ \A j \in Job : Managed(j) /\ Managed(j)' => SameItem(j)
  /\ \A w \in Worker : job'[w] = job[w] \/ job'[w] = NULL \/ Queued(job'[w])

(* ... and what becomes of the others.                                     *)
MovesOn ==
  /\ \A j \in Job : heap[j] # "unborn" => heap'[j] # "unborn" /\ key'[j] = key[j]
  /\ \A j \in Job : ~Waits(j) => ~Waits(j)'
  /\ \A j \in Job : Queued(j)' => Queued(j) \/ Waits(j)
  /\ \A j \in Job : Managed(j)' => Managed(j) \/ Waits(j)
  /\ \A j \in Job : Managed(j) /\ Managed(j)' => SameItem(j)
  /\ \A w \in Worker : job'[w] = job[w] \/ job'[w] = NULL \/ Queued(job'[w])
  /\ dropped \subseteq dropped' /\ ToSet(reported) \subseteq ToSet(reported')

(* The jobs the manager has after a step exist then.                       *)
LEMMA ManagedIsLiveAfter ==
  ASSUME ManagerInv', NEW j \in Job, Managed(j)'
  PROVE  heap'[j] = "live" /\ (Queued(j)' => j \notin m_processing')
<1>1. ASSUME Queued(j)' PROVE heap'[j] = "live" /\ j \notin m_processing'
  <2>1. PICK p \in Priority : \E i \in DOMAIN m_jobQueue'[p] : m_jobQueue'[p][i] = j
    BY <1>1 DEF Queued
  <2> QED BY <2>1 DEF ManagerInv, QueueInv
<1>2. j \in m_processing' => heap'[j] = "live"
  BY DEF ManagerInv, QueueInv
<1> QED BY <1>1, <1>2 DEF Managed

(* The manager's own steps.                                                *)
LEMMA RunsHandOver ==
  ASSUME ManagerInv, ManagerRuns
  PROVE  HandsOver
<1> USE DEF queueVars, flagVars, eventVars, threadVars, histVars
<1>0. /\ TypeOK /\ ThreadInv /\ ManagerInv' /\ HandlesOwn
      /\ m_jobQueue \in [Priority -> Seq(Job)] /\ m_processing \subseteq Job
      /\ item \in [Job -> Item] /\ job \in [Worker -> Job \cup {NULL}]
  BY RunsKeepManager, RunsHandleOwn DEF ManagerInv, TypeOK
<1>1. CASE UNCHANGED <<m_jobQueue, m_processing, item, m_jobCounter, job>>
  BY <1>1 DEF HandsOver, SameItem, Queued
<1>2. CASE PauseJobs \/ UnPauseJobs \/ CancelJobsSignal \/ CancelJobsReturn \/ Restart
  BY <1>1, <1>2 DEF PauseJobs, UnPauseJobs, CancelJobsSignal, CancelJobsReturn, Restart
<1>3. CASE CancelJobsBegin
  <2>1. /\ \A j \in Job : ~Queued(j)'
        /\ UNCHANGED <<m_processing, m_jobCounter, job>>
        /\ item' = [j \in Job |-> IF j \in m_processing
                                  THEN [item[j] EXCEPT !.callback = NULL] ELSE NoItem]
    BY <1>3 DEF CancelJobsBegin, Queued
  <2>2. ASSUME NEW j \in Job, Managed(j)' PROVE SameItem(j)
    <3>1. item'[j] = [item[j] EXCEPT !.callback = NULL] /\ item[j] \in Item
      BY <1>0, <2>1, <2>2 DEF Managed
    <3> QED BY <3>1 DEF SameItem, Item
  <2> QED BY <2>1, <2>2 DEF HandsOver
<1>4. ASSUME NEW w \in Worker, WorkerStep(w) \/ CheckCancel(w)
      PROVE  HandsOver
  <2>1. CASE TakeJob(w)
    <3>1. PICK p \in Priority :
            m_jobQueue[p] # <<>> /\ job' = [job EXCEPT ![w] = Head(m_jobQueue[p])]
      BY <2>1 DEF TakeJob, PopsFrom, Eligible
    <3>2. Queued(Head(m_jobQueue[p]))
      BY <1>0, <3>1, HeadTail DEF Queued
    <3>3. UNCHANGED <<item, m_jobCounter>> /\ \A v \in Worker : job'[v] = job[v] \/ Queued(job'[v])
      BY <1>0, <2>1, <3>1, <3>2 DEF TakeJob
    <3>4. \A j \in Job : Queued(j)' => Queued(j)
      BY <1>0, <2>1, QueuedAfterTake
    <3> QED BY <3>3, <3>4 DEF HandsOver, SameItem
  <2>2. CASE EraseJob(w)
    <3>1. PICK i \in Job : i = job[w]
      BY <1>0, <2>2 DEF EraseJob, ThreadInv, Busy
    <3>2. /\ UNCHANGED <<m_jobQueue, m_jobCounter>> /\ job' = [job EXCEPT ![w] = NULL]
          /\ item' = [item EXCEPT ![i] = NoItem] /\ heap' = [heap EXCEPT ![i] = "deleted"]
      BY <2>2, <3>1 DEF EraseJob
    <3>3. heap'[i] = "deleted" /\ \A j \in Job : j # i => item'[j] = item[j]
      BY <1>0, <3>2 DEF TypeOK
    <3>4. ~Managed(i)'
      BY <1>0, <3>1, <3>3, ManagedIsLiveAfter
    <3>5. \A v \in Worker : job'[v] = job[v] \/ job'[v] = NULL
      BY <1>0, <3>2
    <3>6. \A j \in Job : Managed(j) /\ Managed(j)' => SameItem(j)
      BY <3>3, <3>4 DEF SameItem
    <3>7. \A j \in Job : Queued(j)' => Queued(j)
      BY <3>2 DEF Queued
    <3> QED BY <3>2, <3>5, <3>6, <3>7 DEF HandsOver
  <2>3. CASE \/ LeaveLock(w) \/ WaitForEvent(w) \/ WakeUp(w) \/ TimeOut(w)
             \/ Retire(w) \/ ExitThread(w)
    BY <1>1, <2>3 DEF LeaveLock, WaitForEvent, WakeUp, TimeOut, Retire, ExitThread
  <2>4. CASE ProgressDone(w) \/ JobDone(w) \/ NotifyClient(w) \/ CheckCancel(w)
    BY <1>1, <2>4 DEF ProgressDone, JobDone, NotifyClient, CheckCancel
  <2> QED BY <1>4, <2>1, <2>2, <2>3, <2>4 DEF WorkerStep
<1> QED BY <1>2, <1>3, <1>4 DEF ManagerRuns

(* A cancellation.                                                         *)
LEMMA CancelHandsOver ==
  ASSUME ManagerInv, NEW id, ManagerCancel(id)
  PROVE  HandsOver /\ UNCHANGED <<m_processing, m_jobCounter, pc, job, cb, told>>
<1> USE DEF queueVars, flagVars, eventVars, threadVars, histVars
<1>0. /\ TypeOK /\ ManagerInv' /\ HandlesOwn
      /\ m_jobQueue \in [Priority -> Seq(Job)] /\ m_processing \subseteq Job
      /\ item \in [Job -> Item] /\ heap \in [Job -> {"unborn", "live", "deleted"}]
  BY ManagerCancelHandlesOwn DEF ManagerInv, TypeOK
<1>1. CASE UNCHANGED vars
  BY <1>1 DEF vars, HandsOver, SameItem, Queued
<1>2. CASE CancelQueued(id)
  <2>1. PICK p \in Priority : \E k \in DOMAIN m_jobQueue[p] :
          /\ item' = [item EXCEPT ![m_jobQueue[p][k]] = NoItem]
          /\ heap' = [heap EXCEPT ![m_jobQueue[p][k]] = "deleted"]
    BY <1>2 DEF CancelQueued
  <2>2. PICK k \in DOMAIN m_jobQueue[p] :
          /\ item' = [item EXCEPT ![m_jobQueue[p][k]] = NoItem]
          /\ heap' = [heap EXCEPT ![m_jobQueue[p][k]] = "deleted"]
    BY <2>1
  <2>3. PICK i \in Job : i = m_jobQueue[p][k]
    BY <1>0, ElementOfSeq
  <2>4. heap'[i] = "deleted" /\ \A j \in Job : j # i => item'[j] = item[j]
    BY <1>0, <2>2, <2>3
  <2>5. ~Managed(i)'
    BY <1>0, <2>3, <2>4, ManagedIsLiveAfter
  <2>6. UNCHANGED <<m_processing, m_jobCounter, pc, job, cb, told>>
    BY <1>2 DEF CancelQueued
  <2>7. \A j \in Job : Queued(j)' => Queued(j)
    BY <1>0, <1>2, QueuedAfterCancel
  <2> QED BY <2>4, <2>5, <2>6, <2>7 DEF HandsOver, SameItem
<1>3. CASE CancelRunning(id)
  <2>1. /\ UNCHANGED <<m_jobQueue, m_processing, m_jobCounter, pc, job, cb, told>>
        /\ \E i \in m_processing : item' = [item EXCEPT ![i].callback = NULL]
    BY <1>3 DEF CancelRunning
  <2>2. PICK i \in m_processing : item' = [item EXCEPT ![i].callback = NULL]
    BY <2>1
  <2>3. \A j \in Job : item'[j] = IF j = i THEN [item[i] EXCEPT !.callback = NULL] ELSE item[j]
    BY <1>0, <2>2
  <2>4. \A j \in Job : SameItem(j)
    BY <1>0, <2>3 DEF SameItem, Item
  <2> QED BY <2>1, <2>4 DEF HandsOver, Queued
<1> QED BY <1>1, <1>2, <1>3 DEF ManagerCancel, CancelJob

(* While the queue keeps its jobs and their keys, the manager's steps move *)
(* jobs on.                                                                *)
LEMMA HandedMovesOn ==
  ASSUME HandlesOwn, HandsOver, UNCHANGED <<q_jobQueue, key, reported>>, dropped \subseteq dropped'
  PROVE  MovesOn
<1>1. \A j \in Job : heap[j] # "unborn" => heap'[j] # "unborn"
  BY DEF HandlesOwn
<1> QED BY <1>1 DEF HandlesOwn, HandsOver, MovesOn, Waits, InQueue

(* QueueNextJob passes on one of the jobs the caller has, if any.          *)
LEMMA QueueNextJobMovesOn ==
  ASSUME ManagerInv, Aside, NEW jobs, NEW procs, NEW pcs, SameWork(pcs),
         Owns(jobs, procs), QueueNextJob(jobs, procs, pcs),
         \A j \in ToSet(jobs) : Waits(j),
         \A j \in Job : heap[j] # "unborn" => heap'[j] # "unborn" /\ key'[j] = key[j],
         dropped \subseteq dropped', ToSet(reported) \subseteq ToSet(reported')
  PROVE  MovesOn /\ m_processing' = m_processing
<1>0. /\ jobs \in Seq(Job) /\ Distinct(jobs)
      /\ \A j \in ToSet(jobs) : j \in Job /\ ~Managed(j) /\ heap'[j] = "live"
  BY ByPosition DEF Owns
<1>1. /\ ManagerInv'
      /\ Leaves(jobs, procs) \/ PassesOn(jobs, procs) \/ TriesInVain(jobs, procs)
  BY <1>0, QueueNextJobKeeps
<1>2. m_processing' = m_processing
  BY DEF QueueNextJob, Enqueue, queueVars
<1>3. job' = job
  BY DEF Aside
<1>4. ToSet(q_jobQueue') \subseteq ToSet(jobs)
  <2>1. q_jobQueue' = jobs \/ (jobs # <<>> /\ q_jobQueue' = Front(jobs))
    BY <1>1 DEF Leaves, PassesOn, TriesInVain
  <2> QED BY <1>0, <2>1, FrontAndLast
<1>5. \A j \in Job : Managed(j)' => Managed(j) \/ j \in ToSet(jobs)
  BY <1>0, <1>1, FrontAndLast DEF Leaves, PassesOn, TriesInVain
<1>6. \A j \in Job : Queued(j)' => Managed(j)' /\ j \notin m_processing'
  BY <1>1, ManagedIsLiveAfter DEF Managed
<1>7. \A j \in Job : Managed(j) => item'[j] = item[j]
  BY <1>0, <1>1, FrontAndLast DEF Leaves, PassesOn, TriesInVain
<1>8. \A j \in Job : InQueue(j)' => j \in ToSet(jobs)
  BY <1>4 DEF InQueue
<1> QED BY <1>2, <1>3, <1>5, <1>6, <1>7, <1>8 DEF MovesOn, Waits, Managed, SameItem

(* A new job.                                                              *)
LEMMA AddMovesOn ==
  ASSUME QueueOwns, NEW j \in Job, NEW k \in Key, AddToQueue(j, k),
         key \in [Job -> Key \cup {NULL}]
  PROVE  MovesOn /\ m_processing' = m_processing
<1>0. /\ heap[j] = "unborn" /\ heap \in [Job -> {"unborn", "live", "deleted"}]
      /\ ManagerInv /\ q_jobQueue \in Seq(Job)
  BY DEF AddToQueue, QueueOwns, ManagerInv, TypeOK, QTypes
<1>1. /\ key' = [key EXCEPT ![j] = k] /\ UNCHANGED <<dropped, reported, job>>
      /\ \E s \in {"live", "deleted"} : heap' = [heap EXCEPT ![j] = s]
  BY DEF AddToQueue
<1>2. \A i \in Job : heap[i] # "unborn" => heap'[i] # "unborn" /\ key'[i] = key[i]
  BY <1>0, <1>1
<1>3. CASE UNCHANGED <<queueVars, q_jobQueue>>
  BY <1>0, <1>1, <1>2, <1>3 DEF MovesOn, Waits, InQueue, Queued, Managed, SameItem, queueVars
<1>4. CASE /\ heap' = [heap EXCEPT ![j] = "live"]
           /\ QueueNextJob(Inserted(j), q_processing, pc)
  <2>1. Owns(Inserted(j), q_processing) /\ Aside /\ SameWork(pc)
    BY <1>4, AddedIsOwned
  <2>2. ToSet(Inserted(j)) = ToSet(q_jobQueue) \cup {j}
    BY <1>0, Appended, Prepended DEF Inserted
  <2>3. \A i \in ToSet(Inserted(j)) : Waits(i)
    BY <1>0, <2>2 DEF Waits, InQueue
  <2> QED BY <1>0, <1>1, <1>2, <1>4, <2>1, <2>3, QueueNextJobMovesOn
<1> QED BY <1>3, <1>4 DEF AddToQueue

(* A report: what the queue owns stays its own.                            *)
LEMMA ReportOwns ==
  ASSUME QueueOwns, NEW w \in Worker, OnJobComplete(w), NEW procs \in Erasures(key[job[w]])
  PROVE  Owns(q_jobQueue, procs)
<1>1. procs \in Seq(Entry) /\ ToSet(procs) \subseteq Entries
  BY ErasuresType DEF QueueOwns
<1>2. heap' = heap /\ UNCHANGED <<q_lock, dropped>>
  BY DEF OnJobComplete
<1> QED BY <1>1, <1>2 DEF Owns, QueueOwns, QTypes, KeptBack, KnowsOwn, Owned, InQueue

LEMMA ReportMovesOn ==
  ASSUME QueueOwns, NEW w \in Worker, OnJobComplete(w), reported \in Seq(Job)
  PROVE  /\ MovesOn /\ m_processing' = m_processing
         /\ reported' \in Seq(Job) /\ ToSet(reported') = ToSet(reported) \cup {job[w]}
<1>0. ManagerInv /\ q_jobQueue \in Seq(Job)
  BY DEF QueueOwns, QTypes
<1>1. PICK procs \in Erasures(key[job[w]]) :
        QueueNextJob(q_jobQueue, procs, [pc EXCEPT ![w] = "erase"])
  BY DEF OnJobComplete
<1>2. UNCHANGED <<heap, key, dropped>> /\ reported' = Append(reported, job[w])
  BY DEF OnJobComplete
<1>3. Aside /\ SameWork([pc EXCEPT ![w] = "erase"]) /\ job[w] \in Job
  BY <1>0, ReportIsAside
<1>4. reported' \in Seq(Job) /\ ToSet(reported') = ToSet(reported) \cup {job[w]}
  BY <1>2, <1>3, Appended
<1>5. \A j \in ToSet(q_jobQueue) : Waits(j)
  BY DEF Waits, InQueue
<1> QED BY <1>0, <1>1, <1>2, <1>3, <1>4, <1>5, ReportOwns, QueueNextJobMovesOn

(* Jobs that are freed while kept back.                                    *)
LEMMA FreeMovesOn ==
  ASSUME QueueOwns, (\E k : CancelKeptBack(k)) \/ QueueCancelEnd
  PROVE  /\ MovesOn /\ \A j \in Job : Managed(j)' <=> Managed(j)
         /\ UNCHANGED <<queueVars, threadVars, told, reported, key>>
         /\ Entries' \subseteq Entries
         /\ dropped' \subseteq dropped \cup ToSet(q_jobQueue)
<1>0. /\ QTypes /\ Distinct(q_jobQueue) /\ q_jobQueue \in Seq(Job)
      /\ DOMAIN q_jobQueue = 1 .. Len(q_jobQueue)
      /\ heap \in [Job -> {"unborn", "live", "deleted"}]
      /\ ToSet(<<>>) = {}
  BY ByPosition, EmptySeq DEF QueueOwns, QTypes, KeptBack, ManagerInv, TypeOK, ToSet
<1>1. /\ UNCHANGED <<queueVars, threadVars, told, reported, key>>
      /\ dropped \subseteq dropped'
  BY DEF CancelKeptBack, QueueCancelEnd, histVars
<1>2. /\ Entries' \subseteq Entries /\ ToSet(q_jobQueue') \subseteq ToSet(q_jobQueue)
      /\ dropped' \subseteq dropped \cup ToSet(q_jobQueue)
      /\ \A j \in Job : heap[j] # "unborn" => heap'[j] # "unborn"
  <2>1. CASE \E k : CancelKeptBack(k)
    <3>1. PICK i \in 1 .. Len(q_jobQueue) :
            /\ heap' = [heap EXCEPT ![q_jobQueue[i]] = "deleted"]
            /\ q_jobQueue' = RemoveAt(q_jobQueue, i)
            /\ dropped' = dropped \cup {q_jobQueue[i]}
            /\ q_processing' = q_processing
      BY <1>0, <2>1 DEF CancelKeptBack
    <3>2. ToSet(q_jobQueue') \subseteq ToSet(q_jobQueue) /\ q_jobQueue[i] \in ToSet(q_jobQueue)
      BY <1>0, <3>1, RemovedAt, ByPosition
    <3> QED BY <1>0, <3>1, <3>2 DEF Entries
  <2>2. CASE QueueCancelEnd
    BY <1>0, <2>2 DEF QueueCancelEnd, Entries
  <2> QED BY <2>1, <2>2
<1>3. \A j \in Job : Queued(j)' <=> Queued(j)
  BY <1>1 DEF Queued, queueVars
<1> QED BY <1>1, <1>2, <1>3 DEF MovesOn, Managed, SameItem, Waits, InQueue, queueVars, threadVars

(* Whatever happens to the queue.                                          *)
LEMMA QueueMovesOn ==
  ASSUME QueueOwns, key \in [Job -> Key \cup {NULL}], reported \in Seq(Job), [QueueMoves]_qvars
  PROVE  MovesOn
<1>0. ManagerInv
  BY DEF QueueOwns
<1>1. CASE \E k : CancelPassedOn(k)
  <2>1. PICK id : ManagerCancel(id)
    BY <1>1 DEF CancelPassedOn
  <2>2. UNCHANGED <<q_jobQueue, key, reported>> /\ dropped \subseteq dropped'
    BY <1>1 DEF CancelPassedOn
  <2> QED BY <1>0, <2>1, <2>2, ManagerCancelHandlesOwn, CancelHandsOver, HandedMovesOn
<1>2. CASE QueueCancelEntry
  <2>1. PICK id : ManagerCancel(id)
    BY <1>2 DEF QueueCancelEntry
  <2>2. UNCHANGED <<q_jobQueue, key, reported>> /\ dropped \subseteq dropped'
    BY <1>2 DEF QueueCancelEntry, qVars
  <2> QED BY <1>0, <2>1, <2>2, ManagerCancelHandlesOwn, CancelHandsOver, HandedMovesOn
<1>3. CASE QueueCancelBegin \/ UNCHANGED qvars
  <2>1. UNCHANGED <<m_jobQueue, m_processing, item, job, heap, q_jobQueue, key, reported, dropped>>
    BY <1>3 DEF QueueCancelBegin, qvars, vars, queueVars, threadVars, qVars, qHist
  <2> QED BY <2>1 DEF MovesOn, Waits, InQueue, Queued, Managed, SameItem
<1>4. CASE ManagerRuns /\ UNCHANGED <<qVars, m_lifo, key, qHist>>
  <2>1. UNCHANGED <<q_jobQueue, key, reported, dropped>>
    BY <1>4 DEF qVars, qHist
  <2> QED BY <1>0, <1>4, <2>1, RunsHandleOwn, RunsHandOver, HandedMovesOn
<1> QED BY <1>1, <1>2, <1>3, <1>4, AddMovesOn, ReportMovesOn, FreeMovesOn DEF QueueMoves

-----------------------------------------------------------------------------
(* No two jobs the manager has got the same id                             *)

(* The jobs passed on are some of all.                                     *)
LEMMA PassedAreJobs ==
  /\ IsFiniteSet(Passed) /\ Cardinality(Passed) \in Nat
  /\ \A j \in Job \ Passed : Cardinality(Passed \cup {j}) = Cardinality(Passed) + 1
  /\ \A S \in SUBSET Job : Passed \subseteq S => Cardinality(Passed) <= Cardinality(S)
<1>1. Passed \subseteq Job /\ IsFiniteSet(Job)
  BY JobAssumption DEF Passed
<1>2. IsFiniteSet(Passed) /\ \A S \in SUBSET Job : IsFiniteSet(S)
  BY <1>1, FS_Subset
<1> QED BY <1>1, <1>2, FS_CardinalityType, FS_AddElement, FS_Subset

(* Steps that give the manager no job.                                     *)
LEMMA IdsFrame ==
  ASSUME QueueOwns, IdsInv, MovesOn, m_jobCounter' = m_jobCounter,
         \A j \in Job : Managed(j)' => Managed(j),
         \A e \in Entries' : e \in Entries \/ ~Managed(e.job)'
  PROVE  IdsInv'
<1>1. Passed \subseteq Passed' /\ Passed' \subseteq Job
  BY DEF MovesOn, Passed
<1>2. PICK m \in Nat : m = Cardinality(Passed)
  BY PassedAreJobs
<1>3. PICK n \in Nat : n = Cardinality(Passed') /\ m <= n
  <2>1. IsFiniteSet(Passed')
    BY <1>1, JobAssumption, FS_Subset
  <2> QED BY <1>1, <1>2, <2>1, PassedAreJobs, FS_CardinalityType
<1>4. m_jobCounter' <= Cardinality(Passed')
  <2>1. m_jobCounter \in Nat
    BY ParameterAssumption DEF QueueOwns, ManagerInv, TypeOK
  <2> QED BY <1>2, <1>3, <2>1 DEF IdsInv
<1>5. \A j \in Job : Managed(j)' => Managed(j) /\ item'[j].id = item[j].id
  BY DEF MovesOn, SameItem
<1>6. \A e \in Entries : e.job \in Job
  BY ListedAreJobs DEF QueueOwns
<1>7. \A e \in Entries' : Managed(e.job)' => item'[e.job].id = e.id
  BY <1>5, <1>6 DEF IdsInv
<1> QED BY <1>4, <1>5, <1>7 DEF IdsInv

(* QueueNextJob passes a job on under the next id.                         *)
LEMMA IdsPass ==
  ASSUME QueueOwns, IdsInv, MovesOn, Cardinality(Job) < IdModulus,
         NEW jobs, NEW procs, Owns(jobs, procs), ToSet(procs) \subseteq Entries,
         \A j \in ToSet(jobs) : Waits(j), PassesOn(jobs, procs)
  PROVE  IdsInv'
<1>0. /\ jobs \in Seq(Job) /\ procs \in Seq(Entry) /\ Distinct(jobs) /\ jobs # <<>>
      /\ m_jobCounter \in 0 .. IdModulus - 1
  BY DEF Owns, PassesOn, QueueOwns, ManagerInv, TypeOK
<1>1. PICK i \in Job : /\ i = Last(jobs) /\ i \in ToSet(jobs)
                       /\ ToSet(Front(jobs)) = ToSet(jobs) \ {i}
  BY <1>0, FrontAndLast
<1>2. /\ ~Managed(i) /\ heap'[i] = "live" /\ Waits(i)
      /\ \A e \in ToSet(procs) : e.job # i
  BY <1>1 DEF Owns
<1>3. Passed \cup {i} \subseteq Passed' /\ Passed' \subseteq Job /\ i \notin Passed
  <2>1. ~Waits(i)'
    BY <1>1, <1>2 DEF Waits, InQueue, PassesOn
  <2> QED BY <1>1, <1>2, <2>1 DEF MovesOn, Passed
<1>4. PICK c \in Nat, m \in Nat, n \in Nat, s \in Nat :
        /\ c = m_jobCounter /\ m = Cardinality(Passed) /\ c <= m
        /\ n = Cardinality(Passed') /\ m + 1 <= n
        /\ s = Cardinality(Job) /\ n <= s /\ s < IdModulus
  <2>1. IsFiniteSet(Job) /\ IsFiniteSet(Passed')
    BY <1>3, JobAssumption, FS_Subset
  <2>2. /\ Cardinality(Passed \cup {i}) = Cardinality(Passed) + 1
        /\ Cardinality(Passed \cup {i}) <= Cardinality(Passed')
        /\ Cardinality(Passed') <= Cardinality(Job)
    BY <1>3, <2>1, JobAssumption, PassedAreJobs, FS_Subset
  <2>3. /\ Cardinality(Passed) \in Nat /\ Cardinality(Passed') \in Nat /\ Cardinality(Job) \in Nat
        /\ m_jobCounter \in Nat
    BY <1>0, <2>1, ParameterAssumption, PassedAreJobs, FS_CardinalityType
  <2> QED BY <2>2, <2>3 DEF IdsInv
<1>5. NextId(m_jobCounter) = c + 1
  <2>1. c + 1 < IdModulus
    BY <1>4, ParameterAssumption
  <2>2. (c + 1) % IdModulus = c + 1
    BY <1>4, <2>1, ParameterAssumption, SMT
  <2> QED BY <1>4, <2>2 DEF NextId
<1>6. /\ m_jobCounter' = c + 1 /\ item'[i].id = c + 1
      /\ \A j \in Job : j # i => item'[j] = item[j]
      /\ \A j \in Job : Managed(j)' <=> Managed(j) \/ j = i
      /\ q_processing' = Append(procs, [job |-> i, id |-> c + 1])
  BY <1>1, <1>5 DEF PassesOn
<1>7. m_jobCounter' <= Cardinality(Passed')
  BY <1>4, <1>6
<1>8. \A j \in Job : Managed(j) => item[j].id \in Nat /\ item[j].id <= c /\ j # i
  BY <1>2, <1>4, ParameterAssumption DEF IdsInv, QueueOwns, ManagerInv, TypeOK, Item
<1>9. \A j \in Job : Managed(j)' => item'[j].id <= m_jobCounter'
  BY <1>4, <1>6, <1>8
<1>10. \A j, k \in Job : Managed(j)' /\ Managed(k)' /\ item'[j].id = item'[k].id => j = k
  <2>1. \A j, k \in Job : Managed(j) /\ Managed(k) /\ item'[j].id = item'[k].id => j = k
    BY <1>6, <1>8 DEF IdsInv
  <2>2. \A j \in Job : Managed(j) => item'[j].id # item'[i].id
    BY <1>4, <1>6, <1>8
  <2> QED BY <1>6, <2>1, <2>2
<1>11. \A e \in Entries' : Managed(e.job)' => item'[e.job].id = e.id
  <2>1. PICK f \in Entry : f = [job |-> i, id |-> c + 1]
    <3>1. c + 1 \in 0 .. IdModulus - 1
      BY <1>4, ParameterAssumption
    <3> QED BY <3>1 DEF Entry
  <2>2. Entries' = ToSet(procs) \cup {f}
    BY <1>0, <1>6, <2>1, Appended DEF Entries
  <2>3. f.job = i /\ f.id = c + 1
    BY <2>1
  <2>4. \A e \in ToSet(procs) : e \in Entries /\ e.job \in Job /\ e.job # i
    BY <1>2, ListedAreJobs DEF QueueOwns
  <2>5. \A e \in ToSet(procs) : Managed(e.job)' => item'[e.job].id = e.id
    BY <1>6, <2>4 DEF IdsInv
  <2> QED BY <1>6, <2>2, <2>3, <2>5
<1> QED BY <1>7, <1>9, <1>10, <1>11 DEF IdsInv

LEMMA IdsQueueNextJob ==
  ASSUME QueueOwns, IdsInv, MovesOn, Cardinality(Job) < IdModulus, Aside,
         NEW jobs, NEW procs, NEW pcs, SameWork(pcs), Owns(jobs, procs),
         ToSet(procs) \subseteq Entries, \A j \in ToSet(jobs) : Waits(j),
         QueueNextJob(jobs, procs, pcs)
  PROVE  IdsInv'
<1>0. /\ jobs \in Seq(Job) /\ procs \in Seq(Entry) /\ Distinct(jobs) /\ ManagerInv
      /\ \A j \in ToSet(jobs) : ~Managed(j) /\ heap'[j] = "live"
  BY DEF Owns, QueueOwns
<1>1. Leaves(jobs, procs) \/ PassesOn(jobs, procs) \/ TriesInVain(jobs, procs)
  BY <1>0, QueueNextJobKeeps
<1>2. CASE Leaves(jobs, procs)
  BY <1>2, IdsFrame DEF Leaves, Entries
<1>3. CASE TriesInVain(jobs, procs)
  <2>1. PICK i \in Job : i = Last(jobs) /\ i \in ToSet(jobs)
    BY <1>0, <1>3, FrontAndLast DEF TriesInVain
  <2>2. PICK f \in Entry : f = [job |-> i, id |-> 0]
    <3>1. 0 \in 0 .. IdModulus - 1
      BY ParameterAssumption
    <3> QED BY <3>1 DEF Entry
  <2>3. Entries' = ToSet(procs) \cup {f} /\ f.job = i
    BY <1>0, <1>3, <2>1, <2>2, Appended DEF TriesInVain, Entries
  <2>4. /\ m_jobCounter' = m_jobCounter
        /\ \A j \in Job : Managed(j)' <=> Managed(j)
    BY <1>3 DEF TriesInVain
  <2>5. \A e \in Entries' : e \in Entries \/ ~Managed(e.job)'
    BY <1>0, <2>1, <2>3, <2>4
  <2> QED BY <2>4, <2>5, IdsFrame
<1> QED BY <1>1, <1>2, <1>3, IdsPass

(* A cancellation gives the manager no job and takes none back.            *)
LEMMA CancelMoves ==
  ASSUME QueueOwns, (\E k : CancelPassedOn(k)) \/ QueueCancelEntry
  PROVE  /\ \A j \in Job : Managed(j)' => Managed(j)
         /\ Entries' \subseteq Entries
         /\ UNCHANGED <<m_processing, m_jobCounter, pc, job, cb, told, reported, key>>
<1>0. ManagerInv /\ q_processing \in Seq(Entry) /\ DOMAIN q_processing = 1 .. Len(q_processing)
  BY ByPosition DEF QueueOwns, QTypes
<1>1. PICK id : ManagerCancel(id)
  BY DEF CancelPassedOn, QueueCancelEntry
<1>2. /\ \A j \in Job : Managed(j)' => Managed(j)
      /\ UNCHANGED <<m_processing, m_jobCounter, pc, job, cb, told>>
  BY <1>0, <1>1, ManagerCancelHandlesOwn, CancelHandsOver DEF HandlesOwn
<1>3. UNCHANGED <<reported, key>>
  BY DEF CancelPassedOn, QueueCancelEntry
<1>4. Entries' \subseteq Entries
  <2>1. CASE \E k : CancelPassedOn(k)
    <3>1. PICK i \in 1 .. Len(q_processing) : q_processing' = RemoveAt(q_processing, i)
      BY <1>0, <2>1 DEF CancelPassedOn
    <3> QED BY <1>0, <3>1, RemovedAt DEF Entries
  <2>2. CASE QueueCancelEntry
    BY <2>2 DEF QueueCancelEntry, qVars, Entries
  <2> QED BY <2>1, <2>2
<1> QED BY <1>2, <1>3, <1>4

(* Every step keeps the ids apart, as long as the counter does not come    *)
(* round.                                                                  *)
LEMMA IdsStep ==
  ASSUME QueueOwns, IdsInv, Cardinality(Job) < IdModulus,
         key \in [Job -> Key \cup {NULL}], reported \in Seq(Job), [QueueMoves]_qvars
  PROVE  IdsInv'
<1>0. MovesOn /\ ManagerInv /\ q_jobQueue \in Seq(Job)
  BY QueueMovesOn DEF QueueOwns, QTypes
<1>1. CASE (\E k : CancelPassedOn(k)) \/ QueueCancelEntry
  <2>1. /\ m_jobCounter' = m_jobCounter /\ Entries' \subseteq Entries
        /\ \A j \in Job : Managed(j)' => Managed(j)
    BY <1>1, CancelMoves
  <2> QED BY <1>0, <2>1, IdsFrame
<1>2. CASE (\E k : CancelKeptBack(k)) \/ QueueCancelEnd
  <2>1. /\ UNCHANGED queueVars /\ Entries' \subseteq Entries
        /\ \A j \in Job : Managed(j)' <=> Managed(j)
    BY <1>2, FreeMovesOn
  <2> QED BY <1>0, <2>1, IdsFrame DEF queueVars
<1>3. CASE QueueCancelBegin \/ UNCHANGED qvars
  <2>1. UNCHANGED <<m_jobQueue, m_processing, m_jobCounter, q_processing>>
    BY <1>3 DEF QueueCancelBegin, qvars, vars, queueVars, qVars
  <2> QED BY <1>0, <2>1, IdsFrame DEF Managed, Queued, Entries
<1>4. CASE ManagerRuns /\ UNCHANGED <<qVars, m_lifo, key, qHist>>
  <2>1. Entries' = Entries
    BY <1>4 DEF qVars, Entries
  <2>2. m_jobCounter' = m_jobCounter /\ \A j \in Job : Managed(j)' => Managed(j)
    BY <1>0, <1>4, RunsHandleOwn, RunsHandOver DEF HandlesOwn, HandsOver
  <2> QED BY <1>0, <2>1, <2>2, IdsFrame
<1>5. ASSUME NEW j \in Job, NEW k \in Key, AddToQueue(j, k)
      PROVE  IdsInv'
  <2>1. CASE UNCHANGED <<queueVars, q_processing>>
    BY <1>0, <2>1, IdsFrame DEF queueVars, Managed, Queued, Entries
  <2>2. CASE heap' = [heap EXCEPT ![j] = "live"] /\ QueueNextJob(Inserted(j), q_processing, pc)
    <3>1. Owns(Inserted(j), q_processing) /\ Aside /\ SameWork(pc)
      BY <1>5, <2>2, AddedIsOwned
    <3>2. ToSet(Inserted(j)) = ToSet(q_jobQueue) \cup {j}
      BY <1>0, Appended, Prepended DEF Inserted
    <3>3. \A i \in ToSet(Inserted(j)) : Waits(i)
      BY <1>5, <3>2 DEF Waits, InQueue, AddToQueue
    <3> QED BY <1>0, <2>2, <3>1, <3>3, IdsQueueNextJob DEF Entries
  <2> QED BY <1>5, <2>1, <2>2 DEF AddToQueue
<1>6. ASSUME NEW w \in Worker, OnJobComplete(w)
      PROVE  IdsInv'
  <2>1. PICK procs \in Erasures(key[job[w]]) :
          QueueNextJob(q_jobQueue, procs, [pc EXCEPT ![w] = "erase"])
    BY <1>6 DEF OnJobComplete
  <2>2. Owns(q_jobQueue, procs) /\ ToSet(procs) \subseteq Entries
    BY <1>6, ReportOwns, ErasuresType DEF QueueOwns
  <2>3. Aside /\ SameWork([pc EXCEPT ![w] = "erase"])
    BY <1>0, <1>6, ReportIsAside
  <2>4. \A j \in ToSet(q_jobQueue) : Waits(j)
    BY DEF Waits, InQueue
  <2> QED BY <1>0, <2>1, <2>2, <2>3, <2>4, IdsQueueNextJob
<1> QED BY <1>1, <1>2, <1>3, <1>4, <1>5, <1>6 DEF QueueMoves

-----------------------------------------------------------------------------
(* The threads                                                             *)

(* A thread another one's step leaves at its job, or without any.          *)
Rests(w) ==
  /\ job'[w] = job[w] /\ cb'[w] = cb[w]
  /\ pc'[w] = pc[w] \/ (pc[w] \notin Busy /\ pc'[w] \notin Busy)

(* The job a thread is at: nobody else has it, and it is past the queue.   *)
LEMMA AtWork ==
  ASSUME QueueOwns, NEW w \in Worker, pc[w] \in Busy
  PROVE  /\ job[w] \in Job /\ job[w] \in m_processing /\ heap[job[w]] = "live"
         /\ Managed(job[w]) /\ Begun(job[w])
         /\ \A v \in Worker : job[v] = job[w] => v = w
<1>0. ManagerInv /\ TypeOK /\ ThreadInv /\ QueueInv /\ KeptBack
  BY DEF QueueOwns, ManagerInv
<1>1. PICK j \in Job : j = job[w] /\ j \in m_processing
  BY <1>0 DEF ThreadInv, TypeOK
<1>2. Managed(j) /\ heap[j] = "live"
  BY <1>0, <1>1 DEF Managed, QueueInv
<1>3. ~Queued(j)
  BY <1>0, <1>1, QueuedJobs
<1>4. ~InQueue(j)
  BY <1>0, <1>2 DEF KeptBack, InQueue
<1>5. \A v \in Worker : job[v] = j => v = w
  BY <1>0, <1>1, JobAssumption DEF ThreadInv
<1> QED BY <1>1, <1>2, <1>3, <1>4, <1>5 DEF Begun, Waits

(* A worker's step leaves the others where they are.                       *)
LEMMA OthersRest ==
  ASSUME ManagerInv, NEW w \in Worker, NEW v \in Worker, v # w, WorkerStep(w) \/ CheckCancel(w)
  PROVE  Rests(v)
<1>0. /\ pc \in [Worker -> WorkerStates] /\ job \in [Worker -> Job \cup {NULL}]
      /\ cb \in [Worker -> Callback \cup {NULL}]
  BY DEF ManagerInv, TypeOK
<1>1. pc'[v] = pc[v] /\ job'[v] = job[v] /\ cb'[v] = cb[v]
  BY <1>0 DEF WorkerStep, TakeJob, LeaveLock, WaitForEvent, WakeUp, TimeOut, Retire, ExitThread,
     ProgressDone, JobDone, NotifyClient, EraseJob, CheckCancel
<1> QED BY <1>1 DEF Rests

(* QueueNextJob leaves the threads where the caller has them, but for one  *)
(* that it starts.                                                         *)
LEMMA QueueNextJobRests ==
  ASSUME QueueOwns, QueueOwns', NEW jobs, NEW procs, NEW pcs, SameWork(pcs),
         QueueNextJob(jobs, procs, pcs), UNCHANGED <<job, cb>>,
         NEW v \in Worker
  PROVE  /\ pcs[v] = pc[v] => Rests(v)
         /\ pc[v] \in Busy => pc'[v] = pcs[v]
<1>0. ThreadInv /\ ThreadInv' /\ TypeOK
  BY DEF QueueOwns, ManagerInv
<1>1. pc'[v] = pcs[v] \/ pc'[v] = "next"
  BY QueueNextJobThreads
<1>2. pc'[v] = "next" => pc[v] \notin Busy
  <2>1. pc'[v] = "next" => job[v] = NULL
    BY <1>0 DEF ThreadInv, Busy
  <2>2. pc[v] \in Busy => job[v] # NULL
    BY JobAssumption, AtWork
  <2> QED BY <2>1, <2>2
<1> QED BY <1>1, <1>2 DEF Rests, Busy

(* So does the queue when it is given a job, ...                           *)
LEMMA AddRests ==
  ASSUME QueueOwns, QueueOwns', NEW j, NEW k, AddToQueue(j, k), NEW v \in Worker
  PROVE  Rests(v)
<1>1. UNCHANGED <<job, cb>> /\ SameWork(pc)
  BY DEF AddToQueue, SameWork, QueueOwns, ManagerInv, TypeOK
<1>2. CASE pc' = pc
  BY <1>1, <1>2 DEF Rests
<1>3. CASE QueueNextJob(Inserted(j), q_processing, pc)
  BY <1>1, <1>3, QueueNextJobRests
<1> QED BY <1>2, <1>3 DEF AddToQueue

(* ... when it cancels jobs, ...                                           *)
LEMMA CancelRests ==
  ASSUME QueueOwns, NEW v \in Worker,
         \/ (\E k : CancelPassedOn(k) \/ CancelKeptBack(k))
         \/ QueueCancelBegin \/ QueueCancelEntry \/ QueueCancelEnd
  PROVE  Rests(v) /\ UNCHANGED <<told, pc, job, cb>>
<1>1. CASE QueueCancelBegin
  BY <1>1 DEF QueueCancelBegin, vars, threadVars, histVars, Rests
<1>2. CASE (\E k : CancelKeptBack(k)) \/ QueueCancelEnd
  BY <1>2 DEF CancelKeptBack, QueueCancelEnd, threadVars, histVars, Rests
<1>3. CASE (\E k : CancelPassedOn(k)) \/ QueueCancelEntry
  BY <1>3, CancelMoves DEF Rests
<1> QED BY <1>1, <1>2, <1>3

(* ... and when a worker reports one.                                      *)
LEMMA ReportRests ==
  ASSUME QueueOwns, QueueOwns', NEW w \in Worker, OnJobComplete(w)
  PROVE  /\ pc'[w] = "erase" /\ job' = job /\ cb' = cb
         /\ \A v \in Worker : v # w => Rests(v)
<1>0. /\ ManagerInv /\ pc \in [Worker -> WorkerStates]
      /\ pc[w] \in Busy /\ UNCHANGED <<job, cb>>
  BY DEF OnJobComplete, QueueOwns, ManagerInv, TypeOK, Busy
<1>1. PICK procs \in Erasures(key[job[w]]) :
        QueueNextJob(q_jobQueue, procs, [pc EXCEPT ![w] = "erase"])
  BY DEF OnJobComplete
<1>2. SameWork([pc EXCEPT ![w] = "erase"])
  BY <1>0, ReportIsAside
<1>3. \A v \in Worker : v # w => Rests(v)
  BY <1>0, <1>1, <1>2, QueueNextJobRests
<1>4. pc'[w] = [pc EXCEPT ![w] = "erase"][w]
  BY <1>0, <1>1, <1>2, QueueNextJobRests
<1> QED BY <1>0, <1>3, <1>4

-----------------------------------------------------------------------------
(* Reports                                                                 *)

LEMMA ReportedStep ==
  ASSUME QueueOwns, QueueOwns', ReportedInv, key \in [Job -> Key \cup {NULL}],
         reported \in Seq(Job), [QueueMoves]_qvars
  PROVE  ReportedInv' /\ reported' \in Seq(Job)
<1>0. MovesOn /\ ManagerInv /\ TypeOK /\ \A j \in ToSet(reported) : j \in Job
  BY QueueMovesOn, ByPosition DEF QueueOwns, ManagerInv
<1>1. \A j \in Job : Begun(j) => Begun(j)'
  BY <1>0 DEF MovesOn, Begun
<1>2. \A j \in Job : \A w \in Worker : Begun(j) /\ job'[w] = j => job[w] = j
  BY <1>0, JobAssumption DEF MovesOn, Begun
<1>3. ASSUME NEW w \in Worker, OnJobComplete(w) PROVE ReportedInv' /\ reported' \in Seq(Job)
  <2>1. /\ pc[w] = "callback" /\ pc[w] \in Busy
        /\ pc'[w] = "erase" /\ job' = job /\ \A v \in Worker : v # w => Rests(v)
    BY <1>3, ReportRests DEF OnJobComplete, Busy
  <2>2. reported' \in Seq(Job) /\ ToSet(reported') = ToSet(reported) \cup {job[w]}
    BY <1>3, ReportMovesOn
  <2>3. Begun(job[w]) /\ job[w] \in Job /\ \A v \in Worker : job[v] = job[w] => v = w
    BY <2>1, AtWork
  <2>4. ASSUME NEW j \in ToSet(reported), NEW v \in Worker, job[v] = j PROVE pc'[v] = "erase"
    BY <2>1, <2>4 DEF ReportedInv, Rests, Busy
  <2>5. \A j \in ToSet(reported') : Begun(j) /\ j \in Job
    BY <1>0, <2>2, <2>3 DEF ReportedInv
  <2> QED BY <1>1, <2>1, <2>2, <2>3, <2>4, <2>5 DEF ReportedInv
<1>4. ASSUME reported' = reported, \A v \in Worker : pc[v] = "erase" => Rests(v) \/ job'[v] = NULL
      PROVE  ReportedInv' /\ reported' \in Seq(Job)
  <2>1. ASSUME NEW j \in ToSet(reported), NEW v \in Worker, job'[v] = j PROVE pc'[v] = "erase"
    <3>1. job[v] = j /\ j # NULL /\ pc[v] = "erase"
      BY <1>0, <1>2, <2>1, JobAssumption DEF ReportedInv
    <3> QED BY <1>4, <2>1, <3>1 DEF Rests, Busy
  <2>2. \A j \in ToSet(reported) : Begun(j)'
    BY <1>0, <1>1 DEF ReportedInv
  <2> QED BY <1>4, <2>1, <2>2 DEF ReportedInv
<1>5. CASE ManagerRuns /\ UNCHANGED <<qVars, m_lifo, key, qHist>>
  <2>1. reported' = reported
    BY <1>5 DEF qHist
  <2>2. ASSUME NEW w \in Worker, WorkerStep(w) \/ CheckCancel(w), NEW v \in Worker, pc[v] = "erase"
        PROVE  Rests(v) \/ job'[v] = NULL
    <3>1. CASE v # w
      BY <1>0, <2>2, <3>1, OthersRest
    <3>2. CASE v = w
      <4>1. EraseJob(w)
        BY <2>2, <3>2 DEF WorkerStep, TakeJob, LeaveLock, WaitForEvent, WakeUp, TimeOut, Retire,
           ExitThread, ProgressDone, JobDone, NotifyClient, CheckCancel
      <4> QED BY <1>0, <3>2, <4>1 DEF EraseJob, TypeOK
    <3> QED BY <3>1, <3>2
  <2>3. ASSUME UNCHANGED threadVars, NEW v \in Worker PROVE Rests(v)
    BY <2>3 DEF threadVars, Rests
  <2>4. (\E w \in Worker : WorkerStep(w) \/ CheckCancel(w)) \/ UNCHANGED threadVars
    BY <1>5 DEF ManagerRuns, PauseJobs, UnPauseJobs, CancelJobsBegin, CancelJobsSignal,
                CancelJobsReturn, Restart
  <2> QED BY <1>4, <2>1, <2>2, <2>3, <2>4
<1>6. CASE UNCHANGED qvars
  <2>1. UNCHANGED <<reported, pc, job, cb>>
    BY <1>6 DEF qvars, vars, threadVars, qHist
  <2> QED BY <1>4, <2>1 DEF Rests
<1>7. CASE \/ (\E k : CancelPassedOn(k) \/ CancelKeptBack(k))
           \/ QueueCancelBegin \/ QueueCancelEntry \/ QueueCancelEnd
  <2>1. reported' = reported
    BY <1>7 DEF CancelPassedOn, CancelKeptBack, QueueCancelBegin, QueueCancelEntry, QueueCancelEnd,
                qHist
  <2> QED BY <1>4, <1>7, <2>1, CancelRests
<1>8. ASSUME NEW j \in Job, NEW k \in Key, AddToQueue(j, k) PROVE ReportedInv' /\ reported' \in Seq(Job)
  <2>1. reported' = reported
    BY <1>8 DEF AddToQueue
  <2> QED BY <1>4, <1>8, <2>1, AddRests
<1> QED BY <1>3, <1>5, <1>6, <1>7, <1>8 DEF QueueMoves

-----------------------------------------------------------------------------
(* Cancelled jobs                                                          *)

(* Cancelling an entry's id silences the entry's job, and no other one.    *)
LEMMA CancelHits ==
  ASSUME QueueOwns, IdsInv, NEW id, ManagerCancel(id),
         NEW j \in Job, Managed(j), item[j].id = id, Managed(j)'
  PROVE  item'[j].callback = NULL
<1>0. /\ ManagerInv /\ ManagerInv' /\ TypeOK /\ m_processing \subseteq Job
      /\ item \in [Job -> Item] /\ heap \in [Job -> {"unborn", "live", "deleted"}]
      /\ m_jobQueue \in [Priority -> Seq(Job)]
  BY ManagerCancelHandlesOwn DEF QueueOwns, ManagerInv, TypeOK
<1>1. \A i \in Job : Managed(i) /\ item[i].id = id => i = j
  BY DEF IdsInv
<1>2. ASSUME CancelQueued(id) PROVE FALSE
  <2>1. PICK p \in Priority : \E k \in DOMAIN m_jobQueue[p] :
          /\ FirstQueued(id, p, k)
          /\ heap' = [heap EXCEPT ![m_jobQueue[p][k]] = "deleted"]
    BY <1>2 DEF CancelQueued
  <2>2. PICK k \in DOMAIN m_jobQueue[p] :
          /\ FirstQueued(id, p, k)
          /\ heap' = [heap EXCEPT ![m_jobQueue[p][k]] = "deleted"]
    BY <2>1
  <2>3. PICK i \in Job : i = m_jobQueue[p][k] /\ Queued(i) /\ item[i].id = id
    <3>1. m_jobQueue[p][k] \in Job
      BY <1>0, ElementOfSeq
    <3> QED BY <2>2, <3>1 DEF FirstQueued, Queued
  <2>4. heap'[j] = "deleted"
    BY <1>0, <1>1, <2>2, <2>3 DEF Managed
  <2> QED BY <1>0, <2>4, ManagedIsLiveAfter
<1>3. CancelRunning(id)
  BY <1>2 DEF ManagerCancel, CancelJob, Managed
<1>4. PICK i \in m_processing : item[i].id = id /\ item' = [item EXCEPT ![i].callback = NULL]
  BY <1>3 DEF CancelRunning
<1>5. i = j
  BY <1>0, <1>1, <1>4 DEF Managed
<1>6. item'[j] = [item[j] EXCEPT !.callback = NULL]
  BY <1>0, <1>4, <1>5
<1> QED BY <1>0, <1>6 DEF Item

(* A job taken off the queue, or told to stop, never gets a callback back. *)
LEMMA SilentStep ==
  ASSUME QueueOwns, IdsInv, SilentInv, key \in [Job -> Key \cup {NULL}],
         reported \in Seq(Job), [QueueMoves]_qvars
  PROVE  SilentInv'
<1> DEFINE Silent(j) == Managed(j) => item[j].callback = NULL
<1>0. MovesOn /\ ManagerInv /\ dropped \subseteq Job /\ told \subseteq Job
  BY QueueMovesOn DEF QueueOwns, ManagerInv, TypeOK, QTypes
<1>1. \A j \in Job : /\ ~Waits(j) /\ Silent(j) => Silent(j)'
                     /\ Begun(j) => Begun(j)'
  BY <1>0 DEF MovesOn, SameItem, Begun
<1>2. \A j \in dropped : ~Waits(j) /\ Silent(j)
  BY DEF QueueOwns, KnowsOwn, KeptBack, SilentInv, Waits, InQueue
<1>3. \A j \in told : ~Waits(j) /\ Begun(j) /\ Silent(j)
  BY DEF SilentInv, Begun
<1>4. ASSUME \A j \in dropped' : j \in dropped \/ (j \in Job /\ Silent(j)'),
             \A j \in told' : j \in told \/ (j \in Job /\ Begun(j) /\ Silent(j))
      PROVE  SilentInv'
  <2>1. \A j \in dropped' : Silent(j)'
    BY <1>0, <1>1, <1>2, <1>4
  <2>2. \A j \in told' : Begun(j)' /\ Silent(j)'
    BY <1>0, <1>1, <1>3, <1>4 DEF Begun
  <2> QED BY <2>1, <2>2 DEF SilentInv
<1>5. CASE (\E k : CancelPassedOn(k)) \/ QueueCancelEntry
  <2>1. PICK e \in Entries : ManagerCancel(e.id) /\ dropped' = dropped \cup {e.job}
    <3>1. q_processing \in Seq(Entry) /\ DOMAIN q_processing = 1 .. Len(q_processing)
      BY ByPosition DEF QueueOwns, QTypes
    <3> QED BY <1>5, <3>1, ByPosition DEF CancelPassedOn, QueueCancelEntry, Entries
  <2>2. PICK j \in Job : j = e.job
    BY <2>1, ListedAreJobs DEF QueueOwns
  <2>3. Managed(j)' => Managed(j)
    BY <1>5, CancelMoves
  <2>4. Silent(j)'
    BY <2>1, <2>2, <2>3, CancelHits DEF IdsInv
  <2>5. told' = told
    BY <1>5, CancelMoves
  <2> QED BY <1>4, <2>1, <2>2, <2>4, <2>5
<1>6. CASE (\E k : CancelKeptBack(k)) \/ QueueCancelEnd
  <2>1. /\ told' = told /\ dropped' \subseteq dropped \cup ToSet(q_jobQueue)
        /\ \A j \in Job : Managed(j)' <=> Managed(j)
    BY <1>6, FreeMovesOn
  <2>2. \A j \in ToSet(q_jobQueue) : j \in Job /\ ~Managed(j)
    BY ListedAreJobs DEF QueueOwns, KeptBack
  <2> QED BY <1>4, <2>1, <2>2
<1>7. CASE ManagerRuns /\ UNCHANGED <<qVars, m_lifo, key, qHist>>
  <2>1. dropped' = dropped
    BY <1>7 DEF qHist
  <2>2. CASE told' = told
    BY <1>4, <2>1, <2>2
  <2>3. ASSUME NEW w \in Worker, CheckCancel(w), told' # told
        PROVE  SilentInv'
    <3>1. /\ item[job[w]].callback = NULL /\ told' = told \cup {job[w]} /\ pc[w] \in Busy
      BY <2>3 DEF CheckCancel, Busy
    <3>2. job[w] \in Job /\ Begun(job[w])
      BY <3>1, AtWork
    <3> QED BY <1>4, <2>1, <3>1, <3>2
  <2>4. told' = told \/ \E w \in Worker : CheckCancel(w)
    BY <1>7 DEF ManagerRuns, WorkerStep, TakeJob, LeaveLock, WaitForEvent, WakeUp, TimeOut,
       Retire, ExitThread, ProgressDone, JobDone, NotifyClient, EraseJob, PauseJobs, UnPauseJobs,
       CancelJobsBegin, CancelJobsSignal, CancelJobsReturn, Restart, histVars
  <2> QED BY <2>2, <2>3, <2>4
<1>8. CASE \/ QueueCancelBegin \/ UNCHANGED qvars
           \/ (\E j \in Job, k \in Key : AddToQueue(j, k))
           \/ (\E w \in Worker : OnJobComplete(w))
  <2>1. UNCHANGED <<dropped, told>>
    BY <1>8 DEF QueueCancelBegin, AddToQueue, OnJobComplete, qvars, vars, histVars, qHist
  <2> QED BY <1>4, <2>1
<1> QED BY <1>5, <1>6, <1>7, <1>8 DEF QueueMoves

-----------------------------------------------------------------------------
(* What the queue knows of the manager's jobs                              *)

(* A late report stays one.                                                *)
LEMMA LateStays ==
  ASSUME QueueOwns, MovesOn, NEW u, ReportedLate(u)
  PROVE  ReportedLate(u)'
<1>1. PICK j \in dropped : key[j] = u /\ j \in ToSet(reported)
  BY DEF ReportedLate
<1>2. j \in Job /\ heap[j] # "unborn"
  BY DEF QueueOwns, QTypes, KnowsOwn
<1>3. j \in dropped' /\ key'[j] = u /\ j \in ToSet(reported')
  BY <1>1, <1>2 DEF MovesOn
<1> QED BY <1>3 DEF ReportedLate

(* QueueNextJob files whatever it passes on.                               *)
LEMMA QueueNextJobKnows ==
  ASSUME ManagerInv, Aside, NEW jobs, NEW procs, NEW pcs, SameWork(pcs),
         Owns(jobs, procs), QueueNextJob(jobs, procs, pcs)
  PROVE  /\ ToSet(procs) \subseteq Entries'
         /\ \A j \in Job : Managed(j)' => Managed(j) \/ \E e \in Entries' : e.job = j
<1>0. /\ jobs \in Seq(Job) /\ procs \in Seq(Entry)
      /\ \A j \in ToSet(jobs) : ~Managed(j) /\ heap'[j] = "live"
  BY DEF Owns
<1>1. Leaves(jobs, procs) \/ PassesOn(jobs, procs) \/ TriesInVain(jobs, procs)
  BY <1>0, QueueNextJobKeeps
<1>2. CASE Leaves(jobs, procs)
  BY <1>2 DEF Leaves, Entries
<1>3. CASE PassesOn(jobs, procs) \/ TriesInVain(jobs, procs)
  <2>1. PICK i \in Job : i = Last(jobs)
    BY <1>0, <1>3, FrontAndLast DEF PassesOn, TriesInVain
  <2>2. PICK id \in 0 .. IdModulus - 1 : q_processing' = Append(procs, [job |-> i, id |-> id])
    <3>1. m_jobCounter \in 0 .. IdModulus - 1 /\ 0 \in 0 .. IdModulus - 1
      BY ParameterAssumption DEF ManagerInv, TypeOK
    <3>2. NextId(m_jobCounter) \in 0 .. IdModulus - 1
      BY <3>1, NextIdType, ParameterAssumption, SMT
    <3> QED BY <1>3, <2>1, <3>1, <3>2 DEF PassesOn, TriesInVain
  <2>3. PICK f \in Entry : f = [job |-> i, id |-> id]
    BY DEF Entry
  <2>4. Entries' = ToSet(procs) \cup {f} /\ f.job = i
    BY <1>0, <2>2, <2>3, Appended DEF Entries
  <2>5. \A j \in Job : Managed(j)' => Managed(j) \/ j = i
    BY <1>3, <2>1 DEF PassesOn, TriesInVain
  <2> QED BY <2>4, <2>5
<1> QED BY <1>1, <1>2, <1>3

(* A job the manager has stays known as long as its entry does; what takes *)
(* the entry away makes up for it.                                         *)
LEMMA KnownFrame ==
  ASSUME QueueOwns, MovesOn, KnownInv,
         \A j \in Job : Managed(j)' => Managed(j) \/ \E e \in Entries' : e.job = j,
         \A e \in Entries : Managed(e.job) /\ e.job \notin ToSet(reported') =>
           e \in Entries' \/ e.job \in dropped' \/ ReportedLate(key[e.job])'
  PROVE  KnownInv'
<1> SUFFICES ASSUME NEW j \in Job, Managed(j)', j \notin ToSet(reported')
             PROVE  (\E e \in Entries' : e.job = j) \/ j \in dropped' \/ ReportedLate(key[j])'
  BY DEF KnownInv
<1>1. CASE ~Managed(j)
  BY <1>1
<1>2. CASE Managed(j)
  <2>0. key'[j] = key[j] /\ j \notin ToSet(reported) /\ dropped \subseteq dropped'
    BY <1>2, ManagedIsLive DEF MovesOn, QueueOwns
  <2>1. (\E e \in Entries : e.job = j) \/ j \in dropped \/ ReportedLate(key[j])
    BY <1>2, <2>0 DEF KnownInv
  <2>2. CASE ReportedLate(key[j])
    <3>1. PICK u : u = key[j] /\ u = key'[j]
      BY <2>0
    <3>2. ReportedLate(u)'
      BY <2>2, <3>1, LateStays
    <3> QED BY <3>1, <3>2 DEF ReportedLate
  <2>3. CASE \E e \in Entries : e.job = j
    BY <1>2, <2>3
  <2> QED BY <2>0, <2>1, <2>2, <2>3
<1> QED BY <1>1, <1>2

(* The report takes the entry of an equal job if it is late.               *)
LEMMA KnownReport ==
  ASSUME OneQueue, QueueOwns', ReportedInv, KnownInv, reported \in Seq(Job),
         NEW w \in Worker, OnJobComplete(w)
  PROVE  KnownInv'
<1>0. /\ QueueOwns /\ ManagerInv /\ QTypes /\ q_processing \in Seq(Entry) /\ Len(q_processing) <= 1
      /\ DOMAIN q_processing = 1 .. Len(q_processing)
      /\ pc[w] = "callback" /\ pc[w] \in Busy
  BY ByPosition DEF OneQueue, QueueOwns, QTypes, EntryInv, OnJobComplete, Busy
<1>1. PICK i \in Job : /\ i = job[w] /\ Managed(i) /\ i \notin ToSet(reported)
  BY <1>0, AtWork DEF ReportedInv
<1>2. PICK procs \in Erasures(key[i]) :
        QueueNextJob(q_jobQueue, procs, [pc EXCEPT ![w] = "erase"])
  BY <1>1 DEF OnJobComplete
<1>3. /\ MovesOn /\ ToSet(reported') = ToSet(reported) \cup {i}
      /\ UNCHANGED <<key, dropped, heap>>
  BY <1>0, <1>1, ReportMovesOn DEF OnJobComplete
<1>4. /\ ToSet(procs) \subseteq Entries'
      /\ \A j \in Job : Managed(j)' => Managed(j) \/ \E e \in Entries' : e.job = j
  <2>1. Owns(q_jobQueue, procs)
    BY <1>0, <1>1, <1>2, ReportOwns
  <2>2. Aside /\ SameWork([pc EXCEPT ![w] = "erase"])
    BY <1>0, ReportIsAside
  <2> QED BY <1>0, <1>2, <2>1, <2>2, QueueNextJobKnows
<1>5. ASSUME NEW e \in Entries, Managed(e.job), e.job \notin ToSet(reported'), e \notin Entries'
      PROVE  ReportedLate(key[e.job])'
  <2>1. PICK n \in 1 .. Len(q_processing) : procs = RemoveAt(q_processing, n) /\ MayFind(key[i], n)
    BY <1>0, <1>2, <1>4, <1>5 DEF Erasures, Entries
  <2>2. q_processing[n] = e /\ e.job \in Job /\ heap[e.job] = "live"
    <3>1. q_processing[n] \in Entries /\ e.job \in Job
      BY <1>0, <2>1, ByPosition, ListedAreJobs DEF Entries
    <3>2. q_processing[n] = e
      BY <1>0, <3>1, OneAtMost DEF Entries
    <3> QED BY <1>0, <1>5, <3>1, <3>2, ManagedIsLive
  <2>3. key[e.job] = key[i] /\ e.job # i
    BY <1>3, <1>5, <2>1, <2>2 DEF MayFind, Equal
  <2>4. \A f \in Entries : f.job # i
    BY <1>0, <2>3, OneAtMost DEF Entries
  <2>5. i \in dropped \/ ReportedLate(key[i])
    BY <1>1, <2>4 DEF KnownInv
  <2> QED BY <1>3, <2>3, <2>5 DEF ReportedLate
<1> QED BY <1>0, <1>3, <1>4, <1>5, KnownFrame

LEMMA KnownStep ==
  ASSUME OneQueue, QueueOwns', ReportedInv, KnownInv, key \in [Job -> Key \cup {NULL}],
         reported \in Seq(Job), [QueueMoves]_qvars
  PROVE  KnownInv'
<1>0. /\ QueueOwns /\ MovesOn /\ ManagerInv /\ Len(q_processing) <= 1
      /\ q_processing \in Seq(Entry) /\ DOMAIN q_processing = 1 .. Len(q_processing)
  BY QueueMovesOn, ByPosition DEF OneQueue, QueueOwns, QTypes, EntryInv
<1>1. ASSUME NEW k, CancelPassedOn(k) PROVE KnownInv'
  <2>1. PICK i \in 1 .. Len(q_processing) : dropped' = dropped \cup {q_processing[i].job}
    BY <1>0, <1>1 DEF CancelPassedOn
  <2>2. \A e \in Entries : e.job \in dropped'
    BY <1>0, <2>1, ByPosition, OneAtMost DEF Entries
  <2>3. \A j \in Job : Managed(j)' => Managed(j)
    BY <1>0, <1>1, CancelMoves
  <2> QED BY <1>0, <2>2, <2>3, KnownFrame DEF OneQueue
<1>2. CASE QueueCancelEntry
  <2>1. Entries' = Entries
    BY <1>2 DEF QueueCancelEntry, qVars, Entries
  <2>2. \A j \in Job : Managed(j)' => Managed(j)
    BY <1>0, <1>2, CancelMoves
  <2> QED BY <1>0, <2>1, <2>2, KnownFrame
<1>3. CASE (\E k : CancelKeptBack(k)) \/ QueueCancelEnd
  <2>1. \A j \in Job : Managed(j)' <=> Managed(j)
    BY <1>0, <1>3, FreeMovesOn
  <2>2. Entries' = Entries \/ \A e \in Entries : e.job \in dropped'
    BY <1>3 DEF CancelKeptBack, QueueCancelEnd, Entries
  <2> QED BY <1>0, <2>1, <2>2, KnownFrame
<1>4. CASE QueueCancelBegin \/ UNCHANGED qvars
  <2>1. UNCHANGED <<m_jobQueue, m_processing, q_processing>>
    BY <1>4 DEF QueueCancelBegin, qvars, vars, queueVars, qVars
  <2> QED BY <1>0, <2>1, KnownFrame DEF Managed, Queued, Entries
<1>5. CASE ManagerRuns /\ UNCHANGED <<qVars, m_lifo, key, qHist>>
  <2>1. Entries' = Entries
    BY <1>5 DEF qVars, Entries
  <2>2. \A j \in Job : Managed(j)' => Managed(j)
    BY <1>0, <1>5, RunsHandleOwn DEF HandlesOwn
  <2> QED BY <1>0, <2>1, <2>2, KnownFrame
<1>6. ASSUME NEW j \in Job, NEW k \in Key, AddToQueue(j, k)
      PROVE  KnownInv'
  <2>1. CASE UNCHANGED <<queueVars, q_processing>>
    BY <1>0, <2>1, KnownFrame DEF queueVars, Managed, Queued, Entries
  <2>2. CASE heap' = [heap EXCEPT ![j] = "live"] /\ QueueNextJob(Inserted(j), q_processing, pc)
    <3>1. Owns(Inserted(j), q_processing) /\ Aside /\ SameWork(pc)
      BY <1>0, <1>6, <2>2, AddedIsOwned
    <3>2. /\ Entries \subseteq Entries'
          /\ \A i \in Job : Managed(i)' => Managed(i) \/ \E e \in Entries' : e.job = i
      BY <1>0, <2>2, <3>1, QueueNextJobKnows DEF Entries
    <3> QED BY <1>0, <3>2, KnownFrame
  <2> QED BY <1>6, <2>1, <2>2 DEF AddToQueue
<1> QED BY <1>1, <1>2, <1>3, <1>4, <1>5, <1>6, KnownReport DEF QueueMoves

-----------------------------------------------------------------------------
(* The cache's steps                                                       *)

(* To the queue, each of them is one of its own, or none.                  *)
LEMMA CacheMovesQueue ==
  ASSUME [TNext]_tvars
  PROVE  [QueueMoves]_qvars
<1>1. CASE UNCHANGED tvars
  BY <1>1 DEF tvars
<1>2. ASSUME NEW w \in Worker, CacheStep(w) PROVE [QueueMoves]_qvars
  <2>1. CASE ShouldCancel(w) \/ Reported(w) \/ DoWorkReturns(w) \/ JobErased(w)
    <3>1. /\ WorkerStep(w) \/ CheckCancel(w)
          /\ UNCHANGED <<qVars, m_lifo, key, qHist>> /\ pc[w] # "callback"
      BY <2>1 DEF ShouldCancel, Reported, DoWorkReturns, JobErased, WorkerStep,
                  CheckCancel, ProgressDone, JobDone, EraseJob
    <3> QED BY <3>1 DEF QueueMoves, ManagerRuns
  <2>2. CASE Claim(w) \/ FindListed(w) \/ OnCachingComplete(w)
    BY <2>2 DEF Claim, FindListed, OnCachingComplete
  <2>3. CASE Refuse(w) \/ OnTextureJobComplete(w)
    BY <2>3 DEF Refuse, CancelOwnJob, OnTextureJobComplete, QueueMoves
  <2>4. CASE /\ \/ TakeJob(w) \/ LeaveLock(w) \/ WaitForEvent(w) \/ WakeUp(w) \/ TimeOut(w)
                \/ Retire(w) \/ ExitThread(w)
                \/ cb[w] = NULL /\ NotifyClient(w)
             /\ UNCHANGED <<qVars, m_lifo, key, qHist>>
    <3>1. ~(pc[w] = "callback" /\ cb[w] = Queue)
      BY <2>4, QueueAssumption, JobAssumption
         DEF TakeJob, LeaveLock, WaitForEvent, WakeUp, TimeOut, Retire, ExitThread
    <3> QED BY <2>4, <3>1 DEF QueueMoves, ManagerRuns, WorkerStep
  <2> QED BY <1>2, <2>1, <2>2, <2>3, <2>4 DEF CacheStep
<1>3. CASE \E c \in Caller : (\E u \in Key : CacheImage(c, u)) \/ CachingDone(c) \/ LookAgain(c)
  BY <1>3 DEF CacheImage, CachingDone, LookAgain
<1>4. CASE Deinitialize \/ DeinitializeGoesOn \/ Exit
           \/ \E j \in Job, u \in Key : BackgroundCacheImage(j, u)
  BY <1>4 DEF Deinitialize, DeinitializeGoesOn, Exit, BackgroundCacheImage, QueueMoves, ManagerRuns
<1> QED BY <1>1, <1>2, <1>3, <1>4 DEF TNext

(* What becomes of a worker, as long as it lists nothing and takes nothing *)
(* off the list.                                                           *)
GoesOn(w) ==
  \/ Rests(w) /\ work'[w] = work[w]
  \/ pc[w] \notin Busy /\ pc'[w] = "run" /\ Queued(job'[w]) /\ work'[w] = work[w]
  \/ /\ pc[w] = "erase" /\ pc'[w] = "next" /\ job'[w] = NULL /\ work'[w] = "first"
  \/ /\ job'[w] = job[w]
     /\ \/ /\ pc[w] = "run" /\ pc'[w] = "progress" /\ item[job[w]].callback # NULL
           /\ work[w] \in {"first", "second"}
           /\ work'[w] = IF work[w] = "second" THEN "cache" ELSE work[w]
        \/ /\ pc[w] = "progress" /\ pc'[w] = "run"
           /\ work[w] \in {"second", "cache"} /\ work'[w] = work[w]
        \/ /\ pc[w] = "run" /\ pc'[w] = "callback" /\ cb'[w] = item[job[w]].callback
           /\ job[w] \in told \/ work[w] = "cache"
           /\ work'[w] = work[w]
        \/ /\ pc[w] = "callback" /\ pc'[w] = "erase" /\ cb'[w] = cb[w]
           /\ cb[w] = NULL \/ work[w] = "complete"
           /\ work'[w] = work[w]
        \/ /\ pc[w] = "progress" /\ pc'[w] = "progress"
           /\ \/ work[w] = "first" /\ work'[w] = "refuse"
              \/ work'[w] = "second" /\ Refuse(w)

Goes ==
  /\ \A w \in Worker : GoesOn(w)
  /\ UNCHANGED <<claimed, m_processinglist, tpc, url>>

(* A step of a worker.                                                     *)
LEMMA WorkerGoes ==
  ASSUME QueueOwns, QueueOwns', PlaceInv, CacheTypes,
         NEW w \in Worker, CacheStep(w), ~Claim(w), ~OnCachingComplete(w)
  PROVE  Goes
<1>0. /\ ManagerInv /\ pc \in [Worker -> WorkerStates] /\ job \in [Worker -> Job \cup {NULL}]
      /\ cb \in [Worker -> Callback \cup {NULL}]
      /\ work \in [Worker -> {"first", "refuse", "second", "cache", "complete"}]
  BY DEF QueueOwns, ManagerInv, TypeOK, CacheTypes
<1>1. UNCHANGED <<claimed, m_processinglist, tpc, url>>
  BY DEF CacheStep, ShouldCancel, FindListed, Refuse, Reported, DoWorkReturns,
         OnTextureJobComplete, JobErased, cacheVars, callerVars
<1>2. ASSUME NEW v \in Worker, v # w PROVE Rests(v) /\ work'[v] = work[v]
  <2>1. work'[v] = work[v]
    BY <1>0, <1>2 DEF CacheStep, ShouldCancel, FindListed, Refuse, Reported, DoWorkReturns,
           OnTextureJobComplete, JobErased, cacheVars, GoTo
  <2>2. CASE ShouldCancel(w) \/ Reported(w) \/ DoWorkReturns(w) \/ JobErased(w)
    <3>1. WorkerStep(w) \/ CheckCancel(w)
      BY <2>2 DEF ShouldCancel, Reported, DoWorkReturns, JobErased, WorkerStep
    <3> QED BY <1>0, <1>2, <2>1, <3>1, OthersRest
  <2>3. CASE FindListed(w)
    BY <2>1, <2>3 DEF FindListed, qvars, vars, threadVars, Rests
  <2>4. CASE Refuse(w)
    <3>1. CASE UNCHANGED qvars
      BY <2>1, <3>1 DEF qvars, vars, threadVars, Rests
    <3> QED BY <2>1, <2>4, <3>1, CancelRests DEF Refuse, CancelOwnJob
  <2>5. CASE OnTextureJobComplete(w)
    BY <1>2, <2>1, <2>5, ReportRests DEF OnTextureJobComplete
  <2>6. CASE WorkerStep(w)
    BY <1>0, <1>2, <2>1, <2>6, OthersRest
  <2> QED BY <2>2, <2>3, <2>4, <2>5, <2>6 DEF CacheStep, WorkerStep
<1>3. GoesOn(w)
  <2>1. CASE ShouldCancel(w)
    <3>1. CASE item[job[w]].callback = NULL
      <4>1. UNCHANGED <<pc, job, cb>> /\ pc[w] = "run"
        BY <2>1, <3>1 DEF ShouldCancel, CheckCancel
      <4>2. work'[w] = work[w]
        BY <1>0, <2>1, <4>1 DEF ShouldCancel, GoTo
      <4> QED BY <4>1, <4>2 DEF GoesOn, Rests
    <3>2. CASE item[job[w]].callback # NULL
      <4>1. job' = job /\ pc[w] = "run" /\ pc'[w] = "progress" /\ work[w] \in {"first", "second"}
        BY <1>0, <2>1, <3>2 DEF ShouldCancel, CheckCancel
      <4>2. work'[w] = IF work[w] = "second" THEN "cache" ELSE work[w]
        BY <1>0, <2>1, <4>1 DEF ShouldCancel, GoTo
      <4> QED BY <3>2, <4>1, <4>2 DEF GoesOn
    <3> QED BY <3>1, <3>2
  <2>2. CASE FindListed(w)
    <3>1. UNCHANGED <<pc, job>> /\ pc[w] = "progress" /\ work[w] = "first" /\ work'[w] = "refuse"
      BY <1>0, <2>2 DEF FindListed, GoTo, qvars, vars, threadVars
    <3> QED BY <3>1 DEF GoesOn
  <2>3. CASE Refuse(w)
    <3>1. UNCHANGED <<pc, job>>
      BY <2>3, CancelRests DEF Refuse, CancelOwnJob, qvars, vars, threadVars
    <3>2. pc[w] = "progress" /\ work'[w] = "second"
      BY <1>0, <2>3 DEF Refuse, PlaceInv, GoTo
    <3> QED BY <2>3, <3>1, <3>2 DEF GoesOn
  <2>4. CASE Reported(w)
    <3>1. /\ job' = job /\ pc[w] = "progress" /\ pc'[w] = "run"
          /\ work[w] \in {"second", "cache"} /\ work' = work
      BY <1>0, <2>4 DEF Reported, ProgressDone, cacheVars
    <3> QED BY <3>1 DEF GoesOn
  <2>5. CASE DoWorkReturns(w)
    <3>1. /\ job' = job /\ pc[w] = "run" /\ pc'[w] = "callback" /\ cb'[w] = item[job[w]].callback
          /\ job[w] \in told \/ work[w] = "cache"
          /\ work' = work
      BY <1>0, <2>5 DEF DoWorkReturns, JobDone, cacheVars
    <3> QED BY <3>1 DEF GoesOn
  <2>6. CASE OnTextureJobComplete(w)
    <3>1. /\ job' = job /\ cb' = cb /\ pc[w] = "callback" /\ pc'[w] = "erase"
          /\ work[w] = "complete" /\ work' = work
      BY <2>6, ReportRests DEF OnTextureJobComplete, OnJobComplete, cacheVars
    <3> QED BY <3>1 DEF GoesOn
  <2>7. CASE JobErased(w)
    <3>1. pc[w] = "erase" /\ pc'[w] = "next" /\ job'[w] = NULL /\ work'[w] = "first"
      BY <1>0, <2>7 DEF JobErased, EraseJob, GoTo
    <3> QED BY <3>1 DEF GoesOn
  <2>8. CASE TakeJob(w) /\ UNCHANGED cacheVars
    <3>1. PICK p \in Priority :
            m_jobQueue[p] # <<>> /\ job' = [job EXCEPT ![w] = Head(m_jobQueue[p])]
      BY <2>8 DEF TakeJob, PopsFrom, Eligible
    <3>2. Queued(job'[w])
      BY <1>0, <3>1, HeadTail DEF Queued, ManagerInv, TypeOK
    <3>3. pc[w] \notin Busy /\ pc'[w] = "run" /\ work' = work
      BY <1>0, <2>8 DEF TakeJob, Busy, cacheVars
    <3> QED BY <3>2, <3>3 DEF GoesOn
  <2>9. CASE /\ \/ LeaveLock(w) \/ WaitForEvent(w) \/ WakeUp(w) \/ TimeOut(w)
                \/ Retire(w) \/ ExitThread(w)
             /\ UNCHANGED cacheVars
    <3>1. /\ UNCHANGED <<job, cb, work>> /\ pc[w] \notin Busy /\ pc'[w] \notin Busy
      BY <1>0, <2>9 DEF LeaveLock, WaitForEvent, WakeUp, TimeOut, Retire, ExitThread, Busy, cacheVars
    <3> QED BY <3>1 DEF GoesOn, Rests
  <2>10. CASE cb[w] = NULL /\ NotifyClient(w) /\ UNCHANGED cacheVars
    <3>1. UNCHANGED <<job, cb, work>> /\ pc[w] = "callback" /\ pc'[w] = "erase"
      BY <1>0, <2>10 DEF NotifyClient, cacheVars
    <3> QED BY <2>10, <3>1 DEF GoesOn
  <2> QED BY <2>1, <2>2, <2>3, <2>4, <2>5, <2>6, <2>7, <2>8, <2>9, <2>10 DEF CacheStep
<1> QED BY <1>1, <1>2, <1>3 DEF Goes, GoesOn

(* Every step of the cache.                                                *)
LEMMA CacheSteps ==
  ASSUME QueueOwns, QueueOwns', PlaceInv, CacheTypes, [TNext]_tvars
  PROVE  \/ Goes
         \/ \E w \in Worker : Claim(w) \/ OnCachingComplete(w)
         \/ \E c \in Caller : (\E u \in Key : CacheImage(c, u)) \/ CachingDone(c) \/ LookAgain(c)
<1>1. ASSUME UNCHANGED <<claimed, m_processinglist, work, tpc, url>>, \A v \in Worker : Rests(v)
      PROVE  Goes
  BY <1>1 DEF Goes, GoesOn
<1>2. CASE UNCHANGED tvars
  <2>1. UNCHANGED <<claimed, m_processinglist, work, tpc, url, pc, job, cb>>
    BY <1>2 DEF tvars, qvars, vars, threadVars, cacheVars, callerVars
  <2> QED BY <1>1, <2>1 DEF Rests
<1>3. CASE Deinitialize \/ DeinitializeGoesOn
  BY <1>1, <1>3, CancelRests DEF Deinitialize, DeinitializeGoesOn, cacheVars, callerVars
<1>4. CASE Exit
  <2>1. UNCHANGED <<claimed, m_processinglist, work, tpc, url, pc, job, cb>>
    BY <1>4 DEF Exit, CancelJobsBegin, CancelJobsSignal, CancelJobsReturn, threadVars,
                cacheVars, callerVars
  <2> QED BY <1>1, <2>1 DEF Rests
<1>5. ASSUME NEW j \in Job, NEW u \in Key, BackgroundCacheImage(j, u) PROVE Goes
  BY <1>1, <1>5, AddRests DEF BackgroundCacheImage, cacheVars, callerVars
<1> QED BY <1>2, <1>3, <1>4, <1>5, WorkerGoes DEF TNext

-----------------------------------------------------------------------------
(* Who caches                                                              *)

(* The thread that goes on with its job stays at its URL.                  *)
LEMMA JobStays ==
  ASSUME QueueOwns, QueueOwns', MovesOn,
         NEW w \in Worker, pc[w] \in Busy, pc'[w] \in Busy, job'[w] = job[w]
  PROVE  /\ Url(w)' = Url(w)
         /\ ReportedLate(Url(w)) => ReportedLate(Url(w))'
         /\ item[job[w]].callback = NULL => item'[job[w]].callback = NULL
<1>1. PICK j \in Job : j = job[w] /\ j = job'[w]
  BY AtWork
<1>2. heap[j] = "live" /\ Managed(j)
  BY <1>1, AtWork
<1>3. j \in m_processing'
  BY <1>1 DEF QueueOwns, ManagerInv, ThreadInv
<1>4. Managed(j)'
  BY <1>3 DEF Managed
<1>5. key'[j] = key[j] /\ SameItem(j)
  BY <1>2, <1>4 DEF MovesOn
<1>6. Url(w)' = Url(w)
  BY <1>1, <1>5 DEF Url
<1>7. ASSUME ReportedLate(Url(w)) PROVE ReportedLate(Url(w))'
  <2>1. PICK u : u = Url(w) /\ u = Url(w)'
    BY <1>6
  <2>2. ReportedLate(u)'
    BY <1>7, <2>1, LateStays
  <2> QED BY <2>1, <2>2 DEF ReportedLate
<1> QED BY <1>1, <1>5, <1>6, <1>7 DEF SameItem

(* A thread that refuses its job has it cancelled before the second look.  *)
LEMMA RefuseSilences ==
  ASSUME OneQueue, QueueOwns', ReportedInv, SilentInv, KnownInv, WorkInv, CacheTypes,
         [QueueMoves]_qvars, NEW w \in Worker, Refuse(w)
  PROVE  ReportedLate(Url(w)) \/ item'[job[w]].callback = NULL
<1>0. /\ QueueOwns /\ MovesOn /\ Len(q_processing) <= 1 /\ q_processing \in Seq(Entry)
      /\ DOMAIN q_processing = 1 .. Len(q_processing)
  BY QueueMovesOn, ByPosition DEF OneQueue, QueueOwns, QTypes, EntryInv, CacheTypes
<1>1. pc[w] = "progress" /\ pc[w] \in Busy
  BY DEF Refuse, WorkInv, PlaceInv, Busy
<1>2. PICK j \in Job : j = job[w] /\ j \in m_processing /\ heap[j] = "live" /\ Managed(j)
  BY <1>0, <1>1, AtWork
<1>3. m_processing' = m_processing
  BY <1>0, CancelMoves, FreeMovesOn DEF Refuse, CancelOwnJob, qvars, vars, queueVars
<1>4. Managed(j)'
  BY <1>2, <1>3 DEF Managed
<1>5. item[j].callback = NULL => item'[j].callback = NULL
  BY <1>0, <1>2, <1>4 DEF MovesOn, SameItem
<1>6. j \notin ToSet(reported)
  BY <1>1, <1>2 DEF ReportedInv
<1>7. (\E e \in Entries : e.job = j) \/ j \in dropped \/ ReportedLate(key[j])
  BY <1>2, <1>6 DEF KnownInv
<1>8. CASE j \in dropped
  BY <1>2, <1>5, <1>8 DEF SilentInv
<1>9. ASSUME NEW e \in Entries, e.job = j PROVE item'[j].callback = NULL
  <2>1. ~MayMiss(Url(w))
    BY <1>2, <1>9 DEF MayMiss, Equal, Url
  <2>2. CancelPassedOn(Url(w))
    BY <2>1 DEF Refuse, CancelOwnJob, CancelKeptBack
  <2>3. PICK i \in 1 .. Len(q_processing) : ManagerCancel(q_processing[i].id)
    BY <1>0, <2>2 DEF CancelPassedOn
  <2>4. q_processing[i] = e
    BY <1>0, <1>9, <2>3, ByPosition, OneAtMost DEF Entries
  <2>5. item[j].id = e.id
    BY <1>2, <1>9 DEF OneQueue, IdsInv
  <2> QED BY <1>0, <1>2, <1>4, <2>3, <2>4, <2>5, CancelHits DEF OneQueue
<1> QED BY <1>2, <1>5, <1>7, <1>8, <1>9 DEF Url

LEMMA CacheTypesStep ==
  ASSUME QueueOwns, CacheTypes, reported' \in Seq(Job), [TNext]_tvars
  PROVE  CacheTypes'
<1>1. key' \in [Job -> Key \cup {NULL}]
  <2>1. [QueueMoves]_qvars
    BY CacheMovesQueue
  <2>2. key' = key \/ \E j \in Job, k \in Key : key' = [key EXCEPT ![j] = k]
    BY <2>1 DEF QueueMoves, AddToQueue, CancelPassedOn, CancelKeptBack, QueueCancelBegin,
                QueueCancelEntry, QueueCancelEnd, OnJobComplete, qvars
  <2> QED BY <2>2 DEF CacheTypes
<1>2. work' \in [Worker -> {"first", "refuse", "second", "cache", "complete"}]
  <2>1. \/ work' = work
        \/ \E w \in Worker : \E s \in {"first", "refuse", "second", "cache", "complete", work[w]} :
             work' = [work EXCEPT ![w] = s]
    BY DEF TNext, tvars, CacheStep, ShouldCancel, Claim, FindListed, Refuse, Reported,
       DoWorkReturns, OnCachingComplete, OnTextureJobComplete, JobErased, GoTo, CacheImage,
       CachingDone, LookAgain, Deinitialize, DeinitializeGoesOn, Exit, BackgroundCacheImage, cacheVars
  <2> QED BY <2>1 DEF CacheTypes
<1>3. /\ tpc' \in [Caller -> {"idle", "waiting", "caching"}]
      /\ url' \in [Caller -> Key \cup {NULL}]
  <2>1. \/ UNCHANGED callerVars
        \/ \E c \in Caller : (\E u \in Key : CacheImage(c, u)) \/ CachingDone(c) \/ LookAgain(c)
    BY DEF TNext, tvars, CacheStep, ShouldCancel, Claim, FindListed, Refuse, Reported,
       DoWorkReturns, OnCachingComplete, OnTextureJobComplete, JobErased,
       Deinitialize, DeinitializeGoesOn, Exit, BackgroundCacheImage
  <2> QED BY <2>1 DEF CacheTypes, callerVars, CacheImage, CachingDone, LookAgain
<1>4. claimed' \subseteq Job
  <2>1. claimed' = claimed \/ \E w \in Worker : Claim(w)
    BY DEF TNext, tvars, CacheStep, ShouldCancel, FindListed, Refuse, Reported,
       DoWorkReturns, OnCachingComplete, OnTextureJobComplete, JobErased, CacheImage,
       CachingDone, LookAgain, Deinitialize, DeinitializeGoesOn, Exit, BackgroundCacheImage
  <2>2. ASSUME NEW w \in Worker, Claim(w) PROVE claimed' \subseteq Job
    <3>1. pc[w] \in Busy
      BY <2>2 DEF Claim, Busy
    <3> QED BY <2>2, <3>1, AtWork DEF Claim, CacheTypes
  <2> QED BY <2>1, <2>2 DEF CacheTypes
<1> QED BY <1>1, <1>2, <1>3, <1>4 DEF CacheTypes

LEMMA PlaceStep ==
  ASSUME QueueOwns, QueueOwns', PlaceInv, CacheTypes, [TNext]_tvars
  PROVE  PlaceInv'
<1>0. work \in [Worker -> {"first", "refuse", "second", "cache", "complete"}]
  BY DEF CacheTypes
<1>1. CASE Goes
  <2> SUFFICES ASSUME NEW w \in Worker
               PROVE  /\ pc'[w] \notin Busy => work'[w] = "first"
                      /\ work'[w] = "refuse" => pc'[w] = "progress"
                      /\ work'[w] = "complete" => pc'[w] \in {"callback", "erase"}
    BY DEF PlaceInv
  <2>1. GoesOn(w)
    BY <1>1 DEF Goes
  <2>2. CASE Rests(w) /\ work'[w] = work[w]
    BY <2>2 DEF PlaceInv, Rests, Busy
  <2>3. CASE ~(Rests(w) /\ work'[w] = work[w])
    BY <2>1, <2>3 DEF PlaceInv, GoesOn, Busy
  <2> QED BY <2>2, <2>3
<1>2. ASSUME NEW w \in Worker, Claim(w) \/ OnCachingComplete(w) PROVE PlaceInv'
  <2>1. UNCHANGED pc
    BY <1>2 DEF Claim, OnCachingComplete, qvars, vars, threadVars
  <2>2. \/ pc[w] = "progress" /\ work' = [work EXCEPT ![w] = "second"]
        \/ pc[w] = "callback" /\ work' = [work EXCEPT ![w] = "complete"]
    BY <1>2 DEF Claim, OnCachingComplete, GoTo
  <2> QED BY <1>0, <2>1, <2>2 DEF PlaceInv, Busy
<1>3. CASE \E c \in Caller : (\E u \in Key : CacheImage(c, u)) \/ CachingDone(c) \/ LookAgain(c)
  <2>1. UNCHANGED <<pc, work>>
    BY <1>3 DEF CacheImage, CachingDone, LookAgain, qvars, vars, threadVars, cacheVars
  <2> QED BY <2>1 DEF PlaceInv
<1> QED BY <1>1, <1>2, <1>3, CacheSteps

LEMMA WorkStep ==
  ASSUME QueueOwns, QueueOwns', SilentInv, WorkInv, CacheTypes, [TNext]_tvars
  PROVE  WorkInv'
<1>0. /\ work \in [Worker -> {"first", "refuse", "second", "cache", "complete"}]
      /\ PlaceInv /\ PlaceInv'
  BY PlaceStep DEF CacheTypes, WorkInv
<1>1. ASSUME NEW w \in Worker, Goes, pc'[w] = "callback", cb'[w] # NULL
      PROVE  work'[w] \in {"cache", "complete"}
  <2>1. GoesOn(w)
    BY <1>1 DEF Goes
  <2>2. CASE Rests(w) /\ work'[w] = work[w]
    BY <1>1, <2>2 DEF WorkInv, Rests, Busy
  <2>3. ASSUME pc[w] = "run", cb'[w] = item[job[w]].callback, job[w] \in told \/ work[w] = "cache"
        PROVE  work[w] = "cache"
    <3>1. pc[w] \in Busy
      BY <2>3 DEF Busy
    <3> QED BY <1>1, <2>3, <3>1, AtWork DEF SilentInv
  <2>4. CASE ~(Rests(w) /\ work'[w] = work[w])
    BY <1>1, <2>1, <2>3, <2>4 DEF GoesOn
  <2> QED BY <2>2, <2>4
<1>2. ASSUME NEW w \in Worker, Claim(w) \/ OnCachingComplete(w) PROVE WorkInv'
  <2>1. UNCHANGED <<pc, cb>>
    BY <1>2 DEF Claim, OnCachingComplete, qvars, vars, threadVars
  <2>2. \/ pc[w] = "progress" /\ work' = [work EXCEPT ![w] = "second"]
        \/ pc[w] = "callback" /\ work' = [work EXCEPT ![w] = "complete"]
    BY <1>2 DEF Claim, OnCachingComplete, GoTo
  <2> QED BY <1>0, <2>1, <2>2 DEF WorkInv
<1>3. CASE \E c \in Caller : (\E u \in Key : CacheImage(c, u)) \/ CachingDone(c) \/ LookAgain(c)
  <2>1. UNCHANGED <<pc, cb, work>>
    BY <1>3 DEF CacheImage, CachingDone, LookAgain, qvars, vars, threadVars, cacheVars
  <2> QED BY <1>0, <2>1 DEF WorkInv
<1> QED BY <1>0, <1>1, <1>2, <1>3, CacheSteps DEF WorkInv

LEMMA ClaimedStep ==
  ASSUME QueueOwns, QueueOwns', MovesOn, PlaceInv, ClaimedInv, CacheTypes, [TNext]_tvars
  PROVE  ClaimedInv'
<1>0. /\ work \in [Worker -> {"first", "refuse", "second", "cache", "complete"}]
      /\ claimed \subseteq Job
  BY DEF CacheTypes
<1>1. \A j \in Job : Begun(j) => Begun(j)'
  BY DEF MovesOn, Begun
<1>2. \A j \in Job : \A w \in Worker : Begun(j) /\ job'[w] = j => job[w] = j
  BY JobAssumption DEF MovesOn, Begun
<1>3. CASE Goes
  <2>1. ASSUME NEW j \in claimed, NEW w \in Worker, job'[w] = j
        PROVE  work'[w] \notin {"first", "refuse"}
    <3>1. job[w] = j /\ work[w] \notin {"first", "refuse"} /\ j # NULL /\ ~Queued(j)
      BY <1>0, <1>2, <2>1, JobAssumption DEF ClaimedInv, Begun
    <3>2. GoesOn(w)
      BY <1>3 DEF Goes
    <3> QED BY <2>1, <3>1, <3>2 DEF GoesOn
  <2> QED BY <1>0, <1>1, <1>3, <2>1 DEF Goes, ClaimedInv
<1>4. ASSUME NEW w \in Worker, Claim(w)
      PROVE  ClaimedInv'
  <2>1. job' = job /\ claimed' = claimed \cup {job[w]} /\ work' = [work EXCEPT ![w] = "second"]
    BY <1>4 DEF Claim, qvars, vars, threadVars, GoTo
  <2>2. pc[w] \in Busy
    BY <1>4 DEF Claim, Busy
  <2>3. job[w] \in Job /\ Begun(job[w]) /\ \A v \in Worker : job[v] = job[w] => v = w
    BY <2>2, AtWork
  <2>4. \A j \in claimed' : Begun(j)'
    BY <1>0, <1>1, <2>1, <2>3 DEF ClaimedInv
  <2> QED BY <1>0, <2>1, <2>3, <2>4 DEF ClaimedInv
<1>5. ASSUME NEW w \in Worker, OnCachingComplete(w)
      PROVE  ClaimedInv'
  <2>1. job' = job /\ claimed' = claimed /\ work' = [work EXCEPT ![w] = "complete"]
    BY <1>5 DEF OnCachingComplete, qvars, vars, threadVars, GoTo
  <2> QED BY <1>0, <1>1, <2>1 DEF ClaimedInv
<1>6. CASE \E c \in Caller : (\E u \in Key : CacheImage(c, u)) \/ CachingDone(c) \/ LookAgain(c)
  <2>1. UNCHANGED <<job, claimed, work>>
    BY <1>6 DEF CacheImage, CachingDone, LookAgain, qvars, vars, threadVars, cacheVars
  <2> QED BY <1>0, <1>1, <2>1 DEF ClaimedInv
<1> QED BY <1>3, <1>4, <1>5, <1>6, CacheSteps

LEMMA ClaimStep ==
  ASSUME OneQueue, QueueOwns', ReportedInv, SilentInv, KnownInv, WorkInv, ClaimInv, CacheTypes,
         [TNext]_tvars
  PROVE  ClaimInv'
<1> DEFINE Outside(w) == \/ ReportedLate(Url(w))
                         \/ /\ work[w] # "cache"
                            /\ work[w] = "second" /\ pc[w] \in {"run", "progress"} =>
                                 item[job[w]].callback = NULL
<1>0. QueueOwns /\ MovesOn /\ [QueueMoves]_qvars /\ work \in [Worker -> {"first", "refuse", "second", "cache", "complete"}]
  BY QueueMovesOn, CacheMovesQueue DEF OneQueue, CacheTypes
<1>1. ASSUME NEW w \in Worker, pc'[w] \in Busy, job'[w] \notin claimed' PROVE Outside(w)'
  <2>1. CASE Goes
    <3>1. GoesOn(w) /\ claimed' = claimed
      BY <2>1 DEF Goes
    <3>2. CASE pc'[w] = "run" /\ work'[w] = work[w] /\ pc[w] \notin Busy
      BY <3>2 DEF WorkInv, PlaceInv
    <3>3. CASE pc[w] \in Busy /\ job'[w] = job[w]
      <4>1. /\ ReportedLate(Url(w)) => ReportedLate(Url(w))'
            /\ item[job[w]].callback = NULL => item'[job[w]].callback = NULL
        BY <1>0, <1>1, <3>3, JobStays
      <4>2. PICK i \in Job : i = job[w] /\ i = job'[w]
        BY <1>0, <3>3, AtWork
      <4>3. Outside(w)
        BY <1>1, <3>1, <3>3 DEF ClaimInv
      <4>4. CASE ReportedLate(Url(w))
        BY <4>1, <4>4
      <4>5. CASE ~ReportedLate(Url(w)) /\ Refuse(w)
        <5>1. item'[i].callback = NULL /\ work'[w] = "second"
          BY <1>0, <4>2, <4>5, RefuseSilences DEF Refuse, GoTo
        <5> QED BY <4>2, <5>1
      <4>6. CASE ~ReportedLate(Url(w)) /\ ~Refuse(w)
        <5>1. /\ work[w] # "cache"
              /\ work[w] = "second" /\ pc[w] \in {"run", "progress"} =>
                   item[i].callback = NULL /\ item'[i].callback = NULL
          BY <4>1, <4>2, <4>3, <4>6
        <5>2. /\ work'[w] # "cache"
              /\ work'[w] = "second" /\ pc'[w] \in {"run", "progress"} => item'[i].callback = NULL
          <6>1. CASE Rests(w) /\ work'[w] = work[w]
            BY <1>1, <5>1, <6>1 DEF Rests
          <6>2. CASE ~(Rests(w) /\ work'[w] = work[w])
            BY <1>1, <3>1, <3>3, <4>2, <4>6, <5>1, <6>2 DEF GoesOn, Busy
          <6> QED BY <6>1, <6>2
        <5> QED BY <4>2, <5>2
      <4> QED BY <4>4, <4>5, <4>6
    <3> QED BY <1>1, <3>1, <3>2, <3>3 DEF GoesOn, Rests, Busy
  <2>2. ASSUME NEW v \in Worker, Claim(v) \/ OnCachingComplete(v) PROVE Outside(w)'
    <3>1. UNCHANGED <<pc, job, item, key, dropped, reported>> /\ claimed \subseteq claimed'
      BY <2>2 DEF Claim, OnCachingComplete, qvars, vars, queueVars, threadVars, qHist
    <3>2. Outside(w)
      BY <1>1, <3>1 DEF ClaimInv
    <3>3. ReportedLate(Url(w)) => ReportedLate(Url(w))'
      BY <3>1 DEF ReportedLate, Url
    <3>4. \/ w = v /\ job'[w] \in claimed'
          \/ w = v /\ work'[w] = "complete"
          \/ work'[w] = work[w]
      BY <1>0, <2>2, <3>1 DEF Claim, OnCachingComplete, GoTo
    <3> QED BY <1>1, <3>1, <3>2, <3>3, <3>4
  <2>3. CASE \E c \in Caller : (\E u \in Key : CacheImage(c, u)) \/ CachingDone(c) \/ LookAgain(c)
    <3>1. UNCHANGED <<pc, job, item, key, dropped, reported, claimed, work>>
      BY <2>3 DEF CacheImage, CachingDone, LookAgain, qvars, vars, queueVars, threadVars, qHist, cacheVars
    <3> QED BY <1>1, <3>1 DEF ClaimInv, ReportedLate, Url
  <2> QED BY <1>0, <2>1, <2>2, <2>3, CacheSteps DEF WorkInv
<1>2. ClaimedInv'
  BY <1>0, ClaimedStep DEF WorkInv, ClaimInv
<1> QED BY <1>1, <1>2 DEF ClaimInv

-----------------------------------------------------------------------------
(* Who holds an image                                                      *)

(* Whoever is at an image after a step was there before, unless the step   *)
(* was to list it.                                                         *)
LEMMA HoldsStays ==
  ASSUME QueueOwns, QueueOwns', MovesOn, WorkInv, ClaimInv, Goes,
         NEW w \in Worker, Holds(w)'
  PROVE  Holds(w) /\ Url(w)' = Url(w)
<1>1. GoesOn(w) /\ claimed' = claimed
  BY DEF Goes
<1>2. /\ pc'[w] \in {"run", "progress", "callback"} /\ pc'[w] \in Busy
      /\ work'[w] \in {"second", "cache"} /\ job'[w] \in claimed
  BY <1>1 DEF Holds, Busy
<1>3. pc[w] \in Busy /\ job'[w] = job[w]
  <2>1. CASE Rests(w) /\ work'[w] = work[w]
    BY <1>2, <2>1 DEF Rests
  <2>2. CASE ~(Rests(w) /\ work'[w] = work[w])
    BY <1>1, <1>2, <2>2 DEF GoesOn, WorkInv, PlaceInv, Busy
  <2> QED BY <2>1, <2>2
<1>4. Url(w)' = Url(w)
  BY <1>2, <1>3, JobStays
<1>5. work[w] \notin {"first", "refuse"} /\ ~Refuse(w)
  BY <1>2, <1>3 DEF ClaimInv, ClaimedInv, Refuse
<1>6. Holds(w)
  <2>1. CASE Rests(w) /\ work'[w] = work[w]
    BY <1>2, <1>3, <2>1 DEF Rests, Holds, Busy
  <2>2. CASE ~(Rests(w) /\ work'[w] = work[w])
    BY <1>1, <1>2, <1>3, <1>5, <2>2 DEF GoesOn, WorkInv, PlaceInv, Holds, Busy
  <2> QED BY <2>1, <2>2
<1> QED BY <1>4, <1>6

(* An image that nobody new is at, and that stays listed if it has to be.  *)
LEMMA HeldOnceFrame ==
  ASSUME NEW u, HeldOnce(u), JobsAt(u)' \subseteq JobsAt(u), CallersAt(u)' \subseteq CallersAt(u),
         u \in m_processinglist => u \in m_processinglist'
  PROVE  HeldOnce(u)'
BY DEF HeldOnce

(* Steps that leave the threads with their jobs.                           *)
LEMMA HoldersFrame ==
  ASSUME NEW u, UNCHANGED <<pc, job, key>>, claimed \subseteq claimed',
         NEW W \in SUBSET Worker,
         \A w \in Worker \ W : Holds(w)' => Holds(w)
  PROVE  JobsAt(u)' \subseteq JobsAt(u) \cup W
<1> SUFFICES ASSUME NEW w \in Worker \ W, Holds(w)', Url(w)' = u PROVE Holds(w) /\ Url(w) = u
  BY DEF JobsAt
<1> QED BY DEF Url

LEMMA HoldClaim ==
  ASSUME QueueOwns, HoldInv, CacheTypes, NEW u \in Key, ~ReportedLate(u),
         NEW w \in Worker, Claim(w)
  PROVE  HeldOnce(u)'
<1>0. work \in [Worker -> {"first", "refuse", "second", "cache", "complete"}]
  BY DEF CacheTypes
<1>1. /\ pc[w] = "progress" /\ pc[w] \in Busy /\ Url(w) \notin m_processinglist
      /\ UNCHANGED <<pc, job, key, tpc, url>>
      /\ claimed' = claimed \cup {job[w]} /\ work' = [work EXCEPT ![w] = "second"]
      /\ m_processinglist' = m_processinglist \cup {Url(w)}
  BY DEF Claim, qvars, vars, threadVars, callerVars, GoTo, Busy
<1>2. \A v \in Worker : job[v] = job[w] => v = w
  BY <1>1, AtWork
<1>3. \A v \in Worker \ {w} : Holds(v)' => Holds(v)
  BY <1>0, <1>1, <1>2 DEF Holds
<1>4. JobsAt(u)' \subseteq JobsAt(u) \cup {w} /\ CallersAt(u)' = CallersAt(u)
  BY <1>1, <1>3, HoldersFrame DEF CallersAt
<1>5. HeldOnce(u)
  BY DEF HoldInv
<1>6. CASE Url(w) # u
  <2>1. w \notin JobsAt(u)'
    BY <1>1, <1>6 DEF JobsAt, Url
  <2>2. JobsAt(u)' \subseteq JobsAt(u)
    BY <1>4, <2>1
  <2> QED BY <1>1, <1>4, <1>5, <2>2, HeldOnceFrame
<1>7. CASE Url(w) = u
  <2>1. JobsAt(u) = {} /\ CallersAt(u) = {}
    BY <1>1, <1>5, <1>7 DEF HeldOnce
  <2>2. JobsAt(u)' \subseteq {w} /\ CallersAt(u)' = {} /\ u \in m_processinglist'
    BY <1>1, <1>4, <1>7, <2>1
  <2> QED BY <2>2 DEF HeldOnce
<1> QED BY <1>6, <1>7

LEMMA HoldUnlist ==
  ASSUME QueueOwns, WorkInv, ClaimInv, HoldInv, CacheTypes, NEW u \in Key, ~ReportedLate(u),
         NEW w \in Worker, OnCachingComplete(w)
  PROVE  HeldOnce(u)'
<1>0. work \in [Worker -> {"first", "refuse", "second", "cache", "complete"}]
  BY DEF CacheTypes
<1>1. /\ pc[w] = "callback" /\ pc[w] \in Busy /\ cb[w] # NULL /\ work[w] # "complete"
      /\ UNCHANGED <<pc, job, key, tpc, url, claimed>>
      /\ work' = [work EXCEPT ![w] = "complete"]
      /\ m_processinglist' = m_processinglist \ {Url(w)}
  BY QueueAssumption, JobAssumption
     DEF OnCachingComplete, Unlist, qvars, vars, threadVars, callerVars, GoTo, Busy
<1>2. \A v \in Worker : Holds(v)' => Holds(v)
  BY <1>0, <1>1 DEF Holds
<1>3. JobsAt(u)' \subseteq JobsAt(u) /\ CallersAt(u)' = CallersAt(u)
  <2>1. {} \in SUBSET Worker /\ \A v \in Worker \ {} : Holds(v)' => Holds(v)
    BY <1>2
  <2>2. JobsAt(u)' \subseteq JobsAt(u) \cup {}
    BY <1>1, <2>1, HoldersFrame
  <2> QED BY <1>1, <2>2 DEF CallersAt
<1>4. HeldOnce(u)
  BY DEF HoldInv
<1>5. CASE Url(w) # u
  BY <1>1, <1>3, <1>4, <1>5, HeldOnceFrame
<1>6. CASE Url(w) = u
  <2>1. work[w] = "cache" /\ job[w] \in claimed
    BY <1>1, <1>6 DEF WorkInv, PlaceInv, ClaimInv
  <2>2. w \in JobsAt(u)
    BY <1>1, <1>6, <2>1 DEF JobsAt, Holds
  <2>3. JobsAt(u) \subseteq {w} /\ CallersAt(u) = {}
    BY <1>4, <2>2 DEF HeldOnce
  <2>4. w \notin JobsAt(u)'
    BY <1>0, <1>1 DEF JobsAt, Holds
  <2>5. JobsAt(u)' = {} /\ CallersAt(u)' = {}
    BY <1>3, <2>3, <2>4
  <2> QED BY <2>5 DEF HeldOnce
<1> QED BY <1>5, <1>6

LEMMA HoldCaller ==
  ASSUME HoldInv, CacheTypes, NEW u \in Key, ~ReportedLate(u), NEW c \in Caller,
         (\E k \in Key : CacheImage(c, k)) \/ CachingDone(c) \/ LookAgain(c)
  PROVE  HeldOnce(u)'
<1>0. /\ tpc \in [Caller -> {"idle", "waiting", "caching"}]
      /\ url \in [Caller -> Key \cup {NULL}]
      /\ HeldOnce(u) /\ UNCHANGED <<pc, job, key, claimed, work>>
  BY DEF CacheTypes, HoldInv, CacheImage, CachingDone, LookAgain, qvars, vars, threadVars, cacheVars
<1>1. JobsAt(u)' = JobsAt(u)
  BY <1>0 DEF JobsAt, Holds, Url
<1>2. ASSUME NEW k \in Key, CacheImage(c, k) PROVE HeldOnce(u)'
  <2>1. /\ tpc[c] = "idle" /\ m_processinglist' = m_processinglist \cup {k}
        /\ tpc' = [tpc EXCEPT ![c] = IF k \in m_processinglist THEN "waiting" ELSE "caching"]
        /\ url' = [url EXCEPT ![c] = k]
    BY <1>2 DEF CacheImage
  <2>2. CASE k \in m_processinglist \/ k # u
    <3>1. CallersAt(u)' \subseteq CallersAt(u)
      BY <1>0, <2>1, <2>2 DEF CallersAt
    <3> QED BY <1>0, <1>1, <2>1, <3>1, HeldOnceFrame
  <2>3. CASE k \notin m_processinglist /\ k = u
    <3>1. JobsAt(u) = {} /\ CallersAt(u) = {}
      BY <1>0, <2>3 DEF HeldOnce
    <3>2. CallersAt(u)' \subseteq CallersAt(u) \cup {c}
      BY <1>0, <2>1 DEF CallersAt
    <3>3. CallersAt(u)' \subseteq {c} /\ JobsAt(u)' = {} /\ u \in m_processinglist'
      BY <1>1, <2>1, <2>3, <3>1, <3>2
    <3> QED BY <3>3 DEF HeldOnce
  <2> QED BY <2>2, <2>3
<1>3. CASE CachingDone(c)
  <2>1. /\ tpc[c] = "caching" /\ m_processinglist' = m_processinglist \ {url[c]}
        /\ tpc' = [tpc EXCEPT ![c] = "idle"] /\ url' = [url EXCEPT ![c] = NULL]
    BY <1>3 DEF CachingDone, Unlist
  <2>2. CallersAt(u)' \subseteq CallersAt(u) \ {c}
    BY <1>0, <2>1 DEF CallersAt
  <2>3. CASE url[c] # u
    BY <1>0, <1>1, <2>1, <2>2, <2>3, HeldOnceFrame
  <2>4. CASE url[c] = u
    <3>1. c \in CallersAt(u)
      BY <2>1, <2>4 DEF CallersAt
    <3>2. CallersAt(u) \subseteq {c} /\ JobsAt(u) = {}
      BY <1>0, <3>1 DEF HeldOnce
    <3>3. CallersAt(u)' = {} /\ JobsAt(u)' = {}
      BY <1>1, <2>2, <3>2
    <3> QED BY <3>3 DEF HeldOnce
  <2> QED BY <2>3, <2>4
<1>4. CASE LookAgain(c)
  <2>1. /\ UNCHANGED m_processinglist
        /\ tpc' = [tpc EXCEPT ![c] = "idle"] /\ url' = [url EXCEPT ![c] = NULL]
    BY <1>4 DEF LookAgain, cacheVars
  <2>2. CallersAt(u)' \subseteq CallersAt(u)
    BY <1>0, <2>1 DEF CallersAt
  <2> QED BY <1>0, <1>1, <2>1, <2>2, HeldOnceFrame
<1> QED BY <1>2, <1>3, <1>4

LEMMA HoldStep ==
  ASSUME QueueOwns, QueueOwns', MovesOn, WorkInv, ClaimInv, HoldInv, CacheTypes, [TNext]_tvars
  PROVE  HoldInv'
<1> SUFFICES ASSUME NEW u \in Key, ~ReportedLate(u)' PROVE HeldOnce(u)'
  BY DEF HoldInv
<1>1. ~ReportedLate(u)
  BY LateStays
<1>2. CASE Goes
  <2>1. JobsAt(u)' \subseteq JobsAt(u)
    <3> SUFFICES ASSUME NEW w \in Worker, Holds(w)', Url(w)' = u PROVE Holds(w) /\ Url(w) = u
      BY DEF JobsAt
    <3> QED BY <1>2, HoldsStays
  <2>2. CallersAt(u)' = CallersAt(u) /\ m_processinglist' = m_processinglist
    BY <1>2 DEF Goes, CallersAt
  <2> QED BY <1>1, <2>1, <2>2, HeldOnceFrame DEF HoldInv
<1> QED BY <1>1, <1>2, CacheSteps, HoldClaim, HoldUnlist, HoldCaller DEF WorkInv

-----------------------------------------------------------------------------
(* The theorems                                                            *)

TInv ==
  /\ QueueOwns /\ EntryInv
  /\ CacheTypes /\ IdsInv /\ ReportedInv /\ SilentInv /\ KnownInv
  /\ WorkInv /\ ClaimInv /\ HoldInv

LEMMA TInvInit == TInit => TInv
<1> SUFFICES ASSUME TInit PROVE TInv
  OBVIOUS
<1>1. /\ QInit /\ Init /\ q_jobQueue = <<>> /\ q_processing = <<>>
      /\ key = [j \in Job |-> NULL] /\ reported = <<>> /\ dropped = {}
      /\ m_processinglist = {} /\ claimed = {}
      /\ work = [w \in Worker |-> "first"]
      /\ tpc = [c \in Caller |-> "idle"] /\ url = [c \in Caller |-> NULL]
  BY DEF TInit, QInit
<1>2. QueueOwns /\ EntryInv
  BY <1>1, OwnsInit, EntriesInit
<1>3. ToSet(<<>>) = {} /\ <<>> \in Seq(Job)
  BY EmptySeq DEF ToSet
<1>4. CacheTypes
  BY <1>1, <1>3 DEF CacheTypes
<1>5. \A j \in Job : ~Managed(j)
  BY <1>1 DEF Init, Managed, Queued
<1>6. \A w \in Worker : pc[w] \notin Busy
  BY <1>1 DEF Init, Busy
<1>7. IdsInv
  <2>1. m_jobCounter = 0 /\ Entries = {}
    BY <1>1, <1>3 DEF Init, Entries
  <2>2. m_jobCounter <= Cardinality(Passed)
    BY <2>1, PassedAreJobs
  <2> QED BY <1>5, <2>1, <2>2 DEF IdsInv
<1>8. ReportedInv /\ SilentInv /\ KnownInv
  <2>1. told = {}
    BY <1>1 DEF Init
  <2> QED BY <1>1, <1>3, <1>5, <2>1 DEF ReportedInv, SilentInv, KnownInv
<1>9. WorkInv
  BY <1>1, <1>6 DEF WorkInv, PlaceInv, Busy
<1>10. ClaimInv
  BY <1>1, <1>6 DEF ClaimInv, ClaimedInv
<1>11. HoldInv
  <2>1. \A u : JobsAt(u) = {} /\ CallersAt(u) = {}
    BY <1>1 DEF JobsAt, CallersAt, Holds
  <2> QED BY <2>1 DEF HoldInv, HeldOnce
<1> QED BY <1>2, <1>4, <1>7, <1>8, <1>9, <1>10, <1>11 DEF TInv

LEMMA TInvStep ==
  ASSUME JobsAtOnce = 1, Cardinality(Job) < IdModulus, TInv, [TNext]_tvars
  PROVE  TInv'
<1>1. [QueueMoves]_qvars
  BY CacheMovesQueue
<1>2. /\ OneQueue /\ OneEntry /\ key \in [Job -> Key \cup {NULL}] /\ reported \in Seq(Job)
  BY DEF TInv, OneQueue, OneEntry, CacheTypes
<1>3. QueueOwns' /\ EntryInv' /\ MovesOn
  BY <1>1, <1>2, OwnsStep, EntriesStep, QueueMovesOn DEF TInv
<1>4. IdsInv' /\ SilentInv' /\ KnownInv' /\ ReportedInv' /\ reported' \in Seq(Job)
  BY <1>1, <1>2, <1>3, IdsStep, SilentStep, KnownStep, ReportedStep DEF TInv
<1>5. CacheTypes' /\ WorkInv' /\ ClaimInv' /\ HoldInv'
  BY <1>2, <1>3, <1>4, CacheTypesStep, WorkStep, ClaimStep, HoldStep DEF TInv
<1> QED BY <1>3, <1>4, <1>5 DEF TInv

LEMMA CacheInvariance ==
  ASSUME JobsAtOnce = 1, Cardinality(Job) < IdModulus
  PROVE  TSpec => []TInv
<1>1. TInv /\ [TNext]_tvars => TInv'
  BY TInvStep
<1> QED BY <1>1, TInvInit, PTL DEF TSpec

(* No two threads cache an image at once, whichever of them jobs run and   *)
(* whichever call CacheImage(), unless a cancelled job of the image was    *)
(* reported late.                                                          *)
THEOREM ImageCachedByOne ==
  ASSUME JobsAtOnce = 1, Cardinality(Job) < IdModulus
  PROVE  TSpec => []CachedByOne
<1>1. TInv => CachedByOne
  <2> SUFFICES ASSUME TInv, NEW u \in Key, ~ReportedLate(u)
               PROVE  Cardinality({c \in Caller : tpc[c] = "caching" /\ url[c] = u})
                        + Cardinality({w \in Worker : pc[w] = "run" /\ work[w] = "cache" /\ Url(w) = u})
                      <= 1
    BY DEF CachedByOne
  <2> DEFINE C == {c \in Caller : tpc[c] = "caching" /\ url[c] = u}
             W == {w \in Worker : pc[w] = "run" /\ work[w] = "cache" /\ Url(w) = u}
  <2>1. HeldOnce(u) /\ C = CallersAt(u)
    BY DEF TInv, HoldInv, CallersAt
  <2>2. W \subseteq JobsAt(u)
    <3> SUFFICES ASSUME NEW w \in Worker, pc[w] = "run", work[w] = "cache", Url(w) = u
                 PROVE  job[w] \in claimed
      BY DEF JobsAt, Holds
    <3> QED BY DEF TInv, ClaimInv, Busy
  <2>3. (\A v, w \in W : v = w) /\ (\A c, d \in C : c = d) /\ (W = {} \/ C = {})
    BY <2>1, <2>2 DEF HeldOnce
  <2>4. ASSUME NEW S, \A a, b \in S : a = b PROVE S = {} \/ \E a : S = {a}
    BY <2>4
  <2>5. /\ (Cardinality(W) = 0 /\ W = {}) \/ Cardinality(W) = 1
        /\ (Cardinality(C) = 0 /\ C = {}) \/ Cardinality(C) = 1
    BY <2>3, <2>4, FS_EmptySet, FS_Singleton
  <2> HIDE DEF W, C
  <2>6. Cardinality(C) + Cardinality(W) <= 1
    BY <2>3, <2>5, FS_EmptySet
  <2> QED BY <2>6 DEF W, C
<1> QED BY <1>1, CacheInvariance, PTL

-----------------------------------------------------------------------------
(* Who stays at a URL that is listed                                       *)

(* A job that runs without a callback was cancelled, and so was one that   *)
(* is not reported.                                                        *)
MarkInv ==
  /\ \A j \in Job : ~Begun(j) => cancelled[j] = "no"
  /\ \A j \in Job : Queued(j) => item[j].callback # NULL
  /\ \A w \in Worker : pc[w] \in {"run", "progress"} =>
       /\ cancelled[job[w]] # "after"
       /\ item[job[w]].callback = NULL => cancelled[job[w]] = "before"
  /\ \A w \in Worker : pc[w] = "callback" /\ cb[w] = NULL => cancelled[job[w]] = "before"

(* A URL stays listed as long as somebody is at it, who will take it off   *)
(* the list, or had a job for it that was cancelled in the meantime.       *)
ListedIsHeld ==
  \A u \in m_processinglist : JobsAt(u) # {} \/ CallersAt(u) # {} \/ Abandoned(u)

(* What a step does to the jobs' marks and callbacks.                      *)
Marks ==
  /\ \A j \in Job : \/ cancelled'[j] = cancelled[j]
                    \/ cancelled[j] = "no" /\ Begun(j)' /\ cancelled'[j] = CancelMark(j)
  /\ \A j \in Job : Managed(j) /\ Managed(j)' =>
       item'[j].callback = item[j].callback \/ cancelled'[j] # "no"
  /\ \A j \in Job : Queued(j)' => Queued(j) \/ item'[j].callback # NULL

(* A job the manager lets go of is a worker's then, or gone.               *)
LEMMA BegunAfter ==
  ASSUME QueueOwns, MovesOn, NEW j \in Job, Managed(j), ~Queued(j)'
  PROVE  Begun(j)'
<1>1. heap[j] = "live" /\ ~InQueue(j)
  BY ManagedIsLive DEF QueueOwns, ManagerInv, KeptBack, InQueue
<1>2. ~Waits(j)'
  BY <1>1 DEF MovesOn, Waits
<1> QED BY <1>2 DEF Begun

(* The manager's own steps cancel no job but when it stops.                *)
LEMMA RunMarks ==
  ASSUME QueueOwns, MovesOn, ManagerRuns
  PROVE  Marks
<1>0. /\ ManagerInv /\ ManagerInv' /\ TypeOK /\ ThreadInv /\ HandsOver
      /\ m_processing \subseteq Job /\ item \in [Job -> Item]
      /\ heap \in [Job -> {"unborn", "live", "deleted"}]
      /\ cancelled \in [Job -> {"no", "before", "after"}]
  BY RunsKeepManager, RunsHandOver DEF QueueOwns, ManagerInv, TypeOK
<1>1. CASE CancelJobsBegin
  <2>1. /\ \A j \in Job : ~Queued(j)'
        /\ m_processing' = m_processing
        /\ cancelled' = [j \in Job |->
             IF cancelled[j] = "no" /\ (Queued(j) \/ j \in m_processing)
             THEN CancelMark(j) ELSE cancelled[j]]
    BY <1>1 DEF CancelJobsBegin, Queued
  <2>2. \A j \in Job : CancelMark(j) # "no"
    BY DEF CancelMark
  <2>3. \A j \in Job : Managed(j) => Begun(j)'
    BY <2>1, BegunAfter
  <2> QED BY <2>1, <2>2, <2>3 DEF Marks, Managed
<1>2. ASSUME NEW w \in Worker, EraseJob(w) PROVE Marks
  <2>1. PICK i \in Job : i = job[w]
    BY <1>0, <1>2 DEF EraseJob, ThreadInv, Busy
  <2>2. /\ item' = [item EXCEPT ![i] = NoItem] /\ heap' = [heap EXCEPT ![i] = "deleted"]
        /\ UNCHANGED cancelled
    BY <1>2, <2>1 DEF EraseJob, histVars
  <2>3. heap'[i] = "deleted" /\ \A j \in Job : j # i => item'[j] = item[j]
    BY <1>0, <2>2
  <2>4. ~Managed(i)'
    BY <1>0, <2>3, ManagedIsLiveAfter
  <2> QED BY <1>0, <2>2, <2>3, <2>4 DEF Marks, HandsOver
<1>3. CASE UNCHANGED <<item, cancelled>>
  BY <1>0, <1>3 DEF Marks, HandsOver
<1>4. ~CancelJobsBegin /\ (\A w \in Worker : ~EraseJob(w)) => UNCHANGED <<item, cancelled>>
  BY DEF ManagerRuns, WorkerStep, TakeJob, LeaveLock, WaitForEvent, WakeUp, TimeOut,
     Retire, ExitThread, ProgressDone, JobDone, NotifyClient, CheckCancel, PauseJobs, UnPauseJobs,
     CancelJobsSignal, CancelJobsReturn, Restart, histVars, queueVars
<1> QED BY <1>1, <1>2, <1>3, <1>4

(* A cancellation.                                                         *)
LEMMA CancelMarks ==
  ASSUME QueueOwns, MovesOn, MarkInv, NEW id, ManagerCancel(id)
  PROVE  Marks
<1>0. /\ ManagerInv /\ ManagerInv' /\ TypeOK /\ ThreadInv /\ QueueInv /\ HandsOver
      /\ m_jobQueue \in [Priority -> Seq(Job)] /\ m_processing \subseteq Job
      /\ item \in [Job -> Item] /\ heap \in [Job -> {"unborn", "live", "deleted"}]
      /\ cancelled \in [Job -> {"no", "before", "after"}]
  BY CancelHandsOver, ManagerCancelHandlesOwn DEF QueueOwns, ManagerInv, TypeOK
<1>1. CASE UNCHANGED vars
  <2>1. UNCHANGED <<item, cancelled>>
    BY <1>1 DEF vars, queueVars, histVars
  <2> QED BY <1>0, <2>1 DEF Marks, HandsOver
<1>2. CASE CancelQueued(id)
  <2>1. PICK p \in Priority : \E k \in DOMAIN m_jobQueue[p] :
          /\ item' = [item EXCEPT ![m_jobQueue[p][k]] = NoItem]
          /\ heap' = [heap EXCEPT ![m_jobQueue[p][k]] = "deleted"]
          /\ cancelled' = [cancelled EXCEPT ![m_jobQueue[p][k]] = "before"]
    BY <1>2 DEF CancelQueued
  <2>2. PICK k \in DOMAIN m_jobQueue[p] :
          /\ item' = [item EXCEPT ![m_jobQueue[p][k]] = NoItem]
          /\ heap' = [heap EXCEPT ![m_jobQueue[p][k]] = "deleted"]
          /\ cancelled' = [cancelled EXCEPT ![m_jobQueue[p][k]] = "before"]
    BY <2>1
  <2>3. PICK i \in Job : i = m_jobQueue[p][k] /\ Queued(i)
    <3>1. m_jobQueue[p][k] \in Job
      BY <1>0, ElementOfSeq
    <3> QED BY <3>1 DEF Queued
  <2>4. /\ heap'[i] = "deleted" /\ cancelled'[i] = "before"
        /\ \A j \in Job : j # i => item'[j] = item[j] /\ cancelled'[j] = cancelled[j]
    BY <1>0, <2>2, <2>3
  <2>5. ~Managed(i)' /\ Begun(i)'
    <3>1. ~Managed(i)'
      BY <1>0, <2>4, ManagedIsLiveAfter
    <3> QED BY <2>3, <3>1, BegunAfter DEF Managed
  <2>6. cancelled[i] = "no" /\ CancelMark(i) = "before"
    <3>1. \A w \in Worker : job[w] # i
      BY <1>0, <2>3, QueuedJobs, JobAssumption DEF ThreadInv
    <3> QED BY <2>3, <3>1 DEF MarkInv, Begun, CancelMark
  <2> QED BY <1>0, <2>4, <2>5, <2>6 DEF Marks, HandsOver
<1>3. CASE CancelRunning(id)
  <2>1. PICK i \in m_processing :
          /\ item' = [item EXCEPT ![i].callback = NULL]
          /\ cancelled' = [cancelled EXCEPT ![i] = IF @ = "no" THEN CancelMark(i) ELSE @]
    BY <1>3 DEF CancelRunning
  <2>2. /\ \A j \in Job : j # i => item'[j] = item[j] /\ cancelled'[j] = cancelled[j]
        /\ cancelled'[i] = IF cancelled[i] = "no" THEN CancelMark(i) ELSE cancelled[i]
    BY <1>0, <2>1
  <2>3. CancelMark(i) # "no"
    BY DEF CancelMark
  <2>4. Begun(i)'
    <3>1. ~Queued(i)' /\ Managed(i)
      BY <1>0, QueuedJobs DEF HandsOver, Managed
    <3> QED BY <1>0, <3>1, BegunAfter
  <2> QED BY <1>0, <2>2, <2>3, <2>4 DEF Marks, HandsOver
<1> QED BY <1>1, <1>2, <1>3 DEF ManagerCancel, CancelJob

(* QueueNextJob passes a job on with its own callback.                     *)
LEMMA QueueNextJobMarks ==
  ASSUME ManagerInv, Aside, NEW jobs, NEW procs, NEW pcs, SameWork(pcs),
         Owns(jobs, procs), QueueNextJob(jobs, procs, pcs)
  PROVE  Marks
<1>0. /\ jobs \in Seq(Job) /\ \A j \in ToSet(jobs) : j \in Job /\ ~Managed(j) /\ heap'[j] = "live"
      /\ cancelled' = cancelled
  BY ByPosition DEF Owns, Aside
<1>1. /\ ManagerInv'
      /\ Leaves(jobs, procs) \/ PassesOn(jobs, procs) \/ TriesInVain(jobs, procs)
  BY <1>0, QueueNextJobKeeps
<1>2. m_processing' = m_processing
  BY DEF QueueNextJob, Enqueue, queueVars
<1>3. \A j \in Job : Queued(j)' => Managed(j)' /\ j \notin m_processing'
  BY <1>1, ManagedIsLiveAfter DEF Managed
<1>4. CASE PassesOn(jobs, procs)
  <2>1. PICK i \in Job : i = Last(jobs) /\ ~Managed(i)
    BY <1>0, <1>4, FrontAndLast DEF PassesOn
  <2>2. /\ item'[i].callback = Queue /\ Queue # NULL
        /\ \A j \in Job : j # i => item'[j] = item[j] /\ (Managed(j)' <=> Managed(j))
    BY <1>4, <2>1, QueueAssumption, JobAssumption DEF PassesOn
  <2> QED BY <1>0, <1>2, <1>3, <2>1, <2>2 DEF Marks, Managed
<1>5. CASE Leaves(jobs, procs) \/ TriesInVain(jobs, procs)
  BY <1>0, <1>2, <1>3, <1>5 DEF Leaves, TriesInVain, Marks, Managed
<1> QED BY <1>1, <1>4, <1>5

LEMMA QueueMarks ==
  ASSUME QueueOwns, MarkInv, key \in [Job -> Key \cup {NULL}], reported \in Seq(Job),
         [QueueMoves]_qvars
  PROVE  Marks
<1>0. ManagerInv /\ MovesOn
  BY QueueMovesOn DEF QueueOwns
<1>1. CASE UNCHANGED <<queueVars, cancelled>>
  BY <1>1 DEF Marks, queueVars, Queued
<1>2. ASSUME NEW j \in Job, NEW k \in Key, AddToQueue(j, k) PROVE Marks
  <2>1. cancelled' = cancelled
    BY <1>2 DEF AddToQueue, histVars
  <2>2. CASE /\ heap' = [heap EXCEPT ![j] = "live"]
             /\ QueueNextJob(Inserted(j), q_processing, pc)
    <3>1. Owns(Inserted(j), q_processing) /\ Aside /\ SameWork(pc)
      BY <1>2, <2>2, AddedIsOwned
    <3> QED BY <1>0, <2>2, <3>1, QueueNextJobMarks
  <2> QED BY <1>1, <1>2, <2>1, <2>2 DEF AddToQueue
<1>3. ASSUME NEW w \in Worker, OnJobComplete(w) PROVE Marks
  <2>1. PICK procs \in Erasures(key[job[w]]) :
          QueueNextJob(q_jobQueue, procs, [pc EXCEPT ![w] = "erase"])
    BY <1>3 DEF OnJobComplete
  <2>2. Aside /\ SameWork([pc EXCEPT ![w] = "erase"])
    BY <1>0, <1>3, ReportIsAside
  <2> QED BY <1>0, <1>3, <2>1, <2>2, ReportOwns, QueueNextJobMarks
<1>4. CASE \/ (\E k : CancelKeptBack(k)) \/ QueueCancelEnd
           \/ QueueCancelBegin \/ UNCHANGED qvars
  BY <1>1, <1>4 DEF CancelKeptBack, QueueCancelEnd, QueueCancelBegin, qvars, vars, histVars
<1>5. CASE (\E k : CancelPassedOn(k)) \/ QueueCancelEntry
  <2>1. PICK id : ManagerCancel(id)
    BY <1>5 DEF CancelPassedOn, QueueCancelEntry
  <2> QED BY <1>0, <2>1, CancelMarks
<1> QED BY <1>0, <1>2, <1>3, <1>4, <1>5, RunMarks DEF QueueMoves

(* Whatever a thread does next, its job's mark is up to date.              *)
LEMMA MarkStep ==
  ASSUME QueueOwns, QueueOwns', PlaceInv, MarkInv, CacheTypes, [TNext]_tvars
  PROVE  MarkInv'
<1>0. /\ Marks /\ MovesOn /\ ManagerInv /\ TypeOK /\ ThreadInv /\ QueueInv
      /\ cancelled \in [Job -> {"no", "before", "after"}]
  <2>1. [QueueMoves]_qvars
    BY CacheMovesQueue
  <2> QED BY <2>1, QueueMarks, QueueMovesOn DEF CacheTypes, QueueOwns, ManagerInv, TypeOK
<1>1. \A j \in Job : ~Begun(j)' => cancelled'[j] = "no"
  BY <1>0 DEF MovesOn, Begun, Marks, MarkInv
<1>2. \A j \in Job : Queued(j)' => item'[j].callback # NULL
  <2> SUFFICES ASSUME NEW j \in Job, Queued(j)', Queued(j) PROVE item'[j].callback # NULL
    BY <1>0 DEF Marks
  <2>1. cancelled'[j] = "no"
    BY <1>1 DEF Begun
  <2> QED BY <1>0, <2>1 DEF Marks, MarkInv, Managed
<1>3. ASSUME NEW w \in Worker, NEW j \in Job, \A v \in Worker : job[v] = j => v = w,
             job[w] = j => pc[w] \notin {"callback", "erase"}
      PROVE  CancelMark(j) = "before"
  BY <1>3 DEF CancelMark
<1>4. ASSUME NEW w \in Worker, GoesOn(w), pc'[w] \in {"run", "progress"}
      PROVE  /\ cancelled'[job'[w]] # "after"
             /\ item'[job'[w]].callback = NULL => cancelled'[job'[w]] = "before"
  <2>1. pc'[w] \in Busy
    BY <1>4 DEF Busy
  <2>2. PICK j \in Job : j = job'[w] /\ j \in m_processing'
    BY <2>1 DEF QueueOwns, ManagerInv, TypeOK, ThreadInv
  <2>3. Managed(j)'
    BY <2>2 DEF Managed
  <2>4. CASE pc[w] \notin Busy
    <3>1. Queued(j)
      BY <1>4, <2>1, <2>2, <2>4 DEF GoesOn, Rests, Busy
    <3>2. \A v \in Worker : job[v] # j
      BY <1>0, <3>1, QueuedJobs
    <3>3. CancelMark(j) = "before" /\ cancelled[j] = "no" /\ item[j].callback # NULL
      BY <1>3, <3>1, <3>2 DEF MarkInv, Begun
    <3>4. \/ cancelled'[j] = "before"
          \/ cancelled'[j] = "no" /\ item'[j].callback # NULL
      BY <1>0, <2>3, <3>1, <3>3 DEF Marks, Managed
    <3> QED BY <2>2, <3>4
  <2>5. CASE pc[w] \in Busy
    <3>1. pc[w] \in {"run", "progress"} /\ job[w] = j
      BY <1>4, <2>2, <2>5 DEF GoesOn, Rests, Busy
    <3>2. Managed(j) /\ \A v \in Worker : job[v] = j => v = w
      BY <2>5, <3>1, AtWork
    <3>3. CancelMark(j) = "before"
      BY <1>3, <3>1, <3>2
    <3>4. /\ cancelled[j] \in {"no", "before"}
          /\ item[j].callback = NULL => cancelled[j] = "before"
      BY <1>0, <3>1 DEF MarkInv
    <3>5. /\ cancelled'[j] # "after"
          /\ item'[j].callback = NULL => cancelled'[j] = "before"
      BY <1>0, <2>3, <3>2, <3>3, <3>4 DEF Marks
    <3> QED BY <2>2, <3>5
  <2> QED BY <2>4, <2>5
<1>5. ASSUME NEW w \in Worker, GoesOn(w), pc'[w] = "callback", cb'[w] = NULL
      PROVE  cancelled'[job'[w]] = "before"
  <2>1. /\ pc[w] \in Busy /\ job'[w] = job[w] /\ cancelled[job[w]] = "before"
    <3>1. CASE Rests(w)
      BY <1>5, <3>1 DEF Rests, MarkInv, Busy
    <3>2. CASE pc[w] = "run" /\ job'[w] = job[w] /\ cb'[w] = item[job[w]].callback
      BY <1>5, <3>2 DEF MarkInv, Busy
    <3> QED BY <1>5, <3>1, <3>2 DEF GoesOn
  <2>2. PICK j \in Job : j = job[w]
    BY <2>1, AtWork
  <2>3. cancelled'[j] = "before"
    BY <1>0, <2>1, <2>2 DEF Marks
  <2> QED BY <2>1, <2>2, <2>3
<1>6. ASSUME UNCHANGED qvars PROVE MarkInv'
  <2>1. UNCHANGED <<m_jobQueue, item, heap, q_jobQueue, pc, job, cb, cancelled>>
    BY <1>6 DEF qvars, vars, queueVars, threadVars, histVars, qVars
  <2> QED BY <2>1 DEF MarkInv, Begun, Waits, InQueue, Queued
<1>7. CASE Goes
  BY <1>1, <1>2, <1>4, <1>5, <1>7 DEF Goes, MarkInv
<1> QED BY <1>6, <1>7, CacheSteps DEF Claim, OnCachingComplete, CacheImage, CachingDone, LookAgain

(* A thread that is at an image stays there until it takes the image off   *)
(* the list, unless its job was cancelled.                                 *)
LEMMA HolderGoes ==
  ASSUME QueueOwns, QueueOwns', MovesOn, MarkInv, Goes, NEW w \in Worker, Holds(w)
  PROVE  \/ Holds(w)' /\ Url(w)' = Url(w)
         \/ Abandoned(Url(w))
<1>1. GoesOn(w) /\ claimed' = claimed
  BY DEF Goes
<1>2. /\ pc[w] \in Busy /\ pc[w] \in {"run", "progress", "callback"}
      /\ work[w] \in {"second", "cache"} /\ job[w] \in claimed
  BY DEF Holds, Busy
<1>3. CASE pc'[w] = "erase"
  <2>1. pc[w] = "callback" /\ cb[w] = NULL
    BY <1>1, <1>2, <1>3 DEF GoesOn, Rests
  <2>2. cancelled[job[w]] = "before"
    BY <2>1 DEF MarkInv
  <2> QED BY <1>2, <2>2 DEF Abandoned, Url
<1>4. CASE pc'[w] # "erase"
  <2>1. /\ job'[w] = job[w] /\ pc'[w] \in {"run", "progress", "callback"}
        /\ work'[w] \in {"second", "cache"}
    <3>1. CASE Rests(w) /\ work'[w] = work[w]
      BY <1>2, <3>1 DEF Rests
    <3>2. CASE ~(Rests(w) /\ work'[w] = work[w])
      BY <1>1, <1>2, <1>4, <3>2 DEF GoesOn
    <3> QED BY <3>1, <3>2
  <2>2. Holds(w)' /\ pc'[w] \in Busy
    BY <1>1, <1>2, <2>1 DEF Holds, Busy
  <2> QED BY <1>2, <2>1, <2>2, JobStays
<1> QED BY <1>3, <1>4

LEMMA AbandonedStays ==
  ASSUME MovesOn, Marks, ClaimedInv, claimed \subseteq Job, claimed \subseteq claimed',
         NEW u, Abandoned(u)
  PROVE  Abandoned(u)'
<1>1. PICK j \in claimed : key[j] = u /\ cancelled[j] = "before"
  BY DEF Abandoned
<1>2. key'[j] = u /\ cancelled'[j] = "before"
  BY <1>1 DEF MovesOn, Marks, ClaimedInv, Begun, Waits
<1> QED BY <1>2 DEF Abandoned

(* What is listed after a step is held, if it is new or its holder stays.  *)
HeldAfter(u) ==
  \/ JobsAt(u)' # {} \/ CallersAt(u)' # {}
  \/ /\ u \in m_processinglist
     /\ JobsAt(u) # {} => JobsAt(u)' # {} \/ Abandoned(u)
     /\ CallersAt(u) # {} => CallersAt(u)' # {}

LEMMA ListedFrame ==
  ASSUME MovesOn, Marks, ClaimedInv, claimed \subseteq Job, claimed \subseteq claimed',
         ListedIsHeld, \A u \in m_processinglist' : HeldAfter(u)
  PROVE  ListedIsHeld'
<1>1. ASSUME NEW u, Abandoned(u) PROVE Abandoned(u)'
  BY <1>1, AbandonedStays
<1> QED BY <1>1 DEF ListedIsHeld, HeldAfter

LEMMA ListedStep ==
  ASSUME QueueOwns, QueueOwns', MovesOn, Marks, MarkInv, PlaceInv, ClaimedInv, CacheTypes,
         ListedIsHeld, [TNext]_tvars
  PROVE  ListedIsHeld'
<1>0. /\ work \in [Worker -> {"first", "refuse", "second", "cache", "complete"}]
      /\ tpc \in [Caller -> {"idle", "waiting", "caching"}]
      /\ url \in [Caller -> Key \cup {NULL}] /\ claimed \subseteq Job
  BY DEF CacheTypes
<1>1. CASE Goes
  <2>1. claimed' = claimed /\ m_processinglist' = m_processinglist /\ UNCHANGED <<tpc, url>>
    BY <1>1 DEF Goes
  <2>2. ASSUME NEW u, JobsAt(u) # {} PROVE JobsAt(u)' # {} \/ Abandoned(u)
    <3>1. PICK w \in Worker : Holds(w) /\ Url(w) = u
      BY <2>2 DEF JobsAt
    <3>2. (Holds(w)' /\ Url(w)' = u) \/ Abandoned(u)
      BY <1>1, <3>1, HolderGoes
    <3> QED BY <3>2 DEF JobsAt
  <2>3. \A u : CallersAt(u)' = CallersAt(u)
    BY <2>1 DEF CallersAt
  <2>4. \A u \in m_processinglist' : HeldAfter(u)
    BY <2>1, <2>2, <2>3 DEF HeldAfter
  <2> QED BY <1>0, <2>1, <2>4, ListedFrame
<1>2. ASSUME NEW w \in Worker, Claim(w) PROVE ListedIsHeld'
  <2>1. /\ pc[w] = "progress" /\ UNCHANGED <<pc, job, key, tpc, url>>
        /\ claimed' = claimed \cup {job[w]} /\ work' = [work EXCEPT ![w] = "second"]
        /\ m_processinglist' = m_processinglist \cup {Url(w)}
    BY <1>2 DEF Claim, qvars, vars, threadVars, callerVars, GoTo
  <2>2. Holds(w)' /\ Url(w)' = Url(w) /\ \A v \in Worker : Holds(v) => Holds(v)' /\ Url(v)' = Url(v)
    BY <1>0, <2>1 DEF Holds, Url
  <2>3. \A u : CallersAt(u)' = CallersAt(u) /\ JobsAt(u) \subseteq JobsAt(u)'
    BY <2>1, <2>2 DEF CallersAt, JobsAt
  <2>4. PICK k : k = Url(w) /\ k = Url(w)'
    BY <2>2
  <2>5. JobsAt(k)' # {}
    BY <2>2, <2>4 DEF JobsAt
  <2>6. \A u \in m_processinglist' : HeldAfter(u)
    BY <2>1, <2>3, <2>4, <2>5 DEF HeldAfter
  <2> QED BY <1>0, <2>1, <2>6, ListedFrame
<1>3. ASSUME NEW w \in Worker, OnCachingComplete(w) PROVE ListedIsHeld'
  <2>1. /\ UNCHANGED <<pc, job, key, tpc, url, claimed>> /\ work' = [work EXCEPT ![w] = "complete"]
        /\ m_processinglist' = m_processinglist \ {Url(w)}
    BY <1>3 DEF OnCachingComplete, Unlist, qvars, vars, threadVars, callerVars, GoTo
  <2>2. \A v \in Worker : v # w /\ Holds(v) => Holds(v)' /\ Url(v)' = Url(v)
    BY <1>0, <2>1 DEF Holds, Url
  <2>3. \A u : /\ CallersAt(u)' = CallersAt(u)
               /\ u # Url(w) => JobsAt(u) \subseteq JobsAt(u)'
    BY <2>1, <2>2 DEF CallersAt, JobsAt
  <2>4. \A u \in m_processinglist' : HeldAfter(u)
    BY <2>1, <2>3 DEF HeldAfter
  <2> QED BY <1>0, <2>1, <2>4, ListedFrame
<1>4. ASSUME NEW c \in Caller, (\E k \in Key : CacheImage(c, k)) \/ CachingDone(c) \/ LookAgain(c)
      PROVE  ListedIsHeld'
  <2>1. UNCHANGED <<pc, job, key, claimed, work>>
    BY <1>4 DEF CacheImage, CachingDone, LookAgain, qvars, vars, threadVars, cacheVars
  <2>2. \A u : JobsAt(u)' = JobsAt(u)
    BY <2>1 DEF JobsAt, Holds, Url
  <2>3. ASSUME NEW k \in Key, CacheImage(c, k) PROVE ListedIsHeld'
    <3>1. /\ tpc[c] = "idle" /\ m_processinglist' = m_processinglist \cup {k}
          /\ tpc' = [tpc EXCEPT ![c] = IF k \in m_processinglist THEN "waiting" ELSE "caching"]
          /\ url' = [url EXCEPT ![c] = k]
      BY <2>3 DEF CacheImage
    <3>2. \A u : CallersAt(u) \subseteq CallersAt(u)'
      BY <1>0, <3>1 DEF CallersAt
    <3>3. \A u \in {k} \ m_processinglist : c \in CallersAt(u)'
      BY <1>0, <3>1 DEF CallersAt
    <3>4. \A u \in m_processinglist' : HeldAfter(u)
      BY <2>2, <3>1, <3>2, <3>3 DEF HeldAfter
    <3> QED BY <1>0, <2>1, <3>4, ListedFrame
  <2>4. CASE CachingDone(c) \/ LookAgain(c)
    <3>1. /\ tpc' = [tpc EXCEPT ![c] = "idle"] /\ url' = [url EXCEPT ![c] = NULL]
          /\ \/ tpc[c] = "waiting" /\ m_processinglist' = m_processinglist
             \/ m_processinglist' = m_processinglist \ {url[c]}
      BY <2>4 DEF CachingDone, LookAgain, Unlist, cacheVars
    <3>2. \A u \in m_processinglist' : u \in m_processinglist /\ CallersAt(u) \subseteq CallersAt(u)'
      BY <1>0, <3>1 DEF CallersAt
    <3>3. \A u \in m_processinglist' : HeldAfter(u)
      BY <2>2, <3>2 DEF HeldAfter
    <3> QED BY <1>0, <2>1, <3>3, ListedFrame
  <2> QED BY <1>4, <2>3, <2>4
<1> QED BY <1>1, <1>2, <1>3, <1>4, CacheSteps

LInv ==
  /\ QueueOwns /\ CacheTypes /\ ReportedInv /\ PlaceInv /\ ClaimedInv /\ MarkInv
  /\ ListedIsHeld

LEMMA LInvInit == TInit => LInv
<1> SUFFICES ASSUME TInit PROVE LInv
  OBVIOUS
<1>1. /\ TInv /\ Init /\ m_processinglist = {}
  BY TInvInit DEF TInit, QInit
<1>2. QueueOwns /\ CacheTypes /\ ReportedInv /\ PlaceInv /\ ClaimedInv
  BY <1>1 DEF TInv, WorkInv, ClaimInv
<1>3. MarkInv
  BY <1>1 DEF Init, MarkInv, Queued
<1> QED BY <1>1, <1>2, <1>3 DEF LInv, ListedIsHeld

LEMMA LInvStep == LInv /\ [TNext]_tvars => LInv'
<1> SUFFICES ASSUME LInv, [TNext]_tvars PROVE LInv'
  OBVIOUS
<1>1. /\ QueueOwns /\ CacheTypes /\ ReportedInv /\ PlaceInv /\ ClaimedInv /\ MarkInv /\ ListedIsHeld
      /\ key \in [Job -> Key \cup {NULL}] /\ reported \in Seq(Job) /\ [QueueMoves]_qvars
  BY CacheMovesQueue DEF LInv, CacheTypes
<1>2. QueueOwns' /\ MovesOn /\ Marks
  BY <1>1, OwnsStep, QueueMovesOn, QueueMarks
<1>3. ReportedInv' /\ CacheTypes' /\ PlaceInv'
  BY <1>1, <1>2, ReportedStep, CacheTypesStep, PlaceStep
<1>4. ClaimedInv' /\ MarkInv' /\ ListedIsHeld'
  BY <1>1, <1>2, ClaimedStep, MarkStep, ListedStep
<1> QED BY <1>2, <1>3, <1>4 DEF LInv

LEMMA ListInvariance == TSpec => []LInv
BY LInvInit, LInvStep, PTL DEF TSpec

(* What CacheImageReturns rests on, for any number of jobs at once: the    *)
(* URL a caller waits for has somebody at it who will take it off the list *)
(* (OnCachingComplete, or the other CacheImage() when it is done), or had  *)
(* a job that was cancelled after it had listed the URL.                   *)
THEOREM ListedUrlIsHeld == TSpec => []ListedIsHeld
<1>1. LInv => ListedIsHeld
  BY DEF LInv
<1> QED BY <1>1, ListInvariance, PTL

(* Under the cache, too, the manager uses no job that was freed, and none  *)
(* is leaked but those it refused.                                         *)
THEOREM MemorySafeUnderCache == TSpec => [](NoUseAfterDelete /\ NoOrphans)
<1>1. LInv => NoUseAfterDelete /\ NoOrphans
  BY OwnersUseNoFreedJob, OwnersOrphanNone DEF LInv
<1> QED BY <1>1, ListInvariance, PTL
=============================================================================
