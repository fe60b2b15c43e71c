---------------------------- MODULE TextureCache ----------------------------
(***************************************************************************)
(* CTextureCache (xbmc/TextureCache.cpp): a CJobQueue of jobs that cache   *)
(* images, and threads that call CacheImage() and cache them themselves.   *)
(* Both list the URL they are at in m_processinglist; a job finds out from *)
(* its first progress report that somebody else is, and the cache cancels  *)
(* it then, from within the callback.  CacheImage() waits instead, until   *)
(* the URL is not listed any more.                                         *)
(*                                                                         *)
(* Keys are URLs: two jobs are equal when their URLs are cached in the     *)
(* same file.  What is cached already is left open: a job may be added for *)
(* any image, and may find that there is nothing to do.  m_completeEvent   *)
(* only shortens the second CacheImage() sleeps between two looks.         *)
(***************************************************************************)
EXTENDS JobQueue

CONSTANT Caller     \* threads, or jobs of others, that call CacheImage()

VARIABLES
  m_processinglist,
  work,      \* where a worker is in CTextureCacheJob::DoWork
  tpc, url,  \* where a caller is in CacheImage(), and with which URL
  claimed    \* history: the jobs that have listed their URL

cacheVars  == <<m_processinglist, work>>
callerVars == <<tpc, url>>
tvars == <<qvars, cacheVars, callerVars, claimed>>

TInit ==
  /\ QInit /\ ~m_lifo
  /\ m_processinglist = {}
  /\ work = [w \in Worker |-> "first"]
  /\ tpc = [c \in Caller |-> "idle"] /\ url = [c \in Caller |-> NULL]
  /\ claimed = {}

Url(w) == key[job[w]]
GoTo(w, s) == work' = [work EXCEPT ![w] = s]

-----------------------------------------------------------------------------
(* CTextureCacheJob::DoWork, on a worker thread                            *)

(* ShouldCancel(0, 0), ShouldCancel(1, 0): the manager's answer is that    *)
(* the job was cancelled, or the cache's OnJobProgress is called.          *)
ShouldCancel(w) ==
  /\ work[w] \in {"first", "second"} /\ job[w] \notin told
  /\ CheckCancel(w)
  /\ GoTo(w, IF work[w] = "second" /\ pc'[w] = "progress" THEN "cache" ELSE work[w])
  /\ UNCHANGED <<qVars, m_lifo, key, qHist, m_processinglist, callerVars, claimed>>

(* OnJobProgress of a first report, under m_processingSection: list the    *)
(* URL, ...                                                                *)
Claim(w) ==
  /\ pc[w] = "progress" /\ work[w] = "first"
  /\ Url(w) \notin m_processinglist
  /\ m_processinglist' = m_processinglist \cup {Url(w)}
  /\ claimed' = claimed \cup {job[w]}
  /\ GoTo(w, "second")
  /\ UNCHANGED <<qvars, callerVars>>

(* ... or leave the lock, ...                                              *)
FindListed(w) ==
  /\ pc[w] = "progress" /\ work[w] = "first"
  /\ Url(w) \in m_processinglist
  /\ GoTo(w, "refuse")
  /\ UNCHANGED <<qvars, m_processinglist, callerVars, claimed>>

CancelOwnJob(k) ==
  \/ CancelPassedOn(k) \/ CancelKeptBack(k)
  \/ /\ ~q_lock /\ MayMiss(k) /\ \A j \in Job : InQueue(j) => key[j] # k
     /\ UNCHANGED qvars

(* Plausible bug: without the second look that DoWork calls a hack.        *)
Refuse_Once(w) ==
  /\ work[w] = "refuse"
  /\ CancelOwnJob(Url(w))
  /\ GoTo(w, "cache")
  /\ UNCHANGED <<m_processinglist, callerVars, claimed>>

(* ... and cancel the job, which is noticed by the second look only.       *)
Refuse(w) ==
  /\ work[w] = "refuse"
  /\ CancelOwnJob(Url(w))
  /\ GoTo(w, "second")
  /\ UNCHANGED <<m_processinglist, callerVars, claimed>>

Reported(w) ==
  /\ work[w] \in {"second", "cache"}
  /\ ProgressDone(w)
  /\ UNCHANGED <<qVars, m_lifo, key, qHist, cacheVars, callerVars, claimed>>

(* It was cancelled, or is done with CacheTexture().                       *)
DoWorkReturns(w) ==
  /\ job[w] \in told \/ work[w] = "cache"
  /\ JobDone(w)
  /\ UNCHANGED <<qVars, m_lifo, key, qHist, cacheVars, callerVars, claimed>>

(* Plausible bug: only a success is taken off the list.                    *)
Unlist_Success(u) == m_processinglist' \in {m_processinglist, m_processinglist \ {u}}

Unlist(u) == m_processinglist' = m_processinglist \ {u}

(* OnJobComplete: OnCachingComplete, then the queue's own.                 *)
OnCachingComplete(w) ==
  /\ pc[w] = "callback" /\ cb[w] = Queue /\ work[w] # "complete"
  /\ Unlist(Url(w))
  /\ GoTo(w, "complete")
  /\ UNCHANGED <<qvars, callerVars, claimed>>

OnTextureJobComplete(w) ==
  /\ work[w] = "complete"
  /\ OnJobComplete(w)
  /\ UNCHANGED <<cacheVars, callerVars, claimed>>

JobErased(w) ==
  /\ EraseJob(w)
  /\ GoTo(w, "first")
  /\ UNCHANGED <<qVars, m_lifo, key, qHist, m_processinglist, callerVars, claimed>>

-----------------------------------------------------------------------------
(* CacheImage()                                                            *)

CacheImage(c, u) ==
  /\ tpc[c] = "idle"
  /\ tpc' = [tpc EXCEPT ![c] = IF u \in m_processinglist THEN "waiting" ELSE "caching"]
  /\ url' = [url EXCEPT ![c] = u]
  /\ m_processinglist' = m_processinglist \cup {u}
  /\ UNCHANGED <<qvars, work, claimed>>

CachingDone(c) ==
  /\ tpc[c] = "caching"
  /\ Unlist(url[c])
  /\ tpc' = [tpc EXCEPT ![c] = "idle"]
  /\ url' = [url EXCEPT ![c] = NULL]
  /\ UNCHANGED <<qvars, work, claimed>>

LookAgain(c) ==
  /\ tpc[c] = "waiting" /\ url[c] \notin m_processinglist
  /\ tpc' = [tpc EXCEPT ![c] = "idle"]
  /\ url' = [url EXCEPT ![c] = NULL]
  /\ UNCHANGED <<qvars, cacheVars, claimed>>

-----------------------------------------------------------------------------
(* What a worker does next ...                                             *)
CacheStep(w) ==
  \/ ShouldCancel(w) \/ Claim(w) \/ FindListed(w) \/ Refuse(w) \/ Reported(w)
  \/ DoWorkReturns(w) \/ OnCachingComplete(w) \/ OnTextureJobComplete(w) \/ JobErased(w)
  \/ /\ \/ TakeJob(w) \/ LeaveLock(w) \/ WaitForEvent(w) \/ WakeUp(w) \/ TimeOut(w)
        \/ Retire(w) \/ ExitThread(w)
        \/ cb[w] = NULL /\ NotifyClient(w)
     /\ UNCHANGED <<qVars, m_lifo, key, qHist, cacheVars, callerVars, claimed>>

(* ... and the application's thread: Deinitialize(), when a skin is        *)
(* unloaded, cancels the queue, and the manager is stopped on exit.        *)
Deinitialize ==
  /\ canceller = "idle"
  /\ QueueCancelBegin
  /\ UNCHANGED <<cacheVars, callerVars, claimed>>
DeinitializeGoesOn ==
  /\ QueueCancelEntry \/ QueueCancelEnd
  /\ UNCHANGED <<cacheVars, callerVars, claimed>>
Exit ==
  /\ \/ ~q_lock /\ m_running /\ CancelJobsBegin
     \/ CancelJobsSignal \/ CancelJobsReturn
  /\ UNCHANGED <<qVars, m_lifo, key, qHist, cacheVars, callerVars, claimed>>

BackgroundCacheImage(j, u) ==
  /\ AddToQueue(j, u)
  /\ UNCHANGED <<cacheVars, callerVars, claimed>>

TNext ==
  \/ \E w \in Worker : CacheStep(w)
  \/ \E j \in Job, u \in Key : BackgroundCacheImage(j, u)
  \/ \E c \in Caller, u \in Key : CacheImage(c, u)
  \/ \E c \in Caller : CachingDone(c) \/ LookAgain(c)
  \/ Deinitialize \/ DeinitializeGoesOn \/ Exit

TSpec == TInit /\ [][TNext]_tvars

(* Threads run on, CacheTexture() returns, and a caller looks at the list  *)
(* every second: it need not meet a moment at which its URL is off it.     *)
TFairness ==
  /\ \A w \in Worker : WF_tvars(CacheStep(w))
  /\ \A c \in Caller : WF_tvars(CachingDone(c)) /\ WF_tvars(LookAgain(c))
  /\ WF_tvars(DeinitializeGoesOn)
TFairSpec == TSpec /\ TFairness

-----------------------------------------------------------------------------
(* Properties                                                              *)

(* "currently processing list to avoid 2 jobs being processed at once": no *)
(* two threads cache the same image at a time, whether a job or a caller   *)
(* began it and whatever a skin that is unloaded cancels.  It takes a job  *)
(* that reports after it was cancelled to break this: CJobQueue takes the  *)
(* report for that of the equal job it has passed on since, which it       *)
(* cannot cancel any more then.                                            *)
ReportedLate(u) == \E j \in dropped : key[j] = u /\ j \in ToSet(reported)
CachedByOne ==
  \A u \in Key :
    \/ ReportedLate(u)
    \/ Cardinality({c \in Caller : tpc[c] = "caching" /\ url[c] = u})
         + Cardinality({w \in Worker : pc[w] = "run" /\ work[w] = "cache" /\ Url(w) = u}) <= 1

(* "wait for currently processing job to end": every CacheImage() returns, *)
(* but for an image whose job was cancelled after it had listed the URL,   *)
(* which nobody takes off the list then.                                   *)
Abandoned(u) == \E j \in claimed : key[j] = u /\ cancelled[j] = "before"
CacheImageReturns ==
  \A c \in Caller, u \in Key :
    (tpc[c] = "waiting" /\ url[c] = u) ~> (tpc[c] # "waiting" \/ Abandoned(u))
=============================================================================
