# Formal models of Kodi's threads, jobs, events, messages and caches

TLA+ models of the concurrent core of Kodi (`xbmc/`), the TLC configurations
that check them on small instances, and TLAPS proofs of the parts that
everything else rests on, for every size. The definitions are translations of
the C++ code; the table `map` of `PROJECT.json` gives the lines each one stands
for.

Run from this directory: `tlc -workers 2 -config MCJobManager.cfg MCJobManager`,
and the same for every other `.cfg` with the module it is named after
(`MCJobQueue_cancel.cfg` goes with `MCJobQueue`); `tlapm JobQueueProofs.tla`,
and the same for `TextureCacheProofs`, `EventStreamProofs`, `EventGroupProofs`,
`FileCacheProofs`, `StreamPlayersProofs`, `ActorProtocolProofs` and
`ApplicationMessengerProofs`.

## 1. Inventory

Kodi is a media centre of some 3000 C++ files. One application thread runs the
GUI; around it, threads play, scan, cache and talk to add-ons. What they have in
common, and what is hardest to test, is the machinery they wait, signal, queue
and cancel with, and the places where they hand data to each other. That is
what this project models; the parts below are ordered by how much of the
program rests on them.

| Component | State | Operations | Interacts with | Status |
|---|---|---|---|---|
| `CJobManager`, `CJobWorker` (`utils/JobManager.cpp`) | five queues by priority, `m_processing`, `m_workers`, id counter, `m_pauseJobs`, `m_running`, `m_jobEvent` | AddJob, CancelJob, CancelJobs, Restart, PauseJobs, UnPauseJobs; of a worker: GetNextJob, OnJobProgress, OnJobComplete, RemoveWorker | any thread adds and cancels; workers call back `IJobCallback` objects without a lock | modelled, proved |
| `CEvent`, `CEventGroup` (`threads/Event.{h,cpp}`) | flags, waiter counts, list of groups; three levels of locks | Set, Reset, Wait, WaitMSec; construct, wait, destroy a group | every blocking wait, `CThread::AbortableWait` | modelled, proved |
| `CJobQueue` (`utils/JobManager.cpp`) | jobs kept back, entries passed on, lifo | AddJob, CancelJob, CancelJobs, OnJobComplete, QueueNextJob | is the callback of its jobs; takes its own lock, then the manager's | modelled, proved |
| `CCircularCache`, `CFileCache` (`filesystem/`) | ring positions begin, current, end; two auto-reset events, positions of reader and source | WriteToCache, ReadFromCache, Seek, Reset, WaitForData; Process, Read, Seek, Close | a filling thread and its reader | modelled, proved |
| `CDVDMessageQueue` (`cores/VideoPlayer`) | two lists, data size, abort and drain flags, an event | Put, PutBack, Get, Flush, Abort, End, WaitUntilEmpty | between the threads of the player | modelled, proved |
| Video player's threads (`VideoPlayer*.cpp`) | which streams are open, paused, being flushed or drained | open, flush, drain and close a stream; a rendezvous of three threads | player, audio, video and application thread through message queues | partly: what the threads tell each other, proved |
| `Actor::Protocol` (`utils/ActorProtocol.cpp`) | in, out and free queues; per message reply and timeout flags | SendOutMessage(Sync), ReceiveIn/OutMessage, Reply, Release, Purge | audio engine, video output | modelled, proved |
| `CApplicationMessenger` | two queues, stop flag; per message an event | SendMsg, PostMsg, ProcessMessages, ProcessWindowMessages, Cleanup, Stop | any thread to the application's thread; `CApplication::Stop()` | modelled, proved |
| `CTextureCache` (`TextureCache.cpp`) | URLs in process, an event, use counts, a database | CacheImage, BackgroundCacheImage, OnCachingComplete, OnJobProgress, Deinitialize | is a `CJobQueue`; cancels its own jobs from their progress callback | partly: the list and the jobs, proved |
| `CVideoLibraryQueue`, `CMusicLibraryQueue` | maps of jobs by type, modal flag | AddJob, CancelJob, StopLibraryScanning, OnJobComplete, Refresh | are `CJobQueue`s | not modelled |
| `CEventStream`, `CEventSource` (`utils/EventStream.h`) | subscriptions, each with an owner and a lock; a queue | Subscribe, Unsubscribe, Publish, HandleEvent | events are delivered by jobs of a `CJobQueue`; callers and handlers bring locks of their own | modelled, proved; not `CBlockingEventSource` |
| `CSharedSection` | mutex, reader count, condition | lock, lock_shared, unlock | databases, PVR, add-ons | not modelled |
| `CThread`, `CTimer` | thread id, stop flag, three events; end time | Create, StopThread, Sleep, AbortableWait; Start, Stop, Restart | owner and thread | not modelled |
| audio engine, GUI, PVR, add-ons, databases, file systems, network | | | see section 7 | not modelled |

What is hard in each, and what makes it correct:

* **Job manager.** Threads retire after 30 idle seconds, jobs are cancelled while
  they run, and the callback is called after the lock was left. Correct: the
  lists agree with what the threads hold, no job object is used after it was
  freed, a low priority cannot take the threads kept for a higher one, a queued
  job always finds a thread, a cancelled job stays silent, and after
  `CancelJobs()` no callback can run.
* **Events.** A flag and a condition variable under different locks, spurious
  returns, timeouts, several waiters of one signal, groups that come and go
  while an event is set. Correct: no wakeup is lost, every waiter of a signal
  returns, `Set()` cannot reach a destroyed group and always returns.
* **Job queue.** It works through reports that may come late or, after a
  cancellation, not at all; it compares jobs by value. Correct: one job at a
  time, reports in order, nothing kept back for good, no pointer to a job the
  manager freed, no job that nobody frees.
* **Caches.** A seek interrupts the filling thread wherever it waits, through
  events that other waits consume. Correct: what is read is the file, the thread
  goes on where the window ends, and every call returns.
* **Message queue and stream players.** Packets are put back, flushed and
  overtaken by messages with priority; the video player sends itself packets
  again that its decoder lost; a rendezvous message goes round in the queue it
  came from. Correct: new packets are decoded in order, a drained queue has only
  packets the decoder already had, a flush leaves nothing old but what was put
  back, and nobody waits for one who will not come.
* **Actor protocol.** A synchronous message has two owners, and each may give up
  on the other. Correct: it is recycled once, by the second, whether the reply
  or the timeout came first, and a caller gets its own answer or none.
* **Messenger.** Loops over the queues nest in the handlers of their messages,
  and one of these ends the program. Correct: whoever waits is released, no
  message is handled twice or after it was deleted.
* **Texture cache.** A job finds out from its own report that somebody else
  is at its image, and is cancelled from within it; a job that is silenced
  must not leave its URL listed, for callers poll until it goes.
* **Event streams.** Jobs work on a copy of the subscriptions that is older than
  the last `Unsubscribe`; four levels of locks, the outermost and the innermost
  being other classes'. Correct: no event after `Unsubscribe` returned, events in
  order, every event arrives, every `Unsubscribe` returns.
* **Library queues.** The map by type must follow the queue below through
  completion and cancellation. **Shared section.** Exclusion, and no deadlock between readers and
  a writer. **Threads and timers.** `StopThread` returns; a restarted timer
  does not fire early.

The hazards, line by line, with the properties meant to catch them, are in
`PROJECT.json`.

## 2. Modules

```
JobLifecycle            what the manager promises for one job (abstract)
JobManager              CJobManager + CJobWorker
  JobManagerProperties  its properties; implements JobLifecycle
    MCJobManager        instances for TLC
    JobQueue            CJobQueue composed with the manager
      JobQueueProofs    of both: invariants, refinement, who owns a job,
                        live entries, order (TLAPS)
      MCJobQueue
      TextureCache      CTextureCache composed with both
        TextureCacheProofs  an image is cached by one, a listed URL is held (TLAPS)
        MCTextureCache
      EventStream       CEventSource and its subscribers, composed with both
        EventStreamProofs   nothing after Unsubscribe, events in order,
                        no deadlock but the known one (TLAPS)
        MCEventStream
EventGroup              CEvent + CEventGroup
  EventGroupProofs      its inductive invariant, safety, no deadlock (TLAPS)
  MCEventGroup
CircularCache           CCircularCache, the ring buffer
  FileCache             CFileCache: its thread and its reader
    FileCacheProofs     the window is the file, what is read is the file (TLAPS)
    MCFileCache
FileStream              what a stream promises its reader (abstract)
MessageQueue            CDVDMessageQueue: each operation as a function
StreamPlayers           the player's threads over MessageQueue
  StreamPlayersProofs   its inductive invariant and safety (TLAPS)
  MCStreamPlayers
ActorProtocol           Actor::Protocol and an actor's loop
  ActorProtocolProofs   its inductive invariant and safety (TLAPS)
  MCActorProtocol
ApplicationMessenger    CApplicationMessenger and CApplication::Stop()
  ApplicationMessengerProofs   its inductive invariant, safety, no deadlock
                        but the known one (TLAPS)
  MCApplicationMessenger
```

In every module, variables that are members carry the member's name, a critical
section of the code is one action, a variable `pc` (or `cpc`, `rpc`, `fpc`,
`thread`, `work`) says where a thread is between two of them, a lock held over
several actions is a variable, and a definition whose name ends in
`_Something` is a plausible bug, used to show that a property can fail.

### JobManager

`item` holds the `CWorkItem` of a job wherever it is listed, `heap` whether the
object exists, `signaled` and `waiters` are the members of the auto-reset
`m_jobEvent` (whose own module is EventGroup; here its `WaitMSec` and `Set` are
single steps, as they are under its mutex).

| action | code |
|---|---|
| `AddJob`, with `Enqueue`, `StartWorkers`, `NextId` | `AddJob`, refused when not running |
| `CancelQueued`, `CancelRunning` | `CancelJob(id)`: delete, or remove the callback |
| `CancelJobsBegin`, `CancelJobsSignal`, `CancelJobsReturn` | `CancelJobs`: the flush, each turn of its loop, the return |
| `PauseJobs`, `UnPauseJobs`, `Restart` | the same |
| `TakeJob` | `PopJob` within `GetNextJob`, in the loop and after it |
| `LeaveLock`, `WaitForEvent`, `WakeUp`, `TimeOut` | the wait of `GetNextJob` |
| `Retire`, `ExitThread` | `RemoveWorker`, and again in the worker's destructor |
| `CheckCancel`, `ProgressDone` | `OnJobProgress` |
| `JobDone`, `NotifyClient`, `EraseJob` | the three parts of `OnJobComplete` |

`notified`, `cancelled` and `told` are history, for the properties. Abstracted:
what a job does (it may ask `ShouldCancel` any number of times and then
returns, with or without an exception); success or failure, which the manager
only passes on; the 30 seconds. A job object is handed over once, as the
ownership rule of `AddJob` demands. `IsProcessing` only reads and is left out.

`JobLifecycle` is the abstract specification: new, queued or refused, running,
reported, destroyed, in that order, each at most once. `JobsFollowLifecycle` is
the refinement: the stage of a job is computed from `heap`, the queues,
`m_processing` and `notified` (`StageOf`).

### JobQueue

Extends the manager. The two classes use the same member names, so those of the
queue start with `q_`. `AddToQueue`, `CancelPassedOn`, `CancelKeptBack` and
`OnJobComplete` hold the queue's lock and enter the manager at most once: one
action each, `OnJobComplete` being a step of the worker that calls it.
`CancelJobs` enters the manager once per entry, so it is three actions around
`q_lock`, with the workers in between. `key` is what `CJob::operator==`
compares; comparing with an entry whose job the manager freed
(`CJobManager::CancelJobs` does not tell the queue) reads freed memory, so
`Equal` may answer either way.

### TextureCache

Extends the queue, which is the cache's base class. `work` is where a worker is
in `CTextureCacheJob::DoWork`; `tpc` where another thread is in `CacheImage()`.

| action | code |
|---|---|
| `BackgroundCacheImage` | the same, when the image needs caching: `AddJob` of the queue |
| `ShouldCancel` | the two reports `DoWork` begins with, as the manager answers them |
| `Claim`, `FindListed`, `Refuse`, `Reported` | `OnJobProgress`: list the URL; or leave the lock, then cancel the own job |
| `DoWorkReturns`, `OnCachingComplete`, `OnTextureJobComplete`, `JobErased` | the end of the job and its report |
| `CacheImage`, `CachingDone`, `LookAgain` | `CacheImage()` |
| `Deinitialize`, `DeinitializeGoesOn` | the same, called when a skin is unloaded: `CancelJobs` of the queue |
| `Exit` | `CJobManager::CancelJobs()` in `CApplication::Stop()` |

Left out: the database (whether an image is cached already is left open), use
counts, and the jobs for them, which have another type.

### EventStream

Extends the queue: a `CEventSource` has one, first in first out and one job at a
time, of `PRIORITY_HIGH`; a job is a `CLambdaJob`, equal to itself only.
`subscribers` is the copy of the list a job was made with, `handling` the
subscription whose handler (and so whose lock) a worker is in. `HeldBy` names
the lock a caller holds meanwhile, `TakenBy` the one a handler takes.

| action | code |
|---|---|
| `PublishBegin`, `Publish`, `Submit` | the caller's own lock (`CAddonMgr::OnPostUnInstall`, `EnableSingle`, `DisableAddon`); `Publish`: the copy under the stream's lock, the job added after it was left |
| `SubscribeBegin`, `Subscribe` | the caller's lock (`CDirectoryProvider::UpdateURL`); `Subscribe` |
| `UnsubscribeBegin`, `Enter`, `IsOwnedBy`, `Leave`, `Cancel`, `UnsubscribeReturn` | the caller's lock (`CDirectoryProvider::Reset`); the loop of `Unsubscribe` under the stream's lock, one subscription at a time, and the cancellations after it |
| `HandleEvent`, `HandlerReturns` | `HandleEvent` of one subscription; the job ends after the last one |

The stream's lock is a variable only where something is waited for under it, in
`Unsubscribe`. A handler is a step that needs its lock for a moment; handlers
that subscribe, unsubscribe or publish themselves are left out, as are
`CBlockingEventSource` and the end of the program, at which the manager's
`CancelJobs()` discards events not yet delivered. A subscriber calls from one thread, and unsubscribes
only after it has subscribed.

### EventGroup

`CEvent` and `CEventGroup` down to the mutexes and condition variables. Two
locks are held across several steps and are variables (`listOwner`, `gOwner`);
the others are held within one. `SetFlag`, `Notify`, `LockList`, `TellGroup`,
`SetReturn` are the steps of `Set()`; `WaitSignaled`, `WaitSleep`, `WaitReturn`,
`WaitAgain`, `WaitTimeOut` those of `Wait` and `WaitMSec`; `GroupWait`,
`ScanEvent`, `GroupSleep`, `GroupAgain`, `GroupFound`, `GroupTold`,
`GroupTimeOut` those of a group's `wait`; `Construct`, `AddGroup`,
`Constructed`, `Destroy`, `RemoveGroup`, `Destroyed` those of its life. A
condition variable may return at any time (`Stir`: timeout or spurious), after
which the predicate decides. Events outlive the model; groups are constructed,
waited for by any number of threads, and destroyed when nobody waits.

### CircularCache, FileCache, FileStream

A byte of the file is its position, so that a buffer that hands out the wrong
bytes shows. Each operation of `CCircularCache` is an operator that holds its
lock; `Seek` leaves it in the middle to wait, and is `SeekAhead` and `SeekTo`.
`CircularCache` is also a specification of its own (`CacheSpec`): any writer
that continues at `m_end`, any reader. FileCache's steps are steps of it
(`UsesCacheAsSpecified`), so what is proved of `CacheSpec` holds there, as long
as nothing is broken.

| action | code |
|---|---|
| `TakeSeek`, `SeekSource`, `SeekSourceFails`, `ResetCache` | the head of the loop in `Process()` |
| `Throttle`, `SeekInterrupts`, `PutBack` | the rate limiter and the four waits on `m_seekEvent` that set it again |
| `CacheFull`, `ReadSource`, `ReadNothing`, `RetryRead`, `LeaveEof`, `ReadFails`, `Drained` | reading a chunk, the end of the input, a stall, a fatal error |
| `WriteChunk`, `NoSeekAfterWrite`, `WriteDone`, `WriteInterrupted` | writing it, piece by piece |
| `OnExit` | the thread's last step |
| `Read`, `ReadData`, `ReadNone`, `ReadWaited` | `Read()` and the wait in it |
| `Seek`, `SeekHit`, `SeekMissed`, `SeekWaited`, `SeekAnswered`, `SeekRemaining`, `SeekAgain` | `Seek()`, waiting in the cache, for the thread, for the rest of the data |
| `Close`, `SetStopEvent`, `Joined` | `Close()` and `StopThread()` |

`FileStream` is the abstract specification: `Read` returns the bytes at the
position, `Seek` moves it. `ReadsLikeTheFile` is the refinement. What may go
wrong is the constant `Faults`: a source that stalls, fails to read or to seek,
cannot seek, and data that takes longer than the reader waits.

### MessageQueue, StreamPlayers

`MessageQueue` has no variables: a queue is a record, an operation a function of
it, done under its lock; `Get` is split where it leaves the lock. A packet's
number is also its size. `StreamPlayers` runs three threads and the
application's over two such queues:

| action | code |
|---|---|
| `GetMessage`, `GetWaits`, `Exit` | `Get()` in `Process()` of a stream player |
| `GetWakes` | the event, or the time out, after which it looks for output (`DecoderGoesOn`, `DecoderFlushed`: what `ProcessDecoderOutput` finds) |
| `HandlePacket`, `PutPacketBack`, `HandleSetting`, `HandleFlush` | its handlers; a packet the decoder takes is remembered (`Remembered`: `m_packets`) and may make it lose its state, one it has no room for goes back |
| `SendAgain`, `DecoderReset` | `VC_FLUSHED` and `VC_REOPEN`: the packets of `m_packets` are sent again with priority 10, one by one, then the decoder is reset or reopened |
| `HandleSync`, `SyncReached`, `SyncLater` | `GENERAL_SYNCHRONIZE`: wait 100 ms, else put it back |
| `SendPacket`, `OpenStream` | the player's thread: `ProcessPacket`, `OpenStream` |
| `FlushBuffers`, `FlushPackets`, `TellToFlush`, `AskToMeet`, `MeetPlayers`, `FlushDone` | `FlushBuffers()` |
| `CloseStream`, `PutMarker`, `Drained`, `EndDrain`, `AbortQueue`, `StopThread`, `EndQueue` | `CloseStream()` with `WaitUntilEmpty()` |
| `LeaveLoop`, `OnExit` | the end of the player: `leaving` the loop, it closes each open stream, drained unless the player is aborted |
| `OnLostDisplay`, `OnResetDisplay`, `CloseFile` | the application's thread |

`codec` is what the decoder was given since it was reset, `decoded` what it was
ever given, `m_packets` what `CVideoPlayerVideo` keeps for it: at most
`ConvergeCount` packets, or fewer, since the decoder's `GetConvergeCount()` may
shrink and no more than ten seconds are kept. The audio player keeps none. The
decoder may report that it lost its state whenever it is asked for output: after
each packet, and after each `Get()` that timed out unless the player is paused.
A packet sent again is no packet to `m_iDataSize` (`SizeIsExact` counts those of
the plain list), but `Flush()` drops it from the priority list too.

Left out are messages that only tell the decoder something: `GENERAL_RESET`
resets it; in `VIDEO_DRAIN` and `GENERAL_STREAMCHANGE` it is asked for output
too, and may lose its state then as after a time out.

### ActorProtocol

Messages are numbers; `message` is what each object says. Clients send, wait,
time out and release; the actor looks, receives, replies, sets the event,
releases, or stops and purges. `Releases` is `Message::Release`, the heart of
the two owners' agreement; `Answered`, `TimesOut`, `GivesUp` are the wait of
`SendOutMessageSync`, whose time out is over before it takes the lock again.

### ApplicationMessenger

`stack` is what the application's thread handles: a frame per loop over a queue
or message handled directly. `SendMsg`, `Push`, `ExitGfx`, `SendReturn` are a
sender's steps, `Process`, `NextMessage`, `Handle`, `ProcessReturn`,
`SendDirect`, `PostByApp` the application's, `Stop`, `JobsCancelled`,
`CleanupInStop`, `ServicesStopped`, `Exit` those of `CApplication::Stop()`,
which runs in the handler of `TMSG_QUIT`. The graphics lock is the one lock a
sender may hold.

## 3. Runs

| run | checks | instance |
|---|---|---|
| `manager` | memory, thread limits, workers for queued jobs, silence of cancelled jobs, quiet after `CancelJobs`, refinement of JobLifecycle; every accepted job ends and `CancelJobs()` returns | 2 jobs, 2 threads, priorities 0 and 2, `max_workers` 4, ids modulo 3 |
| `manager_unpause` | (finding) | 2 pausable jobs |
| `queue_cancel` | cancelling leaves no dangling pointer and no orphan | 3 jobs, 2 keys, one at once, of the pausable priority, with cancellation, pauses, shutdown and restart of the manager; last in first out, as the thumb loaders have it |
| `queue_stall` | (finding) | 2 jobs, cancellation |
| `events` | no lost wakeup of an event or a group, no `Set()` on a destroyed group; waiters are released, groups are interruptible, `Set()` and destructors return | 4 threads of which two have two roles, an auto-reset and a manual event in one group, the manual one also reset |
| `file_cache` | the reader sees the file, the thread follows the window, the cache is used as specified; every call and `Close()` return | a file of 5 bytes, a buffer of 3 with 1 kept behind the reader, chunks of 2, seeks wait up to 2 ahead; four sets of faults |
| `file_seek` | (finding) | a file of 4 bytes whose source fails to read |
| `stream_players` | the data size is exact, no message is slept over, a drain is complete, a flush leaves nothing old, no rendezvous in vain, packets decoded in order | 2 video packets and none of audio, `ConvergeCount` 2, queues full at 2, each stream opened once, one flush or drain, `CloseFile()` or, if at most one packet was sent, one loss of the display |
| `actor_messages` | recycled messages are unused, none is lost, answers match calls, the actor is woken | 2 clients, 3 calls, 6 message objects |
| `messenger` | a waiter's message is somewhere, none is handled twice; every call returns | a job thread and a service thread, 3 messages, loops nested twice |
| `texture_cache` | an image is cached by one thread at a time; `CacheImage()` returns | 2 jobs and a caller for one image, 2 threads |
| `event_stream` | no event after `Unsubscribe`, events in order, which includes one at a time; every event arrives and every `Unsubscribe` returns | 2 events, 2 publishers of which one holds a lock, 2 subscribers of which one holds a lock, 2 threads |

**Bounds, and why they are enough.** Two threads are the smallest number at which
one can be busy while another sleeps, retires or reports. The manager's run has
two jobs: its safety is proved for any number, and its liveness needs one job
and one that stands in its way. `max_workers` is 5 in the source and 4, its
least sensible value, in most runs: the limit of `PRIORITY_LOW_PAUSABLE` is
then 1, so that two jobs reach it. The id counter is taken modulo 3, so that
it wraps within a run. Worker identities are reused after a thread ended: when
both exist no further thread can be started, which blocks `AddJob` only if both
are busy or on the way out; the safety theorems have no such bound. In the
queue, two keys make two of three jobs equal. In the event model two setters
race with each other and with two waiters, and one group is what
`AbortableWait` builds; its safety is proved for any number. The file is longer
than the buffer, so that it wraps, a seek can miss the window on either side,
and a chunk does not fit in at once. Two packets let one be put back while
another waits, and two be sent again of which the first is put back; with sizes
1 and 2 a packet counted twice cannot hide. The video player does all the audio
player does with packets, and more. A behaviour with a lost display has one
packet (`MaxWithLoss`), which keeps the run to two minutes; the theorems have
neither bound. Six
message objects are more than two clients with three calls, their answers and
an actor can hold at once. Three messages are one that is handled, one sent from
its handler and `TMSG_QUIT`. Two jobs for one image are the cancelled one and
the equal one added after it. Two events let one be kept back, published or
submitted while the other is handled; a subscription of each owner is enough for
either's handler to stand in the way of the other's `Unsubscribe`.

`KeepsCalling = FALSE` means that a reader whose call has failed only closes the
file; `Expire` lets the rendezvous of a flush time out only when a player is
gone, as its time out is long; the application's thread either toggles the
display or closes the file in one behaviour.

**Deadlock** is checked in `manager`, `events` and `queue_cancel`, where no
thread may stop for good. In the other runs something really ends: jobs, calls
or messages are used up and threads retire (`event_stream`, `queue_stall`,
`texture_cache`, `actor_messages`), the file or the player is closed, the
program has ended or hangs in the way `ExitIsBlocked` describes (`messenger`).

**Fairness.** Threads that can go on do so. In JobManager, JobQueue and
TextureCache this is `WF` of each worker's step, which includes that an idle
wait ends after 30 seconds, and `SF` of `JobDone`: a job that reports progress
again and again returns in the end, which is what `DoWork` is for. The loop of
`CancelJobs()` runs on. Clients owe nothing. A caller of `CacheImage()` looks at
the list every second (`WF` of `LookAgain`): it is not assumed to catch a moment
at which its URL is unlisted. In EventStream each worker is weakly fair, and the
threads inside calls are so together. In EventGroup a thread inside an operation goes
on, strongly fair because a mutex it waits for may be taken and released over
and over; nobody need call `Set`, and no timeout need happen. In FileCache both
threads are weakly fair and the reader need not call anything. In
ApplicationMessenger senders, handlers and the loops of the application are
strongly fair, since they compete for the graphics lock; handlers are
assumed to return.

## 4. What is proved

### The job manager

The first part of `JobQueueProofs` proves of `JobManager`, for any sets of jobs and threads, any priorities in
use, any `max_workers` and any counter width: type correctness, that
`m_processing` is exactly what the threads hold, the reservation of threads for
higher priorities, memory safety, that a cancelled job is silent, that a job
told to stop is silent, that nothing runs after `CancelJobs()`, that ids are not
0, and the order of dispatch.

*Assumptions*: `JobAssumption` (finitely many job objects; NULL is neither a job
nor a callback) and `ParameterAssumption` (priorities are those of the enum;
`max_workers` lies between 4, for the unsigned subtraction in `GetMaxWorkers`
not to reach 0, and 10000, the limit of the dedicated priority; the counter has
at least two values).

*Argument*: one inductive invariant, `IInv`, of these parts:

* `ThreadInv`: a worker is in `m_workers` from its creation to its last look, and
  holds a job, its own, exactly while busy;
* `QueueInv`: a queued job is in one place, live, not in `m_processing`, filed
  under its priority, with a nonzero id;
* `StopInv`: a stopped manager has empty queues, and after `CancelJobs()` no
  worker;
* `LimitsHold`: of each priority and those below, no more jobs are processed
  than `GetMaxWorkers` allows. It is inductive given `QueueInv`, because
  `PopJob` compares the total with the limit and limits grow with the priority;
* `SilenceInv` and `ToldInv`: the callback of a cancelled job is gone from its
  work item and from every copy a worker may still call through.

None of the properties is inductive alone: that a cancelled job is silent, for
example, needs that only one thread holds the job (`ThreadInv`) and that a
queued job has never been reported (`QueueInv` with `SilenceInv`). The order of
dispatch is a property of steps and follows from `IInv` and the
monotonic limits.

Two more facts of the same generality rest on `IInv`:

* `QueuedJobsHaveWorkers`: a queued job that a pause cannot hold back has a
  worker. The interesting steps are `AddJob`, which starts a thread unless
  `m_processing` is smaller than `m_workers`, or as large as the limit (then a
  thread is at work, `ThreadInv`), and `Retire`: the last look finds no job that
  may run, so a job still queued is held back by the limit, hence by a job in
  `m_processing`, hence by another worker;
* `LifecycleImplemented`: the manager implements `JobLifecycle`. `StageTable` says
  what stage a job has for every combination of `heap`, the queues,
  `m_processing` and `notified`; for each action, one lemma shows that it moves
  one job along the life cycle (`OneJobMoves`), discards queued jobs
  (`JobsDiscarded`), or leaves every stage as it was (`SameStage`).

### The job queue

The second part is about `JobQueue`, the queue and the manager together, for any
jobs, keys, threads and priorities, with cancellations, pauses, shutdowns and
restarts in any order. It rests on the lemmas of the first.

For any number of jobs at once it proves `NoOrphans`, and that the manager's memory
safety (`NoUseAfterDelete`) holds under a queue that frees jobs itself.

*Argument*: the inductive invariant `QueueOwns` joins the manager's `TypeOK`,
`ThreadInv` and `QueueInv` with `KeptBack` (a job kept back is listed once, live,
not with the manager, no entry's and not cancelled), `KnowsOwn` (the queue knows
no job before it is added) and `Owned` (`NoOrphans` without the entries, which own
nothing). The manager's steps need one fact only, `HandlesOwn`: they free, and let
go of, jobs they have. The queue's steps are made of `QueueNextJob`, for which
`QueueNextJobOwns` says what it makes of any lists its callers pass to it.

For `JobsAtOnce = 1` it proves `EntriesAreLive`. *Argument*: `EntryInv` says that
the one entry there may be has its job in hand: with the manager, under the
entry's id, not reported yet, and with the queue as the callback of its work item
and of any copy. A report therefore finds an entry that is equal to its job, the
job being live, and takes it away before the job is freed.
*The hypothesis* is what nearly all queues of the source set (`CJobQueue(bool, unsigned
int, ...)` defaults to 1; `CGUIWindowFileManager` alone asks for 2). With more, and a
shutdown, the argument fails: `CancelJobs()` of the manager frees queued jobs
whose entries stay, and a later report may compare equal to such an entry, reading
freed memory, and take it away in place of its own (TLC finds the trace when
`JobsAtOnce` is set to 2 in `MCJobQueue_cancel.cfg`).

`InOrderInv` adds what holds of a queue first in first out that nobody cancels:
`InSequence`, position by position, the jobs added are those reported, the
entry's, and those kept back, and `Announced`, the manager has nothing unreported
but the entry's job. `InOrderStep` is what event streams use.

### Events and groups

`EventGroupProofs` proves type correctness and the three safety properties of the
run, for any sets of events, groups and threads, whatever roles a thread has and
whichever events a group is made of (`EventAssumption`: the sets of waiters are
finite, as their number is counted).

*Argument*: the inductive invariant says where each thread may be and what it
holds then: the counts of waiters are the threads inside a wait; who holds a lock
is in the section the lock is held for; the groups an event lists are those whose
construction has passed it, or whose destruction has not; and the groups a
`Set()` has still to tell are in that list. `FlagInv` is the key: while a group
sleeps, each of its events that is signaled has a `Set()` on its way to the
group, because that `Set()` either found the group in the list or has not looked
yet, and a scan that has passed the event has held the group's mutex, for which
`TellGroup` waits.

`MutexesAreLeftInOrder` is about "locking is ALWAYS done in this order"
(Event.cpp:38 and 80), the safety half of `SetReturns`: a mutex that
somebody waits for is held by a thread that waits for none, or that waits for one
that does not (`MutexesAreLeft`). The argument adds to the invariant who holds a
mutex across steps (`HeldInv`): that of an event's list only a `Set()` that tells
its groups, and a group's only a `wait()` that scans its events. The first may wait
for a group's mutex, the second for none, so that a chain of waiting threads ends
after two.

### The ring buffer and the file cache

`FileCacheProofs` proves first, of `CacheSpec`, for every size of file, buffer and
back buffer: `m_beg <= m_cur <= m_end <= m_beg + m_size` (`PositionsStayInOrder`);
every position of the window has its byte at its slot (`WindowIsTheFile`), which
needs that two positions less than `m_size` apart have different slots; a read
returns the file (`ReadsTheFile`); a write keeps `m_size_back` bytes behind the
reader (`BackBufferIsKept`).

Of `FileCacheSpec` it proves, for the same sizes and any chunk and faults, that the
thread goes on where the window ends (`SourceIsFollowed`), that a seek is neither
lost nor doubled (`SeekIsNeitherLostNorDoubled`), that the cache is used as
`CacheSpec` says (`CacheIsUsedAsSpecified`), and that `FileStream` is implemented
(`FileIsReadThrough`).

*Argument*: the invariant `FInv` promises nothing once something has failed
(`broken`); until then, besides what `CacheSpec` keeps:

* `SeekIsOnce`: a seek that the reader waits for is in one place, with the event,
  with the thread, or answered; the four waits on `m_seekEvent` that set it again
  depend on that;
* `SourceIsAt`: the source stands where the window ends, or at the end of the
  chunk in the thread's hands; a chunk may be dropped only for a seek that is
  pending then, with the event or with the thread, and repositions the source;
* `MarkIsRight`: the end of the input is marked only while the thread waits there;
* `ReaderIsAt`: for each place of the reader, where the cache stands.

`SourceFollowsWindow` alone is not inductive: whether the source must be sought
again is decided before the window is what the decision is about.

*Assumption*: `FrontHoldsChunk`, for the refinement only: the part of the buffer
that is not kept behind the reader has room for a chunk. Section 5 says what
happens otherwise.

### The texture cache

`TextureCacheProofs` is about `TextureCache`, `CTextureCache` with the queue and the
manager below it, for any images, jobs, workers and callers of `CacheImage()`.
It proves:

* `CachedByOne`: no two threads cache an image at once, but for a job reported
  late (section 5);
* `ListedIsHeld`: a listed URL has a job or a caller that will take it off the
  list, or it is that of a job that was cancelled after it had listed it
  (`Abandoned`). This is the safety half of `CacheImageReturns`: a caller that
  polls the list polls for somebody;
* `NoUseAfterDelete` and `NoOrphans`, although the cache cancels a job, and so
  makes the queue and the manager change it, from that job's own progress report.

*Argument for `CachedByOne`*, the invariant `TInv`. It joins `QueueOwns` and
`EntryInv` of the queue with:

* `IdsInv`: two jobs the manager has have different ids, so `CancelJob(id)` hits
  the job that is meant;
* `ReportedInv` and `SilentInv`: a job is reported once, by a worker past its
  callback; a job that the queue let go of, or that was told to stop, has no
  callback left in its work item;
* `KnownInv`: the queue knows every job the manager would report to it, unless one
  was reported late; so the cancellation of an own job finds it;
* `WorkInv` (with `PlaceInv`): where a worker is in `DoWork`, and that a job whose
  listing was refused is silenced before its second look at `ShouldCancel`
  (`RefuseSilences`), at which it stops;
* `ClaimInv` (with `ClaimedInv`): a job gets to caching only after it has listed its
  URL itself;
* `HoldInv`: a URL has one holder at most, worker or caller, and is listed as
  long as it has one.

`CachedByOne` is not inductive: a job that was refused goes on running, and what
keeps it from caching is that the queue still knew it by an id that is its own.

*Argument for the others*, the invariant `LInv`: of the above it needs `QueueOwns`,
`ReportedInv`, `PlaceInv` and `ClaimedInv` only, and `MarkInv`: a job without a
callback is one that somebody cancelled. Both invariants were checked by TLC on
the instance of the run `texture_cache` before they were proved.

*Hypotheses* of `CachedByOne`: `JobsAtOnce = 1`, which is what the constructor of
`CTextureCache` passes to `CJobQueue` (TextureCache.cpp:30), and
`Cardinality(Job) < IdModulus`, that the manager is given fewer than 2^32 jobs, so
that its counter does not come round to the id of a job that still runs. The
instance of the run satisfies both. The other two theorems need neither.

### Event streams

`EventStreamProofs` proves `NoEventAfterUnsubscribe` of `ESSpec`, for any
subscriptions, owners, publishers, events and workers, and whatever locks callers
and handlers bring along, and `EventsInOrder`.

*Argument*: while a handler runs its subscription is not cancelled
(`HandlersAlive`), since `Cancel` waits for the subscription's section; what a
returned `Unsubscribe` left behind is cancelled (`GoneCancelled`). The second needs
that a subscription that is not cancelled is in the stream's list or in its
owner's `toCancel` (`StillListed`), and that an owner that looks through the list
leaves none of its own behind it (`NoneOverlooked`): there the stream's lock is
needed, held by who is looking (`LockHeld`), since another `Unsubscribe` would
move the entries under it.

The order is `InOrderInv` of the queue. A stream does nothing to its queue but add
jobs (`StreamDelivers`), and its constructor makes it first in first out, one job
at a time (`StreamAssumption`): so the job that a worker runs is the entry's, and
the next after those reported.

`OnlyCrossedLocksBlock` is the safety half of `EventsArrive` and
`UnsubscribeReturns`: as long as a call or a handler is under way one of them can go
on, unless a handler waits for the lock of a caller that waits for the handler
(`Crossed`, section 5). *Argument*: handlers run in jobs that run (`HandlersRun`), and
the queue passes on one job at a time, so there is one handler at most
(`OneRuns`). A caller that cannot go on waits for the stream's lock, whose holder
is in the loop of `Unsubscribe` (`SectionsHeld`), or, in that loop, for the handler
(`StuckAwaits`); the handler, if it cannot go on, for a lock that a caller inside a
call brought along.

### The stream players

`StreamPlayersProofs` proves the six properties of the run `stream_players` for any
size of the queues, any number of packets, of times a stream is opened, of
flushes and drains, and of lost displays.

*Argument*: `SInv` is `MainInv`, which says what the player's thread has announced
at each place, and for each stream:

* `HandsInv`, `ClosedInv`, `KnownInv`: a message is in a stream player's hands while
  it handles it; a closed stream has no thread, message or packet; every
  rendezvous a message invites to exists;
* `PacketInv`: a packet is in one of the two lists or in the player's hands, once; one
  the decoder never had is newer than all it had and older than those that are
  taken after it. Packets in the list of messages with priority the decoder had,
  and they are taken before anything else: a packet it never had, and the order to
  flush, are in the player's hands only when none of them is left;
* `DecoderInv`: what the decoder has is not queued. What is kept in `m_packets` it
  has, and so is queued again only once it has left `m_packets`, on the way to the
  reset that empties `codec`. From both follows `DecodedInOrder`;
* `FlushInv` and `MeetInv`, for the flush. Once the queue was emptied, any packet in
  it was put back since; once the order to flush was handled, the decoder has no
  other one either, nor has `m_packets`. The order and the invitation to the rendezvous are in the
  same list, the invitation behind the order, and stays behind when it is put
  back (`InsertedAt`, with priority 1): so who has arrived has handled the order.
  When the rendezvous was met all have arrived, hence `OnlyPutBackSurvives`. Nobody
  loses an invitation without arriving, hence `NobodyIsWaitedForInVain`;
* `DrainInv`: the marker of a drain is behind all packets of its queue that the
  decoder never had, since nothing is sent meanwhile, and is taken only when they
  are gone; packets sent again may come while it is on its way or afterwards,
  but the decoder had those;
* `AwakeInv`: the event is cleared only by a `Get` that found nothing, and a player
  that changes what it asks for is awake;
* `ExactInv`: the size of the list is the sum the queue keeps. Each operation's
  effect on the sum, and that `Flush` leaves no packets, is by induction on the
  length of a list (`InductionUpTo`, from the well-foundedness of `<` on `Nat`).

None of the properties is inductive alone; `OnlyPutBackSurvives`, for example,
speaks of one moment, and depends on what the two players did in an order of
their own since the flush began. `SInv` was checked by TLC on the instance of the
run before it was proved.

### The actor protocol

`ActorProtocolProofs` proves the four safety properties of `ActorProtocol` for any
clients, pool of messages and number of calls.

*Argument*: `AInv` says whose hands each message object is in. A list has it once
(`ListedOnce`), and one client at most has sent it, or gets it as an answer
(`OwnedOnce`). `Ownership`: a free object is in nobody's hands; a synchronous one
has two owners, the actor's side and the sender, and `isSyncFini` says exactly that
one of them is gone; any other allocated object is in somebody's hands, or was
purged. `Unanswered`: until the actor replies, the sender is still asking or has
timed out, and its event exists. `SameCall`: what a client sent and the answer it
may get carry the number of its call, although objects are used again. None of
the properties is inductive alone: that a recycled object is unused needs to
know which of its two owners is left.

### The messenger

`ApplicationMessengerProofs` proves `WaiterIsKnown` and `HandledOnce`, for any
senders, messages and depth of nested loops.

*Argument*: `MInv` says that a message is in one place (`Places`): once in the queues,
or in one frame of the stack, and not deleted; that one about to be pushed is in
none (`PushedOnce`); that nobody waits for a message the application's thread sent
to itself (`DirectIsOwn`); and that new messages are new (`CreatedBefore`). The
nesting of loops in handlers is why the whole stack matters: a message in a frame
below the top is off its queue, and its sender's event is not set yet.

`OnlyTheExitBlocks` is the safety half of `CallsAreAnswered`: while somebody is in
`SendMsg()`, that thread can go on, or the application can, or whoever is in the
way of these two, because it holds the graphics lock or because `Stop()` waits for
it; but for the exit that waits for its own caller (`ExitIsBlocked`). *Argument*:
the graphics lock is never held in a wait (`GfxInv`), `Stop()` is in the
handler of `TMSG_QUIT`, the innermost, until its end (`StopInv`), and by
`WaiterIsKnown` the message that a sender waits for is queued or in a frame.
*Hypothesis*: `MaxDepth # 0`, the model's bound on nesting lets the main loop handle
a message at all.

### Proved only, and checked only

`TypeCorrect`, `ProcessingIsExact`, `ToldStaySilent`, `IdsAreNotZero`,
`DispatchIsOrdered`, `EventTypesHold`, `ListedUrlIsHeld`,
`SeekIsNeitherLostNorDoubled`, the three theorems on deadlock
(`MutexesAreLeftInOrder`, `OnlyCrossedLocksBlock`, `OnlyTheExitBlocks`) and the
theorems of the ring buffer state facts no run repeats, since the proofs cover the
instances. Every invariant that a passing run checks is a theorem.

Model-checked only is liveness: termination under fairness and ENABLED are out of
the prover's reach. What is proved of it is the safety half: that what somebody
waits for is still to come (`NoWakeupIsMissed`, `QueuedJobsHaveWorkers`,
`NobodyWaitsInVain`, `WaiterIsAlwaysKnown`, `ListedUrlIsHeld`,
`SeekIsNeitherLostNorDoubled`) and that nobody waits in a circle but in the known
cases. The theorems on deadlock state that a thread can go on by the guards of its
actions, since ENABLED cannot be used; on the instances of the runs TLC found these
guards equivalent to ENABLED, but for `AddJob` of a stream, which in the model also
needs an identity that no thread has for the worker it may start.

## 5. Disagreements met

Statements of headers or comments that the code does not keep, each with a run
that finds the behaviour:

1. `manager_unpause`: after a pause in which the workers retired, `UnPauseJobs()`
   starts nobody, although it "resumes queueing" of pausable jobs.
2. `queue_stall`: cancelling the job being processed silences the report that
   would pass the next one on; the rest of the queue waits for another `AddJob`.
3. `file_seek`: once the filling thread has ended on a fatal read error, the
   event it left set answers one seek; the next one waits for ever.

Where a property that passes needed an exception, the exception is behaviour of
the code as well, found by leaving it out:

* `CacheImageReturns`: a caching job that `Deinitialize()` (a skin is unloaded)
  cancels after it has listed its URL is never reported, so the URL stays
  listed (`Abandoned`), and every later `CacheImage()` of it polls for ever;
* `CachedByOne`: a job cancelled while its worker is past the copy of its work
  item reports all the same, and the queue takes that for the report of an equal
  job added since (`ReportedLate`); the cache cannot cancel that one any more,
  and the image is cached by two threads at once. For the same reason any queue
  may run two jobs at once after a cancellation;
* `EventsArrive` and `UnsubscribeReturns`: two orders of locks cross (`Crossed`),
  and a worker, a caller and all events of the source hang for good.
  `CDirectoryProvider::Reset()` unsubscribes holding `m_section`, and waits for
  the subscription's lock, which is held by a worker whose `OnAddonEvent` waits
  for `m_section`. And any `Unsubscribe` holds the stream's lock while it waits
  for the lock of a subscription whose handler asks the add-on manager
  (`CContextMenuManager::OnEvent`) and so waits for `CAddonMgr::m_critSection`,
  which `OnPostUnInstall`, `EnableSingle` or `DisableAddon` holds while it waits
  for the stream's lock in `Publish`;
* `EarlyCancelIsSilent`: a job cancelled after that copy is reported, although
  "OnJobComplete will not be performed";
* `NoOrphans`: a job refused by a stopped manager is leaked by the queue that
  passed it on;
* `CallsAreAnswered`: `CApplication::Stop()` waits in the handler of `TMSG_QUIT`
  for job threads, one of which may wait in `SendMsg()` for the application's
  thread: the messages are discarded only after that wait (`ExitIsBlocked`);
* `OnlyPutBackSurvives`: the packet a stream player has in its hands during a
  flush is put back afterwards and decoded, although the flush means to dispose
  of it. It may be more than one: when the video player is sending packets again
  while its queue is flushed, those it sends after the flush come before the order
  to flush (their priority is higher), and each that the decoder has no room for is
  put back. TLC finds two put back to survive one flush;
* `DecodedInOrder`: it is about packets the decoder never had. Of those sent again,
  one the decoder has no room for is put back at the end of the plain list it is
  taken from first, without its priority, and the next one sent again, which has
  kept its own, overtakes it: the decoder, which was reset to recover, gets them
  in the wrong order. TLC finds this with two packets;
* `ReadsLikeTheFile`: its proof needs `FrontHoldsChunk`. When the cache is only as
  large as a small file (`Open()` takes the file's size then, and a quarter of it
  is kept behind the reader, FileCache.cpp:176-190), a chunk, of 128 KB at least,
  may exceed the front part; then a seek near the end waits for no more than the
  front part (CircularCache.cpp:181), and `Seek()` fails with "failed to get
  remaining data" (FileCache.cpp:511-515) although nothing went wrong. TLC shows it
  with a file of 4 bytes, a cache of 4 with 1 kept back, and a chunk of 4;
* `CloseReturns`: the loop that lets the cache drain after a fatal error heeds
  only one event, which the rate limiter may have consumed: `Close()` hangs.

Also seen: a `Set()` that is slow to tell the groups ends a second group wait with
an event that the first one consumed; two dedicated jobs may share one woken
worker (`m_jobEvent` is one flag); messages sent while `Cleanup()` runs are
handled late or not at all; `CDelayedMessage`, which nobody creates, would post
its first parameter twice.

## 6. Plan

Modelled next, in this order: `SharedSection` (exclusion proved, and the
writer that readers starve); `Timer` and `Thread` (a restarted timer, a stop that
races with the start); the library
queues on top of `JobQueue`; the audio engine's state machine on top of
`ActorProtocol`.

No theorem about the present modules is outstanding; of the planned ones,
exclusion of `SharedSection` is the first to prove.

## 7. Not modelled

Besides the planned components: starvation of a low priority by an endless
stream of jobs of a higher one (each job object is used once, so streams are
finite); the destruction of a queue or an event while another thread is
about to call it; unlocked reads of `CJobQueue::IsProcessing`; the other cache
strategies; `PurgeIn`, `DeferIn`, `DeferOut` and delayed messages. Of the video
player only what its threads tell each other is modelled: clocks, decoders,
renderers, demuxers and caching states depend on time and devices, as does the
audio engine. The GUI is single-threaded and mostly layout; PVR, add-ons,
JSON-RPC, databases, virtual file systems and network code are input and output
whose state lives outside the process. These make up most of the repository's
lines, so that the share of it that is modelled is small: what is modelled is
the part in which threads meet.
