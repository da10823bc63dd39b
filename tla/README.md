# A TLA+ verification project for the OpenHarmony media foundation

The repository is the framework below the OpenHarmony player and recorder: shared
buffers and the queue through which a producer (a decoder, a demuxer) hands them to a
consumer (a renderer, an encoder), the threads ("tasks") on which the pipeline's filters
run, the filters and pipelines themselves, metadata, and the plug-in manager. An older
generation of the same engine (`engine/`) lives beside it.

This directory holds TLA+ models of its concurrent core, the TLC configurations that check
them on small instances, and TLAPS proofs of what matters most for every instance.
`PROJECT.json` maps each definition to the source lines it translates. The models are
written from the code; where a comment, a document or a test says something else, a run
whose expected result is a violation shows the difference (section 6).

## 1. Inventory

Paths are relative to the repository root.

| Part | State | Operations and interactions | What is hard | Correct means |
|---|---|---|---|---|
| **AVBufferQueue** `src/buffer/avbuffer_queue` | map id -> element (owner state, config), free list, dirty list, size limit, memory total, listeners, two mutexes, one condition | producer: request, push, return, attach, detach, set size; consumer: acquire, release, attach, detach, clear, clear-if; broker and consumer callbacks run outside the queue lock | requesters blocked on a condition with a timeout; callbacks between unlock and lock; a buffer detached or cleared while somebody else holds it; a resize below the number of buffers in use | no buffer has two holders; lists and map agree; nothing a client holds is freed under it; a blocked requester is served |
| **Producer/consumer endpoints** `avbuffer_queue_{producer,consumer}*`, proxies and stubs | per-endpoint cache of buffers by id | one-to-one forwarding, over IPC for a remote peer | marshalling of ids and configurations | same effect as the local call |
| **AVBuffer, AVMemory, allocators** `src/buffer/avbuffer` | id, pts, flags, memory block, reference to the queue | allocate (virtual, shared, hardware, surface), read, write, serialise | reuse and reallocation of a buffer of another size | offset and size stay within the capacity |
| **AVSharedMemory and its pool** `src/buffer/avsharedmemory*`, `src/common/avsharedmemorypool.cpp` | idle and busy lists, counts, memory total | acquire (blocking or not), release through a deleter | a release while nobody waits, a reset while blocks are out | busy + idle never above the limit |
| **TaskInner, PipeLineThread, PipeLineThreadPool** `src/osal/task` | per task: running state, next due time, job and message maps, three mutexes; per thread: task list, exit flag | start, pause, stop (also asynchronous), submit, update delay, deinit; the thread picks the earliest task and runs it | calls from the task's own thread take no lock; the task is picked under one lock and run under another; wake-ups are sent after unlock | a paused task runs no job; a due job is run; nothing submitted is lost; shutdown ends |
| **Filter and Pipeline** `src/filter`, `src/pipeline` | per filter: state, error, next filters, generation of queued buffers; per pipeline: the head filters | prepare, start, pause, resume, stop, flush, release, preroll: sent down the filter graph, each on its filter's task, then waited for | waiting for a state with a timeout while the filter fails; buffers queued before a flush arriving after it; linking while stopping | a command returns after every filter reached the state or failed; a flushed buffer is never processed |
| **Interrupt and media monitor** `src/common/interrupt_monitor.cpp`, `services/media_monitor` | registered listeners, caches of audio buffers, event aggregation timers | register, report, dump, aggregate | a listener deregistered while it is called | every event is aggregated once |
| **Meta, Format, Any** `src/meta` | map from tag to a typed value | set, get, merge, (de)serialise | typed access to a value of another type | what is put is what is read |
| **Plug-in manager** `src/plugin` | registered plug-ins by name and type, loaded libraries | register, create, sniff by rank | creation while a library is unloaded | the best-ranked plug-in is chosen |
| **OSAL** `src/osal` | wrappers of mutex, condition, thread, file system | | | |
| **C API, PCM conversion** `src/capi`, `src/common` | none of their own | forwarding and arithmetic | | |
| **First-generation playback path** `engine/pipeline`, `engine/foundation/osal/thread/task.cpp` | list of filters, count of READY events, state per filter, plug-in state of the demuxer, running state of its task | prepare, start, pause, resume, stop, flush over the filters on the caller's thread; the demuxer parses and pushes on its task, blocked by a sink that does not run | waiting for a thread that waits in the sink; wake-ups without the waiter's mutex; READY counted by two threads; filters added while others are prepared | READY means all filters; a seek finds the demuxer quiet; Stop leaves no thread and nobody blocked |
| **First-generation player** `engine/scene/player/standard` | player state, duration | set source, prepare (synchronous or not), play, pause, seek, stop, reset; READY, COMPLETE and ERROR events from the demuxer's thread | the state is written by two threads without a lock; an event that comes before the call that waits for it | every call returns; playing reaches the end |
| **First-generation plug-ins, recorder, lite player** `engine/plugin`, `engine/scene` | codecs, HTTP/HLS download ring buffers, state machines with intents | | an answer arriving after its waiter timed out | a waiter gets the result of its own intent |


### How the parts meet

A pipeline command runs on the caller's thread, walks the filters and posts one message to
each filter's task. The task's thread executes it and moves the filter's state, for which
the pipeline waits. Data flows through AVBufferQueues between filters: the upstream filter's
job requests and pushes, the consumer listener posts a job on the downstream filter's task,
which acquires and releases. So three mechanisms carry everything: the queue (who owns a
buffer), the task (which code runs when), and the filter's state (which command is in force).
They are modelled in this order. The first-generation player has its own, simpler versions of the
three: `OSAL::Task` with one handler, `PipelineCore`, and a sink that blocks whoever pushes into it
until it runs.

### What is hard to test here

`PROJECT.json` lists the hazards at their lines. In the queue: `PushBuffer`, `ReturnBuffer` and
`AttachBuffer` unlock half way, so a `Clear`, a resize or a second push fits into the gap; a
request that waits without a predicate depends on every path that makes room to notify it;
`memoryUsage_`, the free list's order and the one memory type are kept by hand in many places.
In the tasks: the thread chooses under one mutex and runs under another, wake-ups follow the
unlock, and a job that halts its own task takes no lock. In the filters: commands that overtake the
messages of earlier ones, time-outs racing with late answers, an error code that outlives its
error, buffers that race with a flush. In the pool: waiters without a predicate, a pool that is
initialised anew while blocks are out. In the player: Stop waits for a thread that waits in the
sink, and every wake-up of the sink can come too early.

## 2. Plan

1. **AVBufferQueue** (done): the queue section by section, two threads, brokers, a consumer.
   Proofs (done): types, lists, holders, owners, memory types, growth, sorting, fit, lost wake-ups
   and announcements. Next: `HoldersExclusive` with `Clear`, for which the invariant has to allow a
   push that was overtaken.
2. **BufferExchange** (done): what the queue promises its clients, implemented by AVBufferQueue
   under the refinement mapping `HolderOf`; the implementation is proved.
3. **TaskInner** (done): one `PipeLineThread` with its tasks. Proofs (done): every invariant of its
   runs.
4. **Filter**, **Pipeline** (done): a tree of filters with tasks, and the commands over it.
   Proofs (done): `TypeOK`, `FlushedIsDropped`. Next: `HaltedIsQuiet` and
   `FirstFailureIsReported`.
5. **AVSharedMemoryPool** (done), with the proofs of its invariants.
6. **PlaybackPath**, **HiPlayer** (done): the first-generation player. Proofs (done):
   `QuietWhileFlushing`, `StoppedIsFresh`. Next: `ReadyMeansAll`.
7. Not begun: TaskInner with two threads whose jobs halt each other's tasks, the tasks on ffrt, the
   intents and results of the recorder's state machine.

Runs: for every module one for its safety on two callers, one under fairness for what must
eventually happen, and one for each disagreement between code and text that matters most. Bounds:
the smallest in which each action fires and two calls overlap in every section.

## 3. The modules and the code

### AVBufferQueue

| TLA+ | C++ |
|---|---|
| `queue.cached` | `cachedBufferMap_` (id -> capacity, memory type, `form`, state, isDeleting) |
| `queue.free`, `queue.dirty` | `freeBufferList_`, `dirtyBufferList_` |
| `queue.size`, `queue.memoryType`, `queue.used` | `size_`, `memoryType_`, `memoryUsage_` |
| `brokerListeners`, `consumerListener` | `brokerListeners_`, `consumerListener_ != nullptr` |
| `calls[t]` | the local state of the method thread `t` is in: which section it runs next |
| `prodHeld`, `consHeld`, `brokerHeld` | who has been given which buffer (the clients' side) |
| `form` of an element or a request | the rest of `AVBufferConfig`: memory flag, surface configuration, alignment |
| `wanted`, `available` | the request the producer got the buffer for; `OnBufferAvailable` calls not yet served |

One action is one section under `queueMutex_`. `PushBuffer` is `PushBuffer`, `OfferToBroker`,
`ReturnBuffer`, `NotifyConsumer`; `AttachBuffer` is `AttachBuffer` and `PushAttached`,
`ReleaseAttached` or `ForceDetach`; a blocked `RequestBuffer` is `RequestBuffer`,
`SpuriousWakeup` or a notification, `RetryRequest`. A call that fails before changing anything is
a stuttering step and has no action. `cachedBufferMap_[id]` inserts a null element for an absent
id; `Touch` and `Ghost` keep that effect. Ids are not reused while anybody knows them.

Assumptions on clients: a producer pushes, cancels or detaches only what it was given and a
consumer releases or detaches only what it acquired; each broker is installed at most once at a
time; the consumer listener is set once. `Ops` names which optional operations the clients of an
instance use. The producer listener's callback changes nothing in the queue and is left out.
`MAX_QUEUE_SIZE` stands for both upper limits of the code (the one of `SetQueueSize` and the
larger one of `SetLargerQueueSize`). `Fits` is `AVBufferConfig::operator<=` with its cases by memory
type; the fields of a surface configuration are one layout. `Reserved` is what the memory gets, a
multiple of the alignment. The memory account wraps at no width: its values stay far
below 2^32.

`BufferExchange` is the abstract specification: every buffer is with nobody, free, with the
producer, in transit (a push, a broker or an attach has it), filled, or with the consumer;
`Obtain`, `Give`, `Adopt`, `Fill`, `Take`, `PutBack`, `Withdraw` and `Discard` are all that may
happen to it, and `filled` is first in, first out. `HolderOf` maps the hands, the two lists and the
calls in progress to these; what the sections do in between stutters.

### TaskInner

| TLA+ | C++ |
|---|---|
| `task[t]` | `runningState_`, `singleLoop_`, `topProcessUs_`, `topIsJob_`, `msgQueue_`, `jobQueue_` |
| `taskList`, `threadExit`, `loop` | `PipeLineThread::taskList_`, `threadExit_`, `loop_ != nullptr` |
| `worker` | what the thread does: scanning, sleeping until a time, a task picked, its `jobMutex_` held, body running, halting a task from the body |
| `jobMutex[t]` | holder of `jobMutex_` |
| `calls[c]` | the call thread `c` is in |
| `ran`, `quiet`, `stalled` | history: bodies started; tasks halted by a completed `Pause`, `Stop` or `DeInit`; messages that were pending when their task was halted |

A section under `mutex_` and `stateMutex_` is one step. What the code does outside is separate:
the signal after `UnLockJobState`, the wait for `jobMutex_`, `HandleJob` after `Run` released
`mutex_`, the three parts of `UpdateThreadPriority`, the parts of `Exit` (flag, `loop_` reset,
join), and the two assignments of a `Pause` or `Stop` made by a job, which takes no lock. `stateMutex_`
is held a little longer than in the model, until after the signal, which only removes orders. The
order in which `UpdateTop` writes its two fields is not split. The clock counts in a unit of which
`US_PER_MS` are a millisecond: `Run` takes a task up to `ADJUST_US` before its time, and otherwise
sleeps for a whole number of milliseconds (`WaitEnd`), by which it may wake a little early or late.
A popped entry of an empty map is the
thread state "undefined". Not modelled: which function a job is (`RegisterJob`), the pool's table of
threads, a task destroyed by its own job.

### Filter and Pipeline

| TLA+ | C++ |
|---|---|
| `filter[f]` | `curState_`, `errCode_`, `jobIdx_`, `jobIdxBase_` |
| `nextFilters[f]`, `filters` | `nextFiltersMap_`, `Pipeline::filters_` |
| `task[f]` | `filterTask_`: state, messages, jobs, whether its thread looks at it |
| `stateMutex[f]`, `mutex` | holders of `Filter::stateMutex_` and `Pipeline::mutex_` |
| `prog[t]` | what thread `t` (a caller, or the thread of a filter's task) has still to do |
| `result`, `command` | Status so far and call of each caller |
| `last`, `clean`, `overwritten` | history: the last command and whether all went well; the buffers flushed; a filter set its error code anew before a failed wait had read it |

A call is a sequence of steps that walk the tree; each step is an action and may put the steps it
calls in its place, so that other threads come in between wherever the code takes or gives up a
lock or passes a message. `GetErrCode` is such a step: when the wait for a next filter has failed, the
parent has that filter's lock no more as it reads the code (filter.cpp:704). The `Do...` functions of the filters' classes, which are outside these
files, succeed or fail. The task is the one of TaskInner reduced to what a filter can tell apart:
messages in order, jobs while started, and halting makes it undue. `WaitAllState` holds the mutexes
of the filters above the one it waits for, and its 30 seconds are a time-out that may always come.
`Pipeline::SubmitJobOnce` runs its job on the caller in this build. Clients build the trees first,
start, pause and flush what was prepared, and do not repeat a command.

### AVSharedMemoryPool

| TLA+ | C++ |
|---|---|
| `pool` | `inited_`, `option_`, `idleList_`, `busyList_`, `forceNonBlocking_`, `notifier_`, and whether the pool exists |
| `sizeOf` | size of every block, 0 for one that does not exist |
| `frame[c]` | the call of caller `c`: asleep in `cond_.wait`, woken, about to call the notifier |
| `held[c]` | references to blocks that `c` has |

One action is one section under `mutex_`. A block goes back when its last reference does, or is
deleted when the pool is gone. `CheckSize` and the three ways of `DoAcquireMemory` (an idle block
that fits, a new one, the smallest idle one replaced) are operators; an allocation may fail.

### PlaybackPath and HiPlayer

| TLA+ | C++ |
|---|---|
| `task` | `OSAL::Task` of the demuxer: `runningState_`, whether `loop_` has a thread |
| `demuxer` | `pluginState_`, `trackInfos`, the link to the sink, frames not yet read |
| `sink` | `state_`, `isFlushing`, `pushThreadIsBlocking` of the audio sink |
| `seekable` | `seekable_` of the source |
| `core` | `PipelineCore`: `state_`, `filters_`, `readyEventCnt_`, `mutex_`, `filtersToRemove_` |
| `player` | `pipelineStates_`, whether `duration_` is known |
| `prog[t]` | what the application's and the demuxer's thread have still to do |
| `readyFrom`, `late`, `lost` | history: who was ready; a READY counted after Stop; a missed wake-up |

The media is seekable (pull mode) with one PCM track, so the demuxer pushes straight into the sink.
Every read or write of a field that both threads use is a step of its own where it matters: the
increment of `readyEventCnt_` is a read and a write; the sink's condition is evaluated, then the
thread sleeps, and a notification in between is lost, since it is sent without the mutex; `StopTask`
reads `pluginState_` and then waits. Calls of plug-ins succeed or fail, `MaxFails` times at most.
The application sets its source first; it plays what is prepared, paused or complete, pauses what
plays, seeks in these states, and stops or resets at any time; a source that is set again for a
second Prepare is usable (the code ignores its failure, hiplayer_impl.cpp:192, which would leave
`seekable_` INVALID and let the demuxer be prepared in push mode on the type finder's thread, which
is not modelled). Left out: decoders, video, unseekable sources, a source plug-in that
becomes ready later (`ERROR_DELAY_READY`), looping, the callback looper, `MediaStatStub` (there is
one sink), a thread that cannot be created.

## 4. Runs

| Run | Result | What it shows |
|---|---|---|
| `queue_core` | pass | Two threads, two brokers that come and go, attach, detach, cancel, resize, failing allocation, both kinds of wait: types, lists = states, one owner per buffer, every filled buffer announced, growth within the size, and the refinement of `BufferExchange` |
| `queue_types` | pass | Queue without a memory type; shared memory and surfaces, two sizes, two alignments, two rights, two layouts; empty pushes, forced detach: memory account, order of the free list, one type, what is handed out serves the request |
| `queue_clear` | pass | `Clear`, `ClearBufferIf` and a late consumer listener against pushes in flight |
| `queue_wait` | pass | Under fairness: who blocks does so only while the queue is full, is served, and each push moves on |
| `queue_forced_detach` | violation | see section 6 |
| `task_calls` | pass | Two callers and the jobs start, halt, put off, feed and destroy two tasks of one thread: nothing dropped or run twice, nothing more than `ADJUST_US` early, no job of a halted task |
| `task_deinit` | pass | A singleton task halted and destroyed by a caller and by its own jobs while another caller feeds it. Under fairness: calls return, `DeInit` included, unless the thread waits for its own `jobMutex_`; who waits for a job is released unless the job is stalled; no wake-up is lost |
| `task_live` | pass | Under fairness, while tasks are started, paused, stopped and put off: jobs, messages and repeated jobs run, unless a halt comes after they were filed |
| `pipeline` | pass | A head and its next filter in four settings: commands with both filters on tasks; a synchronous next filter with calls on single filters in between; buffers that race with flush, pause and unfreeze; buffers that race with Pause and Stop. The first failure is reported, a halted pipeline is quiet, flushed buffers are dropped; with fairness, calls return and a started pipeline runs |
| `pool` | pass | Two callers and three blocks, two kinds of Init, Reset, non-blocking mode, destruction, a failing allocation: blocks are accounted for, nobody sleeps beside memory it could have, a pool made non-blocking lets its sleepers go |
| `player` | pass | Up to seven calls of the application, two failing plug-in calls: READY means all filters, seeks find a quiet demuxer, Stop leaves nothing, calls return, playing reaches the end |
| `player_stop` | violation | see section 6 |

**Bounds.** Queue: three ids for a queue of at most two buffers, so that it can be full, be grown
into, and have a fresh buffer attached; two threads, since every race here is between two calls;
one or two sizes and types, two forms, which differ in alignment (none and 2), rights and layout.
`queue_wait` has two ids, both in use by two producers while one
waits. Threads are interchangeable, so the safety runs use symmetry; the fair run does not. Tasks:
two callers, one task of each kind in `task_calls` and `task_live`, two submitted jobs (two may
collide on a time), two other calls (a start and what undoes it), a clock that stops at the
horizon or when it has passed every filed job. Half a millisecond is the unit (`ADJUST_US` = 1,
`US_PER_MS` = 2), so that a delay of 1 ends within a millisecond and a sleep is rounded. Pipeline: two filters (what a command does to a
deeper tree it does to each pair), one failing `Do...`, one buffer per filter, four commands (a
prepare, a start and two that follow), six and five in the settings with one filter. The four settings of
`MCPipeline` share the variables and differ in constants (`INSTANCE Pipeline WITH`); `setting` says
which one a behaviour belongs to, and fairness is stated for the mixed one, the smallest. Pool:
three blocks for at most two in the pool, so that blocks of an earlier Init are still out. Player:
seven calls reach a second Prepare, Play and Stop after a first round; one frame and the end of the
stream are the two things the demuxer can push; two failures reach a failed Stop and what follows.
Brokers are interchangeable, so `queue_core` uses symmetry in them too. `available` is capped at the number of buffers.
`CHECK_DEADLOCK` is off where the system may stop: `task_deinit` ends with its thread gone,
`queue_forced_detach` stops at the null buffer, and in `pipeline`, `pool` and `player` the clients
run out of calls or have lost a wake-up.

**Fairness.** Queue: a thread past its first section, or woken, goes on (weak fairness of
`Continue`); the consumer acquires and releases what it can. Nothing is assumed of producers,
brokers or spurious wake-ups. Tasks: the scheduler runs the thread, the calls under way and the
clock (weak); `jobMutex_` is a `FairMutex`, which hands over in turn, so whoever waits for it gets
it (strong, for `EnterHandleJob`, `LockJob`, `DeInitSection`); job bodies end. No fairness for
new calls, calls made by jobs, and spurious wake-ups. Pipeline: a thread with something to do does
it, and a task's thread takes its next message (weak); a wait that cannot end otherwise times out.
Pool and player: a thread that can go on does so (weak); nothing is assumed of new calls.

Each property has a mutant in `PROJECT.json`, a definition changed as a plausible bug would change
it (the operators called "Mutant" or "Variant" in the modules), under which TLC finds the property
violated.

## 5. Proofs

All theorems are about `Spec`, for every value of the constants the named assumptions of the modules
allow: any number of threads, callers, tasks, buffers, blocks and sizes.

### The queue

`CalmClients` (no `Clear`, listener set first) is a hypothesis of every theorem, and no more where
nothing else is said.

| Theorem | States | Further hypothesis |
| --- | --- | --- |
| `TypeCorrect`, `ListsStayConsistent`, `HoldersStayExclusive` | `TypeOK`, `ListsConsistent`, `HoldersExclusive` | |
| `OwnersStayAgreed` | `OwnersAgree` | no empty pushes |
| `MemoryTypeIsUnique` | `OneMemoryType` | |
| `QueueGrowsWithinSize` | `GrowsWithinSize` (an action property) | |
| `FreeListStaysSorted` | `FreeSorted` | |
| `FilledStayAnnounced` | `Announced` | |
| `MemoryStaysAccounted` | `MemoryAccounted` | |
| `RequestsStayFitted` | `RequestFits` | |
| `BlockedStayFull` | `BlockedOnlyWhenFull` | no detaches, resizes, empty pushes |
| `QueueImplementsExchange` | `ImplementsExchange` (the refinement) | no empty pushes |

Why the clients are restricted: with `Clear` a push in flight may find its buffer free or requested
again, and `OwnersAgree` is then false by design (`HoldersExclusive` is checked instead); with a
late listener `ListedAreCached` itself fails (section 6). An empty push leaves a buffer PUSHED that
nobody has. `RequestFits` holds for every alignment because
it grants what `operator<=` accepts beyond the buffer, which is less than the alignment (section 6).
`DetachBuffer`, the forced detach of a buffer that was attached empty, and the deletion of a buffer
that `SetQueueSize` has marked make room, or may make it, without waking a blocked producer: the
theorem says that no other call does.

*The lists* (`AVBufferQueueProofs`). `ListsConsistent` is not inductive: that `ReturnBuffer` appends
an id only once depends on the element being PUSHED, and that it is still PUSHED on nobody else
having it, which is a fact about the calls in progress. The inductive invariant `IInv` therefore
adds to `TypeOK` and `ListsConsistent` that `prodHeld` and `consHeld` are exactly the REQUESTED and
ACQUIRED buffers, that every buffer in a broker's hands or in a push is PUSHED and every one in an
attach ATTACHED, and that no two of them are the same; with empty pushes the last two are
inclusions, otherwise equations. Each helper of the queue has a lemma that says what it does to
lists and states, each kind of frame one that says what it does to the calls, and each action one
that combines the two. `SequenceLemmas` holds what is needed of `InsertAt`, `RemoveAt`, `SubSeq`,
injective sequences and sums.

*The kinds of step* (`AVBufferQueueStepProofs`). The further properties would each need that case
analysis again. It is done once: lemma `NextMoves` says that every step is one of a few kinds
(a buffer is handed out, created, replaced, adopted, passed on, filled, freed, taken, dropped, the
queue trimmed, a call begun or ended), each described by what it does to map, lists, memory and
calls, whichever call and section it belongs to (`Moves`), and what it does to the waiting threads
(`Settles`).

*The results* (`AVBufferQueueResultProofs`) go through the kinds. `OneMemoryType` is inductive
together with `IInv` and with a fact about blocked requests (`MInv`): the type they were checked
against is still the type of the queue when they wake. `FreeSorted` and `RequestFits` are restated
without the order of evaluation (`Sorted`, `Suits`) and are then inductive relative to `MInv`.
`BlockedOnlyWhenFull` needs in addition that no element is marked for deletion (`Unmarked`).
`Announced` counts the calls between the filing of a buffer and the unlocked `OnBufferAvailable`
(`Notifying`), for which the set of threads has to be finite. For the refinement the owners of the
buffers are given as disjoint sets (`Party`), on which `HolderOf` is a function; each kind of step
then maps to one action of `BufferExchange` or to a stutter.

*The account* (the end of `AVBufferQueueResultProofs`). `MemoryAccounted` is about two folds: the sum
of the capacities, and the subtractions of `DeleteCachedBuffers`, each of which
`TotalMemoryCalculation` skips when the account is smaller than the capacity. What a fold yields is
found without an induction rule: a sum is the size of a set (`Volume`, the number of units the buffers
have), the fold and `Volume` satisfy the same equation, and of the subsets on which they differ there
would be a smallest one, on which they agree (`SubsetsAgree`, `SumIsVolume`, `UsedWithoutVolume`).
Because a part has no more units than the whole, no subtraction is skipped. `Accounted` is then
inductive relative to `IInv`, which says that what the lists name and what a call takes out is in
the map.

### The pool

`AVSharedMemoryPoolProofs`: `PoolTypeCorrect`, `BlocksStayAccounted`, `SleepersAreExhausted`, without
hypotheses on the callers. The inductive invariant `PInv` has, besides the types, that every block
that exists is idle or in exactly one hand, that the busy list is what the hands hold while the pool
is alive, that who waits has asked for something of an initialised pool, and, for the sleepers since
the last `Init`, that the pool is full for their size. That `Init` and `Reset` leave sleepers of
before behind is why the last is restricted to `since = inits`.

### The tasks

`TaskInnerProofs`: `PausedStaysQuiet`, `NothingIsLost`, `ThreadStaysAttentive`,
`DestroyedSingletonIsDead`, `JobsNeverRunEarly`, `TaskTypeCorrect`. These are all invariants of the
runs of `TaskInner`.

The base is `Typed` (types of fields, calls and the thread, with what a program point says of them)
and `Locks` (a `jobMutex_` has an owner exactly while that owner is in a section of the task).
- `PausedIsQuiet` is inductive with `QuietHalted`: a task that was halted is not STARTED, which
  `HandleJob` looks at under the lock.
- `NothingLost` follows from `JobsKept`: every number given out is in the set of jobs run or in exactly one
  entry. `InsertJob` takes the first free time, so it overwrites nothing.
- `Attentive` is restated as `Watches`, over the members of the list; the thread
  wakes at most `ADJUST_US` after the earliest task is due, since the wait is rounded; a step disturbs it only by
  making a task due earlier, and then its caller is about to notify.
- `DestroyedIsDead` holds for a task that is alone on its thread, whose destructor joins it
  (`JoinsFirst`); on a shared thread a message may still run (section 6), and the run says the same.
- `NeverEarly` (no submitted job more than `ADJUST_US` before its time) needs `Ready`: `topProcessUs_` names the earliest entry but while a job of the task
  runs, and the task chosen has an entry that is due, although the choice is made without
  `jobMutex_`. Hypothesis `PriorityApart`: `UpdateThreadPriority` is not used, or no task repeats one
  job. It sets `singleLoop_` aside and restores it without the lock, by which a repeated job is taken
  for a queued one (section 6); the last part of `TypeOK`, that `HandleJob` never takes the
  first entry of an empty map, needs it too.

### The pipeline

`PipelineProofs`: `PipelineTypeCorrect` and `FlushDropsBuffers`, for any trees, callers, calls,
buffers and failures. The one assumption beyond those of `Filter` is `LinksAssumption`: a client
links no filter below another that it also adds as a head.

A buffer is dropped if its index is not above `jobIdxBase_`, and a flush sets that to `jobIdx_`.
What could go wrong lies between the check and the processing, which are two steps of the task's
thread, while the flush is one of a caller: a flush in between would let an old buffer through.
`FlushedIsDropped` is about the flushes that met the task halted, and it is inductive only with the
reason why none of those comes in between. The invariant `PipelineInv` has
- `Types`: above all which steps each thread can have ahead of it (`StepsOf`): the job of a task is
  run by its own thread, and what hands over, checks, processes or links is only ever the first of
  a thread's steps (`ProgsOf`), so that what the invariant says of it is said when it is reached;
- `CountersOk`: `clean[f] <= jobIdxBase_ <= jobIdx_`, and the jobs of a task are of buffers handed
  to it;
- `FrontOk`: a thread in the job of a buffer belongs to a task that is STARTED, since `Task::Pause`
  and `Task::Stop` wait for `jobMutex_`, and a buffer being processed is newer than the last such
  flush; a buffer about to be submitted was numbered before;
- `CallsOk`: one buffer at a time is handed over, as the clients of a filter do it;
- `TreesOk`, `LinkedOnce`, `Building`: a filter is linked once, so that a `LinkPipeLine` cannot give
  it a second task while a job of the first runs. Until the first command the callers only build,
  and a filter with a task, or about to get one, is already known as a head or below another.

Each step of a thread is reduced to what it does to the filters (`DataEffect`) and to its program
(`ProgEffect`); `StepKeeps` says that such a step keeps the invariant, and the lemmas of the single
steps show the effect. The invariant was checked by TLC on the instance of the `pipeline` run
before it was proved.

### The player

`HiPlayerProofs`: `QuietStaysWhileFlushing` and `StopLeavesNothingRunning`, for any number of calls,
frames and failures. Every step is first reduced to what it does to the task, the filters and the two programs (`Effect`,
`DemuxEffect`, `CallEffect`). The inductive invariant `QuietInv` is the conjunction of
- `Typed`: every step a thread has still to do is well formed, and the demuxer's thread is in a round
  of its loop that ends with the check of the task's state;
- `Begun`: once `Init` has run the pipeline is not empty and stays so; a flush of an empty pipeline
  would pause nobody;
- `Resting`: the thread of a PAUSED task is in its wait, of a STOPPED one has left `Run`;
- `SeekOk`: in front of a seek of the plug-in or a `FlushEnd` the client has only steps that keep the
  pause, and unless the task is paused or stopped already one of them makes it so.

`StoppedIsFresh` says what holds when the program of a Stop is empty, so the invariant `FreshInv` has
to say what the rest of that program still leads to. It is `QuietInv` with
- `Calls`: the program of a Stop has steps of a Stop only, and the other calls have none. `Led(p, T, V, M, P)`
  says that before a step of `p` named in `T` there are steps named in `V` only, and `P` holds or a step
  named in `M` comes first. By it (`StopLed`) a Stop ends, well or with a failure, only after the
  thread was joined (`Dead`) and the sink was stopped or was found without a link in front of the
  filters (`SinkDone`); the filters are stopped only when the demuxer parses no more (`Settled`);
  and the sink leaves the pipeline only when it is stopped (`Down`);
- `Joined`: a thread that ends is joined by the Stop under way, and a task without a thread is STOPPED;
- `ParseOk`: a round of `DemuxerLoop` that adds, prepares and negotiates the sink began without frames,
  so that a demuxer which Stop spared cannot bring the sink back;
- `Unused`: a sink outside `filters_` is stopped, and no step of the client is about to use it;
- `Blocked`: `pushThreadIsBlocking` is set only in the wait of the sink;
- `Finished`: a player stays STOPPED only as a Stop left it, until its source is set again.

### Only model-checked

The runs of the queue with `Clear`;
`HaltedIsQuiet` (as `QuietUnlessUnfrozen`) and `FirstFailureIsReported` of `Pipeline`, which hold only
until a command has failed, or a filter has overwritten the error code that a failed wait is
about to read, and would need what every pending step of every message leads to;
`ReadyMeansAll` of `HiPlayer`, which needs more than `FreshInv` (who of the filters has still to
announce itself); and all liveness (under fairness, out of the
prover's reach).

## 6. Where code and text disagree

- `queue_forced_detach`: `PushBufferOnFilled` (avbuffer_queue.cpp:588) "PushBuffer失败，强制Detach"
  takes the buffer out of the map, but when the push failed for want of a consumer listener its id
  is already in `dirtyBufferList_`; the next `AcquireBuffer` meets a null buffer.
- `player_stop`: `DoStop` stops the demuxer's thread first, "防止元数据解析prepare过程中出现并发问题"
  (hiplayer_impl.cpp:623), unless it already pushes frames. If the demuxer passes to frames after
  that was looked at, its thread blocks in a sink that Stop has still to stop, and Stop waits for it
  for ever.

Disagreements that the models reach and no run states: `AVBufferConfig::operator<=` accepts up to
`capacity + align - 1` while the allocator rounds up to a multiple of `align`, so that a request can
get up to `align - 1` bytes less than it asked for (`RequestFits` states that bound); `DetachBuffer` makes room without waking a blocked producer; `Pause` and
`Stop` of a task set `topProcessUs_` to -1 and leave pending messages until the next call, although
the comment says that `msgQueue_` is always handled; a `Start` between the two unlocked assignments
of a job's `Pause` leaves a started task that is never due; a pool that is reset and initialised
before a woken caller runs sends it back to sleep (`avsharedmemorypool.h:81` says it returns); after
a failed command a later one can return OK with a filter in ERROR, since the error code is
overwritten and the state is not; a next filter that is late but well may overwrite its code between
the end of the failed wait and the parent's unlocked reading of it, and the command returns OK with
that filter behind; the synchronous `Prepare` of the player can wait for ever, because
PREPARING overwrites a PREPARED or ERROR that the demuxer's thread has already reported, or because
an error is stored without a notification; a COMPLETE can be overwritten by the PAUSED or STARTED of
a call under way; a notification of the sink is lost when it comes between evaluating and sleeping;
a READY counted after Stop makes the next Prepare report too early or never.

Seen while modelling and not checked by a run of their own: shrinking the queue and clearing it
while a push is in flight leaves an id in the free list whose buffer is gone;
`UpdateThreadPriority` on a task with a repeated job may make `HandleJob` erase from an empty map
or leave its message unread; a job that pauses its task while `DeInit` joins the thread waits for
a mutex its own thread holds, since `loop_` is already null; on a shared thread a message of a
task chosen before `DeInit` still runs afterwards; a submission with `wait` may return while its
job still runs, since the entry leaves the map before the body; in the gap between choice and run a message
may be run before its time.

Where such a behaviour is a hazard of the list, a property that would forbid it is false of the code.
The properties beside it then name the exception in their statement and check everything else:
the messages of a halted task and who waits for its jobs (`stalled`), the thread that waits for its own
`jobMutex_` (`SelfLocked`), the overwritten error code (`AllWell`), a Stop that the demuxer overtook
(`Overtaken`), the wait of the synchronous `Prepare` (`Waiting`), the READY counted after Stop
(`late`), the missed wake-up (`lost`), the sink left over by a failed Stop (`SinkLeftOver`). Those
hazards have a note in `PROJECT.json` that says so, and no property where none meets the case.

## 7. Not modelled

The components with status `not_modelled` in `PROJECT.json`, each with its reason: forwarding and
marshalling (endpoints, proxies, stubs, C API), memory access and system calls (AVBuffer,
AVSharedMemory, OSAL), sequential tables (Meta, plug-in manager), I/O (media monitor), codecs and
adapters of the first generation, its recorder and its lite player, and the tasks on ffrt, whose
scheduler is outside the repository.

The models cover a small part of the repository's lines, and a large share is out of reach: of
about 90 000 lines most are codecs, muxers and demuxers, adapters to ffmpeg and to system services,
tables of metadata keys and plug-ins, marshalling, file and network I/O. They hold data and
arithmetic rather than protocol, and a model of them would repeat the code. What is modelled is where
threads meet: the queue, the tasks, the filters and pipelines, the pool, and the older player.
