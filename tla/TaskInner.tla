----------------------------- MODULE TaskInner -----------------------------
(***************************************************************************)
(* The tasks of src/osal/task/pthread: TaskInner (one instance per task)    *)
(* and the PipeLineThread that runs the tasks of one group.                 *)
(*                                                                          *)
(* Three kinds of lock meet here.  The thread's mutex_ is taken by every    *)
(* call from another thread (LockJobState) and by the thread while it       *)
(* chooses a task; stateMutex_ guards one task's fields for the length of a *)
(* few assignments; jobMutex_ is held by the thread for the whole of a job. *)
(* A section under mutex_ and stateMutex_ never blocks, so it is one step   *)
(* here; jobMutex_ is a variable.  What the code does between two sections  *)
(* is visible to the others: the thread chooses a task, releases mutex_ and *)
(* takes jobMutex_ later; a caller releases mutex_ and signals afterwards;  *)
(* a job that halts a task of its own thread takes no lock at all, so its   *)
(* two assignments are two steps.                                           *)
(*                                                                          *)
(* Time is a clock in units of which US_PER_MS make a millisecond; the      *)
(* thread runs a task up to ADJUST_US before its time and sleeps for whole  *)
(* milliseconds.  A job is an identifier, its body is a choice of calls and *)
(* of the returned delay.                                                   *)
(***************************************************************************)
EXTENDS Integers, Sequences, FiniteSets, Functions, SequencesExt

CONSTANTS
    Tasks,          \* the tasks created on the thread
    SingleLoops,    \* those constructed with singleLoop = true
    Callers,        \* the other threads that use the tasks
    Singleton,      \* TRUE for TaskType::SINGLETON: the thread ends with its task
    Ops,            \* the calls each of the other threads makes on each task
    JobOps,         \* the calls a job makes on the tasks of its own thread
    Delays,         \* the delays given to a submission, an update or returned by a job
    ADJUST_US,      \* how much before its time a task may be run
    US_PER_MS,      \* the unit of the thread's wait
    Horizon,        \* bound: the clock stops here, or when no later job is filed
    MaxJobs,        \* bound on the number of submitted jobs
    MaxCalls        \* bound on the number of other calls

ASSUME TaskAssumption ==
    /\ Tasks # {} /\ IsFiniteSet(Tasks) /\ SingleLoops \subseteq Tasks
    /\ Singleton \in BOOLEAN
    /\ Singleton => Cardinality(Tasks) = 1
    /\ Delays \subseteq Int /\ Delays # {}
    /\ ADJUST_US \in Nat /\ US_PER_MS \in Nat \ {0}
    /\ {Horizon, MaxJobs, MaxCalls} \subseteq Nat
    /\ "none" \notin Tasks /\ {"none", "worker"} \cap Callers = {}

VARIABLES
    now,            \* GetNowUs()
    task,           \* the fields of each TaskInner
    taskList,       \* the tasks the thread looks at, in order of creation
    threadExit,     \* threadExit_
    loop,           \* loop_ is not null, so IsRunningInSelf can tell the thread
    worker,         \* what the thread is doing
    jobMutex,       \* who holds each task's jobMutex_
    calls,          \* what each other thread is doing
    submitted,      \* number of jobs submitted so far; a job is its number
    budget,         \* number of other calls made so far
    ran,            \* the jobs whose body was started
    quiet,          \* tasks that Pause, Stop or DeInit halted, not started since
    stalled         \* messages that were pending when their task was halted

vars == <<now, task, taskList, threadExit, loop, worker, jobMutex, calls,
          submitted, budget, ran, quiet, stalled>>
-----------------------------------------------------------------------------
(* State.                                                                   *)

(* PAUSING and STOPPING are never assigned.                                 *)
RunningState == {"STARTED", "PAUSED", "STOPPED"}

None == "none"

(* A task as its constructor leaves it: paused, nothing due, maps empty.    *)
NewTask(t) ==
    [runningState |-> "PAUSED", singleLoop |-> t \in SingleLoops,
     topProcessUs |-> -1, topIsJob |-> FALSE,
     msgQueue |-> <<>>, jobQueue |-> <<>>]

IdleCall == [pc |-> "idle", op |-> None, task |-> None, at |-> -1,
             inJobQueue |-> FALSE, saved |-> FALSE]

(* The thread between two rounds of Run's loop.  `until` is the deadline of
   its wait (-1: none), `due` the time of the job it runs, `single` the
   branch HandleJob took, `halting` the task a job is halting.              *)
Scanning == [pc |-> "scan", task |-> None, single |-> FALSE, kind |-> None,
             id |-> 0, due |-> -1, until |-> -1, halting |-> None]

(* A task is created by Task's constructor, which calls Init -> AddTask.    *)
Init ==
    /\ now = 0
    /\ task = [t \in Tasks |-> NewTask(t)]
    /\ taskList \in {l \in [1..Cardinality(Tasks) -> Tasks] : IsInjective(l)}
    /\ threadExit = FALSE
    /\ loop = TRUE
    /\ worker = Scanning
    /\ jobMutex = [t \in Tasks |-> None]
    /\ calls = [c \in Callers |-> IdleCall]
    /\ submitted = 0
    /\ budget = 0
    /\ ran = {}
    /\ quiet = {}
    /\ stalled = {}
-----------------------------------------------------------------------------
(* The fields of one task.                                                  *)

(* begin()->first of a map ordered by time.                                 *)
First(q) == CHOOSE a \in DOMAIN q : \A b \in DOMAIN q : a <= b

Empty(q) == DOMAIN q = {}

EraseFirst(q) == Restrict(q, DOMAIN q \ {First(q)})

(* Variant of UpdateTop that leaves topIsJob_ alone when a message is next. *)
UpdateTopStale(k) ==
    LET noMsg == Empty(k.msgQueue)
        noJob == k.runningState # "STARTED" \/ Empty(k.jobQueue)
    IN CASE noMsg /\ noJob -> [k EXCEPT !.topProcessUs = -1]
         [] ~noMsg -> [k EXCEPT !.topProcessUs = First(k.msgQueue)]
         [] OTHER -> [k EXCEPT !.topProcessUs = First(k.jobQueue), !.topIsJob = TRUE]

(* A job is due only in a started task; a message always; a message that is
   due goes before a job.                                                   *)
UpdateTop(k) ==
    LET noMsg == Empty(k.msgQueue)
        noJob == k.runningState # "STARTED" \/ Empty(k.jobQueue)
        takeMsg == ~noMsg /\ (\/ noJob
                              \/ First(k.msgQueue) <= now
                              \/ First(k.msgQueue) <= First(k.jobQueue))
    IN CASE noMsg /\ noJob -> [k EXCEPT !.topProcessUs = -1]
         [] takeMsg -> [k EXCEPT !.topProcessUs = First(k.msgQueue), !.topIsJob = FALSE]
         [] OTHER -> [k EXCEPT !.topProcessUs = First(k.jobQueue), !.topIsJob = TRUE]

(* Variant of ProcessTime that files under a time already taken.            *)
ProcessTimeTaken(q, delay) == now + IF delay < 0 THEN 0 ELSE delay

(* The time a job is filed under: a time that is taken is moved on.         *)
ProcessTime(q, delay) ==
    LET at == now + IF delay < 0 THEN 0 ELSE delay
        free == {n \in at .. at + Cardinality(DOMAIN q) : n \notin DOMAIN q}
    IN CHOOSE n \in free : \A m \in free : n <= m

QueueOf(k, inJobQueue) == IF inJobQueue THEN k.jobQueue ELSE k.msgQueue

InsertJob(k, id, delay, inJobQueue) ==
    LET at == ProcessTime(QueueOf(k, inJobQueue), delay)
        filed == [x \in DOMAIN QueueOf(k, inJobQueue) \cup {at} |->
                     IF x = at THEN id ELSE QueueOf(k, inJobQueue)[x]]
        added == IF inJobQueue THEN [k EXCEPT !.jobQueue = filed]
                               ELSE [k EXCEPT !.msgQueue = filed]
    IN IF at <= k.topProcessUs \/ k.topProcessUs = -1 THEN UpdateTop(added) ELSE added

(* Variant of Started that does not look for what is due.                   *)
StartedUndue(k) == [k EXCEPT !.runningState = "STARTED"]

Started(k) ==
    LET s == [k EXCEPT !.runningState = "STARTED"]
    IN IF k.singleLoop THEN [s EXCEPT !.topProcessUs = now] ELSE UpdateTop(s)

(* Pause and Stop both leave nothing due; Pause only halts a started task.  *)
Halted(k, s) == [k EXCEPT !.runningState = s, !.topProcessUs = -1]

(* What Halted leaves without a time in task t (history).                   *)
Stalls(t) == stalled' = stalled \cup Range(task[t].msgQueue)

Haltable(k, s) ==
    IF s = "PAUSED" THEN k.runningState = "STARTED" ELSE k.runningState # "STOPPED"

Delayed(k, delay) == [k EXCEPT !.topProcessUs = now + delay]
-----------------------------------------------------------------------------
(* Calls from other threads.                                                *)

(* syncCond_.NotifyAll().                                                   *)
Woken(w) == IF w.pc = "sleep" THEN Scanning ELSE w

(* A client makes no call on a task it has destroyed or is destroying.      *)
Call(c, t, op) ==
    /\ op \in Ops[c][t]
    /\ calls[c].pc = "idle"
    /\ t \in Range(taskList)

Counted == budget < MaxCalls /\ budget' = budget + 1

(* Variant of Section that never signals.                                   *)
SectionSilent(c, t, k, changed, then) ==
    /\ task' = [task EXCEPT ![t] = k]
    /\ calls' = [calls EXCEPT ![c] = then]

(* LockJobState ... UnLockJobState(changed): the fields change under both
   locks; if the thread has to know, the signal follows in a step of its own.
   (stateMutex_ is held until then; to give it up earlier only adds orders.) *)
Section(c, t, k, changed, then) ==
    /\ task' = [task EXCEPT ![t] = k]
    /\ calls' = [calls EXCEPT ![c] =
                    IF changed THEN [then EXCEPT !.pc = "notify"] ELSE then]

Start(c, t) ==
    /\ Call(c, t, "start") /\ Counted
    /\ Section(c, t, Started(task[t]), TRUE, [IdleCall EXCEPT !.op = "start", !.task = t])
    /\ quiet' = quiet \ {t}
    /\ UNCHANGED <<now, taskList, threadExit, loop, worker, jobMutex, submitted, ran, stalled>>

HaltAsync(c, t, op, s) ==
    /\ Call(c, t, op) /\ Counted
    /\ \/ /\ Haltable(task[t], s)
          /\ Section(c, t, Halted(task[t], s), TRUE, [IdleCall EXCEPT !.op = op, !.task = t])
          /\ Stalls(t)
       \/ /\ ~Haltable(task[t], s)
          /\ UNCHANGED <<task, calls, stalled>>
    /\ UNCHANGED <<now, taskList, threadExit, loop, worker, jobMutex, submitted, ran, quiet>>

PauseAsync(c, t) == HaltAsync(c, t, "pauseAsync", "PAUSED")

StopAsync(c, t) == HaltAsync(c, t, "stopAsync", "STOPPED")

(* Pause and Stop first wait for jobMutex_, that is for the job that runs.  *)
Halt(c, t, op) ==
    /\ Call(c, t, op) /\ Counted
    /\ calls' = [calls EXCEPT ![c] = [IdleCall EXCEPT !.pc = "lockJob", !.op = op, !.task = t]]
    /\ UNCHANGED <<now, task, taskList, threadExit, loop, worker, jobMutex, submitted, ran,
                   quiet, stalled>>

Pause(c, t) == Halt(c, t, "pause")

Stop(c, t) == Halt(c, t, "stop")

(* Variant of LockJob that does not wait for the running job.               *)
LockJobAnyway(c) ==
    LET t == calls[c].task
    IN /\ calls[c].pc = "lockJob"
       /\ jobMutex' = [jobMutex EXCEPT ![t] = c]
       /\ calls' = [calls EXCEPT ![c].pc = "locked"]
       /\ UNCHANGED <<now, task, taskList, threadExit, loop, worker, submitted, budget, ran,
                      quiet, stalled>>

LockJob(c) ==
    LET t == calls[c].task
    IN /\ calls[c].pc = "lockJob"
       /\ jobMutex[t] = None
       /\ jobMutex' = [jobMutex EXCEPT ![t] = c]
       /\ calls' = [calls EXCEPT ![c].pc = "locked"]
       /\ UNCHANGED <<now, task, taskList, threadExit, loop, worker, submitted, budget, ran,
                      quiet, stalled>>

HaltSection(c) ==
    LET t == calls[c].task
        s == IF calls[c].op = "pause" THEN "PAUSED" ELSE "STOPPED"
    IN /\ calls[c].pc = "locked"
       /\ \/ /\ Haltable(task[t], s)
             /\ Section(c, t, Halted(task[t], s), TRUE, calls[c])
             /\ Stalls(t)
             /\ UNCHANGED jobMutex
          \/ /\ ~Haltable(task[t], s)
             /\ jobMutex' = [jobMutex EXCEPT ![t] = None]
             /\ calls' = [calls EXCEPT ![c] = IdleCall]
             /\ UNCHANGED <<task, stalled>>
       /\ quiet' = quiet \cup {t}
       /\ UNCHANGED <<now, taskList, threadExit, loop, worker, submitted, budget, ran>>

UpdateDelayTime(c, t) ==
    /\ Call(c, t, "delay") /\ Counted
    /\ task[t].singleLoop /\ task[t].runningState = "STARTED"
    /\ \E d \in Delays \cap Nat :
          Section(c, t, Delayed(task[t], d), TRUE, [IdleCall EXCEPT !.op = "delay", !.task = t])
    /\ UNCHANGED <<now, taskList, threadExit, loop, worker, jobMutex, submitted, ran,
                   quiet, stalled>>

(* SubmitJob files in jobQueue_, SubmitJobOnce in msgQueue_; with `wait` the
   caller then waits until its entry has left the map.                      *)
Submit(c, t, op, wait) ==
    /\ Call(c, t, op) /\ submitted < MaxJobs
    /\ wait => "wait" \in Ops[c][t]
    /\ submitted' = submitted + 1
    /\ \E d \in Delays :
          LET inJob == op = "submit"
              k == InsertJob(task[t], submitted + 1, d, inJob)
              at == ProcessTime(QueueOf(task[t], inJob), d)
          IN Section(c, t, k, k.topProcessUs # task[t].topProcessUs,
                     IF wait THEN [IdleCall EXCEPT !.pc = "reply", !.op = op, !.task = t,
                                                   !.at = at, !.inJobQueue = inJob]
                             ELSE IdleCall)
    /\ UNCHANGED <<now, taskList, threadExit, loop, worker, jobMutex, budget, ran,
                   quiet, stalled>>

SubmitJob(c, t) == \E wait \in BOOLEAN : Submit(c, t, "submit", wait)

SubmitJobOnce(c, t) == \E wait \in BOOLEAN : Submit(c, t, "submitOnce", wait)

(* The predicate under which replyCond_ is waited on, looked at under
   stateMutex_; the waiter sleeps while its entry is in the map.            *)
AwaitReply(c) ==
    LET k == task[calls[c].task]
    IN /\ calls[c].pc = "reply"
       /\ calls' = [calls EXCEPT ![c] =
             IF calls[c].at \in DOMAIN QueueOf(k, calls[c].inJobQueue)
             THEN [@ EXCEPT !.pc = "replySleep"] ELSE IdleCall]
       /\ UNCHANGED <<now, task, taskList, threadExit, loop, worker, jobMutex, submitted,
                      budget, ran, quiet, stalled>>

(* UpdateThreadPriority clears singleLoop_ without a lock, submits a message
   and writes the old value back.                                           *)
UpdateThreadPriority(c, t) ==
    /\ Call(c, t, "priority") /\ submitted < MaxJobs
    /\ calls' = [calls EXCEPT ![c] = [IdleCall EXCEPT !.pc = "prioSubmit", !.op = "priority",
                                         !.task = t, !.saved = task[t].singleLoop]]
    /\ task' = [task EXCEPT ![t].singleLoop = FALSE]
    /\ UNCHANGED <<now, taskList, threadExit, loop, worker, jobMutex, submitted, budget, ran,
                   quiet, stalled>>

PrioritySubmit(c) ==
    LET t == calls[c].task
        k == InsertJob(task[t], submitted + 1, 0, FALSE)
    IN /\ calls[c].pc = "prioSubmit"
       /\ submitted' = submitted + 1
       /\ Section(c, t, k, k.topProcessUs # task[t].topProcessUs,
                  [calls[c] EXCEPT !.pc = "prioRestore"])
       /\ UNCHANGED <<now, taskList, threadExit, loop, worker, jobMutex, budget, ran,
                      quiet, stalled>>

PriorityRestore(c) ==
    LET t == calls[c].task
    IN /\ calls[c].pc = "prioRestore"
       /\ task' = [task EXCEPT ![t].singleLoop = calls[c].saved]
       /\ calls' = [calls EXCEPT ![c] = IdleCall]
       /\ UNCHANGED <<now, taskList, threadExit, loop, worker, jobMutex, submitted, budget,
                      ran, quiet, stalled>>

(* What follows UnLockJobState's unlock: the signal, and the end of the call
   or its next part.                                                        *)
Notify(c) ==
    LET t == calls[c].task
        op == calls[c].op
    IN /\ calls[c].pc = "notify"
       /\ worker' = Woken(worker)
       /\ calls' = [calls EXCEPT ![c] =
             CASE op \in {"submit", "submitOnce"} -> [@ EXCEPT !.pc = "reply"]
               [] op = "priority" -> [@ EXCEPT !.pc = "prioRestore"]
               [] OTHER -> IdleCall]
       /\ \/ /\ op \in {"pause", "stop"}
             /\ jobMutex' = [jobMutex EXCEPT ![t] = None]
          \/ /\ op \notin {"pause", "stop"}
             /\ UNCHANGED jobMutex
       /\ UNCHANGED <<now, task, taskList, threadExit, loop, submitted, budget, ran,
                      quiet, stalled>>

(* Task's destructor: the task leaves the list; the thread of a singleton is
   told to exit and joined; then the task is stopped for good.  A client
   destroys a task when no other call on it is under way.                   *)
DeInit(c, t) ==
    /\ Call(c, t, "deinit") /\ Counted
    /\ \A d \in Callers \ {c} : calls[d].task # t
    /\ \E i \in DOMAIN taskList : taskList[i] = t /\ taskList' = RemoveAt(taskList, i)
    /\ calls' = [calls EXCEPT ![c] = [IdleCall EXCEPT !.op = "deinit", !.task = t,
                                         !.pc = IF Singleton THEN "exit" ELSE "deinit"]]
    /\ UNCHANGED <<now, task, threadExit, loop, worker, jobMutex, submitted, ran,
                   quiet, stalled>>

(* PipeLineThread::Exit: the flag and the signal under mutex_, then loop_ is
   reset, which makes it null before the destructor joins the thread.       *)
Exit(c) ==
    /\ calls[c].pc = "exit"
    /\ threadExit' = TRUE
    /\ worker' = Woken(worker)
    /\ calls' = [calls EXCEPT ![c].pc = "reset"]
    /\ UNCHANGED <<now, task, taskList, loop, jobMutex, submitted, budget, ran, quiet, stalled>>

ResetLoop(c) ==
    /\ calls[c].pc = "reset"
    /\ loop' = FALSE
    /\ calls' = [calls EXCEPT ![c].pc = "join"]
    /\ UNCHANGED <<now, task, taskList, threadExit, worker, jobMutex, submitted, budget, ran,
                   quiet, stalled>>

(* Variant of Join that does not wait for the thread.                       *)
JoinNothing(c) ==
    /\ calls[c].pc = "join"
    /\ calls' = [calls EXCEPT ![c].pc = "deinit"]
    /\ UNCHANGED <<now, task, taskList, threadExit, loop, worker, jobMutex, submitted, budget,
                   ran, quiet, stalled>>

Join(c) ==
    /\ calls[c].pc = "join"
    /\ worker.pc = "exited"
    /\ calls' = [calls EXCEPT ![c].pc = "deinit"]
    /\ UNCHANGED <<now, task, taskList, threadExit, loop, worker, jobMutex, submitted, budget,
                   ran, quiet, stalled>>

DeInitSection(c) ==
    LET t == calls[c].task
    IN /\ calls[c].pc = "deinit"
       /\ jobMutex[t] = None
       /\ task' = [task EXCEPT ![t] = Halted(task[t], "STOPPED")]
       /\ calls' = [calls EXCEPT ![c] = IdleCall]
       /\ quiet' = quiet \cup {t}
       /\ Stalls(t)
       /\ UNCHANGED <<now, taskList, threadExit, loop, worker, jobMutex, submitted, budget, ran>>
-----------------------------------------------------------------------------
(* The thread: PipeLineThread::Run and TaskInner::HandleJob.                *)

Due == {i \in DOMAIN taskList : task[taskList[i]].topProcessUs # -1}

(* The task with the earliest time; of two, the one created first.          *)
NextTask ==
    LET top(i) == task[taskList[i]].topProcessUs
    IN taskList[CHOOSE i \in Due : \A j \in Due :
                   top(i) < top(j) \/ (top(i) = top(j) /\ i <= j)]

(* Variant of Scan that takes the earliest task without looking at its time. *)
ScanEager ==
    /\ worker.pc = "scan"
    /\ worker' =
         CASE threadExit -> [worker EXCEPT !.pc = "exited"]
           [] ~threadExit /\ Due = {} -> [worker EXCEPT !.pc = "sleep"]
           [] OTHER -> [worker EXCEPT !.pc = "picked", !.task = NextTask]
    /\ UNCHANGED <<now, task, taskList, threadExit, loop, jobMutex, calls, submitted, budget,
                   ran, quiet, stalled>>

(* When WaitFor gives up: the time that is left, rounded to milliseconds.   *)
WaitEnd(top) == now + ((top - now + ADJUST_US) \div US_PER_MS) * US_PER_MS

(* One round under mutex_: leave, wait for a signal, wait for the time of the
   earliest task, or take that task, a little early if need be.             *)
Scan ==
    /\ worker.pc = "scan"
    /\ worker' =
         CASE threadExit -> [worker EXCEPT !.pc = "exited"]
           [] ~threadExit /\ Due = {} -> [worker EXCEPT !.pc = "sleep"]
           [] OTHER ->
                LET top == task[NextTask].topProcessUs
                IN IF top > now + ADJUST_US
                   THEN [worker EXCEPT !.pc = "sleep", !.until = WaitEnd(top)]
                   ELSE [worker EXCEPT !.pc = "picked", !.task = NextTask]
    /\ UNCHANGED <<now, task, taskList, threadExit, loop, jobMutex, calls, submitted, budget,
                   ran, quiet, stalled>>

(* The wait ends by itself at its deadline, and may end at any time.        *)
WaitTimeout ==
    /\ worker.pc = "sleep"
    /\ worker.until # -1 /\ worker.until <= now
    /\ worker' = Scanning
    /\ UNCHANGED <<now, task, taskList, threadExit, loop, jobMutex, calls, submitted, budget,
                   ran, quiet, stalled>>

SpuriousWakeup ==
    /\ worker.pc = "sleep"
    /\ worker' = Scanning
    /\ UNCHANGED <<now, task, taskList, threadExit, loop, jobMutex, calls, submitted, budget,
                   ran, quiet, stalled>>

(* HandleJob takes jobMutex_ and reads singleLoop_.                         *)
EnterHandleJob ==
    LET t == worker.task
    IN /\ worker.pc = "picked"
       /\ jobMutex[t] = None
       /\ jobMutex' = [jobMutex EXCEPT ![t] = "worker"]
       /\ worker' = [worker EXCEPT !.pc = "locked", !.single = task[t].singleLoop]
       /\ UNCHANGED <<now, task, taskList, threadExit, loop, calls, submitted, budget, ran,
                      quiet, stalled>>

(* Variant of Leave that keeps jobMutex_.                                   *)
LeaveHeld(t) ==
    /\ worker' = Scanning
    /\ UNCHANGED jobMutex

Leave(t) ==
    /\ jobMutex' = [jobMutex EXCEPT ![t] = None]
    /\ worker' = Scanning

(* Variant of MayRun without HandleJob's check of the state.                *)
MayRunAlways(k) == TRUE

(* A job runs only in a started task.                                       *)
MayRun(k) == k.runningState = "STARTED"

(* The section before the body, for a task that repeats its one job.        *)
HandleLoop ==
    LET t == worker.task
    IN /\ worker.pc = "locked" /\ worker.single
       /\ \/ /\ MayRun(task[t])
             /\ worker' = [worker EXCEPT !.pc = "run", !.kind = "loop",
                                         !.due = task[t].topProcessUs]
             /\ UNCHANGED <<task, jobMutex>>
          \/ /\ ~MayRun(task[t])
             /\ task' = [task EXCEPT ![t].topProcessUs = -1]
             /\ Leave(t)
       /\ UNCHANGED <<now, taskList, threadExit, loop, calls, submitted, budget, ran,
                      quiet, stalled>>

(* The same for a task with queues.  Taking the first entry of an empty map
   is undefined; the thread's state is then "undefined".                    *)
HandleQueued ==
    LET t == worker.task
        k == task[t]
        q == QueueOf(k, k.topIsJob)
        rest == EraseFirst(q)
    IN /\ worker.pc = "locked" /\ ~worker.single
       /\ \/ /\ k.topIsJob /\ ~MayRun(k)
             /\ Leave(t)
             /\ UNCHANGED <<task, ran>>
          \/ /\ k.topIsJob => MayRun(k)
             /\ Empty(q)
             /\ worker' = [worker EXCEPT !.pc = "undefined"]
             /\ UNCHANGED <<task, jobMutex, ran>>
          \/ /\ k.topIsJob => MayRun(k)
             /\ ~Empty(q)
             /\ task' = [task EXCEPT ![t] = IF k.topIsJob THEN [k EXCEPT !.jobQueue = rest]
                                                          ELSE [k EXCEPT !.msgQueue = rest]]
             /\ ran' = ran \cup {q[First(q)]}
             /\ worker' = [worker EXCEPT !.pc = "run", !.kind = IF k.topIsJob THEN "job" ELSE "msg",
                                         !.id = q[First(q)], !.due = First(q)]
             /\ UNCHANGED jobMutex
       /\ UNCHANGED <<now, taskList, threadExit, loop, calls, submitted, budget, quiet, stalled>>

(* The section after the body: a repeated job is due again after the delay it
   returned, unless its time was changed meanwhile.                         *)
Rescheduled(k, due, delay) ==
    IF k.topProcessUs # -1 /\ k.topProcessUs = due
    THEN [k EXCEPT !.topProcessUs = now + delay] ELSE k

EndLoop ==
    LET t == worker.task
    IN /\ worker.pc = "run" /\ worker.kind = "loop"
       /\ \E d \in Delays \cap Nat :
             task' = [task EXCEPT ![t] = Rescheduled(@, worker.due, d)]
       /\ Leave(t)
       /\ UNCHANGED <<now, taskList, threadExit, loop, calls, submitted, budget, ran,
                      quiet, stalled>>

(* Variant of NotifyReply that forgets the waiters.                         *)
NotifyNobody ==
    /\ worker.pc = "run" /\ worker.kind \in {"job", "msg"}
    /\ worker' = [worker EXCEPT !.pc = "after"]
    /\ UNCHANGED <<now, task, taskList, threadExit, loop, jobMutex, calls, submitted, budget,
                   ran, quiet, stalled>>

(* replyCond_.NotifyAll() after the body, without a lock.                   *)
NotifyReply ==
    LET t == worker.task
    IN /\ worker.pc = "run" /\ worker.kind \in {"job", "msg"}
       /\ worker' = [worker EXCEPT !.pc = "after"]
       /\ calls' = [c \in Callers |->
             IF calls[c].pc = "replySleep" /\ calls[c].task = t
             THEN [calls[c] EXCEPT !.pc = "reply"] ELSE calls[c]]
       /\ UNCHANGED <<now, task, taskList, threadExit, loop, jobMutex, submitted, budget, ran,
                      quiet, stalled>>

EndQueued ==
    LET t == worker.task
    IN /\ worker.pc = "after"
       /\ task' = [task EXCEPT ![t] = UpdateTop(@)]
       /\ Leave(t)
       /\ UNCHANGED <<now, taskList, threadExit, loop, calls, submitted, budget, ran,
                      quiet, stalled>>
-----------------------------------------------------------------------------
(* Calls a job makes on a task of its own thread.  IsRunningInSelf is true
   while loop_ is not null: mutex_ and jobMutex_ are then not taken.        *)

JobCall(t, op) ==
    op \in JobOps /\ worker.pc = "run" /\ t \in Range(taskList) \cup {worker.task}

JobStart(t) ==
    /\ JobCall(t, "start") /\ Counted
    /\ task' = [task EXCEPT ![t] = Started(@)]
    /\ quiet' = quiet \ {t}
    /\ UNCHANGED <<now, taskList, threadExit, loop, worker, jobMutex, calls, submitted, ran,
                   stalled>>

JobSubmit(t) ==
    /\ JobCall(t, "submit") /\ submitted < MaxJobs
    /\ submitted' = submitted + 1
    /\ \E d \in Delays, inJob \in BOOLEAN :
          task' = [task EXCEPT ![t] = InsertJob(@, submitted + 1, d, inJob)]
    /\ UNCHANGED <<now, taskList, threadExit, loop, worker, jobMutex, calls, budget, ran,
                   quiet, stalled>>

(* Pause and Stop in the own thread: the state is written, then the time.
   Stop does not look at the state it overwrites.                           *)
JobHalt(t, s) ==
    /\ IF s = "PAUSED" THEN JobCall(t, "pause") /\ Haltable(task[t], s) ELSE JobCall(t, "stop")
    /\ loop /\ Counted
    /\ task' = [task EXCEPT ![t].runningState = s]
    /\ worker' = [worker EXCEPT !.pc = "halting", !.halting = t]
    /\ UNCHANGED <<now, taskList, threadExit, loop, jobMutex, calls, submitted, ran,
                   quiet, stalled>>

JobHaltTop ==
    /\ worker.pc = "halting"
    /\ task' = [task EXCEPT ![worker.halting].topProcessUs = -1]
    /\ worker' = [worker EXCEPT !.pc = "run", !.halting = None]
    /\ Stalls(worker.halting)
    /\ UNCHANGED <<now, taskList, threadExit, loop, jobMutex, calls, submitted, budget, ran, quiet>>

(* Once loop_ is null the thread takes itself for another one: the running
   task's Pause or Stop waits for the jobMutex_ that HandleJob holds.       *)
JobHaltUnknown ==
    /\ worker.pc = "run" /\ ~loop
    /\ JobOps \cap {"pause", "stop"} # {}
    /\ Counted
    /\ worker' = [worker EXCEPT !.pc = "lockJob"]
    /\ UNCHANGED <<now, task, taskList, threadExit, loop, jobMutex, calls, submitted, ran,
                   quiet, stalled>>

(* The clock.  Past the horizon it only runs on to the jobs already filed and
   to the end of a wait that is about to end.                               *)
Tick ==
    /\ \/ now < Horizon
       \/ \E t \in Tasks, b \in BOOLEAN : \E at \in DOMAIN QueueOf(task[t], b) : at > now
       \/ worker.pc = "sleep" /\ now < worker.until /\ worker.until <= now + ADJUST_US
    /\ now' = now + 1
    /\ UNCHANGED <<task, taskList, threadExit, loop, worker, jobMutex, calls, submitted, budget,
                   ran, quiet, stalled>>
-----------------------------------------------------------------------------
CallStep(c, t) ==
    \/ Start(c, t) \/ Pause(c, t) \/ PauseAsync(c, t) \/ Stop(c, t) \/ StopAsync(c, t)
    \/ SubmitJob(c, t) \/ SubmitJobOnce(c, t) \/ UpdateDelayTime(c, t)
    \/ UpdateThreadPriority(c, t) \/ DeInit(c, t)

Continue(c) ==
    \/ LockJob(c) \/ HaltSection(c) \/ Notify(c) \/ AwaitReply(c)
    \/ PrioritySubmit(c) \/ PriorityRestore(c)
    \/ Exit(c) \/ ResetLoop(c) \/ Join(c) \/ DeInitSection(c)

ThreadStep ==
    \/ Scan \/ WaitTimeout \/ EnterHandleJob \/ HandleLoop \/ HandleQueued
    \/ EndLoop \/ NotifyReply \/ EndQueued \/ JobHaltTop

JobStep ==
    \/ \E t \in Tasks : JobStart(t) \/ JobSubmit(t) \/ JobHalt(t, "PAUSED") \/ JobHalt(t, "STOPPED")
    \/ JobHaltUnknown

Next ==
    \/ \E c \in Callers : Continue(c) \/ \E t \in Tasks : CallStep(c, t)
    \/ ThreadStep \/ JobStep \/ SpuriousWakeup \/ Tick

Spec == Init /\ [][Next]_vars

(* The scheduler runs the thread and lets every call go on; jobMutex_ is a
   FairMutex, whose waiters are served in turn; time passes; a job ends.    *)
Fairness ==
    /\ WF_vars(ThreadStep)
    /\ SF_vars(EnterHandleJob)
    /\ \A c \in Callers : WF_vars(Continue(c)) /\ SF_vars(LockJob(c) \/ DeInitSection(c))
    /\ WF_vars(Tick)

FairSpec == Spec /\ Fairness
-----------------------------------------------------------------------------
(* Properties.                                                              *)

(* Every field holds a value the code can write to it, the holder of a
   jobMutex_ is a thread that is in a section of that task, and HandleJob never
   takes the first entry of an empty map, although the task was chosen under one
   lock and its queues are looked at under another (taskInner.cpp:325).     *)
TypeOK ==
    /\ now \in Nat
    /\ worker.pc # "undefined"
    /\ \A t \in Tasks :
          LET k == task[t]
          IN /\ k.runningState \in RunningState
             /\ {k.singleLoop, k.topIsJob} \subseteq BOOLEAN
             /\ k.topProcessUs \in Nat \cup {-1}
             /\ \A q \in {k.msgQueue, k.jobQueue} :
                   DOMAIN q \subseteq Nat /\ Range(q) \subseteq 1..submitted
    /\ Range(taskList) \subseteq Tasks
    /\ \A t \in Tasks :
          \/ jobMutex[t] = None
          \/ jobMutex[t] = "worker" /\ worker.task = t
          \/ jobMutex[t] \in Callers /\ calls[jobMutex[t]].task = t

(* Nothing submitted is dropped or run twice: every submitted job either was
   started or is filed once, in one map of one task ("To prevent dropping job
   unexpectedly", InsertJob).                                               *)
NothingLost ==
    LET places == UNION {{<<t, b, at>> : at \in DOMAIN QueueOf(task[t], b)} :
                            t \in Tasks, b \in BOOLEAN}
        idAt(p) == QueueOf(task[p[1]], p[2])[p[3]]
    IN /\ {idAt(p) : p \in places} = (1..submitted) \ ran
       /\ \A p, r \in places : idAt(p) = idAt(r) => p = r

(* From the moment Pause or Stop takes effect until the next Start, no job of
   the task is being run ("after Pause called, one job may be executed
   unexpectedly" is what HandleJob's check prevents).                       *)
PausedIsQuiet ==
    worker.pc \in {"run", "halting", "after"} /\ worker.kind # "msg" => worker.task \notin quiet

(* A submitted job is run at most ADJUST_US before the time it was submitted
   for (pipeline_threadpool.cpp:202), although the thread chose its task under
   one lock and takes the entry under another, when the one it was chosen for
   may no longer be the next.                                               *)
NeverEarly ==
    worker.pc \in {"run", "after"} /\ worker.kind = "job" => worker.due <= now + ADJUST_US

(* A sleeping thread wakes at most ADJUST_US after the time of the earliest
   task, unless a caller is about to signal it: no wake-up is lost between the
   change of a task under the lock and the signal after the unlock, and the
   rounding of the wait never costs more (pipeline_threadpool.cpp:203).     *)
Attentive ==
    worker.pc = "sleep" /\ (\A c \in Callers : calls[c].pc # "notify") =>
        \A i \in Due :
            worker.until # -1 /\ worker.until <= task[taskList[i]].topProcessUs + ADJUST_US

(* The thread is inside HandleJob for t.                                    *)
Handling(t) == worker.task = t /\ worker.pc \notin {"scan", "sleep", "picked"}

(* When DeInit of a singleton task has returned, nothing of the task runs or
   will run: its thread was joined.                                         *)
DestroyedIsDead ==
    \A t \in Tasks :
        t \notin Range(taskList) /\ (\A c \in Callers : calls[c].task # t) => worker.pc = "exited"

(* A job of a thread whose loop_ is reset waits for the jobMutex_ that its own
   thread holds; it waits for ever (JobHaltUnknown).                        *)
SelfLocked == worker.pc = "lockJob"

(* Every call ends, Pause and Stop in spite of the jobs they wait for, DeInit
   in spite of the thread it joins and of the jobs that halt their task
   meanwhile; the one exception is a thread that has locked itself.  (A caller
   that asked to wait for its job is RepliesArrive's.)                      *)
CallsReturn ==
    \A c \in Callers : calls[c].pc # "idle" /\ calls[c].op \notin {"submit", "submitOnce"}
                          ~> calls[c].pc = "idle" \/ SelfLocked

FiledIn(id, t, b) == id \in Range(QueueOf(task[t], b))

(* A job filed in a started task is run unless the task is halted.          *)
JobsRun ==
    \A t \in Tasks \ SingleLoops, id \in 1..MaxJobs :
        FiledIn(id, t, TRUE) /\ task[t].runningState = "STARTED"
            ~> id \in ran \/ task[t].runningState # "STARTED"

(* A repeated job whose time has come is run or its task halted or put off. *)
LoopsRun ==
    \A t \in SingleLoops :
        task[t].runningState = "STARTED" /\ task[t].topProcessUs <= now
            ~> \/ worker.pc = "run" /\ worker.task = t
               \/ task[t].runningState # "STARTED" \/ task[t].topProcessUs > now

(* A message is run in whatever state its task is in, paused and stopped ones
   included ("msgQueue_ always got handled", taskInner.cpp:260), unless a Pause,
   a Stop or a DeInit that finds something to halt comes after it.          *)
MessagesRunUnlessHalted ==
    \A t \in Tasks \ SingleLoops, id \in 1..MaxJobs :
        FiledIn(id, t, FALSE) ~> id \in ran \cup stalled

(* A caller that waits for its message is released, unless a Pause, a Stop or a
   DeInit that finds something to halt comes after the message.             *)
RepliesArrive ==
    \A c \in Callers, t \in Tasks \ SingleLoops :
        LET q == task[t].msgQueue
        IN calls[c].op = "submitOnce" /\ calls[c].task = t
              ~> calls[c].pc = "idle" \/ (calls[c].at \in DOMAIN q /\ q[calls[c].at] \in stalled)
=============================================================================
