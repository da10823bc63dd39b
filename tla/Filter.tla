------------------------------- MODULE Filter -------------------------------
(***************************************************************************)
(* The filters of src/filter: a tree of filters, each with a state, an      *)
(* error code, a buffer generation and, in asynchronous mode, a task.       *)
(*                                                                          *)
(* A call on a filter walks the tree, partly on the calling thread and      *)
(* partly, by messages, on the threads of the tasks.  What a thread has     *)
(* still to do is a sequence of steps, `prog`; a step of a thread replaces  *)
(* the first of them by the steps it calls.  The thread of a task is named  *)
(* after its filter.                                                        *)
(*                                                                          *)
(* The task is the one of TaskInner, reduced to what a filter can tell      *)
(* apart: messages run in order, jobs only while the task is started, and   *)
(* `due` says whether the thread looks at the task at all (topProcessUs_ is *)
(* not -1): halting a task clears it, and the next insertion or Start sets  *)
(* it again.                                                                *)
(***************************************************************************)
EXTENDS Integers, Sequences, FiniteSets, SequencesExt

CONSTANTS
    Filters,        \* the filters
    Async,          \* those constructed with isAyncMode = true
    Callers,        \* the threads that use the pipeline
    MaxFails,       \* bound on the number of Do... functions that fail
    MaxBuffers      \* bound on the number of buffers given to a filter

ASSUME FilterAssumption ==
    /\ IsFiniteSet(Filters) /\ Async \subseteq Filters
    /\ Filters \cap Callers = {}
    /\ MaxFails \in Nat /\ MaxBuffers \in Nat

VARIABLES
    filter,         \* the fields of each filter
    nextFilters,    \* nextFiltersMap_, the filters of all stream types in a row
    task,           \* filterTask_ of each filter
    stateMutex,     \* the thread that holds stateMutex_ of a filter
    prog,           \* what each thread has still to do
    result,         \* the Status each caller's command has so far
    failures        \* number of Do... functions that failed so far

filterVars == <<filter, nextFilters, task, stateMutex, prog, result, failures>>

Threads == Callers \cup Filters

None == "none"
-----------------------------------------------------------------------------
(* State.  PREPARING and FROZEN are never assigned to curState_.            *)
FilterState == {"CREATED", "INITIALIZED", "READY", "RUNNING", "PAUSED", "STOPPED",
                "RELEASED", "ERROR"}

Status == {"OK", "FAILED", "INVALID_OPERATION", "TIMED_OUT"}

NewFilter == [curState |-> "CREATED", errCode |-> "OK", jobIdx |-> 0, jobIdxBase |-> 0]

NoTask == [exists |-> FALSE, state |-> "PAUSED", due |-> FALSE, msgs |-> <<>>, jobs |-> {}]

FilterInit ==
    /\ filter = [f \in Filters |-> NewFilter]
    /\ nextFilters = [f \in Filters |-> <<>>]
    /\ task = [f \in Filters |-> NoTask]
    /\ stateMutex = [f \in Filters |-> None]
    /\ prog = [t \in Threads |-> <<>>]
    /\ result = [c \in Callers |-> "OK"]
    /\ failures = 0

(* A step of a thread: `op` on filter f; `to` is the state it waits for or
   changes to, `res` the Status a wait has collected, `idx` a buffer.       *)
Do(op, f) == [op |-> op, f |-> f, to |-> None, res |-> "OK", idx |-> 0]

Each(op, fs) == [i \in DOMAIN fs |-> Do(op, fs[i])]

WaitFor(fs, s) == [i \in DOMAIN fs |-> [Do("wait", fs[i]) EXCEPT !.to = s]]

ChangeTo(f, s) == <<[Do("change", f) EXCEPT !.to = s]>>

(* Thread t is at a step `op`; Goes(t, steps) puts steps in its place.      *)
At(t, op) == prog[t] # <<>> /\ Head(prog[t]).op = op

Goes(t, steps) == prog' = [prog EXCEPT ![t] = steps \o Tail(@)]

(* After `steps` the rest of the call is given up: the message of a task's
   thread ends, a caller's command returns r.                               *)
GivesUp(t, steps, r) ==
    /\ prog' = [prog EXCEPT ![t] = steps]
    /\ result' = IF t \in Callers THEN [result EXCEPT ![t] = r] ELSE result
-----------------------------------------------------------------------------
(* The task of a filter.                                                    *)

(* UpdateTop: is there anything to run?                                     *)
Updated(k) == [k EXCEPT !.due = k.msgs # <<>> \/ (k.state = "STARTED" /\ k.jobs # {})]

WithMsg(k, m) == Updated([k EXCEPT !.msgs = Append(@, m)])

WithJob(k, idx) ==
    LET added == [k EXCEPT !.jobs = @ \cup {idx}] IN IF k.due THEN added ELSE Updated(added)

Started(k) == Updated([k EXCEPT !.state = "STARTED"])

Halted(k, s) == IF k.state = "STARTED" \/ (s = "STOPPED" /\ k.state = "PAUSED")
                THEN [k EXCEPT !.state = s, !.due = FALSE] ELSE k

SubmitJobOnce(f, m) == task' = [task EXCEPT ![f] = WithMsg(@, m)]
-----------------------------------------------------------------------------
(* Calls that go down the tree.                                             *)

(* The task is created and its first message filed; a synchronous filter is
   initialised at once.                                                     *)
LinkPipeLine(t) ==
    LET f == Head(prog[t]).f
    IN /\ At(t, "link")
       /\ \/ /\ f \notin Async
             /\ Goes(t, <<Do("initDone", f)>>)
             /\ UNCHANGED task
          \/ /\ f \in Async
             /\ task' = [task EXCEPT ![f] = WithMsg([NoTask EXCEPT !.exists = TRUE], "initDone")]
             /\ Goes(t, <<>>)
       /\ UNCHANGED <<filter, nextFilters, stateMutex, result, failures>>

(* Prepare goes down the tree from PrepareDone, on whatever thread runs it. *)
Prepare(t) ==
    LET f == Head(prog[t]).f
    IN /\ At(t, "prepare")
       /\ \/ /\ task[f].exists
             /\ SubmitJobOnce(f, "prepareDone")
             /\ Goes(t, <<>>)
          \/ /\ ~task[f].exists
             /\ Goes(t, <<Do("prepareDone", f)>>)
             /\ UNCHANGED task
       /\ UNCHANGED <<filter, nextFilters, stateMutex, result, failures>>

DoneOf(op) == CASE op = "start" -> "startDone" [] op = "resume" -> "resumeDone"
                [] op = "release" -> "releaseDone"

(* Start, Resume and Release: a message and then the next filters, or the
   next filters and then the filter itself.                                 *)
StartLike(t, op) ==
    LET f == Head(prog[t]).f
    IN /\ At(t, op)
       /\ \/ /\ task[f].exists
             /\ SubmitJobOnce(f, DoneOf(op))
             /\ Goes(t, Each(op, nextFilters[f]))
          \/ /\ ~task[f].exists
             /\ Goes(t, Append(Each(op, nextFilters[f]), Do(DoneOf(op), f)))
             /\ UNCHANGED task
       /\ UNCHANGED <<filter, nextFilters, stateMutex, result, failures>>

Start(t) == StartLike(t, "start")

Resume(t) == StartLike(t, "resume")

Release(t) == StartLike(t, "release")

(* What Pause, Stop and Freeze do after their own part.                     *)
HaltThenNext(op, f) ==
    <<[Do("haltTask", f) EXCEPT !.to = IF op = "stop" THEN "STOPPED" ELSE "PAUSED"]>>
    \o Each(op, nextFilters[f])

(* ReleaseOnMuted and ReInitAndStart concern one filter only.               *)
OnMuted(t, op, done) ==
    LET f == Head(prog[t]).f
    IN /\ At(t, op)
       /\ \/ /\ task[f].exists
             /\ SubmitJobOnce(f, done)
             /\ Goes(t, <<>>)
          \/ /\ ~task[f].exists
             /\ Goes(t, <<Do(done, f)>>)
             /\ UNCHANGED task
       /\ UNCHANGED <<filter, nextFilters, stateMutex, result, failures>>

ReleaseOnMuted(t) == OnMuted(t, "muted", "mutedDone")

ReInitAndStart(t) == OnMuted(t, "reInit", "reInitDone")

(* Freeze, PauseDragging and PauseAudioAlign: the task, then the next
   filters, on the calling thread; the state stays.                         *)
Freeze(t) ==
    LET f == Head(prog[t]).f
    IN /\ At(t, "freeze")
       /\ Goes(t, HaltThenNext("freeze", f))
       /\ UNCHANGED <<filter, nextFilters, task, stateMutex, result, failures>>

(* UnFreeze starts the task only if the state_ of the filter's own class is
   RUNNING; ResumeDragging and ResumeAudioAlign always do.                  *)
UnFreeze(t) ==
    LET f == Head(prog[t]).f
    IN /\ At(t, "unfreeze")
       /\ \E running \in BOOLEAN :
             Goes(t, (IF running THEN <<Do("startTask", f)>> ELSE <<>>)
                     \o Each("unfreeze", nextFilters[f]))
       /\ UNCHANGED <<filter, nextFilters, task, stateMutex, result, failures>>

(* Variant of HaltTask that does not wait for the thread of the task.       *)
HaltTaskAnyway(t) ==
    LET f == Head(prog[t]).f
    IN /\ At(t, "haltTask")
       /\ task' = [task EXCEPT ![f] = IF @.exists THEN Halted(@, Head(prog[t]).to) ELSE @]
       /\ Goes(t, <<>>)
       /\ UNCHANGED <<filter, nextFilters, stateMutex, result, failures>>

(* Task::Pause and Task::Stop take jobMutex_, which the thread of the task
   holds for the whole of a message or job.                                 *)
HaltTask(t) ==
    LET f == Head(prog[t]).f
    IN /\ At(t, "haltTask")
       /\ prog[f] = <<>>
       /\ task' = [task EXCEPT ![f] = IF @.exists THEN Halted(@, Head(prog[t]).to) ELSE @]
       /\ Goes(t, <<>>)
       /\ UNCHANGED <<filter, nextFilters, stateMutex, result, failures>>

StartTask(t) ==
    LET f == Head(prog[t]).f
    IN /\ At(t, "startTask")
       /\ task' = [task EXCEPT ![f] = IF @.exists THEN Started(@) ELSE @]
       /\ Goes(t, <<>>)
       /\ UNCHANGED <<filter, nextFilters, stateMutex, result, failures>>

(* The flush of the next filters comes first.                               *)
Flush(t) ==
    LET f == Head(prog[t]).f
    IN /\ At(t, "flush")
       /\ Goes(t, Append(Each("flush", nextFilters[f]), Do("flushBase", f)))
       /\ UNCHANGED <<filter, nextFilters, task, stateMutex, result, failures>>

(* Variant of FlushBase that also drops the next buffer.                    *)
FlushBaseAhead(t) ==
    LET f == Head(prog[t]).f
    IN /\ At(t, "flushBase")
       /\ filter' = [filter EXCEPT ![f].jobIdxBase = filter[f].jobIdx + 1]
       /\ Goes(t, <<>>)
       /\ UNCHANGED <<nextFilters, task, stateMutex, result, failures>>

FlushBase(t) ==
    LET f == Head(prog[t]).f
    IN /\ At(t, "flushBase")
       /\ filter' = [filter EXCEPT ![f].jobIdxBase = filter[f].jobIdx]
       /\ Goes(t, <<>>)
       /\ UNCHANGED <<nextFilters, task, stateMutex, result, failures>>

ClearAllNextFilters(t) ==
    LET f == Head(prog[t]).f
    IN /\ At(t, "clearNext")
       /\ nextFilters' = [nextFilters EXCEPT ![f] = <<>>]
       /\ Goes(t, <<>>)
       /\ UNCHANGED <<filter, task, stateMutex, result, failures>>
-----------------------------------------------------------------------------
(* The ...Done functions, Pause and Stop: the work of the filter's own class (Do..., which
   may fail), the error code and the new state; Pause and Stop go on with
   the task and the next filters on the same thread.                        *)

Target(op) ==
    CASE op = "initDone" -> "INITIALIZED" [] op \in {"startDone", "resumeDone", "reInitDone"} -> "RUNNING"
      [] op = "pause" -> "PAUSED"     [] op = "stop" -> "STOPPED"
      [] op = "releaseDone" -> "RELEASED" [] op = "mutedDone" -> "CREATED"

DoneOps == {"initDone", "startDone", "resumeDone", "pause", "stop", "releaseDone",
            "mutedDone", "reInitDone"}

(* What a Do... function of filter f returns.                               *)
Outcome(f, r) ==
    /\ r \in {"OK", "FAILED"}
    /\ r = "FAILED" => failures < MaxFails
    /\ failures' = failures + IF r = "OK" THEN 0 ELSE 1

(* A command on a head filter that runs on the caller returns the Status of
   ...Done: Start and Resume then give up, Pause and Stop go on.            *)
Done(t) ==
    LET f == Head(prog[t]).f
        op == Head(prog[t]).op
        own == \A g \in Filters : f \notin Range(nextFilters[g])
        then(r) == ChangeTo(f, IF r = "OK" \/ op = "releaseDone" THEN Target(op) ELSE "ERROR")
                   \o IF op \in {"pause", "stop"} THEN HaltThenNext(op, f) ELSE <<>>
    IN /\ prog[t] # <<>> /\ op \in DoneOps
       /\ \E r \in Status :
             /\ Outcome(f, r)
             /\ filter' = [filter EXCEPT ![f].errCode = r]
             /\ \/ /\ t \in Callers /\ own /\ r # "OK"
                   /\ op \in {"startDone", "resumeDone"}
                   /\ GivesUp(t, then(r), r)
                \/ /\ t \in Callers /\ own /\ r # "OK"
                   /\ op \in {"pause", "stop"}
                   /\ Goes(t, then(r))
                   /\ result' = [result EXCEPT ![t] = r]
                \/ /\ \/ t \notin Callers \/ ~own \/ r = "OK"
                      \/ op \in {"initDone", "releaseDone", "mutedDone", "reInitDone"}
                   /\ Goes(t, then(r))
                   /\ UNCHANGED result
       /\ UNCHANGED <<nextFilters, task, stateMutex>>

(* When a next filter's Prepare fails on this thread, the filters above
   return with their state as it was.                                       *)
PrepareDone(t) ==
    LET f == Head(prog[t]).f
    IN /\ At(t, "prepareDone")
       /\ \/ /\ filter[f].curState = "ERROR"
             /\ GivesUp(t, <<>>, "INVALID_OPERATION")
             /\ UNCHANGED <<filter, failures>>
          \/ /\ filter[f].curState # "ERROR"
             /\ \E r \in Status :
                   /\ Outcome(f, r)
                   /\ filter' = [filter EXCEPT ![f].errCode = r]
                   /\ \/ /\ r = "OK"
                         /\ Goes(t, Each("prepare", nextFilters[f]) \o ChangeTo(f, "READY"))
                         /\ UNCHANGED result
                      \/ /\ r # "OK"
                         /\ GivesUp(t, ChangeTo(f, "ERROR"), r)
       /\ UNCHANGED <<nextFilters, task, stateMutex>>

(* An error lasts until the filter is released.                             *)
NewState(cur, s) == IF s = "RELEASED" THEN s ELSE IF cur = "ERROR" THEN "ERROR" ELSE s

ChangeState(t) ==
    LET f == Head(prog[t]).f
    IN /\ At(t, "change")
       /\ stateMutex[f] = None
       /\ filter' = [filter EXCEPT ![f].curState = NewState(@, Head(prog[t]).to)]
       /\ Goes(t, <<>>)
       /\ UNCHANGED <<nextFilters, task, stateMutex, result, failures>>
-----------------------------------------------------------------------------
(* WaitAllState.  The filter's stateMutex_ is held while its next filters
   are waited for; the wait itself releases only its own.                   *)

(* The wait for a filter returned v: after a failure the filter above looks
   up its error code, in a step of its own; a command takes v, and only Pause
   and Stop go on after a failure.  Release ignores it.                     *)
Returned(t, v) ==
    LET rest == Tail(prog[t])
        above == \E i \in DOMAIN rest : rest[i].op = "endWait"
        s == Head(prog[t]).to
    IN \/ /\ above /\ v # "OK"
          /\ Goes(t, <<Do("getErrCode", Head(prog[t]).f)>>)
          /\ UNCHANGED result
       \/ /\ v = "OK" \/ (~above /\ s = "RELEASED")
          /\ Goes(t, <<>>)
          /\ UNCHANGED result
       \/ /\ ~above /\ v # "OK" /\ s \in {"PAUSED", "STOPPED"}
          /\ Goes(t, <<>>)
          /\ result' = [result EXCEPT ![t] = v]
       \/ /\ ~above /\ v # "OK" /\ s \in {"READY", "RUNNING"}
          /\ GivesUp(t, <<>>, v)

(* The code is read without the mutex of the filter it belongs to, which is
   free again: it may have been set anew since the wait gave up.            *)
GetErrCode(t) ==
    LET rest == Tail(prog[t])
        above == {i \in DOMAIN rest : rest[i].op = "endWait"}
        up == CHOOSE i \in above : \A j \in above : i <= j
    IN /\ At(t, "getErrCode")
       /\ prog' = [prog EXCEPT ![t] =
                     [rest EXCEPT ![up].res = filter[Head(prog[t]).f].errCode]]
       /\ UNCHANGED <<filter, nextFilters, task, stateMutex, result, failures>>

(* The state is there: go on with the next filters, holding the mutex.      *)
WaitReached(t) ==
    LET f == Head(prog[t]).f
        s == Head(prog[t]).to
    IN /\ At(t, "wait")
       /\ stateMutex[f] = None
       /\ filter[f].curState = s
       /\ stateMutex' = [stateMutex EXCEPT ![f] = t]
       /\ Goes(t, Append(WaitFor(nextFilters[f], s), [Do("endWait", f) EXCEPT !.to = s]))
       /\ UNCHANGED <<filter, nextFilters, task, result, failures>>

EndWait(t) ==
    LET f == Head(prog[t]).f
    IN /\ At(t, "endWait")
       /\ stateMutex' = [stateMutex EXCEPT ![f] = None]
       /\ Returned(t, Head(prog[t]).res)
       /\ UNCHANGED <<filter, nextFilters, task, failures>>

WaitFailed(t) ==
    LET f == Head(prog[t]).f
    IN /\ At(t, "wait")
       /\ stateMutex[f] = None
       /\ filter[f].curState = "ERROR" /\ Head(prog[t]).to # "RELEASED"
       /\ Returned(t, filter[f].errCode)
       /\ UNCHANGED <<filter, nextFilters, task, stateMutex, failures>>

(* Variant of WaitTimeout without a limit to the wait.                      *)
WaitTimeoutNever(t) == At(t, "wait") /\ FALSE /\ UNCHANGED filterVars

(* 30 seconds have passed and the predicate still does not hold.            *)
WaitTimeout(t) ==
    LET f == Head(prog[t]).f
        s == Head(prog[t]).to
    IN /\ At(t, "wait")
       /\ stateMutex[f] = None
       /\ filter[f].curState # s /\ (s = "RELEASED" \/ filter[f].curState # "ERROR")
       /\ filter' = [filter EXCEPT ![f].errCode = "TIMED_OUT"]
       /\ Returned(t, "TIMED_OUT")
       /\ UNCHANGED <<nextFilters, task, stateMutex, failures>>
-----------------------------------------------------------------------------
(* Buffers.                                                                 *)

(* ProcessInputBuffer and ProcessOutputBuffer: the index first, the job in a
   step of its own; without a task the buffer is processed at once.         *)
ProcessBuffer(t) ==
    LET f == Head(prog[t]).f
    IN /\ At(t, "buffer")
       /\ \/ /\ task[f].exists
             /\ filter' = [filter EXCEPT ![f].jobIdx = @ + 1]
             /\ Goes(t, <<[Do("submit", f) EXCEPT !.idx = filter[f].jobIdx + 1]>>)
          \/ /\ ~task[f].exists
             /\ Goes(t, <<>>)
             /\ UNCHANGED filter
       /\ UNCHANGED <<nextFilters, task, stateMutex, result, failures>>

SubmitBuffer(t) ==
    LET f == Head(prog[t]).f
    IN /\ At(t, "submit")
       /\ task' = [task EXCEPT ![f] = WithJob(@, Head(prog[t]).idx)]
       /\ Goes(t, <<>>)
       /\ UNCHANGED <<filter, nextFilters, stateMutex, result, failures>>

(* Variant of CheckDrop that is one off at the boundary.                    *)
CheckDropOff(t) ==
    LET s == Head(prog[t])
    IN /\ At(t, "check")
       /\ Goes(t, <<[s EXCEPT !.op = IF s.idx < filter[s.f].jobIdxBase THEN "drop" ELSE "process"]>>)
       /\ UNCHANGED <<filter, nextFilters, task, stateMutex, result, failures>>

(* The job of a buffer: is it from before the last flush? ...               *)
CheckDrop(t) ==
    LET s == Head(prog[t])
    IN /\ At(t, "check")
       /\ Goes(t, <<[s EXCEPT !.op = IF s.idx <= filter[s.f].jobIdxBase THEN "drop" ELSE "process"]>>)
       /\ UNCHANGED <<filter, nextFilters, task, stateMutex, result, failures>>

(* ... then, the lock released, DoProcessInputBuffer or ...OutputBuffer.    *)
ProcessDone(t) ==
    /\ At(t, "drop") \/ At(t, "process")
    /\ Goes(t, <<>>)
    /\ UNCHANGED <<filter, nextFilters, task, stateMutex, result, failures>>
-----------------------------------------------------------------------------
(* Variant of RunMessage in which a Start message does not start the task.  *)
RunMessageIdle(f) ==
    /\ prog[f] = <<>> /\ task[f].due
    /\ task[f].msgs # <<>>
    /\ task' = [task EXCEPT ![f] = Updated([task[f] EXCEPT !.msgs = Tail(@)])]
    /\ prog' = [prog EXCEPT ![f] = <<Do(Head(task[f].msgs), f)>>]
    /\ UNCHANGED <<filter, nextFilters, stateMutex, result, failures>>

(* The thread of f's task takes the next message, or a job: jobs are filed
   under times of their own, so any of them may be the first.  What is due
   afterwards is settled here: until the end of the message or job the task
   can only gain entries or be started.                                     *)
RunMessage(f) ==
    LET m == Head(task[f].msgs)
    IN /\ prog[f] = <<>> /\ task[f].due
       /\ task[f].msgs # <<>>
       /\ task' = [task EXCEPT ![f] = Updated([task[f] EXCEPT !.msgs = Tail(@)])]
       /\ prog' = [prog EXCEPT ![f] =
             IF m \in {"startDone", "resumeDone"} THEN <<Do(m, f), Do("startTask", f)>>
                                                 ELSE <<Do(m, f)>>]
       /\ UNCHANGED <<filter, nextFilters, stateMutex, result, failures>>

RunJob(f) ==
    /\ prog[f] = <<>> /\ task[f].due
    /\ task[f].state = "STARTED"
    /\ \E idx \in task[f].jobs :
          /\ task' = [task EXCEPT ![f] = Updated([task[f] EXCEPT !.jobs = @ \ {idx}])]
          /\ prog' = [prog EXCEPT ![f] = <<[Do("check", f) EXCEPT !.idx = idx]>>]
    /\ UNCHANGED <<filter, nextFilters, stateMutex, result, failures>>

(* A step of thread t, whoever it is.                                       *)
ThreadStep(t) ==
    \/ LinkPipeLine(t) \/ Prepare(t) \/ Start(t) \/ Resume(t) \/ Release(t)
    \/ ReleaseOnMuted(t) \/ ReInitAndStart(t)
    \/ Freeze(t) \/ UnFreeze(t) \/ HaltTask(t) \/ StartTask(t)
    \/ Flush(t) \/ FlushBase(t) \/ ClearAllNextFilters(t)
    \/ Done(t) \/ PrepareDone(t) \/ ChangeState(t)
    \/ WaitReached(t) \/ EndWait(t) \/ WaitFailed(t) \/ WaitTimeout(t) \/ GetErrCode(t)
    \/ ProcessBuffer(t) \/ SubmitBuffer(t) \/ CheckDrop(t) \/ ProcessDone(t)

TaskStep(f) == RunMessage(f) \/ RunJob(f)

FilterTypeOK ==
    /\ \A f \in Filters :
          /\ filter[f].curState \in FilterState /\ filter[f].errCode \in Status
          /\ filter[f].jobIdxBase \in 0..filter[f].jobIdx /\ filter[f].jobIdx \in 0..MaxBuffers
          /\ task[f].state \in {"STARTED", "PAUSED", "STOPPED"}
          /\ task[f].exists => f \in Async
          /\ task[f].jobs \subseteq 1..filter[f].jobIdx
          /\ stateMutex[f] \in Callers \cup {None}
    /\ \A c \in Callers : result[c] \in Status
    /\ failures \in 0..MaxFails
=============================================================================
