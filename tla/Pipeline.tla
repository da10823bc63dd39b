------------------------------ MODULE Pipeline ------------------------------
(***************************************************************************)
(* src/pipeline: the pipeline keeps the head filters of the trees and gives *)
(* them its commands, one command at a time (mutex_), each of which goes    *)
(* down the trees and then waits until every filter has the new state.      *)
(* SubmitJobOnce of this build runs the job on the calling thread.  Calls   *)
(* made on a filter directly (a buffer, Freeze, ReleaseOnMuted) take no     *)
(* pipeline lock.                                                           *)
(***************************************************************************)
EXTENDS Filter

CONSTANTS
    Heads,          \* the filters the client adds as heads
    Links,          \* the pairs <<filter, next filter>> the client links
    Ops,            \* the calls each caller makes
    MaxCalls        \* bound on the number of calls

(* The heads are the roots of trees.                                        *)
ASSUME LinksAssumption == \A l \in Links : l[2] \notin Heads

VARIABLES
    filters,        \* filters_
    mutex,          \* the caller that holds mutex_
    command,        \* the call each caller is in
    nCalls,         \* number of calls so far
    last,           \* the last command that ended, and its Status
    clean,          \* per filter, the generation of its last flush while its task was halted
    overwritten     \* has a filter set its error code anew before a failed wait had read it?

pipelineVars == <<filters, mutex, command, nCalls, last, clean, overwritten>>

vars == <<filterVars, pipelineVars>>

Init ==
    /\ FilterInit
    /\ filters = <<>>
    /\ mutex = None
    /\ command = [c \in Callers |-> None]
    /\ nCalls = 0
    /\ last = [op |-> None, ret |-> "OK", prepared |-> FALSE, good |-> TRUE]
    /\ clean = [f \in Filters |-> 0]
    /\ overwritten = FALSE
-----------------------------------------------------------------------------
(* Calls.                                                                   *)

Begin(c, op, steps) ==
    /\ command[c] = None
    /\ command' = [command EXCEPT ![c] = op]
    /\ prog' = [prog EXCEPT ![c] = steps]
    /\ result' = [result EXCEPT ![c] = "OK"]

(* The client has added its heads and linked their trees.                   *)
Built ==
    /\ Heads \subseteq Range(filters)
    /\ \A l \in Links : l[2] \in Range(nextFilters[l[1]])

(* A client builds the trees before its first command, starts, pauses and
   flushes a pipeline whose Prepare returned OK, and does not repeat a command
   (the wait for a state the filters already have says nothing).            *)
Counted(c, op) ==
    /\ nCalls > 0 \/ Built
    /\ op \in Ops[c] /\ nCalls < MaxCalls /\ nCalls' = nCalls + 1
    /\ op \in {"start", "pause", "resume", "stop", "flush", "muted", "reInit"} => last.prepared
    /\ op = "prepare" => ~last.prepared
    /\ op \in {"start", "resume"} => last.op \notin {"start", "resume"}
    /\ op = "pause" => last.op # "pause"

AwaitedState(op) ==
    CASE op = "prepare" -> "READY" [] op \in {"start", "resume"} -> "RUNNING"
      [] op = "pause" -> "PAUSED" [] op = "stop" -> "STOPPED" [] op = "release" -> "RELEASED"

(* Variant of Command that does not wait for the filters.                   *)
CommandNoWait(c, op) ==
    /\ Counted(c, op)
    /\ mutex = None /\ mutex' = c
    /\ Begin(c, op, Each(op, filters)
                    \o IF op \in {"stop", "release"} THEN <<Do("clearHeads", None)>> ELSE <<>>)
    /\ UNCHANGED <<filter, nextFilters, task, stateMutex, failures, filters, last, clean, overwritten>>

(* Prepare, Start, Pause, Resume, Stop and Release: every head in turn, then
   the wait for each; Stop and Release then forget the heads.               *)
Command(c, op) ==
    /\ Counted(c, op)
    /\ mutex = None /\ mutex' = c
    /\ Begin(c, op, Each(op, filters) \o WaitFor(filters, AwaitedState(op))
                    \o IF op \in {"stop", "release"} THEN <<Do("clearHeads", None)>> ELSE <<>>)
    /\ UNCHANGED <<filter, nextFilters, task, stateMutex, failures, filters, last, clean, overwritten>>

PipelinePrepare(c) == Command(c, "prepare")

PipelineStart(c) == Command(c, "start")

PipelinePause(c) == Command(c, "pause")

PipelineResume(c) == Command(c, "resume")

PipelineStop(c) == Command(c, "stop")

PipelineRelease(c) == Command(c, "release")

PipelineFlush(c) ==
    /\ Counted(c, "flush")
    /\ mutex = None /\ mutex' = c
    /\ Begin(c, "flush", Each("flush", filters))
    /\ UNCHANGED <<filter, nextFilters, task, stateMutex, failures, filters, last, clean, overwritten>>

(* The filter is compared with filters_ and linked without mutex_.  A client
   adds a head once.                                                        *)
AddHeadFilters(c, f) ==
    /\ f \in Heads /\ filter[f] = NewFilter /\ nCalls = 0 /\ "prepare" \in Ops[c]
    /\ \A d \in Callers : command[d] = None
    /\ f \notin Range(filters)
    /\ Begin(c, "add", <<Do("link", f), Do("insert", f)>>)
    /\ UNCHANGED <<filter, nextFilters, task, stateMutex, failures, filters, mutex, nCalls,
                   last, clean, overwritten>>

InsertHead(c) ==
    /\ At(c, "insert")
    /\ mutex = None
    /\ filters' = Append(filters, Head(prog[c]).f)
    /\ Goes(c, <<>>)
    /\ UNCHANGED <<filter, nextFilters, task, stateMutex, result, failures, mutex, command,
                   nCalls, last, clean, overwritten>>

(* LinkNext is the filter's own; it enters the next filter in its map.      *)
LinkFilters(c, f, g) ==
    /\ <<f, g>> \in Links /\ filter[g] = NewFilter /\ nCalls = 0 /\ "prepare" \in Ops[c]
    /\ f \in Range(filters) \/ \E p \in Filters : f \in Range(nextFilters[p])
    /\ \A p \in Filters : g \notin Range(nextFilters[p])
    /\ nextFilters' = [nextFilters EXCEPT ![f] = Append(@, g)]
    /\ Begin(c, "link", <<Do("link", g)>>)
    /\ UNCHANGED <<filter, task, stateMutex, failures, filters, mutex, nCalls, last, clean, overwritten>>

RemoveHeadFilter(c, f) ==
    /\ Counted(c, "remove")
    /\ f \in Heads /\ filter[f] # NewFilter
    /\ mutex = None /\ mutex' = c
    /\ filters' = RemoveFirst(filters, f)
    /\ Begin(c, "remove", <<Do("release", f)>> \o WaitFor(<<f>>, "RELEASED")
                          \o <<Do("clearNext", f)>>)
    /\ UNCHANGED <<filter, nextFilters, task, stateMutex, failures, last, clean, overwritten>>

(* A call on a filter itself, without mutex_.                               *)
Direct(c, op, f) ==
    /\ Counted(c, op)
    /\ op \in {"freeze", "unfreeze", "muted", "reInit", "buffer"}
    /\ filter[f].curState # "CREATED" \/ op = "reInit"
    /\ op = "buffer" => /\ filter[f].jobIdx < MaxBuffers
                        /\ \A d \in Callers : command[d] # "buffer"
    /\ Begin(c, op, <<Do(op, f)>>)
    /\ UNCHANGED <<filter, nextFilters, task, stateMutex, failures, filters, mutex, last, clean, overwritten>>

ClearHeads(c) ==
    /\ At(c, "clearHeads")
    /\ filters' = <<>>
    /\ Goes(c, <<>>)
    /\ UNCHANGED <<filter, nextFilters, task, stateMutex, result, failures, mutex, command,
                   nCalls, last, clean, overwritten>>

Commands == {"prepare", "start", "pause", "resume", "stop", "release", "remove", "freeze"}

(* Calls that change the state of a filter and that nobody waits for.       *)
Unawaited == {"muted", "reInit"}

(* The call returns.  `last.good`: every command so far returned OK and no
   state was changed behind the pipeline's back.                            *)
Return(c) ==
    /\ command[c] # None /\ prog[c] = <<>>
    /\ command' = [command EXCEPT ![c] = None]
    /\ mutex' = IF mutex = c THEN None ELSE mutex
    /\ last' =
         IF command[c] \in Commands \cup Unawaited
         THEN [op |-> command[c], ret |-> result[c],
               prepared |-> last.prepared \/ (command[c] = "prepare" /\ result[c] = "OK"),
               good |-> last.good /\ result[c] = "OK" /\ command[c] \notin Unawaited]
         ELSE last
    /\ UNCHANGED <<filterVars, filters, nCalls, clean, overwritten>>

InCommand == \E c \in Callers : command[c] \in Commands \cup Unawaited

(* Every command so far said how it ended, and it was well.                 *)
AllWell == last.good /\ ~overwritten

(* The last command paused or stopped the pipeline, no other follows, and all
   is well.                                                                 *)
Halting == last.op \in {"pause", "stop"} /\ AllWell /\ ~InCommand

FilterStep(t) ==
    /\ ThreadStep(t)
    /\ clean' = IF At(t, "flushBase") /\ task[Head(prog[t]).f].state # "STARTED"
                THEN [clean EXCEPT ![Head(prog[t]).f] = filter[Head(prog[t]).f].jobIdx]
                ELSE clean
    /\ overwritten' = \/ overwritten
                      \/ \E c \in Callers :
                            /\ At(c, "getErrCode")
                            /\ filter'[Head(prog[c]).f].errCode # filter[Head(prog[c]).f].errCode
    /\ UNCHANGED <<filters, mutex, command, nCalls, last>>

Next ==
    \/ \E c \in Callers :
          \/ PipelinePrepare(c) \/ PipelineStart(c) \/ PipelinePause(c) \/ PipelineResume(c)
          \/ PipelineStop(c) \/ PipelineRelease(c) \/ PipelineFlush(c)
          \/ InsertHead(c) \/ ClearHeads(c) \/ Return(c)
          \/ \E f \in Filters : AddHeadFilters(c, f) \/ RemoveHeadFilter(c, f)
          \/ \E f, g \in Filters : LinkFilters(c, f, g)
          \/ \E op \in Ops[c], f \in Filters : Direct(c, op, f)
    \/ \E t \in Threads : FilterStep(t)
    \/ \E f \in Filters : TaskStep(f) /\ UNCHANGED pipelineVars

(* Every thread that can take a step does: the callers' calls in progress
   and the threads of the tasks.  No call has to be made.                   *)
Fairness ==
    /\ \A c \in Callers : WF_vars(FilterStep(c) \/ InsertHead(c) \/ ClearHeads(c) \/ Return(c))
    /\ \A f \in Filters : WF_vars(FilterStep(f) \/ (TaskStep(f) /\ UNCHANGED pipelineVars))

Spec == Init /\ [][Next]_vars

FairSpec == Spec /\ Fairness
-----------------------------------------------------------------------------
(* Properties.                                                              *)

TypeOK ==
    /\ FilterTypeOK
    /\ Range(filters) \subseteq Filters
    /\ mutex \in Callers \cup {None}
    /\ last.ret \in Status

(* The filters below a head, in trees of the depth LinkFilters builds.      *)
Below(f) == Range(nextFilters[f])

Tree(f) == {f} \cup Below(f) \cup UNION {Below(g) : g \in Below(f)}

(* Caller c is about to return OK and a filter does not have the state.     *)
ReturnsWrongly(c) ==
    /\ command[c] \in {"prepare", "start", "pause", "resume"}
    /\ prog[c] = <<>> /\ result[c] = "OK"
    /\ \E h \in Range(filters) : \E g \in Tree(h) :
          filter[g].curState # AwaitedState(command[c])

(* The first command that leaves a filter behind says so: until a command has
   failed, success means that all filters of a tree of two levels are in the
   awaited state together (filter.cpp:682, WaitAllState).  One case escapes:
   the Status of a failed wait below a head is thrown away and the filter's
   error code read instead (filter.cpp:704), without its lock, and a filter
   that is late but well sets that code to OK.                              *)
FirstFailureIsReported ==
    AllWell => \A c \in Callers : ~ReturnsWrongly(c)

(* Filter f's task is not started and its thread is in no buffer.           *)
Quiet(f) ==
    /\ task[f].state # "STARTED"
    /\ ~(At(f, "check") \/ At(f, "process") \/ At(f, "drop"))

(* A Pause or Stop that returned OK has silenced the tasks of all filters: none
   is started and none is inside a buffer (filter.cpp:181 and :362, jobMutex_
   of the task), as long as no command has failed before.                   *)
HaltedIsQuiet == Halting => \A f \in Filters : task[f].exists => Quiet(f)

(* A buffer given to a filter before a flush that met its task halted is never
   processed as a live one afterwards, whoever starts the task again: the
   check and the processing are not one step, but a halted task is in neither
   (filter.cpp:396 and :523).                                               *)
FlushedIsDropped ==
    \A f \in Filters : At(f, "process") => Head(prog[f]).idx > clean[f]

(* Every call returns: each wait is bounded by its timeout, and the locks a
   waiter keeps never stop the thread it waits for (filter.cpp:684).        *)
CallsReturn == \A c \in Callers : (command[c] # None) ~> (command[c] = None)

(* The last command was a Start or Resume, and none has failed.             *)
JustStarted == last.op \in {"start", "resume"} /\ last.good /\ ~InCommand

TasksStarted ==
    \A h \in Range(filters) : \A f \in Tree(h) : task[f].exists => task[f].state = "STARTED"

(* After a Start or Resume that returned OK the tasks of its filters are
   started, unless another command follows: the message announces the state
   before it starts the task (filter.cpp:140 and :295).                     *)
StartedRuns == JustStarted ~> (InCommand \/ ~JustStarted \/ TasksStarted)
=============================================================================
