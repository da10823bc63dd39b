---------------------------- MODULE PlaybackPath ----------------------------
(***************************************************************************)
(* The playback path under HiPlayerImpl (engine/): PipelineCore with the    *)
(* media source, the demuxer and the audio sink, and the OSAL::Task that    *)
(* runs DemuxerLoop.  The media is seekable (pull mode) with one PCM track, *)
(* so the demuxer pushes straight into the sink.                            *)
(*                                                                          *)
(* Two threads run: the application's and the task's.  prog[t] is what      *)
(* thread t still has to do, a sequence of steps <<operation, argument>>;   *)
(* an action does the first step of a thread and may put others in its      *)
(* place.  The steps "event" and "failed" are for the player.               *)
(***************************************************************************)
EXTENDS Integers, Sequences, FiniteSets, SequencesExt

CONSTANTS
    MaxFrames,      \* frames of the media
    MaxFails        \* bound on the plug-in calls that fail

ASSUME PathAssumption == MaxFrames \in Nat /\ MaxFails \in Nat

Threads == {"client", "demux"}

VARIABLES
    task,           \* OSAL::Task of the demuxer: runningState_, loop_ has a thread
    demuxer,        \* pluginState_, trackInfos, the link to the sink, frames not read
    sink,           \* state_, isFlushing, pushThreadIsBlocking
    seekable,       \* seekable_ of the source is SEEKABLE
    core,           \* the fields of PipelineCore
    prog,           \* what each thread still has to do
    fails,          \* number of plug-in calls that failed
    readyFrom,      \* history: filters that sent EVENT_READY since Prepare
    late,           \* history: EVENT_READY was counted after Stop had reset the count
    lost            \* history: the push thread missed a notification and was not woken since

pathVars == <<task, demuxer, sink, seekable, core, prog, fails, readyFrom, late, lost>>

(* The filters are added by SetSource; the path is as the constructors leave it. *)
PathInit ==
    /\ task = [state |-> "STOPPED", thread |-> FALSE]
    /\ demuxer = [plugin |-> "NULL", tracks |-> FALSE, linked |-> FALSE, left |-> MaxFrames]
    /\ sink = [state |-> "CREATED", flushing |-> FALSE, blocking |-> FALSE]
    /\ seekable = FALSE
    /\ core = [state |-> "CREATED", filters |-> <<>>, ready |-> 0, mutex |-> "none", toRemove |-> {}]
    /\ prog = [t \in Threads |-> <<>>]
    /\ fails = 0
    /\ readyFrom = {}
    /\ late = FALSE
    /\ lost = FALSE

At(t, op) == prog[t] # <<>> /\ Head(prog[t])[1] = op

Arg(t) == Head(prog[t])[2]

(* Thread t does `steps` instead of its first step.                         *)
Then(t, steps) == prog' = [prog EXCEPT ![t] = steps \o Tail(@)]

(* A call of the client fails: the player handles it.                       *)
Fail == prog' = [prog EXCEPT !["client"] = <<<<"failed", "">>>>]

Fails(failed) ==
    /\ failed => fails < MaxFails
    /\ fails' = fails + IF failed THEN 1 ELSE 0

(* One step for each filter, from the last one to the first.                *)
ForFilters(op) == [i \in DOMAIN core.filters |-> <<op, Reverse(core.filters)[i]>>]
-----------------------------------------------------------------------------
(* OSAL::Task.  Calls that wait for the thread have the states they wait    *)
(* for as argument of the step "await".                                     *)

TaskStart(t) ==
    /\ At(t, "taskStart")
    /\ task' = [state |-> "STARTED", thread |-> TRUE]
    /\ prog' = [prog EXCEPT ![t] = Tail(@), !["demux"] = IF task.thread THEN @ ELSE <<<<"top", "">>>>]
    /\ UNCHANGED <<demuxer, sink, seekable, core, fails, readyFrom, late, lost>>

(* Variant of Pause that does not wait for the thread, as PauseAsync.       *)
TaskPauseNoWait(t) ==
    /\ At(t, "taskPause")
    /\ task' = IF task.state = "STARTED" THEN [task EXCEPT !.state = "PAUSING"] ELSE task
    /\ Then(t, <<>>)
    /\ UNCHANGED <<demuxer, sink, seekable, core, fails, readyFrom, late, lost>>

TaskPause(t) ==
    /\ At(t, "taskPause")
    /\ task' = IF task.state = "STARTED" THEN [task EXCEPT !.state = "PAUSING"] ELSE task
    /\ Then(t, CASE task.state = "STARTED" -> <<<<"await", {"PAUSED", "STOPPED"}>>>>
                 [] task.state = "STOPPING" -> <<<<"await", {"STOPPED"}>>>>
                 [] task.state = "PAUSING" -> <<<<"await", {"PAUSED"}>>>>
                 [] OTHER -> <<>>)
    /\ UNCHANGED <<demuxer, sink, seekable, core, fails, readyFrom, late, lost>>

TaskStop(t) ==
    /\ At(t, "taskStop")
    /\ \/ /\ task.state = "STOPPED"
          /\ Then(t, <<>>)
          /\ UNCHANGED task
       \/ /\ task.state # "STOPPED"
          /\ task' = [task EXCEPT !.state = "STOPPING"]
          /\ Then(t, <<<<"await", {"STOPPED"}>>, <<"join", "">>>>)
    /\ UNCHANGED <<demuxer, sink, seekable, core, fails, readyFrom, late, lost>>

Await(t) ==
    /\ At(t, "await") /\ task.state \in Arg(t)
    /\ Then(t, <<>>)
    /\ UNCHANGED <<task, demuxer, sink, seekable, core, fails, readyFrom, late, lost>>

(* loop_ = nullptr joins the thread.                                        *)
Join(t) ==
    /\ At(t, "join") /\ prog["demux"] = <<>>
    /\ task' = [task EXCEPT !.thread = FALSE]
    /\ Then(t, <<>>)
    /\ UNCHANGED <<demuxer, sink, seekable, core, fails, readyFrom, late, lost>>

PauseAsync(t) ==
    /\ At(t, "pauseAsync")
    /\ task' = IF task.state = "STARTED" THEN [task EXCEPT !.state = "PAUSING"] ELSE task
    /\ Then(t, <<>>)
    /\ UNCHANGED <<demuxer, sink, seekable, core, fails, readyFrom, late, lost>>

(* Run: the handler is chosen without the lock, pausing and ending are
   decided under it.                                                        *)
RunHandler ==
    /\ At("demux", "top")
    /\ Then("demux", IF task.state = "STARTED" THEN <<<<"loop", "">>, <<"check", "">>>>
                     ELSE <<<<"check", "">>>>)
    /\ UNCHANGED <<task, demuxer, sink, seekable, core, fails, readyFrom, late, lost>>

CheckState ==
    /\ At("demux", "check") \/ (At("demux", "paused") /\ task.state # "PAUSED")
    /\ \/ /\ At("demux", "check") /\ task.state \in {"PAUSING", "PAUSED"}
          /\ task' = [task EXCEPT !.state = "PAUSED"]
          /\ Then("demux", <<<<"paused", "">>>>)
       \/ /\ task.state \in {"STOPPING", "STOPPED"}
          /\ task' = [task EXCEPT !.state = "STOPPED"]
          /\ Then("demux", <<>>)
       \/ /\ task.state = "STARTED" \/ (At("demux", "paused") /\ task.state = "PAUSING")
          /\ Then("demux", <<<<"top", "">>>>)
          /\ UNCHANGED task
    /\ UNCHANGED <<demuxer, sink, seekable, core, fails, readyFrom, late, lost>>
-----------------------------------------------------------------------------
(* PipelineCore.                                                            *)

(* A sink that Stop left behind without a link is a source of the graph and
   comes first.                                                             *)
Reordered(filters) ==
    IF "sink" \in ToSet(filters) /\ ~demuxer.linked THEN <<"sink", "source", "demuxer">>
    ELSE filters

(* mutex_ is held until the last filter was prepared.                       *)
CorePrepare ==
    /\ At("client", "corePrepare") /\ core.mutex = "none"
    /\ core' = [core EXCEPT !.state = "PREPARING", !.mutex = "client", !.filters = Reordered(@)]
    /\ LET order == Reverse(Reordered(core.filters))
       IN Then("client", [i \in DOMAIN order |-> <<"prepare", order[i]>>] \o <<<<"coreUnlock", "">>>>)
    /\ readyFrom' = {}
    /\ UNCHANGED <<task, demuxer, sink, seekable, fails, late, lost>>

CoreUnlock ==
    /\ At("client", "coreUnlock")
    /\ core' = [core EXCEPT !.mutex = "none"]
    /\ Then("client", <<>>)
    /\ UNCHANGED <<task, demuxer, sink, seekable, fails, readyFrom, late, lost>>

CoreStart ==
    /\ At("client", "coreStart")
    /\ core' = [core EXCEPT !.state = "RUNNING"]
    /\ Then("client", ForFilters("start"))
    /\ UNCHANGED <<task, demuxer, sink, seekable, fails, readyFrom, late, lost>>

CorePause ==
    /\ At("client", "corePause")
    /\ core' = [core EXCEPT !.state = IF @ \in {"READY", "RUNNING"} THEN "PAUSED" ELSE @]
    /\ IF core.state \in {"PAUSED", "READY", "RUNNING"}
       THEN Then("client", IF core.state = "PAUSED" THEN <<>> ELSE ForFilters("pause"))
       ELSE Fail
    /\ UNCHANGED <<task, demuxer, sink, seekable, fails, readyFrom, late, lost>>

CoreResume ==
    /\ At("client", "coreResume")
    /\ Then("client", ForFilters("resume") \o <<<<"coreRunning", "">>>>)
    /\ UNCHANGED <<task, demuxer, sink, seekable, core, fails, readyFrom, late, lost>>

CoreRunning ==
    /\ At("client", "coreRunning")
    /\ core' = [core EXCEPT !.state = "RUNNING"]
    /\ Then("client", <<>>)
    /\ UNCHANGED <<task, demuxer, sink, seekable, fails, readyFrom, late, lost>>

(* Variant of CoreStop that keeps readyEventCnt_.                           *)
CoreStopKeepsCount ==
    /\ At("client", "coreStop")
    /\ core' = [core EXCEPT !.state = "INITIALIZED", !.toRemove = {}]
    /\ Then("client", ForFilters("stop") \o <<<<"coreRemove", "">>>>)
    /\ UNCHANGED <<task, demuxer, sink, seekable, fails, readyFrom, late, lost>>

CoreStop ==
    /\ At("client", "coreStop")
    /\ core' = [core EXCEPT !.ready = 0, !.state = "INITIALIZED", !.toRemove = {}]
    /\ Then("client", ForFilters("stop") \o <<<<"coreRemove", "">>>>)
    /\ UNCHANGED <<task, demuxer, sink, seekable, fails, readyFrom, late, lost>>

(* Only the sink can have been linked to the demuxer.                       *)
CoreRemove ==
    /\ At("client", "coreRemove")
    /\ core' = [core EXCEPT !.filters = RemoveFirstMatch(@, LAMBDA f : f \in core.toRemove)]
    /\ Then("client", <<>>)
    /\ UNCHANGED <<task, demuxer, sink, seekable, fails, readyFrom, late, lost>>

CoreFlush ==
    /\ At("client", "coreFlush")
    /\ Then("client", ForFilters(Arg("client")))
    /\ UNCHANGED <<task, demuxer, sink, seekable, core, fails, readyFrom, late, lost>>

(* OnEvent(EVENT_READY): readyEventCnt_++ is not atomic, and both threads
   send the event.                                                          *)
Ready(t) ==
    /\ At(t, "ready")
    /\ readyFrom' = readyFrom \cup {Arg(t)}
    /\ Then(t, <<<<"count", core.ready + 1>>>>)
    /\ UNCHANGED <<task, demuxer, sink, seekable, core, fails, late, lost>>

Count(t) ==
    /\ At(t, "count")
    /\ \/ /\ Arg(t) = Len(core.filters)
          /\ core' = [core EXCEPT !.ready = Arg(t), !.state = "READY"]
          /\ Then(t, <<<<"event", "READY">>, <<"countReset", "">>>>)
       \/ /\ Arg(t) # Len(core.filters)
          /\ core' = [core EXCEPT !.ready = Arg(t)]
          /\ Then(t, <<>>)
    /\ late' = (late \/ core.state = "INITIALIZED")
    /\ UNCHANGED <<task, demuxer, sink, seekable, fails, readyFrom, lost>>

CountReset(t) ==
    /\ At(t, "countReset")
    /\ core' = [core EXCEPT !.ready = 0]
    /\ Then(t, <<>>)
    /\ UNCHANGED <<task, demuxer, sink, seekable, fails, readyFrom, late, lost>>
-----------------------------------------------------------------------------
(* MediaSourceFilter.                                                       *)

SourcePrepare ==
    /\ At("client", "prepare") /\ Arg("client") = "source"
    /\ \E failed \in BOOLEAN :
          /\ Fails(failed)
          /\ IF failed THEN Fail ELSE Then("client", <<<<"ready", "source">>>>)
          /\ core' = IF failed THEN [core EXCEPT !.mutex = "none"] ELSE core
    /\ UNCHANGED <<task, demuxer, sink, seekable, readyFrom, late, lost>>

SourceStart ==
    /\ At("client", "start") \/ At("client", "resume")
    /\ Arg("client") = "source"
    /\ \E failed \in BOOLEAN : Fails(failed) /\ IF failed THEN Fail ELSE Then("client", <<>>)
    /\ UNCHANGED <<task, demuxer, sink, seekable, core, readyFrom, late, lost>>

SourceStop ==
    /\ At("client", "stop") /\ Arg("client") = "source"
    /\ \E failed \in BOOLEAN : Fails(failed) /\ IF failed THEN Fail ELSE Then("client", <<>>)
    /\ seekable' = FALSE
    /\ UNCHANGED <<task, demuxer, sink, core, readyFrom, late, lost>>

(* Pausing and flushing touch no state that is read.                        *)
NothingToDo ==
    /\ \/ At("client", "pause") /\ Arg("client") \in {"source", "demuxer"}
       \/ At("client", "flushStart") /\ Arg("client") = "source"
       \/ At("client", "flushEnd") /\ Arg("client") = "source"
    /\ Then("client", <<>>)
    /\ UNCHANGED <<task, demuxer, sink, seekable, core, fails, readyFrom, late, lost>>
-----------------------------------------------------------------------------
(* DemuxerFilter, called by the client.                                     *)

(* Prepare finds the media type and starts the task; when that fails it sends
   EVENT_ERROR and returns success.                                         *)
DemuxerPrepare ==
    /\ At("client", "prepare") /\ Arg("client") = "demuxer"
    /\ \E failed \in BOOLEAN :
          /\ Fails(failed)
          /\ demuxer' = [demuxer EXCEPT !.plugin = IF failed THEN "NULL" ELSE "HEADER", !.left = MaxFrames]
          /\ Then("client", IF failed THEN <<<<"event", "ERROR">>>> ELSE <<<<"taskStart", "">>>>)
    /\ UNCHANGED <<task, sink, seekable, core, readyFrom, late, lost>>

(* Start, and Resume, which is Start.                                       *)
DemuxerStart ==
    /\ At("client", "start") \/ At("client", "resume") \/ At("client", "flushEnd")
    /\ Arg("client") = "demuxer"
    /\ Then("client", <<<<"taskStart", "">>>>)
    /\ UNCHANGED <<task, demuxer, sink, seekable, core, fails, readyFrom, late, lost>>

DemuxerFlushStart ==
    /\ At("client", "flushStart") /\ Arg("client") = "demuxer"
    /\ Then("client", <<<<"taskPause", "">>>>)
    /\ UNCHANGED <<task, demuxer, sink, seekable, core, fails, readyFrom, late, lost>>

(* StopTask(false) spares a demuxer that pushes frames: it may be blocked in
   the sink, which has not been stopped yet.                                *)
StopTaskUnlessParsed ==
    /\ At("client", "stopTask")
    /\ Then("client", IF demuxer.plugin # "FRAME" THEN <<<<"taskStop", "">>>> ELSE <<>>)
    /\ UNCHANGED <<task, demuxer, sink, seekable, core, fails, readyFrom, late, lost>>

(* Variant of DemuxerStop that does not force the task to stop.             *)
DemuxerStopUnforced ==
    /\ At("client", "stop") /\ Arg("client") = "demuxer"
    /\ Then("client", <<<<"stopTask", "">>, <<"unlink", "">>>>)
    /\ UNCHANGED <<task, demuxer, sink, seekable, core, fails, readyFrom, late, lost>>

DemuxerStop ==
    /\ At("client", "stop") /\ Arg("client") = "demuxer"
    /\ Then("client", <<<<"taskStop", "">>, <<"unlink", "">>>>)
    /\ UNCHANGED <<task, demuxer, sink, seekable, core, fails, readyFrom, late, lost>>

(* The rest of Stop: Reset, and PORT_REMOVE, by which the player has the
   linked filters unlinked and removed at the end of PipelineCore::Stop.    *)
Unlink ==
    /\ At("client", "unlink")
    /\ demuxer' = [demuxer EXCEPT !.tracks = FALSE, !.linked = FALSE]
    /\ core' = IF demuxer.linked THEN [core EXCEPT !.toRemove = {"sink"}] ELSE core
    /\ Then("client", <<>>)
    /\ UNCHANGED <<task, sink, seekable, fails, readyFrom, late, lost>>
-----------------------------------------------------------------------------
(* DemuxerLoop, on the task's thread.                                       *)

(* A frame that cannot be read ends the stream as its end does.             *)
ReadFrame ==
    /\ At("demux", "loop") /\ demuxer.plugin = "FRAME"
    /\ \E failed \in BOOLEAN :
          LET read == demuxer.left > 0 /\ ~failed
          IN /\ failed => demuxer.left > 0
             /\ Fails(failed)
             /\ demuxer' = [demuxer EXCEPT !.left = IF read THEN @ - 1 ELSE @]
             /\ Then("demux", IF read THEN <<<<"push", "data">>>>
                              ELSE <<<<"push", "eos">>, <<"pauseAsync", "">>>>)
    /\ UNCHANGED <<task, sink, seekable, core, readyFrom, late, lost>>

GetMediaInfo ==
    /\ At("demux", "loop") /\ demuxer.plugin # "FRAME"
    /\ \E failed \in BOOLEAN :
          /\ Fails(failed)
          /\ Then("demux", IF failed THEN <<<<"pauseAsync", "">>, <<"event", "ERROR">>>>
                           ELSE <<<<"addSink", "">>, <<"negotiate", "">>, <<"parsed", "">>, <<"ready", "demuxer">>>>)
    /\ UNCHANGED <<task, demuxer, sink, seekable, core, readyFrom, late, lost>>

(* PrepareStreams, and NewAudioPortFound of the player: a sink that is not in
   filters_ is added under mutex_ and initialised, then linked and prepared. *)
AddSink ==
    LET known == "sink" \in ToSet(core.filters)
    IN /\ At("demux", "addSink") /\ (known \/ core.mutex = "none")
       /\ core' = IF known THEN core ELSE [core EXCEPT !.filters = Append(@, "sink")]
       /\ sink' = [sink EXCEPT !.state = IF ~known \/ @ = "INITIALIZED" THEN "PREPARING" ELSE @]
       /\ demuxer' = [demuxer EXCEPT !.tracks = TRUE, !.linked = TRUE]
       /\ Then("demux", <<>>)
       /\ UNCHANGED <<task, seekable, fails, readyFrom, late, lost>>

(* NegotiateDownstream: Negotiate of the sink, then Configure, either of
   which may fail; the parsing goes on in any case.                         *)
NegotiateDownstream ==
    /\ At("demux", "negotiate")
    /\ \/ /\ Fails(FALSE)
          /\ sink' = [sink EXCEPT !.state = "READY"]
          /\ Then("demux", <<<<"ready", "sink">>>>)
       \/ /\ Fails(TRUE)
          /\ \/ Then("demux", <<<<"pauseAsync", "">>, <<"event", "ERROR">>>>)
             \/ Then("demux", <<<<"event", "ERROR">>>>)
          /\ UNCHANGED sink
    /\ UNCHANGED <<task, demuxer, seekable, core, readyFrom, late, lost>>

Parsed ==
    /\ At("demux", "parsed")
    /\ demuxer' = [demuxer EXCEPT !.plugin = "FRAME"]
    /\ Then("demux", <<>>)
    /\ UNCHANGED <<task, sink, seekable, core, fails, readyFrom, late, lost>>
-----------------------------------------------------------------------------
(* AudioSinkFilter.                                                         *)

(* startWorkingCondition_.NotifyOne, without the mutex of the waiter: one that
   has evaluated its condition and does not sleep yet misses it.            *)
WakePusher(t) ==
    LET woken == sink.blocking /\ At("demux", "asleep")
    IN /\ At(t, "wake")
       /\ prog' = [prog EXCEPT ![t] = Tail(@),
                               !["demux"] = IF woken THEN <<<<"evaluate", Arg("demux")>>>> \o Tail(@) ELSE @]
       /\ lost' = ((lost /\ ~woken) \/ (sink.blocking /\ At("demux", "sleep")))
       /\ UNCHANGED <<task, demuxer, sink, seekable, core, fails, readyFrom, late>>

Ignores(s) == s.flushing \/ s.state = "INITIALIZED"

PushData ==
    /\ At("demux", "push")
    /\ Then("demux", CASE ~demuxer.tracks \/ ~demuxer.linked \/ Ignores(sink) -> <<>>
                       [] sink.state # "RUNNING" -> <<<<"block", Arg("demux")>>>>
                       [] OTHER -> <<<<"write", Arg("demux")>>>>)
    /\ UNCHANGED <<task, demuxer, sink, seekable, core, fails, readyFrom, late, lost>>

Block ==
    /\ At("demux", "block")
    /\ sink' = [sink EXCEPT !.blocking = TRUE]
    /\ Then("demux", <<<<"evaluate", Arg("demux")>>>>)
    /\ UNCHANGED <<task, demuxer, seekable, core, fails, readyFrom, late, lost>>

Evaluate ==
    /\ At("demux", "evaluate")
    /\ \/ /\ sink.state = "RUNNING" \/ Ignores(sink)
          /\ sink' = [sink EXCEPT !.blocking = FALSE]
          /\ Then("demux", <<<<"write", Arg("demux")>>>>)
       \/ /\ ~(sink.state = "RUNNING" \/ Ignores(sink))
          /\ Then("demux", <<<<"sleep", Arg("demux")>>>>)
          /\ UNCHANGED sink
    /\ UNCHANGED <<task, demuxer, seekable, core, fails, readyFrom, late, lost>>

Sleep ==
    /\ At("demux", "sleep")
    /\ Then("demux", <<<<"asleep", Arg("demux")>>>>)
    /\ UNCHANGED <<task, demuxer, sink, seekable, core, fails, readyFrom, late, lost>>

SpuriousWakeup ==
    /\ At("demux", "asleep")
    /\ Then("demux", <<<<"evaluate", Arg("demux")>>>>)
    /\ lost' = FALSE
    /\ UNCHANGED <<task, demuxer, sink, seekable, core, fails, readyFrom, late>>

(* The state is looked at again; a written end of stream is reported.       *)
Write ==
    /\ At("demux", "write")
    /\ \E failed \in BOOLEAN :
          /\ failed => ~Ignores(sink) /\ Arg("demux") = "eos"
          /\ Fails(failed)
          /\ Then("demux", IF Ignores(sink) \/ failed \/ Arg("demux") = "data" THEN <<>>
                           ELSE <<<<"event", "COMPLETE">>>>)
    /\ UNCHANGED <<task, demuxer, sink, seekable, core, readyFrom, late, lost>>

(* FilterBase::Prepare of a sink that is in filters_ already: without a link
   it cannot be activated.                                                  *)
SinkPrepare ==
    /\ At("client", "prepare") /\ Arg("client") = "sink"
    /\ LET ok == sink.state = "INITIALIZED" /\ demuxer.linked
       IN /\ IF ok THEN Then("client", <<>>) ELSE Fail
          /\ core' = IF ok THEN core ELSE [core EXCEPT !.mutex = "none"]
    /\ sink' = IF sink.state = "INITIALIZED" THEN [sink EXCEPT !.state = "PREPARING"] ELSE sink
    /\ UNCHANGED <<task, demuxer, seekable, fails, readyFrom, late, lost>>

(* Variant of SinkStart that does not wake the push thread.                 *)
SinkStartSilently ==
    /\ At("client", "start") /\ Arg("client") = "sink"
    /\ \/ /\ sink.state \notin {"READY", "PAUSED"}
          /\ Fail
          /\ UNCHANGED <<sink, fails>>
       \/ /\ sink.state \in {"READY", "PAUSED"}
          /\ sink' = [sink EXCEPT !.state = "RUNNING"]
          /\ \E failed \in BOOLEAN : Fails(failed) /\ IF failed THEN Fail ELSE Then("client", <<>>)
    /\ UNCHANGED <<task, demuxer, seekable, core, readyFrom, late, lost>>

SinkStart ==
    /\ At("client", "start") /\ Arg("client") = "sink"
    /\ \/ /\ sink.state \notin {"READY", "PAUSED"}
          /\ Fail
          /\ UNCHANGED <<sink, fails>>
       \/ /\ sink.state \in {"READY", "PAUSED"}
          /\ sink' = [sink EXCEPT !.state = "RUNNING"]
          /\ \E failed \in BOOLEAN :
                Fails(failed) /\ IF failed THEN Fail ELSE Then("client", <<<<"wake", "">>>>)
    /\ UNCHANGED <<task, demuxer, seekable, core, readyFrom, late, lost>>

(* Variant of SinkStop that does not wake the push thread.                  *)
SinkStopSilently ==
    /\ At("client", "stop") /\ Arg("client") = "sink"
    /\ sink' = [sink EXCEPT !.state = "INITIALIZED"]
    /\ Then("client", <<>>)
    /\ UNCHANGED <<task, demuxer, seekable, core, fails, readyFrom, late, lost>>

SinkStop ==
    /\ At("client", "stop") /\ Arg("client") = "sink"
    /\ sink' = [sink EXCEPT !.state = "INITIALIZED"]
    /\ Then("client", <<<<"wake", "">>>>)
    /\ UNCHANGED <<task, demuxer, seekable, core, fails, readyFrom, late, lost>>

(* PipelineCore::Pause does not look at the result.                         *)
SinkPause ==
    /\ At("client", "pause") /\ Arg("client") = "sink"
    /\ sink' = [sink EXCEPT !.state = IF @ \in {"READY", "RUNNING"} THEN "PAUSED" ELSE @]
    /\ Then("client", <<>>)
    /\ UNCHANGED <<task, demuxer, seekable, core, fails, readyFrom, late, lost>>

(* The plug-in is resumed last, when the push thread has been woken.        *)
SinkResume ==
    /\ At("client", "resume") /\ Arg("client") = "sink"
    /\ sink' = [sink EXCEPT !.state = IF @ = "PAUSED" THEN "RUNNING" ELSE @]
    /\ Then("client", IF sink.state = "PAUSED" THEN <<<<"wake", "">>, <<"resumed", "">>>> ELSE <<>>)
    /\ UNCHANGED <<task, demuxer, seekable, core, fails, readyFrom, late, lost>>

SinkResumed ==
    /\ At("client", "resumed")
    /\ \E failed \in BOOLEAN : Fails(failed) /\ IF failed THEN Fail ELSE Then("client", <<>>)
    /\ UNCHANGED <<task, demuxer, sink, seekable, core, readyFrom, late, lost>>

SinkFlush ==
    /\ At("client", "flushStart") \/ At("client", "flushEnd")
    /\ Arg("client") = "sink"
    /\ sink' = [sink EXCEPT !.flushing = At("client", "flushStart")]
    /\ Then("client", IF At("client", "flushStart") THEN <<<<"wake", "">>>> ELSE <<>>)
    /\ UNCHANGED <<task, demuxer, seekable, core, fails, readyFrom, late, lost>>
-----------------------------------------------------------------------------
(* The steps of the threads below the player.                               *)
PathStep(t) ==
    \/ TaskStart(t) \/ TaskPause(t) \/ TaskStop(t) \/ Await(t) \/ Join(t) \/ PauseAsync(t)
    \/ Ready(t) \/ Count(t) \/ CountReset(t) \/ WakePusher(t)
    \/ /\ t = "client"
       /\ \/ CorePrepare \/ CoreUnlock \/ CoreStart \/ CorePause \/ CoreResume \/ CoreRunning
          \/ CoreStop \/ CoreRemove \/ CoreFlush
          \/ SourcePrepare \/ SourceStart \/ SourceStop \/ NothingToDo
          \/ DemuxerPrepare \/ DemuxerStart \/ DemuxerFlushStart \/ StopTaskUnlessParsed
          \/ DemuxerStop \/ Unlink
          \/ SinkPrepare \/ SinkStart \/ SinkStop \/ SinkPause \/ SinkResume \/ SinkResumed \/ SinkFlush
    \/ /\ t = "demux"
       /\ \/ RunHandler \/ CheckState \/ ReadFrame \/ GetMediaInfo \/ AddSink
          \/ NegotiateDownstream \/ Parsed \/ PushData \/ Block \/ Evaluate \/ Sleep \/ Write
=============================================================================
