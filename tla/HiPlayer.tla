------------------------------ MODULE HiPlayer ------------------------------
(***************************************************************************)
(* HiPlayerImpl, the player of the first-generation engine, over the        *)
(* playback path: the calls of one application thread, and the events that  *)
(* reach OnEvent on the application's thread and on the demuxer's.           *)
(*                                                                          *)
(* A call puts its steps into prog["client"].  The application sets a source *)
(* first, plays what is prepared, paused or complete, and pauses what plays; *)
(* seeks in these states, and stops or resets at any time.                    *)
(***************************************************************************)
EXTENDS PlaybackPath

CONSTANT MaxCalls       \* bound on the calls of the application

ASSUME PlayerAssumption == MaxCalls \in Nat

VARIABLES
    player,         \* pipelineStates_, and whether duration_ is known
    call,           \* the call that is or was under way
    calls           \* number of calls made

vars == <<task, demuxer, sink, seekable, core, prog, fails, readyFrom, late, lost, player, call, calls>>

unchangedPath == <<task, demuxer, sink, seekable, core, fails, readyFrom, late, lost>>

Init ==
    /\ PathInit
    /\ player = [state |-> "IDLE", known |-> FALSE]
    /\ call = "none"
    /\ calls = 0

Idle == prog["client"] = <<>>

Waiting == At("client", "waiting")
-----------------------------------------------------------------------------
(* The calls.                                                               *)

Invoke(name, steps) ==
    /\ Idle /\ calls < MaxCalls
    /\ calls' = calls + 1
    /\ call' = name
    /\ prog' = [prog EXCEPT !["client"] = steps]
    /\ UNCHANGED <<unchangedPath, player>>

(* Init adds and links source and demuxer before the source is looked at.   *)
SetSource ==
    /\ player.state = "IDLE"
    /\ Invoke("SetSource", <<<<"init", "">>, <<"setSource", "">>>>)

(* A stopped player sets its source again.                                  *)
PrepareSteps ==
    (IF player.state = "STOPPED" THEN <<<<"setSource", "">>>> ELSE <<>>)
        \o <<<<"corePrepare", "">>, <<"setState", "PREPARING">>>>

Prepare ==
    /\ player.state \in {"INITIALIZED", "STOPPED"}
    /\ Invoke("Prepare", PrepareSteps \o <<<<"awaitReady", "">>>>)

PrepareAsync ==
    /\ player.state \in {"INITIALIZED", "STOPPED"}
    /\ Invoke("PrepareAsync", PrepareSteps)

DoSeek == <<<<"coreFlush", "flushStart">>, <<"seekTo", "">>, <<"coreFlush", "flushEnd">>>>

Play ==
    /\ player.state \in {"PREPARED", "PAUSED", "COMPLETE"}
    /\ Invoke("Play", (CASE player.state = "COMPLETE" -> DoSeek
                         [] player.state = "PAUSED" -> <<<<"coreResume", "">>>>
                         [] OTHER -> <<<<"coreStart", "">>>>)
                      \o <<<<"setState", "STARTED">>>>)

Pause ==
    /\ player.state = "STARTED"
    /\ Invoke("Pause", <<<<"corePause", "">>, <<"setState", "PAUSED">>>>)

(* A duration that is known, and a source that is seekable.                 *)
Seek ==
    /\ player.state \in {"PREPARED", "STARTED", "PAUSED", "COMPLETE"} /\ player.known /\ seekable
    /\ Invoke("Seek", DoSeek)

(* Stop and Reset.                                                          *)
Stop ==
    /\ player.state \notin {"IDLE", "STOPPED"}
    /\ Invoke("Stop", <<<<"stopTask", "">>, <<"coreStop", "">>, <<"setState", "STOPPED">>>>)
-----------------------------------------------------------------------------
(* The player's steps of a call.                                            *)

InitPipeline ==
    /\ At("client", "init")
    /\ core' = [core EXCEPT !.state = "INITIALIZED", !.filters = <<"source", "demuxer">>]
    /\ Then("client", <<>>)
    /\ UNCHANGED <<task, demuxer, sink, seekable, fails, readyFrom, late, lost, player, call, calls>>

(* The first source may be unusable.  A source that is set again is usable
   here: Prepare ignores its failure (192), which leaves seekable_ INVALID and
   has the demuxer prepared in push mode, and that mode is not modelled.    *)
DoSetSource ==
    /\ At("client", "setSource")
    /\ \E failed \in BOOLEAN :
          /\ failed => call = "SetSource"
          /\ Fails(failed)
          /\ seekable' = ~failed
          /\ Then("client", <<<<"setState", IF failed THEN "ERROR" ELSE "INITIALIZED">>>>)
    /\ UNCHANGED <<task, demuxer, sink, core, readyFrom, late, lost, player, call, calls>>

(* SeekTo of the demuxer; when it fails, FlushEnd is still called.          *)
SeekTo ==
    /\ At("client", "seekTo")
    /\ \/ /\ Fails(FALSE)
          /\ \E n \in 0..MaxFrames : demuxer' = [demuxer EXCEPT !.left = n]
          /\ Then("client", <<>>)
       \/ /\ Fails(TRUE)
          /\ prog' = [prog EXCEPT !["client"] = <<<<"coreFlush", "flushEnd">>>>]
          /\ UNCHANGED demuxer
    /\ UNCHANGED <<task, sink, seekable, core, readyFrom, late, lost, player, call, calls>>

(* UpdateStateNoLock of the client, and the return of a failed call.        *)
SetState ==
    /\ At("client", "setState")
    /\ player' = [player EXCEPT !.state = Arg("client")]
    /\ Then("client", <<>>)
    /\ UNCHANGED <<unchangedPath, call, calls>>

(* A failed call is an error; these three go on to their state all the same. *)
Failed ==
    /\ At("client", "failed")
    /\ player' = [player EXCEPT !.state = "ERROR"]
    /\ Then("client", CASE call = "PrepareAsync" -> <<<<"setState", "PREPARING">>>>
                        [] call = "Pause" -> <<<<"setState", "PAUSED">>>>
                        [] call = "Stop" -> <<<<"setState", "STOPPED">>>>
                        [] OTHER -> <<>>)
    /\ UNCHANGED <<unchangedPath, call, calls>>

(* Prepare waits under stateMutex_ until the state is not PREPARING.        *)
AwaitReady ==
    /\ At("client", "awaitReady")
    /\ Then("client", IF player.state = "PREPARING" THEN <<<<"waiting", "">>>> ELSE <<>>)
    /\ UNCHANGED <<unchangedPath, player, call, calls>>

SpuriousReturn ==
    /\ Waiting
    /\ Then("client", <<<<"awaitReady", "">>>>)
    /\ UNCHANGED <<unchangedPath, player, call, calls>>
-----------------------------------------------------------------------------
(* OnEvent.                                                                 *)

(* DoOnError stores the state and does not notify cond_.                    *)
HandleErrorEvent(t) ==
    /\ At(t, "event") /\ Arg(t) = "ERROR"
    /\ player' = [player EXCEPT !.state = "ERROR"]
    /\ Then(t, <<>>)
    /\ UNCHANGED <<unchangedPath, call, calls>>

(* OnStateChanged wakes a client that waits in Prepare.                     *)
ChangeState(t, new) ==
    /\ player' = new
    /\ prog' = [prog EXCEPT ![t] = Tail(@), !["client"] = IF Waiting THEN <<<<"awaitReady", "">>>> ELSE @]
    /\ UNCHANGED <<unchangedPath, call, calls>>

HandleReadyEvent(t) ==
    /\ At(t, "event") /\ Arg(t) = "READY"
    /\ ChangeState(t, [state |-> "PREPARED", known |-> TRUE])

HandleCompleteEvent(t) ==
    /\ At(t, "event") /\ Arg(t) = "COMPLETE"
    /\ ChangeState(t, [player EXCEPT !.state = "COMPLETE"])
-----------------------------------------------------------------------------
Step(t) ==
    \/ PathStep(t) /\ UNCHANGED <<player, call, calls>>
    \/ HandleErrorEvent(t) \/ HandleReadyEvent(t) \/ HandleCompleteEvent(t)
    \/ /\ t = "client"
       /\ InitPipeline \/ DoSetSource \/ SeekTo \/ SetState \/ Failed \/ AwaitReady

Call == SetSource \/ Prepare \/ PrepareAsync \/ Play \/ Pause \/ Seek \/ Stop

Next ==
    \/ Call
    \/ \E t \in Threads : Step(t)
    \/ SpuriousReturn
    \/ SpuriousWakeup /\ UNCHANGED <<player, call, calls>>

Spec == Init /\ [][Next]_vars

(* A thread that can go on does so; the application need not make a call, and
   no spurious wake-up can be relied on.                                    *)
FairSpec == Spec /\ \A t \in Threads : WF_vars(Step(t))
-----------------------------------------------------------------------------
(* A player reports PREPARED only when every filter in the pipeline has sent
   EVENT_READY since Prepare: readyEventCnt_ counts events, not filters, and is
   cleared by Stop only.  Except when an event was counted after that.      *)
ReadyMeansAll == player.state = "PREPARED" /\ ~late => ToSet(core.filters) \subseteq readyFrom

(* While a seek moves the demuxer plug-in, between FlushStart and FlushEnd, the
   thread of DemuxerLoop runs no handler that could read from it.           *)
QuietWhileFlushing ==
    At("client", "seekTo") \/ (At("client", "coreFlush") /\ Arg("client") = "flushEnd") =>
        prog["demux"] = <<>> \/ \E op \in {"paused", "top", "check"} : At("demux", op)

(* A Stop that failed left the sink in filters_ without a link: it comes before
   the demuxer in filters_ then, and is stopped or flushed after it.        *)
SinkLeftOver == core.filters # <<>> /\ Head(core.filters) = "sink"

(* When Stop or Reset has returned, the demuxer's thread is joined, nobody is
   blocked in the sink, and the sink, if it was reached, takes no data.      *)
StoppedIsFresh ==
    player.state = "STOPPED" /\ Idle =>
        /\ task = [state |-> "STOPPED", thread |-> FALSE]
        /\ ~sink.blocking
        /\ sink.state \in {"CREATED", "INITIALIZED"} \/ SinkLeftOver

(* Stop found the demuxer parsing, and now waits for a thread that pushes into
   a sink it has still to stop.                                             *)
Overtaken ==
    /\ At("client", "await") /\ demuxer.plugin = "FRAME"
    /\ <<"coreStop", "">> \in ToSet(prog["client"])

(* Every call returns or is in the wait of Prepare: Task::Pause and Task::Stop
   get their answer from a thread that may be blocked in the sink.  Except when
   the push thread missed its wake-up, or the sink is dealt with too late.  *)
CallsReturnUnlessLost == ~Idle ~> (Idle \/ Waiting \/ lost \/ Overtaken \/ SinkLeftOver)

(* A player that plays into a running sink gets to the end of the media, where
   DemuxerLoop pauses its task, unless a call or an event intervenes.       *)
PlayingMovesOn ==
    (player.state = "STARTED" /\ Idle /\ sink.state = "RUNNING" /\ task.state = "STARTED")
        ~> (player.state # "STARTED" \/ ~Idle \/ lost \/ task.state # "STARTED")

(* Stop returns: DoStop stops the thread of a demuxer that is still parsing
   before the filters, against "concurrency problems" of parsing and Stop.  *)
StopReturns == (call = "Stop" /\ ~Idle) ~> (Idle \/ lost \/ SinkLeftOver)
=============================================================================
