----------------------------- MODULE MCPipeline -----------------------------
(***************************************************************************)
(* Instances of Pipeline for TLC: a head f1 and its next filter f2 in four *)
(* settings that share the variables; `setting` says which one a behaviour  *)
(* is of.  The constants of the configuration are those of "commands".      *)
(***************************************************************************)
EXTENDS Pipeline

CONSTANTS f1, f2, c1, c2

VARIABLE setting

(* One client gives the commands; both filters have tasks.                  *)
PairLinks == {<<f1, f2>>}

CommandOps ==
    (c1 :> {"prepare", "start", "pause", "resume", "stop"}) @@ (c2 :> {})

(* The next filter is synchronous; calls on one filter come in between.     *)
Mixed == INSTANCE Pipeline WITH
    Async <- {f1}, MaxCalls <- 3,
    Ops <- (c1 :> {"prepare", "start", "pause", "release", "remove", "freeze", "muted", "reInit", "buffer"})
           @@ (c2 :> {})

(* A client plays, pauses, flushes and resumes one filter while another
   thread hands over a buffer and unfreezes the filter.                      *)
Buffers == INSTANCE Pipeline WITH
    Links <- {}, MaxFails <- 0, MaxCalls <- 6,
    Ops <- (c1 :> {"prepare", "start", "pause", "flush", "resume"})
           @@ (c2 :> {"buffer", "unfreeze"})

(* A client plays, pauses and stops while another thread hands over a buffer. *)
Halts == INSTANCE Pipeline WITH
    Links <- {}, MaxFails <- 0, MaxCalls <- 5,
    Ops <- (c1 :> {"prepare", "start", "pause", "stop"}) @@ (c2 :> {"buffer"})

MCInit == Init /\ setting \in {"commands", "mixed", "buffers", "halts"}

MCNext ==
    /\ \/ setting = "commands" /\ Next
       \/ setting = "mixed" /\ Mixed!Next
       \/ setting = "buffers" /\ Buffers!Next
       \/ setting = "halts" /\ Halts!Next
    /\ UNCHANGED setting

MCVars == <<vars, setting>>

(* Fairness of the threads, stated for the mixed setting.                   *)
MCFairness ==
    /\ \A c \in Callers :
          WF_MCVars(/\ setting = "mixed" /\ UNCHANGED setting
                    /\ Mixed!FilterStep(c) \/ Mixed!ClearHeads(c) \/ Mixed!InsertHead(c)
                       \/ Mixed!Return(c))
    /\ \A f \in Filters :
          WF_MCVars(/\ setting = "mixed" /\ UNCHANGED setting
                    /\ Mixed!FilterStep(f) \/ (Mixed!TaskStep(f) /\ UNCHANGED pipelineVars))

MCSpec == MCInit /\ [][MCNext]_MCVars /\ MCFairness

(* HaltedIsQuiet where no thread unfreezes the filter during a command.     *)
QuietUnlessUnfrozen == setting # "buffers" => HaltedIsQuiet

(* CallsReturn and StartedRuns in the setting with fairness.                *)
MixedCallsReturn ==
    \A c \in Callers : (setting = "mixed" /\ command[c] # None) ~> (command[c] = None)

MixedStartedRuns ==
    (setting = "mixed" /\ JustStarted) ~> (InCommand \/ ~JustStarted \/ TasksStarted)
=============================================================================
