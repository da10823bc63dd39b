---------------------------- MODULE MCTaskInner ----------------------------
(* Instances of TaskInner for TLC: what each of the other threads calls.    *)
EXTENDS TaskInner, TLC

CONSTANTS c1, c2, t1, t2

(* task_calls: both threads submit to, halt and destroy t1, which has queues,
   and start, put off and halt t2, which repeats one job.                   *)
AllOps ==
    [c \in Callers |->
        t1 :> {"start", "pause", "stopAsync", "deinit", "submit", "submitOnce"}
        @@ t2 :> {"start", "pause", "pauseAsync", "delay"}]

(* The threads are interchangeable.                                         *)
CallerSymmetry == Permutations(Callers)

(* task_deinit: one thread halts and destroys the task that the other uses. *)
DestroyOps ==
    c1 :> (t1 :> {"pause", "stop", "deinit"})
    @@ c2 :> (t1 :> {"start", "submit", "submitOnce", "wait", "priority"})

(* task_live: one thread starts, halts and puts off, the other submits.     *)
LiveOps ==
    c1 :> (t1 :> {"start", "pause", "stop"} @@ t2 :> {"start", "pause", "delay"})
    @@ c2 :> (t1 :> {"submit", "submitOnce"} @@ t2 :> {})
=============================================================================
