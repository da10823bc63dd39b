------------------------ MODULE MCAVSharedMemoryPool ------------------------
(***************************************************************************)
(* An instance of AVSharedMemoryPool for TLC: a pool that grows from one    *)
(* block of size 1 to two of any size, and one of fixed size that wants     *)
(* more blocks in advance than it may have.                                 *)
(***************************************************************************)
EXTENDS AVSharedMemoryPool

MCOptions ==
    {[pre |-> 1, size |-> 1, max |-> 2, fixed |-> FALSE],
     [pre |-> 2, size |-> 2, max |-> 1, fixed |-> TRUE]}

(* A thread that was woken, or is about to call the notifier, goes on.      *)
FairSpec == Spec /\ \A c \in Callers : WF_vars(CallerStep(c))
=============================================================================
