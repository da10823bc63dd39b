-------------------------- MODULE AVSharedMemoryPool --------------------------
(***************************************************************************)
(* src/common/avsharedmemorypool.cpp: a pool of shared memory blocks.       *)
(*                                                                          *)
(* Every method runs under mutex_; one action models one section.           *)
(* AcquireMemory gives the mutex up only in cond_.wait, and ReleaseMemory   *)
(* reads notifier_ after it has unlocked.  A block is released when its     *)
(* last shared_ptr goes, so a holder is one reference.                      *)
(***************************************************************************)
EXTENDS Integers, Sequences, FiniteSets, SequencesExt, FiniteSetsExt

CONSTANTS
    Callers,        \* threads that use the pool
    Blocks,         \* names of the AVSharedMemoryBase objects
    Sizes,          \* sizes the callers ask for
    Options,        \* the InitializeOptions: [pre, size, max, fixed]
    MaxInits,       \* bound on the calls of Init
    MaxFails        \* bound on the allocations that fail

(* AVSharedMemoryBase::Init refuses a size of 0, so such options are left out. *)
ASSUME PoolAssumption ==
    /\ IsFiniteSet(Blocks)
    /\ Sizes \subseteq Nat \ {0}
    /\ Options \subseteq [pre : Nat, size : Nat \ {0}, max : Nat, fixed : BOOLEAN]
    /\ MaxInits \in Nat /\ MaxFails \in Nat

VARIABLES
    pool,           \* the fields of AVSharedMemoryPool
    sizeOf,         \* size of each block, 0 for one that does not exist
    frame,          \* the call each caller is in
    held,           \* the blocks each caller has a reference to
    inits,          \* number of calls of Init
    fails           \* number of allocations that failed

vars == <<pool, sizeOf, frame, held, inits, fails>>

NoOption == [pre |-> 0, size |-> 0, max |-> 0, fixed |-> TRUE]

(* `since` is the Init in force when the caller went to sleep.              *)
Idle == [at |-> "idle", size |-> 0, since |-> 0]

Init ==
    /\ pool = [alive |-> TRUE, inited |-> FALSE, option |-> NoOption, idle |-> <<>>,
               busy |-> {}, nonBlocking |-> FALSE, notifier |-> FALSE]
    /\ sizeOf = [b \in Blocks |-> 0]
    /\ frame = [c \in Callers |-> Idle]
    /\ held = [c \in Callers |-> {}]
    /\ inits = 0
    /\ fails = 0

Live == {b \in Blocks : sizeOf[b] # 0}

Total == Len(pool.idle) + Cardinality(pool.busy)

(* n names that are not in use.                                             *)
Fresh(n) == SubSeq(SetToSeq(Blocks \ Live), 1, n)

(* Frames after notify_all: every sleeper is woken.                         *)
Notified(fr) == [c \in Callers |-> IF fr[c].at = "wait" THEN [fr[c] EXCEPT !.at = "woken"] ELSE fr[c]]

Fails(failed) ==
    /\ failed => fails < MaxFails
    /\ fails' = fails + IF failed THEN 1 ELSE 0
-----------------------------------------------------------------------------
(* The blocks of one size are allocated one by one; when one cannot be, the
   blocks before it stay in idleList_ and the pool is not initialised.      *)
PoolInit(o) ==
    LET want == IF o.pre <= o.max THEN o.pre ELSE o.max
    IN /\ pool.alive /\ ~pool.inited /\ inits < MaxInits /\ o.max > 0
       /\ inits' = inits + 1
       /\ \E n \in 0..want :
             /\ n <= Cardinality(Blocks \ Live)
             /\ Fails(n < want)
             /\ sizeOf' = [b \in Blocks |-> IF b \in ToSet(Fresh(n)) THEN o.size ELSE sizeOf[b]]
             /\ pool' = [pool EXCEPT !.option = [o EXCEPT !.pre = want], !.idle = @ \o Fresh(n),
                                     !.inited = (n = want), !.notifier = @ \/ (n = want)]
       /\ UNCHANGED <<frame, held>>
-----------------------------------------------------------------------------
(* AcquireMemory.                                                           *)

(* CheckSize: -1 asks a pool of fixed size for a block of its size.         *)
CheckSize(size) ==
    IF pool.option.fixed THEN size = -1 \/ size \in 1..pool.option.size ELSE size > 0

Fitting(size) == {i \in DOMAIN pool.idle : sizeOf[pool.idle[i]] >= size}

(* The first of the smallest idle blocks.                                   *)
SmallestIdle ==
    Min({i \in DOMAIN pool.idle :
            \A j \in DOMAIN pool.idle : sizeOf[pool.idle[i]] <= sizeOf[pool.idle[j]]})

(* DoAcquireMemory finds nothing and may not allocate either.               *)
Exhausted(size) ==
    /\ Fitting(size) = {}
    /\ Total >= pool.option.max
    /\ pool.option.fixed \/ pool.idle = <<>>

HandsOut(c, b, p) ==
    /\ pool' = [p EXCEPT !.busy = @ \cup {b}]
    /\ held' = [held EXCEPT ![c] = @ \cup {b}]
    /\ frame' = [frame EXCEPT ![c] = Idle]

ReturnsNull(c, p) ==
    /\ pool' = p
    /\ frame' = [frame EXCEPT ![c] = Idle]
    /\ UNCHANGED held

(* First fit.                                                               *)
TakeIdle(c, size) ==
    /\ Fitting(size) # {}
    /\ LET i == Min(Fitting(size))
       IN HandsOut(c, pool.idle[i], [pool EXCEPT !.idle = RemoveAt(@, i)])
    /\ UNCHANGED <<sizeOf, fails>>

(* A new block; `gone` is what was deleted to make room for it.             *)
Allocate(c, size, p, gone) ==
    \E failed \in BOOLEAN :
       /\ Fails(failed)
       /\ \/ /\ failed
             /\ sizeOf' = [b \in Blocks |-> IF b \in gone THEN 0 ELSE sizeOf[b]]
             /\ ReturnsNull(c, p)
          \/ /\ ~failed /\ Live # Blocks
             /\ sizeOf' = [b \in Blocks |-> IF b = Fresh(1)[1] THEN size
                                            ELSE IF b \in gone THEN 0 ELSE sizeOf[b]]
             /\ HandsOut(c, Fresh(1)[1], p)

GrowPool(c, size) ==
    /\ Fitting(size) = {} /\ Total < pool.option.max
    /\ Allocate(c, size, pool, {})

(* The smallest idle block is deleted before the new one is allocated.      *)
ReplaceSmallest(c, size) ==
    /\ Fitting(size) = {} /\ Total >= pool.option.max
    /\ ~pool.option.fixed /\ pool.idle # <<>>
    /\ Allocate(c, size, [pool EXCEPT !.idle = RemoveAt(@, SmallestIdle)], {pool.idle[SmallestIdle]})

WaitOrFail(c, size, blocking) ==
    /\ Exhausted(size)
    /\ \/ /\ ~blocking \/ pool.nonBlocking
          /\ ReturnsNull(c, pool)
       \/ /\ blocking /\ ~pool.nonBlocking
          /\ frame' = [frame EXCEPT ![c] = [@ EXCEPT !.at = "wait", !.size = size, !.since = inits]]
          /\ UNCHANGED <<pool, held>>
    /\ UNCHANGED <<sizeOf, fails>>

DoAcquireMemory(c, size, blocking) ==
    \/ TakeIdle(c, size) \/ GrowPool(c, size) \/ ReplaceSmallest(c, size)
    \/ WaitOrFail(c, size, blocking)

(* A caller uses the pool once Init has been called, whatever it returned.  *)
AcquireMemory(c, size, blocking) ==
    /\ pool.alive /\ inits > 0
    /\ frame[c].at = "idle"
    /\ CheckSize(size)
    /\ DoAcquireMemory(c, IF pool.option.fixed THEN pool.option.size ELSE size, blocking)
    /\ UNCHANGED inits

SpuriousWakeup(c) ==
    /\ frame[c].at = "wait"
    /\ frame' = [frame EXCEPT ![c].at = "woken"]
    /\ UNCHANGED <<pool, sizeOf, held, inits, fails>>

(* The loop goes on only in an initialised pool that may block.             *)
Retry(c) ==
    /\ frame[c].at = "woken"
    /\ \/ /\ pool.inited /\ ~pool.nonBlocking
          /\ DoAcquireMemory(c, frame[c].size, TRUE)
       \/ /\ ~pool.inited \/ pool.nonBlocking
          /\ ReturnsNull(c, pool)
          /\ UNCHANGED <<sizeOf, fails>>
    /\ UNCHANGED inits
-----------------------------------------------------------------------------
(* Variant of ReleaseMemory that wakes nobody when there is a notifier.     *)
ReleaseMemorySilently(c, b) ==
    /\ b \in held[c] /\ pool.alive /\ frame[c].at = "idle"
    /\ held' = [held EXCEPT ![c] = @ \ {b}]
    /\ pool' = [pool EXCEPT !.busy = @ \ {b}, !.idle = Append(@, b)]
    /\ frame' = [IF pool.notifier THEN frame ELSE Notified(frame) EXCEPT ![c].at = "release"]
    /\ UNCHANGED <<sizeOf, inits, fails>>

(* The last reference to b goes.  A block the pool does not know is deleted. *)
ReleaseMemory(c, b) ==
    /\ b \in held[c] /\ pool.alive /\ frame[c].at = "idle"
    /\ held' = [held EXCEPT ![c] = @ \ {b}]
    /\ pool' = [pool EXCEPT !.busy = @ \ {b}, !.idle = IF b \in pool.busy THEN Append(@, b) ELSE @]
    /\ sizeOf' = IF b \in pool.busy THEN sizeOf ELSE [sizeOf EXCEPT ![b] = 0]
    /\ frame' = IF b \in pool.busy THEN [Notified(frame) EXCEPT ![c].at = "release"] ELSE frame
    /\ UNCHANGED <<inits, fails>>

(* notifier_ is tested and called without the lock: one that Reset clears in
   between ends the process (the deleter of a shared_ptr may not throw).    *)
Notify(c) ==
    /\ \/ /\ frame[c].at = "release"
          /\ frame' = [frame EXCEPT ![c].at = IF pool.notifier THEN "call" ELSE "idle"]
       \/ /\ frame[c].at = "call"
          /\ frame' = [frame EXCEPT ![c].at = IF pool.notifier THEN "idle" ELSE "terminated"]
    /\ UNCHANGED <<pool, sizeOf, held, inits, fails>>

(* Variant of SetNonBlocking that does not wake the sleepers.               *)
SetNonBlockingSilently(enable) ==
    /\ pool.alive /\ enable # pool.nonBlocking
    /\ pool' = [pool EXCEPT !.nonBlocking = enable]
    /\ UNCHANGED <<frame, sizeOf, held, inits, fails>>

SetNonBlocking(enable) ==
    /\ pool.alive /\ enable # pool.nonBlocking
    /\ pool' = [pool EXCEPT !.nonBlocking = enable]
    /\ frame' = IF enable THEN Notified(frame) ELSE frame
    /\ UNCHANGED <<sizeOf, held, inits, fails>>

(* Variant of Emptied that also forgets the blocks that are out.            *)
EmptiedOfBusy(p) ==
    [p EXCEPT !.idle = <<>>, !.busy = {}, !.inited = FALSE, !.nonBlocking = FALSE, !.notifier = FALSE]

(* The idle blocks go; option_ and busyList_ stay.                          *)
Emptied(p) ==
    [p EXCEPT !.idle = <<>>, !.inited = FALSE, !.nonBlocking = FALSE, !.notifier = FALSE]

Reset ==
    /\ pool.alive
    /\ sizeOf' = [b \in Blocks |-> IF b \in ToSet(pool.idle) THEN 0 ELSE sizeOf[b]]
    /\ pool' = Emptied(pool)
    /\ frame' = Notified(frame)
    /\ UNCHANGED <<held, inits, fails>>

(* The last reference to the pool goes, outside any call: ~AVSharedMemoryPool
   is Reset, and blocks that are out are deleted by their holders.          *)
Destroy ==
    /\ pool.alive /\ \A c \in Callers : frame[c].at = "idle"
    /\ sizeOf' = [b \in Blocks |-> IF b \in ToSet(pool.idle) THEN 0 ELSE sizeOf[b]]
    /\ pool' = [Emptied(pool) EXCEPT !.alive = FALSE, !.busy = {}]
    /\ UNCHANGED <<frame, held, inits, fails>>

DropMemory(c, b) ==
    /\ b \in held[c] /\ ~pool.alive
    /\ held' = [held EXCEPT ![c] = @ \ {b}]
    /\ sizeOf' = [sizeOf EXCEPT ![b] = 0]
    /\ UNCHANGED <<pool, frame, inits, fails>>
-----------------------------------------------------------------------------
CallerStep(c) == Retry(c) \/ Notify(c)

Next ==
    \/ \E o \in Options : PoolInit(o)
    \/ \E c \in Callers :
          \/ \E size \in Sizes \cup {-1}, blocking \in BOOLEAN : AcquireMemory(c, size, blocking)
          \/ \E b \in held[c] : ReleaseMemory(c, b) \/ DropMemory(c, b)
          \/ SpuriousWakeup(c) \/ CallerStep(c)
    \/ \E enable \in BOOLEAN : SetNonBlocking(enable)
    \/ Reset \/ Destroy

Spec == Init /\ [][Next]_vars
-----------------------------------------------------------------------------
(* Properties.                                                              *)

PoolStates ==
    [alive : BOOLEAN, inited : BOOLEAN, idle : Seq(Blocks), busy : SUBSET Blocks,
     option : [pre : Nat, size : Nat, max : Nat, fixed : BOOLEAN],
     nonBlocking : BOOLEAN, notifier : BOOLEAN]

FramesUpTo(n) ==
    [at : {"idle", "wait", "woken", "release", "call", "terminated"}, size : Nat, since : 0..n]

TypeOK ==
    /\ pool \in PoolStates
    /\ sizeOf \in [Blocks -> Nat] /\ held \in [Callers -> SUBSET Blocks]
    /\ frame \in [Callers -> FramesUpTo(inits)]
    /\ inits \in Nat /\ fails \in Nat

(* No block leaks, is freed while somebody refers to it or has two owners,
   through every Reset, failed Init and destruction: the blocks that exist are
   those in idleList_, once each, and those the callers hold, which are exactly
   busyList_ as long as there is a pool (avsharedmemorypool.cpp:81 and :224). *)
BlocksAccounted ==
    /\ \A i, j \in DOMAIN pool.idle : pool.idle[i] = pool.idle[j] => i = j
    /\ \A c, d \in Callers : c # d => held[c] \cap held[d] = {}
    /\ Live = ToSet(pool.idle) \cup UNION {held[c] : c \in Callers}
    /\ ToSet(pool.idle) \cap UNION {held[c] : c \in Callers} = {}
    /\ pool.alive => pool.busy = UNION {held[c] : c \in Callers}

(* A caller sleeps in AcquireMemory only while nothing fits and the pool may
   not allocate: cond_.wait has no predicate, so every step that makes room
   has to wake the sleepers (avsharedmemorypool.cpp:94 and :194).  A sleeper
   from before an Init is not meant: Init wakes nobody.                     *)
SleepsOnlyWhenExhausted ==
    \A c \in Callers : frame[c].at = "wait" /\ frame[c].since = inits => Exhausted(frame[c].size)

(* Once the pool is made non-blocking a sleeper returns, unless blocking is
   allowed again first (avsharedmemorypool.cpp:214).                        *)
UnblockedReturn ==
    \A c \in Callers :
       (frame[c].at \in {"wait", "woken"} /\ pool.nonBlocking)
           ~> (frame[c].at \notin {"wait", "woken"} \/ ~pool.nonBlocking)
=============================================================================
