--------------------- MODULE AVBufferQueueResultProofs ---------------------
(***************************************************************************)
(* What the moves of AVBufferQueueStepProofs imply: the invariants of the    *)
(* queue that depend on sizes, capacities, memory types and waiting threads, *)
(* and the refinement of BufferExchange.                                     *)
(***************************************************************************)
EXTENDS AVBufferQueueStepProofs
-----------------------------------------------------------------------------
(* The memory type                                                          *)

MInv == IInv /\ WaitersTyped /\ OneMemoryType

\* A buffer of the next state was there before and keeps its capacity and its
\* memory type, or it is new and has the memory type of the queue.
LEMMA BuffersKept ==
    ASSUME Moves
    PROVE  \A i \in DOMAIN queue'.cached :
              \/ /\ i \in DOMAIN queue.cached
                 /\ queue'.cached[i].mem = queue.cached[i].mem
                 /\ queue'.cached[i].cap = queue.cached[i].cap
              \/ queue'.cached[i].mem = queue'.memoryType
  <1> DEFINE K(i) ==
              \/ /\ i \in DOMAIN queue.cached
                 /\ queue'.cached[i].mem = queue.cached[i].mem
                 /\ queue'.cached[i].cap = queue.cached[i].cap
              \/ queue'.cached[i].mem = queue'.memoryType
  <1>1. ASSUME NEW id, NEW s, Changed(queue, queue', id, s) PROVE \A i \in DOMAIN queue'.cached : K(i)
    BY <1>1 DEF Changed, Alike
  <1>2. CASE StillStep \/ DropStep \/ RemoveStep
    BY <1>2 DEF StillStep, Still, DropStep, Dropped, RemoveStep, Removed
  <1>3. CASE TrimStep
    BY <1>3 DEF TrimStep, Trimmed
  <1>4. CASE AllocStep
    BY <1>4 DEF AllocStep, NewBuffer, Added
  <1>5. CASE AdoptStep
    <2>0. PICK x : \E f, d \in Nat, id \in Ids, e \in Elements : Adopted(x, f, d, id, e)
      BY <1>5 DEF AdoptStep
    <2>1. PICK f, d \in Nat, id \in Ids, e \in Elements : Adopted(x, f, d, id, e)
      BY <2>0
    <2>2. /\ DOMAIN x.cached \subseteq DOMAIN queue.cached
          /\ \A i \in DOMAIN x.cached :
                x.cached[i].cap = queue.cached[i].cap /\ x.cached[i].mem = queue.cached[i].mem
      BY <2>1 DEF Adopted, Trimmed
    <2>3. QED
      BY <2>1, <2>2 DEF Adopted, NewBuffer, Added
  <1>6. CASE ReplaceStep
    <2>0. PICK x : \E at \in Nat, id \in Ids, e \in Elements : Replaced(x, at, id, e)
      BY <1>6 DEF ReplaceStep
    <2>1. PICK at \in Nat, id \in Ids, e \in Elements : Replaced(x, at, id, e)
      BY <2>0
    <2>2. QED
      BY <2>1 DEF Replaced, Dropped, NewBuffer, Added
  <1>7. CASE ReuseStep
    BY <1>1, <1>7 DEF ReuseStep, Reused
  <1>8. CASE PushStep \/ PassStep
    BY <1>1, <1>8 DEF PushStep, PassStep, Passed
  <1>9. CASE FillStep \/ FreeStep \/ TakeStep
    BY <1>1, <1>9 DEF FillStep, Filled, FreeStep, Freed, TakeStep, Taken
  <1>10. QED
    BY <1>2, <1>3, <1>4, <1>5, <1>6, <1>7, <1>8, <1>9 DEF Moves

\* The queue has a memory type before it has buffers or waiting requests.
LEMMA TypeSettled ==
    ASSUME MInv, Settles
    PROVE  /\ \A t \in Threads : calls[t].pc \in Waiting => queue'.memoryType = queue.memoryType
           /\ \A i \in DOMAIN queue.cached : queue'.memoryType = queue.cached[i].mem
  <1>1. \A t \in Threads : calls[t].pc \in Waiting => calls[t].req.mem \in MemoryTypes
    BY DEF MInv, IInv, CallsOk, FrameOk
  <1>2. \A i \in DOMAIN queue.cached : queue.cached[i].mem \in MemoryTypes
    BY DEF MInv, IInv, QueueOk, Real
  <1>3. QED
    BY <1>1, <1>2, TypesAssumption DEF MInv, WaitersTyped, OneMemoryType, Settles, Cached

\* MInv is inductive.
LEMMA MInvHolds ==
    ASSUME CalmClients
    PROVE  Spec => []MInv
  <1>1. Init => MInv
    <2> SUFFICES ASSUME Init PROVE MInv
      OBVIOUS
    <2>1. IInv
      BY InitOk
    <2>2. WaitersTyped
      BY DEF Init, WaitersTyped, Idle, Waiting
    <2>3. OneMemoryType
      BY DEF Init, OneMemoryType, Cached
    <2>4. QED
      BY <2>1, <2>2, <2>3 DEF MInv
  <1>2. MInv /\ [Next]_vars => MInv'
    <2> SUFFICES ASSUME MInv, [Next]_vars PROVE MInv'
      OBVIOUS
    <2>1. IInv' /\ Moves /\ Settles
      BY NextOk, NextMoves DEF MInv
    <2>2. WaitersTyped'
      BY <2>1, TypeSettled DEF MInv, WaitersTyped, Settles
    <2>3. OneMemoryType'
      BY <2>1, BuffersKept, TypeSettled DEF OneMemoryType, Cached
    <2>4. QED
      BY <2>1, <2>2, <2>3 DEF MInv
  <1>3. QED
    BY <1>1, <1>2, PTL DEF Spec

\* Whatever the clients ask for and attach, and although a blocked request was
\* checked before others settled the type, all buffers of the queue have the
\* one memory type it has settled on.
THEOREM MemoryTypeIsUnique ==
    ASSUME CalmClients
    PROVE  Spec => []OneMemoryType
  <1>1. MInv => OneMemoryType
    BY DEF MInv
  <1>2. QED
    BY <1>1, MInvHolds, PTL
-----------------------------------------------------------------------------
(* The size                                                                 *)

\* A step that adds a buffer adds one within the size.
LEMMA StepGrowsWithinSize ==
    ASSUME IInv, Moves
    PROVE  Count(queue') > Count(queue) => Count(queue') <= queue'.size
  <1>1. QueueOk(queue) /\ Count(queue) \in Nat /\ queue.size \in Nat
    BY CountType DEF IInv, QueueOk, QueueType, Count
  <1>2. CASE StillStep
    BY <1>1, <1>2 DEF StillStep, Still, Count, GetCachedBufferCount
  <1>3. CASE TrimStep
    <2>1. PICK f \in Nat, d \in Nat : Trimmed(queue, queue', f, d)
      BY <1>3 DEF TrimStep
    <2>2. Count(queue') = Count(queue) - (f + d)
      BY <1>1, <2>1, TrimCounts DEF Count
    <2>3. QED
      BY <1>1, <2>2
  <1>4. CASE AdoptStep
    BY <1>4 DEF AdoptStep, Adopted
  <1>5. CASE AllocStep
    <2>1. PICK id \in Ids, e \in Elements : Added(queue, queue', id, e)
      BY <1>5 DEF AllocStep, NewBuffer
    <2>2. Count(queue') = Count(queue) + 1
      BY <1>1, <2>1, MoveCounts DEF Count
    <2>3. QED
      BY <1>1, <1>5, <2>2 DEF AllocStep
  <1>6. CASE ReplaceStep
    <2>0. PICK x : \E at \in Nat, id \in Ids, e \in Elements : Replaced(x, at, id, e)
      BY <1>6 DEF ReplaceStep
    <2>1. PICK at \in Nat, id \in Ids, e \in Elements : Replaced(x, at, id, e)
      BY <2>0
    <2>2. QueueOk(x) /\ Dropped(queue, x, at) /\ Added(x, queue', id, e)
      BY <2>1 DEF Replaced, NewBuffer
    <2>3. Count(x) = Count(queue) - 1
      BY <1>1, <2>2, MoveCounts DEF Count
    <2>4. Count(queue') = Count(x) + 1
      BY <2>2, MoveCounts DEF Count
    <2>5. QED
      BY <1>1, <2>3, <2>4
  <1>7. CASE DropStep
    <2>1. PICK at \in Nat : Dropped(queue, queue', at)
      BY <1>7 DEF DropStep
    <2>2. Count(queue') = Count(queue) - 1
      BY <1>1, <2>1, MoveCounts DEF Count
    <2>3. QED
      BY <1>1, <2>2
  <1>8. CASE RemoveStep
    <2>1. PICK id \in Ids : Removed(queue, queue', id)
      BY <1>8 DEF RemoveStep
    <2>2. Count(queue') = Count(queue) - 1
      BY <1>1, <2>1, MoveCounts DEF Count
    <2>3. QED
      BY <1>1, <2>2
  <1>9. CASE \E id, s : Changed(queue, queue', id, s)
    <2>1. Count(queue') = Count(queue)
      BY <1>9 DEF Changed, Count, GetCachedBufferCount
    <2>2. QED
      BY <1>1, <2>1
  <1>10. ReuseStep \/ PushStep \/ PassStep \/ FillStep \/ FreeStep \/ TakeStep =>
            \E id, s : Changed(queue, queue', id, s)
    BY DEF ReuseStep, Reused, PushStep, PassStep, Passed, FillStep, Filled, FreeStep, Freed,
           TakeStep, Taken
  <1>11. QED
    BY <1>2, <1>3, <1>4, <1>5, <1>6, <1>7, <1>8, <1>9, <1>10 DEF Moves

\* Whatever RequestBuffer, AttachBuffer and SetQueueSize do between the two
\* sections of other calls, the map never grows beyond the size of the queue.
THEOREM QueueGrowsWithinSize ==
    ASSUME CalmClients
    PROVE  Spec => GrowsWithinSize
  <1>1. MInv /\ [Next]_vars =>
          [GetCachedBufferCount(queue') > GetCachedBufferCount(queue)
             => GetCachedBufferCount(queue') <= queue'.size]_vars
    BY NextMoves, StepGrowsWithinSize DEF MInv, Count
  <1>2. QED
    BY <1>1, MInvHolds, PTL DEF Spec, GrowsWithinSize
-----------------------------------------------------------------------------
(* The capacities                                                           *)

\* The buffers a trim deletes are listed, so nobody holds them.
LEMMA TrimKeepsOwned ==
    ASSUME NEW q, QueueOk(q), NEW x, NEW f, NEW d, Trimmed(q, x, f, d),
           NEW i, Owned(q, i)
    PROVE  i \in DOMAIN x.cached
  <1>1. /\ q.free \in Seq(Ids) /\ q.dirty \in Seq(Ids) /\ IsInjective(q.free) /\ IsInjective(q.dirty)
        /\ f \in 0 .. Len(q.free) /\ d \in 0 .. Len(q.dirty)
    BY DEF QueueOk, QueueType, ListsOk, Trimmed
  <1>2. ToSet(SubSeq(q.free, 1, f)) \subseteq ToSet(q.free)
    BY <1>1, CutProperties
  <1>3. ToSet(SubSeq(q.dirty, 1, d)) \subseteq ToSet(q.dirty)
    BY <1>1, CutProperties
  <1>4. i \notin ToSet(q.free) /\ i \notin ToSet(q.dirty) /\ i \in DOMAIN q.cached
    BY DEF QueueOk, ListsOk, InState, Owned, OwnerStates
  <1>5. QED
    BY <1>2, <1>3, <1>4 DEF Trimmed

\* The free buffer at a place of the list is RELEASED.
LEMMA FreeIsReleased ==
    ASSUME NEW q, QueueOk(q), NEW at \in 1 .. Len(q.free)
    PROVE  q.free[at] \in DOMAIN q.cached /\ q.cached[q.free[at]].state = "RELEASED"
  <1>1. q.free[at] \in ToSet(q.free)
    BY ToSetElements DEF QueueOk, QueueType
  <1>2. QED
    BY <1>1 DEF QueueOk, ListsOk, InState

SameConfig(e, f) == e.cap = f.cap /\ e.mem = f.mem /\ e.form = f.form

\* What the producer holds keeps its configuration as long as it is in the map.
LEMMA HeldKeepConfig ==
    ASSUME IInv, Moves
    PROVE  \A i \in prodHeld :
              i \in DOMAIN queue'.cached => SameConfig(queue'.cached[i], queue.cached[i])
  <1>1. QueueOk(queue) /\ \A i \in prodHeld : Owned(queue, i) /\ queue.cached[i].state = "REQUESTED"
    BY DEF IInv, InState, Owned, OwnerStates
  <1>2. CASE \E id, s : Changed(queue, queue', id, s)
    BY <1>2 DEF Changed, Alike, SameConfig
  <1>3. CASE StillStep \/ DropStep \/ RemoveStep
    BY <1>3 DEF StillStep, Still, DropStep, Dropped, RemoveStep, Removed, SameConfig
  <1>4. CASE TrimStep
    BY <1>4 DEF TrimStep, Trimmed, SameConfig
  <1>5. CASE AllocStep
    BY <1>1, <1>5 DEF AllocStep, NewBuffer, Added, Owned, SameConfig
  <1>6. CASE AdoptStep
    <2>1. PICK x : \E f, d \in Nat, id \in Ids, e \in Elements : Adopted(x, f, d, id, e)
      BY <1>6 DEF AdoptStep
    <2>2. PICK f, d \in Nat, id \in Ids, e \in Elements : Adopted(x, f, d, id, e)
      BY <2>1
    <2>3. Trimmed(queue, x, f, d) /\ Added(x, queue', id, e)
      BY <2>2 DEF Adopted, NewBuffer
    <2>4. \A i \in prodHeld : i \in DOMAIN x.cached
      BY <1>1, <2>3, TrimKeepsOwned
    <2>5. QED
      BY <2>3, <2>4 DEF Trimmed, Added, SameConfig
  <1>7. CASE ReplaceStep
    <2>1. PICK x : \E at \in Nat, id \in Ids, e \in Elements : Replaced(x, at, id, e)
      BY <1>7 DEF ReplaceStep
    <2>2. PICK at \in Nat, id \in Ids, e \in Elements : Replaced(x, at, id, e)
      BY <2>1
    <2>3. Dropped(queue, x, at) /\ Added(x, queue', id, e) /\ at \in 1 .. Len(queue.free)
      BY <2>2 DEF Replaced, NewBuffer, Dropped
    <2>4. queue.cached[queue.free[at]].state = "RELEASED"
      BY <1>1, <2>3, FreeIsReleased
    <2>5. \A i \in prodHeld : i \in DOMAIN x.cached
      BY <1>1, <2>3, <2>4 DEF Dropped, Owned
    <2>6. QED
      BY <2>3, <2>5 DEF Dropped, Added, SameConfig
  <1>8. ReuseStep \/ PushStep \/ PassStep \/ FillStep \/ FreeStep \/ TakeStep =>
            \E id, s : Changed(queue, queue', id, s)
    BY DEF ReuseStep, Reused, PushStep, PassStep, Passed, FillStep, Filled, FreeStep, Freed,
           TakeStep, Taken
  <1>9. QED
    BY <1>2, <1>3, <1>4, <1>5, <1>6, <1>7, <1>8 DEF Moves

\* Memory is allocated for the configured capacity at least.
LEMMA ReservedCovers ==
    ASSUME NEW e \in Elements
    PROVE  e.cap \in Nat /\ e.form.align \in Nat /\ Reserved(e) \in Nat /\ e.cap <= Reserved(e)
  <1>1. e.cap \in Nat /\ e.form.align \in Nat
    BY FormsAssumption DEF Elements, NoForm
  <1>2. \A c \in Nat, a \in Nat \ {0} :
           ((c + a - 1) \div a) * a \in Nat /\ c <= ((c + a - 1) \div a) * a
    OBVIOUS
  <1> DEFINE c == e.cap
             a == e.form.align
             up == ((c + a - 1) \div a) * a
  <1>3. \/ Reserved(e) = c
        \/ a \in Nat \ {0} /\ Reserved(e) = up
    BY <1>1 DEF Reserved
  <1>4. a \in Nat \ {0} => up \in Nat /\ c <= up
    BY <1>1, <1>2
  <1> HIDE DEF up
  <1>5. QED
    BY <1>1, <1>3, <1>4

\* What operator<= accepts serves the request.
LEMMA FitServes ==
    ASSUME NEW e \in Elements, NEW req \in Requests, Fits(req, e)
    PROVE  Serves(e, req)
  <1>1. e.cap \in Nat /\ e.form.align \in Nat /\ Reserved(e) \in Nat /\ e.cap <= Reserved(e)
    BY ReservedCovers
  <1>2. req.size \in Nat
    BY SizesAssumption DEF Requests
  <1>3. QED
    BY <1>1, <1>2 DEF Fits, Serves

\* A buffer made to measure serves its request.
LEMMA MadeServes ==
    ASSUME NEW e \in Elements
    PROVE  Serves(e, RequestFor(e))
  <1>1. e.cap \in Nat /\ e.form.align \in Nat /\ Reserved(e) \in Nat /\ e.cap <= Reserved(e)
    BY ReservedCovers
  <1>2. QED
    BY <1>1 DEF Serves, RequestFor, MayUse

\* What a buffer serves is settled by its configuration.
LEMMA ConfigServes ==
    ASSUME NEW e, NEW f, SameConfig(e, f), NEW req, Serves(e, req)
    PROVE  Serves(f, req)
  BY DEF SameConfig, Serves, Reserved, MayUse

Suits(i) == Serves(queue.cached[i], wanted[i])

\* What a step hands to the producer suits it; what it held already it still wants.
LEMMA GivenSuits ==
    ASSUME IInv, IInv', Moves
    PROVE  \A i \in prodHeld' : \/ i \in prodHeld /\ wanted'[i] = wanted[i]
                                \/ Suits(i)'
  <1>1. QueueOk(queue) /\ wanted \in [Ids -> Requests \cup {NoRequest}] /\ prodHeld \subseteq Ids
    BY DEF IInv, TypeOK
  <1>2. ASSUME NEW id \in Ids, NEW req, Given(id, req), Serves(queue'.cached[id], req)
        PROVE  \A i \in prodHeld' : (i \in prodHeld /\ wanted'[i] = wanted[i]) \/ Suits(i)'
    BY <1>1, <1>2 DEF Given, Suits
  <1>3. CASE SameHeld
    BY <1>3 DEF SameHeld
  <1>4. CASE AllocStep
    <2>1. PICK id \in Ids, e \in Elements :
              NewBuffer(queue, id, e, "REQUESTED") /\ Given(id, RequestFor(e))
      BY <1>4 DEF AllocStep
    <2>2. queue'.cached[id] = e
      BY <2>1 DEF NewBuffer, Added
    <2>3. QED
      BY <1>2, <2>1, <2>2, MadeServes
  <1>5. CASE ReplaceStep
    <2>1. PICK x : \E at \in Nat, id \in Ids, e \in Elements : Replaced(x, at, id, e)
      BY <1>5 DEF ReplaceStep
    <2>2. PICK at \in Nat, id \in Ids, e \in Elements : Replaced(x, at, id, e)
      BY <2>1
    <2>3. queue'.cached[id] = e /\ Given(id, RequestFor(e))
      BY <2>2 DEF Replaced, NewBuffer, Added
    <2>4. QED
      BY <1>2, <2>3, MadeServes
  <1>6. CASE ReuseStep
    <2>1. PICK at \in Nat, req \in Requests :
              /\ Reused(queue, queue', at)
              /\ Fits(req, queue.cached[queue.free[at]])
              /\ Given(queue.free[at], req)
      BY <1>6 DEF ReuseStep
    <2> DEFINE id == queue.free[at]
    <2>2. Changed(queue, queue', id, "REQUESTED")
      BY <2>1 DEF Reused
    <2>3. id \in Ids /\ queue.cached[id] \in Elements
      BY <1>1, <2>2 DEF Changed, QueueOk, QueueType
    <2>4. Serves(queue.cached[id], req)
      BY <2>1, <2>3, FitServes
    <2>5. SameConfig(queue.cached[id], queue'.cached[id])
      BY <2>2 DEF Changed, Alike, SameConfig
    <2> HIDE DEF id
    <2>6. Serves(queue'.cached[id], req)
      BY <2>4, <2>5, ConfigServes
    <2>7. QED
      BY <1>2, <2>1, <2>3, <2>6 DEF id
  <1>7. CASE PushStep \/ RemoveStep
    <2>1. PICK id \in Ids : /\ prodHeld' = prodHeld \ {id}
                            /\ wanted' = wanted \/ wanted' = [wanted EXCEPT ![id] = NoRequest]
      BY <1>7 DEF PushStep, RemoveStep
    <2>2. QED
      BY <1>1, <2>1
  <1>8. QED
    BY <1>3, <1>4, <1>5, <1>6, <1>7
    DEF Moves, StillStep, TrimStep, AdoptStep, DropStep, PassStep, FillStep, FreeStep, TakeStep

\* Whatever sizes, rights, layouts and alignments the clients ask for, a buffer
\* the producer holds serves its request, short by less than its alignment at
\* most: the first fit fits, a replacement is made to measure, and no other call
\* resizes or replaces a buffer that is held.
THEOREM RequestsStayFitted ==
    ASSUME CalmClients
    PROVE  Spec => []RequestFits
  <1>1. RequestFits <=> \A i \in prodHeld : Suits(i)
    BY DEF RequestFits, Suits
  <1>2. Init => RequestFits
    BY DEF Init, RequestFits
  <1>3. MInv /\ MInv' /\ RequestFits /\ [Next]_vars => RequestFits'
    <2> SUFFICES ASSUME MInv, MInv', \A i \in prodHeld : Suits(i), [Next]_vars
                 PROVE  \A i \in prodHeld' : Suits(i)'
      BY DEF RequestFits, Suits
    <2>1. IInv /\ IInv' /\ Moves
      BY NextMoves DEF MInv
    <2>2. \A i \in prodHeld' : i \in DOMAIN queue'.cached
      BY <2>1 DEF IInv, InState
    <2>3. ASSUME NEW i \in prodHeld', i \in prodHeld, wanted'[i] = wanted[i]
          PROVE  Suits(i)'
      <3>1. SameConfig(queue.cached[i], queue'.cached[i])
        BY <2>1, <2>2, <2>3, HeldKeepConfig DEF SameConfig
      <3>2. Serves(queue.cached[i], wanted[i])
        BY <2>3 DEF Suits
      <3>3. Serves(queue'.cached[i], wanted[i])
        BY <3>1, <3>2, ConfigServes
      <3>4. QED
        BY <2>3, <3>3 DEF Suits
    <2>4. QED
      BY <2>1, <2>3, GivenSuits
  <1>4. QED
    BY <1>2, <1>3, MInvHolds, PTL DEF Spec
-----------------------------------------------------------------------------
(* Blocked producers                                                        *)

\* The clients whose calls free room in the queue only through ReleaseBuffer
\* and CancelBuffer: they neither detach buffers nor change the size nor push
\* empty buffers.
SteadyClients == "detach" \notin Ops /\ "resize" \notin Ops /\ "empty" \notin Fillings

\* No buffer is to be deleted when it comes back.
Unmarked(q) == \A i \in DOMAIN q.cached : q.cached[i].isDeleting = FALSE

\* Only SetQueueSize marks buffers.
LEMMA StaysUnmarked ==
    ASSUME SteadyClients, Unmarked(queue), Moves
    PROVE  Unmarked(queue')
  <1>1. CASE \E id, s : Changed(queue, queue', id, s)
    BY <1>1 DEF Changed, Alike, Unmarked
  <1>2. CASE StillStep \/ DropStep \/ RemoveStep
    BY <1>2 DEF StillStep, Still, DropStep, Dropped, RemoveStep, Removed, Unmarked
  <1>3. CASE AllocStep
    BY <1>3 DEF AllocStep, NewBuffer, Added, Unmarked
  <1>4. CASE AdoptStep
    <2>1. PICK x : \E f, d \in Nat, id \in Ids, e \in Elements : Adopted(x, f, d, id, e)
      BY <1>4 DEF AdoptStep
    <2>2. PICK f, d \in Nat, id \in Ids, e \in Elements : Adopted(x, f, d, id, e)
      BY <2>1
    <2>3. DOMAIN x.cached \subseteq DOMAIN queue.cached /\ Unmarked(x)
      BY <2>2 DEF Adopted, Trimmed, SteadyClients, Unmarked
    <2>4. QED
      BY <2>2, <2>3 DEF Adopted, NewBuffer, Added, Unmarked
  <1>5. CASE ReplaceStep
    <2>1. PICK x : \E at \in Nat, id \in Ids, e \in Elements : Replaced(x, at, id, e)
      BY <1>5 DEF ReplaceStep
    <2>2. PICK at \in Nat, id \in Ids, e \in Elements : Replaced(x, at, id, e)
      BY <2>1
    <2>3. Unmarked(x)
      BY <2>2 DEF Replaced, Dropped, Unmarked
    <2>4. QED
      BY <2>2, <2>3 DEF Replaced, NewBuffer, Added, Unmarked
  <1>6. ReuseStep \/ PushStep \/ PassStep \/ FillStep \/ FreeStep \/ TakeStep =>
            \E id, s : Changed(queue, queue', id, s)
    BY DEF ReuseStep, Reused, PushStep, PassStep, Passed, FillStep, Filled, FreeStep, Freed,
           TakeStep, Taken
  <1>7. QED
    BY <1>1, <1>2, <1>3, <1>4, <1>5, <1>6 DEF Moves, TrimStep, SteadyClients

\* A queue that is full stays full, unless a buffer is freed.
LEMMA StaysFull ==
    ASSUME SteadyClients, IInv, Unmarked(queue), Moves, Settles, Full(queue)
    PROVE  Full(queue') \/ FreeStep
  <1>1. QueueOk(queue) /\ Count(queue) \in Nat /\ queue.size \in Nat /\ queue'.size = queue.size
    BY CountType DEF IInv, QueueOk, QueueType, Count, Settles, SteadyClients
  <1>2. queue.free = <<>> /\ Len(queue.free) = 0 /\ Count(queue) >= queue.size
    BY DEF Full, Count
  <1>3. ~AllocStep /\ ~TrimStep
    BY <1>1, <1>2 DEF AllocStep, TrimStep, SteadyClients
  <1>4. ~ReuseStep /\ ~DropStep /\ ~ReplaceStep
    BY <1>2 DEF ReuseStep, Reused, DropStep, Dropped, ReplaceStep, Replaced
  <1>5. ~RemoveStep
    BY DEF RemoveStep, Removed, Owned, Unmarked, SteadyClients
  <1>6. CASE StillStep
    BY <1>1, <1>2, <1>6 DEF StillStep, Still, SameLists, Full, GetCachedBufferCount, Count
  <1>7. CASE PushStep \/ PassStep \/ FillStep \/ TakeStep
    <2>1. (\E id, s : Changed(queue, queue', id, s)) /\ queue'.free = queue.free
      BY <1>7 DEF PushStep, PassStep, Passed, FillStep, Filled, TakeStep, Taken, SameLists
    <2>2. QED
      BY <1>1, <1>2, <2>1 DEF Changed, Full, GetCachedBufferCount, Count
  <1>8. CASE AdoptStep
    <2>1. PICK x : \E f, d \in Nat, id \in Ids, e \in Elements : Adopted(x, f, d, id, e)
      BY <1>8 DEF AdoptStep
    <2>2. PICK f, d \in Nat, id \in Ids, e \in Elements : Adopted(x, f, d, id, e)
      BY <2>1
    <2>3. Count(queue') = queue.size
      BY <1>2, <2>2 DEF Adopted, SteadyClients
    <2>4. x.free = SubSeq(queue.free, f + 1, Len(queue.free)) /\ f = 0
      BY <1>2, <2>2 DEF Adopted, Trimmed
    <2>5. SubSeq(queue.free, 0 + 1, Len(queue.free)) = <<>>
      BY <1>2
    <2>6. queue'.free = <<>>
      BY <2>2, <2>4, <2>5 DEF Adopted, NewBuffer, Added, SameLists
    <2>7. QED
      BY <1>1, <2>3, <2>6 DEF Full, Count
  <1>9. QED
    BY <1>3, <1>4, <1>5, <1>6, <1>7, <1>8 DEF Moves

\* A producer that sleeps in requestCondition without having been notified
\* sleeps in a full queue: between its test and its wait, and while it waits,
\* no call of another thread frees a buffer or makes room without waking it.
THEOREM BlockedStayFull ==
    ASSUME CalmClients, SteadyClients
    PROVE  Spec => []BlockedOnlyWhenFull
  <1> DEFINE BInv == Unmarked(queue) /\ BlockedOnlyWhenFull
  <1>1. Init => BInv
    BY DEF Init, Unmarked, BlockedOnlyWhenFull, Idle
  <1>2. MInv /\ MInv' /\ BInv /\ [Next]_vars => BInv'
    <2> SUFFICES ASSUME MInv, BInv, [Next]_vars PROVE BInv'
      OBVIOUS
    <2>1. IInv /\ Moves /\ Settles
      BY NextMoves DEF MInv
    <2>2. Unmarked(queue')
      BY <2>1, StaysUnmarked
    <2>3. ASSUME NEW t \in Threads, calls'[t].pc = "wait" PROVE Full(queue')
      <3>1. calls[t].pc = "wait" \/ Full(queue')
        BY <2>1, <2>3 DEF Settles, Waiting
      <3>2. ~FreeStep
        BY <2>3 DEF FreeStep
      <3>3. Full(queue) => Full(queue')
        BY <2>1, <3>2, StaysFull
      <3>4. QED
        BY <3>1, <3>3 DEF BlockedOnlyWhenFull
    <2>4. QED
      BY <2>2, <2>3 DEF BlockedOnlyWhenFull
  <1>3. BInv => BlockedOnlyWhenFull
    OBVIOUS
  <1> HIDE DEF BInv
  <1>4. QED
    BY <1>1, <1>2, <1>3, MInvHolds, PTL DEF Spec
-----------------------------------------------------------------------------
(* The order of the free list                                               *)

Sorted(q) ==
    \A i, j \in 1 .. Len(q.free) :
        i < j => q.cached[q.free[i]].cap <= q.cached[q.free[j]].cap

SameCaps(q, r) ==
    \A i \in DOMAIN q.cached : i \in DOMAIN r.cached => r.cached[i].cap = q.cached[i].cap

\* The free list of r is that of q with some elements left out.
Thinned(q, r) ==
    \E g \in [1 .. Len(r.free) -> 1 .. Len(q.free)] :
        /\ \A i, j \in 1 .. Len(r.free) : i < j => g[i] < g[j]
        /\ \A j \in 1 .. Len(r.free) : r.free[j] = q.free[g[j]]

\* Leaving out elements keeps a list in order.
LEMMA ThinnedStaysSorted ==
    ASSUME NEW q, QueueOk(q), NEW r, QueueOk(r), SameCaps(q, r), Thinned(q, r), Sorted(q)
    PROVE  Sorted(r)
  <1>1. PICK g \in [1 .. Len(r.free) -> 1 .. Len(q.free)] :
        /\ \A i, j \in 1 .. Len(r.free) : i < j => g[i] < g[j]
        /\ \A j \in 1 .. Len(r.free) : r.free[j] = q.free[g[j]]
    BY DEF Thinned
  <1>2. \A j \in 1 .. Len(q.free) : q.free[j] \in DOMAIN q.cached
    BY FreeIsReleased
  <1>3. \A j \in 1 .. Len(r.free) : r.free[j] \in DOMAIN r.cached
    BY FreeIsReleased
  <1>4. \A j \in 1 .. Len(r.free) :
           g[j] \in 1 .. Len(q.free) /\ r.cached[r.free[j]].cap = q.cached[q.free[g[j]]].cap
    BY <1>1, <1>2, <1>3 DEF SameCaps
  <1>5. QED
    BY <1>1, <1>4 DEF Sorted

\* The moves that keep the free list.
LEMMA SameFreeThinned ==
    ASSUME NEW q, QueueOk(q), NEW r, r.free = q.free
    PROVE  Thinned(q, r)
  <1> DEFINE g == [j \in 1 .. Len(q.free) |-> j]
  <1>1. g \in [1 .. Len(r.free) -> 1 .. Len(q.free)] /\ \A j \in 1 .. Len(r.free) : g[j] = j
    OBVIOUS
  <1> HIDE DEF g
  <1>2. QED
    BY <1>1 DEF Thinned

\* The moves that take one element out of the free list.
LEMMA RemoveThinned ==
    ASSUME NEW q, QueueOk(q), NEW r, NEW at \in 1 .. Len(q.free), r.free = RemoveAt(q.free, at)
    PROVE  Thinned(q, r)
  <1> DEFINE g == [j \in 1 .. Len(r.free) |-> IF j < at THEN j ELSE j + 1]
  <1>1. q.free \in Seq(Ids) /\ Len(q.free) \in Nat
    BY DEF QueueOk, QueueType
  <1>2. /\ Len(r.free) = Len(q.free) - 1
        /\ \A j \in 1 .. Len(q.free) - 1 : r.free[j] = IF j < at THEN q.free[j] ELSE q.free[j + 1]
    BY <1>1, RemoveAtElements
  <1>3. g \in [1 .. Len(r.free) -> 1 .. Len(q.free)]
    BY <1>1, <1>2
  <1>4. \A j \in 1 .. Len(r.free) : g[j] = IF j < at THEN j ELSE j + 1
    OBVIOUS
  <1> HIDE DEF g
  <1>5. \A i, j \in 1 .. Len(r.free) : i < j => g[i] < g[j]
    BY <1>1, <1>2, <1>4
  <1>6. \A j \in 1 .. Len(r.free) : r.free[j] = q.free[g[j]]
    BY <1>2, <1>4
  <1>7. QED
    BY <1>3, <1>5, <1>6 DEF Thinned

\* Trimming cuts the free list at the front.
LEMMA TrimThinned ==
    ASSUME NEW q, QueueOk(q), NEW r, NEW f, NEW d, Trimmed(q, r, f, d)
    PROVE  Thinned(q, r) /\ SameCaps(q, r)
  <1> DEFINE g == [j \in 1 .. Len(r.free) |-> j + f]
  <1>1. q.free \in Seq(Ids) /\ Len(q.free) \in Nat /\ f \in 0 .. Len(q.free)
    BY DEF QueueOk, QueueType, Trimmed
  <1>2. r.free = SubSeq(q.free, f + 1, Len(q.free))
    BY DEF Trimmed
  <1>3. Len(r.free) = Len(q.free) - f /\ \A j \in 1 .. Len(q.free) - f : r.free[j] = q.free[j + f]
    BY <1>1, <1>2
  <1>4. g \in [1 .. Len(r.free) -> 1 .. Len(q.free)]
    BY <1>1, <1>3
  <1>5. \A j \in 1 .. Len(r.free) : g[j] = j + f
    OBVIOUS
  <1> HIDE DEF g
  <1>6. \A i, j \in 1 .. Len(r.free) : i < j => g[i] < g[j]
    BY <1>1, <1>3, <1>5
  <1>7. SameCaps(q, r)
    BY DEF SameCaps, Trimmed
  <1>8. QED
    BY <1>3, <1>4, <1>5, <1>6, <1>7 DEF Thinned

\* InsertFreeBufferInOrder keeps the order.
LEMMA FreedStaysSorted ==
    ASSUME NEW q, QueueOk(q), NEW r, QueueOk(r), NEW id, Freed(q, r, id), Sorted(q)
    PROVE  Sorted(r)
  <1>1. /\ q.free \in Seq(Ids) /\ Len(q.free) \in Nat /\ id \in Ids /\ id \in DOMAIN q.cached
        /\ DOMAIN r.cached = DOMAIN q.cached
        /\ \A i \in DOMAIN q.cached : r.cached[i].cap = q.cached[i].cap /\ q.cached[i].cap \in Nat
    <2>1. \A i \in DOMAIN q.cached : q.cached[i].cap \in Nat
      BY DEF QueueOk, QueueType, Elements
    <2>2. Changed(q, r, id, "RELEASED")
      BY DEF Freed
    <2>3. \A i \in DOMAIN q.cached : r.cached[i].cap = q.cached[i].cap
      BY <2>2 DEF Changed, Alike
    <2>4. QED
      BY <2>1, <2>2, <2>3 DEF QueueOk, QueueType, Changed
  <1>2. PICK k \in 1 .. Len(q.free) + 1 :
          /\ r.free = InsertAt(q.free, k, id)
          /\ \A i \in 1 .. k - 1 : q.cached[q.free[i]].cap < q.cached[id].cap
          /\ k <= Len(q.free) => q.cached[id].cap <= q.cached[q.free[k]].cap
    BY DEF Freed
  <1>3. /\ Len(r.free) = Len(q.free) + 1
        /\ \A j \in 1 .. Len(q.free) + 1 :
              r.free[j] = IF j < k THEN q.free[j] ELSE IF j = k THEN id ELSE q.free[j - 1]
    <2>1. /\ Len(InsertAt(q.free, k, id)) = Len(q.free) + 1
          /\ \A j \in 1 .. Len(q.free) + 1 : InsertAt(q.free, k, id)[j] =
                IF j < k THEN q.free[j] ELSE IF j = k THEN id ELSE q.free[j - 1]
      <3> DEFINE s == q.free
      <3>1. s \in Seq(Ids) /\ k \in 1 .. Len(s) + 1 /\ id \in Ids
        BY <1>1, <1>2
      <3> HIDE DEF s
      <3>2. /\ Len(InsertAt(s, k, id)) = Len(s) + 1
            /\ \A j \in 1 .. Len(s) + 1 :
                  InsertAt(s, k, id)[j] = IF j < k THEN s[j] ELSE IF j = k THEN id ELSE s[j - 1]
        BY <3>1, InsertAtElements
      <3>3. QED
        BY <3>2 DEF s
    <2>2. QED
      BY <1>2, <2>1
  <1>4. \A j \in 1 .. Len(q.free) : q.free[j] \in DOMAIN q.cached
    BY FreeIsReleased
  <1> DEFINE C(j) == q.cached[q.free[j]].cap
             R(j) == r.cached[r.free[j]].cap
             c == q.cached[id].cap
  <1>5. /\ c \in Nat /\ \A j \in 1 .. Len(q.free) : C(j) \in Nat
        /\ \A i, j \in 1 .. Len(q.free) : i < j => C(i) <= C(j)
    BY <1>1, <1>4 DEF Sorted
  <1>6. \A j \in 1 .. Len(q.free) + 1 : R(j) = IF j < k THEN C(j) ELSE IF j = k THEN c ELSE C(j - 1)
    <2> TAKE j \in 1 .. Len(q.free) + 1
    <2>1. CASE j < k
      BY <1>1, <1>3, <1>4, <2>1
    <2>2. CASE j = k
      BY <1>1, <1>3, <2>2
    <2>3. CASE j > k
      <3>1. j - 1 \in 1 .. Len(q.free) /\ r.free[j] = q.free[j - 1]
        BY <1>1, <1>3, <2>3
      <3>2. QED
        BY <1>1, <1>4, <2>3, <3>1
    <2>4. QED
      BY <1>1, <2>1, <2>2, <2>3
  <1>7. /\ \A i \in 1 .. k - 1 : C(i) < c
        /\ k <= Len(q.free) => c <= C(k)
    BY <1>2
  <1>8. Sorted(r) <=> \A i, j \in 1 .. Len(q.free) + 1 : i < j => R(i) <= R(j)
    BY <1>3 DEF Sorted
  <1> HIDE DEF C, R, c
  <1>9. ASSUME NEW i \in 1 .. Len(q.free) + 1, NEW j \in 1 .. Len(q.free) + 1, i < j
        PROVE  R(i) <= R(j)
    <2>1. CASE j < k
      BY <1>1, <1>5, <1>6, <1>9, <2>1
    <2>2. CASE j = k
      BY <1>1, <1>5, <1>6, <1>7, <1>9, <2>2
    <2>3. CASE j > k
      <3>1. j - 1 \in 1 .. Len(q.free) /\ R(j) = C(j - 1) /\ k \in 1 .. Len(q.free) /\ k <= j - 1
        BY <1>1, <1>6, <2>3
      <3>2. c <= C(j - 1)
        BY <1>1, <1>5, <1>7, <3>1
      <3>3. CASE i < k
        BY <1>1, <1>5, <1>6, <3>1, <3>3
      <3>4. CASE i = k
        BY <1>6, <3>1, <3>2, <3>4
      <3>5. CASE i > k
        <4>1. i - 1 \in 1 .. Len(q.free) /\ R(i) = C(i - 1) /\ i - 1 < j - 1
          BY <1>1, <1>6, <1>9, <3>5
        <4>2. QED
          BY <1>5, <3>1, <4>1
      <3>6. QED
        BY <1>1, <3>3, <3>4, <3>5
    <2>4. QED
      BY <1>1, <2>1, <2>2, <2>3
  <1>10. QED
    BY <1>8, <1>9

\* Every move keeps the order.
LEMMA StaysSorted ==
    ASSUME IInv, IInv', Moves, Sorted(queue)
    PROVE  Sorted(queue')
  <1>1. QueueOk(queue) /\ QueueOk(queue')
    BY DEF IInv
  <1>2. CASE FreeStep
    BY <1>1, <1>2, FreedStaysSorted DEF FreeStep
  <1>3. CASE TrimStep
    BY <1>1, <1>3, TrimThinned, ThinnedStaysSorted DEF TrimStep
  <1>4. CASE AdoptStep
    <2>1. PICK x : \E f, d \in Nat, id \in Ids, e \in Elements : Adopted(x, f, d, id, e)
      BY <1>4 DEF AdoptStep
    <2>2. PICK f, d \in Nat, id \in Ids, e \in Elements : Adopted(x, f, d, id, e)
      BY <2>1
    <2>3. QueueOk(x) /\ Trimmed(queue, x, f, d) /\ SameCaps(x, queue') /\ queue'.free = x.free
      BY <2>2 DEF Adopted, NewBuffer, Added, SameCaps, SameLists
    <2>4. Sorted(x)
      BY <1>1, <2>3, TrimThinned, ThinnedStaysSorted
    <2>5. QED
      BY <1>1, <2>3, <2>4, SameFreeThinned, ThinnedStaysSorted
  <1>5. CASE ReplaceStep
    <2>1. PICK x : \E at \in Nat, id \in Ids, e \in Elements : Replaced(x, at, id, e)
      BY <1>5 DEF ReplaceStep
    <2>2. PICK at \in Nat, id \in Ids, e \in Elements : Replaced(x, at, id, e)
      BY <2>1
    <2>3. /\ QueueOk(x) /\ at \in 1 .. Len(queue.free) /\ x.free = RemoveAt(queue.free, at)
          /\ SameCaps(queue, x) /\ SameCaps(x, queue') /\ queue'.free = x.free
      BY <2>2 DEF Replaced, Dropped, NewBuffer, Added, SameCaps, SameLists
    <2>4. Sorted(x)
      BY <1>1, <2>3, RemoveThinned, ThinnedStaysSorted
    <2>5. QED
      BY <1>1, <2>3, <2>4, SameFreeThinned, ThinnedStaysSorted
  <1>6. CASE ReuseStep \/ DropStep
    <2>1. PICK at \in 1 .. Len(queue.free) :
             queue'.free = RemoveAt(queue.free, at) /\ SameCaps(queue, queue')
      BY <1>6 DEF ReuseStep, Reused, DropStep, Dropped, Changed, Alike, SameCaps
    <2>2. QED
      BY <1>1, <2>1, RemoveThinned, ThinnedStaysSorted
  <1>7. CASE StillStep \/ AllocStep \/ PushStep \/ PassStep \/ RemoveStep \/ FillStep \/ TakeStep
    <2>1. SameCaps(queue, queue') /\ queue'.free = queue.free
      BY <1>7 DEF StillStep, Still, AllocStep, NewBuffer, Added, PushStep, PassStep, Passed,
             RemoveStep, Removed, FillStep, Filled, TakeStep, Taken, Changed, Alike, SameLists, SameCaps
    <2>2. QED
      BY <1>1, <2>1, SameFreeThinned, ThinnedStaysSorted
  <1>8. QED
    BY <1>2, <1>3, <1>4, <1>5, <1>6, <1>7 DEF Moves

\* The free list stays in ascending capacity, whatever buffers of whatever size
\* are requested, attached, released, cancelled and deleted, so that the first
\* fit PopFromFreeBufferList finds is the best one.
THEOREM FreeListStaysSorted ==
    ASSUME CalmClients
    PROVE  Spec => []FreeSorted
  <1>1. IInv => (FreeSorted <=> Sorted(queue))
    <2> SUFFICES ASSUME IInv PROVE FreeSorted <=> Sorted(queue)
      OBVIOUS
    <2>1. DOMAIN queue.free = 1 .. Len(queue.free)
      BY ToSetElements DEF IInv, QueueOk, QueueType
    <2>2. QED
      BY <2>1 DEF FreeSorted, Sorted
  <1>2. Init => Sorted(queue)
    <2> SUFFICES ASSUME Init PROVE Sorted(queue)
      OBVIOUS
    <2>1. queue.free = <<>>
      BY DEF Init
    <2>2. Len(queue.free) = 0
      BY <2>1
    <2>3. QED
      BY <2>2 DEF Sorted
  <1>3. MInv /\ MInv' /\ Sorted(queue) /\ [Next]_vars => Sorted(queue)'
    BY NextMoves, StaysSorted DEF MInv
  <1>4. MInv => IInv
    BY DEF MInv
  <1>5. QED
    BY <1>1, <1>2, <1>3, <1>4, MInvHolds, PTL DEF Spec
-----------------------------------------------------------------------------
(* The refinement of BufferExchange                                         *)

\* The party a buffer of the queue is with, by its state.
Party(q, id) ==
    IF id \notin DOMAIN q.cached THEN "nobody"
    ELSE CASE q.cached[id].state = "REQUESTED" -> "producer"
           [] q.cached[id].state = "ACQUIRED" -> "consumer"
           [] q.cached[id].state = "RETURNED" -> "filled"
           [] q.cached[id].state = "RELEASED" -> "free"
           [] OTHER -> "transit"

Mapped == \A id \in Ids : HolderOf(id) = Party(queue, id)

\* The sets that HolderOf looks into agree with the states of the buffers.
LEMMA HoldersMapped ==
    ASSUME "empty" \notin Fillings, IInv
    PROVE  Mapped
  <1>1. OwnersAgree /\ ListsOk(queue)
    BY OwnersFollow DEF IInv, QueueOk
  <1>2. /\ prodHeld = InState(queue, "REQUESTED") /\ consHeld = InState(queue, "ACQUIRED")
        /\ ToSet(queue.dirty) = InState(queue, "RETURNED") /\ ToSet(queue.free) = InState(queue, "RELEASED")
    BY <1>1 DEF OwnersAgree, ListsOk
  <1>3. brokerHeld \cup InPc(CallerHolds) = InState(queue, "PUSHED") \cup InState(queue, "ATTACHED")
    BY <1>1 DEF OwnersAgree, InPc, CallerHolds
  <1>4. \A id \in DOMAIN queue.cached : queue.cached[id].state \in States
    BY DEF IInv, QueueOk, QueueType, Elements
  <1>5. ASSUME NEW id \in Ids PROVE HolderOf(id) = Party(queue, id)
    BY <1>2, <1>3, <1>4 DEF HolderOf, Party, InState, States
  <1>6. QED
    BY <1>5 DEF Mapped

\* A step of the queue moves the buffers of S to a party and those of D to nobody.
Goes(S, party, D) ==
    /\ S \cap D = {}
    /\ \A id \in Ids : Party(queue', id) = IF id \in S THEN party
                                           ELSE IF id \in D THEN "nobody" ELSE Party(queue, id)

\* It does so in the abstract.
LEMMA MoveMapped ==
    ASSUME Mapped, Mapped', NEW S, NEW party, NEW D, Goes(S, party, D)
    PROVE  Exchange!Move(S, party, D)
  BY DEF Mapped, Goes, Exchange!Move

\* A filled buffer is the party of the consumer to come.
LEMMA ListedParties ==
    ASSUME NEW q, QueueOk(q), NEW id \in Ids
    PROVE  /\ id \in ToSet(q.free) <=> Party(q, id) = "free"
           /\ id \in ToSet(q.dirty) <=> Party(q, id) = "filled"
           /\ id \in DOMAIN q.cached <=> Party(q, id) # "nobody"
           /\ Owned(q, id) <=> Party(q, id) \in {"producer", "transit", "consumer"}
  BY DEF QueueOk, QueueType, Elements, States, ListsOk, InState, Party, Owned, OwnerStates

\* PushBuffer gives a buffer away; what its later sections and those of
\* AttachBuffer do to the state of the buffer, nobody sees.
LEMMA PushIsGive ==
    ASSUME Mapped, Mapped', PushStep
    PROVE  Exchange!Next
  <1>1. PICK id \in Ids : Passed(queue, queue', id, "PUSHED") /\ queue.cached[id].state = "REQUESTED"
    BY DEF PushStep
  <1>2. Goes({id}, "transit", {})
    BY <1>1 DEF Goes, Passed, Changed, Party
  <1>3. HolderOf(id) = "producer" /\ queue'.dirty = queue.dirty
    BY <1>1 DEF Mapped, Party, Passed, Changed, SameLists
  <1>4. Exchange!Give(id)
    BY <1>2, <1>3, MoveMapped DEF Exchange!Give
  <1>5. QED
    BY <1>4 DEF Exchange!Next

\* The steps that the clients do not see.
LEMMA UnseenStutters ==
    ASSUME Mapped, Mapped', StillStep \/ PassStep
    PROVE  UNCHANGED <<[id \in Ids |-> HolderOf(id)], queue.dirty>>
  <1>1. \A id \in Ids : Party(queue', id) = Party(queue, id)
    BY DEF StillStep, Still, PassStep, Passed, Changed, Party
  <1>2. queue'.dirty = queue.dirty
    BY DEF StillStep, Still, PassStep, Passed, SameLists
  <1>3. QED
    BY <1>1, <1>2 DEF Mapped

\* AllocBuffer and a reused buffer.
LEMMA RequestIsObtain ==
    ASSUME IInv, Mapped, Mapped', AllocStep \/ ReuseStep
    PROVE  Exchange!Next
  <1>1. QueueOk(queue)
    BY DEF IInv
  <1>2. \E id \in Ids : /\ Goes({id}, "producer", {})
                        /\ Party(queue, id) \in {"nobody", "free"} /\ queue'.dirty = queue.dirty
    <2>1. CASE AllocStep
      BY <2>1 DEF AllocStep, NewBuffer, Added, SameLists, Goes, Party
    <2>2. CASE ReuseStep
      <3>1. PICK at \in Nat : Reused(queue, queue', at)
        BY <2>2 DEF ReuseStep
      <3>2. queue.free[at] \in DOMAIN queue.cached /\ queue.cached[queue.free[at]].state = "RELEASED"
        BY <1>1, <3>1, FreeIsReleased DEF Reused
      <3>3. queue.free[at] \in Ids
        BY <1>1, <3>2 DEF QueueOk, QueueType
      <3>4. QED
        BY <3>1, <3>2, <3>3 DEF Reused, Changed, Goes, Party
    <2>3. QED
      BY <2>1, <2>2
  <1>3. PICK id \in Ids : /\ Goes({id}, "producer", {})
                         /\ Party(queue, id) \in {"nobody", "free"} /\ queue'.dirty = queue.dirty
    BY <1>2
  <1>4. Exchange!Move({id}, "producer", {})
    BY <1>3, MoveMapped
  <1>5. Exchange!Obtain(id)
    BY <1>3, <1>4 DEF Exchange!Obtain, Mapped
  <1>6. QED
    BY <1>5 DEF Exchange!Next

\* A free buffer that is too small is replaced, or lost if the new one cannot be had.
LEMMA ReplaceIsObtain ==
    ASSUME IInv, Mapped, Mapped', ReplaceStep
    PROVE  Exchange!Next
  <1>1. QueueOk(queue)
    BY DEF IInv
  <1>2. PICK x : \E at \in Nat, id \in Ids, e \in Elements : Replaced(x, at, id, e)
    BY DEF ReplaceStep
  <1>3. PICK at \in Nat, id \in Ids, e \in Elements : Replaced(x, at, id, e)
    BY <1>2
  <1> DEFINE D == {queue.free[at]} \ {id}
  <1>4. at \in 1 .. Len(queue.free)
    BY <1>3 DEF Replaced, Dropped
  <1>5. queue.free[at] \in DOMAIN queue.cached /\ queue.cached[queue.free[at]].state = "RELEASED"
    BY <1>1, <1>4, FreeIsReleased
  <1>6. queue.free[at] \in Ids
    BY <1>1, <1>5 DEF QueueOk, QueueType
  <1>7. /\ DOMAIN queue'.cached = (DOMAIN queue.cached \ {queue.free[at]}) \cup {id}
        /\ queue'.cached[id].state = "REQUESTED"
        /\ \A i \in DOMAIN queue.cached \ {queue.free[at]} : queue'.cached[i] = queue.cached[i]
        /\ id \notin DOMAIN queue.cached \ {queue.free[at]}
        /\ queue'.dirty = queue.dirty
    BY <1>3 DEF Replaced, Dropped, NewBuffer, Added, SameLists
  <1>8. Goes({id}, "producer", D)
    BY <1>5, <1>7 DEF Goes, Party
  <1>9. Exchange!Move({id}, "producer", D)
    BY <1>8, MoveMapped
  <1>10. D \in SUBSET Exchange!With("free") /\ HolderOf(id) \in {"nobody", "free"}
    BY <1>5, <1>6, <1>7 DEF Exchange!With, Mapped, Party
  <1> HIDE DEF D
  <1>11. Exchange!Obtain(id)
    BY <1>7, <1>9, <1>10 DEF Exchange!Obtain
  <1>12. QED
    BY <1>11 DEF Exchange!Next

\* DetachBuffer, and a buffer that is deleted because it was marked.
LEMMA RemoveIsWithdraw ==
    ASSUME IInv, Mapped, Mapped', RemoveStep
    PROVE  Exchange!Next
  <1>1. PICK id \in Ids : Removed(queue, queue', id)
    BY DEF RemoveStep
  <1>2. Goes({}, "nobody", {id}) /\ queue'.dirty = queue.dirty
    BY <1>1 DEF Goes, Removed, Party, SameLists
  <1>3. HolderOf(id) \in {"producer", "transit", "consumer"}
    BY <1>1, ListedParties DEF IInv, Removed, Mapped
  <1>4. Exchange!Move({}, "nobody", {id})
    BY <1>2, MoveMapped
  <1>5. Exchange!Withdraw(id)
    BY <1>2, <1>3, <1>4 DEF Exchange!Withdraw
  <1>6. QED
    BY <1>5 DEF Exchange!Next

\* ReturnBuffer.
LEMMA FillIsFill ==
    ASSUME Mapped, Mapped', FillStep
    PROVE  Exchange!Next
  <1>1. PICK id \in Ids : Filled(queue, queue', id) /\ queue.cached[id].state = "PUSHED"
    BY DEF FillStep
  <1>2. Goes({id}, "filled", {}) /\ queue'.dirty = Append(queue.dirty, id)
    BY <1>1 DEF Goes, Filled, Changed, Party
  <1>3. HolderOf(id) = "transit"
    BY <1>1 DEF Mapped, Party, Filled, Changed
  <1>4. Exchange!Move({id}, "filled", {})
    BY <1>2, MoveMapped
  <1>5. Exchange!Fill(id)
    BY <1>2, <1>3, <1>4 DEF Exchange!Fill
  <1>6. QED
    BY <1>5 DEF Exchange!Next

\* ReleaseBuffer and CancelBuffer.
LEMMA FreeIsPutBack ==
    ASSUME IInv, Mapped, Mapped', FreeStep
    PROVE  Exchange!Next
  <1>1. PICK id \in Ids : Freed(queue, queue', id) /\ queue.cached[id].state # "REQUESTED"
    BY DEF FreeStep
  <1>2. Goes({id}, "free", {}) /\ queue'.dirty = queue.dirty
    BY <1>1 DEF Goes, Freed, Changed, Party
  <1>3. HolderOf(id) \in {"consumer", "transit"}
    BY <1>1 DEF Mapped, Party, Freed, Owned, OwnerStates
  <1>4. Exchange!Move({id}, "free", {})
    BY <1>2, MoveMapped
  <1>5. Exchange!PutBack(id)
    BY <1>2, <1>3, <1>4 DEF Exchange!PutBack
  <1>6. QED
    BY <1>5 DEF Exchange!Next

\* AcquireBuffer.
LEMMA TakeIsTake ==
    ASSUME Mapped, Mapped', TakeStep
    PROVE  Exchange!Next
  <1>1. Taken(queue, queue')
    BY DEF TakeStep
  <1>2. /\ Goes({Head(queue.dirty)}, "consumer", {}) /\ queue.dirty # <<>>
        /\ queue'.dirty = Tail(queue.dirty)
    BY <1>1 DEF Goes, Taken, Changed, Party
  <1>3. Exchange!Move({Head(queue.dirty)}, "consumer", {})
    BY <1>2, MoveMapped
  <1>4. QED
    BY <1>2, <1>3 DEF Exchange!Take, Exchange!Next

\* The buffers a trim deletes are free, or the oldest of the filled ones.
LEMMA TrimMapped ==
    ASSUME IInv, Mapped, NEW x, NEW f, NEW d, Trimmed(queue, x, f, d)
    PROVE  /\ Begin(queue.free, f) \in SUBSET Exchange!With("free")
           /\ d \in 0 .. Len(queue.dirty)
           /\ Exchange!Oldest(d) = Begin(queue.dirty, d)
           /\ x.dirty = SubSeq(queue.dirty, d + 1, Len(queue.dirty))
           /\ DOMAIN x.cached \subseteq DOMAIN queue.cached
           /\ \A id \in Ids : Party(x, id) =
                 IF id \in Begin(queue.free, f) \cup Begin(queue.dirty, d) THEN "nobody" ELSE Party(queue, id)
  <1>1. /\ queue.free \in Seq(Ids) /\ queue.dirty \in Seq(Ids) /\ QueueOk(queue)
        /\ IsInjective(queue.free) /\ IsInjective(queue.dirty)
        /\ f \in 0 .. Len(queue.free) /\ d \in 0 .. Len(queue.dirty) /\ d \in Nat
    BY DEF IInv, QueueOk, QueueType, ListsOk, Trimmed
  <1>2. Begin(queue.free, f) \subseteq ToSet(queue.free)
    BY <1>1, CutProperties DEF Begin
  <1>3. Begin(queue.free, f) \in SUBSET Exchange!With("free")
    <2>1. \A id \in Ids : id \in ToSet(queue.free) => HolderOf(id) = "free"
      BY <1>1, ListedParties DEF Mapped
    <2>2. ToSet(queue.free) \subseteq Ids
      BY <1>1, ToSetElements
    <2>3. QED
      BY <1>2, <2>1, <2>2 DEF Exchange!With
  <1>4. Exchange!Oldest(d) = Begin(queue.dirty, d)
    <2> DEFINE s == queue.dirty
               p == SubSeq(s, 1, d)
    <2>1. p \in Seq(Ids) /\ Len(p) = d /\ \A i \in 1 .. d : p[i] = s[i]
      BY <1>1
    <2> HIDE DEF p
    <2>2. \A y : y \in ToSet(p) <=> \E j \in 1 .. Len(p) : p[j] = y
      BY <2>1, ToSetElements
    <2>3. \A y : y \in ToSet(p) <=> \E j \in 1 .. d : s[j] = y
      BY <2>1, <2>2
    <2>4. Begin(queue.dirty, d) = ToSet(p)
      BY DEF Begin, p
    <2>5. Exchange!Oldest(d) = {s[i] : i \in 1 .. d}
      BY DEF Exchange!Oldest
    <2> HIDE DEF s
    <2>6. QED
      BY <2>3, <2>4, <2>5
  <1>5. DOMAIN x.cached = DOMAIN queue.cached \ (Begin(queue.free, f) \cup Begin(queue.dirty, d))
        /\ \A i \in DOMAIN x.cached : x.cached[i].state = queue.cached[i].state
    BY DEF Trimmed, Begin
  <1>6. QED
    BY <1>1, <1>3, <1>4, <1>5 DEF Trimmed, Party

\* SetQueueSize, and a free buffer that is deleted.
LEMMA TrimIsDiscard ==
    ASSUME IInv, Mapped, Mapped', TrimStep
    PROVE  Exchange!Next
  <1>1. PICK f, d \in Nat : Trimmed(queue, queue', f, d)
    BY DEF TrimStep
  <1> DEFINE D == Begin(queue.free, f)
  <1>2. /\ D \in SUBSET Exchange!With("free")
        /\ d \in 0 .. Len(queue.dirty)
        /\ Exchange!Oldest(d) = Begin(queue.dirty, d)
        /\ queue'.dirty = SubSeq(queue.dirty, d + 1, Len(queue.dirty))
        /\ \A id \in Ids : Party(queue', id) =
              IF id \in D \cup Begin(queue.dirty, d) THEN "nobody" ELSE Party(queue, id)
    BY <1>1, TrimMapped
  <1> HIDE DEF D
  <1>3. Goes({}, "nobody", D \cup Exchange!Oldest(d))
    BY <1>2 DEF Goes
  <1>4. Exchange!Move({}, "nobody", D \cup Exchange!Oldest(d))
    BY <1>3, MoveMapped
  <1>5. Exchange!Discard
    BY <1>2, <1>4 DEF Exchange!Discard
  <1>6. QED
    BY <1>5 DEF Exchange!Next

\* AllocBuffer failed after RequestReuseBuffer had deleted the free buffer.
LEMMA DropIsDiscard ==
    ASSUME IInv, Mapped, Mapped', DropStep
    PROVE  Exchange!Next
  <1>1. PICK at \in Nat : Dropped(queue, queue', at)
    BY DEF DropStep
  <1> DEFINE D == {queue.free[at]}
  <1>2. QueueOk(queue) /\ queue.dirty \in Seq(Ids) /\ at \in 1 .. Len(queue.free)
    BY <1>1 DEF IInv, QueueOk, QueueType, Dropped
  <1>3. queue.free[at] \in DOMAIN queue.cached /\ queue.cached[queue.free[at]].state = "RELEASED"
        /\ queue.free[at] \in Ids
    BY <1>2, FreeIsReleased DEF QueueOk, QueueType
  <1>4. D \in SUBSET Exchange!With("free")
    BY <1>3 DEF Exchange!With, Mapped, Party
  <1>5. Exchange!Oldest(0) = {}
    BY DEF Exchange!Oldest
  <1>6. 0 \in 0 .. Len(queue.dirty) /\ queue'.dirty = SubSeq(queue.dirty, 0 + 1, Len(queue.dirty))
    BY <1>1, <1>2 DEF Dropped
  <1>7. Goes({}, "nobody", D \cup Exchange!Oldest(0))
    <2>1. D \cup Exchange!Oldest(0) = D
      BY <1>5
    <2>2. Goes({}, "nobody", D)
      BY <1>1 DEF Goes, Dropped, Party
    <2>3. QED
      BY <2>1, <2>2
  <1> HIDE DEF D
  <1>8. Exchange!Move({}, "nobody", D \cup Exchange!Oldest(0))
    BY <1>7, MoveMapped
  <1>9. Exchange!Discard
    BY <1>4, <1>6, <1>8 DEF Exchange!Discard
  <1>10. QED
    BY <1>9 DEF Exchange!Next

\* AttachBuffer.
LEMMA AdoptIsAdopt ==
    ASSUME IInv, Mapped, Mapped', AdoptStep
    PROVE  Exchange!Next
  <1>1. PICK x : \E f, d \in Nat, id \in Ids, e \in Elements : Adopted(x, f, d, id, e)
    BY DEF AdoptStep
  <1>2. PICK f, d \in Nat, id \in Ids, e \in Elements : Adopted(x, f, d, id, e)
    BY <1>1
  <1> DEFINE D == Begin(queue.free, f)
  <1>3. /\ Trimmed(queue, x, f, d) /\ Added(x, queue', id, e) /\ e.state = "ATTACHED"
        /\ id \notin DOMAIN queue.cached
    BY <1>2 DEF Adopted, NewBuffer
  <1>4. /\ D \in SUBSET Exchange!With("free")
        /\ d \in 0 .. Len(queue.dirty)
        /\ Exchange!Oldest(d) = Begin(queue.dirty, d)
        /\ x.dirty = SubSeq(queue.dirty, d + 1, Len(queue.dirty))
        /\ DOMAIN x.cached \subseteq DOMAIN queue.cached
        /\ \A i \in Ids : Party(x, i) =
              IF i \in D \cup Begin(queue.dirty, d) THEN "nobody" ELSE Party(queue, i)
    BY <1>3, TrimMapped
  <1>5. id \notin D \cup Begin(queue.dirty, d)
    <2>1. /\ queue.free \in Seq(Ids) /\ queue.dirty \in Seq(Ids) /\ QueueOk(queue)
          /\ IsInjective(queue.free) /\ IsInjective(queue.dirty)
          /\ f \in 0 .. Len(queue.free)
      BY <1>3 DEF IInv, QueueOk, QueueType, ListsOk, Trimmed
    <2>2. D \subseteq ToSet(queue.free)
      BY <2>1, CutProperties DEF Begin
    <2>3. Begin(queue.dirty, d) \subseteq ToSet(queue.dirty)
      BY <1>4, <2>1, CutProperties DEF Begin
    <2>4. QED
      BY <1>3, <2>1, <2>2, <2>3, ListedStates DEF QueueOk
  <1> HIDE DEF D
  <1>6. \A i \in Ids : Party(queue', i) = IF i = id THEN "transit" ELSE Party(x, i)
    BY <1>3 DEF Added, Party
  <1>7. Goes({id}, "transit", D \cup Exchange!Oldest(d))
    BY <1>4, <1>5, <1>6 DEF Goes
  <1>8. Exchange!Move({id}, "transit", D \cup Exchange!Oldest(d))
    BY <1>7, MoveMapped
  <1>9. HolderOf(id) = "nobody" /\ queue'.dirty = SubSeq(queue.dirty, d + 1, Len(queue.dirty))
    BY <1>3, <1>4 DEF Mapped, Party, Added, SameLists
  <1>10. Exchange!Adopt(id)
    BY <1>4, <1>8, <1>9 DEF Exchange!Adopt
  <1>11. QED
    BY <1>10 DEF Exchange!Next

\* The queue implements BufferExchange for clients that neither clear it nor
\* push empty buffers: seen from outside the mutex every section, whatever the
\* sections of other threads before and after it, is one exchange of a buffer or
\* none, and the consumer gets the buffers in the order in which ReturnBuffer
\* filed them.
THEOREM QueueImplementsExchange ==
    ASSUME CalmClients, "empty" \notin Fillings
    PROVE  Spec => ImplementsExchange
  <1>1. Init => Exchange!Init
    <2> SUFFICES ASSUME Init PROVE Exchange!Init
      OBVIOUS
    <2>1. IInv
      BY InitOk
    <2>2. \A id \in Ids : HolderOf(id) = "nobody"
      BY <2>1, HoldersMapped DEF Mapped, Party, Init
    <2>3. queue.dirty = <<>>
      BY DEF Init
    <2>4. QED
      BY <2>2, <2>3 DEF Exchange!Init
  <1>2. MInv => Mapped
    BY HoldersMapped DEF MInv
  <1>3. MInv /\ Mapped /\ Mapped' /\ [Next]_vars =>
          [Exchange!Next]_<<[id \in Ids |-> HolderOf(id)], queue.dirty>>
    <2> SUFFICES ASSUME MInv, Mapped, Mapped', [Next]_vars
                 PROVE  Exchange!Next \/ UNCHANGED <<[id \in Ids |-> HolderOf(id)], queue.dirty>>
      OBVIOUS
    <2>1. IInv /\ Moves
      BY NextMoves DEF MInv
    <2>2. QED
      BY <2>1, UnseenStutters, TrimIsDiscard, AdoptIsAdopt, RequestIsObtain, ReplaceIsObtain,
         DropIsDiscard, PushIsGive, RemoveIsWithdraw, FillIsFill, FreeIsPutBack, TakeIsTake
      DEF Moves
  <1>4. QED
    BY <1>1, <1>2, <1>3, MInvHolds, PTL DEF Spec, ImplementsExchange, Exchange!Spec
-----------------------------------------------------------------------------
(* The notifications of the consumer                                        *)

Notifying(c) == {t \in Threads : c[t].pc = "notify"}

\* The same threads are about to call OnBufferAvailable.
SameNotify(c, d) == \A t \in Threads : d[t].pc = "notify" <=> c[t].pc = "notify"

\* Other sections, and waking, keep the notifications to come.
LEMMA NotifyKept ==
    ASSUME NEW c \in [Threads -> Frames]
    PROVE  /\ SameNotify(c, c)
           /\ SameNotify(c, NotifyAll(c))
           /\ \A t \in Threads, f \in Frames :
                 c[t].pc # "notify" /\ f.pc # "notify" => SameNotify(c, [c EXCEPT ![t] = f])
           /\ NotifyAll(c) \in [Threads -> Frames] /\ Idle \in Frames /\ Idle.pc = "idle"
  <1>1. /\ NotifyAll(c) \in [Threads -> Frames]
        /\ \A u \in Threads : NotifyAll(c)[u].pc = IF c[u].pc = "wait" THEN "woken" ELSE c[u].pc
    BY DEF NotifyAll, Frames
  <1>2. Idle \in Frames /\ Idle.pc = "idle"
    BY DEF Idle, Frames
  <1>3. QED
    BY <1>1, <1>2 DEF SameNotify

\* SameNotify is transitive.
LEMMA SameNotifyTwice ==
    ASSUME NEW c, NEW d, NEW e, SameNotify(c, d), SameNotify(d, e)
    PROVE  SameNotify(c, e)
  BY DEF SameNotify

\* Thread t has filed a filled buffer and goes on to announce it.
Files(t) ==
    /\ calls[t].pc # "notify" /\ calls'[t].pc = "notify"
    /\ \A u \in Threads \ {t} : calls'[u] = calls[u]

Unannounced == UNCHANGED available /\ SameNotify(calls, calls')

\* RequestBuffer.
LEMMA RequestUnannounced ==
    ASSUME IInv, NEW t \in Threads,
           \/ \E config \in Requests : RequestBuffer(t, config)
           \/ RetryRequest(t)
    PROVE  Unannounced
  <1>1. calls \in [Threads -> Frames] /\ available' = available /\ calls[t].pc # "notify"
    BY DEF IInv, TypeOK, RequestBuffer, RetryRequest
  <1>2. CASE \/ calls' = [calls EXCEPT ![t] = Idle] \/ calls' = calls
    BY <1>1, <1>2 DEF Unannounced, SameNotify, Idle
  <1>3. CASE \E req : \/ calls' = [calls EXCEPT ![t] = [Idle EXCEPT !.pc = "wait", !.req = req]]
                      \/ calls' = [calls EXCEPT ![t] = [Idle EXCEPT !.pc = "timed", !.req = req]]
    BY <1>1, <1>3 DEF Unannounced, SameNotify, Idle
  <1>4. CASE RetryRequest(t)
    BY <1>2, <1>4 DEF RetryRequest, Grant
  <1>5. CASE \E config \in Requests : RequestBuffer(t, config)
    <2>1. PICK config \in Requests : RequestBuffer(t, config)
      BY <1>5
    <2> DEFINE req == [config EXCEPT !.mem = IF @ = UNKNOWN_MEMORY THEN queue.memoryType ELSE @]
               q == CheckConfig(queue, req.mem)
    <2>2. Wait(t, q, req) \/ Grant(t, q, req)
      BY <2>1, Zenon DEF RequestBuffer
    <2> HIDE DEF req, q
    <2>3. QED
      BY <1>2, <1>3, <2>2 DEF Wait, Grant
  <1>6. QED
    BY <1>4, <1>5

\* PushBuffer, the offer to a broker and its return.
LEMMA PushUnannounced ==
    ASSUME IInv, NEW t \in Threads,
           \/ SpuriousWakeup(t) \/ OfferToBroker(t) \/ PushAttached(t) \/ ForceDetach(t)
           \/ \E id \in Ids, kind \in Kinds : PushBuffer(t, id, kind) \/ BrokerReturn(t, id, kind)
    PROVE  Unannounced
  <1>1. calls \in [Threads -> Frames] /\ available' = available /\ calls[t].pc # "notify"
    BY DEF IInv, TypeOK, SpuriousWakeup, OfferToBroker, PushAttached, ForceDetach, PushBuffer, BrokerReturn
  <1>2. CASE \A u \in Threads : calls'[u] = calls[u] \/ (u = t /\ calls'[u].pc # "notify")
    BY <1>1, <1>2 DEF Unannounced, SameNotify
  <1>3. CASE SpuriousWakeup(t) \/ OfferToBroker(t) \/ ForceDetach(t)
    BY <1>1, <1>2, <1>3 DEF SpuriousWakeup, OfferToBroker, ForceDetach, Idle, Frames
  <1>4. CASE \E id \in Ids, kind \in Kinds : BrokerReturn(t, id, kind)
    BY <1>1, <1>2, <1>4 DEF BrokerReturn, Idle
  <1>5. ASSUME NEW id, NEW kind, NEW attach, PushLocked(t, id, kind, attach)
        PROVE  \A u \in Threads : calls'[u] = calls[u] \/ (u = t /\ calls'[u].pc # "notify")
    <2> DEFINE p == IF kind = "cancel" THEN "return" ELSE "broker"
               f == [Idle EXCEPT !.pc = p, !.id = id, !.kind = kind, !.attach = attach]
    <2>1. p # "notify"
      OBVIOUS
    <2>2. calls' = [calls EXCEPT ![t] = Idle] \/ calls' = [calls EXCEPT ![t] = f]
      BY <1>5, Zenon DEF PushLocked
    <2> HIDE DEF p
    <2>3. f.pc # "notify" /\ Idle.pc # "notify"
      BY <2>1 DEF Idle
    <2> HIDE DEF f
    <2>4. QED
      BY <1>1, <2>2, <2>3
  <1>6. CASE \E id \in Ids, kind \in Kinds : PushBuffer(t, id, kind)
    BY <1>2, <1>5, <1>6 DEF PushBuffer
  <1>7. CASE PushAttached(t)
    <2>1. CASE Fail(t)
      BY <1>1, <1>2, <2>1 DEF Fail, Idle, Frames
    <2>2. CASE PushLocked(t, calls[t].id, calls[t].kind, TRUE)
      BY <1>2, <1>5, <2>2, Zenon
    <2>3. QED
      BY <1>7, <2>1, <2>2, Zenon DEF PushAttached
  <1>8. QED
    BY <1>3, <1>4, <1>6, <1>7

\* AttachBuffer, with and without a change of the size, and its release.
LEMMA AttachUnannounced ==
    ASSUME IInv, NEW t \in Threads,
           \/ ReleaseAttached(t)
           \/ \E id \in Ids, buf \in Attachments, kind \in Fillings \cup {"release"} :
                 \/ AttachBuffer(t, id, buf, kind)
                 \/ \E n \in 0 .. MAX_QUEUE_SIZE : SetQueueSizeAndAttachBuffer(t, n, id, buf, kind)
    PROVE  Unannounced
  <1>1. calls \in [Threads -> Frames]
    BY DEF IInv, TypeOK
  <1>2. CASE ReleaseAttached(t)
    <2> DEFINE done == [calls EXCEPT ![t] = Idle]
    <2>1. available' = available /\ calls[t].pc # "notify"
      BY <1>2 DEF ReleaseAttached
    <2>2. done \in [Threads -> Frames] /\ SameNotify(calls, done)
      BY <1>1, <2>1, NotifyKept
    <2>3. calls' = done \/ calls' = NotifyAll(done)
      BY <1>2 DEF ReleaseAttached, ReleaseLocked
    <2> HIDE DEF done
    <2>4. QED
      BY <2>1, <2>2, <2>3, NotifyKept, SameNotifyTwice DEF Unannounced
  <1>3. ASSUME NEW q, NEW c \in [Threads -> Frames], SameNotify(calls, c), NEW id, NEW buf, NEW kind,
               Attach(t, q, c, id, buf, kind)
        PROVE  Unannounced
    <2> DEFINE f == [Idle EXCEPT !.pc = "attached", !.id = id, !.kind = kind, !.attach = TRUE]
    <2>1. available' = available /\ calls[t].pc # "notify" /\ (calls' = c \/ calls' = [c EXCEPT ![t] = f])
      BY <1>3 DEF Attach
    <2>2. f.pc # "notify"
      BY DEF Idle
    <2> HIDE DEF f
    <2>3. QED
      BY <1>3, <2>1, <2>2 DEF Unannounced, SameNotify
  <1>4. \A n : NotifyGrown(n) \in [Threads -> Frames] /\ SameNotify(calls, NotifyGrown(n))
    BY <1>1, NotifyKept DEF NotifyGrown
  <1>5. SameNotify(calls, calls)
    BY <1>1, NotifyKept
  <1>6. QED
    BY <1>1, <1>2, <1>3, <1>4, <1>5 DEF AttachBuffer, SetQueueSizeAndAttachBuffer

\* What announces buffers, and what does not.
LEMMA NextAnnounces ==
    ASSUME CalmClients, IInv, [Next]_vars
    PROVE  \/ Unannounced
           \/ AcquireBuffer \/ AcquireNothing
           \/ \E t \in Threads : NotifyConsumer(t)
           \/ UNCHANGED available /\ \E t \in Threads : Files(t)
  <1>1. calls \in [Threads -> Frames]
    BY DEF IInv, TypeOK
  <1>2. ASSUME UNCHANGED <<calls, available>> PROVE Unannounced
    BY <1>1, <1>2, NotifyKept DEF Unannounced
  <1>3. ASSUME UNCHANGED available, calls' = NotifyAll(calls) PROVE Unannounced
    BY <1>1, <1>3, NotifyKept DEF Unannounced
  <1>4. CASE OtherStep
    <2>1. CASE \E id \in Ids : DetachBuffer(id) \/ ReleaseBuffer(id)
      BY <1>2, <1>3, <2>1 DEF DetachBuffer, ReleaseBuffer, ReleaseLocked
    <2>2. CASE \E n \in 0 .. MAX_QUEUE_SIZE : SetQueueSize(n)
      BY <1>2, <1>3, <2>2 DEF SetQueueSize, NotifyGrown
    <2>3. CASE Clear \/ \E S \in SUBSET Ids : ClearBufferIf(S)
      BY <2>3 DEF Clear, ClearBufferIf, CalmClients
    <2>4. CASE \E b \in Brokers : SetBrokerListener(b) \/ RemoveBrokerListener(b)
      BY <1>2, <2>4 DEF SetBrokerListener, RemoveBrokerListener
    <2>5. CASE SetConsumerListener
      BY <2>5 DEF SetConsumerListener, IInv
    <2>6. QED
      BY <1>4, <2>1, <2>2, <2>3, <2>4, <2>5 DEF OtherStep
  <1>5. ASSUME NEW t \in Threads, ReturnBuffer(t)
        PROVE  Unannounced \/ (UNCHANGED available /\ Files(t))
    <2>1. calls[t].pc = "return" /\ available' = available
      BY <1>5 DEF ReturnBuffer
    <2>2. CASE calls' = [calls EXCEPT ![t] = Idle] \/ Fail(t)
      BY <1>1, <2>1, <2>2 DEF Unannounced, SameNotify, Fail, Idle, Frames
    <2>3. CASE calls' = [NotifyAll(calls) EXCEPT ![t] = Idle]
      <3>1. \A u \in Threads : NotifyAll(calls)[u].pc = "notify" <=> calls[u].pc = "notify"
        BY <1>1, NotifyKept DEF SameNotify
      <3>2. NotifyAll(calls) \in [Threads -> Frames] /\ Idle.pc = "idle"
        BY <1>1, NotifyKept
      <3>3. QED
        BY <2>1, <2>3, <3>1, <3>2 DEF Unannounced, SameNotify
    <2>4. CASE calls' = [calls EXCEPT ![t].pc = "notify"]
      BY <1>1, <2>1, <2>4 DEF Files, Frames
    <2>5. QED
      BY <1>5, <2>2, <2>3, <2>4 DEF ReturnBuffer
  <1>6. ASSUME NEW t \in Threads, ThreadStep(t)
        PROVE  \/ Unannounced \/ NotifyConsumer(t) \/ ReturnBuffer(t)
    BY <1>6, RequestUnannounced, PushUnannounced, AttachUnannounced DEF ThreadStep
  <1>7. CASE UNCHANGED vars
    BY <1>2, <1>7 DEF vars
  <1>8. QED
    BY <1>4, <1>5, <1>6, <1>7 DEF Next

\* A step files at most one filled buffer.
LEMMA DirtyLength ==
    ASSUME IInv, IInv', Moves
    PROVE  /\ Len(queue.dirty) \in Nat /\ Len(queue'.dirty) \in Nat
           /\ Len(queue'.dirty) <= Len(queue.dirty) + 1
           /\ FillStep \/ Len(queue'.dirty) <= Len(queue.dirty)
  <1>1. /\ queue.dirty \in Seq(Ids) /\ Len(queue.dirty) \in Nat
        /\ queue'.dirty \in Seq(Ids) /\ Len(queue'.dirty) \in Nat
    BY DEF IInv, QueueOk, QueueType
  <1>2. CASE FillStep
    BY <1>1, <1>2 DEF FillStep, Filled
  <1>3. CASE TakeStep
    BY <1>1, <1>3 DEF TakeStep, Taken
  <1>4. ASSUME NEW x, NEW f, NEW d, Trimmed(queue, x, f, d), queue'.dirty = x.dirty
        PROVE  Len(queue'.dirty) <= Len(queue.dirty)
    BY <1>1, <1>4 DEF Trimmed
  <1>5. CASE TrimStep
    BY <1>1, <1>4, <1>5 DEF TrimStep
  <1>6. CASE AdoptStep
    BY <1>1, <1>4, <1>6 DEF AdoptStep, Adopted, NewBuffer, Added, SameLists
  <1>7. CASE queue'.dirty = queue.dirty
    BY <1>1, <1>7
  <1>8. StillStep \/ AllocStep \/ ReuseStep \/ ReplaceStep \/ DropStep \/ PushStep \/ PassStep
        \/ RemoveStep \/ FreeStep => queue'.dirty = queue.dirty
    BY DEF StillStep, Still, AllocStep, ReuseStep, Reused, ReplaceStep, Replaced, DropStep, Dropped,
           NewBuffer, Added, PushStep, PassStep, Passed, RemoveStep, Removed, FreeStep, Freed, SameLists
  <1>9. QED
    BY <1>1, <1>2, <1>3, <1>5, <1>6, <1>7, <1>8 DEF Moves

\* How the set of announcing threads changes.
LEMMA NotifyingChanges ==
    ASSUME calls \in [Threads -> Frames]
    PROVE  /\ Cardinality(Notifying(calls)) \in Nat
           /\ SameNotify(calls, calls') => Notifying(calls') = Notifying(calls)
           /\ \A t \in Threads :
                 /\ Files(t) => Cardinality(Notifying(calls')) = Cardinality(Notifying(calls)) + 1
                 /\ calls[t].pc = "notify" /\ calls' = [calls EXCEPT ![t] = Idle] =>
                       Cardinality(Notifying(calls')) = Cardinality(Notifying(calls)) - 1
  <1>1. Notifying(calls) \subseteq Threads
    BY DEF Notifying
  <1>2. IsFiniteSet(Notifying(calls)) /\ Cardinality(Notifying(calls)) \in Nat
    BY <1>1, ThreadsAssumption, FS_Subset, FS_CardinalityType
  <1>3. SameNotify(calls, calls') => Notifying(calls') = Notifying(calls)
    BY DEF SameNotify, Notifying
  <1>4. ASSUME NEW t \in Threads, Files(t)
        PROVE  Cardinality(Notifying(calls')) = Cardinality(Notifying(calls)) + 1
    <2>1. Notifying(calls') = Notifying(calls) \cup {t} /\ t \notin Notifying(calls)
      BY <1>4 DEF Files, Notifying
    <2>2. QED
      BY <1>2, <2>1, FS_AddElement
  <1>5. ASSUME NEW t \in Threads, calls[t].pc = "notify", calls' = [calls EXCEPT ![t] = Idle]
        PROVE  Cardinality(Notifying(calls')) = Cardinality(Notifying(calls)) - 1
    <2>1. Notifying(calls') = Notifying(calls) \ {t} /\ t \in Notifying(calls)
      BY <1>5 DEF Notifying, Idle
    <2>2. QED
      BY <1>2, <2>1, FS_RemoveElement
  <1>6. QED
    BY <1>2, <1>3, <1>4, <1>5

\* The dirty list has no more elements than there are buffers.
LEMMA DirtyBound ==
    ASSUME IInv
    PROVE  Len(queue.dirty) <= Cardinality(Ids) /\ Cardinality(Ids) \in Nat
  <1>1. queue.dirty \in Seq(Ids) /\ IsInjective(queue.dirty)
    BY DEF IInv, QueueOk, QueueType, ListsOk
  <1>2. Cardinality(ToSet(queue.dirty)) = Len(queue.dirty) /\ ToSet(queue.dirty) \subseteq Ids
    BY <1>1, InjectiveCount, ToSetElements
  <1>3. QED
    BY <1>2, IdsAssumption, FS_Subset, FS_CardinalityType

\* No filled buffer is forgotten: a push that has filed its buffer and not yet
\* called OnBufferAvailable, calls that the consumer has not served and calls it
\* serves in vain add up to at least the number of filled buffers, however the
\* threads interleave between the unlock and the call.
THEOREM FilledStayAnnounced ==
    ASSUME CalmClients
    PROVE  Spec => []Announced
  <1>1. Announced <=> Len(queue.dirty) <= available + Cardinality(Notifying(calls))
    BY DEF Announced, Notifying
  <1>2. Init => Announced
    <2> SUFFICES ASSUME Init PROVE Len(queue.dirty) <= available + Cardinality(Notifying(calls))
      BY <1>1
    <2>1. Notifying(calls) = {} /\ queue.dirty = <<>> /\ available = 0
      BY DEF Init, Notifying, Idle
    <2>2. Cardinality({}) = 0 /\ Len(<<>>) = 0
      BY FS_EmptySet
    <2>3. QED
      BY <2>1, <2>2
  <1>3. MInv /\ MInv' /\ Announced /\ [Next]_vars => Announced'
    <2> SUFFICES ASSUME MInv, MInv', [Next]_vars,
                        Len(queue.dirty) <= available + Cardinality(Notifying(calls))
                 PROVE  Len(queue'.dirty) <= available' + Cardinality(Notifying(calls'))
      BY DEF Announced, Notifying
    <2> DEFINE n == Cardinality(Notifying(calls))
               m == Cardinality(Notifying(calls'))
    <2>1. /\ IInv /\ IInv' /\ Moves
          /\ available \in Nat /\ available' \in Nat /\ calls \in [Threads -> Frames]
      BY NextMoves DEF MInv, IInv, TypeOK
    <2>2. /\ Len(queue.dirty) \in Nat /\ Len(queue'.dirty) \in Nat
          /\ Len(queue'.dirty) <= Len(queue.dirty) + 1
          /\ FillStep \/ Len(queue'.dirty) <= Len(queue.dirty)
      BY <2>1, DirtyLength
    <2>3. n \in Nat
      BY <2>1, NotifyingChanges
    <2>4. CASE Unannounced
      <3>1. m = n /\ available' = available /\ ~FillStep
        BY <2>1, <2>4, NotifyingChanges DEF Unannounced, FillStep, SameNotify
      <3> HIDE DEF n, m
      <3>2. QED
        BY <2>1, <2>2, <2>3, <3>1 DEF n, m
    <2>5. CASE UNCHANGED available /\ \E t \in Threads : Files(t)
      <3>1. m = n + 1 /\ available' = available
        BY <2>1, <2>5, NotifyingChanges
      <3>2. QED
        BY <2>1, <2>2, <2>3, <3>1
    <2>6. CASE AcquireBuffer \/ AcquireNothing
      <3>1. m = n
        <4>1. SameNotify(calls, calls')
          BY <2>6 DEF AcquireBuffer, AcquireNothing, SameNotify
        <4>2. QED
          BY <2>1, <4>1, NotifyingChanges
      <3>2. CASE AcquireBuffer
        <4>1. /\ queue.dirty \in Seq(Ids) /\ queue.dirty # <<>>
              /\ available' = IF available > 0 THEN available - 1 ELSE 0
          BY <2>1, <3>2 DEF AcquireBuffer, IInv, QueueOk, QueueType
        <4>2. queue'.dirty = Tail(queue.dirty)
          BY <2>1, <3>2 DEF AcquireBuffer, IInv, QueueOk, QueueType, SetState
        <4>3. Len(queue'.dirty) = Len(queue.dirty) - 1
          BY <4>1, <4>2
        <4>4. QED
          BY <2>1, <2>2, <2>3, <3>1, <4>1, <4>3
      <3>3. CASE AcquireNothing
        <4>1. queue'.dirty = <<>>
          BY <3>3 DEF AcquireNothing
        <4>2. Len(queue'.dirty) = 0
          BY <4>1
        <4>3. QED
          BY <2>1, <2>3, <3>1, <4>2
      <3>4. QED
        BY <2>6, <3>2, <3>3
    <2>7. CASE \E t \in Threads : NotifyConsumer(t)
      <3>1. PICK t \in Threads : NotifyConsumer(t)
        BY <2>7
      <3>2. /\ calls[t].pc = "notify" /\ calls' = [calls EXCEPT ![t] = Idle]
            /\ available' = Min({available + 1, Cardinality(Ids)}) /\ queue' = queue
        BY <2>1, <3>1 DEF NotifyConsumer, IInv
      <3>3. m = n - 1 /\ m \in Nat
        <4>1. m = n - 1
          BY <2>1, <3>2, NotifyingChanges
        <4>2. n # 0
          <5>1. t \in Notifying(calls) /\ Notifying(calls) \subseteq Threads
            BY <3>2 DEF Notifying
          <5>2. IsFiniteSet(Notifying(calls))
            BY <5>1, ThreadsAssumption, FS_Subset
          <5>3. QED
            BY <5>1, <5>2, FS_EmptySet
        <4>3. QED
          BY <2>3, <4>1, <4>2
      <3>4. Len(queue.dirty) <= Cardinality(Ids) /\ Cardinality(Ids) \in Nat
        BY <2>1, DirtyBound
      <3>5. available' = available + 1 \/ available' = Cardinality(Ids)
        BY <2>1, <3>2, <3>4, MinOfTwo
      <3> HIDE DEF n, m
      <3>6. QED
        BY <2>1, <2>2, <2>3, <3>2, <3>3, <3>4, <3>5 DEF n, m
    <2>8. QED
      BY <2>1, <2>4, <2>5, <2>6, <2>7, NextAnnounces
  <1>4. QED
    BY <1>2, <1>3, MInvHolds, PTL DEF Spec
-----------------------------------------------------------------------------
(* The memory account                                                       *)

\* The part of the type that says what the map is.
MapType(q) ==
    /\ DOMAIN q = {"cached", "free", "dirty", "size", "memoryType", "used"}
    /\ DOMAIN q.cached \subseteq Ids
    /\ q.cached \in [DOMAIN q.cached -> Elements]

Capacities(q) == [id \in DOMAIN q.cached |-> q.cached[id].cap]

\* memoryUsage_ is right for q.
Accounted(q) == MapType(q) /\ q.used = Volume(Capacities(q), DOMAIN q.cached)

\* The same buffers with the same capacities, and the same account.
SameAccount(q, r) ==
    /\ MapType(r)
    /\ r.used = q.used
    /\ DOMAIN r.cached = DOMAIN q.cached
    /\ \A id \in DOMAIN q.cached : r.cached[id].cap = q.cached[id].cap

\* The capacities of the map are natural numbers.
LEMMA CapacitiesType ==
    ASSUME NEW q, MapType(q)
    PROVE  /\ IsFiniteSet(DOMAIN q.cached)
           /\ Capacities(q) \in [DOMAIN q.cached -> Nat]
           /\ \A id \in DOMAIN q.cached : Capacities(q)[id] = q.cached[id].cap /\ q.cached[id].cap \in Nat
           /\ Volume(Capacities(q), DOMAIN q.cached) \in Nat
  <1>1. IsFiniteSet(DOMAIN q.cached)
    BY IdsAssumption, FS_Subset DEF MapType
  <1>2. \A id \in DOMAIN q.cached : Capacities(q)[id] = q.cached[id].cap /\ q.cached[id].cap \in Nat
    BY DEF MapType, Capacities, Elements
  <1>3. Capacities(q) \in [DOMAIN q.cached -> Nat]
    BY <1>2 DEF Capacities
  <1>4. QED
    BY <1>1, <1>2, <1>3, UnitsFinite

\* What leaves buffers and account alone leaves the account right.
LEMMA SameAccounted ==
    ASSUME NEW q, Accounted(q), NEW r, SameAccount(q, r)
    PROVE  Accounted(r)
  <1>1. \A id \in DOMAIN q.cached : Capacities(r)[id] = Capacities(q)[id]
    BY DEF SameAccount, Capacities
  <1>2. Volume(Capacities(r), DOMAIN q.cached) = Volume(Capacities(q), DOMAIN q.cached)
    BY <1>1, VolumeSame
  <1>3. QED
    BY <1>2 DEF Accounted, SameAccount

\* A new buffer is added to the account.
LEMMA AddAccounted ==
    ASSUME NEW q, Accounted(q), NEW id \in Ids \ DOMAIN q.cached, NEW e \in Elements
    PROVE  Accounted(AddCached(q, id, e))
  <1> PICK r : r = AddCached(q, id, e)
    OBVIOUS
  <1> PICK D : D = DOMAIN q.cached
    OBVIOUS
  <1>1. /\ MapType(r) /\ r.used = q.used + e.cap /\ DOMAIN r.cached = D \cup {id}
        /\ r.cached[id] = e /\ \A i \in D : r.cached[i] = q.cached[i]
    BY DEF AddCached, Accounted, MapType
  <1>2. IsFiniteSet(D) /\ \A i \in D : Capacities(q)[i] = q.cached[i].cap
    BY CapacitiesType DEF Accounted
  <1>3. \A i \in D \cup {id} : Capacities(r)[i] = r.cached[i].cap /\ Capacities(r)[i] \in Nat
    BY <1>1, CapacitiesType
  <1>4. IsFiniteSet({id}) /\ D \cap {id} = {}
    BY FS_Singleton
  <1>5. Volume(Capacities(r), D \cup {id}) = Volume(Capacities(r), D) + Volume(Capacities(r), {id})
    BY <1>2, <1>3, <1>4, VolumeOfUnion
  <1>6. Volume(Capacities(r), {id}) = e.cap
    <2>1. Capacities(r)[id] = e.cap /\ Capacities(r)[id] \in Nat
      BY <1>1, <1>3
    <2>2. QED
      BY <2>1, VolumeOfOne
  <1>7. Volume(Capacities(r), D) = Volume(Capacities(q), D)
    <2>1. \A i \in D : Capacities(r)[i] = Capacities(q)[i]
      BY <1>1, <1>2, <1>3
    <2>2. QED
      BY <2>1, VolumeSame
  <1>8. QED
    BY <1>1, <1>5, <1>6, <1>7 DEF Accounted

\* TotalMemoryCalculation(false, ...) for the ids of S, in any order, takes
\* off what these buffers have: it never finds the account too small.
LEMMA UsedWithoutVolume ==
    ASSUME NEW q, Accounted(q), NEW S, S \subseteq DOMAIN q.cached
    PROVE  UsedWithout(q, S) = q.used - Volume(Capacities(q), S)
  <1> PICK c : c = Capacities(q)
    OBVIOUS
  <1>1. /\ IsFiniteSet(DOMAIN q.cached) /\ IsFiniteSet(S) /\ q.used \in Nat
        /\ q.used = Volume(c, DOMAIN q.cached)
        /\ \A id \in DOMAIN q.cached : c[id] = q.cached[id].cap /\ c[id] \in Nat
    BY CapacitiesType, FS_Subset DEF Accounted
  <1> PICK w : w = [s \in SUBSET S |-> q.used - Volume(c, s)]
    OBVIOUS
  <1> DEFINE R(g) == [s \in SUBSET S |->
                        IF s = {} THEN q.used
                        ELSE SubtractMemory(g[s \ {CHOOSE x \in s : TRUE}],
                                            Elem(q, CHOOSE x \in s : TRUE).cap)]
             iter == CHOOSE g : g = R(g)
  <1>2. UsedWithout(q, S) = iter[S]
    BY DEF UsedWithout, FoldSet, MapThenFoldSet
  <1>3. Volume(c, {}) = 0
    <2>1. Units(c, {}) = {}
      BY DEF Units
    <2>2. QED
      BY <2>1, FS_EmptySet DEF Volume
  <1>4. ASSUME NEW s \in SUBSET S, NEW x \in s
        PROVE  /\ w[s] = SubtractMemory(w[s \ {x}], Elem(q, x).cap)
               /\ Cardinality(s \ {x}) < Cardinality(s)
    <2>1. IsFiniteSet(s) /\ Cardinality(s) \in Nat /\ Cardinality(s \ {x}) = Cardinality(s) - 1
      BY <1>1, FS_Subset, FS_RemoveElement, FS_CardinalityType
    <2>2. \A y \in s : c[y] \in Nat
      BY <1>1
    <2>3. Volume(c, s) = c[x] + Volume(c, s \ {x}) /\ Volume(c, s \ {x}) \in Nat
      BY <2>1, <2>2, VolumeWithout
    <2>4. Volume(c, s) <= q.used
      <3>1. s \subseteq DOMAIN q.cached
        OBVIOUS
      <3>2. QED
        BY <1>1, <3>1, VolumeOfPart
    <2>5. Elem(q, x).cap = c[x] /\ c[x] \in Nat
      BY <1>1 DEF Elem
    <2>6. w[s] = q.used - Volume(c, s) /\ w[s \ {x}] = q.used - Volume(c, s \ {x})
      OBVIOUS
    <2>7. QED
      BY <1>1, <2>1, <2>3, <2>4, <2>5, <2>6 DEF SubtractMemory
  <1>5. w = R(w)
    <2>1. ASSUME NEW s \in SUBSET S PROVE w[s] = R(w)[s]
      <3>1. CASE s = {}
        BY <1>1, <1>3, <3>1
      <3>2. CASE s # {}
        <4> PICK x : x = CHOOSE y \in s : TRUE
          OBVIOUS
        <4>1. x \in s
          BY <3>2
        <4>2. R(w)[s] = SubtractMemory(w[s \ {x}], Elem(q, x).cap)
          BY <3>2
        <4>3. QED
          BY <1>4, <4>1, <4>2
      <3>3. QED
        BY <3>1, <3>2
    <2>2. QED
      BY <2>1
  <1>6. iter = R(iter)
    <2> HIDE DEF R
    <2> QED
      BY <1>5, Zenon
  <1> HIDE DEF iter
  <1>7. ASSUME NEW s \in SUBSET S,
               \A r \in SUBSET S : Cardinality(r) < Cardinality(s) => iter[r] = w[r]
        PROVE  iter[s] = w[s]
    <2>1. CASE s = {}
      BY <1>1, <1>3, <1>6, <2>1
    <2>2. CASE s # {}
      <3> PICK x : x = CHOOSE y \in s : TRUE
        OBVIOUS
      <3>1. x \in s
        BY <2>2
      <3>2. iter[s] = SubtractMemory(iter[s \ {x}], Elem(q, x).cap)
        BY <1>6, <2>2
      <3>3. iter[s \ {x}] = w[s \ {x}]
        BY <1>4, <1>7, <3>1
      <3>4. QED
        BY <1>4, <3>1, <3>2, <3>3
    <2>3. QED
      BY <2>1, <2>2
  <1>8. \A s \in SUBSET S : iter[s] = w[s]
    <2> HIDE DEF R
    <2> QED
      BY ONLY <1>1, <1>7, SubsetsAgree
  <1>9. QED
    BY <1>2, <1>8

\* The ids of S, all of them in the map, are taken out and off the account.
LEMMA DeleteAccounted ==
    ASSUME NEW q, Accounted(q), NEW S, S \subseteq DOMAIN q.cached
    PROVE  Accounted(DeleteCachedBuffers(q, S))
  <1> PICK r : r = DeleteCachedBuffers(q, S)
    OBVIOUS
  <1> PICK D : D = DOMAIN q.cached \ S
    OBVIOUS
  <1>1. /\ MapType(r) /\ r.used = UsedWithout(q, S) /\ DOMAIN r.cached = D
        /\ \A i \in D : r.cached[i] = q.cached[i]
    BY DEF DeleteCachedBuffers, Accounted, MapType, Restrict
  <1>2. /\ IsFiniteSet(DOMAIN q.cached) /\ q.used = Volume(Capacities(q), DOMAIN q.cached)
        /\ \A i \in DOMAIN q.cached : Capacities(q)[i] = q.cached[i].cap /\ Capacities(q)[i] \in Nat
    BY CapacitiesType DEF Accounted
  <1>3. /\ IsFiniteSet(D) /\ IsFiniteSet(S) /\ D \cap S = {} /\ D \cup S = DOMAIN q.cached
    BY <1>2, FS_Subset
  <1>4. Volume(Capacities(q), D \cup S) = Volume(Capacities(q), D) + Volume(Capacities(q), S)
    BY <1>2, <1>3, VolumeOfUnion
  <1>5. Volume(Capacities(q), D) \in Nat /\ Volume(Capacities(q), S) \in Nat
    BY <1>2, <1>3, UnitsFinite
  <1>6. Volume(Capacities(r), D) = Volume(Capacities(q), D)
    <2>1. \A i \in D : Capacities(r)[i] = Capacities(q)[i]
      BY <1>1, <1>2 DEF Capacities
    <2>2. QED
      BY <2>1, VolumeSame
  <1>7. UsedWithout(q, S) = q.used - Volume(Capacities(q), S)
    BY UsedWithoutVolume
  <1>8. r.used = Volume(Capacities(r), D)
    <2>1. q.used = Volume(Capacities(q), D) + Volume(Capacities(q), S)
      BY <1>2, <1>3, <1>4
    <2>2. r.used = q.used - Volume(Capacities(q), S)
      BY <1>1, <1>7
    <2>3. r.used = Volume(Capacities(q), D)
      BY <1>5, <2>1, <2>2
    <2>4. QED
      BY <1>6, <2>3
  <1>9. QED
    BY <1>1, <1>8 DEF Accounted

\* Changes of the lists, the size and the memory type do not matter.
LEMMA ListsAccounted ==
    ASSUME NEW q, Accounted(q), NEW x
    PROVE  /\ Accounted([q EXCEPT !.free = x])
           /\ Accounted([q EXCEPT !.dirty = x])
           /\ Accounted([q EXCEPT !.size = x])
           /\ Accounted([q EXCEPT !.memoryType = x])
  <1>1. SameAccount(q, [q EXCEPT !.free = x]) /\ SameAccount(q, [q EXCEPT !.dirty = x])
    BY DEF Accounted, MapType, SameAccount
  <1>2. SameAccount(q, [q EXCEPT !.size = x]) /\ SameAccount(q, [q EXCEPT !.memoryType = x])
    BY DEF Accounted, MapType, SameAccount
  <1>3. QED
    BY <1>1, <1>2, SameAccounted

\* Nor does a new state of an element.
LEMMA SetStateAccounted ==
    ASSUME NEW q, Accounted(q), NEW id \in DOMAIN q.cached, NEW s \in States
    PROVE  Accounted(SetState(q, id, s))
  <1>1. SameAccount(q, SetState(q, id, s))
    BY DEF Accounted, MapType, SameAccount, SetState, Elements
  <1>2. QED
    BY <1>1, SameAccounted

\* Nor does looking at buffers of the map.
LEMMA TouchAccounted ==
    ASSUME NEW q, Accounted(q), QueueType(q), NEW S, S \subseteq DOMAIN q.cached
    PROVE  Accounted(Touch(q, S))
  <1>1. SameAccount(q, Touch(q, S))
    <2>1. Touch(q, S).cached = q.cached /\ QueueType(Touch(q, S))
      BY TouchLemma
    <2>2. Touch(q, S).used = q.used
      BY DEF Touch, Accounted, MapType
    <2>3. QED
      BY <2>1, <2>2 DEF SameAccount, MapType, QueueType
  <1>2. QED
    BY <1>1, SameAccounted

\* Nor does the insertion into the free list.
LEMMA InsertFreeAccounted ==
    ASSUME NEW q, Accounted(q), QueueType(q), NEW id \in DOMAIN q.cached,
           ToSet(q.free) \subseteq DOMAIN q.cached
    PROVE  Accounted(InsertFreeBufferInOrder(q, id))
  <1> PICK r : r = InsertFreeBufferInOrder(q, id)
    OBVIOUS
  <1>1. r.cached = q.cached /\ QueueType(r)
    BY InsertFreeLemma
  <1>2. r.used = q.used
    <2>1. ASSUME NEW S, NEW x PROVE [Touch(q, S) EXCEPT !.free = x].used = q.used
      BY DEF Touch, Accounted, MapType
    <2>2. QED
      BY <2>1 DEF InsertFreeBufferInOrder
  <1>3. SameAccount(q, r)
    BY <1>1, <1>2 DEF SameAccount, MapType, QueueType
  <1>4. QED
    BY <1>3, SameAccounted

\* Marking keeps the capacities.
LEMMA MarkAccounted ==
    ASSUME NEW q, Accounted(q), NEW S
    PROVE  Accounted([q EXCEPT !.cached = MarkDeleting(@, S)])
  <1> PICK m : m = MarkDeleting(q.cached, S)
    OBVIOUS
  <1> PICK r : r = [q EXCEPT !.cached = m]
    OBVIOUS
  <1>1. m \in [DOMAIN q.cached -> Elements]
    BY MarkLemma DEF Accounted, MapType
  <1>2. \A id \in DOMAIN q.cached : m[id].cap = q.cached[id].cap
    BY DEF MarkDeleting, Accounted, MapType, Elements
  <1>3. r.cached = m /\ r.used = q.used /\ DOMAIN r = DOMAIN q
    BY DEF Accounted, MapType
  <1>4. SameAccount(q, r)
    BY <1>1, <1>2, <1>3 DEF SameAccount, Accounted, MapType
  <1>5. QED
    BY <1>4, SameAccounted

\* Making room: what the two lists give up is taken off the account.
LEMMA DeleteBuffersAccounted ==
    ASSUME NEW q, Accounted(q), QueueOk(q), NEW n \in Nat
    PROVE  Accounted(DeleteBuffers(q, n))
  <1> DEFINE f == Min({n, Len(q.free)})
             d == Min({n - f, Len(q.dirty)})
             S == ToSet(SubSeq(q.free, 1, f)) \cup ToSet(SubSeq(q.dirty, 1, d))
             x == DeleteCachedBuffers(q, S)
             marked == FirstIds(DOMAIN x.cached, n - f - d)
             y == [x EXCEPT !.free = SubSeq(@, f + 1, Len(@))]
             z == [y EXCEPT !.dirty = SubSeq(@, d + 1, Len(@))]
             r == [z EXCEPT !.cached = MarkDeleting(@, marked)]
  <1>1. /\ q.free \in Seq(Ids) /\ IsInjective(q.free) /\ Len(q.free) \in Nat
        /\ q.dirty \in Seq(Ids) /\ IsInjective(q.dirty) /\ Len(q.dirty) \in Nat
    BY ToSetElements DEF QueueOk, QueueType, ListsOk
  <1>2. f \in 0 .. Len(q.free) /\ n - f \in Nat
    BY <1>1, MinOfTwo
  <1> HIDE DEF f
  <1>3. d \in 0 .. Len(q.dirty)
    BY <1>1, <1>2, MinOfTwo
  <1> HIDE DEF d
  <1>4. ToSet(SubSeq(q.free, 1, f)) \subseteq ToSet(q.free)
    BY <1>1, <1>2, CutProperties
  <1>5. ToSet(SubSeq(q.dirty, 1, d)) \subseteq ToSet(q.dirty)
    BY <1>1, <1>3, CutProperties
  <1>6. S \subseteq DOMAIN q.cached
    BY <1>4, <1>5, ListedStates DEF QueueOk
  <1> HIDE DEF S
  <1>7. Accounted(x)
    BY <1>6, DeleteAccounted
  <1>8. DeleteBuffers(q, n) = [x EXCEPT !.free = SubSeq(@, f + 1, Len(@)),
                                        !.dirty = SubSeq(@, d + 1, Len(@)),
                                        !.cached = MarkDeleting(@, marked)]
    BY DEF DeleteBuffers, S, f, d
  <1> HIDE DEF x, marked
  <1>9. Accounted(y)
    BY <1>7, ListsAccounted
  <1>10. DOMAIN x = {"cached", "free", "dirty", "size", "memoryType", "used"}
    BY <1>7 DEF Accounted, MapType
  <1>11. DeleteBuffers(q, n) = r
    BY <1>8, <1>10
  <1> HIDE DEF y
  <1>12. Accounted(z)
    BY <1>9, ListsAccounted
  <1> HIDE DEF z
  <1>13. Accounted(r)
    BY <1>12, MarkAccounted
  <1>14. QED
    BY <1>11, <1>13

\* SetQueueSize
LEMMA ResizeAccounted ==
    ASSUME NEW q, Accounted(q), QueueOk(q), NEW n \in Nat
    PROVE  Accounted(Resize(q, n))
  <1>1. q.size \in Nat
    BY DEF QueueOk, QueueType
  <1>2. CASE n > q.size
    BY <1>2, ListsAccounted DEF Resize
  <1>3. CASE ~(n > q.size)
    <2>1. q.size - n \in Nat
      BY <1>1, <1>3
    <2>2. Accounted(DeleteBuffers(q, q.size - n))
      BY <2>1, DeleteBuffersAccounted
    <2>3. QED
      BY <1>3, <2>2, ListsAccounted DEF Resize
  <1>4. QED
    BY <1>2, <1>3

\* The locked part of AttachBuffer
LEMMA AttachAccounted ==
    ASSUME NEW q, Accounted(q), QueueOk(q), NEW id \in Ids \ DOMAIN q.cached, NEW buf \in Attachments
    PROVE  Accounted(AttachAvailableBufferLocked(q, id, buf))
  <1> DEFINE n == GetCachedBufferCount(q) - q.size + 1
             x == IF GetCachedBufferCount(q) < q.size THEN q ELSE DeleteBuffers(q, n)
             e == [cap |-> buf.size, mem |-> buf.mem, form |-> buf.form, state |-> "ATTACHED", isDeleting |-> FALSE]
  <1>1. GetCachedBufferCount(q) \in Nat /\ q.size \in Nat
    BY CountType DEF QueueOk, QueueType
  <1>2. Accounted(x) /\ DOMAIN x.cached \subseteq DOMAIN q.cached
    <2>1. CASE GetCachedBufferCount(q) < q.size
      BY <2>1
    <2>2. CASE ~(GetCachedBufferCount(q) < q.size)
      <3>1. n \in Nat
        BY <1>1, <2>2
      <3>2. QED
        BY <2>2, <3>1, DeleteBuffersOk, DeleteBuffersAccounted
    <2>3. QED
      BY <2>1, <2>2
  <1>3. e \in Elements
    BY SizesAssumption DEF Attachments, Elements, States
  <1>4. AttachAvailableBufferLocked(q, id, buf) = AddCached(x, id, e)
    BY DEF AttachAvailableBufferLocked
  <1> HIDE DEF x, e
  <1>5. QED
    BY <1>2, <1>3, <1>4, AddAccounted

\* AllocBuffer accounts for the buffer it adds.
LEMMA AllocAccounted ==
    ASSUME NEW q, Accounted(q), DOMAIN q.cached \subseteq Cached,
           NEW req \in Requests, req.mem \in MemoryTypes, req.size \in Sizes, AllocBuffer(q, req)
    PROVE  Accounted(queue')
  <1>1. CASE \E id \in FreshIds : queue' = AllocRequested(q, id, req)
    <2>1. PICK id \in FreshIds : queue' = AllocRequested(q, id, req)
      BY <1>1
    <2> PICK e : e = [cap |-> req.size, mem |-> req.mem, form |-> req.form, state |-> "REQUESTED", isDeleting |-> FALSE]
      OBVIOUS
    <2>2. e \in Elements
      BY SizesAssumption DEF Elements, Requests, States
    <2>3. queue' = AddCached(q, id, e)
      BY <2>1 DEF AllocRequested
    <2>4. id \in Ids \ DOMAIN q.cached
      BY DEF FreshIds
    <2>5. QED
      BY <2>2, <2>3, <2>4, AddAccounted
  <1>2. CASE queue' = q
    BY <1>2
  <1>3. QED
    BY <1>1, <1>2 DEF AllocBuffer

\* RequestBuffer from the free list: what it replaces is taken off the account.
LEMMA PopAccounted ==
    ASSUME NEW q, Accounted(q), QueueOk(q), DOMAIN q.cached \subseteq Cached,
           NEW req \in Requests, req.mem \in MemoryTypes, req.size \in Sizes,
           q.free # <<>>, PopAndReuse(q, req)
    PROVE  Accounted(queue')
  <1> DEFINE fits == {i \in DOMAIN q.free : Fits(req, Elem(q, q.free[i]))}
             at == IF fits = {} THEN 1 ELSE Min(fits)
             id == q.free[at]
             read == IF fits = {} THEN ToSet(q.free) ELSE {q.free[i] : i \in 1 .. at}
             popped == [Touch(q, read) EXCEPT !.free = RemoveAt(@, at)]
  <1>1. /\ q.free \in Seq(Ids) /\ DOMAIN q.free = 1 .. Len(q.free) /\ Len(q.free) \in Nat
        /\ \A j \in 1 .. Len(q.free) : q.free[j] \in ToSet(q.free)
    BY ToSetElements DEF QueueOk, QueueType
  <1>2. fits \subseteq DOMAIN q.free
    OBVIOUS
  <1>9. \/ queue' = popped
        \/ queue' = SetState(popped, id, "REQUESTED")
        \/ AllocBuffer(DeleteCachedBuffers(popped, {id}), req)
    <2>1. PopAndReuse(q, req) <=>
            \/ /\ Elem(q, id).mem = UNKNOWN_MEMORY
               /\ queue' = popped
               /\ UNCHANGED <<prodHeld, wanted>>
            \/ /\ Elem(q, id).mem # UNKNOWN_MEMORY
               /\ fits # {}
               /\ queue' = SetState(popped, id, "REQUESTED")
               /\ Hand(id, req)
            \/ /\ Elem(q, id).mem # UNKNOWN_MEMORY
               /\ fits = {}
               /\ AllocBuffer(DeleteCachedBuffers(popped, {id}), req)
      BY Zenon DEF PopAndReuse
    <2>2. QED
      BY <2>1, Zenon
  <1> HIDE DEF fits
  <1>3. at \in DOMAIN q.free
    <2>1. CASE fits = {}
      BY <1>1, <2>1
    <2>2. CASE fits # {}
      <3>1. fits \subseteq Nat
        BY <1>1, <1>2
      <3>2. Min(fits) \in fits
        BY <2>2, <3>1, MinOfNats, Zenon
      <3>3. at = Min(fits)
        BY <2>2, Zenon
      <3>4. QED
        BY <1>2, <3>2, <3>3, Zenon
    <2>3. QED
      BY <2>1, <2>2
  <1> HIDE DEF at
  <1>4. read \subseteq ToSet(q.free)
    <2>1. {q.free[i] : i \in 1 .. at} \subseteq ToSet(q.free)
      BY <1>1, <1>3
    <2>2. QED
      BY <2>1
  <1> HIDE DEF read
  <1>5. id \in DOMAIN popped.cached /\ DOMAIN popped.cached = DOMAIN q.cached
    <2>1. popped.cached = q.cached /\ id \in DOMAIN q.cached
      BY <1>3, <1>4, PopOk
    <2> HIDE DEF popped, id
    <2>2. QED
      BY <2>1
  <1>6. Accounted(popped)
    <2>1. read \subseteq DOMAIN q.cached
      BY <1>4, ListedStates DEF QueueOk
    <2>2. Accounted(Touch(q, read))
      BY <2>1, TouchAccounted DEF QueueOk
    <2>3. QED
      BY <2>2, ListsAccounted
  <1> HIDE DEF popped, id
  <1>7. CASE queue' = SetState(popped, id, "REQUESTED")
    BY <1>5, <1>6, <1>7, SetStateAccounted DEF States
  <1>8. CASE AllocBuffer(DeleteCachedBuffers(popped, {id}), req)
    <2> PICK x : x = DeleteCachedBuffers(popped, {id})
      OBVIOUS
    <2>1. Accounted(x)
      BY <1>5, <1>6, DeleteAccounted
    <2>2. DOMAIN x.cached \subseteq Cached
      <3>1. DOMAIN x.cached = DOMAIN popped.cached \ {id}
        BY <1>6 DEF DeleteCachedBuffers, Accounted, MapType, Restrict
      <3>2. QED
        BY <1>5, <3>1
    <2>3. QED
      BY <1>8, <2>1, <2>2, AllocAccounted
  <1>10. QED
    BY <1>6, <1>7, <1>8, <1>9

\* RequestBuffer and its retry
LEMMA GrantAccounted ==
    ASSUME NEW t, NEW q, Accounted(q), QueueOk(q), DOMAIN q.cached \subseteq Cached,
           NEW req \in Requests, req.mem \in MemoryTypes, req.size \in Sizes, Grant(t, q, req)
    PROVE  Accounted(queue')
  <1>1. CASE q.free # <<>>
    BY <1>1, PopAccounted DEF Grant
  <1>2. CASE q.free = <<>>
    BY <1>2, AllocAccounted DEF Grant
  <1>3. QED
    BY <1>1, <1>2

\* ReleaseBuffer
LEMMA ReleaseAccounted ==
    ASSUME IInv, Accounted(queue), NEW id \in Cached, NEW c, ReleaseLocked(id, c)
    PROVE  Accounted(queue')
  <1> PICK q : q = SetState(queue, id, "RELEASED")
    OBVIOUS
  <1>1. id \in DOMAIN queue.cached /\ "RELEASED" \in States /\ QueueType(queue)
    BY DEF Cached, States, IInv, TypeOK
  <1>2. Accounted(q) /\ QueueType(q) /\ DOMAIN q.cached = DOMAIN queue.cached /\ q.free = queue.free
    BY <1>1, SetStateAccounted, SetStateLemma DEF SameLists
  <1>3. ToSet(q.free) \subseteq DOMAIN q.cached
    BY <1>2, ListedStates DEF IInv, QueueOk
  <1>4. CASE queue' = DeleteCachedBuffers(q, {id})
    BY <1>1, <1>2, <1>4, DeleteAccounted
  <1>5. CASE queue' = InsertFreeBufferInOrder(q, id)
    BY <1>1, <1>2, <1>3, <1>5, InsertFreeAccounted
  <1>6. QED
    BY <1>4, <1>5 DEF ReleaseLocked

\* The locked section of PushBuffer
LEMMA PushAccounted ==
    ASSUME Accounted(queue), NEW t, NEW id \in Cached, NEW kind, NEW attach,
           PushLocked(t, id, kind, attach)
    PROVE  Accounted(queue')
  <1>1. id \in DOMAIN queue.cached /\ "PUSHED" \in States
    BY DEF Cached, States
  <1>2. QED
    BY <1>1, DeleteAccounted, SetStateAccounted DEF PushLocked

\* ReturnBuffer
LEMMA ReturnAccounted ==
    ASSUME IInv, Accounted(queue), NEW t \in Threads, ReturnBuffer(t)
    PROVE  Accounted(queue')
  <1> PICK id : id = calls[t].id
    OBVIOUS
  <1>1. QueueType(queue) /\ "RELEASED" \in States /\ "RETURNED" \in States
    BY DEF IInv, TypeOK, States
  <1>2. \/ id \in DOMAIN queue.cached /\ queue' = DeleteCachedBuffers(queue, {id})
        \/ /\ id \in DOMAIN queue.cached
           /\ queue' = SetState(InsertFreeBufferInOrder(queue, id), id, "RELEASED")
        \/ /\ id \in DOMAIN queue.cached
           /\ queue' = [SetState(queue, id, "RETURNED") EXCEPT !.dirty = Append(@, id)]
        \/ queue' = queue
    BY DEF ReturnBuffer, Returnable, Cached
  <1>3. CASE id \in DOMAIN queue.cached /\ queue' = DeleteCachedBuffers(queue, {id})
    BY <1>3, DeleteAccounted
  <1>4. CASE /\ id \in DOMAIN queue.cached
             /\ queue' = SetState(InsertFreeBufferInOrder(queue, id), id, "RELEASED")
    <2> PICK x : x = InsertFreeBufferInOrder(queue, id)
      OBVIOUS
    <2>1. ToSet(queue.free) \subseteq DOMAIN queue.cached
      BY ListedStates DEF IInv, QueueOk
    <2>2. Accounted(x) /\ x.cached = queue.cached
      BY <1>1, <1>4, <2>1, InsertFreeAccounted, InsertFreeLemma
    <2>3. QED
      BY <1>1, <1>4, <2>2, SetStateAccounted
  <1>5. CASE /\ id \in DOMAIN queue.cached
             /\ queue' = [SetState(queue, id, "RETURNED") EXCEPT !.dirty = Append(@, id)]
    <2>1. Accounted(SetState(queue, id, "RETURNED"))
      BY <1>1, <1>5, SetStateAccounted
    <2>2. QED
      BY <1>5, <2>1, ListsAccounted
  <1>6. QED
    BY <1>2, <1>3, <1>4, <1>5

\* AttachBuffer, on the queue or on the resized queue
LEMMA AttachStepAccounted ==
    ASSUME NEW t, NEW q, Accounted(q), QueueOk(q), DOMAIN q.cached \subseteq Cached, NEW c,
           NEW id \in Ids, NEW buf \in Attachments, NEW kind, Attach(t, q, c, id, buf, kind)
    PROVE  Accounted(queue')
  <1> PICK r : r = CheckConfig(q, buf.mem)
    OBVIOUS
  <1>1. buf.mem \in MemoryTypes
    BY DEF Attachments
  <1>2. QueueOk(r) /\ r.cached = q.cached
    BY <1>1, CheckConfigOk
  <1>3. Accounted(r)
    BY ListsAccounted DEF CheckConfig
  <1>4. id \in Ids \ DOMAIN r.cached
    BY <1>2 DEF Attach
  <1>5. queue' = r \/ queue' = AttachAvailableBufferLocked(r, id, buf)
    BY DEF Attach
  <1>6. QED
    BY <1>2, <1>3, <1>4, <1>5, AttachAccounted

\* RequestBuffer
LEMMA RequestAccounted ==
    ASSUME IInv, Accounted(queue), NEW t \in Threads, NEW config \in Requests,
           RequestBuffer(t, config)
    PROVE  Accounted(queue')
  <1> DEFINE req == [config EXCEPT !.mem = IF @ = UNKNOWN_MEMORY THEN queue.memoryType ELSE @]
             q == CheckConfig(queue, req.mem)
  <1>1. queue.memoryType \in MemoryTypes \cup {UNKNOWN_MEMORY} /\ QueueOk(queue)
    BY DEF IInv, TypeOK, QueueType
  <1>2. /\ ConfigOk(queue, req.mem)
        /\ IF Full(q) THEN Wait(t, q, req) ELSE Grant(t, q, req)
    BY Zenon DEF RequestBuffer
  <1>3. req \in Requests /\ req.mem \in MemoryTypes /\ req.size \in Sizes
    BY <1>1, <1>2 DEF Requests, ConfigOk
  <1> HIDE DEF req
  <1>4. QueueOk(q) /\ q.cached = queue.cached
    BY <1>1, <1>3, CheckConfigOk
  <1>5. Accounted(q)
    BY ListsAccounted DEF CheckConfig
  <1> HIDE DEF q
  <1>6. CASE Grant(t, q, req)
    BY <1>3, <1>4, <1>5, <1>6, GrantAccounted DEF Cached
  <1>7. CASE Wait(t, q, req)
    BY <1>5, <1>7 DEF Wait
  <1>8. QED
    BY <1>2, <1>6, <1>7

\* The part of RequestBuffer after the wait
LEMMA RetryAccounted ==
    ASSUME IInv, Accounted(queue), NEW t \in Threads, RetryRequest(t)
    PROVE  Accounted(queue')
  <1>1. /\ FrameOk(calls[t], InState(queue, "PUSHED"), InState(queue, "ATTACHED"), brokerHeld)
        /\ calls[t].pc \in {"woken", "timed"}
    BY DEF RetryRequest, IInv, CallsOk
  <1>2. calls[t].req \in Requests /\ calls[t].req.mem \in MemoryTypes /\ calls[t].req.size \in Sizes
    BY <1>1 DEF FrameOk, Waiting
  <1>3. CASE Grant(t, queue, calls[t].req)
    <2>1. QueueOk(queue) /\ DOMAIN queue.cached \subseteq Cached
      BY DEF IInv, Cached
    <2>2. QED
      BY <1>2, <1>3, <2>1, GrantAccounted
  <1>4. CASE queue' = queue
    BY <1>4
  <1>5. QED
    BY <1>3, <1>4 DEF RetryRequest

\* No step makes the account wrong.
LEMMA NextAccounted ==
    ASSUME CalmClients, IInv, Accounted(queue), [Next]_vars
    PROVE  Accounted(queue')
  <1>1. QueueOk(queue) /\ DOMAIN queue.cached = Cached
    BY DEF IInv, Cached
  <1>2. CASE OtherStep
    <2>1. ASSUME NEW id \in Ids, DetachBuffer(id) PROVE Accounted(queue')
      BY <2>1, DeleteAccounted DEF DetachBuffer, Cached
    <2>2. ASSUME NEW id \in Ids, ReleaseBuffer(id) PROVE Accounted(queue')
      BY <2>2, ReleaseAccounted DEF ReleaseBuffer, Releasable
    <2>3. CASE AcquireBuffer
      <3> PICK id : id = Head(queue.dirty)
        OBVIOUS
      <3>1. queue.dirty # <<>> /\ queue' = [SetState(queue, id, "ACQUIRED") EXCEPT !.dirty = Tail(@)]
        BY <2>3 DEF AcquireBuffer
      <3>2. id \in ToSet(queue.dirty)
        BY <1>1, <3>1, ToSetElements DEF QueueOk, QueueType
      <3>3. id \in DOMAIN queue.cached /\ "ACQUIRED" \in States
        BY <1>1, <3>2, ListedStates DEF QueueOk, States
      <3>4. Accounted(SetState(queue, id, "ACQUIRED"))
        BY <3>3, SetStateAccounted
      <3>5. QED
        BY <3>1, <3>4, ListsAccounted
    <2>4. ASSUME NEW n \in 0 .. MAX_QUEUE_SIZE, SetQueueSize(n) PROVE Accounted(queue')
      <3>1. n \in Nat
        BY QueueSizeAssumption
      <3>2. QED
        BY <1>1, <2>4, <3>1, ResizeAccounted DEF SetQueueSize
    <2>5. CASE Clear \/ \E S \in SUBSET Ids : ClearBufferIf(S)
      BY <2>5 DEF Clear, ClearBufferIf, CalmClients
    <2>6. CASE AcquireNothing \/ SetConsumerListener
      BY <2>6 DEF AcquireNothing, SetConsumerListener
    <2>7. CASE \E b \in Brokers : SetBrokerListener(b) \/ RemoveBrokerListener(b)
      BY <2>7 DEF SetBrokerListener, RemoveBrokerListener
    <2>8. QED
      BY <1>2, <2>1, <2>2, <2>3, <2>4, <2>5, <2>6, <2>7 DEF OtherStep
  <1>3. ASSUME NEW t \in Threads, ThreadStep(t) PROVE Accounted(queue')
    <2>1. CASE \E config \in Requests : RequestBuffer(t, config)
      BY <2>1, RequestAccounted
    <2>2. CASE SpuriousWakeup(t) \/ OfferToBroker(t) \/ NotifyConsumer(t)
      BY <2>2 DEF SpuriousWakeup, OfferToBroker, NotifyConsumer
    <2>3. CASE RetryRequest(t)
      BY <2>3, RetryAccounted
    <2>4. CASE \E id \in Ids, kind \in Kinds : PushBuffer(t, id, kind)
      BY <2>4, PushAccounted DEF PushBuffer
    <2>5. CASE \E id \in Ids, kind \in Kinds : BrokerReturn(t, id, kind)
      BY <2>5 DEF BrokerReturn
    <2>6. CASE ReturnBuffer(t)
      BY <2>6, ReturnAccounted
    <2>7. ASSUME NEW id \in Ids, NEW buf \in Attachments, NEW kind, AttachBuffer(t, id, buf, kind)
          PROVE  Accounted(queue')
      BY <1>1, <2>7, AttachStepAccounted DEF AttachBuffer
    <2>8. ASSUME NEW id \in Ids, NEW buf \in Attachments, NEW kind, NEW n \in 0 .. MAX_QUEUE_SIZE,
                 SetQueueSizeAndAttachBuffer(t, n, id, buf, kind)
          PROVE  Accounted(queue')
      <3> PICK q : q = Resize(queue, n)
        OBVIOUS
      <3>1. n \in Nat
        BY QueueSizeAssumption
      <3>2. Accounted(q) /\ QueueOk(q) /\ DOMAIN q.cached \subseteq Cached
        BY <1>1, <3>1, ResizeAccounted, ResizeOk
      <3>3. Attach(t, q, NotifyGrown(n), id, buf, kind)
        BY <2>8 DEF SetQueueSizeAndAttachBuffer
      <3>4. QED
        BY <3>2, <3>3, AttachStepAccounted
    <2>9. CASE PushAttached(t)
      BY <2>9, PushAccounted DEF PushAttached
    <2>10. CASE ReleaseAttached(t)
      BY <2>10, ReleaseAccounted DEF ReleaseAttached, Releasable
    <2>11. CASE ForceDetach(t)
      <3>1. calls[t].id \in DOMAIN queue.cached
        BY <2>11, HeldBuffer DEF ForceDetach, Holding
      <3>2. QED
        BY <2>11, <3>1, DeleteAccounted DEF ForceDetach
    <2>12. QED
      BY <1>3, <2>1, <2>2, <2>3, <2>4, <2>5, <2>6, <2>7, <2>8, <2>9, <2>10, <2>11 DEF ThreadStep
  <1>4. CASE UNCHANGED vars
    BY <1>4 DEF vars
  <1>5. QED
    BY <1>2, <1>3, <1>4 DEF Next

\* memoryUsage_ is the sum of the capacities of the buffers in the map, whatever
\* interleaving of requests that replace small buffers, attaches that make room,
\* resizes, detaches and forced detaches led there: TotalMemoryCalculation never
\* meets a capacity larger than the account and so never skips a subtraction.
THEOREM MemoryStaysAccounted ==
    ASSUME CalmClients
    PROVE  Spec => []MemoryAccounted
  <1>1. Init => Accounted(queue)
    <2> SUFFICES ASSUME Init PROVE Accounted(queue)
      OBVIOUS
    <2>1. MapType(queue) /\ DOMAIN queue.cached = {} /\ queue.used = 0
      BY DEF Init, MapType
    <2>2. Units(Capacities(queue), {}) = {}
      BY DEF Units
    <2>3. QED
      BY <2>1, <2>2, FS_EmptySet DEF Accounted, Volume
  <1>2. IInv /\ Accounted(queue) /\ [Next]_vars => Accounted(queue)'
    BY NextAccounted
  <1>3. Accounted(queue) => MemoryAccounted
    <2> SUFFICES ASSUME Accounted(queue) PROVE MemoryAccounted
      OBVIOUS
    <2> PICK c : c = Capacities(queue)
      OBVIOUS
    <2>1. IsFiniteSet(Cached) /\ c \in [Cached -> Nat] /\ queue.used = Volume(c, Cached)
      BY CapacitiesType DEF Accounted, Cached
    <2>2. FoldFunction(+, 0, c) = Volume(c, Cached)
      BY <2>1, SumIsVolume
    <2>3. QED
      BY <2>1, <2>2 DEF MemoryAccounted, Capacities, Cached
  <1>4. QED
    BY <1>1, <1>2, <1>3, Invariance, PTL DEF Spec
=============================================================================
