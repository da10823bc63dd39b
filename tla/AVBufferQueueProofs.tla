------------------------ MODULE AVBufferQueueProofs ------------------------
(***************************************************************************)
(* Proofs about AVBufferQueue for all values of the constants.             *)
(***************************************************************************)
EXTENDS AVBufferQueue, SequenceLemmas, FiniteSetTheorems

-----------------------------------------------------------------------------
(* What the helpers do to a queue of the right type                        *)

\* The fields that no helper below changes.
SameLimits(q, r) == r.size = q.size /\ r.memoryType = q.memoryType
SameLists(q, r) == r.free = q.free /\ r.dirty = q.dirty

\* The number of cached buffers is a natural number.
LEMMA CountType ==
    ASSUME NEW q, QueueType(q)
    PROVE  GetCachedBufferCount(q) \in Nat
  BY IdsAssumption, FS_Subset, FS_CardinalityType DEF QueueType, GetCachedBufferCount

\* Deleting takes exactly the given ids out of the map.
LEMMA DeleteLemma ==
    ASSUME NEW q, QueueType(q), NEW S
    PROVE  LET r == DeleteCachedBuffers(q, S)
           IN  /\ QueueType(r) /\ SameLists(q, r) /\ SameLimits(q, r)
               /\ DOMAIN r.cached = DOMAIN q.cached \ S
               /\ \A id \in DOMAIN r.cached : r.cached[id] = q.cached[id]
  BY DEF DeleteCachedBuffers, QueueType, SameLists, SameLimits, Restrict

\* Setting a state changes that element's state and nothing else.
LEMMA SetStateLemma ==
    ASSUME NEW q, QueueType(q), NEW id \in DOMAIN q.cached, NEW s \in States
    PROVE  LET r == SetState(q, id, s)
           IN  /\ QueueType(r) /\ SameLists(q, r) /\ SameLimits(q, r)
               /\ DOMAIN r.cached = DOMAIN q.cached
               /\ r.cached[id].state = s
               /\ r.cached[id].mem = q.cached[id].mem
               /\ \A i \in DOMAIN q.cached \ {id} : r.cached[i] = q.cached[i]
  BY DEF SetState, QueueType, SameLists, SameLimits, Elements

\* Adding an element under a new id.
LEMMA AddLemma ==
    ASSUME NEW q, QueueType(q), NEW id \in Ids, NEW e \in Elements
    PROVE  LET r == AddCached(q, id, e)
           IN  /\ QueueType(r) /\ SameLists(q, r) /\ SameLimits(q, r)
               /\ DOMAIN r.cached = DOMAIN q.cached \cup {id}
               /\ r.cached[id] = e
               /\ \A i \in DOMAIN q.cached \ {id} : r.cached[i] = q.cached[i]
  BY DEF AddCached, QueueType, SameLists, SameLimits

\* Looking at ids that are in the map inserts nothing.
LEMMA TouchLemma ==
    ASSUME NEW q, QueueType(q), NEW S, S \subseteq DOMAIN q.cached
    PROVE  LET r == Touch(q, S)
           IN  /\ QueueType(r) /\ SameLists(q, r) /\ SameLimits(q, r)
               /\ r.cached = q.cached
  <1>1. DOMAIN q.cached \cup S = DOMAIN q.cached
    OBVIOUS
  <1>2. [id \in DOMAIN q.cached \cup S |-> Elem(q, id)] = q.cached
    BY <1>1 DEF Elem, QueueType
  <1>3. QED
    BY <1>2 DEF Touch, QueueType, SameLists, SameLimits

\* Inserting into the free list keeps the map and adds the id to the list.
LEMMA InsertFreeLemma ==
    ASSUME NEW q, QueueType(q), NEW id \in DOMAIN q.cached,
           ToSet(q.free) \subseteq DOMAIN q.cached
    PROVE  LET r == InsertFreeBufferInOrder(q, id)
           IN  /\ QueueType(r) /\ SameLimits(q, r)
               /\ r.cached = q.cached
               /\ r.dirty = q.dirty
               /\ ToSet(r.free) = ToSet(q.free) \cup {id}
               /\ IsInjective(q.free) /\ id \notin ToSet(q.free) => IsInjective(r.free)
  <1> DEFINE x == Touch(q, ToSet(q.free) \cup {id})
             Stop(i) == q.free[i] # id /\ x.cached[q.free[i]].cap >= x.cached[id].cap
             stops == {i \in DOMAIN q.free : Stop(i)}
             at == IF stops = {} THEN Len(q.free) + 1 ELSE Min(stops)
             seen == {q.free[i] : i \in 1 .. Min({at, Len(q.free)})} \cup {id}
             y == Touch(q, seen)
             r == [y EXCEPT !.free = InsertAt(@, at, id)]
  <1>1. /\ q.free \in Seq(Ids) /\ DOMAIN q.free = 1 .. Len(q.free) /\ Len(q.free) \in Nat
        /\ \A j \in 1 .. Len(q.free) : q.free[j] \in ToSet(q.free)
    BY ToSetElements DEF QueueType
  <1>10. stops \subseteq 1 .. Len(q.free)
    BY <1>1
  <1> HIDE DEF x, stops
  <1>2. at \in 1 .. Len(q.free) + 1
    <2>1. CASE stops = {}
      BY <1>1, <2>1
    <2>2. CASE stops # {}
      <3>6. stops \subseteq Nat
        BY <1>1, <1>10
      <3>1. Min(stops) \in stops
        BY <2>2, <3>6, MinOfNats, Zenon
      <3>2. at = Min(stops)
        BY <2>2, Zenon
      <3>3. at \in stops
        BY <3>1, <3>2, Zenon
      <3>4. at \in 1 .. Len(q.free)
        BY <1>10, <3>3, Zenon
      <3>5. QED
        <4> HIDE DEF at
        <4> QED
          BY <1>1, <3>4
    <2>3. QED
      BY <2>1, <2>2
  <1> HIDE DEF at
  <1>3. seen \subseteq DOMAIN q.cached
    <2>1. Min({at, Len(q.free)}) <= Len(q.free) /\ Min({at, Len(q.free)}) \in Nat
      BY <1>1, <1>2, MinOfTwo
    <2>2. QED
      BY <1>1, <2>1
  <1> HIDE DEF seen
  <1>4. QueueType(y) /\ SameLists(q, y) /\ SameLimits(q, y) /\ y.cached = q.cached
    BY <1>3, TouchLemma
  <1> HIDE DEF y
  <1>5. id \in Ids
    BY DEF QueueType
  <1>6. /\ InsertAt(q.free, at, id) \in Seq(Ids)
        /\ ToSet(InsertAt(q.free, at, id)) = ToSet(q.free) \cup {id}
        /\ IsInjective(q.free) /\ id \notin ToSet(q.free) => IsInjective(InsertAt(q.free, at, id))
    BY <1>1, <1>2, <1>5, InsertAtProperties
  <1>7. /\ QueueType(r) /\ SameLimits(q, r)
        /\ r.cached = q.cached
        /\ r.dirty = q.dirty
        /\ r.free = InsertAt(q.free, at, id)
    BY <1>4, <1>6 DEF QueueType, SameLists, SameLimits
  <1>8. r = InsertFreeBufferInOrder(q, id)
    BY DEF InsertFreeBufferInOrder, y, seen, at, stops, x
  <1>9. QED
    BY <1>6, <1>7, <1>8
-----------------------------------------------------------------------------
(* The inductive invariant                                                 *)

\* The states in which somebody outside the queue holds the buffer.
OwnerStates == {"REQUESTED", "PUSHED", "ACQUIRED", "ATTACHED"}

\* The map holds no null buffer.
Real(q) == \A id \in DOMAIN q.cached : q.cached[id].mem \in MemoryTypes

QueueOk(q) == QueueType(q) /\ ListsOk(q) /\ Real(q)

Holding == {"attached", "broker", "return", "detach"}
Waiting == {"wait", "woken", "timed"}

\* The calls c in progress, where P and A are the PUSHED and the ATTACHED
\* buffers and B those a broker holds.  A thread past the first section of
\* PushBuffer or AttachBuffer still has its buffer, a waiting one has a
\* complete request.
FrameOk(f, P, A, B) ==
    /\ f \in Frames
    /\ f.pc \in {"broker", "return", "detach"} => f.id \in P \ B
    /\ f.pc = "attached" => f.id \in A
    /\ f.pc \in Waiting => f.req \in Requests /\ f.req.mem \in MemoryTypes /\ f.req.size \in Sizes
    /\ f.pc = "detach" => "empty" \in Fillings
    /\ f.kind = "empty" => "empty" \in Fillings

Disjoint(c) ==
    \A t, u \in Threads :
        c[t].pc \in Holding /\ c[u].pc \in Holding /\ c[t].id = c[u].id => t = u

\* Every owned buffer has an owner; an empty push leaves its buffer PUSHED
\* without one.
Covered(c, P, A, B) ==
    /\ \A id \in A : \E t \in Threads : c[t].pc = "attached" /\ c[t].id = id
    /\ "empty" \notin Fillings =>
          \A id \in P \ B : \E t \in Threads : c[t].pc \in {"broker", "return"} /\ c[t].id = id

CallsOk(c, P, A, B) ==
    /\ c \in [Threads -> Frames]
    /\ B \subseteq P
    /\ \A t \in Threads : FrameOk(c[t], P, A, B)
    /\ Disjoint(c)
    /\ Covered(c, P, A, B)

IInv ==
    /\ TypeOK
    /\ QueueOk(queue)
    /\ prodHeld = InState(queue, "REQUESTED")
    /\ consHeld = InState(queue, "ACQUIRED")
    /\ CallsOk(calls, InState(queue, "PUSHED"), InState(queue, "ATTACHED"), brokerHeld)
    /\ consumerListener
-----------------------------------------------------------------------------
(* What the operations of the queue do to a consistent queue               *)

\* Buffer id goes to state to, everything else stays with its owner.
Moved(q, r, id, to) ==
    \A s \in OwnerStates :
        InState(r, s) = IF s = to THEN InState(q, s) \cup {id} ELSE InState(q, s) \ {id}

Kept(q, r) == \A s \in OwnerStates : InState(r, s) = InState(q, s)

\* Fixing the memory type leaves the buffers alone.
LEMMA CheckConfigOk ==
    ASSUME NEW q, QueueOk(q), NEW mem \in MemoryTypes
    PROVE  LET r == CheckConfig(q, mem)
           IN  /\ QueueOk(r) /\ Kept(q, r) /\ r.cached = q.cached /\ SameLists(q, r)
               /\ r.size = q.size
  BY DEF QueueOk, QueueType, ListsOk, Real, Kept, InState, SameLists, CheckConfig

\* The lists of a consistent queue name cached buffers, with the state of the list.
LEMMA ListedStates ==
    ASSUME NEW q, ListsOk(q)
    PROVE  /\ ToSet(q.free) \subseteq DOMAIN q.cached
           /\ ToSet(q.dirty) \subseteq DOMAIN q.cached
           /\ \A id \in ToSet(q.free) : q.cached[id].state = "RELEASED"
           /\ \A id \in ToSet(q.dirty) : q.cached[id].state = "RETURNED"
           /\ \A id \in DOMAIN q.cached : q.cached[id].state \in OwnerStates =>
                 id \notin ToSet(q.free) /\ id \notin ToSet(q.dirty)
  BY DEF ListsOk, InState, OwnerStates

\* A new buffer goes to its owner.
LEMMA AddOk ==
    ASSUME NEW q, QueueOk(q), NEW id \in Ids \ DOMAIN q.cached,
           NEW e \in Elements, e.mem \in MemoryTypes, e.state \in OwnerStates
    PROVE  LET r == AddCached(q, id, e)
           IN  QueueOk(r) /\ Moved(q, r, id, e.state)
  <1> DEFINE r == AddCached(q, id, e)
  <1>1. /\ QueueType(r) /\ SameLists(q, r) /\ SameLimits(q, r)
        /\ DOMAIN r.cached = DOMAIN q.cached \cup {id}
        /\ r.cached[id] = e
        /\ \A i \in DOMAIN q.cached \ {id} : r.cached[i] = q.cached[i]
    BY AddLemma DEF QueueOk
  <1> HIDE DEF r
  <1>2. \A s : InState(r, s) = IF s = e.state THEN InState(q, s) \cup {id} ELSE InState(q, s)
    BY <1>1 DEF InState
  <1>3. id \notin InState(q, "RELEASED") /\ \A s : id \notin InState(q, s)
    BY DEF InState
  <1>4. QueueOk(r)
    BY <1>1, <1>2 DEF QueueOk, ListsOk, Real, SameLists, OwnerStates
  <1>5. QED
    BY <1>2, <1>3, <1>4 DEF Moved, r

\* A buffer that somebody holds leaves the queue without a trace.
LEMMA RemoveOk ==
    ASSUME NEW q, QueueOk(q), NEW id \in DOMAIN q.cached, q.cached[id].state \in OwnerStates
    PROVE  LET r == DeleteCachedBuffers(q, {id})
           IN  QueueOk(r) /\ Moved(q, r, id, "none")
  <1> DEFINE r == DeleteCachedBuffers(q, {id})
  <1>1. /\ QueueType(r) /\ SameLists(q, r)
        /\ DOMAIN r.cached = DOMAIN q.cached \ {id}
        /\ \A i \in DOMAIN r.cached : r.cached[i] = q.cached[i]
    BY DeleteLemma DEF QueueOk
  <1> HIDE DEF r
  <1>2. \A s : InState(r, s) = InState(q, s) \ {id}
    BY <1>1 DEF InState
  <1>3. InState(q, "RELEASED") = InState(r, "RELEASED") /\ InState(q, "RETURNED") = InState(r, "RETURNED")
    BY <1>2 DEF InState, OwnerStates
  <1>4. QueueOk(r)
    BY <1>1, <1>2, <1>3 DEF QueueOk, ListsOk, Real, SameLists
  <1>5. "none" \notin OwnerStates
    BY DEF OwnerStates
  <1>6. QED
    BY <1>2, <1>4, <1>5 DEF Moved, r

\* A buffer changes hands from one owner to another.
LEMMA HandOverOk ==
    ASSUME NEW q, QueueOk(q), NEW id \in DOMAIN q.cached, q.cached[id].state \in OwnerStates,
           NEW s \in OwnerStates
    PROVE  LET r == SetState(q, id, s)
           IN  QueueOk(r) /\ Moved(q, r, id, s)
  <1> DEFINE r == SetState(q, id, s)
  <1>0. s \in States
    BY DEF OwnerStates, States
  <1>1. /\ QueueType(r) /\ SameLists(q, r)
        /\ DOMAIN r.cached = DOMAIN q.cached
        /\ r.cached[id].state = s
        /\ r.cached[id].mem = q.cached[id].mem
        /\ \A i \in DOMAIN q.cached \ {id} : r.cached[i] = q.cached[i]
    BY <1>0, SetStateLemma DEF QueueOk
  <1> HIDE DEF r
  <1>2. \A x : InState(r, x) = IF x = s THEN InState(q, x) \cup {id} ELSE InState(q, x) \ {id}
    BY <1>1 DEF InState
  <1>3. InState(q, "RELEASED") = InState(r, "RELEASED") /\ InState(q, "RETURNED") = InState(r, "RETURNED")
    BY <1>2 DEF InState, OwnerStates
  <1>4. QueueOk(r)
    BY <1>1, <1>3 DEF QueueOk, ListsOk, Real, SameLists
  <1>5. QED
    BY <1>2, <1>4 DEF Moved, r

\* A held buffer becomes filled: RETURNED, and last in the dirty list.
LEMMA FillOk ==
    ASSUME NEW q, QueueOk(q), NEW id \in DOMAIN q.cached, q.cached[id].state \in OwnerStates
    PROVE  LET r == [SetState(q, id, "RETURNED") EXCEPT !.dirty = Append(@, id)]
           IN  QueueOk(r) /\ Moved(q, r, id, "none")
  <1> DEFINE x == SetState(q, id, "RETURNED")
             r == [x EXCEPT !.dirty = Append(@, id)]
  <1>1. /\ QueueType(x) /\ SameLists(q, x)
        /\ DOMAIN x.cached = DOMAIN q.cached
        /\ x.cached[id].state = "RETURNED"
        /\ x.cached[id].mem = q.cached[id].mem
        /\ \A i \in DOMAIN q.cached \ {id} : x.cached[i] = q.cached[i]
    BY SetStateLemma DEF QueueOk, States
  <1> HIDE DEF x
  <1>2. q.dirty \in Seq(Ids) /\ id \in Ids /\ id \notin ToSet(q.dirty) /\ IsInjective(q.dirty)
    BY ListedStates DEF QueueOk, QueueType, ListsOk
  <1>3. /\ Append(q.dirty, id) \in Seq(Ids)
        /\ ToSet(Append(q.dirty, id)) = ToSet(q.dirty) \cup {id}
        /\ IsInjective(Append(q.dirty, id))
    BY <1>2, AppendToSet
  <1>4. /\ r.cached = x.cached /\ r.free = q.free /\ r.dirty = Append(q.dirty, id)
        /\ QueueType(r)
    BY <1>1, <1>3 DEF QueueType, SameLists
  <1> HIDE DEF r
  <1>5. \A s : InState(r, s) = IF s = "RETURNED" THEN InState(q, s) \cup {id} ELSE InState(q, s) \ {id}
    BY <1>1, <1>4 DEF InState
  <1>6. InState(q, "RELEASED") = InState(r, "RELEASED")
    BY <1>5 DEF InState, OwnerStates
  <1>7. ListsOk(r)
    BY <1>3, <1>4, <1>5, <1>6 DEF QueueOk, ListsOk
  <1>8. Real(r)
    BY <1>1, <1>4 DEF QueueOk, Real
  <1>9. Moved(q, r, id, "none")
    BY <1>5 DEF Moved, OwnerStates
  <1>10. QED
    BY <1>4, <1>7, <1>8, <1>9 DEF QueueOk, r, x

\* CancelBuffer: a held buffer is put into the free list, then RELEASED.
LEMMA CancelOk ==
    ASSUME NEW q, QueueOk(q), NEW id \in DOMAIN q.cached, q.cached[id].state \in OwnerStates
    PROVE  LET r == SetState(InsertFreeBufferInOrder(q, id), id, "RELEASED")
           IN  QueueOk(r) /\ Moved(q, r, id, "none")
  <1> DEFINE x == InsertFreeBufferInOrder(q, id)
             r == SetState(x, id, "RELEASED")
  <1>1. /\ ToSet(q.free) \subseteq DOMAIN q.cached
        /\ id \notin ToSet(q.free) /\ id \notin ToSet(q.dirty)
        /\ IsInjective(q.free)
    BY ListedStates DEF QueueOk, ListsOk
  <1>2. /\ QueueType(x)
        /\ x.cached = q.cached
        /\ x.dirty = q.dirty
        /\ ToSet(x.free) = ToSet(q.free) \cup {id}
        /\ IsInjective(x.free)
    BY <1>1, InsertFreeLemma DEF QueueOk
  <1> HIDE DEF x
  <1>3. /\ QueueType(r) /\ SameLists(x, r)
        /\ DOMAIN r.cached = DOMAIN x.cached
        /\ r.cached[id].state = "RELEASED"
        /\ r.cached[id].mem = x.cached[id].mem
        /\ \A i \in DOMAIN x.cached \ {id} : r.cached[i] = x.cached[i]
    <2>1. id \in DOMAIN x.cached /\ "RELEASED" \in States
      BY <1>2 DEF States
    <2>2. QED
      BY <1>2, <2>1, SetStateLemma
  <1> HIDE DEF r
  <1>4. \A s : InState(r, s) = IF s = "RELEASED" THEN InState(q, s) \cup {id} ELSE InState(q, s) \ {id}
    BY <1>2, <1>3 DEF InState
  <1>5. InState(q, "RETURNED") = InState(r, "RETURNED")
    BY <1>4 DEF InState, OwnerStates
  <1>6. ListsOk(r)
    BY <1>2, <1>3, <1>4, <1>5 DEF QueueOk, ListsOk, SameLists
  <1>7. Real(r)
    BY <1>2, <1>3 DEF QueueOk, Real
  <1>8. Moved(q, r, id, "none")
    BY <1>4 DEF Moved, OwnerStates
  <1>9. QED
    BY <1>3, <1>6, <1>7, <1>8 DEF QueueOk, r, x

\* ReleaseBuffer: a held buffer is RELEASED, then put into the free list.
LEMMA ReleaseOk ==
    ASSUME NEW q, QueueOk(q), NEW id \in DOMAIN q.cached, q.cached[id].state \in OwnerStates
    PROVE  LET r == InsertFreeBufferInOrder(SetState(q, id, "RELEASED"), id)
           IN  QueueOk(r) /\ Moved(q, r, id, "none")
  <1> DEFINE x == SetState(q, id, "RELEASED")
             r == InsertFreeBufferInOrder(x, id)
  <1>1. /\ ToSet(q.free) \subseteq DOMAIN q.cached
        /\ id \notin ToSet(q.free) /\ id \notin ToSet(q.dirty)
        /\ IsInjective(q.free)
    BY ListedStates DEF QueueOk, ListsOk
  <1>2. /\ QueueType(x) /\ SameLists(q, x)
        /\ DOMAIN x.cached = DOMAIN q.cached
        /\ x.cached[id].state = "RELEASED"
        /\ x.cached[id].mem = q.cached[id].mem
        /\ \A i \in DOMAIN q.cached \ {id} : x.cached[i] = q.cached[i]
    BY SetStateLemma DEF QueueOk, States
  <1> HIDE DEF x
  <1>3. /\ QueueType(r)
        /\ r.cached = x.cached
        /\ r.dirty = x.dirty
        /\ ToSet(r.free) = ToSet(x.free) \cup {id}
        /\ IsInjective(r.free)
    <2>1. /\ id \in DOMAIN x.cached /\ ToSet(x.free) \subseteq DOMAIN x.cached
          /\ IsInjective(x.free) /\ id \notin ToSet(x.free)
      BY <1>1, <1>2 DEF SameLists
    <2>2. QED
      BY <1>2, <2>1, InsertFreeLemma
  <1> HIDE DEF r
  <1>4. \A s : InState(r, s) = IF s = "RELEASED" THEN InState(q, s) \cup {id} ELSE InState(q, s) \ {id}
    BY <1>2, <1>3 DEF InState
  <1>5. InState(q, "RETURNED") = InState(r, "RETURNED")
    BY <1>4 DEF InState, OwnerStates
  <1>6. ListsOk(r)
    BY <1>2, <1>3, <1>4, <1>5 DEF QueueOk, ListsOk, SameLists
  <1>7. Real(r)
    BY <1>2, <1>3 DEF QueueOk, Real
  <1>8. Moved(q, r, id, "none")
    BY <1>4 DEF Moved, OwnerStates
  <1>9. QED
    BY <1>3, <1>6, <1>7, <1>8 DEF QueueOk, r, x

\* AcquireBuffer: the head of the dirty list goes to the consumer.
LEMMA AcquireOk ==
    ASSUME NEW q, QueueOk(q), q.dirty # <<>>
    PROVE  LET id == Head(q.dirty)
               r == [SetState(q, id, "ACQUIRED") EXCEPT !.dirty = Tail(@)]
           IN  QueueOk(r) /\ Moved(q, r, id, "ACQUIRED") /\ id \in Ids
  <1> DEFINE id == Head(q.dirty)
             x == SetState(q, id, "ACQUIRED")
             r == [x EXCEPT !.dirty = Tail(@)]
  <1>1. q.dirty \in Seq(Ids) /\ IsInjective(q.dirty)
    BY DEF QueueOk, QueueType, ListsOk
  <1>2. /\ Tail(q.dirty) \in Seq(Ids)
        /\ id \in ToSet(q.dirty)
        /\ ToSet(Tail(q.dirty)) = ToSet(q.dirty) \ {id}
        /\ IsInjective(Tail(q.dirty))
    BY <1>1, TailToSet
  <1> HIDE DEF id
  <1>3. id \in DOMAIN q.cached /\ q.cached[id].state = "RETURNED" /\ id \in Ids
    BY <1>2, ListedStates DEF QueueOk, QueueType
  <1>4. /\ QueueType(x) /\ SameLists(q, x)
        /\ DOMAIN x.cached = DOMAIN q.cached
        /\ x.cached[id].state = "ACQUIRED"
        /\ x.cached[id].mem = q.cached[id].mem
        /\ \A i \in DOMAIN q.cached \ {id} : x.cached[i] = q.cached[i]
    BY <1>3, SetStateLemma DEF QueueOk, States
  <1> HIDE DEF x
  <1>5. /\ r.cached = x.cached /\ r.free = q.free /\ r.dirty = Tail(q.dirty)
        /\ QueueType(r)
    BY <1>2, <1>4 DEF QueueType, SameLists
  <1> HIDE DEF r
  <1>6. \A s : InState(r, s) = IF s = "ACQUIRED" THEN InState(q, s) \cup {id} ELSE InState(q, s) \ {id}
    BY <1>3, <1>4, <1>5 DEF InState
  <1>7. InState(q, "RELEASED") = InState(r, "RELEASED")
    BY <1>3, <1>6 DEF InState
  <1>8. ListsOk(r)
    BY <1>2, <1>5, <1>6, <1>7 DEF QueueOk, ListsOk
  <1>9. Real(r)
    BY <1>4, <1>5 DEF QueueOk, Real
  <1>10. Moved(q, r, id, "ACQUIRED")
    BY <1>6 DEF Moved, OwnerStates
  <1>11. QED
    BY <1>3, <1>5, <1>8, <1>9, <1>10 DEF QueueOk, r, x, id

\* PopFromFreeBufferList takes one position out of the free list; what it
\* reads on the way is in the map already.
LEMMA PopOk ==
    ASSUME NEW q, QueueOk(q), NEW at \in DOMAIN q.free,
           NEW read, read \subseteq ToSet(q.free)
    PROVE  LET id == q.free[at]
               r == [Touch(q, read) EXCEPT !.free = RemoveAt(@, at)]
           IN  /\ QueueType(r) /\ Real(r)
               /\ r.cached = q.cached /\ r.dirty = q.dirty
               /\ IsInjective(r.free)
               /\ ToSet(r.free) = ToSet(q.free) \ {id}
               /\ id \in DOMAIN q.cached /\ q.cached[id].state = "RELEASED"
               /\ q.cached[id].mem \in MemoryTypes
  <1> DEFINE id == q.free[at]
             x == Touch(q, read)
             r == [x EXCEPT !.free = RemoveAt(@, at)]
  <1>1. q.free \in Seq(Ids) /\ IsInjective(q.free) /\ at \in 1 .. Len(q.free)
    BY ToSetElements DEF QueueOk, QueueType, ListsOk
  <1>2. /\ RemoveAt(q.free, at) \in Seq(Ids)
        /\ ToSet(RemoveAt(q.free, at)) = ToSet(q.free) \ {id}
        /\ IsInjective(RemoveAt(q.free, at))
    BY <1>1, RemoveAtProperties
  <1>3. id \in ToSet(q.free)
    BY <1>1, ToSetElements
  <1>4. id \in DOMAIN q.cached /\ q.cached[id].state = "RELEASED" /\ q.cached[id].mem \in MemoryTypes
    BY <1>3, ListedStates DEF QueueOk, Real
  <1>5. read \subseteq DOMAIN q.cached
    BY ListedStates DEF QueueOk
  <1>6. QueueType(x) /\ SameLists(q, x) /\ x.cached = q.cached
    BY <1>5, TouchLemma DEF QueueOk
  <1> HIDE DEF x
  <1>7. QueueType(r) /\ r.cached = q.cached /\ r.dirty = q.dirty /\ r.free = RemoveAt(q.free, at)
    BY <1>2, <1>6 DEF QueueType, SameLists
  <1>8. Real(r)
    BY <1>7 DEF QueueOk, Real
  <1>9. QED
    BY <1>2, <1>4, <1>7, <1>8 DEF x

\* A popped buffer that fits goes to the producer.
LEMMA ReuseOk ==
    ASSUME NEW q, QueueOk(q), NEW at \in DOMAIN q.free,
           NEW read, read \subseteq ToSet(q.free)
    PROVE  LET id == q.free[at]
               r == SetState([Touch(q, read) EXCEPT !.free = RemoveAt(@, at)], id, "REQUESTED")
           IN  QueueOk(r) /\ Moved(q, r, id, "REQUESTED") /\ id \in Ids
  <1> DEFINE id == q.free[at]
             x == [Touch(q, read) EXCEPT !.free = RemoveAt(@, at)]
             r == SetState(x, id, "REQUESTED")
  <1>1. /\ QueueType(x) /\ Real(x)
        /\ x.cached = q.cached /\ x.dirty = q.dirty
        /\ IsInjective(x.free)
        /\ ToSet(x.free) = ToSet(q.free) \ {id}
        /\ id \in DOMAIN q.cached /\ q.cached[id].state = "RELEASED"
    BY PopOk
  <1> HIDE DEF x, id
  <1>2. /\ QueueType(r) /\ SameLists(x, r)
        /\ DOMAIN r.cached = DOMAIN x.cached
        /\ r.cached[id].state = "REQUESTED"
        /\ r.cached[id].mem = x.cached[id].mem
        /\ \A i \in DOMAIN x.cached \ {id} : r.cached[i] = x.cached[i]
    <2>1. id \in DOMAIN x.cached /\ "REQUESTED" \in States
      BY <1>1 DEF States
    <2>2. QED
      BY <1>1, <2>1, SetStateLemma
  <1> HIDE DEF r
  <1>3. \A s : InState(r, s) = IF s = "REQUESTED" THEN InState(q, s) \cup {id} ELSE InState(q, s) \ {id}
    BY <1>1, <1>2 DEF InState
  <1>4. InState(q, "RETURNED") = InState(r, "RETURNED")
    BY <1>1, <1>3 DEF InState
  <1>5. ListsOk(r)
    BY <1>1, <1>2, <1>3, <1>4 DEF QueueOk, ListsOk, SameLists
  <1>6. Real(r)
    BY <1>1, <1>2 DEF Real
  <1>7. Moved(q, r, id, "REQUESTED")
    BY <1>3 DEF Moved, OwnerStates
  <1>8. id \in Ids
    BY <1>1 DEF QueueOk, QueueType
  <1>9. QED
    BY <1>2, <1>5, <1>6, <1>7, <1>8 DEF QueueOk, r, x, id

\* A popped buffer that does not fit is deleted before a new one is allocated.
LEMMA ReplaceOk ==
    ASSUME NEW q, QueueOk(q), NEW at \in DOMAIN q.free,
           NEW read, read \subseteq ToSet(q.free)
    PROVE  LET id == q.free[at]
               r == DeleteCachedBuffers([Touch(q, read) EXCEPT !.free = RemoveAt(@, at)], {id})
           IN  QueueOk(r) /\ Kept(q, r) /\ DOMAIN r.cached \subseteq DOMAIN q.cached
  <1> DEFINE id == q.free[at]
             x == [Touch(q, read) EXCEPT !.free = RemoveAt(@, at)]
             r == DeleteCachedBuffers(x, {id})
  <1>1. /\ QueueType(x) /\ Real(x)
        /\ x.cached = q.cached /\ x.dirty = q.dirty
        /\ IsInjective(x.free)
        /\ ToSet(x.free) = ToSet(q.free) \ {id}
        /\ id \in DOMAIN q.cached /\ q.cached[id].state = "RELEASED"
    BY PopOk
  <1> HIDE DEF x, id
  <1>2. /\ QueueType(r) /\ SameLists(x, r)
        /\ DOMAIN r.cached = DOMAIN x.cached \ {id}
        /\ \A i \in DOMAIN r.cached : r.cached[i] = x.cached[i]
    BY <1>1, DeleteLemma
  <1> HIDE DEF r
  <1>3. \A s : InState(r, s) = InState(q, s) \ {id}
    BY <1>1, <1>2 DEF InState
  <1>4. \A s : s # "RELEASED" => InState(q, s) = InState(r, s)
    BY <1>1, <1>3 DEF InState
  <1>5. ListsOk(r)
    BY <1>1, <1>2, <1>3, <1>4 DEF QueueOk, ListsOk, SameLists
  <1>6. Real(r)
    BY <1>1, <1>2 DEF Real
  <1>7. Kept(q, r)
    BY <1>4 DEF Kept, OwnerStates
  <1>8. DOMAIN r.cached \subseteq DOMAIN q.cached
    BY <1>1, <1>2
  <1>9. QED
    BY <1>2, <1>5, <1>6, <1>7, <1>8 DEF QueueOk, r, x, id

\* Marking elements changes their isDeleting only.
LEMMA MarkLemma ==
    ASSUME NEW D, NEW c \in [D -> Elements], NEW S
    PROVE  LET m == MarkDeleting(c, S)
           IN  /\ m \in [D -> Elements]
               /\ \A i \in D : m[i].state = c[i].state /\ m[i].mem = c[i].mem
  <1> DEFINE Flag(i) == c[i].isDeleting \/ i \in S
             m == [i \in D |-> [c[i] EXCEPT !.isDeleting = Flag(i)]]
  <1>1. \A i : Flag(i) \in BOOLEAN
    BY Zenon
  <1>2. MarkDeleting(c, S) = m
    BY DEF MarkDeleting
  <1> HIDE DEF Flag
  <1>3. \A i \in D : /\ [c[i] EXCEPT !.isDeleting = Flag(i)] \in Elements
                     /\ [c[i] EXCEPT !.isDeleting = Flag(i)].state = c[i].state
                     /\ [c[i] EXCEPT !.isDeleting = Flag(i)].mem = c[i].mem
    BY <1>1 DEF Elements
  <1>4. QED
    BY <1>2, <1>3

\* Making room deletes listed buffers only: whoever holds a buffer keeps it.
LEMMA DeleteBuffersOk ==
    ASSUME NEW q, QueueOk(q), NEW n \in Nat
    PROVE  LET r == DeleteBuffers(q, n)
           IN  /\ QueueOk(r) /\ Kept(q, r) /\ SameLimits(q, r)
               /\ DOMAIN r.cached \subseteq DOMAIN q.cached
  <1> DEFINE f == Min({n, Len(q.free)})
             d == Min({n - f, Len(q.dirty)})
             fs == ToSet(SubSeq(q.free, 1, f))
             ds == ToSet(SubSeq(q.dirty, 1, d))
             x == DeleteCachedBuffers(q, fs \cup ds)
             marked == FirstIds(DOMAIN x.cached, n - f - d)
             r == [x EXCEPT
                     !.free = SubSeq(@, f + 1, Len(@)),
                     !.dirty = SubSeq(@, d + 1, Len(@)),
                     !.cached = MarkDeleting(@, marked)]
  <1>1. /\ q.free \in Seq(Ids) /\ IsInjective(q.free) /\ Len(q.free) \in Nat
        /\ q.dirty \in Seq(Ids) /\ IsInjective(q.dirty) /\ Len(q.dirty) \in Nat
    BY ToSetElements DEF QueueOk, QueueType, ListsOk
  <1>2. f \in 0 .. Len(q.free) /\ n - f \in Nat
    BY <1>1, MinOfTwo
  <1> HIDE DEF f
  <1>3. d \in 0 .. Len(q.dirty)
    BY <1>1, <1>2, MinOfTwo
  <1> HIDE DEF d
  <1> DEFINE free == SubSeq(q.free, f + 1, Len(q.free))
             dirty == SubSeq(q.dirty, d + 1, Len(q.dirty))
  <1>4. /\ free \in Seq(Ids) /\ IsInjective(free)
        /\ ToSet(free) = ToSet(q.free) \ fs /\ fs \subseteq ToSet(q.free)
    BY <1>1, <1>2, CutProperties
  <1>5. /\ dirty \in Seq(Ids) /\ IsInjective(dirty)
        /\ ToSet(dirty) = ToSet(q.dirty) \ ds /\ ds \subseteq ToSet(q.dirty)
    BY <1>1, <1>3, CutProperties
  <1> HIDE DEF fs, ds, free, dirty
  <1>6. /\ QueueType(x) /\ SameLists(q, x) /\ SameLimits(q, x)
        /\ DOMAIN x.cached = DOMAIN q.cached \ (fs \cup ds)
        /\ \A id \in DOMAIN x.cached : x.cached[id] = q.cached[id]
    BY DeleteLemma DEF QueueOk
  <1> HIDE DEF x, marked
  <1> DEFINE cached == MarkDeleting(x.cached, marked)
  <1>8. /\ cached \in [DOMAIN x.cached -> Elements]
        /\ \A i \in DOMAIN x.cached :
              cached[i].state = q.cached[i].state /\ cached[i].mem = q.cached[i].mem
    <2>1. x.cached \in [DOMAIN x.cached -> Elements]
      BY <1>6 DEF QueueType
    <2>2. QED
      BY <1>6, <2>1, MarkLemma
  <1>19. DOMAIN cached = DOMAIN x.cached
    BY <1>8
  <1> HIDE DEF cached
  <1>21. r = [x EXCEPT !.free = free, !.dirty = dirty, !.cached = cached]
    BY <1>6 DEF SameLists, free, dirty, cached
  <1> HIDE DEF r
  <1>7. /\ SameLimits(q, r)
        /\ r.free = free /\ r.dirty = dirty /\ r.cached = cached
        /\ DOMAIN r = DOMAIN x
    BY <1>6, <1>21 DEF QueueType, SameLimits
  <1>9. QueueType(r)
    BY <1>4, <1>5, <1>6, <1>7, <1>8, <1>19 DEF QueueType, SameLimits
  <1>10. \A s : InState(r, s) = InState(q, s) \ (fs \cup ds)
    BY <1>6, <1>7, <1>8, <1>19 DEF InState
  <1>11. /\ \A id \in fs : q.cached[id].state = "RELEASED"
         /\ \A id \in ds : q.cached[id].state = "RETURNED"
    BY <1>4, <1>5, ListedStates DEF QueueOk
  <1>12. /\ InState(r, "RELEASED") = InState(q, "RELEASED") \ fs
         /\ InState(r, "RETURNED") = InState(q, "RETURNED") \ ds
         /\ Kept(q, r)
    <2>1. InState(r, "RELEASED") = InState(q, "RELEASED") \ fs
      <3>1. InState(q, "RELEASED") \cap ds = {}
        BY <1>11 DEF InState
      <3> QED
        BY <1>10, <3>1
    <2>2. InState(r, "RETURNED") = InState(q, "RETURNED") \ ds
      <3>1. InState(q, "RETURNED") \cap fs = {}
        BY <1>11 DEF InState
      <3> QED
        BY <1>10, <3>1
    <2>3. ASSUME NEW s \in OwnerStates PROVE InState(r, s) = InState(q, s)
      <3>1. s # "RELEASED" /\ s # "RETURNED"
        BY <2>3 DEF OwnerStates
      <3>2. InState(q, s) \cap (fs \cup ds) = {}
        BY <1>11, <3>1 DEF InState
      <3> QED
        BY <1>10, <3>2
    <2> QED
      BY <2>1, <2>2, <2>3 DEF Kept
  <1>13. ListsOk(r)
    BY <1>4, <1>5, <1>7, <1>12 DEF QueueOk, ListsOk
  <1>14. Real(r)
    BY <1>6, <1>7, <1>8, <1>19 DEF QueueOk, Real
  <1>15. r = DeleteBuffers(q, n)
    BY DEF DeleteBuffers, r, x, fs, ds, f, d, marked
  <1>16. DOMAIN r.cached \subseteq DOMAIN q.cached
    BY <1>6, <1>7, <1>19
  <1>17. QED
    BY <1>7, <1>9, <1>12, <1>13, <1>14, <1>15, <1>16 DEF QueueOk

\* SetQueueSize leaves every held buffer with its owner.
LEMMA ResizeOk ==
    ASSUME NEW q, QueueOk(q), NEW n \in Nat
    PROVE  LET r == Resize(q, n)
           IN  QueueOk(r) /\ Kept(q, r) /\ DOMAIN r.cached \subseteq DOMAIN q.cached
  <1>1. q.size \in Nat
    BY DEF QueueOk, QueueType
  <1>2. ASSUME NEW x, QueueOk(x)
        PROVE  LET r == [x EXCEPT !.size = n] IN QueueOk(r) /\ Kept(x, r) /\ r.cached = x.cached
    BY <1>2 DEF QueueOk, QueueType, ListsOk, Real, Kept, InState
  <1>3. CASE n > q.size
    BY <1>2, <1>3 DEF Resize
  <1>4. CASE ~(n > q.size)
    <2> DEFINE x == DeleteBuffers(q, q.size - n)
    <2>1. q.size - n \in Nat
      BY <1>1, <1>4
    <2>2. QueueOk(x) /\ Kept(q, x) /\ DOMAIN x.cached \subseteq DOMAIN q.cached
      BY <2>1, DeleteBuffersOk
    <2>3. Resize(q, n) = [x EXCEPT !.size = n]
      BY <1>4 DEF Resize
    <2> HIDE DEF x
    <2>4. QED
      BY <1>2, <2>2, <2>3 DEF Kept
  <1>5. QED
    BY <1>3, <1>4

\* An attached buffer goes to the attaching thread; the room for it is made
\* of listed buffers.
LEMMA AttachOk ==
    ASSUME NEW q, QueueOk(q), NEW id \in Ids \ DOMAIN q.cached, NEW buf \in Attachments
    PROVE  LET r == AttachAvailableBufferLocked(q, id, buf)
           IN  QueueOk(r) /\ Moved(q, r, id, "ATTACHED")
  <1> DEFINE n == GetCachedBufferCount(q) - q.size + 1
             x == IF GetCachedBufferCount(q) < q.size THEN q ELSE DeleteBuffers(q, n)
             e == [cap |-> buf.size, mem |-> buf.mem, form |-> buf.form, state |-> "ATTACHED", isDeleting |-> FALSE]
  <1>1. GetCachedBufferCount(q) \in Nat /\ q.size \in Nat
    BY CountType DEF QueueOk, QueueType
  <1>2. QueueOk(x) /\ Kept(q, x) /\ DOMAIN x.cached \subseteq DOMAIN q.cached
    <2>1. CASE GetCachedBufferCount(q) < q.size
      BY <2>1 DEF Kept
    <2>2. CASE ~(GetCachedBufferCount(q) < q.size)
      <3>1. n \in Nat
        BY <1>1, <2>2
      <3>2. QED
        BY <2>2, <3>1, DeleteBuffersOk
    <2>3. QED
      BY <2>1, <2>2
  <1>3. e \in Elements /\ e.mem \in MemoryTypes /\ e.state = "ATTACHED" /\ e.state \in OwnerStates
    BY SizesAssumption DEF Attachments, Elements, States, OwnerStates
  <1>4. AttachAvailableBufferLocked(q, id, buf) = AddCached(x, id, e)
    BY DEF AttachAvailableBufferLocked
  <1> HIDE DEF x, e
  <1>5. QueueOk(AddCached(x, id, e)) /\ Moved(x, AddCached(x, id, e), id, "ATTACHED")
    BY <1>2, <1>3, AddOk
  <1>6. Moved(q, AddCached(x, id, e), id, "ATTACHED")
    BY <1>2, <1>5 DEF Moved, Kept
  <1>7. QED
    BY <1>4, <1>5, <1>6
-----------------------------------------------------------------------------
(* What a step does to the calls in progress                               *)

\* Waking the waiters changes nothing else.
LEMMA NotifyOk ==
    ASSUME NEW c, NEW P, NEW A, NEW B, CallsOk(c, P, A, B)
    PROVE  CallsOk(NotifyAll(c), P, A, B)
  <1> DEFINE d == NotifyAll(c)
  <1>1. /\ d \in [Threads -> Frames]
        /\ \A t \in Threads : d[t].id = c[t].id /\ d[t].req = c[t].req /\ d[t].kind = c[t].kind
        /\ \A t \in Threads : d[t].pc = IF c[t].pc = "wait" THEN "woken" ELSE c[t].pc
    BY DEF CallsOk, NotifyAll, Frames
  <1> HIDE DEF d
  <1>2. \A t \in Threads : FrameOk(d[t], P, A, B)
    BY <1>1 DEF CallsOk, FrameOk, Waiting
  <1>3. Disjoint(d)
    BY <1>1 DEF CallsOk, Disjoint, Holding
  <1>4. Covered(d, P, A, B)
    BY <1>1 DEF CallsOk, Covered
  <1>5. QED
    BY <1>1, <1>2, <1>3, <1>4 DEF CallsOk, d

\* A thread that holds nothing takes on a call that holds nothing.
LEMMA IdleOk ==
    ASSUME NEW c, NEW P, NEW A, NEW B, CallsOk(c, P, A, B),
           NEW t \in Threads, c[t].pc \notin Holding,
           NEW f, FrameOk(f, P, A, B), f.pc \notin Holding
    PROVE  CallsOk([c EXCEPT ![t] = f], P, A, B)
  BY DEF CallsOk, FrameOk, Disjoint, Covered, Holding

\* A thread starts to push a buffer nobody else has.
LEMMA StartPushOk ==
    ASSUME NEW c, NEW P, NEW A, NEW B, CallsOk(c, P, A, B),
           NEW t \in Threads, c[t].pc \notin Holding,
           NEW f \in Frames, f.pc \in {"broker", "return"}, f.id \notin P \cup A,
           f.kind = "empty" => "empty" \in Fillings
    PROVE  CallsOk([c EXCEPT ![t] = f], P \cup {f.id}, A, B)
  BY DEF CallsOk, FrameOk, Disjoint, Covered, Holding, Waiting

\* A thread attaches a buffer nobody else has.
LEMMA StartAttachOk ==
    ASSUME NEW c, NEW P, NEW A, NEW B, CallsOk(c, P, A, B),
           NEW t \in Threads, c[t].pc \notin Holding,
           NEW f \in Frames, f.pc = "attached", f.id \notin P \cup A,
           f.kind = "empty" => "empty" \in Fillings
    PROVE  CallsOk([c EXCEPT ![t] = f], P, A \cup {f.id}, B)
  BY DEF CallsOk, FrameOk, Disjoint, Covered, Holding, Waiting

\* A thread lets its buffer go, to a list or out of the queue.
LEMMA LetGoOk ==
    ASSUME NEW c, NEW P, NEW A, NEW B, CallsOk(c, P, A, B), P \cap A = {},
           NEW t \in Threads, c[t].pc \in Holding,
           NEW f, FrameOk(f, {}, {}, {}), f.pc \notin Holding
    PROVE  CallsOk([c EXCEPT ![t] = f], P \ {c[t].id}, A \ {c[t].id}, B)
  BY DEF CallsOk, FrameOk, Disjoint, Covered, Holding, Waiting

\* An attached buffer is pushed by the thread that attached it.
LEMMA PushAttachedOk ==
    ASSUME NEW c, NEW P, NEW A, NEW B, CallsOk(c, P, A, B), P \cap A = {},
           NEW t \in Threads, c[t].pc = "attached",
           NEW f \in Frames, f.pc \in {"broker", "return"}, f.id = c[t].id, f.kind = c[t].kind
    PROVE  CallsOk([c EXCEPT ![t] = f], P \cup {f.id}, A \ {f.id}, B)
  BY DEF CallsOk, FrameOk, Disjoint, Covered, Holding, Waiting

\* A pushing thread hands its buffer to the broker.
LEMMA ToBrokerOk ==
    ASSUME NEW c, NEW P, NEW A, NEW B, CallsOk(c, P, A, B),
           NEW t \in Threads, c[t].pc = "broker",
           NEW f, FrameOk(f, {}, {}, {}), f.pc \notin Holding
    PROVE  CallsOk([c EXCEPT ![t] = f], P, A, B \cup {c[t].id})
  BY DEF CallsOk, FrameOk, Disjoint, Covered, Holding, Waiting

\* A broker hands a buffer back on a thread of its own.
LEMMA FromBrokerOk ==
    ASSUME NEW c, NEW P, NEW A, NEW B, CallsOk(c, P, A, B), P \cap A = {},
           NEW t \in Threads, c[t].pc \notin Holding,
           NEW f \in Frames, f.pc = "return", f.id \in B,
           f.kind = "empty" => "empty" \in Fillings
    PROVE  CallsOk([c EXCEPT ![t] = f], P, A, B \ {f.id})
  BY DEF CallsOk, FrameOk, Disjoint, Covered, Holding, Waiting

\* Without a broker the pushing thread goes on to ReturnBuffer.
LEMMA ToReturnOk ==
    ASSUME NEW c, NEW P, NEW A, NEW B, CallsOk(c, P, A, B),
           NEW t \in Threads, c[t].pc = "broker",
           NEW f \in Frames, f.pc = "return", f.id = c[t].id, f.kind = c[t].kind
    PROVE  CallsOk([c EXCEPT ![t] = f], P, A, B)
  BY DEF CallsOk, FrameOk, Disjoint, Covered, Holding, Waiting

\* The push of an empty buffer fails and leaves the buffer PUSHED.
LEMMA EmptyFailOk ==
    ASSUME NEW c, NEW P, NEW A, NEW B, CallsOk(c, P, A, B), "empty" \in Fillings,
           NEW t \in Threads, c[t].pc = "return",
           NEW f \in Frames, f.pc \in {"idle", "detach"}, f.pc = "detach" => f.id = c[t].id
    PROVE  CallsOk([c EXCEPT ![t] = f], P, A, B)
  BY DEF CallsOk, FrameOk, Disjoint, Covered, Holding, Waiting

\* The frames the actions leave behind.
LEMMA FrameTypes ==
    /\ FrameOk(Idle, {}, {}, {}) /\ Idle.pc \notin Holding
    /\ \A P, A, B : FrameOk(Idle, P, A, B)
  BY DEF Idle, FrameOk, Frames, NoRequest, Holding, Waiting

\* No buffer is in two states.
LEMMA StatesDisjoint ==
    ASSUME NEW q, NEW s1, NEW s2, s1 # s2
    PROVE  InState(q, s1) \cap InState(q, s2) = {}
  BY DEF InState
-----------------------------------------------------------------------------
(* Every step of a client keeps IInv                                       *)

\* The clients of the theorems below use every operation but Clear and
\* ClearBufferIf, and set the consumer listener before they push.
CalmClients == Ops \cap {"clear", "clearIf", "lateListener"} = {}

\* The empty queue satisfies the inductive invariant.
LEMMA InitOk ==
    ASSUME CalmClients, Init
    PROVE  IInv
  <1>1. Min({InitSize, MAX_QUEUE_SIZE}) \in Nat
    BY MinOfTwo, QueueSizeAssumption
  <1>2. /\ queue.cached = [i \in {} |-> Ghost] /\ queue.free = <<>> /\ queue.dirty = <<>>
        /\ DOMAIN queue.cached = {}
    BY DEF Init
  <1>3. QueueType(queue)
    BY <1>1, <1>2, TypesAssumption DEF Init, QueueType
  <1>4. \A s : InState(queue, s) = {}
    BY <1>2 DEF InState
  <1>5. QueueOk(queue)
    <2>1. ToSet(<<>>) = {} /\ IsInjective(<<>>)
      BY DEF ToSet, IsInjective
    <2>2. QED
      BY <1>2, <1>3, <1>4, <2>1 DEF QueueOk, ListsOk, Real
  <1>6. calls \in [Threads -> Frames] /\ \A t \in Threads : calls[t] = Idle
    BY FrameTypes DEF Init, FrameOk
  <1>7. CallsOk(calls, {}, {}, {})
    BY <1>6, FrameTypes DEF CallsOk, Disjoint, Covered
  <1>8. consumerListener = TRUE
    BY DEF Init, CalmClients
  <1>9. TypeOK
    BY <1>2, <1>3, <1>6, <1>8 DEF TypeOK, Cached, Init
  <1>10. QED
    BY <1>4, <1>5, <1>7, <1>8, <1>9 DEF Init, IInv

\* The parts of IInv that an action has to establish.
LEMMA StepOk ==
    ASSUME QueueOk(queue'),
           prodHeld' = InState(queue', "REQUESTED"),
           consHeld' = InState(queue', "ACQUIRED"),
           CallsOk(calls', InState(queue', "PUSHED"), InState(queue', "ATTACHED"), brokerHeld'),
           consumerListener' = TRUE,
           brokerListeners' \in Seq(Brokers),
           wanted' \in [Ids -> Requests \cup {NoRequest}],
           available' \in Nat
    PROVE  IInv'
  <1>1. \A s : InState(queue', s) \subseteq Ids
    BY DEF QueueOk, QueueType, InState
  <1>2. TypeOK'
    BY <1>1 DEF TypeOK, Cached, CallsOk, QueueOk, Real
  <1>3. QED
    BY <1>2 DEF IInv

\* What a granted request leaves to show: the new REQUESTED buffer is the
\* producer's, every other owner keeps what it has.
Granted ==
    /\ QueueOk(queue')
    /\ wanted' \in [Ids -> Requests \cup {NoRequest}]
    /\ prodHeld' = InState(queue', "REQUESTED")
    /\ \A s \in {"PUSHED", "ACQUIRED", "ATTACHED"} : InState(queue', s) = InState(queue, s)

\* AllocBuffer on a consistent queue hands out a fresh buffer or fails cleanly.
LEMMA AllocBufferOk ==
    ASSUME IInv, NEW q, QueueOk(q), Kept(queue, q), DOMAIN q.cached \subseteq Cached,
           NEW req \in Requests, req.mem \in MemoryTypes, req.size \in Sizes,
           AllocBuffer(q, req)
    PROVE  Granted
  <1>1. CASE \E id \in FreshIds : queue' = AllocRequested(q, id, req) /\ Hand(id, req)
    <2>1. PICK id \in FreshIds : queue' = AllocRequested(q, id, req) /\ Hand(id, req)
      BY <1>1
    <2>2. id \in Ids \ DOMAIN q.cached /\ id \notin Cached
      BY DEF FreshIds
    <2> DEFINE e == [cap |-> req.size, mem |-> req.mem, form |-> req.form, state |-> "REQUESTED", isDeleting |-> FALSE]
    <2>3. e \in Elements /\ e.mem \in MemoryTypes /\ e.state \in OwnerStates /\ e.state = "REQUESTED"
      BY SizesAssumption DEF Elements, Requests, OwnerStates, States
    <2>4. queue' = AddCached(q, id, e)
      BY <2>1 DEF AllocRequested
    <2> HIDE DEF e
    <2>5. QueueOk(queue') /\ Moved(q, queue', id, "REQUESTED")
      BY <2>2, <2>3, <2>4, AddOk
    <2>6. \A s : id \notin InState(queue, s)
      BY <2>2 DEF InState, Cached
    <2>7. wanted' \in [Ids -> Requests \cup {NoRequest}]
      BY <2>1, SizesAssumption DEF Hand, IInv, TypeOK
    <2>8. QED
      BY <2>1, <2>5, <2>6, <2>7 DEF Granted, Moved, Kept, OwnerStates, Hand, IInv
  <1>2. CASE queue' = q /\ UNCHANGED <<prodHeld, wanted>>
    BY <1>2 DEF Granted, Kept, OwnerStates, IInv, TypeOK
  <1>3. QED
    BY <1>1, <1>2 DEF AllocBuffer

\* Reusing a free buffer, or replacing it by a larger one, keeps the invariant.
LEMMA PopAndReuseOk ==
    ASSUME IInv, NEW q, QueueOk(q), Kept(queue, q), DOMAIN q.cached \subseteq Cached,
           NEW req \in Requests, req.mem \in MemoryTypes, req.size \in Sizes,
           q.free # <<>>, PopAndReuse(q, req)
    PROVE  Granted
  <1> DEFINE fits == {i \in DOMAIN q.free : Fits(req, Elem(q, q.free[i]))}
             at == IF fits = {} THEN 1 ELSE Min(fits)
             id == q.free[at]
             read == IF fits = {} THEN ToSet(q.free) ELSE {q.free[i] : i \in 1 .. at}
             popped == [Touch(q, read) EXCEPT !.free = RemoveAt(@, at)]
  <1>1. /\ q.free \in Seq(Ids) /\ DOMAIN q.free = 1 .. Len(q.free) /\ Len(q.free) \in Nat
        /\ \A j \in 1 .. Len(q.free) : q.free[j] \in ToSet(q.free)
    BY ToSetElements DEF QueueOk, QueueType
  <1>2. fits \subseteq DOMAIN q.free
    OBVIOUS
  <1> HIDE DEF fits
  <1>3. at \in DOMAIN q.free
    <2>1. CASE fits = {}
      BY <1>1, <2>1
    <2>2. CASE fits # {}
      <3>1. fits \subseteq Nat
        BY <1>1, <1>2
      <3>2. Min(fits) \in fits
        BY <2>2, <3>1, MinOfNats, Zenon
      <3>3. at = Min(fits)
        BY <2>2, Zenon
      <3>4. QED
        BY <1>2, <3>2, <3>3, Zenon
    <2>3. QED
      BY <2>1, <2>2
  <1> HIDE DEF at
  <1>4. read \subseteq ToSet(q.free)
    <2>1. {q.free[i] : i \in 1 .. at} \subseteq ToSet(q.free)
      BY <1>1, <1>3
    <2>2. QED
      BY <2>1
  <1> HIDE DEF read
  <1>5. id \in DOMAIN q.cached /\ q.cached[id].mem \in MemoryTypes
    BY <1>3, <1>4, PopOk
  <1>6. Elem(q, id).mem # UNKNOWN_MEMORY
    BY <1>5, TypesAssumption DEF Elem
  <1>7. CASE queue' = SetState(popped, id, "REQUESTED") /\ Hand(id, req)
    <2>1. QueueOk(queue') /\ Moved(q, queue', id, "REQUESTED") /\ id \in Ids
      BY <1>3, <1>4, <1>7, ReuseOk
    <2>2. id \notin InState(queue, "PUSHED") /\ id \notin InState(queue, "ACQUIRED")
          /\ id \notin InState(queue, "ATTACHED")
      <3>1. q.cached[id].state = "RELEASED"
        BY <1>3, <1>4, PopOk
      <3>2. QED
        BY <3>1 DEF Kept, OwnerStates, InState
    <2> HIDE DEF id
    <2>3. wanted' \in [Ids -> Requests \cup {NoRequest}]
      BY <1>7, <2>1, SizesAssumption DEF Hand, IInv, TypeOK
    <2>5. Hand(id, req) /\ prodHeld = InState(queue, "REQUESTED")
      BY <1>7 DEF IInv
    <2> HIDE DEF popped
    <2>6. InState(queue', "REQUESTED") = InState(queue, "REQUESTED") \cup {id}
      BY <2>1 DEF Moved, Kept, OwnerStates
    <2>7. /\ InState(queue', "PUSHED") = InState(queue, "PUSHED") \ {id}
          /\ InState(queue', "ACQUIRED") = InState(queue, "ACQUIRED") \ {id}
          /\ InState(queue', "ATTACHED") = InState(queue, "ATTACHED") \ {id}
      BY <2>1 DEF Moved, Kept, OwnerStates
    <2>8. prodHeld' = prodHeld \cup {id}
      BY <2>5 DEF Hand
    <2>4. QED
      BY <2>1, <2>2, <2>3, <2>5, <2>6, <2>7, <2>8 DEF Granted
  <1>8. CASE AllocBuffer(DeleteCachedBuffers(popped, {id}), req)
    <2> DEFINE r == DeleteCachedBuffers(popped, {id})
    <2>1. QueueOk(r) /\ Kept(q, r) /\ DOMAIN r.cached \subseteq DOMAIN q.cached
      BY <1>3, <1>4, ReplaceOk
    <2>2. AllocBuffer(r, req)
      BY <1>8
    <2> HIDE DEF r
    <2>3. Kept(queue, r) /\ DOMAIN r.cached \subseteq Cached
      BY <2>1 DEF Kept
    <2>4. QED
      BY <2>1, <2>2, <2>3, AllocBufferOk
  <1>9. \/ queue' = SetState(popped, id, "REQUESTED") /\ Hand(id, req)
        \/ AllocBuffer(DeleteCachedBuffers(popped, {id}), req)
    <2>1. PopAndReuse(q, req) <=>
            \/ /\ Elem(q, id).mem = UNKNOWN_MEMORY
               /\ queue' = popped
               /\ UNCHANGED <<prodHeld, wanted>>
            \/ /\ Elem(q, id).mem # UNKNOWN_MEMORY
               /\ fits # {}
               /\ queue' = SetState(popped, id, "REQUESTED")
               /\ Hand(id, req)
            \/ /\ Elem(q, id).mem # UNKNOWN_MEMORY
               /\ fits = {}
               /\ AllocBuffer(DeleteCachedBuffers(popped, {id}), req)
      BY Zenon DEF PopAndReuse, fits, at, read
    <2>2. QED
      BY <1>6, <2>1
  <1>10. QED
    BY <1>7, <1>8, <1>9

\* A request that is granted, at once or after a wait.
LEMMA GrantOk ==
    ASSUME IInv, NEW t \in Threads, calls[t].pc \notin Holding,
           NEW q, QueueOk(q), Kept(queue, q), DOMAIN q.cached \subseteq Cached,
           NEW req \in Requests, req.mem \in MemoryTypes, req.size \in Sizes,
           Grant(t, q, req), UNCHANGED <<consHeld, brokerHeld, listenerVars, available>>
    PROVE  IInv'
  <1>1. Granted
    <2>1. CASE q.free # <<>>
      BY <2>1, PopAndReuseOk DEF Grant
    <2>2. CASE q.free = <<>>
      BY <2>2, AllocBufferOk DEF Grant
    <2>3. QED
      BY <2>1, <2>2
  <1>2. CallsOk(calls', InState(queue, "PUSHED"), InState(queue, "ATTACHED"), brokerHeld)
    BY IdleOk, FrameTypes DEF Grant, IInv
  <1>3. QED
    BY <1>1, <1>2, StepOk DEF Granted, IInv, TypeOK, listenerVars

\* RequestBuffer up to the wait keeps the invariant.
LEMMA RequestBufferOk ==
    ASSUME IInv, NEW t \in Threads, NEW config \in Requests, RequestBuffer(t, config)
    PROVE  IInv'
  <1> DEFINE req == [config EXCEPT !.mem = IF @ = UNKNOWN_MEMORY THEN queue.memoryType ELSE @]
             q == CheckConfig(queue, req.mem)
  <1>1. queue.memoryType \in MemoryTypes \cup {UNKNOWN_MEMORY} /\ QueueOk(queue)
    BY DEF IInv, TypeOK, QueueType
  <1>2. /\ calls[t].pc = "idle"
        /\ ConfigOk(queue, req.mem)
        /\ IF Full(q) THEN Wait(t, q, req) ELSE Grant(t, q, req)
        /\ UNCHANGED <<consHeld, brokerHeld, listenerVars, available>>
    BY Zenon DEF RequestBuffer
  <1>3. /\ req \in Requests /\ req.mem \in MemoryTypes /\ req.size \in Sizes
    BY <1>1, <1>2 DEF Requests, ConfigOk
  <1> HIDE DEF req
  <1>4. QueueOk(q) /\ Kept(queue, q) /\ q.cached = queue.cached
    BY <1>1, <1>3, CheckConfigOk
  <1> HIDE DEF q
  <1>5. calls[t].pc \notin Holding
    BY <1>2 DEF Holding
  <1>6. CASE Grant(t, q, req)
    BY <1>2, <1>3, <1>4, <1>5, <1>6, GrantOk DEF Cached
  <1>7. CASE Wait(t, q, req)
    <2> DEFINE P == InState(queue, "PUSHED")
               A == InState(queue, "ATTACHED")
               f(pc) == [Idle EXCEPT !.pc = pc, !.req = req]
    <2>1. CallsOk(calls, P, A, brokerHeld)
      BY DEF IInv
    <2> HIDE DEF P, A
    <2>2. \A pc \in {"wait", "timed"} : FrameOk(f(pc), P, A, brokerHeld) /\ f(pc).pc \notin Holding
      BY <1>3 DEF FrameOk, Frames, Idle, Holding, Waiting
    <2> HIDE DEF f
    <2>3. calls' = calls \/ calls' = [calls EXCEPT ![t] = f("wait")]
             \/ calls' = [calls EXCEPT ![t] = f("timed")]
      BY <1>7 DEF Wait, f
    <2>4. CallsOk(calls', P, A, brokerHeld)
      BY <1>5, <2>1, <2>2, <2>3, IdleOk
    <2>5. queue' = q /\ UNCHANGED <<prodHeld, wanted>>
      BY <1>7 DEF Wait
    <2>6. \A s \in OwnerStates : InState(queue', s) = InState(queue, s)
      BY <1>4, <2>5 DEF Kept
    <2>7. QED
      BY <1>2, <1>4, <2>4, <2>5, <2>6, StepOk DEF P, A, IInv, TypeOK, listenerVars, OwnerStates
  <1>8. QED
    BY <1>2, <1>6, <1>7

\* A spurious wake-up keeps the invariant.
LEMMA SpuriousWakeupOk ==
    ASSUME IInv, NEW t \in Threads, SpuriousWakeup(t)
    PROVE  IInv'
  <1> DEFINE P == InState(queue, "PUSHED")
             A == InState(queue, "ATTACHED")
             f == [calls[t] EXCEPT !.pc = "woken"]
  <1>1. /\ calls[t].pc = "wait" /\ CallsOk(calls, P, A, brokerHeld) /\ calls \in [Threads -> Frames]
        /\ calls' = [calls EXCEPT ![t] = f]
    BY DEF SpuriousWakeup, IInv, CallsOk
  <1>2. FrameOk(f, P, A, brokerHeld) /\ f.pc \notin Holding /\ calls[t].pc \notin Holding
    <2>1. FrameOk(calls[t], P, A, brokerHeld)
      BY <1>1 DEF CallsOk
    <2>2. QED
      BY <1>1, <2>1 DEF FrameOk, Frames, Waiting, Holding
  <1> HIDE DEF P, A, f
  <1>3. CallsOk(calls', P, A, brokerHeld)
    BY <1>1, <1>2, IdleOk
  <1>4. QED
    BY <1>3, StepOk DEF P, A, SpuriousWakeup, IInv, TypeOK, listenerVars, heldVars

\* The part of RequestBuffer after the wait keeps the invariant.
LEMMA RetryRequestOk ==
    ASSUME IInv, NEW t \in Threads, RetryRequest(t)
    PROVE  IInv'
  <1>1. /\ FrameOk(calls[t], InState(queue, "PUSHED"), InState(queue, "ATTACHED"), brokerHeld)
        /\ calls[t].pc \in {"woken", "timed"}
    BY DEF RetryRequest, IInv, CallsOk
  <1>2. /\ calls[t].pc \notin Holding /\ calls[t].req \in Requests
        /\ calls[t].req.mem \in MemoryTypes /\ calls[t].req.size \in Sizes
    BY <1>1 DEF FrameOk, Holding, Waiting
  <1>3. CASE Grant(t, queue, calls[t].req)
    <2>1. QueueOk(queue) /\ Kept(queue, queue) /\ DOMAIN queue.cached \subseteq Cached
      BY DEF IInv, Kept, Cached
    <2>2. QED
      BY <1>2, <1>3, <2>1, GrantOk DEF RetryRequest
  <1>4. CASE calls' = [calls EXCEPT ![t] = Idle] /\ UNCHANGED <<queue, prodHeld, wanted>>
    <2>1. CallsOk(calls', InState(queue, "PUSHED"), InState(queue, "ATTACHED"), brokerHeld)
      BY <1>2, <1>4, IdleOk, FrameTypes DEF IInv
    <2>2. QED
      BY <1>4, <2>1, StepOk DEF RetryRequest, IInv, TypeOK, listenerVars
  <1>5. QED
    BY <1>3, <1>4 DEF RetryRequest

\* The first section of PushBuffer keeps the invariant.
LEMMA PushBufferOk ==
    ASSUME IInv, NEW t \in Threads, NEW id \in Ids, NEW kind \in Kinds, PushBuffer(t, id, kind)
    PROVE  IInv'
  <1> DEFINE P == InState(queue, "PUSHED")
             A == InState(queue, "ATTACHED")
             f == [Idle EXCEPT !.pc = IF kind = "cancel" THEN "return" ELSE "broker",
                               !.id = id, !.kind = kind, !.attach = FALSE]
  <1>1. /\ CallsOk(calls, P, A, brokerHeld) /\ QueueOk(queue)
        /\ calls[t].pc \notin Holding
        /\ id \in InState(queue, "REQUESTED")
        /\ kind \in Fillings \cup {"cancel"}
    BY DEF PushBuffer, IInv, Holding
  <1>2. /\ id \in DOMAIN queue.cached /\ queue.cached[id].state \in OwnerStates
        /\ id \notin P /\ id \notin A /\ id \notin InState(queue, "ACQUIRED")
    BY <1>1 DEF InState, OwnerStates
  <1>3. wanted' \in [Ids -> Requests \cup {NoRequest}]
    BY DEF PushBuffer, IInv, TypeOK
  <1>4. /\ prodHeld' = InState(queue, "REQUESTED") \ {id}
        /\ consHeld' = InState(queue, "ACQUIRED")
        /\ UNCHANGED <<brokerHeld, brokerListeners, consumerListener, available>>
    BY DEF PushBuffer, IInv, listenerVars
  <1>5. CASE queue' = DeleteCachedBuffers(queue, {id}) /\ calls' = [calls EXCEPT ![t] = Idle]
    <2>1. QueueOk(queue') /\ Moved(queue, queue', id, "none")
      BY <1>1, <1>2, <1>5, RemoveOk
    <2>2. /\ InState(queue', "PUSHED") = P /\ InState(queue', "ATTACHED") = A
          /\ InState(queue', "ACQUIRED") = InState(queue, "ACQUIRED")
          /\ InState(queue', "REQUESTED") = InState(queue, "REQUESTED") \ {id}
      BY <1>2, <2>1 DEF Moved, OwnerStates
    <2> HIDE DEF P, A
    <2>3. CallsOk(calls', P, A, brokerHeld)
      BY <1>1, <1>5, IdleOk, FrameTypes
    <2>4. QED
      BY <1>3, <1>4, <2>1, <2>2, <2>3, StepOk DEF IInv, TypeOK
  <1>6. CASE queue' = SetState(queue, id, "PUSHED") /\ calls' = [calls EXCEPT ![t] = f]
    <2>1. QueueOk(queue') /\ Moved(queue, queue', id, "PUSHED")
      BY <1>1, <1>2, <1>6, HandOverOk DEF OwnerStates
    <2>2. /\ InState(queue', "PUSHED") = P \cup {id} /\ InState(queue', "ATTACHED") = A
          /\ InState(queue', "ACQUIRED") = InState(queue, "ACQUIRED")
          /\ InState(queue', "REQUESTED") = InState(queue, "REQUESTED") \ {id}
      BY <1>2, <2>1 DEF Moved, OwnerStates
    <2> HIDE DEF P, A
    <2>3. /\ f \in Frames /\ f.pc \in {"broker", "return"} /\ f.id = id
          /\ f.kind = "empty" => "empty" \in Fillings
      BY <1>1, ClientsAssumption DEF Frames, Idle
    <2> HIDE DEF f
    <2>4. CallsOk(calls', P \cup {id}, A, brokerHeld)
      BY <1>1, <1>2, <1>6, <2>3, StartPushOk
    <2>5. QED
      BY <1>3, <1>4, <2>1, <2>2, <2>4, StepOk DEF IInv, TypeOK
  <1>7. QED
    BY <1>5, <1>6 DEF PushBuffer, PushLocked

\* Handing a pushed buffer to a broker, or past it, keeps the invariant.
LEMMA OfferToBrokerOk ==
    ASSUME IInv, NEW t \in Threads, OfferToBroker(t)
    PROVE  IInv'
  <1> DEFINE P == InState(queue, "PUSHED")
             A == InState(queue, "ATTACHED")
             f == [calls[t] EXCEPT !.pc = "return"]
  <1>1. /\ CallsOk(calls, P, A, brokerHeld)
        /\ calls[t].pc = "broker" /\ calls \in [Threads -> Frames]
        /\ UNCHANGED <<queue, prodHeld, consHeld, wanted, brokerListeners, consumerListener, available>>
    BY DEF OfferToBroker, IInv, CallsOk, listenerVars
  <1> HIDE DEF P, A
  <1>2. CallsOk(calls', P, A, brokerHeld')
    <2>1. CASE brokerListeners # <<>>
      <3>1. calls' = [calls EXCEPT ![t] = Idle] /\ brokerHeld' = brokerHeld \cup {calls[t].id}
        BY <2>1 DEF OfferToBroker
      <3>2. QED
        BY <1>1, <3>1, ToBrokerOk, FrameTypes
    <2>2. CASE brokerListeners = <<>>
      <3>1. calls' = [calls EXCEPT ![t] = f] /\ brokerHeld' = brokerHeld
        BY <2>2 DEF OfferToBroker
      <3>2. f \in Frames /\ f.pc = "return" /\ f.id = calls[t].id /\ f.kind = calls[t].kind
        BY <1>1 DEF Frames
      <3> HIDE DEF f
      <3>3. QED
        BY <1>1, <3>1, <3>2, ToReturnOk
    <2>3. QED
      BY <2>1, <2>2
  <1>3. QED
    BY <1>1, <1>2, StepOk DEF P, A, IInv, TypeOK

\* A broker that gives a buffer back keeps the invariant.
LEMMA BrokerReturnOk ==
    ASSUME IInv, NEW t \in Threads, NEW id \in Ids, NEW kind \in Kinds, BrokerReturn(t, id, kind)
    PROVE  IInv'
  <1> DEFINE P == InState(queue, "PUSHED")
             A == InState(queue, "ATTACHED")
             f == [Idle EXCEPT !.pc = "return", !.id = id, !.kind = kind]
  <1>1. /\ CallsOk(calls, P, A, brokerHeld) /\ P \cap A = {}
        /\ calls[t].pc \notin Holding /\ id \in brokerHeld
        /\ brokerHeld' = brokerHeld \ {id} /\ calls' = [calls EXCEPT ![t] = f]
        /\ UNCHANGED <<queue, prodHeld, consHeld, wanted, brokerListeners, consumerListener, available>>
    BY StatesDisjoint DEF BrokerReturn, IInv, Holding, listenerVars
  <1> HIDE DEF P, A
  <1>2. /\ f \in Frames /\ f.pc = "return" /\ f.id = id
        /\ f.kind = "empty" => "empty" \in Fillings
    BY ClientsAssumption DEF BrokerReturn, Kinds, Frames, Idle
  <1> HIDE DEF f
  <1>3. CallsOk(calls', P, A, brokerHeld')
    BY <1>1, <1>2, FromBrokerOk
  <1>4. QED
    BY <1>1, <1>3, StepOk DEF P, A, IInv, TypeOK

\* The call of the consumer listener keeps the invariant.
LEMMA NotifyConsumerOk ==
    ASSUME IInv, NEW t \in Threads, NotifyConsumer(t)
    PROVE  IInv'
  <1>1. /\ calls[t].pc \notin Holding
        /\ available' = Min({available + 1, Cardinality(Ids)}) /\ calls' = [calls EXCEPT ![t] = Idle]
        /\ UNCHANGED <<queue, prodHeld, consHeld, brokerHeld, wanted, brokerListeners, consumerListener>>
    BY DEF NotifyConsumer, IInv, Holding, listenerVars, heldVars
  <1>2. available' \in Nat
    <2>1. available + 1 \in Nat /\ Cardinality(Ids) \in Nat
      BY IdsAssumption, FS_CardinalityType DEF IInv, TypeOK
    <2>2. QED
      BY <1>1, <2>1, MinOfTwo
  <1>3. CallsOk(calls', InState(queue, "PUSHED"), InState(queue, "ATTACHED"), brokerHeld)
    BY <1>1, IdleOk, FrameTypes DEF IInv
  <1>4. QED
    BY <1>1, <1>2, <1>3, StepOk DEF IInv, TypeOK

\* A thread that has a PUSHED or ATTACHED buffer lets it go: the common part of
\* ReturnBuffer, ForceDetach, ReleaseAttached and a push of a marked buffer.
LEMMA LetGoStep ==
    ASSUME IInv, NEW t \in Threads, calls[t].pc \in Holding,
           QueueOk(queue'), Moved(queue, queue', calls[t].id, "none"),
           NEW f, FrameOk(f, {}, {}, {}), f.pc \notin Holding,
           \/ calls' = [calls EXCEPT ![t] = f]
           \/ calls' = NotifyAll([calls EXCEPT ![t] = f]),
           UNCHANGED <<prodHeld, consHeld, brokerHeld, wanted, listenerVars, available>>
    PROVE  IInv'
  <1> DEFINE P == InState(queue, "PUSHED")
             A == InState(queue, "ATTACHED")
             id == calls[t].id
  <1>1. CallsOk(calls, P, A, brokerHeld) /\ P \cap A = {}
    BY StatesDisjoint DEF IInv
  <1>2. id \in P \cup A
    BY <1>1 DEF CallsOk, FrameOk, Holding
  <1>3. id \notin InState(queue, "REQUESTED") /\ id \notin InState(queue, "ACQUIRED")
    BY <1>2 DEF InState
  <1>4. /\ InState(queue', "PUSHED") = P \ {id} /\ InState(queue', "ATTACHED") = A \ {id}
        /\ InState(queue', "ACQUIRED") = InState(queue, "ACQUIRED")
        /\ InState(queue', "REQUESTED") = InState(queue, "REQUESTED")
    BY <1>3 DEF Moved, OwnerStates
  <1> HIDE DEF P, A
  <1>5. CallsOk([calls EXCEPT ![t] = f], P \ {id}, A \ {id}, brokerHeld)
    BY <1>1, LetGoOk
  <1>6. CallsOk(calls', P \ {id}, A \ {id}, brokerHeld)
    BY <1>5, NotifyOk
  <1>7. QED
    BY <1>4, <1>6, StepOk DEF IInv, TypeOK, listenerVars

\* The buffer of a thread in a later section of its call.
LEMMA HeldBuffer ==
    ASSUME IInv, NEW t \in Threads
    PROVE  /\ calls[t] \in Frames /\ calls \in [Threads -> Frames]
           /\ calls[t].pc \in Holding =>
                 /\ calls[t].id \in Cached /\ calls[t].id \in DOMAIN queue.cached
                 /\ queue.cached[calls[t].id].state =
                       IF calls[t].pc = "attached" THEN "ATTACHED" ELSE "PUSHED"
                 /\ queue.cached[calls[t].id].state \in OwnerStates
           /\ calls[t].kind = "empty" => "empty" \in Fillings
           /\ QueueOk(queue)
  <1>1. FrameOk(calls[t], InState(queue, "PUSHED"), InState(queue, "ATTACHED"), brokerHeld)
    BY DEF IInv, CallsOk
  <1>2. calls \in [Threads -> Frames] /\ QueueOk(queue)
    BY DEF IInv, CallsOk
  <1>3. QED
    BY <1>1, <1>2 DEF FrameOk, InState, Holding, OwnerStates, Cached

\* ReturnBuffer, in each of its outcomes, keeps the invariant.
LEMMA ReturnBufferOk ==
    ASSUME IInv, NEW t \in Threads, ReturnBuffer(t)
    PROVE  IInv'
  <1> DEFINE id == calls[t].id
             kind == calls[t].kind
             deleting == id \in Cached /\ queue.cached[id].isDeleting
             pushed == Returnable(id) /\ ~deleting
             f == [calls[t] EXCEPT !.pc = "notify"]
             g == IF calls[t].attach THEN [calls[t] EXCEPT !.pc = "detach"] ELSE Idle
  <1>1. /\ calls[t].pc = "return"
        /\ UNCHANGED <<prodHeld, consHeld, brokerHeld, wanted, listenerVars, available>>
    BY DEF ReturnBuffer, heldVars
  <1>2. /\ calls[t].pc \in Holding /\ calls[t] \in Frames /\ calls \in [Threads -> Frames]
        /\ id \in DOMAIN queue.cached /\ id \in Cached /\ queue.cached[id].state = "PUSHED"
        /\ queue.cached[id].state \in OwnerStates
        /\ kind = "empty" => "empty" \in Fillings
        /\ QueueOk(queue)
    BY <1>1, HeldBuffer DEF Holding
  <1>3. CASE queue' = DeleteCachedBuffers(queue, {id}) /\ calls' = [calls EXCEPT ![t] = Idle]
    <2>1. QueueOk(queue') /\ Moved(queue, queue', id, "none")
      BY <1>2, <1>3, RemoveOk
    <2>2. QED
      BY <1>1, <1>2, <1>3, <2>1, LetGoStep, FrameTypes
  <1>4. CASE /\ queue' = SetState(InsertFreeBufferInOrder(queue, id), id, "RELEASED")
             /\ calls' = [NotifyAll(calls) EXCEPT ![t] = Idle]
    <2>1. QueueOk(queue') /\ Moved(queue, queue', id, "none")
      BY <1>2, <1>4, CancelOk
    <2>2. calls' = NotifyAll([calls EXCEPT ![t] = Idle])
      BY <1>2, <1>4 DEF NotifyAll, Idle
    <2>3. QED
      BY <1>1, <1>2, <2>1, <2>2, LetGoStep, FrameTypes
  <1>5. CASE /\ queue' = [SetState(queue, id, "RETURNED") EXCEPT !.dirty = Append(@, id)]
             /\ calls' = [calls EXCEPT ![t].pc = "notify"]
    <2>1. QueueOk(queue') /\ Moved(queue, queue', id, "none")
      BY <1>2, <1>5, FillOk
    <2>2. calls' = [calls EXCEPT ![t] = f]
      BY <1>5
    <2>3. FrameOk(f, {}, {}, {}) /\ f.pc \notin Holding
      BY <1>2 DEF FrameOk, Frames, Holding, Waiting
    <2> HIDE DEF f
    <2>4. QED
      BY <1>1, <1>2, <2>1, <2>2, <2>3, LetGoStep
  <1>6. CASE ~deleting /\ (pushed => kind = "empty") /\ UNCHANGED queue /\ Fail(t)
    <2>1. pushed
      BY <1>2, <1>6 DEF Returnable
    <2>2. "empty" \in Fillings
      BY <1>2, <1>6, <2>1
    <2>3. calls' = [calls EXCEPT ![t] = g] /\ queue' = queue
      BY <1>6 DEF Fail
    <2>4. g \in Frames /\ g.pc \in {"idle", "detach"} /\ (g.pc = "detach" => g.id = calls[t].id)
      BY <1>2 DEF Frames, Idle, NoRequest
    <2> HIDE DEF g
    <2>5. CallsOk(calls', InState(queue, "PUSHED"), InState(queue, "ATTACHED"), brokerHeld)
      BY <1>1, <2>2, <2>3, <2>4, EmptyFailOk DEF IInv
    <2>6. QED
      BY <1>1, <2>3, <2>5, StepOk DEF IInv, TypeOK, listenerVars
  <1>7. QED
    BY <1>3, <1>4, <1>5, <1>6 DEF ReturnBuffer

\* The forced detach after a failed push keeps the invariant.
LEMMA ForceDetachOk ==
    ASSUME IInv, NEW t \in Threads, ForceDetach(t)
    PROVE  IInv'
  <1>1. /\ calls[t].pc \in Holding
        /\ queue' = DeleteCachedBuffers(queue, {calls[t].id})
        /\ calls' = [calls EXCEPT ![t] = Idle]
        /\ UNCHANGED <<prodHeld, consHeld, brokerHeld, wanted, listenerVars, available>>
    BY DEF ForceDetach, Holding, heldVars
  <1>2. QueueOk(queue') /\ Moved(queue, queue', calls[t].id, "none")
    BY <1>1, HeldBuffer, RemoveOk
  <1>3. QED
    BY <1>1, <1>2, LetGoStep, FrameTypes

\* ReleaseBuffer of a marked buffer: RELEASED, then out of the map.
LEMMA ReleaseDeletedOk ==
    ASSUME NEW q, QueueOk(q), NEW id \in DOMAIN q.cached, q.cached[id].state \in OwnerStates
    PROVE  LET r == DeleteCachedBuffers(SetState(q, id, "RELEASED"), {id})
           IN  QueueOk(r) /\ Moved(q, r, id, "none")
  <1> DEFINE x == SetState(q, id, "RELEASED")
             r == DeleteCachedBuffers(x, {id})
  <1>1. /\ QueueType(x) /\ SameLists(q, x)
        /\ DOMAIN x.cached = DOMAIN q.cached
        /\ \A i \in DOMAIN q.cached \ {id} : x.cached[i] = q.cached[i]
    BY SetStateLemma DEF QueueOk, States
  <1> HIDE DEF x
  <1>2. /\ QueueType(r) /\ SameLists(x, r)
        /\ DOMAIN r.cached = DOMAIN x.cached \ {id}
        /\ \A i \in DOMAIN r.cached : r.cached[i] = x.cached[i]
    BY <1>1, DeleteLemma
  <1> HIDE DEF r
  <1>3. \A s : InState(r, s) = InState(q, s) \ {id}
    BY <1>1, <1>2 DEF InState
  <1>4. InState(q, "RELEASED") = InState(r, "RELEASED") /\ InState(q, "RETURNED") = InState(r, "RETURNED")
    BY <1>3 DEF InState, OwnerStates
  <1>5. ListsOk(r)
    BY <1>1, <1>2, <1>4 DEF QueueOk, ListsOk, SameLists
  <1>6. Real(r)
    BY <1>1, <1>2 DEF QueueOk, Real
  <1>7. Moved(q, r, id, "none")
    BY <1>3 DEF Moved, OwnerStates
  <1>8. QED
    BY <1>2, <1>5, <1>6, <1>7 DEF QueueOk, r, x

\* The locked section of ReleaseBuffer keeps lists and owners in step.
LEMMA ReleaseLockedOk ==
    ASSUME QueueOk(queue), NEW id \in DOMAIN queue.cached, queue.cached[id].state \in OwnerStates,
           NEW c, ReleaseLocked(id, c)
    PROVE  /\ QueueOk(queue') /\ Moved(queue, queue', id, "none")
           /\ calls' = c \/ calls' = NotifyAll(c)
  <1>1. CASE queue' = DeleteCachedBuffers(SetState(queue, id, "RELEASED"), {id}) /\ calls' = c
    BY <1>1, ReleaseDeletedOk
  <1>2. CASE /\ queue' = InsertFreeBufferInOrder(SetState(queue, id, "RELEASED"), id)
             /\ calls' = NotifyAll(c)
    BY <1>2, ReleaseOk
  <1>3. QED
    BY <1>1, <1>2 DEF ReleaseLocked

\* The end of AttachBuffer for an unfilled buffer keeps the invariant.
LEMMA ReleaseAttachedOk ==
    ASSUME IInv, NEW t \in Threads, ReleaseAttached(t)
    PROVE  IInv'
  <1> DEFINE c == [calls EXCEPT ![t] = Idle]
  <1>1. /\ calls[t].pc = "attached" /\ calls[t].pc \in Holding
        /\ UNCHANGED <<prodHeld, consHeld, brokerHeld, wanted, listenerVars, available>>
    BY DEF ReleaseAttached, Holding, heldVars
  <1>2. /\ QueueOk(queue) /\ calls[t].id \in DOMAIN queue.cached
        /\ queue.cached[calls[t].id].state \in OwnerStates
        /\ Releasable(calls[t].id)
    BY <1>1, HeldBuffer DEF Releasable
  <1>3. ReleaseLocked(calls[t].id, c)
    BY <1>2 DEF ReleaseAttached
  <1> HIDE DEF c
  <1>4. /\ QueueOk(queue') /\ Moved(queue, queue', calls[t].id, "none")
        /\ calls' = c \/ calls' = NotifyAll(c)
    BY <1>2, <1>3, ReleaseLockedOk
  <1>5. QED
    BY <1>1, <1>4, LetGoStep, FrameTypes DEF c

\* ReleaseBuffer by the consumer keeps the invariant.
LEMMA ReleaseBufferOk ==
    ASSUME IInv, NEW id \in Ids, ReleaseBuffer(id)
    PROVE  IInv'
  <1> DEFINE P == InState(queue, "PUSHED")
             A == InState(queue, "ATTACHED")
  <1>1. /\ QueueOk(queue) /\ id \in InState(queue, "ACQUIRED") /\ ReleaseLocked(id, calls)
        /\ consHeld' = InState(queue, "ACQUIRED") \ {id}
        /\ UNCHANGED <<prodHeld, brokerHeld, wanted, brokerListeners, consumerListener, available>>
        /\ CallsOk(calls, P, A, brokerHeld)
    BY DEF ReleaseBuffer, IInv, listenerVars
  <1>2. /\ id \in DOMAIN queue.cached /\ queue.cached[id].state \in OwnerStates
        /\ id \notin P /\ id \notin A /\ id \notin InState(queue, "REQUESTED")
    BY <1>1 DEF InState, OwnerStates
  <1>3. /\ QueueOk(queue') /\ Moved(queue, queue', id, "none")
        /\ calls' = calls \/ calls' = NotifyAll(calls)
    BY <1>1, <1>2, ReleaseLockedOk
  <1>4. /\ InState(queue', "PUSHED") = P /\ InState(queue', "ATTACHED") = A
        /\ InState(queue', "ACQUIRED") = InState(queue, "ACQUIRED") \ {id}
        /\ InState(queue', "REQUESTED") = InState(queue, "REQUESTED")
    BY <1>2, <1>3 DEF Moved, OwnerStates
  <1> HIDE DEF P, A
  <1>5. CallsOk(calls', P, A, brokerHeld)
    BY <1>1, <1>3, NotifyOk
  <1>6. QED
    BY <1>1, <1>3, <1>4, <1>5, StepOk DEF IInv, TypeOK

\* DetachBuffer by the holder keeps the invariant.
LEMMA DetachBufferOk ==
    ASSUME IInv, NEW id \in Ids, DetachBuffer(id)
    PROVE  IInv'
  <1> DEFINE P == InState(queue, "PUSHED")
             A == InState(queue, "ATTACHED")
  <1>1. /\ QueueOk(queue) /\ id \in DOMAIN queue.cached
        /\ queue.cached[id].state \in {"REQUESTED", "ACQUIRED"}
        /\ queue' = DeleteCachedBuffers(queue, {id})
        /\ consHeld' = InState(queue, "ACQUIRED") \ {id}
        /\ prodHeld' = InState(queue, "REQUESTED") \ {id}
        /\ UNCHANGED <<calls, brokerHeld, brokerListeners, consumerListener, available>>
        /\ CallsOk(calls, P, A, brokerHeld)
    BY DEF DetachBuffer, IInv, listenerVars, Cached
  <1>2. queue.cached[id].state \in OwnerStates /\ id \notin P /\ id \notin A
    BY <1>1 DEF InState, OwnerStates
  <1>3. QueueOk(queue') /\ Moved(queue, queue', id, "none")
    BY <1>1, <1>2, RemoveOk
  <1>4. /\ InState(queue', "PUSHED") = P /\ InState(queue', "ATTACHED") = A
        /\ InState(queue', "ACQUIRED") = InState(queue, "ACQUIRED") \ {id}
        /\ InState(queue', "REQUESTED") = InState(queue, "REQUESTED") \ {id}
    BY <1>2, <1>3 DEF Moved, OwnerStates
  <1>5. wanted' \in [Ids -> Requests \cup {NoRequest}]
    BY DEF DetachBuffer, IInv, TypeOK
  <1> HIDE DEF P, A
  <1>6. QED
    BY <1>1, <1>3, <1>4, <1>5, StepOk DEF IInv, TypeOK

\* AcquireBuffer keeps the invariant.
LEMMA AcquireBufferOk ==
    ASSUME IInv, AcquireBuffer
    PROVE  IInv'
  <1> DEFINE P == InState(queue, "PUSHED")
             A == InState(queue, "ATTACHED")
             id == Head(queue.dirty)
  <1>1. /\ QueueOk(queue) /\ queue.dirty # <<>>
        /\ queue' = [SetState(queue, id, "ACQUIRED") EXCEPT !.dirty = Tail(@)]
        /\ consHeld' = InState(queue, "ACQUIRED") \cup {id}
        /\ prodHeld' = InState(queue, "REQUESTED")
        /\ UNCHANGED <<calls, brokerHeld, wanted, brokerListeners, consumerListener>>
        /\ CallsOk(calls, P, A, brokerHeld)
    BY DEF AcquireBuffer, IInv, listenerVars
  <1>2. QueueOk(queue') /\ Moved(queue, queue', id, "ACQUIRED")
    BY <1>1, AcquireOk
  <1>3. id \in InState(queue, "RETURNED")
    <2>1. id \in ToSet(queue.dirty)
      BY <1>1, TailToSet DEF QueueOk, QueueType, ListsOk
    <2>2. QED
      BY <1>1, <2>1 DEF QueueOk, ListsOk
  <1>4. id \notin P /\ id \notin A /\ id \notin InState(queue, "REQUESTED")
    BY <1>3 DEF InState
  <1> HIDE DEF id
  <1>5. /\ InState(queue', "PUSHED") = P /\ InState(queue', "ATTACHED") = A
        /\ InState(queue', "ACQUIRED") = InState(queue, "ACQUIRED") \cup {id}
        /\ InState(queue', "REQUESTED") = InState(queue, "REQUESTED")
    BY <1>2, <1>4 DEF Moved, OwnerStates
  <1>6. available' \in Nat
    BY DEF AcquireBuffer, IInv, TypeOK
  <1> HIDE DEF P, A
  <1>7. QED
    BY <1>1, <1>2, <1>5, <1>6, StepOk DEF IInv, TypeOK

\* The end of AttachBuffer for a filled buffer keeps the invariant.
LEMMA PushAttachedStep ==
    ASSUME IInv, NEW t \in Threads, PushAttached(t)
    PROVE  IInv'
  <1> DEFINE P == InState(queue, "PUSHED")
             A == InState(queue, "ATTACHED")
             id == calls[t].id
             kind == calls[t].kind
             f == [Idle EXCEPT !.pc = IF kind = "cancel" THEN "return" ELSE "broker",
                               !.id = id, !.kind = kind, !.attach = TRUE]
  <1>1. /\ calls[t].pc = "attached" /\ calls[t].pc \in Holding
        /\ UNCHANGED <<prodHeld, consHeld, brokerHeld, wanted, listenerVars, available>>
        /\ CallsOk(calls, P, A, brokerHeld) /\ P \cap A = {}
    BY StatesDisjoint DEF PushAttached, Holding, heldVars, IInv
  <1>2. /\ QueueOk(queue) /\ id \in DOMAIN queue.cached /\ id \in Cached
        /\ queue.cached[id].state = "ATTACHED"
        /\ queue.cached[id].state \in OwnerStates
        /\ calls[t] \in Frames
        /\ Pushable(id)
    BY <1>1, HeldBuffer DEF Pushable
  <1>3. CASE queue' = DeleteCachedBuffers(queue, {id}) /\ calls' = [calls EXCEPT ![t] = Idle]
    <2>1. QueueOk(queue') /\ Moved(queue, queue', id, "none")
      BY <1>2, <1>3, RemoveOk
    <2>2. QED
      BY <1>1, <1>3, <2>1, LetGoStep, FrameTypes
  <1>4. CASE queue' = SetState(queue, id, "PUSHED") /\ calls' = [calls EXCEPT ![t] = f]
    <2>1. QueueOk(queue') /\ Moved(queue, queue', id, "PUSHED")
      BY <1>2, <1>4, HandOverOk DEF OwnerStates
    <2>2. id \notin InState(queue, "REQUESTED") /\ id \notin InState(queue, "ACQUIRED")
      BY <1>2 DEF InState
    <2>3. /\ InState(queue', "PUSHED") = P \cup {id} /\ InState(queue', "ATTACHED") = A \ {id}
          /\ InState(queue', "ACQUIRED") = InState(queue, "ACQUIRED")
          /\ InState(queue', "REQUESTED") = InState(queue, "REQUESTED")
      BY <2>1, <2>2 DEF Moved, OwnerStates
    <2>4. f \in Frames /\ f.pc \in {"broker", "return"} /\ f.id = id /\ f.kind = kind
      BY <1>2 DEF Frames, Idle
    <2> HIDE DEF f, P, A
    <2>5. CallsOk(calls', P \cup {id}, A \ {id}, brokerHeld)
      BY <1>1, <1>4, <2>4, PushAttachedOk
    <2>6. QED
      BY <1>1, <2>1, <2>3, <2>5, StepOk DEF IInv, TypeOK, listenerVars
  <1>5. PushLocked(t, id, kind, TRUE)
    <2>1. \/ id \in Cached /\ PushLocked(t, id, kind, TRUE)
          \/ id \in Cached => ~queue.cached[id].isDeleting /\ ~Pushable(id)
      BY DEF PushAttached
    <2>2. QED
      BY <1>2, <2>1
  <1>6. QED
    BY <1>3, <1>4, <1>5 DEF PushLocked

\* The locked part of AttachBuffer, after a resize or on the queue as it is.
LEMMA AttachStep ==
    ASSUME IInv, NEW t \in Threads, NEW id \in Ids, NEW buf \in Attachments,
           NEW kind \in Fillings \cup {"release"},
           NEW q, QueueOk(q), Kept(queue, q), DOMAIN q.cached \subseteq Cached,
           NEW c, c = calls \/ c = NotifyAll(calls),
           Attach(t, q, c, id, buf, kind)
    PROVE  IInv'
  <1> DEFINE P == InState(queue, "PUSHED")
             A == InState(queue, "ATTACHED")
             r == CheckConfig(q, buf.mem)
             f == [Idle EXCEPT !.pc = "attached", !.id = id, !.kind = kind, !.attach = TRUE]
  <1>1. /\ CallsOk(calls, P, A, brokerHeld) /\ calls[t].pc = "idle"
        /\ id \notin Cached
        /\ UNCHANGED <<prodHeld, consHeld, brokerHeld, wanted, listenerVars, available>>
    BY DEF Attach, IInv, heldVars
  <1>2. QueueOk(r) /\ Kept(q, r) /\ r.cached = q.cached
    BY CheckConfigOk DEF Attachments
  <1>3. \/ queue' = AttachAvailableBufferLocked(r, id, buf) /\ calls' = [c EXCEPT ![t] = f]
        \/ queue' = r /\ calls' = c
    BY DEF Attach
  <1>4. id \notin P /\ id \notin A /\ id \notin InState(queue, "REQUESTED") /\ id \notin InState(queue, "ACQUIRED")
    BY <1>1 DEF InState, Cached
  <1>5. CallsOk(c, P, A, brokerHeld) /\ c[t].pc \notin Holding
    <2>1. CallsOk(c, P, A, brokerHeld)
      BY <1>1, NotifyOk
    <2>2. c[t].pc = "idle"
      BY <1>1 DEF NotifyAll
    <2>3. QED
      BY <2>1, <2>2 DEF Holding
  <1> HIDE DEF r
  <1>6. CASE queue' = AttachAvailableBufferLocked(r, id, buf) /\ calls' = [c EXCEPT ![t] = f]
    <2>1. QueueOk(queue') /\ Moved(r, queue', id, "ATTACHED")
      BY <1>1, <1>2, <1>6, AttachOk
    <2>2. /\ InState(queue', "PUSHED") = P /\ InState(queue', "ATTACHED") = A \cup {id}
          /\ InState(queue', "ACQUIRED") = InState(queue, "ACQUIRED")
          /\ InState(queue', "REQUESTED") = InState(queue, "REQUESTED")
      BY <1>2, <1>4, <2>1 DEF Moved, Kept, OwnerStates
    <2>3. /\ f \in Frames /\ f.pc = "attached" /\ f.id = id
          /\ f.kind = "empty" => "empty" \in Fillings
      BY ClientsAssumption DEF Frames, Idle
    <2> HIDE DEF f, P, A
    <2>4. CallsOk(calls', P, A \cup {id}, brokerHeld)
      BY <1>4, <1>5, <1>6, <2>3, StartAttachOk
    <2>5. QED
      BY <1>1, <2>1, <2>2, <2>4, StepOk DEF IInv, TypeOK, listenerVars
  <1>7. CASE queue' = r /\ calls' = c
    <2>1. /\ InState(queue', "PUSHED") = P /\ InState(queue', "ATTACHED") = A
          /\ InState(queue', "ACQUIRED") = InState(queue, "ACQUIRED")
          /\ InState(queue', "REQUESTED") = InState(queue, "REQUESTED")
      BY <1>2, <1>7 DEF Kept, OwnerStates
    <2> HIDE DEF P, A
    <2>2. QED
      BY <1>1, <1>2, <1>5, <1>7, <2>1, StepOk DEF IInv, TypeOK, listenerVars
  <1>8. QED
    BY <1>3, <1>6, <1>7

\* SetQueueSize keeps the invariant.
LEMMA SetQueueSizeOk ==
    ASSUME IInv, NEW n \in 0 .. MAX_QUEUE_SIZE, SetQueueSize(n)
    PROVE  IInv'
  <1> DEFINE P == InState(queue, "PUSHED")
             A == InState(queue, "ATTACHED")
  <1>1. /\ CallsOk(calls, P, A, brokerHeld) /\ QueueOk(queue) /\ n \in Nat
        /\ queue' = Resize(queue, n)
        /\ calls' = calls \/ calls' = NotifyAll(calls)
        /\ UNCHANGED <<prodHeld, consHeld, brokerHeld, wanted, listenerVars, available>>
    BY QueueSizeAssumption DEF SetQueueSize, NotifyGrown, IInv, heldVars
  <1>2. QueueOk(queue') /\ Kept(queue, queue')
    BY <1>1, ResizeOk
  <1>3. /\ InState(queue', "PUSHED") = P /\ InState(queue', "ATTACHED") = A
        /\ InState(queue', "ACQUIRED") = InState(queue, "ACQUIRED")
        /\ InState(queue', "REQUESTED") = InState(queue, "REQUESTED")
    BY <1>2 DEF Kept, OwnerStates
  <1> HIDE DEF P, A
  <1>4. CallsOk(calls', P, A, brokerHeld)
    BY <1>1, NotifyOk
  <1>5. QED
    BY <1>1, <1>2, <1>3, <1>4, StepOk DEF IInv, TypeOK, listenerVars

\* AttachBuffer, with or without a resize before it, keeps the invariant.
LEMMA AttachBufferOk ==
    ASSUME IInv, NEW t \in Threads, NEW id \in Ids, NEW buf \in Attachments,
           NEW kind \in Fillings \cup {"release"},
           \/ AttachBuffer(t, id, buf, kind)
           \/ \E n \in 0 .. MAX_QUEUE_SIZE : SetQueueSizeAndAttachBuffer(t, n, id, buf, kind)
    PROVE  IInv'
  <1>1. QueueOk(queue)
    BY DEF IInv
  <1>2. CASE AttachBuffer(t, id, buf, kind)
    <2>1. Kept(queue, queue) /\ DOMAIN queue.cached \subseteq Cached
      BY DEF Kept, Cached
    <2>2. QED
      BY <1>1, <1>2, <2>1, AttachStep DEF AttachBuffer
  <1>3. CASE \E n \in 0 .. MAX_QUEUE_SIZE : SetQueueSizeAndAttachBuffer(t, n, id, buf, kind)
    <2>1. PICK n \in 0 .. MAX_QUEUE_SIZE : SetQueueSizeAndAttachBuffer(t, n, id, buf, kind)
      BY <1>3
    <2> DEFINE q == Resize(queue, n)
               c == NotifyGrown(n)
    <2>2. QueueOk(q) /\ Kept(queue, q) /\ DOMAIN q.cached \subseteq Cached
      BY <1>1, ResizeOk, QueueSizeAssumption DEF Cached
    <2>3. c = calls \/ c = NotifyAll(calls)
      BY DEF NotifyGrown
    <2>4. Attach(t, q, c, id, buf, kind)
      BY <2>1 DEF SetQueueSizeAndAttachBuffer
    <2> HIDE DEF q, c
    <2>5. QED
      BY <2>2, <2>3, <2>4, AttachStep
  <1>4. QED
    BY <1>2, <1>3

\* Listeners come and go without touching a buffer.
LEMMA ListenerOk ==
    ASSUME IInv, NEW b \in Brokers, SetBrokerListener(b) \/ RemoveBrokerListener(b)
    PROVE  IInv'
  <1>1. /\ brokerListeners \in Seq(Brokers)
        /\ UNCHANGED <<queue, calls, consumerListener, prodHeld, consHeld, brokerHeld, wanted, available>>
    BY DEF IInv, TypeOK, SetBrokerListener, RemoveBrokerListener, heldVars
  <1>2. brokerListeners' \in Seq(Brokers)
    <2>1. CASE SetBrokerListener(b)
      BY <1>1, <2>1 DEF SetBrokerListener
    <2>2. CASE RemoveBrokerListener(b)
      <3>1. Len(brokerListeners) \in Nat \ {0}
        BY <1>1, <2>2 DEF RemoveBrokerListener
      <3>2. brokerListeners' = SubSeq(brokerListeners, 1, Len(brokerListeners) - 1)
        BY <2>2 DEF RemoveBrokerListener, Front
      <3>3. QED
        BY <1>1, <3>1, <3>2
    <2>3. QED
      BY <2>1, <2>2
  <1>3. QED
    BY <1>1, <1>2, StepOk DEF IInv, TypeOK

\* AcquireBuffer on an empty dirty list keeps the invariant.
LEMMA AcquireNothingOk ==
    ASSUME IInv, AcquireNothing
    PROVE  IInv'
  <1>1. /\ available' \in Nat
        /\ UNCHANGED <<queue, calls, brokerListeners, consumerListener, prodHeld, consHeld, brokerHeld, wanted>>
    BY DEF IInv, TypeOK, AcquireNothing, listenerVars, heldVars
  <1>2. QED
    BY <1>1, StepOk DEF IInv, TypeOK

\* A step that changes the listeners only, or nothing, keeps the invariant.
LEMMA StutterOk ==
    ASSUME IInv, UNCHANGED vars
    PROVE  IInv'
  <1>1. UNCHANGED <<queue, calls, brokerListeners, consumerListener, prodHeld, consHeld, brokerHeld,
                    wanted, available>>
    BY DEF vars, listenerVars, heldVars
  <1>2. QED
    BY <1>1, StepOk DEF IInv, TypeOK

\* IInv is inductive.
LEMMA NextOk ==
    ASSUME CalmClients, IInv, [Next]_vars
    PROVE  IInv'
  <1>1. CASE OtherStep
    <2>1. CASE \E id \in Ids : DetachBuffer(id) \/ ReleaseBuffer(id)
      BY <2>1, DetachBufferOk, ReleaseBufferOk
    <2>2. CASE AcquireBuffer \/ AcquireNothing
      BY <2>2, AcquireBufferOk, AcquireNothingOk
    <2>3. CASE \E n \in 0 .. MAX_QUEUE_SIZE : SetQueueSize(n)
      BY <2>3, SetQueueSizeOk
    <2>4. CASE Clear \/ \E S \in SUBSET Ids : ClearBufferIf(S)
      BY <2>4 DEF Clear, ClearBufferIf, CalmClients
    <2>5. CASE \E b \in Brokers : SetBrokerListener(b) \/ RemoveBrokerListener(b)
      BY <2>5, ListenerOk
    <2>6. CASE SetConsumerListener
      BY <2>6 DEF SetConsumerListener, IInv
    <2>7. QED
      BY <1>1, <2>1, <2>2, <2>3, <2>4, <2>5, <2>6 DEF OtherStep
  <1>2. ASSUME NEW t \in Threads, ThreadStep(t) PROVE IInv'
    <2>1. CASE \E config \in Requests : RequestBuffer(t, config)
      BY <2>1, RequestBufferOk
    <2>2. CASE SpuriousWakeup(t) \/ RetryRequest(t)
      BY <2>2, SpuriousWakeupOk, RetryRequestOk
    <2>3. CASE \E id \in Ids, kind \in Kinds : PushBuffer(t, id, kind)
      BY <2>3, PushBufferOk
    <2>4. CASE OfferToBroker(t)
      BY <2>4, OfferToBrokerOk
    <2>5. CASE \E id \in Ids, kind \in Kinds : BrokerReturn(t, id, kind)
      BY <2>5, BrokerReturnOk
    <2>6. CASE ReturnBuffer(t) \/ NotifyConsumer(t)
      BY <2>6, ReturnBufferOk, NotifyConsumerOk
    <2>7. CASE \E id \in Ids, buf \in Attachments, kind \in Fillings \cup {"release"} :
                  \/ AttachBuffer(t, id, buf, kind)
                  \/ \E n \in 0 .. MAX_QUEUE_SIZE : SetQueueSizeAndAttachBuffer(t, n, id, buf, kind)
      <3>1. PICK id \in Ids, buf \in Attachments, kind \in Fillings \cup {"release"} :
                  \/ AttachBuffer(t, id, buf, kind)
                  \/ \E n \in 0 .. MAX_QUEUE_SIZE : SetQueueSizeAndAttachBuffer(t, n, id, buf, kind)
        BY <2>7
      <3>2. QED
        BY <3>1, AttachBufferOk
    <2>8. CASE PushAttached(t)
      BY <2>8, PushAttachedStep
    <2>9. CASE ReleaseAttached(t)
      BY <2>9, ReleaseAttachedOk
    <2>10. CASE ForceDetach(t)
      BY <2>10, ForceDetachOk
    <2>11. QED
      BY <1>2, <2>1, <2>2, <2>3, <2>4, <2>5, <2>6, <2>7, <2>8, <2>9, <2>10 DEF ThreadStep
  <1>3. CASE UNCHANGED vars
    BY <1>3, StutterOk
  <1>4. QED
    BY <1>1, <1>2, <1>3 DEF Next

\* The inductive invariant holds in every reachable state of a calm client.
LEMMA Invariance ==
    ASSUME CalmClients
    PROVE  Spec => []IInv
  <1>1. Init => IInv
    BY InitOk
  <1>2. IInv /\ [Next]_vars => IInv'
    BY NextOk
  <1>3. QED
    BY <1>1, <1>2, PTL DEF Spec
-----------------------------------------------------------------------------
(* The theorems                                                            *)

\* Every variable keeps its type.
THEOREM TypeCorrect ==
    ASSUME CalmClients
    PROVE  Spec => []TypeOK
  <1>1. IInv => TypeOK
    BY DEF IInv
  <1>2. QED
    BY <1>1, Invariance, PTL

\* Whatever the number of threads, buffers and brokers and however their
\* requests, pushes, attaches, detaches and resizes interleave, the free and
\* the dirty list hold exactly the RELEASED and the RETURNED buffers, once
\* each.
THEOREM ListsStayConsistent ==
    ASSUME CalmClients
    PROVE  Spec => []ListsConsistent
  <1>1. IInv => ListsConsistent
    BY DEF IInv, QueueOk, ListsConsistent
  <1>2. QED
    BY <1>1, Invariance, PTL

\* What RequestBuffer handed out stays REQUESTED until the producer gives it
\* up, what AcquireBuffer handed out stays ACQUIRED: no other thread's call
\* takes a held buffer away or hands it out twice.
THEOREM HoldersStayExclusive ==
    ASSUME CalmClients
    PROVE  Spec => []HoldersExclusive
  <1>1. IInv => HoldersExclusive
    BY DEF IInv, HoldersExclusive
  <1>2. QED
    BY <1>1, Invariance, PTL

\* Without empty pushes the states name the owners.
LEMMA OwnersFollow ==
    ASSUME "empty" \notin Fillings, IInv
    PROVE  OwnersAgree
  <1> DEFINE P == InState(queue, "PUSHED")
             A == InState(queue, "ATTACHED")
  <1>1. CallsOk(calls, P, A, brokerHeld) /\ P \cap A = {}
    BY StatesDisjoint DEF IInv
  <1> HIDE DEF P, A
  <1>2. brokerHeld \cup InPc({"broker", "return"}) = P
    BY <1>1 DEF CallsOk, FrameOk, Covered, InPc
  <1>3. InPc({"attached"}) = A
    BY <1>1 DEF CallsOk, FrameOk, Covered, InPc
  <1>4. \A t \in Threads : calls[t].pc \in CallerHolds =>
           /\ calls[t].id \notin brokerHeld
           /\ \A u \in Threads \ {t} :
                 calls[u].pc \in CallerHolds => calls[u].id # calls[t].id
    BY <1>1 DEF CallsOk, FrameOk, Disjoint, Holding, CallerHolds
  <1>5. QED
    BY <1>2, <1>3, <1>4 DEF OwnersAgree, IInv, P, A

\* If no producer pushes an empty buffer, every buffer outside the lists has
\* exactly one owner and its state names that owner: PushBuffer and AttachBuffer
\* may give up queueMutex_ half way and still leak or share no buffer.
THEOREM OwnersStayAgreed ==
    ASSUME CalmClients, "empty" \notin Fillings
    PROVE  Spec => []OwnersAgree
  <1>1. IInv => OwnersAgree
    BY OwnersFollow
  <1>2. QED
    BY <1>1, Invariance, PTL
=============================================================================
