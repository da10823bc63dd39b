---------------------------- MODULE AVBufferQueue ----------------------------
(***************************************************************************)
(* AVBufferQueueImpl: the queue of reusable buffers between two filters.   *)
(* A producer requests a buffer, fills it and pushes it; the consumer      *)
(* acquires it and releases it back to the free list.                      *)
(*                                                                         *)
(* Every public method runs in sections that hold queueMutex_; one action  *)
(* models one section.  Methods that unlock half way (PushBuffer,          *)
(* ReturnBuffer, AttachBuffer, a blocked RequestBuffer) keep a frame in    *)
(* calls[t] that says which section the calling thread t runs next.  A     *)
(* call that fails before it changes anything is a stuttering step.        *)
(***************************************************************************)
EXTENDS Integers, FiniteSets, Sequences, SequencesExt

CONSTANTS
    Ids,            \* buffer unique ids; the map iterates in their order
    Threads,        \* threads that call the queue
    Sizes,          \* sizes a client may ask for or attach
    MemoryTypes,    \* real memory types
    UNKNOWN_MEMORY, \* the type of a queue that has not fixed one yet
    MAX_QUEUE_SIZE, \* AVBUFFER_QUEUE_MAX_QUEUE_SIZE, also ..._FOR_LARGER
    InitSize,       \* size passed to the constructor
    InitType,       \* memory type passed to the constructor
    Forms,          \* what else a configuration says, see NoForm
    disableAlloc,   \* disableAlloc_
    Brokers,        \* broker listeners the clients may install
    Fillings,       \* what producers push: "data", "empty" (size 0, no EOS)
    Ops             \* optional operations the clients of this instance use

AllOps == {"attach", "attachFilled", "cancel", "detach", "resize", "clear",
           "clearIf", "lateListener", "allocFail", "waitForever", "waitTimed"}

NoId == 0

ASSUME IdsAssumption == Ids \subseteq Nat \ {NoId} /\ IsFiniteSet(Ids)
ASSUME ThreadsAssumption == IsFiniteSet(Threads)
ASSUME SizesAssumption == Sizes \subseteq Nat \ {0}
ASSUME FormsAssumption == \A x \in Forms : x.align \in Nat
ASSUME TypesAssumption ==
    /\ MemoryTypes \subseteq {"virtual", "shared", "hardware", "surface"}
    /\ UNKNOWN_MEMORY \notin MemoryTypes
    /\ InitType \in MemoryTypes \cup {UNKNOWN_MEMORY}
ASSUME QueueSizeAssumption ==
    MAX_QUEUE_SIZE \in Nat /\ InitSize \in Nat
ASSUME ClientsAssumption ==
    /\ disableAlloc \in BOOLEAN
    /\ Fillings \subseteq {"data", "empty"}
    /\ Ops \subseteq AllOps

VARIABLES
    queue,            \* everything queueMutex_ protects, see QueueType
    calls,            \* per thread: the call in progress, or Idle
    brokerListeners,  \* brokerListeners_, the last one is active
    consumerListener, \* consumerListener_ # nullptr
    prodHeld,         \* buffers RequestBuffer handed out, not yet pushed
    consHeld,         \* buffers AcquireBuffer handed out, not yet released
    brokerHeld,       \* buffers handed to a broker, not yet returned
    wanted,           \* history: the request the producer got the buffer for
    available         \* OnBufferAvailable calls the consumer has not served

listenerVars == <<brokerListeners, consumerListener>>
heldVars == <<prodHeld, consHeld, brokerHeld, wanted>>
vars == <<queue, calls, listenerVars, heldVars, available>>
-----------------------------------------------------------------------------
(* State                                                                   *)

States == {"RELEASED", "REQUESTED", "PUSHED", "RETURNED", "ACQUIRED", "ATTACHED"}

\* The rest of AVBufferConfig: memoryFlag, surfaceBufferConfig, align; here as
\* a config is constructed.
NoForm == [flag |-> "rw", layout |-> "none", align |-> 0]

\* AVBufferElement: config.capacity, config.memoryType, the rest of config,
\* state, isDeleting.
\* An element without memory type is one that operator[] default-inserted:
\* its buffer pointer is null.
Elements == [cap : Nat, mem : MemoryTypes \cup {UNKNOWN_MEMORY}, form : Forms \cup {NoForm},
             state : States, isDeleting : BOOLEAN]
Ghost == [cap |-> 0, mem |-> UNKNOWN_MEMORY, form |-> NoForm,
          state |-> "RELEASED", isDeleting |-> FALSE]

Requests == [mem : MemoryTypes \cup {UNKNOWN_MEMORY}, size : Sizes, form : Forms]
NoRequest == [mem |-> UNKNOWN_MEMORY, size |-> 0, form |-> NoForm]

\* pc is the section the thread runs next:
\*   wait, woken, timed    RequestBuffer in requestCondition
\*   attached              AttachBuffer, the element is in the map
\*   broker, return        PushBuffer, the element is PUSHED
\*   notify                ReturnBuffer, the id is in dirtyBufferList_
\*   detach                PushBufferOnFilled, PushBuffer has failed
Frames == [pc : {"idle", "wait", "woken", "timed", "attached", "broker",
                 "return", "notify", "detach"},
           id : Ids \cup {NoId}, req : Requests \cup {NoRequest},
           kind : {"data", "empty", "cancel", "release"}, attach : BOOLEAN]
Idle == [pc |-> "idle", id |-> NoId, req |-> NoRequest, kind |-> "data", attach |-> FALSE]

CallerHolds == {"attached", "broker", "return"}
InCalls == {calls[t].id : t \in Threads}
Cached == DOMAIN queue.cached
Listed == ToSet(queue.free) \cup ToSet(queue.dirty)
-----------------------------------------------------------------------------
(* The queue's helpers, on the record q                                    *)

Elem(q, id) == IF id \in DOMAIN q.cached THEN q.cached[id] ELSE Ghost

\* cachedBufferMap_[id] for every id of S: absent ids are inserted.
Touch(q, S) ==
    [q EXCEPT !.cached = [id \in DOMAIN q.cached \cup S |-> Elem(q, id)]]

GetCachedBufferCount(q) == Cardinality(DOMAIN q.cached)

SetState(q, id, s) == [q EXCEPT !.cached[id].state = s]

\* TotalMemoryCalculation(false, capacity)
SubtractMemory(used, cap) == IF cap <= used THEN used - cap ELSE used

UsedWithout(q, S) ==
    FoldSet(LAMBDA id, used : SubtractMemory(used, Elem(q, id).cap), q.used, S)

\* Mutant: the buffers' memory stays on the account.
DeleteUnaccounted(q, S) == [q EXCEPT !.cached = Restrict(@, DOMAIN @ \ S)]

\* DeleteCachedBufferById for the ids of S
DeleteCachedBuffers(q, S) ==
    [q EXCEPT !.cached = Restrict(@, DOMAIN @ \ S), !.used = UsedWithout(q, S)]

\* Mutant: the new buffer's memory is not added to the account.
AddUnaccounted(q, id, e) ==
    [q EXCEPT !.cached = [i \in DOMAIN @ \cup {id} |-> IF i = id THEN e ELSE @[i]]]

\* Add an element to the map, TotalMemoryCalculation(true, capacity)
AddCached(q, id, e) ==
    [q EXCEPT !.cached = [i \in DOMAIN @ \cup {id} |-> IF i = id THEN e ELSE @[i]],
              !.used = @ + e.cap]

\* The n smallest ids of S, the first ones a std::map iteration meets
FirstIds(S, n) == {i \in S : Cardinality({j \in S : j < i}) < n}

MarkDeleting(cached, S) ==
    [i \in DOMAIN cached |->
        [cached[i] EXCEPT !.isDeleting = cached[i].isDeleting \/ i \in S]]

\* Mutant: the deleted buffers stay in dirtyBufferList_.
DeleteKeepsDirty(q, n) ==
    LET f == Min({n, Len(q.free)})
        d == Min({n - f, Len(q.dirty)})
        r == DeleteCachedBuffers(q, ToSet(SubSeq(q.free, 1, f))
                                      \cup ToSet(SubSeq(q.dirty, 1, d)))
    IN  [r EXCEPT !.free = SubSeq(@, f + 1, Len(@))]

\* Free buffers go first, then filled ones; what is still missing is only
\* marked, and goes when it comes back.
DeleteBuffers(q, n) ==
    LET f == Min({n, Len(q.free)})
        d == Min({n - f, Len(q.dirty)})
        r == DeleteCachedBuffers(q, ToSet(SubSeq(q.free, 1, f))
                                      \cup ToSet(SubSeq(q.dirty, 1, d)))
        marked == FirstIds(DOMAIN r.cached, n - f - d)
    IN  [r EXCEPT
           !.free = SubSeq(@, f + 1, Len(@)),
           !.dirty = SubSeq(@, d + 1, Len(@)),
           !.cached = MarkDeleting(@, marked)]

\* Mutant: the sizes are not compared.
FitsAnySize(req, e) == req.mem = e.mem /\ (req.mem = "surface" => req.form.layout = e.form.layout)

\* A buffer with the flag of e may be used as the request asks
MayUse(req, e) == e.form.flag \in {req.form.flag, "rw"}

\* AVBufferConfig::operator<=.  A surface has no size to compare.
Fits(req, e) ==
    /\ req.mem = e.mem
    /\ \/ req.mem = "surface" /\ req.form.layout = e.form.layout
       \/ /\ req.mem # "surface"
          /\ req.size <= e.cap + (IF e.form.align = 0 THEN 0 ELSE e.form.align - 1)
          /\ req.mem = "virtual" \/ MayUse(req, e)

\* The bytes Init of the memory reserves for a configured capacity; a dma
\* buffer is mapped as it is configured.
Reserved(e) ==
    LET a == e.form.align
    IN  IF a = 0 \/ e.mem = "hardware" THEN e.cap ELSE ((e.cap + a - 1) \div a) * a

\* Mutant: the buffer is put first, whatever its capacity.
InsertFreeAtFront(q, id) == [q EXCEPT !.free = <<id>> \o @]

\* The list is kept in ascending capacity.  Comparing touches every element
\* up to the insertion point.
InsertFreeBufferInOrder(q, id) ==
    LET r == Touch(q, ToSet(q.free) \cup {id})
        Stop(i) == q.free[i] # id /\ r.cached[q.free[i]].cap >= r.cached[id].cap
        stops == {i \in DOMAIN q.free : Stop(i)}
        at == IF stops = {} THEN Len(q.free) + 1 ELSE Min(stops)
    IN  [Touch(q, {q.free[i] : i \in 1 .. Min({at, Len(q.free)})} \cup {id})
            EXCEPT !.free = InsertAt(@, at, id)]

\* Mutant: a queue that has a memory type takes any other.
ConfigAnyType(q, mem) == mem # UNKNOWN_MEMORY

ConfigOk(q, mem) ==
    /\ mem # UNKNOWN_MEMORY
    /\ q.memoryType \in {UNKNOWN_MEMORY, mem}

CheckConfig(q, mem) == [q EXCEPT !.memoryType = mem]

\* AllocBuffer with state REQUESTED
AllocRequested(q, id, req) ==
    AddCached(q, id, [cap |-> req.size, mem |-> req.mem, form |-> req.form,
                      state |-> "REQUESTED", isDeleting |-> FALSE])

Full(q) == q.free = <<>> /\ GetCachedBufferCount(q) >= q.size

Resize(q, n) ==
    IF n > q.size THEN [q EXCEPT !.size = n]
                  ELSE [DeleteBuffers(q, q.size - n) EXCEPT !.size = n]

\* requestCondition.notify_all()
NotifyAll(c) ==
    [t \in Threads |-> IF c[t].pc = "wait" THEN [c[t] EXCEPT !.pc = "woken"] ELSE c[t]]

\* Growing the queue wakes the waiters unless allocation is disabled
NotifyGrown(n) ==
    IF n > queue.size /\ ~disableAlloc THEN NotifyAll(calls) ELSE calls
-----------------------------------------------------------------------------
QueueType(q) ==
    /\ DOMAIN q = {"cached", "free", "dirty", "size", "memoryType", "used"}
    /\ DOMAIN q.cached \subseteq Ids
    /\ q.cached \in [DOMAIN q.cached -> Elements]
    /\ q.free \in Seq(Ids)
    /\ q.dirty \in Seq(Ids)
    /\ q.size \in Nat
    /\ q.memoryType \in MemoryTypes \cup {UNKNOWN_MEMORY}

\* Every variable keeps the type its C++ counterpart has, and no operator[] has
\* left a null buffer in the map.
TypeOK ==
    /\ QueueType(queue)
    /\ \A id \in Cached : queue.cached[id].mem \in MemoryTypes
    /\ calls \in [Threads -> Frames]
    /\ brokerListeners \in Seq(Brokers)
    /\ consumerListener \in BOOLEAN
    /\ prodHeld \subseteq Ids
    /\ consHeld \subseteq Ids
    /\ brokerHeld \subseteq Ids
    /\ wanted \in [Ids -> Requests \cup {NoRequest}]
    /\ available \in Nat

\* The constructor caps the size.  Clients normally set the listener first.
Init ==
    /\ queue = [cached |-> [i \in {} |-> Ghost], free |-> <<>>, dirty |-> <<>>,
                size |-> Min({InitSize, MAX_QUEUE_SIZE}), memoryType |-> InitType, used |-> 0]
    /\ calls = [t \in Threads |-> Idle]
    /\ brokerListeners = <<>>
    /\ consumerListener = ("lateListener" \notin Ops)
    /\ prodHeld = {} /\ consHeld = {} /\ brokerHeld = {}
    /\ wanted = [i \in Ids |-> NoRequest]
    /\ available = 0
-----------------------------------------------------------------------------
(* RequestBuffer                                                           *)

\* AVBuffer::GenerateUniqueId never repeats an id that is still known
FreshIds ==
    Ids \ (Cached \cup Listed \cup InCalls \cup prodHeld \cup consHeld \cup brokerHeld)

\* Return buffer id to the caller of RequestBuffer
Hand(id, req) ==
    /\ prodHeld' = prodHeld \cup {id}
    /\ wanted' = [wanted EXCEPT ![id] = req]

AllocBuffer(q, req) ==
    \/ \E id \in FreshIds :
          /\ queue' = AllocRequested(q, id, req)
          /\ Hand(id, req)
    \/ /\ "allocFail" \in Ops
       /\ queue' = q
       /\ UNCHANGED <<prodHeld, wanted>>

\* PopFromFreeBufferList: the first free buffer that fits, or else the
\* smallest one, which RequestReuseBuffer replaces by a new one.
PopAndReuse(q, req) ==
    LET fits == {i \in DOMAIN q.free : Fits(req, Elem(q, q.free[i]))}
        at == IF fits = {} THEN 1 ELSE Min(fits)
        id == q.free[at]
        read == IF fits = {} THEN ToSet(q.free) ELSE {q.free[i] : i \in 1 .. at}
        popped == [Touch(q, read) EXCEPT !.free = RemoveAt(@, at)]
    IN  \/ /\ Elem(q, id).mem = UNKNOWN_MEMORY  \* ERROR_NULL_POINT_BUFFER
           /\ queue' = popped
           /\ UNCHANGED <<prodHeld, wanted>>
        \/ /\ Elem(q, id).mem # UNKNOWN_MEMORY
           /\ fits # {}
           /\ queue' = SetState(popped, id, "REQUESTED")
           /\ Hand(id, req)
        \/ /\ Elem(q, id).mem # UNKNOWN_MEMORY
           /\ fits = {}
           /\ AllocBuffer(DeleteCachedBuffers(popped, {id}), req)

Grant(t, q, req) ==
    /\ IF q.free # <<>> THEN PopAndReuse(q, req) ELSE AllocBuffer(q, req)
    /\ calls' = [calls EXCEPT ![t] = Idle]

Wait(t, q, req) ==
    /\ queue' = q
    /\ \/ /\ "waitForever" \in Ops   \* timeoutUs < 0
          /\ calls' = [calls EXCEPT ![t] = [Idle EXCEPT !.pc = "wait", !.req = req]]
       \/ /\ "waitTimed" \in Ops     \* timeoutUs > 0
          /\ calls' = [calls EXCEPT ![t] = [Idle EXCEPT !.pc = "timed", !.req = req]]
       \/ UNCHANGED calls            \* timeoutUs = 0: ERROR_NO_FREE_BUFFER
    /\ UNCHANGED <<prodHeld, wanted>>

\* A request of unknown memory type takes the queue's type, read before the
\* lock; the type changes once at most, so a stale one only fails CheckConfig.
RequestBuffer(t, config) ==
    LET req == [config EXCEPT !.mem = IF @ = UNKNOWN_MEMORY THEN queue.memoryType ELSE @]
        q == CheckConfig(queue, req.mem)
    IN  /\ calls[t].pc = "idle"
        /\ ConfigOk(queue, req.mem)
        /\ IF Full(q) THEN Wait(t, q, req) ELSE Grant(t, q, req)
        /\ UNCHANGED <<consHeld, brokerHeld, listenerVars, available>>

\* requestCondition.wait has no predicate: it may return spuriously
SpuriousWakeup(t) ==
    /\ calls[t].pc = "wait"
    /\ calls' = [calls EXCEPT ![t].pc = "woken"]
    /\ UNCHANGED <<queue, listenerVars, heldVars, available>>

\* After the wait the request is tried once more.  The timed wait has a
\* predicate and is left when it holds or the time is over; both end here.
RetryRequest(t) ==
    /\ calls[t].pc \in {"woken", "timed"}
    /\ \/ /\ ~Full(queue)
          /\ Grant(t, queue, calls[t].req)
       \/ /\ Full(queue)   \* ERROR_NO_FREE_BUFFER or ERROR_WAIT_TIMEOUT
          /\ calls' = [calls EXCEPT ![t] = Idle]
          /\ UNCHANGED <<queue, prodHeld, wanted>>
    /\ UNCHANGED <<consHeld, brokerHeld, listenerVars, available>>
-----------------------------------------------------------------------------
(* PushBuffer and ReturnBuffer                                             *)

\* The call of t fails: AttachBuffer then takes the buffer out again
Fail(t) ==
    calls' = [calls EXCEPT ![t] = IF @.attach THEN [@ EXCEPT !.pc = "detach"] ELSE Idle]

Pushable(id) == queue.cached[id].state \in {"REQUESTED", "ATTACHED"}

\* The first section of PushBuffer
PushLocked(t, id, kind, attach) ==
    \/ /\ queue.cached[id].isDeleting
       /\ queue' = DeleteCachedBuffers(queue, {id})
       /\ calls' = [calls EXCEPT ![t] = Idle]
    \/ /\ ~queue.cached[id].isDeleting
       /\ Pushable(id)
       /\ queue' = SetState(queue, id, "PUSHED")
       /\ calls' = [calls EXCEPT ![t] =
                      [Idle EXCEPT !.pc = IF kind = "cancel" THEN "return" ELSE "broker",
                                   !.id = id, !.kind = kind, !.attach = attach]]

PushBuffer(t, id, kind) ==
    /\ calls[t].pc = "idle"
    /\ id \in prodHeld \cap Cached
    /\ kind \in Fillings \/ (kind = "cancel" /\ "cancel" \in Ops)
    /\ PushLocked(t, id, kind, FALSE)
    /\ prodHeld' = prodHeld \ {id}
    /\ wanted' = [wanted EXCEPT ![id] = NoRequest]
    /\ UNCHANGED <<consHeld, brokerHeld, listenerVars, available>>

\* Mutant: the push goes on after it has called the broker.
OfferFallsThrough(t) ==
    /\ calls[t].pc = "broker"
    /\ brokerHeld' = IF brokerListeners # <<>> THEN brokerHeld \cup {calls[t].id} ELSE brokerHeld
    /\ calls' = [calls EXCEPT ![t].pc = "return"]
    /\ UNCHANGED <<queue, prodHeld, consHeld, wanted, listenerVars, available>>

\* Mutant: the push ends although there is no broker.
OfferDropped(t) ==
    /\ calls[t].pc = "broker"
    /\ calls' = [calls EXCEPT ![t] = Idle]
    /\ UNCHANGED <<queue, heldVars, listenerVars, available>>

\* The active broker, if there is one, gets the filled buffer
OfferToBroker(t) ==
    /\ calls[t].pc = "broker"
    /\ IF brokerListeners # <<>>
         THEN /\ brokerHeld' = brokerHeld \cup {calls[t].id}
              /\ calls' = [calls EXCEPT ![t] = Idle]
         ELSE /\ calls' = [calls EXCEPT ![t].pc = "return"]
              /\ UNCHANGED brokerHeld
    /\ UNCHANGED <<queue, prodHeld, consHeld, wanted, listenerVars, available>>

\* A broker gives its buffer back through ReturnBuffer
BrokerReturn(t, id, kind) ==
    /\ calls[t].pc = "idle"
    /\ id \in brokerHeld
    /\ kind \in Fillings \/ (kind = "cancel" /\ "cancel" \in Ops)
    /\ brokerHeld' = brokerHeld \ {id}
    /\ calls' = [calls EXCEPT ![t] = [Idle EXCEPT !.pc = "return", !.id = id, !.kind = kind]]
    /\ UNCHANGED <<queue, prodHeld, consHeld, wanted, listenerVars, available>>

Returnable(id) == id \in Cached /\ queue.cached[id].state = "PUSHED"

\* ReturnBuffer under queueMutex_ makes the buffer filled, or with
\* available = false (CancelBuffer) free again
ReturnBuffer(t) ==
    LET id == calls[t].id
        kind == calls[t].kind
        deleting == id \in Cached /\ queue.cached[id].isDeleting
        pushed == Returnable(id) /\ ~deleting
    IN  /\ calls[t].pc = "return"
        /\ \/ /\ deleting
              /\ queue' = DeleteCachedBuffers(queue, {id})
              /\ calls' = [calls EXCEPT ![t] = Idle]
           \/ /\ pushed
              /\ kind = "cancel"
              /\ queue' = SetState(InsertFreeBufferInOrder(queue, id), id, "RELEASED")
              /\ calls' = [NotifyAll(calls) EXCEPT ![t] = Idle]
           \/ /\ pushed
              /\ kind = "data"
              /\ queue' = [SetState(queue, id, "RETURNED") EXCEPT !.dirty = Append(@, id)]
              /\ calls' = [calls EXCEPT ![t].pc = "notify"]
           \/ /\ ~deleting
              /\ pushed => kind = "empty"
              /\ UNCHANGED queue
              /\ Fail(t)
        /\ UNCHANGED <<listenerVars, heldVars, available>>

\* Mutant: calls the consumer has not served yet are merged into one.
NotifyMerged(t) ==
    /\ calls[t].pc = "notify"
    /\ available' = 1
    /\ calls' = [calls EXCEPT ![t] = Idle]
    /\ UNCHANGED <<queue, listenerVars, heldVars>>

\* The end of ReturnBuffer: consumerListener_->OnBufferAvailable().  The
\* count of unserved calls stops at the number of buffers.
NotifyConsumer(t) ==
    /\ calls[t].pc = "notify"
    /\ IF consumerListener
         THEN /\ available' = Min({available + 1, Cardinality(Ids)})
              /\ calls' = [calls EXCEPT ![t] = Idle]
         ELSE Fail(t) /\ UNCHANGED available
    /\ UNCHANGED <<queue, listenerVars, heldVars>>
-----------------------------------------------------------------------------
(* AttachBuffer and DetachBuffer                                           *)

\* Mutant: off by one, a full queue counts as one with room.
RoomOffByOne(q) ==
    \/ GetCachedBufferCount(q) <= q.size
    \/ Len(q.dirty) + Len(q.free) > GetCachedBufferCount(q) - q.size

\* AttachAvailableBufferLocked: room is made by deleting listed buffers
Room(q) ==
    \/ GetCachedBufferCount(q) < q.size
    \/ Len(q.dirty) + Len(q.free) > GetCachedBufferCount(q) - q.size

AttachAvailableBufferLocked(q, id, buf) ==
    LET r == IF GetCachedBufferCount(q) < q.size THEN q
             ELSE DeleteBuffers(q, GetCachedBufferCount(q) - q.size + 1)
    IN  AddCached(r, id, [cap |-> buf.size, mem |-> buf.mem, form |-> buf.form,
                          state |-> "ATTACHED", isDeleting |-> FALSE])

\* The locked part of AttachBuffer, on the queue q and the calls c that a
\* preceding SetQueueSizeBeforeAttachBufferLocked leaves
Attach(t, q, c, id, buf, kind) ==
    /\ calls[t].pc = "idle"
    /\ IF kind = "release" THEN "attach" \in Ops
                           ELSE "attachFilled" \in Ops /\ kind \in Fillings
    /\ id \notin prodHeld \cup consHeld \cup brokerHeld \cup InCalls
    /\ id \notin Cached
    /\ ConfigOk(q, buf.mem)
    /\ LET r == CheckConfig(q, buf.mem)
       IN  IF Room(r)
             THEN /\ queue' = AttachAvailableBufferLocked(r, id, buf)
                  /\ calls' = [c EXCEPT ![t] = [Idle EXCEPT !.pc = "attached", !.id = id,
                                                  !.kind = kind, !.attach = TRUE]]
             ELSE queue' = r /\ calls' = c
    /\ UNCHANGED <<listenerVars, heldVars, available>>

AttachBuffer(t, id, buf, kind) == Attach(t, queue, calls, id, buf, kind)

SetQueueSizeAndAttachBuffer(t, n, id, buf, kind) ==
    /\ "resize" \in Ops
    /\ n # queue.size
    /\ Attach(t, Resize(queue, n), NotifyGrown(n), id, buf, kind)

\* The second section of AttachBuffer(isFilled = true): PushBufferOnFilled
PushAttached(t) ==
    LET id == calls[t].id
    IN  /\ calls[t].pc = "attached"
        /\ calls[t].kind # "release"
        /\ \/ id \in Cached /\ PushLocked(t, id, calls[t].kind, TRUE)
           \/ /\ id \in Cached => ~queue.cached[id].isDeleting /\ ~Pushable(id)
              /\ UNCHANGED queue
              /\ Fail(t)
        /\ UNCHANGED <<listenerVars, heldVars, available>>

Releasable(id) == id \in Cached /\ queue.cached[id].state \in {"ACQUIRED", "ATTACHED"}

\* Mutant: requestCondition is not notified.
ReleaseSilently(id, c) ==
    /\ queue' = InsertFreeBufferInOrder(SetState(queue, id, "RELEASED"), id)
    /\ calls' = c

\* Mutant: after a deletion the section goes on, and operator[] brings the
\* buffer back as a null one.
ReleaseDeleted(id, c) ==
    LET q == SetState(queue, id, "RELEASED")
    IN  /\ queue' = InsertFreeBufferInOrder(
                      IF queue.cached[id].isDeleting THEN DeleteCachedBuffers(q, {id}) ELSE q, id)
        /\ calls' = NotifyAll(c)

\* The section of ReleaseBuffer under queueMutex_; c are the calls after it
ReleaseLocked(id, c) ==
    LET q == SetState(queue, id, "RELEASED")
    IN  IF queue.cached[id].isDeleting
          THEN queue' = DeleteCachedBuffers(q, {id}) /\ calls' = c
          ELSE queue' = InsertFreeBufferInOrder(q, id) /\ calls' = NotifyAll(c)

\* The second section of AttachBuffer(isFilled = false): ReleaseBuffer
ReleaseAttached(t) ==
    LET done == [calls EXCEPT ![t] = Idle]
    IN  /\ calls[t].pc = "attached"
        /\ calls[t].kind = "release"
        /\ IF Releasable(calls[t].id)
             THEN ReleaseLocked(calls[t].id, done)
             ELSE UNCHANGED queue /\ calls' = done
        /\ UNCHANGED <<listenerVars, heldVars, available>>

\* PushBufferOnFilled: DetachBuffer(uniqueId, true) after a failed push
ForceDetach(t) ==
    /\ calls[t].pc = "detach"
    /\ queue' = DeleteCachedBuffers(queue, {calls[t].id})
    /\ calls' = [calls EXCEPT ![t] = Idle]
    /\ UNCHANGED <<listenerVars, heldVars, available>>

\* DetachBuffer by the producer or the consumer that holds the buffer
DetachBuffer(id) ==
    /\ "detach" \in Ops
    /\ id \in (prodHeld \cup consHeld) \cap Cached
    /\ queue.cached[id].state \in {"REQUESTED", "ACQUIRED"}
    /\ queue' = DeleteCachedBuffers(queue, {id})
    /\ prodHeld' = prodHeld \ {id}
    /\ consHeld' = consHeld \ {id}
    /\ wanted' = [wanted EXCEPT ![id] = NoRequest]
    /\ UNCHANGED <<calls, brokerHeld, listenerVars, available>>
-----------------------------------------------------------------------------
(* The consumer                                                            *)

\* Mutant: the buffer that was filled last is taken first.
AcquireNewest ==
    /\ queue.dirty # <<>>
    /\ queue' = [SetState(queue, Last(queue.dirty), "ACQUIRED") EXCEPT !.dirty = Front(@)]
    /\ consHeld' = consHeld \cup {Last(queue.dirty)}
    /\ available' = IF available > 0 THEN available - 1 ELSE 0
    /\ UNCHANGED <<calls, prodHeld, brokerHeld, wanted, listenerVars>>

\* The head of the list is in the map: for a dangling id operator[] inserts a
\* null buffer, and the process ends in buffer->GetUniqueId().
AcquireBuffer ==
    /\ queue.dirty # <<>>
    /\ LET id == Head(queue.dirty)
       IN  /\ Elem(queue, id).mem # UNKNOWN_MEMORY
           /\ queue' = [SetState(queue, id, "ACQUIRED") EXCEPT !.dirty = Tail(@)]
           /\ consHeld' = consHeld \cup {id}
    /\ available' = IF available > 0 THEN available - 1 ELSE 0
    /\ UNCHANGED <<calls, prodHeld, brokerHeld, wanted, listenerVars>>

\* A notification whose buffer is already gone: ERROR_NO_DIRTY_BUFFER
AcquireNothing ==
    /\ queue.dirty = <<>>
    /\ available > 0
    /\ available' = available - 1
    /\ UNCHANGED <<queue, calls, listenerVars, heldVars>>

ReleaseBuffer(id) ==
    /\ id \in consHeld
    /\ Releasable(id)
    /\ ReleaseLocked(id, calls)
    /\ consHeld' = consHeld \ {id}
    /\ UNCHANGED <<prodHeld, brokerHeld, wanted, listenerVars, available>>
-----------------------------------------------------------------------------
(* Control of the queue                                                    *)

SetQueueSize(n) ==
    /\ "resize" \in Ops
    /\ n # queue.size
    /\ queue' = Resize(queue, n)
    /\ calls' = NotifyGrown(n)
    /\ UNCHANGED <<listenerVars, heldVars, available>>

\* The ids of the sequence s become free one after the other
FreeAll(q, s) ==
    FoldLeft(LAMBDA r, id : InsertFreeBufferInOrder(SetState(r, id, "RELEASED"), id), q, s)

\* Mutant: buffers in use are freed as well.
FreeableInUse(q, id) == id \in DOMAIN q.cached /\ q.cached[id].state # "RELEASED"

Freeable(q, id) == id \in DOMAIN q.cached /\ q.cached[id].state \in {"PUSHED", "RETURNED"}

\* Mutant: dirtyBufferList_ is not cleared.
ClearedKeepsDirty(q) ==
    FreeAll(q, SetToSortSeq({id \in DOMAIN q.cached : Freeable(q, id)}, <))

\* Pushed and filled buffers become free, in the order of the map
Cleared(q) ==
    FreeAll([q EXCEPT !.dirty = <<>>], SetToSortSeq({id \in DOMAIN q.cached : Freeable(q, id)}, <))

\* Filled buffers that pred selects, the ids of S, become free
ClearedIf(q, S) ==
    LET Chosen(id) == id \in S /\ Freeable(q, id)
    IN  FreeAll([q EXCEPT !.dirty = SelectSeq(@, LAMBDA id : ~Chosen(id))],
                SelectSeq(q.dirty, Chosen))

Clear ==
    /\ "clear" \in Ops
    /\ queue' = Cleared(queue)
    /\ calls' = NotifyAll(calls)
    /\ UNCHANGED <<listenerVars, heldVars, available>>

ClearBufferIf(S) ==
    /\ "clearIf" \in Ops
    /\ queue' = ClearedIf(queue, S)
    /\ calls' = NotifyAll(calls)
    /\ UNCHANGED <<listenerVars, heldVars, available>>

\* Bound: each listener is installed at most once at a time.
SetBrokerListener(b) ==
    /\ b \notin ToSet(brokerListeners)
    /\ brokerListeners' = Append(brokerListeners, b)
    /\ UNCHANGED <<queue, calls, consumerListener, heldVars, available>>

\* Only the active listener is removed; any other request does nothing
RemoveBrokerListener(b) ==
    /\ brokerListeners # <<>>
    /\ b = Last(brokerListeners)
    /\ brokerListeners' = Front(brokerListeners)
    /\ UNCHANGED <<queue, calls, consumerListener, heldVars, available>>

\* Clients set the listener once; they do not replace or remove it.
SetConsumerListener ==
    /\ ~consumerListener
    /\ consumerListener' = TRUE
    /\ UNCHANGED <<queue, calls, brokerListeners, heldVars, available>>
-----------------------------------------------------------------------------
Kinds == Fillings \cup {"cancel"}
Attachments == [mem : MemoryTypes, size : Sizes, form : Forms]

ThreadStep(t) ==
    \/ \E config \in Requests : RequestBuffer(t, config)
    \/ SpuriousWakeup(t)
    \/ RetryRequest(t)
    \/ \E id \in Ids, kind \in Kinds : PushBuffer(t, id, kind)
    \/ OfferToBroker(t)
    \/ \E id \in Ids, kind \in Kinds : BrokerReturn(t, id, kind)
    \/ ReturnBuffer(t)
    \/ NotifyConsumer(t)
    \/ \E id \in Ids, buf \in Attachments, kind \in Fillings \cup {"release"} :
          \/ AttachBuffer(t, id, buf, kind)
          \/ \E n \in 0 .. MAX_QUEUE_SIZE : SetQueueSizeAndAttachBuffer(t, n, id, buf, kind)
    \/ PushAttached(t)
    \/ ReleaseAttached(t)
    \/ ForceDetach(t)

OtherStep ==
    \/ \E id \in Ids : DetachBuffer(id) \/ ReleaseBuffer(id)
    \/ AcquireBuffer
    \/ AcquireNothing
    \/ \E n \in 0 .. MAX_QUEUE_SIZE : SetQueueSize(n)
    \/ Clear
    \/ \E S \in SUBSET Ids : ClearBufferIf(S)
    \/ \E b \in Brokers : SetBrokerListener(b) \/ RemoveBrokerListener(b)
    \/ SetConsumerListener

Next == OtherStep \/ \E t \in Threads : ThreadStep(t)

Spec == Init /\ [][Next]_vars

\* A call that is past its first section, or has been woken, goes on
Continue(t) ==
    \/ RetryRequest(t) \/ OfferToBroker(t) \/ ReturnBuffer(t) \/ NotifyConsumer(t)
    \/ PushAttached(t) \/ ReleaseAttached(t) \/ ForceDetach(t)

\* Threads that can run do run, and the consumer keeps consuming.  Nothing is
\* assumed of producers, brokers or spurious wakeups.
FairSpec ==
    /\ Spec
    /\ \A t \in Threads : WF_vars(Continue(t))
    /\ WF_vars(AcquireBuffer)
    /\ \A id \in Ids : WF_vars(ReleaseBuffer(id))
-----------------------------------------------------------------------------
(* Properties                                                              *)

InState(q, s) == {id \in DOMAIN q.cached : q.cached[id].state = s}
InPc(pcs) == {calls[t].id : t \in {u \in Threads : calls[u].pc \in pcs}}

ListsOk(q) ==
    /\ IsInjective(q.free)
    /\ IsInjective(q.dirty)
    /\ ToSet(q.free) = InState(q, "RELEASED")
    /\ ToSet(q.dirty) = InState(q, "RETURNED")

\* The free list holds exactly the RELEASED buffers and the dirty list exactly
\* the RETURNED ones, each once: no list names a buffer the map has lost, and
\* no buffer is lost between the map and the lists.
ListsConsistent == ListsOk(queue)

\* A buffer's state names its one owner: the producer, the consumer, the
\* broker or the push in flight, the attach in flight.  Nobody else holds it.
OwnersAgree ==
    /\ prodHeld = InState(queue, "REQUESTED")
    /\ consHeld = InState(queue, "ACQUIRED")
    /\ brokerHeld \cup InPc({"broker", "return"}) = InState(queue, "PUSHED")
    /\ InPc({"attached"}) = InState(queue, "ATTACHED")
    /\ \A t \in Threads : calls[t].pc \in CallerHolds =>
          /\ calls[t].id \notin brokerHeld
          /\ \A u \in Threads \ {t} :
                calls[u].pc \in CallerHolds => calls[u].id # calls[t].id

\* What the producer got from RequestBuffer is REQUESTED until it pushes it, and
\* what the consumer acquired is ACQUIRED until it releases it, whatever Clear does.
HoldersExclusive ==
    /\ prodHeld = InState(queue, "REQUESTED")
    /\ consHeld = InState(queue, "ACQUIRED")

\* memoryUsage_ is the sum of the capacities of the buffers in the map.
MemoryAccounted ==
    queue.used = FoldFunction(+, 0, [id \in Cached |-> queue.cached[id].cap])

\* The free list is in ascending capacity, so the first fit is the best fit.
FreeSorted == \A i, j \in DOMAIN queue.free :
    i < j => queue.cached[queue.free[i]].cap <= queue.cached[queue.free[j]].cap

\* All buffers have the memory type the queue has settled on.
OneMemoryType == \A id \in Cached : queue.cached[id].mem = queue.memoryType

\* What buffer e gives to a request: a surface of the layout asked for, or
\* memory with the rights asked for, too short by less than its alignment.
Serves(e, req) ==
    /\ e.mem = req.mem
    /\ \/ e.mem = "surface" /\ e.form.layout = req.form.layout
       \/ /\ e.mem # "surface"
          /\ req.size <= Reserved(e) + (IF e.form.align = 0 THEN 0 ELSE e.form.align - 1)
          /\ e.mem = "virtual" \/ MayUse(req, e)

\* A buffer the producer holds serves what it asked for, whether it was reused
\* or made new.  operator<= takes capacity + align - 1 for what was allocated,
\* so memory with an alignment may lack up to align - 1 bytes, never more;
\* without one it is at least as large as asked for (avbuffer_common.cpp:86).
RequestFits == \A id \in prodHeld : Serves(queue.cached[id], wanted[id])

\* Every filled buffer has an OnBufferAvailable call to come or unserved.
Announced ==
    Len(queue.dirty) <= available + Cardinality({t \in Threads : calls[t].pc = "notify"})

\* The number of buffers never grows beyond the queue's size.
GrowsWithinSize ==
    [][GetCachedBufferCount(queue') > GetCachedBufferCount(queue)
         => GetCachedBufferCount(queue') <= queue'.size]_vars

\* A producer blocks, without being woken, only while the queue is full.
BlockedOnlyWhenFull ==
    \A t \in Threads : calls[t].pc = "wait" => Full(queue)

\* While there is a filled buffer to consume, a blocked producer gets its turn:
\* the consumer's ReleaseBuffer, or a Clear, wakes it.
BlockedIsServed ==
    \A t \in Threads :
        (calls[t].pc = "wait" /\ queue.dirty # <<>>) ~> (calls[t].pc # "wait")

\* A pushed buffer does not stay PUSHED: it becomes filled, free or deleted.
PushedMovesOn ==
    \A id \in Ids : (id \in InState(queue, "PUSHED")) ~> (id \notin InState(queue, "PUSHED"))

\* A buffer detached after a failed push is out of the queue: no list that
\* AcquireBuffer or RequestBuffer reads still names it.
ListedAreCached == Listed \subseteq Cached

\* The party that buffer id is with, as its clients see it
HolderOf(id) ==
    CASE id \in prodHeld -> "producer"
      [] id \in consHeld -> "consumer"
      [] id \in ToSet(queue.dirty) -> "filled"
      [] id \in ToSet(queue.free) -> "free"
      [] id \in brokerHeld \cup InPc(CallerHolds) -> "transit"
      [] OTHER -> "nobody"

Exchange == INSTANCE BufferExchange WITH
    Buffers <- Ids, holder <- [id \in Ids |-> HolderOf(id)], filled <- queue.dirty

\* A queue that nobody clears is a BufferExchange: the sections of PushBuffer, AttachBuffer and
\* of brokers, in any order and between calls that resize the queue, move each
\* buffer as its holder allows, and the consumer gets the buffers in the order
\* in which ReturnBuffer filed them.
ImplementsExchange == Exchange!Spec
=============================================================================
