---------------------- MODULE AVBufferQueueStepProofs ----------------------
(***************************************************************************)
(* What the steps of AVBufferQueue do to the buffers: every step is one of  *)
(* ten moves of buffers between the map, its owners and the lists.  The     *)
(* move says all that the remaining invariants and the refinement of        *)
(* BufferExchange depend on.                                                 *)
(***************************************************************************)
EXTENDS AVBufferQueueProofs
-----------------------------------------------------------------------------
(* The moves, from the queue q to the queue r                               *)

\* Configuration and mark of a buffer stay.
Alike(e, f) == e.cap = f.cap /\ e.mem = f.mem /\ e.form = f.form /\ e.isDeleting = f.isDeleting

\* Only buffer id changes, to state s.
Changed(q, r, id, s) ==
    /\ id \in DOMAIN q.cached
    /\ DOMAIN r.cached = DOMAIN q.cached
    /\ r.cached[id].state = s
    /\ Alike(r.cached[id], q.cached[id])
    /\ \A i \in DOMAIN q.cached \ {id} : r.cached[i] = q.cached[i]

Owned(q, id) == id \in DOMAIN q.cached /\ q.cached[id].state \in OwnerStates

\* No buffer and no list changes.
Still(q, r) == r.cached = q.cached /\ SameLists(q, r)

\* A new buffer with element e.
Added(q, r, id, e) ==
    /\ id \in Ids \ DOMAIN q.cached
    /\ DOMAIN r.cached = DOMAIN q.cached \cup {id}
    /\ r.cached[id] = e
    /\ \A i \in DOMAIN q.cached : r.cached[i] = q.cached[i]
    /\ SameLists(q, r)

\* A buffer that somebody owns leaves the queue.
Removed(q, r, id) ==
    /\ Owned(q, id)
    /\ DOMAIN r.cached = DOMAIN q.cached \ {id}
    /\ \A i \in DOMAIN r.cached : r.cached[i] = q.cached[i]
    /\ SameLists(q, r)

\* A buffer goes from one owner to another.
Passed(q, r, id, s) ==
    Owned(q, id) /\ Changed(q, r, id, s) /\ SameLists(q, r)

\* A buffer becomes the last filled one.
Filled(q, r, id) ==
    /\ Owned(q, id) /\ Changed(q, r, id, "RETURNED")
    /\ r.free = q.free /\ r.dirty = Append(q.dirty, id)

\* A buffer joins the free list, behind the smaller ones.
Freed(q, r, id) ==
    /\ Owned(q, id) /\ Changed(q, r, id, "RELEASED")
    /\ r.dirty = q.dirty
    /\ \E k \in 1 .. Len(q.free) + 1 :
          /\ r.free = InsertAt(q.free, k, id)
          /\ \A i \in 1 .. k - 1 : q.cached[q.free[i]].cap < q.cached[id].cap
          /\ k <= Len(q.free) => q.cached[id].cap <= q.cached[q.free[k]].cap

\* The consumer takes the oldest filled buffer.
Taken(q, r) ==
    /\ q.dirty # <<>>
    /\ Changed(q, r, Head(q.dirty), "ACQUIRED")
    /\ r.free = q.free /\ r.dirty = Tail(q.dirty)

\* The producer gets the free buffer at a place of the list.
Reused(q, r, at) ==
    /\ at \in 1 .. Len(q.free)
    /\ Changed(q, r, q.free[at], "REQUESTED")
    /\ r.free = RemoveAt(q.free, at) /\ r.dirty = q.dirty

\* The free buffer at a place of the list is deleted.
Dropped(q, r, at) ==
    /\ at \in 1 .. Len(q.free)
    /\ DOMAIN r.cached = DOMAIN q.cached \ {q.free[at]}
    /\ \A i \in DOMAIN r.cached : r.cached[i] = q.cached[i]
    /\ r.free = RemoveAt(q.free, at) /\ r.dirty = q.dirty

\* The first f free and the first d filled buffers are deleted; others may
\* be marked.
Trimmed(q, r, f, d) ==
    /\ f \in 0 .. Len(q.free) /\ d \in 0 .. Len(q.dirty)
    /\ DOMAIN r.cached =
          DOMAIN q.cached \ (ToSet(SubSeq(q.free, 1, f)) \cup ToSet(SubSeq(q.dirty, 1, d)))
    /\ \A i \in DOMAIN r.cached :
          /\ r.cached[i].cap = q.cached[i].cap
          /\ r.cached[i].mem = q.cached[i].mem
          /\ r.cached[i].form = q.cached[i].form
          /\ r.cached[i].state = q.cached[i].state
    /\ r.free = SubSeq(q.free, f + 1, Len(q.free))
    /\ r.dirty = SubSeq(q.dirty, d + 1, Len(q.dirty))
-----------------------------------------------------------------------------
(* The helpers of the queue make these moves                                *)

\* SetState changes one element and no list.
LEMMA SetStateChanges ==
    ASSUME NEW q, QueueType(q), NEW id \in DOMAIN q.cached, NEW s \in States
    PROVE  Changed(q, SetState(q, id, s), id, s) /\ SameLists(q, SetState(q, id, s))
  BY DEF SetState, QueueType, SameLists, Elements, Changed, Alike

\* DeleteCachedBufferById of an owned buffer.
LEMMA DeleteRemoves ==
    ASSUME NEW q, QueueType(q), NEW id, Owned(q, id)
    PROVE  Removed(q, DeleteCachedBuffers(q, {id}), id)
  BY DeleteLemma DEF Removed

\* AddCached under a new id.
LEMMA AddAdds ==
    ASSUME NEW q, QueueType(q), NEW id \in Ids \ DOMAIN q.cached, NEW e \in Elements
    PROVE  Added(q, AddCached(q, id, e), id, e) /\ SameLimits(q, AddCached(q, id, e))
  BY AddLemma DEF Added

\* The place where InsertFreeBufferInOrder inserts: before the first buffer
\* that is not smaller.
LEMMA InsertPlace ==
    ASSUME NEW q, QueueType(q), NEW id \in DOMAIN q.cached,
           ToSet(q.free) \subseteq DOMAIN q.cached, id \notin ToSet(q.free)
    PROVE  \E k \in 1 .. Len(q.free) + 1 :
              /\ InsertFreeBufferInOrder(q, id).free = InsertAt(q.free, k, id)
              /\ \A i \in 1 .. k - 1 : q.cached[q.free[i]].cap < q.cached[id].cap
              /\ k <= Len(q.free) => q.cached[id].cap <= q.cached[q.free[k]].cap
  <1> DEFINE S == ToSet(q.free) \cup {id}
             x == Touch(q, S)
             Stop(i) == q.free[i] # id /\ x.cached[q.free[i]].cap >= x.cached[id].cap
             stops == {i \in DOMAIN q.free : Stop(i)}
             at == IF stops = {} THEN Len(q.free) + 1 ELSE Min(stops)
             y == Touch(q, {q.free[i] : i \in 1 .. Min({at, Len(q.free)})} \cup {id})
  <1>1. /\ q.free \in Seq(Ids) /\ DOMAIN q.free = 1 .. Len(q.free) /\ Len(q.free) \in Nat
        /\ \A j \in 1 .. Len(q.free) : q.free[j] \in ToSet(q.free)
    BY ToSetElements DEF QueueType
  <1>2. x.cached = q.cached
    <2>1. S \subseteq DOMAIN q.cached
      OBVIOUS
    <2>2. QED
      BY <2>1, TouchLemma
  <1> HIDE DEF x
  <1>3. \A i \in 1 .. Len(q.free) : i \in stops <=> q.cached[q.free[i]].cap >= q.cached[id].cap
    BY <1>1, <1>2
  <1>4. stops \subseteq 1 .. Len(q.free)
    BY <1>1
  <1>5. \A i \in 1 .. Len(q.free) : q.cached[q.free[i]].cap \in Nat /\ q.cached[id].cap \in Nat
    BY <1>1 DEF QueueType, Elements
  <1> HIDE DEF stops
  <1>6. /\ at \in 1 .. Len(q.free) + 1
        /\ \A i \in 1 .. at - 1 : i \in 1 .. Len(q.free) /\ i \notin stops
        /\ at <= Len(q.free) => at \in stops
    <2>1. CASE stops = {}
      BY <1>1, <2>1
    <2>2. CASE stops # {}
      <3>1. stops \subseteq Nat
        BY <1>1, <1>4
      <3>2. Min(stops) \in stops /\ \A i \in stops : Min(stops) <= i
        BY <2>2, <3>1, MinOfNats, Zenon
      <3>3. at = Min(stops)
        BY <2>2, Zenon
      <3>4. at \in stops /\ \A i \in stops : at <= i
        BY <3>2, <3>3, Zenon
      <3> HIDE DEF at
      <3>5. QED
        BY <1>1, <1>4, <3>4
    <2>3. QED
      BY <2>1, <2>2
  <1> HIDE DEF at
  <1>7. InsertFreeBufferInOrder(q, id) = [y EXCEPT !.free = InsertAt(@, at, id)]
    BY DEF InsertFreeBufferInOrder, at, stops, x
  <1>8. y.free = q.free /\ "free" \in DOMAIN y
    BY DEF Touch, QueueType
  <1> HIDE DEF y
  <1>9. InsertFreeBufferInOrder(q, id).free = InsertAt(q.free, at, id)
    BY <1>7, <1>8
  <1>10. \A i \in 1 .. at - 1 : q.cached[q.free[i]].cap < q.cached[id].cap
    BY <1>3, <1>5, <1>6
  <1>11. at <= Len(q.free) => q.cached[id].cap <= q.cached[q.free[at]].cap
    BY <1>1, <1>3, <1>5, <1>6
  <1>12. QED
    BY <1>6, <1>9, <1>10, <1>11

\* ReleaseBuffer, and the cancelled push, which sets the state last.
LEMMA ReleaseFrees ==
    ASSUME NEW q, QueueOk(q), NEW id, Owned(q, id)
    PROVE  /\ Freed(q, InsertFreeBufferInOrder(SetState(q, id, "RELEASED"), id), id)
           /\ Freed(q, SetState(InsertFreeBufferInOrder(q, id), id, "RELEASED"), id)
  <1> DEFINE x == SetState(q, id, "RELEASED")
             y == InsertFreeBufferInOrder(q, id)
             w == InsertFreeBufferInOrder(x, id)
             z == SetState(y, id, "RELEASED")
  <1>1. /\ ToSet(q.free) \subseteq DOMAIN q.cached /\ id \notin ToSet(q.free)
        /\ QueueType(q) /\ id \in DOMAIN q.cached /\ "RELEASED" \in States
        /\ DOMAIN q.free = 1 .. Len(q.free) /\ Len(q.free) \in Nat
        /\ \A j \in 1 .. Len(q.free) : q.free[j] \in ToSet(q.free)
    BY ListedStates, ToSetElements DEF QueueOk, QueueType, Owned, States
  <1>2. /\ Changed(q, x, id, "RELEASED") /\ SameLists(q, x) /\ QueueType(x)
    BY <1>1, SetStateChanges, SetStateLemma
  <1>3. y.cached = q.cached /\ y.dirty = q.dirty /\ QueueType(y)
    BY <1>1, InsertFreeLemma
  <1> HIDE DEF x
  <1>4. w.cached = x.cached /\ w.dirty = x.dirty
    BY <1>1, <1>2, InsertFreeLemma DEF Changed, SameLists
  <1>5. PICK k \in 1 .. Len(q.free) + 1 :
              /\ y.free = InsertAt(q.free, k, id)
              /\ \A i \in 1 .. k - 1 : q.cached[q.free[i]].cap < q.cached[id].cap
              /\ k <= Len(q.free) => q.cached[id].cap <= q.cached[q.free[k]].cap
    BY <1>1, InsertPlace
  <1>6. x.free = q.free /\ id \in DOMAIN x.cached /\ DOMAIN x.cached = DOMAIN q.cached
    BY <1>2 DEF SameLists, Changed
  <1>7. PICK m \in 1 .. Len(x.free) + 1 :
              /\ w.free = InsertAt(x.free, m, id)
              /\ \A i \in 1 .. m - 1 : x.cached[x.free[i]].cap < x.cached[id].cap
              /\ m <= Len(x.free) => x.cached[id].cap <= x.cached[x.free[m]].cap
    BY <1>1, <1>2, <1>6, InsertPlace
  <1>8. \A i \in DOMAIN q.cached : x.cached[i].cap = q.cached[i].cap
    BY <1>2 DEF Changed, Alike
  <1> HIDE DEF y, w
  <1>9. /\ \A i \in 1 .. m - 1 : q.cached[q.free[i]].cap < q.cached[id].cap
        /\ m <= Len(q.free) => q.cached[id].cap <= q.cached[q.free[m]].cap
    BY <1>1, <1>6, <1>7, <1>8
  <1>10. Changed(q, w, id, "RELEASED")
    BY <1>2, <1>4 DEF Changed
  <1>11. Freed(q, w, id)
    BY <1>2, <1>4, <1>6, <1>7, <1>9, <1>10 DEF Freed, SameLists
  <1>12. Changed(y, z, id, "RELEASED") /\ SameLists(y, z)
    BY <1>1, <1>3, SetStateChanges
  <1> HIDE DEF z
  <1>13. Changed(q, z, id, "RELEASED")
    BY <1>3, <1>12 DEF Changed
  <1>14. Freed(q, z, id)
    BY <1>3, <1>5, <1>12, <1>13 DEF Freed, SameLists
  <1>15. QED
    BY <1>11, <1>14 DEF x, y, z, w

\* ReturnBuffer of a filled buffer.
LEMMA ReturnFills ==
    ASSUME NEW q, QueueOk(q), NEW id, Owned(q, id)
    PROVE  Filled(q, [SetState(q, id, "RETURNED") EXCEPT !.dirty = Append(@, id)], id)
  <1> DEFINE x == SetState(q, id, "RETURNED")
             r == [x EXCEPT !.dirty = Append(@, id)]
  <1>1. QueueType(q) /\ id \in DOMAIN q.cached /\ "RETURNED" \in States
    BY DEF QueueOk, Owned, States
  <1>2. Changed(q, x, id, "RETURNED") /\ SameLists(q, x) /\ QueueType(x)
    BY <1>1, SetStateChanges, SetStateLemma
  <1> HIDE DEF x
  <1>3. r.cached = x.cached /\ r.free = x.free /\ r.dirty = Append(x.dirty, id)
    BY <1>2 DEF QueueType
  <1> HIDE DEF r
  <1>4. Filled(q, r, id)
    BY <1>2, <1>3 DEF Filled, Changed, SameLists
  <1>5. QED
    BY <1>4 DEF r, x

\* AcquireBuffer of the head of the dirty list.
LEMMA AcquireTakes ==
    ASSUME NEW q, QueueOk(q), q.dirty # <<>>
    PROVE  Taken(q, [SetState(q, Head(q.dirty), "ACQUIRED") EXCEPT !.dirty = Tail(@)])
  <1> DEFINE id == Head(q.dirty)
             x == SetState(q, id, "ACQUIRED")
             r == [x EXCEPT !.dirty = Tail(@)]
  <1>0. id \in ToSet(q.dirty)
    BY TailToSet DEF QueueOk, QueueType, ListsOk
  <1>1. QueueType(q) /\ id \in DOMAIN q.cached /\ "ACQUIRED" \in States
    BY <1>0, ListedStates DEF QueueOk, States
  <1> HIDE DEF id
  <1>2. Changed(q, x, id, "ACQUIRED") /\ SameLists(q, x) /\ QueueType(x)
    BY <1>1, SetStateChanges, SetStateLemma
  <1> HIDE DEF x
  <1>3. r.cached = x.cached /\ r.free = x.free /\ r.dirty = Tail(x.dirty)
    BY <1>2 DEF QueueType
  <1> HIDE DEF r
  <1>4. Taken(q, r)
    BY <1>2, <1>3 DEF Taken, Changed, SameLists, id
  <1>5. QED
    BY <1>4 DEF r, x, id

\* PopFromFreeBufferList of a buffer that fits, and of one that is replaced.
LEMMA PopMoves ==
    ASSUME NEW q, QueueOk(q), NEW at \in DOMAIN q.free,
           NEW read, read \subseteq ToSet(q.free)
    PROVE  LET popped == [Touch(q, read) EXCEPT !.free = RemoveAt(@, at)]
           IN  /\ Reused(q, SetState(popped, q.free[at], "REQUESTED"), at)
               /\ Dropped(q, DeleteCachedBuffers(popped, {q.free[at]}), at)
               /\ SameLimits(q, SetState(popped, q.free[at], "REQUESTED"))
               /\ SameLimits(q, DeleteCachedBuffers(popped, {q.free[at]}))
  <1> DEFINE id == q.free[at]
             t == Touch(q, read)
             x == [t EXCEPT !.free = RemoveAt(@, at)]
             r == SetState(x, id, "REQUESTED")
             d == DeleteCachedBuffers(x, {id})
  <1>1. /\ q.free \in Seq(Ids) /\ DOMAIN q.free = 1 .. Len(q.free) /\ Len(q.free) \in Nat
        /\ at \in 1 .. Len(q.free) /\ id \in ToSet(q.free) /\ ToSet(q.free) \subseteq DOMAIN q.cached
    BY ToSetElements, ListedStates DEF QueueOk, QueueType
  <1>2. QueueType(x)
    BY PopOk
  <1>3. QueueType(t) /\ SameLists(q, t) /\ SameLimits(q, t) /\ t.cached = q.cached
    BY <1>1, TouchLemma DEF QueueOk
  <1> HIDE DEF t
  <1>4. x.cached = q.cached /\ x.dirty = q.dirty /\ x.free = RemoveAt(q.free, at) /\ SameLimits(q, x)
    BY <1>3 DEF QueueType, SameLists, SameLimits
  <1> HIDE DEF x
  <1>5. /\ Changed(x, r, id, "REQUESTED") /\ SameLists(x, r) /\ SameLimits(x, r)
    <2>1. id \in DOMAIN x.cached /\ "REQUESTED" \in States
      BY <1>1, <1>4 DEF States
    <2> HIDE DEF id
    <2>2. QED
      BY <1>2, <2>1, SetStateChanges, SetStateLemma
  <1>6. /\ SameLists(x, d) /\ SameLimits(x, d)
        /\ DOMAIN d.cached = DOMAIN x.cached \ {id}
        /\ \A i \in DOMAIN d.cached : d.cached[i] = x.cached[i]
    BY <1>2, DeleteLemma
  <1> HIDE DEF r, d
  <1>7. Reused(q, r, at) /\ SameLimits(q, r)
    BY <1>1, <1>4, <1>5 DEF Reused, Changed, SameLists, SameLimits
  <1>8. Dropped(q, d, at) /\ SameLimits(q, d)
    BY <1>1, <1>4, <1>6 DEF Dropped, SameLists, SameLimits
  <1>9. QED
    BY <1>7, <1>8 DEF r, d, x, t

\* Nothing is marked when nothing is missing.
LEMMA NoneMarked ==
    ASSUME NEW D, D \subseteq Ids, NEW c \in [D -> Elements]
    PROVE  \A i \in D : MarkDeleting(c, FirstIds(D, 0))[i].isDeleting = c[i].isDeleting
  <1> DEFINE S == FirstIds(D, 0)
             Flag(i) == c[i].isDeleting \/ i \in S
             m == [i \in D |-> [c[i] EXCEPT !.isDeleting = Flag(i)]]
  <1>1. MarkDeleting(c, S) = m
    BY DEF MarkDeleting
  <1>2. ASSUME NEW i \in D PROVE i \notin S
    <2> DEFINE T == {j \in D : j < i}
    <2>1. Cardinality(T) \in Nat
      <3>1. T \in SUBSET Ids
        OBVIOUS
      <3> HIDE DEF T
      <3>2. QED
        BY <3>1, IdsAssumption, FS_Subset, FS_CardinalityType
    <2>2. i \in S => Cardinality(T) < 0
      BY DEF FirstIds
    <2> HIDE DEF T, S
    <2>3. QED
      BY <2>1, <2>2
  <1>3. ASSUME NEW i \in D PROVE Flag(i) = c[i].isDeleting
    <2>1. c[i].isDeleting \in BOOLEAN
      BY DEF Elements
    <2>2. QED
      BY <1>2, <2>1, Zenon
  <1>4. \A i \in D : c[i] \in Elements
    OBVIOUS
  <1> HIDE DEF Flag
  <1>5. ASSUME NEW i \in D PROVE m[i].isDeleting = c[i].isDeleting
    <2>1. m[i].isDeleting = Flag(i)
      BY <1>4 DEF Elements
    <2>2. QED
      BY <1>3, <2>1
  <1> HIDE DEF m
  <1>6. QED
    BY <1>1, <1>5 DEF S

\* Marking keeps the capacities and the forms.
LEMMA MarkCap ==
    ASSUME NEW D, NEW c \in [D -> Elements], NEW S
    PROVE  \A i \in D : /\ MarkDeleting(c, S)[i].cap = c[i].cap
                       /\ MarkDeleting(c, S)[i].form = c[i].form
  <1> DEFINE Flag(i) == c[i].isDeleting \/ i \in S
             m == [i \in D |-> [c[i] EXCEPT !.isDeleting = Flag(i)]]
  <1>1. MarkDeleting(c, S) = m
    BY DEF MarkDeleting
  <1> HIDE DEF Flag
  <1>2. \A i \in D : m[i].cap = c[i].cap /\ m[i].form = c[i].form
    BY DEF Elements
  <1> HIDE DEF m
  <1>3. QED
    BY <1>1, <1>2

\* DeleteBuffers: as many free buffers as there are, then filled ones.
LEMMA DeleteTrims ==
    ASSUME NEW q, QueueOk(q), NEW n \in Nat
    PROVE  LET r == DeleteBuffers(q, n)
           IN  \E f \in 0 .. Len(q.free), d \in 0 .. Len(q.dirty) :
                  /\ Trimmed(q, r, f, d)
                  /\ f + d <= n
                  /\ n <= Len(q.free) + Len(q.dirty) =>
                        /\ f + d = n
                        /\ f < Len(q.free) => d = 0
                        /\ \A i \in DOMAIN r.cached : r.cached[i].isDeleting = q.cached[i].isDeleting
  <1> DEFINE f == Min({n, Len(q.free)})
             d == Min({n - f, Len(q.dirty)})
             S == ToSet(SubSeq(q.free, 1, f)) \cup ToSet(SubSeq(q.dirty, 1, d))
             x == DeleteCachedBuffers(q, S)
             marked == FirstIds(DOMAIN x.cached, n - f - d)
             r == [x EXCEPT
                     !.free = SubSeq(@, f + 1, Len(@)),
                     !.dirty = SubSeq(@, d + 1, Len(@)),
                     !.cached = MarkDeleting(@, marked)]
  <1>1. QueueType(q) /\ Len(q.free) \in Nat /\ Len(q.dirty) \in Nat
    BY ToSetElements DEF QueueOk, QueueType
  <1>2. /\ f \in 0 .. Len(q.free) /\ n - f \in Nat
        /\ f = IF n <= Len(q.free) THEN n ELSE Len(q.free)
    BY <1>1, MinOfTwo
  <1> HIDE DEF f
  <1>3. /\ d \in 0 .. Len(q.dirty)
        /\ d = IF n - f <= Len(q.dirty) THEN n - f ELSE Len(q.dirty)
    <2>1. d = IF n - f <= Len(q.dirty) THEN n - f ELSE Len(q.dirty)
      BY <1>1, <1>2, MinOfTwo
    <2> HIDE DEF d
    <2>2. \A a, b \in Nat : (IF a <= b THEN a ELSE b) \in 0 .. b
      OBVIOUS
    <2>3. (IF n - f <= Len(q.dirty) THEN n - f ELSE Len(q.dirty)) \in 0 .. Len(q.dirty)
      BY <1>1, <1>2, <2>2
    <2>4. QED
      BY <2>1, <2>3, Zenon
  <1> HIDE DEF d
  <1>4. /\ f + d <= n
        /\ n <= Len(q.free) + Len(q.dirty) =>
              f + d = n /\ n - f - d = 0 /\ (f < Len(q.free) => d = 0)
    <2>1. \A a, b \in Nat :
             LET g == IF n <= a THEN n ELSE a
                 h == IF n - g <= b THEN n - g ELSE b
             IN  /\ g + h <= n
                 /\ n <= a + b => g + h = n /\ n - g - h = 0 /\ (g < a => h = 0)
      OBVIOUS
    <2>2. QED
      BY <1>1, <1>2, <1>3, <2>1
  <1>5. /\ QueueType(x) /\ SameLists(q, x)
        /\ DOMAIN x.cached = DOMAIN q.cached \ S
        /\ \A id \in DOMAIN x.cached : x.cached[id] = q.cached[id]
    BY <1>1, DeleteLemma
  <1> HIDE DEF x, S
  <1>6. /\ x.cached \in [DOMAIN x.cached -> Elements] /\ DOMAIN x.cached \subseteq Ids
    BY <1>5 DEF QueueType
  <1> DEFINE c == MarkDeleting(x.cached, marked)
  <1>7. /\ DOMAIN c = DOMAIN x.cached
        /\ \A i \in DOMAIN x.cached :
              /\ c[i].cap = x.cached[i].cap /\ c[i].mem = x.cached[i].mem
              /\ c[i].form = x.cached[i].form /\ c[i].state = x.cached[i].state
    <2>1. c \in [DOMAIN x.cached -> Elements]
          /\ \A i \in DOMAIN x.cached : c[i].state = x.cached[i].state /\ c[i].mem = x.cached[i].mem
      BY <1>6, MarkLemma
    <2>2. \A i \in DOMAIN x.cached : c[i].cap = x.cached[i].cap /\ c[i].form = x.cached[i].form
      BY <1>6, MarkCap
    <2>3. QED
      BY <2>1, <2>2
  <1>8. n <= Len(q.free) + Len(q.dirty) =>
           \A i \in DOMAIN x.cached : c[i].isDeleting = x.cached[i].isDeleting
    BY <1>4, <1>6, NoneMarked
  <1> HIDE DEF marked, c
  <1>9. r.cached = c /\ r.free = SubSeq(q.free, f + 1, Len(q.free))
        /\ r.dirty = SubSeq(q.dirty, d + 1, Len(q.dirty))
    BY <1>5 DEF QueueType, SameLists, c
  <1>10. r = DeleteBuffers(q, n)
    BY DEF DeleteBuffers, r, x, S, f, d, marked
  <1> HIDE DEF r
  <1>11. Trimmed(q, r, f, d)
    BY <1>2, <1>3, <1>5, <1>7, <1>9 DEF Trimmed, S
  <1>12. n <= Len(q.free) + Len(q.dirty) =>
           \A i \in DOMAIN r.cached : r.cached[i].isDeleting = q.cached[i].isDeleting
    BY <1>5, <1>7, <1>8, <1>9
  <1>13. QED
    BY <1>2, <1>3, <1>4, <1>10, <1>11, <1>12
-----------------------------------------------------------------------------
(* How the moves change the number of buffers                               *)

\* An injective sequence of k elements has k of them.
LEMMA InjectiveCount ==
    ASSUME NEW T, NEW s \in Seq(T), IsInjective(s)
    PROVE  IsFiniteSet(ToSet(s)) /\ Cardinality(ToSet(s)) = Len(s)
  <1>1. /\ DOMAIN s = 1 .. Len(s) /\ Len(s) \in Nat
        /\ \A x : x \in ToSet(s) <=> \E j \in 1 .. Len(s) : s[j] = x
        /\ \A j, k \in 1 .. Len(s) : s[j] = s[k] => j = k
    BY ToSetElements, InjectiveElements
  <1>2. s \in [1 .. Len(s) -> ToSet(s)]
    BY <1>1
  <1>3. s \in Bijection(1 .. Len(s), ToSet(s))
    BY <1>1, <1>2 DEF Bijection, Injection, Surjection, IsInjective
  <1>4. ExistsBijection(1 .. Len(s), ToSet(s))
    BY <1>3 DEF ExistsBijection
  <1>5. IsFiniteSet(1 .. Len(s)) /\ Cardinality(1 .. Len(s)) = Len(s)
    BY <1>1, FS_Interval
  <1>6. QED
    BY <1>4, <1>5, FS_Bijection

\* The first k elements of an injective sequence are k.
LEMMA PrefixCount ==
    ASSUME NEW T, NEW s \in Seq(T), IsInjective(s), NEW k \in 0 .. Len(s)
    PROVE  /\ IsFiniteSet(ToSet(SubSeq(s, 1, k)))
           /\ Cardinality(ToSet(SubSeq(s, 1, k))) = k
           /\ ToSet(SubSeq(s, 1, k)) \subseteq ToSet(s)
  <1> DEFINE p == SubSeq(s, 1, k)
  <1>1. \A i, j \in 1 .. Len(s) : s[i] = s[j] => i = j
    BY InjectiveElements
  <1>2. p \in Seq(T) /\ Len(p) = k /\ \A i \in 1 .. k : p[i] = s[i]
    OBVIOUS
  <1> HIDE DEF p
  <1>3. k \in Nat /\ \A i \in 1 .. k : i \in 1 .. Len(s)
    OBVIOUS
  <1>4. IsInjective(p)
    BY <1>1, <1>2, <1>3, InjectiveElements
  <1>5. ToSet(p) \subseteq ToSet(s)
    BY CutProperties DEF p
  <1>6. QED
    BY <1>2, <1>4, <1>5, InjectiveCount DEF p

\* A new buffer adds one, a removed or dropped one takes one away.
LEMMA MoveCounts ==
    ASSUME NEW q, QueueOk(q), NEW r, NEW id, NEW at
    PROVE  /\ GetCachedBufferCount(q) \in Nat
           /\ \A e : Added(q, r, id, e) => GetCachedBufferCount(r) = GetCachedBufferCount(q) + 1
           /\ Removed(q, r, id) => GetCachedBufferCount(r) = GetCachedBufferCount(q) - 1
           /\ Dropped(q, r, at) => GetCachedBufferCount(r) = GetCachedBufferCount(q) - 1
           /\ \A s : Changed(q, r, id, s) => GetCachedBufferCount(r) = GetCachedBufferCount(q)
  <1>1. IsFiniteSet(DOMAIN q.cached)
    BY IdsAssumption, FS_Subset DEF QueueOk, QueueType
  <1>2. GetCachedBufferCount(q) \in Nat
    BY CountType DEF QueueOk
  <1>3. ASSUME NEW e, Added(q, r, id, e) PROVE GetCachedBufferCount(r) = GetCachedBufferCount(q) + 1
    BY <1>1, <1>3, FS_AddElement DEF Added, GetCachedBufferCount
  <1>4. ASSUME Removed(q, r, id) PROVE GetCachedBufferCount(r) = GetCachedBufferCount(q) - 1
    BY <1>1, <1>4, FS_RemoveElement DEF Removed, Owned, GetCachedBufferCount
  <1>5. ASSUME Dropped(q, r, at) PROVE GetCachedBufferCount(r) = GetCachedBufferCount(q) - 1
    <2>1. q.free[at] \in DOMAIN q.cached
      BY <1>5, ToSetElements, ListedStates DEF QueueOk, QueueType, Dropped
    <2>2. QED
      BY <1>1, <1>5, <2>1, FS_RemoveElement DEF Dropped, GetCachedBufferCount
  <1>6. ASSUME NEW s, Changed(q, r, id, s) PROVE GetCachedBufferCount(r) = GetCachedBufferCount(q)
    BY <1>6 DEF Changed, GetCachedBufferCount
  <1>7. QED
    BY <1>2, <1>3, <1>4, <1>5, <1>6

\* Trimming f free and d filled buffers takes f + d away.
LEMMA TrimCounts ==
    ASSUME NEW q, QueueOk(q), NEW r, NEW f, NEW d, Trimmed(q, r, f, d)
    PROVE  GetCachedBufferCount(r) = GetCachedBufferCount(q) - (f + d) /\ f \in Nat /\ d \in Nat
  <1> DEFINE F == ToSet(SubSeq(q.free, 1, f))
             D == ToSet(SubSeq(q.dirty, 1, d))
  <1>1. /\ q.free \in Seq(Ids) /\ IsInjective(q.free) /\ q.dirty \in Seq(Ids) /\ IsInjective(q.dirty)
        /\ f \in 0 .. Len(q.free) /\ d \in 0 .. Len(q.dirty)
        /\ DOMAIN r.cached = DOMAIN q.cached \ (F \cup D)
    BY DEF QueueOk, QueueType, ListsOk, Trimmed
  <1>2. IsFiniteSet(F) /\ Cardinality(F) = f /\ F \subseteq ToSet(q.free)
    BY <1>1, PrefixCount
  <1>3. IsFiniteSet(D) /\ Cardinality(D) = d /\ D \subseteq ToSet(q.dirty)
    BY <1>1, PrefixCount
  <1> HIDE DEF F, D
  <1>4. F \cap D = {} /\ F \cup D \subseteq DOMAIN q.cached
    BY <1>2, <1>3, ListedStates DEF QueueOk
  <1>5. f \in Nat /\ d \in Nat
    BY <1>1
  <1>6. IsFiniteSet(DOMAIN q.cached) /\ Cardinality(DOMAIN q.cached) \in Nat
    BY IdsAssumption, FS_Subset, FS_CardinalityType DEF QueueOk, QueueType
  <1>7. Cardinality(F \cup D) = f + d
    <2>1. Cardinality(F \cup D) = Cardinality(F) + Cardinality(D) - Cardinality(F \cap D)
      BY <1>2, <1>3, FS_Union
    <2>2. Cardinality(F \cap D) = 0
      BY <1>4, FS_EmptySet, Zenon
    <2>3. QED
      BY <1>2, <1>3, <1>5, <2>1, <2>2
  <1>8. DOMAIN q.cached \cap (F \cup D) = F \cup D
    BY <1>4
  <1>9. Cardinality(DOMAIN q.cached \ (F \cup D)) = Cardinality(DOMAIN q.cached) - (f + d)
    <2>1. Cardinality(DOMAIN q.cached \ (F \cup D)) =
             Cardinality(DOMAIN q.cached) - Cardinality(DOMAIN q.cached \cap (F \cup D))
      BY <1>6, FS_Difference
    <2>2. QED
      BY <1>7, <1>8, <2>1
  <1>10. QED
    BY <1>1, <1>5, <1>9 DEF GetCachedBufferCount

\* c is what the sequence s leaves without its first k elements, Begin(s, k).
IsCut(s, k, c) == k \in 0 .. Len(s) /\ c = SubSeq(s, k + 1, Len(s))
Begin(s, k) == ToSet(SubSeq(s, 1, k))

\* Cutting a sequence twice from the front is cutting it once.
LEMMA CutTwice ==
    ASSUME NEW s \in Seq(Ids), NEW k \in Nat, NEW c, NEW m \in Nat, NEW z,
           IsCut(s, k, c), IsCut(c, m, z)
    PROVE  /\ IsCut(s, k + m, z)
           /\ \A y : y \in Begin(s, k + m) <=> y \in Begin(s, k) \/ y \in Begin(c, m)
  <1> USE DEF IsCut, Begin
  <1>1. Len(s) \in Nat /\ k \in Nat /\ Len(c) = Len(s) - k /\ m \in Nat /\ c \in Seq(Ids)
    OBVIOUS
  <1>2. k + m \in 0 .. Len(s)
    BY <1>1
  <1>3. \A i \in 1 .. Len(c) : c[i] = s[k + i]
    BY <1>1
  <1>4. SubSeq(c, m + 1, Len(c)) = SubSeq(s, k + m + 1, Len(s))
    BY <1>1, <1>2, <1>3
  <1> DEFINE a == SubSeq(s, 1, k)
             b == SubSeq(c, 1, m)
             w == SubSeq(s, 1, k + m)
  <1>5. /\ a \in Seq(Ids) /\ Len(a) = k /\ \A i \in 1 .. k : a[i] = s[i]
        /\ b \in Seq(Ids) /\ Len(b) = m /\ \A i \in 1 .. m : b[i] = s[k + i]
        /\ w \in Seq(Ids) /\ Len(w) = k + m /\ \A i \in 1 .. k + m : w[i] = s[i]
    BY <1>1, <1>2, <1>3
  <1> HIDE DEF a, b, w
  <1>6. \A y : y \in ToSet(a) <=> \E i \in 1 .. k : s[i] = y
    <2>1. \A y : y \in ToSet(a) <=> \E i \in 1 .. Len(a) : a[i] = y
      BY <1>5, ToSetElements
    <2>2. QED
      BY <1>5, <2>1
  <1>7. \A y : y \in ToSet(b) <=> \E i \in 1 .. m : s[k + i] = y
    <2>1. \A y : y \in ToSet(b) <=> \E i \in 1 .. Len(b) : b[i] = y
      BY <1>5, ToSetElements
    <2>2. Len(b) = m /\ \A i \in 1 .. m : b[i] = s[k + i]
      BY <1>5
    <2>3. QED
      BY <2>1, <2>2, Zenon
  <1>8. \A y : y \in ToSet(w) <=> \E i \in 1 .. k + m : s[i] = y
    <2>1. \A y : y \in ToSet(w) <=> \E i \in 1 .. Len(w) : w[i] = y
      BY <1>5, ToSetElements
    <2>2. QED
      BY <1>5, <2>1
  <1>9. ASSUME NEW y, y \in ToSet(w) PROVE y \in ToSet(a) \/ y \in ToSet(b)
    <2>1. PICK i \in 1 .. k + m : s[i] = y
      BY <1>8, <1>9
    <2>2. CASE i <= k
      BY <1>1, <1>6, <2>1, <2>2
    <2>3. CASE i > k
      <3>1. i - k \in 1 .. m /\ k + (i - k) = i
        BY <1>1, <2>3
      <3>2. QED
        BY <1>7, <2>1, <3>1
    <2>4. QED
      BY <1>1, <2>2, <2>3
  <1>10. ASSUME NEW y, y \in ToSet(a) \/ y \in ToSet(b) PROVE y \in ToSet(w)
    <2>1. (\E i \in 1 .. k : s[i] = y) \/ (\E i \in 1 .. m : s[k + i] = y)
      BY <1>6, <1>7, <1>10
    <2>2. \E i \in 1 .. k + m : s[i] = y
      BY <1>1, <2>1
    <2>3. QED
      BY <1>8, <2>2
  <1>11. QED
    BY <1>2, <1>4, <1>9, <1>10 DEF a, b, w

\* Two trims are one.
LEMMA TrimTwice ==
    ASSUME NEW q, QueueOk(q), NEW x, QueueOk(x), NEW r, NEW f, NEW d, NEW g, NEW e,
           Trimmed(q, x, f, d), Trimmed(x, r, g, e)
    PROVE  Trimmed(q, r, f + g, d + e)
  <1>1. /\ q.free \in Seq(Ids) /\ q.dirty \in Seq(Ids)
        /\ IsCut(q.free, f, x.free) /\ IsCut(x.free, g, r.free)
        /\ IsCut(q.dirty, d, x.dirty) /\ IsCut(x.dirty, e, r.dirty)
        /\ f \in Nat /\ g \in Nat /\ d \in Nat /\ e \in Nat
    BY DEF QueueOk, QueueType, Trimmed, IsCut
  <1>2. /\ IsCut(q.free, f + g, r.free)
        /\ \A y : y \in Begin(q.free, f + g) <=> y \in Begin(q.free, f) \/ y \in Begin(x.free, g)
    BY <1>1, CutTwice
  <1>3. /\ IsCut(q.dirty, d + e, r.dirty)
        /\ \A y : y \in Begin(q.dirty, d + e) <=> y \in Begin(q.dirty, d) \/ y \in Begin(x.dirty, e)
    BY <1>1, CutTwice
  <1>4. DOMAIN r.cached = DOMAIN q.cached \ (Begin(q.free, f + g) \cup Begin(q.dirty, d + e))
    <2>1. /\ DOMAIN x.cached = DOMAIN q.cached \ (Begin(q.free, f) \cup Begin(q.dirty, d))
          /\ DOMAIN r.cached = DOMAIN x.cached \ (Begin(x.free, g) \cup Begin(x.dirty, e))
      BY DEF Trimmed, Begin
    <2>2. QED
      BY <1>2, <1>3, <2>1
  <1>5. DOMAIN r.cached \subseteq DOMAIN x.cached
    BY DEF Trimmed
  <1>6. \A i \in DOMAIN r.cached :
          /\ r.cached[i].cap = q.cached[i].cap
          /\ r.cached[i].mem = q.cached[i].mem
          /\ r.cached[i].form = q.cached[i].form
          /\ r.cached[i].state = q.cached[i].state
    BY <1>5 DEF Trimmed
  <1>7. QED
    BY <1>2, <1>3, <1>4, <1>6, Zenon DEF Trimmed, IsCut, Begin
-----------------------------------------------------------------------------
(* The kinds of steps                                                       *)

Count(q) == GetCachedBufferCount(q)

\* A waiting request has the memory type of the queue.
WaitersTyped ==
    \A t \in Threads : calls[t].pc \in Waiting => calls[t].req.mem = queue.memoryType

SameHeld == UNCHANGED <<prodHeld, wanted>>

\* The producer gets buffer id for the request req.
Given(id, req) == prodHeld' = prodHeld \cup {id} /\ wanted' = [wanted EXCEPT ![id] = req]

\* The request that AllocBuffer makes the element e for
RequestFor(e) == [mem |-> e.mem, size |-> e.cap, form |-> e.form]

\* A buffer of the queue's memory type is added to q.
NewBuffer(q, id, e, s) ==
    /\ Added(q, queue', id, e)
    /\ e.state = s /\ e.mem = queue'.memoryType /\ e.isDeleting = FALSE

StillStep == Still(queue, queue') /\ SameHeld

TrimStep == SameHeld /\ "resize" \in Ops /\ \E f, d \in Nat : Trimmed(queue, queue', f, d)

\* Room is made for an attached buffer.
Adopted(x, f, d, id, e) ==
    /\ QueueOk(x) /\ Trimmed(queue, x, f, d)
    /\ id \notin DOMAIN queue.cached
    /\ NewBuffer(x, id, e, "ATTACHED")
    /\ Count(queue') <= queue'.size
    /\ "resize" \notin Ops =>
          /\ Count(queue) >= queue.size => Count(queue') = queue.size
          /\ \A i \in DOMAIN x.cached : x.cached[i].isDeleting = queue.cached[i].isDeleting

AdoptStep ==
    SameHeld /\ \E x : \E f, d \in Nat, id \in Ids, e \in Elements : Adopted(x, f, d, id, e)

AllocStep ==
    /\ queue.free = <<>> /\ Count(queue) < queue.size /\ queue'.size = queue.size
    /\ \E id \in Ids, e \in Elements : NewBuffer(queue, id, e, "REQUESTED") /\ Given(id, RequestFor(e))

ReuseStep ==
    \E at \in Nat, req \in Requests :
        /\ Reused(queue, queue', at)
        /\ Fits(req, queue.cached[queue.free[at]])
        /\ Given(queue.free[at], req)

Replaced(x, at, id, e) ==
    /\ QueueOk(x) /\ Dropped(queue, x, at)
    /\ NewBuffer(x, id, e, "REQUESTED") /\ Given(id, RequestFor(e))

ReplaceStep == \E x : \E at \in Nat, id \in Ids, e \in Elements : Replaced(x, at, id, e)

DropStep == SameHeld /\ \E at \in Nat : Dropped(queue, queue', at)

PushStep ==
    \E id \in Ids :
        /\ Passed(queue, queue', id, "PUSHED") /\ queue.cached[id].state = "REQUESTED"
        /\ prodHeld' = prodHeld \ {id} /\ wanted' = [wanted EXCEPT ![id] = NoRequest]

PassStep ==
    SameHeld /\ \E id \in Ids :
        Passed(queue, queue', id, "PUSHED") /\ queue.cached[id].state = "ATTACHED"

RemoveStep ==
    \E id \in Ids :
        /\ Removed(queue, queue', id)
        /\ queue.cached[id].isDeleting \/ "detach" \in Ops \/ "empty" \in Fillings
        /\ prodHeld' = prodHeld \ {id}
        /\ wanted' = wanted \/ wanted' = [wanted EXCEPT ![id] = NoRequest]

FillStep ==
    /\ SameHeld
    /\ \E id \in Ids : Filled(queue, queue', id) /\ queue.cached[id].state = "PUSHED"
    /\ \E t \in Threads : calls[t].pc # "notify" /\ calls'[t].pc = "notify"

FreeStep ==
    /\ SameHeld
    /\ \E id \in Ids : Freed(queue, queue', id) /\ queue.cached[id].state # "REQUESTED"
    /\ \A t \in Threads : calls'[t].pc # "wait"

TakeStep == SameHeld /\ Taken(queue, queue')

Moves ==
    \/ StillStep \/ TrimStep \/ AdoptStep \/ AllocStep \/ ReuseStep \/ ReplaceStep \/ DropStep
    \/ PushStep \/ PassStep \/ RemoveStep \/ FillStep \/ FreeStep \/ TakeStep

\* No thread starts to wait.
NoneWaits(c, d) ==
    \A t \in Threads : d[t].pc \in Waiting =>
        /\ c[t].pc \in Waiting /\ d[t].req = c[t].req
        /\ d[t].pc = "wait" => c[t].pc = "wait"

\* The memory type settles once; a thread that starts to wait has a request of
\* that type, and blocks in a full queue.
Settles ==
    /\ queue'.memoryType = queue.memoryType \/ queue.memoryType = UNKNOWN_MEMORY
    /\ "resize" \notin Ops => queue'.size = queue.size
    /\ \A t \in Threads : calls'[t].pc \in Waiting =>
          \/ /\ calls[t].pc \in Waiting /\ calls'[t].req = calls[t].req
             /\ calls'[t].pc = "wait" => calls[t].pc = "wait"
          \/ /\ calls'[t].req.mem = queue'.memoryType
             /\ calls'[t].pc = "wait" => Full(queue')

\* Threads that move on without waiting, and threads that are woken.
LEMMA NoWaiting ==
    ASSUME NEW c \in [Threads -> Frames], NEW t \in Threads
    PROVE  /\ NoneWaits(c, c)
           /\ \A f \in Frames : f.pc \notin Waiting => NoneWaits(c, [c EXCEPT ![t] = f])
           /\ NoneWaits(c, NotifyAll(c)) /\ \A u \in Threads : NotifyAll(c)[u].pc # "wait"
           /\ NotifyAll(c) \in [Threads -> Frames]
           /\ Idle \in Frames /\ Idle.pc = "idle" /\ Idle.pc \notin Waiting
  <1>1. Idle \in Frames /\ Idle.pc = "idle" /\ Idle.pc \notin Waiting
    BY DEF Idle, Frames, Waiting
  <1>2. \A f \in Frames : f.pc \notin Waiting => NoneWaits(c, [c EXCEPT ![t] = f])
    BY DEF NoneWaits
  <1>3. /\ NotifyAll(c) \in [Threads -> Frames]
        /\ \A u \in Threads : NotifyAll(c)[u].req = c[u].req
        /\ \A u \in Threads : NotifyAll(c)[u].pc = IF c[u].pc = "wait" THEN "woken" ELSE c[u].pc
    BY DEF NotifyAll, Frames
  <1>4. NoneWaits(c, NotifyAll(c)) /\ \A u \in Threads : NotifyAll(c)[u].pc # "wait"
    BY <1>3 DEF NoneWaits, Waiting
  <1>5. QED
    BY <1>1, <1>2, <1>3, <1>4 DEF NoneWaits

\* requestCondition.notify_all() leaves no thread blocked.
LEMMA WakingWaits ==
    ASSUME NEW c \in [Threads -> Frames]
    PROVE  NoneWaits(c, NotifyAll(c)) /\ \A u \in Threads : NotifyAll(c)[u].pc # "wait"
  BY DEF NotifyAll, Frames, NoneWaits, Waiting

\* Waking after moving on, and the other way round.
LEMMA NoWaitingTwice ==
    ASSUME NEW c, NEW d, NEW e, NoneWaits(c, d), NoneWaits(d, e)
    PROVE  NoneWaits(c, e)
  BY DEF NoneWaits

\* A step in which no thread starts to wait settles what the queue settles.
LEMMA QuietSettles ==
    ASSUME NoneWaits(calls, calls'),
           queue'.memoryType = queue.memoryType \/ queue.memoryType = UNKNOWN_MEMORY,
           "resize" \notin Ops => queue'.size = queue.size
    PROVE  Settles
  BY DEF Settles, NoneWaits

\* A relation from the queue that CheckConfig leaves is one from the queue.
LEMMA StillMoves ==
    ASSUME NEW q, NEW x, Still(q, x), NEW r
    PROVE  /\ \A id, e : Added(x, r, id, e) => Added(q, r, id, e)
           /\ \A at : Reused(x, r, at) => Reused(q, r, at)
           /\ \A at : Dropped(x, r, at) => Dropped(q, r, at)
           /\ \A f, d : Trimmed(x, r, f, d) => Trimmed(q, r, f, d)
           /\ Count(x) = Count(q)
  BY DEF Still, SameLists, Added, Reused, Dropped, Trimmed, Changed, Count, GetCachedBufferCount
-----------------------------------------------------------------------------
(* Every action is a step of one of these kinds                             *)

\* AllocBuffer adds the requested buffer to x, or leaves x.
LEMMA AllocMoves ==
    ASSUME NEW x, QueueOk(x), DOMAIN x.cached \subseteq Cached,
           NEW req \in Requests, req.mem = x.memoryType, AllocBuffer(x, req)
    PROVE  /\ SameLimits(x, queue')
           /\ \/ \E id \in Ids, e \in Elements : NewBuffer(x, id, e, "REQUESTED") /\ Given(id, RequestFor(e))
              \/ queue' = x /\ SameHeld
  <1>1. CASE \E id \in FreshIds : queue' = AllocRequested(x, id, req) /\ Hand(id, req)
    <2>1. PICK id \in FreshIds : queue' = AllocRequested(x, id, req) /\ Hand(id, req)
      BY <1>1
    <2> DEFINE e == [cap |-> req.size, mem |-> req.mem, form |-> req.form, state |-> "REQUESTED", isDeleting |-> FALSE]
    <2>2. id \in Ids \ DOMAIN x.cached
      BY DEF FreshIds
    <2>3. e \in Elements /\ e.mem = x.memoryType /\ e.state = "REQUESTED" /\ e.isDeleting = FALSE
          /\ RequestFor(e) = req
      BY SizesAssumption DEF Elements, States, Requests, RequestFor
    <2>4. queue' = AddCached(x, id, e)
      BY <2>1 DEF AllocRequested
    <2> HIDE DEF e
    <2>5. Added(x, queue', id, e) /\ SameLimits(x, queue')
      BY <2>2, <2>3, <2>4, AddAdds DEF QueueOk
    <2>6. NewBuffer(x, id, e, "REQUESTED") /\ Given(id, RequestFor(e))
      BY <2>1, <2>3, <2>5 DEF NewBuffer, Given, Hand, SameLimits
    <2>7. QED
      BY <2>2, <2>3, <2>5, <2>6
  <1>2. CASE queue' = x /\ UNCHANGED <<prodHeld, wanted>>
    BY <1>2 DEF SameLimits, SameHeld
  <1>3. QED
    BY <1>1, <1>2 DEF AllocBuffer

\* PopFromFreeBufferList and RequestReuseBuffer.
LEMMA PopAndReuseMoves ==
    ASSUME IInv, NEW q, QueueOk(q), Still(queue, q),
           NEW req \in Requests, req.mem = q.memoryType,
           q.free # <<>>, PopAndReuse(q, req)
    PROVE  SameLimits(q, queue') /\ (ReuseStep \/ ReplaceStep \/ DropStep)
  <1> DEFINE fits == {i \in DOMAIN q.free : Fits(req, Elem(q, q.free[i]))}
             at == IF fits = {} THEN 1 ELSE Min(fits)
             id == q.free[at]
             read == IF fits = {} THEN ToSet(q.free) ELSE {q.free[i] : i \in 1 .. at}
             popped == [Touch(q, read) EXCEPT !.free = RemoveAt(@, at)]
             reused == SetState(popped, id, "REQUESTED")
             dropped == DeleteCachedBuffers(popped, {id})
  <1>1. /\ q.free \in Seq(Ids) /\ DOMAIN q.free = 1 .. Len(q.free) /\ Len(q.free) \in Nat
        /\ \A j \in 1 .. Len(q.free) : q.free[j] \in ToSet(q.free)
        /\ ToSet(q.free) \subseteq DOMAIN q.cached
    BY ToSetElements, ListedStates DEF QueueOk, QueueType
  <1>2. fits \subseteq DOMAIN q.free
    OBVIOUS
  <1> HIDE DEF fits
  <1>3. at \in DOMAIN q.free /\ (fits # {} => at \in fits)
    <2>1. CASE fits = {}
      BY <1>1, <2>1
    <2>2. CASE fits # {}
      <3>1. fits \subseteq Nat
        BY <1>1, <1>2
      <3>2. Min(fits) \in fits
        BY <2>2, <3>1, MinOfNats, Zenon
      <3>3. at = Min(fits)
        BY <2>2, Zenon
      <3>4. QED
        BY <1>2, <3>2, <3>3, Zenon
    <2>3. QED
      BY <2>1, <2>2
  <1> HIDE DEF at
  <1>4. read \subseteq ToSet(q.free)
    <2>1. {q.free[i] : i \in 1 .. at} \subseteq ToSet(q.free)
      BY <1>1, <1>3
    <2>2. QED
      BY <2>1
  <1> HIDE DEF read
  <1>5. at \in Nat /\ id \in DOMAIN q.cached /\ q.cached[id].mem \in MemoryTypes
    BY <1>1, <1>3 DEF QueueOk, Real
  <1>6. Elem(q, id) = q.cached[id] /\ Elem(q, id).mem # UNKNOWN_MEMORY
    BY <1>5, TypesAssumption DEF Elem
  <1>7. /\ Reused(q, reused, at) /\ SameLimits(q, reused)
        /\ Dropped(q, dropped, at) /\ SameLimits(q, dropped)
    BY <1>3, <1>4, PopMoves
  <1>8. /\ QueueOk(dropped) /\ DOMAIN dropped.cached \subseteq DOMAIN q.cached
    BY <1>3, <1>4, ReplaceOk
  <1>9. \/ queue' = reused /\ Hand(id, req) /\ fits # {}
        \/ AllocBuffer(dropped, req)
    <2>1. PopAndReuse(q, req) <=>
            \/ /\ Elem(q, id).mem = UNKNOWN_MEMORY
               /\ queue' = popped
               /\ UNCHANGED <<prodHeld, wanted>>
            \/ /\ Elem(q, id).mem # UNKNOWN_MEMORY
               /\ fits # {}
               /\ queue' = reused
               /\ Hand(id, req)
            \/ /\ Elem(q, id).mem # UNKNOWN_MEMORY
               /\ fits = {}
               /\ AllocBuffer(dropped, req)
      BY Zenon DEF PopAndReuse, fits, at, read
    <2>2. QED
      BY <1>6, <2>1
  <1> HIDE DEF reused, dropped, popped
  <1>10. q.cached = queue.cached /\ q.free = queue.free
    BY DEF Still, SameLists
  <1>11. CASE queue' = reused /\ Hand(id, req) /\ fits # {}
    <2>1. Fits(req, queue.cached[queue.free[at]])
      <3>1. at \in fits
        BY <1>3, <1>11
      <3>2. Fits(req, Elem(q, q.free[at]))
        BY <3>1 DEF fits
      <3>3. QED
        BY <1>6, <1>10, <3>2
    <2>2. Reused(queue, queue', at)
      BY <1>7, <1>11, StillMoves
    <2>3. Given(queue.free[at], req)
      BY <1>10, <1>11 DEF Hand, Given
    <2>4. QED
      BY <1>5, <1>7, <1>11, <2>1, <2>2, <2>3 DEF ReuseStep
  <1>12. CASE AllocBuffer(dropped, req)
    <2>1. DOMAIN dropped.cached \subseteq Cached /\ req.mem = dropped.memoryType
      BY <1>7, <1>8, <1>10 DEF Cached, SameLimits
    <2>2. Dropped(queue, dropped, at)
      BY <1>7, StillMoves
    <2>3. /\ SameLimits(dropped, queue')
          /\ \/ \E i \in Ids, e \in Elements : NewBuffer(dropped, i, e, "REQUESTED") /\ Given(i, RequestFor(e))
             \/ queue' = dropped /\ SameHeld
      BY <1>8, <1>12, <2>1, AllocMoves
    <2>4. SameLimits(q, queue')
      BY <1>7, <2>3 DEF SameLimits
    <2>5. ASSUME NEW i \in Ids, NEW e \in Elements, NewBuffer(dropped, i, e, "REQUESTED"), Given(i, RequestFor(e))
          PROVE  ReplaceStep
      <3>1. Replaced(dropped, at, i, e)
        BY <1>8, <2>2, <2>5 DEF Replaced
      <3>2. QED
        BY <1>5, <3>1 DEF ReplaceStep
    <2>6. ASSUME queue' = dropped, SameHeld PROVE DropStep
      BY <1>5, <2>2, <2>6 DEF DropStep
    <2>7. QED
      BY <2>3, <2>4, <2>5, <2>6
  <1>13. QED
    BY <1>9, <1>11, <1>12

\* A request that is granted, at once or after a wait.
LEMMA GrantMoves ==
    ASSUME IInv, NEW t \in Threads, NEW q, QueueOk(q), Still(queue, q), q.size = queue.size,
           NEW req \in Requests, req.mem = q.memoryType, ~Full(q), Grant(t, q, req)
    PROVE  Moves /\ SameLimits(q, queue') /\ NoneWaits(calls, calls')
  <1>1. NoneWaits(calls, calls')
    BY NoWaiting DEF Grant, IInv, TypeOK
  <1>2. CASE q.free # <<>>
    BY <1>1, <1>2, PopAndReuseMoves DEF Grant, Moves
  <1>3. CASE q.free = <<>>
    <2>1. AllocBuffer(q, req) /\ DOMAIN q.cached \subseteq Cached /\ queue.free = <<>>
      BY <1>3 DEF Grant, Still, SameLists, Cached
    <2>2. /\ SameLimits(q, queue')
          /\ \/ \E id \in Ids, e \in Elements : NewBuffer(q, id, e, "REQUESTED") /\ Given(id, RequestFor(e))
             \/ queue' = q /\ SameHeld
      BY <2>1, AllocMoves
    <2>3. Count(queue) < queue.size
      <3>1. Count(q) = Count(queue) /\ Count(q) \in Nat /\ q.size \in Nat
        BY StillMoves, CountType DEF QueueOk, QueueType, Count
      <3>2. ~(Count(q) >= q.size)
        BY <1>3 DEF Full, Count
      <3>3. QED
        BY <3>1, <3>2
    <2>4. ASSUME NEW id \in Ids, NEW e \in Elements, NewBuffer(q, id, e, "REQUESTED"), Given(id, RequestFor(e))
          PROVE  AllocStep
      <3>1. NewBuffer(queue, id, e, "REQUESTED")
        BY <2>4, StillMoves DEF NewBuffer
      <3>2. QED
        BY <2>1, <2>2, <2>3, <2>4, <3>1 DEF AllocStep, SameLimits
    <2>5. ASSUME queue' = q, SameHeld PROVE StillStep
      BY <2>5 DEF StillStep
    <2>6. QED
      BY <1>1, <2>2, <2>4, <2>5 DEF Moves
  <1>4. QED
    BY <1>2, <1>3

\* RequestBuffer up to the wait.
LEMMA RequestBufferMoves ==
    ASSUME IInv, NEW t \in Threads, NEW config \in Requests, RequestBuffer(t, config)
    PROVE  Moves /\ Settles
  <1> DEFINE req == [config EXCEPT !.mem = IF @ = UNKNOWN_MEMORY THEN queue.memoryType ELSE @]
             q == CheckConfig(queue, req.mem)
  <1>1. /\ queue.memoryType \in MemoryTypes \cup {UNKNOWN_MEMORY} /\ QueueOk(queue)
        /\ calls \in [Threads -> Frames] /\ QueueType(queue)
    BY DEF IInv, TypeOK, QueueType
  <1>2. /\ calls[t].pc = "idle"
        /\ ConfigOk(queue, req.mem)
        /\ IF Full(q) THEN Wait(t, q, req) ELSE Grant(t, q, req)
    BY Zenon DEF RequestBuffer
  <1>3. /\ req \in Requests /\ req.mem \in MemoryTypes /\ req.size \in Sizes
        /\ queue.memoryType = UNKNOWN_MEMORY \/ queue.memoryType = req.mem
    BY <1>1, <1>2 DEF Requests, ConfigOk
  <1> HIDE DEF req
  <1>4. QueueOk(q) /\ Still(queue, q) /\ q.size = queue.size
    BY <1>1, <1>3, CheckConfigOk DEF Still
  <1>5. q.memoryType = req.mem
    BY <1>1 DEF CheckConfig, QueueType
  <1> HIDE DEF q
  <1>6. CASE ~Full(q) /\ Grant(t, q, req)
    <2>1. Moves /\ SameLimits(q, queue') /\ NoneWaits(calls, calls')
      BY <1>3, <1>4, <1>5, <1>6, GrantMoves
    <2>2. QED
      BY <1>3, <1>4, <1>5, <2>1, QuietSettles DEF SameLimits
  <1>7. CASE Full(q) /\ Wait(t, q, req)
    <2>1. queue' = q /\ SameHeld
      BY <1>7 DEF Wait, SameHeld
    <2>2. Moves
      BY <1>4, <2>1 DEF Moves, StillStep
    <2>3. \A u \in Threads : calls'[u] = calls[u] \/ calls'[u].req = req
      <3>1. \A pc : [Idle EXCEPT !.pc = pc, !.req = req].req = req
        BY DEF Idle
      <3>2. QED
        BY <1>1, <1>7, <3>1 DEF Wait
    <2>4. QED
      BY <1>3, <1>4, <1>5, <1>7, <2>1, <2>2, <2>3 DEF Settles
  <1>8. QED
    BY <1>2, <1>6, <1>7

\* The part of RequestBuffer after the wait.
LEMMA RetryRequestMoves ==
    ASSUME IInv, WaitersTyped, NEW t \in Threads, RetryRequest(t)
    PROVE  Moves /\ Settles
  <1>1. /\ FrameOk(calls[t], InState(queue, "PUSHED"), InState(queue, "ATTACHED"), brokerHeld)
        /\ calls[t].pc \in {"woken", "timed"} /\ calls \in [Threads -> Frames] /\ QueueOk(queue)
    BY DEF RetryRequest, IInv, CallsOk
  <1>2. calls[t].req.mem = queue.memoryType /\ calls[t].req \in Requests
    <2>1. calls[t].pc \in Waiting /\ calls[t].req.mem \in MemoryTypes
      BY <1>1 DEF FrameOk, Waiting
    <2>2. calls[t].req \in Requests \cup {NoRequest} /\ NoRequest.mem = UNKNOWN_MEMORY
      BY <1>1 DEF Frames, NoRequest
    <2>3. QED
      BY <2>1, <2>2, TypesAssumption DEF WaitersTyped
  <1>3. CASE ~Full(queue) /\ Grant(t, queue, calls[t].req)
    <2>1. Still(queue, queue)
      BY DEF Still, SameLists
    <2>2. Moves /\ SameLimits(queue, queue') /\ NoneWaits(calls, calls')
      BY <1>1, <1>2, <1>3, <2>1, GrantMoves
    <2>3. QED
      BY <2>2, QuietSettles DEF SameLimits
  <1>4. CASE calls' = [calls EXCEPT ![t] = Idle] /\ UNCHANGED <<queue, prodHeld, wanted>>
    <2>1. Moves
      BY <1>4 DEF Moves, StillStep, Still, SameLists, SameHeld
    <2>2. NoneWaits(calls, calls')
      BY <1>1, <1>4, NoWaiting
    <2>3. QED
      BY <1>4, <2>1, <2>2, QuietSettles
  <1>5. QED
    BY <1>3, <1>4 DEF RetryRequest

\* A step that leaves the queue and the producer alone.
LEMMA StillStepMoves ==
    ASSUME UNCHANGED <<queue, prodHeld, wanted>>, NoneWaits(calls, calls')
    PROVE  Moves /\ Settles
  <1>1. Moves
    BY DEF Moves, StillStep, Still, SameLists, SameHeld
  <1>2. QED
    BY <1>1, QuietSettles

\* The steps of a thread that leave the queue alone.
LEMMA QuietMoves ==
    ASSUME IInv, NEW t \in Threads,
           \/ SpuriousWakeup(t) \/ OfferToBroker(t) \/ NotifyConsumer(t)
           \/ \E id \in Ids, kind \in Kinds : BrokerReturn(t, id, kind)
    PROVE  Moves /\ Settles
  <1>1. UNCHANGED <<queue, prodHeld, wanted>>
    BY DEF SpuriousWakeup, OfferToBroker, NotifyConsumer, BrokerReturn, heldVars
  <1>2. calls \in [Threads -> Frames] /\ consumerListener
    BY DEF IInv, TypeOK
  <1>3. CASE SpuriousWakeup(t)
    <2>1. NoneWaits(calls, calls')
      BY <1>2, <1>3 DEF SpuriousWakeup, NoneWaits, Waiting, Frames
    <2>2. QED
      BY <1>1, <2>1, StillStepMoves
  <1>4. CASE OfferToBroker(t) \/ NotifyConsumer(t)
    <2>1. calls' = [calls EXCEPT ![t] = Idle] \/ calls' = [calls EXCEPT ![t].pc = "return"]
      BY <1>2, <1>4 DEF OfferToBroker, NotifyConsumer
    <2>2. NoneWaits(calls, calls')
      BY <1>2, <2>1, NoWaiting DEF NoneWaits, Waiting, Frames
    <2>3. QED
      BY <1>1, <2>2, StillStepMoves
  <1>5. CASE \E id \in Ids, kind \in Kinds : BrokerReturn(t, id, kind)
    <2>1. \A u \in Threads : calls'[u] = calls[u] \/ calls'[u].pc = "return"
      BY <1>2, <1>5 DEF BrokerReturn, Idle
    <2>2. NoneWaits(calls, calls')
      BY <2>1 DEF NoneWaits, Waiting
    <2>3. QED
      BY <1>1, <2>2, StillStepMoves
  <1>6. QED
    BY <1>3, <1>4, <1>5

\* The steps that leave the queue and the calls alone.
LEMMA OtherQuietMoves ==
    ASSUME \/ AcquireNothing
           \/ \E b \in Brokers : SetBrokerListener(b) \/ RemoveBrokerListener(b)
           \/ UNCHANGED vars
    PROVE  Moves /\ Settles
  <1>1. UNCHANGED <<queue, calls, prodHeld, wanted>>
    BY DEF AcquireNothing, SetBrokerListener, RemoveBrokerListener, vars, heldVars
  <1>2. NoneWaits(calls, calls')
    BY <1>1 DEF NoneWaits
  <1>3. QED
    BY <1>1, <1>2, StillStepMoves

\* A buffer that is owned leaves the queue.
LEMMA RemoveMoves ==
    ASSUME IInv, NEW id \in Ids, Owned(queue, id),
           queue.cached[id].isDeleting \/ "detach" \in Ops \/ "empty" \in Fillings,
           queue' = DeleteCachedBuffers(queue, {id}),
           prodHeld' = prodHeld \ {id},
           wanted' = wanted \/ wanted' = [wanted EXCEPT ![id] = NoRequest],
           NoneWaits(calls, calls')
    PROVE  Moves /\ Settles
  <1>1. Removed(queue, queue', id) /\ SameLimits(queue, queue')
    BY DeleteRemoves, DeleteLemma DEF IInv, QueueOk
  <1>2. RemoveStep
    BY <1>1 DEF RemoveStep
  <1>3. QED
    BY <1>1, <1>2, QuietSettles DEF Moves, SameLimits

\* The producer's push, and the push of an attached buffer.
LEMMA PushLockedMoves ==
    ASSUME IInv, NEW t \in Threads, NEW id \in Ids, NEW kind, NEW attach \in BOOLEAN,
           PushLocked(t, id, kind, attach), Owned(queue, id),
           kind \in {"data", "empty", "cancel", "release"},
           \/ /\ queue.cached[id].state = "REQUESTED"
              /\ prodHeld' = prodHeld \ {id} /\ wanted' = [wanted EXCEPT ![id] = NoRequest]
           \/ queue.cached[id].state = "ATTACHED" /\ SameHeld
    PROVE  Moves /\ Settles
  <1> DEFINE f == [Idle EXCEPT !.pc = IF kind = "cancel" THEN "return" ELSE "broker",
                               !.id = id, !.kind = kind, !.attach = attach]
  <1>1. calls \in [Threads -> Frames] /\ QueueOk(queue) /\ prodHeld = InState(queue, "REQUESTED")
    BY DEF IInv, TypeOK
  <1>2. f \in Frames /\ f.pc \notin Waiting
    BY DEF Frames, Idle, Waiting, NoRequest
  <1>3. CASE /\ queue.cached[id].isDeleting /\ queue' = DeleteCachedBuffers(queue, {id})
             /\ calls' = [calls EXCEPT ![t] = Idle]
    <2>1. NoneWaits(calls, calls')
      BY <1>1, <1>3, NoWaiting
    <2>2. /\ prodHeld' = prodHeld \ {id}
          /\ wanted' = wanted \/ wanted' = [wanted EXCEPT ![id] = NoRequest]
      <3>1. CASE queue.cached[id].state = "ATTACHED" /\ SameHeld
        <4>1. id \notin prodHeld
          BY <1>1, <3>1 DEF InState
        <4>2. QED
          BY <3>1, <4>1 DEF SameHeld
      <3>2. QED
        BY <3>1
    <2>3. QED
      BY <1>3, <2>1, <2>2, RemoveMoves
  <1>4. CASE queue' = SetState(queue, id, "PUSHED") /\ calls' = [calls EXCEPT ![t] = f]
    <2>1. Changed(queue, queue', id, "PUSHED") /\ SameLists(queue, queue') /\ SameLimits(queue, queue')
      <3>1. id \in DOMAIN queue.cached /\ "PUSHED" \in States /\ QueueType(queue)
        BY <1>1 DEF Owned, States, QueueOk
      <3>2. QED
        BY <1>4, <3>1, SetStateChanges, SetStateLemma
    <2>2. Passed(queue, queue', id, "PUSHED")
      BY <2>1 DEF Passed
    <2>3. PushStep \/ PassStep
      BY <2>2 DEF PushStep, PassStep
    <2> HIDE DEF f
    <2>4. NoneWaits(calls, calls')
      BY <1>1, <1>2, <1>4, NoWaiting
    <2>5. QED
      BY <2>1, <2>3, <2>4, QuietSettles DEF Moves, SameLimits
  <1>5. QED
    BY <1>3, <1>4 DEF PushLocked

\* PushBuffer.
LEMMA PushBufferMoves ==
    ASSUME IInv, NEW t \in Threads, NEW id \in Ids, NEW kind \in Kinds, PushBuffer(t, id, kind)
    PROVE  Moves /\ Settles
  <1>1. /\ id \in Cached /\ id \in InState(queue, "REQUESTED")
        /\ prodHeld' = prodHeld \ {id} /\ wanted' = [wanted EXCEPT ![id] = NoRequest]
        /\ PushLocked(t, id, kind, FALSE)
    BY DEF PushBuffer, IInv
  <1>2. Owned(queue, id) /\ queue.cached[id].state = "REQUESTED"
    BY <1>1 DEF Owned, InState, OwnerStates
  <1>3. kind \in {"data", "empty", "cancel", "release"}
    BY ClientsAssumption DEF Kinds
  <1>4. QED
    BY <1>1, <1>2, <1>3, PushLockedMoves, Zenon

\* The second section of AttachBuffer with a filled buffer.
LEMMA PushAttachedMoves ==
    ASSUME IInv, NEW t \in Threads, PushAttached(t)
    PROVE  Moves /\ Settles
  <1>1. /\ calls[t].pc = "attached" /\ calls[t].pc \in Holding
        /\ SameHeld
    BY DEF PushAttached, Holding, heldVars, SameHeld
  <1>2. /\ calls[t].id \in Cached /\ calls[t].id \in DOMAIN queue.cached
        /\ queue.cached[calls[t].id].state = "ATTACHED"
        /\ queue.cached[calls[t].id].state \in OwnerStates
        /\ calls[t] \in Frames /\ QueueOk(queue)
    BY <1>1, HeldBuffer
  <1>3. PushLocked(t, calls[t].id, calls[t].kind, TRUE)
    BY <1>2 DEF PushAttached, Pushable
  <1>4. Owned(queue, calls[t].id) /\ calls[t].id \in Ids
        /\ calls[t].kind \in {"data", "empty", "cancel", "release"}
    BY <1>2 DEF Owned, Frames, QueueOk, QueueType
  <1>5. QED
    BY <1>1, <1>2, <1>3, <1>4, PushLockedMoves, Zenon

\* A buffer that becomes free, with a wake-up of those who wait.
LEMMA FreeMoves ==
    ASSUME NEW id \in Ids, Freed(queue, queue', id), queue.cached[id].state # "REQUESTED",
           SameHeld, SameLimits(queue, queue'),
           NoneWaits(calls, calls'), \A u \in Threads : calls'[u].pc # "wait"
    PROVE  Moves /\ Settles
  <1>1. FreeStep
    BY DEF FreeStep
  <1>2. QED
    BY <1>1, QuietSettles DEF Moves, SameLimits

\* Inserting a buffer into the free list keeps the queue's limits.
LEMMA ReleaseLimits ==
    ASSUME NEW q, QueueOk(q), NEW id, Owned(q, id)
    PROVE  /\ SameLimits(q, InsertFreeBufferInOrder(SetState(q, id, "RELEASED"), id))
           /\ SameLimits(q, SetState(InsertFreeBufferInOrder(q, id), id, "RELEASED"))
  <1> DEFINE x == SetState(q, id, "RELEASED")
             y == InsertFreeBufferInOrder(q, id)
  <1>1. /\ ToSet(q.free) \subseteq DOMAIN q.cached
        /\ QueueType(q) /\ id \in DOMAIN q.cached /\ "RELEASED" \in States
    BY ListedStates DEF QueueOk, Owned, States
  <1>2. QueueType(x) /\ SameLists(q, x) /\ SameLimits(q, x) /\ DOMAIN x.cached = DOMAIN q.cached
    BY <1>1, SetStateLemma
  <1>3. QueueType(y) /\ SameLimits(q, y) /\ y.cached = q.cached
    BY <1>1, InsertFreeLemma
  <1> HIDE DEF x, y
  <1>4. SameLimits(x, InsertFreeBufferInOrder(x, id))
    BY <1>1, <1>2, InsertFreeLemma DEF SameLists
  <1>5. SameLimits(y, SetState(y, id, "RELEASED"))
    BY <1>1, <1>3, SetStateLemma
  <1>6. QED
    BY <1>2, <1>3, <1>4, <1>5 DEF SameLimits, x, y

\* ReturnBuffer, in each of its outcomes.
LEMMA ReturnBufferMoves ==
    ASSUME IInv, NEW t \in Threads, ReturnBuffer(t)
    PROVE  Moves /\ Settles
  <1> DEFINE id == calls[t].id
             kind == calls[t].kind
             deleting == id \in Cached /\ queue.cached[id].isDeleting
             pushed == Returnable(id) /\ ~deleting
             f == [calls[t] EXCEPT !.pc = "notify"]
             g == IF calls[t].attach THEN [calls[t] EXCEPT !.pc = "detach"] ELSE Idle
  <1>1. calls[t].pc = "return" /\ calls[t].pc \in Holding /\ SameHeld
    BY DEF ReturnBuffer, Holding, heldVars, SameHeld
  <1>2. /\ calls[t] \in Frames /\ calls \in [Threads -> Frames]
        /\ id \in DOMAIN queue.cached /\ id \in Cached /\ queue.cached[id].state = "PUSHED"
        /\ queue.cached[id].state \in OwnerStates
        /\ QueueOk(queue)
    BY <1>1, HeldBuffer
  <1>3. Owned(queue, id) /\ id \in Ids /\ id \notin prodHeld
    BY <1>2 DEF Owned, QueueOk, QueueType, IInv, InState
  <1>4. f \in Frames /\ f.pc \notin Waiting /\ g \in Frames /\ g.pc \notin Waiting
    BY <1>2 DEF Frames, Idle, Waiting, NoRequest
  <1>5. CASE deleting /\ queue' = DeleteCachedBuffers(queue, {id}) /\ calls' = [calls EXCEPT ![t] = Idle]
    <2>1. NoneWaits(calls, calls')
      BY <1>2, <1>5, NoWaiting
    <2>2. prodHeld' = prodHeld \ {id} /\ wanted' = wanted
      BY <1>1, <1>3 DEF SameHeld
    <2>3. QED
      BY <1>3, <1>5, <2>1, <2>2, RemoveMoves
  <1>6. CASE /\ queue' = SetState(InsertFreeBufferInOrder(queue, id), id, "RELEASED")
             /\ calls' = [NotifyAll(calls) EXCEPT ![t] = Idle]
    <2>1. Freed(queue, queue', id) /\ SameLimits(queue, queue')
      BY <1>2, <1>3, <1>6, ReleaseFrees, ReleaseLimits
    <2>2. /\ NotifyAll(calls) \in [Threads -> Frames] /\ NoneWaits(calls, NotifyAll(calls))
          /\ \A u \in Threads : NotifyAll(calls)[u].pc # "wait"
      BY <1>2, NoWaiting
    <2>3. NoneWaits(NotifyAll(calls), calls')
      BY <1>6, <2>2, NoWaiting
    <2>4. NoneWaits(calls, calls')
      BY <2>2, <2>3, NoWaitingTwice
    <2>5. \A u \in Threads : calls'[u].pc # "wait"
      BY <1>6, <2>2 DEF Idle
    <2>6. QED
      BY <1>1, <1>2, <1>3, <2>1, <2>4, <2>5, FreeMoves
  <1>7. CASE /\ queue' = [SetState(queue, id, "RETURNED") EXCEPT !.dirty = Append(@, id)]
             /\ calls' = [calls EXCEPT ![t].pc = "notify"]
    <2>1. Filled(queue, queue', id)
      BY <1>2, <1>3, <1>7, ReturnFills
    <2>2. SameLimits(queue, queue')
      BY <1>2, <1>7 DEF QueueOk, QueueType, SetState, SameLimits
    <2>3. calls'[t].pc = "notify"
      BY <1>2, <1>7 DEF Frames
    <2>4. FillStep
      BY <1>1, <1>2, <1>3, <2>1, <2>3 DEF FillStep
    <2>5. calls' = [calls EXCEPT ![t] = f]
      BY <1>7
    <2> HIDE DEF f
    <2>6. NoneWaits(calls, calls')
      BY <1>2, <1>4, <2>5, NoWaiting
    <2>7. QED
      BY <2>2, <2>4, <2>6, QuietSettles DEF Moves, SameLimits
  <1>8. CASE UNCHANGED queue /\ Fail(t)
    <2>1. calls' = [calls EXCEPT ![t] = g]
      BY <1>8 DEF Fail
    <2> HIDE DEF g
    <2>2. NoneWaits(calls, calls')
      BY <1>2, <1>4, <2>1, NoWaiting
    <2>3. QED
      BY <1>1, <1>8, <2>2, StillStepMoves DEF SameHeld
  <1>9. QED
    BY <1>5, <1>6, <1>7, <1>8 DEF ReturnBuffer

\* The forced detach after a failed push.
LEMMA ForceDetachMoves ==
    ASSUME IInv, NEW t \in Threads, ForceDetach(t)
    PROVE  Moves /\ Settles
  <1>1. /\ calls[t].pc = "detach" /\ calls[t].pc \in Holding
        /\ queue' = DeleteCachedBuffers(queue, {calls[t].id})
        /\ calls' = [calls EXCEPT ![t] = Idle]
        /\ UNCHANGED <<prodHeld, wanted>>
    BY DEF ForceDetach, Holding, heldVars
  <1>2. /\ calls[t] \in Frames /\ calls \in [Threads -> Frames] /\ QueueOk(queue)
        /\ calls[t].id \in DOMAIN queue.cached /\ queue.cached[calls[t].id].state = "PUSHED"
    BY <1>1, HeldBuffer
  <1>3. "empty" \in Fillings
    BY <1>1 DEF IInv, CallsOk, FrameOk
  <1>4. NoneWaits(calls, calls')
    BY <1>1, <1>2, NoWaiting
  <1>5. Owned(queue, calls[t].id) /\ calls[t].id \in Ids /\ calls[t].id \notin prodHeld
    BY <1>2 DEF Owned, OwnerStates, QueueOk, QueueType, IInv, InState
  <1>6. prodHeld' = prodHeld \ {calls[t].id} /\ wanted' = wanted
    BY <1>1, <1>5
  <1>7. QED
    BY <1>1, <1>3, <1>4, <1>5, <1>6, RemoveMoves

\* The locked section of ReleaseBuffer.
LEMMA ReleaseLockedMoves ==
    ASSUME IInv, NEW id \in Ids, Owned(queue, id), queue.cached[id].state # "REQUESTED", SameHeld,
           NEW c \in [Threads -> Frames], NoneWaits(calls, c), ReleaseLocked(id, c)
    PROVE  Moves /\ Settles
  <1> DEFINE q == SetState(queue, id, "RELEASED")
  <1>1. /\ QueueOk(queue) /\ id \notin prodHeld
    BY DEF IInv, InState
  <1>2. CASE queue.cached[id].isDeleting /\ queue' = DeleteCachedBuffers(q, {id}) /\ calls' = c
    <2>1. /\ QueueType(q) /\ SameLists(queue, q) /\ SameLimits(queue, q)
          /\ DOMAIN q.cached = DOMAIN queue.cached
          /\ \A i \in DOMAIN queue.cached \ {id} : q.cached[i] = queue.cached[i]
      <3>1. id \in DOMAIN queue.cached /\ "RELEASED" \in States /\ QueueType(queue)
        BY <1>1 DEF Owned, States, QueueOk
      <3>2. QED
        BY <3>1, SetStateLemma
    <2> HIDE DEF q
    <2>2. /\ SameLists(q, queue') /\ SameLimits(q, queue')
          /\ DOMAIN queue'.cached = DOMAIN q.cached \ {id}
          /\ \A i \in DOMAIN queue'.cached : queue'.cached[i] = q.cached[i]
      BY <1>2, <2>1, DeleteLemma
    <2>3. Removed(queue, queue', id) /\ SameLimits(queue, queue')
      BY <2>1, <2>2 DEF Removed, SameLists, SameLimits
    <2>4. prodHeld' = prodHeld \ {id} /\ wanted' = wanted
      BY <1>1 DEF SameHeld
    <2>5. RemoveStep
      BY <1>2, <2>3, <2>4 DEF RemoveStep
    <2>6. QED
      BY <1>2, <2>3, <2>5, QuietSettles DEF Moves, SameLimits
  <1>3. CASE queue' = InsertFreeBufferInOrder(q, id) /\ calls' = NotifyAll(c)
    <2>1. Freed(queue, queue', id) /\ SameLimits(queue, queue')
      BY <1>1, <1>3, ReleaseFrees, ReleaseLimits
    <2>2. NoneWaits(c, calls') /\ \A u \in Threads : calls'[u].pc # "wait"
      BY <1>3, WakingWaits
    <2>3. NoneWaits(calls, calls')
      BY <2>2, NoWaitingTwice
    <2>4. QED
      BY <2>1, <2>2, <2>3, FreeMoves
  <1>4. QED
    BY <1>2, <1>3 DEF ReleaseLocked

\* ReleaseBuffer by AttachBuffer.
LEMMA ReleaseAttachedMoves ==
    ASSUME IInv, NEW t \in Threads, ReleaseAttached(t)
    PROVE  Moves /\ Settles
  <1> DEFINE done == [calls EXCEPT ![t] = Idle]
  <1>1. calls \in [Threads -> Frames] /\ QueueOk(queue)
    BY DEF IInv, TypeOK
  <1>2. calls[t].pc = "attached" /\ calls[t].pc \in Holding /\ SameHeld
    BY DEF ReleaseAttached, Holding, SameHeld, heldVars
  <1>3. /\ calls[t].id \in Cached /\ calls[t].id \in DOMAIN queue.cached
        /\ queue.cached[calls[t].id].state = "ATTACHED"
    BY <1>2, HeldBuffer
  <1>4. Owned(queue, calls[t].id) /\ calls[t].id \in Ids /\ Releasable(calls[t].id)
    BY <1>1, <1>3 DEF Owned, OwnerStates, QueueOk, QueueType, Releasable
  <1>5. done \in [Threads -> Frames] /\ NoneWaits(calls, done)
    BY <1>1, NoWaiting
  <1>6. ReleaseLocked(calls[t].id, done)
    BY <1>4 DEF ReleaseAttached
  <1> HIDE DEF done
  <1>7. QED
    BY <1>2, <1>3, <1>4, <1>5, <1>6, ReleaseLockedMoves

\* ReleaseBuffer by the consumer.
LEMMA ReleaseBufferMoves ==
    ASSUME IInv, NEW id \in Ids, ReleaseBuffer(id)
    PROVE  Moves /\ Settles
  <1>1. calls \in [Threads -> Frames] /\ NoneWaits(calls, calls)
    BY DEF IInv, TypeOK, NoneWaits
  <1>2. id \in InState(queue, "ACQUIRED") /\ ReleaseLocked(id, calls) /\ SameHeld
    BY DEF ReleaseBuffer, IInv, SameHeld
  <1>3. Owned(queue, id) /\ queue.cached[id].state # "REQUESTED"
    BY <1>2 DEF InState, Owned, OwnerStates
  <1>4. QED
    BY <1>1, <1>2, <1>3, ReleaseLockedMoves

\* DetachBuffer by a holder.
LEMMA DetachMoves ==
    ASSUME IInv, NEW id \in Ids, DetachBuffer(id)
    PROVE  Moves /\ Settles
  <1>1. /\ "detach" \in Ops /\ id \in Cached
        /\ queue.cached[id].state \in {"REQUESTED", "ACQUIRED"}
        /\ queue' = DeleteCachedBuffers(queue, {id})
        /\ prodHeld' = prodHeld \ {id}
        /\ wanted' = [wanted EXCEPT ![id] = NoRequest] /\ calls' = calls
    BY DEF DetachBuffer
  <1>2. Owned(queue, id)
    BY <1>1 DEF Owned, OwnerStates, Cached
  <1>3. NoneWaits(calls, calls')
    BY <1>1 DEF NoneWaits
  <1>4. QED
    BY <1>1, <1>2, <1>3, RemoveMoves

\* AcquireBuffer by the consumer.
LEMMA AcquireMoves ==
    ASSUME IInv, AcquireBuffer
    PROVE  Moves /\ Settles
  <1>1. QueueOk(queue)
    BY DEF IInv
  <1>2. /\ queue.dirty # <<>> /\ SameHeld /\ calls' = calls
        /\ queue' = [SetState(queue, Head(queue.dirty), "ACQUIRED") EXCEPT !.dirty = Tail(@)]
    BY DEF AcquireBuffer, SameHeld
  <1>3. Taken(queue, queue')
    BY <1>1, <1>2, AcquireTakes
  <1>4. SameLimits(queue, queue')
    BY <1>1, <1>2 DEF QueueOk, QueueType, SetState, SameLimits
  <1>5. NoneWaits(calls, calls')
    BY <1>2 DEF NoneWaits
  <1>6. QED
    BY <1>2, <1>3, <1>4, <1>5, QuietSettles DEF Moves, TakeStep, SameLimits

\* Nothing is trimmed.
LEMMA TrimNothing ==
    ASSUME NEW q, QueueType(q), NEW r, Still(q, r)
    PROVE  Trimmed(q, r, 0, 0)
  <1>1. ASSUME NEW s \in Seq(Ids)
        PROVE  /\ SubSeq(s, 0 + 1, Len(s)) = s /\ 0 \in 0 .. Len(s)
               /\ ToSet(SubSeq(s, 1, 0)) = {}
    <2>1. SubSeq(s, 1, 0) = <<>> /\ SubSeq(s, 0 + 1, Len(s)) = s /\ 0 \in 0 .. Len(s)
      BY <1>1
    <2>2. ToSet(SubSeq(s, 1, 0)) = {}
      <3>1. DOMAIN << >> = {}
        OBVIOUS
      <3>2. QED
        BY <2>1, <3>1, Zenon DEF ToSet
    <2>3. QED
      BY <2>1, <2>2
  <1>2. q.free \in Seq(Ids) /\ q.dirty \in Seq(Ids)
    BY DEF QueueType
  <1>3. /\ SubSeq(q.free, 0 + 1, Len(q.free)) = q.free /\ 0 \in 0 .. Len(q.free)
        /\ ToSet(SubSeq(q.free, 1, 0)) = {}
        /\ SubSeq(q.dirty, 0 + 1, Len(q.dirty)) = q.dirty /\ 0 \in 0 .. Len(q.dirty)
        /\ ToSet(SubSeq(q.dirty, 1, 0)) = {}
    BY <1>1, <1>2
  <1>4. DOMAIN r.cached = DOMAIN q.cached \ (ToSet(SubSeq(q.free, 1, 0)) \cup ToSet(SubSeq(q.dirty, 1, 0)))
    BY <1>3 DEF Still
  <1>5. QED
    BY <1>3, <1>4, Zenon DEF Trimmed, Still, SameLists

\* SetQueueSize trims, and sets the size.
LEMMA ResizeTrims ==
    ASSUME NEW q, QueueOk(q), NEW n \in Nat
    PROVE  /\ \E f, d \in Nat : Trimmed(q, Resize(q, n), f, d)
           /\ Resize(q, n).size = n /\ Resize(q, n).memoryType = q.memoryType
  <1>1. q.size \in Nat /\ QueueType(q)
    BY DEF QueueOk, QueueType
  <1>2. ASSUME NEW x, QueueType(x)
        PROVE  LET r == [x EXCEPT !.size = n]
               IN  Still(x, r) /\ r.size = n /\ r.memoryType = x.memoryType
    BY <1>2 DEF QueueType, Still, SameLists
  <1>3. CASE n > q.size
    <2>1. Still(q, Resize(q, n)) /\ Resize(q, n).size = n /\ Resize(q, n).memoryType = q.memoryType
      BY <1>1, <1>2, <1>3 DEF Resize
    <2>2. Trimmed(q, Resize(q, n), 0, 0)
      BY <1>1, <2>1, TrimNothing
    <2>3. QED
      BY <2>1, <2>2
  <1>4. CASE ~(n > q.size)
    <2> DEFINE x == DeleteBuffers(q, q.size - n)
    <2>1. q.size - n \in Nat
      BY <1>1, <1>4
    <2>2. QueueOk(x) /\ SameLimits(q, x)
      BY <2>1, DeleteBuffersOk
    <2>3. \E f \in 0 .. Len(q.free), d \in 0 .. Len(q.dirty) : Trimmed(q, x, f, d)
      BY <2>1, DeleteTrims
    <2>4. Resize(q, n) = [x EXCEPT !.size = n]
      BY <1>4 DEF Resize
    <2> HIDE DEF x
    <2>5. Still(x, Resize(q, n)) /\ Resize(q, n).size = n /\ Resize(q, n).memoryType = q.memoryType
      BY <1>2, <2>2, <2>4 DEF QueueOk, SameLimits
    <2>6. PICK f \in 0 .. Len(q.free), d \in 0 .. Len(q.dirty) : Trimmed(q, x, f, d)
      BY <2>3
    <2>7. f \in Nat /\ d \in Nat
      OBVIOUS
    <2>8. Trimmed(q, Resize(q, n), f, d)
      BY <2>5, <2>6 DEF Trimmed, Still, SameLists
    <2>9. QED
      BY <2>5, <2>7, <2>8
  <1>5. QED
    BY <1>3, <1>4

\* From q to r, room is made by trimming q to x, and buffer id is added.
RoomMade(q, r, id, x, f, d, e) ==
    /\ QueueOk(x) /\ Trimmed(q, x, f, d)
    /\ Added(x, r, id, e)
    /\ e.state = "ATTACHED" /\ e.mem = r.memoryType /\ e.isDeleting = FALSE
    /\ Count(r) <= r.size
    /\ Count(q) >= q.size => Count(r) = q.size
    /\ \A i \in DOMAIN x.cached : x.cached[i].isDeleting = q.cached[i].isDeleting

\* AttachAvailableBufferLocked makes exactly the room the new buffer needs.
LEMMA AttachTrims ==
    ASSUME NEW q, QueueOk(q), NEW id \in Ids \ DOMAIN q.cached, NEW buf \in Attachments,
           buf.mem = q.memoryType, Room(q),
           NEW r, r = AttachAvailableBufferLocked(q, id, buf)
    PROVE  /\ SameLimits(q, r)
           /\ \E x : \E f, d \in Nat, e \in Elements : RoomMade(q, r, id, x, f, d, e)
  <1> DEFINE n == Count(q) - q.size + 1
             x == IF Count(q) < q.size THEN q ELSE DeleteBuffers(q, n)
             e == [cap |-> buf.size, mem |-> buf.mem, form |-> buf.form, state |-> "ATTACHED", isDeleting |-> FALSE]
  <1>1. Count(q) \in Nat /\ q.size \in Nat /\ QueueType(q)
        /\ Len(q.free) \in Nat /\ Len(q.dirty) \in Nat
    BY CountType, ToSetElements DEF QueueOk, QueueType, Count
  <1>2. e \in Elements /\ e.mem = q.memoryType /\ e.state = "ATTACHED" /\ e.isDeleting = FALSE
    BY SizesAssumption DEF Attachments, Elements, States
  <1>3. r = AddCached(x, id, e)
    BY DEF AttachAvailableBufferLocked, Count
  <1> HIDE DEF e
  <1>4. \E f, d \in Nat :
           /\ QueueOk(x) /\ Trimmed(q, x, f, d) /\ SameLimits(q, x) /\ DOMAIN x.cached \subseteq DOMAIN q.cached
           /\ \A i \in DOMAIN x.cached : x.cached[i].isDeleting = q.cached[i].isDeleting
           /\ Count(q) < q.size => f + d = 0
           /\ Count(q) >= q.size => f + d = n
    <2>1. CASE Count(q) < q.size
      <3>1. x = q
        BY <2>1
      <3>2. Trimmed(q, x, 0, 0)
        BY <1>1, <3>1, TrimNothing DEF Still, SameLists
      <3> HIDE DEF x
      <3>3. QED
        BY <1>1, <2>1, <3>1, <3>2 DEF SameLimits
    <2>2. CASE ~(Count(q) < q.size)
      <3>1. n \in Nat /\ x = DeleteBuffers(q, n)
        BY <1>1, <2>2
      <3>2. n <= Len(q.free) + Len(q.dirty)
        <4>1. Len(q.dirty) + Len(q.free) > Count(q) - q.size
          BY <2>2 DEF Room, Count
        <4>2. \A a, b, c, z \in Nat : a + b > c - z => c - z + 1 <= b + a
          OBVIOUS
        <4>3. QED
          BY <1>1, <4>1, <4>2
      <3> HIDE DEF n, x
      <3>3. QueueOk(x) /\ SameLimits(q, x) /\ DOMAIN x.cached \subseteq DOMAIN q.cached
        BY <3>1, DeleteBuffersOk
      <3>4. PICK f \in 0 .. Len(q.free), d \in 0 .. Len(q.dirty) :
                  /\ Trimmed(q, x, f, d)
                  /\ f + d <= n
                  /\ n <= Len(q.free) + Len(q.dirty) =>
                        /\ f + d = n
                        /\ f < Len(q.free) => d = 0
                        /\ \A i \in DOMAIN x.cached : x.cached[i].isDeleting = q.cached[i].isDeleting
        BY <3>1, DeleteTrims
      <3>5. f \in Nat /\ d \in Nat
        OBVIOUS
      <3>6. QED
        BY <2>2, <3>2, <3>3, <3>4, <3>5
    <2>3. QED
      BY <2>1, <2>2
  <1> HIDE DEF x
  <1>5. PICK f, d \in Nat :
           /\ QueueOk(x) /\ Trimmed(q, x, f, d) /\ SameLimits(q, x) /\ DOMAIN x.cached \subseteq DOMAIN q.cached
           /\ \A i \in DOMAIN x.cached : x.cached[i].isDeleting = q.cached[i].isDeleting
           /\ Count(q) < q.size => f + d = 0
           /\ Count(q) >= q.size => f + d = n
    BY <1>4
  <1>6. Added(x, r, id, e) /\ SameLimits(x, r)
    <2>1. id \in Ids \ DOMAIN x.cached /\ QueueType(x)
      BY <1>5 DEF QueueOk
    <2>2. QED
      BY <1>2, <1>3, <2>1, AddAdds
  <1>7. Count(x) = Count(q) - (f + d) /\ Count(r) = Count(x) + 1
    <2>1. GetCachedBufferCount(x) = GetCachedBufferCount(q) - (f + d)
      BY <1>5, TrimCounts
    <2>2. GetCachedBufferCount(r) = GetCachedBufferCount(x) + 1
      BY <1>5, <1>6, MoveCounts
    <2>3. QED
      BY <2>1, <2>2 DEF Count
  <1>8. SameLimits(q, r)
    BY <1>5, <1>6 DEF SameLimits
  <1>9. Count(r) <= r.size /\ (Count(q) >= q.size => Count(r) = q.size)
    BY <1>1, <1>5, <1>7, <1>8 DEF SameLimits
  <1>10. e.mem = r.memoryType
    BY <1>2, <1>8 DEF SameLimits
  <1>11. QED
    <2>1. RoomMade(q, r, id, x, f, d, e)
      BY <1>2, <1>5, <1>6, <1>9, <1>10 DEF RoomMade
    <2>2. QED
      BY <1>2, <1>8, <2>1

\* The locked part of AttachBuffer.
LEMMA AttachMoves ==
    ASSUME IInv, NEW t \in Threads, NEW id \in Ids, NEW buf \in Attachments, NEW kind,
           kind \in {"data", "empty", "cancel", "release"},
           NEW q, QueueOk(q), NEW f \in Nat, NEW d \in Nat, Trimmed(queue, q, f, d),
           q.memoryType = queue.memoryType,
           q = queue \/ "resize" \in Ops,
           NEW c \in [Threads -> Frames], NoneWaits(calls, c),
           Attach(t, q, c, id, buf, kind)
    PROVE  Moves /\ Settles
  <1> DEFINE r == CheckConfig(q, buf.mem)
             frame == [Idle EXCEPT !.pc = "attached", !.id = id, !.kind = kind, !.attach = TRUE]
  <1>1. /\ id \notin Cached /\ SameHeld /\ ConfigOk(q, buf.mem)
        /\ \/ Room(r) /\ queue' = AttachAvailableBufferLocked(r, id, buf) /\ calls' = [c EXCEPT ![t] = frame]
           \/ queue' = r /\ calls' = c
    BY DEF Attach, SameHeld, heldVars
  <1>2. QueueOk(r) /\ Still(q, r) /\ r.size = q.size
    BY CheckConfigOk DEF Attachments, Still
  <1>3. r.memoryType = buf.mem
    BY DEF CheckConfig, QueueOk, QueueType
  <1>4. frame \in Frames /\ frame.pc \notin Waiting
    BY DEF Frames, Idle, Waiting, NoRequest
  <1> HIDE DEF r, frame
  <1>5. r.memoryType = queue.memoryType \/ queue.memoryType = UNKNOWN_MEMORY
    BY <1>1, <1>3 DEF ConfigOk
  <1>6. Trimmed(queue, r, f, d)
    BY <1>2 DEF Trimmed, Still, SameLists
  <1>7. "resize" \notin Ops => r.size = queue.size
    BY <1>2
  <1>8. CASE queue' = r /\ calls' = c
    <2>1. StillStep \/ TrimStep
      BY <1>1, <1>2, <1>6, <1>8 DEF StillStep, TrimStep
    <2>2. QED
      BY <1>5, <1>7, <1>8, <2>1, QuietSettles DEF Moves
  <1>9. CASE Room(r) /\ queue' = AttachAvailableBufferLocked(r, id, buf) /\ calls' = [c EXCEPT ![t] = frame]
    <2>1. id \in Ids \ DOMAIN r.cached
      BY <1>1, <1>6 DEF Trimmed, Cached
    <2>2. /\ SameLimits(r, queue')
          /\ \E x : \E g, h \in Nat, e \in Elements : RoomMade(r, queue', id, x, g, h, e)
      BY <1>2, <1>3, <1>9, <2>1, AttachTrims
    <2>3. PICK x : \E g, h \in Nat, e \in Elements : RoomMade(r, queue', id, x, g, h, e)
      BY <2>2
    <2>4. PICK g, h \in Nat, e \in Elements : RoomMade(r, queue', id, x, g, h, e)
      BY <2>3
    <2>5. Trimmed(queue, x, f + g, d + h) /\ f + g \in Nat /\ d + h \in Nat
      BY <1>2, <1>6, <2>4, TrimTwice DEF IInv, RoomMade
    <2>6. "resize" \notin Ops =>
             /\ Count(queue) >= queue.size => Count(queue') = queue.size
             /\ \A i \in DOMAIN x.cached : x.cached[i].isDeleting = queue.cached[i].isDeleting
      <3> SUFFICES ASSUME "resize" \notin Ops
                   PROVE  /\ Count(queue) >= queue.size => Count(queue') = queue.size
                          /\ \A i \in DOMAIN x.cached : x.cached[i].isDeleting = queue.cached[i].isDeleting
        OBVIOUS
      <3>1. q = queue
        OBVIOUS
      <3>2. r.size = queue.size /\ r.cached = queue.cached /\ Count(r) = Count(queue)
        BY <1>2, <3>1 DEF Still, Count, GetCachedBufferCount
      <3>3. QED
        BY <2>4, <3>2 DEF RoomMade
    <2>7. Adopted(x, f + g, d + h, id, e)
      BY <1>1, <2>4, <2>5, <2>6 DEF Adopted, NewBuffer, RoomMade, Cached
    <2>8. AdoptStep
      BY <1>1, <2>4, <2>5, <2>7 DEF AdoptStep
    <2>9. NoneWaits(calls, calls')
      BY <1>4, <1>9, NoWaiting, NoWaitingTwice
    <2>10. QED
      BY <1>5, <1>7, <2>2, <2>8, <2>9, QuietSettles DEF Moves, SameLimits
  <1>10. QED
    BY <1>1, <1>8, <1>9

\* SetQueueSize, and SetQueueSizeBeforeAttachBufferLocked in front of AttachBuffer.
LEMMA ResizeMoves ==
    ASSUME IInv, NEW n \in Nat
    PROVE  /\ NotifyGrown(n) \in [Threads -> Frames] /\ NoneWaits(calls, NotifyGrown(n))
           /\ SetQueueSize(n) => Moves /\ Settles
  <1>1. calls \in [Threads -> Frames] /\ QueueOk(queue)
    BY DEF IInv, TypeOK
  <1>2. NotifyAll(calls) \in [Threads -> Frames] /\ NoneWaits(calls, NotifyAll(calls))
    BY <1>1, WakingWaits DEF NotifyAll, Frames
  <1>3. NotifyGrown(n) \in [Threads -> Frames] /\ NoneWaits(calls, NotifyGrown(n))
    BY <1>1, <1>2 DEF NotifyGrown, NoneWaits
  <1>4. ASSUME SetQueueSize(n) PROVE Moves /\ Settles
    <2>1. "resize" \in Ops /\ queue' = Resize(queue, n) /\ calls' = NotifyGrown(n) /\ SameHeld
      BY <1>4 DEF SetQueueSize, SameHeld, heldVars
    <2>2. /\ \E f, d \in Nat : Trimmed(queue, Resize(queue, n), f, d)
          /\ Resize(queue, n).memoryType = queue.memoryType
      BY <1>1, ResizeTrims
    <2>3. TrimStep
      BY <2>1, <2>2 DEF TrimStep
    <2>4. Settles
      BY <1>3, <2>1, <2>2, QuietSettles
    <2>5. QED
      BY <2>3, <2>4 DEF Moves
  <1>5. QED
    BY <1>3, <1>4

\* AttachBuffer, alone and after a change of the size.
LEMMA AttachBufferMoves ==
    ASSUME IInv, NEW t \in Threads, NEW id \in Ids, NEW buf \in Attachments,
           NEW kind \in Fillings \cup {"release"},
           \/ AttachBuffer(t, id, buf, kind)
           \/ \E n \in 0 .. MAX_QUEUE_SIZE : SetQueueSizeAndAttachBuffer(t, n, id, buf, kind)
    PROVE  Moves /\ Settles
  <1>1. calls \in [Threads -> Frames] /\ NoneWaits(calls, calls) /\ QueueOk(queue)
        /\ kind \in {"data", "empty", "cancel", "release"}
    BY ClientsAssumption DEF IInv, TypeOK, NoneWaits
  <1>2. CASE AttachBuffer(t, id, buf, kind)
    <2>1. Trimmed(queue, queue, 0, 0)
      BY <1>1, TrimNothing DEF Still, SameLists, QueueOk
    <2>2. Attach(t, queue, calls, id, buf, kind)
      BY <1>2 DEF AttachBuffer
    <2>3. QED
      BY <1>1, <2>1, <2>2, AttachMoves
  <1>3. CASE \E n \in 0 .. MAX_QUEUE_SIZE : SetQueueSizeAndAttachBuffer(t, n, id, buf, kind)
    <2>1. PICK n \in 0 .. MAX_QUEUE_SIZE : SetQueueSizeAndAttachBuffer(t, n, id, buf, kind)
      BY <1>3
    <2> DEFINE q == Resize(queue, n)
               c == NotifyGrown(n)
    <2>2. n \in Nat /\ "resize" \in Ops /\ Attach(t, q, c, id, buf, kind)
      BY <2>1, QueueSizeAssumption DEF SetQueueSizeAndAttachBuffer
    <2>3. c \in [Threads -> Frames] /\ NoneWaits(calls, c)
      BY <2>2, ResizeMoves
    <2>4. QueueOk(q)
      BY <1>1, <2>2, ResizeOk
    <2>5. (\E f, d \in Nat : Trimmed(queue, q, f, d)) /\ q.memoryType = queue.memoryType
      BY <1>1, <2>2, ResizeTrims
    <2> HIDE DEF q, c
    <2>6. PICK f, d \in Nat : Trimmed(queue, q, f, d)
      BY <2>5
    <2>7. QED
      BY <1>1, <2>2, <2>3, <2>4, <2>5, <2>6, AttachMoves
  <1>4. QED
    BY <1>2, <1>3

\* Every step of a calm client is one of the moves.
LEMMA NextMoves ==
    ASSUME CalmClients, IInv, WaitersTyped, [Next]_vars
    PROVE  Moves /\ Settles
  <1>1. CASE OtherStep
    <2>1. CASE \E id \in Ids : DetachBuffer(id) \/ ReleaseBuffer(id)
      BY <2>1, DetachMoves, ReleaseBufferMoves
    <2>2. CASE AcquireBuffer
      BY <2>2, AcquireMoves
    <2>3. CASE \E n \in 0 .. MAX_QUEUE_SIZE : SetQueueSize(n)
      BY <2>3, QueueSizeAssumption, ResizeMoves
    <2>4. CASE Clear \/ \E S \in SUBSET Ids : ClearBufferIf(S)
      BY <2>4 DEF Clear, ClearBufferIf, CalmClients
    <2>5. CASE AcquireNothing \/ \E b \in Brokers : SetBrokerListener(b) \/ RemoveBrokerListener(b)
      BY <2>5, OtherQuietMoves
    <2>6. CASE SetConsumerListener
      BY <2>6 DEF SetConsumerListener, IInv
    <2>7. QED
      BY <1>1, <2>1, <2>2, <2>3, <2>4, <2>5, <2>6 DEF OtherStep
  <1>2. ASSUME NEW t \in Threads, ThreadStep(t) PROVE Moves /\ Settles
    <2>1. CASE \E config \in Requests : RequestBuffer(t, config)
      BY <2>1, RequestBufferMoves
    <2>2. CASE RetryRequest(t)
      BY <2>2, RetryRequestMoves
    <2>3. CASE \E id \in Ids, kind \in Kinds : PushBuffer(t, id, kind)
      BY <2>3, PushBufferMoves
    <2>4. CASE \/ SpuriousWakeup(t) \/ OfferToBroker(t) \/ NotifyConsumer(t)
               \/ \E id \in Ids, kind \in Kinds : BrokerReturn(t, id, kind)
      BY <2>4, QuietMoves
    <2>5. CASE ReturnBuffer(t)
      BY <2>5, ReturnBufferMoves
    <2>6. CASE \E id \in Ids, buf \in Attachments, kind \in Fillings \cup {"release"} :
                  \/ AttachBuffer(t, id, buf, kind)
                  \/ \E n \in 0 .. MAX_QUEUE_SIZE : SetQueueSizeAndAttachBuffer(t, n, id, buf, kind)
      <3>1. PICK id \in Ids, buf \in Attachments, kind \in Fillings \cup {"release"} :
                  \/ AttachBuffer(t, id, buf, kind)
                  \/ \E n \in 0 .. MAX_QUEUE_SIZE : SetQueueSizeAndAttachBuffer(t, n, id, buf, kind)
        BY <2>6
      <3>2. QED
        BY <3>1, AttachBufferMoves
    <2>7. CASE PushAttached(t)
      BY <2>7, PushAttachedMoves
    <2>8. CASE ReleaseAttached(t)
      BY <2>8, ReleaseAttachedMoves
    <2>9. CASE ForceDetach(t)
      BY <2>9, ForceDetachMoves
    <2>10. QED
      BY <1>2, <2>1, <2>2, <2>3, <2>4, <2>5, <2>6, <2>7, <2>8, <2>9 DEF ThreadStep
  <1>3. CASE UNCHANGED vars
    BY <1>3, OtherQuietMoves
  <1>4. QED
    BY <1>1, <1>2, <1>3 DEF Next
=============================================================================
