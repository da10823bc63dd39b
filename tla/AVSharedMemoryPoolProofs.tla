---------------------- MODULE AVSharedMemoryPoolProofs ----------------------
(***************************************************************************)
(* Proofs about AVSharedMemoryPool for any callers, blocks and options.     *)
(***************************************************************************)
EXTENDS AVSharedMemoryPool, SequenceLemmas, FiniteSetTheorems

-----------------------------------------------------------------------------
(* The blocks in the hands h of the callers.                                *)
AllHeld(h) == UNION {h[c] : c \in Callers}

Apart(h) == \A c, d \in Callers : c # d => h[c] \cap h[d] = {}

(* BlocksAccounted as a predicate on idleList_, the hands and the sizes.    *)
Accounted(idle, h, sz) ==
    /\ idle \in Seq(Blocks) /\ h \in [Callers -> SUBSET Blocks] /\ sz \in [Blocks -> Nat]
    /\ IsInjective(idle)
    /\ Apart(h)
    /\ \A b \in Blocks : sz[b] # 0 <=> b \in ToSet(idle) \/ b \in AllHeld(h)
    /\ ToSet(idle) \cap AllHeld(h) = {}

CallsOk ==
    /\ inits > 0 => pool.option.size > 0
    /\ \A c \in Callers :
          frame[c].at \in {"wait", "woken"} => frame[c].size > 0 /\ pool.alive /\ inits > 0

(* Exhausted as a predicate on the pool p and the sizes.                    *)
Full(p, sz, n) ==
    /\ \A b \in ToSet(p.idle) : ~(sz[b] >= n)
    /\ Len(p.idle) + Cardinality(p.busy) >= p.option.max
    /\ p.option.fixed \/ p.idle = <<>>

(* SleepsOnlyWhenExhausted as a predicate.                                  *)
Sleepers(p, sz, fr, k) ==
    \A c \in Callers : fr[c].at = "wait" /\ fr[c].since = k => Full(p, sz, fr[c].size)

(* The inductive invariant.                                                 *)
PInv ==
    /\ TypeOK
    /\ Accounted(pool.idle, held, sizeOf)
    /\ pool.alive => pool.busy = AllHeld(held)
    /\ CallsOk
    /\ Sleepers(pool, sizeOf, frame, inits)
-----------------------------------------------------------------------------
(* Names and hands.                                                         *)

(* Names that are not in use are what Fresh gives, each once.               *)
LEMMA FreshNames ==
    ASSUME NEW n \in Nat, n <= Cardinality(Blocks \ Live)
    PROVE  /\ Fresh(n) \in Seq(Blocks \ Live)
           /\ Len(Fresh(n)) = n
           /\ IsInjective(Fresh(n))
  <1> DEFINE S == Blocks \ Live
             k == Cardinality(S)
  <1>1. IsFiniteSet(S)
    BY PoolAssumption, FS_Subset
  <1>2. k \in Nat /\ ExistsBijection(1..k, S)
    BY <1>1, FS_CardinalityType
  <1>3. PICK f \in [1..k -> S] : \A i, j \in 1..k : f[i] = f[j] => i = j
    BY <1>2 DEF ExistsBijection, Bijection, Injection, IsInjective
  <1> HIDE DEF S, k
  <1>4. \E g \in [1..k -> S] : IsInjective(g)
    BY <1>3 DEF IsInjective
  <1> DEFINE s == SetToSeq(S)
  <1>5. s \in [1..k -> S] /\ IsInjective(s)
    BY <1>4, Zenon DEF SetToSeq, k
  <1>6. s \in Seq(S) /\ Len(s) = k
    BY <1>2, <1>5
  <1>7. \A i, j \in 1..k : s[i] = s[j] => i = j
    BY <1>5 DEF IsInjective
  <1> HIDE DEF s
  <1> DEFINE r == SubSeq(s, 1, n)
  <1>8. n <= k
    BY DEF k, S
  <1>9. r \in Seq(S) /\ Len(r) = n /\ \A i \in 1..n : r[i] = s[i]
    BY <1>2, <1>6, <1>8
  <1> HIDE DEF r
  <1>10. IsInjective(r)
    BY <1>2, <1>7, <1>8, <1>9, InjectiveElements
  <1>11. r = Fresh(n)
    BY DEF r, s, S, Fresh
  <1> QED
    BY <1>9, <1>10, <1>11 DEF S

(* A caller gets a block that nobody has.                                   *)
LEMMA GetHeld ==
    ASSUME NEW h \in [Callers -> SUBSET Blocks], NEW c \in Callers, NEW b \in Blocks
    PROVE  LET g == [h EXCEPT ![c] = @ \cup {b}]
           IN  /\ g \in [Callers -> SUBSET Blocks]
               /\ AllHeld(g) = AllHeld(h) \cup {b}
               /\ Apart(h) /\ b \notin AllHeld(h) => Apart(g)
  <1> DEFINE g == [h EXCEPT ![c] = @ \cup {b}]
  <1>1. g \in [Callers -> SUBSET Blocks] /\ g[c] = h[c] \cup {b}
        /\ \A d \in Callers \ {c} : g[d] = h[d]
    OBVIOUS
  <1> HIDE DEF g
  <1>2. AllHeld(g) = AllHeld(h) \cup {b}
    BY <1>1 DEF AllHeld
  <1>3. ASSUME Apart(h), b \notin AllHeld(h) PROVE Apart(g)
    BY <1>1, <1>3 DEF Apart, AllHeld
  <1> QED
    BY <1>1, <1>2, <1>3 DEF g

(* A caller gives a block up.                                               *)
LEMMA DropHeld ==
    ASSUME NEW h \in [Callers -> SUBSET Blocks], Apart(h), NEW c \in Callers, NEW b \in h[c]
    PROVE  LET g == [h EXCEPT ![c] = @ \ {b}]
           IN  /\ g \in [Callers -> SUBSET Blocks]
               /\ AllHeld(g) = AllHeld(h) \ {b}
               /\ Apart(g)
  <1> DEFINE g == [h EXCEPT ![c] = @ \ {b}]
  <1>1. g \in [Callers -> SUBSET Blocks] /\ g[c] = h[c] \ {b}
        /\ \A d \in Callers \ {c} : g[d] = h[d]
    OBVIOUS
  <1> HIDE DEF g
  <1>2. AllHeld(g) = AllHeld(h) \ {b}
    BY <1>1 DEF Apart, AllHeld
  <1>3. Apart(g)
    BY <1>1 DEF Apart
  <1> QED
    BY <1>1, <1>2, <1>3 DEF g

(* An idle block is handed out.                                             *)
LEMMA TakeOk ==
    ASSUME NEW idle, NEW h, NEW sz, Accounted(idle, h, sz), NEW c \in Callers,
           NEW i \in 1..Len(idle)
    PROVE  /\ idle[i] \in Blocks \ AllHeld(h)
           /\ Accounted(RemoveAt(idle, i), [h EXCEPT ![c] = @ \cup {idle[i]}], sz)
  <1> DEFINE b == idle[i]
             g == [h EXCEPT ![c] = @ \cup {b}]
             r == RemoveAt(idle, i)
  <1>1. b \in ToSet(idle) /\ b \in Blocks /\ b \notin AllHeld(h)
    BY ToSetElements DEF Accounted
  <1>2. r \in Seq(Blocks) /\ IsInjective(r) /\ ToSet(r) = ToSet(idle) \ {b}
    BY RemoveAtProperties DEF Accounted
  <1> HIDE DEF r, b
  <1>3. g \in [Callers -> SUBSET Blocks] /\ AllHeld(g) = AllHeld(h) \cup {b} /\ Apart(g)
    BY <1>1, GetHeld DEF Accounted
  <1> HIDE DEF g
  <1>4. Accounted(r, g, sz)
    BY <1>1, <1>2, <1>3 DEF Accounted
  <1> QED
    BY <1>1, <1>4 DEF r, g, b

(* A new block is handed out.                                               *)
LEMMA NewOk ==
    ASSUME NEW idle, NEW h, NEW sz, Accounted(idle, h, sz), NEW c \in Callers,
           NEW b \in Blocks, sz[b] = 0, NEW n \in Nat \ {0}
    PROVE  /\ b \notin AllHeld(h)
           /\ Accounted(idle, [h EXCEPT ![c] = @ \cup {b}],
                        [x \in Blocks |-> IF x = b THEN n ELSE sz[x]])
  <1> DEFINE g == [h EXCEPT ![c] = @ \cup {b}]
             z == [x \in Blocks |-> IF x = b THEN n ELSE sz[x]]
  <1>1. b \notin ToSet(idle) /\ b \notin AllHeld(h)
    BY DEF Accounted
  <1>2. g \in [Callers -> SUBSET Blocks] /\ AllHeld(g) = AllHeld(h) \cup {b} /\ Apart(g)
    BY <1>1, GetHeld DEF Accounted
  <1>3. z \in [Blocks -> Nat] /\ z[b] = n /\ \A x \in Blocks \ {b} : z[x] = sz[x]
    BY DEF Accounted
  <1> HIDE DEF g, z
  <1>4. Accounted(idle, g, z)
    BY <1>1, <1>2, <1>3 DEF Accounted
  <1> QED
    BY <1>1, <1>4 DEF g, z

(* An idle block is deleted.                                                *)
LEMMA DeleteOk ==
    ASSUME NEW idle, NEW h, NEW sz, Accounted(idle, h, sz), NEW i \in 1..Len(idle)
    PROVE  Accounted(RemoveAt(idle, i), h,
                     [x \in Blocks |-> IF x \in {idle[i]} THEN 0 ELSE sz[x]])
  <1> DEFINE b == idle[i]
             z == [x \in Blocks |-> IF x \in {b} THEN 0 ELSE sz[x]]
             r == RemoveAt(idle, i)
  <1>1. b \in ToSet(idle) /\ b \in Blocks /\ b \notin AllHeld(h)
    BY ToSetElements DEF Accounted
  <1>2. r \in Seq(Blocks) /\ IsInjective(r) /\ ToSet(r) = ToSet(idle) \ {b}
    BY RemoveAtProperties DEF Accounted
  <1>3. z \in [Blocks -> Nat] /\ \A x \in Blocks : z[x] = IF x = b THEN 0 ELSE sz[x]
    BY DEF Accounted
  <1> HIDE DEF r, b, z
  <1>4. Accounted(r, h, z)
    BY <1>1, <1>2, <1>3 DEF Accounted
  <1> QED
    BY <1>4 DEF r, b, z

(* A block comes back to idleList_.                                         *)
LEMMA BackOk ==
    ASSUME NEW idle, NEW h, NEW sz, Accounted(idle, h, sz), NEW c \in Callers, NEW b \in h[c]
    PROVE  Accounted(Append(idle, b), [h EXCEPT ![c] = @ \ {b}], sz)
  <1> DEFINE g == [h EXCEPT ![c] = @ \ {b}]
             r == Append(idle, b)
  <1>1. b \in Blocks /\ b \in AllHeld(h) /\ b \notin ToSet(idle)
    BY DEF Accounted, AllHeld
  <1>2. r \in Seq(Blocks) /\ IsInjective(r) /\ ToSet(r) = ToSet(idle) \cup {b}
    BY <1>1, AppendToSet DEF Accounted
  <1>3. g \in [Callers -> SUBSET Blocks] /\ AllHeld(g) = AllHeld(h) \ {b} /\ Apart(g)
    BY DropHeld DEF Accounted
  <1> HIDE DEF r, g
  <1>4. Accounted(r, g, sz)
    BY <1>1, <1>2, <1>3 DEF Accounted
  <1> QED
    BY <1>4 DEF r, g

(* A block is deleted by the caller that had it.                            *)
LEMMA GoneOk ==
    ASSUME NEW idle, NEW h, NEW sz, Accounted(idle, h, sz), NEW c \in Callers, NEW b \in h[c]
    PROVE  Accounted(idle, [h EXCEPT ![c] = @ \ {b}], [sz EXCEPT ![b] = 0])
  <1> DEFINE g == [h EXCEPT ![c] = @ \ {b}]
             z == [sz EXCEPT ![b] = 0]
  <1>1. b \in Blocks /\ b \in AllHeld(h) /\ b \notin ToSet(idle)
    BY DEF Accounted, AllHeld
  <1>2. g \in [Callers -> SUBSET Blocks] /\ AllHeld(g) = AllHeld(h) \ {b} /\ Apart(g)
    BY DropHeld DEF Accounted
  <1>3. z \in [Blocks -> Nat] /\ \A x \in Blocks : z[x] = IF x = b THEN 0 ELSE sz[x]
    BY DEF Accounted
  <1> HIDE DEF g, z
  <1>4. Accounted(idle, g, z)
    BY <1>1, <1>2, <1>3 DEF Accounted
  <1> QED
    BY <1>4 DEF g, z

(* All idle blocks are deleted.                                             *)
LEMMA EmptyOk ==
    ASSUME NEW idle, NEW h, NEW sz, Accounted(idle, h, sz)
    PROVE  Accounted(<<>>, h, [b \in Blocks |-> IF b \in ToSet(idle) THEN 0 ELSE sz[b]])
  <1>1. ToSet(<<>>) = {} /\ IsInjective(<<>>)
    BY DEF ToSet, IsInjective
  <1> QED
    BY <1>1 DEF Accounted

(* Init adds n new blocks of one size.                                      *)
LEMMA InitialOk ==
    ASSUME NEW idle, NEW h, NEW sz, Accounted(idle, h, sz), NEW n \in Nat \ {0},
           NEW new \in Seq(Blocks), IsInjective(new), \A b \in ToSet(new) : sz[b] = 0
    PROVE  Accounted(idle \o new, h, [b \in Blocks |-> IF b \in ToSet(new) THEN n ELSE sz[b]])
  <1> DEFINE z == [b \in Blocks |-> IF b \in ToSet(new) THEN n ELSE sz[b]]
             r == idle \o new
  <1>1. /\ idle \in Seq(Blocks) /\ r \in Seq(Blocks) /\ Len(r) = Len(idle) + Len(new)
        /\ Len(idle) \in Nat /\ Len(new) \in Nat
        /\ \A i \in 1..Len(idle) + Len(new) : r[i] = IF i <= Len(idle) THEN idle[i] ELSE new[i - Len(idle)]
    BY ConcatProperties DEF Accounted
  <1> HIDE DEF r
  <1>2. /\ \A x : x \in ToSet(idle) <=> \E j \in 1..Len(idle) : idle[j] = x
        /\ \A x : x \in ToSet(new) <=> \E j \in 1..Len(new) : new[j] = x
        /\ \A x : x \in ToSet(r) <=> \E j \in 1..Len(r) : r[j] = x
        /\ ToSet(new) \subseteq Blocks /\ ToSet(idle) \subseteq Blocks
    BY <1>1, ToSetElements
  <1>3. ToSet(r) = ToSet(idle) \cup ToSet(new)
    <2>1. \A x \in ToSet(idle) : x \in ToSet(r)
      BY <1>1, <1>2
    <2>2. ASSUME NEW x \in ToSet(new) PROVE x \in ToSet(r)
      <3>1. PICK j \in 1..Len(new) : new[j] = x
        BY <1>2
      <3> DEFINE m == j + Len(idle)
      <3>2. m \in 1..Len(idle) + Len(new) /\ ~(m <= Len(idle)) /\ m - Len(idle) = j
        BY <1>1
      <3> HIDE DEF m
      <3>3. m \in 1..Len(r) /\ r[m] = x
        BY <1>1, <3>1, <3>2
      <3> QED
        BY <1>2, <3>3
    <2>3. \A x \in ToSet(r) : x \in ToSet(idle) \/ x \in ToSet(new)
      <3>1. TAKE x \in ToSet(r)
      <3>2. PICK j \in 1..Len(r) : r[j] = x
        BY <1>2
      <3>3. CASE j <= Len(idle)
        BY <1>1, <1>2, <3>2, <3>3
      <3>4. CASE ~(j <= Len(idle))
        <4>1. j - Len(idle) \in 1..Len(new) /\ new[j - Len(idle)] = x
          BY <1>1, <3>2, <3>4
        <4> QED
          BY <1>2, <4>1
      <3> QED
        BY <3>3, <3>4
    <2> QED
      BY <2>1, <2>2, <2>3
  <1>4. ToSet(idle) \cap ToSet(new) = {} /\ ToSet(new) \cap AllHeld(h) = {}
    BY <1>2 DEF Accounted
  <1>5. IsInjective(r)
    <2>1. \A j, k \in 1..Len(idle) : idle[j] = idle[k] => j = k
      BY <1>1, InjectiveElements DEF Accounted
    <2>2. \A j, k \in 1..Len(new) : new[j] = new[k] => j = k
      BY InjectiveElements
    <2>3. \A j \in 1..Len(idle), k \in 1..Len(new) : idle[j] # new[k]
      BY <1>2, <1>4
    <2>4. ASSUME NEW j \in 1..Len(r), NEW k \in 1..Len(r), r[j] = r[k] PROVE j = k
      <3>1. CASE j <= Len(idle) /\ k <= Len(idle)
        BY <1>1, <2>1, <2>4, <3>1
      <3>2. CASE j > Len(idle) /\ k > Len(idle)
        <4>1. j - Len(idle) \in 1..Len(new) /\ k - Len(idle) \in 1..Len(new)
          BY <1>1, <3>2
        <4>2. new[j - Len(idle)] = new[k - Len(idle)]
          BY <1>1, <2>4, <3>2
        <4>3. j - Len(idle) = k - Len(idle)
          BY <2>2, <4>1, <4>2
        <4> QED
          BY <1>1, <4>3
      <3>3. CASE j <= Len(idle) /\ k > Len(idle)
        <4>1. j \in 1..Len(idle) /\ k - Len(idle) \in 1..Len(new)
          BY <1>1, <3>3
        <4>2. idle[j] = new[k - Len(idle)]
          BY <1>1, <2>4, <3>3
        <4> QED
          BY <2>3, <4>1, <4>2
      <3>4. CASE j > Len(idle) /\ k <= Len(idle)
        <4>1. k \in 1..Len(idle) /\ j - Len(idle) \in 1..Len(new)
          BY <1>1, <3>4
        <4>2. idle[k] = new[j - Len(idle)]
          BY <1>1, <2>4, <3>4
        <4> QED
          BY <2>3, <4>1, <4>2
      <3> QED
        BY <1>1, <3>1, <3>2, <3>3, <3>4
    <2> QED
      BY <1>1, <2>4, InjectiveElements
  <1>6. z \in [Blocks -> Nat] /\ \A b \in Blocks : z[b] = IF b \in ToSet(new) THEN n ELSE sz[b]
    BY DEF Accounted
  <1> HIDE DEF z
  <1>7. Accounted(r, h, z)
    BY <1>1, <1>3, <1>4, <1>5, <1>6 DEF Accounted
  <1> QED
    BY <1>7 DEF r, z
-----------------------------------------------------------------------------
(* Nothing fits, in terms of the blocks instead of their places.            *)
LEMMA NoneFits ==
    ASSUME NEW idle \in Seq(Blocks), NEW sz, NEW n
    PROVE  {i \in DOMAIN idle : sz[idle[i]] >= n} = {} <=> \A b \in ToSet(idle) : ~(sz[b] >= n)
  BY ToSetElements

(* Fitting and Exhausted in those terms.                                    *)
LEMMA ExhaustedIsFull ==
    ASSUME TypeOK, NEW n
    PROVE  /\ Fitting(n) = {} <=> \A b \in ToSet(pool.idle) : ~(sizeOf[b] >= n)
           /\ Exhausted(n) <=> Full(pool, sizeOf, n)
  <1>1. pool.idle \in Seq(Blocks)
    BY DEF TypeOK, PoolStates
  <1>2. Fitting(n) = {} <=> \A b \in ToSet(pool.idle) : ~(sizeOf[b] >= n)
    BY <1>1, NoneFits DEF Fitting
  <1> QED
    BY <1>2 DEF Exhausted, Full, Total

(* A place of an idle block that fits.                                      *)
LEMMA FirstFit ==
    ASSUME TypeOK, NEW n, Fitting(n) # {}
    PROVE  Min(Fitting(n)) \in 1..Len(pool.idle)
  <1>1. pool.idle \in Seq(Blocks)
    BY DEF TypeOK, PoolStates
  <1>2. Fitting(n) \subseteq 1..Len(pool.idle) /\ 1..Len(pool.idle) \subseteq Nat
    BY <1>1, ToSetElements DEF Fitting
  <1>3. Min(Fitting(n)) \in Fitting(n)
    BY <1>2, MinOfNats
  <1> QED
    BY <1>2, <1>3

(* A place of the smallest idle block.                                      *)
LEMMA SmallestPlace ==
    ASSUME TypeOK, pool.idle # <<>>
    PROVE  SmallestIdle \in 1..Len(pool.idle)
  <1> DEFINE S == {sizeOf[pool.idle[i]] : i \in 1..Len(pool.idle)}
             P == {i \in DOMAIN pool.idle :
                     \A j \in DOMAIN pool.idle : sizeOf[pool.idle[i]] <= sizeOf[pool.idle[j]]}
  <1>1. pool.idle \in Seq(Blocks) /\ sizeOf \in [Blocks -> Nat]
    BY DEF TypeOK, PoolStates
  <1>2. DOMAIN pool.idle = 1..Len(pool.idle) /\ Len(pool.idle) \in Nat /\ Len(pool.idle) # 0
    BY <1>1
  <1>3. \A i \in 1..Len(pool.idle) : pool.idle[i] \in Blocks
    BY <1>1
  <1>4. S \subseteq Nat /\ S # {}
    <2>1. 1 \in 1..Len(pool.idle)
      BY <1>2
    <2> QED
      BY <1>1, <1>3, <2>1
  <1>5. Min(S) \in S /\ \A y \in S : Min(S) <= y
    BY <1>4, MinOfNats
  <1>6. PICK i \in 1..Len(pool.idle) : sizeOf[pool.idle[i]] = Min(S)
    BY <1>5
  <1>7. i \in P
    BY <1>2, <1>5, <1>6
  <1>8. P \subseteq Nat
    BY <1>2
  <1>9. Min(P) \in P
    BY <1>7, <1>8, MinOfNats
  <1> QED
    BY <1>2, <1>9 DEF SmallestIdle

(* busyList_ is finite.                                                     *)
LEMMA BusyFinite ==
    ASSUME TypeOK
    PROVE  /\ IsFiniteSet(pool.busy) /\ Cardinality(pool.busy) \in Nat
           /\ \A b : b \notin pool.busy => Cardinality(pool.busy \cup {b}) = Cardinality(pool.busy) + 1
  <1>1. pool.busy \subseteq Blocks
    BY DEF TypeOK, PoolStates
  <1>2. IsFiniteSet(pool.busy)
    BY <1>1, PoolAssumption, FS_Subset
  <1> QED
    BY <1>2, FS_CardinalityType, FS_AddElement
-----------------------------------------------------------------------------
(* AcquireMemory.                                                           *)

(* An idle block is handed out: a sleeper's wait stays justified, as the
   block moves to busyList_ and was too small for it.                       *)
LEMMA TakeIdleKeeps ==
    ASSUME PInv, pool.alive, inits > 0, inits' = inits, NEW c \in Callers, NEW size,
           TakeIdle(c, size)
    PROVE  PInv'
  <1> DEFINE i == Min(Fitting(size))
             b == pool.idle[i]
  <1>1. i \in 1..Len(pool.idle)
    BY FirstFit DEF PInv, TakeIdle
  <1> HIDE DEF i
  <1>2. /\ pool' = [[pool EXCEPT !.idle = RemoveAt(@, i)] EXCEPT !.busy = @ \cup {b}]
        /\ held' = [held EXCEPT ![c] = @ \cup {b}] /\ frame' = [frame EXCEPT ![c] = Idle]
        /\ sizeOf' = sizeOf /\ fails' = fails
    BY DEF TakeIdle, HandsOut, i
  <1>3. /\ b \in Blocks \ AllHeld(held)
        /\ Accounted(RemoveAt(pool.idle, i), held', sizeOf)
    BY <1>1, <1>2, TakeOk DEF PInv
  <1> HIDE DEF b
  <1>4. pool.busy = AllHeld(held) /\ AllHeld(held') = AllHeld(held) \cup {b}
    <2>1. held \in [Callers -> SUBSET Blocks] /\ b \in Blocks
      BY <1>3 DEF PInv, TypeOK
    <2>2. pool.busy = AllHeld(held)
      BY DEF PInv
    <2>3. AllHeld([held EXCEPT ![c] = @ \cup {b}]) = AllHeld(held) \cup {b}
      BY <2>1, GetHeld
    <2> QED
      BY <1>2, <2>2, <2>3
  <1>5. /\ RemoveAt(pool.idle, i) \in Seq(Blocks) /\ Len(RemoveAt(pool.idle, i)) = Len(pool.idle) - 1
        /\ ToSet(RemoveAt(pool.idle, i)) \subseteq ToSet(pool.idle)
    <2>1. pool.idle \in Seq(Blocks) /\ IsInjective(pool.idle)
      BY DEF PInv, Accounted
    <2>2. Len(RemoveAt(pool.idle, i)) = Len(pool.idle) - 1
      BY <1>1, <2>1, RemoveAtElements
    <2>3. RemoveAt(pool.idle, i) \in Seq(Blocks) /\ ToSet(RemoveAt(pool.idle, i)) = ToSet(pool.idle) \ {pool.idle[i]}
      BY <1>1, <2>1, RemoveAtProperties
    <2> QED
      BY <2>2, <2>3
  <1>6. /\ pool'.idle = RemoveAt(pool.idle, i) /\ pool'.busy = pool.busy \cup {b}
        /\ pool'.option = pool.option /\ pool'.alive = pool.alive
    BY <1>2 DEF PInv, TypeOK, PoolStates
  <1>7. TypeOK'
    <2>1. pool' \in PoolStates
      BY <1>2, <1>3, <1>5 DEF PInv, TypeOK, PoolStates
    <2>2. frame' \in [Callers -> FramesUpTo(inits')]
      BY <1>2 DEF PInv, TypeOK, FramesUpTo, Idle
    <2> QED
      BY <1>2, <1>3, <2>1, <2>2 DEF PInv, TypeOK, Accounted
  <1>8. frame'[c].at = "idle" /\ \A d \in Callers \ {c} : frame'[d] = frame[d]
    BY <1>2 DEF PInv, TypeOK, FramesUpTo, Idle
  <1>9. CallsOk'
    BY <1>6, <1>8 DEF PInv, CallsOk
  <1>10. Sleepers(pool', sizeOf', frame', inits')
    <2> SUFFICES ASSUME NEW d \in Callers, d # c, frame[d].at = "wait", frame[d].since = inits
                 PROVE  Full(pool', sizeOf, frame[d].size)
      BY <1>2, <1>8, Zenon DEF Sleepers
    <2>1. Full(pool, sizeOf, frame[d].size)
      BY DEF PInv, Sleepers
    <2>2. pool.idle # <<>> /\ Len(pool.idle) \in Nat
      BY <1>1 DEF PInv, TypeOK, PoolStates
    <2>3. pool.option.fixed
      BY <2>1, <2>2 DEF Full
    <2>4. Cardinality(pool'.busy) = Cardinality(pool.busy) + 1 /\ Cardinality(pool.busy) \in Nat
      BY <1>3, <1>4, <1>6, BusyFinite DEF PInv
    <2>5. Len(pool'.idle) + Cardinality(pool'.busy) = Len(pool.idle) + Cardinality(pool.busy)
      BY <1>5, <1>6, <2>2, <2>4
    <2> QED
      BY <1>5, <1>6, <2>1, <2>3, <2>5 DEF Full
  <1> QED
    BY <1>2, <1>3, <1>4, <1>6, <1>7, <1>9, <1>10 DEF PInv

(* A block is allocated, or cannot be, while no sleeper counts: p is the pool
   the code has made room in and `gone` what it deleted.                    *)
LEMMA AllocateKeeps ==
    ASSUME PInv, pool.alive, inits > 0, inits' = inits, NEW c \in Callers, NEW size \in Nat \ {0},
           NEW p \in PoolStates, p.busy = pool.busy, p.option = pool.option, p.alive,
           NEW gone,
           Accounted(p.idle, held, [b \in Blocks |-> IF b \in gone THEN 0 ELSE sizeOf[b]]),
           \A d \in Callers : ~(frame[d].at = "wait" /\ frame[d].since = inits),
           Allocate(c, size, p, gone)
    PROVE  PInv'
  <1> DEFINE z == [b \in Blocks |-> IF b \in gone THEN 0 ELSE sizeOf[b]]
  <1>1. fails' \in Nat /\ frame' = [frame EXCEPT ![c] = Idle]
    BY DEF Allocate, HandsOut, ReturnsNull, Fails, PInv, TypeOK
  <1>2. frame' \in [Callers -> FramesUpTo(inits')]
    BY <1>1 DEF PInv, TypeOK, FramesUpTo, Idle
  <1>3. frame'[c].at = "idle" /\ \A d \in Callers \ {c} : frame'[d] = frame[d]
    BY <1>1 DEF PInv, TypeOK, FramesUpTo, Idle
  <1>4. Sleepers(pool', sizeOf', frame', inits')
    BY <1>3, Zenon DEF Sleepers
  <1>5. pool.busy = AllHeld(held) /\ inits \in Nat /\ held \in [Callers -> SUBSET Blocks]
    BY DEF PInv, TypeOK
  <1>6. CASE sizeOf' = z /\ ReturnsNull(c, p)
    <2>1. pool' = p /\ held' = held
      BY <1>6 DEF ReturnsNull
    <2>2. Accounted(pool'.idle, held', sizeOf')
      BY <1>6, <2>1
    <2>3. TypeOK'
      BY <1>1, <1>2, <1>5, <2>1, <2>2 DEF TypeOK, Accounted
    <2>4. CallsOk'
      BY <1>3, <2>1 DEF PInv, CallsOk
    <2> QED
      BY <1>4, <1>5, <2>1, <2>2, <2>3, <2>4 DEF PInv
  <1>7. ASSUME NEW b, b = Fresh(1)[1], Live # Blocks,
               sizeOf' = [x \in Blocks |-> IF x = b THEN size
                                           ELSE IF x \in gone THEN 0 ELSE sizeOf[x]],
               HandsOut(c, b, p)
        PROVE  PInv'
    <2>1. b \in Blocks \ Live
      <3>1. IsFiniteSet(Blocks \ Live) /\ Blocks \ Live # {}
        BY <1>7, PoolAssumption, FS_Subset DEF Live
      <3>2. Cardinality(Blocks \ Live) \in Nat /\ Cardinality(Blocks \ Live) # 0
        BY <3>1, FS_CardinalityType, FS_EmptySet
      <3>3. Fresh(1) \in Seq(Blocks \ Live) /\ Len(Fresh(1)) = 1
        <4>1. 1 \in Nat /\ 1 <= Cardinality(Blocks \ Live)
          BY <3>2
        <4> QED
          BY <4>1, FreshNames
      <3> QED
        BY <1>7, <3>3
    <2>2. z[b] = 0 /\ b \in Blocks
      BY <2>1 DEF Live
    <2>3. sizeOf' = [x \in Blocks |-> IF x = b THEN size ELSE z[x]]
      BY <1>7
    <2> HIDE DEF z
    <2>4. /\ pool' = [p EXCEPT !.busy = @ \cup {b}]
          /\ held' = [held EXCEPT ![c] = @ \cup {b}]
      BY <1>7 DEF HandsOut
    <2>5. Accounted(p.idle, held, z)
      BY DEF z
    <2>6. Accounted(p.idle, held', sizeOf')
      <3>1. Accounted(p.idle, [held EXCEPT ![c] = @ \cup {b}],
                      [x \in Blocks |-> IF x = b THEN size ELSE z[x]])
        BY <2>2, <2>5, NewOk
      <3> QED
        BY <2>3, <2>4, <3>1
    <2>7. AllHeld(held') = AllHeld(held) \cup {b}
      <3>1. b \in Blocks /\ held \in [Callers -> SUBSET Blocks]
        BY <1>5, <2>2
      <3>2. AllHeld([held EXCEPT ![c] = @ \cup {b}]) = AllHeld(held) \cup {b}
        BY <3>1, GetHeld
      <3> QED
        BY <2>4, <3>2
    <2>8. /\ pool'.idle = p.idle /\ pool'.busy = pool.busy \cup {b}
          /\ pool'.option = pool.option /\ pool'.alive
      BY <2>4 DEF PoolStates
    <2>9. pool' \in PoolStates
      BY <2>2, <2>4 DEF PoolStates
    <2>10. TypeOK'
      BY <1>1, <1>2, <1>5, <2>6, <2>9 DEF TypeOK, Accounted
    <2>11. CallsOk'
      BY <1>3, <2>8 DEF PInv, CallsOk
    <2> QED
      BY <1>4, <1>5, <2>6, <2>7, <2>8, <2>10, <2>11 DEF PInv
  <1> QED
    BY <1>6, <1>7, Zenon DEF Allocate

(* Beside a sleeper the pool may neither grow nor replace.                  *)
LEMMA GrowPoolKeeps ==
    ASSUME PInv, pool.alive, inits > 0, inits' = inits, NEW c \in Callers, NEW size \in Nat \ {0},
           GrowPool(c, size)
    PROVE  PInv'
  <1>1. pool \in PoolStates /\ Len(pool.idle) \in Nat /\ Cardinality(pool.busy) \in Nat
    BY BusyFinite DEF PInv, TypeOK, PoolStates
  <1>2. \A d \in Callers : ~(frame[d].at = "wait" /\ frame[d].since = inits)
    BY <1>1 DEF PInv, Sleepers, Full, GrowPool, Total, PoolStates
  <1>3. sizeOf = [b \in Blocks |-> IF b \in {} THEN 0 ELSE sizeOf[b]]
    BY DEF PInv, TypeOK
  <1>4. Accounted(pool.idle, held, [b \in Blocks |-> IF b \in {} THEN 0 ELSE sizeOf[b]])
    BY <1>3 DEF PInv
  <1>5. Allocate(c, size, pool, {})
    BY DEF GrowPool
  <1> QED
    BY <1>1, <1>2, <1>4, <1>5, AllocateKeeps

(* The smallest idle block makes room for a new one.                        *)
LEMMA ReplaceSmallestKeeps ==
    ASSUME PInv, pool.alive, inits > 0, inits' = inits, NEW c \in Callers, NEW size \in Nat \ {0},
           ReplaceSmallest(c, size)
    PROVE  PInv'
  <1> DEFINE i == SmallestIdle
             p == [pool EXCEPT !.idle = RemoveAt(@, i)]
             gone == {pool.idle[i]}
  <1>1. i \in 1..Len(pool.idle)
    BY SmallestPlace DEF PInv, ReplaceSmallest
  <1>2. Allocate(c, size, p, gone)
    BY DEF ReplaceSmallest
  <1> HIDE DEF i
  <1>3. pool \in PoolStates /\ pool.idle \in Seq(Blocks) /\ IsInjective(pool.idle)
    BY DEF PInv, TypeOK, Accounted
  <1>4. RemoveAt(pool.idle, i) \in Seq(Blocks)
    BY <1>1, <1>3, RemoveAtProperties
  <1>5. /\ p \in PoolStates /\ p.idle = RemoveAt(pool.idle, i)
        /\ p.busy = pool.busy /\ p.option = pool.option /\ p.alive
    BY <1>3, <1>4 DEF PoolStates
  <1>6. Accounted(p.idle, held, [b \in Blocks |-> IF b \in gone THEN 0 ELSE sizeOf[b]])
    BY <1>1, <1>5, DeleteOk DEF PInv
  <1>7. \A d \in Callers : ~(frame[d].at = "wait" /\ frame[d].since = inits)
    BY DEF PInv, Sleepers, Full, ReplaceSmallest
  <1> HIDE DEF p, gone
  <1> QED
    BY <1>2, <1>5, <1>6, <1>7, AllocateKeeps

(* A call goes to sleep, or returns nothing, when the pool is exhausted.    *)
LEMMA WaitOrFailKeeps ==
    ASSUME PInv, pool.alive, inits > 0, inits' = inits, NEW c \in Callers, NEW size \in Nat \ {0},
           NEW blocking, WaitOrFail(c, size, blocking)
    PROVE  PInv'
  <1>1. /\ pool' = pool /\ held' = held /\ sizeOf' = sizeOf /\ fails' = fails
        /\ \/ frame' = [frame EXCEPT ![c] = Idle]
           \/ frame' = [frame EXCEPT ![c] = [@ EXCEPT !.at = "wait", !.size = size, !.since = inits]]
    BY DEF WaitOrFail, ReturnsNull
  <1>2. inits \in Nat /\ frame \in [Callers -> FramesUpTo(inits)]
    BY DEF PInv, TypeOK
  <1>3. /\ frame' \in [Callers -> FramesUpTo(inits')]
        /\ frame'[c].at = "idle" \/ (frame'[c].at = "wait" /\ frame'[c].size = size)
        /\ \A d \in Callers \ {c} : frame'[d] = frame[d]
    <2> DEFINE f == [frame[c] EXCEPT !.at = "wait", !.size = size, !.since = inits]
    <2>1. f \in FramesUpTo(inits') /\ f.at = "wait" /\ f.size = size
      <3>1. frame[c] \in FramesUpTo(inits) /\ size \in Nat /\ inits \in 0..inits'
        BY <1>2
      <3> QED
        BY <3>1 DEF FramesUpTo
    <2>2. Idle \in FramesUpTo(inits') /\ Idle.at = "idle"
      BY <1>2 DEF Idle, FramesUpTo
    <2>3. frame' = [frame EXCEPT ![c] = Idle] \/ frame' = [frame EXCEPT ![c] = f]
      BY <1>1
    <2>4. frame \in [Callers -> FramesUpTo(inits')]
      BY <1>2
    <2> HIDE DEF f
    <2> QED
      BY <2>1, <2>2, <2>3, <2>4
  <1>4. TypeOK'
    BY <1>1, <1>3 DEF PInv, TypeOK
  <1>5. CallsOk'
    BY <1>1, <1>3 DEF PInv, CallsOk
  <1>6. Full(pool, sizeOf, size)
    BY ExhaustedIsFull DEF WaitOrFail, PInv
  <1>7. Sleepers(pool', sizeOf', frame', inits')
    BY <1>1, <1>3, <1>6, Zenon DEF PInv, Sleepers
  <1> QED
    BY <1>1, <1>4, <1>5, <1>7 DEF PInv

(* One round of AcquireMemory's loop.                                       *)
LEMMA DoAcquireMemoryKeeps ==
    ASSUME PInv, pool.alive, inits > 0, inits' = inits, NEW c \in Callers, NEW size \in Nat \ {0},
           NEW blocking, DoAcquireMemory(c, size, blocking)
    PROVE  PInv'
  BY TakeIdleKeeps, GrowPoolKeeps, ReplaceSmallestKeeps, WaitOrFailKeeps DEF DoAcquireMemory

(* The first round: CheckSize lets no size of 0 through.                    *)
LEMMA AcquireMemoryKeeps ==
    ASSUME PInv, NEW c \in Callers, NEW size \in Sizes \cup {-1}, NEW blocking,
           AcquireMemory(c, size, blocking)
    PROVE  PInv'
  <1> DEFINE n == IF pool.option.fixed THEN pool.option.size ELSE size
  <1>1. pool.alive /\ inits > 0 /\ inits' = inits /\ DoAcquireMemory(c, n, blocking) /\ CheckSize(size)
    BY DEF AcquireMemory
  <1>2. pool.option.size \in Nat /\ pool.option.size > 0
    BY <1>1 DEF PInv, TypeOK, PoolStates, CallsOk
  <1>3. n \in Nat \ {0}
    <2>1. CASE pool.option.fixed
      BY <1>2, <2>1
    <2>2. CASE ~pool.option.fixed
      <3>1. size > 0 /\ size # -1
        BY <1>1, <2>2 DEF CheckSize
      <3> QED
        BY <2>2, <3>1, PoolAssumption
    <2> QED
      BY <2>1, <2>2
  <1> HIDE DEF n
  <1> QED
    BY <1>1, <1>3, DoAcquireMemoryKeeps

(* A caller leaves its sleep, or its call returns nothing.                  *)
LEMMA LeavesCall ==
    ASSUME PInv, NEW c \in Callers, NEW f \in FramesUpTo(inits), f.at # "wait",
           f.at = "woken" => frame[c].at \in {"wait", "woken"} /\ f.size = frame[c].size,
           frame' = [frame EXCEPT ![c] = f], UNCHANGED <<pool, sizeOf, held, inits, fails>>
    PROVE  PInv'
  <1>1. frame \in [Callers -> FramesUpTo(inits)]
    BY DEF PInv, TypeOK
  <1>2. /\ frame' \in [Callers -> FramesUpTo(inits)]
        /\ frame'[c] = f
        /\ \A d \in Callers \ {c} : frame'[d] = frame[d]
    BY <1>1
  <1>3. TypeOK'
    BY <1>2 DEF PInv, TypeOK
  <1>4. CallsOk'
    BY <1>2 DEF PInv, CallsOk
  <1>5. Sleepers(pool', sizeOf', frame', inits')
    BY <1>2, Zenon DEF PInv, Sleepers
  <1> QED
    BY <1>3, <1>4, <1>5 DEF PInv

(* A sleeper wakes without a signal.                                        *)
LEMMA SpuriousWakeupKeeps ==
    ASSUME PInv, NEW c \in Callers, SpuriousWakeup(c)
    PROVE  PInv'
  <1> DEFINE f == [frame[c] EXCEPT !.at = "woken"]
  <1>1. /\ f \in FramesUpTo(inits) /\ f.at = "woken" /\ f.size = frame[c].size
        /\ frame' = [frame EXCEPT ![c] = f]
    BY DEF PInv, TypeOK, FramesUpTo, SpuriousWakeup
  <1> HIDE DEF f
  <1> QED
    BY <1>1, LeavesCall DEF SpuriousWakeup

(* A woken caller's next round.                                             *)
LEMMA RetryKeeps ==
    ASSUME PInv, NEW c \in Callers, Retry(c)
    PROVE  PInv'
  <1>1. frame[c].at = "woken" /\ frame[c] \in FramesUpTo(inits) /\ inits' = inits /\ inits \in Nat
    BY DEF Retry, PInv, TypeOK
  <1>2. frame[c].size \in Nat \ {0} /\ pool.alive /\ inits > 0
    BY <1>1 DEF PInv, CallsOk, FramesUpTo
  <1>3. CASE DoAcquireMemory(c, frame[c].size, TRUE)
    BY <1>1, <1>2, <1>3, DoAcquireMemoryKeeps
  <1>4. CASE ReturnsNull(c, pool) /\ UNCHANGED <<sizeOf, fails>>
    <2>1. Idle \in FramesUpTo(inits) /\ Idle.at = "idle"
      BY <1>1 DEF Idle, FramesUpTo
    <2> QED
      BY <1>1, <1>4, <2>1, LeavesCall DEF ReturnsNull
  <1> QED
    BY <1>3, <1>4 DEF Retry

(* The notifier is looked at and called.                                    *)
LEMMA NotifyKeeps ==
    ASSUME PInv, NEW c \in Callers, Notify(c)
    PROVE  PInv'
  <1>1. PICK a \in {"idle", "call", "terminated"} : frame' = [frame EXCEPT ![c].at = a]
    BY DEF Notify
  <1> DEFINE f == [frame[c] EXCEPT !.at = a]
  <1>2. f \in FramesUpTo(inits) /\ f.at = a /\ frame' = [frame EXCEPT ![c] = f]
    BY <1>1 DEF PInv, TypeOK, FramesUpTo
  <1> HIDE DEF f
  <1> QED
    BY <1>2, LeavesCall DEF Notify
-----------------------------------------------------------------------------
(* The steps that change the lists.                                         *)

(* notify_all leaves nobody asleep.                                         *)
LEMMA NotifiedFrames ==
    ASSUME TypeOK
    PROVE  /\ Notified(frame) \in [Callers -> FramesUpTo(inits)]
           /\ \A d \in Callers : /\ Notified(frame)[d].at # "wait"
                                 /\ Notified(frame)[d].size = frame[d].size
                                 /\ Notified(frame)[d].at = "woken" => frame[d].at \in {"wait", "woken"}
  <1>1. frame \in [Callers -> FramesUpTo(inits)]
    BY DEF TypeOK
  <1> QED
    BY <1>1 DEF Notified, FramesUpTo

(* A block comes back and everybody wakes.                                  *)
LEMMA ReleaseMemoryKeeps ==
    ASSUME PInv, NEW c \in Callers, NEW b \in held[c], ReleaseMemory(c, b)
    PROVE  PInv'
  <1> DEFINE g == [held EXCEPT ![c] = @ \ {b}]
             q == Append(pool.idle, b)
  <1>1. pool.alive /\ pool.busy = AllHeld(held) /\ b \in pool.busy /\ b \in Blocks
    BY DEF ReleaseMemory, PInv, AllHeld, TypeOK
  <1>2. /\ held' = g /\ sizeOf' = sizeOf /\ inits' = inits /\ fails' = fails
        /\ pool' = [pool EXCEPT !.busy = @ \ {b}, !.idle = q]
        /\ frame' = [Notified(frame) EXCEPT ![c].at = "release"]
    BY <1>1 DEF ReleaseMemory
  <1>3. Accounted(q, g, sizeOf)
    BY BackOk DEF PInv
  <1>4. AllHeld(g) = AllHeld(held) \ {b}
    <2>1. held \in [Callers -> SUBSET Blocks] /\ Apart(held)
      BY DEF PInv, Accounted
    <2> QED
      BY <2>1, DropHeld
  <1>5. q \in Seq(Blocks)
    BY <1>3 DEF Accounted
  <1> HIDE DEF g, q
  <1>6. /\ pool' \in PoolStates /\ pool'.idle = q /\ pool'.busy = pool.busy \ {b}
        /\ pool'.option = pool.option /\ pool'.alive
    BY <1>1, <1>2, <1>5 DEF PInv, TypeOK, PoolStates
  <1>7. /\ frame' \in [Callers -> FramesUpTo(inits)]
        /\ \A d \in Callers : /\ frame'[d].at # "wait" /\ frame'[d].size = frame[d].size
                              /\ frame'[d].at = "woken" => frame[d].at \in {"wait", "woken"}
    BY <1>2, NotifiedFrames DEF PInv, FramesUpTo
  <1>8. TypeOK'
    BY <1>2, <1>3, <1>6, <1>7 DEF PInv, TypeOK, Accounted
  <1>9. CallsOk'
    BY <1>1, <1>2, <1>6, <1>7 DEF PInv, CallsOk
  <1>10. Sleepers(pool', sizeOf', frame', inits')
    BY <1>7 DEF Sleepers
  <1> QED
    BY <1>1, <1>2, <1>3, <1>4, <1>6, <1>8, <1>9, <1>10 DEF PInv

(* A block outlives the pool.                                               *)
LEMMA DropMemoryKeeps ==
    ASSUME PInv, NEW c \in Callers, NEW b \in held[c], DropMemory(c, b)
    PROVE  PInv'
  <1>1. /\ held' = [held EXCEPT ![c] = @ \ {b}] /\ sizeOf' = [sizeOf EXCEPT ![b] = 0]
        /\ ~pool.alive /\ pool' = pool /\ frame' = frame /\ inits' = inits /\ fails' = fails
    BY DEF DropMemory
  <1>2. Accounted(pool.idle, [held EXCEPT ![c] = @ \ {b}], [sizeOf EXCEPT ![b] = 0])
    BY GoneOk DEF PInv
  <1>3. Accounted(pool'.idle, held', sizeOf')
    BY <1>1, <1>2
  <1>4. TypeOK'
    BY <1>1, <1>3 DEF PInv, TypeOK, Accounted
  <1>5. \A d \in Callers : frame'[d].at \notin {"wait", "woken"}
    BY <1>1 DEF PInv, CallsOk
  <1>6. CallsOk'
    BY <1>1 DEF PInv, CallsOk
  <1>7. Sleepers(pool', sizeOf', frame', inits')
    BY <1>5 DEF Sleepers
  <1> QED
    BY <1>1, <1>3, <1>4, <1>6, <1>7 DEF PInv

(* The mode changes; nothing else does, save that sleepers wake.            *)
LEMMA SetNonBlockingKeeps ==
    ASSUME PInv, NEW enable \in BOOLEAN, SetNonBlocking(enable)
    PROVE  PInv'
  <1>1. /\ pool' = [pool EXCEPT !.nonBlocking = enable]
        /\ frame' = frame \/ frame' = Notified(frame)
        /\ held' = held /\ sizeOf' = sizeOf /\ inits' = inits /\ fails' = fails
    BY DEF SetNonBlocking
  <1>2. /\ pool' \in PoolStates /\ pool'.idle = pool.idle /\ pool'.busy = pool.busy
        /\ pool'.option = pool.option /\ pool'.alive = pool.alive
    BY <1>1 DEF PInv, TypeOK, PoolStates
  <1>3. CASE frame' = frame
    <2>1. TypeOK'
      BY <1>1, <1>2, <1>3 DEF PInv, TypeOK
    <2>2. CallsOk'
      BY <1>1, <1>2, <1>3 DEF PInv, CallsOk
    <2>3. Sleepers(pool', sizeOf', frame', inits')
      BY <1>1, <1>2, <1>3 DEF PInv, Sleepers, Full
    <2> QED
      BY <1>1, <1>2, <2>1, <2>2, <2>3 DEF PInv
  <1>4. CASE frame' = Notified(frame)
    <2>1. TypeOK'
      BY <1>1, <1>2, <1>4, NotifiedFrames DEF PInv, TypeOK
    <2>2. CallsOk'
      BY <1>1, <1>2, <1>4, NotifiedFrames DEF PInv, CallsOk
    <2>3. Sleepers(pool', sizeOf', frame', inits')
      BY <1>4, NotifiedFrames DEF PInv, Sleepers
    <2> QED
      BY <1>1, <1>2, <2>1, <2>2, <2>3 DEF PInv
  <1> QED
    BY <1>1, <1>3, <1>4

(* The idle blocks go and everybody wakes.                                  *)
LEMMA ResetKeeps ==
    ASSUME PInv, Reset
    PROVE  PInv'
  <1>1. /\ sizeOf' = [b \in Blocks |-> IF b \in ToSet(pool.idle) THEN 0 ELSE sizeOf[b]]
        /\ pool' = Emptied(pool) /\ frame' = Notified(frame)
        /\ held' = held /\ inits' = inits /\ fails' = fails
    BY DEF Reset
  <1>2. /\ pool' \in PoolStates /\ pool'.idle = <<>> /\ pool'.busy = pool.busy
        /\ pool'.option = pool.option /\ pool'.alive = pool.alive
    <2>1. pool \in PoolStates /\ <<>> \in Seq(Blocks)
      BY DEF PInv, TypeOK
    <2>2. Emptied(pool) \in PoolStates /\ Emptied(pool).idle = <<>>
          /\ Emptied(pool).option = pool.option /\ Emptied(pool).alive = pool.alive
          /\ Emptied(pool).busy = pool.busy
      BY <2>1 DEF Emptied, PoolStates
    <2> QED
      BY <1>1, <2>2 DEF PoolStates
  <1>3. Accounted(<<>>, held, [b \in Blocks |-> IF b \in ToSet(pool.idle) THEN 0 ELSE sizeOf[b]])
    BY EmptyOk DEF PInv
  <1>4. Accounted(pool'.idle, held', sizeOf')
    BY <1>1, <1>2, <1>3
  <1>5. TypeOK'
    BY <1>1, <1>2, <1>4, NotifiedFrames DEF PInv, TypeOK, Accounted
  <1>6. CallsOk'
    BY <1>1, <1>2, NotifiedFrames DEF PInv, CallsOk
  <1>7. Sleepers(pool', sizeOf', frame', inits')
    BY <1>1, NotifiedFrames DEF PInv, Sleepers
  <1> QED
    BY <1>1, <1>2, <1>4, <1>5, <1>6, <1>7 DEF PInv

(* The pool goes when no call is under way.                                 *)
LEMMA DestroyKeeps ==
    ASSUME PInv, Destroy
    PROVE  PInv'
  <1>1. /\ sizeOf' = [b \in Blocks |-> IF b \in ToSet(pool.idle) THEN 0 ELSE sizeOf[b]]
        /\ pool' = [Emptied(pool) EXCEPT !.alive = FALSE, !.busy = {}]
        /\ frame' = frame /\ held' = held /\ inits' = inits /\ fails' = fails
        /\ \A c \in Callers : frame[c].at = "idle"
    BY DEF Destroy
  <1>2. /\ pool' \in PoolStates /\ pool'.idle = <<>>
        /\ pool'.option = pool.option /\ pool'.alive = FALSE
    <2>1. pool \in PoolStates /\ <<>> \in Seq(Blocks)
      BY DEF PInv, TypeOK
    <2>2. Emptied(pool) \in PoolStates /\ Emptied(pool).idle = <<>>
          /\ Emptied(pool).option = pool.option /\ Emptied(pool).alive = pool.alive
          /\ Emptied(pool).busy = pool.busy
      BY <2>1 DEF Emptied, PoolStates
    <2> QED
      BY <1>1, <2>2 DEF PoolStates
  <1>3. Accounted(<<>>, held, [b \in Blocks |-> IF b \in ToSet(pool.idle) THEN 0 ELSE sizeOf[b]])
    BY EmptyOk DEF PInv
  <1>4. Accounted(pool'.idle, held', sizeOf')
    BY <1>1, <1>2, <1>3
  <1>5. TypeOK'
    BY <1>1, <1>2, <1>4 DEF PInv, TypeOK, Accounted
  <1>6. CallsOk'
    BY <1>1, <1>2 DEF PInv, CallsOk
  <1>7. Sleepers(pool', sizeOf', frame', inits')
    BY <1>1 DEF Sleepers
  <1> QED
    BY <1>2, <1>4, <1>5, <1>6, <1>7 DEF PInv

(* A sleeper from before this Init no longer counts.                        *)
LEMMA PoolInitKeeps ==
    ASSUME PInv, NEW o \in Options, PoolInit(o)
    PROVE  PInv'
  <1> DEFINE want == IF o.pre <= o.max THEN o.pre ELSE o.max
  <1>1. o \in [pre : Nat, size : Nat \ {0}, max : Nat, fixed : BOOLEAN] /\ want \in Nat
    BY PoolAssumption
  <1>2. /\ pool.alive /\ inits' = inits + 1 /\ frame' = frame /\ held' = held
        /\ \E n \in 0..want :
             /\ n <= Cardinality(Blocks \ Live)
             /\ Fails(n < want)
             /\ sizeOf' = [b \in Blocks |-> IF b \in ToSet(Fresh(n)) THEN o.size ELSE sizeOf[b]]
             /\ pool' = [pool EXCEPT !.option = [o EXCEPT !.pre = want], !.idle = @ \o Fresh(n),
                                     !.inited = (n = want), !.notifier = @ \/ (n = want)]
    BY DEF PoolInit
  <1> HIDE DEF want
  <1>3. PICK n \in 0..want :
             /\ n <= Cardinality(Blocks \ Live)
             /\ Fails(n < want)
             /\ sizeOf' = [b \in Blocks |-> IF b \in ToSet(Fresh(n)) THEN o.size ELSE sizeOf[b]]
             /\ pool' = [pool EXCEPT !.option = [o EXCEPT !.pre = want], !.idle = @ \o Fresh(n),
                                     !.inited = (n = want), !.notifier = @ \/ (n = want)]
    BY <1>2
  <1> DEFINE new == Fresh(n)
  <1>4. new \in Seq(Blocks \ Live) /\ IsInjective(new)
    <2>1. n \in Nat /\ n <= Cardinality(Blocks \ Live)
      BY <1>1, <1>3
    <2> QED
      BY <2>1, FreshNames
  <1>5. new \in Seq(Blocks) /\ \A b \in ToSet(new) : sizeOf[b] = 0
    <2>1. ToSet(new) \subseteq Blocks \ Live
      BY <1>4, ToSetElements
    <2>2. new \in Seq(Blocks)
      BY <1>4
    <2> QED
      BY <2>1, <2>2 DEF Live
  <1> HIDE DEF new
  <1>6. Accounted(pool.idle \o new, held,
                  [b \in Blocks |-> IF b \in ToSet(new) THEN o.size ELSE sizeOf[b]])
    <2>1. o.size \in Nat \ {0} /\ Accounted(pool.idle, held, sizeOf)
      BY <1>1 DEF PInv
    <2> QED
      BY <1>4, <1>5, <2>1, InitialOk
  <1>7. pool.idle \o new \in Seq(Blocks)
    BY <1>6 DEF Accounted
  <1>8. /\ pool' = [pool EXCEPT !.option = [o EXCEPT !.pre = want], !.idle = pool.idle \o new,
                                !.inited = (n = want), !.notifier = pool.notifier \/ (n = want)]
        /\ sizeOf' = [b \in Blocks |-> IF b \in ToSet(new) THEN o.size ELSE sizeOf[b]]
    BY <1>3 DEF new
  <1>9. [o EXCEPT !.pre = want] \in [pre : Nat, size : Nat \ {0}, max : Nat, fixed : BOOLEAN]
        /\ [o EXCEPT !.pre = want].size = o.size
    BY <1>1
  <1>10. pool' \in PoolStates /\ pool'.idle = pool.idle \o new /\ pool'.busy = pool.busy
         /\ pool'.alive = pool.alive /\ pool'.option.size = o.size
    BY <1>7, <1>8, <1>9 DEF PInv, TypeOK, PoolStates
  <1>11. Accounted(pool'.idle, held', sizeOf')
    BY <1>2, <1>6, <1>8, <1>10
  <1>12. /\ inits \in Nat /\ inits' \in Nat
         /\ frame' \in [Callers -> FramesUpTo(inits')]
         /\ \A d \in Callers : frame'[d].since # inits'
    BY <1>2 DEF PInv, TypeOK, FramesUpTo
  <1>13. fails' \in Nat
    BY <1>3 DEF Fails, PInv, TypeOK
  <1>14. TypeOK'
    BY <1>10, <1>11, <1>12, <1>13 DEF TypeOK, Accounted
  <1>15. CallsOk'
    BY <1>1, <1>2, <1>10, <1>12 DEF PInv, CallsOk
  <1>16. Sleepers(pool', sizeOf', frame', inits')
    BY <1>12 DEF Sleepers
  <1> QED
    BY <1>2, <1>10, <1>11, <1>14, <1>15, <1>16 DEF PInv
-----------------------------------------------------------------------------
(* The theorems.                                                            *)

(* The constructor establishes the invariant.                               *)
LEMMA InitiallyPInv ==
    ASSUME Init
    PROVE  PInv
  <1>1. ToSet(<<>>) = {} /\ IsInjective(<<>>)
    BY DEF ToSet, IsInjective
  <1>2. AllHeld(held) = {} /\ Apart(held)
    BY DEF Init, AllHeld, Apart
  <1>3. TypeOK
    BY DEF Init, TypeOK, PoolStates, FramesUpTo, NoOption, Idle
  <1>4. Accounted(pool.idle, held, sizeOf)
    BY <1>1, <1>2, <1>3 DEF Accounted, TypeOK, PoolStates, Init
  <1>5. CallsOk /\ Sleepers(pool, sizeOf, frame, inits)
    BY DEF Init, CallsOk, Sleepers, Idle
  <1> QED
    BY <1>2, <1>3, <1>4, <1>5 DEF PInv, Init

(* PInv is inductive.                                                       *)
LEMMA StepKeepsPInv ==
    ASSUME PInv, [Next]_vars
    PROVE  PInv'
  <1>1. CASE UNCHANGED vars
    BY <1>1 DEF vars, PInv, TypeOK, CallsOk
  <1>2. CASE Next
    <2>1. ASSUME NEW o \in Options, PoolInit(o) PROVE PInv'
      BY <2>1, PoolInitKeeps
    <2>2. ASSUME NEW c \in Callers, NEW size \in Sizes \cup {-1}, NEW blocking \in BOOLEAN,
                 AcquireMemory(c, size, blocking)
          PROVE  PInv'
      BY <2>2, AcquireMemoryKeeps
    <2>3. ASSUME NEW c \in Callers, NEW b \in held[c], ReleaseMemory(c, b) PROVE PInv'
      BY <2>3, ReleaseMemoryKeeps
    <2>4. ASSUME NEW c \in Callers, NEW b \in held[c], DropMemory(c, b) PROVE PInv'
      BY <2>4, DropMemoryKeeps
    <2>5. ASSUME NEW c \in Callers, SpuriousWakeup(c) \/ CallerStep(c) PROVE PInv'
      BY <2>5, SpuriousWakeupKeeps, RetryKeeps, NotifyKeeps DEF CallerStep
    <2>6. ASSUME NEW enable \in BOOLEAN, SetNonBlocking(enable) PROVE PInv'
      BY <2>6, SetNonBlockingKeeps
    <2>7. CASE Reset \/ Destroy
      BY <2>7, ResetKeeps, DestroyKeeps
    <2> QED
      BY <1>2, <2>1, <2>2, <2>3, <2>4, <2>5, <2>6, <2>7 DEF Next
  <1> QED
    BY <1>1, <1>2

(* PInv in the terms of the component's module.                             *)
LEMMA PInvMeans ==
    ASSUME PInv
    PROVE  TypeOK /\ BlocksAccounted /\ SleepsOnlyWhenExhausted
  <1>1. pool.idle \in Seq(Blocks) /\ IsInjective(pool.idle) /\ ToSet(pool.idle) \subseteq Blocks
        /\ AllHeld(held) \subseteq Blocks
    BY ToSetElements DEF PInv, Accounted, AllHeld
  <1>2. \A i, j \in DOMAIN pool.idle : pool.idle[i] = pool.idle[j] => i = j
    BY <1>1, ToSetElements, InjectiveElements
  <1>3. Live = ToSet(pool.idle) \cup AllHeld(held)
    BY <1>1 DEF PInv, Accounted, Live
  <1>4. BlocksAccounted
    BY <1>2, <1>3 DEF PInv, Accounted, Apart, AllHeld, BlocksAccounted
  <1>5. SleepsOnlyWhenExhausted
    BY ExhaustedIsFull DEF PInv, Sleepers, SleepsOnlyWhenExhausted
  <1> QED
    BY <1>4, <1>5 DEF PInv

(* Every state of the pool, its callers and its counters is well formed.    *)
THEOREM PoolTypeCorrect == Spec => []TypeOK
  BY InitiallyPInv, StepKeepsPInv, PInvMeans, PTL DEF Spec

(* Through any sequence of Init, AcquireMemory, ReleaseMemory, Reset and the
   destructor no block of AVSharedMemoryPool leaks, has two owners or is freed
   while somebody refers to it.                                             *)
THEOREM BlocksStayAccounted == Spec => []BlocksAccounted
  BY InitiallyPInv, StepKeepsPInv, PInvMeans, PTL DEF Spec

(* A caller of AcquireMemory never sleeps, since the last Init, while a block
   fits or the pool may allocate one: no step that makes room forgets to
   wake it.                                                                 *)
THEOREM SleepersAreExhausted == Spec => []SleepsOnlyWhenExhausted
  BY InitiallyPInv, StepKeepsPInv, PInvMeans, PTL DEF Spec
=============================================================================
