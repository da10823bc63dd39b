--------------------------- MODULE TaskInnerProofs ---------------------------
(***************************************************************************)
(* Proofs about TaskInner for any tasks, callers, calls and delays.         *)
(***************************************************************************)
EXTENDS TaskInner, SequenceLemmas, FiniteSetTheorems

(* The shapes of the state.                                                 *)
Times == Nat \cup {-1}

IsQueue(q) ==
    /\ q \in [DOMAIN q -> Nat]
    /\ DOMAIN q \subseteq Nat /\ IsFiniteSet(DOMAIN q)

Queues == {q \in UNION {[S -> Nat] : S \in SUBSET Nat} : IsFiniteSet(DOMAIN q)}

TaskStates ==
    [runningState : RunningState, singleLoop : BOOLEAN, topProcessUs : Times,
     topIsJob : BOOLEAN, msgQueue : Queues, jobQueue : Queues]
-----------------------------------------------------------------------------
(* Queues.                                                                  *)

(* Membership in Queues without the union.                                  *)
LEMMA QueueShape ==
    ASSUME NEW q
    PROVE  q \in Queues <=> IsQueue(q)
  BY Zenon DEF Queues, IsQueue

(* A queue's first time is its least.                                       *)
LEMMA FirstOk ==
    ASSUME NEW q \in Queues, ~Empty(q)
    PROVE  First(q) \in DOMAIN q /\ First(q) \in Nat /\ \A b \in DOMAIN q : First(q) <= b
  <1>1. DOMAIN q \subseteq Nat /\ DOMAIN q # {}
    BY QueueShape DEF IsQueue, Empty
  <1>2. First(q) = Min(DOMAIN q)
    BY Zenon DEF First, Min
  <1> QED
    BY <1>1, <1>2, MinOfNats

(* A least time is the first.                                               *)
LEMMA FirstUnique ==
    ASSUME NEW q \in Queues, NEW a \in DOMAIN q, \A b \in DOMAIN q : a <= b
    PROVE  ~Empty(q) /\ First(q) = a
  <1>1. ~Empty(q) /\ a \in Nat
    BY QueueShape DEF IsQueue, Empty
  <1>2. First(q) \in DOMAIN q /\ First(q) \in Nat /\ \A b \in DOMAIN q : First(q) <= b
    BY <1>1, FirstOk
  <1>3. First(q) <= a /\ a <= First(q)
    BY <1>2
  <1> QED
    BY <1>1, <1>2, <1>3

(* What is left without the first entry.                                    *)
LEMMA EraseFirstOk ==
    ASSUME NEW q \in Queues
    PROVE  /\ EraseFirst(q) \in Queues
           /\ DOMAIN EraseFirst(q) = DOMAIN q \ {First(q)}
           /\ \A x \in DOMAIN EraseFirst(q) : EraseFirst(q)[x] = q[x]
  <1>1. q \in [DOMAIN q -> Nat] /\ DOMAIN q \subseteq Nat /\ IsFiniteSet(DOMAIN q)
    BY QueueShape DEF IsQueue
  <1>2. IsFiniteSet(DOMAIN q \ {First(q)})
    BY <1>1, FS_Subset
  <1> DEFINE D == DOMAIN q \ {First(q)}
             r == [x \in D |-> q[x]]
  <1>3. r \in [D -> Nat] /\ DOMAIN r = D /\ D \subseteq Nat /\ \A x \in D : r[x] = q[x]
    BY <1>1
  <1>4. EraseFirst(q) = r
    BY DEF EraseFirst, Restrict
  <1> HIDE DEF D, r
  <1>5. r \in Queues
    BY <1>2, <1>3, QueueShape DEF IsQueue, D
  <1> QED
    BY <1>3, <1>4, <1>5 DEF D

(* InsertJob's search for a time that is not taken ends: n entries cannot
   take n + 1 times.                                                        *)
LEMMA ProcessTimeOk ==
    ASSUME NEW q \in Queues, NEW delay \in Int, now \in Nat
    PROVE  ProcessTime(q, delay) \in Nat \ DOMAIN q
  <1> DEFINE at == now + IF delay < 0 THEN 0 ELSE delay
             n == Cardinality(DOMAIN q)
             free == {m \in at .. at + n : m \notin DOMAIN q}
  <1>1. IsFiniteSet(DOMAIN q) /\ n \in Nat
    BY QueueShape, FS_CardinalityType DEF IsQueue
  <1>2. at \in Nat
    OBVIOUS
  <1> HIDE DEF at, n
  <1>3. free # {}
    <2> SUFFICES ASSUME free = {} PROVE FALSE
      OBVIOUS
    <2>1. at .. at + n \in SUBSET DOMAIN q
      OBVIOUS
    <2>2. Cardinality(at .. at + n) <= n
      BY <1>1, <2>1, FS_Subset DEF n
    <2>3. Cardinality(at .. at + n) = n + 1
      <3>1. at \in Int /\ at + n \in Int /\ ~(at > at + n) /\ (at + n) - at + 1 = n + 1
        BY <1>1, <1>2
      <3> QED
        BY <3>1, FS_Interval
    <2> QED
      BY <1>1, <2>2, <2>3
  <1>4. free \subseteq Nat
    BY <1>1, <1>2
  <1> HIDE DEF free
  <1>5. Min(free) \in free
    BY <1>3, <1>4, MinOfNats
  <1>6. ProcessTime(q, delay) = Min(free)
    BY Zenon DEF ProcessTime, Min, free, at, n
  <1>7. Min(free) \notin DOMAIN q
    BY <1>5 DEF free
  <1> QED
    BY <1>4, <1>5, <1>6, <1>7

(* A queue with one more entry.                                             *)
LEMMA FiledOk ==
    ASSUME NEW q \in Queues, NEW at \in Nat \ DOMAIN q, NEW id \in Nat
    PROVE  LET r == [x \in DOMAIN q \cup {at} |-> IF x = at THEN id ELSE q[x]]
           IN  /\ r \in Queues /\ DOMAIN r = DOMAIN q \cup {at} /\ r[at] = id
               /\ \A x \in DOMAIN q : r[x] = q[x]
               /\ ~Empty(r) /\ First(r) = IF Empty(q) \/ at <= First(q) THEN at ELSE First(q)
  <1> DEFINE D == DOMAIN q \cup {at}
             r == [x \in D |-> IF x = at THEN id ELSE q[x]]
  <1>1. q \in [DOMAIN q -> Nat] /\ DOMAIN q \subseteq Nat /\ IsFiniteSet(DOMAIN q)
    BY QueueShape DEF IsQueue
  <1>2. IsFiniteSet(D)
    BY <1>1, FS_AddElement
  <1>3. r \in [D -> Nat] /\ DOMAIN r = D /\ D \subseteq Nat /\ r[at] = id
        /\ \A x \in DOMAIN q : r[x] = q[x]
    BY <1>1
  <1> HIDE DEF r
  <1>4. r \in Queues /\ ~Empty(r)
    BY <1>2, <1>3, QueueShape DEF IsQueue, Empty
  <1>5. First(r) = IF Empty(q) \/ at <= First(q) THEN at ELSE First(q)
    <2>1. CASE Empty(q)
      <3>1. at \in DOMAIN r /\ \A b \in DOMAIN r : at <= b
        BY <1>3, <2>1 DEF Empty
      <3> QED
        BY <1>4, <2>1, <3>1, FirstUnique
    <2>2. CASE ~Empty(q)
      <3>1. First(q) \in DOMAIN q /\ First(q) \in Nat /\ \A b \in DOMAIN q : First(q) <= b
        BY <2>2, FirstOk
      <3>2. CASE at <= First(q)
        <4>1. at \in DOMAIN r /\ \A b \in DOMAIN r : at <= b
          BY <1>1, <1>3, <3>1, <3>2
        <4> QED
          BY <1>4, <3>2, <4>1, FirstUnique
      <3>3. CASE ~(at <= First(q))
        <4>1. First(q) \in DOMAIN r /\ \A b \in DOMAIN r : First(q) <= b
          BY <1>1, <1>3, <3>1, <3>3
        <4> QED
          BY <1>4, <2>2, <3>3, <4>1, FirstUnique
      <3> QED
        BY <3>2, <3>3
    <2> QED
      BY <2>1, <2>2
  <1> QED
    BY <1>3, <1>4, <1>5 DEF r
-----------------------------------------------------------------------------
(* The fields of one task.                                                  *)

(* A time that is set is the first of the queue topIsJob_ names.            *)
TopNames(k) ==
    k.topProcessUs # -1 =>
        /\ ~Empty(QueueOf(k, k.topIsJob))
        /\ k.topProcessUs = First(QueueOf(k, k.topIsJob))

(* The first entry may be run, ADJUST_US before its time at the earliest.   *)
HasDue(q) == ~Empty(q) /\ First(q) <= now + ADJUST_US

(* What HandleJob finds in a task that the thread has chosen, whatever
   happened to the task since: something is due, if it takes a job the job is
   due, and it takes nothing from an empty map.                             *)
Chosen(k) ==
    /\ HasDue(k.msgQueue) \/ HasDue(k.jobQueue)
    /\ k.topIsJob => HasDue(k.jobQueue)
    /\ ~k.topIsJob => ~Empty(k.msgQueue)

SameButTop(k, u) ==
    /\ u \in TaskStates
    /\ u.runningState = k.runningState /\ u.singleLoop = k.singleLoop
    /\ u.msgQueue = k.msgQueue /\ u.jobQueue = k.jobQueue

(* UpdateTop changes nothing but what is next, and gets that right.         *)
LEMMA UpdateTopOk ==
    ASSUME NEW k \in TaskStates, now \in Nat
    PROVE  /\ SameButTop(k, UpdateTop(k))
           /\ TopNames(UpdateTop(k))
           /\ Chosen(k) => Chosen(UpdateTop(k))
  <1> DEFINE noMsg == Empty(k.msgQueue)
             noJob == k.runningState # "STARTED" \/ Empty(k.jobQueue)
             takeMsg == ~noMsg /\ (\/ noJob
                                   \/ First(k.msgQueue) <= now
                                   \/ First(k.msgQueue) <= First(k.jobQueue))
             u == UpdateTop(k)
  <1>1. k.msgQueue \in Queues /\ k.jobQueue \in Queues /\ k.topIsJob \in BOOLEAN
    BY DEF TaskStates
  <1>2. /\ ~noMsg => First(k.msgQueue) \in Nat
        /\ ~noJob => First(k.jobQueue) \in Nat
    BY <1>1, FirstOk
  <1>3. -1 \in Times /\ Nat \subseteq Times
    BY DEF Times
  <1>4. CASE noMsg /\ noJob
    <2>1. u = [k EXCEPT !.topProcessUs = -1]
      BY <1>4 DEF UpdateTop
    <2>2. SameButTop(k, u) /\ u.topProcessUs = -1 /\ u.topIsJob = k.topIsJob
      BY <1>3, <2>1 DEF SameButTop, TaskStates
    <2> HIDE DEF u
    <2> QED
      BY <2>2 DEF TopNames, Chosen, SameButTop, u
  <1>5. CASE ~(noMsg /\ noJob) /\ takeMsg
    <2>1. u = [k EXCEPT !.topProcessUs = First(k.msgQueue), !.topIsJob = FALSE]
      BY <1>5 DEF UpdateTop
    <2>2. First(k.msgQueue) \in Times
      BY <1>2, <1>3, <1>5
    <2>3. SameButTop(k, u) /\ u.topProcessUs = First(k.msgQueue) /\ u.topIsJob = FALSE
      BY <2>1, <2>2 DEF SameButTop, TaskStates
    <2> HIDE DEF u
    <2>4. TopNames(u)
      BY <1>5, <2>3 DEF TopNames, SameButTop, QueueOf
    <2>5. Chosen(k) => Chosen(u)
      BY <1>5, <2>3 DEF Chosen, SameButTop
    <2> QED
      BY <2>3, <2>4, <2>5 DEF u
  <1>6. CASE ~(noMsg /\ noJob) /\ ~takeMsg
    <2>1. u = [k EXCEPT !.topProcessUs = First(k.jobQueue), !.topIsJob = TRUE]
      BY <1>6 DEF UpdateTop
    <2>2. ~noJob /\ First(k.jobQueue) \in Times
      BY <1>2, <1>3, <1>6
    <2>3. SameButTop(k, u) /\ u.topProcessUs = First(k.jobQueue) /\ u.topIsJob = TRUE
      BY <2>1, <2>2 DEF SameButTop, TaskStates
    <2> HIDE DEF u
    <2>4. TopNames(u)
      BY <2>2, <2>3 DEF TopNames, SameButTop, QueueOf
    <2>5. Chosen(k) => HasDue(k.jobQueue)
      <3>1. ~noMsg => First(k.jobQueue) < First(k.msgQueue)
        BY <1>2, <1>6, <2>2
      <3> QED
        BY <1>2, <2>2, <3>1, TaskAssumption DEF Chosen, HasDue
    <2>6. Chosen(k) => Chosen(u)
      BY <2>3, <2>5 DEF Chosen, SameButTop
    <2> QED
      BY <2>3, <2>4, <2>6 DEF u
  <1> QED
    BY <1>4, <1>5, <1>6

(* k with job id filed at time at, in j: the other queue stays.             *)
FiledAt(k, j, id, at, inJob) ==
    LET q == QueueOf(k, inJob)
        r == QueueOf(j, inJob)
    IN /\ j \in TaskStates
       /\ j.runningState = k.runningState /\ j.singleLoop = k.singleLoop
       /\ QueueOf(j, ~inJob) = QueueOf(k, ~inJob)
       /\ at \in Nat \ DOMAIN q /\ DOMAIN r = DOMAIN q \cup {at} /\ r[at] = id
       /\ \A x \in DOMAIN q : r[x] = q[x]

(* InsertJob files one job, and keeps what is next right.                   *)
LEMMA InsertJobOk ==
    ASSUME NEW k \in TaskStates, NEW id \in Nat, NEW delay \in Int, NEW inJob \in BOOLEAN,
           now \in Nat
    PROVE  LET j == InsertJob(k, id, delay, inJob)
           IN  /\ FiledAt(k, j, id, ProcessTime(QueueOf(k, inJob), delay), inJob)
               /\ TopNames(k) => TopNames(j)
               /\ Chosen(k) => Chosen(j)
  <1> DEFINE q == QueueOf(k, inJob)
             at == ProcessTime(q, delay)
             filed == [x \in DOMAIN q \cup {at} |-> IF x = at THEN id ELSE q[x]]
             added == IF inJob THEN [k EXCEPT !.jobQueue = filed] ELSE [k EXCEPT !.msgQueue = filed]
             j == InsertJob(k, id, delay, inJob)
  <1>1. k.msgQueue \in Queues /\ k.jobQueue \in Queues /\ q \in Queues /\ k.topProcessUs \in Times
    BY DEF TaskStates, QueueOf
  <1>2. at \in Nat \ DOMAIN q
    BY <1>1, ProcessTimeOk
  <1>3. j = IF at <= k.topProcessUs \/ k.topProcessUs = -1 THEN UpdateTop(added) ELSE added
    BY DEF InsertJob
  <1> HIDE DEF at, q, j
  <1>4. /\ filed \in Queues /\ DOMAIN filed = DOMAIN q \cup {at} /\ filed[at] = id
        /\ \A x \in DOMAIN q : filed[x] = q[x]
        /\ ~Empty(filed) /\ First(filed) = IF Empty(q) \/ at <= First(q) THEN at ELSE First(q)
    BY <1>1, <1>2, FiledOk
  <1> HIDE DEF filed
  <1>5. /\ added \in TaskStates /\ added.runningState = k.runningState
        /\ added.singleLoop = k.singleLoop /\ added.topProcessUs = k.topProcessUs
        /\ added.topIsJob = k.topIsJob
        /\ QueueOf(added, inJob) = filed /\ QueueOf(added, ~inJob) = QueueOf(k, ~inJob)
    BY <1>4 DEF TaskStates, QueueOf
  <1> HIDE DEF added
  <1>6. FiledAt(k, added, id, at, inJob)
    BY <1>2, <1>4, <1>5 DEF FiledAt, q
  <1>7. HasDue(q) => HasDue(filed)
    BY <1>1, <1>2, <1>4, FirstOk, TaskAssumption DEF HasDue
  <1>8. Chosen(k) => Chosen(added)
    <2>1. CASE inJob
      BY <1>4, <1>5, <1>7, <2>1 DEF Chosen, QueueOf, q
    <2>2. CASE ~inJob
      BY <1>4, <1>5, <1>7, <2>2 DEF Chosen, QueueOf, q
    <2> QED
      BY <2>1, <2>2
  <1>9. CASE at <= k.topProcessUs \/ k.topProcessUs = -1
    <2>1. SameButTop(added, j) /\ TopNames(j) /\ (Chosen(added) => Chosen(j))
      BY <1>3, <1>5, <1>9, UpdateTopOk
    <2>2. FiledAt(k, j, id, at, inJob)
      BY <1>6, <2>1 DEF FiledAt, SameButTop, QueueOf
    <2> QED
      BY <1>8, <2>1, <2>2 DEF j, at, q
  <1>10. CASE ~(at <= k.topProcessUs \/ k.topProcessUs = -1)
    <2>1. j = added
      BY <1>3, <1>10
    <2>2. TopNames(k) => TopNames(added)
      <3>1. SUFFICES ASSUME TopNames(k) PROVE TopNames(added)
        OBVIOUS
      <3>2. /\ ~Empty(QueueOf(k, k.topIsJob))
            /\ k.topProcessUs = First(QueueOf(k, k.topIsJob))
        BY <1>10, <3>1 DEF TopNames
      <3>3. CASE k.topIsJob = inJob
        <4>1. First(q) = k.topProcessUs /\ ~Empty(q) /\ ~(at <= First(q))
          BY <1>10, <3>2, <3>3 DEF q
        <4> QED
          BY <1>4, <1>5, <3>3, <4>1 DEF TopNames
      <3>4. CASE k.topIsJob # inJob
        <4>1. QueueOf(added, k.topIsJob) = QueueOf(k, k.topIsJob)
          BY <1>5, <3>4 DEF QueueOf, TaskStates
        <4> QED
          BY <1>5, <3>2, <4>1 DEF TopNames
      <3> QED
        BY <3>3, <3>4
    <2> QED
      BY <1>6, <1>8, <2>1, <2>2 DEF j, at, q
  <1> QED
    BY <1>9, <1>10

(* Start, seen by one task.                                                 *)
LEMMA StartedOk ==
    ASSUME NEW k \in TaskStates, now \in Nat
    PROVE  /\ Started(k) \in TaskStates /\ Started(k).runningState = "STARTED"
           /\ Started(k).singleLoop = k.singleLoop
           /\ Started(k).msgQueue = k.msgQueue /\ Started(k).jobQueue = k.jobQueue
           /\ ~k.singleLoop => TopNames(Started(k)) /\ (Chosen(k) => Chosen(Started(k)))
  <1> DEFINE s == [k EXCEPT !.runningState = "STARTED"]
  <1>1. /\ s \in TaskStates /\ s.runningState = "STARTED" /\ s.singleLoop = k.singleLoop
        /\ s.msgQueue = k.msgQueue /\ s.jobQueue = k.jobQueue /\ s.topIsJob = k.topIsJob
    BY DEF TaskStates, RunningState
  <1>2. Started(k) = IF k.singleLoop THEN [s EXCEPT !.topProcessUs = now] ELSE UpdateTop(s)
    BY DEF Started
  <1> HIDE DEF s
  <1>3. SameButTop(s, [s EXCEPT !.topProcessUs = now])
    BY <1>1 DEF SameButTop, TaskStates, Times
  <1>4. SameButTop(s, UpdateTop(s)) /\ TopNames(UpdateTop(s)) /\ (Chosen(s) => Chosen(UpdateTop(s)))
    BY <1>1, UpdateTopOk
  <1>5. Chosen(k) => Chosen(s)
    BY <1>1 DEF Chosen
  <1> QED
    BY <1>1, <1>2, <1>3, <1>4, <1>5 DEF SameButTop

(* Pause and Stop, seen by one task.                                        *)
LEMMA HaltedOk ==
    ASSUME NEW k \in TaskStates, NEW s \in RunningState
    PROVE  /\ Halted(k, s) \in TaskStates /\ Halted(k, s).runningState = s
           /\ Halted(k, s).singleLoop = k.singleLoop
           /\ Halted(k, s).msgQueue = k.msgQueue /\ Halted(k, s).jobQueue = k.jobQueue
           /\ TopNames(Halted(k, s)) /\ (Chosen(k) => Chosen(Halted(k, s)))
  <1> DEFINE h == Halted(k, s)
  <1>1. /\ h \in TaskStates /\ h.runningState = s /\ h.singleLoop = k.singleLoop
        /\ h.msgQueue = k.msgQueue /\ h.jobQueue = k.jobQueue /\ h.topIsJob = k.topIsJob
        /\ h.topProcessUs = -1
    BY DEF Halted, TaskStates, Times
  <1> HIDE DEF h
  <1>2. TopNames(h) /\ (Chosen(k) => Chosen(h))
    BY <1>1 DEF TopNames, Chosen
  <1> QED
    BY <1>1, <1>2 DEF h

(* A new time, or none, for one task.                                       *)
LEMMA RetimedOk ==
    ASSUME NEW k \in TaskStates, NEW a \in Times
    PROVE  LET u == [k EXCEPT !.topProcessUs = a]
           IN  SameButTop(k, u) /\ u.topProcessUs = a /\ u.topIsJob = k.topIsJob
  BY DEF SameButTop, TaskStates

(* singleLoop_ is written.                                                  *)
LEMMA SingleLoopOk ==
    ASSUME NEW k \in TaskStates, NEW b \in BOOLEAN
    PROVE  LET u == [k EXCEPT !.singleLoop = b]
           IN  /\ u \in TaskStates /\ u.singleLoop = b /\ u.runningState = k.runningState
               /\ u.msgQueue = k.msgQueue /\ u.jobQueue = k.jobQueue
               /\ u.topProcessUs = k.topProcessUs /\ u.topIsJob = k.topIsJob
  BY DEF TaskStates
-----------------------------------------------------------------------------
(* The types of the state.                                                  *)

CallStates ==
    [pc : {"idle", "notify", "lockJob", "locked", "reply", "replySleep", "prioSubmit",
           "prioRestore", "exit", "reset", "join", "deinit"},
     op : {None, "start", "pauseAsync", "stopAsync", "pause", "stop", "delay", "submit",
           "submitOnce", "priority", "deinit"},
     task : Tasks \cup {None}, at : Times, inJobQueue : BOOLEAN, saved : BOOLEAN]

WorkerStates ==
    [pc : {"scan", "sleep", "exited", "picked", "locked", "run", "halting", "after", "lockJob",
           "undefined"},
     task : Tasks \cup {None}, single : BOOLEAN, kind : {None, "loop", "job", "msg"},
     id : Nat, due : Times, until : Times, halting : Tasks \cup {None}]

(* A call that is under way has a name and a task; only the signal after a
   submission that nobody waits for has neither.                            *)
Fits(pc, op) ==
    /\ pc \in {"lockJob", "locked"} => op \in {"pause", "stop"}
    /\ pc \in {"reply", "replySleep"} => op \in {"submit", "submitOnce"}
    /\ pc \in {"prioSubmit", "prioRestore"} => op = "priority"
    /\ pc \in {"exit", "reset", "join", "deinit"} => op = "deinit"

CallOk(k) ==
    /\ k \in CallStates /\ Fits(k.pc, k.op)
    /\ k.pc \notin {"idle", "notify"} => k.op # None
    /\ k.op # None => k.task \in Tasks

(* So has the thread between choosing one and the end of HandleJob.         *)
WorkerOk(w) ==
    /\ w \in WorkerStates
    /\ w.pc \notin {"scan", "sleep", "exited"} => w.task \in Tasks
    /\ w.pc = "halting" => w.halting \in Tasks

Typed ==
    /\ now \in Nat /\ submitted \in Nat /\ budget \in Nat
    /\ task \in [Tasks -> TaskStates]
    /\ taskList \in Seq(Tasks)
    /\ threadExit \in BOOLEAN /\ loop \in BOOLEAN
    /\ worker \in WorkerStates /\ WorkerOk(worker)
    /\ jobMutex \in [Tasks -> Callers \cup {None, "worker"}]
    /\ calls \in [Callers -> CallStates] /\ \A c \in Callers : CallOk(calls[c])
    /\ ran \subseteq Nat

(* One caller is somewhere else in its call.                                *)
LEMMA CallsTyped ==
    ASSUME Typed, NEW c \in Callers, NEW k, CallOk(k), calls' = [calls EXCEPT ![c] = k]
    PROVE  /\ calls' \in [Callers -> CallStates] /\ \A d \in Callers : CallOk(calls'[d])
           /\ calls'[c] = k /\ \A d \in Callers : d # c => calls'[d] = calls[d]
  BY DEF Typed, CallOk

(* One task's fields change.                                                *)
LEMMA TasksTyped ==
    ASSUME Typed, NEW t \in Tasks, NEW k \in TaskStates, task' = [task EXCEPT ![t] = k]
    PROVE  /\ task' \in [Tasks -> TaskStates]
           /\ task'[t] = k /\ \A u \in Tasks : u # t => task'[u] = task[u]
  BY DEF Typed

(* The shapes of the records the calls write.                               *)
LEMMA IdleOk == CallOk(IdleCall) /\ IdleCall.pc = "idle" /\ IdleCall.op = None /\ IdleCall.task = None
  BY DEF CallOk, Fits, IdleCall, CallStates, Times, None

\* A call that goes on to its next section is a legal call record.
LEMMA CallAt ==
    ASSUME NEW k, k \in CallStates, k.op # None, k.task \in Tasks,
           NEW pc \in {"notify", "locked", "reply", "replySleep", "prioRestore", "reset", "join", "deinit"},
           Fits(pc, k.op)
    PROVE  /\ CallOk([k EXCEPT !.pc = pc]) /\ [k EXCEPT !.pc = pc].pc = pc
           /\ [k EXCEPT !.pc = pc].op = k.op /\ [k EXCEPT !.pc = pc].task = k.task
  BY DEF CallOk, Fits, CallStates

\* A notification turns a sleeping thread into a scanning one.
LEMMA WokenOk ==
    ASSUME NEW w, WorkerOk(w)
    PROVE  WorkerOk(Woken(w)) /\ (w.pc # "sleep" => Woken(w) = w) /\ Woken(w).pc # "sleep"
           /\ (w.pc = "sleep" => Woken(w) = Scanning)
  BY DEF WorkerOk, WorkerStates, Woken, Scanning, Times

\* The state in which the thread looks for a job is a legal one.
LEMMA ScanningOk == WorkerOk(Scanning) /\ Scanning.pc = "scan" /\ Scanning.task = None
  BY DEF WorkerOk, WorkerStates, Scanning, Times
-----------------------------------------------------------------------------
(* What each call does, in terms of the shapes above.                       *)

(* Caller c is now at r in its call.                                        *)
Turns(c, r) ==
    /\ CallOk(r)
    /\ calls' \in [Callers -> CallStates] /\ \A d \in Callers : CallOk(calls'[d])
    /\ calls'[c] = r /\ \A d \in Callers : d # c => calls'[d] = calls[d]

(* Task t is now k.                                                         *)
Sets(t, k) ==
    /\ k \in TaskStates
    /\ task' \in [Tasks -> TaskStates]
    /\ task'[t] = k /\ \A u \in Tasks : u # t => task'[u] = task[u]

(* Both: a section of caller c on task t.                                   *)
Writes(c, t, k, r) == Sets(t, k) /\ Turns(c, r)

\* Replacing one call record by a legal one.
LEMMA TurnsOk ==
    ASSUME Typed, NEW c \in Callers, NEW r, CallOk(r), calls' = [calls EXCEPT ![c] = r]
    PROVE  Turns(c, r)
  BY CallsTyped DEF Turns

\* Replacing the state of one task by a legal one.
LEMMA SetsOk ==
    ASSUME Typed, NEW t \in Tasks, NEW k \in TaskStates, task' = [task EXCEPT ![t] = k]
    PROVE  Sets(t, k)
  BY TasksTyped DEF Sets

\* Replacing one call record and the state of one task together.
LEMMA WritesOk ==
    ASSUME Typed, NEW c \in Callers, NEW t \in Tasks, NEW k \in TaskStates, NEW r, CallOk(r),
           task' = [task EXCEPT ![t] = k], calls' = [calls EXCEPT ![c] = r]
    PROVE  Writes(c, t, k, r)
  BY TurnsOk, SetsOk DEF Writes

(* A call at its signal.                                                    *)
LEMMA NotifyingOk ==
    ASSUME NEW r, r \in CallStates, r.op # None, r.task \in Tasks
    PROVE  LET n == [r EXCEPT !.pc = "notify"]
           IN  CallOk(n) /\ n.pc = "notify" /\ n.op = r.op /\ n.task = r.task
  BY CallAt DEF Fits

(* A record of the state before.                                            *)
LEMMA TypedCall ==
    ASSUME Typed, NEW c \in Callers
    PROVE  /\ calls[c] \in CallStates /\ CallOk(calls[c])
           /\ calls[c].pc \notin {"idle", "notify"} => calls[c].op # None
           /\ Fits(calls[c].pc, calls[c].op)
           /\ calls[c].op # None => calls[c].task \in Tasks /\ task[calls[c].task] \in TaskStates
  BY DEF Typed, CallOk

(* Start.                                                                   *)
LEMMA StartEffect ==
    ASSUME Typed, NEW c \in Callers, NEW t \in Tasks, Start(c, t)
    PROVE  \E r : /\ Writes(c, t, Started(task[t]), r)
                  /\ r.pc = "notify" /\ r.op = "start" /\ r.task = t
  <1> DEFINE k == Started(task[t])
             r == [IdleCall EXCEPT !.op = "start", !.task = t]
             n == [r EXCEPT !.pc = "notify"]
  <1>1. task[t] \in TaskStates /\ now \in Nat
    BY DEF Typed
  <1>2. k \in TaskStates
    BY <1>1, StartedOk
  <1>3. r \in CallStates /\ r.op = "start" /\ r.op # None /\ r.task = t
    BY DEF IdleCall, CallStates, Times, None
  <1>4. task' = [task EXCEPT ![t] = k] /\ calls' = [calls EXCEPT ![c] = n]
    BY DEF Start, Section
  <1> HIDE DEF k, r
  <1>5. CallOk(n) /\ n.pc = "notify" /\ n.op = "start" /\ n.task = t
    BY <1>3, NotifyingOk
  <1> HIDE DEF n
  <1>6. Writes(c, t, k, n)
    BY <1>2, <1>4, <1>5, WritesOk
  <1> QED
    BY <1>5, <1>6 DEF k

(* PauseAsync and StopAsync.                                                *)
LEMMA HaltAsyncEffect ==
    ASSUME Typed, NEW c \in Callers, NEW t \in Tasks, NEW op \in {"pauseAsync", "stopAsync"},
           NEW s \in RunningState, HaltAsync(c, t, op, s)
    PROVE  \/ \E r : /\ Writes(c, t, Halted(task[t], s), r)
                     /\ r.pc = "notify" /\ r.op = op /\ r.task = t
           \/ UNCHANGED <<task, calls>>
  <1> DEFINE k == Halted(task[t], s)
             r == [IdleCall EXCEPT !.op = op, !.task = t]
             n == [r EXCEPT !.pc = "notify"]
  <1>1. task[t] \in TaskStates
    BY DEF Typed
  <1>2. k \in TaskStates
    BY <1>1, HaltedOk
  <1>3. r \in CallStates /\ r.op = op /\ r.op # None /\ r.task = t
    BY DEF IdleCall, CallStates, Times, None
  <1>4. \/ task' = [task EXCEPT ![t] = k] /\ calls' = [calls EXCEPT ![c] = n]
        \/ UNCHANGED <<task, calls>>
    BY DEF HaltAsync, Section
  <1> HIDE DEF k, r
  <1>5. CallOk(n) /\ n.pc = "notify" /\ n.op = op /\ n.task = t
    BY <1>3, NotifyingOk
  <1> HIDE DEF n
  <1>6. ASSUME task' = [task EXCEPT ![t] = k], calls' = [calls EXCEPT ![c] = n]
        PROVE  Writes(c, t, k, n)
    BY <1>2, <1>5, <1>6, WritesOk
  <1> QED
    BY <1>4, <1>5, <1>6 DEF k

(* Pause and Stop from another thread: the call, its wait and its section.  *)
LEMMA HaltEffect ==
    ASSUME Typed, NEW c \in Callers, NEW t \in Tasks, NEW op \in {"pause", "stop"}, Halt(c, t, op)
    PROVE  \E r : Turns(c, r) /\ r.pc = "lockJob" /\ r.op = op /\ r.task = t
  <1> DEFINE r == [IdleCall EXCEPT !.pc = "lockJob", !.op = op, !.task = t]
  <1>1. CallOk(r) /\ r.pc = "lockJob" /\ r.op = op /\ r.task = t
    BY DEF CallOk, Fits, IdleCall, CallStates, Times, None
  <1>2. calls' = [calls EXCEPT ![c] = r]
    BY DEF Halt
  <1> HIDE DEF r
  <1> QED
    BY <1>1, <1>2, TurnsOk

(* A caller goes on to pc.                                                  *)
LEMMA PcEffect ==
    ASSUME Typed, NEW c \in Callers, calls[c].pc \notin {"idle", "notify"},
           NEW pc \in {"notify", "locked", "reply", "replySleep", "prioRestore", "reset", "join", "deinit"},
           Fits(pc, calls[c].op), calls' = [calls EXCEPT ![c].pc = pc]
    PROVE  \E r : Turns(c, r) /\ r.pc = pc /\ r.op = calls[c].op /\ r.task = calls[c].task
  <1> DEFINE r == [calls[c] EXCEPT !.pc = pc]
  <1>1. calls[c] \in CallStates /\ calls[c].op # None /\ calls[c].task \in Tasks
    BY TypedCall
  <1>2. CallOk(r) /\ r.pc = pc /\ r.op = calls[c].op /\ r.task = calls[c].task
    BY <1>1, CallAt
  <1>3. calls' = [calls EXCEPT ![c] = r]
    OBVIOUS
  <1> HIDE DEF r
  <1> QED
    BY <1>2, <1>3, TurnsOk

(* DeInit on a singleton's thread goes on.                                  *)
LEMMA DeInitStepEffect ==
    ASSUME Typed, NEW c \in Callers, Exit(c) \/ ResetLoop(c) \/ Join(c)
    PROVE  /\ calls[c].pc \in {"exit", "reset", "join"}
           /\ \E r : /\ Turns(c, r) /\ r.op = "deinit" /\ r.task = calls[c].task
                     /\ r.pc \in {"reset", "join", "deinit"}
                     /\ Exit(c) => r.pc = "reset"
                     /\ ResetLoop(c) => r.pc = "join"
                     /\ Join(c) => r.pc = "deinit"
  <1>1. calls[c].pc \in {"exit", "reset", "join"}
    BY DEF Exit, ResetLoop, Join
  <1>2. /\ calls[c].op = "deinit" /\ calls[c].pc \notin {"idle", "notify"}
        /\ Fits("reset", calls[c].op) /\ Fits("join", calls[c].op) /\ Fits("deinit", calls[c].op)
    BY <1>1, TypedCall DEF Fits
  <1>3. CASE Exit(c)
    <2>1. calls' = [calls EXCEPT ![c].pc = "reset"] /\ ~ResetLoop(c) /\ ~Join(c)
      BY <1>3 DEF Exit, ResetLoop, Join
    <2>2. \E r : Turns(c, r) /\ r.pc = "reset" /\ r.op = calls[c].op /\ r.task = calls[c].task
      BY <1>2, <2>1, PcEffect
    <2> QED
      BY <1>1, <1>2, <2>1, <2>2
  <1>4. CASE ResetLoop(c)
    <2>1. calls' = [calls EXCEPT ![c].pc = "join"] /\ ~Exit(c) /\ ~Join(c)
      BY <1>4 DEF Exit, ResetLoop, Join
    <2>2. \E r : Turns(c, r) /\ r.pc = "join" /\ r.op = calls[c].op /\ r.task = calls[c].task
      BY <1>2, <2>1, PcEffect
    <2> QED
      BY <1>1, <1>2, <2>1, <2>2
  <1>5. CASE Join(c)
    <2>1. calls' = [calls EXCEPT ![c].pc = "deinit"] /\ ~Exit(c) /\ ~ResetLoop(c)
      BY <1>5 DEF Exit, ResetLoop, Join
    <2>2. \E r : Turns(c, r) /\ r.pc = "deinit" /\ r.op = calls[c].op /\ r.task = calls[c].task
      BY <1>2, <2>1, PcEffect
    <2> QED
      BY <1>1, <1>2, <2>1, <2>2
  <1> QED
    BY <1>3, <1>4, <1>5

(* A call ends.                                                             *)
LEMMA IdleEffect ==
    ASSUME Typed, NEW c \in Callers, calls' = [calls EXCEPT ![c] = IdleCall]
    PROVE  Turns(c, IdleCall)
  BY IdleOk, TurnsOk

\* The section of Pause and Stop under stateMutex_.
LEMMA HaltSectionEffect ==
    ASSUME Typed, NEW c \in Callers, HaltSection(c)
    PROVE  LET t == calls[c].task
               s == IF calls[c].op = "pause" THEN "PAUSED" ELSE "STOPPED"
           IN  /\ t \in Tasks
               /\ \/ /\ jobMutex' = jobMutex
                     /\ \E r : /\ Writes(c, t, Halted(task[t], s), r)
                               /\ r.pc = "notify" /\ r.op = calls[c].op /\ r.task = t
                  \/ /\ ~Haltable(task[t], s) /\ task' = task /\ Turns(c, IdleCall)
                     /\ jobMutex' = [jobMutex EXCEPT ![t] = None]
  <1> DEFINE t == calls[c].task
             s == IF calls[c].op = "pause" THEN "PAUSED" ELSE "STOPPED"
             k == Halted(task[t], s)
             n == [calls[c] EXCEPT !.pc = "notify"]
  <1>1. /\ calls[c] \in CallStates /\ calls[c].op # None /\ t \in Tasks
        /\ task[t] \in TaskStates /\ s \in RunningState
    BY TypedCall DEF HaltSection, RunningState
  <1>2. k \in TaskStates
    BY <1>1, HaltedOk
  <1>3. CallOk(n) /\ n.pc = "notify" /\ n.op = calls[c].op /\ n.task = t
    BY <1>1, NotifyingOk
  <1>4. \/ /\ task' = [task EXCEPT ![t] = k] /\ calls' = [calls EXCEPT ![c] = n]
           /\ jobMutex' = jobMutex
        \/ /\ ~Haltable(task[t], s) /\ task' = task /\ calls' = [calls EXCEPT ![c] = IdleCall]
           /\ jobMutex' = [jobMutex EXCEPT ![t] = None]
    BY DEF HaltSection, Section
  <1>5. CASE /\ task' = [task EXCEPT ![t] = k] /\ calls' = [calls EXCEPT ![c] = n]
             /\ jobMutex' = jobMutex
    <2> HIDE DEF n, k, s
    <2>1. Writes(c, t, k, n)
      BY <1>1, <1>2, <1>3, <1>5, WritesOk
    <2> QED
      BY <1>1, <1>3, <1>5, <2>1 DEF k, s
  <1>6. CASE /\ ~Haltable(task[t], s) /\ task' = task /\ calls' = [calls EXCEPT ![c] = IdleCall]
             /\ jobMutex' = [jobMutex EXCEPT ![t] = None]
    BY <1>1, <1>6, IdleEffect
  <1> QED
    BY <1>4, <1>5, <1>6

(* UpdateDelayTime.                                                         *)
LEMMA UpdateDelayTimeEffect ==
    ASSUME Typed, NEW c \in Callers, NEW t \in Tasks, UpdateDelayTime(c, t)
    PROVE  \E r, k : /\ Writes(c, t, k, r)
                     /\ SameButTop(task[t], k) /\ task[t].singleLoop
                     /\ r.pc = "notify" /\ r.op = "delay" /\ r.task = t
  <1> DEFINE r == [IdleCall EXCEPT !.op = "delay", !.task = t]
             n == [r EXCEPT !.pc = "notify"]
  <1>1. task[t] \in TaskStates /\ now \in Nat
    BY DEF Typed
  <1>2. PICK d \in Delays \cap Nat : Section(c, t, Delayed(task[t], d), TRUE, r)
    BY DEF UpdateDelayTime
  <1> DEFINE k == [task[t] EXCEPT !.topProcessUs = now + d]
  <1>3. SameButTop(task[t], k)
    <2>1. now + d \in Times
      BY <1>1 DEF Times
    <2> QED
      BY <1>1, <2>1, RetimedOk
  <1>4. k \in TaskStates
    BY <1>3 DEF SameButTop
  <1>5. r \in CallStates /\ r.op = "delay" /\ r.op # None /\ r.task = t
    BY DEF IdleCall, CallStates, Times, None
  <1>6. task' = [task EXCEPT ![t] = k] /\ calls' = [calls EXCEPT ![c] = n]
    BY <1>2 DEF Section, Delayed
  <1> HIDE DEF k, r
  <1>7. CallOk(n) /\ n.pc = "notify" /\ n.op = "delay" /\ n.task = t
    BY <1>5, NotifyingOk
  <1> HIDE DEF n
  <1>8. Writes(c, t, k, n) /\ task[t].singleLoop
    BY <1>4, <1>6, <1>7, WritesOk DEF UpdateDelayTime
  <1> QED
    BY <1>3, <1>7, <1>8

(* SubmitJob and SubmitJobOnce: a caller is at its signal when the task's
   time has changed.                                                        *)
LEMMA SubmitEffect ==
    ASSUME Typed, NEW c \in Callers, NEW t \in Tasks, NEW op \in {"submit", "submitOnce"},
           NEW wait \in BOOLEAN, Submit(c, t, op, wait)
    PROVE  \E d \in Int : \E r :
              LET inJob == op = "submit"
                  k == InsertJob(task[t], submitted + 1, d, inJob)
              IN /\ Writes(c, t, k, r) /\ r.pc \in {"idle", "notify", "reply"} /\ r.op \in {None, op}
                 /\ k.topProcessUs # task[t].topProcessUs => r.pc = "notify"
                 /\ r.op # None => r.task = t
  <1> DEFINE inJob == op = "submit"
             K(d) == InsertJob(task[t], submitted + 1, d, inJob)
             At(d) == ProcessTime(QueueOf(task[t], inJob), d)
             Then(d) == IF wait THEN [IdleCall EXCEPT !.pc = "reply", !.op = op, !.task = t,
                                                   !.at = At(d), !.inJobQueue = inJob]
                                ELSE IdleCall
  <1>1. task[t] \in TaskStates /\ now \in Nat /\ submitted + 1 \in Nat
    BY DEF Typed
  <1>2. PICK d \in Delays : Section(c, t, K(d), K(d).topProcessUs # task[t].topProcessUs, Then(d))
    BY DEF Submit
  <1>3. d \in Int
    BY TaskAssumption
  <1> DEFINE k == K(d)
             n == IF k.topProcessUs # task[t].topProcessUs THEN [Then(d) EXCEPT !.pc = "notify"]
                  ELSE Then(d)
  <1>4. task' = [task EXCEPT ![t] = k] /\ calls' = [calls EXCEPT ![c] = n]
    BY <1>2 DEF Section
  <1>5. FiledAt(task[t], k, submitted + 1, At(d), inJob)
    BY <1>1, <1>3, InsertJobOk
  <1>6. k \in TaskStates /\ At(d) \in Nat
    BY <1>5 DEF FiledAt
  <1> HIDE DEF k, At
  <1>7. /\ CallOk(n) /\ n.pc \in {"idle", "notify", "reply"} /\ n.op \in {None, op}
        /\ k.topProcessUs # task[t].topProcessUs => n.pc = "notify"
        /\ n.op # None => n.task = t
    BY <1>6 DEF CallOk, Fits, IdleCall, CallStates, Times, None
  <1> HIDE DEF n
  <1>8. Writes(c, t, k, n)
    BY <1>4, <1>6, <1>7, WritesOk
  <1> QED
    BY <1>3, <1>7, <1>8 DEF k

(* The three parts of UpdateThreadPriority.                                 *)
LEMMA UpdateThreadPriorityEffect ==
    ASSUME Typed, NEW c \in Callers, NEW t \in Tasks, UpdateThreadPriority(c, t)
    PROVE  \E r : /\ Writes(c, t, [task[t] EXCEPT !.singleLoop = FALSE], r)
                  /\ r.pc = "prioSubmit" /\ r.op = "priority" /\ r.task = t
                  /\ r.saved = task[t].singleLoop
  <1> DEFINE r == [IdleCall EXCEPT !.pc = "prioSubmit", !.op = "priority",
                                         !.task = t, !.saved = task[t].singleLoop]
             k == [task[t] EXCEPT !.singleLoop = FALSE]
  <1>1. task[t] \in TaskStates
    BY DEF Typed
  <1>2. k \in TaskStates
    BY <1>1, SingleLoopOk
  <1>3. task' = [task EXCEPT ![t] = k] /\ calls' = [calls EXCEPT ![c] = r]
    BY DEF UpdateThreadPriority
  <1>4. task[t].singleLoop \in BOOLEAN
    BY <1>1 DEF TaskStates
  <1> HIDE DEF k
  <1>5. /\ CallOk(r) /\ r.pc = "prioSubmit" /\ r.op = "priority" /\ r.task = t
        /\ r.saved = task[t].singleLoop
    BY <1>4 DEF CallOk, Fits, IdleCall, CallStates, Times, None
  <1> HIDE DEF r
  <1>6. Writes(c, t, k, r)
    BY <1>2, <1>3, <1>5, WritesOk
  <1> QED
    BY <1>5, <1>6 DEF k

\* SubmitJobOnce on behalf of UpdateThreadPriority.
LEMMA PrioritySubmitEffect ==
    ASSUME Typed, NEW c \in Callers, PrioritySubmit(c)
    PROVE  LET t == calls[c].task
               k == InsertJob(task[t], submitted + 1, 0, FALSE)
           IN /\ t \in Tasks
              /\ \E r : /\ Writes(c, t, k, r)
                        /\ r.op = calls[c].op /\ r.task = t /\ r.saved = calls[c].saved
                        /\ r.pc \in {"notify", "prioRestore"}
                        /\ k.topProcessUs # task[t].topProcessUs => r.pc = "notify"
  <1> DEFINE t == calls[c].task
             k == InsertJob(task[t], submitted + 1, 0, FALSE)
             p == [calls[c] EXCEPT !.pc = "prioRestore"]
             n == IF k.topProcessUs # task[t].topProcessUs THEN [p EXCEPT !.pc = "notify"] ELSE p
  <1>1. /\ calls[c] \in CallStates /\ calls[c].op # None /\ t \in Tasks /\ task[t] \in TaskStates
        /\ now \in Nat /\ submitted + 1 \in Nat /\ calls[c].op = "priority"
    BY TypedCall DEF Typed, PrioritySubmit, Fits
  <1>2. FiledAt(task[t], k, submitted + 1, ProcessTime(QueueOf(task[t], FALSE), 0), FALSE)
    <2>1. 0 \in Int /\ FALSE \in BOOLEAN
      OBVIOUS
    <2> QED
      BY <1>1, <2>1, InsertJobOk, Zenon
  <1>3. k \in TaskStates
    BY <1>2 DEF FiledAt
  <1>4. task' = [task EXCEPT ![t] = k] /\ calls' = [calls EXCEPT ![c] = n]
    BY DEF PrioritySubmit, Section
  <1> HIDE DEF k
  <1>5. /\ CallOk(n) /\ n.op = calls[c].op /\ n.task = t /\ n.saved = calls[c].saved
        /\ n.pc \in {"notify", "prioRestore"}
        /\ k.topProcessUs # task[t].topProcessUs => n.pc = "notify"
    BY <1>1 DEF CallOk, Fits, CallStates
  <1> HIDE DEF n
  <1>6. Writes(c, t, k, n)
    BY <1>1, <1>3, <1>4, <1>5, WritesOk
  <1> QED
    BY <1>1, <1>5, <1>6 DEF k

\* UpdateThreadPriority puts singleLoop_ back.
LEMMA PriorityRestoreEffect ==
    ASSUME Typed, NEW c \in Callers, PriorityRestore(c)
    PROVE  LET t == calls[c].task
           IN /\ t \in Tasks /\ calls[c].saved \in BOOLEAN
              /\ Writes(c, t, [task[t] EXCEPT !.singleLoop = calls[c].saved], IdleCall)
  <1> DEFINE t == calls[c].task
             k == [task[t] EXCEPT !.singleLoop = calls[c].saved]
  <1>1. t \in Tasks /\ task[t] \in TaskStates /\ calls[c].saved \in BOOLEAN
    BY TypedCall DEF PriorityRestore, CallStates
  <1>2. k \in TaskStates
    BY <1>1, SingleLoopOk
  <1>3. task' = [task EXCEPT ![t] = k] /\ calls' = [calls EXCEPT ![c] = IdleCall]
    BY DEF PriorityRestore
  <1> HIDE DEF k
  <1>4. Writes(c, t, k, IdleCall)
    BY <1>1, <1>2, <1>3, IdleOk, WritesOk
  <1> QED
    BY <1>1, <1>4 DEF k

(* The waiter looks at its entry.                                           *)
LEMMA AwaitReplyEffect ==
    ASSUME Typed, NEW c \in Callers, AwaitReply(c)
    PROVE  \E r : /\ Turns(c, r) /\ r.pc \in {"replySleep", "idle"} /\ r.op \in {None, calls[c].op}
                  /\ r.op # None => r.task = calls[c].task
  <1>1. \/ calls' = [calls EXCEPT ![c] = [calls[c] EXCEPT !.pc = "replySleep"]]
        \/ calls' = [calls EXCEPT ![c] = IdleCall]
    BY DEF AwaitReply
  <1>2. calls[c].pc = "reply" /\ calls[c] \in CallStates /\ calls[c].op # None /\ calls[c].task \in Tasks
        /\ Fits("replySleep", calls[c].op)
    BY TypedCall DEF AwaitReply, Fits
  <1> DEFINE r == [calls[c] EXCEPT !.pc = "replySleep"]
  <1>3. CallOk(r) /\ r.pc = "replySleep" /\ r.op = calls[c].op /\ r.task = calls[c].task
    BY <1>2, CallAt
  <1> HIDE DEF r
  <1>4. CASE calls' = [calls EXCEPT ![c] = r]
    BY <1>3, <1>4, TurnsOk
  <1>5. CASE calls' = [calls EXCEPT ![c] = IdleCall]
    BY <1>5, IdleOk, IdleEffect
  <1> QED
    BY <1>1, <1>4, <1>5 DEF r

(* The signal: the thread is not asleep afterwards.                         *)
LEMMA NotifyEffect ==
    ASSUME Typed, NEW c \in Callers, Notify(c)
    PROVE  \E r : /\ Turns(c, r) /\ r.pc \in {"idle", "reply", "prioRestore"}
                  /\ r.op \in {None, calls[c].op} /\ (r.op # None => r.task = calls[c].task)
                  /\ r.pc = "prioRestore" => r.saved = calls[c].saved
                  /\ r.pc # "idle" => calls[c].op \in {"submit", "submitOnce", "priority"}
  <1> DEFINE op == calls[c].op
             r == CASE op \in {"submit", "submitOnce"} -> [calls[c] EXCEPT !.pc = "reply"]
                    [] op = "priority" -> [calls[c] EXCEPT !.pc = "prioRestore"]
                    [] OTHER -> IdleCall
  <1>1. calls' = [calls EXCEPT ![c] = r]
    BY DEF Notify
  <1>2. calls[c] \in CallStates /\ (op # None => calls[c].task \in Tasks)
    BY TypedCall
  <1>3. /\ CallOk(r) /\ r.pc \in {"idle", "reply", "prioRestore"}
        /\ r.op \in {None, calls[c].op} /\ (r.op # None => r.task = calls[c].task)
        /\ r.pc = "prioRestore" => r.saved = calls[c].saved
        /\ r.pc # "idle" => calls[c].op \in {"submit", "submitOnce", "priority"}
    <2>1. CASE op \in {"submit", "submitOnce"}
      <3>1. r = [calls[c] EXCEPT !.pc = "reply"]
        BY <2>1
      <3> HIDE DEF r
      <3> QED
        BY <1>2, <2>1, <3>1 DEF CallOk, Fits, CallStates, None
    <2>2. CASE op = "priority"
      <3>1. r = [calls[c] EXCEPT !.pc = "prioRestore"]
        BY <2>2
      <3> HIDE DEF r
      <3> QED
        BY <1>2, <2>2, <3>1 DEF CallOk, Fits, CallStates, None
    <2>3. CASE op \notin {"submit", "submitOnce", "priority"}
      <3>1. r = IdleCall
        BY <2>3
      <3> HIDE DEF r
      <3> QED
        BY <3>1, IdleOk
    <2> QED
      BY <2>1, <2>2, <2>3
  <1> HIDE DEF r
  <1> QED
    BY <1>1, <1>3, TurnsOk

(* A list without one of its elements.                                      *)
LEMMA RemoveRange ==
    ASSUME NEW T, NEW s \in Seq(T), NEW i \in DOMAIN s
    PROVE  /\ RemoveAt(s, i) \in Seq(T)
           /\ Range(RemoveAt(s, i)) \subseteq Range(s)
           /\ \A x \in Range(s) : x = s[i] \/ x \in Range(RemoveAt(s, i))
  <1> DEFINE r == RemoveAt(s, i)
  <1>1. DOMAIN s = 1 .. Len(s) /\ Len(s) \in Nat /\ i \in 1 .. Len(s)
    OBVIOUS
  <1>2. /\ r \in Seq(T) /\ Len(r) = Len(s) - 1
        /\ \A j \in 1 .. Len(s) - 1 : r[j] = IF j < i THEN s[j] ELSE s[j + 1]
    BY <1>1, RemoveAtElements
  <1> HIDE DEF r
  <1>3. DOMAIN r = 1 .. Len(s) - 1
    BY <1>2
  <1>4. ASSUME NEW x \in Range(r) PROVE x \in Range(s)
    <2>1. PICK j \in 1 .. Len(s) - 1 : r[j] = x
      BY <1>3 DEF Range
    <2>2. j \in 1 .. Len(s) /\ j + 1 \in 1 .. Len(s)
      BY <1>1
    <2> QED
      BY <1>1, <1>2, <2>1, <2>2 DEF Range
  <1>5. ASSUME NEW x \in Range(s), x # s[i] PROVE x \in Range(r)
    <2>1. PICK j \in 1 .. Len(s) : s[j] = x
      BY <1>1 DEF Range
    <2>2. CASE j < i
      <3>1. j \in 1 .. Len(s) - 1 /\ r[j] = x
        BY <1>1, <1>2, <2>1, <2>2
      <3> QED
        BY <1>3, <3>1 DEF Range
    <2>3. CASE j > i
      <3>1. j - 1 \in 1 .. Len(s) - 1 /\ ~(j - 1 < i) /\ (j - 1) + 1 = j
        BY <1>1, <2>3
      <3>2. r[j - 1] = x
        BY <1>2, <2>1, <3>1
      <3> QED
        BY <1>3, <3>1, <3>2 DEF Range
    <2> QED
      BY <1>1, <1>5, <2>1, <2>2, <2>3
  <1> QED
    BY <1>2, <1>4, <1>5 DEF r

(* The destructor's first part.                                             *)
LEMMA DeInitEffect ==
    ASSUME Typed, NEW c \in Callers, NEW t \in Tasks, DeInit(c, t)
    PROVE  /\ \E r : /\ Turns(c, r) /\ r.op = "deinit" /\ r.task = t
                     /\ r.pc = IF Singleton THEN "exit" ELSE "deinit"
           /\ taskList' \in Seq(Tasks) /\ Range(taskList') \subseteq Range(taskList)
           /\ \A x \in Range(taskList) : x = t \/ x \in Range(taskList')
  <1> DEFINE r == [IdleCall EXCEPT !.op = "deinit", !.task = t,
                                   !.pc = IF Singleton THEN "exit" ELSE "deinit"]
  <1>1. /\ CallOk(r) /\ r.op = "deinit" /\ r.task = t
        /\ r.pc = IF Singleton THEN "exit" ELSE "deinit"
    BY TaskAssumption DEF CallOk, Fits, IdleCall, CallStates, Times, None
  <1>2. calls' = [calls EXCEPT ![c] = r]
    BY DEF DeInit
  <1> HIDE DEF r
  <1>3. Turns(c, r)
    BY <1>1, <1>2, TurnsOk
  <1>4. PICK i \in DOMAIN taskList : taskList[i] = t /\ taskList' = RemoveAt(taskList, i)
    BY DEF DeInit
  <1>5. taskList \in Seq(Tasks)
    BY DEF Typed
  <1>6. /\ taskList' \in Seq(Tasks) /\ Range(taskList') \subseteq Range(taskList)
        /\ \A x \in Range(taskList) : x = t \/ x \in Range(taskList')
    BY <1>4, <1>5, RemoveRange
  <1> QED
    BY <1>1, <1>3, <1>6

(* Its last part.                                                           *)
LEMMA DeInitSectionEffect ==
    ASSUME Typed, NEW c \in Callers, DeInitSection(c)
    PROVE  LET t == calls[c].task
           IN t \in Tasks /\ Writes(c, t, Halted(task[t], "STOPPED"), IdleCall)
  <1> DEFINE t == calls[c].task
             k == Halted(task[t], "STOPPED")
  <1>1. t \in Tasks /\ task[t] \in TaskStates /\ "STOPPED" \in RunningState
    BY TypedCall DEF DeInitSection, RunningState
  <1>2. k \in TaskStates
    BY <1>1, HaltedOk
  <1>3. task' = [task EXCEPT ![t] = k] /\ calls' = [calls EXCEPT ![c] = IdleCall]
    BY DEF DeInitSection
  <1> HIDE DEF k
  <1>4. Writes(c, t, k, IdleCall)
    BY <1>1, <1>2, <1>3, IdleOk, WritesOk
  <1> QED
    BY <1>1, <1>4 DEF k
-----------------------------------------------------------------------------
(* What the thread does.                                                    *)

(* The task it takes is due, and none is due earlier.                       *)
LEMMA NextTaskOk ==
    ASSUME Typed, Due # {}
    PROVE  /\ NextTask \in Range(taskList) /\ NextTask \in Tasks
           /\ task[NextTask].topProcessUs \in Nat
           /\ \A j \in Due : task[NextTask].topProcessUs <= task[taskList[j]].topProcessUs
  <1> DEFINE top(i) == task[taskList[i]].topProcessUs
             T == {top(i) : i \in Due}
             m == Min(T)
             P == {i \in Due : top(i) = m}
             best(i) == \A j \in Due : top(i) < top(j) \/ (top(i) = top(j) /\ i <= j)
  <1>1. /\ DOMAIN taskList = 1 .. Len(taskList) /\ Len(taskList) \in Nat
        /\ \A i \in DOMAIN taskList : taskList[i] \in Tasks
    BY DEF Typed
  <1>2. \A i \in Due : i \in Nat /\ i \in DOMAIN taskList /\ top(i) \in Nat
    BY <1>1 DEF Due, Typed, TaskStates, Times
  <1>3. T \subseteq Nat /\ T # {}
    BY <1>2
  <1>4. m \in T /\ \A y \in T : m <= y
    BY <1>3, MinOfNats
  <1>5. P \subseteq Nat /\ P # {}
    BY <1>2, <1>4
  <1>6. Min(P) \in P /\ \A y \in P : Min(P) <= y
    BY <1>5, MinOfNats
  <1>7. \E i \in Due : best(i)
    <2>1. \A j \in Due : m <= top(j) /\ top(j) \in Nat /\ (top(j) = m => j \in P)
      BY <1>2, <1>4
    <2>2. m \in Nat /\ Min(P) \in Due /\ top(Min(P)) = m
      BY <1>3, <1>4, <1>6
    <2> HIDE DEF P, T, m
    <2>3. best(Min(P))
      BY <1>6, <2>1, <2>2
    <2> QED
      BY <2>2, <2>3
  <1> DEFINE i == CHOOSE x \in Due : best(x)
  <1>8. i \in Due /\ best(i)
    BY <1>7
  <1>9. NextTask = taskList[i]
    BY DEF NextTask
  <1> HIDE DEF i
  <1>10. \A j \in Due : top(i) <= top(j)
    BY <1>2, <1>8
  <1> QED
    BY <1>1, <1>2, <1>8, <1>9, <1>10 DEF Range

(* The wait ends at most ADJUST_US after the time it is for.                *)
LEMMA WaitEndOk ==
    ASSUME NEW top \in Nat, now \in Nat, top > now + ADJUST_US
    PROVE  WaitEnd(top) \in Nat /\ WaitEnd(top) <= top + ADJUST_US
  <1> DEFINE left == top - now + ADJUST_US
             ms == left \div US_PER_MS
  <1>1. ADJUST_US \in Nat /\ US_PER_MS \in Nat /\ US_PER_MS # 0
    BY TaskAssumption
  <1>2. left \in Nat
    BY <1>1
  <1>3. ms * US_PER_MS \in Nat /\ ms * US_PER_MS <= left
    <2> HIDE DEF left
    <2> QED
      BY <1>1, <1>2
  <1>4. WaitEnd(top) = now + ms * US_PER_MS
    BY DEF WaitEnd
  <1> HIDE DEF ms
  <1> QED
    BY <1>1, <1>3, <1>4

(* One round of the loop.                                                   *)
LEMMA ScanEffect ==
    ASSUME Typed, Scan
    PROVE  /\ WorkerOk(worker')
           /\ \/ worker'.pc = "exited" /\ threadExit
              \/ worker'.pc = "sleep" /\ Due = {}
              \/ /\ worker'.pc = "sleep" /\ Due # {} /\ worker'.until \in Nat
                 /\ worker'.until <= task[NextTask].topProcessUs + ADJUST_US
              \/ /\ worker'.pc = "picked" /\ Due # {} /\ worker'.task = NextTask
                 /\ task[NextTask].topProcessUs <= now + ADJUST_US
  <1>1. WorkerOk(worker) /\ worker \in WorkerStates /\ now \in Nat
    BY DEF Typed
  <1>2. CASE threadExit
    <2>1. worker' = [worker EXCEPT !.pc = "exited"]
      BY <1>2 DEF Scan
    <2> QED
      BY <1>1, <1>2, <2>1 DEF WorkerOk, WorkerStates
  <1>3. CASE ~threadExit /\ Due = {}
    <2>1. worker' = [worker EXCEPT !.pc = "sleep"]
      BY <1>3 DEF Scan
    <2> QED
      BY <1>1, <1>3, <2>1 DEF WorkerOk, WorkerStates
  <1>4. CASE ~threadExit /\ Due # {}
    <2> DEFINE n == NextTask
    <2>1. n \in Tasks /\ task[n].topProcessUs \in Nat
      BY <1>4, NextTaskOk
    <2>2. worker' = IF task[n].topProcessUs > now + ADJUST_US
                    THEN [worker EXCEPT !.pc = "sleep", !.until = WaitEnd(task[n].topProcessUs)]
                    ELSE [worker EXCEPT !.pc = "picked", !.task = n]
      BY <1>4 DEF Scan
    <2> HIDE DEF n
    <2>3. CASE task[n].topProcessUs > now + ADJUST_US
      <3>1. worker' = [worker EXCEPT !.pc = "sleep", !.until = WaitEnd(task[n].topProcessUs)]
        BY <2>2, <2>3
      <3>2. /\ WaitEnd(task[n].topProcessUs) \in Nat
            /\ WaitEnd(task[n].topProcessUs) <= task[n].topProcessUs + ADJUST_US
        BY <1>1, <2>1, <2>3, WaitEndOk
      <3>3. /\ WorkerOk(worker') /\ worker'.pc = "sleep"
            /\ worker'.until = WaitEnd(task[n].topProcessUs)
        BY <1>1, <3>1, <3>2 DEF WorkerOk, WorkerStates, Times
      <3> QED
        BY <1>4, <3>2, <3>3 DEF n
    <2>4. CASE ~(task[n].topProcessUs > now + ADJUST_US)
      <3>1. worker' = [worker EXCEPT !.pc = "picked", !.task = n]
        BY <2>2, <2>4
      <3>2. WorkerOk(worker') /\ worker'.pc = "picked" /\ worker'.task = n
        BY <1>1, <2>1, <3>1 DEF WorkerOk, WorkerStates
      <3>3. task[n].topProcessUs <= now + ADJUST_US
        BY <1>1, <2>1, <2>4, TaskAssumption
      <3> QED
        BY <1>4, <3>2, <3>3 DEF n
    <2> QED
      BY <2>3, <2>4
  <1> QED
    BY <1>2, <1>3, <1>4

(* HandleJob takes the mutex.                                               *)
LEMMA EnterHandleJobEffect ==
    ASSUME Typed, EnterHandleJob
    PROVE  /\ WorkerOk(worker') /\ worker'.pc = "locked" /\ worker'.task = worker.task
           /\ worker.task \in Tasks /\ worker'.single = task[worker.task].singleLoop
           /\ jobMutex' = [jobMutex EXCEPT ![worker.task] = "worker"]
  <1>1. worker \in WorkerStates /\ worker.task \in Tasks
    BY DEF Typed, WorkerOk, EnterHandleJob
  <1>2. task[worker.task].singleLoop \in BOOLEAN
    BY <1>1 DEF Typed, TaskStates
  <1>3. /\ worker' = [worker EXCEPT !.pc = "locked", !.single = task[worker.task].singleLoop]
        /\ jobMutex' = [jobMutex EXCEPT ![worker.task] = "worker"]
    BY DEF EnterHandleJob
  <1> QED
    BY <1>1, <1>2, <1>3 DEF WorkerOk, WorkerStates

(* The section before a repeated job.                                       *)
LEMMA HandleLoopEffect ==
    ASSUME Typed, HandleLoop
    PROVE  LET t == worker.task
           IN /\ t \in Tasks
              /\ \/ /\ MayRun(task[t]) /\ task' = task /\ jobMutex' = jobMutex
                    /\ WorkerOk(worker') /\ worker'.pc = "run" /\ worker'.kind = "loop"
                    /\ worker'.task = t /\ worker'.single = worker.single
                 \/ /\ Sets(t, [task[t] EXCEPT !.topProcessUs = -1]) /\ Leave(t)
  <1> DEFINE t == worker.task
             k == [task[t] EXCEPT !.topProcessUs = -1]
  <1>1. worker \in WorkerStates /\ t \in Tasks /\ task[t] \in TaskStates /\ task[t].topProcessUs \in Times
    BY DEF Typed, WorkerOk, HandleLoop, TaskStates
  <1>2. k \in TaskStates
    BY <1>1, RetimedOk DEF SameButTop, Times
  <1>3. CASE MayRun(task[t]) /\ task' = task /\ jobMutex' = jobMutex
             /\ worker' = [worker EXCEPT !.pc = "run", !.kind = "loop", !.due = task[t].topProcessUs]
    BY <1>1, <1>3 DEF WorkerOk, WorkerStates
  <1>4. CASE task' = [task EXCEPT ![t] = k] /\ Leave(t)
    <2> HIDE DEF k
    <2>1. Sets(t, k)
      BY <1>1, <1>2, <1>4, SetsOk
    <2> QED
      BY <1>1, <1>4, <2>1 DEF k
  <1> QED
    BY <1>3, <1>4 DEF HandleLoop

(* The section before a queued job: the first entry of q, named by topIsJob_,
   leaves its map.                                                          *)
LEMMA HandleQueuedEffect ==
    ASSUME Typed, HandleQueued
    PROVE  LET t == worker.task
               k == task[t]
               q == QueueOf(k, k.topIsJob)
           IN /\ t \in Tasks
              /\ \/ /\ Leave(t) /\ task' = task /\ ran' = ran
                 \/ /\ k.topIsJob => MayRun(k)
                    /\ Empty(q)
                    /\ WorkerOk(worker') /\ worker'.pc = "undefined" /\ worker'.task = t
                    /\ UNCHANGED <<task, jobMutex, ran>>
                 \/ /\ k.topIsJob => MayRun(k)
                    /\ ~Empty(q) /\ q \in Queues
                    /\ \E u : /\ Sets(t, u) /\ u.runningState = k.runningState /\ u.singleLoop = k.singleLoop
                              /\ QueueOf(u, k.topIsJob) = EraseFirst(q)
                              /\ QueueOf(u, ~k.topIsJob) = QueueOf(k, ~k.topIsJob)
                    /\ ran' = ran \cup {q[First(q)]}
                    /\ WorkerOk(worker') /\ worker'.pc = "run" /\ worker'.task = t
                    /\ worker'.single = worker.single
                    /\ worker'.kind = (IF k.topIsJob THEN "job" ELSE "msg")
                    /\ worker'.due = First(q)
                    /\ jobMutex' = jobMutex
  <1> DEFINE t == worker.task
             k == task[t]
             q == QueueOf(k, k.topIsJob)
             u == IF k.topIsJob THEN [k EXCEPT !.jobQueue = EraseFirst(q)]
                                ELSE [k EXCEPT !.msgQueue = EraseFirst(q)]
  <1>1. worker \in WorkerStates /\ t \in Tasks /\ k \in TaskStates
    BY DEF Typed, WorkerOk, HandleQueued
  <1>2. q \in Queues /\ k.topIsJob \in BOOLEAN
    BY <1>1 DEF TaskStates, QueueOf
  <1>3. EraseFirst(q) \in Queues
    BY <1>2, EraseFirstOk
  <1>4. /\ u \in TaskStates /\ u.runningState = k.runningState /\ u.singleLoop = k.singleLoop
        /\ QueueOf(u, k.topIsJob) = EraseFirst(q)
        /\ QueueOf(u, ~k.topIsJob) = QueueOf(k, ~k.topIsJob)
    BY <1>1, <1>2, <1>3 DEF TaskStates, QueueOf
  <1>5. CASE Leave(t) /\ task' = task /\ ran' = ran
    BY <1>1, <1>5
  <1>6. CASE /\ k.topIsJob => MayRun(k)
             /\ Empty(q) /\ worker' = [worker EXCEPT !.pc = "undefined"]
             /\ UNCHANGED <<task, jobMutex, ran>>
    <2>1. WorkerOk(worker') /\ worker'.pc = "undefined" /\ worker'.task = t
      BY <1>1, <1>6 DEF WorkerOk, WorkerStates
    <2> QED
      BY <1>1, <1>6, <2>1
  <1>7. CASE /\ k.topIsJob => MayRun(k)
             /\ ~Empty(q)
             /\ task' = [task EXCEPT ![t] = u]
             /\ ran' = ran \cup {q[First(q)]}
             /\ worker' = [worker EXCEPT !.pc = "run", !.kind = IF k.topIsJob THEN "job" ELSE "msg",
                                         !.id = q[First(q)], !.due = First(q)]
             /\ jobMutex' = jobMutex
    <2>1. First(q) \in DOMAIN q /\ First(q) \in Nat
      BY <1>2, <1>7, FirstOk
    <2>2. q[First(q)] \in Nat
      BY <1>2, <2>1, QueueShape DEF IsQueue
    <2> HIDE DEF u, q
    <2>3. Sets(t, u)
      BY <1>1, <1>4, <1>7, SetsOk
    <2>4. /\ WorkerOk(worker') /\ worker'.pc = "run" /\ worker'.task = t
          /\ worker'.single = worker.single
          /\ worker'.kind = (IF k.topIsJob THEN "job" ELSE "msg") /\ worker'.due = First(q)
      BY <1>1, <1>7, <2>1, <2>2 DEF WorkerOk, WorkerStates, Times
    <2> QED
      BY <1>1, <1>2, <1>4, <1>7, <2>3, <2>4 DEF q
  <1> QED
    BY <1>5, <1>6, <1>7 DEF HandleQueued

(* The sections after a body.                                               *)
LEMMA EndLoopEffect ==
    ASSUME Typed, EndLoop
    PROVE  LET t == worker.task
           IN /\ t \in Tasks /\ Leave(t)
              /\ \E k : Sets(t, k) /\ SameButTop(task[t], k)
  <1> DEFINE t == worker.task
  <1>1. t \in Tasks /\ task[t] \in TaskStates /\ now \in Nat
    BY DEF Typed, WorkerOk, EndLoop
  <1>2. PICK d \in Delays \cap Nat : task' = [task EXCEPT ![t] = Rescheduled(@, worker.due, d)]
    BY DEF EndLoop
  <1> DEFINE k == Rescheduled(task[t], worker.due, d)
  <1>3. k = [task[t] EXCEPT !.topProcessUs = now + d] \/ k = task[t]
    BY DEF Rescheduled
  <1>4. SameButTop(task[t], k)
    <2>1. SameButTop(task[t], [task[t] EXCEPT !.topProcessUs = now + d])
      <3>1. now + d \in Times
        BY <1>1 DEF Times
      <3> QED
        BY <1>1, <3>1, RetimedOk
    <2> HIDE DEF k
    <2>2. SameButTop(task[t], task[t])
      BY <1>1 DEF SameButTop
    <2> QED
      BY <1>3, <2>1, <2>2
  <1>5. task' = [task EXCEPT ![t] = k]
    BY <1>2
  <1> HIDE DEF k
  <1>6. k \in TaskStates
    BY <1>4 DEF SameButTop
  <1>7. Sets(t, k)
    BY <1>1, <1>5, <1>6, SetsOk
  <1> QED
    BY <1>1, <1>4, <1>7 DEF EndLoop

\* The end of HandleJob after a queued job.
LEMMA EndQueuedEffect ==
    ASSUME Typed, EndQueued
    PROVE  LET t == worker.task
           IN t \in Tasks /\ Leave(t) /\ Sets(t, UpdateTop(task[t]))
  <1> DEFINE t == worker.task
             k == UpdateTop(task[t])
  <1>1. t \in Tasks /\ task[t] \in TaskStates /\ now \in Nat
    BY DEF Typed, WorkerOk, EndQueued
  <1>2. k \in TaskStates
    BY <1>1, UpdateTopOk DEF SameButTop
  <1>3. task' = [task EXCEPT ![t] = k] /\ Leave(t)
    BY DEF EndQueued
  <1> HIDE DEF k
  <1>4. Sets(t, k)
    BY <1>1, <1>2, <1>3, SetsOk
  <1> QED
    BY <1>1, <1>3, <1>4 DEF k

(* The waiters of a job are woken.                                          *)
LEMMA NotifyReplyEffect ==
    ASSUME Typed, NotifyReply
    PROVE  /\ WorkerOk(worker') /\ worker'.pc = "after" /\ worker'.task = worker.task
           /\ worker'.kind = worker.kind /\ worker'.due = worker.due /\ worker'.single = worker.single
           /\ calls' \in [Callers -> CallStates] /\ \A d \in Callers : CallOk(calls'[d])
           /\ \A d \in Callers : /\ calls'[d].op = calls[d].op /\ calls'[d].task = calls[d].task
                                 /\ calls'[d].saved = calls[d].saved
                                 /\ \/ calls'[d].pc = calls[d].pc
                                    \/ calls[d].pc = "replySleep" /\ calls'[d].pc = "reply"
  <1>1. worker \in WorkerStates /\ worker.task \in Tasks
    BY DEF Typed, WorkerOk, NotifyReply
  <1>2. /\ worker' = [worker EXCEPT !.pc = "after"]
        /\ calls' = [c \in Callers |->
             IF calls[c].pc = "replySleep" /\ calls[c].task = worker.task
             THEN [calls[c] EXCEPT !.pc = "reply"] ELSE calls[c]]
    BY DEF NotifyReply
  <1>3. ASSUME NEW d \in Callers
        PROVE  /\ CallOk(calls'[d]) /\ calls'[d].op = calls[d].op /\ calls'[d].task = calls[d].task
               /\ calls'[d].saved = calls[d].saved
               /\ \/ calls'[d].pc = calls[d].pc
                  \/ calls[d].pc = "replySleep" /\ calls'[d].pc = "reply"
    <2>1. CallOk(calls[d])
      BY DEF Typed
    <2>2. calls'[d] = calls[d] \/ (calls[d].pc = "replySleep" /\ calls'[d] = [calls[d] EXCEPT !.pc = "reply"])
      BY <1>2
    <2> QED
      BY <2>1, <2>2 DEF CallOk, Fits, CallStates
  <1>4. calls' \in [Callers -> CallStates]
    BY <1>2, <1>3 DEF CallOk
  <1>5. /\ WorkerOk(worker') /\ worker'.pc = "after" /\ worker'.task = worker.task
        /\ worker'.kind = worker.kind /\ worker'.due = worker.due /\ worker'.single = worker.single
    BY <1>1, <1>2 DEF WorkerOk, WorkerStates
  <1> QED
    BY <1>3, <1>4, <1>5
-----------------------------------------------------------------------------
(* What a job does.                                                         *)

\* Start called from a job.
LEMMA JobStartEffect ==
    ASSUME Typed, NEW t \in Tasks, JobStart(t)
    PROVE  Sets(t, Started(task[t]))
  <1>1. task[t] \in TaskStates /\ now \in Nat
    BY DEF Typed
  <1>2. Started(task[t]) \in TaskStates
    BY <1>1, StartedOk
  <1>3. task' = [task EXCEPT ![t] = Started(task[t])]
    BY DEF JobStart
  <1> QED
    BY <1>2, <1>3, SetsOk

\* SubmitJob called from a job.
LEMMA JobSubmitEffect ==
    ASSUME Typed, NEW t \in Tasks, JobSubmit(t)
    PROVE  \E d \in Int, inJob \in BOOLEAN : Sets(t, InsertJob(task[t], submitted + 1, d, inJob))
  <1>1. task[t] \in TaskStates /\ now \in Nat /\ submitted + 1 \in Nat
    BY DEF Typed
  <1>2. PICK d \in Delays, inJob \in BOOLEAN :
               task' = [task EXCEPT ![t] = InsertJob(task[t], submitted + 1, d, inJob)]
    BY DEF JobSubmit
  <1> DEFINE k == InsertJob(task[t], submitted + 1, d, inJob)
  <1>3. d \in Int
    BY TaskAssumption
  <1>4. k \in TaskStates
    BY <1>1, <1>3, InsertJobOk DEF FiledAt
  <1>5. Sets(t, k)
    BY <1>2, <1>4, SetsOk
  <1> QED
    BY <1>3, <1>5

(* Pause and Stop by a job: the state, then the time.                       *)
LEMMA JobHaltEffect ==
    ASSUME Typed, NEW t \in Tasks, NEW s \in {"PAUSED", "STOPPED"}, JobHalt(t, s)
    PROVE  /\ \E k : /\ Sets(t, k) /\ k.runningState = s /\ k.singleLoop = task[t].singleLoop
                     /\ k.msgQueue = task[t].msgQueue /\ k.jobQueue = task[t].jobQueue
                     /\ k.topProcessUs = task[t].topProcessUs /\ k.topIsJob = task[t].topIsJob
           /\ WorkerOk(worker') /\ worker'.pc = "halting" /\ worker'.task = worker.task
           /\ worker'.kind = worker.kind /\ worker'.due = worker.due /\ worker'.single = worker.single
           /\ worker.pc = "run"
  <1> DEFINE k == [task[t] EXCEPT !.runningState = s]
  <1>1. /\ worker.pc = "run" /\ task' = [task EXCEPT ![t] = k]
        /\ worker' = [worker EXCEPT !.pc = "halting", !.halting = t]
    BY DEF JobHalt, JobCall
  <1>2. worker \in WorkerStates /\ worker.task \in Tasks /\ task[t] \in TaskStates
    BY <1>1 DEF Typed, WorkerOk
  <1>3. /\ k \in TaskStates /\ k.runningState = s /\ k.singleLoop = task[t].singleLoop
        /\ k.msgQueue = task[t].msgQueue /\ k.jobQueue = task[t].jobQueue
        /\ k.topProcessUs = task[t].topProcessUs /\ k.topIsJob = task[t].topIsJob
    BY <1>2 DEF TaskStates, RunningState
  <1> HIDE DEF k
  <1>4. Sets(t, k)
    BY <1>1, <1>3, SetsOk
  <1>5. /\ WorkerOk(worker') /\ worker'.pc = "halting" /\ worker'.task = worker.task
        /\ worker'.kind = worker.kind /\ worker'.due = worker.due /\ worker'.single = worker.single
    BY <1>1, <1>2 DEF WorkerOk, WorkerStates
  <1> QED
    BY <1>1, <1>3, <1>4, <1>5

\* Pause and Stop called from a job take the task out of the schedule.
LEMMA JobHaltTopEffect ==
    ASSUME Typed, JobHaltTop
    PROVE  LET t == worker.halting
           IN /\ t \in Tasks /\ Sets(t, [task[t] EXCEPT !.topProcessUs = -1])
              /\ WorkerOk(worker') /\ worker'.pc = "run" /\ worker'.task = worker.task
              /\ worker'.kind = worker.kind /\ worker'.due = worker.due /\ worker'.single = worker.single
  <1> DEFINE t == worker.halting
             k == [task[t] EXCEPT !.topProcessUs = -1]
  <1>1. worker \in WorkerStates /\ worker.task \in Tasks /\ t \in Tasks /\ task[t] \in TaskStates
    BY DEF Typed, WorkerOk, JobHaltTop
  <1>2. k \in TaskStates
    BY <1>1, RetimedOk DEF SameButTop, Times
  <1>3. task' = [task EXCEPT ![t] = k] /\ worker' = [worker EXCEPT !.pc = "run", !.halting = None]
    BY DEF JobHaltTop
  <1> HIDE DEF k
  <1>4. Sets(t, k)
    BY <1>1, <1>2, <1>3, SetsOk
  <1>5. /\ WorkerOk(worker') /\ worker'.pc = "run" /\ worker'.task = worker.task
        /\ worker'.kind = worker.kind /\ worker'.due = worker.due /\ worker'.single = worker.single
    BY <1>1, <1>3 DEF WorkerOk, WorkerStates
  <1> QED
    BY <1>1, <1>4, <1>5 DEF k

\* A job of one task that halts another one goes for its jobMutex_.
LEMMA JobHaltUnknownEffect ==
    ASSUME Typed, JobHaltUnknown
    PROVE  /\ WorkerOk(worker') /\ worker'.pc = "lockJob" /\ worker'.task = worker.task
           /\ worker.pc = "run"
  BY DEF Typed, JobHaltUnknown, WorkerOk, WorkerStates
-----------------------------------------------------------------------------
(* Every step keeps the types.                                              *)

TaskTypes == task \in [Tasks -> TaskStates]

CallTypes == calls \in [Callers -> CallStates] /\ \A c \in Callers : CallOk(calls[c])

RestTypes ==
    /\ now \in Nat /\ submitted \in Nat /\ budget \in Nat
    /\ taskList \in Seq(Tasks)
    /\ threadExit \in BOOLEAN /\ loop \in BOOLEAN
    /\ worker \in WorkerStates /\ WorkerOk(worker)
    /\ jobMutex \in [Tasks -> Callers \cup {None, "worker"}]
    /\ ran \subseteq Nat

(* Typed in its parts, after a step.                                        *)
LEMMA TypedParts ==
    ASSUME TaskTypes', CallTypes', RestTypes'
    PROVE  Typed'
  BY DEF Typed, TaskTypes, CallTypes, RestTypes

(* The thread lets go of a task's jobMutex_.                                *)
LEMMA FreesTyped ==
    ASSUME Typed, NEW t \in Tasks, jobMutex' = [jobMutex EXCEPT ![t] = None]
    PROVE  jobMutex' \in [Tasks -> Callers \cup {None, "worker"}]
  BY DEF Typed

\* The first sections of the calls keep the types.
LEMMA CallStepTyped ==
    ASSUME Typed, NEW c \in Callers, NEW t \in Tasks, CallStep(c, t)
    PROVE  Typed'
  <1>1. CASE Start(c, t)
    <2>1. TaskTypes' /\ CallTypes'
      BY <1>1, StartEffect DEF Writes, Sets, Turns, TaskTypes, CallTypes
    <2>2. RestTypes'
      BY <1>1 DEF Start, Counted, Typed, RestTypes
    <2> QED
      BY <2>1, <2>2, TypedParts
  <1>2. CASE PauseAsync(c, t)
    <2>1. HaltAsync(c, t, "pauseAsync", "PAUSED")
      BY <1>2 DEF PauseAsync
    <2>2. TaskTypes' /\ CallTypes'
      BY <2>1, HaltAsyncEffect DEF Writes, Sets, Turns, TaskTypes, CallTypes, RunningState, Typed
    <2>3. RestTypes'
      BY <2>1 DEF HaltAsync, Counted, Typed, RestTypes
    <2> QED
      BY <2>1, <2>2, <2>3, TypedParts
  <1>3. CASE StopAsync(c, t)
    <2>1. HaltAsync(c, t, "stopAsync", "STOPPED")
      BY <1>3 DEF StopAsync
    <2>2. TaskTypes' /\ CallTypes'
      BY <2>1, HaltAsyncEffect DEF Writes, Sets, Turns, TaskTypes, CallTypes, RunningState, Typed
    <2>3. RestTypes'
      BY <2>1 DEF HaltAsync, Counted, Typed, RestTypes
    <2> QED
      BY <2>1, <2>2, <2>3, TypedParts
  <1>4. CASE Pause(c, t) \/ Stop(c, t)
    <2>1. PICK op \in {"pause", "stop"} : Halt(c, t, op)
      BY <1>4 DEF Pause, Stop
    <2>2. CallTypes'
      BY <2>1, HaltEffect DEF Turns, CallTypes
    <2>3. TaskTypes' /\ RestTypes'
      BY <2>1 DEF Halt, Counted, Typed, RestTypes, TaskTypes
    <2> QED
      BY <2>1, <2>2, <2>3, TypedParts
  <1>5. CASE SubmitJob(c, t)
    <2>1. PICK wait \in BOOLEAN : Submit(c, t, "submit", wait)
      BY <1>5 DEF SubmitJob
    <2>2. TaskTypes' /\ CallTypes'
      BY <2>1, SubmitEffect DEF Writes, Sets, Turns, TaskTypes, CallTypes
    <2>3. RestTypes'
      BY <2>1 DEF Submit, Typed, RestTypes
    <2> QED
      BY <2>1, <2>2, <2>3, TypedParts
  <1>6. CASE SubmitJobOnce(c, t)
    <2>1. PICK wait \in BOOLEAN : Submit(c, t, "submitOnce", wait)
      BY <1>6 DEF SubmitJobOnce
    <2>2. TaskTypes' /\ CallTypes'
      BY <2>1, SubmitEffect DEF Writes, Sets, Turns, TaskTypes, CallTypes
    <2>3. RestTypes'
      BY <2>1 DEF Submit, Typed, RestTypes
    <2> QED
      BY <2>1, <2>2, <2>3, TypedParts
  <1>7. CASE UpdateDelayTime(c, t)
    <2>1. TaskTypes' /\ CallTypes'
      BY <1>7, UpdateDelayTimeEffect DEF Writes, Sets, Turns, TaskTypes, CallTypes
    <2>2. RestTypes'
      BY <1>7 DEF UpdateDelayTime, Counted, Typed, RestTypes
    <2> QED
      BY <2>1, <2>2, TypedParts
  <1>8. CASE UpdateThreadPriority(c, t)
    BY <1>8, UpdateThreadPriorityEffect DEF UpdateThreadPriority, Writes, Sets, Turns, Typed
  <1>9. CASE DeInit(c, t)
    <2>1. CallTypes' /\ taskList' \in Seq(Tasks)
      BY <1>9, DeInitEffect DEF Turns, CallTypes
    <2>2. TaskTypes' /\ budget' \in Nat
      BY <1>9 DEF DeInit, Counted, Typed, TaskTypes
    <2>3. RestTypes'
      BY <1>9, <2>1, <2>2 DEF DeInit, Typed, RestTypes
    <2> QED
      BY <2>1, <2>2, <2>3, TypedParts
  <1> QED
    BY <1>1, <1>2, <1>3, <1>4, <1>5, <1>6, <1>7, <1>8, <1>9 DEF CallStep

\* The later sections of the calls keep the types.
LEMMA ContinueTyped ==
    ASSUME Typed, NEW c \in Callers, Continue(c)
    PROVE  Typed'
  <1>1. CASE LockJob(c)
    <2>1. calls[c].task \in Tasks
      BY <1>1, TypedCall DEF LockJob
    <2>2. calls[c].pc = "lockJob" /\ Fits("locked", calls[c].op)
      BY <1>1, TypedCall DEF LockJob, Fits
    <2> QED
      BY <1>1, <2>1, <2>2, PcEffect DEF LockJob, Turns, Typed
  <1>2. CASE HaltSection(c)
    BY <1>2, HaltSectionEffect, FreesTyped DEF HaltSection, Writes, Sets, Turns, Typed
  <1>3. CASE Notify(c)
    <2>1. WorkerOk(worker')
      BY <1>3, WokenOk DEF Notify, Typed
    <2>2. jobMutex' \in [Tasks -> Callers \cup {None, "worker"}]
      <3>1. calls[c].op \in {"pause", "stop"} => calls[c].task \in Tasks
        BY TypedCall DEF None
      <3> QED
        BY <1>3, <3>1 DEF Notify, Typed
    <2> QED
      BY <1>3, <2>1, <2>2, NotifyEffect DEF Notify, Turns, Typed, WorkerOk
  <1>4. CASE AwaitReply(c)
    BY <1>4, AwaitReplyEffect DEF AwaitReply, Turns, Typed
  <1>5. CASE PrioritySubmit(c)
    <2>1. TaskTypes' /\ CallTypes'
      BY <1>5, PrioritySubmitEffect DEF Writes, Sets, Turns, TaskTypes, CallTypes
    <2>2. RestTypes'
      BY <1>5 DEF PrioritySubmit, Typed, RestTypes
    <2> QED
      BY <2>1, <2>2, TypedParts
  <1>6. CASE PriorityRestore(c)
    BY <1>6, PriorityRestoreEffect DEF PriorityRestore, Writes, Sets, Turns, Typed
  <1>7. CASE Exit(c)
    <2>1. WorkerOk(worker')
      BY <1>7, WokenOk DEF Exit, Typed
    <2>2. calls[c].pc = "exit" /\ Fits("reset", calls[c].op)
      BY <1>7, TypedCall DEF Exit, Fits
    <2> QED
      BY <1>7, <2>1, <2>2, PcEffect DEF Exit, Turns, Typed, WorkerOk
  <1>8. CASE ResetLoop(c)
    <2>1. calls[c].pc = "reset" /\ Fits("join", calls[c].op)
      BY <1>8, TypedCall DEF ResetLoop, Fits
    <2> QED
      BY <1>8, <2>1, PcEffect DEF ResetLoop, Turns, Typed
  <1>9. CASE Join(c)
    <2>1. calls[c].pc = "join" /\ Fits("deinit", calls[c].op)
      BY <1>9, TypedCall DEF Join, Fits
    <2> QED
      BY <1>9, <2>1, PcEffect DEF Join, Turns, Typed
  <1>10. CASE DeInitSection(c)
    BY <1>10, DeInitSectionEffect DEF DeInitSection, Writes, Sets, Turns, Typed
  <1> QED
    BY <1>1, <1>2, <1>3, <1>4, <1>5, <1>6, <1>7, <1>8, <1>9, <1>10 DEF Continue

\* The steps of the pipeline thread keep the types.
LEMMA ThreadStepTyped ==
    ASSUME Typed, ThreadStep \/ SpuriousWakeup
    PROVE  Typed'
  <1>1. CASE Scan
    BY <1>1, ScanEffect DEF Scan, Typed, WorkerOk
  <1>2. CASE WaitTimeout \/ SpuriousWakeup
    BY <1>2, ScanningOk DEF WaitTimeout, SpuriousWakeup, Typed, WorkerOk
  <1>3. CASE EnterHandleJob
    BY <1>3, EnterHandleJobEffect DEF EnterHandleJob, Typed, WorkerOk
  <1>4. CASE HandleLoop
    BY <1>4, HandleLoopEffect, ScanningOk, FreesTyped DEF HandleLoop, Leave, Sets, Typed, WorkerOk
  <1>5. CASE HandleQueued
    <2>1. ran' \subseteq Nat
      <3>1. ASSUME NEW q \in Queues, ~Empty(q) PROVE q[First(q)] \in Nat
        BY <3>1, FirstOk, QueueShape DEF IsQueue
      <3> QED
        BY <1>5, <3>1, HandleQueuedEffect DEF Typed
    <2> QED
      BY <1>5, <2>1, HandleQueuedEffect, ScanningOk, FreesTyped
         DEF HandleQueued, Leave, Sets, Typed, WorkerOk
  <1>6. CASE EndLoop
    BY <1>6, EndLoopEffect, ScanningOk, FreesTyped DEF EndLoop, Leave, Sets, Typed, WorkerOk
  <1>7. CASE NotifyReply
    BY <1>7, NotifyReplyEffect DEF NotifyReply, Typed, WorkerOk
  <1>8. CASE EndQueued
    BY <1>8, EndQueuedEffect, ScanningOk, FreesTyped DEF EndQueued, Leave, Sets, Typed, WorkerOk
  <1>9. CASE JobHaltTop
    BY <1>9, JobHaltTopEffect DEF JobHaltTop, Sets, Typed, WorkerOk
  <1> QED
    BY <1>1, <1>2, <1>3, <1>4, <1>5, <1>6, <1>7, <1>8, <1>9 DEF ThreadStep

\* The calls made by a running job keep the types.
LEMMA JobStepTyped ==
    ASSUME Typed, JobStep
    PROVE  Typed'
  <1>1. ASSUME NEW t \in Tasks, JobStart(t) PROVE Typed'
    <2>1. TaskTypes'
      BY <1>1, JobStartEffect DEF Sets, TaskTypes
    <2>2. CallTypes' /\ RestTypes'
      BY <1>1 DEF JobStart, Counted, Typed, CallTypes, RestTypes
    <2> QED
      BY <2>1, <2>2, TypedParts
  <1>2. ASSUME NEW t \in Tasks, JobSubmit(t) PROVE Typed'
    <2>1. TaskTypes'
      BY <1>2, JobSubmitEffect DEF Sets, TaskTypes
    <2>2. CallTypes' /\ RestTypes'
      BY <1>2 DEF JobSubmit, Typed, CallTypes, RestTypes
    <2> QED
      BY <2>1, <2>2, TypedParts
  <1>3. ASSUME NEW t \in Tasks, NEW s \in {"PAUSED", "STOPPED"}, JobHalt(t, s) PROVE Typed'
    <2>1. TaskTypes' /\ WorkerOk(worker')
      BY <1>3, JobHaltEffect DEF Sets, TaskTypes
    <2>2. CallTypes' /\ RestTypes'
      BY <1>3, <2>1 DEF JobHalt, Counted, Typed, CallTypes, RestTypes, WorkerOk
    <2> QED
      BY <2>1, <2>2, TypedParts
  <1>4. CASE JobHaltUnknown
    BY <1>4, JobHaltUnknownEffect DEF JobHaltUnknown, Counted, Typed, WorkerOk
  <1> QED
    BY <1>1, <1>2, <1>3, <1>4 DEF JobStep

\* Every step keeps the types.
LEMMA StepTyped ==
    ASSUME Typed, [Next]_vars
    PROVE  Typed'
  <1>1. CASE Tick
    BY <1>1 DEF Tick, Typed
  <1>2. CASE UNCHANGED vars
    BY <1>2 DEF vars, Typed
  <1> QED
    BY <1>1, <1>2, CallStepTyped, ContinueTyped, ThreadStepTyped, JobStepTyped DEF Next

\* The types hold at the start.
LEMMA InitiallyTyped ==
    ASSUME Init
    PROVE  Typed
  <1>1. Cardinality(Tasks) \in Nat
    BY TaskAssumption, FS_CardinalityType
  <1>2. taskList \in Seq(Tasks)
    BY <1>1 DEF Init
  <1>3. <<>> \in Queues
    <2>1. DOMAIN <<>> = {} /\ <<>> \in [{} -> Nat]
      OBVIOUS
    <2>2. IsFiniteSet({})
      BY FS_EmptySet
    <2> QED
      BY <2>1, <2>2, QueueShape DEF IsQueue
  <1>4. task \in [Tasks -> TaskStates]
    BY <1>3 DEF Init, NewTask, TaskStates, RunningState, Times
  <1>5. calls \in [Callers -> CallStates] /\ \A c \in Callers : CallOk(calls[c])
    BY IdleOk DEF Init, CallOk
  <1>6. WorkerOk(worker) /\ worker \in WorkerStates
    BY ScanningOk DEF Init, WorkerOk
  <1> QED
    BY <1>2, <1>4, <1>5, <1>6 DEF Init, Typed
-----------------------------------------------------------------------------
(* Who holds jobMutex_.                                                     *)

(* The thread is inside HandleJob.                                          *)
InJob(w) == w.pc \in {"locked", "run", "halting", "after", "lockJob", "undefined"}

(* The caller is in Pause or Stop, past the wait for the job.               *)
HoldsJob(k) == k.pc = "locked" \/ (k.pc = "notify" /\ k.op \in {"pause", "stop"})

Locks ==
    /\ InJob(worker) => jobMutex[worker.task] = "worker"
    /\ \A t \in Tasks : jobMutex[t] = "worker" => InJob(worker) /\ worker.task = t
    /\ \A c \in Callers : HoldsJob(calls[c]) => jobMutex[calls[c].task] = c
    /\ \A t \in Tasks, c \in Callers : jobMutex[t] = c => HoldsJob(calls[c]) /\ calls[c].task = t

(* A step that takes and releases no jobMutex_.                             *)
LEMMA LocksKept ==
    ASSUME Locks, jobMutex' = jobMutex, InJob(worker') <=> InJob(worker),
           InJob(worker) => worker'.task = worker.task,
           \A d \in Callers :
              /\ HoldsJob(calls'[d]) <=> HoldsJob(calls[d])
              /\ HoldsJob(calls[d]) => calls'[d].task = calls[d].task
    PROVE  Locks'
  BY DEF Locks

(* The same when one caller moves and the thread does not.                  *)
LEMMA LocksTurn ==
    ASSUME Locks, NEW c \in Callers, NEW r, Turns(c, r), jobMutex' = jobMutex,
           worker' = worker \/ (~InJob(worker) /\ ~InJob(worker')),
           ~HoldsJob(calls[c]), ~HoldsJob(r)
    PROVE  Locks'
  <1>1. \A d \in Callers :
           /\ HoldsJob(calls'[d]) <=> HoldsJob(calls[d])
           /\ HoldsJob(calls[d]) => calls'[d].task = calls[d].task
    BY DEF Turns
  <1> QED
    BY <1>1, LocksKept

\* The first sections of the calls take no jobMutex_.
LEMMA CallStepLocks ==
    ASSUME Typed, Locks, NEW c \in Callers, NEW t \in Tasks, CallStep(c, t)
    PROVE  Locks'
  <1>1. calls[c].pc = "idle" /\ jobMutex' = jobMutex /\ worker' = worker
    BY DEF CallStep, Start, Pause, Stop, Halt, PauseAsync, StopAsync, HaltAsync, SubmitJob,
           SubmitJobOnce, Submit, UpdateDelayTime, UpdateThreadPriority, DeInit, Call
  <1>2. ~HoldsJob(calls[c])
    BY <1>1 DEF HoldsJob
  <1>3. \/ calls' = calls
        \/ \E r : Turns(c, r) /\ ~HoldsJob(r)
    <2>1. CASE Start(c, t)
      BY <2>1, StartEffect DEF Writes, HoldsJob
    <2>2. CASE PauseAsync(c, t) \/ StopAsync(c, t)
      BY <2>2, HaltAsyncEffect DEF PauseAsync, StopAsync, RunningState, Writes, HoldsJob
    <2>3. CASE Pause(c, t) \/ Stop(c, t)
      BY <2>3, HaltEffect DEF Pause, Stop, HoldsJob
    <2>4. CASE SubmitJob(c, t) \/ SubmitJobOnce(c, t)
      <3>1. PICK op \in {"submit", "submitOnce"}, wait \in BOOLEAN : Submit(c, t, op, wait)
        BY <2>4 DEF SubmitJob, SubmitJobOnce
      <3>2. PICK r : Turns(c, r) /\ r.pc \in {"idle", "notify", "reply"} /\ r.op \in {None, op}
        BY <3>1, SubmitEffect DEF Writes
      <3> QED
        BY <3>2 DEF HoldsJob, None
    <2>5. CASE UpdateDelayTime(c, t)
      BY <2>5, UpdateDelayTimeEffect DEF Writes, HoldsJob
    <2>6. CASE UpdateThreadPriority(c, t)
      BY <2>6, UpdateThreadPriorityEffect DEF Writes, HoldsJob
    <2>7. CASE DeInit(c, t)
      BY <2>7, DeInitEffect DEF HoldsJob
    <2> QED
      BY <2>1, <2>2, <2>3, <2>4, <2>5, <2>6, <2>7 DEF CallStep
  <1>4. CASE calls' = calls
    BY <1>1, <1>4, LocksKept DEF Locks
  <1>5. ASSUME NEW r, Turns(c, r), ~HoldsJob(r)
        PROVE  Locks'
    BY <1>1, <1>2, <1>5, LocksTurn
  <1> QED
    BY <1>3, <1>4, <1>5

(* jobMutex_ of t passes from nobody to caller c, or back.                  *)
LEMMA CallerLocks ==
    ASSUME Typed, Locks, NEW c \in Callers, LockJob(c)
    PROVE  Locks'
  <1>1. PICK r : Turns(c, r) /\ r.pc = "locked" /\ r.op = calls[c].op /\ r.task = calls[c].task
    <2>1. calls[c].pc = "lockJob" /\ Fits("locked", calls[c].op)
      BY TypedCall DEF LockJob, Fits
    <2> QED
      BY <2>1, PcEffect DEF LockJob
  <1>2. /\ calls[c].pc = "lockJob" /\ calls[c].task \in Tasks
        /\ ~HoldsJob(calls[c]) /\ jobMutex \in [Tasks -> Callers \cup {None, "worker"}]
    BY TypedCall DEF LockJob, Locks, HoldsJob, Typed
  <1>3. /\ jobMutex[calls[c].task] = None /\ jobMutex' = [jobMutex EXCEPT ![calls[c].task] = c]
        /\ worker' = worker
    BY DEF LockJob
  <1>4. c # None /\ c # "worker" /\ None # "worker"
    BY TaskAssumption DEF None
  <1>5. HoldsJob(r)
    BY <1>1 DEF HoldsJob
  <1>6. InJob(worker') => jobMutex'[worker'.task] = "worker"
    BY <1>2, <1>3, <1>4 DEF Locks, Typed, WorkerOk, InJob
  <1>7. \A u \in Tasks : jobMutex'[u] = "worker" => InJob(worker') /\ worker'.task = u
    BY <1>2, <1>3, <1>4 DEF Locks
  <1>8. \A d \in Callers : HoldsJob(calls'[d]) => jobMutex'[calls'[d].task] = d
    <2>1. ASSUME NEW d \in Callers, HoldsJob(calls'[d]) PROVE jobMutex'[calls'[d].task] = d
      <3>1. CASE d = c
        BY <1>1, <1>2, <1>3, <3>1 DEF Turns
      <3>2. CASE d # c
        <4>1. calls'[d] = calls[d] /\ HoldsJob(calls[d]) /\ jobMutex[calls[d].task] = d
          BY <1>1, <2>1, <3>2 DEF Turns, Locks
        <4>2. calls[d].task \in Tasks
          BY <4>1, TypedCall DEF HoldsJob, None
        <4>3. d # None
          BY TaskAssumption DEF None
        <4> QED
          BY <1>2, <1>3, <4>1, <4>2, <4>3
      <3> QED
        BY <3>1, <3>2
    <2> QED
      BY <2>1
  <1>9. \A u \in Tasks, d \in Callers : jobMutex'[u] = d => HoldsJob(calls'[d]) /\ calls'[d].task = u
    BY <1>1, <1>2, <1>3, <1>5 DEF Locks, Turns
  <1> QED
    BY <1>6, <1>7, <1>8, <1>9 DEF Locks

\* A caller that holds jobMutex_ and gives it up.
LEMMA CallerUnlocks ==
    ASSUME Typed, Locks, NEW c \in Callers, NEW r, Turns(c, r), HoldsJob(calls[c]), ~HoldsJob(r),
           jobMutex' = [jobMutex EXCEPT ![calls[c].task] = None],
           worker' = worker \/ (~InJob(worker) /\ ~InJob(worker'))
    PROVE  Locks'
  <1>1. /\ calls[c].task \in Tasks /\ jobMutex[calls[c].task] = c
        /\ jobMutex \in [Tasks -> Callers \cup {None, "worker"}]
    BY TypedCall DEF HoldsJob, Locks, Typed, None
  <1>2. c # None /\ c # "worker" /\ None # "worker"
    BY TaskAssumption DEF None
  <1>3. InJob(worker') => jobMutex'[worker'.task] = "worker"
    BY <1>1, <1>2 DEF Locks, Typed, WorkerOk, InJob
  <1>4. \A u \in Tasks : jobMutex'[u] = "worker" => InJob(worker') /\ worker'.task = u
    BY <1>1, <1>2 DEF Locks
  <1>5. \A d \in Callers : HoldsJob(calls'[d]) => jobMutex'[calls'[d].task] = d
    <2>1. ASSUME NEW d \in Callers, HoldsJob(calls'[d]) PROVE jobMutex'[calls'[d].task] = d
      <3>1. d # c /\ calls'[d] = calls[d]
        BY <2>1 DEF Turns
      <3>2. calls[d].task \in Tasks /\ jobMutex[calls[d].task] = d
        BY <2>1, <3>1, TypedCall DEF HoldsJob, Locks, None
      <3> QED
        BY <1>1, <3>1, <3>2
    <2> QED
      BY <2>1
  <1>6. \A u \in Tasks, d \in Callers : jobMutex'[u] = d => HoldsJob(calls'[d]) /\ calls'[d].task = u
    <2>1. ASSUME NEW u \in Tasks, NEW d \in Callers, jobMutex'[u] = d
          PROVE  HoldsJob(calls'[d]) /\ calls'[d].task = u
      <3>1. d # None
        BY TaskAssumption DEF None
      <3>2. u # calls[c].task /\ jobMutex[u] = d
        BY <1>1, <2>1, <3>1
      <3>3. d # c
        BY <3>2 DEF Locks
      <3> QED
        BY <3>2, <3>3 DEF Locks, Turns
    <2> QED
      BY <2>1
  <1> QED
    BY <1>3, <1>4, <1>5, <1>6 DEF Locks

(* The parts of a call.                                                     *)
LEMMA ContinueLocks ==
    ASSUME Typed, Locks, NEW c \in Callers, Continue(c)
    PROVE  Locks'
  <1>1. CASE LockJob(c)
    BY <1>1, CallerLocks
  <1>2. CASE HaltSection(c)
    <2> DEFINE t == calls[c].task
    <2>1. /\ calls[c].pc = "locked" /\ HoldsJob(calls[c]) /\ calls[c].op \in {"pause", "stop"}
          /\ worker' = worker
      BY <1>2, TypedCall DEF HaltSection, HoldsJob, Fits
    <2>2. CASE /\ jobMutex' = jobMutex
               /\ \E r : Turns(c, r) /\ r.pc = "notify" /\ r.op = calls[c].op /\ r.task = t
      <3>1. PICK r : Turns(c, r) /\ r.pc = "notify" /\ r.op = calls[c].op /\ r.task = t
        BY <2>2
      <3>2. \A d \in Callers :
               /\ HoldsJob(calls'[d]) <=> HoldsJob(calls[d])
               /\ HoldsJob(calls[d]) => calls'[d].task = calls[d].task
        BY <2>1, <3>1 DEF Turns, Locks, HoldsJob
      <3> QED
        BY <2>1, <2>2, <3>2, LocksKept
    <2>3. CASE Turns(c, IdleCall) /\ jobMutex' = [jobMutex EXCEPT ![t] = None]
      <3>1. ~HoldsJob(IdleCall)
        BY IdleOk DEF HoldsJob
      <3> QED
        BY <2>1, <2>3, <3>1, CallerUnlocks
    <2> QED
      BY <1>2, <2>2, <2>3, HaltSectionEffect DEF Writes
  <1>3. CASE Notify(c)
    <2>1. PICK r : Turns(c, r) /\ r.pc \in {"idle", "reply", "prioRestore"}
      BY <1>3, NotifyEffect
    <2>2. ~HoldsJob(r) /\ calls[c].pc = "notify"
      BY <1>3, <2>1 DEF HoldsJob, Notify
    <2>3. worker' = worker \/ (~InJob(worker) /\ ~InJob(worker'))
      BY <1>3 DEF Notify, Woken, Scanning, InJob
    <2>4. CASE calls[c].op \in {"pause", "stop"}
      <3>1. HoldsJob(calls[c]) /\ jobMutex' = [jobMutex EXCEPT ![calls[c].task] = None]
        BY <1>3, <2>2, <2>4 DEF HoldsJob, Notify
      <3> QED
        BY <2>1, <2>2, <2>3, <3>1, CallerUnlocks
    <2>5. CASE calls[c].op \notin {"pause", "stop"}
      <3>1. ~HoldsJob(calls[c]) /\ jobMutex' = jobMutex
        BY <1>3, <2>2, <2>5 DEF HoldsJob, Notify
      <3> QED
        BY <2>1, <2>2, <2>3, <3>1, LocksTurn
    <2> QED
      BY <2>4, <2>5
  <1>4. CASE AwaitReply(c)
    <2>1. PICK r : Turns(c, r) /\ r.pc \in {"replySleep", "idle"}
      BY <1>4, AwaitReplyEffect
    <2>2. ~HoldsJob(r) /\ ~HoldsJob(calls[c])
      BY <1>4, <2>1 DEF HoldsJob, AwaitReply
    <2> QED
      BY <1>4, <2>1, <2>2, LocksTurn DEF AwaitReply
  <1>5. CASE PrioritySubmit(c)
    <2>1. PICK r : Turns(c, r) /\ r.op = calls[c].op /\ r.pc \in {"notify", "prioRestore"}
      BY <1>5, PrioritySubmitEffect DEF Writes
    <2>2. calls[c].pc = "prioSubmit" /\ calls[c].op = "priority"
      BY <1>5, TypedCall DEF PrioritySubmit, Fits
    <2>3. ~HoldsJob(r) /\ ~HoldsJob(calls[c])
      BY <2>1, <2>2 DEF HoldsJob
    <2> QED
      BY <1>5, <2>1, <2>3, LocksTurn DEF PrioritySubmit
  <1>6. CASE PriorityRestore(c) \/ DeInitSection(c)
    <2>1. Turns(c, IdleCall) /\ worker' = worker /\ jobMutex' = jobMutex
      BY <1>6, PriorityRestoreEffect, DeInitSectionEffect DEF Writes, PriorityRestore, DeInitSection
    <2>2. ~HoldsJob(IdleCall) /\ ~HoldsJob(calls[c])
      BY <1>6, IdleOk DEF PriorityRestore, DeInitSection, HoldsJob
    <2> QED
      BY <2>1, <2>2, LocksTurn
  <1>7. CASE Exit(c) \/ ResetLoop(c) \/ Join(c)
    <2>4. PICK r : Turns(c, r) /\ r.pc \in {"reset", "join", "deinit"}
      BY <1>7, DeInitStepEffect
    <2>2. calls[c].pc \in {"exit", "reset", "join"}
      BY <1>7, DeInitStepEffect
    <2>5. ~HoldsJob(r) /\ ~HoldsJob(calls[c])
      BY <2>2, <2>4 DEF HoldsJob
    <2>6. jobMutex' = jobMutex /\ (worker' = worker \/ (~InJob(worker) /\ ~InJob(worker')))
      BY <1>7 DEF Exit, ResetLoop, Join, Woken, Scanning, InJob
    <2> QED
      BY <2>4, <2>5, <2>6, LocksTurn
  <1> QED
    BY <1>1, <1>2, <1>3, <1>4, <1>5, <1>6, <1>7 DEF Continue

(* The thread takes jobMutex_ of the task it has chosen, or releases it.    *)
LEMMA WorkerLeaves ==
    ASSUME Typed, Locks, InJob(worker), Leave(worker.task), calls' = calls
    PROVE  Locks'
  <1>1. worker.task \in Tasks /\ jobMutex[worker.task] = "worker"
    BY DEF Typed, WorkerOk, InJob, Locks
  <1>2. jobMutex' = [jobMutex EXCEPT ![worker.task] = None] /\ worker' = Scanning /\ ~InJob(worker')
    BY DEF Leave, InJob, Scanning
  <1>3. \A c \in Callers : c # None /\ c # "worker"
    BY TaskAssumption DEF None
  <1>4. jobMutex \in [Tasks -> Callers \cup {None, "worker"}] /\ None # "worker"
    BY DEF Typed, None
  <1>5. \A t \in Tasks : jobMutex'[t] # "worker"
    BY <1>1, <1>2, <1>4 DEF Locks
  <1>6. \A c \in Callers : HoldsJob(calls'[c]) => jobMutex'[calls'[c].task] = c
    <2>1. ASSUME NEW c \in Callers, HoldsJob(calls[c]) PROVE jobMutex'[calls[c].task] = c
      <3>1. calls[c].task \in Tasks /\ jobMutex[calls[c].task] = c
        BY <2>1, TypedCall DEF HoldsJob, Locks, None
      <3> QED
        BY <1>1, <1>2, <1>3, <1>4, <3>1
    <2> QED
      BY <2>1
  <1>7. \A t \in Tasks, c \in Callers : jobMutex'[t] = c => HoldsJob(calls'[c]) /\ calls'[c].task = t
    BY <1>2, <1>3, <1>4 DEF Locks
  <1> QED
    BY <1>2, <1>5, <1>6, <1>7 DEF Locks

\* HandleJob takes jobMutex_ before it runs a job.
LEMMA WorkerEnters ==
    ASSUME Typed, Locks, EnterHandleJob
    PROVE  Locks'
  <1>1. /\ worker'.pc = "locked" /\ worker'.task = worker.task /\ worker.task \in Tasks
        /\ jobMutex' = [jobMutex EXCEPT ![worker.task] = "worker"]
    BY EnterHandleJobEffect
  <1>2. jobMutex[worker.task] = None /\ ~InJob(worker) /\ calls' = calls
    BY DEF EnterHandleJob, InJob
  <1>3. InJob(worker')
    BY <1>1 DEF InJob
  <1>4. \A c \in Callers : c # None /\ c # "worker"
    BY TaskAssumption DEF None
  <1>5. jobMutex \in [Tasks -> Callers \cup {None, "worker"}] /\ None # "worker"
    BY DEF Typed, None
  <1>6. \A t \in Tasks : jobMutex'[t] = "worker" => worker'.task = t
    BY <1>1, <1>2, <1>5 DEF Locks
  <1>7. \A c \in Callers : HoldsJob(calls'[c]) => jobMutex'[calls'[c].task] = c
    <2>1. ASSUME NEW c \in Callers, HoldsJob(calls[c]) PROVE jobMutex'[calls[c].task] = c
      <3>1. calls[c].task \in Tasks /\ jobMutex[calls[c].task] = c
        BY <2>1, TypedCall DEF HoldsJob, Locks, None
      <3> QED
        BY <1>1, <1>2, <1>4, <1>5, <3>1
    <2> QED
      BY <1>2, <2>1
  <1>8. \A t \in Tasks, c \in Callers : jobMutex'[t] = c => HoldsJob(calls'[c]) /\ calls'[c].task = t
    BY <1>1, <1>2, <1>4, <1>5 DEF Locks
  <1> QED
    BY <1>1, <1>3, <1>5, <1>6, <1>7, <1>8 DEF Locks

(* The other steps of the thread and of the jobs it runs.                   *)
LEMMA WorkerLocks ==
    ASSUME Typed, Locks, ThreadStep \/ SpuriousWakeup \/ JobStep
    PROVE  Locks'
  <1>1. CASE EnterHandleJob
    BY <1>1, WorkerEnters
  <1>2. CASE Leave(worker.task) /\ InJob(worker) /\ calls' = calls
    BY <1>2, WorkerLeaves
  <1>3. CASE jobMutex' = jobMutex /\ calls' = calls /\ ~InJob(worker) /\ ~InJob(worker')
    BY <1>3, LocksKept
  <1>4. CASE jobMutex' = jobMutex /\ calls' = calls /\ InJob(worker) /\ InJob(worker')
             /\ worker'.task = worker.task
    BY <1>4, LocksKept
  <1>5. CASE NotifyReply
    <2>1. \A d \in Callers :
              /\ HoldsJob(calls'[d]) <=> HoldsJob(calls[d])
              /\ HoldsJob(calls[d]) => calls'[d].task = calls[d].task
      BY <1>5, NotifyReplyEffect DEF HoldsJob
    <2>2. InJob(worker) /\ InJob(worker') /\ worker'.task = worker.task /\ jobMutex' = jobMutex
      BY <1>5, NotifyReplyEffect DEF NotifyReply, InJob
    <2> QED
      BY <2>1, <2>2, LocksKept
  <1>6. CASE Scan
    BY <1>3, <1>6, ScanEffect DEF Scan, InJob
  <1>7. CASE WaitTimeout \/ SpuriousWakeup
    BY <1>3, <1>7, ScanningOk DEF WaitTimeout, SpuriousWakeup, InJob
  <1>8. CASE HandleLoop
    BY <1>2, <1>4, <1>8, HandleLoopEffect DEF HandleLoop, InJob
  <1>9. CASE HandleQueued
    BY <1>2, <1>4, <1>9, HandleQueuedEffect DEF HandleQueued, InJob
  <1>10. CASE EndLoop \/ EndQueued
    BY <1>2, <1>10, EndLoopEffect, EndQueuedEffect DEF EndLoop, EndQueued, InJob
  <1>11. CASE JobHaltTop
    BY <1>4, <1>11, JobHaltTopEffect DEF JobHaltTop, InJob
  <1>12. CASE JobStep
    <2>1. ASSUME NEW t \in Tasks, JobStart(t) \/ JobSubmit(t) PROVE Locks'
      BY <2>1, LocksKept DEF JobStart, JobSubmit
    <2>2. ASSUME NEW t \in Tasks, NEW s \in {"PAUSED", "STOPPED"}, JobHalt(t, s) PROVE Locks'
      BY <1>4, <2>2, JobHaltEffect DEF JobHalt, InJob
    <2>3. CASE JobHaltUnknown
      BY <1>4, <2>3, JobHaltUnknownEffect DEF JobHaltUnknown, InJob
    <2> QED
      BY <1>12, <2>1, <2>2, <2>3 DEF JobStep
  <1> QED
    BY <1>1, <1>5, <1>6, <1>7, <1>8, <1>9, <1>10, <1>11, <1>12 DEF ThreadStep

\* Every step keeps the ownership of jobMutex_.
LEMMA StepLocks ==
    ASSUME Typed, Locks, [Next]_vars
    PROVE  Locks'
  <1>1. CASE Tick \/ UNCHANGED vars
    BY <1>1, LocksKept DEF Tick, vars
  <1> QED
    BY <1>1, CallStepLocks, ContinueLocks, WorkerLocks DEF Next

\* At the start nobody holds a jobMutex_.
LEMMA InitiallyLocks ==
    ASSUME Init
    PROVE  Locks
  <1>1. \A c \in Callers : c # None /\ c # "worker"
    BY TaskAssumption DEF None
  <1>2. worker.pc = "scan" /\ \A t \in Tasks : jobMutex[t] = None
    BY DEF Init, Scanning
  <1>3. \A c \in Callers : calls[c].pc = "idle"
    BY IdleOk DEF Init
  <1> QED
    BY <1>1, <1>2, <1>3 DEF Locks, InJob, HoldsJob, None
-----------------------------------------------------------------------------
(* A halted task runs no job.                                               *)

(* A task that was halted and not started since is not STARTED.             *)
QuietHalted == \A t \in Tasks \cap quiet : task[t].runningState # "STARTED"

(* A step leaves a task's state alone, takes it out of STARTED, or starts it
   and says so.                                                             *)
RunsOnlyStarted ==
    \A t \in Tasks : \/ task'[t].runningState = task[t].runningState
                     \/ task'[t].runningState # "STARTED"
                     \/ t \notin quiet'

(* A task becomes quiet when it is halted, by a thread that is not in one of
   its jobs.                                                                *)
QuietGrows ==
    \A t \in Tasks \cap quiet' :
        t \in quiet \/ (task'[t].runningState # "STARTED" /\ jobMutex[t] # "worker")

(* A step that writes one task and leaves its state.                        *)
LEMMA StateKept ==
    ASSUME NEW u \in Tasks, NEW k, Sets(u, k), k.runningState = task[u].runningState
    PROVE  RunsOnlyStarted
  BY DEF Sets, RunsOnlyStarted

(* A step that halts one task.                                              *)
LEMMA StateHalted ==
    ASSUME NEW u \in Tasks, NEW k, Sets(u, k), k.runningState # "STARTED"
    PROVE  RunsOnlyStarted
  BY DEF Sets, RunsOnlyStarted

\* A step after which no more tasks are to be quiet.
LEMMA NoneQuieter ==
    ASSUME quiet' \subseteq quiet
    PROVE  QuietGrows
  BY DEF QuietGrows

(* A job filed in one task leaves every task's state.                       *)
LEMMA FiledKeepsState ==
    ASSUME Typed, NEW u \in Tasks, NEW d \in Int, NEW inJob \in BOOLEAN,
           Sets(u, InsertJob(task[u], submitted + 1, d, inJob))
    PROVE  RunsOnlyStarted
  <1>1. task[u] \in TaskStates /\ now \in Nat /\ submitted + 1 \in Nat
    BY DEF Typed
  <1>2. PICK at : FiledAt(task[u], InsertJob(task[u], submitted + 1, d, inJob), submitted + 1, at, inJob)
    BY <1>1, InsertJobOk
  <1>3. InsertJob(task[u], submitted + 1, d, inJob).runningState = task[u].runningState
    BY <1>2 DEF FiledAt
  <1> QED
    BY <1>3, StateKept

\* The first sections of the calls promise nothing to their callers yet.
LEMMA CallStepStates ==
    ASSUME Typed, NEW c \in Callers, NEW u \in Tasks, CallStep(c, u)
    PROVE  RunsOnlyStarted /\ QuietGrows
  <1>0. task[u] \in TaskStates /\ now \in Nat /\ submitted + 1 \in Nat
    BY DEF Typed
  <1>1. CASE Start(c, u)
    <2>1. Sets(u, Started(task[u])) /\ quiet' = quiet \ {u}
      BY <1>1, StartEffect DEF Writes, Start
    <2> QED
      BY <2>1, NoneQuieter DEF Sets, RunsOnlyStarted
  <1>2. CASE PauseAsync(c, u) \/ StopAsync(c, u)
    <2>1. PICK op \in {"pauseAsync", "stopAsync"}, s \in {"PAUSED", "STOPPED"} : HaltAsync(c, u, op, s)
      BY <1>2 DEF PauseAsync, StopAsync
    <2>2. s \in RunningState
      BY DEF RunningState
    <2>3. Sets(u, Halted(task[u], s)) \/ task' = task
      BY <2>1, <2>2, HaltAsyncEffect DEF Writes
    <2>4. Halted(task[u], s).runningState # "STARTED"
      BY <1>0, <2>2, HaltedOk
    <2>5. CASE Sets(u, Halted(task[u], s))
      BY <2>1, <2>4, <2>5, StateHalted, NoneQuieter DEF HaltAsync
    <2>6. CASE task' = task
      BY <2>1, <2>6, NoneQuieter DEF HaltAsync, RunsOnlyStarted
    <2> QED
      BY <2>3, <2>5, <2>6
  <1>3. CASE Pause(c, u) \/ Stop(c, u) \/ DeInit(c, u)
    BY <1>3, NoneQuieter DEF Pause, Stop, Halt, DeInit, RunsOnlyStarted
  <1>4. CASE SubmitJob(c, u) \/ SubmitJobOnce(c, u)
    <2>1. PICK op \in {"submit", "submitOnce"}, wait \in BOOLEAN : Submit(c, u, op, wait)
      BY <1>4 DEF SubmitJob, SubmitJobOnce
    <2>2. PICK d \in Int : Sets(u, InsertJob(task[u], submitted + 1, d, op = "submit"))
      BY <2>1, SubmitEffect DEF Writes
    <2>3. (op = "submit") \in BOOLEAN
      OBVIOUS
    <2> QED
      BY <2>1, <2>2, <2>3, FiledKeepsState, NoneQuieter DEF Submit
  <1>5. CASE UpdateDelayTime(c, u)
    <2>1. PICK k : Sets(u, k) /\ SameButTop(task[u], k)
      BY <1>5, UpdateDelayTimeEffect DEF Writes
    <2> QED
      BY <1>5, <2>1, StateKept, NoneQuieter DEF UpdateDelayTime, SameButTop
  <1>6. CASE UpdateThreadPriority(c, u)
    <2>1. Sets(u, [task[u] EXCEPT !.singleLoop = FALSE])
      BY <1>6, UpdateThreadPriorityEffect DEF Writes
    <2>2. [task[u] EXCEPT !.singleLoop = FALSE].runningState = task[u].runningState
      BY <1>0 DEF TaskStates
    <2> QED
      BY <1>6, <2>1, <2>2, StateKept, NoneQuieter DEF UpdateThreadPriority
  <1> QED
    BY <1>1, <1>2, <1>3, <1>4, <1>5, <1>6 DEF CallStep

\* A call returns its promise only for a task that is halted and at rest.
LEMMA ContinueStates ==
    ASSUME Typed, Locks, NEW c \in Callers, Continue(c)
    PROVE  RunsOnlyStarted /\ QuietGrows
  <1>1. CASE HaltSection(c)
    <2> DEFINE u == calls[c].task
               s == IF calls[c].op = "pause" THEN "PAUSED" ELSE "STOPPED"
    <2>1. u \in Tasks /\ quiet' = quiet \cup {u} /\ calls[c].pc = "locked"
      BY <1>1, HaltSectionEffect DEF HaltSection
    <2>2. jobMutex[u] = c /\ c # "worker"
      BY <2>1, TaskAssumption DEF Locks, HoldsJob
    <2>3. task[u] \in TaskStates /\ s \in RunningState /\ s # "STARTED"
      BY <2>1 DEF Typed, RunningState
    <2>4. Sets(u, Halted(task[u], s)) \/ (task' = task /\ ~Haltable(task[u], s))
      BY <1>1, HaltSectionEffect DEF Writes
    <2>5. Halted(task[u], s).runningState # "STARTED"
      BY <2>3, HaltedOk
    <2>6. RunsOnlyStarted /\ task'[u].runningState # "STARTED"
      <3>1. CASE Sets(u, Halted(task[u], s))
        BY <2>1, <2>5, <3>1, StateHalted DEF Sets
      <3>2. CASE task' = task /\ ~Haltable(task[u], s)
        BY <2>3, <3>2 DEF Haltable, RunsOnlyStarted
      <3> QED
        BY <2>4, <3>1, <3>2
    <2> QED
      BY <2>1, <2>2, <2>6 DEF QuietGrows
  <1>2. CASE DeInitSection(c)
    <2> DEFINE u == calls[c].task
    <2>1. u \in Tasks /\ quiet' = quiet \cup {u} /\ jobMutex[u] = None
      BY <1>2, DeInitSectionEffect DEF DeInitSection
    <2>2. task[u] \in TaskStates /\ "STOPPED" \in RunningState
      BY <2>1 DEF Typed, RunningState
    <2>3. Sets(u, Halted(task[u], "STOPPED"))
      BY <1>2, DeInitSectionEffect DEF Writes
    <2>4. Halted(task[u], "STOPPED").runningState # "STARTED"
      BY <2>2, HaltedOk
    <2>5. RunsOnlyStarted /\ task'[u].runningState # "STARTED"
      BY <2>1, <2>3, <2>4, StateHalted DEF Sets
    <2> QED
      BY <2>1, <2>5 DEF QuietGrows, None
  <1>3. CASE PrioritySubmit(c)
    <2> DEFINE u == calls[c].task
    <2>1. u \in Tasks /\ Sets(u, InsertJob(task[u], submitted + 1, 0, FALSE))
      BY <1>3, PrioritySubmitEffect DEF Writes
    <2>2. task[u] \in TaskStates /\ now \in Nat /\ submitted + 1 \in Nat /\ 0 \in Int
      BY <2>1 DEF Typed
    <2>3. FALSE \in BOOLEAN
      OBVIOUS
    <2>4. RunsOnlyStarted
      BY <2>1, <2>2, <2>3, FiledKeepsState, Zenon
    <2> QED
      BY <1>3, <2>4, NoneQuieter DEF PrioritySubmit
  <1>4. CASE PriorityRestore(c)
    <2> DEFINE u == calls[c].task
               k == [task[u] EXCEPT !.singleLoop = calls[c].saved]
    <2>1. u \in Tasks /\ Sets(u, k)
      BY <1>4, PriorityRestoreEffect DEF Writes
    <2>2. k.runningState = task[u].runningState
      BY <2>1 DEF Typed, TaskStates
    <2> QED
      BY <1>4, <2>1, <2>2, StateKept, NoneQuieter DEF PriorityRestore
  <1>5. CASE LockJob(c) \/ Notify(c) \/ AwaitReply(c) \/ Exit(c) \/ ResetLoop(c) \/ Join(c)
    BY <1>5, NoneQuieter DEF LockJob, Notify, AwaitReply, Exit, ResetLoop, Join, RunsOnlyStarted
  <1> QED
    BY <1>1, <1>2, <1>3, <1>4, <1>5 DEF Continue

\* The pipeline thread and the jobs start no halted task.
LEMMA ThreadStates ==
    ASSUME Typed, ThreadStep \/ SpuriousWakeup \/ Tick \/ JobStep \/ UNCHANGED vars
    PROVE  RunsOnlyStarted /\ QuietGrows
  <1>1. CASE \/ Scan \/ WaitTimeout \/ SpuriousWakeup \/ EnterHandleJob \/ NotifyReply \/ Tick
             \/ JobHaltUnknown \/ UNCHANGED vars
    BY <1>1, NoneQuieter DEF Scan, WaitTimeout, SpuriousWakeup, EnterHandleJob, NotifyReply, Tick,
                             JobHaltUnknown, vars, RunsOnlyStarted
  <1>2. ASSUME NEW u \in Tasks, NEW a \in Times, Sets(u, [task[u] EXCEPT !.topProcessUs = a])
        PROVE  RunsOnlyStarted
    <2>1. SameButTop(task[u], [task[u] EXCEPT !.topProcessUs = a])
      BY RetimedOk DEF Typed
    <2> QED
      BY <1>2, <2>1, StateKept DEF SameButTop
  <1>3. -1 \in Times
    BY DEF Times
  <1>4. CASE HandleLoop
    <2>1. RunsOnlyStarted
      BY <1>2, <1>3, <1>4, HandleLoopEffect DEF RunsOnlyStarted
    <2> QED
      BY <1>4, <2>1, NoneQuieter DEF HandleLoop
  <1>5. CASE JobHaltTop
    BY <1>2, <1>3, <1>5, JobHaltTopEffect, NoneQuieter DEF JobHaltTop
  <1>6. CASE HandleQueued
    <2>1. task' = task \/ \E k : Sets(worker.task, k) /\ k.runningState = task[worker.task].runningState
      BY <1>6, HandleQueuedEffect
    <2>2. RunsOnlyStarted
      BY <1>6, <2>1, HandleQueuedEffect, StateKept DEF RunsOnlyStarted
    <2> QED
      BY <1>6, <2>2, NoneQuieter DEF HandleQueued
  <1>7. CASE EndLoop
    BY <1>7, EndLoopEffect, StateKept, NoneQuieter DEF EndLoop, SameButTop
  <1>8. CASE EndQueued
    <2>1. worker.task \in Tasks /\ Sets(worker.task, UpdateTop(task[worker.task]))
      BY <1>8, EndQueuedEffect
    <2>2. UpdateTop(task[worker.task]).runningState = task[worker.task].runningState
      BY <2>1, UpdateTopOk DEF Typed, SameButTop
    <2> QED
      BY <1>8, <2>1, <2>2, StateKept, NoneQuieter DEF EndQueued
  <1>9. ASSUME NEW u \in Tasks, JobStart(u) PROVE RunsOnlyStarted /\ QuietGrows
    <2>1. Sets(u, Started(task[u])) /\ quiet' = quiet \ {u}
      BY <1>9, JobStartEffect DEF JobStart
    <2> QED
      BY <2>1, NoneQuieter DEF Sets, RunsOnlyStarted
  <1>10. ASSUME NEW u \in Tasks, JobSubmit(u) PROVE RunsOnlyStarted /\ QuietGrows
    BY <1>10, JobSubmitEffect, FiledKeepsState, NoneQuieter DEF JobSubmit
  <1>11. ASSUME NEW u \in Tasks, NEW s \in {"PAUSED", "STOPPED"}, JobHalt(u, s)
         PROVE  RunsOnlyStarted /\ QuietGrows
    BY <1>11, JobHaltEffect, StateHalted, NoneQuieter DEF JobHalt
  <1> QED
    BY <1>1, <1>4, <1>5, <1>6, <1>7, <1>8, <1>9, <1>10, <1>11 DEF ThreadStep, JobStep

(* The thread starts a job only in a task that is STARTED.                  *)
Loud(w) == w.pc \in {"run", "halting", "after"} /\ w.kind # "msg"

\* A thread that runs a job did so before, or the task was STARTED when it looked.
LEMMA StepLoud ==
    ASSUME Typed, [Next]_vars, Loud(worker')
    PROVE  \/ Loud(worker) /\ worker'.task = worker.task
           \/ worker'.task \in Tasks /\ task[worker'.task].runningState = "STARTED" /\ quiet' = quiet
  <1>1. CASE worker' = worker
    BY <1>1
  <1>2. CASE worker' = Scanning
    BY <1>2 DEF Loud, Scanning
  <1>3. ASSUME NEW c \in Callers, Continue(c) PROVE worker' = worker \/ worker' = Scanning
    BY <1>3 DEF Continue, LockJob, HaltSection, Notify, AwaitReply, PrioritySubmit, PriorityRestore,
                Exit, ResetLoop, Join, DeInitSection, Woken
  <1>4. ASSUME NEW c \in Callers, NEW t \in Tasks, CallStep(c, t) PROVE worker' = worker
    BY <1>4 DEF CallStep, Start, Pause, Stop, Halt, PauseAsync, StopAsync, HaltAsync, SubmitJob,
           SubmitJobOnce, Submit, UpdateDelayTime, UpdateThreadPriority, DeInit
  <1>5. CASE Scan
    BY <1>5, ScanEffect DEF Loud
  <1>6. CASE EnterHandleJob
    BY <1>6, EnterHandleJobEffect DEF Loud
  <1>7. CASE HandleLoop
    BY <1>2, <1>7, HandleLoopEffect DEF HandleLoop, Leave, MayRun
  <1>8. CASE HandleQueued
    <2>1. CASE Leave(worker.task)
      BY <1>2, <2>1 DEF Leave
    <2>2. CASE ~Leave(worker.task)
      <3>1. /\ worker.task \in Tasks /\ worker'.task = worker.task
            /\ task[worker.task].topIsJob => MayRun(task[worker.task])
            /\ \/ worker'.pc = "undefined"
               \/ worker'.kind = IF task[worker.task].topIsJob THEN "job" ELSE "msg"
        BY <1>8, <2>2, HandleQueuedEffect
      <3> QED
        BY <1>8, <3>1 DEF Loud, MayRun, HandleQueued
    <2> QED
      BY <2>1, <2>2
  <1>9. CASE NotifyReply
    BY <1>9, NotifyReplyEffect DEF Loud, NotifyReply
  <1>10. CASE JobHaltTop
    BY <1>10, JobHaltTopEffect DEF Loud, JobHaltTop
  <1>11. CASE WaitTimeout \/ SpuriousWakeup \/ EndLoop \/ EndQueued
    BY <1>2, <1>11 DEF WaitTimeout, SpuriousWakeup, EndLoop, EndQueued, Leave
  <1>12. CASE JobStep
    <2>1. ASSUME NEW t \in Tasks, JobStart(t) \/ JobSubmit(t) PROVE worker' = worker
      BY <2>1 DEF JobStart, JobSubmit
    <2>2. ASSUME NEW t \in Tasks, NEW s \in {"PAUSED", "STOPPED"}, JobHalt(t, s)
          PROVE  Loud(worker) /\ worker'.task = worker.task
      BY <2>2, JobHaltEffect DEF Loud
    <2>3. CASE JobHaltUnknown
      BY <2>3, JobHaltUnknownEffect DEF Loud
    <2> QED
      BY <1>1, <1>12, <2>1, <2>2, <2>3 DEF JobStep
  <1>13. CASE Tick \/ UNCHANGED vars
    BY <1>1, <1>13 DEF Tick, vars
  <1> QED
    BY <1>1, <1>2, <1>3, <1>4, <1>5, <1>6, <1>7, <1>8, <1>9, <1>10, <1>11, <1>12, <1>13
       DEF Next, ThreadStep

\* Every step keeps halted tasks quiet.
LEMMA StepQuiet ==
    ASSUME Typed, Locks, QuietHalted, PausedIsQuiet, [Next]_vars
    PROVE  QuietHalted' /\ PausedIsQuiet'
  <1>1. RunsOnlyStarted /\ QuietGrows
    BY CallStepStates, ContinueStates, ThreadStates DEF Next
  <1>2. QuietHalted'
    BY <1>1 DEF QuietHalted, RunsOnlyStarted, QuietGrows
  <1>3. PausedIsQuiet'
    <2> SUFFICES ASSUME Loud(worker') PROVE worker'.task \notin quiet'
      BY DEF PausedIsQuiet, Loud
    <2>1. CASE Loud(worker) /\ worker'.task = worker.task
      <3>1. worker.task \notin quiet /\ InJob(worker) /\ worker.task \in Tasks
        BY <2>1 DEF PausedIsQuiet, Loud, InJob, Typed, WorkerOk
      <3>2. jobMutex[worker.task] = "worker"
        BY <3>1 DEF Locks
      <3> QED
        BY <1>1, <2>1, <3>1, <3>2 DEF QuietGrows
    <2>2. CASE worker'.task \in Tasks /\ task[worker'.task].runningState = "STARTED" /\ quiet' = quiet
      BY <2>2 DEF QuietHalted
    <2> QED
      BY <2>1, <2>2, StepLoud
  <1> QED
    BY <1>2, <1>3

(* From the moment Pause, Stop or DeInit has halted a task until it is started
   again, no job of the task runs: HandleJob looks at the state under
   jobMutex_, which the halting call waits for.                             *)
THEOREM PausedStaysQuiet == Spec => []PausedIsQuiet
  <1> DEFINE QInv == Typed /\ Locks /\ QuietHalted /\ PausedIsQuiet
  <1>1. Init => QInv
    BY InitiallyTyped, InitiallyLocks DEF Init, Scanning, QuietHalted, PausedIsQuiet
  <1>2. QInv /\ [Next]_vars => QInv'
    BY StepTyped, StepLocks, StepQuiet
  <1>3. QInv => PausedIsQuiet
    OBVIOUS
  <1> QED
    BY <1>1, <1>2, <1>3, PTL DEF Spec
-----------------------------------------------------------------------------
(* What happens to the submitted jobs, what the thread finds when it takes
   one, when it sleeps and when it ends.                                    *)

(* What a step does to the queues: nothing, ...                             *)
QueuesKept ==
    /\ \A t \in Tasks, b \in BOOLEAN : QueueOf(task'[t], b) = QueueOf(task[t], b)
    /\ submitted' = submitted /\ ran' = ran

(* ... or it files the job submitted last in queue b of task u at a time that
   was free, ...                                                            *)
FiledInto(u, b, at) ==
    /\ \A t \in Tasks, c \in BOOLEAN :
          <<t, c>> # <<u, b>> => QueueOf(task'[t], c) = QueueOf(task[t], c)
    /\ at \notin DOMAIN QueueOf(task[u], b)
    /\ DOMAIN QueueOf(task'[u], b) = DOMAIN QueueOf(task[u], b) \cup {at}
    /\ QueueOf(task'[u], b)[at] = submitted + 1
    /\ \A x \in DOMAIN QueueOf(task[u], b) : QueueOf(task'[u], b)[x] = QueueOf(task[u], b)[x]
    /\ submitted' = submitted + 1 /\ ran' = ran

JobFiled == \E u \in Tasks, b \in BOOLEAN, at \in Nat : FiledInto(u, b, at)

(* ... or it takes the first entry of a queue to run it.                    *)
TakenFrom(u, b) ==
    LET q == QueueOf(task[u], b)
        r == QueueOf(task'[u], b)
    IN /\ \A t \in Tasks, c \in BOOLEAN :
              <<t, c>> # <<u, b>> => QueueOf(task'[t], c) = QueueOf(task[t], c)
       /\ First(q) \in DOMAIN q
       /\ DOMAIN r = DOMAIN q \ {First(q)}
       /\ \A x \in DOMAIN r : r[x] = q[x]
       /\ submitted' = submitted /\ ran' = ran \cup {q[First(q)]}

JobTaken == \E u \in Tasks, b \in BOOLEAN : TakenFrom(u, b)

(* A step that writes a task and leaves its queues.                         *)
LEMMA SetsQueues ==
    ASSUME NEW u \in Tasks, NEW k, Sets(u, k),
           k.msgQueue = task[u].msgQueue, k.jobQueue = task[u].jobQueue,
           submitted' = submitted, ran' = ran
    PROVE  QueuesKept
  BY DEF Sets, QueuesKept, QueueOf

(* A step that writes none.                                                 *)
LEMMA SameQueues ==
    ASSUME task' = task, submitted' = submitted, ran' = ran
    PROVE  QueuesKept
  BY DEF QueuesKept

\* InsertJob files one job.
LEMMA SetsFiled ==
    ASSUME Typed, NEW u \in Tasks, NEW d \in Int, NEW b \in BOOLEAN,
           Sets(u, InsertJob(task[u], submitted + 1, d, b)),
           submitted' = submitted + 1, ran' = ran
    PROVE  JobFiled
  <1> DEFINE k == InsertJob(task[u], submitted + 1, d, b)
             at == ProcessTime(QueueOf(task[u], b), d)
  <1>1. task[u] \in TaskStates /\ now \in Nat /\ submitted + 1 \in Nat
    BY DEF Typed
  <1>2. FiledAt(task[u], k, submitted + 1, at, b)
    BY <1>1, InsertJobOk
  <1> HIDE DEF k, at
  <1>3. task'[u] = k /\ \A t \in Tasks : t # u => task'[t] = task[t]
    BY DEF Sets, k
  <1>4. /\ QueueOf(k, ~b) = QueueOf(task[u], ~b) /\ at \in Nat
        /\ at \notin DOMAIN QueueOf(task[u], b)
        /\ DOMAIN QueueOf(k, b) = DOMAIN QueueOf(task[u], b) \cup {at}
        /\ QueueOf(k, b)[at] = submitted + 1
        /\ \A x \in DOMAIN QueueOf(task[u], b) : QueueOf(k, b)[x] = QueueOf(task[u], b)[x]
    BY <1>2 DEF FiledAt
  <1>5. ASSUME NEW t \in Tasks, NEW c \in BOOLEAN, <<t, c>> # <<u, b>>
        PROVE  QueueOf(task'[t], c) = QueueOf(task[t], c)
    <2>1. CASE t = u
      <3>1. c = ~b
        BY <1>5, <2>1
      <3> QED
        BY <1>3, <1>4, <2>1, <3>1
    <2> QED
      BY <1>3, <2>1
  <1>6. FiledInto(u, b, at)
    BY <1>3, <1>4, <1>5 DEF FiledInto
  <1> QED
    BY <1>4, <1>6 DEF JobFiled

\* The first sections of the calls file jobs and take none.
LEMMA CallStepQueues ==
    ASSUME Typed, NEW c \in Callers, NEW u \in Tasks, CallStep(c, u)
    PROVE  QueuesKept \/ JobFiled
  <1>0. task[u] \in TaskStates /\ now \in Nat
    BY DEF Typed
  <1>1. CASE Start(c, u)
    <2>1. Sets(u, Started(task[u]))
      BY <1>1, StartEffect DEF Writes
    <2>2. Started(task[u]).msgQueue = task[u].msgQueue /\ Started(task[u]).jobQueue = task[u].jobQueue
      BY <1>0, StartedOk
    <2> QED
      BY <1>1, <2>1, <2>2, SetsQueues DEF Start
  <1>2. CASE PauseAsync(c, u) \/ StopAsync(c, u)
    <2>1. PICK op \in {"pauseAsync", "stopAsync"}, s \in {"PAUSED", "STOPPED"} : HaltAsync(c, u, op, s)
      BY <1>2 DEF PauseAsync, StopAsync
    <2>2. s \in RunningState /\ submitted' = submitted /\ ran' = ran
      BY <2>1 DEF RunningState, HaltAsync
    <2>3. Sets(u, Halted(task[u], s)) \/ task' = task
      BY <2>1, <2>2, HaltAsyncEffect DEF Writes
    <2>4. Halted(task[u], s).msgQueue = task[u].msgQueue /\ Halted(task[u], s).jobQueue = task[u].jobQueue
      BY <1>0, <2>2, HaltedOk
    <2> QED
      BY <2>2, <2>3, <2>4, SetsQueues, SameQueues
  <1>3. CASE Pause(c, u) \/ Stop(c, u) \/ DeInit(c, u)
    BY <1>3, SameQueues DEF Pause, Stop, Halt, DeInit
  <1>4. CASE SubmitJob(c, u) \/ SubmitJobOnce(c, u)
    <2>1. PICK op \in {"submit", "submitOnce"}, wait \in BOOLEAN : Submit(c, u, op, wait)
      BY <1>4 DEF SubmitJob, SubmitJobOnce
    <2>2. PICK d \in Int : Sets(u, InsertJob(task[u], submitted + 1, d, op = "submit"))
      BY <2>1, SubmitEffect DEF Writes
    <2>3. (op = "submit") \in BOOLEAN
      OBVIOUS
    <2> QED
      BY <2>1, <2>2, <2>3, SetsFiled DEF Submit
  <1>5. CASE UpdateDelayTime(c, u)
    <2>1. PICK k : Sets(u, k) /\ SameButTop(task[u], k)
      BY <1>5, UpdateDelayTimeEffect DEF Writes
    <2> QED
      BY <1>5, <2>1, SetsQueues DEF UpdateDelayTime, SameButTop
  <1>6. CASE UpdateThreadPriority(c, u)
    <2>1. Sets(u, [task[u] EXCEPT !.singleLoop = FALSE])
      BY <1>6, UpdateThreadPriorityEffect DEF Writes
    <2>2. /\ [task[u] EXCEPT !.singleLoop = FALSE].msgQueue = task[u].msgQueue
          /\ [task[u] EXCEPT !.singleLoop = FALSE].jobQueue = task[u].jobQueue
      BY <1>0 DEF TaskStates
    <2> QED
      BY <1>6, <2>1, <2>2, SetsQueues DEF UpdateThreadPriority
  <1> QED
    BY <1>1, <1>2, <1>3, <1>4, <1>5, <1>6 DEF CallStep

\* The later sections of the calls file jobs and take none.
LEMMA ContinueQueues ==
    ASSUME Typed, NEW c \in Callers, Continue(c)
    PROVE  QueuesKept \/ JobFiled
  <1> DEFINE u == calls[c].task
  <1>1. CASE HaltSection(c)
    <2> DEFINE s == IF calls[c].op = "pause" THEN "PAUSED" ELSE "STOPPED"
    <2>1. u \in Tasks /\ (Sets(u, Halted(task[u], s)) \/ task' = task)
      BY <1>1, HaltSectionEffect DEF Writes
    <2>2. task[u] \in TaskStates /\ s \in RunningState
      BY <2>1 DEF Typed, RunningState
    <2>3. Halted(task[u], s).msgQueue = task[u].msgQueue /\ Halted(task[u], s).jobQueue = task[u].jobQueue
      BY <2>2, HaltedOk
    <2>4. submitted' = submitted /\ ran' = ran
      BY <1>1 DEF HaltSection
    <2> QED
      BY <2>1, <2>3, <2>4, SetsQueues, SameQueues
  <1>2. CASE DeInitSection(c)
    <2>1. u \in Tasks /\ Sets(u, Halted(task[u], "STOPPED"))
      BY <1>2, DeInitSectionEffect DEF Writes
    <2>2. task[u] \in TaskStates /\ "STOPPED" \in RunningState
      BY <2>1 DEF Typed, RunningState
    <2>3. /\ Halted(task[u], "STOPPED").msgQueue = task[u].msgQueue
          /\ Halted(task[u], "STOPPED").jobQueue = task[u].jobQueue
      BY <2>2, HaltedOk
    <2> QED
      BY <1>2, <2>1, <2>3, SetsQueues DEF DeInitSection
  <1>3. CASE PrioritySubmit(c)
    <2>1. u \in Tasks /\ Sets(u, InsertJob(task[u], submitted + 1, 0, FALSE))
      BY <1>3, PrioritySubmitEffect DEF Writes
    <2>2. submitted' = submitted + 1 /\ ran' = ran
      BY <1>3 DEF PrioritySubmit
    <2>3. 0 \in Int /\ FALSE \in BOOLEAN
      OBVIOUS
    <2> QED
      BY <2>1, <2>2, <2>3, SetsFiled, Zenon
  <1>4. CASE PriorityRestore(c)
    <2> DEFINE k == [task[u] EXCEPT !.singleLoop = calls[c].saved]
    <2>1. u \in Tasks /\ Sets(u, k)
      BY <1>4, PriorityRestoreEffect DEF Writes
    <2>2. k.msgQueue = task[u].msgQueue /\ k.jobQueue = task[u].jobQueue
      BY <2>1 DEF Typed, TaskStates
    <2> QED
      BY <1>4, <2>1, <2>2, SetsQueues DEF PriorityRestore
  <1>5. CASE LockJob(c) \/ Notify(c) \/ AwaitReply(c) \/ Exit(c) \/ ResetLoop(c) \/ Join(c)
    BY <1>5, SameQueues DEF LockJob, Notify, AwaitReply, Exit, ResetLoop, Join
  <1> QED
    BY <1>1, <1>2, <1>3, <1>4, <1>5 DEF Continue

(* HandleJob takes the first entry of the queue topIsJob_ names.            *)
LEMMA HandleQueuedQueues ==
    ASSUME Typed, HandleQueued
    PROVE  QueuesKept \/ JobTaken
  <1> DEFINE u == worker.task
             b == task[u].topIsJob
             q == QueueOf(task[u], b)
  <1>1. submitted' = submitted /\ u \in Tasks
    BY HandleQueuedEffect DEF HandleQueued
  <1>2. b \in BOOLEAN
    BY <1>1 DEF Typed, TaskStates
  <1>3. CASE task' = task /\ ran' = ran
    BY <1>1, <1>3, SameQueues
  <1>4. CASE ~(task' = task /\ ran' = ran)
    <2>1. /\ ~Empty(q) /\ q \in Queues /\ ran' = ran \cup {q[First(q)]}
          /\ \E k : /\ Sets(u, k) /\ QueueOf(k, b) = EraseFirst(q)
                    /\ QueueOf(k, ~b) = QueueOf(task[u], ~b)
      BY <1>4, HandleQueuedEffect
    <2>2. PICK k : Sets(u, k) /\ QueueOf(k, b) = EraseFirst(q) /\ QueueOf(k, ~b) = QueueOf(task[u], ~b)
      BY <2>1
    <2>3. First(q) \in DOMAIN q
      BY <2>1, FirstOk
    <2>4. DOMAIN EraseFirst(q) = DOMAIN q \ {First(q)} /\ \A x \in DOMAIN EraseFirst(q) : EraseFirst(q)[x] = q[x]
      BY <2>1, EraseFirstOk
    <2>5. task'[u] = k /\ \A t \in Tasks : t # u => task'[t] = task[t]
      BY <2>2 DEF Sets
    <2> HIDE DEF b
    <2>6. ASSUME NEW t \in Tasks, NEW c \in BOOLEAN, <<t, c>> # <<u, b>>
          PROVE  QueueOf(task'[t], c) = QueueOf(task[t], c)
      <3>1. CASE t = u
        <4>1. c = ~b
          BY <1>2, <2>6, <3>1
        <4> QED
          BY <2>2, <2>5, <3>1, <4>1
      <3> QED
        BY <2>5, <3>1
    <2>7. TakenFrom(u, b)
      BY <1>1, <2>1, <2>2, <2>3, <2>4, <2>5, <2>6 DEF TakenFrom
    <2> QED
      BY <1>1, <1>2, <2>7 DEF JobTaken
  <1> QED
    BY <1>3, <1>4

\* Only the pipeline thread takes jobs.
LEMMA ThreadQueues ==
    ASSUME Typed, ThreadStep \/ SpuriousWakeup \/ Tick \/ JobStep \/ UNCHANGED vars
    PROVE  QueuesKept \/ JobFiled \/ JobTaken
  <1>1. CASE \/ Scan \/ WaitTimeout \/ SpuriousWakeup \/ EnterHandleJob \/ NotifyReply \/ Tick
             \/ JobHaltUnknown \/ UNCHANGED vars
    BY <1>1, SameQueues DEF Scan, WaitTimeout, SpuriousWakeup, EnterHandleJob, NotifyReply, Tick,
                            JobHaltUnknown, vars
  <1>2. ASSUME NEW u \in Tasks, NEW k, Sets(u, k), SameButTop(task[u], k),
               submitted' = submitted, ran' = ran
        PROVE  QueuesKept
    BY <1>2, SetsQueues DEF SameButTop
  <1>3. ASSUME NEW u \in Tasks PROVE SameButTop(task[u], [task[u] EXCEPT !.topProcessUs = -1])
    BY RetimedOk DEF Typed, Times
  <1>4. CASE HandleLoop
    <2>1. submitted' = submitted /\ ran' = ran
      BY <1>4 DEF HandleLoop
    <2> QED
      BY <1>2, <1>3, <1>4, <2>1, HandleLoopEffect, SameQueues
  <1>5. CASE JobHaltTop
    BY <1>2, <1>3, <1>5, JobHaltTopEffect DEF JobHaltTop
  <1>6. CASE HandleQueued
    BY <1>6, HandleQueuedQueues
  <1>7. CASE EndLoop
    BY <1>2, <1>7, EndLoopEffect DEF EndLoop
  <1>8. CASE EndQueued
    <2>1. worker.task \in Tasks /\ Sets(worker.task, UpdateTop(task[worker.task]))
      BY <1>8, EndQueuedEffect
    <2>2. SameButTop(task[worker.task], UpdateTop(task[worker.task]))
      BY <2>1, UpdateTopOk DEF Typed
    <2> QED
      BY <1>2, <1>8, <2>1, <2>2 DEF EndQueued
  <1>9. ASSUME NEW u \in Tasks, JobStart(u) PROVE QueuesKept
    <2>1. Sets(u, Started(task[u]))
      BY <1>9, JobStartEffect
    <2>2. Started(task[u]).msgQueue = task[u].msgQueue /\ Started(task[u]).jobQueue = task[u].jobQueue
      BY StartedOk DEF Typed
    <2> QED
      BY <1>9, <2>1, <2>2, SetsQueues DEF JobStart
  <1>10. ASSUME NEW u \in Tasks, JobSubmit(u) PROVE JobFiled
    BY <1>10, JobSubmitEffect, SetsFiled DEF JobSubmit
  <1>11. ASSUME NEW u \in Tasks, NEW s \in {"PAUSED", "STOPPED"}, JobHalt(u, s)
         PROVE  QueuesKept
    BY <1>11, JobHaltEffect, SetsQueues DEF JobHalt
  <1> QED
    BY <1>1, <1>4, <1>5, <1>6, <1>7, <1>8, <1>9, <1>10, <1>11 DEF ThreadStep, JobStep

(* Every step does one of the three.                                        *)
LEMMA StepQueues ==
    ASSUME Typed, [Next]_vars
    PROVE  QueuesKept \/ JobFiled \/ JobTaken
  BY CallStepQueues, ContinueQueues, ThreadQueues DEF Next
-----------------------------------------------------------------------------
(* No job is lost or run twice.                                             *)

(* NothingLost entry by entry: an entry is a job that was submitted and not
   run, each such job has an entry, and no job has two.                     *)
EntriesAreOpen ==
    \A t \in Tasks, b \in BOOLEAN : \A x \in DOMAIN QueueOf(task[t], b) :
        QueueOf(task[t], b)[x] \in (1..submitted) \ ran

OpenAreFiled ==
    \A i \in (1..submitted) \ ran :
        \E t \in Tasks, b \in BOOLEAN : \E x \in DOMAIN QueueOf(task[t], b) :
            QueueOf(task[t], b)[x] = i

FiledOnce ==
    \A t, u \in Tasks, b, c \in BOOLEAN :
        \A x \in DOMAIN QueueOf(task[t], b), y \in DOMAIN QueueOf(task[u], c) :
            QueueOf(task[t], b)[x] = QueueOf(task[u], c)[y] => t = u /\ b = c /\ x = y

JobsKept == ran \subseteq 1..submitted /\ EntriesAreOpen /\ OpenAreFiled /\ FiledOnce

\* The inductive invariant implies the property.
LEMMA JobsKeptNothingLost ==
    ASSUME JobsKept
    PROVE  NothingLost
  <1> DEFINE places == UNION {{<<t, b, at>> : at \in DOMAIN QueueOf(task[t], b)} :
                                 t \in Tasks, b \in BOOLEAN}
             idAt(p) == QueueOf(task[p[1]], p[2])[p[3]]
  <1>1. ASSUME NEW p \in places
        PROVE  \E t \in Tasks, b \in BOOLEAN : \E x \in DOMAIN QueueOf(task[t], b) : p = <<t, b, x>>
    <2>1. PICK S \in {{<<t, b, at>> : at \in DOMAIN QueueOf(task[t], b)} :
                         t \in Tasks, b \in BOOLEAN} : p \in S
      BY <1>1
    <2>2. PICK t \in Tasks, b \in BOOLEAN : S = {<<t, b, at>> : at \in DOMAIN QueueOf(task[t], b)}
      BY <2>1
    <2> QED
      BY <2>1, <2>2
  <1>2. ASSUME NEW t \in Tasks, NEW b \in BOOLEAN, NEW x \in DOMAIN QueueOf(task[t], b)
        PROVE  <<t, b, x>> \in places /\ idAt(<<t, b, x>>) = QueueOf(task[t], b)[x]
    <2> DEFINE S == {<<t, b, at>> : at \in DOMAIN QueueOf(task[t], b)}
               SS == {{<<v, w, at>> : at \in DOMAIN QueueOf(task[v], w)} : v \in Tasks, w \in BOOLEAN}
    <2>1. <<t, b, x>> \in S
      OBVIOUS
    <2>2. S \in SS
      OBVIOUS
    <2>5. places = UNION SS
      OBVIOUS
    <2> HIDE DEF S, SS, places
    <2>3. <<t, b, x>> \in places
      BY <2>1, <2>2, <2>5
    <2>4. idAt(<<t, b, x>>) = QueueOf(task[t], b)[x]
      OBVIOUS
    <2> HIDE DEF idAt
    <2> QED
      BY <2>3, <2>4
  <1> HIDE DEF places
  <1>3. ASSUME NEW p \in places PROVE idAt(p) \in (1..submitted) \ ran
    BY <1>1, <1>3 DEF JobsKept, EntriesAreOpen
  <1>4. ASSUME NEW i \in (1..submitted) \ ran PROVE \E p \in places : idAt(p) = i
    <2>1. PICK t \in Tasks, b \in BOOLEAN : \E x \in DOMAIN QueueOf(task[t], b) : QueueOf(task[t], b)[x] = i
      BY <1>4 DEF JobsKept, OpenAreFiled
    <2>2. PICK x \in DOMAIN QueueOf(task[t], b) : QueueOf(task[t], b)[x] = i
      BY <2>1
    <2> QED
      BY <1>2, <2>2
  <1>5. ASSUME NEW p \in places, NEW r \in places, idAt(p) = idAt(r) PROVE p = r
    <2>1. PICK t \in Tasks, b \in BOOLEAN : \E x \in DOMAIN QueueOf(task[t], b) : p = <<t, b, x>>
      BY <1>1
    <2>2. PICK x \in DOMAIN QueueOf(task[t], b) : p = <<t, b, x>>
      BY <2>1
    <2>3. PICK u \in Tasks, c \in BOOLEAN : \E y \in DOMAIN QueueOf(task[u], c) : r = <<u, c, y>>
      BY <1>1
    <2>4. PICK y \in DOMAIN QueueOf(task[u], c) : r = <<u, c, y>>
      BY <2>3
    <2>5. QueueOf(task[t], b)[x] = QueueOf(task[u], c)[y]
      BY <1>5, <2>2, <2>4
    <2>6. t = u /\ b = c /\ x = y
      BY <2>5 DEF JobsKept, FiledOnce
    <2> QED
      BY <2>2, <2>4, <2>6
  <1>6. {idAt(p) : p \in places} = (1..submitted) \ ran
    BY <1>3, <1>4
  <1>7. \A p, r \in places : idAt(p) = idAt(r) => p = r
    BY <1>5
  <1> QED
    BY <1>6, <1>7 DEF NothingLost, places

\* A job that is filed is not lost.
LEMMA FiledJobsKept ==
    ASSUME Typed, JobsKept, JobFiled
    PROVE  JobsKept'
  <1>1. PICK u \in Tasks, b \in BOOLEAN, at \in Nat : FiledInto(u, b, at)
    BY DEF JobFiled
  <1>2. submitted \in Nat /\ submitted' = submitted + 1 /\ ran' = ran
    BY <1>1 DEF Typed, FiledInto
  <1> DEFINE n == submitted + 1
  <1>3. /\ 1..submitted' = (1..submitted) \cup {n} /\ n \notin 1..submitted /\ n \notin ran
    BY <1>2 DEF JobsKept
  <1>4. ASSUME NEW t \in Tasks, NEW c \in BOOLEAN, NEW x \in DOMAIN QueueOf(task'[t], c)
        PROVE  \/ t = u /\ c = b /\ x = at /\ QueueOf(task'[t], c)[x] = n
               \/ x \in DOMAIN QueueOf(task[t], c) /\ QueueOf(task'[t], c)[x] = QueueOf(task[t], c)[x]
    BY <1>1, <1>4 DEF FiledInto
  <1>5. ASSUME NEW t \in Tasks, NEW c \in BOOLEAN, NEW x \in DOMAIN QueueOf(task[t], c)
        PROVE  x \in DOMAIN QueueOf(task'[t], c) /\ QueueOf(task'[t], c)[x] = QueueOf(task[t], c)[x]
    BY <1>1, <1>5 DEF FiledInto
  <1>6. at \in DOMAIN QueueOf(task'[u], b) /\ QueueOf(task'[u], b)[at] = n
    BY <1>1 DEF FiledInto
  <1> HIDE DEF n
  <1>7. EntriesAreOpen'
    BY <1>2, <1>3, <1>4 DEF JobsKept, EntriesAreOpen
  <1>8. OpenAreFiled'
    <2> SUFFICES ASSUME NEW i \in (1..submitted') \ ran'
                 PROVE  \E t \in Tasks, c \in BOOLEAN : \E x \in DOMAIN QueueOf(task'[t], c) :
                           QueueOf(task'[t], c)[x] = i
      BY DEF OpenAreFiled
    <2>1. CASE i = n
      BY <1>6, <2>1
    <2>2. CASE i # n
      <3>1. i \in (1..submitted) \ ran
        BY <1>2, <1>3, <2>2
      <3> QED
        BY <1>5, <3>1 DEF JobsKept, OpenAreFiled
    <2> QED
      BY <2>1, <2>2
  <1>9. FiledOnce'
    <2> SUFFICES ASSUME NEW t \in Tasks, NEW v \in Tasks, NEW c \in BOOLEAN, NEW e \in BOOLEAN,
                        NEW x \in DOMAIN QueueOf(task'[t], c), NEW y \in DOMAIN QueueOf(task'[v], e),
                        QueueOf(task'[t], c)[x] = QueueOf(task'[v], e)[y]
                 PROVE  t = v /\ c = e /\ x = y
      BY DEF FiledOnce
    <2>1. \/ t = u /\ c = b /\ x = at /\ QueueOf(task'[t], c)[x] = n
          \/ /\ x \in DOMAIN QueueOf(task[t], c) /\ QueueOf(task'[t], c)[x] = QueueOf(task[t], c)[x]
             /\ QueueOf(task[t], c)[x] # n
      BY <1>3, <1>4 DEF JobsKept, EntriesAreOpen
    <2>2. \/ v = u /\ e = b /\ y = at /\ QueueOf(task'[v], e)[y] = n
          \/ /\ y \in DOMAIN QueueOf(task[v], e) /\ QueueOf(task'[v], e)[y] = QueueOf(task[v], e)[y]
             /\ QueueOf(task[v], e)[y] # n
      BY <1>3, <1>4 DEF JobsKept, EntriesAreOpen
    <2> QED
      BY <2>1, <2>2 DEF JobsKept, FiledOnce
  <1> QED
    BY <1>2, <1>3, <1>7, <1>8, <1>9 DEF JobsKept

\* A job that is taken is the one that runs.
LEMMA TakenJobsKept ==
    ASSUME Typed, JobsKept, JobTaken
    PROVE  JobsKept'
  <1>1. PICK u \in Tasks, b \in BOOLEAN : TakenFrom(u, b)
    BY DEF JobTaken
  <1> DEFINE q == QueueOf(task[u], b)
             n == q[First(q)]
  <1>2. submitted' = submitted /\ ran' = ran \cup {n} /\ First(q) \in DOMAIN q
    BY <1>1 DEF TakenFrom
  <1>3. n \in (1..submitted) \ ran
    BY <1>2 DEF JobsKept, EntriesAreOpen
  <1>4. ASSUME NEW t \in Tasks, NEW c \in BOOLEAN, NEW x \in DOMAIN QueueOf(task'[t], c)
        PROVE  /\ x \in DOMAIN QueueOf(task[t], c) /\ QueueOf(task'[t], c)[x] = QueueOf(task[t], c)[x]
               /\ ~(t = u /\ c = b /\ x = First(q))
    BY <1>1, <1>4 DEF TakenFrom
  <1>5. ASSUME NEW t \in Tasks, NEW c \in BOOLEAN, NEW x \in DOMAIN QueueOf(task[t], c),
               ~(t = u /\ c = b /\ x = First(q))
        PROVE  x \in DOMAIN QueueOf(task'[t], c) /\ QueueOf(task'[t], c)[x] = QueueOf(task[t], c)[x]
    BY <1>1, <1>5 DEF TakenFrom
  <1>6. ASSUME NEW t \in Tasks, NEW c \in BOOLEAN, NEW x \in DOMAIN QueueOf(task[t], c),
               ~(t = u /\ c = b /\ x = First(q))
        PROVE  QueueOf(task[t], c)[x] # n
    BY <1>2, <1>6 DEF JobsKept, FiledOnce
  <1> HIDE DEF n, q
  <1>7. EntriesAreOpen'
    BY <1>2, <1>4, <1>6 DEF JobsKept, EntriesAreOpen
  <1>8. OpenAreFiled'
    <2> SUFFICES ASSUME NEW i \in (1..submitted') \ ran'
                 PROVE  \E t \in Tasks, c \in BOOLEAN : \E x \in DOMAIN QueueOf(task'[t], c) :
                           QueueOf(task'[t], c)[x] = i
      BY DEF OpenAreFiled
    <2>1. i \in (1..submitted) \ ran /\ i # n
      BY <1>2
    <2>2. PICK t \in Tasks, c \in BOOLEAN : \E x \in DOMAIN QueueOf(task[t], c) : QueueOf(task[t], c)[x] = i
      BY <2>1 DEF JobsKept, OpenAreFiled
    <2>3. PICK x \in DOMAIN QueueOf(task[t], c) : QueueOf(task[t], c)[x] = i
      BY <2>2
    <2>4. ~(t = u /\ c = b /\ x = First(q))
      BY <2>1, <2>3 DEF n, q
    <2> QED
      BY <1>5, <2>3, <2>4
  <1>9. FiledOnce'
    <2> SUFFICES ASSUME NEW t \in Tasks, NEW v \in Tasks, NEW c \in BOOLEAN, NEW e \in BOOLEAN,
                        NEW x \in DOMAIN QueueOf(task'[t], c), NEW y \in DOMAIN QueueOf(task'[v], e),
                        QueueOf(task'[t], c)[x] = QueueOf(task'[v], e)[y]
                 PROVE  t = v /\ c = e /\ x = y
      BY DEF FiledOnce
    <2>1. x \in DOMAIN QueueOf(task[t], c) /\ QueueOf(task'[t], c)[x] = QueueOf(task[t], c)[x]
      BY <1>4
    <2>2. y \in DOMAIN QueueOf(task[v], e) /\ QueueOf(task'[v], e)[y] = QueueOf(task[v], e)[y]
      BY <1>4
    <2>3. QueueOf(task[t], c)[x] = QueueOf(task[v], e)[y] /\ FiledOnce
      BY <2>1, <2>2 DEF JobsKept
    <2> QED
      BY <2>1, <2>2, <2>3 DEF FiledOnce
  <1> QED
    BY <1>2, <1>3, <1>7, <1>8, <1>9 DEF JobsKept

\* Steps that leave the queues alone lose nothing.
LEMMA KeptJobsKept ==
    ASSUME JobsKept, QueuesKept
    PROVE  JobsKept'
  <1>1. EntriesAreOpen' /\ ran' \subseteq 1..submitted'
    BY DEF JobsKept, QueuesKept, EntriesAreOpen
  <1>2. OpenAreFiled'
    BY DEF JobsKept, QueuesKept, OpenAreFiled
  <1>3. FiledOnce'
    BY DEF JobsKept, QueuesKept, FiledOnce
  <1> QED
    BY <1>1, <1>2, <1>3 DEF JobsKept

\* There are no jobs at the start.
LEMMA InitiallyKept ==
    ASSUME Init
    PROVE  JobsKept
  <1>1. \A t \in Tasks, b \in BOOLEAN : QueueOf(task[t], b) = <<>>
    BY DEF Init, NewTask, QueueOf
  <1>2. submitted = 0 /\ ran = {} /\ 1..0 = {} /\ DOMAIN <<>> = {}
    BY DEF Init
  <1> QED
    BY <1>1, <1>2 DEF JobsKept, EntriesAreOpen, OpenAreFiled, FiledOnce

\* JobsKept is inductive.
LEMMA JobsStayKept == Spec => [](Typed /\ JobsKept)
  <1>1. Init => Typed /\ JobsKept
    BY InitiallyTyped, InitiallyKept
  <1>2. Typed /\ JobsKept /\ [Next]_vars => (Typed /\ JobsKept)'
    BY StepTyped, StepQueues, KeptJobsKept, FiledJobsKept, TakenJobsKept
  <1> QED
    BY <1>1, <1>2, PTL DEF Spec

(* Nothing submitted is dropped or run twice: InsertJob moves a taken time on
   instead of overwriting the entry, and HandleJob erases what it runs.     *)
THEOREM NothingIsLost == Spec => []NothingLost
  <1>1. Typed /\ JobsKept => NothingLost
    BY JobsKeptNothingLost
  <1> QED
    BY <1>1, JobsStayKept, PTL
-----------------------------------------------------------------------------
(* No wake-up is lost.                                                      *)

Notifying == \E d \in Callers : calls[d].pc = "notify"

TopsKept == \A t \in Tasks : task'[t].topProcessUs \in {task[t].topProcessUs, -1}

(* What a step does that does not wake the thread: no task is added, no signal
   is forgotten, and a task gets another time only before a signal.         *)
Announces ==
    /\ worker' = worker
    /\ taskList' \in Seq(Tasks) /\ Range(taskList') \subseteq Range(taskList)
    /\ \A d \in Callers : calls[d].pc = "notify" => calls'[d].pc = "notify"
    /\ TopsKept \/ Notifying'

(* A caller that was not at its signal moves.                               *)
LEMMA TurnAnnounces ==
    ASSUME NEW c \in Callers, NEW r, Turns(c, r), calls[c].pc # "notify"
    PROVE  /\ \A d \in Callers : calls[d].pc = "notify" => calls'[d].pc = "notify"
           /\ r.pc = "notify" => Notifying'
  BY DEF Turns, Notifying

(* A task whose time is kept or taken away.                                 *)
LEMMA SetsTop ==
    ASSUME NEW u \in Tasks, NEW k, Sets(u, k), k.topProcessUs \in {task[u].topProcessUs, -1}
    PROVE  TopsKept
  BY DEF Sets, TopsKept

\* A first section that makes a task due leaves a notification to come.
LEMMA CallStepAnnounces ==
    ASSUME Typed, NEW c \in Callers, NEW u \in Tasks, CallStep(c, u)
    PROVE  Announces
  <1>1. calls[c].pc # "notify" /\ worker' = worker
    BY DEF CallStep, Start, Pause, Stop, Halt, PauseAsync, StopAsync, HaltAsync, SubmitJob,
           SubmitJobOnce, Submit, UpdateDelayTime, UpdateThreadPriority, DeInit, Call
  <1>2. ASSUME NEW r, Turns(c, r), r.pc = "notify" \/ TopsKept,
               taskList' \in Seq(Tasks), Range(taskList') \subseteq Range(taskList)
        PROVE  Announces
    BY <1>1, <1>2, TurnAnnounces DEF Announces
  <1>3. taskList \in Seq(Tasks)
    BY DEF Typed
  <1>4. CASE Start(c, u)
    BY <1>2, <1>3, <1>4, StartEffect DEF Writes, Start
  <1>5. CASE PauseAsync(c, u) \/ StopAsync(c, u)
    <2>1. PICK op \in {"pauseAsync", "stopAsync"}, s \in {"PAUSED", "STOPPED"} : HaltAsync(c, u, op, s)
      BY <1>5 DEF PauseAsync, StopAsync
    <2>2. s \in RunningState /\ taskList' = taskList
      BY <2>1 DEF RunningState, HaltAsync
    <2>3. (\E r : Turns(c, r) /\ r.pc = "notify") \/ (task' = task /\ calls' = calls)
      BY <2>1, <2>2, HaltAsyncEffect DEF Writes
    <2>4. CASE task' = task /\ calls' = calls
      BY <1>1, <1>3, <2>2, <2>4 DEF Announces, TopsKept
    <2> QED
      BY <1>2, <1>3, <2>2, <2>3, <2>4
  <1>6. CASE Pause(c, u) \/ Stop(c, u)
    <2>1. PICK op \in {"pause", "stop"} : Halt(c, u, op)
      BY <1>6 DEF Pause, Stop
    <2>2. task' = task /\ taskList' = taskList
      BY <2>1 DEF Halt
    <2>3. TopsKept
      BY <2>2 DEF TopsKept
    <2> QED
      BY <1>2, <1>3, <2>1, <2>2, <2>3, HaltEffect
  <1>7. CASE SubmitJob(c, u) \/ SubmitJobOnce(c, u)
    <2>1. PICK op \in {"submit", "submitOnce"}, wait \in BOOLEAN : Submit(c, u, op, wait)
      BY <1>7 DEF SubmitJob, SubmitJobOnce
    <2>2. PICK k, r : /\ Sets(u, k) /\ Turns(c, r)
                      /\ k.topProcessUs # task[u].topProcessUs => r.pc = "notify"
      BY <2>1, SubmitEffect DEF Writes
    <2>3. r.pc = "notify" \/ TopsKept
      BY <2>2, SetsTop
    <2> QED
      BY <1>2, <1>3, <2>1, <2>2, <2>3 DEF Submit
  <1>8. CASE UpdateDelayTime(c, u)
    <2>1. PICK r : Turns(c, r) /\ r.pc = "notify"
      BY <1>8, UpdateDelayTimeEffect DEF Writes
    <2> QED
      BY <1>2, <1>3, <1>8, <2>1 DEF UpdateDelayTime
  <1>9. CASE UpdateThreadPriority(c, u)
    <2>1. PICK r : Turns(c, r) /\ Sets(u, [task[u] EXCEPT !.singleLoop = FALSE])
      BY <1>9, UpdateThreadPriorityEffect DEF Writes
    <2>2. [task[u] EXCEPT !.singleLoop = FALSE].topProcessUs = task[u].topProcessUs
      BY DEF Typed, TaskStates
    <2>3. TopsKept
      BY <2>1, <2>2, SetsTop
    <2> QED
      BY <1>2, <1>3, <1>9, <2>1, <2>3 DEF UpdateThreadPriority
  <1>10. CASE DeInit(c, u)
    <2>1. TopsKept
      BY <1>10 DEF DeInit, TopsKept
    <2> QED
      BY <1>2, <1>10, <2>1, DeInitEffect
  <1> QED
    BY <1>4, <1>5, <1>6, <1>7, <1>8, <1>9, <1>10 DEF CallStep

\* A later section that leaves the thread asleep has made no task due.
LEMMA ContinueAnnounces ==
    ASSUME Typed, NEW c \in Callers, Continue(c), worker'.pc = "sleep"
    PROVE  Announces
  <1> DEFINE u == calls[c].task
  <1>1. WorkerOk(worker) /\ worker.pc # "sleep" => Woken(worker) = worker
    BY WokenOk
  <1>2. Woken(worker).pc # "sleep"
    BY WokenOk DEF Typed
  <1>3. ~Notify(c) /\ ~Exit(c)
    BY <1>2 DEF Notify, Exit
  <1>4. /\ calls[c].pc # "notify" /\ worker' = worker /\ taskList' = taskList
        /\ taskList \in Seq(Tasks)
    BY <1>3 DEF Continue, LockJob, HaltSection, AwaitReply, PrioritySubmit, PriorityRestore,
                ResetLoop, Join, DeInitSection, Typed
  <1>5. ASSUME NEW r, Turns(c, r), r.pc = "notify" \/ TopsKept
        PROVE  Announces
    BY <1>4, <1>5, TurnAnnounces DEF Announces
  <1>6. CASE HaltSection(c)
    <2>1. task' = task => TopsKept
      BY DEF TopsKept
    <2> QED
      BY <1>5, <1>6, <2>1, HaltSectionEffect DEF Writes
  <1>7. CASE DeInitSection(c)
    <2>1. u \in Tasks /\ Sets(u, Halted(task[u], "STOPPED")) /\ Turns(c, IdleCall)
      BY <1>7, DeInitSectionEffect DEF Writes
    <2>2. Halted(task[u], "STOPPED").topProcessUs = -1
      BY <2>1 DEF Halted, Typed, TaskStates
    <2> QED
      BY <1>5, <2>1, <2>2, SetsTop
  <1>8. CASE PrioritySubmit(c)
    <2>1. PICK k, r : /\ u \in Tasks /\ Sets(u, k) /\ Turns(c, r)
                      /\ k.topProcessUs # task[u].topProcessUs => r.pc = "notify"
      BY <1>8, PrioritySubmitEffect DEF Writes
    <2> QED
      BY <1>5, <2>1, SetsTop
  <1>9. CASE PriorityRestore(c)
    <2> DEFINE k == [task[u] EXCEPT !.singleLoop = calls[c].saved]
    <2>1. u \in Tasks /\ Sets(u, k) /\ Turns(c, IdleCall)
      BY <1>9, PriorityRestoreEffect DEF Writes
    <2>2. k.topProcessUs = task[u].topProcessUs
      BY <2>1 DEF Typed, TaskStates
    <2> QED
      BY <1>5, <2>1, <2>2, SetsTop
  <1>10. CASE LockJob(c) \/ AwaitReply(c) \/ ResetLoop(c) \/ Join(c)
    <2>1. TopsKept
      BY <1>10 DEF LockJob, AwaitReply, ResetLoop, Join, TopsKept
    <2>2. calls[c].pc = "lockJob" => Fits("locked", calls[c].op)
      BY TypedCall DEF Fits
    <2>3. LockJob(c) => \E r : Turns(c, r)
      BY <2>2, PcEffect DEF LockJob
    <2> QED
      BY <1>5, <1>10, <2>1, <2>3, AwaitReplyEffect, DeInitStepEffect
  <1> QED
    BY <1>3, <1>6, <1>7, <1>8, <1>9, <1>10 DEF Continue

(* The thread goes to sleep only in Scan.                                   *)
LEMMA SleepSteps ==
    ASSUME Typed, [Next]_vars, worker'.pc = "sleep"
    PROVE  Scan \/ Announces
  <1>1. CASE Tick \/ UNCHANGED vars
    BY <1>1 DEF Tick, vars, Announces, TopsKept, Typed
  <1>2. ~WaitTimeout /\ ~SpuriousWakeup /\ ~EndLoop /\ ~EndQueued
    BY ScanningOk DEF WaitTimeout, SpuriousWakeup, EndLoop, EndQueued, Leave
  <1>3. ~EnterHandleJob /\ ~NotifyReply /\ ~JobHaltTop /\ ~JobHaltUnknown
    BY EnterHandleJobEffect, NotifyReplyEffect, JobHaltTopEffect, JobHaltUnknownEffect
  <1>4. ~HandleLoop /\ ~HandleQueued
    BY HandleLoopEffect, HandleQueuedEffect, ScanningOk DEF Leave
  <1>5. ~JobStep
    <2>1. ASSUME NEW t \in Tasks, JobStart(t) \/ JobSubmit(t) PROVE FALSE
      BY <2>1 DEF JobStart, JobSubmit, JobCall
    <2>2. ASSUME NEW t \in Tasks, NEW s \in {"PAUSED", "STOPPED"}, JobHalt(t, s) PROVE FALSE
      BY <2>2, JobHaltEffect
    <2> QED
      BY <1>3, <2>1, <2>2 DEF JobStep
  <1> QED
    BY <1>1, <1>2, <1>3, <1>4, <1>5, CallStepAnnounces, ContinueAnnounces DEF Next, ThreadStep

(* Attentive over the tasks of the list instead of their places in it.      *)
Watches ==
    worker.pc = "sleep" /\ ~Notifying =>
        \A t \in Range(taskList) :
            task[t].topProcessUs # -1 =>
                worker.until # -1 /\ worker.until <= task[t].topProcessUs + ADJUST_US

\* The inductive form of Attentive.
LEMMA WatchesAttentive ==
    ASSUME Typed
    PROVE  Watches <=> Attentive
  BY DEF Watches, Attentive, Due, Range, Notifying, Typed

\* Every step keeps the thread attentive.
LEMMA StepWatches ==
    ASSUME Typed, Watches, [Next]_vars
    PROVE  Watches'
  <1> SUFFICES ASSUME worker'.pc = "sleep", ~Notifying', NEW t \in Range(taskList'),
                      task'[t].topProcessUs # -1
               PROVE  worker'.until # -1 /\ worker'.until <= task'[t].topProcessUs + ADJUST_US
    BY DEF Watches
  <1>1. CASE Scan
    <2>1. task' = task /\ taskList' = taskList
      BY <1>1 DEF Scan
    <2>2. PICK i \in DOMAIN taskList : taskList[i] = t
      BY <2>1 DEF Range
    <2>3. i \in Due
      BY <2>1, <2>2 DEF Due
    <2>4. worker'.until \in Nat /\ worker'.until <= task[NextTask].topProcessUs + ADJUST_US
      BY <1>1, <2>3, ScanEffect
    <2>5. task[NextTask].topProcessUs \in Nat /\ task[NextTask].topProcessUs <= task[taskList[i]].topProcessUs
      BY <2>3, NextTaskOk
    <2>6. task[taskList[i]].topProcessUs \in Int
      BY <2>1, <2>2 DEF Typed, Range, TaskStates, Times
    <2> QED
      BY <2>1, <2>2, <2>4, <2>5, <2>6, TaskAssumption
  <1>2. CASE Announces
    <2>1. worker.pc = "sleep" /\ ~Notifying /\ TopsKept /\ worker' = worker /\ t \in Range(taskList)
      BY <1>2 DEF Announces, Notifying
    <2>2. t \in Tasks
      BY <2>1 DEF Typed, Range
    <2>3. task'[t].topProcessUs = task[t].topProcessUs
      BY <2>1, <2>2 DEF TopsKept
    <2> QED
      BY <2>1, <2>3 DEF Watches
  <1> QED
    BY <1>1, <1>2, SleepSteps

(* A sleeping thread wakes no later than the earliest task of its list needs
   it, unless a caller is about to signal it.                               *)
THEOREM ThreadStaysAttentive == Spec => []Attentive
  <1>1. Init => Typed /\ Watches
    BY InitiallyTyped, ScanningOk DEF Init, Watches
  <1>2. Typed /\ Watches /\ [Next]_vars => (Typed /\ Watches)'
    BY StepTyped, StepWatches
  <1>3. Typed /\ Watches => Attentive
    BY WatchesAttentive
  <1> QED
    BY <1>1, <1>2, <1>3, PTL DEF Spec
-----------------------------------------------------------------------------
(* A destroyed singleton is dead.                                           *)

Leaving(c, t) == calls[c].task = t /\ calls[c].pc \in {"exit", "reset", "join"}

(* Outside the list is only a task whose thread has ended or whose destructor
   still waits for it; who is past that wait waited for the thread's end.   *)
JoinsFirst ==
    /\ \A t \in Tasks \ Range(taskList) : worker.pc = "exited" \/ \E c \in Callers : Leaving(c, t)
    /\ \A c \in Callers : calls[c].pc = "deinit" => worker.pc = "exited"

(* A thread that has ended stays so.                                        *)
LEMMA ExitedStays ==
    ASSUME Typed, [Next]_vars, worker.pc = "exited"
    PROVE  worker'.pc = "exited"
  <1>1. ~ThreadStep /\ ~SpuriousWakeup
    BY DEF ThreadStep, Scan, WaitTimeout, EnterHandleJob, HandleLoop, HandleQueued, EndLoop,
           NotifyReply, EndQueued, JobHaltTop, SpuriousWakeup
  <1>2. ~JobStep
    BY DEF JobStep, JobStart, JobSubmit, JobHalt, JobHaltUnknown, JobCall
  <1>3. ASSUME NEW c \in Callers, NEW t \in Tasks, CallStep(c, t) PROVE worker' = worker
    BY <1>3 DEF CallStep, Start, Pause, Stop, Halt, PauseAsync, StopAsync, HaltAsync, SubmitJob,
           SubmitJobOnce, Submit, UpdateDelayTime, UpdateThreadPriority, DeInit
  <1>4. ASSUME NEW c \in Callers, Continue(c) PROVE worker' = worker
    BY <1>4 DEF Continue, LockJob, HaltSection, Notify, AwaitReply, PrioritySubmit, PriorityRestore,
                Exit, ResetLoop, Join, DeInitSection, Woken
  <1> QED
    BY <1>1, <1>2, <1>3, <1>4 DEF Next, Tick, vars

(* What a caller's step does to the callers that destroy a task: caller c turns
   to r, and only a wait for the thread's end is behind "deinit".           *)
DestroysInOrder(c, r) ==
    /\ Turns(c, r)
    /\ r.pc = "deinit" => worker.pc = "exited"
    /\ calls[c].pc \in {"exit", "reset", "join"} =>
          \/ r.pc \in {"reset", "join"} /\ r.task = calls[c].task
          \/ worker.pc = "exited"

\* The destructor joins the thread before it takes the task apart.
LEMMA ContinueDestroys ==
    ASSUME Typed, NEW c \in Callers, Continue(c)
    PROVE  (\E r : DestroysInOrder(c, r)) /\ taskList' = taskList
  <1>0. taskList' = taskList
    BY DEF Continue, LockJob, HaltSection, Notify, AwaitReply, PrioritySubmit, PriorityRestore,
           Exit, ResetLoop, Join, DeInitSection
  <1>1. CASE Exit(c) \/ ResetLoop(c)
    <2>1. PICK r : Turns(c, r) /\ r.pc \in {"reset", "join"} /\ r.task = calls[c].task
      BY <1>1, DeInitStepEffect
    <2> QED
      BY <1>0, <2>1 DEF DestroysInOrder
  <1>2. CASE Join(c)
    <2>1. worker.pc = "exited"
      BY <1>2 DEF Join
    <2>2. PICK r : Turns(c, r)
      BY <1>2, DeInitStepEffect
    <2> QED
      BY <1>0, <2>1, <2>2 DEF DestroysInOrder
  <1>3. ASSUME NEW r, Turns(c, r), r.pc # "deinit", calls[c].pc \notin {"exit", "reset", "join"}
        PROVE  \E k : DestroysInOrder(c, k)
    BY <1>3 DEF DestroysInOrder
  <1>4. CASE HaltSection(c)
    BY <1>0, <1>3, <1>4, HaltSectionEffect, IdleOk DEF Writes, HaltSection
  <1>5. CASE DeInitSection(c) \/ PriorityRestore(c)
    BY <1>0, <1>3, <1>5, DeInitSectionEffect, PriorityRestoreEffect, IdleOk
       DEF Writes, DeInitSection, PriorityRestore
  <1>6. CASE PrioritySubmit(c)
    BY <1>0, <1>3, <1>6, PrioritySubmitEffect DEF Writes, PrioritySubmit
  <1>7. CASE AwaitReply(c)
    BY <1>0, <1>3, <1>7, AwaitReplyEffect DEF AwaitReply
  <1>8. CASE Notify(c)
    BY <1>0, <1>3, <1>8, NotifyEffect DEF Notify
  <1>9. CASE LockJob(c)
    <2>1. calls[c].pc = "lockJob" /\ Fits("locked", calls[c].op)
      BY <1>9, TypedCall DEF Fits, LockJob
    <2>2. PICK r : Turns(c, r) /\ r.pc = "locked" /\ r.op = calls[c].op /\ r.task = calls[c].task
      BY <1>9, <2>1, PcEffect DEF LockJob
    <2> QED
      BY <1>0, <1>3, <2>1, <2>2
  <1> QED
    BY <1>1, <1>2, <1>4, <1>5, <1>6, <1>7, <1>8, <1>9 DEF Continue

(* The destructor of a singleton takes the task off the list and then waits. *)
LEMMA CallStepDestroys ==
    ASSUME Typed, Singleton, NEW c \in Callers, NEW u \in Tasks, CallStep(c, u)
    PROVE  /\ \/ calls' = calls
              \/ \E r : DestroysInOrder(c, r) /\ (DeInit(c, u) => r.pc = "exit" /\ r.task = u)
           /\ \A t \in Range(taskList) : t \in Range(taskList') \/ (DeInit(c, u) /\ t = u)
           /\ calls' = calls => taskList' = taskList
  <1>1. calls[c].pc = "idle"
    BY DEF CallStep, Start, Pause, Stop, Halt, PauseAsync, StopAsync, HaltAsync, SubmitJob,
           SubmitJobOnce, Submit, UpdateDelayTime, UpdateThreadPriority, DeInit, Call
  <1>2. CASE DeInit(c, u)
    <2>1. PICK r : Turns(c, r) /\ r.pc = "exit" /\ r.task = u
      BY <1>2, DeInitEffect
    <2>2. DestroysInOrder(c, r) /\ calls' # calls
      BY <1>1, <2>1 DEF DestroysInOrder, Turns
    <2> QED
      BY <1>2, <2>1, <2>2, DeInitEffect
  <1>3. CASE ~DeInit(c, u)
    <2>0. taskList' = taskList
      BY <1>3 DEF CallStep, Start, Pause, Stop, Halt, PauseAsync, StopAsync, HaltAsync, SubmitJob,
                  SubmitJobOnce, Submit, UpdateDelayTime, UpdateThreadPriority
    <2>1. ASSUME NEW r, Turns(c, r), r.pc # "deinit"
          PROVE  DestroysInOrder(c, r)
      BY <1>1, <2>1 DEF DestroysInOrder
    <2>2. calls' = calls \/ \E r : Turns(c, r) /\ r.pc # "deinit"
      <3>1. CASE Start(c, u)
        BY <3>1, StartEffect DEF Writes
      <3>2. CASE PauseAsync(c, u) \/ StopAsync(c, u)
        BY <3>2, HaltAsyncEffect DEF PauseAsync, StopAsync, RunningState, Writes
      <3>3. CASE Pause(c, u) \/ Stop(c, u)
        BY <3>3, HaltEffect DEF Pause, Stop
      <3>4. CASE SubmitJob(c, u) \/ SubmitJobOnce(c, u)
        <4>1. PICK op \in {"submit", "submitOnce"}, wait \in BOOLEAN : Submit(c, u, op, wait)
          BY <3>4 DEF SubmitJob, SubmitJobOnce
        <4>2. PICK r : Turns(c, r) /\ r.pc \in {"idle", "notify", "reply"}
          BY <4>1, SubmitEffect DEF Writes
        <4> QED
          BY <4>2
      <3>5. CASE UpdateDelayTime(c, u)
        BY <3>5, UpdateDelayTimeEffect DEF Writes
      <3>6. CASE UpdateThreadPriority(c, u)
        BY <3>6, UpdateThreadPriorityEffect DEF Writes
      <3> QED
        BY <1>3, <3>1, <3>2, <3>3, <3>4, <3>5, <3>6 DEF CallStep
    <2> QED
      BY <1>3, <2>0, <2>1, <2>2
  <1> QED
    BY <1>2, <1>3

\* Every step keeps the order of the destructor.
LEMMA StepJoinsFirst ==
    ASSUME Typed, Singleton, JoinsFirst, [Next]_vars
    PROVE  JoinsFirst'
  <1>1. worker.pc = "exited" => worker'.pc = "exited"
    BY ExitedStays
  <1>2. CASE worker.pc = "exited"
    BY <1>1, <1>2 DEF JoinsFirst
  <1>3. CASE worker.pc # "exited"
    <2>1. ASSUME NEW c \in Callers, NEW r, DestroysInOrder(c, r)
          PROVE  /\ \A d \in Callers : calls'[d].pc # "deinit"
                 /\ \A d \in Callers, t \in Tasks : Leaving(d, t) => Leaving(d, t)'
      BY <1>3, <2>1 DEF DestroysInOrder, Turns, JoinsFirst, Leaving
    <2>2. CASE calls' = calls /\ taskList' = taskList
      BY <1>3, <2>2 DEF JoinsFirst, Leaving
    <2>3. ASSUME NEW c \in Callers, Continue(c) PROVE JoinsFirst'
      <3>1. taskList' = taskList
        BY <2>3, ContinueDestroys
      <3>2. /\ \A d \in Callers : calls'[d].pc # "deinit"
            /\ \A d \in Callers, t \in Tasks : Leaving(d, t) => Leaving(d, t)'
        BY <2>1, <2>3, ContinueDestroys
      <3> QED
        BY <1>3, <3>1, <3>2 DEF JoinsFirst
    <2>4. ASSUME NEW c \in Callers, NEW u \in Tasks, CallStep(c, u) PROVE JoinsFirst'
      <3>1. CASE calls' = calls
        BY <2>2, <2>4, <3>1, CallStepDestroys
      <3>2. CASE calls' # calls
        <4>1. PICK r : DestroysInOrder(c, r) /\ (DeInit(c, u) => r.pc = "exit" /\ r.task = u)
          BY <2>4, <3>2, CallStepDestroys
        <4>2. /\ \A d \in Callers : calls'[d].pc # "deinit"
              /\ \A d \in Callers, t \in Tasks : Leaving(d, t) => Leaving(d, t)'
          BY <2>1, <4>1
        <4>3. DeInit(c, u) => Leaving(c, u)'
          BY <4>1 DEF DestroysInOrder, Turns, Leaving
        <4>4. \A t \in Range(taskList) : t \in Range(taskList') \/ (DeInit(c, u) /\ t = u)
          BY <2>4, CallStepDestroys
        <4> QED
          BY <1>3, <4>2, <4>3, <4>4 DEF JoinsFirst
      <3> QED
        BY <3>1, <3>2
    <2>5. CASE NotifyReply
      <3>1. /\ taskList' = taskList
            /\ \A d \in Callers : /\ calls'[d].task = calls[d].task
                                  /\ \/ calls'[d].pc = calls[d].pc
                                     \/ calls[d].pc = "replySleep" /\ calls'[d].pc = "reply"
        BY <2>5, NotifyReplyEffect DEF NotifyReply
      <3>2. /\ \A d \in Callers : calls'[d].pc # "deinit"
            /\ \A d \in Callers, t \in Tasks : Leaving(d, t) => Leaving(d, t)'
        BY <1>3, <3>1 DEF JoinsFirst, Leaving
      <3> QED
        BY <1>3, <3>1, <3>2 DEF JoinsFirst
    <2>6. ASSUME ThreadStep \/ SpuriousWakeup \/ Tick \/ JobStep \/ UNCHANGED vars, ~NotifyReply
          PROVE  calls' = calls /\ taskList' = taskList
      BY <2>6 DEF ThreadStep, Scan, WaitTimeout, EnterHandleJob, HandleLoop, HandleQueued, EndLoop,
             EndQueued, JobHaltTop, SpuriousWakeup, Tick, JobStep, JobStart, JobSubmit, JobHalt,
             JobHaltUnknown, vars
    <2> QED
      BY <2>2, <2>3, <2>4, <2>5, <2>6 DEF Next
  <1> QED
    BY <1>2, <1>3

(* On a thread of its own a task is in the list at first.                   *)
LEMMA InitiallyListed ==
    ASSUME Init, Singleton
    PROVE  Range(taskList) = Tasks
  <1>1. Cardinality(Tasks) = 1 /\ IsFiniteSet(Tasks)
    BY TaskAssumption
  <1>2. PICK t : Tasks = {t}
    BY <1>1, FS_Singleton
  <1>3. taskList \in [1..1 -> Tasks]
    BY <1>1 DEF Init
  <1>4. 1 \in 1..1
    OBVIOUS
  <1> QED
    BY <1>2, <1>3, <1>4 DEF Range

(* When DeInit of a singleton task has returned, its thread has ended: the
   destructor joins the thread before it does anything else to the task.    *)
THEOREM DestroyedSingletonIsDead == Singleton /\ Spec => []DestroyedIsDead
  <1> DEFINE DInv == Typed /\ JoinsFirst
  <1>1. Singleton /\ Init => DInv
    BY InitiallyTyped, InitiallyListed, IdleOk DEF Init, JoinsFirst
  <1>2. Singleton /\ DInv /\ [Next]_vars => DInv'
    BY StepTyped, StepJoinsFirst
  <1>3. DInv => DestroyedIsDead
    BY DEF JoinsFirst, DestroyedIsDead, Leaving
  <1>4. CASE Singleton
    BY <1>1, <1>2, <1>3, <1>4, PTL DEF Spec
  <1> QED
    BY <1>4
-----------------------------------------------------------------------------
(* What the thread finds in the task it has chosen.                         *)

(* UpdateThreadPriority, which clears singleLoop_ for a while without a lock,
   is not used together with a task that repeats one job.                   *)
PriorityApart ==
    (\A c \in Callers, t \in Tasks : "priority" \notin Ops[c][t]) \/ SingleLoops = {}

(* A task's fields change from k to j, and for a task with queues what is next
   stays right and what the thread has chosen stays there.                  *)
Keeps(k, j) ==
    /\ j.singleLoop = k.singleLoop
    /\ ~k.singleLoop => (TopNames(k) => TopNames(j)) /\ (Chosen(k) => Chosen(j))

FieldsKept == now' = now /\ \A t \in Tasks : Keeps(task[t], task'[t])

\* Keeps is reflexive.
LEMMA KeepsSame ==
    ASSUME NEW k
    PROVE  Keeps(k, k)
  BY DEF Keeps

\* A step that writes one task and keeps its schedule.
LEMMA SetsKeeps ==
    ASSUME NEW u \in Tasks, NEW k, Sets(u, k), Keeps(task[u], k), now' = now
    PROVE  FieldsKept
  BY KeepsSame DEF Sets, FieldsKept

\* A step that writes no task.
LEMMA SameKeeps ==
    ASSUME task' = task, now' = now
    PROVE  FieldsKept
  BY KeepsSame DEF FieldsKept

\* Start keeps the schedule of the queued jobs.
LEMMA StartedKeeps ==
    ASSUME Typed, NEW u \in Tasks
    PROVE  Keeps(task[u], Started(task[u]))
  BY StartedOk DEF Typed, Keeps

\* Pause and Stop keep the schedule of the queued jobs.
LEMMA HaltedKeeps ==
    ASSUME Typed, NEW u \in Tasks, NEW s \in RunningState
    PROVE  Keeps(task[u], Halted(task[u], s))
  BY HaltedOk DEF Typed, Keeps

\* InsertJob keeps the queue and the due time of its head in step.
LEMMA InsertKeeps ==
    ASSUME Typed, NEW u \in Tasks, NEW d \in Int, NEW b \in BOOLEAN
    PROVE  Keeps(task[u], InsertJob(task[u], submitted + 1, d, b))
  <1> DEFINE j == InsertJob(task[u], submitted + 1, d, b)
             at == ProcessTime(QueueOf(task[u], b), d)
  <1>1. task[u] \in TaskStates /\ now \in Nat /\ submitted + 1 \in Nat
    BY DEF Typed
  <1>2. /\ FiledAt(task[u], j, submitted + 1, at, b)
        /\ TopNames(task[u]) => TopNames(j)
        /\ Chosen(task[u]) => Chosen(j)
    BY <1>1, InsertJobOk
  <1> HIDE DEF j, at
  <1>3. j.singleLoop = task[u].singleLoop
    BY <1>2 DEF FiledAt
  <1> QED
    BY <1>2, <1>3 DEF Keeps, j

(* The same fields but for the state and the flag of a repeated job.        *)
LEMMA AlikeKeeps ==
    ASSUME NEW k, NEW j, j.singleLoop = k.singleLoop, j.msgQueue = k.msgQueue,
           j.jobQueue = k.jobQueue, j.topIsJob = k.topIsJob,
           j.topProcessUs \in {k.topProcessUs, -1}
    PROVE  Keeps(k, j)
  BY DEF Keeps, TopNames, Chosen, QueueOf

\* Taking a task out of the schedule makes nothing early.
LEMMA UntimedKeeps ==
    ASSUME Typed, NEW u \in Tasks
    PROVE  Keeps(task[u], [task[u] EXCEPT !.topProcessUs = -1])
  <1> DEFINE j == [task[u] EXCEPT !.topProcessUs = -1]
  <1>1. SameButTop(task[u], j) /\ j.topProcessUs = -1 /\ j.topIsJob = task[u].topIsJob
    BY RetimedOk DEF Typed, Times
  <1> HIDE DEF j
  <1>2. Keeps(task[u], j)
    BY <1>1, AlikeKeeps DEF SameButTop
  <1> QED
    BY <1>2 DEF j

(* singleLoop_ is written with the value it has.                            *)
LEMMA RewrittenKeeps ==
    ASSUME Typed, NEW u \in Tasks, NEW b \in BOOLEAN, task[u].singleLoop = b
    PROVE  Keeps(task[u], [task[u] EXCEPT !.singleLoop = b])
  <1> DEFINE j == [task[u] EXCEPT !.singleLoop = b]
  <1>1. /\ j.singleLoop = b /\ j.msgQueue = task[u].msgQueue /\ j.jobQueue = task[u].jobQueue
        /\ j.topProcessUs = task[u].topProcessUs /\ j.topIsJob = task[u].topIsJob
    BY SingleLoopOk DEF Typed
  <1> HIDE DEF j
  <1>2. Keeps(task[u], j)
    BY <1>1, AlikeKeeps
  <1> QED
    BY <1>2 DEF j
-----------------------------------------------------------------------------
(* The invariant.                                                           *)

Running(w) == w.pc \in {"run", "halting", "after", "lockJob"}

(* A call is in the middle of UpdateThreadPriority.                         *)
Priming(k) == k.pc \in {"prioSubmit", "prioRestore"} \/ (k.pc = "notify" /\ k.op = "priority")

(* singleLoop_ is what the constructor made it, so HandleJob takes the branch
   that fits the task.                                                      *)
SinglesKept ==
    /\ \A t \in Tasks : task[t].singleLoop <=> t \in SingleLoops
    /\ \A c \in Callers : Priming(calls[c]) => SingleLoops = {} /\ calls[c].saved = FALSE
    /\ worker.pc = "locked" => (worker.single <=> worker.task \in SingleLoops)
    /\ worker.pc \in {"run", "halting", "after"} /\ worker.kind = "loop" => worker.task \in SingleLoops

(* For a task with queues: what is next is right but while one of its jobs
   runs; the task the thread has chosen has something for it; and the job that
   runs was due.                                                            *)
Ready ==
    /\ \A t \in Tasks \ SingleLoops : TopNames(task[t]) \/ (Running(worker) /\ worker.task = t)
    /\ worker.pc \in {"picked", "locked"} /\ worker.task \notin SingleLoops => Chosen(task[worker.task])
    /\ worker.pc # "undefined"
    /\ worker.pc \in {"run", "halting", "after"} /\ worker.kind = "job" =>
          worker.due <= now + ADJUST_US

(* What every step of a caller does to the fields and to its call.          *)
CallKeeps(c) ==
    /\ FieldsKept
    /\ \/ calls' = calls
       \/ \E r : Turns(c, r) /\ (Priming(r) => SingleLoops = {} /\ r.saved = FALSE)
    /\ worker' = worker \/ (worker.pc = "sleep" /\ worker' = Scanning)

\* The first sections of the calls keep the schedules.
LEMMA CallStepKeeps ==
    ASSUME PriorityApart, Typed, SinglesKept, NEW c \in Callers, NEW u \in Tasks, CallStep(c, u)
    PROVE  CallKeeps(c)
  <1>1. now' = now /\ worker' = worker
    BY DEF CallStep, Start, Pause, Stop, Halt, PauseAsync, StopAsync, HaltAsync, SubmitJob,
           SubmitJobOnce, Submit, UpdateDelayTime, UpdateThreadPriority, DeInit
  <1>2. ASSUME NEW r, Turns(c, r), ~Priming(r), FieldsKept
        PROVE  CallKeeps(c)
    BY <1>1, <1>2 DEF CallKeeps
  <1>3. CASE Start(c, u)
    <2>1. PICK r : Turns(c, r) /\ Sets(u, Started(task[u])) /\ r.pc = "notify" /\ r.op = "start"
      BY <1>3, StartEffect DEF Writes
    <2>2. ~Priming(r)
      BY <2>1 DEF Priming
    <2> QED
      BY <1>1, <1>2, <2>1, <2>2, StartedKeeps, SetsKeeps
  <1>4. CASE PauseAsync(c, u) \/ StopAsync(c, u)
    <2>1. PICK op \in {"pauseAsync", "stopAsync"}, s \in {"PAUSED", "STOPPED"} : HaltAsync(c, u, op, s)
      BY <1>4 DEF PauseAsync, StopAsync
    <2>2. s \in RunningState
      BY DEF RunningState
    <2>3. CASE task' = task /\ calls' = calls
      BY <1>1, <2>3, SameKeeps DEF CallKeeps
    <2>4. CASE ~(task' = task /\ calls' = calls)
      <3>1. PICK r : Turns(c, r) /\ Sets(u, Halted(task[u], s)) /\ r.pc = "notify" /\ r.op = op
        BY <2>1, <2>2, <2>4, HaltAsyncEffect DEF Writes
      <3>2. ~Priming(r)
        BY <3>1 DEF Priming
      <3> QED
        BY <1>1, <1>2, <2>2, <3>1, <3>2, HaltedKeeps, SetsKeeps
    <2> QED
      BY <2>3, <2>4
  <1>5. CASE Pause(c, u) \/ Stop(c, u)
    <2>1. PICK op \in {"pause", "stop"} : Halt(c, u, op)
      BY <1>5 DEF Pause, Stop
    <2>2. PICK r : Turns(c, r) /\ r.pc = "lockJob" /\ r.op = op /\ r.task = u
      BY <2>1, HaltEffect
    <2>3. task' = task /\ ~Priming(r)
      BY <2>1, <2>2 DEF Halt, Priming
    <2> QED
      BY <1>1, <1>2, <2>2, <2>3, SameKeeps
  <1>6. CASE SubmitJob(c, u) \/ SubmitJobOnce(c, u)
    <2>1. PICK op \in {"submit", "submitOnce"}, wait \in BOOLEAN : Submit(c, u, op, wait)
      BY <1>6 DEF SubmitJob, SubmitJobOnce
    <2>4. PICK d \in Int : \E r : /\ Turns(c, r) /\ Sets(u, InsertJob(task[u], submitted + 1, d, op = "submit"))
                                  /\ r.pc \in {"idle", "notify", "reply"} /\ r.op \in {None, op}
      BY <2>1, SubmitEffect DEF Writes
    <2>2. PICK r : /\ Turns(c, r) /\ Sets(u, InsertJob(task[u], submitted + 1, d, op = "submit"))
                   /\ r.pc \in {"idle", "notify", "reply"} /\ r.op \in {None, op}
      BY <2>4
    <2>3. (op = "submit") \in BOOLEAN /\ ~Priming(r)
      BY <2>2 DEF Priming, None
    <2> QED
      BY <1>1, <1>2, <2>2, <2>3, InsertKeeps, SetsKeeps
  <1>7. CASE UpdateDelayTime(c, u)
    <2>1. PICK r, k : /\ Turns(c, r) /\ Sets(u, k) /\ SameButTop(task[u], k) /\ task[u].singleLoop
                      /\ r.pc = "notify" /\ r.op = "delay"
      BY <1>7, UpdateDelayTimeEffect DEF Writes
    <2>2. ~Priming(r) /\ Keeps(task[u], k)
      BY <2>1 DEF Priming, Keeps, SameButTop
    <2> QED
      BY <1>1, <1>2, <2>1, <2>2, SetsKeeps
  <1>8. CASE UpdateThreadPriority(c, u)
    <2>1. SingleLoops = {}
      BY <1>8 DEF PriorityApart, UpdateThreadPriority, Call
    <2>2. task[u].singleLoop = FALSE
      BY <2>1 DEF SinglesKept, Typed, TaskStates
    <2>3. PICK r : /\ Turns(c, r) /\ Sets(u, [task[u] EXCEPT !.singleLoop = FALSE])
                   /\ r.saved = task[u].singleLoop
      BY <1>8, UpdateThreadPriorityEffect DEF Writes
    <2>4. FALSE \in BOOLEAN
      OBVIOUS
    <2>5. Keeps(task[u], [task[u] EXCEPT !.singleLoop = FALSE])
      BY <2>2, <2>4, RewrittenKeeps, Zenon
    <2>6. FieldsKept
      BY <1>1, <2>3, <2>5, SetsKeeps
    <2> QED
      BY <1>1, <2>1, <2>2, <2>3, <2>6 DEF CallKeeps
  <1>9. CASE DeInit(c, u)
    <2>1. PICK r : Turns(c, r) /\ r.pc = IF Singleton THEN "exit" ELSE "deinit"
      BY <1>9, DeInitEffect
    <2>2. task' = task /\ ~Priming(r)
      BY <1>9, <2>1 DEF DeInit, Priming
    <2> QED
      BY <1>1, <1>2, <2>1, <2>2, SameKeeps
  <1> QED
    BY <1>3, <1>4, <1>5, <1>6, <1>7, <1>8, <1>9 DEF CallStep

\* The later sections of the calls keep the schedules.
LEMMA ContinueKeeps ==
    ASSUME Typed, SinglesKept, NEW c \in Callers, Continue(c)
    PROVE  CallKeeps(c)
  <1> DEFINE u == calls[c].task
  <1>1. now' = now /\ (worker' = worker \/ (worker.pc = "sleep" /\ worker' = Scanning))
    BY DEF Continue, LockJob, HaltSection, Notify, AwaitReply, PrioritySubmit, PriorityRestore,
           Exit, ResetLoop, Join, DeInitSection, Woken
  <1>2. ASSUME NEW r, Turns(c, r), Priming(r) => SingleLoops = {} /\ r.saved = FALSE, FieldsKept
        PROVE  CallKeeps(c)
    BY <1>1, <1>2 DEF CallKeeps
  <1>3. ~Priming(IdleCall)
    BY IdleOk DEF Priming
  <1>4. CASE HaltSection(c)
    <2> DEFINE s == IF calls[c].op = "pause" THEN "PAUSED" ELSE "STOPPED"
    <2>1. s \in RunningState /\ u \in Tasks /\ calls[c].op \in {"pause", "stop"}
      BY <1>4, TypedCall, HaltSectionEffect DEF RunningState, Fits, HaltSection
    <2>2. CASE task' = task /\ Turns(c, IdleCall)
      BY <1>1, <1>2, <1>3, <2>2, SameKeeps
    <2>3. CASE ~(task' = task /\ Turns(c, IdleCall))
      <3>1. PICK r : Turns(c, r) /\ Sets(u, Halted(task[u], s)) /\ r.pc = "notify" /\ r.op = calls[c].op
        BY <1>4, <2>3, HaltSectionEffect DEF Writes
      <3>2. ~Priming(r)
        BY <2>1, <3>1 DEF Priming
      <3> QED
        BY <1>1, <1>2, <2>1, <3>1, <3>2, HaltedKeeps, SetsKeeps
    <2> QED
      BY <2>2, <2>3
  <1>5. CASE DeInitSection(c)
    <2>1. u \in Tasks /\ Sets(u, Halted(task[u], "STOPPED")) /\ Turns(c, IdleCall)
      BY <1>5, DeInitSectionEffect DEF Writes
    <2>2. "STOPPED" \in RunningState
      BY DEF RunningState
    <2> QED
      BY <1>1, <1>2, <1>3, <2>1, <2>2, HaltedKeeps, SetsKeeps
  <1>6. CASE PrioritySubmit(c)
    <2>1. u \in Tasks /\ Sets(u, InsertJob(task[u], submitted + 1, 0, FALSE))
      BY <1>6, PrioritySubmitEffect DEF Writes
    <2>2. PICK r : Turns(c, r) /\ r.saved = calls[c].saved
      BY <1>6, PrioritySubmitEffect DEF Writes
    <2>3. SingleLoops = {} /\ calls[c].saved = FALSE
      BY <1>6 DEF PrioritySubmit, SinglesKept, Priming
    <2>4. 0 \in Int /\ FALSE \in BOOLEAN
      OBVIOUS
    <2>5. Keeps(task[u], InsertJob(task[u], submitted + 1, 0, FALSE))
      BY <2>1, <2>4, InsertKeeps, Zenon
    <2>6. FieldsKept
      BY <1>1, <2>1, <2>5, SetsKeeps
    <2> QED
      BY <1>2, <2>2, <2>3, <2>6
  <1>7. CASE PriorityRestore(c)
    <2> DEFINE k == [task[u] EXCEPT !.singleLoop = calls[c].saved]
    <2>1. u \in Tasks /\ Sets(u, k) /\ Turns(c, IdleCall) /\ calls[c].saved \in BOOLEAN
      BY <1>7, PriorityRestoreEffect DEF Writes
    <2>2. SingleLoops = {} /\ calls[c].saved = FALSE
      BY <1>7 DEF PriorityRestore, SinglesKept, Priming
    <2>3. task[u].singleLoop = calls[c].saved
      BY <2>1, <2>2 DEF SinglesKept, Typed, TaskStates
    <2>4. Keeps(task[u], k)
      BY <2>1, <2>3, RewrittenKeeps
    <2> QED
      BY <1>1, <1>2, <1>3, <2>1, <2>4, SetsKeeps
  <1>8. CASE Notify(c)
    <2>1. PICK r : Turns(c, r) /\ (r.pc = "prioRestore" => r.saved = calls[c].saved)
                   /\ r.pc \in {"idle", "reply", "prioRestore"}
                   /\ r.op \in {None, calls[c].op}
      BY <1>8, NotifyEffect
    <2>2. r.pc = "prioRestore" => calls[c].op = "priority" /\ calls[c].pc = "notify"
      BY <1>8, <2>1 DEF Notify, Turns, CallOk, Fits, None
    <2>3. Priming(r) => SingleLoops = {} /\ r.saved = FALSE
      BY <2>1, <2>2 DEF Priming, SinglesKept
    <2>4. task' = task
      BY <1>8 DEF Notify
    <2> QED
      BY <1>1, <1>2, <2>1, <2>3, <2>4, SameKeeps
  <1>9. CASE AwaitReply(c)
    <2>1. PICK r : Turns(c, r) /\ r.pc \in {"replySleep", "idle"}
      BY <1>9, AwaitReplyEffect
    <2>2. ~Priming(r) /\ task' = task
      BY <1>9, <2>1 DEF Priming, AwaitReply
    <2> QED
      BY <1>1, <1>2, <2>1, <2>2, SameKeeps
  <1>10. CASE LockJob(c)
    <2>1. calls[c].pc = "lockJob" /\ Fits("locked", calls[c].op)
      BY <1>10, TypedCall DEF Fits, LockJob
    <2>2. PICK r : Turns(c, r) /\ r.pc = "locked" /\ r.op = calls[c].op /\ r.task = calls[c].task
      BY <1>10, <2>1, PcEffect DEF LockJob
    <2>3. ~Priming(r) /\ task' = task
      BY <1>10, <2>2 DEF Priming, LockJob
    <2> QED
      BY <1>1, <1>2, <2>2, <2>3, SameKeeps
  <1>11. CASE Exit(c) \/ ResetLoop(c) \/ Join(c)
    <2>1. PICK r : Turns(c, r) /\ r.pc \in {"reset", "join", "deinit"}
      BY <1>11, DeInitStepEffect
    <2>2. ~Priming(r) /\ task' = task
      BY <1>11, <2>1 DEF Priming, Exit, ResetLoop, Join
    <2> QED
      BY <1>1, <1>2, <2>1, <2>2, SameKeeps
  <1> QED
    BY <1>4, <1>5, <1>6, <1>7, <1>8, <1>9, <1>10, <1>11 DEF Continue
-----------------------------------------------------------------------------
(* The invariant is kept.                                                   *)

(* A task with queues that keeps its fields keeps what it promises.         *)
LEMMA KeptPromises ==
    ASSUME SinglesKept, FieldsKept, NEW t \in Tasks \ SingleLoops
    PROVE  /\ TopNames(task[t]) => TopNames(task'[t])
           /\ Chosen(task[t]) => Chosen(task[t])'
  <1>1. ~task[t].singleLoop /\ Keeps(task[t], task'[t]) /\ now' = now
    BY DEF SinglesKept, FieldsKept
  <1> QED
    BY <1>1 DEF Keeps, Chosen, HasDue

\* singleLoop_ stays as it was configured.
LEMMA KeptSingles ==
    ASSUME SinglesKept, FieldsKept
    PROVE  \A t \in Tasks : task'[t].singleLoop <=> t \in SingleLoops
  BY DEF SinglesKept, FieldsKept, Keeps

(* The thread does not move, or goes back to its loop from outside a job.   *)
LEMMA ReadyAside ==
    ASSUME Typed, SinglesKept, Ready, FieldsKept,
           worker' = worker \/ (worker' = Scanning /\ ~Running(worker))
    PROVE  Ready'
  <1>1. ASSUME NEW t \in Tasks \ SingleLoops
        PROVE  TopNames(task'[t]) \/ (Running(worker') /\ worker'.task = t)
    BY <1>1, KeptPromises DEF Ready
  <1>2. now' = now
    BY DEF FieldsKept
  <1>3. CASE worker' = worker
    <2>1. worker.pc \in {"picked", "locked"} => worker.task \in Tasks
      BY DEF Typed, WorkerOk
    <2>2. worker.pc \in {"picked", "locked"} /\ worker.task \notin SingleLoops => Chosen(task[worker.task])'
      <3> SUFFICES ASSUME worker.pc \in {"picked", "locked"}, worker.task \notin SingleLoops
                   PROVE  Chosen(task[worker.task])'
        OBVIOUS
      <3>1. Chosen(task[worker.task]) /\ ~task[worker.task].singleLoop
        BY <2>1 DEF Ready, SinglesKept
      <3>2. Chosen(task'[worker.task])
        BY <2>1, <3>1 DEF FieldsKept, Keeps
      <3> QED
        BY <1>2, <1>3, <3>2 DEF Chosen, HasDue
    <2> QED
      BY <1>1, <1>2, <1>3, <2>2 DEF Ready
  <1>4. CASE worker' = Scanning
    <2>1. worker'.pc = "scan"
      BY <1>4, ScanningOk
    <2> QED
      BY <1>1, <2>1 DEF Ready
  <1> QED
    BY <1>3, <1>4

(* The thread moves on inside a job.                                        *)
LEMMA ReadyRunning ==
    ASSUME Typed, SinglesKept, Ready, FieldsKept, Running(worker), Running(worker'),
           worker'.task = worker.task,
           worker'.pc # "lockJob" =>
               worker.pc # "lockJob" /\ worker'.kind = worker.kind /\ worker'.due = worker.due
    PROVE  Ready'
  <1>1. ASSUME NEW t \in Tasks \ SingleLoops
        PROVE  TopNames(task'[t]) \/ (Running(worker') /\ worker'.task = t)
    BY <1>1, KeptPromises DEF Ready
  <1>2. now' = now
    BY DEF FieldsKept
  <1> QED
    BY <1>1, <1>2 DEF Ready, Running

\* The thread picks a task only when it is due.
LEMMA ReadyScan ==
    ASSUME Typed, SinglesKept, Ready, Scan
    PROVE  Ready'
  <1>1. task' = task /\ now' = now /\ worker.pc = "scan"
    BY DEF Scan
  <1>2. \A t \in Tasks \ SingleLoops : TopNames(task[t])
    BY <1>1 DEF Ready, Running
  <1>3. CASE worker'.pc \in {"exited", "sleep"}
    BY <1>1, <1>2, <1>3 DEF Ready
  <1>4. CASE worker'.pc = "picked" /\ Due # {} /\ worker'.task = NextTask
             /\ task[NextTask].topProcessUs <= now + ADJUST_US
    <2> DEFINE n == NextTask
    <2>1. n \in Tasks /\ task[n].topProcessUs \in Nat
      BY <1>4, NextTaskOk
    <2> HIDE DEF n
    <2>2. CASE n \notin SingleLoops
      <3>1. TopNames(task[n]) /\ task[n].topProcessUs # -1
            /\ task[n].topProcessUs <= now + ADJUST_US
        BY <1>2, <1>4, <2>1, <2>2 DEF n
      <3>2. HasDue(QueueOf(task[n], task[n].topIsJob))
        BY <3>1 DEF TopNames, HasDue
      <3>3. Chosen(task[n])
        BY <3>2 DEF Chosen, HasDue, QueueOf
      <3>4. Chosen(task[worker.task])'
        BY <1>1, <1>4, <3>3 DEF Chosen, HasDue, n
      <3> QED
        BY <1>1, <1>2, <1>4, <3>4 DEF Ready
    <2>3. CASE n \in SingleLoops
      BY <1>1, <1>2, <1>4, <2>3 DEF Ready, n
    <2> QED
      BY <2>2, <2>3
  <1> QED
    BY <1>3, <1>4, ScanEffect

\* The job HandleJob takes is the one the task was due for.
LEMMA ReadyEnter ==
    ASSUME Typed, SinglesKept, Ready, EnterHandleJob
    PROVE  Ready'
  <1>1. task' = task /\ now' = now /\ worker.pc = "picked"
    BY DEF EnterHandleJob
  <1>2. worker'.pc = "locked" /\ worker'.task = worker.task
    BY EnterHandleJobEffect
  <1>3. \A t \in Tasks \ SingleLoops : TopNames(task[t])
    BY <1>1 DEF Ready, Running
  <1>4. worker.task \notin SingleLoops => Chosen(task[worker.task])
    BY <1>1 DEF Ready
  <1>5. worker.task \notin SingleLoops => Chosen(task[worker.task])'
    BY <1>1, <1>2, <1>4 DEF Chosen, HasDue
  <1> QED
    BY <1>1, <1>2, <1>3, <1>5 DEF Ready

(* HandleJob on a task with queues: it never meets an empty map, and a job it
   takes is due.                                                            *)
LEMMA ReadyQueued ==
    ASSUME Typed, SinglesKept, Ready, HandleQueued
    PROVE  Ready'
  <1> DEFINE u == worker.task
             q == QueueOf(task[u], task[u].topIsJob)
  <1>1. now' = now /\ worker.pc = "locked" /\ ~worker.single
    BY DEF HandleQueued
  <1>2. u \in Tasks \ SingleLoops
    BY <1>1, HandleQueuedEffect DEF SinglesKept
  <1>3. Chosen(task[u]) /\ ~Running(worker)
    BY <1>1, <1>2 DEF Ready, Running
  <1>4. ~Empty(q) /\ (task[u].topIsJob => First(q) <= now + ADJUST_US)
    BY <1>3 DEF Chosen, HasDue, QueueOf
  <1>5. CASE Leave(u) /\ task' = task
    BY <1>1, <1>3, <1>5, SameKeeps, ReadyAside DEF Leave
  <1>6. CASE ~(Leave(u) /\ task' = task)
    <2>1. /\ worker'.pc = "run" /\ worker'.task = u
          /\ worker'.kind = (IF task[u].topIsJob THEN "job" ELSE "msg")
          /\ worker'.due = First(q)
          /\ \E k : Sets(u, k)
      BY <1>4, <1>6, HandleQueuedEffect
    <2>2. \A t \in Tasks \ SingleLoops : TopNames(task[t])
      BY <1>3 DEF Ready
    <2>3. \A t \in Tasks \ SingleLoops : t # u => TopNames(task'[t])
      BY <2>1, <2>2 DEF Sets
    <2> HIDE DEF q
    <2>4. Running(worker')
      BY <2>1 DEF Running
    <2>5. worker'.kind = "job" => worker'.due <= now' + ADJUST_US
      BY <1>1, <1>4, <2>1
    <2> QED
      BY <2>1, <2>3, <2>4, <2>5 DEF Ready
  <1> QED
    BY <1>5, <1>6

\* After a job the thread has nothing in hand.
LEMMA ReadyEnd ==
    ASSUME Typed, SinglesKept, Ready, EndLoop \/ EndQueued
    PROVE  Ready'
  <1>1. worker'.pc = "scan" /\ worker.task \in Tasks
    BY EndLoopEffect, EndQueuedEffect, ScanningOk DEF Leave
  <1>2. CASE EndLoop
    <2>1. worker.task \in SingleLoops /\ \E k : Sets(worker.task, k)
      BY <1>2, EndLoopEffect DEF EndLoop, SinglesKept
    <2>2. \A t \in Tasks \ SingleLoops : TopNames(task'[t])
      BY <2>1 DEF Sets, Ready
    <2> QED
      BY <1>1, <2>2 DEF Ready
  <1>3. CASE EndQueued
    <2>1. Sets(worker.task, UpdateTop(task[worker.task]))
      BY <1>3, EndQueuedEffect
    <2>2. TopNames(UpdateTop(task[worker.task]))
      BY <1>1, UpdateTopOk DEF Typed
    <2>3. \A t \in Tasks \ SingleLoops : TopNames(task'[t])
      BY <2>1, <2>2 DEF Sets, Ready
    <2> QED
      BY <1>1, <2>3 DEF Ready
  <1> QED
    BY <1>2, <1>3

\* The clock only makes jobs less early.
LEMMA ReadyTick ==
    ASSUME Typed, Ready, Tick
    PROVE  Ready'
  <1>1. task' = task /\ worker' = worker /\ now' = now + 1 /\ now \in Nat
    BY DEF Tick, Typed
  <1>2. ASSUME worker.pc \in {"picked", "locked"}, worker.task \notin SingleLoops
        PROVE  Chosen(task[worker.task])'
    <2> DEFINE k == task[worker.task]
    <2>1. Chosen(k) /\ k.msgQueue \in Queues /\ k.jobQueue \in Queues
      BY <1>2 DEF Ready, Typed, WorkerOk, TaskStates
    <2> HIDE DEF k
    <2>2. \A q \in Queues : HasDue(q) => ~Empty(q) /\ First(q) <= (now + 1) + ADJUST_US
      BY <1>1, FirstOk, TaskAssumption DEF HasDue
    <2>3. Chosen(k)'
      BY <1>1, <2>1, <2>2 DEF Chosen, HasDue, k
    <2> QED
      BY <1>1, <2>3 DEF k
  <1>3. worker.pc \in {"run", "halting", "after"} /\ worker.kind = "job" =>
           worker.due <= (now + 1) + ADJUST_US
    BY <1>1, TaskAssumption DEF Ready, Typed, WorkerStates, Times
  <1> QED
    BY <1>1, <1>2, <1>3 DEF Ready

(* HandleJob on a task that repeats its job, and what a job does.           *)
LEMMA ReadyJob ==
    ASSUME Typed, SinglesKept, Ready,
           HandleLoop \/ NotifyReply \/ JobHaltTop \/ JobStep
    PROVE  Ready' /\ (~HandleLoop => FieldsKept)
  <1>1. CASE HandleLoop
    <2>1. now' = now /\ worker.pc = "locked" /\ worker.task \in SingleLoops
      BY <1>1 DEF HandleLoop, SinglesKept
    <2>2. CASE Leave(worker.task) /\ Sets(worker.task, [task[worker.task] EXCEPT !.topProcessUs = -1])
      <3>1. FieldsKept /\ worker' = Scanning /\ ~Running(worker)
        BY <1>1, <2>1, <2>2, HandleLoopEffect, UntimedKeeps, SetsKeeps DEF Leave, Running
      <3> QED
        BY <1>1, <3>1, ReadyAside
    <2>3. CASE task' = task /\ worker'.pc = "run" /\ worker'.kind = "loop"
      BY <1>1, <2>1, <2>3 DEF Ready, Running
    <2> QED
      BY <1>1, <2>2, <2>3, HandleLoopEffect
  <1>2. CASE NotifyReply
    <2>1. FieldsKept
      BY <1>2, SameKeeps DEF NotifyReply
    <2>2. /\ Running(worker) /\ Running(worker') /\ worker'.task = worker.task
          /\ worker.pc # "lockJob" /\ worker'.kind = worker.kind /\ worker'.due = worker.due
      BY <1>2, NotifyReplyEffect DEF NotifyReply, Running
    <2> QED
      BY <2>1, <2>2, ReadyRunning
  <1>3. CASE JobHaltTop
    <2>1. FieldsKept
      BY <1>3, JobHaltTopEffect, UntimedKeeps, SetsKeeps DEF JobHaltTop
    <2>2. /\ Running(worker) /\ Running(worker') /\ worker'.task = worker.task
          /\ worker.pc # "lockJob" /\ worker'.kind = worker.kind /\ worker'.due = worker.due
      BY <1>3, JobHaltTopEffect DEF JobHaltTop, Running
    <2> QED
      BY <2>1, <2>2, ReadyRunning
  <1>4. ASSUME NEW u \in Tasks, JobStart(u) PROVE Ready' /\ FieldsKept
    BY <1>4, JobStartEffect, StartedKeeps, SetsKeeps, ReadyAside DEF JobStart
  <1>5. ASSUME NEW u \in Tasks, JobSubmit(u) PROVE Ready' /\ FieldsKept
    BY <1>5, JobSubmitEffect, InsertKeeps, SetsKeeps, ReadyAside DEF JobSubmit
  <1>6. ASSUME NEW u \in Tasks, NEW s \in {"PAUSED", "STOPPED"}, JobHalt(u, s)
        PROVE  Ready' /\ FieldsKept
    <2>1. PICK k : /\ Sets(u, k) /\ k.singleLoop = task[u].singleLoop
                   /\ k.msgQueue = task[u].msgQueue /\ k.jobQueue = task[u].jobQueue
                   /\ k.topProcessUs = task[u].topProcessUs /\ k.topIsJob = task[u].topIsJob
      BY <1>6, JobHaltEffect
    <2>2. FieldsKept
      BY <1>6, <2>1, AlikeKeeps, SetsKeeps DEF JobHalt
    <2>3. /\ Running(worker) /\ Running(worker') /\ worker'.task = worker.task
          /\ worker.pc # "lockJob" /\ worker'.kind = worker.kind /\ worker'.due = worker.due
      BY <1>6, JobHaltEffect DEF Running
    <2> QED
      BY <2>2, <2>3, ReadyRunning
  <1>7. CASE JobHaltUnknown
    <2>1. FieldsKept
      BY <1>7, SameKeeps DEF JobHaltUnknown
    <2>2. /\ Running(worker) /\ Running(worker') /\ worker'.task = worker.task
          /\ worker'.pc = "lockJob"
      BY <1>7, JobHaltUnknownEffect DEF Running
    <2> QED
      BY <2>1, <2>2, ReadyRunning
  <1>8. ~(HandleLoop /\ NotifyReply) /\ ~(HandleLoop /\ JobHaltTop)
    BY DEF HandleLoop, NotifyReply, JobHaltTop
  <1> QED
    BY <1>1, <1>2, <1>3, <1>4, <1>5, <1>6, <1>7, <1>8 DEF JobStep

\* Every step keeps what the thread has in hand due.
LEMMA StepReady ==
    ASSUME PriorityApart, Typed, SinglesKept, Ready, [Next]_vars
    PROVE  Ready'
  <1>1. ASSUME NEW c \in Callers, CallKeeps(c) PROVE Ready'
    BY <1>1, ReadyAside DEF CallKeeps, Running
  <1>2. CASE WaitTimeout \/ SpuriousWakeup \/ UNCHANGED vars
    BY <1>2, SameKeeps, ReadyAside DEF WaitTimeout, SpuriousWakeup, Running, vars
  <1> QED
    BY <1>1, <1>2, CallStepKeeps, ContinueKeeps, ReadyScan, ReadyEnter, ReadyQueued, ReadyEnd,
       ReadyTick, ReadyJob DEF Next, ThreadStep

\* Every step keeps singleLoop_.
LEMMA StepSingles ==
    ASSUME PriorityApart, Typed, SinglesKept, Ready, [Next]_vars
    PROVE  SinglesKept'
  <1> DEFINE Fields == \A t \in Tasks : task'[t].singleLoop <=> t \in SingleLoops
             Callings == \A c \in Callers : Priming(calls'[c]) => SingleLoops = {} /\ calls'[c].saved = FALSE
             Branch == /\ worker'.pc = "locked" => (worker'.single <=> worker'.task \in SingleLoops)
                       /\ worker'.pc \in {"run", "halting", "after"} /\ worker'.kind = "loop" =>
                             worker'.task \in SingleLoops
  <1>1. Fields /\ Callings /\ Branch => SinglesKept'
    BY DEF SinglesKept
  <1>2. FieldsKept => Fields
    BY KeptSingles
  <1>3. calls' = calls => Callings
    BY DEF SinglesKept
  <1>4. worker' = worker \/ worker' = Scanning => Branch
    BY ScanningOk DEF SinglesKept
  <1> HIDE DEF Fields, Branch
  <1>5. ASSUME NEW c \in Callers, CallKeeps(c) PROVE SinglesKept'
    <2>1. Fields /\ Branch
      BY <1>2, <1>4, <1>5 DEF CallKeeps
    <2>2. Callings
      BY <1>5 DEF CallKeeps, Turns, SinglesKept
    <2> QED
      BY <1>1, <2>1, <2>2
  <1>6. CASE WaitTimeout \/ SpuriousWakeup \/ UNCHANGED vars
    <2>1. FieldsKept /\ calls' = calls /\ (worker' = worker \/ worker' = Scanning)
      BY <1>6, SameKeeps DEF WaitTimeout, SpuriousWakeup, vars
    <2> QED
      BY <1>1, <1>2, <1>3, <1>4, <2>1
  <1>7. CASE Tick
    BY <1>7 DEF Tick, SinglesKept
  <1>8. CASE Scan
    <2>1. FieldsKept /\ calls' = calls
      BY <1>8, SameKeeps DEF Scan
    <2>2. Branch
      BY <1>8, ScanEffect DEF Branch
    <2> QED
      BY <1>1, <1>2, <1>3, <2>1, <2>2
  <1>9. CASE EnterHandleJob
    <2>1. FieldsKept /\ calls' = calls
      BY <1>9, SameKeeps DEF EnterHandleJob
    <2>2. Branch
      BY <1>9, EnterHandleJobEffect DEF Branch, SinglesKept
    <2> QED
      BY <1>1, <1>2, <1>3, <2>1, <2>2
  <1>10. CASE HandleLoop
    <2>1. calls' = calls /\ now' = now /\ worker.task \in SingleLoops
      BY <1>10 DEF HandleLoop, SinglesKept
    <2>2. CASE Leave(worker.task) /\ Sets(worker.task, [task[worker.task] EXCEPT !.topProcessUs = -1])
      <3>1. FieldsKept /\ worker' = Scanning
        BY <1>10, <2>1, <2>2, HandleLoopEffect, UntimedKeeps, SetsKeeps DEF Leave
      <3> QED
        BY <1>1, <1>2, <1>3, <1>4, <2>1, <3>1
    <2>3. CASE task' = task /\ worker'.pc = "run" /\ worker'.task = worker.task
      <3>1. FieldsKept
        BY <2>1, <2>3, SameKeeps
      <3>2. Branch
        BY <2>1, <2>3 DEF Branch
      <3> QED
        BY <1>1, <1>2, <1>3, <2>1, <3>1, <3>2
    <2> QED
      BY <1>10, <2>2, <2>3, HandleLoopEffect
  <1>11. CASE HandleQueued
    <2>1. calls' = calls /\ now' = now
      BY <1>11 DEF HandleQueued
    <2>2. Fields
      <3>1. worker.task \in Tasks
        BY <1>11, HandleQueuedEffect
      <3>2. task' = task \/ \E k : Sets(worker.task, k) /\ k.singleLoop = task[worker.task].singleLoop
        BY <1>11, HandleQueuedEffect
      <3> QED
        BY <3>1, <3>2 DEF Sets, Fields, SinglesKept
    <2>3. worker' = Scanning \/ worker'.pc = "undefined" \/ (worker'.pc = "run" /\ worker'.kind \in {"job", "msg"})
      BY <1>11, HandleQueuedEffect DEF Leave
    <2>4. Branch
      BY <1>4, <2>3 DEF Branch
    <2> QED
      BY <1>1, <1>3, <2>1, <2>2, <2>4
  <1>12. CASE EndLoop \/ EndQueued
    <2>1. worker' = Scanning /\ calls' = calls
      BY <1>12 DEF EndLoop, EndQueued, Leave
    <2>2. \E k : Sets(worker.task, k) /\ k.singleLoop = task[worker.task].singleLoop /\ worker.task \in Tasks
      <3>1. CASE EndLoop
        BY <3>1, EndLoopEffect DEF SameButTop
      <3>2. CASE EndQueued
        <4>1. worker.task \in Tasks /\ Sets(worker.task, UpdateTop(task[worker.task]))
          BY <3>2, EndQueuedEffect
        <4>2. SameButTop(task[worker.task], UpdateTop(task[worker.task]))
          BY <4>1, UpdateTopOk DEF Typed
        <4> QED
          BY <4>1, <4>2 DEF SameButTop
      <3> QED
        BY <1>12, <3>1, <3>2
    <2>3. Fields
      BY <2>2 DEF Sets, Fields, SinglesKept
    <2> QED
      BY <1>1, <1>3, <1>4, <2>1, <2>3
  <1>13. CASE NotifyReply
    <2>1. Fields
      BY <1>2, <1>13, SameKeeps DEF NotifyReply
    <2>2. Callings
      BY <1>13, NotifyReplyEffect DEF Priming, SinglesKept
    <2>3. Branch
      BY <1>13, NotifyReplyEffect DEF NotifyReply, SinglesKept, Branch
    <2> QED
      BY <1>1, <2>1, <2>2, <2>3
  <1>14. CASE JobHaltTop
    <2>1. FieldsKept /\ calls' = calls
      BY <1>14, JobHaltTopEffect, UntimedKeeps, SetsKeeps DEF JobHaltTop
    <2>2. Branch
      BY <1>14, JobHaltTopEffect DEF JobHaltTop, SinglesKept, Branch
    <2> QED
      BY <1>1, <1>2, <1>3, <2>1, <2>2
  <1>15. CASE JobStep
    <2>1. calls' = calls
      BY <1>15 DEF JobStep, JobStart, JobSubmit, JobHalt, JobHaltUnknown
    <2>2. worker.pc = "run"
      BY <1>15 DEF JobStep, JobStart, JobSubmit, JobHalt, JobHaltUnknown, JobCall
    <2>3. FieldsKept
      BY <1>15, <2>2, ReadyJob DEF HandleLoop
    <2>4. Branch
      <3>1. ASSUME NEW t \in Tasks, JobStart(t) \/ JobSubmit(t) PROVE Branch
        BY <1>4, <3>1 DEF JobStart, JobSubmit
      <3>2. ASSUME NEW t \in Tasks, NEW s \in {"PAUSED", "STOPPED"}, JobHalt(t, s) PROVE Branch
        BY <3>2, JobHaltEffect DEF Branch, SinglesKept
      <3>3. CASE JobHaltUnknown
        BY <3>3, JobHaltUnknownEffect DEF Branch
      <3> QED
        BY <1>15, <3>1, <3>2, <3>3 DEF JobStep
    <2> QED
      BY <1>1, <1>2, <1>3, <2>1, <2>3, <2>4
  <1> QED
    BY <1>5, <1>6, <1>7, <1>8, <1>9, <1>10, <1>11, <1>12, <1>13, <1>14, <1>15,
       CallStepKeeps, ContinueKeeps DEF Next, ThreadStep

\* At the start the thread has nothing in hand.
LEMMA InitiallyReady ==
    ASSUME Init
    PROVE  SinglesKept /\ Ready
  <1>1. \A t \in Tasks : (task[t].singleLoop <=> t \in SingleLoops) /\ task[t].topProcessUs = -1
    BY DEF Init, NewTask
  <1>2. worker.pc = "scan" /\ \A c \in Callers : calls[c].pc = "idle"
    BY ScanningOk, IdleOk DEF Init
  <1> QED
    BY <1>1, <1>2 DEF SinglesKept, Ready, TopNames, Priming

\* Together they are inductive.
LEMMA ReadyAlways == PriorityApart /\ Spec => [](Typed /\ SinglesKept /\ Ready)
  <1> DEFINE RInv == Typed /\ SinglesKept /\ Ready
  <1>1. Init => RInv
    BY InitiallyTyped, InitiallyReady
  <1>2. PriorityApart /\ RInv /\ [Next]_vars => RInv'
    BY StepTyped, StepSingles, StepReady
  <1>3. CASE PriorityApart
    BY <1>1, <1>2, <1>3, PTL DEF Spec
  <1> QED
    BY <1>3

(* A submitted job is not run before its time, although the thread chose its
   task for an entry that may be gone since and looks again under another
   lock; unless UpdateThreadPriority is used next to a task that repeats one
   job.                                                                     *)
THEOREM JobsNeverRunEarly == PriorityApart /\ Spec => []NeverEarly
  <1>1. Typed /\ SinglesKept /\ Ready => NeverEarly
    BY DEF Ready, NeverEarly
  <1> QED
    BY <1>1, ReadyAlways, PTL

(* What TypeOK says of the values and of the holders of jobMutex_, from the
   invariants of the other theorems.                                        *)
LEMMA TypesFollow ==
    ASSUME Typed, Locks, JobsKept, Ready
    PROVE  TypeOK
  <1>1. worker.pc # "undefined" /\ now \in Nat
    BY DEF Ready, Typed
  <1>2. ASSUME NEW t \in Tasks
        PROVE  LET k == task[t]
               IN /\ k.runningState \in RunningState
                  /\ {k.singleLoop, k.topIsJob} \subseteq BOOLEAN
                  /\ k.topProcessUs \in Nat \cup {-1}
                  /\ \A q \in {k.msgQueue, k.jobQueue} :
                        DOMAIN q \subseteq Nat /\ Range(q) \subseteq 1..submitted
    <2> DEFINE k == task[t]
    <2>1. k \in TaskStates
      BY DEF Typed
    <2>2. /\ k.runningState \in RunningState /\ k.singleLoop \in BOOLEAN /\ k.topIsJob \in BOOLEAN
          /\ k.topProcessUs \in Nat \cup {-1} /\ k.msgQueue \in Queues /\ k.jobQueue \in Queues
      BY <2>1 DEF TaskStates, Times
    <2>3. DOMAIN k.msgQueue \subseteq Nat /\ DOMAIN k.jobQueue \subseteq Nat
      BY <2>2, QueueShape DEF IsQueue
    <2>4. QueueOf(task[t], TRUE) = k.jobQueue /\ QueueOf(task[t], FALSE) = k.msgQueue
      BY DEF QueueOf
    <2>5. ASSUME NEW b \in BOOLEAN PROVE Range(QueueOf(task[t], b)) \subseteq 1..submitted
      BY DEF JobsKept, EntriesAreOpen, Range
    <2>6. TRUE \in BOOLEAN /\ FALSE \in BOOLEAN
      OBVIOUS
    <2>7. Range(k.jobQueue) \subseteq 1..submitted /\ Range(k.msgQueue) \subseteq 1..submitted
      BY <2>4, <2>5, <2>6, Zenon
    <2> QED
      BY <2>2, <2>3, <2>7
  <1>3. Range(taskList) \subseteq Tasks
    BY DEF Typed, Range
  <1>4. ASSUME NEW t \in Tasks
        PROVE  \/ jobMutex[t] = None
               \/ jobMutex[t] = "worker" /\ worker.task = t
               \/ jobMutex[t] \in Callers /\ calls[jobMutex[t]].task = t
    BY DEF Typed, Locks
  <1> QED
    BY <1>1, <1>2, <1>3, <1>4 DEF TypeOK

(* Every field holds a value the code can write to it, a jobMutex_ is held only
   inside a section of its task, and HandleJob never takes the first entry of
   an empty map; unless UpdateThreadPriority is used next to a task that
   repeats one job.                                                         *)
THEOREM TaskTypeCorrect == PriorityApart /\ Spec => []TypeOK
  <1>1. Init => Typed /\ Locks
    BY InitiallyTyped, InitiallyLocks
  <1>2. Typed /\ Locks /\ [Next]_vars => (Typed /\ Locks)'
    BY StepTyped, StepLocks
  <1>3. Spec => [](Typed /\ Locks)
    BY <1>1, <1>2, PTL DEF Spec
  <1>4. Typed /\ Locks /\ JobsKept /\ Ready => TypeOK
    BY TypesFollow
  <1> QED
    BY <1>3, <1>4, JobsStayKept, ReadyAlways, PTL
=============================================================================
