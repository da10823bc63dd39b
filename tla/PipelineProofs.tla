--------------------------- MODULE PipelineProofs ---------------------------
(***************************************************************************)
(* Proofs about Pipeline: the types of its state, and that a buffer from    *)
(* before a flush that met its task halted is never processed as a live     *)
(* one.  The threads are sequences of steps, so most of the work is to say  *)
(* which steps a thread can have ahead of it.                               *)
(***************************************************************************)
EXTENDS Pipeline, SequenceLemmas

(* The steps of a thread.  Those of FrontOps are only ever its first.       *)
FrontOps == {"buffer", "submit", "check", "process", "link"}

(* What a message is, and what only the thread of a task does itself.       *)
Messages == {"initDone", "prepareDone", "startDone", "resumeDone", "releaseDone",
             "mutedDone", "reInitDone"}

JobOps == {"check", "drop", "process"}

TaskOps == Messages \cup JobOps \cup {"startTask", "change", "prepare"}

Halts == {"PAUSED", "STOPPED"}

OpNames ==
    TaskOps \cup FrontOps
    \cup {"start", "resume", "release", "pause", "stop", "freeze", "unfreeze", "flush",
          "flushBase", "muted", "reInit", "haltTask", "clearNext", "wait", "endWait", "getErrCode",
          "insert", "clearHeads"}

StepRecords == [op : OpNames, f : Filters \cup {None}, to : FilterState \cup {None},
                res : Status, idx : Nat]

StepsOf(t) ==
    {s \in StepRecords :
        /\ s.op # "clearHeads" => s.f \in Filters
        /\ s.op = "change" => s.to \in FilterState
        /\ s.op = "haltTask" => s.to \in Halts
        /\ s.op = "insert" => s.f \in Heads
        /\ s.op \in JobOps => s.f = t
        /\ s.op \notin TaskOps => t \in Callers}

LaterSteps(t) == {s \in StepsOf(t) : s.op \notin FrontOps}

ProgsOf(t) == {p \in Seq(StepsOf(t)) : \A i \in DOMAIN p : i # 1 => p[i] \in LaterSteps(t)}

FilterRecords == [curState : FilterState, errCode : Status, jobIdx : Nat, jobIdxBase : Nat]

TaskRecords == [exists : BOOLEAN, state : Halts \cup {"STARTED"}, due : BOOLEAN,
                msgs : Seq(Messages), jobs : SUBSET Nat]

(* The types of the state.                                                  *)
FilterTypes ==
    /\ filter \in [Filters -> FilterRecords]
    /\ nextFilters \in [Filters -> Seq(Filters)]
    /\ task \in [Filters -> TaskRecords]
    /\ stateMutex \in [Filters -> Callers \cup {None}]
    /\ prog = [t \in Threads |-> prog[t]] /\ \A t \in Threads : prog[t] \in ProgsOf(t)
    /\ result \in [Callers -> Status]
    /\ failures \in 0 .. MaxFails

PipelineTypes ==
    /\ filters \in Seq(Filters)
    /\ mutex \in Callers \cup {None}
    /\ command = [c \in Callers |-> command[c]]
    /\ nCalls \in Nat
    /\ last.ret \in Status
    /\ clean \in [Filters -> Nat]

Types == FilterTypes /\ PipelineTypes

(* The counters of the buffers of a filter.                                 *)
CountersOk(f) ==
    /\ clean[f] <= filter[f].jobIdxBase
    /\ filter[f].jobIdxBase <= filter[f].jobIdx
    /\ filter[f].jobIdx <= MaxBuffers
    /\ task[f].jobs \subseteq 1 .. filter[f].jobIdx
    /\ task[f].jobs # {} => task[f].exists
    /\ task[f].exists => f \in Async

(* A thread that is about to do the first step s.                           *)
BufferOk(t, s) ==
    s.op = "buffer" => command[t] = "buffer" /\ filter[s.f].jobIdx < MaxBuffers

SubmitOk(s) ==
    s.op = "submit" => s.idx \in 1 .. filter[s.f].jobIdx /\ task[s.f].exists

(* A job runs only while its task is started.                               *)
JobOk(s) ==
    /\ s.op \in {"check", "process"} => task[s.f].exists /\ task[s.f].state = "STARTED"
    /\ s.op = "process" => s.idx > clean[s.f]

LinkOk(s) == s.op = "link" => ~task[s.f].exists

FrontOk(t) ==
    prog[t] # <<>> =>
        LET s == Head(prog[t]) IN BufferOk(t, s) /\ SubmitOk(s) /\ JobOk(s) /\ LinkOk(s)

(* One buffer at a time is handed over; a caller that has steps to do is in
   a call.                                                                  *)
CallsOk ==
    /\ \A c, d \in Callers : command[c] = "buffer" /\ command[d] = "buffer" => c = d
    /\ \A c \in Callers : prog[c] # <<>> => command[c] # None

(* The trees.  A filter is linked once.                                     *)
TreesOk ==
    /\ Range(filters) \subseteq Heads
    /\ \A f \in Filters : Range(nextFilters[f]) \cap Heads = {}

IsNext(f) == \E g \in Filters : f \in Range(nextFilters[g])

Inserting(c, f) == \E i \in DOMAIN prog[c] : prog[c][i].op = "insert" /\ prog[c][i].f = f

Known(f) ==
    \/ IsNext(f)
    \/ f \in Heads /\ (f \in Range(filters) \/ \E c \in Callers : Inserting(c, f))

BuildOps == {"link", "initDone", "change", "insert"}

Linking(c, f) == prog[c] # <<>> /\ Head(prog[c]).op = "link" /\ Head(prog[c]).f = f

LinkedOnce == \A c, d \in Callers, f \in Filters : Linking(c, f) /\ Linking(d, f) => c = d

Building ==
    nCalls = 0 =>
        /\ \A c \in Callers : \A i \in DOMAIN prog[c] : prog[c][i].op \in BuildOps
        /\ \A f \in Filters : task[f].exists => Known(f)
        /\ \A c \in Callers, f \in Filters : Linking(c, f) => Known(f)

(* The inductive invariant.                                                 *)
PipelineInv ==
    /\ Types
    /\ \A f \in Filters : CountersOk(f)
    /\ \A t \in Threads : FrontOk(t)
    /\ CallsOk
    /\ TreesOk
    /\ LinkedOnce
    /\ Building
-----------------------------------------------------------------------------
(* Programs.                                                                *)

USE DEF None

\* A sequence of which every element is in T.
LEMMA SeqInto ==
    ASSUME NEW S, NEW T, NEW p \in Seq(S), \A i \in 1 .. Len(p) : p[i] \in T
    PROVE  p \in Seq(T)
  <1>1. p \in [1 .. Len(p) -> S] /\ Len(p) \in Nat
    BY LenProperties
  <1>2. p \in [1 .. Len(p) -> T]
    BY <1>1
  <1> QED
    BY <1>1, <1>2

\* A program without a first step of its own is a program.
LEMMA LaterIsProg ==
    ASSUME NEW t, NEW p \in Seq(LaterSteps(t))
    PROVE  p \in ProgsOf(t)
  <1>1. LaterSteps(t) \subseteq StepsOf(t)
    BY DEF LaterSteps
  <1> QED
    BY <1>1, SeqMonotonic DEF ProgsOf

\* The first step of a program and the others.
LEMMA ProgParts ==
    ASSUME NEW t, NEW p \in ProgsOf(t), p # <<>>
    PROVE  /\ Head(p) \in StepsOf(t) /\ Head(p) = p[1]
           /\ Tail(p) \in Seq(LaterSteps(t))
           /\ Len(p) \in Nat /\ Len(p) # 0 /\ DOMAIN p = 1 .. Len(p)
           /\ Len(Tail(p)) = Len(p) - 1
           /\ \A i \in 1 .. Len(p) - 1 : Tail(p)[i] = p[i + 1]
  <1>1. p \in Seq(StepsOf(t)) /\ Len(p) \in Nat /\ DOMAIN p = 1 .. Len(p) /\ Len(p) # 0
    BY DEF ProgsOf
  <1>2. /\ Tail(p) \in Seq(StepsOf(t)) /\ Len(Tail(p)) = Len(p) - 1
        /\ \A i \in 1 .. Len(Tail(p)) : Tail(p)[i] = p[i + 1]
    BY <1>1, HeadTailProperties
  <1>3. ASSUME NEW i \in 1 .. Len(Tail(p)) PROVE Tail(p)[i] \in LaterSteps(t)
    <2>1. i + 1 \in DOMAIN p /\ i + 1 # 1
      BY <1>1, <1>2
    <2>2. p[i + 1] \in LaterSteps(t)
      BY <2>1 DEF ProgsOf
    <2> QED
      BY <2>2, <1>2
  <1>4. Tail(p) \in Seq(LaterSteps(t))
    BY <1>2, <1>3, SeqInto
  <1>5. Head(p) \in StepsOf(t) /\ Head(p) = p[1]
    BY <1>1
  <1> QED
    BY <1>1, <1>2, <1>4, <1>5

\* The steps q in front of the rest of a program.
LEMMA Joined ==
    ASSUME NEW T, NEW q \in Seq(T), NEW r \in Seq(T)
    PROVE  /\ q \o r \in Seq(T) /\ Len(q \o r) = Len(q) + Len(r)
           /\ DOMAIN (q \o r) = 1 .. Len(q) + Len(r)
           /\ \A i \in 1 .. Len(q) : (q \o r)[i] = q[i]
           /\ \A i \in 1 .. Len(r) : (q \o r)[Len(q) + i] = r[i]
  <1>1. Len(q) \in Nat /\ Len(r) \in Nat
    OBVIOUS
  <1>2. /\ q \o r \in Seq(T) /\ Len(q \o r) = Len(q) + Len(r)
        /\ \A i \in 1 .. Len(q) + Len(r) :
              (q \o r)[i] = IF i <= Len(q) THEN q[i] ELSE r[i - Len(q)]
    BY ConcatProperties
  <1>3. DOMAIN (q \o r) = 1 .. Len(q \o r)
    BY <1>2
  <1>4. \A i \in 1 .. Len(q) : (q \o r)[i] = q[i]
    BY <1>1, <1>2
  <1>5. ASSUME NEW i \in 1 .. Len(r) PROVE (q \o r)[Len(q) + i] = r[i]
    <2>1. Len(q) + i \in 1 .. Len(q) + Len(r) /\ ~(Len(q) + i <= Len(q))
      BY <1>1
    <2>2. Len(q) + i - Len(q) = i
      BY <1>1
    <2> QED
      BY <1>2, <2>1, <2>2
  <1> QED
    BY <1>2, <1>3, <1>4, <1>5

(* Every step of a program but the first is in c; no step of c is of neither
   q nor p.                                                                 *)
RestIn(p, c) == \A i \in DOMAIN p : i # 1 => \E j \in DOMAIN c : c[j] = p[i]

OnlyFrom(c, q, p) ==
    \A j \in DOMAIN c : (\E i \in DOMAIN q : c[j] = q[i]) \/ (\E i \in DOMAIN p : c[j] = p[i])

\* The later steps of a program are kept when others are put in place of its first.
LEMMA RestKept ==
    ASSUME NEW t, NEW p \in ProgsOf(t), p # <<>>, NEW q \in Seq(LaterSteps(t)),
           NEW c, c = q \o Tail(p)
    PROVE  /\ c \in Seq(LaterSteps(t)) /\ c \in ProgsOf(t)
           /\ RestIn(p, c) /\ OnlyFrom(c, q, p)
  <1> PICK r : r = Tail(p)
    OBVIOUS
  <1>1. /\ r \in Seq(LaterSteps(t)) /\ Len(p) \in Nat /\ DOMAIN p = 1 .. Len(p)
        /\ Len(r) = Len(p) - 1 /\ \A i \in 1 .. Len(p) - 1 : r[i] = p[i + 1]
    BY ProgParts
  <1>2. /\ c \in Seq(LaterSteps(t)) /\ DOMAIN c = 1 .. Len(q) + Len(r)
        /\ \A i \in 1 .. Len(q) : c[i] = q[i]
        /\ \A i \in 1 .. Len(r) : c[Len(q) + i] = r[i]
    <2>1. c = q \o r
      OBVIOUS
    <2> QED
      BY <1>1, <2>1, Joined
  <1>3. Len(q) \in Nat /\ DOMAIN q = 1 .. Len(q)
    OBVIOUS
  <1>4. ASSUME NEW i \in DOMAIN p, i # 1 PROVE \E j \in DOMAIN c : c[j] = p[i]
    <2>1. i - 1 \in 1 .. Len(r) /\ Len(q) + (i - 1) \in DOMAIN c
      BY <1>1, <1>2, <1>3, <1>4
    <2>2. c[Len(q) + (i - 1)] = r[i - 1] /\ r[i - 1] = p[(i - 1) + 1]
      BY <1>1, <1>2, <2>1
    <2>3. (i - 1) + 1 = i
      BY <1>1
    <2> QED
      BY <2>1, <2>2, <2>3
  <1>5. ASSUME NEW j \in DOMAIN c
        PROVE  \/ \E i \in DOMAIN q : c[j] = q[i]
               \/ \E i \in DOMAIN p : c[j] = p[i]
    <2>1. CASE j <= Len(q)
      BY <2>1, <1>2, <1>3
    <2>2. CASE ~(j <= Len(q))
      <3>1. j - Len(q) \in 1 .. Len(r) /\ Len(q) + (j - Len(q)) = j
        BY <2>2, <1>1, <1>2, <1>3
      <3>2. c[j] = r[j - Len(q)]
        BY <3>1, <1>2
      <3>3. r[j - Len(q)] = p[(j - Len(q)) + 1] /\ (j - Len(q)) + 1 \in DOMAIN p
        BY <3>1, <1>1, <1>3
      <3> QED
        BY <3>2, <3>3
    <2> QED
      BY <2>1, <2>2
  <1>6. c \in ProgsOf(t)
    BY <1>2, LaterIsProg
  <1> QED
    BY <1>2, <1>4, <1>5, <1>6 DEF RestIn, OnlyFrom

\* A front step before the rest of a program.
LEMMA FrontThenRest ==
    ASSUME NEW t, NEW p \in ProgsOf(t), p # <<>>, NEW s \in StepsOf(t)
    PROVE  /\ <<s>> \o Tail(p) \in ProgsOf(t) /\ <<s>> \o Tail(p) # <<>>
           /\ Head(<<s>> \o Tail(p)) = s
           /\ \A i \in DOMAIN (<<s>> \o Tail(p)) : i # 1 => (<<s>> \o Tail(p))[i] \in LaterSteps(t)
  <1> DEFINE r == Tail(p)
             c == <<s>> \o r
  <1>1. r \in Seq(LaterSteps(t))
    BY ProgParts
  <1>2. r \in Seq(StepsOf(t)) /\ <<s>> \in Seq(StepsOf(t)) /\ Len(<<s>>) = 1
    BY <1>1, SeqMonotonic DEF LaterSteps
  <1> HIDE DEF r
  <1>3. /\ c \in Seq(StepsOf(t)) /\ DOMAIN c = 1 .. Len(<<s>>) + Len(r) /\ Len(r) \in Nat
        /\ \A i \in 1 .. Len(<<s>>) : c[i] = <<s>>[i]
        /\ \A i \in 1 .. Len(r) : c[Len(<<s>>) + i] = r[i]
        /\ Len(c) = Len(<<s>>) + Len(r)
    BY <1>2, Joined
  <1> HIDE DEF c
  <1>4. c # <<>> /\ Head(c) = s
    BY <1>2, <1>3
  <1>5. ASSUME NEW i \in DOMAIN c, i # 1 PROVE c[i] \in LaterSteps(t)
    <2>1. i - 1 \in 1 .. Len(r) /\ 1 + (i - 1) = i
      BY <1>2, <1>3, <1>5
    <2>2. c[i] = r[i - 1]
      BY <2>1, <1>2, <1>3
    <2> QED
      BY <2>1, <2>2, <1>1, ElementOfSeq
  <1> QED
    BY <1>3, <1>4, <1>5 DEF ProgsOf, c, r

(* Steps that a call or a message puts in place of another.                 *)
DownOps == {"prepare", "start", "resume", "release", "pause", "stop", "freeze", "unfreeze",
            "flush"}

\* A step made by Do, and one whose state is given.
LEMMA DoSteps ==
    ASSUME NEW t, NEW f \in Filters, NEW op \in OpNames,
           op \notin FrontOps, op \notin JobOps,
           op \notin {"change", "haltTask", "insert"},
           op \notin TaskOps => t \in Callers
    PROVE  /\ Do(op, f) \in LaterSteps(t)
           /\ Do(op, f).op = op /\ Do(op, f).f = f
           /\ <<Do(op, f)>> \in Seq(LaterSteps(t))
  <1>1. Do(op, f) \in StepRecords /\ Do(op, f).op = op /\ Do(op, f).f = f
    BY DEF Do, StepRecords, Status, FilterState, OpNames, TaskOps
  <1> QED
    BY <1>1 DEF StepsOf, LaterSteps

\* One step for each filter of a sequence.
LEMMA EachSteps ==
    ASSUME NEW t, NEW fs \in Seq(Filters), NEW op \in DownOps,
           op = "prepare" \/ t \in Callers
    PROVE  Each(op, fs) \in Seq(LaterSteps(t))
  <1>1. DOMAIN fs = 1 .. Len(fs) /\ Len(fs) \in Nat /\ \A i \in 1 .. Len(fs) : fs[i] \in Filters
    BY LenProperties, ElementOfSeq
  <1>0. /\ op \in OpNames /\ op \notin FrontOps /\ op \notin JobOps
        /\ op \notin {"change", "haltTask", "insert"} /\ (op \notin TaskOps => t \in Callers)
    BY DEF DownOps, FrontOps, JobOps, TaskOps, Messages, OpNames
  <1>2. ASSUME NEW i \in 1 .. Len(fs) PROVE Do(op, fs[i]) \in LaterSteps(t)
    BY <1>0, <1>1, DoSteps
  <1> DEFINE e == [i \in 1 .. Len(fs) |-> Do(op, fs[i])]
  <1>3. e \in [1 .. Len(fs) -> LaterSteps(t)]
    BY <1>2
  <1>4. Each(op, fs) = e
    BY <1>1 DEF Each
  <1> HIDE DEF e
  <1> QED
    BY <1>1, <1>3, <1>4

\* A wait for each filter of a sequence.
LEMMA WaitSteps ==
    ASSUME NEW t \in Callers, NEW fs \in Seq(Filters), NEW s \in FilterState \cup {None}
    PROVE  WaitFor(fs, s) \in Seq(LaterSteps(t))
  <1>1. DOMAIN fs = 1 .. Len(fs) /\ Len(fs) \in Nat /\ \A i \in 1 .. Len(fs) : fs[i] \in Filters
    BY LenProperties, ElementOfSeq
  <1>2. ASSUME NEW i \in 1 .. Len(fs) PROVE [Do("wait", fs[i]) EXCEPT !.to = s] \in LaterSteps(t)
    <2>1. Do("wait", fs[i]) \in StepRecords /\ Do("wait", fs[i]).op = "wait" /\ Do("wait", fs[i]).f = fs[i]
      BY <1>1 DEF Do, StepRecords, Status, OpNames
    <2> QED
      BY <2>1, <1>1 DEF StepRecords, StepsOf, LaterSteps, FrontOps, JobOps, TaskOps, Messages
  <1> DEFINE e == [i \in 1 .. Len(fs) |-> [Do("wait", fs[i]) EXCEPT !.to = s]]
  <1>3. e \in [1 .. Len(fs) -> LaterSteps(t)]
    BY <1>2
  <1>4. WaitFor(fs, s) = e
    BY <1>1 DEF WaitFor
  <1> HIDE DEF e
  <1> QED
    BY <1>1, <1>3, <1>4

\* The change of a filter's state.
LEMMA ChangeSteps ==
    ASSUME NEW t, NEW f \in Filters, NEW s \in FilterState
    PROVE  /\ ChangeTo(f, s) \in Seq(LaterSteps(t))
           /\ \A i \in DOMAIN ChangeTo(f, s) : ChangeTo(f, s)[i].op = "change"
  <1> DEFINE e == [Do("change", f) EXCEPT !.to = s]
  <1>1. Do("change", f) \in StepRecords /\ Do("change", f).op = "change" /\ Do("change", f).f = f
    BY DEF Do, StepRecords, Status, FilterState, OpNames, TaskOps
  <1>2. e \in LaterSteps(t) /\ e.op = "change"
    BY <1>1 DEF StepRecords, StepsOf, LaterSteps, FrontOps, JobOps, TaskOps, Messages
  <1>3. ChangeTo(f, s) = <<e>>
    BY DEF ChangeTo
  <1> HIDE DEF e
  <1> QED
    BY <1>2, <1>3

\* The halt of a filter's task, with the state it gets.
LEMMA HaltStep ==
    ASSUME NEW t \in Callers, NEW f \in Filters, NEW s \in Halts
    PROVE  <<[Do("haltTask", f) EXCEPT !.to = s]>> \in Seq(LaterSteps(t))
  <1> DEFINE e == [Do("haltTask", f) EXCEPT !.to = s]
  <1>1. Do("haltTask", f) \in StepRecords /\ Do("haltTask", f).op = "haltTask" /\ Do("haltTask", f).f = f
    BY DEF Do, StepRecords, Status, FilterState, OpNames, TaskOps
  <1>2. e \in LaterSteps(t)
    BY <1>1 DEF Halts, FilterState, StepRecords, StepsOf, LaterSteps, FrontOps, JobOps, TaskOps, Messages
  <1>3. <<e>> \in Seq(LaterSteps(t))
    <2> HIDE DEF e
    <2> QED
      BY <1>2
  <1> QED
    BY <1>3

\* What Pause, Stop and Freeze do after their own part.
LEMMA HaltSteps ==
    ASSUME FilterTypes, NEW t \in Callers, NEW f \in Filters, NEW op \in {"pause", "stop", "freeze"}
    PROVE  HaltThenNext(op, f) \in Seq(LaterSteps(t))
  <1> DEFINE s == IF op = "stop" THEN "STOPPED" ELSE "PAUSED"
             a == <<[Do("haltTask", f) EXCEPT !.to = s]>>
             b == Each(op, nextFilters[f])
  <1>1. s \in Halts
    BY DEF Halts
  <1>2. a \in Seq(LaterSteps(t))
    <2> HIDE DEF s
    <2> QED
      BY <1>1, HaltStep
  <1>3. b \in Seq(LaterSteps(t))
    BY EachSteps DEF FilterTypes, DownOps
  <1>4. HaltThenNext(op, f) = a \o b
    BY DEF HaltThenNext
  <1> HIDE DEF a, b
  <1> QED
    BY <1>2, <1>3, <1>4, Joined
-----------------------------------------------------------------------------
(* What a step of thread t does, if p is then its program.                  *)

RunsJob(f) == prog[f] # <<>> /\ Head(prog[f]).op \in {"check", "process"}

(* A task is created only for a filter of a tree, and halted or flushed only
   while its thread is in no job.                                           *)
FilterEffect(t, f) ==
    /\ filter[f].jobIdx <= filter'[f].jobIdx
    /\ filter'[f].jobIdx # filter[f].jobIdx => t \in Callers /\ command[t] = "buffer"
    /\ CountersOk(f)'
    /\ clean'[f] = clean[f] \/ task'[f].state # "STARTED"
    /\ task'[f].state = task[f].state \/ task'[f].state = "STARTED" \/ ~RunsJob(f)
    /\ task[f].exists => task'[f].exists
    /\ task'[f].exists /\ ~task[f].exists =>
          /\ nCalls = 0 => Known(f)
          /\ \A u \in Callers : Linking(u, f) => u = t

(* While the trees are built a program goes on as it was.                   *)
GoesOn(old, p) ==
    /\ \A i \in DOMAIN p : p[i].op \in BuildOps
    /\ \A i \in DOMAIN old : old[i].op = "insert" => \E j \in DOMAIN p : p[j] = old[i]

ProgEffect(t, p) ==
    /\ prog' = [prog EXCEPT ![t] = p] /\ p \in ProgsOf(t)
    /\ prog[t] = <<>> => t \notin Callers
    /\ p # <<>> => Head(p).op # "link"
    /\ t \in Callers /\ nCalls = 0 => GoesOn(prog[t], p)

DataEffect(t) ==
    /\ filter' \in [Filters -> FilterRecords]
    /\ task' \in [Filters -> TaskRecords]
    /\ \A f \in Filters : FilterEffect(t, f)
    /\ clean' \in [Filters -> Nat]
    /\ stateMutex' \in [Filters -> Callers \cup {None}]
    /\ result' \in [Callers -> Status]
    /\ failures' \in 0 .. MaxFails
    /\ nextFilters' \in [Filters -> Seq(Filters)]
    /\ \/ nextFilters' = nextFilters
       \/ nCalls # 0 /\ \A f \in Filters : Range(nextFilters'[f]) \cap Heads = {}
    /\ UNCHANGED <<filters, mutex, command, nCalls, last>>

\* The programs of all threads after a step of one.
LEMMA ProgsAfter ==
    ASSUME FilterTypes, NEW t \in Threads, NEW p \in ProgsOf(t), prog' = [prog EXCEPT ![t] = p]
    PROVE  /\ prog' = [u \in Threads |-> prog'[u]]
           /\ prog'[t] = p
           /\ \A u \in Threads : u # t => prog'[u] = prog[u]
           /\ \A u \in Threads : prog'[u] \in ProgsOf(u)
  <1>1. DOMAIN prog = Threads
    BY DEF FilterTypes
  <1>2. prog' = [u \in Threads |-> IF u = t THEN p ELSE prog[u]]
    BY <1>1
  <1> QED
    BY <1>2 DEF FilterTypes

\* The head of a program is a step of its thread.
LEMMA HeadStep ==
    ASSUME FilterTypes, NEW t \in Threads, prog[t] # <<>>
    PROVE  /\ Head(prog[t]) \in StepsOf(t) /\ Head(prog[t]) = prog[t][1]
           /\ 1 \in DOMAIN prog[t]
  BY ProgParts DEF FilterTypes

\* The threads that do not take the step are still right about what they do.
LEMMA OthersKept ==
    ASSUME PipelineInv, NEW t \in Threads, DataEffect(t),
           NEW u \in Threads, u # t, prog'[u] = prog[u]
    PROVE  FrontOk(u)'
  <1> SUFFICES ASSUME prog[u] # <<>> PROVE FrontOk(u)'
    BY DEF FrontOk
  <1> PICK s : s = Head(prog[u])
    OBVIOUS
  <1>0. Types /\ FrontOk(u) /\ CallsOk
    BY DEF PipelineInv
  <1>1. s \in StepsOf(u) /\ BufferOk(u, s) /\ SubmitOk(s) /\ JobOk(s) /\ LinkOk(s)
    BY <1>0, HeadStep DEF FrontOk, Types
  <1>2. s = Head(prog[u]) /\ s = Head(prog'[u])
    OBVIOUS
  <1>3. \A f \in Filters : FilterEffect(t, f) /\ filter[f] \in FilterRecords /\ filter'[f] \in FilterRecords
    BY <1>0 DEF DataEffect, Types, FilterTypes
  <1>4. BufferOk(u, s)'
    <2> SUFFICES ASSUME s.op = "buffer" PROVE command'[u] = "buffer" /\ filter'[s.f].jobIdx < MaxBuffers
      BY DEF BufferOk
    <2>1. u \in Callers /\ s.f \in Filters /\ command[u] = "buffer" /\ filter[s.f].jobIdx < MaxBuffers
      BY <1>1 DEF BufferOk, StepsOf, TaskOps, Messages, JobOps
    <2>2. filter'[s.f].jobIdx = filter[s.f].jobIdx
      BY <2>1, <1>0, <1>3 DEF FilterEffect, CallsOk
    <2> QED
      BY <2>1, <2>2 DEF DataEffect
  <1>5. SubmitOk(s)'
    <2> SUFFICES ASSUME s.op = "submit"
                 PROVE  s.idx \in 1 .. filter'[s.f].jobIdx /\ task'[s.f].exists
      BY DEF SubmitOk
    <2>1. s.f \in Filters /\ s.idx \in 1 .. filter[s.f].jobIdx /\ task[s.f].exists
      BY <1>1 DEF SubmitOk, StepsOf
    <2>2. filter[s.f].jobIdx <= filter'[s.f].jobIdx /\ task'[s.f].exists
      BY <2>1, <1>3 DEF FilterEffect
    <2>3. filter[s.f].jobIdx \in Nat /\ filter'[s.f].jobIdx \in Nat
      BY <2>1, <1>3 DEF FilterRecords
    <2> QED
      BY <2>1, <2>2, <2>3
  <1>6. JobOk(s)'
    <2> SUFFICES ASSUME s.op \in {"check", "process"}
                 PROVE  /\ task'[s.f].exists /\ task'[s.f].state = "STARTED"
                        /\ s.op = "process" => s.idx > clean'[s.f]
      BY DEF JobOk
    <2>1. s.f = u /\ s.f \in Filters
      BY <1>1 DEF StepsOf, JobOps
    <2>2. RunsJob(u)
      BY <1>2 DEF RunsJob
    <2>3. task[s.f].exists /\ task[s.f].state = "STARTED" /\ (s.op = "process" => s.idx > clean[s.f])
      BY <1>1 DEF JobOk
    <2> QED
      BY <2>1, <2>2, <2>3, <1>3 DEF FilterEffect
  <1>7. LinkOk(s)'
    <2> SUFFICES ASSUME s.op = "link" PROVE ~task'[s.f].exists
      BY DEF LinkOk
    <2>1. u \in Callers /\ s.f \in Filters /\ ~task[s.f].exists
      BY <1>1 DEF LinkOk, StepsOf, TaskOps, Messages, JobOps
    <2>2. Linking(u, s.f)
      BY <1>2 DEF Linking
    <2> QED
      BY <2>1, <2>2, <1>3 DEF FilterEffect
  <1> QED
    BY <1>2, <1>4, <1>5, <1>6, <1>7 DEF FrontOk

\* A step with such an effect keeps the invariant.
LEMMA StepKeeps ==
    ASSUME PipelineInv, NEW t \in Threads, NEW p, ProgEffect(t, p), DataEffect(t), FrontOk(t)'
    PROVE  PipelineInv'
  <1>0. /\ Types /\ CallsOk /\ TreesOk /\ LinkedOnce /\ Building
        /\ FilterTypes /\ PipelineTypes
    BY DEF PipelineInv, Types
  <1>1. /\ prog' = [u \in Threads |-> prog'[u]]
        /\ prog'[t] = p
        /\ \A u \in Threads : u # t => prog'[u] = prog[u]
        /\ \A u \in Threads : prog'[u] \in ProgsOf(u)
    BY <1>0, ProgsAfter DEF ProgEffect
  <1>2. Types'
    BY <1>0, <1>1 DEF Types, FilterTypes, PipelineTypes, DataEffect
  <1>3. \A f \in Filters : CountersOk(f)'
    BY DEF DataEffect, FilterEffect
  <1>4. \A u \in Threads : FrontOk(u)'
    BY <1>1, OthersKept
  <1>5. CallsOk'
    BY <1>0, <1>1 DEF CallsOk, DataEffect, ProgEffect, Threads
  <1>6. TreesOk'
    BY <1>0 DEF TreesOk, DataEffect
  <1>7. \A c \in Callers, f \in Filters : Linking(c, f)' => Linking(c, f) /\ c # t
    BY <1>1 DEF Linking, Threads, ProgEffect
  <1>8. LinkedOnce'
    BY <1>0, <1>7 DEF LinkedOnce
  <1>9. Building'
    <2> SUFFICES ASSUME nCalls = 0
                 PROVE  /\ \A c \in Callers : \A i \in DOMAIN prog'[c] : prog'[c][i].op \in BuildOps
                        /\ \A f \in Filters : task'[f].exists => Known(f)'
                        /\ \A c \in Callers, f \in Filters : Linking(c, f)' => Known(f)'
      BY DEF Building, DataEffect
    <2>1. \A c \in Callers : \A i \in DOMAIN prog'[c] : prog'[c][i].op \in BuildOps
      BY <1>0, <1>1 DEF Building, ProgEffect, GoesOn, Threads
    <2>2. ASSUME NEW f \in Filters, Known(f) PROVE Known(f)'
      <3>1. nextFilters' = nextFilters /\ filters' = filters
        BY DEF DataEffect
      <3>2. ASSUME NEW c \in Callers, Inserting(c, f) PROVE Inserting(c, f)'
        <4>1. CASE c # t
          BY <4>1, <3>2, <1>1 DEF Inserting, Threads
        <4>2. CASE c = t
          <5>1. PICK i \in DOMAIN prog[t] : prog[t][i].op = "insert" /\ prog[t][i].f = f
            BY <3>2, <4>2 DEF Inserting
          <5>2. PICK j \in DOMAIN p : p[j] = prog[t][i]
            BY <5>1, <3>2, <4>2 DEF ProgEffect, GoesOn
          <5> QED
            BY <5>1, <5>2, <4>2, <1>1 DEF Inserting
        <4> QED
          BY <4>1, <4>2
      <3>3. CASE IsNext(f)
        BY <3>1, <3>3 DEF Known, IsNext
      <3>4. CASE ~IsNext(f)
        BY <2>2, <3>1, <3>2, <3>4 DEF Known
      <3> QED
        BY <3>3, <3>4
    <2>3. \A f \in Filters : task'[f].exists => Known(f)
      BY <1>0 DEF Building, DataEffect, FilterEffect
    <2>4. \A c \in Callers, f \in Filters : Linking(c, f)' => Known(f)
      BY <1>0, <1>7 DEF Building
    <2> QED
      BY <2>1, <2>2, <2>3, <2>4
  <1> QED
    BY <1>2, <1>3, <1>4, <1>5, <1>6, <1>8, <1>9 DEF PipelineInv
-----------------------------------------------------------------------------
(* Steps that neither hand over, check nor flush a buffer, create a task nor
   start or halt one.                                                       *)
CalmData ==
    /\ filter' \in [Filters -> FilterRecords]
    /\ \A f \in Filters : /\ filter'[f].jobIdx = filter[f].jobIdx
                          /\ filter'[f].jobIdxBase = filter[f].jobIdxBase
    /\ task' \in [Filters -> TaskRecords]
    /\ \A f \in Filters : /\ task'[f].exists = task[f].exists
                          /\ task'[f].state = task[f].state /\ task'[f].jobs = task[f].jobs
    /\ stateMutex' \in [Filters -> Callers \cup {None}]
    /\ result' \in [Callers -> Status]
    /\ failures' \in 0 .. MaxFails
    /\ UNCHANGED <<nextFilters, clean, filters, mutex, command, nCalls, last>>

\* Such a step has an effect the invariant survives.
LEMMA CalmEffect ==
    ASSUME PipelineInv, NEW t, CalmData
    PROVE  DataEffect(t)
  <1>1. clean' \in [Filters -> Nat] /\ nextFilters' \in [Filters -> Seq(Filters)]
    BY DEF PipelineInv, Types, FilterTypes, PipelineTypes, CalmData
  <1>2. \A f \in Filters : CountersOk(f) /\ filter[f].jobIdx \in Nat
    BY DEF PipelineInv, Types, FilterTypes, FilterRecords
  <1>3. \A f \in Filters : FilterEffect(t, f)
    BY <1>2 DEF FilterEffect, CountersOk, CalmData
  <1>4. /\ filters' = filters /\ mutex' = mutex /\ command' = command /\ nCalls' = nCalls
        /\ last' = last /\ nextFilters' = nextFilters
    BY DEF CalmData
  <1>5. /\ filter' \in [Filters -> FilterRecords] /\ task' \in [Filters -> TaskRecords]
        /\ stateMutex' \in [Filters -> Callers \cup {None}]
        /\ result' \in [Callers -> Status] /\ failures' \in 0 .. MaxFails
    BY DEF CalmData
  <1> QED
    BY <1>1, <1>3, <1>4, <1>5, Zenon DEF DataEffect

\* A thread that is at no step of FrontOps is right about it.
LEMMA LaterFront ==
    ASSUME NEW t, NEW p \in Seq(LaterSteps(t)), prog'[t] = p
    PROVE  FrontOk(t)'
  <1> SUFFICES ASSUME p # <<>> PROVE FrontOk(t)'
    BY DEF FrontOk
  <1> PICK s : s = Head(p)
    OBVIOUS
  <1>1. s \in LaterSteps(t)
    OBVIOUS
  <1>2. s.op \notin FrontOps
    BY <1>1 DEF LaterSteps
  <1>3. Head(prog'[t]) = s
    OBVIOUS
  <1> QED
    BY <1>2, <1>3 DEF FrontOk, BufferOk, SubmitOk, JobOk, LinkOk, FrontOps

\* A thread that replaces its program by steps of no such kind.
LEMMA CalmStep ==
    ASSUME PipelineInv, NEW t \in Threads, prog[t] # <<>>,
           NEW p \in Seq(LaterSteps(t)), prog' = [prog EXCEPT ![t] = p],
           t \in Callers /\ nCalls = 0 => GoesOn(prog[t], p),
           DataEffect(t)
    PROVE  PipelineInv'
  <1>1. p \in ProgsOf(t)
    BY LaterIsProg
  <1>2. p # <<>> => Head(p).op # "link"
    <2>1. p # <<>> => Head(p) \in LaterSteps(t)
      OBVIOUS
    <2> QED
      BY <2>1 DEF LaterSteps, FrontOps
  <1>3. ProgEffect(t, p)
    BY <1>1, <1>2 DEF ProgEffect
  <1>4. prog'[t] = p
    BY <1>1, ProgsAfter DEF PipelineInv, Types
  <1> QED
    BY <1>3, <1>4, LaterFront, StepKeeps

\* While the trees are built the callers are only at steps of BuildOps.
LEMMA Built0 ==
    ASSUME PipelineInv, NEW t \in Callers, nCalls = 0, prog[t] # <<>>
    PROVE  Head(prog[t]).op \in BuildOps
  <1>1. Head(prog[t]) = prog[t][1] /\ 1 \in DOMAIN prog[t]
    BY HeadStep DEF PipelineInv, Types, Threads
  <1> QED
    BY <1>1 DEF PipelineInv, Building

\* A step is replaced by the steps q.
LEMMA GoesStep ==
    ASSUME PipelineInv, NEW t \in Threads, prog[t] # <<>>, Head(prog[t]).op # "insert",
           NEW q \in Seq(LaterSteps(t)), Goes(t, q),
           Head(prog[t]).op \in BuildOps => \A i \in DOMAIN q : q[i].op \in BuildOps,
           DataEffect(t)
    PROVE  PipelineInv'
  <1> PICK p : p = q \o Tail(prog[t])
    OBVIOUS
  <1> PICK old : old = prog[t]
    OBVIOUS
  <1>0. old \in ProgsOf(t) /\ old # <<>> /\ p = q \o Tail(old)
    BY DEF PipelineInv, Types, FilterTypes
  <1>1. p \in Seq(LaterSteps(t)) /\ RestIn(old, p) /\ OnlyFrom(p, q, old)
    BY ONLY <1>0, q \in Seq(LaterSteps(t)), RestKept
  <1>2. prog' = [prog EXCEPT ![t] = p]
    BY DEF Goes
  <1>3. ASSUME t \in Callers, nCalls = 0 PROVE GoesOn(old, p)
    <2>1. Head(prog[t]).op \in BuildOps
      BY <1>3, Built0
    <2>2. \A i \in DOMAIN old : old[i].op \in BuildOps
      BY <1>3 DEF PipelineInv, Building
    <2>3. old[1].op # "insert"
      BY HeadStep DEF PipelineInv, Types
    <2>4. \A i \in DOMAIN q : q[i].op \in BuildOps
      BY <2>1
    <2> HIDE <1>0
    <2> QED
      BY <1>1, <2>2, <2>3, <2>4 DEF GoesOn, RestIn, OnlyFrom
  <1>4. t \in Callers /\ nCalls = 0 => GoesOn(prog[t], p)
    BY <1>3
  <1>5. p \in Seq(LaterSteps(t))
    BY <1>1
  <1> QED
    BY <1>2, <1>4, <1>5, CalmStep

\* A call is given up, and nothing but the steps q follow.
LEMMA CutStep ==
    ASSUME PipelineInv, NEW t \in Threads, prog[t] # <<>>, Head(prog[t]).op \notin BuildOps,
           NEW q \in Seq(LaterSteps(t)), prog' = [prog EXCEPT ![t] = q], DataEffect(t)
    PROVE  PipelineInv'
  BY Built0, CalmStep
-----------------------------------------------------------------------------
(* The steps of the threads, one lemma each.                                *)

PipelineFrame == UNCHANGED <<clean, filters, mutex, command, nCalls, last>>

\* What a thread at a step op knows of it.
LEMMA AtStep ==
    ASSUME PipelineInv, NEW t \in Threads, NEW op, At(t, op)
    PROVE  /\ FilterTypes /\ PipelineTypes /\ prog[t] # <<>>
           /\ Head(prog[t]) \in StepsOf(t) /\ Head(prog[t]).op = op
           /\ op # "clearHeads" => Head(prog[t]).f \in Filters
           /\ op \notin TaskOps => t \in Callers
  <1>1. Head(prog[t]) \in StepsOf(t)
    BY HeadStep DEF PipelineInv, Types, At
  <1> QED
    BY <1>1 DEF PipelineInv, Types, At, StepsOf

\* A message is filed in the task of f.
LEMMA MessageFiled ==
    ASSUME FilterTypes, NEW f \in Filters, NEW m \in Messages, SubmitJobOnce(f, m)
    PROVE  /\ task' \in [Filters -> TaskRecords]
           /\ \A g \in Filters : /\ task'[g].exists = task[g].exists
                                 /\ task'[g].state = task[g].state
                                 /\ task'[g].jobs = task[g].jobs
  <1>1. task[f] \in TaskRecords
    BY DEF FilterTypes
  <1> PICK k : k = WithMsg(task[f], m)
    OBVIOUS
  <1>2. k \in TaskRecords /\ k.exists = task[f].exists /\ k.state = task[f].state /\ k.jobs = task[f].jobs
    <2> PICK ms : ms = Append(task[f].msgs, m)
      OBVIOUS
    <2>0. ms \in Seq(Messages)
      BY <1>1 DEF TaskRecords
    <2> PICK a : a = [task[f] EXCEPT !.msgs = ms]
      OBVIOUS
    <2>1. a \in TaskRecords /\ a.exists = task[f].exists /\ a.state = task[f].state /\ a.jobs = task[f].jobs
      BY <1>1, <2>0 DEF TaskRecords
    <2> PICK b : b = (a.msgs # <<>> \/ (a.state = "STARTED" /\ a.jobs # {}))
      OBVIOUS
    <2>2. b \in BOOLEAN
      OBVIOUS
    <2>3. k = [a EXCEPT !.due = b]
      BY DEF WithMsg, Updated
    <2> QED
      BY <2>1, <2>2, <2>3 DEF TaskRecords
  <1>3. task' = [task EXCEPT ![f] = k]
    BY DEF SubmitJobOnce
  <1> QED
    BY <1>2, <1>3 DEF FilterTypes

\* Calm data: only messages are filed.
LEMMA CalmTask ==
    ASSUME PipelineInv,
           NEW t, task' \in [Filters -> TaskRecords],
           \A g \in Filters : /\ task'[g].exists = task[g].exists
                              /\ task'[g].state = task[g].state
                              /\ task'[g].jobs = task[g].jobs,
           UNCHANGED <<filter, nextFilters, stateMutex, result, failures>>, PipelineFrame
    PROVE  DataEffect(t)
  <1>1. CalmData
    BY DEF CalmData, PipelineFrame, PipelineInv, Types, FilterTypes
  <1> QED
    BY <1>1, CalmEffect

\* So has a step that changes programs only.
LEMMA CalmSame ==
    ASSUME PipelineInv, NEW t,
           UNCHANGED <<filter, nextFilters, task, stateMutex, result, failures>>, PipelineFrame
    PROVE  DataEffect(t)
  BY CalmTask DEF PipelineInv, Types, FilterTypes

\* No steps are steps of every kind.
LEMMA EmptySteps ==
    ASSUME NEW t
    PROVE  <<>> \in Seq(LaterSteps(t)) /\ \A i \in DOMAIN <<>> : <<>>[i].op \in BuildOps
  OBVIOUS

\* Prepare, ReleaseOnMuted and ReInitAndStart: a message, or the work itself.
LEMMA OneFilterKeeps ==
    ASSUME PipelineInv, NEW t \in Threads, PipelineFrame,
           NEW op \in {"prepare", "muted", "reInit"}, NEW done \in Messages, At(t, op),
           LET f == Head(prog[t]).f
           IN  /\ \/ task[f].exists /\ SubmitJobOnce(f, done) /\ Goes(t, <<>>)
                  \/ ~task[f].exists /\ Goes(t, <<Do(done, f)>>) /\ UNCHANGED task
               /\ UNCHANGED <<filter, nextFilters, stateMutex, result, failures>>
    PROVE  PipelineInv'
  <1> PICK f : f = Head(prog[t]).f
    OBVIOUS
  <1>1. f \in Filters /\ FilterTypes /\ prog[t] # <<>> /\ Head(prog[t]).op = op
    BY AtStep
  <1>2. op \notin BuildOps /\ op # "insert"
    BY DEF BuildOps
  <1>3. CASE task[f].exists /\ SubmitJobOnce(f, done) /\ Goes(t, <<>>)
    <2>1. DataEffect(t)
      BY <1>1, <1>3, MessageFiled, CalmTask
    <2> QED
      BY <1>1, <1>2, <1>3, <2>1, EmptySteps, GoesStep
  <1>4. CASE ~task[f].exists /\ Goes(t, <<Do(done, f)>>) /\ UNCHANGED task
    <2>1. DataEffect(t)
      BY <1>4, CalmSame
    <2>2. <<Do(done, f)>> \in Seq(LaterSteps(t))
      <3>1. /\ done \in OpNames /\ done \notin FrontOps /\ done \notin JobOps
            /\ done \notin {"change", "haltTask", "insert"} /\ done \in TaskOps
        BY DEF Messages, OpNames, FrontOps, JobOps, TaskOps
      <3> QED
        BY <1>1, <3>1, DoSteps
    <2> QED
      BY <1>1, <1>2, <1>4, <2>1, <2>2, GoesStep
  <1> QED
    BY <1>3, <1>4

\* Prepare.
LEMMA PrepareKeeps ==
    ASSUME PipelineInv, NEW t \in Threads, PipelineFrame, Prepare(t)
    PROVE  PipelineInv'
  BY OneFilterKeeps DEF Prepare, Messages

\* ReleaseOnMuted and ReInitAndStart.
LEMMA OnMutedKeeps ==
    ASSUME PipelineInv, NEW t \in Threads, PipelineFrame, ReleaseOnMuted(t) \/ ReInitAndStart(t)
    PROVE  PipelineInv'
  BY OneFilterKeeps DEF ReleaseOnMuted, ReInitAndStart, OnMuted, Messages

\* Start, Resume and Release go down the tree.
LEMMA StartLikeKeeps ==
    ASSUME PipelineInv, NEW t \in Threads, PipelineFrame,
           NEW op \in {"start", "resume", "release"}, StartLike(t, op)
    PROVE  PipelineInv'
  <1> PICK f : f = Head(prog[t]).f
    OBVIOUS
  <1>0. At(t, op) /\ op \notin TaskOps
    BY DEF StartLike, TaskOps, Messages, JobOps
  <1>1. f \in Filters /\ FilterTypes /\ prog[t] # <<>> /\ Head(prog[t]).op = op /\ t \in Callers
    BY <1>0, AtStep
  <1>2. op \notin BuildOps /\ op # "insert" /\ DoneOf(op) \in Messages
    BY DEF BuildOps, DoneOf, Messages
  <1>3. Each(op, nextFilters[f]) \in Seq(LaterSteps(t))
    BY <1>1, EachSteps DEF FilterTypes, DownOps
  <1>4. CASE task[f].exists /\ SubmitJobOnce(f, DoneOf(op)) /\ Goes(t, Each(op, nextFilters[f]))
    <2>1. DataEffect(t)
      BY <1>1, <1>2, <1>4, MessageFiled, CalmTask DEF StartLike
    <2> QED
      BY <1>1, <1>2, <1>3, <1>4, <2>1, GoesStep
  <1>5. CASE /\ ~task[f].exists
             /\ Goes(t, Append(Each(op, nextFilters[f]), Do(DoneOf(op), f))) /\ UNCHANGED task
    <2>1. DataEffect(t)
      BY <1>5, CalmSame DEF StartLike
    <2>2. Do(DoneOf(op), f) \in LaterSteps(t)
      <3> PICK done : done = DoneOf(op)
        OBVIOUS
      <3>1. /\ done \in OpNames /\ done \notin FrontOps /\ done \notin JobOps
            /\ done \notin {"change", "haltTask", "insert"} /\ done \in TaskOps
        BY <1>2 DEF Messages, OpNames, FrontOps, JobOps, TaskOps
      <3> QED
        BY <1>1, <3>1, DoSteps
    <2>3. Append(Each(op, nextFilters[f]), Do(DoneOf(op), f)) \in Seq(LaterSteps(t))
      BY <1>3, <2>2
    <2> QED
      BY <1>1, <1>2, <1>5, <2>1, <2>3, GoesStep
  <1> QED
    BY <1>4, <1>5 DEF StartLike

\* Freeze, UnFreeze and Flush only go down the tree.
LEMMA DownKeeps ==
    ASSUME PipelineInv, NEW t \in Threads, PipelineFrame, Freeze(t) \/ UnFreeze(t) \/ Flush(t)
    PROVE  PipelineInv'
  <1> PICK f : f = Head(prog[t]).f
    OBVIOUS
  <1>1. ASSUME NEW op \in {"freeze", "unfreeze", "flush"}, At(t, op)
        PROVE  /\ f \in Filters /\ FilterTypes /\ prog[t] # <<>> /\ t \in Callers
               /\ Head(prog[t]).op = op /\ op \notin BuildOps /\ op # "insert"
               /\ Each(op, nextFilters[f]) \in Seq(LaterSteps(t))
    <2>1. /\ f \in Filters /\ FilterTypes /\ prog[t] # <<>> /\ t \in Callers
          /\ Head(prog[t]).op = op
      BY <1>1, AtStep DEF TaskOps, Messages, JobOps
    <2>2. Each(op, nextFilters[f]) \in Seq(LaterSteps(t))
      BY <2>1, EachSteps DEF FilterTypes, DownOps
    <2> QED
      BY <2>1, <2>2 DEF BuildOps
  <1>2. ASSUME UNCHANGED <<filter, nextFilters, task, stateMutex, result, failures>>
        PROVE  DataEffect(t)
    BY <1>2, CalmSame
  <1>3. CASE Freeze(t)
    <2>1. At(t, "freeze") /\ Goes(t, HaltThenNext("freeze", f)) /\ DataEffect(t)
      BY <1>2, <1>3 DEF Freeze
    <2>2. HaltThenNext("freeze", f) \in Seq(LaterSteps(t))
      BY <1>1, <2>1, HaltSteps
    <2> QED
      BY <1>1, <2>1, <2>2, GoesStep
  <1>4. CASE UnFreeze(t)
    <2>1. At(t, "unfreeze") /\ DataEffect(t)
      BY <1>2, <1>4 DEF UnFreeze
    <2> PICK running \in BOOLEAN :
          Goes(t, (IF running THEN <<Do("startTask", f)>> ELSE <<>>)
                  \o Each("unfreeze", nextFilters[f]))
      BY <1>4 DEF UnFreeze
    <2> DEFINE a == IF running THEN <<Do("startTask", f)>> ELSE <<>>
               b == Each("unfreeze", nextFilters[f])
    <2>2. <<Do("startTask", f)>> \in Seq(LaterSteps(t))
      BY <1>1, <2>1, DoSteps DEF OpNames, FrontOps, JobOps, TaskOps, Messages
    <2>3. a \in Seq(LaterSteps(t)) /\ b \in Seq(LaterSteps(t))
      BY <1>1, <2>1, <2>2, EmptySteps
    <2>4. Goes(t, a \o b)
      OBVIOUS
    <2> HIDE DEF a, b
    <2>5. a \o b \in Seq(LaterSteps(t))
      BY <2>3, Joined
    <2> QED
      BY <1>1, <2>1, <2>4, <2>5, GoesStep
  <1>5. CASE Flush(t)
    <2>1. /\ At(t, "flush") /\ DataEffect(t)
          /\ Goes(t, Append(Each("flush", nextFilters[f]), Do("flushBase", f)))
      BY <1>2, <1>5 DEF Flush
    <2>2. Do("flushBase", f) \in LaterSteps(t)
      BY <1>1, <2>1, DoSteps DEF OpNames, FrontOps, JobOps, TaskOps, Messages
    <2>3. Append(Each("flush", nextFilters[f]), Do("flushBase", f)) \in Seq(LaterSteps(t))
      BY <1>1, <2>1, <2>2
    <2> QED
      BY <1>1, <2>1, <2>3, GoesStep
  <1> QED
    BY <1>3, <1>4, <1>5

\* A new error code and state of one filter, with its counters as they were.
LEMMA FilterSet ==
    ASSUME FilterTypes, NEW f \in Filters, NEW r \in Status, NEW s \in FilterState,
           filter' \in {[filter EXCEPT ![f].errCode = r], [filter EXCEPT ![f].curState = s], filter}
    PROVE  /\ filter' \in [Filters -> FilterRecords]
           /\ \A g \in Filters : /\ filter'[g].jobIdx = filter[g].jobIdx
                                 /\ filter'[g].jobIdxBase = filter[g].jobIdxBase
  <1>1. filter \in [Filters -> FilterRecords]
    BY DEF FilterTypes
  <1>2. CASE filter' = [filter EXCEPT ![f].errCode = r]
    <2>1. ASSUME NEW x \in FilterRecords
          PROVE  /\ [x EXCEPT !.errCode = r] \in FilterRecords
                 /\ [x EXCEPT !.errCode = r].jobIdx = x.jobIdx
                 /\ [x EXCEPT !.errCode = r].jobIdxBase = x.jobIdxBase
      BY DEF FilterRecords
    <2> QED
      BY <1>1, <1>2, <2>1
  <1>3. CASE filter' = [filter EXCEPT ![f].curState = s]
    <2>1. ASSUME NEW x \in FilterRecords
          PROVE  /\ [x EXCEPT !.curState = s] \in FilterRecords
                 /\ [x EXCEPT !.curState = s].jobIdx = x.jobIdx
                 /\ [x EXCEPT !.curState = s].jobIdxBase = x.jobIdxBase
      BY DEF FilterRecords
    <2> QED
      BY <1>1, <1>3, <2>1
  <1>4. CASE filter' = filter
    BY <1>1, <1>4
  <1> QED
    BY <1>2, <1>3, <1>4

\* Data are calm when only error codes, states and results change.
LEMMA CalmFilter ==
    ASSUME PipelineInv, NEW t, NEW f \in Filters, NEW r \in Status, NEW s \in FilterState,
           filter' \in {[filter EXCEPT ![f].errCode = r], [filter EXCEPT ![f].curState = s], filter},
           result' \in [Callers -> Status], failures' \in 0 .. MaxFails,
           stateMutex' \in [Filters -> Callers \cup {None}],
           UNCHANGED <<nextFilters, task>>, PipelineFrame
    PROVE  DataEffect(t)
  <1>1. FilterTypes
    BY DEF PipelineInv, Types
  <1>2. /\ filter' \in [Filters -> FilterRecords]
        /\ \A g \in Filters : /\ filter'[g].jobIdx = filter[g].jobIdx
                              /\ filter'[g].jobIdxBase = filter[g].jobIdxBase
    BY <1>1, FilterSet
  <1>3. CalmData
    BY <1>1, <1>2 DEF CalmData, PipelineFrame, FilterTypes
  <1> QED
    BY <1>3, CalmEffect

\* What a Do... function returns, and how many have failed.
LEMMA Outcomes ==
    ASSUME FilterTypes, NEW f, NEW r \in Status, Outcome(f, r)
    PROVE  failures' \in 0 .. MaxFails
  BY FilterAssumption DEF FilterTypes, Outcome

\* The ...Done functions, Pause and Stop.
LEMMA DoneKeeps ==
    ASSUME PipelineInv, NEW t \in Threads, PipelineFrame, Done(t)
    PROVE  PipelineInv'
  <1> PICK f : f = Head(prog[t]).f
    OBVIOUS
  <1> PICK op : op = Head(prog[t]).op
    OBVIOUS
  <1>0. At(t, op) /\ op \in DoneOps
    BY DEF Done, At
  <1>1. f \in Filters /\ FilterTypes /\ prog[t] # <<>> /\ (op \notin TaskOps => t \in Callers)
    BY <1>0, AtStep DEF DoneOps
  <1>2. op # "insert" /\ (op \in BuildOps => op = "initDone") /\ (op \in {"pause", "stop"} => t \in Callers)
    BY <1>0, <1>1 DEF DoneOps, BuildOps, TaskOps, Messages, JobOps
  <1> DEFINE Then(r) == ChangeTo(f, IF r = "OK" \/ op = "releaseDone" THEN Target(op) ELSE "ERROR")
                        \o IF op \in {"pause", "stop"} THEN HaltThenNext(op, f) ELSE <<>>
  <1>3. PICK r \in Status :
             /\ Outcome(f, r)
             /\ filter' = [filter EXCEPT ![f].errCode = r]
             /\ \/ /\ op \in {"startDone", "resumeDone"}
                   /\ GivesUp(t, Then(r), r)
                \/ /\ t \in Callers /\ Goes(t, Then(r))
                   /\ result' = [result EXCEPT ![t] = r]
                \/ /\ Goes(t, Then(r))
                   /\ UNCHANGED result
    <2>1. \E r \in Status :
             /\ Outcome(f, r)
             /\ filter' = [filter EXCEPT ![f].errCode = r]
             /\ \/ /\ t \in Callers /\ (\A g \in Filters : f \notin Range(nextFilters[g])) /\ r # "OK"
                   /\ op \in {"startDone", "resumeDone"}
                   /\ GivesUp(t, Then(r), r)
                \/ /\ t \in Callers /\ (\A g \in Filters : f \notin Range(nextFilters[g])) /\ r # "OK"
                   /\ op \in {"pause", "stop"}
                   /\ Goes(t, Then(r))
                   /\ result' = [result EXCEPT ![t] = r]
                \/ /\ \/ t \notin Callers \/ ~(\A g \in Filters : f \notin Range(nextFilters[g])) \/ r = "OK"
                      \/ op \in {"initDone", "releaseDone", "mutedDone", "reInitDone"}
                   /\ Goes(t, Then(r))
                   /\ UNCHANGED result
      BY Zenon DEF Done
    <2> HIDE DEF Then
    <2> QED
      BY <2>1, Zenon
  <1> PICK st : st = IF r = "OK" \/ op = "releaseDone" THEN Target(op) ELSE "ERROR"
    OBVIOUS
  <1>4. st \in FilterState
    BY <1>0 DEF Target, DoneOps, FilterState
  <1> PICK a : a = ChangeTo(f, st)
    OBVIOUS
  <1> PICK b : b = IF op \in {"pause", "stop"} THEN HaltThenNext(op, f) ELSE <<>>
    OBVIOUS
  <1>5. a \in Seq(LaterSteps(t)) /\ \A i \in DOMAIN a : a[i].op = "change"
    BY <1>1, <1>4, ChangeSteps
  <1>6. b \in Seq(LaterSteps(t)) /\ (op \notin {"pause", "stop"} => b = <<>>)
    <2>1. CASE op \in {"pause", "stop"}
      BY <2>1, <1>1, <1>2, HaltSteps
    <2>2. CASE op \notin {"pause", "stop"}
      BY <2>2, EmptySteps
    <2> QED
      BY <2>1, <2>2
  <1>7. Then(r) = a \o b
    OBVIOUS
  <1>8. a \o b \in Seq(LaterSteps(t))
    BY <1>5, <1>6, Joined
  <1>9. op = "initDone" => \A i \in DOMAIN (a \o b) : (a \o b)[i].op \in BuildOps
    <2> SUFFICES ASSUME op = "initDone" PROVE \A i \in DOMAIN (a \o b) : (a \o b)[i].op \in BuildOps
      OBVIOUS
    <2>1. b = <<>>
      BY <1>6
    <2>2. a \o b = a
      BY <1>5, <2>1, ConcatEmptySeq
    <2> QED
      BY <1>5, <2>2 DEF BuildOps
  <1> HIDE DEF Then
  <1>10. failures' \in 0 .. MaxFails
    BY <1>1, <1>3, Outcomes
  <1>11. result' \in [Callers -> Status]
    <2>1. result \in [Callers -> Status]
      BY <1>1 DEF FilterTypes
    <2>2. result' = result \/ result' = [result EXCEPT ![t] = r]
      BY <1>3, Zenon DEF GivesUp
    <2> QED
      BY <2>1, <2>2
  <1>12. DataEffect(t)
    <2>1. UNCHANGED <<nextFilters, task>> /\ stateMutex' \in [Filters -> Callers \cup {None}]
      BY <1>1 DEF Done, FilterTypes
    <2> QED
      BY <1>1, <1>3, <1>4, <1>10, <1>11, <2>1, CalmFilter
  <1>13. \/ prog' = [prog EXCEPT ![t] = a \o b] /\ op \notin BuildOps
         \/ Goes(t, a \o b)
    BY <1>2, <1>3, <1>7, Zenon DEF GivesUp
  <1>14. CASE prog' = [prog EXCEPT ![t] = a \o b] /\ op \notin BuildOps
    BY <1>1, <1>8, <1>12, <1>14, CutStep
  <1>15. CASE Goes(t, a \o b)
    BY <1>1, <1>2, <1>8, <1>9, <1>12, <1>15, GoesStep
  <1> QED
    BY <1>13, <1>14, <1>15

\* PrepareDone: the next filters, or the end of the call.
LEMMA PrepareDoneKeeps ==
    ASSUME PipelineInv, NEW t \in Threads, PipelineFrame, PrepareDone(t)
    PROVE  PipelineInv'
  <1> PICK f : f = Head(prog[t]).f
    OBVIOUS
  <1>0. At(t, "prepareDone")
    BY DEF PrepareDone
  <1>1. f \in Filters /\ FilterTypes /\ prog[t] # <<>> /\ Head(prog[t]).op = "prepareDone"
    BY <1>0, AtStep
  <1>2. "prepareDone" \notin BuildOps
    BY DEF BuildOps
  <1>3. UNCHANGED <<nextFilters, task>> /\ stateMutex' \in [Filters -> Callers \cup {None}]
    BY <1>1 DEF PrepareDone, FilterTypes
  <1>4. result \in [Callers -> Status] /\ failures \in 0 .. MaxFails
    BY <1>1 DEF FilterTypes
  <1>5. ASSUME NEW r \in Status, NEW q, GivesUp(t, q, r)
        PROVE  result' \in [Callers -> Status] /\ prog' = [prog EXCEPT ![t] = q]
    BY <1>4, <1>5 DEF GivesUp
  <1>6. CASE GivesUp(t, <<>>, "INVALID_OPERATION") /\ UNCHANGED <<filter, failures>>
    <2>1. "INVALID_OPERATION" \in Status /\ "ERROR" \in FilterState
      BY DEF Status, FilterState
    <2>2. result' \in [Callers -> Status] /\ prog' = [prog EXCEPT ![t] = <<>>]
      BY <1>5, <1>6, <2>1
    <2>3. DataEffect(t)
      BY <1>1, <1>3, <1>4, <1>6, <2>1, <2>2, CalmFilter
    <2> QED
      BY <1>1, <1>2, <2>2, <2>3, EmptySteps, CutStep
  <1>7. ASSUME NEW r \in Status, Outcome(f, r), filter' = [filter EXCEPT ![f].errCode = r],
               result' \in [Callers -> Status]
        PROVE  DataEffect(t)
    <2>1. failures' \in 0 .. MaxFails /\ "ERROR" \in FilterState
      BY <1>1, <1>7, Outcomes DEF FilterState
    <2> QED
      BY <1>1, <1>3, <1>7, <2>1, CalmFilter
  <1>8. ASSUME NEW s \in FilterState PROVE ChangeTo(f, s) \in Seq(LaterSteps(t))
    BY <1>1, ChangeSteps
  <1>9. CASE \E r \in Status :
                /\ Outcome(f, r) /\ filter' = [filter EXCEPT ![f].errCode = r]
                /\ Goes(t, Each("prepare", nextFilters[f]) \o ChangeTo(f, "READY"))
                /\ UNCHANGED result
    <2>1. Each("prepare", nextFilters[f]) \in Seq(LaterSteps(t))
      BY <1>1, EachSteps DEF FilterTypes, DownOps
    <2>2. ChangeTo(f, "READY") \in Seq(LaterSteps(t))
      BY <1>8 DEF FilterState
    <2>3. Each("prepare", nextFilters[f]) \o ChangeTo(f, "READY") \in Seq(LaterSteps(t))
      BY <2>1, <2>2, Joined
    <2>4. DataEffect(t)
      BY <1>4, <1>7, <1>9
    <2> QED
      BY <1>1, <1>2, <1>9, <2>3, <2>4, GoesStep
  <1>10. CASE \E r \in Status :
                /\ Outcome(f, r) /\ filter' = [filter EXCEPT ![f].errCode = r]
                /\ GivesUp(t, ChangeTo(f, "ERROR"), r)
    <2>1. ChangeTo(f, "ERROR") \in Seq(LaterSteps(t))
      BY <1>8 DEF FilterState
    <2>2. prog' = [prog EXCEPT ![t] = ChangeTo(f, "ERROR")] /\ DataEffect(t)
      BY <1>5, <1>7, <1>10
    <2> QED
      BY <1>1, <1>2, <2>1, <2>2, CutStep
  <1> QED
    BY <1>6, <1>9, <1>10, Zenon DEF PrepareDone

\* The change of a state.
LEMMA ChangeKeeps ==
    ASSUME PipelineInv, NEW t \in Threads, PipelineFrame, ChangeState(t)
    PROVE  PipelineInv'
  <1> PICK f : f = Head(prog[t]).f
    OBVIOUS
  <1>0. At(t, "change")
    BY DEF ChangeState
  <1>1. f \in Filters /\ FilterTypes /\ prog[t] # <<>> /\ Head(prog[t]).op = "change"
        /\ Head(prog[t]) \in StepsOf(t)
    BY <1>0, AtStep
  <1>2. filter[f].curState \in FilterState /\ Head(prog[t]).to \in FilterState
    BY <1>1 DEF FilterTypes, FilterRecords, StepsOf
  <1> PICK s : s = NewState(filter[f].curState, Head(prog[t]).to)
    OBVIOUS
  <1>3. s \in FilterState /\ "OK" \in Status
    BY <1>2 DEF NewState, FilterState, Status
  <1>4. filter' = [filter EXCEPT ![f].curState = s]
    BY DEF ChangeState
  <1>5. DataEffect(t)
    BY <1>1, <1>3, <1>4, CalmFilter DEF ChangeState, FilterTypes
  <1> QED
    BY <1>1, <1>5, EmptySteps, GoesStep DEF ChangeState

\* What a wait returns to the steps that follow it.
LEMMA ReturnedKeeps ==
    ASSUME PipelineInv, NEW t \in Threads, prog[t] # <<>>, t \in Callers,
           Head(prog[t]).f \in Filters, NEW v \in Status, Returned(t, v)
    PROVE  /\ \E q \in Seq(LaterSteps(t)) : prog' = [prog EXCEPT ![t] = q]
           /\ result' \in [Callers -> Status]
  <1> PICK rest : rest = Tail(prog[t])
    OBVIOUS
  <1> PICK f : f = Head(prog[t]).f
    OBVIOUS
  <1> PICK s : s = Do("getErrCode", f)
    OBVIOUS
  <1>1. rest \in Seq(LaterSteps(t)) /\ result \in [Callers -> Status]
    BY ProgParts DEF PipelineInv, Types, FilterTypes
  <1>2. s \in LaterSteps(t)
    <2>1. s \in StepRecords /\ s.op = "getErrCode" /\ s.f = f
      BY DEF Do, StepRecords, Status, OpNames
    <2> QED
      BY <2>1 DEF StepsOf, LaterSteps, FrontOps, JobOps, TaskOps, Messages
  <1>3. <<s>> \o rest \in Seq(LaterSteps(t)) /\ <<>> \o rest \in Seq(LaterSteps(t))
        /\ <<>> \in Seq(LaterSteps(t))
    BY <1>1, <1>2, EmptySteps
  <1>4. \/ prog' = [prog EXCEPT ![t] = <<s>> \o rest]
        \/ prog' = [prog EXCEPT ![t] = <<>> \o rest]
        \/ prog' = [prog EXCEPT ![t] = <<>>]
    BY DEF Returned, GivesUp, Goes
  <1>5. result' = result \/ result' = [result EXCEPT ![t] = v]
    BY DEF Returned, GivesUp
  <1> QED
    BY <1>1, <1>3, <1>4, <1>5

\* What is read of an error code.
LEMMA GetErrCodeKeeps ==
    ASSUME PipelineInv, NEW t \in Threads, PipelineFrame, GetErrCode(t)
    PROVE  PipelineInv'
  <1> PICK rest : rest = Tail(prog[t])
    OBVIOUS
  <1> PICK e : e = filter[Head(prog[t]).f].errCode
    OBVIOUS
  <1>0. At(t, "getErrCode")
    BY DEF GetErrCode
  <1>1. FilterTypes /\ prog[t] # <<>> /\ Head(prog[t]).op = "getErrCode" /\ Head(prog[t]).f \in Filters
    BY <1>0, AtStep
  <1>2. rest \in Seq(LaterSteps(t)) /\ e \in Status
    BY <1>1, ProgParts DEF FilterTypes, FilterRecords
  <1>3. ASSUME NEW up PROVE [rest EXCEPT ![up].res = e] \in Seq(LaterSteps(t))
    <2>1. CASE up \in DOMAIN rest
      <3>1. up \in 1 .. Len(rest) /\ rest[up] \in LaterSteps(t)
        BY <1>2, <2>1, LenProperties, ElementOfSeq
      <3> PICK x : x = [rest[up] EXCEPT !.res = e]
        OBVIOUS
      <3>2. x \in LaterSteps(t)
        BY <1>2, <3>1 DEF LaterSteps, StepsOf, StepRecords
      <3>3. [rest EXCEPT ![up] = x] \in Seq(LaterSteps(t))
        BY <1>2, <3>1, <3>2, ExceptSeq
      <3> QED
        BY <3>3
    <2>2. CASE up \notin DOMAIN rest
      <3>0. rest \in [1 .. Len(rest) -> LaterSteps(t)] /\ DOMAIN rest = 1 .. Len(rest)
        BY <1>2, LenProperties
      <3>1. [rest EXCEPT ![up].res = e] = rest
        BY <2>2, <3>0
      <3> QED
        BY <1>2, <3>1
    <2> QED
      BY <2>1, <2>2
  <1>4. \E q \in Seq(LaterSteps(t)) : prog' = [prog EXCEPT ![t] = q]
    <2> DEFINE Above(r) == {i \in DOMAIN r : r[i].op = "endWait"}
               Up(r) == CHOOSE i \in Above(r) : \A j \in Above(r) : i <= j
    <2>1. prog' = [prog EXCEPT ![t] =
                     [Tail(prog[t]) EXCEPT ![Up(Tail(prog[t]))].res = filter[Head(prog[t]).f].errCode]]
      BY Zenon DEF GetErrCode
    <2> HIDE DEF Up
    <2> PICK up : up = Up(Tail(prog[t]))
      OBVIOUS
    <2>2. prog' = [prog EXCEPT ![t] = [rest EXCEPT ![up].res = e]]
      BY <2>1
    <2> QED
      BY <1>3, <2>2
  <1>5. DataEffect(t)
    BY CalmSame DEF GetErrCode
  <1> QED
    BY <1>1, <1>4, <1>5, CutStep DEF BuildOps

\* The steps of WaitAllState.
LEMMA WaitKeeps ==
    ASSUME PipelineInv, NEW t \in Threads, PipelineFrame,
           WaitReached(t) \/ EndWait(t) \/ WaitFailed(t) \/ WaitTimeout(t)
    PROVE  PipelineInv'
  <1> PICK f : f = Head(prog[t]).f
    OBVIOUS
  <1> PICK s : s = Head(prog[t]).to
    OBVIOUS
  <1>0. PICK op \in {"wait", "endWait"} : At(t, op)
    BY DEF WaitReached, EndWait, WaitFailed, WaitTimeout
  <1>1. /\ f \in Filters /\ FilterTypes /\ prog[t] # <<>> /\ Head(prog[t]).op = op
        /\ t \in Callers /\ Head(prog[t]) \in StepsOf(t)
    BY <1>0, AtStep DEF TaskOps, Messages, JobOps
  <1>2. op \notin BuildOps /\ op # "insert"
    BY DEF BuildOps
  <1>3. /\ s \in FilterState \cup {None} /\ Head(prog[t]).res \in Status
        /\ filter[f].errCode \in Status /\ failures \in 0 .. MaxFails
        /\ stateMutex \in [Filters -> Callers \cup {None}] /\ result \in [Callers -> Status]
        /\ "TIMED_OUT" \in Status /\ "ERROR" \in FilterState
    BY <1>1 DEF FilterTypes, FilterRecords, StepsOf, StepRecords, Status, FilterState
  <1>4. ASSUME NEW v \in Status, Returned(t, v),
               filter' \in {filter, [filter EXCEPT ![f].errCode = "TIMED_OUT"]},
               stateMutex' \in [Filters -> Callers \cup {None}],
               UNCHANGED <<nextFilters, task, failures>>
        PROVE  PipelineInv'
    <2>1. /\ \E q \in Seq(LaterSteps(t)) : prog' = [prog EXCEPT ![t] = q]
          /\ result' \in [Callers -> Status]
      BY <1>1, <1>4, ReturnedKeeps
    <2>2. DataEffect(t)
      BY <1>1, <1>3, <1>4, <2>1, CalmFilter
    <2> QED
      BY <1>1, <1>2, <2>1, <2>2, CutStep
  <1>5. CASE WaitReached(t)
    <2> PICK w : w = WaitFor(nextFilters[f], s)
      OBVIOUS
    <2> PICK l : l = [Do("endWait", f) EXCEPT !.to = s]
      OBVIOUS
    <2>1. w \in Seq(LaterSteps(t))
      BY <1>1, <1>3, WaitSteps DEF FilterTypes
    <2>2. l \in LaterSteps(t)
      <3>1. Do("endWait", f) \in StepRecords /\ Do("endWait", f).op = "endWait" /\ Do("endWait", f).f = f
        BY <1>1 DEF Do, StepRecords, Status, OpNames
      <3> QED
        BY <3>1, <1>1, <1>3 DEF StepRecords, StepsOf, LaterSteps, FrontOps, JobOps, TaskOps, Messages
    <2>3. Append(w, l) \in Seq(LaterSteps(t)) /\ Goes(t, Append(w, l))
      BY <1>5, <2>1, <2>2 DEF WaitReached
    <2>4. stateMutex' \in [Filters -> Callers \cup {None}]
      BY <1>1, <1>3, <1>5 DEF WaitReached
    <2>5. DataEffect(t)
      BY <1>1, <1>3, <1>5, <2>4, CalmFilter DEF WaitReached
    <2> QED
      BY <1>1, <1>2, <2>3, <2>5, GoesStep
  <1>6. CASE EndWait(t)
    <2>1. stateMutex' \in [Filters -> Callers \cup {None}]
      BY <1>1, <1>3, <1>6 DEF EndWait
    <2>2. /\ Returned(t, Head(prog[t]).res) /\ filter' = filter
          /\ UNCHANGED <<nextFilters, task, failures>>
      BY <1>6 DEF EndWait
    <2> QED
      BY <1>3, <1>4, <2>1, <2>2
  <1>7. CASE WaitFailed(t)
    <2>1. /\ Returned(t, filter[f].errCode) /\ filter' = filter
          /\ UNCHANGED <<nextFilters, task, failures>> /\ stateMutex' = stateMutex
      BY <1>7 DEF WaitFailed
    <2> QED
      BY <1>3, <1>4, <2>1
  <1>8. CASE WaitTimeout(t)
    <2>1. /\ Returned(t, "TIMED_OUT")
          /\ filter' = [filter EXCEPT ![f].errCode = "TIMED_OUT"]
          /\ UNCHANGED <<nextFilters, task, failures>> /\ stateMutex' = stateMutex
      BY <1>8 DEF WaitTimeout
    <2> QED
      BY <1>3, <1>4, <2>1
  <1> QED
    BY <1>5, <1>6, <1>7, <1>8

\* The end of a job.
LEMMA ProcessDoneKeeps ==
    ASSUME PipelineInv, NEW t \in Threads, PipelineFrame, ProcessDone(t)
    PROVE  PipelineInv'
  <1>0. PICK op \in {"drop", "process"} : At(t, op)
    BY DEF ProcessDone
  <1>1. prog[t] # <<>> /\ Head(prog[t]).op = op /\ op \notin BuildOps
    BY <1>0, AtStep DEF BuildOps
  <1>2. DataEffect(t)
    BY CalmSame DEF ProcessDone
  <1> QED
    BY <1>1, <1>2, EmptySteps, GoesStep DEF ProcessDone, BuildOps

\* Data effects of a step that writes the task of one filter only.
LEMMA TaskSet ==
    ASSUME PipelineInv, NEW t \in Threads, PipelineFrame,
           NEW f \in Filters, NEW k \in TaskRecords, task' = [task EXCEPT ![f] = k],
           UNCHANGED <<filter, nextFilters, stateMutex, result, failures>>,
           k.jobs \subseteq 1 .. filter[f].jobIdx, k.jobs # {} => k.exists,
           k.exists => f \in Async, task[f].exists => k.exists,
           k.state = task[f].state \/ k.state = "STARTED" \/ ~RunsJob(f),
           k.exists /\ ~task[f].exists => /\ nCalls = 0 => Known(f)
                                          /\ \A u \in Callers : Linking(u, f) => u = t
    PROVE  DataEffect(t)
  <1>1. FilterTypes /\ PipelineTypes /\ \A g \in Filters : CountersOk(g)
    BY DEF PipelineInv, Types
  <1>2. task' \in [Filters -> TaskRecords] /\ task'[f] = k /\ \A g \in Filters : g # f => task'[g] = task[g]
    BY <1>1 DEF FilterTypes
  <1>3. \A g \in Filters : filter[g].jobIdx <= filter[g].jobIdx
    BY <1>1 DEF FilterTypes, FilterRecords
  <1>4. ASSUME NEW g \in Filters PROVE FilterEffect(t, g)
    <2>1. CASE g = f
      BY <2>1, <1>1, <1>2, <1>3 DEF FilterEffect, CountersOk, PipelineFrame
    <2>2. CASE g # f
      BY <2>2, <1>1, <1>2, <1>3 DEF FilterEffect, CountersOk, PipelineFrame
    <2> QED
      BY <2>1, <2>2
  <1> QED
    BY <1>1, <1>2, <1>4 DEF DataEffect, FilterTypes, PipelineTypes, PipelineFrame

\* The task is halted: jobMutex_ keeps that apart from its jobs.
LEMMA HaltTaskKeeps ==
    ASSUME PipelineInv, NEW t \in Threads, PipelineFrame, HaltTask(t)
    PROVE  PipelineInv'
  <1> PICK f : f = Head(prog[t]).f
    OBVIOUS
  <1>0. At(t, "haltTask")
    BY DEF HaltTask
  <1>1. f \in Filters /\ FilterTypes /\ prog[t] # <<>> /\ Head(prog[t]).op = "haltTask"
        /\ Head(prog[t]) \in StepsOf(t)
    BY <1>0, AtStep
  <1>2. task[f] \in TaskRecords /\ Head(prog[t]).to \in Halts /\ CountersOk(f)
    BY <1>1 DEF FilterTypes, StepsOf, PipelineInv
  <1> PICK k : k = IF task[f].exists THEN Halted(task[f], Head(prog[t]).to) ELSE task[f]
    OBVIOUS
  <1>3. k \in TaskRecords /\ k.exists = task[f].exists /\ k.jobs = task[f].jobs
    BY <1>2 DEF Halted, TaskRecords
  <1>4. task' = [task EXCEPT ![f] = k] /\ ~RunsJob(f)
    BY DEF HaltTask, RunsJob
  <1>5. DataEffect(t)
    BY <1>1, <1>2, <1>3, <1>4, TaskSet DEF HaltTask, CountersOk
  <1> QED
    BY <1>1, <1>5, EmptySteps, GoesStep DEF HaltTask, BuildOps

\* The task is started.
LEMMA StartTaskKeeps ==
    ASSUME PipelineInv, NEW t \in Threads, PipelineFrame, StartTask(t)
    PROVE  PipelineInv'
  <1> PICK f : f = Head(prog[t]).f
    OBVIOUS
  <1>0. At(t, "startTask")
    BY DEF StartTask
  <1>1. f \in Filters /\ FilterTypes /\ prog[t] # <<>> /\ Head(prog[t]).op = "startTask"
    BY <1>0, AtStep
  <1>2. task[f] \in TaskRecords /\ CountersOk(f)
    BY <1>1 DEF FilterTypes, PipelineInv
  <1> PICK k : k = IF task[f].exists THEN Started(task[f]) ELSE task[f]
    OBVIOUS
  <1>3. /\ k \in TaskRecords /\ k.exists = task[f].exists /\ k.jobs = task[f].jobs
        /\ k.state = "STARTED" \/ k.state = task[f].state
    <2> PICK a : a = [task[f] EXCEPT !.state = "STARTED"]
      OBVIOUS
    <2>1. a \in TaskRecords /\ a.exists = task[f].exists /\ a.jobs = task[f].jobs /\ a.state = "STARTED"
      BY <1>2 DEF TaskRecords
    <2> PICK b : b = (a.msgs # <<>> \/ (a.state = "STARTED" /\ a.jobs # {}))
      OBVIOUS
    <2>2. b \in BOOLEAN
      OBVIOUS
    <2>3. k = [a EXCEPT !.due = b] \/ k = task[f]
      BY DEF Started, Updated
    <2> QED
      BY <1>2, <2>1, <2>2, <2>3 DEF TaskRecords
  <1>4. task' = [task EXCEPT ![f] = k]
    BY DEF StartTask
  <1>5. DataEffect(t)
    BY <1>1, <1>2, <1>3, <1>4, TaskSet DEF StartTask, CountersOk
  <1> QED
    BY <1>1, <1>5, EmptySteps, GoesStep DEF StartTask, BuildOps

\* The thread of a task that is in a job has a started task.
LEMMA JobRuns ==
    ASSUME PipelineInv, NEW f \in Filters, RunsJob(f)
    PROVE  task[f].exists /\ task[f].state = "STARTED" /\ Head(prog[f]).f = f
  <1>1. Head(prog[f]) \in StepsOf(f) /\ FrontOk(f)
    BY HeadStep DEF PipelineInv, Types, RunsJob, Threads
  <1> QED
    BY <1>1 DEF RunsJob, FrontOk, JobOk, StepsOf, JobOps

\* What is due does not matter here.
LEMMA UpdatedTask ==
    ASSUME NEW a \in TaskRecords
    PROVE  /\ Updated(a) \in TaskRecords /\ Updated(a).exists = a.exists
           /\ Updated(a).state = a.state /\ Updated(a).jobs = a.jobs
  <1> PICK b : b = (a.msgs # <<>> \/ (a.state = "STARTED" /\ a.jobs # {}))
    OBVIOUS
  <1>1. b \in BOOLEAN
    OBVIOUS
  <1>2. Updated(a) = [a EXCEPT !.due = b]
    BY DEF Updated
  <1> QED
    BY <1>1, <1>2 DEF TaskRecords

\* A filter is linked: its task is created.
LEMMA LinkKeeps ==
    ASSUME PipelineInv, NEW t \in Threads, PipelineFrame, LinkPipeLine(t)
    PROVE  PipelineInv'
  <1> PICK f : f = Head(prog[t]).f
    OBVIOUS
  <1>0. At(t, "link")
    BY DEF LinkPipeLine
  <1>1. /\ f \in Filters /\ FilterTypes /\ prog[t] # <<>> /\ Head(prog[t]).op = "link"
        /\ t \in Callers
    BY <1>0, AtStep DEF TaskOps, Messages, JobOps
  <1>2. CASE Goes(t, <<Do("initDone", f)>>) /\ UNCHANGED task
    <2>1. DataEffect(t)
      BY <1>2, CalmSame DEF LinkPipeLine
    <2>2. <<Do("initDone", f)>> \in Seq(LaterSteps(t)) /\ Do("initDone", f).op = "initDone"
      BY <1>1, DoSteps DEF OpNames, FrontOps, JobOps, TaskOps, Messages
    <2>3. \A i \in DOMAIN <<Do("initDone", f)>> : <<Do("initDone", f)>>[i].op \in BuildOps
      <3> PICK d : d = Do("initDone", f)
        OBVIOUS
      <3>1. \A i \in DOMAIN <<d>> : <<d>>[i] = d
        OBVIOUS
      <3>2. d.op \in BuildOps
        BY <2>2 DEF BuildOps
      <3> QED
        BY <3>1, <3>2
    <2> QED
      BY <1>1, <1>2, <2>1, <2>2, <2>3, GoesStep
  <1>3. CASE /\ f \in Async /\ Goes(t, <<>>)
             /\ task' = [task EXCEPT ![f] = WithMsg([NoTask EXCEPT !.exists = TRUE], "initDone")]
    <2> PICK m : m = [NoTask EXCEPT !.exists = TRUE]
      OBVIOUS
    <2> PICK ms : ms = Append(m.msgs, "initDone")
      OBVIOUS
    <2> PICK n : n = [m EXCEPT !.msgs = ms]
      OBVIOUS
    <2>1. WithMsg([NoTask EXCEPT !.exists = TRUE], "initDone") = Updated(n)
      BY DEF WithMsg
    <2>2. n \in TaskRecords /\ n.exists /\ n.jobs = {}
      <3>0. /\ NoTask = [exists |-> FALSE, state |-> "PAUSED", due |-> FALSE, msgs |-> <<>>, jobs |-> {}]
            /\ <<>> \in Seq(Messages) /\ {} \in SUBSET Nat /\ "PAUSED" \in Halts
        BY DEF NoTask, Halts
      <3>3. NoTask \in TaskRecords /\ NoTask.jobs = {}
        BY <3>0 DEF TaskRecords
      <3>1. m \in TaskRecords /\ m.exists /\ m.jobs = {}
        BY <3>3 DEF TaskRecords
      <3>2. ms \in Seq(Messages)
        BY <3>1 DEF TaskRecords, Messages
      <3> QED
        BY <3>1, <3>2 DEF TaskRecords
    <2> PICK k : k = Updated(n)
      OBVIOUS
    <2>3. k \in TaskRecords /\ k.exists /\ k.jobs = {}
      BY <2>2, UpdatedTask
    <2>4. Linking(t, f)
      BY <1>1 DEF Linking
    <2>5. ~task[f].exists
      BY <1>1 DEF PipelineInv, FrontOk, LinkOk
    <2>6. ~RunsJob(f)
      BY <1>1, <2>5, JobRuns
    <2>7. (nCalls = 0 => Known(f)) /\ \A u \in Callers : Linking(u, f) => u = t
      BY <1>1, <2>4 DEF PipelineInv, Building, LinkedOnce
    <2>8. task' = [task EXCEPT ![f] = k]
      BY <1>3, <2>1
    <2>9. k.jobs \subseteq 1 .. filter[f].jobIdx
      BY <2>3
    <2>10. DataEffect(t)
      BY <1>1, <1>3, <2>3, <2>5, <2>6, <2>7, <2>8, <2>9, TaskSet DEF LinkPipeLine
    <2> QED
      BY <1>1, <1>3, <2>10, EmptySteps, GoesStep
  <1> QED
    BY <1>2, <1>3, Zenon DEF LinkPipeLine

\* A flush, and the mark of one that met its task halted.
LEMMA FlushBaseKeeps ==
    ASSUME PipelineInv, NEW t \in Threads, FilterStep(t), FlushBase(t)
    PROVE  PipelineInv'
  <1> PICK f : f = Head(prog[t]).f
    OBVIOUS
  <1>0. At(t, "flushBase")
    BY DEF FlushBase
  <1>1. f \in Filters /\ FilterTypes /\ PipelineTypes /\ prog[t] # <<>> /\ Head(prog[t]).op = "flushBase"
    BY <1>0, AtStep
  <1> PICK n : n = filter[f].jobIdx
    OBVIOUS
  <1>2. n \in Nat /\ \A g \in Filters : filter[g].jobIdx \in Nat /\ filter[g] \in FilterRecords /\ CountersOk(g)
    BY <1>1 DEF FilterTypes, FilterRecords, PipelineInv
  <1> PICK x : x = [filter[f] EXCEPT !.jobIdxBase = n]
    OBVIOUS
  <1>3. x \in FilterRecords /\ x.jobIdx = filter[f].jobIdx /\ x.jobIdxBase = n
    BY <1>1, <1>2 DEF FilterRecords
  <1>4. filter' = [filter EXCEPT ![f] = x]
    BY DEF FlushBase
  <1>5. filter' \in [Filters -> FilterRecords] /\ filter'[f] = x /\ \A g \in Filters : g # f => filter'[g] = filter[g]
    BY <1>1, <1>3, <1>4 DEF FilterTypes
  <1>6. clean' = clean \/ (task[f].state # "STARTED" /\ clean' = [clean EXCEPT ![f] = n])
    BY <1>0 DEF FilterStep
  <1>7. /\ clean' \in [Filters -> Nat]
        /\ clean'[f] = clean[f] \/ (task[f].state # "STARTED" /\ clean'[f] = n)
        /\ \A g \in Filters : g # f => clean'[g] = clean[g]
    BY <1>1, <1>2, <1>6 DEF PipelineTypes
  <1>8. UNCHANGED <<nextFilters, task, stateMutex, result, failures, filters, mutex, command, nCalls, last>>
    BY DEF FlushBase, FilterStep
  <1>9. ASSUME NEW g \in Filters PROVE FilterEffect(t, g)
    <2>0. clean[f] \in Nat /\ filter[f].jobIdxBase \in Nat
      BY <1>1 DEF PipelineTypes, FilterTypes, FilterRecords
    <2>1. filter'[g].jobIdx = filter[g].jobIdx /\ task'[g] = task[g]
      BY <1>3, <1>5, <1>8
    <2>2. CountersOk(g)'
      <3>1. CASE g = f
        <4>1. clean'[f] <= n /\ filter'[f].jobIdxBase = n /\ filter'[f].jobIdx = n
          BY <1>1, <1>2, <1>3, <1>5, <1>7, <2>0 DEF CountersOk
        <4>2. /\ n <= MaxBuffers /\ task[f].jobs \subseteq 1 .. n
              /\ task[f].jobs # {} => task[f].exists
              /\ task[f].exists => f \in Async
          BY <1>1, <1>2 DEF CountersOk
        <4> QED
          <5>1. n <= n
            BY <1>2
          <5>2. task'[f].exists = task[f].exists /\ task'[f].jobs = task[f].jobs
            BY <1>8
          <5>3. CountersOk(f)'
            BY <4>1, <4>2, <5>1, <5>2 DEF CountersOk
          <5> QED
            BY <3>1, <5>3
      <3>2. CASE g # f
        BY <3>2, <1>2, <1>5, <1>7, <1>8 DEF CountersOk
      <3> QED
        BY <3>1, <3>2
    <2>3. clean'[g] = clean[g] \/ task'[g].state # "STARTED"
      BY <1>7, <2>1
    <2> QED
      BY <1>2, <2>1, <2>2, <2>3 DEF FilterEffect
  <1>10. DataEffect(t)
    <2>1. /\ nextFilters' = nextFilters /\ nextFilters' \in [Filters -> Seq(Filters)]
          /\ task' \in [Filters -> TaskRecords]
          /\ stateMutex' \in [Filters -> Callers \cup {None}]
          /\ result' \in [Callers -> Status] /\ failures' \in 0 .. MaxFails
      BY <1>1, <1>8 DEF FilterTypes
    <2> QED
      BY <1>5, <1>7, <1>8, <1>9, <2>1 DEF DataEffect
  <1> QED
    BY <1>1, <1>10, EmptySteps, GoesStep DEF FlushBase, BuildOps

\* A filter that was removed forgets its next filters.
LEMMA ClearNextKeeps ==
    ASSUME PipelineInv, NEW t \in Threads, PipelineFrame, ClearAllNextFilters(t)
    PROVE  PipelineInv'
  <1> PICK f : f = Head(prog[t]).f
    OBVIOUS
  <1>0. At(t, "clearNext")
    BY DEF ClearAllNextFilters
  <1>1. /\ f \in Filters /\ FilterTypes /\ PipelineTypes /\ prog[t] # <<>>
        /\ Head(prog[t]).op = "clearNext" /\ t \in Callers
    BY <1>0, AtStep DEF TaskOps, Messages, JobOps
  <1>2. nCalls # 0
    BY <1>1, Built0 DEF BuildOps
  <1>3. nextFilters' = [nextFilters EXCEPT ![f] = <<>>]
    BY DEF ClearAllNextFilters
  <1>4. nextFilters' \in [Filters -> Seq(Filters)] /\ \A g \in Filters : nextFilters'[g] \in {<<>>, nextFilters[g]}
    BY <1>1, <1>3 DEF FilterTypes
  <1>5. \A g \in Filters : Range(nextFilters'[g]) \cap Heads = {}
    <2>1. Range(<<>>) = {}
      BY DEF Range
    <2> QED
      BY <1>4, <2>1 DEF PipelineInv, TreesOk
  <1>6. \A g \in Filters : FilterEffect(t, g)
    <2>1. \A g \in Filters : CountersOk(g) /\ filter[g].jobIdx \in Nat
      BY <1>1 DEF FilterTypes, FilterRecords, PipelineInv
    <2> QED
      BY <2>1 DEF FilterEffect, CountersOk, ClearAllNextFilters, PipelineFrame
  <1>7. DataEffect(t)
    BY <1>1, <1>2, <1>4, <1>5, <1>6 DEF DataEffect, ClearAllNextFilters, PipelineFrame, FilterTypes, PipelineTypes
  <1> QED
    BY <1>1, <1>7, EmptySteps, GoesStep DEF ClearAllNextFilters, BuildOps

\* A buffer gets its index.
LEMMA BufferKeeps ==
    ASSUME PipelineInv, NEW t \in Threads, PipelineFrame, ProcessBuffer(t)
    PROVE  PipelineInv'
  <1> PICK f : f = Head(prog[t]).f
    OBVIOUS
  <1>0. At(t, "buffer")
    BY DEF ProcessBuffer
  <1>1. /\ f \in Filters /\ FilterTypes /\ PipelineTypes /\ prog[t] # <<>>
        /\ Head(prog[t]).op = "buffer" /\ t \in Callers
    BY <1>0, AtStep DEF TaskOps, Messages, JobOps
  <1>2. CASE Goes(t, <<>>) /\ UNCHANGED filter
    <2>1. DataEffect(t)
      BY <1>2, CalmSame DEF ProcessBuffer
    <2> QED
      BY <1>1, <1>2, <2>1, EmptySteps, GoesStep DEF BuildOps
  <1>3. CASE /\ task[f].exists
             /\ filter' = [filter EXCEPT ![f].jobIdx = @ + 1]
             /\ Goes(t, <<[Do("submit", f) EXCEPT !.idx = filter[f].jobIdx + 1]>>)
    <2> PICK n : n = filter[f].jobIdx + 1
      OBVIOUS
    <2>1. command[t] = "buffer" /\ filter[f].jobIdx < MaxBuffers
      BY <1>1 DEF PipelineInv, FrontOk, BufferOk
    <2>2. \A g \in Filters : filter[g] \in FilterRecords /\ filter[g].jobIdx \in Nat
                             /\ filter[g].jobIdxBase \in Nat /\ CountersOk(g)
      BY <1>1 DEF FilterTypes, FilterRecords, PipelineInv
    <2>3. n \in Nat /\ n <= MaxBuffers /\ filter[f].jobIdx <= n
      BY <1>1, <2>1, <2>2, FilterAssumption
    <2> PICK x : x = [filter[f] EXCEPT !.jobIdx = n]
      OBVIOUS
    <2>4. x \in FilterRecords /\ x.jobIdx = n /\ x.jobIdxBase = filter[f].jobIdxBase
      BY <1>1, <2>2, <2>3 DEF FilterRecords
    <2>5. filter' = [filter EXCEPT ![f] = x]
      BY <1>3
    <2>6. /\ filter' \in [Filters -> FilterRecords] /\ filter'[f] = x
          /\ \A g \in Filters : g # f => filter'[g] = filter[g]
      BY <1>1, <2>4, <2>5 DEF FilterTypes
    <2>7. UNCHANGED <<nextFilters, task, stateMutex, result, failures, clean, filters, mutex, command, nCalls, last>>
      BY DEF ProcessBuffer, PipelineFrame
    <2>8. ASSUME NEW g \in Filters PROVE FilterEffect(t, g)
      <3>1. task'[g] = task[g] /\ clean'[g] = clean[g]
        BY <2>7
      <3>2. CASE g # f
        BY <2>2, <2>6, <3>1, <3>2 DEF FilterEffect, CountersOk
      <3>3. CASE g = f
        <4>1. filter'[f].jobIdx = n /\ filter'[f].jobIdxBase = filter[f].jobIdxBase
          BY <2>4, <2>6
        <4>2. CountersOk(f) /\ filter[f].jobIdxBase \in Nat /\ filter[f].jobIdx \in Nat
          BY <1>1, <2>2
        <4>3. filter[f].jobIdxBase <= n
          BY <2>3, <4>2 DEF CountersOk
        <4>4. task[f].jobs \subseteq 1 .. n
          BY <2>3, <4>2 DEF CountersOk
        <4>5. CountersOk(f)'
          BY <2>3, <4>1, <4>2, <4>3, <4>4, <3>1, <3>3 DEF CountersOk
        <4> QED
          BY <1>1, <2>1, <2>3, <4>1, <4>5, <3>1, <3>3 DEF FilterEffect
      <3> QED
        BY <3>2, <3>3
    <2>9. DataEffect(t)
      <3>1. /\ nextFilters' = nextFilters /\ nextFilters' \in [Filters -> Seq(Filters)]
            /\ task' \in [Filters -> TaskRecords] /\ clean' \in [Filters -> Nat]
            /\ stateMutex' \in [Filters -> Callers \cup {None}]
            /\ result' \in [Callers -> Status] /\ failures' \in 0 .. MaxFails
        BY <1>1, <2>7 DEF FilterTypes, PipelineTypes
      <3> QED
        BY <2>6, <2>7, <2>8, <3>1 DEF DataEffect
    <2> PICK s : s = [Do("submit", f) EXCEPT !.idx = n]
      OBVIOUS
    <2>10. s \in StepsOf(t) /\ s.op = "submit" /\ s.idx = n /\ s.f = f
      <3>1. Do("submit", f) \in StepRecords /\ Do("submit", f).op = "submit" /\ Do("submit", f).f = f
        BY <1>1 DEF Do, StepRecords, Status, OpNames, FrontOps
      <3> QED
        BY <3>1, <1>1, <2>3 DEF StepRecords, StepsOf, JobOps, TaskOps
    <2> PICK old : old = prog[t]
      OBVIOUS
    <2> PICK p : p = <<s>> \o Tail(old)
      OBVIOUS
    <2>11. old \in ProgsOf(t) /\ old # <<>>
      BY <1>1 DEF FilterTypes
    <2>12. p \in ProgsOf(t) /\ p # <<>> /\ Head(p) = s
      BY ONLY <2>10, <2>11, p = <<s>> \o Tail(old), FrontThenRest
    <2>13. prog' = [prog EXCEPT ![t] = p]
      BY <1>3 DEF Goes
    <2>14. nCalls # 0
      BY <1>1, Built0 DEF BuildOps
    <2>15. ProgEffect(t, p)
      BY <1>1, <2>10, <2>12, <2>13, <2>14 DEF ProgEffect
    <2>16. prog'[t] = p
      BY <1>1, <2>12, <2>13, ProgsAfter
    <2>17. SubmitOk(s)'
      <3>1. n \in 1 .. n
        BY <1>1, <2>2, <2>3
      <3>2. task'[f].exists /\ filter'[f].jobIdx = n
        BY <1>3, <2>4, <2>6, <2>7
      <3> QED
        BY <2>10, <3>1, <3>2 DEF SubmitOk
    <2>18. FrontOk(t)'
      BY <2>10, <2>12, <2>16, <2>17 DEF FrontOk, BufferOk, JobOk, LinkOk
    <2> QED
      BY <2>9, <2>15, <2>18, StepKeeps
  <1> QED
    BY <1>2, <1>3, Zenon DEF ProcessBuffer

\* The job of a buffer is submitted.
LEMMA SubmitKeeps ==
    ASSUME PipelineInv, NEW t \in Threads, PipelineFrame, SubmitBuffer(t)
    PROVE  PipelineInv'
  <1> PICK f : f = Head(prog[t]).f
    OBVIOUS
  <1> PICK idx : idx = Head(prog[t]).idx
    OBVIOUS
  <1>0. At(t, "submit")
    BY DEF SubmitBuffer
  <1>1. /\ f \in Filters /\ FilterTypes /\ prog[t] # <<>> /\ Head(prog[t]).op = "submit"
    BY <1>0, AtStep
  <1>2. task[f] \in TaskRecords /\ CountersOk(f) /\ filter[f].jobIdx \in Nat
    BY <1>1 DEF FilterTypes, PipelineInv, FilterRecords
  <1>3. idx \in 1 .. filter[f].jobIdx /\ task[f].exists
    BY <1>1 DEF PipelineInv, FrontOk, SubmitOk
  <1> PICK k : k = WithJob(task[f], idx)
    OBVIOUS
  <1>4. /\ k \in TaskRecords /\ k.exists = task[f].exists /\ k.state = task[f].state
        /\ k.jobs = task[f].jobs \cup {idx}
    <2> PICK js : js = task[f].jobs \cup {idx}
      OBVIOUS
    <2>0. js \in SUBSET Nat
      BY <1>2, <1>3 DEF TaskRecords
    <2> PICK a : a = [task[f] EXCEPT !.jobs = js]
      OBVIOUS
    <2>1. /\ a \in TaskRecords /\ a.exists = task[f].exists /\ a.state = task[f].state
          /\ a.jobs = task[f].jobs \cup {idx}
      BY <1>2, <2>0 DEF TaskRecords
    <2>2. k = a \/ k = Updated(a)
      BY DEF WithJob
    <2> QED
      BY <2>1, <2>2, UpdatedTask
  <1>5. task' = [task EXCEPT ![f] = k]
    BY DEF SubmitBuffer
  <1>6. k.jobs \subseteq 1 .. filter[f].jobIdx /\ k.exists /\ k.state = task[f].state /\ f \in Async
    BY <1>2, <1>3, <1>4 DEF CountersOk
  <1>7. UNCHANGED <<filter, nextFilters, stateMutex, result, failures>>
    BY DEF SubmitBuffer
  <1>8. DataEffect(t)
    BY <1>1, <1>3, <1>4, <1>5, <1>6, <1>7, TaskSet
  <1> QED
    BY <1>1, <1>8, EmptySteps, GoesStep DEF SubmitBuffer, BuildOps

\* The job of a buffer looks at the last flush.
LEMMA CheckKeeps ==
    ASSUME PipelineInv, NEW t \in Threads, PipelineFrame, CheckDrop(t)
    PROVE  PipelineInv'
  <1> PICK s : s = Head(prog[t])
    OBVIOUS
  <1>0. At(t, "check")
    BY DEF CheckDrop
  <1>1. /\ s.f \in Filters /\ FilterTypes /\ PipelineTypes /\ prog[t] # <<>> /\ s.op = "check"
        /\ s \in StepsOf(t) /\ s.f = t
    BY <1>0, AtStep DEF StepsOf, JobOps
  <1> PICK op : op = IF s.idx <= filter[s.f].jobIdxBase THEN "drop" ELSE "process"
    OBVIOUS
  <1> PICK n : n = [s EXCEPT !.op = op]
    OBVIOUS
  <1>2. n \in StepsOf(t) /\ n.op = op /\ n.idx = s.idx /\ n.f = s.f /\ op \in {"drop", "process"}
    BY <1>1 DEF StepsOf, StepRecords, OpNames, JobOps, TaskOps, FrontOps, Messages
  <1>3. Goes(t, <<n>>)
    BY DEF CheckDrop
  <1>4. DataEffect(t)
    BY CalmSame DEF CheckDrop
  <1> PICK old : old = prog[t]
    OBVIOUS
  <1> PICK p : p = <<n>> \o Tail(old)
    OBVIOUS
  <1>5. old \in ProgsOf(t) /\ old # <<>>
    BY <1>1 DEF FilterTypes
  <1>6. p \in ProgsOf(t) /\ p # <<>> /\ Head(p) = n
    BY ONLY <1>2, <1>5, p = <<n>> \o Tail(old), FrontThenRest
  <1>7. prog' = [prog EXCEPT ![t] = p]
    BY <1>3 DEF Goes
  <1>8. ProgEffect(t, p)
    <2>1. t \in Callers => nCalls # 0
      BY <1>1, Built0 DEF BuildOps
    <2> QED
      BY <1>1, <1>2, <1>6, <1>7, <2>1 DEF ProgEffect
  <1>9. prog'[t] = p
    BY <1>1, <1>6, <1>7, ProgsAfter
  <1>10. UNCHANGED <<task, filter, clean>>
    BY DEF CheckDrop, PipelineFrame
  <1>11. JobOk(n)'
    <2>1. task[s.f].exists /\ task[s.f].state = "STARTED"
      BY <1>1 DEF PipelineInv, FrontOk, JobOk
    <2>2. op = "process" => s.idx > clean[s.f]
      <3>1. CountersOk(s.f) /\ clean[s.f] \in Nat /\ filter[s.f].jobIdxBase \in Nat /\ s.idx \in Nat
        BY <1>1 DEF PipelineInv, FilterTypes, PipelineTypes, FilterRecords, StepsOf, StepRecords
      <3> QED
        BY <3>1 DEF CountersOk
    <2> QED
      BY <1>2, <1>10, <2>1, <2>2 DEF JobOk
  <1>12. FrontOk(t)'
    BY <1>2, <1>6, <1>9, <1>11 DEF FrontOk, BufferOk, SubmitOk, LinkOk
  <1> QED
    BY <1>4, <1>8, <1>12, StepKeeps

\* The thread of a task takes a message.
LEMMA RunMessageKeeps ==
    ASSUME PipelineInv, NEW f \in Filters, UNCHANGED pipelineVars, RunMessage(f)
    PROVE  PipelineInv'
  <1>1. FilterTypes /\ f \notin Callers /\ PipelineFrame /\ f \in Threads
    BY FilterAssumption DEF PipelineInv, Types, pipelineVars, PipelineFrame, Threads
  <1>2. task[f] \in TaskRecords /\ CountersOk(f) /\ prog[f] = <<>>
    BY <1>1 DEF FilterTypes, PipelineInv, RunMessage
  <1> PICK m : m = Head(task[f].msgs)
    OBVIOUS
  <1>3. m \in Messages /\ task[f].msgs # <<>> /\ Tail(task[f].msgs) \in Seq(Messages)
    BY <1>2 DEF TaskRecords, RunMessage
  <1> PICK ms : ms = Tail(task[f].msgs)
    OBVIOUS
  <1> PICK a : a = [task[f] EXCEPT !.msgs = ms]
    OBVIOUS
  <1>4. a \in TaskRecords /\ a.exists = task[f].exists /\ a.state = task[f].state /\ a.jobs = task[f].jobs
    BY <1>2, <1>3 DEF TaskRecords
  <1> PICK k : k = Updated(a)
    OBVIOUS
  <1>5. k \in TaskRecords /\ k.exists = task[f].exists /\ k.state = task[f].state /\ k.jobs = task[f].jobs
    BY <1>4, UpdatedTask
  <1>6. task' = [task EXCEPT ![f] = k] /\ UNCHANGED <<filter, nextFilters, stateMutex, result, failures>>
    <2>1. a = [task[f] EXCEPT !.msgs = Tail(@)]
      OBVIOUS
    <2>2. task' = [task EXCEPT ![f] = Updated([task[f] EXCEPT !.msgs = Tail(@)])]
      BY DEF RunMessage
    <2>3. k = Updated([task[f] EXCEPT !.msgs = Tail(@)])
      BY <2>1, Zenon
    <2>4. UNCHANGED <<filter, nextFilters, stateMutex, result, failures>>
      BY DEF RunMessage
    <2> QED
      BY <2>2, <2>3, <2>4
  <1>7. DataEffect(f)
    BY <1>1, <1>2, <1>5, <1>6, TaskSet DEF CountersOk
  <1> PICK d : d = Do(m, f)
    OBVIOUS
  <1> PICK st : st = Do("startTask", f)
    OBVIOUS
  <1> PICK p : p = IF m \in {"startDone", "resumeDone"} THEN <<d, st>> ELSE <<d>>
    OBVIOUS
  <1>8. d \in LaterSteps(f) /\ st \in LaterSteps(f)
    <2>1. /\ m \in OpNames /\ m \notin FrontOps /\ m \notin JobOps
          /\ m \notin {"change", "haltTask", "insert"} /\ m \in TaskOps
          /\ "startTask" \in OpNames /\ "startTask" \notin FrontOps /\ "startTask" \notin JobOps
          /\ "startTask" \in TaskOps
      BY <1>3 DEF Messages, OpNames, FrontOps, JobOps, TaskOps
    <2> QED
      BY <2>1, DoSteps
  <1>9. p \in Seq(LaterSteps(f))
    BY <1>8
  <1>10. prog' = [prog EXCEPT ![f] = p]
    BY DEF RunMessage
  <1>11. p \in ProgsOf(f) /\ (p # <<>> => Head(p).op # "link")
    <2>1. p # <<>> => Head(p) \in LaterSteps(f)
      BY <1>9
    <2> QED
      BY <1>9, <2>1, LaterIsProg DEF LaterSteps, FrontOps
  <1>12. ProgEffect(f, p)
    BY <1>1, <1>10, <1>11 DEF ProgEffect
  <1>13. prog'[f] = p
    BY <1>1, <1>10, <1>11, ProgsAfter
  <1> QED
    BY <1>1, <1>7, <1>9, <1>12, <1>13, LaterFront, StepKeeps

\* The thread of a task takes a job.
LEMMA RunJobKeeps ==
    ASSUME PipelineInv, NEW f \in Filters, UNCHANGED pipelineVars, RunJob(f)
    PROVE  PipelineInv'
  <1>1. FilterTypes /\ f \notin Callers /\ PipelineFrame /\ f \in Threads
    BY FilterAssumption DEF PipelineInv, Types, pipelineVars, PipelineFrame, Threads
  <1>2. task[f] \in TaskRecords /\ CountersOk(f) /\ prog[f] = <<>> /\ task[f].state = "STARTED"
    BY <1>1 DEF FilterTypes, PipelineInv, RunJob
  <1> PICK idx \in task[f].jobs :
         /\ task' = [task EXCEPT ![f] = Updated([task[f] EXCEPT !.jobs = @ \ {idx}])]
         /\ prog' = [prog EXCEPT ![f] = <<[Do("check", f) EXCEPT !.idx = idx]>>]
    BY DEF RunJob
  <1> PICK js : js = task[f].jobs \ {idx}
    OBVIOUS
  <1> PICK a : a = [task[f] EXCEPT !.jobs = js]
    OBVIOUS
  <1>3. a \in TaskRecords /\ a.exists = task[f].exists /\ a.state = task[f].state /\ a.jobs = js /\ idx \in Nat
    <2>1. js \in SUBSET Nat
      BY <1>2 DEF TaskRecords
    <2> QED
      BY <1>2, <2>1 DEF TaskRecords
  <1> PICK k : k = Updated(a)
    OBVIOUS
  <1>4. k \in TaskRecords /\ k.exists = task[f].exists /\ k.state = task[f].state /\ k.jobs = js
    BY <1>3, UpdatedTask
  <1>5. task' = [task EXCEPT ![f] = k] /\ UNCHANGED <<filter, nextFilters, stateMutex, result, failures>>
    <2>1. a = [task[f] EXCEPT !.jobs = @ \ {idx}]
      OBVIOUS
    <2>2. task' = [task EXCEPT ![f] = Updated([task[f] EXCEPT !.jobs = @ \ {idx}])]
      BY DEF RunJob
    <2>3. k = Updated([task[f] EXCEPT !.jobs = @ \ {idx}])
      BY <2>1, Zenon
    <2>4. UNCHANGED <<filter, nextFilters, stateMutex, result, failures>>
      BY DEF RunJob
    <2> QED
      BY <2>2, <2>3, <2>4
  <1>6. k.exists /\ k.jobs \subseteq 1 .. filter[f].jobIdx /\ f \in Async
    BY <1>2, <1>4 DEF CountersOk
  <1>7. DataEffect(f)
    BY <1>1, <1>2, <1>4, <1>5, <1>6, TaskSet DEF CountersOk
  <1> PICK s : s = [Do("check", f) EXCEPT !.idx = idx]
    OBVIOUS
  <1>8. s \in StepsOf(f) /\ s.op = "check" /\ s.f = f
    <2>1. Do("check", f) \in StepRecords /\ Do("check", f).op = "check" /\ Do("check", f).f = f
      BY DEF Do, StepRecords, Status, OpNames, FrontOps
    <2> QED
      BY <2>1, <1>3 DEF StepRecords, StepsOf, JobOps, TaskOps
  <1> PICK p : p = <<s>>
    OBVIOUS
  <1>9. p \in ProgsOf(f) /\ p # <<>> /\ Head(p) = s
    BY <1>8 DEF ProgsOf
  <1>10. prog' = [prog EXCEPT ![f] = p]
    OBVIOUS
  <1>11. ProgEffect(f, p)
    BY <1>1, <1>8, <1>9, <1>10 DEF ProgEffect
  <1>12. prog'[f] = p
    BY <1>1, <1>9, <1>10, ProgsAfter
  <1>13. task'[f].exists /\ task'[f].state = "STARTED"
    BY <1>1, <1>2, <1>4, <1>5, <1>6 DEF FilterTypes
  <1>14. FrontOk(f)'
    BY <1>8, <1>9, <1>12, <1>13 DEF FrontOk, BufferOk, SubmitOk, JobOk, LinkOk
  <1> QED
    BY <1>1, <1>7, <1>11, <1>14, StepKeeps
-----------------------------------------------------------------------------
(* The calls of the callers.                                                *)

\* The filters of a sequence with one more, and with one less.
LEMMA RangeAppended ==
    ASSUME NEW T, NEW s \in Seq(T), NEW e \in T
    PROVE  Append(s, e) \in Seq(T) /\ Range(Append(s, e)) = Range(s) \cup {e}
  <1>1. Append(s, e) \in Seq(T) /\ ToSet(Append(s, e)) = ToSet(s) \cup {e}
    BY AppendToSet
  <1>2. \A r : Range(r) = ToSet(r)
    BY DEF Range, ToSet
  <1> QED
    BY <1>1, <1>2

\* Nothing new is in a sequence with one element less.
LEMMA RangeRemoved ==
    ASSUME NEW T, NEW s \in Seq(T), NEW e
    PROVE  RemoveFirst(s, e) \in Seq(T) /\ Range(RemoveFirst(s, e)) \subseteq Range(s)
  <1> DEFINE I == {i \in 1 .. Len(s) : s[i] = e}
  <1>1. CASE I = {}
    BY <1>1 DEF RemoveFirst
  <1>2. CASE I # {}
    <2> PICK m : m = Min(I)
      OBVIOUS
    <2>0. I \subseteq Nat /\ I \subseteq 1 .. Len(s) /\ Len(s) \in Nat
      OBVIOUS
    <2>1. m \in 1 .. Len(s)
      <3> HIDE DEF I
      <3> QED
        BY <1>2, <2>0, MinOfNats
    <2>2. RemoveFirst(s, e) = RemoveAt(s, m)
      <3>1. \E i \in 1 .. Len(s) : s[i] = e
        BY <1>2
      <3>2. SelectInSeq(s, LAMBDA v : v = e) = m
        BY <1>2 DEF SelectInSeq
      <3> QED
        BY <3>1, <3>2 DEF RemoveFirst
    <2> PICK r : r = RemoveAt(s, m)
      OBVIOUS
    <2>3. /\ r \in Seq(T) /\ Len(r) = Len(s) - 1
          /\ \A j \in 1 .. Len(s) - 1 : r[j] = IF j < m THEN s[j] ELSE s[j + 1]
      BY <2>1, RemoveAtElements
    <2>4. DOMAIN r = 1 .. Len(r) /\ DOMAIN s = 1 .. Len(s) /\ Len(s) \in Nat
      BY <2>3, LenProperties
    <2>5. ASSUME NEW j \in DOMAIN r PROVE \E k \in DOMAIN s : r[j] = s[k]
      <3>0. DOMAIN r = 1 .. Len(s) - 1
        BY <2>3, <2>4
      <3>1. j \in Nat /\ j >= 1 /\ j <= Len(s) - 1
        BY ONLY <2>4, <2>5, <3>0, j \in DOMAIN r
      <3>2. j \in 1 .. Len(s) - 1 /\ j \in 1 .. Len(s) /\ j + 1 \in 1 .. Len(s)
        BY <3>1, <2>4
      <3>3. r[j] = s[j] \/ r[j] = s[j + 1]
        BY <2>3, <3>2
      <3> QED
        BY <2>4, <3>2, <3>3
    <2>6. Range(r) \subseteq Range(s)
      BY <2>5 DEF Range
    <2> QED
      BY <2>2, <2>3, <2>6
  <1> QED
    BY <1>1, <1>2

\* A caller that is in no call has nothing to do.
LEMMA Idle ==
    ASSUME PipelineInv, NEW c \in Callers, command[c] = None
    PROVE  prog[c] = <<>>
  BY DEF PipelineInv, CallsOk

(* A call begins: c gets the program p and the heads may change.            *)
CallBegins(c, op, p) ==
    /\ command[c] = None /\ op # None
    /\ command' = [command EXCEPT ![c] = op]
    /\ prog' = [prog EXCEPT ![c] = p] /\ p \in ProgsOf(c)
    /\ result' = [result EXCEPT ![c] = "OK"]
    /\ op = "buffer" => \A d \in Callers : command[d] # "buffer"
    /\ mutex' \in Callers \cup {None}
    /\ nCalls' \in Nat
    /\ nextFilters' \in [Filters -> Seq(Filters)] /\ filters' \in Seq(Filters)
    /\ UNCHANGED <<filter, task, stateMutex, failures, clean, last>>

\* A call that begins keeps the invariant if its program and the trees agree with it.
LEMMA BeginKeeps ==
    ASSUME PipelineInv, NEW c \in Callers, NEW op, NEW p, CallBegins(c, op, p),
           FrontOk(c)', TreesOk', LinkedOnce', Building'
    PROVE  PipelineInv'
  <1>0. Types /\ FilterTypes /\ PipelineTypes /\ CallsOk /\ c \in Threads
    BY DEF PipelineInv, Types, Threads
  <1>1. /\ prog' = [u \in Threads |-> prog'[u]]
        /\ prog'[c] = p
        /\ \A u \in Threads : u # c => prog'[u] = prog[u]
        /\ \A u \in Threads : prog'[u] \in ProgsOf(u)
    BY <1>0, ProgsAfter DEF CallBegins
  <1>2. /\ command' = [d \in Callers |-> command'[d]]
        /\ command'[c] = op /\ \A d \in Callers : d # c => command'[d] = command[d]
    BY <1>0 DEF PipelineTypes, CallBegins
  <1>3. Types'
    <2>1. result' \in [Callers -> Status]
      BY <1>0 DEF FilterTypes, CallBegins, Status
    <2>2. FilterTypes'
      BY <1>0, <1>1, <2>1 DEF FilterTypes, CallBegins
    <2>3. PipelineTypes'
      BY <1>0, <1>2 DEF PipelineTypes, CallBegins
    <2> QED
      BY <2>2, <2>3 DEF Types
  <1>4. \A f \in Filters : CountersOk(f)'
    BY DEF PipelineInv, CountersOk, CallBegins
  <1>5. ASSUME NEW u \in Threads, u # c PROVE FrontOk(u)'
    <2> SUFFICES ASSUME prog[u] # <<>> PROVE FrontOk(u)'
      BY <1>1, <1>5 DEF FrontOk
    <2> PICK s : s = Head(prog[u])
      OBVIOUS
    <2>1. /\ s = Head(prog'[u]) /\ s \in StepsOf(u)
          /\ BufferOk(u, s) /\ SubmitOk(s) /\ JobOk(s) /\ LinkOk(s)
      BY <1>0, <1>1, <1>5, HeadStep DEF PipelineInv, FrontOk
    <2>2. s.op = "buffer" => u \in Callers
      BY <2>1 DEF StepsOf, TaskOps, Messages, JobOps
    <2>3. BufferOk(u, s)'
      BY <1>2, <1>5, <2>1, <2>2 DEF BufferOk, CallBegins
    <2>4. SubmitOk(s)' /\ JobOk(s)' /\ LinkOk(s)'
      BY <2>1 DEF SubmitOk, JobOk, LinkOk, CallBegins
    <2> QED
      BY <2>1, <2>3, <2>4 DEF FrontOk
  <1>6. CallsOk'
    <2>1. \A d \in Callers : prog'[d] # <<>> => command'[d] # None
      BY <1>0, <1>1, <1>2 DEF CallsOk, CallBegins, Threads
    <2>2. \A d, e \in Callers : command'[d] = "buffer" /\ command'[e] = "buffer" => d = e
      BY <1>0, <1>2 DEF CallsOk, CallBegins
    <2> QED
      BY <2>1, <2>2 DEF CallsOk
  <1> QED
    BY <1>3, <1>4, <1>5, <1>6 DEF PipelineInv

\* A counted call ends the building of the trees.
LEMMA CountedKeeps ==
    ASSUME PipelineInv, NEW c \in Callers, NEW op, NEW p, CallBegins(c, op, p),
           FrontOk(c)', p # <<>> => Head(p).op # "link",
           nCalls' = nCalls + 1, nextFilters' = nextFilters, Range(filters') \subseteq Range(filters)
    PROVE  PipelineInv'
  <1>1. FilterTypes /\ PipelineTypes /\ c \in Threads /\ LinkedOnce /\ TreesOk
    BY DEF PipelineInv, Types, Threads
  <1>2. prog'[c] = p /\ \A u \in Threads : u # c => prog'[u] = prog[u]
    BY <1>1, ProgsAfter DEF CallBegins
  <1>3. TreesOk'
    BY <1>1 DEF TreesOk
  <1>4. LinkedOnce'
    <2>1. \A d \in Callers, f \in Filters : Linking(d, f)' => Linking(d, f)
      BY <1>2 DEF Linking, Threads
    <2> QED
      BY <1>1, <2>1 DEF LinkedOnce
  <1>5. Building'
    BY <1>1 DEF Building, PipelineTypes
  <1> QED
    BY <1>3, <1>4, <1>5, BeginKeeps

\* Programs of two parts and of three.
LEMMA ThreeParts ==
    ASSUME NEW t, NEW a \in Seq(LaterSteps(t)), NEW b \in Seq(LaterSteps(t)),
           NEW d \in Seq(LaterSteps(t))
    PROVE  a \o b \o d \in Seq(LaterSteps(t)) /\ a \o b \in Seq(LaterSteps(t))
  <1>1. a \o b \in Seq(LaterSteps(t))
    BY Joined
  <1> PICK e : e = a \o b
    OBVIOUS
  <1>2. e \o d \in Seq(LaterSteps(t))
    BY <1>1, Joined
  <1> QED
    BY <1>1, <1>2

\* A counted call whose program has no first step of its own.
LEMMA PlainCallKeeps ==
    ASSUME PipelineInv, NEW c \in Callers, NEW op, op # None, op # "buffer",
           NEW p \in Seq(LaterSteps(c)), Counted(c, op), Begin(c, op, p),
           mutex' \in Callers \cup {None},
           filters' \in Seq(Filters), Range(filters') \subseteq Range(filters),
           UNCHANGED <<filter, nextFilters, task, stateMutex, failures, last, clean>>
    PROVE  PipelineInv'
  <1>1. FilterTypes /\ PipelineTypes /\ c \in Threads
    BY DEF PipelineInv, Types, Threads
  <1>2. p \in ProgsOf(c)
    BY LaterIsProg
  <1>3. nCalls' = nCalls + 1 /\ nCalls' \in Nat
    BY <1>1 DEF Counted, PipelineTypes
  <1>4. CallBegins(c, op, p)
    BY <1>1, <1>2, <1>3 DEF CallBegins, Begin, FilterTypes
  <1>5. prog'[c] = p
    BY <1>1, <1>2, ProgsAfter DEF Begin
  <1>6. FrontOk(c)'
    BY <1>5, LaterFront
  <1>7. p # <<>> => Head(p).op # "link"
    <2>1. p # <<>> => Head(p) \in LaterSteps(c)
      OBVIOUS
    <2> QED
      BY <2>1 DEF LaterSteps, FrontOps
  <1> QED
    BY <1>3, <1>4, <1>6, <1>7, CountedKeeps

\* The commands.
LEMMA CommandKeeps ==
    ASSUME PipelineInv, NEW c \in Callers,
           NEW op \in {"prepare", "start", "pause", "resume", "stop", "release"}, Command(c, op)
    PROVE  PipelineInv'
  <1>1. FilterTypes /\ PipelineTypes
    BY DEF PipelineInv, Types
  <1> PICK a : a = Each(op, filters)
    OBVIOUS
  <1> PICK w : w = WaitFor(filters, AwaitedState(op))
    OBVIOUS
  <1> PICK d : d = IF op \in {"stop", "release"} THEN <<Do("clearHeads", None)>> ELSE <<>>
    OBVIOUS
  <1>2. a \in Seq(LaterSteps(c))
    BY <1>1, EachSteps DEF PipelineTypes, DownOps
  <1>3. w \in Seq(LaterSteps(c))
    <2>1. AwaitedState(op) \in FilterState
      BY DEF AwaitedState, FilterState
    <2> QED
      BY <1>1, <2>1, WaitSteps DEF PipelineTypes
  <1>4. d \in Seq(LaterSteps(c))
    <2>1. Do("clearHeads", None) \in LaterSteps(c)
      BY DEF Do, StepRecords, Status, OpNames, StepsOf, LaterSteps, FrontOps, JobOps, TaskOps, Messages
    <2>2. <<Do("clearHeads", None)>> \in Seq(LaterSteps(c))
      BY <2>1
    <2> QED
      BY <2>2, EmptySteps
  <1> PICK p : p = a \o w \o d
    OBVIOUS
  <1>5. p \in Seq(LaterSteps(c))
    BY <1>2, <1>3, <1>4, ThreeParts
  <1>6. Begin(c, op, p)
    BY DEF Command
  <1>7. op # None /\ op # "buffer"
    OBVIOUS
  <1>8. /\ Counted(c, op) /\ mutex' \in Callers \cup {None}
        /\ filters' \in Seq(Filters) /\ Range(filters') \subseteq Range(filters)
        /\ UNCHANGED <<filter, nextFilters, task, stateMutex, failures, last, clean>>
    BY <1>1 DEF Command, PipelineTypes
  <1> QED
    BY <1>5, <1>6, <1>7, <1>8, PlainCallKeeps

\* The flush.
LEMMA PipelineFlushKeeps ==
    ASSUME PipelineInv, NEW c \in Callers, PipelineFlush(c)
    PROVE  PipelineInv'
  <1>1. FilterTypes /\ PipelineTypes
    BY DEF PipelineInv, Types
  <1>2. Each("flush", filters) \in Seq(LaterSteps(c))
    BY <1>1, EachSteps DEF PipelineTypes, DownOps
  <1>3. /\ Counted(c, "flush") /\ mutex' \in Callers \cup {None}
        /\ Begin(c, "flush", Each("flush", filters))
        /\ filters' \in Seq(Filters) /\ Range(filters') \subseteq Range(filters)
        /\ UNCHANGED <<filter, nextFilters, task, stateMutex, failures, last, clean>>
    BY <1>1 DEF PipelineFlush, PipelineTypes
  <1> QED
    BY <1>2, <1>3, PlainCallKeeps

\* A head is removed: it leaves filters_ and is released.
LEMMA RemoveKeeps ==
    ASSUME PipelineInv, NEW c \in Callers, NEW f \in Filters, RemoveHeadFilter(c, f)
    PROVE  PipelineInv'
  <1>1. FilterTypes /\ PipelineTypes
    BY DEF PipelineInv, Types
  <1> PICK a : a = <<Do("release", f)>>
    OBVIOUS
  <1> PICK w : w = WaitFor(<<f>>, "RELEASED")
    OBVIOUS
  <1> PICK d : d = <<Do("clearNext", f)>>
    OBVIOUS
  <1>2. a \in Seq(LaterSteps(c)) /\ d \in Seq(LaterSteps(c))
    BY DoSteps DEF OpNames, FrontOps, JobOps, TaskOps, Messages
  <1>3. w \in Seq(LaterSteps(c))
    <2>1. <<f>> \in Seq(Filters) /\ "RELEASED" \in FilterState
      BY DEF FilterState
    <2> QED
      BY <2>1, WaitSteps
  <1> PICK p : p = a \o w \o d
    OBVIOUS
  <1>4. p \in Seq(LaterSteps(c))
    BY <1>2, <1>3, ThreeParts
  <1>5. Begin(c, "remove", p)
    BY DEF RemoveHeadFilter
  <1>6. filters' \in Seq(Filters) /\ Range(filters') \subseteq Range(filters)
    BY <1>1, RangeRemoved DEF RemoveHeadFilter, PipelineTypes
  <1>7. /\ Counted(c, "remove") /\ mutex' \in Callers \cup {None}
        /\ UNCHANGED <<filter, nextFilters, task, stateMutex, failures, last, clean>>
    BY <1>1 DEF RemoveHeadFilter, PipelineTypes
  <1> QED
    BY <1>4, <1>5, <1>6, <1>7, PlainCallKeeps

\* A call on a filter itself.
LEMMA DirectKeeps ==
    ASSUME PipelineInv, NEW c \in Callers, NEW op, NEW f \in Filters, Direct(c, op, f)
    PROVE  PipelineInv'
  <1>1. FilterTypes /\ PipelineTypes /\ c \in Threads
    BY DEF PipelineInv, Types, Threads
  <1>2. op \in {"freeze", "unfreeze", "muted", "reInit", "buffer"}
    BY DEF Direct
  <1>3. /\ Counted(c, op) /\ mutex' \in Callers \cup {None}
        /\ Begin(c, op, <<Do(op, f)>>)
        /\ filters' \in Seq(Filters) /\ Range(filters') \subseteq Range(filters)
        /\ UNCHANGED <<filter, nextFilters, task, stateMutex, failures, last, clean>>
    BY <1>1 DEF Direct, PipelineTypes
  <1>4. CASE op # "buffer"
    <2>1. <<Do(op, f)>> \in Seq(LaterSteps(c))
      <3>1. /\ op \in OpNames /\ op \notin FrontOps /\ op \notin JobOps
            /\ op \notin {"change", "haltTask", "insert"}
        BY <1>2, <1>4 DEF OpNames, FrontOps, JobOps
      <3> QED
        BY <3>1, DoSteps
    <2> QED
      BY <1>2, <1>3, <1>4, <2>1, PlainCallKeeps
  <1>5. CASE op = "buffer"
    <2> PICK s : s = Do("buffer", f)
      OBVIOUS
    <2> PICK p : p = <<s>>
      OBVIOUS
    <2>1. s \in StepsOf(c) /\ s.op = "buffer" /\ s.f = f
      <3>1. Do("buffer", f) \in StepRecords /\ Do("buffer", f).op = "buffer" /\ Do("buffer", f).f = f
        BY DEF Do, StepRecords, Status, OpNames, FrontOps
      <3> QED
        BY <3>1 DEF StepsOf, JobOps
    <2>2. p \in ProgsOf(c) /\ p # <<>> /\ Head(p) = s
      BY <2>1 DEF ProgsOf
    <2>3. /\ filter[f].jobIdx < MaxBuffers /\ \A d \in Callers : command[d] # "buffer"
      BY <1>5 DEF Direct
    <2>4. nCalls' = nCalls + 1 /\ nCalls' \in Nat
      BY <1>1, <1>3 DEF Counted, PipelineTypes
    <2>5. CallBegins(c, op, p)
      BY <1>1, <1>3, <1>5, <2>2, <2>3, <2>4 DEF CallBegins, Begin, FilterTypes
    <2>6. prog'[c] = p
      BY <1>1, <2>2, <2>5, ProgsAfter DEF CallBegins
    <2>7. command'[c] = "buffer"
      BY <1>1, <1>5, <2>5 DEF CallBegins, PipelineTypes
    <2>8. FrontOk(c)'
      BY <1>3, <2>1, <2>2, <2>3, <2>6, <2>7 DEF FrontOk, BufferOk, SubmitOk, JobOk, LinkOk
    <2> QED
      BY <1>3, <2>1, <2>2, <2>4, <2>5, <2>8, CountedKeeps
  <1> QED
    BY <1>4, <1>5

\* A head is added: its link, then its entry in the heads.
LEMMA AddHeadKeeps ==
    ASSUME PipelineInv, NEW c \in Callers, NEW f \in Filters, AddHeadFilters(c, f)
    PROVE  PipelineInv'
  <1>1. /\ FilterTypes /\ PipelineTypes /\ c \in Threads /\ TreesOk /\ Building /\ LinkedOnce
    BY DEF PipelineInv, Types, Threads
  <1>2. /\ f \in Heads /\ nCalls = 0 /\ f \notin Range(filters)
        /\ \A d \in Callers : command[d] = None /\ prog[d] = <<>>
    BY Idle DEF AddHeadFilters
  <1> PICK a : a = Do("link", f)
    OBVIOUS
  <1> PICK b : b = Do("insert", f)
    OBVIOUS
  <1> PICK p : p = <<a, b>>
    OBVIOUS
  <1>3. /\ a \in StepsOf(c) /\ a.op = "link" /\ a.f = f
        /\ b \in LaterSteps(c) /\ b \in StepsOf(c) /\ b.op = "insert" /\ b.f = f
    <2>1. /\ a \in StepRecords /\ a.op = "link" /\ a.f = f
          /\ b \in StepRecords /\ b.op = "insert" /\ b.f = f
      BY DEF Do, StepRecords, Status, OpNames, FrontOps
    <2> QED
      BY <2>1, <1>2 DEF StepsOf, LaterSteps, JobOps, FrontOps, TaskOps
  <1>4. /\ p \in Seq(StepsOf(c)) /\ DOMAIN p = 1 .. 2 /\ p[1] = a /\ p[2] = b
        /\ p # <<>> /\ Head(p) = a
    BY <1>3
  <1>5. p \in ProgsOf(c)
    <2>1. ASSUME NEW i \in DOMAIN p, i # 1 PROVE p[i] \in LaterSteps(c)
      <3>1. i = 2
        BY <1>4, <2>1
      <3> QED
        BY <1>3, <1>4, <3>1
    <2> QED
      BY <1>4, <2>1 DEF ProgsOf
  <1>6. CallBegins(c, "add", p)
    BY <1>1, <1>2, <1>5 DEF CallBegins, Begin, FilterTypes, PipelineTypes, AddHeadFilters
  <1>7. UNCHANGED <<filter, nextFilters, task, filters, nCalls>>
    BY DEF AddHeadFilters
  <1>8. prog'[c] = p /\ \A u \in Callers : u # c => prog'[u] = <<>>
    <2>1. \A u \in Threads : u # c => prog'[u] = prog[u]
      BY <1>1, <1>5, ProgsAfter DEF AddHeadFilters, Begin
    <2>2. prog'[c] = p
      BY <1>1, <1>5, ProgsAfter DEF AddHeadFilters, Begin
    <2> QED
      BY <1>2, <2>1, <2>2 DEF Threads
  <1>9. ~Known(f)
    <2>1. ~IsNext(f)
      BY <1>1, <1>2 DEF TreesOk, IsNext
    <2>2. \A d \in Callers : ~Inserting(d, f)
      BY <1>2 DEF Inserting
    <2> QED
      BY <1>2, <2>1, <2>2 DEF Known
  <1>10. FrontOk(c)'
    <2>1. ~task[f].exists
      BY <1>1, <1>2, <1>9 DEF Building
    <2> QED
      BY <1>3, <1>4, <1>7, <1>8, <2>1 DEF FrontOk, BufferOk, SubmitOk, JobOk, LinkOk
  <1>11. TreesOk'
    BY <1>1, <1>7 DEF TreesOk
  <1>12. \A d \in Callers, g \in Filters : Linking(d, g)' => d = c /\ g = f
    BY <1>3, <1>4, <1>8 DEF Linking
  <1>13. LinkedOnce'
    BY <1>12 DEF LinkedOnce
  <1>14. Building'
    <2>1. ASSUME NEW d \in Callers, NEW i \in DOMAIN prog'[d] PROVE prog'[d][i].op \in BuildOps
      <3>1. d = c
        BY <1>8, <2>1
      <3>2. i \in 1 .. 2
        BY <1>4, <1>8, <2>1, <3>1
      <3>3. i = 1 \/ i = 2
        BY <3>2
      <3> QED
        BY <1>3, <1>4, <1>8, <3>1, <3>3 DEF BuildOps
    <2>2. ASSUME NEW g \in Filters, Known(g) PROVE Known(g)'
      <3>1. \A d \in Callers : ~Inserting(d, g)
        BY <1>2 DEF Inserting
      <3> QED
        BY <1>7, <2>2, <3>1 DEF Known, IsNext
    <2>3. Known(f)'
      <3>1. 2 \in DOMAIN prog'[c] /\ prog'[c][2] = b
        BY <1>4, <1>8
      <3>2. Inserting(c, f)'
        BY <1>3, <3>1 DEF Inserting
      <3> QED
        BY <1>2, <3>2 DEF Known
    <2>4. \A g \in Filters : task'[g].exists => Known(g)'
      BY <1>1, <1>2, <1>7, <2>2 DEF Building
    <2>5. \A d \in Callers, g \in Filters : Linking(d, g)' => Known(g)'
      BY <1>12, <2>3
    <2> QED
      BY <2>1, <2>4, <2>5 DEF Building
  <1> QED
    BY <1>6, <1>10, <1>11, <1>13, <1>14, BeginKeeps

\* A filter is linked under another.
LEMMA LinkFiltersKeeps ==
    ASSUME PipelineInv, NEW c \in Callers, NEW f \in Filters, NEW g \in Filters,
           LinkFilters(c, f, g)
    PROVE  PipelineInv'
  <1>1. /\ FilterTypes /\ PipelineTypes /\ c \in Threads /\ TreesOk /\ Building /\ LinkedOnce
    BY DEF PipelineInv, Types, Threads
  <1>2. command[c] = None /\ prog[c] = <<>> /\ nCalls = 0
    BY Idle DEF LinkFilters, Begin
  <1>3. g \notin Heads
    <2>1. <<f, g>> \in Links
      BY DEF LinkFilters
    <2>2. <<f, g>>[2] = g
      OBVIOUS
    <2> QED
      BY <2>1, <2>2, LinksAssumption
  <1> PICK a : a = Do("link", g)
    OBVIOUS
  <1> PICK p : p = <<a>>
    OBVIOUS
  <1>4. a \in StepsOf(c) /\ a.op = "link" /\ a.f = g
    <2>1. a \in StepRecords /\ a.op = "link" /\ a.f = g
      BY DEF Do, StepRecords, Status, OpNames, FrontOps
    <2> QED
      BY <2>1 DEF StepsOf, JobOps
  <1>5. p \in ProgsOf(c) /\ DOMAIN p = 1 .. 1 /\ p[1] = a /\ p # <<>> /\ Head(p) = a
    BY <1>4 DEF ProgsOf
  <1> PICK ns : ns = Append(nextFilters[f], g)
    OBVIOUS
  <1>6. ns \in Seq(Filters) /\ Range(ns) = Range(nextFilters[f]) \cup {g}
    BY <1>1, RangeAppended DEF FilterTypes
  <1>7. nextFilters' = [nextFilters EXCEPT ![f] = ns]
    BY DEF LinkFilters
  <1>8. /\ nextFilters' \in [Filters -> Seq(Filters)] /\ nextFilters'[f] = ns
        /\ \A h \in Filters : h # f => nextFilters'[h] = nextFilters[h]
    BY <1>1, <1>6, <1>7 DEF FilterTypes
  <1>9. UNCHANGED <<filter, task, stateMutex, failures, filters, mutex, nCalls, last, clean>>
    BY DEF LinkFilters
  <1>10. CallBegins(c, "link", p)
    <2>1. Begin(c, "link", p)
      BY DEF LinkFilters
    <2> QED
      BY <1>1, <1>2, <1>5, <1>8, <1>9, <2>1 DEF CallBegins, Begin, PipelineTypes
  <1>11. prog'[c] = p /\ \A u \in Callers : u # c => prog'[u] = prog[u]
    <2>1. prog'[c] = p /\ \A u \in Threads : u # c => prog'[u] = prog[u]
      BY <1>1, <1>5, <1>10, ProgsAfter DEF CallBegins
    <2> QED
      BY <2>1 DEF Threads
  <1>12. ~Known(g)
    <2>1. \A h \in Filters : g \notin Range(nextFilters[h])
      BY DEF LinkFilters
    <2> QED
      BY <1>3, <2>1 DEF Known, IsNext
  <1>13. FrontOk(c)'
    <2>1. ~task[g].exists
      BY <1>1, <1>2, <1>12 DEF Building
    <2> QED
      BY <1>4, <1>5, <1>9, <1>11, <2>1 DEF FrontOk, BufferOk, SubmitOk, JobOk, LinkOk
  <1>14. TreesOk'
    <2>1. ASSUME NEW h \in Filters PROVE Range(nextFilters'[h]) \cap Heads = {}
      <3>1. Range(nextFilters[h]) \cap Heads = {}
        BY <1>1 DEF TreesOk
      <3>2. CASE h = f
        <4>1. Range(nextFilters'[h]) = Range(nextFilters[h]) \cup {g}
          BY <1>6, <1>8, <3>2
        <4> QED
          BY <1>3, <3>1, <4>1
      <3>3. CASE h # f
        BY <1>8, <3>1, <3>3
      <3> QED
        BY <3>2, <3>3
    <2> QED
      BY <1>1, <1>9, <2>1 DEF TreesOk
  <1>15. \A d \in Callers, h \in Filters : Linking(d, h)' => (d = c /\ h = g) \/ (d # c /\ Linking(d, h))
    BY <1>4, <1>5, <1>11 DEF Linking
  <1>16. \A d \in Callers, h \in Filters : Linking(d, h) => Known(h)
    BY <1>1, <1>2 DEF Building
  <1>17. LinkedOnce'
    BY <1>1, <1>12, <1>15, <1>16 DEF LinkedOnce
  <1>18. Building'
    <2>1. ASSUME NEW d \in Callers, NEW i \in DOMAIN prog'[d] PROVE prog'[d][i].op \in BuildOps
      <3>1. CASE d = c
        <4>1. i = 1
          BY <1>5, <1>11, <2>1, <3>1
        <4> QED
          BY <1>4, <1>5, <1>11, <3>1, <4>1 DEF BuildOps
      <3>2. CASE d # c
        BY <1>1, <1>2, <1>11, <2>1, <3>2 DEF Building
      <3> QED
        BY <3>1, <3>2
    <2>2. ASSUME NEW h \in Filters, Known(h) PROVE Known(h)'
      <3>1. CASE IsNext(h)
        <4>1. PICK k \in Filters : h \in Range(nextFilters[k])
          BY <3>1 DEF IsNext
        <4>2. h \in Range(nextFilters'[k])
          BY <1>6, <1>8, <4>1
        <4> QED
          BY <4>2 DEF Known, IsNext
      <3>2. CASE ~IsNext(h)
        <4>1. \A d \in Callers : Inserting(d, h) => Inserting(d, h)'
          BY <1>2, <1>11 DEF Inserting
        <4> QED
          BY <1>9, <2>2, <3>2, <4>1 DEF Known
      <3> QED
        BY <3>1, <3>2
    <2>3. Known(g)'
      <3>1. g \in Range(nextFilters'[f])
        BY <1>6, <1>8
      <3> QED
        BY <3>1 DEF Known, IsNext
    <2>4. \A h \in Filters : task'[h].exists => Known(h)'
      BY <1>1, <1>2, <1>9, <2>2 DEF Building
    <2>5. \A d \in Callers, h \in Filters : Linking(d, h)' => Known(h)'
      BY <1>15, <1>16, <2>2, <2>3
    <2> QED
      BY <2>1, <2>4, <2>5 DEF Building
  <1> QED
    BY <1>10, <1>13, <1>14, <1>17, <1>18, BeginKeeps
-----------------------------------------------------------------------------
(* The steps of the callers on the heads, and their returns.                *)

\* A caller takes a step that changes the heads only.
LEMMA HeadsStep ==
    ASSUME PipelineInv, NEW c \in Callers, prog[c] # <<>>, Goes(c, <<>>),
           filters' \in Seq(Filters), Range(filters') \subseteq Heads,
           UNCHANGED <<filter, nextFilters, task, stateMutex, result, failures, mutex, command,
                       nCalls, last, clean>>,
           ASSUME nCalls = 0, NEW f \in Filters, Known(f), NEW p \in Seq(LaterSteps(c)),
                  prog'[c] = p, RestIn(prog[c], p),
                  \A d \in Callers : d # c => prog'[d] = prog[d]
           PROVE  Known(f)'
    PROVE  PipelineInv'
  <1>1. /\ FilterTypes /\ PipelineTypes /\ c \in Threads /\ TreesOk /\ Building /\ LinkedOnce
        /\ CallsOk
    BY DEF PipelineInv, Types, Threads
  <1> PICK old : old = prog[c]
    OBVIOUS
  <1> PICK q : q = <<>>
    OBVIOUS
  <1> PICK p : p = q \o Tail(old)
    OBVIOUS
  <1>2. old \in ProgsOf(c) /\ old # <<>> /\ q \in Seq(LaterSteps(c))
    BY <1>1, EmptySteps DEF FilterTypes
  <1>3. p \in Seq(LaterSteps(c)) /\ p \in ProgsOf(c) /\ RestIn(old, p) /\ OnlyFrom(p, q, old)
    BY ONLY <1>2, p = q \o Tail(old), RestKept
  <1>4. prog' = [prog EXCEPT ![c] = p]
    BY DEF Goes
  <1>5. /\ prog' = [u \in Threads |-> prog'[u]]
        /\ prog'[c] = p
        /\ \A u \in Threads : u # c => prog'[u] = prog[u]
        /\ \A u \in Threads : prog'[u] \in ProgsOf(u)
    BY <1>1, <1>3, <1>4, ProgsAfter
  <1>6. Types'
    BY <1>1, <1>5 DEF Types, FilterTypes, PipelineTypes
  <1>7. \A f \in Filters : CountersOk(f)'
    BY DEF PipelineInv, CountersOk
  <1>8. ASSUME NEW u \in Threads PROVE FrontOk(u)'
    <2>1. CASE u = c
      BY <1>3, <1>5, <2>1, LaterFront
    <2>2. CASE u # c
      <3>1. prog'[u] = prog[u] /\ FrontOk(u)
        BY <1>5, <2>2 DEF PipelineInv
      <3> QED
        BY <3>1 DEF FrontOk, BufferOk, SubmitOk, JobOk, LinkOk
    <2> QED
      BY <2>1, <2>2
  <1>9. CallsOk'
    BY <1>1, <1>5 DEF CallsOk, Threads
  <1>10. TreesOk'
    BY <1>1 DEF TreesOk
  <1>11. \A d \in Callers, f \in Filters : Linking(d, f)' => Linking(d, f)
    <2>1. p # <<>> => Head(p).op # "link"
      <3>1. p # <<>> => Head(p) \in LaterSteps(c)
        BY <1>3
      <3> QED
        BY <3>1 DEF LaterSteps, FrontOps
    <2> QED
      BY <1>5, <2>1 DEF Linking, Threads
  <1>12. LinkedOnce'
    BY <1>1, <1>11 DEF LinkedOnce
  <1>13. Building'
    <2> SUFFICES ASSUME nCalls = 0
                 PROVE  /\ \A d \in Callers : \A i \in DOMAIN prog'[d] : prog'[d][i].op \in BuildOps
                        /\ \A f \in Filters : task'[f].exists => Known(f)'
                        /\ \A d \in Callers, f \in Filters : Linking(d, f)' => Known(f)'
      BY DEF Building
    <2>1. ASSUME NEW d \in Callers, NEW i \in DOMAIN prog'[d] PROVE prog'[d][i].op \in BuildOps
      <3>1. CASE d = c
        <4>1. i \in DOMAIN p /\ prog'[d][i] = p[i]
          BY <1>5, <2>1, <3>1
        <4>2. PICK j \in DOMAIN old : p[i] = old[j]
          BY <1>3, <4>1 DEF OnlyFrom
        <4> QED
          BY <1>1, <4>1, <4>2 DEF Building
      <3>2. CASE d # c
        BY <1>1, <1>5, <2>1, <3>2 DEF Building, Threads
      <3> QED
        BY <3>1, <3>2
    <2>2. ASSUME NEW f \in Filters, Known(f) PROVE Known(f)'
      <3>1. \A d \in Callers : d # c => prog'[d] = prog[d]
        BY <1>5 DEF Threads
      <3>2. prog'[c] = p /\ RestIn(prog[c], p)
        BY <1>3, <1>5
      <3> QED
        BY <1>3, <2>2, <3>1, <3>2
    <2>3. \A f \in Filters : task'[f].exists => Known(f)'
      BY <1>1, <2>2 DEF Building
    <2>4. \A d \in Callers, f \in Filters : Linking(d, f)' => Known(f)'
      BY <1>1, <1>11, <2>2 DEF Building
    <2> QED
      BY <2>1, <2>3, <2>4
  <1> QED
    BY <1>6, <1>7, <1>8, <1>9, <1>10, <1>12, <1>13 DEF PipelineInv

\* A head enters filters_.
LEMMA InsertHeadKeeps ==
    ASSUME PipelineInv, NEW c \in Callers, InsertHead(c)
    PROVE  PipelineInv'
  <1>1. At(c, "insert") /\ c \in Threads
    BY DEF InsertHead, Threads
  <1> PICK h : h = Head(prog[c]).f
    OBVIOUS
  <1>2. /\ FilterTypes /\ PipelineTypes /\ TreesOk /\ prog[c] # <<>> /\ h \in Filters /\ h \in Heads
    BY <1>1, AtStep DEF PipelineInv, StepsOf
  <1>3. filters' \in Seq(Filters) /\ Range(filters') = Range(filters) \cup {h}
    BY <1>2, RangeAppended DEF InsertHead, PipelineTypes
  <1>4. Range(filters') \subseteq Heads
    BY <1>2, <1>3 DEF TreesOk
  <1>5. /\ Goes(c, <<>>)
        /\ UNCHANGED <<filter, nextFilters, task, stateMutex, result, failures, mutex, command,
                       nCalls, last, clean>>
    BY DEF InsertHead
  <1>6. ASSUME nCalls = 0, NEW f \in Filters, Known(f), NEW p \in Seq(LaterSteps(c)),
               prog'[c] = p, RestIn(prog[c], p),
               \A d \in Callers : d # c => prog'[d] = prog[d]
        PROVE  Known(f)'
    <2>1. CASE IsNext(f)
      BY <1>5, <2>1 DEF Known, IsNext
    <2>2. CASE f \in Heads /\ f \in Range(filters)
      BY <1>3, <2>2 DEF Known
    <2>3. ASSUME f \in Heads, NEW d \in Callers, Inserting(d, f) PROVE Known(f)'
      <3>1. PICK i \in DOMAIN prog[d] : prog[d][i].op = "insert" /\ prog[d][i].f = f
        BY <2>3 DEF Inserting
      <3>2. CASE d # c
        <4>1. prog'[d] = prog[d]
          BY <1>6, <3>2
        <4>2. Inserting(d, f)'
          BY <3>1, <4>1 DEF Inserting
        <4> QED
          BY <2>3, <4>2 DEF Known
      <3>3. CASE d = c /\ i = 1
        <4>1. h = f
          BY <1>1, <1>2, <3>1, <3>3, HeadStep
        <4> QED
          BY <1>3, <2>3, <4>1 DEF Known
      <3>4. CASE d = c /\ i # 1
        <4>1. PICK j \in DOMAIN p : p[j] = prog[c][i]
          BY <1>6, <3>1, <3>4 DEF RestIn
        <4>2. j \in DOMAIN prog'[c] /\ prog'[c][j].op = "insert" /\ prog'[c][j].f = f
          BY <1>6, <3>1, <3>4, <4>1
        <4>3. Inserting(c, f)'
          BY <4>2 DEF Inserting
        <4> QED
          BY <2>3, <4>3 DEF Known
      <3> QED
        BY <3>2, <3>3, <3>4
    <2> QED
      BY <1>6, <2>1, <2>2, <2>3 DEF Known
  <1> QED
    BY <1>2, <1>3, <1>4, <1>5, <1>6, HeadsStep

\* Stop and Release forget the heads.
LEMMA ClearHeadsKeeps ==
    ASSUME PipelineInv, NEW c \in Callers, ClearHeads(c)
    PROVE  PipelineInv'
  <1>1. At(c, "clearHeads") /\ c \in Threads
    BY DEF ClearHeads, Threads
  <1>2. prog[c] # <<>> /\ nCalls # 0
    BY <1>1, Built0 DEF At, BuildOps
  <1>3. filters' \in Seq(Filters) /\ Range(filters') \subseteq Heads
    BY DEF ClearHeads, Range
  <1>4. /\ Goes(c, <<>>)
        /\ UNCHANGED <<filter, nextFilters, task, stateMutex, result, failures, mutex, command,
                       nCalls, last, clean>>
    BY DEF ClearHeads
  <1> QED
    BY <1>2, <1>3, <1>4, HeadsStep

\* Nothing but the bookkeeping of the calls changes.
LEMMA ReturnKeeps ==
    ASSUME PipelineInv, NEW c \in Callers, Return(c)
    PROVE  PipelineInv'
  <1>1. /\ FilterTypes /\ PipelineTypes /\ CallsOk /\ TreesOk /\ LinkedOnce /\ Building
    BY DEF PipelineInv, Types
  <1>2. prog[c] = <<>> /\ UNCHANGED <<filterVars, filters, nCalls, clean>>
    BY DEF Return
  <1>3. /\ command' = [d \in Callers |-> command'[d]]
        /\ command'[c] = None /\ \A d \in Callers : d # c => command'[d] = command[d]
    BY <1>1 DEF PipelineTypes, Return
  <1>4. mutex' \in Callers \cup {None}
    BY <1>1 DEF PipelineTypes, Return
  <1>5. last'.ret \in Status
    BY <1>1 DEF PipelineTypes, FilterTypes, Return
  <1>6. Types'
    <2>1. FilterTypes'
      BY <1>1, <1>2 DEF FilterTypes, filterVars
    <2>2. PipelineTypes'
      BY <1>1, <1>2, <1>3, <1>4, <1>5 DEF PipelineTypes
    <2> QED
      BY <2>1, <2>2 DEF Types
  <1>7. \A f \in Filters : CountersOk(f)'
    BY <1>2 DEF PipelineInv, CountersOk, filterVars
  <1>8. ASSUME NEW u \in Threads PROVE FrontOk(u)'
    <2> SUFFICES ASSUME prog[u] # <<>> PROVE FrontOk(u)'
      BY <1>2 DEF FrontOk, filterVars
    <2> PICK s : s = Head(prog[u])
      OBVIOUS
    <2>1. /\ s = Head(prog'[u]) /\ s \in StepsOf(u)
          /\ BufferOk(u, s) /\ SubmitOk(s) /\ JobOk(s) /\ LinkOk(s)
      BY <1>1, <1>2, HeadStep DEF PipelineInv, FrontOk, filterVars
    <2>2. s.op = "buffer" => u \in Callers
      BY <2>1 DEF StepsOf, TaskOps, Messages, JobOps
    <2>3. BufferOk(u, s)'
      BY <1>2, <1>3, <2>1, <2>2 DEF BufferOk, filterVars
    <2>4. SubmitOk(s)' /\ JobOk(s)' /\ LinkOk(s)'
      BY <1>2, <2>1 DEF SubmitOk, JobOk, LinkOk, filterVars
    <2> QED
      BY <2>1, <2>3, <2>4 DEF FrontOk
  <1>9. CallsOk'
    <2>1. \A d \in Callers : prog'[d] # <<>> => command'[d] # None
      BY <1>1, <1>2, <1>3 DEF CallsOk, filterVars
    <2>2. \A d, e \in Callers : command'[d] = "buffer" /\ command'[e] = "buffer" => d = e
      BY <1>1, <1>3 DEF CallsOk
    <2> QED
      BY <2>1, <2>2 DEF CallsOk
  <1>10. TreesOk' /\ LinkedOnce' /\ Building'
    BY <1>1, <1>2 DEF TreesOk, LinkedOnce, Building, Linking, Known, IsNext, Inserting, filterVars
  <1> QED
    BY <1>6, <1>7, <1>8, <1>9, <1>10 DEF PipelineInv
-----------------------------------------------------------------------------
(* All together.                                                            *)

\* A step of a thread.
LEMMA FilterStepKeeps ==
    ASSUME PipelineInv, NEW t \in Threads, FilterStep(t)
    PROVE  PipelineInv'
  <1>1. CASE FlushBase(t)
    BY <1>1, FlushBaseKeeps
  <1>2. CASE ~At(t, "flushBase")
    <2>1. PipelineFrame
      BY <1>2 DEF FilterStep, PipelineFrame
    <2>2. CASE LinkPipeLine(t)
      BY <2>1, <2>2, LinkKeeps
    <2>3. CASE Prepare(t)
      BY <2>1, <2>3, PrepareKeeps
    <2>4. CASE Start(t) \/ Resume(t) \/ Release(t)
      BY <2>1, <2>4, StartLikeKeeps DEF Start, Resume, Release
    <2>5. CASE ReleaseOnMuted(t) \/ ReInitAndStart(t)
      BY <2>1, <2>5, OnMutedKeeps
    <2>6. CASE Freeze(t) \/ UnFreeze(t) \/ Flush(t)
      BY <2>1, <2>6, DownKeeps
    <2>7. CASE HaltTask(t)
      BY <2>1, <2>7, HaltTaskKeeps
    <2>8. CASE StartTask(t)
      BY <2>1, <2>8, StartTaskKeeps
    <2>9. CASE ClearAllNextFilters(t)
      BY <2>1, <2>9, ClearNextKeeps
    <2>10. CASE Done(t)
      BY <2>1, <2>10, DoneKeeps
    <2>11. CASE PrepareDone(t)
      BY <2>1, <2>11, PrepareDoneKeeps
    <2>12. CASE ChangeState(t)
      BY <2>1, <2>12, ChangeKeeps
    <2>13. CASE WaitReached(t) \/ EndWait(t) \/ WaitFailed(t) \/ WaitTimeout(t)
      BY <2>1, <2>13, WaitKeeps
    <2>19. CASE GetErrCode(t)
      BY <2>1, <2>19, GetErrCodeKeeps
    <2>14. CASE ProcessBuffer(t)
      BY <2>1, <2>14, BufferKeeps
    <2>15. CASE SubmitBuffer(t)
      BY <2>1, <2>15, SubmitKeeps
    <2>16. CASE CheckDrop(t)
      BY <2>1, <2>16, CheckKeeps
    <2>17. CASE ProcessDone(t)
      BY <2>1, <2>17, ProcessDoneKeeps
    <2>18. ~FlushBase(t)
      BY <1>2 DEF FlushBase
    <2> QED
      BY <2>2, <2>3, <2>4, <2>5, <2>6, <2>7, <2>8, <2>9, <2>10, <2>11, <2>12, <2>13, <2>14,
         <2>15, <2>16, <2>17, <2>18, <2>19 DEF FilterStep, ThreadStep
  <1>3. CASE At(t, "flushBase") /\ ~FlushBase(t)
    <2>1. ThreadStep(t)
      BY DEF FilterStep
    <2>2. \A op : At(t, op) => op = "flushBase"
      BY <1>3 DEF At
    <2> QED
      BY <1>3, <2>1, <2>2
      DEF ThreadStep, LinkPipeLine, Prepare, Start, Resume, Release, StartLike, ReleaseOnMuted,
          ReInitAndStart, OnMuted, Freeze, UnFreeze, HaltTask, StartTask, Flush,
          ClearAllNextFilters, Done, DoneOps, At, PrepareDone, ChangeState, WaitReached, EndWait,
          WaitFailed, WaitTimeout, GetErrCode, ProcessBuffer, SubmitBuffer, CheckDrop, ProcessDone
  <1> QED
    BY <1>1, <1>2, <1>3

\* The trees are empty at first.
LEMMA InitInv == Init => PipelineInv
  <1> SUFFICES ASSUME Init PROVE PipelineInv
    OBVIOUS
  <1> USE DEF Init, FilterInit
  <1>1. Types
    <2>1. FilterTypes
      <3>1. NewFilter \in FilterRecords
        BY DEF NewFilter, FilterRecords, FilterState, Status
      <3>2. NoTask \in TaskRecords
        BY DEF NoTask, TaskRecords, Halts
      <3>3. prog = [t \in Threads |-> prog[t]] /\ \A t \in Threads : prog[t] \in ProgsOf(t)
        BY DEF ProgsOf
      <3>4. result \in [Callers -> Status] /\ failures \in 0 .. MaxFails
        BY FilterAssumption DEF Status
      <3> QED
        BY <3>1, <3>2, <3>3, <3>4 DEF FilterTypes
    <2>2. PipelineTypes
      BY DEF PipelineTypes, Status
    <2> QED
      BY <2>1, <2>2 DEF Types
  <1>2. \A f \in Filters : CountersOk(f)
    BY FilterAssumption DEF CountersOk, NewFilter, NoTask
  <1>3. \A t \in Threads : FrontOk(t)
    BY DEF FrontOk
  <1>4. CallsOk
    BY DEF CallsOk, Threads
  <1>5. TreesOk /\ LinkedOnce
    BY DEF TreesOk, LinkedOnce, Linking, Range, Threads
  <1>6. Building
    BY DEF Building, Linking, Threads, NoTask
  <1> QED
    BY <1>1, <1>2, <1>3, <1>4, <1>5, <1>6 DEF PipelineInv

\* Every step keeps the invariant.
LEMMA NextKeeps == PipelineInv /\ [Next]_vars => PipelineInv'
  <1> SUFFICES ASSUME PipelineInv, [Next]_vars PROVE PipelineInv'
    OBVIOUS
  <1>1. ASSUME NEW c \in Callers, NEW op \in {"prepare", "start", "pause", "resume", "stop", "release"},
               Command(c, op)
        PROVE  PipelineInv'
    BY <1>1, CommandKeeps
  <1>2. ASSUME NEW c \in Callers,
               \/ PipelinePrepare(c) \/ PipelineStart(c) \/ PipelinePause(c) \/ PipelineResume(c)
               \/ PipelineStop(c) \/ PipelineRelease(c)
        PROVE  PipelineInv'
    BY <1>1, <1>2 DEF PipelinePrepare, PipelineStart, PipelinePause, PipelineResume,
                      PipelineStop, PipelineRelease
  <1>3. ASSUME NEW c \in Callers, PipelineFlush(c) PROVE PipelineInv'
    BY <1>3, PipelineFlushKeeps
  <1>4. ASSUME NEW c \in Callers, InsertHead(c) \/ ClearHeads(c) \/ Return(c) PROVE PipelineInv'
    BY <1>4, InsertHeadKeeps, ClearHeadsKeeps, ReturnKeeps
  <1>5. ASSUME NEW c \in Callers, NEW f \in Filters, AddHeadFilters(c, f) \/ RemoveHeadFilter(c, f)
        PROVE  PipelineInv'
    BY <1>5, AddHeadKeeps, RemoveKeeps
  <1>6. ASSUME NEW c \in Callers, NEW f \in Filters, NEW g \in Filters, LinkFilters(c, f, g)
        PROVE  PipelineInv'
    BY <1>6, LinkFiltersKeeps
  <1>7. ASSUME NEW c \in Callers, NEW op \in Ops[c], NEW f \in Filters, Direct(c, op, f)
        PROVE  PipelineInv'
    BY <1>7, DirectKeeps
  <1>8. ASSUME NEW t \in Threads, FilterStep(t) PROVE PipelineInv'
    BY <1>8, FilterStepKeeps
  <1>9. ASSUME NEW f \in Filters, TaskStep(f), UNCHANGED pipelineVars PROVE PipelineInv'
    BY <1>9, RunMessageKeeps, RunJobKeeps DEF TaskStep
  <1>10. CASE UNCHANGED vars
    <2>1. /\ filter' = filter /\ nextFilters' = nextFilters /\ task' = task
          /\ stateMutex' = stateMutex /\ prog' = prog /\ result' = result /\ failures' = failures
          /\ filters' = filters /\ mutex' = mutex /\ command' = command /\ nCalls' = nCalls
          /\ last' = last /\ clean' = clean
      BY <1>10 DEF vars, filterVars, pipelineVars
    <2>2. /\ FilterTypes /\ PipelineTypes /\ CallsOk /\ TreesOk /\ LinkedOnce /\ Building
          /\ (\A f \in Filters : CountersOk(f)) /\ \A t \in Threads : FrontOk(t)
      BY DEF PipelineInv, Types
    <2>3. FilterTypes'
      BY <2>1, <2>2 DEF FilterTypes
    <2>4. PipelineTypes'
      BY <2>1, <2>2 DEF PipelineTypes
    <2>5. \A f \in Filters : CountersOk(f)'
      BY <2>1, <2>2 DEF CountersOk
    <2>6. \A t \in Threads : FrontOk(t)'
      BY <2>1, <2>2 DEF FrontOk, BufferOk, SubmitOk, JobOk, LinkOk
    <2>7. CallsOk' /\ TreesOk' /\ LinkedOnce'
      BY <2>1, <2>2 DEF CallsOk, TreesOk, LinkedOnce, Linking
    <2>8. Building'
      BY <2>1, <2>2 DEF Building, Linking, Known, IsNext, Inserting
    <2> QED
      BY <2>3, <2>4, <2>5, <2>6, <2>7, <2>8 DEF PipelineInv, Types
  <1> QED
    BY <1>2, <1>3, <1>4, <1>5, <1>6, <1>7, <1>8, <1>9, <1>10 DEF Next

\* The invariant holds in every state.
LEMMA AlwaysPipelineInv == Spec => []PipelineInv
  BY InitInv, NextKeeps, PTL DEF Spec

\* What the invariant says of the types.
LEMMA InvTypes == PipelineInv => TypeOK
  <1> SUFFICES ASSUME PipelineInv PROVE TypeOK
    OBVIOUS
  <1>1. FilterTypes /\ PipelineTypes /\ \A f \in Filters : CountersOk(f)
    BY DEF PipelineInv, Types
  <1>2. ASSUME NEW f \in Filters
        PROVE  /\ filter[f].curState \in FilterState /\ filter[f].errCode \in Status
               /\ filter[f].jobIdxBase \in 0..filter[f].jobIdx /\ filter[f].jobIdx \in 0..MaxBuffers
               /\ task[f].state \in {"STARTED", "PAUSED", "STOPPED"}
               /\ task[f].exists => f \in Async
               /\ task[f].jobs \subseteq 1..filter[f].jobIdx
               /\ stateMutex[f] \in Callers \cup {None}
    <2>1. filter[f] \in FilterRecords /\ task[f] \in TaskRecords /\ stateMutex[f] \in Callers \cup {None}
      BY <1>1 DEF FilterTypes
    <2>2. CountersOk(f)
      BY <1>1
    <2> QED
      BY <2>1, <2>2, FilterAssumption DEF FilterRecords, TaskRecords, Halts, CountersOk
  <1>3. FilterTypeOK
    BY <1>1, <1>2 DEF FilterTypeOK, FilterTypes
  <1>4. Range(filters) \subseteq Filters
    BY <1>1 DEF PipelineTypes, Range
  <1> QED
    BY <1>1, <1>3, <1>4 DEF TypeOK, PipelineTypes

(* The state of the filters and of the pipeline has its types and bounds at
   every step: the tasks are those of asynchronous filters, and every job
   waiting in one is of a buffer that was given to it (filter.cpp:392).     *)
THEOREM PipelineTypeCorrect == Spec => []TypeOK
  BY AlwaysPipelineInv, InvTypes, PTL

\* What the invariant says of the jobs.
LEMMA InvDropped == PipelineInv => FlushedIsDropped
  <1> SUFFICES ASSUME PipelineInv, NEW f \in Filters, At(f, "process")
               PROVE  Head(prog[f]).idx > clean[f]
    BY DEF FlushedIsDropped
  <1>1. f \in Threads
    BY DEF Threads
  <1>2. /\ prog[f] # <<>> /\ Head(prog[f]) \in StepsOf(f) /\ Head(prog[f]).op = "process"
    BY <1>1, AtStep
  <1>3. Head(prog[f]).f = f
    BY <1>2 DEF StepsOf, JobOps
  <1>4. JobOk(Head(prog[f]))
    BY <1>1, <1>2 DEF PipelineInv, FrontOk
  <1> QED
    BY <1>2, <1>3, <1>4 DEF JobOk

(* A buffer given to a filter before a flush that met its task halted is never
   processed as a live one, whatever trees, callers and calls there are
   (filter.cpp:396 and :523).                                               *)
THEOREM FlushDropsBuffers == Spec => []FlushedIsDropped
  BY AlwaysPipelineInv, InvDropped, PTL
=============================================================================
